-------------------------------- MODULE Wire --------------------------------
(***************************************************************************)
(* The wire format: Message::encode and Message::decode of src/wire.rs,    *)
(* and encode_batch, decode_batch and Cursor of src/types.rs.  A message   *)
(* is sent, its bytes may be cut short, extended or changed on the way,    *)
(* and what arrives is decoded.                                            *)
(*                                                                         *)
(* Bytes are digits in base Base, and a u32 or a u64 has Width32 or        *)
(* Width64 of them, the least significant first.  The fields of a payload, *)
(* a proposal or a command are a tuple, in the order of the code.          *)
(***************************************************************************)
EXTENDS Integers, SequencesExt

CONSTANTS Base,              \* 256
          Width32, Width64,  \* 4 and 8
          Messages,          \* the messages that are sent
          Batches            \* the command batches that are encoded as values

ASSUME WidthsAssumption ==
  /\ Base \in Nat /\ Base > 7 /\ {Width32, Width64} \subseteq Nat \ {0}

Power[k \in Nat] == IF k = 0 THEN 1 ELSE Base * Power[k - 1]

Byte == 0..(Base - 1)
U32 == 0..(Power[Width32] - 1)
U64 == 0..(Power[Width64] - 1)

\* A Vec<T> that can be sent: its length is a u32.
List(T) == {s \in Seq(T) : Len(s) \in U32}
Value == List(Byte)

Proposal == (U32 \ {0}) \X (U64 \ {0}) \X Value
Command == U64 \X U64 \X U64 \X Value

\* ReplyFirst, and Option<Proposal>: <<>> stands for Echo and for None.
Optional == Proposal \cup {<<>>}

Version == 1

\* Payload::kind.
Record == 1
RecordReply == 2
Decide == 3
Forward == 4
Learn == 5
LearnReply == 6
Ping == 7

Kind == Record..Ping

Fields(kind) ==
  CASE kind = Record -> U64 \X U32 \X Proposal
    [] kind = RecordReply -> U64 \X U32 \X U32 \X Optional \X Optional
    [] kind = Decide -> U64 \X Value
    [] kind = Forward -> [1..1 -> List(Command)]
    [] kind = Learn -> [1..1 -> U64]
    [] kind = LearnReply -> U64 \X List(Value)
    [] kind = Ping -> {<<>>}

IsMessage(m) ==
  m.kind \in Kind /\ m \in [kind : Kind, from : U64 \ {0}, decided : U64, fields : Fields(m.kind)]
IsBatch(b) == b \in List(Command)

ASSUME MessagesAssumption == (\A m \in Messages : IsMessage(m)) /\ (\A b \in Batches : IsBatch(b))

-----------------------------------------------------------------------------
(* Encoding. *)

LittleEndian(n, width) == [k \in 1..width |-> (n \div Power[k - 1]) % Base]

\* Mutant: the most significant byte first.
Put32BigEndian(n) == Reverse(LittleEndian(n, Width32))

Put32(n) == LittleEndian(n, Width32)
Put64(n) == LittleEndian(n, Width64)

\* encode_bytes, encode_proposal, encode_command_id with the data.
PutBytes(data) == Put32(Len(data)) \o data
PutProposal(p) == Put32(p[1]) \o Put64(p[2]) \o PutBytes(p[3])
PutCommand(c) == Put64(c[1]) \o Put64(c[2]) \o Put64(c[3]) \o PutBytes(c[4])

PutOptional(p) == IF p = <<>> THEN <<0>> ELSE <<1>> \o PutProposal(p)

\* A list is preceded by the number of its elements.
PutList(type, items) ==
  Put32(Len(items)) \o FlattenSeq([k \in 1..Len(items) |->
    IF type = "command" THEN PutCommand(items[k]) ELSE PutBytes(items[k])])

PutPayload(kind, f) ==
  CASE kind = Record -> Put64(f[1]) \o Put32(f[2]) \o PutProposal(f[3])
    [] kind = RecordReply ->
         Put64(f[1]) \o Put32(f[2]) \o Put32(f[3]) \o PutOptional(f[4]) \o PutOptional(f[5])
    [] kind = Decide -> Put64(f[1]) \o PutBytes(f[2])
    [] kind = Forward -> PutList("command", f[1])
    [] kind = Learn -> Put64(f[1])
    [] kind = LearnReply -> Put64(f[1]) \o PutList("bytes", f[2])
    [] kind = Ping -> <<>>

\* Message::encode.
Encode(m) ==
  <<Version, m.kind>> \o Put64(m.from) \o Put64(m.decided) \o PutPayload(m.kind, m.fields)

\* encode_batch; the tag byte is VALUE_TAG_BATCH.
EncodeBatch(commands) == <<0>> \o PutList("command", commands)

-----------------------------------------------------------------------------
(* Decoding.  Cursor: what was read, if anything, and the rest of the bytes. *)

Fail == [ok |-> FALSE, value |-> <<>>, rest |-> <<>>]
Got(value, rest) == [ok |-> TRUE, value |-> value, rest |-> rest]
Then(read, F(_, _)) == IF read.ok THEN F(read.value, read.rest) ELSE Fail

TakeBytes(n, b) ==
  IF n > Len(b) THEN Fail ELSE Got(SubSeq(b, 1, n), SubSeq(b, n + 1, Len(b)))

\* from_le_bytes: the number of the k most significant digits, for each k.
Number(digits) ==
  LET top[k \in 0..Len(digits)] ==
        IF k = 0 THEN 0 ELSE digits[Len(digits) - k + 1] + Base * top[k - 1]
  IN  top[Len(digits)]

TakeNumber(width, b) ==
  Then(TakeBytes(width, b), LAMBDA digits, rest : Got(Number(digits), rest))

\* Cursor::u8, u32, u64, and decode_bytes.
Take(type, b) ==
  CASE type = "u8" -> TakeNumber(1, b)
    [] type = "u32" -> TakeNumber(Width32, b)
    [] type = "u64" -> TakeNumber(Width64, b)
    [] type = "bytes" -> Then(TakeNumber(Width32, b), TakeBytes)

\* Items of the given types, one after the other.
InOrder(Item(_, _), types, b) ==
  LET upTo[n \in 0..Len(types)] ==
        IF n = 0 THEN Got(<<>>, b)
        ELSE Then(upTo[n - 1], LAMBDA values, rest :
               Then(Item(types[n], rest), LAMBDA v, rest2 : Got(Append(values, v), rest2)))
  IN  upTo[Len(types)]

\* Mutant: the nil priority and the reserved id are let in.
TakeProposalUnchecked(b) == InOrder(Take, <<"u32", "u64", "bytes">>, b)

\* decode_proposal: neither the priority nor the proposer is zero.
TakeProposal(b) ==
  Then(InOrder(Take, <<"u32", "u64", "bytes">>, b), LAMBDA p, rest :
    IF p[1] = 0 \/ p[2] = 0 THEN Fail ELSE Got(p, rest))

\* Mutant: any other tag is taken for 1.
TakeOptionalLoose(b) ==
  Then(Take("u8", b), LAMBDA tag, rest :
    IF tag = 0 THEN Got(<<>>, rest) ELSE TakeProposal(rest))

TakeOptional(b) ==
  Then(Take("u8", b), LAMBDA tag, rest :
    CASE tag = 0 -> Got(<<>>, rest)
      [] tag = 1 -> TakeProposal(rest)
      [] OTHER -> Fail)

\* decode_command_id with the data, or any primitive.
TakeElement(type, b) ==
  IF type = "command" THEN InOrder(Take, <<"u64", "u64", "u64", "bytes">>, b) ELSE Take(type, b)

TakeList(type, b) ==
  Then(Take("u32", b), LAMBDA count, rest :
    InOrder(TakeElement, [k \in 1..count |-> type], rest))

TakeField(type, b) ==
  CASE type = "proposal" -> TakeProposal(b)
    [] type = "optional" -> TakeOptional(b)
    [] type = "commands" -> TakeList("command", b)
    [] type = "values" -> TakeList("bytes", b)
    [] OTHER -> Take(type, b)

\* The fields that decode reads for each kind of payload.
Layout[kind \in Kind] ==
  CASE kind = Record -> <<"u64", "u32", "proposal">>
    [] kind = RecordReply -> <<"u64", "u32", "u32", "optional", "optional">>
    [] kind = Decide -> <<"u64", "bytes">>
    [] kind = Forward -> <<"commands">>
    [] kind = Learn -> <<"u64">>
    [] kind = LearnReply -> <<"u64", "values">>
    [] kind = Ping -> <<>>

\* Mutant: what is left over is ignored.
FinishedAnyway(value, rest) == Got(value, rest)

\* Cursor::finished.
Finished(value, rest) == IF rest = <<>> THEN Got(value, rest) ELSE Fail

\* Message::decode.
Decode(b) ==
  Then(InOrder(Take, <<"u8", "u8", "u64", "u64">>, b), LAMBDA h, rest :
    IF h[1] # Version \/ h[2] \notin Kind \/ h[3] = 0
      THEN Fail
      ELSE Then(InOrder(TakeField, Layout[h[2]], rest), LAMBDA fields, rest2 :
             Finished([kind |-> h[2], from |-> h[3], decided |-> h[4], fields |-> fields],
                      rest2)))

\* decode_batch.
DecodeBatch(b) ==
  Then(Take("u8", b), LAMBDA tag, rest :
    IF tag # 0 THEN Fail ELSE Then(TakeList("command", rest), Finished))

-----------------------------------------------------------------------------
(* A message, or a batch, on its way. *)

VARIABLES codec,  \* "message" or "batch"
          sent,   \* what was encoded
          wire,   \* its bytes
          damage  \* what happened to them: "none", "cut", "extended", "changed"

vars == <<codec, sent, wire, damage>>

Init ==
  /\ damage = "none"
  /\ \/ codec = "message" /\ sent \in Messages /\ wire = Encode(sent)
     \/ codec = "batch" /\ sent \in Batches /\ wire = EncodeBatch(sent)

Damage(kind) == damage = "none" /\ damage' = kind /\ UNCHANGED <<codec, sent>>

Cut == Damage("cut") /\ \E n \in 0..(Len(wire) - 1) : wire' = SubSeq(wire, 1, n)
Extend == Damage("extended") /\ \E d \in Byte : wire' = Append(wire, d)
Change == Damage("changed") /\ \E k \in 1..Len(wire), d \in Byte :
            wire[k] # d /\ wire' = [wire EXCEPT ![k] = d]

Next == Cut \/ Extend \/ Change

Spec == Init /\ [][Next]_vars

Arrived == IF codec = "message" THEN Decode(wire) ELSE DecodeBatch(wire)

-----------------------------------------------------------------------------
(* Properties. *)

\* The types of the variables; and whatever the damage, what decodes is a message
\* or a batch: it has a sender, and the proposals of a Record or a RecordReply are
\* never nil: the slot protocol takes a priority of 0 for "nothing yet".
TypeOK ==
  /\ codec \in {"message", "batch"} /\ wire \in Seq(Byte)
  /\ damage \in {"none", "cut", "extended", "changed"}
  /\ Arrived.ok => IF codec = "message" THEN IsMessage(Arrived.value)
                                        ELSE IsBatch(Arrived.value)

\* What is encoded decodes to itself, for every kind of payload and for batches:
\* encode and decode agree on the order, the widths and the counts.
RoundTrip == damage = "none" => Arrived = Got(sent, <<>>)

\* "Rejects truncated input and trailing garbage": no message is a prefix of
\* another, so a transport that loses or adds bytes at the end is noticed.
PrefixFree == damage \in {"cut", "extended"} => ~Arrived.ok

\* The encoding is canonical: bytes that decode are the ones that their meaning
\* encodes to.  Two replicas that hold equal batches hold equal bytes, which is
\* how Proposal compares values; and no two byte strings pass for one message.
Canonical ==
  Arrived.ok =>
    wire = IF codec = "message" THEN Encode(Arrived.value) ELSE EncodeBatch(Arrived.value)
=============================================================================
