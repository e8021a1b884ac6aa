------------------------------- MODULE MCWire -------------------------------
(***************************************************************************)
(* Small instances of Wire: every kind of payload, with numbers of one     *)
(* digit, of more, and the greatest ones.                                  *)
(***************************************************************************)
EXTENDS Wire

Greatest == Power[Width64] - 1
Numbers == {1, Base + 2, Greatest}
Strings == {<<>>, <<0, 5>>}

Proposals == {<<1, 2, <<>>>>, <<Power[Width32] - 1, Greatest, <<3, 0>>>>}
Commands == {<<1, 0, 1, <<>>>>, <<2, Greatest, Base, <<7>>>>}

MCBatches == {<<>>} \cup {<<c>> : c \in Commands} \cup {<<c, d>> : c, d \in Commands}

Payloads ==
  {<<Record, <<s, 4, p>>>> : s \in Numbers, p \in Proposals}
  \cup {<<RecordReply, <<1, 4, t, f, p>>>> :
          t \in {4, Base}, f, p \in Proposals \cup {<<>>}}
  \cup {<<Decide, <<s, v>>>> : s \in Numbers, v \in Strings \cup {EncodeBatch(<<>>)}}
  \cup {<<Forward, <<c>>>> : c \in MCBatches}
  \cup {<<Learn, <<s>>>> : s \in Numbers}
  \cup {<<LearnReply, <<s, v>>>> : s \in Numbers, v \in {<<>>} \cup (Strings \X Strings)}
  \cup {<<Ping, <<>>>>}

MCMessages ==
  {[kind |-> p[1], from |-> f, decided |-> d, fields |-> p[2]] :
     p \in Payloads, f \in {1, Base}, d \in {0, Greatest}}
=============================================================================
