----------------------------- MODULE ReplicaLog -----------------------------
(***************************************************************************)
(* The replicated log of N replicas (src/replica.rs): slots are opened,    *)
(* decided, delivered in order, retained for lagging replicas, freed once  *)
(* everybody has acknowledged them, and learned by replicas that missed    *)
(* the decision.  Each action is one input of a replica: a message handled *)
(* by receive, or one part of tick that has come due.                      *)
(*                                                                         *)
(* The network loses, duplicates and reorders, as in SlotConsensus.  Each  *)
(* message carries its sender's watermark (`decided` in the header).       *)
(* RecordReply is left out: it belongs to the slot protocol, and its       *)
(* header is that of a Ping.                                               *)
(***************************************************************************)
EXTENDS LogReplica

CONSTANTS ChunkBytes, \* LEARN_CHUNK_BYTES
          MaxCrashes  \* how many replicas may crash

ASSUME NetworkAssumption == ChunkBytes \in Nat \ {0} /\ MaxCrashes \in Nat

VARIABLES
  rep,      \* the state of each replica
  chunk,    \* the part of a LearnReply that a replica has still to install
  up,       \* the replicas that have not crashed
  records, decides, learns, learnReplies, pings  \* messages sent

vars == <<rep, chunk, up, records, decides, learns, learnReplies, pings>>

\* A Record or a Ping goes to every other replica.
RecordMsg == [from : Replica, slot : Slot, decided : Watermark]
PingMsg == [from : Replica, decided : Watermark]
DecideMsg == [from : Replica, to : Replica, slot : Slot, value : Value,
              decided : Watermark]
LearnMsg == [from : Replica, to : Replica, fromSlot : Nat, decided : Watermark]
LearnReplyMsg == [from : Replica, to : Replica, first : Slot, values : Seq(Value),
                  decided : Watermark]

QuorumSize == (N \div 2) + 1

\* No chunk is being installed.
Idle(i) == chunk[i].values = <<>>
NoChunk(i) == [from |-> i, to |-> i, first |-> 1, values |-> <<>>, decided |-> 0]
Alive(i) == i \in up /\ Idle(i)

Init ==
  /\ rep = [i \in Replica |-> NewReplica]
  /\ chunk = [i \in Replica |-> NoChunk(i)]
  /\ up = Replica
  /\ records = {} /\ decides = {} /\ learns = {} /\ learnReplies = {} /\ pings = {}

-----------------------------------------------------------------------------
\* Replica i moves to the state r and sends everybody a Record for each slot it
\* starts to propose in (activate, drive).
Move(i, r) ==
  /\ rep' = [rep EXCEPT ![i] = r]
  /\ records' = records \cup
       {[from |-> i, slot |-> s, decided |-> r.contig] :
          s \in RunningSlots(r) \ RunningSlots(rep[i])}

\* receive, before the payload: the watermark of the header.
Heard(r, j, w) == [r EXCEPT !.acked[j] = IF @ < w THEN w ELSE @]

\* Mutants: the request skips a slot; the watermark of its header is the slot
\* it asks for.
RequestSkipping(i, r, j) ==
  [from |-> i, to |-> j, fromSlot |-> r.contig + 2, decided |-> r.contig]

RequestAsHeader(i, r, j) ==
  [from |-> i, to |-> j, fromSlot |-> r.contig + 1, decided |-> r.contig + 1]

\* The Learn message: everything from the slot after the watermark.
LearnRequest(i, r, j) ==
  [from |-> i, to |-> j, fromSlot |-> r.contig + 1, decided |-> r.contig]

\* maybe_request_learn, and the trailing maybe_gc of receive, when replica i in
\* the state r has handled a message of j with watermark w.  A request in
\* flight holds back another one until it times out.
Epilogue(i, r, j, w) ==
  \/ /\ w <= r.contig \/ r.learning
     /\ \E q \in Collected(r) : Move(i, q)
     /\ UNCHANGED learns
  \/ /\ w > r.contig
     /\ \E q \in Collected([r EXCEPT !.learning = TRUE]) : Move(i, q)
     /\ learns' = learns \cup {LearnRequest(i, r, j)}

-----------------------------------------------------------------------------
(* Messages received. *)

\* receive(Ping).
OnPing(i) ==
  /\ Alive(i)
  /\ \E m \in pings :
       /\ m.from # i
       /\ Epilogue(i, Heard(rep[i], m.from, m.decided), m.from, m.decided)
  /\ UNCHANGED <<chunk, up, decides, learnReplies, pings>>

\* Mutant: a freed slot is not ignored.
IgnoresFarOnly(r, s) == s > r.contig + AheadWindow

\* receive(Record): on_record ignores a freed slot and one too far ahead,
\* answers a decided slot with its value, and otherwise takes part.
Ignores(r, s) == s <= r.gcFloor \/ s > r.contig + AheadWindow
TookPart(r, s) == [Observed(r, s) EXCEPT !.recorded = @ \cup {s}]

OnRecord(i) ==
  /\ Alive(i)
  /\ \E m \in records :
       LET r == Heard(rep[i], m.from, m.decided)
       IN  /\ m.from # i
           /\ IF ~Ignores(r, m.slot) /\ IsDecided(r, m.slot)
                THEN decides' = decides \cup
                       {[from |-> i, to |-> m.from, slot |-> m.slot,
                         value |-> r.retained[m.slot], decided |-> r.contig]}
                ELSE UNCHANGED decides
           /\ IF ~Ignores(r, m.slot) /\ ~IsDecided(r, m.slot)
                THEN Epilogue(i, TookPart(r, m.slot), m.from, m.decided)
                ELSE Epilogue(i, r, m.from, m.decided)
  /\ UNCHANGED <<chunk, up, learnReplies, pings>>

\* receive(Decide).
OnDecide(i) ==
  /\ Alive(i)
  /\ \E m \in decides :
       /\ m.to = i
       /\ \E r \in DecideSlot(i, Heard(rep[i], m.from, m.decided), m.slot, m.value, FALSE) :
            Epilogue(i, r, m.from, m.decided)
  /\ UNCHANGED <<chunk, up, decides, learnReplies, pings>>

\* receive(Learn): on_learn answers with the values from the requested slot on,
\* if they are delivered and not freed, up to the value that fills the chunk.
LastOfChunk(r, from) ==
  CHOOSE l \in from..r.contig :
    /\ l = r.contig \/ SizeOf(r, from..l) >= ChunkBytes
    /\ SizeOf(r, from..(l - 1)) < ChunkBytes

OnLearn(i) ==
  /\ Alive(i)
  /\ \E m \in learns :
       LET r == Heard(rep[i], m.from, m.decided)
       IN  /\ m.to = i
           /\ IF m.fromSlot <= r.gcFloor \/ m.fromSlot > r.contig
                THEN UNCHANGED learnReplies
                ELSE learnReplies' = learnReplies \cup
                       {[from |-> i, to |-> m.from, first |-> m.fromSlot,
                         values |-> [k \in 1..(LastOfChunk(r, m.fromSlot) - m.fromSlot + 1) |->
                                       r.retained[m.fromSlot + k - 1]],
                         decided |-> r.contig]}
           /\ Epilogue(i, r, m.from, m.decided)
  /\ UNCHANGED <<chunk, up, decides, pings>>

\* Mutant: the next value is taken to be that of the frontier.
RestAtFrontier(m, q) == [m EXCEPT !.first = q.contig + 1, !.values = Tail(@)]

\* on_learn_reply: what is left of a chunk when q is the state of the replica.
Rest(m, q) == [m EXCEPT !.first = @ + 1, !.values = Tail(@)]

\* receive(LearnReply): on_learn_reply installs the values one after the other.
\* The loop takes a step for each value (InstallLearned for all but the first),
\* and the replica does nothing else before it is through.
Install(i, r, m) ==
  \E q \in DecideSlot(i, r, m.first, Head(m.values), FALSE) :
    IF Len(m.values) = 1
      THEN /\ chunk' = [chunk EXCEPT ![i] = NoChunk(i)]
           /\ Epilogue(i, q, m.from, m.decided)
      ELSE /\ chunk' = [chunk EXCEPT ![i] = Rest(m, q)]
           /\ Move(i, q)
           /\ UNCHANGED learns

OnLearnReply(i) ==
  /\ Alive(i)
  /\ \E m \in learnReplies :
       /\ m.to = i
       /\ Install(i, [Heard(rep[i], m.from, m.decided) EXCEPT !.learning = FALSE], m)
  /\ UNCHANGED <<up, decides, learnReplies, pings>>

InstallLearned(i) ==
  /\ i \in up /\ ~Idle(i)
  /\ Install(i, rep[i], chunk[i])
  /\ UNCHANGED <<up, decides, learnReplies, pings>>

\* The slot protocol decides: on_record_reply completes a step of a running
\* proposer, which takes the part of a majority of recorders.
DecideRunning(i) ==
  /\ Alive(i)
  /\ \E s \in RunningSlots(rep[i]) :
       /\ Cardinality({j \in Replica : s \in rep[j].recorded}) >= QuorumSize
       /\ \E r \in DecideSlot(i, rep[i], s, Chosen[s], TRUE) : Move(i, r)
       /\ decides' = decides \cup
            {[from |-> i, to |-> j, slot |-> s, value |-> Chosen[s],
              decided |-> rep[i].contig] : j \in Replica \ {i}}
  /\ UNCHANGED <<chunk, up, learns, learnReplies, pings>>

-----------------------------------------------------------------------------
(* Timers and commands. *)

\* maybe_open_slots after a submission or a forwarded command.
OpenSlots(i) ==
  /\ Alive(i)
  /\ \E r \in Opened(i, rep[i]) : Move(i, r)
  /\ UNCHANGED <<chunk, up, decides, learns, learnReplies, pings>>

\* ensure_frontier_observed: because of pending commands, or of slots beyond.
ObserveFrontier(i) ==
  /\ Alive(i)
  /\ rep[i].contig < MaxSlot
  /\ Move(i, Observed(rep[i], rep[i].contig + 1))
  /\ UNCHANGED <<chunk, up, decides, learns, learnReplies, pings>>

\* hedge_activate_due, for a slot that has come due.
Hedge(i) ==
  /\ Alive(i)
  /\ \E s \in DOMAIN rep[i].slots :
       /\ s > rep[i].contig /\ rep[i].slots[s] = "idle"
       /\ Move(i, [rep[i] EXCEPT !.slots = Put(@, s, "running"),
                                 !.recorded = @ \cup {s}])
  /\ UNCHANGED <<chunk, up, decides, learns, learnReplies, pings>>

\* retransmit_due: the Record again, under the present watermark.
Retransmit(i) ==
  /\ Alive(i)
  /\ \E s \in RunningSlots(rep[i]) :
       records' = records \cup {[from |-> i, slot |-> s, decided |-> rep[i].contig]}
  /\ UNCHANGED <<rep, chunk, up, decides, learns, learnReplies, pings>>

\* Mutant: the count of timeouts is not kept.
TimedOutSamePeer(r) == [r EXCEPT !.learning = FALSE]

\* learn_tick: give up a request that has timed out, then ask a peer known to
\* be ahead, the next one after each timeout.
TimedOut(r) ==
  IF r.learning
    THEN [r EXCEPT !.learning = FALSE, !.attempts = (@ + 1) % Attempts]
    ELSE r

LearnTick(i) ==
  LET r == TimedOut(rep[i])
  IN  /\ Alive(i)
      /\ IF PeersAhead(i, r) = {}
           THEN rep' = [rep EXCEPT ![i] = r] /\ UNCHANGED learns
           ELSE /\ rep' = [rep EXCEPT ![i] = [r EXCEPT !.learning = TRUE]]
                /\ learns' = learns \cup {LearnRequest(i, r, LearnTarget(i, r))}
      /\ UNCHANGED <<chunk, up, records, decides, learnReplies, pings>>

\* ping_tick.
PingTick(i) ==
  /\ Alive(i)
  /\ pings' = pings \cup {[from |-> i, decided |-> rep[i].contig]}
  /\ UNCHANGED <<rep, chunk, up, records, decides, learns, learnReplies>>

\* Crash-stop, at any point.
Crash(i) ==
  /\ i \in up /\ Cardinality(Replica \ up) < MaxCrashes
  /\ up' = up \ {i}
  /\ UNCHANGED <<rep, chunk, records, decides, learns, learnReplies, pings>>

Next ==
  \E i \in Replica :
    \/ OnPing(i) \/ OnRecord(i) \/ OnDecide(i) \/ OnLearn(i) \/ OnLearnReply(i)
    \/ InstallLearned(i) \/ DecideRunning(i)
    \/ OpenSlots(i) \/ ObserveFrontier(i) \/ Hedge(i) \/ Retransmit(i)
    \/ LearnTick(i) \/ PingTick(i)
    \/ Crash(i)

Spec == Init /\ [][Next]_vars

\* A replica that is up keeps ticking, and what is sent to it again and again
\* (pings; Learn requests and so their answers) eventually gets through.
\* Nothing is assumed of Decide, which is broadcast once, nor of proposers, and
\* a ping need not happen to find a request in flight timed out.
OnPingInTime(i) == OnPing(i) /\ (rep[i].learning => UNCHANGED learns)

Fairness ==
  \A i \in Replica :
    /\ WF_vars(PingTick(i)) /\ WF_vars(LearnTick(i))
    /\ WF_vars(OnPingInTime(i)) /\ WF_vars(OnLearn(i))
    /\ WF_vars(OnLearnReply(i)) /\ WF_vars(InstallLearned(i))

FairSpec == Spec /\ Fairness

-----------------------------------------------------------------------------
(* Properties. *)

\* The types of the variables.
TypeOK ==
  /\ rep \in [Replica -> ReplicaState]
  /\ chunk \in [Replica -> LearnReplyMsg]
  /\ up \subseteq Replica
  /\ records \subseteq RecordMsg /\ pings \subseteq PingMsg
  /\ decides \subseteq DecideMsg
  /\ learns \subseteq LearnMsg /\ learnReplies \subseteq LearnReplyMsg

\* "Emitted strictly in slot order with no gaps, on every replica, with
\* identical contents" (Action::Deliver): the delivered sequences are prefixes
\* of one log and only grow, however a replica came by the decisions.
LongestLog ==
  LET i == CHOOSE x \in Replica : \A y \in Replica : rep[y].contig <= rep[x].contig
  IN  rep[i].delivered
O == INSTANCE OrderedLog WITH log <- LongestLog,
                              delivered <- [i \in Replica |-> rep[i].delivered]
ImplementsOrderedLog == O!Spec

\* Slot s is delivered with its own value: no handler shifts values between
\* slots (first_slot + offset in on_learn_reply).
LogPrefix ==
  \A i \in Replica : rep[i].delivered = [s \in 1..rep[i].contig |-> Chosen[s]]

\* "Retention is contiguous through decided_contig", the expect() that would
\* panic in on_learn: GC and the escape hatch leave no hole.
RetentionContiguous ==
  \A i \in Replica :
    (rep[i].gcFloor + 1)..rep[i].contig \subseteq DOMAIN rep[i].retained

\* What a replica believes a peer has delivered, the peer has delivered: GC
\* counts on it, whatever the order in which messages arrive.
WatermarksAreReal ==
  \A i, j \in Replica : rep[i].acked[j] <= rep[j].contig

\* While no budget forces it, nobody frees a slot that some replica has still
\* to deliver, so whoever is ahead can serve whoever is behind.
NothingNeededIsFreed ==
  MaxRetained >= SumFunction([s \in Slot |-> Size[Chosen[s]]]) =>
    \A i, j \in Replica : rep[i].gcFloor <= rep[j].contig

\* Once a replica has decided or freed a slot it never opens a register for it
\* again, whatever stragglers still send: a fresh register would take part in
\* a second decision of the slot.
SettledStaysSettled ==
  [][\A i \in Replica, s \in Slot :
       s <= rep[i].gcFloor \/ IsDecided(rep[i], s) =>
         /\ s <= rep'[i].gcFloor \/ IsDecided(rep'[i], s)
         /\ s <= rep'[i].gcFloor => s \notin DOMAIN rep'[i].slots
    ]_vars

\* The retention budget: a replica whose retained values exceed it retains
\* nothing it could free, only decisions ahead of its frontier; and its running
\* count of their bytes has not drifted from what is there.
BudgetHolds ==
  \A i \in Replica :
    /\ rep[i].bytes = SizeOf(rep[i], Slot)
    /\ SizeOf(rep[i], Slot) > MaxRetained =>
         \A s \in DOMAIN rep[i].retained : s > rep[i].contig

\* Own decisions are kept whatever the budget, so their number must be bounded
\* otherwise: whoever proposes, leader or hedger, proposes within the ahead
\* window of its frontier, although later slots keep deciding over a stuck one.
ProposersNearFrontier ==
  \A i \in Replica, s \in Slot :
    s \in RunningSlots(rep[i]) => s <= rep[i].contig + AheadWindow

\* The budget never refuses a learned value: "Learn re-fetches it once the
\* frontier advances".  Whenever a value of a LearnReply is handled, its slot is
\* at the frontier or delivered already, even if the reply comes late or twice.
LearnedIsInPlace ==
  /\ \A m \in learnReplies : m.first <= rep[m.to].contig + 1
  /\ \A i \in Replica : ~Idle(i) => chunk[i].first <= rep[i].contig + 1

\* "Proposers only run within the pipeline of the frontier" (decide_slot).
ProposersWithinPipeline ==
  \A i \in Replica, s \in Slot :
    s \in RunningSlots(rep[i]) => s <= rep[i].contig + Pipeline

\* "Freed slots are only ever probed by stragglers that have themselves
\* delivered past them" (on_record).
FreedSlotsProbedOnlyByDelivered ==
  \A m \in records, i \in Replica :
    m.slot <= rep[i].gcFloor => m.slot <= rep[m.from].contig

\* A replica that stays up delivers whatever a peer that stays up has
\* delivered, although the peer it asks first may be dead.
LaggardsCatchUp ==
  \A i, j \in Replica, s \in Slot :
    [](rep[j].contig >= s => <>(rep[i].contig >= s \/ i \notin up \/ j \notin up))
=============================================================================
