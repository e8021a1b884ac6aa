------------------------------- MODULE MCLog -------------------------------
(***************************************************************************)
(* Small instances of ReplicaLog.  Slot s is decided with the value s,     *)
(* and value 3 is larger than the others.                                  *)
(***************************************************************************)
EXTENDS LogInvariant

MCChosen == [s \in Slot |-> s]
MCSize == [v \in Value |-> IF v = 3 THEN 2 ELSE 1]

\* As in MCSlot, messages that have been overtaken are no part of the view:
\* handling them changes nothing.
LiveHeader(i, m) ==
  i \in up /\ (rep[i].acked[m.from] < m.decided \/ rep[i].contig < m.decided)

Settles(i, s) == s <= rep[i].contig \/ IsDecided(rep[i], s)

LiveRecord(m) ==
  \E i \in Replica \ {m.from} :
    \/ LiveHeader(i, m)
    \/ i \in up /\ ~Settles(i, m.slot) /\ m.slot \notin rep[i].recorded
    \/ i \in up /\ m.slot > rep[i].gcFloor /\ Settles(i, m.slot)
         /\ m.from \in up /\ ~Settles(m.from, m.slot)

LiveDecide(m) == LiveHeader(m.to, m) \/ (m.to \in up /\ ~Settles(m.to, m.slot))
LivePing(m) == \E i \in Replica \ {m.from} : LiveHeader(i, m)
LiveLearn(m) ==
  LiveHeader(m.to, m) \/ (m.to \in up /\ m.from \in up /\ rep[m.from].contig < MaxSlot)
LiveLearnReply(m) ==
  LiveHeader(m.to, m) \/ (m.to \in up /\ rep[m.to].contig < MaxSlot)

\* At most MaxInFlight messages that have not been overtaken.
CONSTANTS MaxInFlight,
          Proposers  \* the replicas whose proposers are explored
BoundedNetwork ==
  Cardinality({m \in records : LiveRecord(m)}) + Cardinality({m \in decides : LiveDecide(m)})
  + Cardinality({m \in pings : LivePing(m)}) + Cardinality({m \in learns : LiveLearn(m)})
  + Cardinality({m \in learnReplies : LiveLearnReply(m)}) <= MaxInFlight

FewProposers == \A i \in Replica \ Proposers : RunningSlots(rep[i]) = {}

View ==
  <<rep, chunk, up,
    {m \in records : LiveRecord(m)}, {m \in decides : LiveDecide(m)},
    {m \in pings : LivePing(m)}, {m \in learns : LiveLearn(m)},
    {m \in learnReplies : LiveLearnReply(m)}>>

\* The network of ReplicaLog may never deliver a message.  Under a bound on the
\* messages in flight the loss has to be explicit, to make room for others.
Lose ==
  /\ \/ /\ \E m \in records : LiveRecord(m) /\ records' = records \ {m}
        /\ UNCHANGED <<decides, learns, learnReplies, pings>>
     \/ /\ \E m \in decides : LiveDecide(m) /\ decides' = decides \ {m}
        /\ UNCHANGED <<records, learns, learnReplies, pings>>
     \/ /\ \E m \in learns : LiveLearn(m) /\ learns' = learns \ {m}
        /\ UNCHANGED <<records, decides, learnReplies, pings>>
     \/ /\ \E m \in learnReplies : LiveLearnReply(m) /\ learnReplies' = learnReplies \ {m}
        /\ UNCHANGED <<records, decides, learns, pings>>
     \/ /\ \E m \in pings : LivePing(m) /\ pings' = pings \ {m}
        /\ UNCHANGED <<records, decides, learns, learnReplies>>
  /\ UNCHANGED <<rep, chunk, up>>

MCSpec == Init /\ [][Next \/ Lose]_vars

\* Replicas that lag.  The leader has proposed in slot 1, replica 2 has taken
\* part, replica 3 knows nothing, and each has pinged once.
LaggingInit ==
  /\ rep = [i \in Replica |->
              CASE i = Leader -> OpenedUpTo(NewReplica, 1, 1)
                [] i = 2 -> TookPart(NewReplica, 1)
                [] OTHER -> NewReplica]
  /\ chunk = [i \in Replica |-> NoChunk(i)]
  /\ up = Replica
  /\ records = {[from |-> Leader, slot |-> 1, decided |-> 0]}
  /\ pings = {[from |-> i, decided |-> 0] : i \in Replica}
  /\ decides = {} /\ learns = {} /\ learnReplies = {}

\* From there the leader decides, the decision reaches replica 2 at most, and
\* the leader may crash at any time.  Every action that Fairness speaks of is
\* there.
LaggingNext ==
  \/ DecideRunning(Leader) \/ OnDecide(2) \/ Crash(Leader)
  \/ \E i \in Replica :
       \/ PingTick(i) \/ OnPing(i) \/ LearnTick(i)
       \/ OnLearn(i) \/ OnLearnReply(i) \/ InstallLearned(i)

LaggingSpec == LaggingInit /\ [][LaggingNext]_vars /\ Fairness
=============================================================================
