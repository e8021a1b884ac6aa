---------------------------- MODULE LogInvariant ----------------------------
(***************************************************************************)
(* The inductive invariant of ReplicaLog, from which its safety properties *)
(* follow (LogTheorems).                                                   *)
(***************************************************************************)
EXTENDS ReplicaLog

\* The size of the whole log.
AllBytes == SumFunction([s \in Slot |-> Size[Chosen[s]]])

\* What a replica keeps is consistent, also in the middle of a handler: it
\* retains exactly what it has decided and not freed, without a hole below the
\* watermark, each value in its slot, and its count of the bytes is right.  It
\* knows no slot that it has freed, and takes part only near the frontier.
\* Without need it frees nothing that a peer has not acknowledged.
Sound(r) ==
  /\ r \in ReplicaState
  /\ r.gcFloor <= r.contig
  /\ (r.gcFloor + 1)..r.contig \subseteq DOMAIN r.retained
  /\ \A s \in DOMAIN r.slots : s > r.gcFloor
  /\ \A s \in Slot : s \in DOMAIN r.retained <=> IsDecided(r, s)
  /\ \A s \in DOMAIN r.retained : r.retained[s] = Chosen[s]
  /\ r.delivered = [s \in 1..r.contig |-> Chosen[s]]
  /\ r.bytes = SizeOf(r, Slot)
  /\ \A s \in DOMAIN r.slots : r.slots[s] # "decided" => s <= r.contig + AheadWindow
  /\ MaxRetained >= AllBytes => \A j \in Replica : r.gcFloor <= r.acked[j]

\* Between two inputs, also: it has delivered as far as it can, its own
\* acknowledgement says so, and it is within the budget if it can be.
WithinBudget(r) ==
  SizeOf(r, Slot) > MaxRetained => \A s \in DOMAIN r.retained : s > r.contig

AtRest(i, r) ==
  /\ Sound(r) /\ WithinBudget(r)
  /\ r.contig + 1 \notin DOMAIN r.retained
  /\ r.acked[i] = r.contig

\* The messages sent: no watermark exceeds what the sender has delivered since,
\* values are those of their slots, and a replica only asks for the slots from
\* its own frontier on, or earlier ones.
HeaderReal(R, m) == m.decided <= R[m.from].contig

ChunkReal(R, m) ==
  /\ m.values # <<>>
  /\ HeaderReal(R, m)
  /\ m.first + Len(m.values) - 1 <= m.decided
  /\ \A k \in 1..Len(m.values) : m.values[k] = Chosen[m.first + k - 1]
  /\ m.first <= R[m.to].contig + 1

MessagesReal ==
  /\ \A m \in records \cup pings : HeaderReal(rep, m)
  /\ \A m \in decides : HeaderReal(rep, m) /\ m.value = Chosen[m.slot]
  /\ \A m \in learns : HeaderReal(rep, m) /\ m.fromSlot <= rep[m.from].contig + 1
  /\ \A m \in learnReplies : ChunkReal(rep, m)

\* A chunk that is being installed is a LearnReply, or what is left of it.
ChunksReal == \A i \in Replica : ~Idle(i) => chunk[i].to = i /\ ChunkReal(rep, chunk[i])

Inv ==
  /\ TypeOK
  /\ \A i \in Replica : AtRest(i, rep[i])
  /\ WatermarksAreReal
  /\ MessagesReal
  /\ ChunksReal
=============================================================================
