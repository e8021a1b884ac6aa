--------------------------- MODULE PoolInvariant ---------------------------
(***************************************************************************)
(* The inductive invariant of CommandPool, from which its safety           *)
(* properties follow (PoolTheorems).                                       *)
(***************************************************************************)
EXTENDS CommandPool

\* The commands in the values of the first k slots, by the decisions D, and
\* the numbers of those of one origin.
DecidedTo(D, k) == UNION {UNION D[s] : s \in 1..k}
SeqsTo(D, o, k) == {c.seq : c \in {b \in DecidedTo(D, k) : b.origin = o}}

\* What a replica keeps follows from the slots that it has delivered, also in
\* the middle of a handler: Dedup holds their commands, with the mark as far up
\* as can be, the log has each of them in its first slot, and the pool none.
\* Whatever is claimed is claimed for a slot still to be delivered, in which
\* the replica runs or which the command has won.
Consistent(r, D) ==
  /\ r \in ReplicaState
  /\ \A s \in Slot : s <= r.contig => r.slots[s] = "decided"
  /\ \A s \in Slot : r.slots[s] = "decided" => D[s] # {}
  /\ \A o \in Replica :
       LET d == r.dedup[o]
       IN  /\ (1..d.highWater) \cup d.above = SeqsTo(D, o, r.contig)
           /\ \A n \in d.above : n > d.highWater + 1
  /\ r.log = [k \in 1..r.contig |-> (UNION D[k]) \ DecidedTo(D, k - 1)]
  /\ \A c \in DOMAIN r.pool : ~IsDelivered(r.dedup, c)
  /\ \A c \in DOMAIN r.pool :
       LET s == r.pool[c].proposedIn
       IN  s # 0 => /\ s > r.contig
                    /\ \/ r.slots[s] = "running"
                       \/ r.slots[s] = "decided" /\ c \in UNION D[s]
  /\ Cost(DOMAIN r.pool) <= MaxPool

\* One value is decided in a slot, and it was proposed there.
DecisionsReal ==
  \A s \in Slot : decisions[s] \subseteq proposals[s] /\ \A v, w \in decisions[s] : v = w

\* Everything around has been submitted.
AllSubmitted ==
  /\ \A s \in Slot : UNION proposals[s] \subseteq Submitted
  /\ \A m \in forwards : m.commands \subseteq Submitted
  /\ \A i \in Replica : DOMAIN rep[i].pool \subseteq Submitted

\* A command is only proposed in a slot when those of its origin that are a
\* window or more below it have been decided in earlier slots.
ProposedWithinWindow ==
  \A s \in Slot : \A c \in UNION proposals[s] :
    1..(c.seq - Window) \subseteq SeqsTo(decisions, c.origin, s - 1)

\* A command stays with its origin until it is delivered there.
KeptByOrigin ==
  \A c \in Submitted :
    c \in DOMAIN rep[c.origin].pool \/ IsDelivered(rep[c.origin].dedup, c)

Inv ==
  /\ TypeOK
  /\ \A i \in Replica : Consistent(rep[i], decisions)
  /\ DecisionsReal
  /\ AllSubmitted
  /\ ProposedWithinWindow
  /\ KeptByOrigin
  /\ BatchesFit
=============================================================================
