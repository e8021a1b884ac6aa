------------------------------- MODULE MCPool -------------------------------
(***************************************************************************)
(* Small instances of CommandPool.                                         *)
(***************************************************************************)
EXTENDS PoolInvariant

\* One command of the leader and three of the last replica; two of the latter.
MCFollowerMore == [i \in Replica |-> CASE i = N -> 3 [] i = Leader -> 1 [] OTHER -> 0]
\* The second command of a replica is larger than the others.
MCSize == [c \in Command |-> IF c.seq = 2 THEN 3 ELSE 1]

MCFollowerOnly == [i \in Replica |-> IF i = N THEN 2 ELSE 0]

\* As in MCSlot, messages that have been overtaken are no part of the view:
\* every command they carry has arrived.
LiveForward(m) ==
  m.to \in Up /\ \E c \in m.commands : c \in Fresh(rep[m.to], m.commands)

View == <<rep, {m \in forwards : LiveForward(m)}, proposals, decisions>>
=============================================================================
