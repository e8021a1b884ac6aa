------------------------------ MODULE Proposals ------------------------------
(***************************************************************************)
(* The unit of consensus within one slot (src/types.rs): a value under a   *)
(* priority and the identity of its proposer, and the total order on them. *)
(*                                                                         *)
(* Replicas are named by their position in the hedging schedule, counted   *)
(* from 1.  Config::new sorts the membership by replica id, so the order   *)
(* of positions is the order of ids that breaks ties between priorities.   *)
(* A value stands for an encoded command batch; only the order of values   *)
(* matters, so values are positive integers.                               *)
(***************************************************************************)
EXTENDS Integers, FiniteSets

CONSTANTS N,          \* number of replicas
          PriorityH,  \* the reserved fast-path priority (u32::MAX in the code)
          Value       \* the values that can be proposed

ASSUME NAssumption == N \in Nat /\ N >= 2
ASSUME PriorityAssumption == PriorityH \in Nat /\ PriorityH >= 2
ASSUME ValueAssumption == Value \subseteq Nat \ {0}

Replica == 1..N
Leader == 1

\* Majorities: `quorum` is n / 2 + 1.
QuorumSize == (N \div 2) + 1

Proposal == [priority : 1..PriorityH, proposer : Replica, value : Value]

\* Option::None where the code has an Option<Proposal>: "0 is the ISR nil
\* value and is never sent".  It is below every proposal.
Nil == [priority |-> 0, proposer |-> 0, value |-> 0]
ProposalOrNil == Proposal \cup {Nil}

\* impl Ord for Proposal: lexicographic in (priority, proposer, value).
Less(p, q) ==
  \/ p.priority < q.priority
  \/ p.priority = q.priority /\ p.proposer < q.proposer
  \/ p.priority = q.priority /\ p.proposer = q.proposer /\ p.value < q.value

Leq(p, q) == p = q \/ Less(p, q)

Highest(p, q) == IF Less(p, q) THEN q ELSE p

\* p is the greatest element of the set S of proposals (Nil included).
IsHighest(p, S) == p \in S /\ \A q \in S : Leq(q, p)
=============================================================================
