------------------------------ MODULE Consensus ------------------------------
(***************************************************************************)
(* What one slot of the log promises, whatever protocol runs it: replicas  *)
(* learn one decision, it never changes, and it is a value that somebody   *)
(* proposed for the slot.                                                  *)
(***************************************************************************)
CONSTANTS Replica, Value, NoValue

VARIABLES proposed,  \* the values proposed so far
          decision   \* what each replica knows to be decided

Init == /\ proposed = {}
        /\ decision = [i \in Replica |-> NoValue]

\* Several values may enter at once.
Propose == /\ \E V \in SUBSET Value : proposed' = proposed \cup V
           /\ UNCHANGED decision

Decide(i) ==
  /\ decision[i] = NoValue
  /\ \E v \in proposed :
       /\ \A j \in Replica : decision[j] \in {NoValue, v}
       /\ decision' = [decision EXCEPT ![i] = v]
  /\ UNCHANGED proposed

Next == Propose \/ \E i \in Replica : Decide(i)

Spec == Init /\ [][Next]_<<proposed, decision>>
=============================================================================
