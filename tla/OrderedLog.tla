----------------------------- MODULE OrderedLog -----------------------------
(***************************************************************************)
(* What the replicated log promises to the applications: there is one      *)
(* sequence of values, it only grows, and every replica delivers it from   *)
(* the start, in order, without gaps and without repetition.               *)
(***************************************************************************)
EXTENDS Naturals, Sequences

CONSTANTS Replica, Value

VARIABLES log,       \* the sequence of decided values delivered anywhere
          delivered  \* what each replica has delivered

Init == /\ log = <<>>
        /\ delivered = [i \in Replica |-> <<>>]

IsPrefix(s, t) == Len(s) <= Len(t) /\ \A k \in 1..Len(s) : s[k] = t[k]

\* Replica i delivers further values, the first to do so or not.
Deliver(i) ==
  /\ IsPrefix(log, log')
  /\ IsPrefix(delivered[i], delivered'[i]) /\ IsPrefix(delivered'[i], log')
  /\ delivered' = [delivered EXCEPT ![i] = delivered'[i]]

Next == \E i \in Replica : Deliver(i)

Spec == Init /\ [][Next]_<<log, delivered>>
=============================================================================
