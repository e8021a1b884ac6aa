----------------------------- MODULE ExactlyOnce -----------------------------
(***************************************************************************)
(* What submit promises: a command is delivered at most once, only after   *)
(* it was submitted, and in the same slot by every replica.                *)
(***************************************************************************)
EXTENDS Naturals, Sequences

CONSTANTS Replica, Command

VARIABLES submitted,  \* the commands submitted so far
          log,        \* the commands of each slot delivered anywhere
          delivered   \* the slots each replica has delivered

Init == /\ submitted = {}
        /\ log = <<>>
        /\ delivered = [i \in Replica |-> <<>>]

Submit(c) ==
  /\ c \notin submitted
  /\ submitted' = submitted \cup {c}
  /\ UNCHANGED <<log, delivered>>

IsPrefix(s, t) == Len(s) <= Len(t) /\ \A k \in 1..Len(s) : s[k] = t[k]

\* The log gets further slots, each with submitted commands that no other slot
\* has; or none.
Extends(new) ==
  /\ IsPrefix(log, new)
  /\ \A k \in 1..Len(new) : new[k] \subseteq submitted
  /\ \A k, l \in 1..Len(new) : k # l => new[k] \cap new[l] = {}

Deliver(i) ==
  /\ Extends(log')
  /\ IsPrefix(delivered[i], delivered'[i]) /\ IsPrefix(delivered'[i], log')
  /\ delivered' = [delivered EXCEPT ![i] = delivered'[i]]
  /\ UNCHANGED submitted

Next == (\E c \in Command : Submit(c)) \/ (\E i \in Replica : Deliver(i))

Spec == Init /\ [][Next]_<<submitted, log, delivered>>
=============================================================================
