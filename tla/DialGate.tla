------------------------------ MODULE DialGate ------------------------------
(* What lineMu and dialSem promise together: goroutines dial one at a time   *)
(* per line and at most Capacity at a time in all, so that the BRAS never    *)
(* sees a storm.                                                             *)
EXTENDS Integers, FiniteSets

CONSTANTS Goroutines, Sessions, LineOf, Capacity

VARIABLE dialing   \* the pairs <<goroutine, session>> in the dial section

Admissible(d) ==
  /\ Cardinality(d) <= Capacity
  /\ \A x, y \in d : LineOf[x[2]] = LineOf[y[2]] => x = y

Init == dialing = {}

Enter(p, s) == <<p, s>> \notin dialing /\ dialing' = dialing \cup {<<p, s>>} /\ Admissible(dialing')
Leave(p, s) == <<p, s>> \in dialing /\ dialing' = dialing \ {<<p, s>>}
Restart     == dialing' = {}

Next == (\E p \in Goroutines, s \in Sessions : Enter(p, s) \/ Leave(p, s)) \/ Restart

Spec == Init /\ [][Next]_dialing
=============================================================================
