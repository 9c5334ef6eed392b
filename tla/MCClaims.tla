------------------------------ MODULE MCClaims ------------------------------
(* Instances of Claims for TLC. *)
EXTENDS Claims, TLC

\* Private sessions have one slot, as in the code; two stand for five.
SmallMax == [t \in Types |-> IF t = "private" THEN 1 ELSE 2]

\* How the sessions start.
AllPrivate  == [q \in Proxies |-> "private"]
AllRotating == [q \in Proxies |-> "rotating"]

\* Handlers are interchangeable.
Symmetry == Permutations(Handlers)
=============================================================================
