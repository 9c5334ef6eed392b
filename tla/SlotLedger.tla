----------------------------- MODULE SlotLedger -----------------------------
(* What claimMu promises about the slots of the sessions: they are granted    *)
(* one at a time, by someone who sees them all, and from there are only given *)
(* back.  A session whose slots or limit someone moves without the mutex      *)
(* loses the promise for good; no slot ever changes hands.                    *)
EXTENDS Integers, FiniteSets

CONSTANT Sessions

VARIABLES
  slots,   \* the slots in use: [id, user, order, proxy]
  limit,   \* how many each session has
  strict   \* the sessions only claimMu has touched

On(q) == {s \in slots : s.proxy = q}
SameClient(s, t) == s.user = t.user /\ s.order = t.order

Init ==
  /\ slots = {} /\ strict = Sessions
  /\ limit \in [Sessions -> Nat \ {0}]

Grant(s) ==
  /\ \A t \in slots : t.id # s.id
  /\ s.proxy \in strict =>
       /\ Cardinality(On(s.proxy)) < limit[s.proxy]
       /\ ~\E t \in On(s.proxy) : SameClient(s, t)
  /\ slots' = slots \cup {s}
  /\ UNCHANGED <<limit, strict>>

GiveBack ==
  /\ strict' \subseteq strict
  /\ \A q \in strict' : limit'[q] = limit[q]
  /\ \A s \in slots' : s.proxy \in strict' => s \in slots
  /\ \A s \in slots, t \in slots' : s.id = t.id => s = t

Next == (\E s \in slots' \ slots : Grant(s)) \/ GiveBack

Spec == Init /\ [][Next]_<<slots, limit, strict>>
=============================================================================
