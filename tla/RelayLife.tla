------------------------------ MODULE RelayLife ------------------------------
(* What a connection through the proxy promises, whatever the protocol: it   *)
(* takes what it needs while it is being set up, relays only with a way out, *)
(* and has given everything back when it is closed.                          *)
CONSTANTS Conns, Resources, Accepted, WaysOut

VARIABLES phase, held

Init == phase = [c \in Conns |-> "none"] /\ held = [c \in Conns |-> {}]

\* Resources are taken in the set-up only.
Accept(c) ==
  /\ phase[c] = "none" /\ phase' = [phase EXCEPT ![c] = "setup"]
  /\ held' = [held EXCEPT ![c] = {Accepted}]
Take(c) ==
  /\ phase[c] = "setup" /\ phase' = phase
  /\ \E r \in Resources : held' = [held EXCEPT ![c] = @ \cup {r}]
Relay(c) ==
  /\ phase[c] = "setup" /\ phase' = [phase EXCEPT ![c] = "relaying"]
  /\ \E rs \in SUBSET Resources : held' = [held EXCEPT ![c] = @ \cup rs]
  /\ Accepted \in held[c] /\ held[c] \cap WaysOut # {}

\* From then on they are only given back.
Release(c) ==
  /\ phase[c] \in {"relaying", "ending"}
  /\ \E f \in {phase[c], "ending"} : phase' = [phase EXCEPT ![c] = f]
  /\ \E rs \in SUBSET held[c] : held' = [held EXCEPT ![c] = rs]
Close(c) ==
  /\ phase[c] \in {"setup", "relaying", "ending"} /\ phase' = [phase EXCEPT ![c] = "closed"]
  /\ held' = [held EXCEPT ![c] = {}]

Next == \E c \in Conns : Accept(c) \/ Take(c) \/ Relay(c) \/ Release(c) \/ Close(c)

Spec == Init /\ [][Next]_<<phase, held>>
=============================================================================
