--------------------------- MODULE AdminApiProofs ---------------------------
(* Proofs about AdminApi and EventHub, for every set of requests, tokens,     *)
(* passwords and settings, every capacity of the channels and every number of *)
(* restarts.                                                                  *)
EXTENDS AdminApi, TLAPS

AnyReq == {Idle} \cup (UNION {Requests[r] : r \in Reqs})

Typed ==
  /\ at \in [Reqs -> Labels] /\ req \in [Reqs -> AnyReq]
  /\ \A r \in Reqs : req[r] \in Requests[r] \cup {Idle}
  /\ apiTok \in SUBSET Tokens /\ userTok \in SUBSET Tokens
  /\ hash \in Passwords /\ born \in [Tokens -> Passwords] /\ late \in SUBSET Tokens
  /\ DOMAIN settings = DOMAIN Defaults /\ wrote \in [Reqs -> SUBSET DOMAIN Defaults]
  /\ probeRunning \in BOOLEAN /\ gone \in SUBSET Reqs /\ restarts \in 0..MaxRestarts

\* The operation that brings a request to each place, and the ones that end well
\* with a token to show for it.
Asks ==
  \A r \in Reqs :
    /\ at[r] = "none" <=> req[r] = Idle
    /\ at[r] \in {"login", "insert"} => req[r].op = "login"
    /\ at[r] \in {"create", "logout", "delete"} => req[r].op = at[r]
    /\ at[r] \in {"change", "save", "purge"} => req[r].op = "change"
    /\ at[r] \in {"settings", "saving"} => req[r].op = "settings"
    /\ at[r] \in {"probe", "probing"} => req[r].op = "probe"
    /\ at[r] \in {"publish", "sending"} => req[r].op \in {"settings", "event"}
    /\ at[r] \in {"events", "stream"} => req[r].op = "events"
    /\ at[r] = "ok" => req[r].op \in Ops

\* A token has the name of the request that inserted it, which has ended.
Fresh ==
  /\ Seed \notin userTok /\ Web \notin apiTok
  /\ \A r \in Reqs : /\ r \in apiTok => at[r] = "ok" /\ req[r].op = "create"
                     /\ r \in userTok => at[r] = "ok" /\ req[r].op = "login"

HubTyped ==
  /\ subs \in SUBSET Reqs /\ closed \in SUBSET Reqs
  /\ sent \in [Reqs -> Seq(Pubs)] /\ taken \in [Reqs -> Nat]
  /\ todo \in [Pubs -> SUBSET Reqs] /\ audience \in [Pubs -> SUBSET Reqs]
  /\ lost \in [Pubs -> SUBSET Reqs]
  /\ \A s \in Reqs : taken[s] <= Len(sent[s]) /\ Len(sent[s]) - taken[s] <= Cap

Streaming == subs = {r \in Reqs : at[r] = "stream"}

Inv == Typed /\ Asks /\ Fresh /\ HubTyped /\ Streaming

-----------------------------------------------------------------------------
(* Types. *)

\* A request that has arrived is one that may be asked.
LEMMA Request ==
  ASSUME Typed, NEW r \in Reqs, req[r] # Idle
  PROVE  /\ req[r] \in Requests[r] /\ req[r].op \in Ops
         /\ req[r].op = "login" => req[r].pass \in Passwords
         /\ req[r].op = "change" => req[r].new \in Passwords
  BY RequestsAssumption DEF Typed, Reqs

\* The invariant keeps the types that the model states.
LEMMA TypeParts == Typed /\ Fresh /\ HubTyped /\ Streaming => TypeOK
<1> SUFFICES ASSUME Typed, Fresh, HubTyped, Streaming PROVE TypeOK OBVIOUS
<1>1. apiTok \cap userTok = {} BY DEF Typed, Fresh, Tokens
<1>2. HubTypeOK BY RequestsAssumption DEF HubTyped, HubTypeOK, Reqs
<1> QED BY <1>1, <1>2 DEF Typed, Streaming, TypeOK

\* The invariant of the proofs below.
LEMMA Invariant == Spec => []Inv
<1>1. Init => Inv
  <2> SUFFICES ASSUME Init PROVE Typed /\ Asks /\ Fresh /\ HubTyped /\ Streaming BY DEF Inv
  <2>1. Typed
    <3>1. 0 \in 0..MaxRestarts BY RequestsAssumption
    <3>2. wrote \in [Reqs -> SUBSET DOMAIN Defaults] BY DEF Init
    <3>3. "none" \in Labels BY DEF Labels
    <3>4. Idle \in {Idle} OBVIOUS
    <3>5. Idle \in AnyReq BY <3>4, Zenon DEF AnyReq
    <3>6. at \in [Reqs -> Labels] /\ req \in [Reqs -> AnyReq] BY <3>3, <3>5 DEF Init
    <3>7. {Seed} \in SUBSET Tokens /\ {Web} \in SUBSET Tokens BY DEF Tokens
    <3> QED BY <3>1, <3>2, <3>6, <3>7, RequestsAssumption DEF Init, Typed
  <2>2. Asks BY DEF Init, Asks, Idle
  <2>3. Fresh BY RequestsAssumption DEF Init, Fresh, Reqs
  <2>4. HubTyped BY RequestsAssumption DEF Init, HubInit, HubTyped, Reqs
  <2>5. Streaming BY DEF Init, HubInit, Streaming
  <2> QED BY <2>1, <2>2, <2>3, <2>4, <2>5
<1>2. Inv /\ [Next]_vars => Inv'
  <2> SUFFICES ASSUME Typed, Asks, Fresh, HubTyped, Streaming, [Next]_vars
               PROVE  Inv'
    BY DEF Inv
  <2> USE DEF Goto, apiVars, reqVars, authVars, setVars, hubVars, Reqs
  <2>1. CASE Restart
    <3>1. restarts' \in 0..MaxRestarts BY <2>1, RequestsAssumption DEF Typed, Restart
    <3>2. at' \in [Reqs -> Labels] BY <2>1 DEF Typed, Restart, Labels
    <3>3. apiTok' \in SUBSET Tokens /\ late' \in SUBSET Tokens
      BY <2>1 DEF Typed, Restart, Tokens
    <3>4. Typed' BY <2>1, <3>1, <3>2, <3>3 DEF Typed, Restart
    <3>5. Asks' BY <2>1 DEF Typed, Asks, Restart, Ended
    <3>6. Fresh' BY <2>1, RequestsAssumption DEF Typed, Fresh, Restart, Ended
    <3>7. HubTyped' BY <2>1 DEF HubTyped, Restart, HubRestart
    <3>8. Streaming' BY <2>1 DEF Streaming, Restart, HubRestart, Ended
    <3> QED BY <3>4, <3>5, <3>6, <3>7, <3>8 DEF Inv
  <2>2. ASSUME NEW r \in Reqs, NEW q \in Requests[r], Arrive(r, q) PROVE Inv'
    <3>1. Typed'
      BY <2>2, Request, RequestsAssumption DEF Typed, Asks, Arrive, Labels, Ops, Tokens,
         AnyReq
    <3>2. Asks' BY <2>2, Request, RequestsAssumption DEF Typed, Asks, Arrive, Ops, Idle
    <3>3. Fresh' BY <2>2, RequestsAssumption DEF Typed, Asks, Fresh, Arrive, Idle
    <3>4. HubTyped' BY <2>2 DEF HubTyped, Arrive
    <3>5. Streaming' BY <2>2, Request DEF Typed, Asks, Streaming, HubTyped, Arrive, Ops
    <3> QED BY <3>1, <3>2, <3>3, <3>4, <3>5 DEF Inv
  <2>3. ASSUME NEW r \in Reqs, BearerAuth(r) PROVE Inv'
    <3>1. Typed'
      BY <2>3, Request, RequestsAssumption DEF Typed, Asks, BearerAuth, Labels, Ops, Tokens
    <3>2. Asks' BY <2>3, Request, RequestsAssumption DEF Typed, Asks, BearerAuth, Ops, Idle
    <3>3. Fresh' BY <2>3, RequestsAssumption DEF Typed, Asks, Fresh, BearerAuth, Idle
    <3>4. HubTyped' BY <2>3 DEF HubTyped, BearerAuth
    <3>5. Streaming' BY <2>3, Request DEF Typed, Asks, Streaming, HubTyped, BearerAuth, Ops
    <3> QED BY <3>1, <3>2, <3>3, <3>4, <3>5 DEF Inv
  <2>4. ASSUME NEW r \in Reqs, Login(r) PROVE Inv'
    <3>1. Typed'
      BY <2>4, Request, RequestsAssumption DEF Typed, Asks, Login, Labels, Ops, Tokens
    <3>2. Asks' BY <2>4, Request, RequestsAssumption DEF Typed, Asks, Login, Ops, Idle
    <3>3. Fresh' BY <2>4, RequestsAssumption DEF Typed, Asks, Fresh, Login, Idle
    <3>4. HubTyped' BY <2>4 DEF HubTyped, Login
    <3>5. Streaming' BY <2>4, Request DEF Typed, Asks, Streaming, HubTyped, Login, Ops
    <3> QED BY <3>1, <3>2, <3>3, <3>4, <3>5 DEF Inv
  <2>5. ASSUME NEW r \in Reqs, Insert(r) PROVE Inv'
    <3>1. Typed'
      BY <2>5, Request, RequestsAssumption DEF Typed, Asks, Insert, Labels, Ops, Tokens
    <3>2. Asks' BY <2>5, Request, RequestsAssumption DEF Typed, Asks, Insert, Ops, Idle
    <3>3. Fresh' BY <2>5, RequestsAssumption DEF Typed, Asks, Fresh, Insert, Idle
    <3>4. HubTyped' BY <2>5 DEF HubTyped, Insert
    <3>5. Streaming' BY <2>5, Request DEF Typed, Asks, Streaming, HubTyped, Insert, Ops
    <3> QED BY <3>1, <3>2, <3>3, <3>4, <3>5 DEF Inv
  <2>6. ASSUME NEW r \in Reqs, Logout(r) PROVE Inv'
    <3>1. Typed'
      BY <2>6, Request, RequestsAssumption DEF Typed, Asks, Logout, Labels, Ops, Tokens
    <3>2. Asks' BY <2>6, Request, RequestsAssumption DEF Typed, Asks, Logout, Ops, Idle
    <3>3. Fresh' BY <2>6, RequestsAssumption DEF Typed, Asks, Fresh, Logout, Idle
    <3>4. HubTyped' BY <2>6 DEF HubTyped, Logout
    <3>5. Streaming' BY <2>6, Request DEF Typed, Asks, Streaming, HubTyped, Logout, Ops
    <3> QED BY <3>1, <3>2, <3>3, <3>4, <3>5 DEF Inv
  <2>7. ASSUME NEW r \in Reqs, CreateToken(r) PROVE Inv'
    <3>1. Typed'
      BY <2>7, Request, RequestsAssumption DEF Typed, Asks, CreateToken, Labels, Ops, Tokens
    <3>2. Asks' BY <2>7, Request, RequestsAssumption DEF Typed, Asks, CreateToken, Ops, Idle
    <3>3. Fresh' BY <2>7, RequestsAssumption DEF Typed, Asks, Fresh, CreateToken, Idle
    <3>4. HubTyped' BY <2>7 DEF HubTyped, CreateToken
    <3>5. Streaming' BY <2>7, Request DEF Typed, Asks, Streaming, HubTyped, CreateToken, Ops
    <3> QED BY <3>1, <3>2, <3>3, <3>4, <3>5 DEF Inv
  <2>8. ASSUME NEW r \in Reqs, DeleteToken(r) PROVE Inv'
    <3>1. Typed'
      BY <2>8, Request, RequestsAssumption DEF Typed, Asks, DeleteToken, Labels, Ops, Tokens
    <3>2. Asks' BY <2>8, Request, RequestsAssumption DEF Typed, Asks, DeleteToken, Ops, Idle
    <3>3. Fresh' BY <2>8, RequestsAssumption DEF Typed, Asks, Fresh, DeleteToken, Idle
    <3>4. HubTyped' BY <2>8 DEF HubTyped, DeleteToken
    <3>5. Streaming' BY <2>8, Request DEF Typed, Asks, Streaming, HubTyped, DeleteToken, Ops
    <3> QED BY <3>1, <3>2, <3>3, <3>4, <3>5 DEF Inv
  <2>9. ASSUME NEW r \in Reqs, ChangePassword(r) PROVE Inv'
    <3>1. Typed'
      BY <2>9, Request, RequestsAssumption DEF Typed, Asks, ChangePassword, Labels, Ops,
         Tokens
    <3>2. Asks' BY <2>9, Request, RequestsAssumption DEF Typed, Asks, ChangePassword, Ops, Idle
    <3>3. Fresh' BY <2>9, RequestsAssumption DEF Typed, Asks, Fresh, ChangePassword, Idle
    <3>4. HubTyped' BY <2>9 DEF HubTyped, ChangePassword
    <3>5. Streaming' BY <2>9, Request DEF Typed, Asks, Streaming, HubTyped, ChangePassword, Ops
    <3> QED BY <3>1, <3>2, <3>3, <3>4, <3>5 DEF Inv
  <2>10. ASSUME NEW r \in Reqs, SavePassword(r) PROVE Inv'
    <3>1. Typed'
      BY <2>10, Request, RequestsAssumption DEF Typed, Asks, SavePassword, Labels, Ops,
         Tokens
    <3>2. Asks' BY <2>10, Request, RequestsAssumption DEF Typed, Asks, SavePassword, Ops, Idle
    <3>3. Fresh' BY <2>10, RequestsAssumption DEF Typed, Asks, Fresh, SavePassword, Idle
    <3>4. HubTyped' BY <2>10 DEF HubTyped, SavePassword
    <3>5. Streaming' BY <2>10, Request DEF Typed, Asks, Streaming, HubTyped, SavePassword, Ops
    <3> QED BY <3>1, <3>2, <3>3, <3>4, <3>5 DEF Inv
  <2>11. ASSUME NEW r \in Reqs, Purge(r) PROVE Inv'
    <3>1. Typed'
      BY <2>11, Request, RequestsAssumption DEF Typed, Asks, Purge, Labels, Ops, Tokens
    <3>2. Asks' BY <2>11, Request, RequestsAssumption DEF Typed, Asks, Purge, Ops, Idle
    <3>3. Fresh' BY <2>11, RequestsAssumption DEF Typed, Asks, Fresh, Purge, Idle
    <3>4. HubTyped' BY <2>11 DEF HubTyped, Purge
    <3>5. Streaming' BY <2>11, Request DEF Typed, Asks, Streaming, HubTyped, Purge, Ops
    <3> QED BY <3>1, <3>2, <3>3, <3>4, <3>5 DEF Inv
  <2>12. ASSUME NEW r \in Reqs, Validate(r) PROVE Inv'
    <3>1. Typed'
      BY <2>12, Request, RequestsAssumption DEF Typed, Asks, Validate, Labels, Ops, Tokens
    <3>2. Asks' BY <2>12, Request, RequestsAssumption DEF Typed, Asks, Validate, Ops, Idle
    <3>3. Fresh' BY <2>12, RequestsAssumption DEF Typed, Asks, Fresh, Validate, Idle
    <3>4. HubTyped' BY <2>12 DEF HubTyped, Validate
    <3>5. Streaming' BY <2>12, Request DEF Typed, Asks, Streaming, HubTyped, Validate, Ops
    <3> QED BY <3>1, <3>2, <3>3, <3>4, <3>5 DEF Inv
  <2>13. ASSUME NEW r \in Reqs, NEW k \in DOMAIN Defaults, SaveSetting(r, k) PROVE Inv'
    <3>1. Typed'
      BY <2>13, Request, RequestsAssumption DEF Typed, Asks, SaveSetting, Labels, Ops,
         Tokens
    <3>2. Asks' BY <2>13, Request, RequestsAssumption DEF Typed, Asks, SaveSetting, Ops, Idle
    <3>3. Fresh' BY <2>13, RequestsAssumption DEF Typed, Asks, Fresh, SaveSetting, Idle
    <3>4. HubTyped' BY <2>13 DEF HubTyped, SaveSetting
    <3>5. Streaming' BY <2>13, Request DEF Typed, Asks, Streaming, HubTyped, SaveSetting, Ops
    <3> QED BY <3>1, <3>2, <3>3, <3>4, <3>5 DEF Inv
  <2>14. ASSUME NEW r \in Reqs, SaveError(r) PROVE Inv'
    <3>1. Typed'
      BY <2>14, Request, RequestsAssumption DEF Typed, Asks, SaveError, Labels, Ops, Tokens
    <3>2. Asks' BY <2>14, Request, RequestsAssumption DEF Typed, Asks, SaveError, Ops, Idle
    <3>3. Fresh' BY <2>14, RequestsAssumption DEF Typed, Asks, Fresh, SaveError, Idle
    <3>4. HubTyped' BY <2>14 DEF HubTyped, SaveError
    <3>5. Streaming' BY <2>14, Request DEF Typed, Asks, Streaming, HubTyped, SaveError, Ops
    <3> QED BY <3>1, <3>2, <3>3, <3>4, <3>5 DEF Inv
  <2>15. ASSUME NEW r \in Reqs, Saved(r) PROVE Inv'
    <3>1. Typed'
      BY <2>15, Request, RequestsAssumption DEF Typed, Asks, Saved, Labels, Ops, Tokens
    <3>2. Asks' BY <2>15, Request, RequestsAssumption DEF Typed, Asks, Saved, Ops, Idle
    <3>3. Fresh' BY <2>15, RequestsAssumption DEF Typed, Asks, Fresh, Saved, Idle
    <3>4. HubTyped' BY <2>15 DEF HubTyped, Saved
    <3>5. Streaming' BY <2>15, Request DEF Typed, Asks, Streaming, HubTyped, Saved, Ops
    <3> QED BY <3>1, <3>2, <3>3, <3>4, <3>5 DEF Inv
  <2>16. ASSUME NEW r \in Reqs, Probe(r) PROVE Inv'
    <3>1. Typed'
      BY <2>16, Request, RequestsAssumption DEF Typed, Asks, Probe, Labels, Ops, Tokens
    <3>2. Asks' BY <2>16, Request, RequestsAssumption DEF Typed, Asks, Probe, Ops, Idle
    <3>3. Fresh' BY <2>16, RequestsAssumption DEF Typed, Asks, Fresh, Probe, Idle
    <3>4. HubTyped' BY <2>16 DEF HubTyped, Probe
    <3>5. Streaming' BY <2>16, Request DEF Typed, Asks, Streaming, HubTyped, Probe, Ops
    <3> QED BY <3>1, <3>2, <3>3, <3>4, <3>5 DEF Inv
  <2>17. ASSUME NEW r \in Reqs, ProbeEnd(r) PROVE Inv'
    <3>1. Typed'
      BY <2>17, Request, RequestsAssumption DEF Typed, Asks, ProbeEnd, Labels, Ops, Tokens
    <3>2. Asks' BY <2>17, Request, RequestsAssumption DEF Typed, Asks, ProbeEnd, Ops, Idle
    <3>3. Fresh' BY <2>17, RequestsAssumption DEF Typed, Asks, Fresh, ProbeEnd, Idle
    <3>4. HubTyped' BY <2>17 DEF HubTyped, ProbeEnd
    <3>5. Streaming' BY <2>17, Request DEF Typed, Asks, Streaming, HubTyped, ProbeEnd, Ops
    <3> QED BY <3>1, <3>2, <3>3, <3>4, <3>5 DEF Inv
  <2>18. ASSUME NEW r \in Reqs, Publish(r) PROVE Inv'
    <3>1. Typed'
      BY <2>18, Request, RequestsAssumption DEF Typed, Asks, Publish, PublishBegin, Labels,
         Ops, Tokens
    <3>2. Asks'
      BY <2>18, Request, RequestsAssumption DEF Typed, Asks, Publish, PublishBegin, Ops,
         Idle
    <3>3. Fresh'
      BY <2>18, RequestsAssumption DEF Typed, Asks, Fresh, Publish, PublishBegin, Idle
    <3>4. HubTyped' BY <2>18, RequestsAssumption DEF HubTyped, Publish, PublishBegin, Full
    <3>5. Streaming'
      BY <2>18, Request DEF Typed, Asks, Streaming, HubTyped, Publish, PublishBegin, Ops
    <3> QED BY <3>1, <3>2, <3>3, <3>4, <3>5 DEF Inv
  <2>19. ASSUME NEW r \in Reqs, NEW s \in Streams, PublishTo(r, s) PROVE Inv'
    <3>1. Typed'
      BY <2>19, Request, RequestsAssumption DEF Typed, Asks, PublishTo, Send, Labels, Ops,
         Tokens
    <3>2. Asks'
      BY <2>19, Request, RequestsAssumption DEF Typed, Asks, PublishTo, Send, Ops, Idle
    <3>3. Fresh' BY <2>19, RequestsAssumption DEF Typed, Asks, Fresh, PublishTo, Send, Idle
    <3>4. HubTyped'
      <4>1. s \in Reqs /\ r \in Pubs /\ Cap \in Nat BY RequestsAssumption
      <4>2. todo' \in [Pubs -> SUBSET Reqs] BY <2>19, <4>1 DEF HubTyped, PublishTo, Send
      <4>3. CASE Full(s)
        <5>2. lost[r] \cup {s} \in SUBSET Reqs BY <4>1 DEF HubTyped
        <5>3. lost' = [lost EXCEPT ![r] = lost[r] \cup {s}] BY <2>19, <4>3 DEF PublishTo, Send
        <5>1. lost' \in [Pubs -> SUBSET Reqs] BY <5>2, <5>3 DEF HubTyped
        <5> QED BY <2>19, <4>2, <4>3, <5>1 DEF HubTyped, PublishTo, Send
      <4>4. CASE ~Full(s)
        <5>1. sent[s] \in Seq(Pubs) /\ Append(sent[s], r) \in Seq(Pubs)
              /\ Len(Append(sent[s], r)) = Len(sent[s]) + 1 /\ Len(sent[s]) \in Nat
          BY <4>1 DEF HubTyped
        <5>2. sent' = [sent EXCEPT ![s] = Append(sent[s], r)] BY <2>19, <4>4 DEF PublishTo, Send
        <5>3. sent' \in [Reqs -> Seq(Pubs)] BY <5>1, <5>2, <4>1 DEF HubTyped
        <5>4. Len(sent[s]) - taken[s] < Cap BY <4>1, <4>4, <5>1 DEF Full, HubTyped
        <5>5. \A t \in Reqs : taken[t] <= Len(sent'[t]) /\ Len(sent'[t]) - taken[t] <= Cap
          <6> SUFFICES ASSUME NEW t \in Reqs
                       PROVE  taken[t] <= Len(sent'[t]) /\ Len(sent'[t]) - taken[t] <= Cap
            OBVIOUS
          <6>1. CASE t = s
            <7>1. sent'[t] = Append(sent[s], r) BY <6>1, <5>2, <4>1 DEF HubTyped
            <7> QED BY <6>1, <7>1, <5>1, <5>4, <4>1 DEF HubTyped
          <6>2. CASE t # s
            <7>1. sent'[t] = sent[t] BY <6>2, <5>2, <4>1 DEF HubTyped
            <7> QED BY <7>1 DEF HubTyped
          <6> QED BY <6>1, <6>2
        <5> QED BY <2>19, <4>2, <4>4, <5>3, <5>5 DEF HubTyped, PublishTo, Send
      <4> QED BY <4>3, <4>4
    <3>5. Streaming'
      BY <2>19, Request DEF Typed, Asks, Streaming, HubTyped, PublishTo, Send, Ops
    <3> QED BY <3>1, <3>2, <3>3, <3>4, <3>5 DEF Inv
  <2>20. ASSUME NEW r \in Reqs, PublishEnd(r) PROVE Inv'
    <3>1. Typed'
      BY <2>20, Request, RequestsAssumption DEF Typed, Asks, PublishEnd, Labels, Ops, Tokens
    <3>2. Asks' BY <2>20, Request, RequestsAssumption DEF Typed, Asks, PublishEnd, Ops, Idle
    <3>3. Fresh' BY <2>20, RequestsAssumption DEF Typed, Asks, Fresh, PublishEnd, Idle
    <3>4. HubTyped' BY <2>20 DEF HubTyped, PublishEnd
    <3>5. Streaming' BY <2>20, Request DEF Typed, Asks, Streaming, HubTyped, PublishEnd, Ops
    <3> QED BY <3>1, <3>2, <3>3, <3>4, <3>5 DEF Inv
  <2>21. ASSUME NEW r \in Reqs, StreamBegin(r) PROVE Inv'
    <3>1. Typed'
      BY <2>21, Request, RequestsAssumption DEF Typed, Asks, StreamBegin, Subscribe, Labels,
         Ops, Tokens
    <3>2. Asks'
      BY <2>21, Request, RequestsAssumption DEF Typed, Asks, StreamBegin, Subscribe, Ops,
         Idle
    <3>3. Fresh'
      BY <2>21, RequestsAssumption DEF Typed, Asks, Fresh, StreamBegin, Subscribe, Idle
    <3>4. HubTyped' BY <2>21, RequestsAssumption DEF HubTyped, StreamBegin, Subscribe, Full
    <3>5. Streaming'
      BY <2>21, Request DEF Typed, Asks, Streaming, HubTyped, StreamBegin, Subscribe, Ops
    <3> QED BY <3>1, <3>2, <3>3, <3>4, <3>5 DEF Inv
  <2>22. ASSUME NEW r \in Reqs, StreamEvent(r) PROVE Inv'
    <3>1. Typed'
      BY <2>22, Request, RequestsAssumption DEF Typed, Asks, StreamEvent, Take, Labels, Ops,
         Tokens
    <3>2. Asks'
      BY <2>22, Request, RequestsAssumption DEF Typed, Asks, StreamEvent, Take, Ops, Idle
    <3>3. Fresh' BY <2>22, RequestsAssumption DEF Typed, Asks, Fresh, StreamEvent, Take, Idle
    <3>4. HubTyped'
      <4>1. taken[r] \in Nat /\ Len(sent[r]) \in Nat /\ taken[r] < Len(sent[r]) /\ Cap \in Nat
        BY <2>22, RequestsAssumption DEF HubTyped, StreamEvent, Take
      <4>2. taken' \in [Reqs -> Nat] /\ taken'[r] = taken[r] + 1
        BY <2>22, <4>1 DEF HubTyped, StreamEvent, Take
      <4>3. \A t \in Reqs : t # r => taken'[t] = taken[t]
        BY <2>22 DEF HubTyped, StreamEvent, Take
      <4>4. \A t \in Reqs : taken'[t] <= Len(sent[t]) /\ Len(sent[t]) - taken'[t] <= Cap
        <5> SUFFICES ASSUME NEW t \in Reqs
                     PROVE  taken'[t] <= Len(sent[t]) /\ Len(sent[t]) - taken'[t] <= Cap
          OBVIOUS
        <5>1. taken[t] \in Nat /\ Len(sent[t]) \in Nat /\ taken[t] <= Len(sent[t]) /\ Len(sent[t]) - taken[t] <= Cap
          BY DEF HubTyped
        <5> QED BY <5>1, <4>1, <4>2, <4>3
      <4> QED BY <2>22, <4>2, <4>4 DEF HubTyped, StreamEvent, Take
    <3>5. Streaming'
      BY <2>22, Request DEF Typed, Asks, Streaming, HubTyped, StreamEvent, Take, Ops
    <3> QED BY <3>1, <3>2, <3>3, <3>4, <3>5 DEF Inv
  <2>23. ASSUME NEW r \in Reqs, StreamEnd(r) PROVE Inv'
    <3>1. Typed'
      BY <2>23, Request, RequestsAssumption DEF Typed, Asks, StreamEnd, Unsubscribe, Labels,
         Ops, Tokens
    <3>2. Asks'
      BY <2>23, Request, RequestsAssumption DEF Typed, Asks, StreamEnd, Unsubscribe, Ops,
         Idle
    <3>3. Fresh'
      BY <2>23, RequestsAssumption DEF Typed, Asks, Fresh, StreamEnd, Unsubscribe, Idle
    <3>4. HubTyped' BY <2>23, RequestsAssumption DEF HubTyped, StreamEnd, Unsubscribe, Full
    <3>5. Streaming'
      BY <2>23, Request DEF Typed, Asks, Streaming, HubTyped, StreamEnd, Unsubscribe, Ops
    <3> QED BY <3>1, <3>2, <3>3, <3>4, <3>5 DEF Inv
  <2>24. ASSUME NEW r \in Reqs, ClientGone(r) PROVE Inv'
    <3>1. Typed'
      BY <2>24, Request, RequestsAssumption DEF Typed, Asks, ClientGone, Labels, Ops, Tokens
    <3>2. Asks' BY <2>24, Request, RequestsAssumption DEF Typed, Asks, ClientGone, Ops, Idle
    <3>3. Fresh' BY <2>24, RequestsAssumption DEF Typed, Asks, Fresh, ClientGone, Idle
    <3>4. HubTyped' BY <2>24 DEF HubTyped, ClientGone
    <3>5. Streaming' BY <2>24, Request DEF Typed, Asks, Streaming, HubTyped, ClientGone, Ops
    <3> QED BY <3>1, <3>2, <3>3, <3>4, <3>5 DEF Inv
  <2>25. CASE UNCHANGED vars
    BY <2>25 DEF vars, Inv, Typed, Asks, Fresh, HubTyped, Streaming
  <2> QED
    BY <2>1, <2>2, <2>3, <2>4, <2>5, <2>6, <2>7, <2>8, <2>9, <2>10, <2>11, <2>12, <2>13,
       <2>14, <2>15, <2>16, <2>17, <2>18, <2>19, <2>20, <2>21, <2>22, <2>23, <2>24, <2>25 DEF
       Next
<1> QED BY <1>1, <1>2, PTL DEF Spec

\* The places of the requests, their tokens and the channels keep their types.
THEOREM ControlTyped == Spec => []TypeOK
<1>1. Inv => TypeOK BY TypeParts DEF Inv
<1> QED BY <1>1, Invariant, PTL

-----------------------------------------------------------------------------
(* What a step leaves alone. *)

\* A step of request r that neither begins nor ends a purge or a probe.
Ordinary(r) ==
  /\ \A q \in Reqs \ {r} : at'[q] = at[q]
  /\ {at[r], at'[r]} \cap {"none", "ok", "purge", "probing"} \subseteq {"ok"} /\ at[r] # "ok"

\* Most steps are ordinary.
LEMMA OrdinarySteps ==
  ASSUME Typed, Asks, NEW r \in Reqs,
         \/ BearerAuth(r) \/ Login(r) \/ Insert(r) \/ Logout(r) \/ CreateToken(r)
         \/ DeleteToken(r) \/ ChangePassword(r) \/ Validate(r) \/ SaveError(r) \/ Saved(r)
         \/ Publish(r) \/ PublishEnd(r) \/ StreamBegin(r) \/ StreamEvent(r) \/ StreamEnd(r)
         \/ ClientGone(r)
         \/ \E k \in DOMAIN Defaults : SaveSetting(r, k)
         \/ \E s \in Streams : PublishTo(r, s)
  PROVE  Ordinary(r)
<1> USE DEF Goto, apiVars, Ordinary, Reqs
<1>1. CASE BearerAuth(r) BY Request, <1>1 DEF BearerAuth, Typed, Asks, Ops, Idle
<1>2. CASE Login(r) BY <1>2 DEF Login, Typed
<1>3. CASE Insert(r) BY <1>3 DEF Insert, Typed
<1>4. CASE Logout(r) BY <1>4 DEF Logout, Typed
<1>5. CASE CreateToken(r) BY <1>5 DEF CreateToken, Typed
<1>6. CASE DeleteToken(r) BY <1>6 DEF DeleteToken, Typed
<1>7. CASE ChangePassword(r) BY <1>7 DEF ChangePassword, Typed
<1>8. CASE Validate(r) BY <1>8 DEF Validate, Typed
<1>9. CASE SaveError(r) BY <1>9 DEF SaveError, Typed
<1>10. CASE Saved(r) BY <1>10 DEF Saved, Typed
<1>11. CASE Publish(r) BY <1>11 DEF Publish, Typed, PublishBegin
<1>12. CASE PublishEnd(r) BY <1>12 DEF PublishEnd, Typed
<1>13. CASE StreamBegin(r) BY <1>13 DEF StreamBegin, Typed
<1>14. CASE StreamEvent(r) BY <1>14 DEF StreamEvent, Typed
<1>15. CASE StreamEnd(r) BY <1>15 DEF StreamEnd, Typed
<1>16. CASE ClientGone(r) BY <1>16 DEF ClientGone, Typed
<1>17. CASE \E k \in DOMAIN Defaults : SaveSetting(r, k) BY <1>17 DEF SaveSetting
<1>18. CASE \E s \in Streams : PublishTo(r, s) BY <1>18 DEF PublishTo
<1> QED BY <1>1, <1>2, <1>3, <1>4, <1>5, <1>6, <1>7, <1>8, <1>9, <1>10, <1>11, <1>12, <1>13, <1>14, <1>15, <1>16, <1>17, <1>18

\* Only publications and streams, and a restart, touch the hub.
LEMMA HubSteps ==
  ASSUME Next
  PROVE  \/ Restart \/ UNCHANGED hubVars
         \/ \E r \in Reqs : \/ Publish(r) \/ StreamBegin(r) \/ StreamEvent(r) \/ StreamEnd(r)
                           \/ \E s \in Streams : PublishTo(r, s)
<1> SUFFICES ASSUME NEW r \in Reqs,
                    \/ BearerAuth(r) \/ Login(r) \/ Insert(r) \/ Logout(r)
                    \/ CreateToken(r) \/ DeleteToken(r) \/ ChangePassword(r) \/ SavePassword(r)
                    \/ Purge(r) \/ Validate(r) \/ SaveError(r) \/ Saved(r)
                    \/ Probe(r) \/ ProbeEnd(r) \/ PublishEnd(r) \/ ClientGone(r)
                    \/ (\E q \in Requests[r] : Arrive(r, q)) \/ (\E k \in DOMAIN Defaults : SaveSetting(r, k))
             PROVE  UNCHANGED hubVars
  BY DEF Next
<1> QED BY DEF BearerAuth, Login, Insert, Logout, CreateToken, DeleteToken, ChangePassword, SavePassword,
           Purge, Validate, SaveError, Saved, Probe, ProbeEnd, PublishEnd, ClientGone, Arrive, SaveSetting

\* A request that has ended well stays so.
LEMMA OkStays == ASSUME Typed, Asks, Next PROVE \A s \in Reqs : at[s] = "ok" => at'[s] = "ok"
<1> USE DEF Goto
<1>1. CASE Restart BY <1>1 DEF Restart, Ended
<1>2. ASSUME NEW r \in Reqs, Ordinary(r) PROVE \A s \in Reqs : at[s] = "ok" => at'[s] = "ok"
  BY <1>2 DEF Ordinary
<1>3. ASSUME NEW r \in Reqs, SavePassword(r) \/ Purge(r) \/ Probe(r) \/ ProbeEnd(r)
      PROVE  \A s \in Reqs : at[s] = "ok" => at'[s] = "ok"
  BY <1>3 DEF SavePassword, Purge, Probe, ProbeEnd, Typed
<1>4. ASSUME NEW r \in Reqs, NEW q \in Requests[r], Arrive(r, q)
      PROVE  \A s \in Reqs : at[s] = "ok" => at'[s] = "ok"
  BY <1>4 DEF Arrive, Typed
<1> QED BY <1>1, <1>2, <1>3, <1>4, OrdinarySteps DEF Next

-----------------------------------------------------------------------------
(* The hub. *)

\* A channel is closed with its stream, for good; while a publisher is inside the
\* read lock it has only channels of streams before it.
Channels ==
  /\ \A s \in closed : at[s] = "ok"
  /\ \A p \in Pubs : todo[p] \subseteq subs

\* No send on a closed channel, whatever the streams, the publishers and the
\* restart interleave.
THEOREM NeverSendsOnClosed == Spec => []NoSendOnClosed
<1>1. Init => Channels
  BY DEF Init, HubInit, Channels
<1>2. Inv /\ Channels /\ [Next]_vars => Channels'
  <2> SUFFICES ASSUME Typed, Asks, HubTyped, Streaming, Channels, [Next]_vars PROVE Channels'
    BY DEF Inv
  <2>1. CASE UNCHANGED vars BY <2>1 DEF vars, reqVars, hubVars, Channels
  <2> SUFFICES ASSUME Next PROVE Channels'
    BY <2>1
  <2>2. \A s \in closed : at'[s] = "ok"
    BY OkStays DEF Channels, HubTyped
  <2>3. CASE Restart BY <2>2, <2>3 DEF Channels, Restart, HubRestart
  <2>4. CASE UNCHANGED hubVars BY <2>2, <2>4 DEF hubVars, Channels
  <2>5. ASSUME NEW r \in Reqs, Publish(r) PROVE Channels'
    BY <2>2, <2>5 DEF Publish, PublishBegin, HubTyped, Channels
  <2>6. ASSUME NEW r \in Reqs, NEW s \in Streams, PublishTo(r, s) PROVE Channels'
    BY <2>2, <2>6 DEF PublishTo, Send, HubTyped, Channels
  <2>7. ASSUME NEW r \in Reqs, StreamBegin(r) \/ StreamEvent(r) PROVE Channels'
    BY <2>2, <2>7 DEF StreamBegin, StreamEvent, Subscribe, Take, Channels
  <2>8. ASSUME NEW r \in Reqs, StreamEnd(r) PROVE Channels'
    BY <2>2, <2>8 DEF StreamEnd, Unsubscribe, Unlocked, Goto, Typed, HubTyped, Channels
  <2> QED BY <2>3, <2>4, <2>5, <2>6, <2>7, <2>8, HubSteps
<1>3. Inv /\ Channels => NoSendOnClosed
  BY DEF Inv, HubTyped, Streaming, Channels, NoSendOnClosed
<1> QED BY <1>1, <1>2, <1>3, Invariant, PTL DEF Spec

\* A slow stream loses its own events alone, for every capacity and every number
\* of streams.
THEOREM SlowLosesOnlyItsOwn == Spec => []SlowLosesItsOwn
<1>1. Init => SlowLosesItsOwn
  BY DEF Init, HubInit, SlowLosesItsOwn
<1>2. Inv /\ SlowLosesItsOwn /\ [Next]_vars => SlowLosesItsOwn'
  <2> SUFFICES ASSUME HubTyped, SlowLosesItsOwn, [Next]_vars PROVE SlowLosesItsOwn'
    BY DEF Inv
  <2>1. CASE UNCHANGED hubVars BY <2>1 DEF hubVars, SlowLosesItsOwn
  <2>2. CASE Restart BY <2>2 DEF SlowLosesItsOwn, Restart, HubRestart
  <2>3. ASSUME NEW r \in Reqs, Publish(r) PROVE SlowLosesItsOwn'
    BY <2>3 DEF Publish, PublishBegin, HubTyped, SlowLosesItsOwn
  <2>4. ASSUME NEW r \in Reqs, StreamBegin(r) \/ StreamEvent(r) \/ StreamEnd(r)
        PROVE  SlowLosesItsOwn'
    BY <2>4 DEF StreamBegin, StreamEvent, StreamEnd, Subscribe, Take, Unsubscribe, SlowLosesItsOwn
  <2>5. ASSUME NEW r \in Reqs, NEW s \in Streams, PublishTo(r, s) PROVE SlowLosesItsOwn'
    <3>1. s \in Reqs /\ r \in Pubs /\ UNCHANGED audience
      BY <2>5, RequestsAssumption DEF PublishTo, Send, Reqs
    <3>2. \A t \in Reqs : /\ Len(sent[t]) <= Len(sent'[t]) /\ Len(sent[t]) \in Nat
                          /\ \A i \in 1..Len(sent[t]) : sent'[t][i] = sent[t][i]
      <4>1. \A t \in Reqs : t # s => sent'[t] = sent[t]
        BY <2>5, <3>1 DEF PublishTo, Send, HubTyped
      <4>2. sent[s] \in Seq(Pubs) /\ (sent'[s] = sent[s] \/ sent'[s] = Append(sent[s], r))
        BY <2>5, <3>1 DEF PublishTo, Send, HubTyped
      <4>3. \A t \in Reqs : sent[t] \in Seq(Pubs) BY DEF HubTyped
      <4>4. /\ Len(sent[s]) <= Len(sent'[s]) /\ \A i \in 1..Len(sent[s]) : sent'[s][i] = sent[s][i]
        BY <4>2, <3>1
      <4> QED BY <4>1, <4>3, <4>4
    <3>3. ~Full(s) => \E i \in 1..Len(sent'[s]) : sent'[s][i] = r
      <4> SUFFICES ASSUME ~Full(s) PROVE \E i \in 1..Len(sent'[s]) : sent'[s][i] = r OBVIOUS
      <4>1. sent'[s] = Append(sent[s], r) /\ sent[s] \in Seq(Pubs)
        BY <2>5, <3>1 DEF PublishTo, Send, HubTyped
      <4>2. Len(sent'[s]) \in 1..Len(sent'[s]) /\ sent'[s][Len(sent'[s])] = r BY <4>1, <3>1
      <4> QED BY <4>2
    <3>4. ASSUME NEW p \in Pubs, NEW t \in audience[p] \ (todo'[p] \cup lost'[p])
          PROVE  \E i \in 1..Len(sent'[t]) : sent'[t][i] = p
      <4>1. t \in Reqs BY <3>4 DEF HubTyped
      <4>2. CASE t \in todo[p]
        <5>1. p = r /\ t = s BY <2>5, <3>1, <3>4, <4>2 DEF PublishTo, Send, HubTyped
        <5>2. ~Full(s) BY <2>5, <3>1, <3>4, <5>1 DEF PublishTo, Send, HubTyped
        <5> QED BY <5>1, <5>2, <3>3
      <4>3. CASE t \notin todo[p]
        <5>1. t \notin lost[p] BY <2>5, <3>1, <3>4 DEF PublishTo, Send, HubTyped
        <5>2. PICK i \in 1..Len(sent[t]) : sent[t][i] = p
          BY <3>4, <4>3, <5>1 DEF SlowLosesItsOwn
        <5>3. i \in 1..Len(sent'[t]) /\ sent'[t][i] = p BY <3>2, <4>1, <5>2
        <5> QED BY <5>3
      <4> QED BY <4>2, <4>3
    <3> QED BY <3>1, <3>4 DEF SlowLosesItsOwn
  <2> QED BY <2>1, <2>2, <2>3, <2>4, <2>5, HubSteps DEF vars
<1> QED BY <1>1, <1>2, Invariant, PTL DEF Spec

-----------------------------------------------------------------------------
(* Passwords, settings, the probe. *)

\* Only an insertion, a logout, the last two steps of a password change and a
\* restart touch what a user's tokens are worth.
LEMMA AuthSteps ==
  ASSUME NEW r \in Reqs,
         \/ BearerAuth(r) \/ Login(r) \/ CreateToken(r) \/ DeleteToken(r) \/ ChangePassword(r)
         \/ Validate(r) \/ SaveError(r) \/ Saved(r) \/ Publish(r) \/ PublishEnd(r)
         \/ StreamBegin(r) \/ StreamEvent(r) \/ StreamEnd(r) \/ ClientGone(r) \/ Probe(r)
         \/ ProbeEnd(r)
         \/ \E k \in DOMAIN Defaults : SaveSetting(r, k)
         \/ \E s \in Streams : PublishTo(r, s)
         \/ \E q \in Requests[r] : Arrive(r, q)
  PROVE  UNCHANGED <<userTok, hash, born, late>>
<1> USE DEF authVars, apiVars
<1> QED BY DEF BearerAuth, Login, CreateToken, DeleteToken, ChangePassword, Validate, SaveError, Saved,
           Publish, PublishEnd, StreamBegin, StreamEvent, StreamEnd, ClientGone, Probe, ProbeEnd,
           Arrive, SaveSetting, PublishTo

\* A password change revokes every login with an earlier password.
THEOREM OldPasswordsRevoked == Spec => []OldPasswordRevoked
<1>1. Init => OldPasswordRevoked
  BY DEF Init, OldPasswordRevoked, Tokens
<1>2. Inv /\ OldPasswordRevoked /\ [Next]_vars => OldPasswordRevoked'
  <2> SUFFICES ASSUME Typed, Asks, OldPasswordRevoked, [Next]_vars PROVE OldPasswordRevoked'
    BY DEF Inv
  <2> USE DEF Goto
  <2>1. CASE Restart BY <2>1 DEF OldPasswordRevoked, Restart
  <2>2. ASSUME NEW r \in Reqs, Insert(r) PROVE OldPasswordRevoked'
    <3>1. Ordinary(r) BY <2>2, OrdinarySteps
    <3> QED BY <2>2, <3>1 DEF Ordinary, Insert, Typed, Tokens, OldPasswordRevoked
  <2>3. ASSUME NEW r \in Reqs, Logout(r) PROVE OldPasswordRevoked'
    <3>1. Ordinary(r) BY <2>3, OrdinarySteps
    <3> QED BY <2>3, <3>1 DEF Ordinary, Logout, authVars, OldPasswordRevoked
  <2>4. ASSUME NEW r \in Reqs, SavePassword(r) PROVE OldPasswordRevoked'
    BY <2>4 DEF SavePassword, Typed, OldPasswordRevoked
  <2>5. ASSUME NEW r \in Reqs, Purge(r) PROVE OldPasswordRevoked'
    BY <2>5 DEF Purge, Typed, OldPasswordRevoked
  <2>6. ASSUME NEW r \in Reqs, UNCHANGED <<userTok, hash, born, late>>,
               Ordinary(r) \/ Probe(r) \/ ProbeEnd(r) \/ \E q \in Requests[r] : Arrive(r, q)
        PROVE  OldPasswordRevoked'
    <3>1. \A q \in Reqs : at[q] = "purge" => at'[q] = "purge"
      BY <2>6 DEF Ordinary, Probe, ProbeEnd, Arrive, Typed
    <3> QED BY <2>6, <3>1 DEF OldPasswordRevoked
  <2>7. CASE UNCHANGED vars BY <2>7 DEF vars, reqVars, authVars, OldPasswordRevoked
  <2> QED BY <2>1, <2>2, <2>3, <2>4, <2>5, <2>6, <2>7, OrdinarySteps, AuthSteps DEF Next
<1> QED BY <1>1, <1>2, Invariant, PTL DEF Spec

-----------------------------------------------------------------------------
\* What an update has saved so far, and that all of it was validated first.
Updating ==
  /\ \A k \in DOMAIN Defaults : settings[k] \in Accepted[k]
  /\ \A r \in Reqs :
       /\ at[r] \notin {"saving", "publish", "sending", "ok", "failed", "killed"} => wrote[r] = {}
       /\ at[r] = "saving" => \A k \in DOMAIN req[r].body : Valid(k, req[r].body[k])
       /\ req[r].op = "settings" /\ at[r] \in {"publish", "sending", "ok"} => wrote[r] = DOMAIN req[r].body

\* A request that saves nothing in this step and is not about to.
Passes(r) ==
  /\ UNCHANGED <<settings, wrote, req>> /\ \A q \in Reqs \ {r} : at'[q] = at[q]
  /\ at'[r] # "saving"
  /\ at[r] \in {"saving", "publish", "sending", "ok", "failed", "killed"}
       => at'[r] \in {"publish", "sending", "ok", "failed", "killed"}
  /\ req[r].op = "settings" /\ at'[r] \in {"publish", "sending", "ok"}
       => at[r] \in {"publish", "sending", "ok"}

\* It leaves what the updates have done as it is.
LEMMA Passing == ASSUME Updating, NEW r \in Reqs, Passes(r) PROVE Updating'
BY DEF Updating, Passes, Valid

\* All steps of a request but its arrival and three steps of an update.
LEMMA PassingSteps ==
  ASSUME Typed, Asks, NEW r \in Reqs,
         \/ BearerAuth(r) \/ Login(r) \/ Insert(r) \/ Logout(r) \/ CreateToken(r)
         \/ DeleteToken(r) \/ ChangePassword(r) \/ SavePassword(r) \/ Purge(r) \/ Probe(r)
         \/ ProbeEnd(r) \/ SaveError(r) \/ Publish(r) \/ PublishEnd(r) \/ StreamBegin(r)
         \/ StreamEvent(r) \/ StreamEnd(r) \/ ClientGone(r)
         \/ \E s \in Streams : PublishTo(r, s)
  PROVE  Passes(r)
<1> USE DEF Goto, apiVars, reqVars, authVars, setVars, Passes, Reqs
<1>1. CASE BearerAuth(r) BY Request, <1>1 DEF BearerAuth, Typed, Asks, Ops, Idle
<1>2. CASE Login(r) BY <1>2 DEF Login, Typed, Asks
<1>3. CASE Insert(r) BY <1>3 DEF Insert, Typed, Asks
<1>4. CASE Logout(r) BY <1>4 DEF Logout, Typed, Asks
<1>5. CASE CreateToken(r) BY <1>5 DEF CreateToken, Typed, Asks
<1>6. CASE DeleteToken(r) BY <1>6 DEF DeleteToken, Typed, Asks
<1>7. CASE ChangePassword(r) BY <1>7 DEF ChangePassword, Typed, Asks
<1>8. CASE SavePassword(r) BY <1>8 DEF SavePassword, Typed, Asks
<1>9. CASE Purge(r) BY <1>9 DEF Purge, Typed, Asks
<1>10. CASE Probe(r) BY <1>10 DEF Probe, Typed, Asks
<1>11. CASE ProbeEnd(r) BY <1>11 DEF ProbeEnd, Typed, Asks
<1>12. CASE SaveError(r) BY <1>12 DEF SaveError, Typed, Asks
<1>13. CASE Publish(r) BY <1>13 DEF Publish, Typed, Asks, PublishBegin
<1>14. CASE PublishEnd(r) BY <1>14 DEF PublishEnd, Typed, Asks
<1>15. CASE StreamBegin(r) BY <1>15 DEF StreamBegin, Typed, Asks
<1>16. CASE StreamEvent(r) BY <1>16 DEF StreamEvent, Typed, Asks
<1>17. CASE StreamEnd(r) BY <1>17 DEF StreamEnd, Typed, Asks
<1>18. CASE ClientGone(r) BY <1>18 DEF ClientGone, Typed, Asks
<1>19. ASSUME NEW s \in Streams, PublishTo(r, s) PROVE Passes(r)
  BY <1>19 DEF PublishTo, Typed, Asks
<1> QED BY <1>1, <1>2, <1>3, <1>4, <1>5, <1>6, <1>7, <1>8, <1>9, <1>10, <1>11, <1>12, <1>13, <1>14, <1>15, <1>16, <1>17, <1>18, <1>19

\* Settings stay sound, however many updates overlap and fail half-way.
THEOREM SettingsStaySound == Spec => []SettingsSound
<1>1. Inv /\ Init => Updating
  BY RequestsAssumption DEF Init, HubInit, Updating, Valid
<1>2. Inv /\ Updating /\ [Next]_vars => Updating'
  <2> SUFFICES ASSUME Typed, Asks, Updating, [Next]_vars PROVE Updating'
    BY DEF Inv
  <2> USE DEF Goto, reqVars, authVars, setVars, Reqs
  <2>1. CASE Restart BY <2>1 DEF Typed, Updating, Restart, Ended, Valid
  <2>2. ASSUME NEW r \in Reqs, NEW q \in Requests[r], Arrive(r, q) PROVE Updating'
    <3>1. at'[r] \in {"login", "publish", "auth"} /\ (at'[r] = "publish" => q.op = "event")
      BY <2>2 DEF Arrive, Typed
    <3>2. /\ at[r] = "none" /\ req'[r] = q /\ UNCHANGED <<settings, wrote>>
          /\ \A p \in Reqs \ {r} : at'[p] = at[p] /\ req'[p] = req[p]
      BY <2>2 DEF Arrive, Typed
    <3> QED BY <3>1, <3>2 DEF Updating, Valid
  <2>3. ASSUME NEW r \in Reqs, Validate(r) PROVE Updating'
    BY <2>3 DEF Validate, Typed, Asks, Updating, Valid
  <2>4. ASSUME NEW r \in Reqs, NEW k \in DOMAIN Defaults, SaveSetting(r, k) PROVE Updating'
    BY <2>4 DEF SaveSetting, Typed, Asks, Updating, Valid
  <2>5. ASSUME NEW r \in Reqs, Saved(r) PROVE Updating'
    BY <2>5 DEF Saved, Typed, Asks, Updating, Valid
  <2>6. CASE UNCHANGED vars BY <2>6 DEF vars, Updating, Valid
  <2> QED BY <2>1, <2>2, <2>3, <2>4, <2>5, <2>6, Passing, PassingSteps DEF Next
<1>3. Inv /\ Updating => SettingsSound BY DEF Inv, Updating, SettingsSound, Valid
<1> QED BY <1>1, <1>2, <1>3, Invariant, PTL DEF Spec

-----------------------------------------------------------------------------
\* Only probes and a restart touch the flag.
LEMMA FlagSteps ==
  ASSUME NEW r \in Reqs,
         \/ BearerAuth(r) \/ Login(r) \/ Insert(r) \/ Logout(r) \/ CreateToken(r)
         \/ DeleteToken(r) \/ ChangePassword(r) \/ Validate(r) \/ SaveError(r) \/ Saved(r)
         \/ Publish(r) \/ PublishEnd(r) \/ StreamBegin(r) \/ StreamEvent(r) \/ StreamEnd(r)
         \/ ClientGone(r) \/ SavePassword(r) \/ Purge(r)
         \/ \E k \in DOMAIN Defaults : SaveSetting(r, k)
         \/ \E s \in Streams : PublishTo(r, s)
         \/ \E q \in Requests[r] : Arrive(r, q)
  PROVE  UNCHANGED probeRunning
<1> USE DEF setVars, apiVars
<1> QED BY DEF BearerAuth, Login, Insert, Logout, CreateToken, DeleteToken, ChangePassword, Validate, SaveError,
           Saved, Publish, PublishEnd, StreamBegin, StreamEvent, StreamEnd, ClientGone, SavePassword, Purge,
           Arrive, SaveSetting, PublishTo

\* One discovery at a time, and none locked out for ever.
THEOREM OneProbeAtATime == Spec => []OneProbe
<1>1. Init => OneProbe
  BY DEF Init, OneProbe
<1>2. Inv /\ OneProbe /\ [Next]_vars => OneProbe'
  <2> SUFFICES ASSUME Typed, Asks, OneProbe, [Next]_vars PROVE OneProbe'
    BY DEF Inv
  <2> USE DEF Goto
  <2>1. CASE Restart BY <2>1 DEF OneProbe, Restart, Ended
  <2>2. ASSUME NEW r \in Reqs, Probe(r) PROVE OneProbe'
    BY <2>2 DEF Probe, Typed, OneProbe
  <2>3. ASSUME NEW r \in Reqs, ProbeEnd(r) PROVE OneProbe'
    BY <2>3 DEF ProbeEnd, Typed, OneProbe
  <2>4. ASSUME NEW r \in Reqs, UNCHANGED probeRunning,
               \/ Ordinary(r) \/ SavePassword(r) \/ Purge(r)
               \/ \E q \in Requests[r] : Arrive(r, q)
        PROVE  OneProbe'
    <3>1. \A q \in Reqs : at'[q] = "probing" <=> at[q] = "probing"
      BY <2>4 DEF Ordinary, SavePassword, Purge, Arrive, Typed
    <3> QED BY <2>4, <3>1 DEF OneProbe
  <2>5. CASE UNCHANGED vars BY <2>5 DEF vars, reqVars, setVars, OneProbe
  <2> QED BY <2>1, <2>2, <2>3, <2>4, <2>5, OrdinarySteps, FlagSteps DEF Next
<1> QED BY <1>1, <1>2, Invariant, PTL DEF Spec
=============================================================================
