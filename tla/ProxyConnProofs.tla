-------------------------- MODULE ProxyConnProofs --------------------------
(* Proofs about ProxyConn, for every set of connections, hosts, credential     *)
(* sets and rules: the types, and the refinement of RelayLife.                *)
EXTENDS ProxyConn, WellFoundedInduction, TLAPS

Typed ==
  /\ listening \in BOOLEAN /\ creds \in SUBSET Users /\ rules \in RuleSets
  /\ iface \in BOOLEAN /\ dev \in BOOLEAN
  /\ pc \in [Conns -> Labels] /\ fds \in [Conns -> SUBSET Sockets]
  /\ gor \in [Conns -> SUBSET (Loops \cup Copies \cup {"control"})]
  /\ ends \in [Conns -> [{"client", "server"} -> {"open", "stuck", "gone"}]]
  /\ host \in [Conns -> Hosts \cup {None}] /\ ifc \in [Conns -> BOOLEAN]
  /\ plain \in [Conns -> BOOLEAN]
  /\ egress \in [Conns -> Egress] /\ over \in [Conns -> BOOLEAN]
  /\ locked \in [Conns -> Sources \cup {None}] /\ gram \in [Conns -> Hosts \cup {None}]
  /\ age \in [Conns -> 0..(IdleLimit + 1)]

\* What a connection holds follows from where its goroutine is; only the copies of
\* a tunnel and the reader of a control connection may still be on their way out
\* when handle has returned.
Shaped ==
  \A c \in Conns :
    /\ pc[c] = "none" => fds[c] = {} /\ gor[c] = {}
    /\ pc[c] \in Handshake \cup {"lookup", "dial", "listen"} => fds[c] = {"conn"} /\ gor[c] = {}
    /\ pc[c] \in {"reply", "forward"} => fds[c] = {"conn", "up"} /\ gor[c] = {}
    /\ pc[c] = "bind" => fds[c] = {"conn", "client"} /\ gor[c] = {}
    /\ pc[c] = "answer" => fds[c] = {"conn", "client", "target"} /\ gor[c] = {}
    /\ pc[c] = "pipe" => fds[c] = {"conn", "up"} /\ gor[c] \subseteq Copies
    /\ pc[c] = "assoc" => fds[c] = {"conn", "client", "target"} /\ gor[c] \subseteq Loops \cup {"control"}
    /\ pc[c] = "wait" => fds[c] = {"conn"} /\ gor[c] \subseteq Loops \cup {"control"}
    /\ pc[c] = "done" => fds[c] = {} /\ gor[c] \subseteq Copies \cup {"control"}

Outbound == \A c \in Conns : egress[c] = "none" <=> fds[c] \cap {"up", "target"} = {}

Inv == Typed /\ Shaped /\ Outbound
-----------------------------------------------------------------------------
\* The invariant of the proofs below.
LEMMA Invariant == Spec => []Inv
<1> USE DEF Goto, Labels, Setup, Handshake, Sockets, Loops, Copies, Egress, line, sets, tcp, udp
<1>1. Init => Inv
  <2> SUFFICES ASSUME Init PROVE Inv OBVIOUS
  <2>1. 0 \in 0..(IdleLimit + 1) BY SetsAssumption
  <2>2. Typed BY <2>1, SetsAssumption DEF Init, Typed, None
  <2>3. Shaped BY DEF Init, Shaped
  <2>4. Outbound BY DEF Init, Outbound
  <2> QED BY <2>2, <2>3, <2>4 DEF Inv
<1>2. Inv /\ [Next]_vars => Inv'
  <2> SUFFICES ASSUME Typed, Shaped, Outbound, [Next]_vars PROVE Inv'
    BY DEF Inv
  <2>1. ASSUME NEW c \in Conns, Accept(c) PROVE Inv'
    <3>1. Typed' BY <2>1, SetsAssumption DEF Typed, Accept, Open, None, Reads
    <3>2. Shaped' BY <2>1 DEF Typed, Shaped, Accept, Open
    <3>3. Outbound' BY <2>1 DEF Typed, Shaped, Outbound, Accept, Open
    <3> QED BY <3>1, <3>2, <3>3 DEF Inv
  <2>2. ASSUME NEW c \in Conns, Peek(c) PROVE Inv'
    <3>1. Typed' BY <2>2, SetsAssumption DEF Typed, Peek, None, Reads
    <3>2. Shaped' BY <2>2 DEF Typed, Shaped, Peek
    <3>3. Outbound' BY <2>2 DEF Typed, Shaped, Outbound, Peek
    <3> QED BY <3>1, <3>2, <3>3 DEF Inv
  <2>3. ASSUME NEW c \in Conns, GiveUp(c) PROVE Inv'
    <3>1. Typed' BY <2>3, SetsAssumption DEF Typed, GiveUp, Return, None, Reads
    <3>2. Shaped' BY <2>3 DEF Typed, Shaped, GiveUp, Return
    <3>3. Outbound' BY <2>3 DEF Typed, Shaped, Outbound, GiveUp, Return
    <3> QED BY <3>1, <3>2, <3>3 DEF Inv
  <2>4. ASSUME NEW c \in Conns, Greet(c) PROVE Inv'
    <3>1. Typed' BY <2>4, SetsAssumption DEF Typed, Greet, None, Reads
    <3>2. Shaped' BY <2>4 DEF Typed, Shaped, Greet
    <3>3. Outbound' BY <2>4 DEF Typed, Shaped, Outbound, Greet
    <3> QED BY <3>1, <3>2, <3>3 DEF Inv
  <2>5. ASSUME NEW c \in Conns, NEW u \in Users, Auth(c, u) PROVE Inv'
    <3>1. Typed' BY <2>5, SetsAssumption DEF Typed, Auth, None, Reads
    <3>2. Shaped' BY <2>5 DEF Typed, Shaped, Auth
    <3>3. Outbound' BY <2>5 DEF Typed, Shaped, Outbound, Auth
    <3> QED BY <3>1, <3>2, <3>3 DEF Inv
  <2>6. ASSUME NEW c \in Conns, NEW h \in Hosts, Connect(c, h) PROVE Inv'
    <3>1. Typed'
      <4>1. Ask(c, h, FALSE) BY <2>6 DEF Connect
      <4>2. host' \in [Conns -> Hosts \cup {None}] /\ plain' \in [Conns -> BOOLEAN]
        BY <4>1 DEF Ask, Typed, None
      <4>3. pc' \in [Conns -> Labels] /\ fds' \in [Conns -> SUBSET Sockets] /\ egress' \in [Conns -> Egress]
        <5>1. CASE allowed(h, ClientIP[c]) BY <4>1, <5>1 DEF Ask, Typed
        <5>2. CASE ~allowed(h, ClientIP[c])
          <6>1. Return(c, {}) BY <4>1, <5>2 DEF Ask
          <6> QED BY <6>1 DEF Return, Typed
        <5> QED BY <5>1, <5>2
      <4> QED BY <4>1, <4>2, <4>3 DEF Ask, Typed
    <3>2. Shaped' BY <2>6 DEF Typed, Shaped, Connect, Ask, Return
    <3>3. Outbound' BY <2>6 DEF Typed, Shaped, Outbound, Connect, Ask, Return
    <3> QED BY <3>1, <3>2, <3>3 DEF Inv
  <2>7. ASSUME NEW c \in Conns, NEW u \in Users, NEW h \in Hosts, NEW p \in BOOLEAN, Http(c, u, h, p)
        PROVE  Inv'
    <3>1. Typed'
      <4>1. Ask(c, h, p) BY <2>7 DEF Http
      <4>2. host' \in [Conns -> Hosts \cup {None}] /\ plain' \in [Conns -> BOOLEAN]
        BY <4>1 DEF Ask, Typed, None
      <4>3. pc' \in [Conns -> Labels] /\ fds' \in [Conns -> SUBSET Sockets] /\ egress' \in [Conns -> Egress]
        <5>1. CASE allowed(h, ClientIP[c]) BY <4>1, <5>1 DEF Ask, Typed
        <5>2. CASE ~allowed(h, ClientIP[c])
          <6>1. Return(c, {}) BY <4>1, <5>2 DEF Ask
          <6> QED BY <6>1 DEF Return, Typed
        <5> QED BY <5>1, <5>2
      <4> QED BY <4>1, <4>2, <4>3 DEF Ask, Typed
    <3>2. Shaped' BY <2>7 DEF Typed, Shaped, Http, Ask, Return
    <3>3. Outbound' BY <2>7 DEF Typed, Shaped, Outbound, Http, Ask, Return
    <3> QED BY <3>1, <3>2, <3>3 DEF Inv
  <2>8. ASSUME NEW c \in Conns, Lookup(c) PROVE Inv'
    <3>1. Typed' BY <2>8, SetsAssumption DEF Typed, Lookup, None, Reads
    <3>2. Shaped' BY <2>8 DEF Typed, Shaped, Lookup
    <3>3. Outbound' BY <2>8 DEF Typed, Shaped, Outbound, Lookup
    <3> QED BY <3>1, <3>2, <3>3 DEF Inv
  <2>9. ASSUME NEW c \in Conns, DialBound(c) PROVE Inv'
    <3>1. Typed' BY <2>9, SetsAssumption DEF Typed, DialBound, Open, Bound, None, Reads
    <3>2. Shaped' BY <2>9 DEF Typed, Shaped, DialBound, Open, Bound
    <3>3. Outbound' BY <2>9 DEF Typed, Shaped, Outbound, DialBound, Open, Bound
    <3> QED BY <3>1, <3>2, <3>3 DEF Inv
  <2>10. ASSUME NEW c \in Conns, DialError(c) PROVE Inv'
    <3>1. Typed' BY <2>10, SetsAssumption DEF Typed, DialError, Return, None, Reads
    <3>2. Shaped' BY <2>10 DEF Typed, Shaped, DialError, Return
    <3>3. Outbound' BY <2>10 DEF Typed, Shaped, Outbound, DialError, Return
    <3> QED BY <3>1, <3>2, <3>3 DEF Inv
  <2>11. ASSUME NEW c \in Conns, Reply(c) PROVE Inv'
    <3>1. Typed' BY <2>11, SetsAssumption DEF Typed, Reply, StartPipe, None, Reads
    <3>2. Shaped' BY <2>11 DEF Typed, Shaped, Reply, StartPipe
    <3>3. Outbound' BY <2>11 DEF Typed, Shaped, Outbound, Reply, StartPipe
    <3> QED BY <3>1, <3>2, <3>3 DEF Inv
  <2>12. ASSUME NEW c \in Conns, Forward(c) PROVE Inv'
    <3>1. Typed' BY <2>12, SetsAssumption DEF Typed, Forward, StartPipe, None, Reads
    <3>2. Shaped' BY <2>12 DEF Typed, Shaped, Forward, StartPipe
    <3>3. Outbound' BY <2>12 DEF Typed, Shaped, Outbound, Forward, StartPipe
    <3> QED BY <3>1, <3>2, <3>3 DEF Inv
  <2>13. ASSUME NEW c \in Conns, ReplyError(c) PROVE Inv'
    <3>1. Typed' BY <2>13, SetsAssumption DEF Typed, ReplyError, Return, None, Reads
    <3>2. Shaped' BY <2>13 DEF Typed, Shaped, ReplyError, Return
    <3>3. Outbound' BY <2>13 DEF Typed, Shaped, Outbound, ReplyError, Return
    <3> QED BY <3>1, <3>2, <3>3 DEF Inv
  <2>14. ASSUME NEW c \in Conns, NEW d \in Copies, CopyEnds(c, d) PROVE Inv'
    <3>1. Typed' BY <2>14, SetsAssumption DEF Typed, CopyEnds, None, Reads
    <3>2. Shaped' BY <2>14 DEF Typed, Shaped, CopyEnds
    <3>3. Outbound' BY <2>14 DEF Typed, Shaped, Outbound, CopyEnds
    <3> QED BY <3>1, <3>2, <3>3 DEF Inv
  <2>15. ASSUME NEW c \in Conns, PipeReturn(c) PROVE Inv'
    <3>1. Typed' BY <2>15, SetsAssumption DEF Typed, PipeReturn, Return, None, Reads
    <3>2. Shaped' BY <2>15 DEF Typed, Shaped, PipeReturn, Return
    <3>3. Outbound' BY <2>15 DEF Typed, Shaped, Outbound, PipeReturn, Return
    <3> QED BY <3>1, <3>2, <3>3 DEF Inv
  <2>16. ASSUME NEW c \in Conns, AskUdp(c) PROVE Inv'
    <3>1. Typed' BY <2>16, SetsAssumption DEF Typed, AskUdp, None, Reads
    <3>2. Shaped' BY <2>16 DEF Typed, Shaped, AskUdp
    <3>3. Outbound' BY <2>16 DEF Typed, Shaped, Outbound, AskUdp
    <3> QED BY <3>1, <3>2, <3>3 DEF Inv
  <2>17. ASSUME NEW c \in Conns, Listen(c) PROVE Inv'
    <3>1. Typed' BY <2>17, SetsAssumption DEF Typed, Listen, Open, None, Reads
    <3>2. Shaped' BY <2>17 DEF Typed, Shaped, Listen, Open
    <3>3. Outbound' BY <2>17 DEF Typed, Shaped, Outbound, Listen, Open
    <3> QED BY <3>1, <3>2, <3>3 DEF Inv
  <2>18. ASSUME NEW c \in Conns, ListenError(c) PROVE Inv'
    <3>1. Typed' BY <2>18, SetsAssumption DEF Typed, ListenError, Return, None, Reads
    <3>2. Shaped' BY <2>18 DEF Typed, Shaped, ListenError, Return
    <3>3. Outbound' BY <2>18 DEF Typed, Shaped, Outbound, ListenError, Return
    <3> QED BY <3>1, <3>2, <3>3 DEF Inv
  <2>19. ASSUME NEW c \in Conns, Bind(c) PROVE Inv'
    <3>1. Typed' BY <2>19, SetsAssumption DEF Typed, Bind, Open, Bound, None, Reads
    <3>2. Shaped' BY <2>19 DEF Typed, Shaped, Bind, Open, Bound
    <3>3. Outbound' BY <2>19 DEF Typed, Shaped, Outbound, Bind, Open, Bound
    <3> QED BY <3>1, <3>2, <3>3 DEF Inv
  <2>20. ASSUME NEW c \in Conns, BindError(c) PROVE Inv'
    <3>1. Typed' BY <2>20, SetsAssumption DEF Typed, BindError, Return, None, Reads
    <3>2. Shaped' BY <2>20 DEF Typed, Shaped, BindError, Return
    <3>3. Outbound' BY <2>20 DEF Typed, Shaped, Outbound, BindError, Return
    <3> QED BY <3>1, <3>2, <3>3 DEF Inv
  <2>21. ASSUME NEW c \in Conns, Answer(c) PROVE Inv'
    <3>1. Typed' BY <2>21, SetsAssumption DEF Typed, Answer, None, Reads
    <3>2. Shaped' BY <2>21 DEF Typed, Shaped, Answer
    <3>3. Outbound' BY <2>21 DEF Typed, Shaped, Outbound, Answer
    <3> QED BY <3>1, <3>2, <3>3 DEF Inv
  <2>22. ASSUME NEW c \in Conns, AnswerError(c) PROVE Inv'
    <3>1. Typed' BY <2>22, SetsAssumption DEF Typed, AnswerError, Return, Cancel, None, Reads
    <3>2. Shaped' BY <2>22 DEF Typed, Shaped, AnswerError, Return, Cancel
    <3>3. Outbound' BY <2>22 DEF Typed, Shaped, Outbound, AnswerError, Return, Cancel
    <3> QED BY <3>1, <3>2, <3>3 DEF Inv
  <2>23. ASSUME NEW c \in Conns, NEW a \in Sources, NEW h \in Hosts, NEW wf \in BOOLEAN, Recv(c, a, h, wf)
         PROVE  Inv'
    <3>1. Typed'
      <4>1. 0 \in 0..(IdleLimit + 1) BY SetsAssumption
      <4>2. age' \in [Conns -> 0..(IdleLimit + 1)] BY <2>23, <4>1 DEF Recv, Typed
      <4>3. gram' \in [Conns -> Hosts \cup {None}] BY <2>23 DEF Recv, Typed, None
      <4>4. locked' \in [Conns -> Sources \cup {None}] BY <2>23 DEF Recv, Typed, None
      <4> QED BY <2>23, <4>2, <4>3, <4>4 DEF Recv, Typed
    <3>2. Shaped' BY <2>23 DEF Typed, Shaped, Recv
    <3>3. Outbound' BY <2>23 DEF Typed, Shaped, Outbound, Recv
    <3> QED BY <3>1, <3>2, <3>3 DEF Inv
  <2>24. ASSUME NEW c \in Conns, Resolved(c) PROVE Inv'
    <3>1. Typed'
      <4>1. age' \in [Conns -> 0..(IdleLimit + 1)]
        BY <2>24, SetsAssumption DEF Typed, Resolved, Active
      <4> QED BY <2>24, <4>1 DEF Typed, None, Resolved, Active
    <3>2. Shaped' BY <2>24 DEF Typed, Shaped, Resolved, Active
    <3>3. Outbound' BY <2>24 DEF Typed, Shaped, Outbound, Resolved, Active
    <3> QED BY <3>1, <3>2, <3>3 DEF Inv
  <2>25. ASSUME NEW c \in Conns, Backward(c) PROVE Inv'
    <3>1. Typed'
      <4>1. age' \in [Conns -> 0..(IdleLimit + 1)]
        BY <2>25, SetsAssumption DEF Typed, Backward, Active
      <4> QED BY <2>25, <4>1 DEF Typed, None, Backward, Active
    <3>2. Shaped' BY <2>25 DEF Typed, Shaped, Backward, Active
    <3>3. Outbound' BY <2>25 DEF Typed, Shaped, Outbound, Backward, Active
    <3> QED BY <3>1, <3>2, <3>3 DEF Inv
  <2>26. ASSUME NEW c \in Conns, Tick(c) PROVE Inv'
    <3>1. Typed'
      <4>1. age' \in [Conns -> 0..(IdleLimit + 1)] BY <2>26, SetsAssumption DEF Typed, Tick
      <4>2. over' \in [Conns -> BOOLEAN] BY <2>26 DEF Typed, Tick, Cancel
      <4>3. gor' \in [Conns -> SUBSET (Loops \cup Copies \cup {"control"})]
        BY <2>26 DEF Typed, Tick, Stops
      <4> QED BY <2>26, <4>1, <4>2, <4>3 DEF Typed, None, Tick
    <3>2. Shaped' BY <2>26 DEF Typed, Shaped, Tick, Cancel, Stops
    <3>3. Outbound' BY <2>26 DEF Typed, Shaped, Outbound, Tick, Cancel, Stops
    <3> QED BY <3>1, <3>2, <3>3 DEF Inv
  <2>27. ASSUME NEW c \in Conns, NEW g \in Loops, LoopEnds(c, g) PROVE Inv'
    <3>1. Typed' BY <2>27, SetsAssumption DEF Typed, LoopEnds, Cancel, Stops, None, Reads
    <3>2. Shaped' BY <2>27 DEF Typed, Shaped, LoopEnds, Cancel, Stops
    <3>3. Outbound' BY <2>27 DEF Typed, Shaped, Outbound, LoopEnds, Cancel, Stops
    <3> QED BY <3>1, <3>2, <3>3 DEF Inv
  <2>28. ASSUME NEW c \in Conns, Control(c) PROVE Inv'
    <3>1. Typed' BY <2>28, SetsAssumption DEF Typed, Control, Cancel, Stops, None, Reads
    <3>2. Shaped' BY <2>28 DEF Typed, Shaped, Control, Cancel, Stops
    <3>3. Outbound' BY <2>28 DEF Typed, Shaped, Outbound, Control, Cancel, Stops
    <3> QED BY <3>1, <3>2, <3>3 DEF Inv
  <2>29. ASSUME NEW c \in Conns, Teardown(c) PROVE Inv'
    <3>1. Typed' BY <2>29, SetsAssumption DEF Typed, Teardown, Cancel, None, Reads
    <3>2. Shaped' BY <2>29 DEF Typed, Shaped, Teardown, Cancel
    <3>3. Outbound' BY <2>29 DEF Typed, Shaped, Outbound, Teardown, Cancel
    <3> QED BY <3>1, <3>2, <3>3 DEF Inv
  <2>30. ASSUME NEW c \in Conns, Waited(c) PROVE Inv'
    <3>1. Typed' BY <2>30, SetsAssumption DEF Typed, Waited, Return, None, Reads
    <3>2. Shaped' BY <2>30 DEF Typed, Shaped, Waited, Return
    <3>3. Outbound' BY <2>30 DEF Typed, Shaped, Outbound, Waited, Return
    <3> QED BY <3>1, <3>2, <3>3 DEF Inv
  <2>31. ASSUME NEW c \in Conns, ClientGone(c) PROVE Inv'
    <3>1. Typed' BY <2>31, SetsAssumption DEF Typed, ClientGone, Worsens, None, Reads
    <3>2. Shaped' BY <2>31 DEF Typed, Shaped, ClientGone, Worsens
    <3>3. Outbound' BY <2>31 DEF Typed, Shaped, Outbound, ClientGone, Worsens
    <3> QED BY <3>1, <3>2, <3>3 DEF Inv
  <2>32. ASSUME NEW c \in Conns, ServerGone(c) PROVE Inv'
    <3>1. Typed' BY <2>32, SetsAssumption DEF Typed, ServerGone, Worsens, None, Reads
    <3>2. Shaped' BY <2>32 DEF Typed, Shaped, ServerGone, Worsens
    <3>3. Outbound' BY <2>32 DEF Typed, Shaped, Outbound, ServerGone, Worsens
    <3> QED BY <3>1, <3>2, <3>3 DEF Inv
  <2>33. ASSUME NEW c \in Conns, NEW e \in {"client", "server"}, Stuck(c, e) PROVE Inv'
    <3>1. Typed' BY <2>33, SetsAssumption DEF Typed, Stuck, Worsens, None, Reads
    <3>2. Shaped' BY <2>33 DEF Typed, Shaped, Stuck, Worsens
    <3>3. Outbound' BY <2>33 DEF Typed, Shaped, Outbound, Stuck, Worsens
    <3> QED BY <3>1, <3>2, <3>3 DEF Inv
  <2>34. ASSUME NEW new \in CredSets, ReloadCreds(new) PROVE Inv'
    <3>1. Typed' BY <2>34, SetsAssumption DEF Typed, ReloadCreds, Reload, None, Reads
    <3>2. Shaped' BY <2>34 DEF Typed, Shaped, ReloadCreds, Reload
    <3>3. Outbound' BY <2>34 DEF Typed, Shaped, Outbound, ReloadCreds, Reload
    <3> QED BY <3>1, <3>2, <3>3 DEF Inv
  <2>35. ASSUME NEW new \in RuleSets, ReloadRules(new) PROVE Inv'
    <3>1. Typed' BY <2>35, SetsAssumption DEF Typed, ReloadRules, Reload, None, Reads
    <3>2. Shaped' BY <2>35 DEF Typed, Shaped, ReloadRules, Reload
    <3>3. Outbound' BY <2>35 DEF Typed, Shaped, Outbound, ReloadRules, Reload
    <3> QED BY <3>1, <3>2, <3>3 DEF Inv
  <2>36. CASE Stop
    <3>1. Typed' BY <2>36, SetsAssumption DEF Typed, Stop, None, Reads
    <3>2. Shaped' BY <2>36 DEF Typed, Shaped, Stop
    <3>3. Outbound' BY <2>36 DEF Typed, Shaped, Outbound, Stop
    <3> QED BY <3>1, <3>2, <3>3 DEF Inv
  <2>37. CASE LineDown
    <3>1. Typed' BY <2>37, SetsAssumption DEF Typed, LineDown, None, Reads
    <3>2. Shaped' BY <2>37 DEF Typed, Shaped, LineDown
    <3>3. Outbound' BY <2>37 DEF Typed, Shaped, Outbound, LineDown
    <3> QED BY <3>1, <3>2, <3>3 DEF Inv
  <2>38. CASE LineUp
    <3>1. Typed' BY <2>38, SetsAssumption DEF Typed, LineUp, None, Reads
    <3>2. Shaped' BY <2>38 DEF Typed, Shaped, LineUp
    <3>3. Outbound' BY <2>38 DEF Typed, Shaped, Outbound, LineUp
    <3> QED BY <3>1, <3>2, <3>3 DEF Inv
  <2>39. CASE RowCleared
    <3>1. Typed' BY <2>39, SetsAssumption DEF Typed, RowCleared, None, Reads
    <3>2. Shaped' BY <2>39 DEF Typed, Shaped, RowCleared
    <3>3. Outbound' BY <2>39 DEF Typed, Shaped, Outbound, RowCleared
    <3> QED BY <3>1, <3>2, <3>3 DEF Inv
  <2>40. CASE RowSaved
    <3>1. Typed' BY <2>40, SetsAssumption DEF Typed, RowSaved, None, Reads
    <3>2. Shaped' BY <2>40 DEF Typed, Shaped, RowSaved
    <3>3. Outbound' BY <2>40 DEF Typed, Shaped, Outbound, RowSaved
    <3> QED BY <3>1, <3>2, <3>3 DEF Inv
  <2>41. CASE UNCHANGED vars BY <2>41 DEF vars, Inv, Typed, Shaped, Outbound
  <2> QED
    BY <2>1, <2>2, <2>3, <2>4, <2>5, <2>6, <2>7, <2>8, <2>9, <2>10, <2>11, <2>12, <2>13,
       <2>14, <2>15, <2>16, <2>17, <2>18, <2>19, <2>20, <2>21, <2>22, <2>23, <2>24, <2>25, <2>26,
       <2>27, <2>28, <2>29, <2>30, <2>31, <2>32, <2>33, <2>34, <2>35, <2>36, <2>37, <2>38, <2>39,
       <2>40, <2>41
    DEF Next, Environment, HandshakeStep, TcpStep, UdpStep
<1> QED BY <1>1, <1>2, PTL DEF Spec

\* The connections, their sockets and goroutines keep their types, and a way out
\* is open exactly while there is one.
THEOREM ConnTyped == Spec => []TypeOK
<1>1. Inv => TypeOK BY DEF Inv, Typed, Outbound, TypeOK
<1> QED BY <1>1, Invariant, PTL

-----------------------------------------------------------------------------
(* The refinement.  What a step does to the connection it is of, in terms of   *)
(* RelayLife, and that it leaves the others alone.                             *)

Others(c) == \A d \in Conns \ {c} : pc'[d] = pc[d] /\ fds'[d] = fds[d] /\ gor'[d] = gor[d]
Staying   == \A d \in Conns : pc'[d] = pc[d] /\ fds'[d] = fds[d] /\ gor'[d] \cap Loops = gor[d] \cap Loops
MovesOn(c) == pc[c] \in Setup /\ pc'[c] \in Setup /\ fds'[c] = fds[c] /\ gor'[c] = gor[c]
Accepting(c) == pc[c] = "none" /\ pc'[c] \in Setup /\ fds'[c] = {"conn"} /\ gor'[c] = {}
Taking(c) ==
  /\ pc[c] \in Setup /\ pc'[c] \in Setup /\ gor'[c] = gor[c]
  /\ \E x \in Sockets : fds'[c] = fds[c] \cup {x}
Relaying(c) ==
  /\ pc[c] \in Setup /\ pc'[c] \in {"pipe", "assoc"} /\ fds'[c] = fds[c]
  /\ gor[c] = {} /\ "conn" \in fds[c] /\ fds[c] \cap {"up", "target"} # {}
Releasing(c) ==
  /\ pc[c] \in {"assoc", "wait"} /\ pc'[c] \in {pc[c], "wait"}
  /\ fds'[c] \subseteq fds[c] /\ gor'[c] \subseteq gor[c]
Closing(c) ==
  /\ pc[c] \in Setup \cup {"pipe", "assoc", "wait"} /\ pc'[c] = "done"
  /\ fds'[c] = {} /\ gor'[c] \cap Loops = {}

\* The phase of each place.
LEMMA PhasesAt ==
  /\ \A l \in Setup : PhaseAt[l] = "setup"
  /\ PhaseAt["pipe"] = "relaying" /\ PhaseAt["assoc"] = "relaying" /\ PhaseAt["wait"] = "ending"
  /\ PhaseAt["done"] = "closed" /\ PhaseAt["none"] = "none"
<1>1. Setup \subseteq Labels /\ {"pipe", "assoc", "wait", "done", "none"} \subseteq Labels
  BY DEF Labels
<1>2. \A l \in {"pipe", "assoc", "wait", "done", "none"} : l \notin Setup BY DEF Setup, Handshake
<1> QED BY <1>1, <1>2 DEF PhaseAt

\* A step of one connection changes its own phase and holdings alone.
LEMMA Frame ==
  ASSUME NEW c \in Conns, Others(c), NEW ph, NEW hd, Phases'[c] = ph, Holds'[c] = hd
  PROVE  Phases' = [Phases EXCEPT ![c] = ph] /\ Holds' = [Holds EXCEPT ![c] = hd]
<1>1. \A d \in Conns \ {c} : Phases'[d] = Phases[d] /\ Holds'[d] = Holds[d]
  BY DEF Others, Phases, Holds
<1>2. DOMAIN Phases = Conns /\ DOMAIN Holds = Conns BY DEF Phases, Holds
<1>3. Phases' = [d \in Conns |-> Phases'[d]] /\ Holds' = [d \in Conns |-> Holds'[d]]
  BY DEF Phases, Holds
<1> QED BY <1>1, <1>2, <1>3

\* A step that stays, and one that moves on within a phase, is none of the abstract life.
LEMMA LifeStays == Staying => UNCHANGED <<Phases, Holds>>
  BY DEF Staying, Phases, Holds

\* The second.
LEMMA LifeMoves == ASSUME NEW c \in Conns, Others(c), MovesOn(c) PROVE UNCHANGED <<Phases, Holds>>
<1>1. \A d \in Conns : Holds'[d] = Holds[d] BY DEF Others, MovesOn, Holds
<1>2. \A d \in Conns : Phases'[d] = Phases[d] BY PhasesAt DEF Others, MovesOn, Phases
<1>3. /\ Phases = [d \in Conns |-> Phases[d]] /\ Holds = [d \in Conns |-> Holds[d]]
      /\ Phases' = [d \in Conns |-> Phases'[d]] /\ Holds' = [d \in Conns |-> Holds'[d]]
  BY DEF Phases, Holds
<1> QED BY <1>1, <1>2, <1>3

\* Accepting a connection is a step of the abstract life.
LEMMA LifeAccepts ==
  ASSUME NEW c \in Conns, Others(c), Accepting(c) PROVE Life!Next
<1>1. Phases[c] = "none" BY PhasesAt DEF Accepting, Phases
<1>2. Phases'[c] = "setup" BY PhasesAt DEF Accepting, Phases
<1>3. Holds'[c] = {"conn"} BY DEF Accepting, Holds
<1> QED BY <1>1, <1>2, <1>3, Frame DEF Life!Next, Life!Accept

\* Taking a socket during the handshake is a step of the abstract life.
LEMMA LifeTakes ==
  ASSUME NEW c \in Conns, Others(c), Taking(c) PROVE Life!Next
<1>1. PICK x \in Sockets : fds'[c] = fds[c] \cup {x} BY DEF Taking
<1>2. Phases[c] = "setup" /\ Phases'[c] = "setup" BY PhasesAt DEF Taking, Phases
<1>3. Holds'[c] = Holds[c] \cup {x} BY <1>1 DEF Taking, Holds
<1>4. Phases' = [Phases EXCEPT ![c] = "setup"] /\ Holds' = [Holds EXCEPT ![c] = Holds[c] \cup {x}]
  BY <1>2, <1>3, Frame
<1>5. Phases' = Phases BY <1>2, <1>4 DEF Phases
<1>6. Life!Take(c) BY <1>1, <1>2, <1>4, <1>5 DEF Life!Take
<1> QED BY <1>6 DEF Life!Next

\* Beginning to relay is a step of the abstract life.
LEMMA LifeRelays ==
  ASSUME NEW c \in Conns, Others(c), Relaying(c) PROVE Life!Next
<1>1. Phases[c] = "setup" /\ Phases'[c] = "relaying"
  BY PhasesAt DEF Relaying, Phases
<1>2. Holds[c] = fds[c] BY DEF Relaying, Holds
<1>3. Holds'[c] = Holds[c] \cup (gor'[c] \cap Loops) BY <1>2 DEF Relaying, Holds
<1>4. /\ Phases' = [Phases EXCEPT ![c] = "relaying"]
      /\ Holds' = [Holds EXCEPT ![c] = Holds[c] \cup (gor'[c] \cap Loops)]
  BY <1>1, <1>3, Frame
<1>5. gor'[c] \cap Loops \in SUBSET (Sockets \cup Loops) OBVIOUS
<1>6. Life!Relay(c) BY <1>1, <1>2, <1>4, <1>5 DEF Relaying, Life!Relay
<1> QED BY <1>6 DEF Life!Next

\* Giving something back is a step of the abstract life.
LEMMA LifeReleases ==
  ASSUME NEW c \in Conns, Others(c), Releasing(c) PROVE Life!Next
<1>1. Phases[c] \in {"relaying", "ending"} /\ Phases'[c] \in {Phases[c], "ending"}
  BY PhasesAt DEF Releasing, Phases
<1>2. Holds'[c] \in SUBSET Holds[c] BY DEF Releasing, Holds
<1>3. Phases' = [Phases EXCEPT ![c] = Phases'[c]] /\ Holds' = [Holds EXCEPT ![c] = Holds'[c]]
  BY Frame
<1>4. Life!Release(c) BY <1>1, <1>2, <1>3 DEF Life!Release
<1> QED BY <1>4 DEF Life!Next

\* Closing is a step of the abstract life.
LEMMA LifeCloses ==
  ASSUME NEW c \in Conns, Others(c), Closing(c) PROVE Life!Next
<1>1. Phases[c] \in {"setup", "relaying", "ending"} /\ Phases'[c] = "closed"
  BY PhasesAt DEF Closing, Phases
<1>2. Holds'[c] = {} BY DEF Closing, Holds
<1>3. Life!Close(c) BY <1>1, <1>2, Frame DEF Life!Close
<1> QED BY <1>3 DEF Life!Next

\* LifeSpec for every number of connections: whatever error, close, timeout, Stop
\* or loss of the line cuts a connection short, and wherever it does so, all that
\* the connection took is given back when it is over.
THEOREM ConnImplementsLife == Spec => LifeSpec
<1> USE DEF Goto, Labels, Setup, Handshake, Sockets, Loops, Copies, line, sets, tcp, udp
<1>1. Init => Life!Init
  BY PhasesAt DEF Init, Life!Init, Phases, Holds
<1>2. Inv /\ Inv' /\ [Next]_vars => [Life!Next]_<<Phases, Holds>>
  <2> SUFFICES ASSUME Typed, Shaped, [Next]_vars PROVE [Life!Next]_<<Phases, Holds>>
    BY DEF Inv
  <2>1. ASSUME NEW c \in Conns, Accept(c) PROVE [Life!Next]_<<Phases, Holds>>
    <3>1. Others(c) /\ Accepting(c) BY <2>1 DEF Typed, Shaped, Others, Accepting, Accept, Open
    <3> QED BY <3>1, LifeAccepts
  <2>2. ASSUME NEW c \in Conns, Peek(c) PROVE [Life!Next]_<<Phases, Holds>>
    <3>1. Others(c) /\ MovesOn(c) BY <2>2 DEF Typed, Shaped, Others, MovesOn, Peek
    <3> QED BY <3>1, LifeMoves
  <2>3. ASSUME NEW c \in Conns, GiveUp(c) PROVE [Life!Next]_<<Phases, Holds>>
    <3>1. Others(c) /\ Closing(c) BY <2>3 DEF Typed, Shaped, Others, Closing, GiveUp, Return
    <3> QED BY <3>1, LifeCloses
  <2>4. ASSUME NEW c \in Conns, Greet(c) PROVE [Life!Next]_<<Phases, Holds>>
    <3>1. Others(c) /\ MovesOn(c) BY <2>4 DEF Typed, Shaped, Others, MovesOn, Greet
    <3> QED BY <3>1, LifeMoves
  <2>5. ASSUME NEW c \in Conns, NEW u \in Users, Auth(c, u) PROVE [Life!Next]_<<Phases, Holds>>
    <3>1. Others(c) /\ MovesOn(c) BY <2>5 DEF Typed, Shaped, Others, MovesOn, Auth
    <3> QED BY <3>1, LifeMoves
  <2>6. ASSUME NEW c \in Conns, NEW h \in Hosts, Connect(c, h)
        PROVE  [Life!Next]_<<Phases, Holds>>
    <3>1. Others(c) /\ (MovesOn(c) \/ Closing(c))
      BY <2>6 DEF Typed, Shaped, Others, MovesOn, Closing, Connect, Ask, Return
    <3> QED BY <3>1, LifeMoves, LifeCloses
  <2>7. ASSUME NEW c \in Conns, NEW u \in Users, NEW h \in Hosts, NEW p \in BOOLEAN, Http(c, u, h, p)
        PROVE  [Life!Next]_<<Phases, Holds>>
    <3>1. Others(c) /\ (MovesOn(c) \/ Closing(c))
      BY <2>7 DEF Typed, Shaped, Others, MovesOn, Closing, Http, Ask, Return
    <3> QED BY <3>1, LifeMoves, LifeCloses
  <2>8. ASSUME NEW c \in Conns, Lookup(c) PROVE [Life!Next]_<<Phases, Holds>>
    <3>1. Others(c) /\ MovesOn(c) BY <2>8 DEF Typed, Shaped, Others, MovesOn, Lookup
    <3> QED BY <3>1, LifeMoves
  <2>9. ASSUME NEW c \in Conns, DialBound(c) PROVE [Life!Next]_<<Phases, Holds>>
    <3>1. Others(c) /\ Taking(c)
      BY <2>9 DEF Typed, Shaped, Others, Taking, DialBound, Open, Bound
    <3> QED BY <3>1, LifeTakes
  <2>10. ASSUME NEW c \in Conns, DialError(c) PROVE [Life!Next]_<<Phases, Holds>>
    <3>1. Others(c) /\ Closing(c) BY <2>10 DEF Typed, Shaped, Others, Closing, DialError, Return
    <3> QED BY <3>1, LifeCloses
  <2>11. ASSUME NEW c \in Conns, Reply(c) PROVE [Life!Next]_<<Phases, Holds>>
    <3>1. Others(c) /\ Relaying(c) BY <2>11 DEF Typed, Shaped, Others, Relaying, Reply, StartPipe
    <3> QED BY <3>1, LifeRelays
  <2>12. ASSUME NEW c \in Conns, Forward(c) PROVE [Life!Next]_<<Phases, Holds>>
    <3>1. Others(c) /\ Relaying(c)
      BY <2>12 DEF Typed, Shaped, Others, Relaying, Forward, StartPipe
    <3> QED BY <3>1, LifeRelays
  <2>13. ASSUME NEW c \in Conns, ReplyError(c) PROVE [Life!Next]_<<Phases, Holds>>
    <3>1. Others(c) /\ Closing(c) BY <2>13 DEF Typed, Shaped, Others, Closing, ReplyError, Return
    <3> QED BY <3>1, LifeCloses
  <2>14. ASSUME NEW c \in Conns, NEW d \in Copies, CopyEnds(c, d)
         PROVE  [Life!Next]_<<Phases, Holds>>
    <3>1. Staying BY <2>14 DEF Typed, Shaped, Staying, CopyEnds
    <3> QED BY <3>1, LifeStays
  <2>15. ASSUME NEW c \in Conns, PipeReturn(c) PROVE [Life!Next]_<<Phases, Holds>>
    <3>1. Others(c) /\ Closing(c) BY <2>15 DEF Typed, Shaped, Others, Closing, PipeReturn, Return
    <3> QED BY <3>1, LifeCloses
  <2>16. ASSUME NEW c \in Conns, AskUdp(c) PROVE [Life!Next]_<<Phases, Holds>>
    <3>1. Others(c) /\ MovesOn(c) BY <2>16 DEF Typed, Shaped, Others, MovesOn, AskUdp
    <3> QED BY <3>1, LifeMoves
  <2>17. ASSUME NEW c \in Conns, Listen(c) PROVE [Life!Next]_<<Phases, Holds>>
    <3>1. Others(c) /\ Taking(c) BY <2>17 DEF Typed, Shaped, Others, Taking, Listen, Open
    <3> QED BY <3>1, LifeTakes
  <2>18. ASSUME NEW c \in Conns, ListenError(c) PROVE [Life!Next]_<<Phases, Holds>>
    <3>1. Others(c) /\ Closing(c)
      BY <2>18 DEF Typed, Shaped, Others, Closing, ListenError, Return
    <3> QED BY <3>1, LifeCloses
  <2>19. ASSUME NEW c \in Conns, Bind(c) PROVE [Life!Next]_<<Phases, Holds>>
    <3>1. Others(c) /\ Taking(c) BY <2>19 DEF Typed, Shaped, Others, Taking, Bind, Open, Bound
    <3> QED BY <3>1, LifeTakes
  <2>20. ASSUME NEW c \in Conns, BindError(c) PROVE [Life!Next]_<<Phases, Holds>>
    <3>1. Others(c) /\ Closing(c) BY <2>20 DEF Typed, Shaped, Others, Closing, BindError, Return
    <3> QED BY <3>1, LifeCloses
  <2>21. ASSUME NEW c \in Conns, Answer(c) PROVE [Life!Next]_<<Phases, Holds>>
    <3>1. pc[c] = "answer" /\ pc'[c] = "assoc" /\ UNCHANGED fds BY <2>21 DEF Typed, Answer
    <3>2. fds[c] = {"conn", "client", "target"} /\ gor[c] = {} BY <3>1 DEF Shaped
    <3>3. Relaying(c) BY <3>1, <3>2 DEF Relaying
    <3>4. Others(c) BY <2>21 DEF Typed, Others, Answer
    <3> QED BY <3>3, <3>4, LifeRelays
  <2>22. ASSUME NEW c \in Conns, AnswerError(c) PROVE [Life!Next]_<<Phases, Holds>>
    <3>1. Others(c) /\ Closing(c)
      BY <2>22 DEF Typed, Shaped, Others, Closing, AnswerError, Return, Cancel
    <3> QED BY <3>1, LifeCloses
  <2>23. ASSUME NEW c \in Conns, NEW a \in Sources, NEW h \in Hosts, NEW wf \in BOOLEAN, Recv(c, a, h, wf)
         PROVE  [Life!Next]_<<Phases, Holds>>
    <3>1. Staying BY <2>23 DEF Typed, Shaped, Staying, Recv
    <3> QED BY <3>1, LifeStays
  <2>24. ASSUME NEW c \in Conns, Resolved(c) PROVE [Life!Next]_<<Phases, Holds>>
    <3>1. Staying BY <2>24 DEF Typed, Shaped, Staying, Resolved, Active
    <3> QED BY <3>1, LifeStays
  <2>25. ASSUME NEW c \in Conns, Backward(c) PROVE [Life!Next]_<<Phases, Holds>>
    <3>1. Staying BY <2>25 DEF Typed, Shaped, Staying, Backward, Active
    <3> QED BY <3>1, LifeStays
  <2>26. ASSUME NEW c \in Conns, Tick(c) PROVE [Life!Next]_<<Phases, Holds>>
    <3>1. CASE age[c] > IdleLimit
      <4>1. pc[c] \in {"assoc", "wait"} BY <2>26 DEF Typed, Shaped, Tick
      <4>2. gor' = [gor EXCEPT ![c] = @ \ {"idleLoop"}] /\ UNCHANGED <<pc, fds>>
        BY <2>26, <3>1 DEF Tick, Stops
      <4>3. Others(c) /\ Releasing(c) BY <4>1, <4>2 DEF Typed, Others, Releasing
      <4> QED BY <4>3, LifeReleases
    <3>2. CASE ~(age[c] > IdleLimit)
      <4>1. Staying BY <2>26, <3>2 DEF Staying, Tick
      <4> QED BY <4>1, LifeStays
    <3> QED BY <3>1, <3>2
  <2>27. ASSUME NEW c \in Conns, NEW g \in Loops, LoopEnds(c, g)
         PROVE  [Life!Next]_<<Phases, Holds>>
    <3>1. Others(c) /\ Releasing(c)
      BY <2>27 DEF Typed, Shaped, Others, Releasing, LoopEnds, Cancel, Stops
    <3> QED BY <3>1, LifeReleases
  <2>28. ASSUME NEW c \in Conns, Control(c) PROVE [Life!Next]_<<Phases, Holds>>
    <3>1. Staying BY <2>28 DEF Typed, Shaped, Staying, Control, Cancel, Stops
    <3> QED BY <3>1, LifeStays
  <2>29. ASSUME NEW c \in Conns, Teardown(c) PROVE [Life!Next]_<<Phases, Holds>>
    <3>1. Others(c) /\ Releasing(c)
      BY <2>29 DEF Typed, Shaped, Others, Releasing, Teardown, Cancel
    <3> QED BY <3>1, LifeReleases
  <2>30. ASSUME NEW c \in Conns, Waited(c) PROVE [Life!Next]_<<Phases, Holds>>
    <3>1. Others(c) /\ Closing(c) BY <2>30 DEF Typed, Shaped, Others, Closing, Waited, Return
    <3> QED BY <3>1, LifeCloses
  <2>31. ASSUME NEW c \in Conns, ClientGone(c) PROVE [Life!Next]_<<Phases, Holds>>
    <3>1. Staying BY <2>31 DEF Typed, Shaped, Staying, ClientGone, Worsens
    <3> QED BY <3>1, LifeStays
  <2>32. ASSUME NEW c \in Conns, ServerGone(c) PROVE [Life!Next]_<<Phases, Holds>>
    <3>1. Staying BY <2>32 DEF Typed, Shaped, Staying, ServerGone, Worsens
    <3> QED BY <3>1, LifeStays
  <2>33. ASSUME NEW c \in Conns, NEW e \in {"client", "server"}, Stuck(c, e)
         PROVE  [Life!Next]_<<Phases, Holds>>
    <3>1. Staying BY <2>33 DEF Typed, Shaped, Staying, Stuck, Worsens
    <3> QED BY <3>1, LifeStays
  <2>34. ASSUME NEW new \in CredSets, ReloadCreds(new) PROVE [Life!Next]_<<Phases, Holds>>
    <3>1. Staying BY <2>34 DEF Typed, Shaped, Staying, ReloadCreds, Reload
    <3> QED BY <3>1, LifeStays
  <2>35. ASSUME NEW new \in RuleSets, ReloadRules(new) PROVE [Life!Next]_<<Phases, Holds>>
    <3>1. Staying BY <2>35 DEF Typed, Shaped, Staying, ReloadRules, Reload
    <3> QED BY <3>1, LifeStays
  <2>36. CASE Stop
    <3>1. Staying BY <2>36 DEF Typed, Shaped, Staying, Stop
    <3> QED BY <3>1, LifeStays
  <2>37. CASE LineDown
    <3>1. Staying BY <2>37 DEF Typed, Shaped, Staying, LineDown
    <3> QED BY <3>1, LifeStays
  <2>38. CASE LineUp
    <3>1. Staying BY <2>38 DEF Typed, Shaped, Staying, LineUp
    <3> QED BY <3>1, LifeStays
  <2>39. CASE RowCleared
    <3>1. Staying BY <2>39 DEF Typed, Shaped, Staying, RowCleared
    <3> QED BY <3>1, LifeStays
  <2>40. CASE RowSaved
    <3>1. Staying BY <2>40 DEF Typed, Shaped, Staying, RowSaved
    <3> QED BY <3>1, LifeStays
  <2>41. CASE UNCHANGED vars
    <3>1. Staying BY <2>41 DEF vars, Staying
    <3> QED BY <3>1, LifeStays
  <2> QED
    BY <2>1, <2>2, <2>3, <2>4, <2>5, <2>6, <2>7, <2>8, <2>9, <2>10, <2>11, <2>12, <2>13,
       <2>14, <2>15, <2>16, <2>17, <2>18, <2>19, <2>20, <2>21, <2>22, <2>23, <2>24, <2>25, <2>26,
       <2>27, <2>28, <2>29, <2>30, <2>31, <2>32, <2>33, <2>34, <2>35, <2>36, <2>37, <2>38, <2>39,
       <2>40, <2>41
    DEF Next, Environment, HandshakeStep, TcpStep, UdpStep
<1> QED BY <1>1, <1>2, Invariant, PTL DEF Spec, LifeSpec, Life!Spec
-----------------------------------------------------------------------------
\* Induction over the naturals, for sets.
LEMMA SetInduction ==
  ASSUME NEW S \in SUBSET Nat, 0 \in S, \A n \in S : n + 1 \in S
  PROVE  S = Nat
<1>1. SUFFICES ASSUME Nat \ S # {} PROVE FALSE OBVIOUS
<1> DEFINE R == OpToRel(<, Nat)
<1>2. \A x, y \in Nat : x < y => <<x, y>> \in R BY DEF OpToRel
<1>3. IsWellFoundedOn(R, Nat) BY ONLY NatLessThanWellFounded, Zenon
<1> HIDE DEF R
<1>4. PICK n \in Nat \ S : \A y \in Nat \ S : ~ (<<y, n>> \in R) BY <1>1, <1>3, WFMin
<1>5. n # 0 /\ n - 1 \in Nat /\ n - 1 < n BY <1>4
<1>6. n - 1 \in S BY <1>4, <1>5, <1>2
<1>7. (n - 1) + 1 \in S BY <1>6
<1> QED BY <1>4, <1>7

Base == [denied |-> FALSE, strict |-> {}, passed |-> {}]

\* g gives the first n turns of the loop.
IsScan(g, n, h, ip) ==
  /\ g = [i \in 0..n |-> g[i]]
  /\ g[0] = Base
  /\ \A i \in 1..n : g[i] = Turn(g[i - 1], rules[i], h, ip)

\* The loop has as many turns as there are rules, and each follows the one before.
LEMMA TurnsStep ==
  ASSUME NEW h, NEW ip, Len(rules) \in Nat
  PROVE  IsScan(Turns(h, ip), Len(rules), h, ip)
<1> DEFINE M == Len(rules)
<1> DEFINE S == {n \in Nat : \E g : IsScan(g, n, h, ip)}
<1>1. 0 \in S
  <2> DEFINE g == [i \in 0..0 |-> Base]
  <2>1. g[0] = Base /\ g = [i \in 0..0 |-> g[i]] OBVIOUS
  <2>2. IsScan(g, 0, h, ip) BY <2>1 DEF IsScan
  <2> QED BY <2>2
<1>2. ASSUME NEW n \in S PROVE n + 1 \in S
  <2>1. PICK g : IsScan(g, n, h, ip) OBVIOUS
  <2> DEFINE f == [i \in 0..(n + 1) |-> IF i <= n THEN g[i] ELSE Turn(g[n], rules[n + 1], h, ip)]
  <2>2. f[0] = Base BY <2>1 DEF IsScan
  <2>3. ASSUME NEW i \in 1..(n + 1) PROVE f[i] = Turn(f[i - 1], rules[i], h, ip)
    <3>1. i - 1 \in 0..n /\ f[i - 1] = g[i - 1] OBVIOUS
    <3>2. CASE i <= n
      <4>1. f[i] = g[i] /\ i \in 1..n BY <3>2
      <4> QED BY <3>1, <4>1, <2>1 DEF IsScan
    <3>3. CASE i = n + 1
      <4>1. f[i] = Turn(g[n], rules[n + 1], h, ip) BY <3>3
      <4> QED BY <3>1, <3>3, <4>1
    <3> QED BY <3>2, <3>3
  <2>4. f = [i \in 0..(n + 1) |-> f[i]] OBVIOUS
  <2> HIDE DEF f
  <2>5. IsScan(f, n + 1, h, ip) BY <2>2, <2>3, <2>4 DEF IsScan
  <2> QED BY <2>5
<1> HIDE DEF S
<1>3. S = Nat BY <1>1, <1>2, SetInduction DEF S
<1>4. PICK g : IsScan(g, M, h, ip) BY <1>3 DEF S
<1> DEFINE F(f) == f = [n \in 0..M |-> IF n = 0 THEN Base ELSE Turn(f[n - 1], rules[n], h, ip)]
<1>5. F(g)
  <2>1. \A n \in 0..M : g[n] = IF n = 0 THEN Base ELSE Turn(g[n - 1], rules[n], h, ip)
    BY <1>4 DEF IsScan
  <2> QED BY <1>4, <2>1 DEF IsScan
<1>6. Turns(h, ip) = CHOOSE f : F(f) BY DEF Turns, Base
<1> HIDE DEF F
<1>7. F(Turns(h, ip)) BY <1>5, <1>6
<1> DEFINE t == Turns(h, ip)
<1>8. t = [n \in 0..M |-> IF n = 0 THEN Base ELSE Turn(t[n - 1], rules[n], h, ip)] BY <1>7 DEF F
<1> HIDE DEF t
<1>9. IsScan(t, M, h, ip)
  <2>1. t = [i \in 0..M |-> t[i]] BY <1>8
  <2>2. t[0] = Base BY <1>8
  <2>3. ASSUME NEW i \in 1..M PROVE t[i] = Turn(t[i - 1], rules[i], h, ip)
    <3>1. i \in 0..M /\ i # 0 OBVIOUS
    <3> QED BY <1>8, <3>1
  <2> QED BY <2>1, <2>2, <2>3 DEF IsScan
<1> QED BY <1>9 DEF t

\* After n turns: a rule that denies has matched, or else which kinds have had a
\* rule to allow, and which of them one that matches.
ScanOK(a, n, h, ip) ==
  /\ a.denied \in BOOLEAN
  /\ a.denied <=> \E i \in 1..n : rules[i].action = "deny" /\ Matches(rules[i], h, ip)
  /\ ~a.denied =>
       /\ a.strict = {rules[i].kind : i \in {j \in 1..n : rules[j].action = "allow"}}
       /\ a.passed = {rules[i].kind : i \in {j \in 1..n : rules[j].action = "allow" /\ Matches(rules[j], h, ip)}}

\* A turn carries this on to the next rule.
LEMMA TurnKeeps ==
  ASSUME NEW a, NEW h, NEW ip, NEW n \in Nat, ScanOK(a, n, h, ip)
  PROVE  ScanOK(Turn(a, rules[n + 1], h, ip), n + 1, h, ip)
<1> DEFINE r == rules[n + 1]
<1> DEFINE b == Turn(a, r, h, ip)
<1>1. \A i \in 1..(n + 1) : i \in 1..n \/ i = n + 1 OBVIOUS
<1>2. 1..n \subseteq 1..(n + 1) /\ n + 1 \in 1..(n + 1) OBVIOUS
<1>3. CASE a.denied
  <2>1. b = a BY <1>3 DEF Turn
  <2>2. \E i \in 1..(n + 1) : rules[i].action = "deny" /\ Matches(rules[i], h, ip)
    BY <1>2, <1>3 DEF ScanOK
  <2> QED BY <1>3, <2>1, <2>2 DEF ScanOK
<1>4. CASE ~a.denied
  <2> DEFINE D == r.action = "deny" /\ Matches(r, h, ip)
  <2> DEFINE A == {k \in {r.kind} : r.action = "allow"}
  <2> DEFINE P == {k \in {r.kind} : r.action = "allow" /\ Matches(r, h, ip)}
  <2>1. b = [denied |-> D, strict |-> a.strict \cup A, passed |-> a.passed \cup P] BY <1>4 DEF Turn
  <2>2. b.denied = D /\ b.strict = a.strict \cup A /\ b.passed = a.passed \cup P BY <2>1
  <2> HIDE DEF b
  <2>3. b.denied \in BOOLEAN BY <2>2
  <2>4. b.denied <=> \E i \in 1..(n + 1) : rules[i].action = "deny" /\ Matches(rules[i], h, ip)
    <3>1. \A i \in 1..n : ~(rules[i].action = "deny" /\ Matches(rules[i], h, ip)) BY <1>4 DEF ScanOK
    <3> QED BY <1>1, <1>2, <2>2, <3>1
  <2>5. b.strict = {rules[i].kind : i \in {j \in 1..(n + 1) : rules[j].action = "allow"}}
    BY <1>1, <1>2, <1>4, <2>2 DEF ScanOK
  <2>6. b.passed = {rules[i].kind : i \in {j \in 1..(n + 1) : rules[j].action = "allow" /\ Matches(rules[j], h, ip)}}
    BY <1>1, <1>2, <1>4, <2>2 DEF ScanOK
  <2>7. ScanOK(b, n + 1, h, ip) BY <2>3, <2>4, <2>5, <2>6 DEF ScanOK
  <2> QED BY <2>7 DEF b
<1> QED BY <1>3, <1>4 DEF ScanOK

\* So the last turn knows it of all the rules.
LEMMA LastTurn ==
  ASSUME NEW h, NEW ip, Len(rules) \in Nat
  PROVE  ScanOK(Turns(h, ip)[Len(rules)], Len(rules), h, ip)
<1> DEFINE M == Len(rules)
<1> DEFINE t == Turns(h, ip)
<1> DEFINE S == {n \in Nat : n <= M => ScanOK(t[n], n, h, ip)}
<1>1. IsScan(t, M, h, ip) BY TurnsStep
<1> HIDE DEF t
<1>2. 0 \in S
  <2>1. 1..0 = {} OBVIOUS
  <2>2. ScanOK(Base, 0, h, ip) BY <2>1 DEF ScanOK, Base
  <2> QED BY <1>1, <2>2 DEF IsScan
<1>3. ASSUME NEW n \in S PROVE n + 1 \in S
  <2> SUFFICES ASSUME n + 1 <= M PROVE ScanOK(t[n + 1], n + 1, h, ip) OBVIOUS
  <2>1. n \in Nat /\ n <= M /\ n + 1 \in 1..M /\ (n + 1) - 1 = n OBVIOUS
  <2>2. t[n + 1] = Turn(t[n], rules[n + 1], h, ip) BY <1>1, <2>1 DEF IsScan
  <2>3. ScanOK(t[n], n, h, ip) BY <2>1
  <2>4. ScanOK(Turn(t[n], rules[n + 1], h, ip), n + 1, h, ip) BY <2>1, <2>3, TurnKeeps
  <2> QED BY <2>2, <2>4
<1> HIDE DEF S
<1>4. S = Nat BY <1>2, <1>3, SetInduction DEF S
<1> QED BY <1>4 DEF S, t

\* The loop decides what its comment promises, for every list of rules that
\* compile may make: a rule that denies wins wherever it stands, and rules that
\* allow bind their own kind only (access.go: allowed).
THEOREM AllowedIsRuleOK ==
  ASSUME NEW h, NEW ip, rules \in RuleSets
  PROVE  allowed(h, ip) <=> RuleOK(h, ip)
<1> DEFINE M == Len(rules)
<1> DEFINE a == Turns(h, ip)[Len(rules)]
<1>1. M \in Nat /\ \A i \in 1..M : rules[i].kind \in {"domain", "ip"}
  <2> DEFINE R == [action : {"allow", "deny"}, kind : {"domain", "ip"}, pattern : DOMAIN Covers]
  <2>1. rules \in Seq(R) BY RulesAssumption
  <2>2. \A r \in R : r.kind \in {"domain", "ip"} OBVIOUS
  <2> HIDE DEF R
  <2> QED BY <2>1, <2>2
<1>2. ScanOK(a, M, h, ip) BY <1>1, LastTurn
<1>3. allowed(h, ip) <=> ~a.denied /\ a.strict \subseteq a.passed BY DEF allowed
<1> HIDE DEF a
<1>4. CASE a.denied
  <2>1. ~RuleOK(h, ip) BY <1>1, <1>2, <1>4 DEF RuleOK, ScanOK
  <2> QED BY <1>3, <1>4, <2>1
<1>5. CASE ~a.denied
  <2>1. \A i \in 1..M : ~(rules[i].action = "deny" /\ Matches(rules[i], h, ip)) BY <1>2, <1>5 DEF ScanOK
  <2>2. a.strict \subseteq a.passed <=>
          \A k \in {"domain", "ip"} :
            (\E i \in 1..M : rules[i].action = "allow" /\ rules[i].kind = k)
              => \E i \in 1..M : rules[i].action = "allow" /\ rules[i].kind \in {k} /\ Matches(rules[i], h, ip)
    <3>1. a.strict = {rules[i].kind : i \in {j \in 1..M : rules[j].action = "allow"}} BY <1>2, <1>5 DEF ScanOK
    <3>2. a.passed = {rules[i].kind : i \in {j \in 1..M : rules[j].action = "allow" /\ Matches(rules[j], h, ip)}}
      BY <1>2, <1>5 DEF ScanOK
    <3> HIDE DEF M
    <3>3. \A k : k \in a.strict <=> \E i \in 1..M : rules[i].action = "allow" /\ rules[i].kind = k BY <3>1
    <3>4. \A k : k \in a.passed <=>
            \E i \in 1..M : rules[i].action = "allow" /\ rules[i].kind \in {k} /\ Matches(rules[i], h, ip)
      BY <3>2
    <3>5. \A k : k \in a.strict => k \in {"domain", "ip"} BY <1>1, <3>3
    <3> QED BY <3>3, <3>4, <3>5
  <2> QED BY <1>1, <1>3, <1>5, <2>1, <2>2 DEF RuleOK
<1> QED BY <1>4, <1>5

-----------------------------------------------------------------------------
\* No connection comes to be dialled for, and no datagram to be resolved for.
Quiet ==
  \A c \in Conns : (pc'[c] = "lookup" => pc[c] = "lookup") /\ (gram'[c] # None => gram[c] # None)

Admits ==
  \A c \in Conns :
    /\ (pc[c] # "lookup" /\ pc'[c] = "lookup") => RuleOK(host'[c], ClientIP[c])
    /\ (gram[c] = None /\ gram'[c] # None) => RuleOK(gram'[c], ClientIP[c])

\* A request for h goes on only if the rules in force admit it.
LEMMA AskAdmits ==
  ASSUME Typed, NEW c \in Conns, NEW h \in Hosts, NEW p \in BOOLEAN, Ask(c, h, p)
  PROVE  Admits
<1>1. UNCHANGED gram BY DEF Ask, udp
<1>2. CASE allowed(h, ClientIP[c])
  <2>1. RuleOK(h, ClientIP[c]) BY <1>2, AllowedIsRuleOK DEF Typed
  <2>2. \A d \in Conns : pc'[d] = "lookup" => d = c \/ pc[d] = "lookup"
    BY <1>2 DEF Ask, Goto, Typed
  <2>3. host'[c] = h BY DEF Ask, Typed
  <2> QED BY <1>1, <2>1, <2>2, <2>3 DEF Admits
<1>3. CASE ~allowed(h, ClientIP[c])
  <2>1. \A d \in Conns : pc'[d] = "lookup" => pc[d] = "lookup"
    BY <1>3 DEF Ask, Return, Goto, Typed
  <2> QED BY <1>1, <2>1 DEF Admits
<1> QED BY <1>2, <1>3

\* A datagram for h is resolved only if the rules in force admit it.
LEMMA RecvAdmits ==
  ASSUME Typed, NEW c \in Conns, NEW a \in Sources, NEW h \in Hosts, NEW w \in BOOLEAN, Recv(c, a, h, w)
  PROVE  Admits
<1>1. UNCHANGED pc BY DEF Recv
<1>2. CASE allowed(h, ClientIP[c])
  <2>1. RuleOK(h, ClientIP[c]) BY <1>2, AllowedIsRuleOK DEF Typed
  <2>2. \A d \in Conns : gram'[d] # None => (d = c /\ gram'[d] = h) \/ gram'[d] = gram[d]
    BY DEF Recv, Typed
  <2> QED BY <1>1, <2>1, <2>2 DEF Admits
<1>3. CASE ~allowed(h, ClientIP[c])
  <2>1. \A d \in Conns : gram'[d] # None => gram'[d] = gram[d]
    BY <1>3 DEF Recv, Takes, Typed
  <2> QED BY <1>1, <2>1 DEF Admits
<1> QED BY <1>2, <1>3

\* Whatever the reloads in between, a connection is dialled and a datagram
\* resolved only if the rules in force in that moment admit it.
THEOREM AdmissionHolds == Spec => Admission
<1>1. Inv /\ [Next]_vars => Admits
  <2> SUFFICES ASSUME Typed, [Next]_vars PROVE Admits BY DEF Inv
  <2> USE DEF Loops, Copies
  <2>q. Quiet => Admits BY DEF Quiet, Admits
  <2>a. ASSUME NEW c \in Conns, NEW h \in Hosts, Connect(c, h) PROVE Admits
    BY <2>a, AskAdmits DEF Connect
  <2>b. ASSUME NEW c \in Conns, NEW u \in Users, NEW h \in Hosts, NEW p \in BOOLEAN, Http(c, u, h, p)
        PROVE  Admits
    BY <2>b, AskAdmits DEF Http
  <2>c. ASSUME NEW c \in Conns, NEW a \in Sources, NEW h \in Hosts, NEW w \in BOOLEAN, Recv(c, a, h, w)
        PROVE  Admits
    BY <2>c, RecvAdmits
  <2>1. ASSUME NEW c \in Conns, Accept(c) PROVE Quiet
    BY <2>1 DEF Typed, Quiet, Accept, Open, Goto, udp
  <2>2. ASSUME NEW c \in Conns, Peek(c) PROVE Quiet
    BY <2>2 DEF Typed, Quiet, Peek, Goto, udp
  <2>3. ASSUME NEW c \in Conns, GiveUp(c) PROVE Quiet
    BY <2>3 DEF Typed, Quiet, GiveUp, Return, Goto, udp, udp
  <2>4. ASSUME NEW c \in Conns, Greet(c) PROVE Quiet
    BY <2>4 DEF Typed, Quiet, Greet, Goto, udp
  <2>5. ASSUME NEW c \in Conns, NEW u \in Users, Auth(c, u) PROVE Quiet
    BY <2>5 DEF Typed, Quiet, Auth, Goto, udp
  <2>6. ASSUME NEW c \in Conns, Lookup(c) PROVE Quiet
    BY <2>6 DEF Typed, Quiet, Lookup, Goto, udp
  <2>7. ASSUME NEW c \in Conns, DialBound(c) PROVE Quiet
    BY <2>7 DEF Typed, Quiet, DialBound, Open, Goto, udp
  <2>8. ASSUME NEW c \in Conns, DialError(c) PROVE Quiet
    BY <2>8 DEF Typed, Quiet, DialError, Return, Goto, udp
  <2>9. ASSUME NEW c \in Conns, Reply(c) \/ Forward(c) PROVE Quiet
    BY <2>9 DEF Typed, Quiet, Reply, Forward, StartPipe, Goto, udp
  <2>10. ASSUME NEW c \in Conns, ReplyError(c) PROVE Quiet
    BY <2>10 DEF Typed, Quiet, ReplyError, Return, Goto, udp
  <2>11. ASSUME NEW c \in Conns, NEW d \in Copies, CopyEnds(c, d) PROVE Quiet
    BY <2>11 DEF Typed, Quiet, CopyEnds, udp
  <2>12. ASSUME NEW c \in Conns, PipeReturn(c) PROVE Quiet
    BY <2>12 DEF Typed, Quiet, PipeReturn, Return, Goto, udp
  <2>13. ASSUME NEW c \in Conns, AskUdp(c) PROVE Quiet
    BY <2>13 DEF Typed, Quiet, AskUdp, Goto, udp
  <2>14. ASSUME NEW c \in Conns, Listen(c) PROVE Quiet
    BY <2>14 DEF Typed, Quiet, Listen, Open, Goto, udp
  <2>15. ASSUME NEW c \in Conns, ListenError(c) PROVE Quiet
    BY <2>15 DEF Typed, Quiet, ListenError, Return, Goto, udp
  <2>16. ASSUME NEW c \in Conns, Bind(c) PROVE Quiet
    BY <2>16 DEF Typed, Quiet, Bind, Open, Goto, udp
  <2>17. ASSUME NEW c \in Conns, BindError(c) PROVE Quiet
    BY <2>17 DEF Typed, Quiet, BindError, Return, Goto, udp
  <2>18. ASSUME NEW c \in Conns, Answer(c) PROVE Quiet
    BY <2>18 DEF Typed, Quiet, Answer, Goto, udp
  <2>19. ASSUME NEW c \in Conns, AnswerError(c) PROVE Quiet
    BY <2>19 DEF Typed, Quiet, AnswerError, Return, Goto, udp
  <2>20. ASSUME NEW c \in Conns, Resolved(c) PROVE Quiet
    BY <2>20 DEF Typed, Quiet, Resolved, udp
  <2>21. ASSUME NEW c \in Conns, Backward(c) \/ Tick(c) \/ Control(c) PROVE Quiet
    BY <2>21 DEF Typed, Quiet, Backward, Tick, Control, udp
  <2>22. ASSUME NEW c \in Conns, NEW g \in Loops, LoopEnds(c, g) PROVE Quiet
    BY <2>22 DEF Typed, Quiet, LoopEnds, udp
  <2>23. ASSUME NEW c \in Conns, Teardown(c) PROVE Quiet
    BY <2>23 DEF Typed, Quiet, Teardown, Goto, udp
  <2>24. ASSUME NEW c \in Conns, Waited(c) PROVE Quiet
    BY <2>24 DEF Typed, Quiet, Waited, Return, Goto, udp
  <2>25. ASSUME NEW c \in Conns, ClientGone(c) \/ ServerGone(c) PROVE Quiet
    BY <2>25 DEF Typed, Quiet, ClientGone, ServerGone, Worsens, udp
  <2>26. ASSUME NEW c \in Conns, NEW e \in {"client", "server"}, Stuck(c, e) PROVE Quiet
    BY <2>26 DEF Typed, Quiet, Stuck, Worsens, udp
  <2>27. ASSUME NEW new \in CredSets, ReloadCreds(new) PROVE Quiet
    BY <2>27 DEF Typed, Quiet, ReloadCreds, Reload, udp
  <2>28. ASSUME NEW new \in RuleSets, ReloadRules(new) PROVE Quiet
    BY <2>28 DEF Typed, Quiet, ReloadRules, Reload, udp
  <2>29. ASSUME Stop \/ LineDown \/ LineUp \/ RowCleared \/ RowSaved PROVE Quiet
    BY <2>29 DEF Typed, Quiet, Stop, LineDown, LineUp, RowCleared, RowSaved, udp
  <2>30. ASSUME UNCHANGED vars PROVE Quiet
    <3>1. pc' = pc /\ gram' = gram BY <2>30 DEF vars, udp
    <3> QED BY <3>1 DEF Quiet
  <2> QED
    BY <2>q, <2>a, <2>b, <2>c, <2>1, <2>2, <2>3, <2>4, <2>5, <2>6, <2>7, <2>8, <2>9, <2>10,
       <2>11, <2>12, <2>13, <2>14, <2>15, <2>16, <2>17, <2>18, <2>19, <2>20, <2>21, <2>22,
       <2>23, <2>24, <2>25, <2>26, <2>27, <2>28, <2>29, <2>30
    DEF Next, Environment, HandshakeStep, TcpStep, UdpStep
<1>2. Inv /\ [Next]_vars => [Admits]_vars BY <1>1
<1> QED BY <1>2, Invariant, PTL DEF Spec, Admission, Admits
=============================================================================
