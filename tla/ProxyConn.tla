----------------------------- MODULE ProxyConn -----------------------------
(* One client connection of a proxy listener (internal/proxy/server:         *)
(* listener.go, socks5.go, http.go, dial.go, udp.go, access.go): handshake   *)
(* under a deadline, credentials and access rules that may be reloaded       *)
(* between its reads, the outbound socket bound to the interface of the      *)
(* session, and then a TCP tunnel or a UDP association until either side,    *)
(* the idle watcher or Stop ends it.  The session's interface comes and goes *)
(* meanwhile.  One action is what a goroutine does between two points where  *)
(* it waits for the network or reads what others change.                     *)
EXTENDS Integers, Sequences, FiniteSets

CONSTANTS
  Conns,      \* connections the listener accepts
  Hosts,      \* destinations a client may ask for
  Names,      \* those of them that are names and have to be resolved
  ClientIP,   \* the address of each connection's client
  Sources,    \* addresses UDP datagrams may come from
  Users,      \* username and password pairs
  CredSets,   \* credential sets the listener may be given (bound of a run)
  RuleSets,   \* access rules the listener may be given, in order (bound of a run)
  Covers,     \* the hosts or client addresses that each rule pattern covers
  IdleLimit,  \* udpIdleTimeout in ticks of the idle watcher
  Changes     \* which outside changes a run exercises (bound of a run)

ASSUME ConnAssumption == Names \subseteq Hosts /\ "" \notin Hosts \cup Sources
\* What compile makes of the rows: an allow or a deny, of a domain or of an address.
ASSUME RulesAssumption ==
  RuleSets \subseteq Seq([action : {"allow", "deny"}, kind : {"domain", "ip"}, pattern : DOMAIN Covers])
ASSUME SetsAssumption == CredSets \subseteq SUBSET Users /\ IdleLimit \in Nat \ {0}

VARIABLES
  listening,  \* l.ctx is not done
  creds,      \* credSet.creds
  rules,      \* ruleSet.rules
  iface,      \* the iface column of the session row names its ppp interface
  dev,        \* that interface exists
  pc,         \* where the goroutine of handle is
  fds,        \* the sockets a connection has open
  gor,        \* the goroutines it has started besides
  ends,       \* each end of the tunnel: open, stuck (it no longer reads) or gone
  host,       \* what the client asked to be connected to
  plain,      \* the request is forwarded HTTP, not a tunnel
  ifc,        \* what ifaceFn answered: the name or ""
  egress,     \* where the outbound socket sends
  over,       \* the association's cancel was called
  locked,     \* clientAddr of the association
  gram,       \* the host of the datagram clientReadLoop holds
  age         \* ticks since the last activity of the association

line == <<iface, dev>>
sets == <<creds, rules>>
tcp  == <<host, plain, ifc>>
udp  == <<over, locked, gram, age>>
vars == <<listening, sets, line, pc, fds, gor, ends, tcp, egress, udp>>

Handshake == {"peek", "greet", "auth", "request", "http"}
Setup     == Handshake \cup {"lookup", "dial", "reply", "forward", "listen", "bind", "answer"}
Labels    == Setup \cup {"none", "pipe", "assoc", "wait", "done"}
Sockets   == {"conn", "up", "client", "target"}
Loops     == {"clientLoop", "targetLoop", "idleLoop"}
Copies    == {"out", "in"}
Egress    == {"none", "line", "default", "lost"}
None      == ""

TypeOK ==
  /\ listening \in BOOLEAN /\ creds \in SUBSET Users /\ rules \in RuleSets
  /\ iface \in BOOLEAN /\ dev \in BOOLEAN
  /\ pc \in [Conns -> Labels] /\ fds \in [Conns -> SUBSET Sockets]
  /\ gor \in [Conns -> SUBSET (Loops \cup Copies \cup {"control"})]
  /\ ends \in [Conns -> [{"client", "server"} -> {"open", "stuck", "gone"}]]
  /\ host \in [Conns -> Hosts \cup {None}] /\ ifc \in [Conns -> BOOLEAN]
  /\ plain \in [Conns -> BOOLEAN]
  /\ egress \in [Conns -> Egress] /\ over \in [Conns -> BOOLEAN]
  /\ locked \in [Conns -> Sources \cup {None}] /\ gram \in [Conns -> Hosts \cup {None}]
  /\ age \in [Conns -> 0..(IdleLimit + 1)]
  /\ \A c \in Conns : egress[c] = "none" <=> fds[c] \cap {"up", "target"} = {}

Init ==
  /\ listening = TRUE /\ creds \in CredSets /\ rules \in RuleSets
  /\ iface = TRUE /\ dev = TRUE
  /\ pc = [c \in Conns |-> "none"] /\ fds = [c \in Conns |-> {}] /\ gor = [c \in Conns |-> {}]
  /\ ends = [c \in Conns |-> [e \in {"client", "server"} |-> "open"]]
  /\ host = [c \in Conns |-> None] /\ plain = [c \in Conns |-> FALSE]
  /\ ifc = [c \in Conns |-> FALSE] /\ egress = [c \in Conns |-> "none"]
  /\ over = [c \in Conns |-> FALSE] /\ locked = [c \in Conns |-> None]
  /\ gram = [c \in Conns |-> None] /\ age = [c \in Conns |-> 0]

-----------------------------------------------------------------------------
(* Access rules. *)

Matches(r, h, ip) == (IF r.kind = "domain" THEN h ELSE ip) \in Covers[r.pattern]

\* Variant: one strict mode for domains and addresses together.
Turn_OneMode(a, r, h, ip) ==
  IF a.denied THEN a
  ELSE [denied |-> r.action = "deny" /\ Matches(r, h, ip),
        strict |-> a.strict \cup {k \in {"domain"} : r.action = "allow"},
        passed |-> a.passed \cup {k \in {"domain"} : r.action = "allow" /\ Matches(r, h, ip)}]

\* One turn of the loop of ruleSet.allowed, which returns at the first deny that matches.
Turn(a, r, h, ip) ==
  IF a.denied THEN a
  ELSE [denied |-> r.action = "deny" /\ Matches(r, h, ip),
        strict |-> a.strict \cup {k \in {r.kind} : r.action = "allow"},
        passed |-> a.passed \cup {k \in {r.kind} : r.action = "allow" /\ Matches(r, h, ip)}]

\* The whole loop over the rules in force: what it knows after each turn.
Turns(h, ip) ==
  LET turns[n \in 0..Len(rules)] ==
        IF n = 0 THEN [denied |-> FALSE, strict |-> {}, passed |-> {}]
        ELSE Turn(turns[n - 1], rules[n], h, ip)
  IN  turns

allowed(h, ip) ==
  LET last == Turns(h, ip)[Len(rules)] IN ~last.denied /\ last.strict \subseteq last.passed

-----------------------------------------------------------------------------
(* The handshake. *)

Gone(c, e) == ends[c][e] = "gone"
Goto(c, l) == pc' = [pc EXCEPT ![c] = l]
Open(c, s) == fds' = [fds EXCEPT ![c] = @ \cup {s}]

\* Variant: no deferred Close of the socket towards the server.
Return_KeepsUp(c, closed) ==
  /\ Goto(c, "done")
  /\ fds' = [fds EXCEPT ![c] = @ \ (closed \cup {"conn"})]
  /\ egress' = [egress EXCEPT ![c] = "none"]

\* The return of handle: the deferred Close of the two TCP sockets.
Return(c, closed) ==
  /\ Goto(c, "done")
  /\ fds' = [fds EXCEPT ![c] = @ \ (closed \cup {"conn", "up"})]
  /\ egress' = [egress EXCEPT ![c] = "none"]

Accept(c) ==
  /\ listening /\ pc[c] = "none"
  /\ Goto(c, "peek") /\ Open(c, "conn")
  /\ UNCHANGED <<listening, sets, line, gor, ends, tcp, egress, udp>>

\* The first byte tells the protocol.
Peek(c) ==
  /\ pc[c] = "peek" /\ ~Gone(c, "client")
  /\ Goto(c, "greet") \/ Goto(c, "http")
  /\ UNCHANGED <<listening, sets, line, fds, gor, ends, tcp, egress, udp>>

\* Variant: no SetDeadline, so that only the client ends a handshake.
GiveUp_NoDeadline(c) ==
  /\ pc[c] \in Handshake /\ Gone(c, "client")
  /\ Return(c, {})
  /\ UNCHANGED <<listening, sets, line, gor, ends, tcp, udp>>

\* The deadline passes, the client closes, or it sends what is refused: an
\* unknown first byte, method or command, no or wrong credentials.
GiveUp(c) ==
  /\ pc[c] \in Handshake
  /\ Return(c, {})
  /\ UNCHANGED <<listening, sets, line, gor, ends, tcp, udp>>

\* hasAuth decides the method, and whether credentials are asked for at all.
Greet(c) ==
  /\ pc[c] = "greet" /\ ~Gone(c, "client")
  /\ Goto(c, IF creds = {} THEN "request" ELSE "auth")
  /\ UNCHANGED <<listening, sets, line, fds, gor, ends, tcp, egress, udp>>

\* socks5AuthUP: the client presents a pair of username and password.
Auth(c, u) ==
  /\ pc[c] = "auth" /\ ~Gone(c, "client")
  /\ u \in creds
  /\ Goto(c, "request")
  /\ UNCHANGED <<listening, sets, line, fds, gor, ends, tcp, egress, udp>>

\* A request for host h, and the rules in force when it has been read.
Ask(c, h, p) ==
  /\ ~Gone(c, "client")
  /\ host' = [host EXCEPT ![c] = h] /\ plain' = [plain EXCEPT ![c] = p]
  /\ IF allowed(h, ClientIP[c])
     THEN Goto(c, "lookup") /\ UNCHANGED <<fds, egress>>
     ELSE Return(c, {})
  /\ UNCHANGED <<listening, sets, line, gor, ends, ifc, udp>>

\* SOCKS5 CONNECT.
Connect(c, h) == pc[c] = "request" /\ Ask(c, h, FALSE)
\* HTTP CONNECT and forwarded HTTP: credentials and destination in one request.
Http(c, u, h, p) == pc[c] = "http" /\ (creds = {} \/ u \in creds) /\ Ask(c, h, p)

-----------------------------------------------------------------------------
(* TCP: dialBound and the tunnel. *)

\* l.iface(), evaluated before dialBound resolves the host and opens the socket.
Lookup(c) ==
  /\ pc[c] = "lookup"
  /\ ifc' = [ifc EXCEPT ![c] = iface] /\ Goto(c, "dial")
  /\ UNCHANGED <<listening, sets, line, fds, gor, ends, host, plain, egress, udp>>

\* SO_BINDTODEVICE with the name that was read: it fails when there is no such
\* interface, and with the empty name it binds to nothing.
Bound(named) == IF named THEN "line" ELSE "default"

DialBound(c) ==
  /\ pc[c] = "dial" /\ (ifc[c] => dev)
  /\ Open(c, "up") /\ egress' = [egress EXCEPT ![c] = Bound(ifc[c])]
  /\ Goto(c, IF plain[c] THEN "forward" ELSE "reply")
  /\ UNCHANGED <<listening, sets, line, gor, ends, tcp, udp>>

\* No such interface, no route, refused, or the 15 s of the context pass.
DialError(c) ==
  /\ pc[c] = "dial"
  /\ Return(c, {})
  /\ UNCHANGED <<listening, sets, line, gor, ends, tcp, udp>>

\* The answer, written under the deadline, and pipe.
StartPipe(c) ==
  /\ Goto(c, "pipe") /\ gor' = [gor EXCEPT ![c] = @ \cup Copies]
  /\ UNCHANGED <<listening, sets, line, fds, ends, tcp, egress, udp>>
Reply(c) == pc[c] = "reply" /\ StartPipe(c)

\* Forwarded HTTP has no answer: the request goes on to the server, whose socket
\* has no deadline, and a server that does not read holds it up.
Forward(c) == pc[c] = "forward" /\ ends[c]["server"] = "open" /\ StartPipe(c)

\* The write fails, or the request's body never comes.
ReplyError(c) ==
  /\ \/ pc[c] = "reply"
     \/ pc[c] = "forward" /\ (ends[c]["server"] # "stuck" \/ egress[c] = "lost")
  /\ Return(c, {})
  /\ UNCHANGED <<listening, sets, line, gor, ends, tcp, udp>>

\* io.Copy returns when its source has ended or its socket was closed, unless it
\* is held up writing to an end that does not read.
Source(d) == IF d = "out" THEN "client" ELSE "server"
Sink(d)   == IF d = "out" THEN "server" ELSE "client"
CopyEnds(c, d) ==
  /\ d \in gor[c] \cap Copies
  /\ \/ ~({"conn", "up"} \subseteq fds[c])
     \/ Gone(c, Sink(d)) /\ Gone(c, Source(d))
     \/ ends[c][Sink(d)] # "stuck" /\ (Gone(c, Source(d)) \/ (d = "in" /\ egress[c] = "lost"))
  /\ gor' = [gor EXCEPT ![c] = @ \ {d}]
  /\ UNCHANGED <<listening, sets, line, pc, fds, ends, tcp, egress, udp>>

\* Variant: pipe waits for both directions.
PipeReturn_Both(c) ==
  /\ pc[c] = "pipe" /\ gor[c] \cap Copies = {}
  /\ Return(c, {})
  /\ UNCHANGED <<listening, sets, line, gor, ends, tcp, udp>>

\* pipe returns with the first of its copies, and the deferred closes end the other.
PipeReturn(c) ==
  /\ pc[c] = "pipe" /\ ~(Copies \subseteq gor[c])
  /\ Return(c, {})
  /\ UNCHANGED <<listening, sets, line, gor, ends, tcp, udp>>

-----------------------------------------------------------------------------
(* SOCKS5 UDP ASSOCIATE: runUDPAssociate and its goroutines. *)

\* The association's context: cancelled by its goroutines, or with the listener's.
CtxDone(c) == over[c] \/ ~listening
Cancel(c)  == over' = [over EXCEPT ![c] = TRUE]
Active(c)  == age' = [age EXCEPT ![c] = 0]
Stops(c, g) == gor' = [gor EXCEPT ![c] = @ \ {g}]

\* The deadline of the handshake is lifted: from here only the context ends it.
AskUdp(c) ==
  /\ pc[c] = "request" /\ ~Gone(c, "client") /\ Goto(c, "listen")
  /\ UNCHANGED <<listening, sets, line, fds, gor, ends, tcp, egress, udp>>

\* The socket towards the client is bound to no interface.
Listen(c) ==
  /\ pc[c] = "listen" /\ Open(c, "client") /\ Goto(c, "bind")
  /\ UNCHANGED <<listening, sets, line, gor, ends, tcp, egress, udp>>
ListenError(c) ==
  /\ pc[c] = "listen" /\ Return(c, {})
  /\ UNCHANGED <<listening, sets, line, gor, ends, tcp, udp>>

\* The socket towards the targets, on the interface of the session.
Bind(c) ==
  /\ pc[c] = "bind" /\ (iface => dev)
  /\ Open(c, "target") /\ egress' = [egress EXCEPT ![c] = Bound(iface)]
  /\ ifc' = [ifc EXCEPT ![c] = iface] /\ Goto(c, "answer")
  /\ UNCHANGED <<listening, sets, line, gor, ends, host, plain, udp>>

\* Variant: the error path forgets the socket towards the client.
BindError_Leak(c) ==
  /\ pc[c] = "bind" /\ Return(c, {})
  /\ UNCHANGED <<listening, sets, line, gor, ends, tcp, udp>>
BindError(c) ==
  /\ pc[c] = "bind" /\ Return(c, {"client"})
  /\ UNCHANGED <<listening, sets, line, gor, ends, tcp, udp>>

Answer(c) ==
  /\ pc[c] = "answer" /\ Goto(c, "assoc")
  /\ gor' = [gor EXCEPT ![c] = @ \cup Loops \cup {"control"}]
  /\ UNCHANGED <<listening, sets, line, fds, ends, tcp, egress, udp>>
AnswerError(c) ==
  /\ pc[c] = "answer" /\ Gone(c, "client")
  /\ Cancel(c) /\ Return(c, {"client", "target"})
  /\ UNCHANGED <<listening, sets, line, gor, ends, tcp, locked, gram, age>>

\* clientReadLoop has a datagram for h from a: the first source is locked, even
\* if its datagram is malformed, and the rules are asked before any resolving.
Reads(c) == "clientLoop" \in gor[c] /\ "client" \in fds[c] /\ gram[c] = None
Takes(c, a, h) == locked'[c] = a /\ allowed(h, ClientIP[c])
Recv(c, a, h, wellFormed) ==
  /\ Reads(c) /\ ~Gone(c, "client")
  /\ locked' = [locked EXCEPT ![c] = IF @ = None THEN a ELSE @]
  /\ LET sent == wellFormed /\ Takes(c, a, h)
     IN  /\ gram' = [gram EXCEPT ![c] = IF sent /\ h \in Names THEN h ELSE None]
         /\ age' = [age EXCEPT ![c] = IF sent /\ h \notin Names THEN 0 ELSE @]
  /\ UNCHANGED <<listening, sets, line, pc, fds, gor, ends, tcp, egress, over>>

\* resolve answers, within its 5 s; only what was resolved is sent and counts.
Resolved(c) ==
  /\ "clientLoop" \in gor[c] /\ gram[c] # None
  /\ gram' = [gram EXCEPT ![c] = None] /\ (Active(c) \/ UNCHANGED age)
  /\ UNCHANGED <<listening, sets, line, pc, fds, gor, ends, tcp, egress, over, locked>>

\* targetReadLoop passes an answer back to the locked source, if there is one.
Backward(c) ==
  /\ "targetLoop" \in gor[c] /\ "target" \in fds[c]
  /\ egress[c] # "lost" /\ locked[c] # None /\ Active(c)
  /\ UNCHANGED <<listening, sets, line, pc, fds, gor, ends, tcp, egress, over, locked, gram>>

\* Variant: the idle watcher returns without cancelling the context.
Tick_NoCancel(c) ==
  /\ "idleLoop" \in gor[c] /\ ~CtxDone(c)
  /\ age' = [age EXCEPT ![c] = IF @ <= IdleLimit THEN @ + 1 ELSE @]
  /\ IF age[c] > IdleLimit THEN Stops(c, "idleLoop") ELSE UNCHANGED gor
  /\ UNCHANGED <<listening, sets, line, pc, fds, ends, tcp, egress, over, locked, gram>>

\* idleWatcher: a tick, and the end when the last activity is too long ago.
Tick(c) ==
  /\ "idleLoop" \in gor[c] /\ ~CtxDone(c)
  /\ age' = [age EXCEPT ![c] = IF @ <= IdleLimit THEN @ + 1 ELSE @]
  /\ IF age[c] > IdleLimit THEN Cancel(c) /\ Stops(c, "idleLoop") ELSE UNCHANGED <<over, gor>>
  /\ UNCHANGED <<listening, sets, line, pc, fds, ends, tcp, egress, locked, gram>>

\* A loop ends when its socket has been closed, the watcher with the context.
Ended(c, g) ==
  \/ g = "clientLoop" /\ "client" \notin fds[c] /\ gram[c] = None
  \/ g = "targetLoop" /\ "target" \notin fds[c]
  \/ g = "idleLoop" /\ CtxDone(c)
LoopEnds(c, g) ==
  /\ g \in gor[c] \cap Loops /\ Ended(c, g)
  /\ Cancel(c) /\ Stops(c, g)
  /\ UNCHANGED <<listening, sets, line, pc, fds, ends, tcp, egress, locked, gram, age>>

\* The goroutine that reads the control connection, until it ends either way.
Control(c) ==
  /\ "control" \in gor[c] /\ (Gone(c, "client") \/ "conn" \notin fds[c])
  /\ Cancel(c) /\ Stops(c, "control")
  /\ UNCHANGED <<listening, sets, line, pc, fds, ends, tcp, egress, locked, gram, age>>

\* Variant: the sockets are closed after the loops have ended.
Teardown_AfterLoops(c) ==
  /\ pc[c] = "assoc" /\ CtxDone(c) /\ gor[c] \cap Loops = {}
  /\ Cancel(c) /\ Goto(c, "wait") /\ fds' = [fds EXCEPT ![c] = @ \ {"client", "target"}]
  /\ egress' = [egress EXCEPT ![c] = "none"]
  /\ UNCHANGED <<listening, sets, line, gor, ends, tcp, locked, gram, age>>

\* The context is done: close both sockets, wait for the loops, return.
Teardown(c) ==
  /\ pc[c] = "assoc" /\ CtxDone(c)
  /\ Cancel(c) /\ Goto(c, "wait") /\ fds' = [fds EXCEPT ![c] = @ \ {"client", "target"}]
  /\ egress' = [egress EXCEPT ![c] = "none"]
  /\ UNCHANGED <<listening, sets, line, gor, ends, tcp, locked, gram, age>>
Waited(c) ==
  /\ pc[c] = "wait" /\ gor[c] \cap Loops = {} /\ Return(c, {})
  /\ UNCHANGED <<listening, sets, line, gor, ends, tcp, udp>>

-----------------------------------------------------------------------------
(* What others do: the ends, the reloads, Stop and the session's interface. *)

Worsens(c, e, s) ==
  /\ ends' = [ends EXCEPT ![c][e] = s]
  /\ UNCHANGED <<listening, sets, line, pc, fds, gor, tcp, egress, udp>>
ClientGone(c) ==
  /\ "client" \in Changes /\ pc[c] \notin {"none", "done"} /\ ~Gone(c, "client")
  /\ Worsens(c, "client", "gone")
ServerGone(c) ==
  /\ "server" \in Changes /\ "up" \in fds[c] /\ ~Gone(c, "server")
  /\ Worsens(c, "server", "gone")
Stuck(c, e) ==
  /\ "stuck" \in Changes /\ "up" \in fds[c] /\ ends[c][e] = "open"
  /\ Worsens(c, e, "stuck")

Reload(new, newRules) ==
  /\ "sets" \in Changes /\ creds' = new /\ rules' = newRules
  /\ UNCHANGED <<listening, line, pc, fds, gor, ends, tcp, egress, udp>>
ReloadCreds(new) == Reload(new, rules)
ReloadRules(new) == Reload(creds, new)

\* Stop cancels the context of the listener; the connections are not waited for.
Stop ==
  /\ "stop" \in Changes /\ listening /\ listening' = FALSE
  /\ UNCHANGED <<sets, line, pc, fds, gor, ends, tcp, egress, udp>>

\* The interface goes with pppd and comes back as another one of the same name.
LineDown ==
  /\ "line" \in Changes /\ dev /\ dev' = FALSE
  /\ egress' = [c \in Conns |-> IF egress[c] = "line" THEN "lost" ELSE egress[c]]
  /\ UNCHANGED <<listening, sets, iface, pc, fds, gor, ends, tcp, udp>>
LineUp ==
  /\ "line" \in Changes /\ ~dev /\ dev' = TRUE
  /\ UNCHANGED <<listening, sets, iface, pc, fds, gor, ends, tcp, egress, udp>>

\* Hangup, when the interface is down, or the deletion of the session clears the
\* row; the Dial that follows a hangup saves the name again.
RowCleared ==
  /\ "row" \in Changes /\ ~dev /\ iface /\ iface' = FALSE
  /\ UNCHANGED <<listening, sets, dev, pc, fds, gor, ends, tcp, egress, udp>>
RowSaved ==
  /\ "row" \in Changes /\ dev /\ ~iface /\ iface' = TRUE
  /\ UNCHANGED <<listening, sets, dev, pc, fds, gor, ends, tcp, egress, udp>>

-----------------------------------------------------------------------------
HandshakeStep(c) ==
  \/ Accept(c) \/ Peek(c) \/ GiveUp(c) \/ Greet(c) \/ AskUdp(c)
  \/ \E u \in Users : Auth(c, u)
  \/ \E h \in Hosts : Connect(c, h)
  \/ \E u \in Users, h \in Hosts, p \in BOOLEAN : Http(c, u, h, p)

TcpStep(c) ==
  \/ Lookup(c) \/ DialBound(c) \/ DialError(c)
  \/ Reply(c) \/ Forward(c) \/ ReplyError(c)
  \/ PipeReturn(c) \/ \E d \in Copies : CopyEnds(c, d)

UdpStep(c) ==
  \/ Listen(c) \/ ListenError(c) \/ Bind(c) \/ BindError(c) \/ Answer(c) \/ AnswerError(c)
  \/ \E a \in Sources, h \in Hosts, w \in BOOLEAN : Recv(c, a, h, w)
  \/ Resolved(c) \/ Backward(c) \/ Tick(c) \/ Control(c) \/ Teardown(c) \/ Waited(c)
  \/ \E g \in Loops : LoopEnds(c, g)

Environment ==
  \/ \E c \in Conns : ClientGone(c) \/ ServerGone(c)
  \/ \E c \in Conns, e \in {"client", "server"} : Stuck(c, e)
  \/ \E new \in CredSets : ReloadCreds(new)
  \/ \E new \in RuleSets : ReloadRules(new)
  \/ Stop \/ LineDown \/ LineUp \/ RowCleared \/ RowSaved

Next == Environment \/ \E c \in Conns : HandshakeStep(c) \/ TcpStep(c) \/ UdpStep(c)

\* A goroutine that can go on does so, a deadline that is set passes, a dial, a
\* write and a resolution under a deadline end; clients and servers owe nothing.
Progress(c) ==
  /\ WF_vars(GiveUp(c)) /\ WF_vars(Lookup(c)) /\ WF_vars(DialBound(c) \/ DialError(c))
  /\ WF_vars(Reply(c) \/ Forward(c) \/ ReplyError(c)) /\ WF_vars(PipeReturn(c))
  /\ \A d \in Copies : WF_vars(CopyEnds(c, d))
  /\ WF_vars(Listen(c) \/ ListenError(c)) /\ WF_vars(Bind(c) \/ BindError(c))
  /\ WF_vars(Answer(c) \/ AnswerError(c)) /\ WF_vars(Resolved(c)) /\ WF_vars(Tick(c))
  /\ WF_vars(Control(c)) /\ WF_vars(Teardown(c)) /\ WF_vars(Waited(c))
  /\ \A g \in Loops : WF_vars(LoopEnds(c, g))

Spec     == Init /\ [][Next]_vars
LiveSpec == Spec /\ \A c \in Conns : Progress(c)

-----------------------------------------------------------------------------
(* Properties. *)

\* What the comment of allowed promises of a host and a client: no rule that
\* denies them matches, and each kind that has rules to allow has one that does.
RuleOK(h, ip) ==
  LET some(act, kinds) ==
        \E i \in 1..Len(rules) : rules[i].action = act /\ rules[i].kind \in kinds /\ Matches(rules[i], h, ip)
  IN  /\ ~some("deny", {"domain", "ip"})
      /\ \A k \in {"domain", "ip"} :
           (\E i \in 1..Len(rules) : rules[i].action = "allow" /\ rules[i].kind = k) => some("allow", {k})

\* A connection is dialled for a client, a datagram resolved for it, only if the
\* rules in force in that moment admit the two: deny wins, and rules that allow
\* bind their own kind alone (access.go, the callers in socks5.go, http.go, udp.go).
Admission ==
  [][\A c \in Conns :
       /\ (pc[c] # "lookup" /\ pc'[c] = "lookup") => RuleOK(host'[c], ClientIP[c])
       /\ (gram[c] = None /\ gram'[c] # None) => RuleOK(gram'[c], ClientIP[c])]_vars

\* The abstract life of a connection: whatever error, close, timeout or Stop cuts
\* it short at whichever point, what it took is given back when it is over.
PhaseAt == [l \in Labels |->
  CASE l \in Setup -> "setup" [] l \in {"pipe", "assoc"} -> "relaying"
    [] l = "wait" -> "ending" [] l = "done" -> "closed" [] OTHER -> "none"]
Phases == [c \in Conns |-> PhaseAt[pc[c]]]
Holds == [c \in Conns |-> fds[c] \cup (gor[c] \cap Loops)]
Life == INSTANCE RelayLife WITH
  Resources <- Sockets \cup Loops, Accepted <- "conn", WaysOut <- {"up", "target"},
  phase <- Phases, held <- Holds
LifeSpec == Life!Spec

\* A handshake ends, whatever the client does or does not send (SetDeadline).
HandshakeEnds == \A c \in Conns : pc[c] \in Handshake ~> pc[c] \notin Handshake

\* A tunnel ends once an end has closed or its line is lost, unless an end that
\* stays open without reading holds up a copy: the tunnel has no deadline (pipe).
TunnelEnds ==
  \A c \in Conns :
    (pc[c] = "pipe" /\ (Gone(c, "client") \/ Gone(c, "server") \/ egress[c] = "lost"))
      ~> (pc[c] = "done" \/ \E e \in {"client", "server"} : ends[c][e] = "stuck")

\* An association ends with its control connection and with its listener, and all
\* its goroutines with it (udp.go:142: the control connection, Stop).
AssociationEnds ==
  \A c \in Conns :
    (pc[c] = "assoc" /\ (Gone(c, "client") \/ ~listening)) ~> (pc[c] = "done" /\ gor[c] = {})

\* An association does not outlive its traffic: it ends, or is active again and again.
IdleEnds == \A c \in Conns : []<>(pc[c] # "assoc" \/ age[c] = 0)

\* dial.go:1 and udp.go:7: what goes out goes out by the line of the session.
EgressOnLine == \A c \in Conns : egress[c] # "default"
=============================================================================
