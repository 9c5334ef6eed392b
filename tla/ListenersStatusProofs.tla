------------------------ MODULE ListenersStatusProofs ------------------------
(* Further proofs about Listeners: as long as no two of Start, Stop and       *)
(* deletion of a proxy have overlapped, its sockets, row and status agree.    *)
EXTENDS ListenersProofs

Serving  == {"bind", "creds", "rules", "register", "running"}
Ending   == {"stopped", "dropcreds", "droprow", "dropsession"}
Deciding == {"creds", "rules", "register", "running", "close", "stopped", "dropcreds", "droprow"}

\* One goroutine at most starts or stops p; while it starts it, and while p
\* listens, p has a row; when it has stopped it, p does not listen; and unless it
\* is between the two, the status is right.
Agreed(p) ==
  /\ \A g, h \in Procs :
       job[g].p = p /\ pc[g] \in Switching /\ job[h].p = p /\ pc[h] \in Switching => g = h
  /\ \A o \in open : o.proxy = p =>
       row[p].proxy /\ \A h \in Procs : job[h].p = p => pc[h] \notin Ending
  /\ \A h \in Procs : job[h].p = p =>
       /\ pc[h] \in Serving => row[p].proxy
       /\ pc[h] = "running" => listeners[p] # 0
  /\ row[p].proxy =>
       \/ \E h \in Procs : job[h].p = p /\ pc[h] \in Deciding
       \/ row[p].status = "running" <=> listeners[p] # 0

StatusInv ==
  /\ \A p \in Proxies : <<"status", p>> \notin overlap => Agreed(p)
  /\ \A p \in Proxies : row[p].port = 0 => row[p].status = "stopped"

-----------------------------------------------------------------------------
(* Steps that are about another proxy, or about something else. *)

\* Nothing that concerns p changes.
Untouched(p) ==
  /\ listeners'[p] = listeners[p]
  /\ row'[p].proxy = row[p].proxy /\ row'[p].status = row[p].status
  /\ \A n \in open' : n.proxy = p => \E o \in open : o.proxy = p

\* Such a step leaves the status of p as true as it was.
LEMMA Elsewhere ==
  ASSUME NEW p \in Proxies, NEW h \in Procs, Others(h), Untouched(p), Agreed(p),
         ~(job[h].p = p /\ pc[h] \in Switching), ~(job'[h].p = p /\ pc'[h] \in Switching)
  PROVE  Agreed(p)'
<1>1. Serving \cup Ending \cup Deciding \subseteq Switching
  BY DEF Serving, Ending, Deciding, Switching, Starting, Stopping
<1>2. \A g \in Procs : \/ job'[g] = job[g] /\ pc'[g] = pc[g]
                       \/ g = h
  BY DEF Others
<1>3. \A g, k \in Procs :
        job'[g].p = p /\ pc'[g] \in Switching /\ job'[k].p = p /\ pc'[k] \in Switching => g = k
  BY <1>2 DEF Agreed
<1>4. \A o \in open' : o.proxy = p =>
        row'[p].proxy /\ \A g \in Procs : job'[g].p = p => pc'[g] \notin Ending
  BY <1>1, <1>2 DEF Agreed, Untouched
<1>5. \A g \in Procs : job'[g].p = p =>
        /\ pc'[g] \in Serving => row'[p].proxy
        /\ pc'[g] = "running" => listeners'[p] # 0
  BY <1>1, <1>2 DEF Agreed, Untouched, Serving
<1>6. row'[p].proxy =>
        \/ \E g \in Procs : job'[g].p = p /\ pc'[g] \in Deciding
        \/ row'[p].status = "running" <=> listeners'[p] # 0
  BY <1>1, <1>2 DEF Agreed, Untouched
<1> QED BY <1>3, <1>4, <1>5, <1>6 DEF Agreed

\* A proxy without listener in the map and without anybody who starts or stops it
\* does not listen.
LEMMA NotListening ==
  ASSUME TypeOK, HandInv, NEW p \in Proxies, listeners[p] = 0,
         \A g \in Procs : job[g].p = p => pc[g] \notin InHand
  PROVE  \A o \in open : o.proxy # p
<1> SUFFICES ASSUME NEW o \in open, o.proxy = p PROVE FALSE
  OBVIOUS
<1>1. o.id \in Nat \ {0}
  BY DEF TypeOK, MemoryOK, Listener
<1>2. PICK g \in Procs : job[g].l = o.id /\ pc[g] \in InHand
  BY <1>1 DEF HandInv, Owned, InHand
<1>3. PICK q \in open : q.id = job[g].l /\ q.proxy = job[g].p
  BY <1>2 DEF HandInv, HandsSound
<1>4. q = o
  BY <1>2, <1>3 DEF HandInv, IdsSound
<1> QED BY <1>2, <1>3, <1>4

\* Nor is it in the map if it does not listen.
LEMMA NotInMap ==
  ASSUME HandInv, NEW p \in Proxies, \A o \in open : o.proxy # p
  PROVE  listeners[p] = 0
BY DEF HandInv, Owned

\* Nobody but h starts or stops p.
Alone(h, p) == \A g \in Procs \ {h} : job[g].p = p => pc[g] \notin Switching

\* A step of h then has to leave only what h does in agreement with the sockets and
\* the row.
LEMMA Worker ==
  ASSUME NEW p \in Proxies, NEW h \in Procs, Others(h), Alone(h, p),
         \A o \in open' : o.proxy = p =>
           row'[p].proxy /\ (job'[h].p = p => pc'[h] \notin Ending),
         job'[h].p = p => /\ pc'[h] \in Serving => row'[p].proxy
                          /\ pc'[h] = "running" => listeners'[p] # 0,
         row'[p].proxy => \/ job'[h].p = p /\ pc'[h] \in Deciding
                          \/ row'[p].status = "running" <=> listeners'[p] # 0
  PROVE  Agreed(p)'
<1>1. Serving \cup Ending \cup {"running"} \subseteq Switching
  BY DEF Serving, Ending, Switching, Starting, Stopping
<1>2. \A g \in Procs : job'[g].p = p /\ pc'[g] \in Switching => g = h
  BY DEF Others, Alone
<1>3. \A o \in open' : o.proxy = p =>
        row'[p].proxy /\ \A g \in Procs : job'[g].p = p => pc'[g] \notin Ending
  BY <1>1, <1>2
<1>4. \A g \in Procs : job'[g].p = p =>
        /\ pc'[g] \in Serving => row'[p].proxy
        /\ pc'[g] = "running" => listeners'[p] # 0
  BY <1>1, <1>2
<1>5. row'[p].proxy =>
        \/ \E g \in Procs : job'[g].p = p /\ pc'[g] \in Deciding
        \/ row'[p].status = "running" <=> listeners'[p] # 0
  OBVIOUS
<1>6. \A g, k \in Procs :
        job'[g].p = p /\ pc'[g] \in Switching /\ job'[k].p = p /\ pc'[k] \in Switching => g = k
  BY <1>2
<1> QED BY <1>3, <1>4, <1>5, <1>6 DEF Agreed

\* What Agreed says of a proxy that nobody but h is at work on.
LEMMA AtRest ==
  ASSUME NEW p \in Proxies, NEW h \in Procs, Agreed(p), Alone(h, p),
         ~(job[h].p = p /\ pc[h] \in Deciding)
  PROVE  row[p].proxy => (row[p].status = "running" <=> listeners[p] # 0)
<1>1. Deciding \subseteq Switching
  BY DEF Deciding, Switching, Starting, Stopping
<1> QED BY <1>1 DEF Agreed, Alone

-----------------------------------------------------------------------------
(* What each kind of step leaves alone. *)

\* The same row, and the same sockets but for what they have installed.
LEMMA SameRow ==
  ASSUME NEW p \in Proxies, SameSockets, listeners' = listeners,
         row'[p].proxy = row[p].proxy, row'[p].status = row[p].status
  PROVE  Untouched(p)
BY DEF Untouched, SameSockets

\* The steps that neither start nor stop a proxy.
Aside(h) ==
  \/ \E p \in Proxies : SessionWrite(h, p)
  \/ \E m \in Macs \cup {RandomMac} : CreateBegin(h, m)
  \/ \E P \in SUBSET Proxies : CredWrite(h, P)
  \/ GlobalWrite(h)
  \/ CreateLock(h) \/ CreateSession(h) \/ CreatePort(h) \/ CreateSeed(h)
  \/ CreateDial(h) \/ CreateDialing(h)
  \/ ReloadCreds(h) \/ SetCreds(h)
  \/ GlobalQuery(h) \/ GlobalStore(h) \/ GlobalSnapshot(h) \/ SessionTarget(h) \/ Merge(h)
  \/ SetRules(h)

\* They neither come from nor lead to a start or a stop, and change no proxy.
LEMMA AsideMoves ==
  ASSUME TypeOK, NEW h \in Procs, Aside(h)
  PROVE  Others(h) /\ pc[h] \notin Switching /\ pc'[h] \notin Switching
<1>1. ({"idle"} \cup Creating \cup Reloading) \cap Switching = {}
  BY DEF Creating, Reloading, Switching, Starting, Stopping
<1>2. {"idle", "target", "lock", "reload", "query", "addsession", "allocport", "addproxy", "seed",
       "dial", "dialing", "dialed", "setcreds", "cache", "snapshot", "merge", "setrules"}
        \subseteq {"idle"} \cup Creating \cup Reloading
  BY DEF Creating, Reloading
<1>3. CASE \/ \E p \in Proxies : SessionWrite(h, p)
           \/ \E m \in Macs \cup {RandomMac} : CreateBegin(h, m)
           \/ \E P \in SUBSET Proxies : CredWrite(h, P)
           \/ GlobalWrite(h)
  <2>1. /\ pc[h] = "idle"
        /\ \E l \in {"target", "lock", "reload", "query"} : \E j : Begin(h, l, j)
    BY <1>3 DEF SessionWrite, CreateBegin, CredWrite, GlobalWrite, Arrives
  <2>2. Others(h) /\ pc'[h] \in {"target", "lock", "reload", "query"}
    BY <2>1, Placed
  <2> QED BY <1>1, <1>2, <2>1, <2>2
<1>4. CASE CreateLock(h) \/ CreateSession(h) \/ CreatePort(h) \/ CreateSeed(h) \/ CreateDial(h)
  <2>1. /\ pc[h] \in {"lock", "addsession", "allocport", "seed", "dial"}
        /\ \/ Done(h)
           \/ \E l \in {"addsession", "allocport", "addproxy", "dial", "dialing"} :
                \E j : Begin(h, l, j)
    BY <1>4 DEF CreateLock, CreateSession, CreatePort, CreateSeed, CreateDial, Goto
  <2>2. Others(h) /\ pc'[h] \in {"idle", "addsession", "allocport", "addproxy", "dial", "dialing"}
    BY <2>1, Placed, DonePlaced
  <2> QED BY <1>1, <1>2, <2>1, <2>2
<1>5. CASE ReloadCreds(h) \/ Merge(h)
  <2>1. /\ pc[h] \in {"reload", "merge"}
        /\ \E l \in {"reload", "setcreds", "merge", "setrules"} : \E j : Back(h, l, j) \/ Begin(h, l, j)
    BY <1>5 DEF ReloadCreds, Merge, Goto
  <2>2. Others(h) /\ pc'[h] \in {"idle", "reload", "setcreds", "merge", "setrules"}
    BY <2>1, Placed, BackPlaced
  <2> QED BY <1>1, <1>2, <2>1, <2>2
<1>6. CASE GlobalQuery(h) \/ GlobalStore(h)
  <2>1. /\ pc[h] \in {"query", "cache"}
        /\ \E l \in {"cache", "snapshot"} : \E j : Begin(h, l, j)
    BY <1>6 DEF GlobalQuery, GlobalStore, Goto
  <2>2. Others(h) /\ pc'[h] \in {"cache", "snapshot"}
    BY <2>1, Placed
  <2> QED BY <1>1, <1>2, <2>1, <2>2
<1>7. CASE GlobalSnapshot(h) \/ SessionTarget(h) \/ SetCreds(h) \/ SetRules(h)
  <2>1. /\ pc[h] \in {"snapshot", "target", "setcreds", "setrules"}
        /\ \E l \in {"merge", "reload"} : \E j : Back(h, l, j)
    BY <1>7 DEF GlobalSnapshot, SessionTarget, SetCreds, SetRules
  <2>2. Others(h) /\ pc'[h] \in {"idle", "merge", "reload"}
    BY <2>1, BackPlaced
  <2> QED BY <1>1, <1>2, <2>1, <2>2
<1>8. CASE CreateDialing(h)
  BY <1>1, <1>2, <1>8, SavePlaced DEF CreateDialing
<1> QED BY <1>3, <1>4, <1>5, <1>6, <1>7, <1>8 DEF Aside

\* No proxy's row, port or socket changes.
SameProxy(p) == /\ row'[p].proxy = row[p].proxy /\ row'[p].status = row[p].status
                /\ row'[p].port = row[p].port

\* The three that write a session's row leave the proxy's alone.
LEMMA AsideRows ==
  ASSUME TypeOK, NEW h \in Procs, Aside(h), NEW p \in Proxies
  PROVE  SameProxy(p) /\ listeners' = listeners /\ SameSockets
<1>1. CASE CreateSession(h) \/ CreatePort(h)
  <2>1. open' = open /\ listeners' = listeners
    BY <1>1 DEF CreateSession, CreatePort, memory
  <2>2. row[p] \in Row
    BY DEF TypeOK, TablesOK
  <2>3. CASE CreateSession(h)
    <3>1. CASE row' = row
      BY <2>1, <3>1, NothingMoves DEF SameProxy
    <3>2. CASE row' # row
      <4>1. PICK q \in Proxies :
              row' = [row EXCEPT ![q] = [row[q] EXCEPT !.born = TRUE, !.session = TRUE,
                                                !.unit = job[h].unit, !.mac = job[h].mac]]
        BY <2>3, <3>2 DEF CreateSession
      <4>2. row'[p] \in {row[p], [row[p] EXCEPT !.born = TRUE, !.session = TRUE,
                                                !.unit = job[h].unit, !.mac = job[h].mac]}
        BY <4>1 DEF TypeOK, TablesOK
      <4>3. SameProxy(p)
        BY <2>2, <4>2 DEF SameProxy, Row
      <4> QED BY <2>1, <4>3, NothingMoves
    <3> QED BY <3>1, <3>2
  <2>4. CASE CreatePort(h)
    <3>1. row' = row \/ row' = [row EXCEPT ![job[h].p].session = FALSE]
      BY <2>4 DEF CreatePort
    <3>2. SameProxy(p)
      BY <2>2, <3>1 DEF SameProxy, Row, TypeOK, TablesOK
    <3> QED BY <2>1, <3>2, NothingMoves
  <2> QED BY <1>1, <2>3, <2>4
<1>2. CASE CreateLock(h)
  BY <1>2, NothingMoves DEF CreateLock, tables, memory, SameProxy
<1>3. CASE CreateDialing(h)
  <2>1. job[h].p \in Proxies /\ open' = open /\ listeners' = listeners
    BY <1>3, AtWork DEF CreateDialing, OnProxy, memory
  <2> QED BY <1>3, <2>1, SaveSession, NothingMoves DEF CreateDialing, SameProxy
<1>4. CASE Aside(h) /\ ~CreateLock(h) /\ ~CreateSession(h) /\ ~CreatePort(h) /\ ~CreateDialing(h)
  <2>1. Quiet(h)
    BY <1>4, QuietSteps DEF Aside, Request
  <2>2. row' = row
    BY <1>4 DEF Aside, SessionWrite, CreateBegin, CredWrite, GlobalWrite, CreateSeed, CreateDial,
                ReloadCreds, SetCreds, GlobalQuery, GlobalStore, GlobalSnapshot, SessionTarget,
                Merge, SetRules, tables
  <2> QED BY <2>1, <2>2 DEF Quiet, SameProxy
<1> QED BY <1>1, <1>2, <1>3, <1>4

\* So they keep the agreement.
LEMMA AsideKept ==
  ASSUME TypeOK, NEW h \in Procs, Aside(h), NEW p \in Proxies, Agreed(p)
  PROVE  Agreed(p)'
<1>1. Untouched(p)
  BY AsideRows, SameRow DEF SameProxy
<1> QED BY <1>1, AsideMoves, Elsewhere

-----------------------------------------------------------------------------
(* The steps that start or stop a proxy.                                     *)

Working(h) ==
  \/ StartNothing(h) \/ StartLoad(h) \/ StartBind(h) \/ StartCreds(h) \/ StartRules(h)
  \/ StartRegister(h) \/ StartRunning(h)
  \/ StopRemove(h) \/ StopClose(h) \/ StopStatus(h) \/ DropCreds(h) \/ DropRow(h) \/ DropSession(h)

\* They go on with the same proxy, or return.
LEMMA WorkMoves ==
  ASSUME TypeOK, NEW h \in Procs, Working(h)
  PROVE  /\ Others(h) /\ pc[h] \in Switching /\ job[h].p \in Proxies
         /\ pc'[h] \in Switching => job'[h].p = job[h].p
<1>1. Switching \subseteq OnProxy /\ "idle" \notin Switching
  BY DEF OnProxy, Switching, Starting, Stopping
<1>2. pc[h] \in Switching /\ (Done(h) \/ \E l : \E j : Begin(h, l, j) /\ j.p = job[h].p)
  <2>1. job[h] \in Job
    BY AtWork
  <2>2. CASE StartNothing(h) \/ StartRunning(h) \/ DropSession(h)
    BY <2>2 DEF StartNothing, StartRunning, DropSession, Switching, Starting, Stopping
  <2>3. CASE StartLoad(h) \/ StopRemove(h) \/ StopClose(h)
    <3>1. \A n : /\ [job[h] EXCEPT !.port = n].p = job[h].p
                 /\ [job[h] EXCEPT !.l = n].p = job[h].p
      BY <2>1 DEF Job
    <3> QED BY <2>3, <3>1 DEF StartLoad, StopRemove, StopClose, Goto, Switching, Starting, Stopping
  <2>4. CASE StartBind(h)
    <3>1. [job[h] EXCEPT !.l = lastId + 1].p = job[h].p
      BY <2>1 DEF Job
    <3> QED BY <2>4, <3>1 DEF StartBind, Goto, Switching, Starting
  <2>5. CASE \/ StartCreds(h) \/ StartRules(h) \/ StartRegister(h)
             \/ StopStatus(h) \/ DropCreds(h) \/ DropRow(h)
    BY <2>5 DEF StartCreds, StartRules, StartRegister, StopStatus, DropCreds, DropRow, Goto,
                Switching, Starting, Stopping
  <2> QED BY <2>2, <2>3, <2>4, <2>5 DEF Working
<1> QED BY <1>1, <1>2, AtWork, Placed, DonePlaced

\* They leave every other proxy alone.
LEMMA WorkRows ==
  ASSUME TypeOK, PortsSound, HandInv, NEW h \in Procs, Working(h), NEW p \in Proxies, p # job[h].p
  PROVE  SameProxy(p) /\ Untouched(p)
<1>1. job[h].p \in Proxies
  BY WorkMoves
<1>2. SameProxy(p)
  <2>1. \/ row' = row
        \/ \E s : SetStatus(job[h].p, s)
        \/ row' = [row EXCEPT ![job[h].p].proxy = FALSE]
        \/ row' = [row EXCEPT ![job[h].p].session = FALSE]
    BY DEF Working, StartNothing, StartLoad, StartBind, StartCreds, StartRules, StartRegister,
           StartRunning, StopRemove, StopClose, StopStatus, DropCreds, DropRow, DropSession, tables
  <2> QED BY <1>1, <2>1 DEF SetStatus, SameProxy, TypeOK, TablesOK
<1>3. listeners'[p] = listeners[p]
  <2>1. \/ listeners' = listeners
        \/ \E l : listeners' = [listeners EXCEPT ![job[h].p] = l]
    BY DEF Working, StartNothing, StartLoad, StartBind, StartCreds, StartRules, StartRegister,
           StartRunning, StopRemove, StopClose, StopStatus, DropCreds, DropRow, DropSession, memory
  <2> QED BY <1>1, <2>1 DEF TypeOK, MemoryOK
<1>4. \A n \in open' : n.proxy = p => \E o \in open : o.proxy = p
  <2>1. CASE StartBind(h)
    <3>1. \A n \in open' : n \in open \/ n.proxy = job[h].p
      BY <2>1 DEF StartBind
    <3> QED BY <3>1
  <2>2. CASE StopClose(h)
    BY <2>2 DEF StopClose
  <2>3. CASE StartCreds(h) \/ StartRules(h)
    <3>1. creds[job[h].p] \in Nat /\ own[job[h].p] \in Nat /\ cache \in Nat /\ open \subseteq Listener
      BY <1>1 DEF TypeOK, TablesOK, MemoryOK
    <3>2. SameSockets
      BY <2>3, <3>1, Given DEF StartCreds, StartRules
    <3> QED BY <3>2 DEF SameSockets
  <2>4. CASE Working(h) /\ ~StartBind(h) /\ ~StopClose(h) /\ ~StartCreds(h) /\ ~StartRules(h)
    <3>1. open' = open
      BY <2>4 DEF Working, StartNothing, StartLoad, StartRegister, StartRunning, StopRemove,
                  StopStatus, DropCreds, DropRow, DropSession, memory
    <3> QED BY <3>1
  <2> QED BY <2>1, <2>2, <2>3, <2>4
<1> QED BY <1>2, <1>3, <1>4 DEF Untouched, SameProxy

\* Whoever starts or stops p does it alone.
LEMMA WorksAlone ==
  ASSUME NEW h \in Procs, NEW p \in Proxies, Agreed(p), job[h].p = p, pc[h] \in Switching
  PROVE  Alone(h, p)
BY DEF Agreed, Alone

\* What holds of the proxy that h starts or stops.
LEMMA AtHand ==
  ASSUME NEW h \in Procs, NEW p \in Proxies, job[h].p = p, pc[h] \in Switching, Agreed(p)
  PROVE  /\ Alone(h, p)
         /\ pc[h] \in Serving => row[p].proxy
         /\ pc[h] = "running" => listeners[p] # 0
         /\ \A o \in open : o.proxy = p => row[p].proxy /\ pc[h] \notin Ending
         /\ pc[h] \notin Deciding =>
              (row[p].proxy => (row[p].status = "running" <=> listeners[p] # 0))
<1>1. Alone(h, p)
  BY WorksAlone
<1>2. pc[h] \notin Deciding =>
        (row[p].proxy => (row[p].status = "running" <=> listeners[p] # 0))
  BY <1>1, AtRest
<1> QED BY <1>1, <1>2 DEF Agreed

\* Start that returns or has read the port, and the deletion of creds, of the row and
\* of the session.
LEMMA NoSocketKept ==
  ASSUME TypeOK, NEW h \in Procs, NEW p \in Proxies, job[h].p = p, Agreed(p),
         StartNothing(h) \/ StartLoad(h) \/ DropCreds(h) \/ DropRow(h) \/ DropSession(h)
  PROVE  Agreed(p)'
<1>1. Others(h) /\ pc[h] \in Switching
  BY WorkMoves DEF Working
<1>2. open' = open /\ listeners' = listeners
  BY DEF StartNothing, StartLoad, DropCreds, DropRow, DropSession, memory
<1>3. row[p] \in Row
  BY DEF TypeOK, TablesOK
<1>4. CASE StartNothing(h)
  <2>1. pc[h] = "start" /\ pc'[h] = "idle" /\ row' = row
    BY <1>4, DonePlaced DEF StartNothing, tables
  <2> QED BY <1>1, <1>2, <2>1, AtHand, Worker DEF Ending, Serving, Deciding
<1>5. CASE StartLoad(h)
  <2>1. pc[h] = "start" /\ pc'[h] = "bind" /\ row' = row /\ row[p].proxy
    BY <1>5, Placed DEF StartLoad, Goto, tables, Live
  <2> QED BY <1>1, <1>2, <2>1, AtHand, Worker DEF Ending, Serving, Deciding
<1>6. CASE DropCreds(h)
  <2>1. pc[h] = "dropcreds" /\ pc'[h] = "droprow" /\ job'[h].p = p /\ row' = row
    BY <1>6, Placed DEF DropCreds, Goto
  <2> QED BY <1>1, <1>2, <2>1, AtHand, Worker DEF Ending, Serving, Deciding
<1>7. CASE DropRow(h)
  <2>1. pc[h] = "droprow" /\ pc'[h] = "dropsession" /\ ~row'[p].proxy
    BY <1>3, <1>7, Placed DEF DropRow, Goto, Row, TypeOK, TablesOK
  <2> QED BY <1>1, <1>2, <2>1, AtHand, Worker DEF Ending, Serving, Deciding
<1>8. CASE DropSession(h)
  <2>1. /\ pc[h] = "dropsession" /\ pc'[h] = "idle"
        /\ row'[p].proxy = row[p].proxy /\ row'[p].status = row[p].status
    BY <1>3, <1>8, DonePlaced DEF DropSession, Row, TypeOK, TablesOK
  <2> QED BY <1>1, <1>2, <2>1, AtHand, Worker DEF Ending, Serving, Deciding
<1> QED BY <1>4, <1>5, <1>6, <1>7, <1>8

\* Start that binds a socket, installs creds and rules and enters it in the map: the
\* proxy has a row throughout.
LEMMA ServeKept ==
  ASSUME TypeOK, HandInv, NEW h \in Procs, NEW p \in Proxies, job[h].p = p, Agreed(p),
         StartBind(h) \/ StartCreds(h) \/ StartRules(h) \/ StartRegister(h)
  PROVE  Agreed(p)'
<1>1. Others(h) /\ pc[h] \in Switching
  BY WorkMoves DEF Working
<1>2. row' = row /\ pc[h] \in Serving
  BY DEF StartBind, StartCreds, StartRules, StartRegister, tables, Serving
<1>3. row[p].proxy /\ Alone(h, p)
  BY <1>1, <1>2, AtHand
<1>4. CASE StartBind(h)
  <2>1. CASE \E o \in open : o.port = job[h].port
    <3>1. pc[h] = "bind" /\ pc'[h] = "idle" /\ open' = open /\ listeners' = listeners
      BY <1>4, <2>1, DonePlaced DEF StartBind
    <3> QED BY <1>1, <1>2, <3>1, AtHand, Worker DEF Ending, Serving, Deciding
  <2>2. CASE ~\E o \in open : o.port = job[h].port
    <3>1. pc'[h] = "creds" /\ job'[h].p = p
      BY <1>4, <2>2, Placed, AtWork DEF StartBind, Goto, Job
    <3> QED BY <1>1, <1>2, <1>3, <3>1, Worker DEF Ending, Serving, Deciding
  <2> QED BY <2>1, <2>2
<1>5. CASE StartCreds(h) \/ StartRules(h)
  <2>1. pc'[h] \in {"rules", "register"} /\ job'[h].p = p
    BY <1>5, Placed DEF StartCreds, StartRules, Goto
  <2> QED BY <1>1, <1>2, <1>3, <2>1, Worker DEF Ending, Serving, Deciding
<1>6. CASE StartRegister(h)
  <2>1. pc[h] \in InHand /\ pc'[h] = "running" /\ job'[h].p = p
    BY <1>6, Placed DEF StartRegister, Goto, InHand
  <2>2. listeners'[p] = job[h].l
    BY <1>6 DEF StartRegister, TypeOK, MemoryOK
  <2>3. job[h].l # 0
    BY <2>1, HandHolds DEF TypeOK, MemoryOK, Listener
  <2> QED BY <1>1, <1>2, <1>3, <2>1, <2>2, <2>3, Worker DEF Ending, Serving, Deciding
<1> QED BY <1>4, <1>5, <1>6

\* Stop that takes the listener out of the map, and closes its socket: the only one.
LEMMA CloseAgrees ==
  ASSUME TypeOK, HandInv, NEW h \in Procs, NEW p \in Proxies, job[h].p = p, Agreed(p),
         StopRemove(h) \/ StopClose(h)
  PROVE  Agreed(p)'
<1>1. Others(h) /\ pc[h] \in Switching /\ row' = row
  BY WorkMoves DEF Working, StopRemove, StopClose, tables
<1>2. Alone(h, p) /\ \A o \in open : o.proxy = p => row[p].proxy
  BY <1>1, AtHand
<1>3. CASE StopRemove(h)
  <2>1. pc[h] = "stop" /\ open' = open /\ job'[h].p = p
        /\ pc'[h] = IF listeners[p] = 0 THEN "stopped" ELSE "close"
    BY <1>3, Placed, AtWork DEF StopRemove, Goto, Job
  <2>2. CASE listeners[p] # 0
    BY <1>1, <1>2, <2>1, <2>2, Worker DEF Ending, Serving, Deciding
  <2>3. CASE listeners[p] = 0
    <3>1. \A g \in Procs : job[g].p = p => pc[g] \notin InHand
      BY <1>2, <2>1 DEF Alone, InHand, Switching, Starting, Stopping
    <3>2. \A o \in open : o.proxy # p
      BY <2>3, <3>1, NotListening
    <3> QED BY <1>1, <1>2, <2>1, <2>3, <3>2, Worker DEF Ending, Serving, Deciding
  <2> QED BY <2>2, <2>3
<1>4. CASE StopClose(h)
  <2>1. pc[h] \in InHand /\ pc'[h] = "stopped" /\ job'[h].p = p
        /\ open' = {o \in open : o.id # job[h].l}
    BY <1>4, Placed, AtWork DEF StopClose, Goto, Job, InHand
  <2>2. \A o \in open' : o.proxy # p
    <3>1. PICK q \in open : q.id = job[h].l /\ q.proxy = p
      BY <2>1, HandHolds
    <3>2. \A o \in open : o.proxy = p => o = q
      BY <3>1 DEF HandInv, Owned
    <3> QED BY <2>1, <3>1, <3>2
  <2> QED BY <1>1, <1>2, <2>1, <2>2, Worker DEF Ending, Serving, Deciding
<1> QED BY <1>3, <1>4

\* The status that Start and Stop write last.
LEMMA StatusKept ==
  ASSUME TypeOK, HandInv, NEW h \in Procs, NEW p \in Proxies, job[h].p = p, Agreed(p),
         StartRunning(h) \/ StopStatus(h)
  PROVE  Agreed(p)'
<1>1. Others(h) /\ pc[h] \in Switching
  BY WorkMoves DEF Working
<1>2. open' = open /\ listeners' = listeners
  BY DEF StartRunning, StopStatus, memory
<1>3. \A s \in {"running", "stopped"} :
        SetStatus(p, s) => /\ row'[p].proxy = row[p].proxy
                           /\ row[p].proxy => row'[p].status = s
  BY DEF SetStatus, Live, TypeOK, TablesOK, Row
<1>4. CASE StartRunning(h)
  <2>1. pc[h] = "running" /\ pc'[h] = "idle" /\ SetStatus(p, "running")
    BY <1>4, DonePlaced DEF StartRunning
  <2>2. row[p].proxy /\ listeners[p] # 0 /\ Alone(h, p)
    BY <1>1, <2>1, AtHand DEF Serving
  <2> QED BY <1>1, <1>2, <1>3, <2>1, <2>2, Worker DEF Ending, Serving, Deciding
<1>5. CASE StopStatus(h)
  <2>1. pc[h] = "stopped" /\ SetStatus(p, "stopped") /\ pc'[h] \in {"idle", "dropcreds"}
    BY <1>5, Placed, DonePlaced DEF StopStatus, Goto
  <2>2. Alone(h, p) /\ \A o \in open : o.proxy # p
    BY <1>1, <2>1, AtHand DEF Ending
  <2>3. listeners[p] = 0
    BY <2>2, NotInMap
  <2> QED BY <1>1, <1>2, <1>3, <2>1, <2>2, <2>3, Worker DEF Ending, Serving, Deciding
<1> QED BY <1>4, <1>5

\* Every step of Start, Stop and a deletion keeps the agreement of every proxy.
LEMMA WorkKept ==
  ASSUME TypeOK, PortsSound, HandInv, NEW h \in Procs, Working(h), NEW p \in Proxies, Agreed(p)
  PROVE  Agreed(p)'
<1>1. CASE job[h].p = p
  BY <1>1, NoSocketKept, ServeKept, CloseAgrees, StatusKept DEF Working
<1>2. CASE job[h].p # p
  <2>1. Untouched(p) /\ Others(h) /\ (pc'[h] \in Switching => job'[h].p = job[h].p)
    BY <1>2, WorkRows, WorkMoves
  <2> QED BY <1>2, <2>1, Elsewhere
<1> QED BY <1>1, <1>2

-----------------------------------------------------------------------------
(* The steps that come to start or stop a proxy, unless somebody is at it. *)

\* Marked otherwise.
LEMMA Unmarked ==
  ASSUME NEW h \in Procs, NEW p \in Proxies, Mark("status", h, p, Switching),
         <<"status", p>> \notin overlap'
  PROVE  Alone(h, p)
BY DEF Mark, Busy, Alone

\* Enable, Disable and DeleteSession.
LEMMA ArriveKept ==
  ASSUME TypeOK, NEW h \in Procs, NEW q \in Proxies,
         Enable(h, q) \/ Disable(h, q) \/ Delete(h, q),
         NEW p \in Proxies, Agreed(p), <<"status", p>> \notin overlap'
  PROVE  Agreed(p)'
<1>1. /\ pc[h] = "idle" /\ row' = row /\ open' = open /\ listeners' = listeners
      /\ Mark("status", h, q, Switching)
  BY DEF Enable, Disable, Delete, Arrives, tables, memory
<1>2. /\ Others(h) /\ job'[h].p = q
      /\ \/ pc'[h] \in {"start", "stop"}
         \/ pc'[h] = "dropsession" /\ ~row[q].proxy
  <2>1. Rest \in Job
    BY RestTyped
  <2>2. [Rest EXCEPT !.p = q].p = q /\ [Rest EXCEPT !.p = q, !.del = TRUE].p = q
    BY <2>1 DEF Job
  <2> QED BY <2>2, Placed DEF Enable, Disable, Delete, Live
<1>3. {"idle"} \cap Switching = {}
  BY DEF Switching, Starting, Stopping
<1>4. CASE p = q
  <2>1. Alone(h, p)
    BY <1>1, <1>4, Unmarked
  <2>2. row[p].proxy => (row[p].status = "running" <=> listeners[p] # 0)
    BY <1>1, <1>3, <2>1, AtRest DEF Deciding
  <2>3. \A o \in open : o.proxy = p => row[p].proxy
    BY DEF Agreed
  <2> QED BY <1>1, <1>2, <1>4, <2>1, <2>2, <2>3, Worker DEF Ending, Serving, Deciding
<1>5. CASE p # q
  <2>1. Untouched(p)
    BY <1>1 DEF Untouched
  <2> QED BY <1>1, <1>2, <1>3, <1>5, <2>1, Elsewhere
<1> QED BY <1>4, <1>5

\* createSessionAndDial that starts its proxy, or rejects its proxy_auth.
LEMMA DialKept ==
  ASSUME TypeOK, HandInv, NEW h \in Procs, CreateDialed(h) \/ CreateReject(h),
         NEW p \in Proxies, Agreed(p), <<"status", p>> \notin overlap'
  PROVE  Agreed(p)'
<1>1. /\ pc[h] \in {"seed", "dialed"} /\ open' = open /\ listeners' = listeners
      /\ row'[p].proxy = row[p].proxy /\ row'[p].status = row[p].status
      /\ Others(h)
      /\ \/ pc'[h] = "idle"
         \/ pc[h] = "seed" /\ pc'[h] = "droprow" /\ job'[h] = job[h]
         \/ /\ pc'[h] = "start" /\ job'[h] = job[h]
            /\ Mark("status", h, job[h].p, Switching)
  <2>1. CASE CreateDialed(h)
    <3>1. job[h].p \in Proxies
      BY <2>1, AtWork DEF CreateDialed, OnProxy
    <3> QED BY <2>1, <3>1, SaveSession, SavePlaced DEF CreateDialed, memory
  <2>2. CASE CreateReject(h)
    BY <2>2, Placed DEF CreateReject, Goto, tables, memory
  <2> QED BY <2>1, <2>2
<1>2. {"seed", "dialed", "idle"} \cap (Switching \cup InHand) = {} /\ Deciding \subseteq Switching
  BY DEF Deciding, Switching, Starting, Stopping, InHand
<1>3. CASE job[h].p # p \/ pc'[h] = "idle"
  <2>1. Untouched(p)
    BY <1>1 DEF Untouched
  <2> QED BY <1>1, <1>2, <1>3, <2>1, Elsewhere
<1>4. CASE job[h].p = p /\ pc'[h] = "start"
  <2>1. Alone(h, p)
    BY <1>1, <1>4, Unmarked
  <2>2. row[p].proxy => (row[p].status = "running" <=> listeners[p] # 0)
    BY <1>1, <1>2, <2>1, AtRest
  <2>3. \A o \in open : o.proxy = p => row[p].proxy
    BY DEF Agreed
  <2> QED BY <1>1, <1>4, <2>1, <2>2, <2>3, Worker DEF Ending, Serving, Deciding
<1>5. CASE job[h].p = p /\ pc'[h] = "droprow"
  <2>1. listeners[p] = 0 /\ Alone(h, p)
    BY <1>1, <1>5 DEF CreateDialed, CreateReject, Goto, Begin, Move, Busy, Alone, TypeOK, LocalsOK
  <2>2. \A g \in Procs : job[g].p = p => pc[g] \notin InHand
    BY <1>1, <1>2, <2>1 DEF Alone, InHand, Switching, Starting, Stopping
  <2>3. \A o \in open : o.proxy # p
    BY <2>1, <2>2, NotListening
  <2> QED BY <1>1, <1>5, <2>1, <2>3, Worker DEF Ending, Serving, Deciding
<1> QED BY <1>1, <1>3, <1>4, <1>5

\* The INSERT of a proxy, which nobody has started.
LEMMA ProxyKept ==
  ASSUME TypeOK, PortsSound, HandInv, StatusInv, NEW h \in Procs, CreateProxy(h),
         NEW p \in Proxies, Agreed(p)
  PROVE  Agreed(p)'
<1>1. /\ pc[h] = "addproxy" /\ job[h].p \in Proxies /\ open' = open /\ listeners' = listeners
      /\ Others(h) /\ pc'[h] \in {"idle", "seed"}
  BY AtWork, Placed, DonePlaced DEF CreateProxy, Goto, OnProxy, memory
<1>2. {"addproxy", "idle", "seed"} \cap Switching = {}
  BY DEF Switching, Starting, Stopping
<1>3. row[p] \in Row
  BY DEF TypeOK, TablesOK
<1>4. CASE row'[p].proxy = row[p].proxy /\ row'[p].status = row[p].status
  <2>1. Untouched(p)
    BY <1>1, <1>4 DEF Untouched
  <2> QED BY <1>1, <1>2, <2>1, Elsewhere
<1>5. CASE ~(row'[p].proxy = row[p].proxy /\ row'[p].status = row[p].status)
  <2>1. row' = [row EXCEPT ![job[h].p].session = FALSE]
          => row'[p].proxy = row[p].proxy /\ row'[p].status = row[p].status
    BY <1>3 DEF TypeOK, TablesOK, Row
  <2>2. row' = [row EXCEPT ![job[h].p] = [row[job[h].p] EXCEPT !.proxy = TRUE, !.port = job[h].port]]
    BY <1>5, <2>1 DEF CreateProxy
  <2>3. p = job[h].p /\ row'[p] = [row[p] EXCEPT !.proxy = TRUE, !.port = job[h].port]
    BY <1>1, <1>5, <2>2 DEF TypeOK, TablesOK
  <2>4. row'[p].proxy /\ row'[p].status = row[p].status
    BY <1>3, <2>3 DEF Row
  <2>5. row[p].port = 0
    BY <1>1, <2>3 DEF PortsSound
  <2>6. ~row[p].proxy /\ row[p].status = "stopped"
    BY <2>5 DEF PortsSound, Live, StatusInv
  <2>7. \A o \in open : o.proxy # p
    BY <2>6 DEF Agreed
  <2>8. listeners[p] = 0
    BY <2>7, NotInMap
  <2>9. \A g \in Procs : job'[g].p = p /\ pc'[g] \in Switching => job'[g] = job[g] /\ pc'[g] = pc[g]
    BY <1>1, <1>2 DEF Others
  <2>10. \A g \in Procs : job'[g].p = p => pc'[g] # "running"
    BY <2>6, <2>9 DEF Agreed, Serving, Switching, Starting
  <2>11. \A g, k \in Procs :
           job'[g].p = p /\ pc'[g] \in Switching /\ job'[k].p = p /\ pc'[k] \in Switching => g = k
    BY <2>9 DEF Agreed
  <2> QED BY <1>1, <2>4, <2>6, <2>7, <2>8, <2>10, <2>11 DEF Agreed
<1> QED BY <1>4, <1>5

-----------------------------------------------------------------------------
(* The invariant. *)

\* A row without port stays stopped.
LEMMA PortlessStopped ==
  ASSUME TypeOK, PortsSound, StatusInv, NEW h \in Procs, Step(h) \/ Request(h), NEW p \in Proxies,
         row'[p].port = 0
  PROVE  row'[p].status = "stopped"
<1>1. row[p] \in Row
  BY DEF TypeOK, TablesOK
<1>2. CASE Aside(h)
  BY <1>2, AsideRows DEF SameProxy, StatusInv
<1>3. CASE CreateProxy(h)
  <2>1. job[h].p \in Proxies /\ job[h].port # 0
    BY <1>3, AtWork DEF CreateProxy, PortsSound, OnProxy
  <2>2. \/ row'[p] = row[p]
        \/ row'[p] = [row[p] EXCEPT !.session = FALSE]
        \/ row'[p] = [row[p] EXCEPT !.proxy = TRUE, !.port = job[h].port]
    BY <1>3, <2>1 DEF CreateProxy, TypeOK, TablesOK
  <2> QED BY <1>1, <2>1, <2>2 DEF Row, StatusInv
<1>4. CASE Working(h)
  <2>1. \/ row' = row
        \/ \E s : SetStatus(job[h].p, s)
        \/ row' = [row EXCEPT ![job[h].p].proxy = FALSE]
        \/ row' = [row EXCEPT ![job[h].p].session = FALSE]
    BY <1>4 DEF Working, StartNothing, StartLoad, StartBind, StartCreds, StartRules, StartRegister,
           StartRunning, StopRemove, StopClose, StopStatus, DropCreds, DropRow, DropSession, tables
  <2>2. row'[p].port = row[p].port /\ (p \in Live \/ row'[p].status = row[p].status)
    <3>1. CASE \E s : SetStatus(job[h].p, s)
      <4>1. PICK s : row' = IF job[h].p \in Live THEN [row EXCEPT ![job[h].p].status = s] ELSE row
        BY <3>1 DEF SetStatus
      <4>2. CASE job[h].p = p /\ p \in Live
        <5>1. row' = [row EXCEPT ![p] = [row[p] EXCEPT !.status = s]]
          BY <4>1, <4>2
        <5>2. row'[p] = [row[p] EXCEPT !.status = s]
          BY <5>1 DEF TypeOK, TablesOK
        <5> QED BY <1>1, <4>2, <5>2 DEF Row
      <4>3. CASE ~(job[h].p = p /\ p \in Live)
        BY <4>1, <4>3 DEF TypeOK, TablesOK
      <4> QED BY <4>2, <4>3
    <3>2. CASE ~\E s : SetStatus(job[h].p, s)
      <4>1. row'[p] \in {row[p], [row[p] EXCEPT !.proxy = FALSE], [row[p] EXCEPT !.session = FALSE]}
        BY <2>1, <3>2 DEF TypeOK, TablesOK
      <4> QED BY <1>1, <4>1 DEF Row
    <3> QED BY <3>1, <3>2
  <2> QED BY <2>2 DEF PortsSound, StatusInv
<1>5. CASE \/ \E q \in Proxies : Enable(h, q) \/ Disable(h, q) \/ Delete(h, q)
           \/ CreateReject(h)
  BY <1>5 DEF Enable, Disable, Delete, CreateReject, tables, StatusInv
<1>6. CASE CreateDialed(h)
  <2>1. job[h].p \in Proxies
    BY <1>6, AtWork DEF CreateDialed, OnProxy
  <2> QED BY <1>6, <2>1, SaveSession DEF CreateDialed, StatusInv
<1> QED BY <1>2, <1>3, <1>4, <1>5, <1>6 DEF Step, Request, Aside, Working

\* What has overlapped is not forgotten before the next start of the program.
LEMMA Remembered ==
  ASSUME NEW h \in Procs, Step(h) \/ Request(h), NEW p \in Proxies, <<"status", p>> \in overlap
  PROVE  <<"status", p>> \in overlap'
BY DEF Step, Request, StartNothing, StartLoad, StartBind, StartCreds, StartRules,
       StartRegister, StartRunning, StopRemove, StopClose, StopStatus, DropCreds, DropRow,
       DropSession, CreateLock, CreateSession, CreatePort, CreateProxy, CreateSeed, CreateReject,
       CreateDial, CreateDialing, CreateDialed, ReloadCreds, SetCreds, GlobalQuery, GlobalStore,
       GlobalSnapshot, SessionTarget, Merge, SetRules, Enable, Disable, Delete, SessionWrite, CreateBegin, CredWrite,
       GlobalWrite, Mark

\* A new installation agrees.
LEMMA StatusInit == Init => StatusInv
<1> SUFFICES ASSUME Init PROVE StatusInv
  OBVIOUS
<1>1. \A p \in Proxies : ~row[p].proxy /\ row[p].status = "stopped"
  BY DEF Init
<1>2. \A h \in Procs : pc[h] = "idle"
  BY DEF Init
<1>3. "idle" \notin Switching \cup Serving
  BY DEF Switching, Starting, Stopping, Serving
<1> QED BY <1>1, <1>2, <1>3 DEF Init, StatusInv, Agreed

\* RestoreAll starts the proxies whose status is running, and no other.
LEMMA StatusRestart == TypeOK /\ StatusInv /\ Restart => StatusInv'
<1> SUFFICES ASSUME TypeOK, StatusInv, Restart PROVE StatusInv'
  OBVIOUS
<1>1. PICK number \in [Up -> 1..Cardinality(Up)] :
        /\ open' = {[id |-> number[p], proxy |-> p, port |-> row[p].port, creds |-> creds[p],
                     global |-> global, own |-> own[p]] : p \in Up}
        /\ listeners' = [p \in Proxies |-> IF p \in Up THEN number[p] ELSE 0]
  BY DEF Restart, Up
<1>2. row' = row /\ \A h \in Procs : pc'[h] = "idle"
  BY DEF Restart, tables
<1>3. \A o \in open' : o.proxy \in Up
  BY <1>1
<1>4. \A p \in Proxies : row[p].proxy => (row[p].status = "running" <=> listeners'[p] # 0)
  BY <1>1, UpFinite DEF Up, Live
<1>5. "idle" \notin Switching \cup Serving \cup Ending \cup {"running"}
  BY DEF Switching, Starting, Stopping, Serving, Ending
<1>6. \A p \in Proxies : Agreed(p)'
  <2> SUFFICES ASSUME NEW p \in Proxies PROVE Agreed(p)'
    OBVIOUS
  <2> QED BY <1>2, <1>3, <1>4, <1>5 DEF Agreed, Up, Live
<1> QED BY <1>2, <1>6 DEF StatusInv

\* Every step keeps it.
LEMMA StatusNext == IInv /\ StatusInv /\ [Next]_vars => StatusInv'
<1> SUFFICES ASSUME IInv, StatusInv, [Next]_vars PROVE StatusInv'
  OBVIOUS
<1>1. TypeOK /\ PortsSound /\ HandInv
  BY DEF IInv, OwnInv, HandInv
<1>2. ASSUME NEW h \in Procs, Step(h) \/ Request(h) PROVE StatusInv'
  <2>1. ASSUME NEW p \in Proxies, <<"status", p>> \notin overlap' PROVE Agreed(p)'
    <3>1. Agreed(p)
      BY <1>2, <2>1, Remembered DEF StatusInv
    <3>2. CASE Aside(h)
      BY <1>1, <3>1, <3>2, AsideKept
    <3>3. CASE Working(h)
      BY <1>1, <3>1, <3>3, WorkKept
    <3>4. CASE CreateProxy(h)
      BY <1>1, <3>1, <3>4, ProxyKept
    <3>5. CASE CreateDialed(h) \/ CreateReject(h)
      BY <1>1, <2>1, <3>1, <3>5, DialKept
    <3>6. CASE \E q \in Proxies : Enable(h, q) \/ Disable(h, q) \/ Delete(h, q)
      BY <1>1, <2>1, <3>1, <3>6, ArriveKept
    <3> QED BY <1>2, <3>2, <3>3, <3>4, <3>5, <3>6 DEF Step, Request, Aside, Working
  <2>2. \A p \in Proxies : row'[p].port = 0 => row'[p].status = "stopped"
    BY <1>1, <1>2, PortlessStopped
  <2> QED BY <2>1, <2>2 DEF StatusInv
<1>3. CASE Restart
  BY <1>1, <1>3, StatusRestart
<1>4. ASSUME NEW q \in Proxies, RowLoad(q) \/ RowSave(q) PROVE StatusInv'
  BY <1>1, <1>4, RowMoves DEF memory, StatusInv, Agreed
<1>5. CASE UNCHANGED vars
  BY <1>5 DEF vars, tables, memory, StatusInv, Agreed
<1> QED BY <1>2, <1>3, <1>4, <1>5 DEF Next

\* manager.go: AllocPort never gives away a port that is still bound, because what is
\* bound has the port of a row, as long as no enable has overlapped a deletion.
THEOREM PortsReturned == Spec => []PortsReturn
<1>1. IInv /\ StatusInv => PortsReturn
  BY DEF IInv, OwnInv, PortsSound, StatusInv, Agreed, PortsReturn, TypeOK, MemoryOK, Listener, Live
<1> QED BY <1>1, Invariant, StatusInit, StatusNext, PTL DEF Spec

\* manager.go Start and Stop: a proxy that nobody starts or stops listens if and only if
\* its row says running, after any history of requests and restarts in
\* which its switches have not overlapped since the last start of the program.
THEOREM StatusTrue == Spec => []StatusTruthful
<1>1. IInv /\ StatusInv => StatusTruthful
  <2>1. Deciding \subseteq Switching
    BY DEF Deciding, Switching, Starting, Stopping
  <2> QED BY <2>1 DEF StatusInv, Agreed, StatusTruthful, Calm, Live
<1> QED BY <1>1, Invariant, StatusInit, StatusNext, PTL DEF Spec

=============================================================================
