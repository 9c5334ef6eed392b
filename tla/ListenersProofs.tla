--------------------------- MODULE ListenersProofs ---------------------------
(* Proofs about Listeners, for any proxies, pools and goroutines.            *)
EXTENDS Listeners, FiniteSetTheorems, TLAPS

-----------------------------------------------------------------------------
(* The inductive invariant. *)

\* allocMu belongs to the one goroutine that is allocating.
MutexHeld == \A h \in Procs : pc[h] \in InAlloc <=> allocMu = h

\* A proxy's port never changes: a Start that has read it and a listener that is
\* bound to it agree with the row, and a row that waits for one has none.
PortsSound ==
  /\ \A p \in Live : row[p].port # 0
  /\ \A p \in Proxies : ~row[p].born => row[p].port = 0
  /\ \A h \in Procs :
       /\ pc[h] = "bind" => job[h].port # 0 /\ job[h].port = row[job[h].p].port
       /\ pc[h] \in {"allocport", "addproxy"} => row[job[h].p].born /\ row[job[h].p].port = 0
       /\ pc[h] = "addproxy" => job[h].port # 0
  /\ \A o \in open : o.port = row[o.proxy].port

\* Ids name one listener each.
IdsSound == /\ \A o \in open : o.id <= lastId
            /\ \A a, b \in open : a.id = b.id => a = b

\* A goroutine has a listener in its hands while it starts or stops it: that is
\* not in the map, and in nobody else's hands.
InHand == {"creds", "rules", "register", "close"}
HandsSound ==
  \A h \in Procs : pc[h] \in InHand =>
    /\ \E o \in open : o.id = job[h].l /\ o.proxy = job[h].p
    /\ listeners[job[h].p] # job[h].l
    /\ \A g \in Procs : pc[g] \in InHand /\ job[g].l = job[h].l => g = h

AllocInv == MutexHeld /\ AllocExact
OwnInv   == PortsSound /\ IdsSound /\ HandsSound /\ Owned
IInv     == TypeOK /\ AllocInv /\ OwnInv

-----------------------------------------------------------------------------
(* Types. *)

\* The job of an idle goroutine is well-typed.
LEMMA RestTyped == Rest \in Job
<1>1. (CHOOSE u \in Units : TRUE) \in Units
  BY PoolsAssumption
<1> QED BY <1>1 DEF Rest, Job

\* A goroutine that goes on with a well-typed job.
LEMMA Moved ==
  ASSUME LocalsOK, NEW h \in Procs, NEW l \in Labels, NEW j \in Job,
         l \in OnProxy => j.p \in Proxies, Begin(h, l, j)
  PROVE  LocalsOK'
BY DEF LocalsOK, Begin, Move, saves

\* The same while a session's row is saved.
LEMMA SaveMoved ==
  ASSUME LocalsOK, NEW h \in Procs, NEW l \in Labels, NEW j \in Job,
         l \in OnProxy => j.p \in Proxies, Move(h, l, j),
         held' \subseteq Proxies, back' \subseteq Proxies
  PROVE  LocalsOK'
BY DEF LocalsOK, Move

\* A Save keeps the types.
LEMMA SaveTyped ==
  ASSUME TypeOK, NEW p \in Proxies, Save(p)
  PROVE  row' \in [Proxies -> Row] /\ back' \subseteq Proxies
<1>1. row' \in [Proxies -> Row]
  <2>1. [row[p] EXCEPT !.session = TRUE] \in Row
    <3>1. row[p] \in Row
      BY DEF TypeOK, TablesOK
    <3> QED BY <3>1 DEF Row
  <2> QED BY <2>1 DEF TypeOK, TablesOK, Save
<1>2. back' \subseteq Proxies
  BY DEF TypeOK, LocalsOK, Save
<1> QED BY <1>1, <1>2

\* So is a goroutine that has returned.
LEMMA Finished == ASSUME LocalsOK, NEW h \in Procs, Done(h) PROVE LocalsOK' /\ UNCHANGED requests
<1>1. "idle" \in Labels \ OnProxy
  BY DEF Labels, OnProxy, Starting, Stopping
<1> QED BY <1>1, RestTyped, Moved DEF Done, Goto

\* Mark records a kind of overlap and a proxy.
LEMMA MarkTyped ==
  ASSUME TypeOK, NEW what \in {"status", "creds", "rules", "cache"}, NEW p \in Proxies,
         NEW h, NEW labels, Mark(what, h, p, labels)
  PROVE  overlap' \subseteq {"status", "creds", "rules", "cache"} \X Proxies
BY DEF TypeOK, Mark

\* What goroutine h has in hand.
LEMMA AtWork ==
  ASSUME TypeOK, NEW h \in Procs
  PROVE  /\ job[h] \in Job /\ pc[h] \in Labels
         /\ pc[h] \in OnProxy => job[h].p \in Proxies
BY DEF TypeOK, LocalsOK

\* The same sockets, with something else installed.
SameSockets ==
  /\ open' \subseteq Listener
  /\ \A o \in open : \E n \in open' : n.id = o.id /\ n.proxy = o.proxy /\ n.port = o.port
  /\ \A n \in open' : \E o \in open : n.id = o.id /\ n.proxy = o.proxy /\ n.port = o.port
  /\ (\A a, b \in open : a.id = b.id => a = b) => \A a, b \in open' : a.id = b.id => a = b
  /\ (\A a, b \in open : a.proxy = b.proxy => a = b)
       => \A a, b \in open' : a.proxy = b.proxy => a = b

\* Replacing each listener by one with its id, proxy and port.
LEMMA Mapped ==
  ASSUME NEW G, open' = {G[o] : o \in open},
         \A o \in open : /\ G[o] \in Listener /\ G[o].id = o.id
                         /\ G[o].proxy = o.proxy /\ G[o].port = o.port
  PROVE  SameSockets
BY DEF SameSockets

\* Installing creds or rules changes nothing else of a listener.
LEMMA Given ==
  ASSUME open \subseteq Listener, NEW l, NEW c \in Nat, NEW w \in Nat,
         GiveCreds(l, c) \/ GiveRules(l, c, w)
  PROVE  SameSockets
<1>1. CASE GiveCreds(l, c)
  <2> DEFINE G == [o \in open |-> IF o.id = l THEN [o EXCEPT !.creds = c] ELSE o]
  <2>1. open' = {G[o] : o \in open}
    BY <1>1 DEF GiveCreds
  <2>2. \A o \in open : /\ G[o] \in Listener /\ G[o].id = o.id
                        /\ G[o].proxy = o.proxy /\ G[o].port = o.port
    BY DEF Listener
  <2> HIDE DEF G
  <2> QED BY <2>1, <2>2, Mapped
<1>2. CASE GiveRules(l, c, w)
  <2> DEFINE G == [o \in open |-> IF o.id = l THEN [o EXCEPT !.global = c, !.own = w] ELSE o]
  <2>1. open' = {G[o] : o \in open}
    BY <1>2 DEF GiveRules
  <2>2. \A o \in open : /\ G[o] \in Listener /\ G[o].id = o.id
                        /\ G[o].proxy = o.proxy /\ G[o].port = o.port
    BY DEF Listener
  <2> HIDE DEF G
  <2> QED BY <2>1, <2>2, Mapped
<1> QED BY <1>1, <1>2

\* The steps of Start keep the types; a socket gets a port of the pool.
LEMMA StartTyped ==
  ASSUME TypeOK, PortsSound, NEW h \in Procs,
         \/ StartNothing(h) \/ StartLoad(h) \/ StartBind(h) \/ StartCreds(h) \/ StartRules(h)
         \/ StartRegister(h) \/ StartRunning(h)
  PROVE  TypeOK'
<1> USE AtWork DEF TypeOK
<1>1. {"start", "bind", "creds", "rules", "register", "running"} \subseteq Labels \cap OnProxy
  BY DEF Labels, OnProxy, Starting
<1>2. CASE StartNothing(h)
  BY <1>2, Finished DEF StartNothing, tables, memory, TablesOK, MemoryOK
<1>3. CASE StartLoad(h)
  <2> DEFINE j == [job[h] EXCEPT !.port = row[job[h].p].port]
  <2>1. job[h].p \in Proxies
    BY <1>1, <1>3 DEF StartLoad
  <2>2. j \in Job /\ j.p = job[h].p
    BY <2>1 DEF Job, TablesOK, Row
  <2>3. LocalsOK'
    BY <1>1, <1>3, <2>1, <2>2, Moved DEF StartLoad, Goto
  <2> QED BY <1>3, <2>3 DEF StartLoad, Goto, tables, memory, TablesOK, MemoryOK
<1>4. CASE StartBind(h)
  <2> DEFINE j == [job[h] EXCEPT !.l = lastId + 1]
             new == [id |-> lastId + 1, proxy |-> job[h].p, port |-> job[h].port,
                     creds |-> 0, global |-> 0, own |-> 0]
  <2>1. CASE \E o \in open : o.port = job[h].port
    BY <1>4, <2>1, Finished DEF StartBind, tables, TablesOK, MemoryOK
  <2>2. CASE ~\E o \in open : o.port = job[h].port
    <3>1. job[h].p \in Proxies
      BY <1>1, <1>4 DEF StartBind
    <3>2. j \in Job /\ j.p = job[h].p
      BY DEF Job, MemoryOK
    <3>3. LocalsOK'
      BY <1>1, <1>4, <2>2, <3>1, <3>2, Moved DEF StartBind, Goto
    <3>4. new \in Listener
      <4>1. job[h].port \in Ports
        BY <1>4 DEF StartBind, PortsSound, Job
      <4> QED BY <3>1, <4>1 DEF Listener, MemoryOK
    <3> QED BY <1>4, <2>2, <3>3, <3>4 DEF StartBind, Goto, tables, TablesOK, MemoryOK
  <2> QED BY <2>1, <2>2
<1>5. CASE StartCreds(h)
  <2>1. job[h].p \in Proxies /\ creds[job[h].p] \in Nat
    BY <1>1, <1>5 DEF StartCreds, TablesOK
  <2>2. open' \subseteq Listener
    BY <1>5, <2>1, Given DEF StartCreds, MemoryOK, SameSockets
  <2>3. LocalsOK'
    BY <1>1, <1>5, <2>1, Moved DEF StartCreds, Goto
  <2> QED BY <1>5, <2>2, <2>3 DEF StartCreds, Goto, tables, TablesOK, MemoryOK
<1>6. CASE StartRules(h)
  <2>1. job[h].p \in Proxies /\ own[job[h].p] \in Nat /\ cache \in Nat
    BY <1>1, <1>6 DEF StartRules, TablesOK, MemoryOK
  <2>2. open' \subseteq Listener
    BY <1>6, <2>1, Given DEF StartRules, MemoryOK, SameSockets
  <2>3. LocalsOK'
    BY <1>1, <1>6, <2>1, Moved DEF StartRules, Goto
  <2> QED BY <1>6, <2>2, <2>3 DEF StartRules, Goto, tables, TablesOK, MemoryOK
<1>7. CASE StartRegister(h)
  <2>1. LocalsOK'
    BY <1>1, <1>7, Moved DEF StartRegister, Goto
  <2>2. listeners' \in [Proxies -> Nat]
    BY <1>7 DEF StartRegister, MemoryOK, Job
  <2> QED BY <1>7, <2>1, <2>2 DEF StartRegister, Goto, tables, TablesOK, MemoryOK
<1>8. CASE StartRunning(h)
  <2>1. row' \in [Proxies -> Row]
    BY <1>8 DEF StartRunning, SetStatus, TablesOK, Row, Live
  <2> QED BY <1>8, <2>1, Finished DEF StartRunning, memory, TablesOK, MemoryOK
<1> QED BY <1>2, <1>3, <1>4, <1>5, <1>6, <1>7, <1>8

\* The steps of Stop and of the deletions keep the types.
LEMMA StopTyped ==
  ASSUME TypeOK, NEW h \in Procs,
         \/ StopRemove(h) \/ StopClose(h) \/ StopStatus(h) \/ DropCreds(h) \/ DropRow(h)
         \/ DropSession(h)
  PROVE  TypeOK'
<1> USE AtWork DEF TypeOK
<1>1. {"stop", "close", "stopped", "dropcreds", "droprow", "dropsession"}
        \subseteq Labels \cap OnProxy
  BY DEF Labels, OnProxy, Stopping
<1>2. CASE StopRemove(h)
  <2> DEFINE j == [job[h] EXCEPT !.l = listeners[job[h].p]]
  <2>1. job[h].p \in Proxies
    BY <1>1, <1>2 DEF StopRemove
  <2>2. j \in Job /\ j.p = job[h].p
    BY <2>1 DEF Job, MemoryOK
  <2>3. LocalsOK'
    BY <1>1, <1>2, <2>1, <2>2, Moved DEF StopRemove, Goto
  <2>4. listeners' \in [Proxies -> Nat]
    BY <1>2 DEF StopRemove, MemoryOK
  <2> QED BY <1>2, <2>3, <2>4 DEF StopRemove, Goto, tables, TablesOK, MemoryOK
<1>3. CASE StopClose(h)
  <2> DEFINE j == [job[h] EXCEPT !.l = 0]
  <2>1. job[h].p \in Proxies
    BY <1>1, <1>3 DEF StopClose
  <2>2. j \in Job /\ j.p = job[h].p
    BY <2>1 DEF Job
  <2>3. LocalsOK'
    BY <1>1, <1>3, <2>1, <2>2, Moved DEF StopClose, Goto
  <2> QED BY <1>3, <2>3 DEF StopClose, Goto, tables, TablesOK, MemoryOK
<1>4. CASE StopStatus(h)
  <2>1. row' \in [Proxies -> Row]
    BY <1>4 DEF StopStatus, SetStatus, TablesOK, Row, Live
  <2>2. LocalsOK' /\ UNCHANGED requests
    BY <1>1, <1>4, Moved, Finished DEF StopStatus, Goto
  <2> QED BY <1>4, <2>1, <2>2 DEF StopStatus, memory, TablesOK, MemoryOK
<1>5. CASE DropCreds(h)
  <2>1. creds' \in [Proxies -> Nat]
    <3>1. job[h].p \in Proxies /\ creds[job[h].p] + 1 \in Nat
      BY <1>1, <1>5 DEF DropCreds, TablesOK
    <3> QED BY <1>5, <3>1 DEF DropCreds, TablesOK
  <2>2. LocalsOK' /\ UNCHANGED requests
    BY <1>1, <1>5, Moved DEF DropCreds, Goto
  <2> QED BY <1>5, <2>1, <2>2 DEF DropCreds, memory, TablesOK, MemoryOK
<1>6. CASE DropRow(h)
  <2>1. row' \in [Proxies -> Row]
    BY <1>6 DEF DropRow, TablesOK, Row
  <2>2. LocalsOK' /\ UNCHANGED requests
    BY <1>1, <1>6, Moved DEF DropRow, Goto
  <2> QED BY <1>6, <2>1, <2>2 DEF DropRow, memory, TablesOK, MemoryOK
<1>7. CASE DropSession(h)
  <2>1. row' \in [Proxies -> Row]
    BY <1>7 DEF DropSession, TablesOK, Row
  <2>2. LocalsOK' /\ UNCHANGED requests
    BY <1>1, <1>7, Finished DEF DropSession
  <2> QED BY <1>7, <2>1, <2>2 DEF DropSession, memory, TablesOK, MemoryOK
<1> QED BY <1>2, <1>3, <1>4, <1>5, <1>6, <1>7

\* The steps of createSessionAndDial keep the types.
LEMMA CreateTyped ==
  ASSUME TypeOK, NEW h \in Procs,
         \/ CreateLock(h) \/ CreateSession(h) \/ CreatePort(h) \/ CreateProxy(h)
         \/ CreateSeed(h) \/ CreateReject(h)
         \/ CreateDial(h) \/ CreateDialing(h) \/ CreateDialed(h)
  PROVE  TypeOK'
<1> USE AtWork DEF TypeOK
<1>1. {"allocport", "addproxy", "seed", "dial", "dialing", "dialed", "droprow", "start"}
        \subseteq Labels \cap OnProxy
  BY DEF Labels, OnProxy, Creating, Starting, Stopping
<1>2. "addsession" \in Labels \ OnProxy
  BY DEF Labels, OnProxy, Creating, Starting, Stopping
<1>3. CASE CreateLock(h)
  <2>1. CASE Done(h) /\ UNCHANGED allocMu
    BY <1>3, <2>1, Finished DEF CreateLock, tables, memory, TablesOK, MemoryOK
  <2>2. CASE allocMu' = h /\ \E u \in Units \ UsedUnits :
               Goto(h, "addsession", [job[h] EXCEPT !.unit = u])
    <3>1. PICK u \in Units : Goto(h, "addsession", [job[h] EXCEPT !.unit = u])
      BY <2>2
    <3>2. [job[h] EXCEPT !.unit = u] \in Job
      BY DEF Job
    <3>3. LocalsOK'
      BY <1>2, <3>1, <3>2, Moved DEF Goto
    <3> QED BY <1>3, <2>2, <3>1, <3>3 DEF CreateLock, Goto, tables, memory, TablesOK, MemoryOK
  <2> QED BY <1>3, <2>1, <2>2 DEF CreateLock
<1>4. CASE CreateSession(h)
  <2>1. CASE Done(h) /\ Unlock /\ UNCHANGED row
    BY <1>4, <2>1, Finished DEF CreateSession, Unlock, memory, TablesOK, MemoryOK
  <2>2. CASE job[h].unit \notin UsedUnits
    <3>1. PICK p \in Proxies :
            /\ row' = [row EXCEPT ![p] = [@ EXCEPT !.born = TRUE, !.session = TRUE,
                                                   !.unit = job[h].unit, !.mac = job[h].mac]]
            /\ Goto(h, "allocport", [job[h] EXCEPT !.p = p]) /\ UNCHANGED allocMu
      BY <1>4, <2>2 DEF CreateSession
    <3>2. [job[h] EXCEPT !.p = p] \in Job /\ [job[h] EXCEPT !.p = p].p = p
      BY DEF Job
    <3>3. LocalsOK'
      BY <1>1, <3>1, <3>2, Moved DEF Goto
    <3>4. row' \in [Proxies -> Row]
      <4>1. [row[p] EXCEPT !.born = TRUE, !.session = TRUE, !.unit = job[h].unit,
                           !.mac = job[h].mac] \in Row
        <5>1. row[p] \in Row /\ job[h].unit \in Units /\ job[h].mac \in Macs \cup {RandomMac}
          BY DEF TablesOK, Job
        <5> QED BY <5>1 DEF Row
      <4> QED BY <3>1, <4>1 DEF TablesOK
    <3> QED BY <1>4, <3>1, <3>3, <3>4 DEF CreateSession, Goto, memory, TablesOK, MemoryOK
  <2> QED BY <1>4, <2>1, <2>2 DEF CreateSession
<1>5. CASE CreatePort(h)
  <2>1. job[h].p \in Proxies
    BY <1>1, <1>5 DEF CreatePort
  <2>2. CASE UNCHANGED <<row, allocMu>> /\ \E n \in Ports \ UsedPorts :
               Goto(h, "addproxy", [job[h] EXCEPT !.port = n])
    <3>1. PICK n \in Ports : Goto(h, "addproxy", [job[h] EXCEPT !.port = n])
      BY <2>2
    <3>2. [job[h] EXCEPT !.port = n] \in Job /\ [job[h] EXCEPT !.port = n].p = job[h].p
      BY DEF Job
    <3>3. LocalsOK'
      BY <1>1, <2>1, <3>1, <3>2, Moved DEF Goto
    <3> QED BY <1>5, <2>2, <3>1, <3>3 DEF CreatePort, Goto, memory, TablesOK, MemoryOK
  <2>3. CASE /\ row' = [row EXCEPT ![job[h].p].session = FALSE]
             /\ Done(h) /\ Unlock
    <3>1. row' \in [Proxies -> Row]
      BY <2>3 DEF TablesOK, Row
    <3> QED BY <1>5, <2>3, <3>1, Finished DEF CreatePort, Unlock, memory, TablesOK, MemoryOK
  <2> QED BY <1>5, <2>2, <2>3 DEF CreatePort
<1>6. CASE CreateProxy(h)
  <2>1. row' \in [Proxies -> Row]
    <3>1. CASE row' = [row EXCEPT ![job[h].p].session = FALSE]
      BY <3>1 DEF TablesOK, Row
    <3>2. CASE row' = [row EXCEPT ![job[h].p] = [@ EXCEPT !.proxy = TRUE, !.port = job[h].port]]
      <4>1. job[h].p \in Proxies
        BY <1>1, <1>6 DEF CreateProxy
      <4>2. [row[job[h].p] EXCEPT !.proxy = TRUE, !.port = job[h].port] \in Row
        <5>1. row[job[h].p] \in Row /\ job[h].port \in Ports \cup {0}
          BY <4>1 DEF TablesOK, Job
        <5> QED BY <5>1 DEF Row
      <4> QED BY <3>2, <4>2 DEF TablesOK
    <3> QED BY <1>6, <3>1, <3>2 DEF CreateProxy
  <2>2. LocalsOK' /\ UNCHANGED requests
    BY <1>1, <1>6, Moved, Finished DEF CreateProxy, Goto
  <2> QED BY <1>6, <2>1, <2>2 DEF CreateProxy, Unlock, memory, TablesOK, MemoryOK
<1>7. CASE CreateSeed(h)
  <2>1. creds' \in [Proxies -> Nat] /\ job[h].p \in Proxies
    BY <1>1, <1>7 DEF CreateSeed, TablesOK
  <2>2. LocalsOK' /\ UNCHANGED requests
    BY <1>1, <1>7, Moved DEF CreateSeed, Goto
  <2> QED BY <1>7, <2>1, <2>2 DEF CreateSeed, memory, TablesOK, MemoryOK
<1>8. CASE CreateReject(h)
  <2>1. LocalsOK' /\ UNCHANGED requests /\ job[h].p \in Proxies
    BY <1>1, <1>8, Moved DEF CreateReject, Goto
  <2> QED BY <1>8, <2>1 DEF CreateReject, tables, memory, TablesOK, MemoryOK
<1>9. CASE CreateDial(h)
  <2>1. job[h].p \in Proxies
    BY <1>1, <1>9 DEF CreateDial
  <2>2. LocalsOK' /\ UNCHANGED requests
    BY <1>1, <1>9, <2>1, Moved, Finished DEF CreateDial, Goto
  <2> QED BY <1>9, <2>2 DEF CreateDial, tables, memory, TablesOK, MemoryOK
<1>10. CASE CreateDialing(h)
  <2>1. job[h].p \in Proxies
    BY <1>1, <1>10 DEF CreateDialing
  <2>2. row' \in [Proxies -> Row] /\ back' \subseteq Proxies /\ held' \subseteq Proxies
    BY <1>10, <2>1, SaveTyped DEF CreateDialing, LocalsOK
  <2>3. LocalsOK'
    BY <1>1, <1>10, <2>1, <2>2, SaveMoved DEF CreateDialing
  <2> QED BY <1>10, <2>2, <2>3 DEF CreateDialing, memory, TablesOK, MemoryOK
<1>11. CASE CreateDialed(h)
  <2>1. job[h].p \in Proxies
    BY <1>1, <1>11 DEF CreateDialed
  <2>2. row' \in [Proxies -> Row] /\ back' \subseteq Proxies /\ held' \subseteq Proxies
    BY <1>11, <2>1, SaveTyped DEF CreateDialed, LocalsOK
  <2>3. "idle" \in Labels \ OnProxy
    BY DEF Labels, OnProxy, Starting, Stopping
  <2>4. LocalsOK'
    BY <1>1, <1>11, <2>1, <2>2, <2>3, RestTyped, SaveMoved DEF CreateDialed
  <2>5. overlap' \subseteq {"status", "creds", "rules", "cache"} \X Proxies
    BY <1>11, <2>1, MarkTyped DEF CreateDialed
  <2> QED BY <1>11, <2>2, <2>4, <2>5 DEF CreateDialed, memory, TablesOK, MemoryOK
<1> QED BY <1>3, <1>4, <1>5, <1>6, <1>7, <1>8, <1>9, <1>10, <1>11

\* So do the Saves of other dials.
LEMMA RowTyped == ASSUME TypeOK, NEW p \in Proxies, RowLoad(p) \/ RowSave(p) PROVE TypeOK'
<1> USE DEF TypeOK
<1>1. CASE RowLoad(p)
  <2>1. requests' \in 0..MaxRequests
    BY <1>1, PoolsAssumption DEF RowLoad
  <2>2. LocalsOK'
    BY <1>1 DEF RowLoad, LocalsOK
  <2> QED BY <1>1, <2>1, <2>2 DEF RowLoad, tables, memory, TablesOK, MemoryOK
<1>2. CASE RowSave(p)
  <2>1. row' \in [Proxies -> Row] /\ back' \subseteq Proxies
    BY <1>2, SaveTyped DEF RowSave
  <2>2. LocalsOK'
    BY <1>2, <2>1 DEF RowSave, LocalsOK
  <2> QED BY <1>2, <2>1, <2>2 DEF RowSave, memory, TablesOK, MemoryOK
<1> QED BY <1>1, <1>2

\* The next target of a reload, or its end.
LEMMA BackTyped ==
  ASSUME LocalsOK, NEW h \in Procs, NEW l \in Labels \ OnProxy, NEW j \in Job, Back(h, l, j)
  PROVE  LocalsOK' /\ UNCHANGED requests
BY Moved, Finished DEF Back, Goto

\* The reloads keep the types.
LEMMA ReloadTyped ==
  ASSUME TypeOK, NEW h \in Procs,
         \/ ReloadCreds(h) \/ SetCreds(h)
         \/ GlobalQuery(h) \/ GlobalStore(h) \/ GlobalSnapshot(h) \/ SessionTarget(h)
         \/ Merge(h) \/ SetRules(h)
  PROVE  TypeOK'
<1> USE AtWork DEF TypeOK
<1>1. {"target", "setcreds", "setrules"} \subseteq Labels \cap OnProxy
  BY DEF Labels, OnProxy, Reloading
<1>2. {"reload", "query", "cache", "snapshot", "merge"} \subseteq Labels \ OnProxy
  BY DEF Labels, OnProxy, Reloading, Starting, Stopping
<1>3. /\ Rest \in Job
      /\ \A P \in SUBSET Proxies : [Rest EXCEPT !.todo = P] \in Job
      /\ \A S \in SUBSET Nat : [Rest EXCEPT !.ids = S] \in Job
  BY RestTyped DEF Job
<1>4. CASE ReloadCreds(h)
  <2>1. PICK p \in job[h].todo :
          /\ Mark("creds", h, p, HoldsCreds)
          /\ IF listeners[p] = 0
             THEN Back(h, "reload", [job[h] EXCEPT !.todo = @ \ {p}])
             ELSE Goto(h, "setcreds",
                       [job[h] EXCEPT !.p = p, !.l = listeners[p], !.copy = creds[p]])
    BY <1>4 DEF ReloadCreds
  <2>2. p \in Proxies /\ listeners[p] \in Nat /\ creds[p] \in Nat
    BY <2>1 DEF Job, TablesOK, MemoryOK
  <2>3. [job[h] EXCEPT !.todo = @ \ {p}] \in Job
    BY DEF Job
  <2>4. [job[h] EXCEPT !.p = p, !.l = listeners[p], !.copy = creds[p]] \in Job
    BY <2>2 DEF Job
  <2>5. [job[h] EXCEPT !.p = p, !.l = listeners[p], !.copy = creds[p]].p = p
    BY DEF Job
  <2>6. LocalsOK' /\ UNCHANGED requests
    <3>1. CASE listeners[p] = 0
      BY <1>2, <2>1, <2>3, <3>1, BackTyped
    <3>2. CASE listeners[p] # 0
      BY <1>1, <2>1, <2>2, <2>4, <2>5, <3>2, Moved DEF Goto
    <3> QED BY <3>1, <3>2
  <2>7. overlap' \subseteq {"status", "creds", "rules", "cache"} \X Proxies
    BY <2>1, <2>2, MarkTyped
  <2> QED BY <1>4, <2>6, <2>7 DEF ReloadCreds, tables, memory, TablesOK, MemoryOK
<1>5. CASE SetCreds(h)
  <2>1. [Rest EXCEPT !.todo = job[h].todo \ {job[h].p}] \in Job
    BY <1>3 DEF Job
  <2>2. LocalsOK' /\ UNCHANGED requests
    BY <1>2, <1>5, <2>1, BackTyped DEF SetCreds
  <2>3. open' \subseteq Listener
    BY <1>5, Given DEF SetCreds, MemoryOK, SameSockets, Job
  <2> QED BY <1>5, <2>2, <2>3 DEF SetCreds, tables, TablesOK, MemoryOK
<1>6. CASE GlobalQuery(h)
  <2>1. [job[h] EXCEPT !.copy = global] \in Job
    BY DEF Job, TablesOK
  <2>2. LocalsOK' /\ UNCHANGED requests
    BY <1>2, <1>6, <2>1, Moved DEF GlobalQuery, Goto
  <2> QED BY <1>6, <2>2 DEF GlobalQuery, tables, memory, TablesOK, MemoryOK
<1>7. CASE GlobalStore(h)
  <2>1. cache' \in Nat
    BY <1>7 DEF GlobalStore, Job
  <2>2. LocalsOK' /\ UNCHANGED requests
    BY <1>2, <1>3, <1>7, Moved DEF GlobalStore, Goto
  <2> QED BY <1>7, <2>1, <2>2 DEF GlobalStore, tables, TablesOK, MemoryOK
<1>8. CASE GlobalSnapshot(h)
  <2>1. Registered \subseteq Nat
    BY DEF Registered, MemoryOK
  <2>2. LocalsOK' /\ UNCHANGED requests
    BY <1>2, <1>3, <1>8, <2>1, BackTyped DEF GlobalSnapshot
  <2> QED BY <1>8, <2>2 DEF GlobalSnapshot, tables, memory, TablesOK, MemoryOK
<1>9. CASE SessionTarget(h)
  <2>1. job[h].p \in Proxies
    BY <1>1, <1>9 DEF SessionTarget
  <2>2. {listeners[job[h].p]} \ {0} \subseteq Nat
    BY <2>1 DEF MemoryOK
  <2>3. LocalsOK' /\ UNCHANGED requests
    BY <1>2, <1>3, <1>9, <2>2, BackTyped DEF SessionTarget
  <2>4. overlap' \subseteq {"status", "creds", "rules", "cache"} \X Proxies
    BY <1>9, <2>1, MarkTyped DEF SessionTarget
  <2> QED BY <1>9, <2>3, <2>4 DEF SessionTarget, tables, memory, TablesOK, MemoryOK
<1>10. CASE Merge(h)
  <2>1. PICK l \in job[h].ids :
          \/ /\ Back(h, "merge", [Rest EXCEPT !.ids = job[h].ids \ {l}])
             /\ UNCHANGED overlap
          \/ \E o \in open :
               /\ Mark("rules", h, o.proxy, HoldsRules)
               /\ Goto(h, "setrules", [job[h] EXCEPT !.p = o.proxy, !.l = l, !.copy = cache,
                                                     !.copyOwn = own[o.proxy]])
    BY <1>10 DEF Merge
  <2>2. l \in Nat /\ job[h].ids \ {l} \in SUBSET Nat
    BY DEF Job
  <2>3. CASE Back(h, "merge", [Rest EXCEPT !.ids = job[h].ids \ {l}]) /\ UNCHANGED overlap
    <3>1. LocalsOK' /\ UNCHANGED requests
      BY <1>2, <1>3, <2>2, <2>3, BackTyped
    <3> QED BY <1>10, <2>3, <3>1 DEF Merge, tables, memory, TablesOK, MemoryOK
  <2>4. ASSUME NEW o \in open, Mark("rules", h, o.proxy, HoldsRules),
               Goto(h, "setrules", [job[h] EXCEPT !.p = o.proxy, !.l = l, !.copy = cache,
                                                  !.copyOwn = own[o.proxy]])
        PROVE  TypeOK'
    <3> DEFINE j == [job[h] EXCEPT !.p = o.proxy, !.l = l, !.copy = cache,
                                   !.copyOwn = own[o.proxy]]
    <3>1. o.proxy \in Proxies /\ own[o.proxy] \in Nat /\ cache \in Nat
      BY DEF Listener, TablesOK, MemoryOK
    <3>2. j \in Job /\ j.p = o.proxy
      BY <2>2, <3>1 DEF Job
    <3>3. LocalsOK' /\ UNCHANGED requests
      BY <1>1, <2>4, <3>1, <3>2, Moved DEF Goto
    <3>4. overlap' \subseteq {"status", "creds", "rules", "cache"} \X Proxies
      BY <2>4, <3>1, MarkTyped
    <3> QED BY <1>10, <3>3, <3>4 DEF Merge, tables, memory, TablesOK, MemoryOK
  <2> QED BY <2>1, <2>3, <2>4
<1>11. CASE SetRules(h)
  <2>1. [Rest EXCEPT !.ids = job[h].ids \ {job[h].l}] \in Job
    BY <1>3 DEF Job
  <2>2. LocalsOK' /\ UNCHANGED requests
    BY <1>2, <1>11, <2>1, BackTyped DEF SetRules
  <2>3. open' \subseteq Listener
    BY <1>11, Given DEF SetRules, MemoryOK, SameSockets, Job
  <2> QED BY <1>11, <2>2, <2>3 DEF SetRules, tables, TablesOK, MemoryOK
<1> QED BY <1>4, <1>5, <1>6, <1>7, <1>8, <1>9, <1>10, <1>11

\* The arrival of a request keeps the types.
LEMMA RequestTyped == ASSUME TypeOK, NEW h \in Procs, Request(h) PROVE TypeOK'
<1> USE DEF TypeOK
<1>1. {"start", "stop", "dropsession", "target"} \subseteq Labels \cap OnProxy
  BY DEF Labels, OnProxy, Starting, Stopping, Reloading
<1>2. {"lock", "reload", "query"} \subseteq Labels \ OnProxy
  BY DEF Labels, OnProxy, Creating, Reloading, Starting, Stopping
<1>3. Arrives(h) => requests' \in 0..MaxRequests
  BY PoolsAssumption DEF Arrives
<1>4. ASSUME NEW p \in Proxies, Enable(h, p) \/ Disable(h, p) \/ Delete(h, p) \/ SessionWrite(h, p)
      PROVE  TypeOK'
  <2>1. \A d \in BOOLEAN : LET j == [Rest EXCEPT !.p = p, !.del = d] IN j \in Job /\ j.p = p
    BY RestTyped DEF Job
  <2>2. LET j == [Rest EXCEPT !.p = p] IN j \in Job /\ j.p = p
    BY RestTyped DEF Job
  <2>3. LocalsOK'
    BY <1>1, <1>4, <2>1, <2>2, Moved DEF Enable, Disable, Delete, SessionWrite
  <2>4. overlap' \subseteq {"status", "creds", "rules", "cache"} \X Proxies
    BY <1>4, MarkTyped DEF Enable, Disable, Delete, SessionWrite
  <2>5. TablesOK'
    <3>1. own[p] + 1 \in Nat
      BY DEF TablesOK
    <3> QED BY <1>4, <3>1 DEF Enable, Disable, Delete, SessionWrite, tables, TablesOK
  <2> QED BY <1>3, <1>4, <2>3, <2>4, <2>5
          DEF Enable, Disable, Delete, SessionWrite, memory, MemoryOK
<1>5. ASSUME NEW m \in Macs \cup {RandomMac}, CreateBegin(h, m) PROVE TypeOK'
  <2>1. [Rest EXCEPT !.mac = m] \in Job
    BY RestTyped DEF Job
  <2>2. LocalsOK'
    BY <1>2, <1>5, <2>1, Moved DEF CreateBegin
  <2> QED BY <1>3, <1>5, <2>2 DEF CreateBegin, tables, memory, TablesOK, MemoryOK
<1>6. ASSUME NEW P \in SUBSET Proxies, CredWrite(h, P) PROVE TypeOK'
  <2>1. [Rest EXCEPT !.todo = P] \in Job
    BY RestTyped DEF Job
  <2>2. LocalsOK'
    BY <1>2, <1>6, <2>1, Moved DEF CredWrite
  <2>3. creds' \in [Proxies -> Nat]
    BY <1>6 DEF CredWrite, TablesOK
  <2> QED BY <1>3, <1>6, <2>2, <2>3 DEF CredWrite, memory, TablesOK, MemoryOK
<1>7. CASE GlobalWrite(h)
  <2>1. LocalsOK'
    BY <1>2, <1>7, RestTyped, Moved DEF GlobalWrite
  <2> QED BY <1>3, <1>7, <2>1 DEF GlobalWrite, memory, TablesOK, MemoryOK
<1> QED BY <1>4, <1>5, <1>6, <1>7 DEF Request

\* The sessions that were running.
Up == {p \in Live : row[p].status = "running"}

\* RestoreAll starts finitely many proxies.
LEMMA UpFinite == Cardinality(Up) \in Nat
<1>1. Up \subseteq Proxies
  BY DEF Up, Live
<1> QED BY <1>1, PoolsAssumption, FS_Subset, FS_CardinalityType

\* RestoreAll starts from well-typed tables.
LEMMA RestartTyped == ASSUME TypeOK, PortsSound, Restart PROVE TypeOK'
<1> USE DEF TypeOK
<1>1. PICK number \in [Up -> 1..Cardinality(Up)] :
        /\ cache' = global /\ lastId' = Cardinality(Up)
        /\ open' = {[id |-> number[p], proxy |-> p, port |-> row[p].port, creds |-> creds[p],
                     global |-> global, own |-> own[p]] : p \in Up}
        /\ listeners' = [p \in Proxies |-> IF p \in Up THEN number[p] ELSE 0]
  BY DEF Restart, Up
<1>2. \A p \in Up : p \in Proxies /\ number[p] \in Nat \ {0} /\ row[p].port \in Ports
  BY UpFinite DEF Up, Live, PortsSound, TablesOK, Row
<1>3. open' \subseteq Listener
  BY <1>1, <1>2 DEF Listener, TablesOK
<1>4. listeners' \in [Proxies -> Nat]
  BY <1>1, <1>2
<1>5. "idle" \in Labels \ OnProxy
  BY DEF Labels, OnProxy, Starting, Stopping
<1>6. LocalsOK'
  BY <1>5, RestTyped DEF Restart, LocalsOK
<1> QED BY <1>1, <1>3, <1>4, <1>6, UpFinite DEF Restart, tables, TablesOK, MemoryOK

-----------------------------------------------------------------------------
(* What a step of goroutine h leaves alone. *)

Others(h) == \A g \in Procs \ {h} : pc'[g] = pc[g] /\ job'[g] = job[g]

\* No row is added, but for sessions that a Save puts back, and of those it is noted
\* which have a unit that somebody has chosen.
NoNewRows ==
  /\ back \subseteq back'
  /\ \A p \in Proxies :
       /\ row'[p].session => \/ row[p].session
                             \/ \A g \in Procs : pc[g] = "addsession" /\ job[g].unit = row[p].unit
                                                => p \in back'
       /\ row'[p].proxy => row[p].proxy
       /\ row'[p].born = row[p].born
       /\ row'[p].unit = row[p].unit /\ row'[p].port = row[p].port

\* A step that neither allocates nor touches a listener.
Special  == InAlloc \cup InHand \cup {"bind"}
Quiet(h) == /\ Others(h) /\ NoNewRows /\ SameSockets
            /\ UNCHANGED <<lastId, listeners, allocMu>>
            /\ pc[h] \notin InAlloc \cup InHand /\ pc'[h] \notin Special

\* Moving h moves nobody else.
LEMMA Placed ==
  ASSUME TypeOK, NEW h \in Procs, NEW l, NEW j, Begin(h, l, j)
  PROVE  Others(h) /\ pc'[h] = l /\ job'[h] = j /\ UNCHANGED back
BY DEF TypeOK, LocalsOK, Begin, Move, saves, Others

\* And while a row is saved.
LEMMA SavePlaced ==
  ASSUME TypeOK, NEW h \in Procs, NEW l, NEW j, Move(h, l, j)
  PROVE  Others(h) /\ pc'[h] = l /\ job'[h] = j
BY DEF TypeOK, LocalsOK, Move, Others

\* The same for a goroutine that returns.
LEMMA DonePlaced ==
  ASSUME TypeOK, NEW h \in Procs, Done(h)
  PROVE  Others(h) /\ pc'[h] = "idle" /\ job'[h] = Rest /\ UNCHANGED back
BY Placed DEF Done, Goto

\* The same for one that goes on to the next target.
LEMMA BackPlaced ==
  ASSUME TypeOK, NEW h \in Procs, NEW l, NEW j, Back(h, l, j)
  PROVE  Others(h) /\ pc'[h] \in {l, "idle"} /\ UNCHANGED back
BY Placed, DonePlaced DEF Back, Goto

\* Only the two Saves of a creation's dial touch what is noted of Saves.
LEMMA NotSaving ==
  ASSUME NEW h, NEW l, NEW j, Begin(h, l, j) \/ Goto(h, l, j) \/ Back(h, l, j) \/ Done(h)
  PROVE  UNCHANGED back
BY DEF Begin, Goto, Back, Done, saves

\* What leaves rows or sockets alone adds none.
LEMMA NothingMoves ==
  ASSUME TypeOK
  PROVE  /\ row' = row /\ back' = back => NoNewRows
         /\ open' = open => SameSockets
<1>1. open \subseteq Listener
  BY DEF TypeOK, MemoryOK
<1> QED BY <1>1 DEF NoNewRows, SameSockets

\* What somebody has chosen stays free, but for the Saves.
LEMMA ChoiceKept ==
  ASSUME AllocExact, NoNewRows,
         \A g \in Procs : pc'[g] \in {"addsession", "addproxy"} => pc'[g] = pc[g] /\ job'[g] = job[g]
  PROVE  AllocExact'
<1>1. ASSUME NEW g \in Procs, pc'[g] = "addsession", NEW p \in Sessions', row'[p].unit = job'[g].unit
      PROVE  p \in back'
  BY <1>1 DEF AllocExact, NoNewRows, Sessions
<1>2. UsedPorts' \subseteq UsedPorts
  BY DEF NoNewRows, UsedPorts, Live
<1> QED BY <1>1, <1>2 DEF AllocExact

\* Outside allocMu a step that adds no row keeps the allocation exact.
LEMMA AllocFrame ==
  ASSUME TypeOK, AllocInv, NEW h \in Procs, Others(h), NoNewRows, UNCHANGED allocMu,
         pc[h] \notin InAlloc, pc'[h] \notin InAlloc
  PROVE  AllocInv'
<1>1. MutexHeld'
  BY DEF AllocInv, MutexHeld, Others
<1>2. AllocExact'
  BY ChoiceKept DEF AllocInv, Others, InAlloc
<1> QED BY <1>1, <1>2 DEF AllocInv

\* A step that changes no port and reads none keeps the ports sound.
LEMMA PortsFrame ==
  ASSUME TypeOK, PortsSound, NEW h \in Procs, Others(h), NoNewRows, SameSockets,
         pc'[h] \notin {"bind", "allocport", "addproxy"}
  PROVE  PortsSound'
<1>1. \A p \in Live' : row'[p].port # 0
  BY DEF PortsSound, NoNewRows, Live
<1>2. \A p \in Proxies : ~row'[p].born => row'[p].port = 0
  BY DEF PortsSound, NoNewRows
<1>3. ASSUME NEW g \in Procs, pc'[g] \in {"bind", "allocport", "addproxy"}
      PROVE  /\ pc'[g] = "bind" => job'[g].port # 0 /\ job'[g].port = row'[job'[g].p].port
             /\ pc'[g] \in {"allocport", "addproxy"}
                  => row'[job'[g].p].born /\ row'[job'[g].p].port = 0
             /\ pc'[g] = "addproxy" => job'[g].port # 0
  <2>1. pc'[g] = pc[g] /\ job'[g] = job[g]
    BY <1>3 DEF Others
  <2>2. job[g].p \in Proxies
    BY <1>3, <2>1, AtWork DEF OnProxy, Starting
  <2> QED BY <1>3, <2>1, <2>2 DEF PortsSound, NoNewRows
<1>4. \A o \in open' : o.port = row'[o.proxy].port
  <2>1. \A o \in open : o.proxy \in Proxies
    BY DEF TypeOK, MemoryOK, Listener
  <2> QED BY <2>1 DEF SameSockets, PortsSound, NoNewRows
<1> QED BY <1>1, <1>2, <1>3, <1>4 DEF PortsSound

\* The three invariants about listeners.
HandInv == IdsSound /\ HandsSound /\ Owned

\* A step that leaves sockets, map and hands alone keeps their owners.
LEMMA HandsFrame ==
  ASSUME TypeOK, HandInv, NEW h \in Procs, Others(h), SameSockets,
         UNCHANGED <<lastId, listeners>>,
         pc[h] \in InHand <=> pc'[h] \in InHand,
         pc[h] \in InHand => job'[h].l = job[h].l /\ job'[h].p = job[h].p
  PROVE  HandInv'
<1>1. \A g \in Procs :
        /\ pc[g] \in InHand <=> pc'[g] \in InHand
        /\ pc[g] \in InHand => job'[g].l = job[g].l /\ job'[g].p = job[g].p
  BY DEF Others
<1>2. IdsSound'
  BY DEF HandInv, IdsSound, SameSockets
<1>3. HandsSound'
  BY <1>1 DEF HandInv, HandsSound, SameSockets
<1>4. Owned'
  <2>1. ASSUME NEW n \in open'
        PROVE  \/ listeners'[n.proxy] = n.id
               \/ \E g \in Procs : job'[g].l = n.id /\ pc'[g] \in InHand
    <3>1. PICK o \in open : n.id = o.id /\ n.proxy = o.proxy
      BY DEF SameSockets
    <3>2. \/ listeners[o.proxy] = o.id
          \/ \E g \in Procs : job[g].l = o.id /\ pc[g] \in InHand
      BY DEF HandInv, Owned, InHand
    <3> QED BY <1>1, <3>1, <3>2
  <2>2. \A a, b \in open' : a.proxy = b.proxy => a = b
    BY DEF HandInv, Owned, SameSockets
  <2>3. ASSUME NEW p \in Proxies, listeners'[p] # 0
        PROVE  \E n \in open' : n.id = listeners'[p] /\ n.proxy = p
    <3>1. PICK o \in open : o.id = listeners[p] /\ o.proxy = p
      BY <2>3 DEF HandInv, Owned
    <3> QED BY <3>1 DEF SameSockets
  <2> QED BY <2>1, <2>2, <2>3 DEF Owned, InHand
<1> QED BY <1>2, <1>3, <1>4 DEF HandInv

\* A quiet step keeps all three parts.
LEMMA QuietKept ==
  ASSUME TypeOK, AllocInv, PortsSound, HandInv, NEW h \in Procs, Quiet(h)
  PROVE  AllocInv' /\ PortsSound' /\ HandInv'
<1>1. AllocInv'
  BY AllocFrame DEF Quiet, Special
<1>2. PortsSound'
  BY PortsFrame DEF Quiet, Special, InAlloc
<1>3. HandInv'
  BY HandsFrame DEF Quiet, Special
<1> QED BY <1>1, <1>2, <1>3

\* SetStatus and the deletions of rows.
LEMMA RowsShrink ==
  ASSUME TypeOK, NEW p \in Proxies, back' = back
  PROVE  /\ \A s : SetStatus(p, s) => NoNewRows
         /\ row' = [row EXCEPT ![p].proxy = FALSE] => NoNewRows
         /\ row' = [row EXCEPT ![p].session = FALSE] => NoNewRows
BY DEF TypeOK, TablesOK, Row, SetStatus, NoNewRows

\* A Save.
LEMMA SaveRows == ASSUME TypeOK, NEW p \in Proxies, Save(p) PROVE NoNewRows
<1>1. CASE UNCHANGED <<row, back>>
  BY <1>1, NothingMoves
<1>2. CASE /\ row' = [row EXCEPT ![p].session = TRUE]
           /\ back' = back \cup {q \in {p} : \E g \in Procs : /\ pc[g] = "addsession"
                                                             /\ job[g].unit = row[p].unit}
  <2>1. \A q \in Proxies : q # p => row'[q] = row[q]
    BY <1>2 DEF TypeOK, TablesOK
  <2>2. /\ row'[p].proxy = row[p].proxy /\ row'[p].born = row[p].born
        /\ row'[p].unit = row[p].unit /\ row'[p].port = row[p].port
    BY <1>2 DEF TypeOK, TablesOK, Row
  <2>3. \A g \in Procs : pc[g] = "addsession" /\ job[g].unit = row[p].unit => p \in back'
    BY <1>2
  <2> QED BY <1>2, <2>1, <2>2, <2>3 DEF NoNewRows
<1> QED BY <1>1, <1>2 DEF Save

\* It leaves the proxies' rows alone.
LEMMA SaveSession ==
  ASSUME TypeOK, NEW p \in Proxies, Save(p), NEW q \in Proxies
  PROVE  /\ row'[q].proxy = row[q].proxy /\ row'[q].status = row[q].status
         /\ row'[q].port = row[q].port
<1>1. row'[q] \in {row[q], [row[q] EXCEPT !.session = TRUE]} /\ row[q] \in Row
  BY DEF Save, TypeOK, TablesOK
<1> QED BY <1>1 DEF Row

\* What RowLoad and RowSave change.
LEMMA RowMoves ==
  ASSUME TypeOK, NEW p \in Proxies, RowLoad(p) \/ RowSave(p)
  PROVE  /\ UNCHANGED <<creds, global, own, memory, allocMu, pc, job, overlap>>
         /\ \A q \in Proxies : /\ row'[q].proxy = row[q].proxy /\ row'[q].status = row[q].status
                               /\ row'[q].port = row[q].port
BY SaveSession DEF RowLoad, RowSave, tables

\* All steps of goroutines but eleven are quiet.
LEMMA QuietSteps ==
  ASSUME TypeOK, NEW h \in Procs,
         \/ StartNothing(h) \/ StartRunning(h)
         \/ StopStatus(h) \/ DropCreds(h) \/ DropRow(h) \/ DropSession(h)
         \/ CreateSeed(h) \/ CreateReject(h)
         \/ CreateDial(h) \/ CreateDialing(h) \/ CreateDialed(h)
         \/ ReloadCreds(h) \/ SetCreds(h)
         \/ GlobalQuery(h) \/ GlobalStore(h) \/ GlobalSnapshot(h) \/ SessionTarget(h)
         \/ Merge(h) \/ SetRules(h)
         \/ Request(h)
  PROVE  Quiet(h)
<1> USE NothingMoves DEF Quiet
<1>1. Special = {"addsession", "allocport", "addproxy", "creds", "rules", "register", "close", "bind"}
  BY DEF Special, InAlloc, InHand
<1>2. InAlloc \cup InHand \subseteq Special
  BY DEF Special
<1>3. CASE StartNothing(h)
  BY <1>1, <1>2, <1>3, DonePlaced DEF StartNothing, tables, memory
<1>4. CASE StartRunning(h) \/ StopStatus(h)
  <2>1. job[h].p \in Proxies
    BY <1>4, AtWork DEF StartRunning, StopStatus, OnProxy, Starting, Stopping
  <2>2. NoNewRows
    BY <1>4, <2>1, RowsShrink, NotSaving DEF StartRunning, StopStatus
  <2> QED BY <1>1, <1>2, <1>4, <2>2, Placed, DonePlaced DEF StartRunning, StopStatus, Goto, memory
<1>5. CASE DropCreds(h)
  BY <1>1, <1>2, <1>5, Placed DEF DropCreds, Goto, memory
<1>6. CASE DropRow(h) \/ DropSession(h)
  <2>1. job[h].p \in Proxies
    BY <1>6, AtWork DEF DropRow, DropSession, OnProxy, Stopping
  <2>2. NoNewRows
    BY <1>6, <2>1, RowsShrink, NotSaving DEF DropRow, DropSession
  <2> QED BY <1>1, <1>2, <1>6, <2>2, Placed, DonePlaced DEF DropRow, DropSession, Goto, memory
<1>7. CASE CreateSeed(h) \/ CreateReject(h)
  BY <1>1, <1>2, <1>7, Placed DEF CreateSeed, CreateReject, Goto, tables, memory
<1>8. CASE CreateDial(h)
  BY <1>1, <1>2, <1>8, Placed, DonePlaced DEF CreateDial, Goto, tables, memory
<1>9. CASE ReloadCreds(h)
  <2>1. pc[h] = "reload"
    BY <1>9 DEF ReloadCreds
  <2>2. PICK p \in job[h].todo :
          \/ Back(h, "reload", [job[h] EXCEPT !.todo = @ \ {p}])
          \/ Goto(h, "setcreds", [job[h] EXCEPT !.p = p, !.l = listeners[p], !.copy = creds[p]])
    BY <1>9 DEF ReloadCreds
  <2>3. Others(h) /\ pc'[h] \in {"reload", "setcreds", "idle"} /\ UNCHANGED back
    BY <2>2, Placed, BackPlaced DEF Goto
  <2> QED BY <1>1, <1>2, <1>9, <2>1, <2>3 DEF ReloadCreds, tables, memory
<1>10. CASE SetCreds(h)
  <2>1. SameSockets
    BY <1>10, Given, AtWork DEF SetCreds, TypeOK, MemoryOK, Job
  <2> QED BY <1>1, <1>2, <1>10, <2>1, BackPlaced DEF SetCreds, tables
<1>11. CASE GlobalQuery(h) \/ GlobalStore(h)
  BY <1>1, <1>2, <1>11, Placed DEF GlobalQuery, GlobalStore, Goto, tables, memory
<1>12. CASE GlobalSnapshot(h) \/ SessionTarget(h)
  BY <1>1, <1>2, <1>12, BackPlaced DEF GlobalSnapshot, SessionTarget, tables, memory
<1>13. CASE Merge(h)
  <2>1. pc[h] = "merge"
    BY <1>13 DEF Merge
  <2>2. PICK l \in job[h].ids :
          \/ Back(h, "merge", [Rest EXCEPT !.ids = job[h].ids \ {l}])
          \/ \E o \in open :
               Goto(h, "setrules", [job[h] EXCEPT !.p = o.proxy, !.l = l, !.copy = cache,
                                                  !.copyOwn = own[o.proxy]])
    BY <1>13 DEF Merge
  <2>3. Others(h) /\ pc'[h] \in {"merge", "setrules", "idle"} /\ UNCHANGED back
    BY <2>2, Placed, BackPlaced DEF Goto
  <2> QED BY <1>1, <1>2, <1>13, <2>1, <2>3 DEF Merge, tables, memory
<1>14. CASE SetRules(h)
  <2>1. SameSockets
    BY <1>14, Given, AtWork DEF SetRules, TypeOK, MemoryOK, Job
  <2> QED BY <1>1, <1>2, <1>14, <2>1, BackPlaced DEF SetRules, tables
<1>15. CASE Request(h)
  <2>1. \A p \in Proxies : Enable(h, p) \/ Disable(h, p) \/ Delete(h, p) \/ SessionWrite(h, p)
                           => Quiet(h)
    BY <1>1, <1>2, Placed DEF Enable, Disable, Delete, SessionWrite, Arrives, tables, memory
  <2>2. \A m : CreateBegin(h, m) => Quiet(h)
    BY <1>1, <1>2, Placed DEF CreateBegin, Arrives, tables, memory
  <2>3. \A P : CredWrite(h, P) => Quiet(h)
    BY <1>1, <1>2, Placed DEF CredWrite, Arrives, memory
  <2>4. GlobalWrite(h) => Quiet(h)
    BY <1>1, <1>2, Placed DEF GlobalWrite, Arrives, memory
  <2> QED BY <1>15, <2>1, <2>2, <2>3, <2>4 DEF Request
<1>16. CASE CreateDialing(h) \/ CreateDialed(h)
  <2>1. pc[h] \in {"dialing", "dialed"} /\ job[h].p \in Proxies
    BY <1>16, AtWork DEF CreateDialing, CreateDialed, OnProxy
  <2>2. NoNewRows
    BY <1>16, <2>1, SaveRows DEF CreateDialing, CreateDialed
  <2>3. Others(h) /\ pc'[h] \in {"dialed", "idle", "start"}
    BY <1>16, SavePlaced DEF CreateDialing, CreateDialed
  <2> QED BY <1>1, <1>2, <1>16, <2>1, <2>2, <2>3 DEF CreateDialing, CreateDialed, memory
<1> QED BY <1>3, <1>4, <1>5, <1>6, <1>7, <1>8, <1>9, <1>10, <1>11, <1>12, <1>13, <1>14, <1>15,
           <1>16

\* The Saves of dials that are not a goroutine's of this model disturb nothing else.
LEMMA RowKept ==
  ASSUME TypeOK, AllocInv, PortsSound, HandInv, NEW p \in Proxies, RowLoad(p) \/ RowSave(p)
  PROVE  AllocInv' /\ PortsSound' /\ HandInv'
<1>1. UNCHANGED <<memory, allocMu, pc, job>> /\ NoNewRows
  BY SaveRows, NothingMoves DEF RowLoad, RowSave, tables
<1>2. MutexHeld' /\ AllocExact'
  BY <1>1, ChoiceKept DEF AllocInv, MutexHeld
<1>3. PortsSound'
  <2>1. \A g \in Procs : pc[g] \in {"bind", "allocport", "addproxy"} => job[g].p \in Proxies
    BY AtWork DEF OnProxy, Starting
  <2>2. \A o \in open : o.proxy \in Proxies
    BY DEF TypeOK, MemoryOK, Listener
  <2> QED BY <1>1, <2>1, <2>2 DEF PortsSound, NoNewRows, Live, memory
<1>4. HandInv'
  BY <1>1 DEF HandInv, IdsSound, HandsSound, Owned, memory
<1> QED BY <1>2, <1>3, <1>4 DEF AllocInv

-----------------------------------------------------------------------------
(* Allocation: the four steps under allocMu. *)

\* Only the owner of allocMu allocates, so that what it has chosen stays free.
LEMMA CreateKept ==
  ASSUME TypeOK, AllocInv, PortsSound, HandInv, NEW h \in Procs,
         CreateLock(h) \/ CreateSession(h) \/ CreatePort(h) \/ CreateProxy(h)
  PROVE  AllocInv' /\ PortsSound' /\ HandInv'
<1>1. Others(h) /\ SameSockets /\ UNCHANGED <<lastId, listeners>>
      /\ pc[h] \notin InHand /\ pc'[h] \notin InHand
  <2>1. CASE CreateLock(h)
    <3>1. \/ Done(h)
          \/ \E u : Goto(h, "addsession", [job[h] EXCEPT !.unit = u])
      BY <2>1 DEF CreateLock
    <3>2. Others(h) /\ pc'[h] \in {"idle", "addsession"}
      BY <3>1, Placed, DonePlaced DEF Goto
    <3> QED BY <2>1, <3>2, NothingMoves DEF CreateLock, InHand, memory
  <2>2. CASE CreateSession(h)
    <3>1. \/ Done(h)
          \/ \E p : Goto(h, "allocport", [job[h] EXCEPT !.p = p])
      BY <2>2 DEF CreateSession
    <3>2. Others(h) /\ pc'[h] \in {"idle", "allocport"}
      BY <3>1, Placed, DonePlaced DEF Goto
    <3> QED BY <2>2, <3>2, NothingMoves DEF CreateSession, InHand, memory
  <2>3. CASE CreatePort(h)
    <3>1. \/ Done(h)
          \/ \E n : Goto(h, "addproxy", [job[h] EXCEPT !.port = n])
      BY <2>3 DEF CreatePort
    <3>2. Others(h) /\ pc'[h] \in {"idle", "addproxy"}
      BY <3>1, Placed, DonePlaced DEF Goto
    <3> QED BY <2>3, <3>2, NothingMoves DEF CreatePort, InHand, memory
  <2>4. CASE CreateProxy(h)
    <3>1. Done(h) \/ Goto(h, "seed", job[h])
      BY <2>4 DEF CreateProxy
    <3>2. Others(h) /\ pc'[h] \in {"idle", "seed"}
      BY <3>1, Placed, DonePlaced DEF Goto
    <3> QED BY <2>4, <3>2, NothingMoves DEF CreateProxy, InHand, memory
  <2> QED BY <2>1, <2>2, <2>3, <2>4
<1>2. HandInv'
  BY <1>1, HandsFrame
<1>3. ASSUME pc[h] \in InAlloc
      PROVE  allocMu = h /\ \A g \in Procs \ {h} : pc[g] \notin InAlloc /\ pc'[g] \notin InAlloc
  BY <1>1, <1>3 DEF AllocInv, MutexHeld, Others
<1>4. CASE CreateLock(h)
  <2>1. row' = row /\ NoNewRows
    BY <1>4, NothingMoves, NotSaving DEF CreateLock, tables
  <2>2. PortsSound'
    <3>1. pc'[h] \in {"idle", "addsession"}
      BY <1>4, Placed, DonePlaced DEF CreateLock, Goto
    <3> QED BY <1>1, <2>1, <3>1, PortsFrame
  <2>3. CASE Done(h) /\ UNCHANGED allocMu
    BY <1>1, <1>2, <1>4, <2>1, <2>2, <2>3, DonePlaced, AllocFrame DEF CreateLock, InAlloc
  <2>4. CASE allocMu' = h /\ \E u \in Units \ UsedUnits :
               Goto(h, "addsession", [job[h] EXCEPT !.unit = u])
    <3>1. PICK u \in Units \ UsedUnits : Goto(h, "addsession", [job[h] EXCEPT !.unit = u])
      BY <2>4
    <3>2. pc'[h] = "addsession" /\ job'[h].unit = u
      BY <3>1, Placed, AtWork DEF Goto, Job
    <3>3. \A g \in Procs \ {h} : pc'[g] \notin InAlloc
      BY <1>1, <1>4, PoolsAssumption DEF CreateLock, AllocInv, MutexHeld, Others
    <3>4. MutexHeld'
      BY <2>4, <3>2, <3>3 DEF MutexHeld, InAlloc
    <3>5. \A p \in Sessions' : row'[p].unit # u
      BY <2>1, <3>1 DEF UsedUnits, Sessions
    <3>6. AllocExact'
      BY <3>2, <3>3, <3>5 DEF AllocExact, InAlloc
    <3> QED BY <1>2, <2>2, <3>4, <3>6 DEF AllocInv
  <2> QED BY <1>4, <2>3, <2>4 DEF CreateLock
<1>5. CASE CreateSession(h)
  <2>1. pc[h] = "addsession" /\ pc[h] \in InAlloc
    BY <1>5 DEF CreateSession, InAlloc
  <2>2. CASE job[h].unit \in UsedUnits
    <3>1. Done(h) /\ Unlock /\ row' = row
      BY <1>5, <2>2 DEF CreateSession
    <3>2. NoNewRows /\ pc'[h] = "idle"
      BY <3>1, DonePlaced, NothingMoves
    <3>3. PortsSound'
      BY <1>1, <3>2, PortsFrame
    <3>4. AllocInv'
      BY <1>3, <2>1, <3>1, <3>2, PoolsAssumption
         DEF AllocInv, MutexHeld, AllocExact, InAlloc, Unlock
    <3> QED BY <1>2, <3>3, <3>4
  <2>3. CASE job[h].unit \notin UsedUnits
    <3>2. PICK p \in Proxies :
            /\ ~row[p].born
            /\ row' = [row EXCEPT ![p] = [@ EXCEPT !.born = TRUE, !.session = TRUE,
                                                   !.unit = job[h].unit, !.mac = job[h].mac]]
            /\ Goto(h, "allocport", [job[h] EXCEPT !.p = p]) /\ UNCHANGED allocMu
      BY <1>5, <2>3 DEF CreateSession
    <3>3. pc'[h] = "allocport" /\ job'[h].p = p
      BY <3>2, Placed, AtWork DEF Goto, Job
    <3>4. AllocInv'
      BY <1>3, <2>1, <3>2, <3>3 DEF AllocInv, MutexHeld, AllocExact, InAlloc
    <3>5. /\ row'[p].born /\ row'[p].port = row[p].port /\ row'[p].proxy = row[p].proxy
          /\ \A q \in Proxies \ {p} : row'[q] = row[q]
      BY <3>2 DEF TypeOK, TablesOK, Row
    <3>6. \A q \in Proxies : row'[q].port = row[q].port /\ row'[q].proxy = row[q].proxy
                             /\ (row[q].born => row'[q].born)
      BY <3>5
    <3>7. PortsSound'
      <4>1. /\ \A q \in Live' : row'[q].port # 0
            /\ \A q \in Proxies : ~row'[q].born => row'[q].port = 0
            /\ row'[p].port = 0
        BY <3>2, <3>6 DEF PortsSound, Live
      <4>2. \A g \in Procs \ {h} :
              /\ pc'[g] = "bind" => job'[g].port # 0 /\ job'[g].port = row'[job'[g].p].port
              /\ pc'[g] \notin {"allocport", "addproxy"}
        <5>1. \A g \in Procs : pc[g] = "bind" => job[g].p \in Proxies
          BY AtWork DEF OnProxy, Starting
        <5> QED BY <1>1, <1>3, <2>1, <3>6, <5>1 DEF PortsSound, Others, InAlloc
      <4>3. \A o \in open' : o.port = row'[o.proxy].port
        <5>1. open' = open /\ \A o \in open : o.proxy \in Proxies
          BY <1>5 DEF CreateSession, memory, TypeOK, MemoryOK, Listener
        <5> QED BY <3>6, <5>1 DEF PortsSound
      <4> QED BY <3>3, <3>5, <4>1, <4>2, <4>3 DEF PortsSound
    <3> QED BY <1>2, <3>4, <3>7
  <2> QED BY <2>2, <2>3
<1>6. CASE CreatePort(h)
  <2>1. pc[h] = "allocport" /\ pc[h] \in InAlloc /\ job[h].p \in Proxies
    BY <1>6, AtWork DEF CreatePort, InAlloc, OnProxy
  <2>2. CASE UNCHANGED <<row, allocMu>> /\ \E n \in Ports \ UsedPorts :
               Goto(h, "addproxy", [job[h] EXCEPT !.port = n])
    <3>1. PICK n \in Ports \ UsedPorts : Goto(h, "addproxy", [job[h] EXCEPT !.port = n])
      BY <2>2
    <3>2. pc'[h] = "addproxy" /\ job'[h].port = n /\ job'[h].p = job[h].p
      BY <3>1, Placed, AtWork DEF Goto, Job
    <3>3. UsedPorts' = UsedPorts
      BY <2>2 DEF UsedPorts, Live
    <3>4. AllocInv'
      BY <1>3, <2>1, <2>2, <3>2, <3>3 DEF AllocInv, MutexHeld, AllocExact, InAlloc
    <3>5. PortsSound'
      <4>1. row' = row /\ open' = open
        BY <1>6, <2>2 DEF CreatePort, memory
      <4>2. n # 0 /\ row[job[h].p].born /\ row[job[h].p].port = 0
        BY <2>1, PoolsAssumption DEF PortsSound
      <4> QED BY <1>1, <3>2, <4>1, <4>2 DEF PortsSound, Others, Live
    <3> QED BY <1>2, <3>4, <3>5
  <2>3. CASE /\ row' = [row EXCEPT ![job[h].p].session = FALSE]
             /\ Done(h) /\ Unlock
    <3>1. NoNewRows /\ pc'[h] = "idle"
      BY <2>1, <2>3, RowsShrink, DonePlaced
    <3>2. PortsSound'
      BY <1>1, <3>1, PortsFrame
    <3>3. AllocInv'
      BY <1>3, <2>1, <2>3, <3>1, PoolsAssumption
         DEF AllocInv, MutexHeld, AllocExact, InAlloc, Unlock
    <3> QED BY <1>2, <3>2, <3>3
  <2> QED BY <1>6, <2>2, <2>3 DEF CreatePort
<1>7. CASE CreateProxy(h)
  <2>1. pc[h] = "addproxy" /\ pc[h] \in InAlloc /\ job[h].p \in Proxies
    BY <1>7, AtWork DEF CreateProxy, InAlloc, OnProxy
  <2>2. /\ row' = [row EXCEPT ![job[h].p] = [@ EXCEPT !.proxy = TRUE, !.port = job[h].port]]
        /\ Goto(h, "seed", job[h]) /\ Unlock
    BY <1>7, <2>1 DEF CreateProxy, AllocInv, AllocExact
  <2>3. pc'[h] = "seed"
    BY <2>2, Placed DEF Goto
  <2>4. AllocInv'
    BY <1>3, <2>1, <2>2, <2>3, PoolsAssumption DEF AllocInv, MutexHeld, AllocExact, InAlloc, Unlock
  <2>5. /\ row'[job[h].p].born = row[job[h].p].born /\ row'[job[h].p].port = job[h].port
        /\ \A q \in Proxies \ {job[h].p} : row'[q] = row[q]
    BY <2>1, <2>2 DEF TypeOK, TablesOK, Row
  <2>6. row[job[h].p].born /\ row[job[h].p].port = 0 /\ job[h].port # 0
    BY <2>1 DEF PortsSound
  <2>7. PortsSound'
    <3>1. /\ \A q \in Live' : row'[q].port # 0
          /\ \A q \in Proxies : ~row'[q].born => row'[q].port = 0
      <4>1. \A q \in Proxies : q # job[h].p => row'[q] = row[q]
        BY <2>5
      <4>2. \A q \in Live' : row'[q].port # 0
        <5> TAKE q \in Live'
        <5>1. CASE q = job[h].p
          BY <2>5, <2>6, <5>1
        <5>2. CASE q # job[h].p
          BY <4>1, <5>2 DEF PortsSound, Live
        <5> QED BY <5>1, <5>2
      <4>3. \A q \in Proxies : ~row'[q].born => row'[q].port = 0
        <5> TAKE q \in Proxies
        <5>1. CASE q = job[h].p
          BY <2>5, <2>6, <5>1
        <5>2. CASE q # job[h].p
          BY <4>1, <5>2 DEF PortsSound
        <5> QED BY <5>1, <5>2
      <4> QED BY <4>2, <4>3
    <3>2. \A g \in Procs \ {h} :
            /\ pc'[g] = "bind" => job'[g].port # 0 /\ job'[g].port = row'[job'[g].p].port
            /\ pc'[g] \notin {"allocport", "addproxy"}
      <4>1. \A g \in Procs : pc[g] = "bind" => job[g].p \in Proxies
        BY AtWork DEF OnProxy, Starting
      <4> QED BY <1>1, <1>3, <2>1, <2>5, <2>6, <4>1 DEF PortsSound, Others, InAlloc
    <3>3. \A o \in open' : o.port = row'[o.proxy].port
      <4>1. open' = open /\ \A o \in open : o.proxy \in Proxies /\ o.port # 0
        BY <1>7, PoolsAssumption DEF CreateProxy, memory, TypeOK, MemoryOK, Listener
      <4> QED BY <2>5, <2>6, <4>1 DEF PortsSound
    <3> QED BY <2>3, <3>1, <3>2, <3>3 DEF PortsSound
  <2> QED BY <1>2, <2>4, <2>7
<1> QED BY <1>4, <1>5, <1>6, <1>7

-----------------------------------------------------------------------------
(* Listeners: the steps that open, register, remove and close one. *)

\* What HandInv says of the listener in h's hands.
LEMMA HandHolds ==
  ASSUME HandInv, NEW h \in Procs, pc[h] \in InHand
  PROVE  /\ \E o \in open : o.id = job[h].l /\ o.proxy = job[h].p
         /\ listeners[job[h].p] # job[h].l
         /\ \A g \in Procs : pc[g] \in InHand /\ job[g].l = job[h].l => g = h
BY DEF HandInv, HandsSound

\* A proxy whose port is free has no listener at all.
LEMMA FreePort ==
  ASSUME TypeOK, PortsSound, HandInv, NEW p \in Proxies,
         \A o \in open : o.port # row[p].port
  PROVE  listeners[p] = 0 /\ \A o \in open : o.proxy # p
BY DEF PortsSound, HandInv, Owned

\* A new listener is in the hands of its Start, the only one of its proxy.
LEMMA BindKept ==
  ASSUME TypeOK, AllocInv, PortsSound, HandInv, NEW h \in Procs, StartBind(h)
  PROVE  AllocInv' /\ PortsSound' /\ HandInv'
<1>1. pc[h] = "bind" /\ job[h].p \in Proxies
      /\ job[h].port # 0 /\ job[h].port = row[job[h].p].port
  BY AtWork DEF StartBind, PortsSound, OnProxy, Starting
<1>2. NoNewRows /\ UNCHANGED <<row, listeners, allocMu>> /\ pc[h] \notin InAlloc \cup InHand
  BY <1>1, NothingMoves, NotSaving DEF StartBind, tables, InAlloc, InHand
<1>3. CASE \E o \in open : o.port = job[h].port
  <2>1. Quiet(h)
    BY <1>2, <1>3, NothingMoves, DonePlaced DEF StartBind, Quiet, Special, InAlloc, InHand
  <2> QED BY <2>1, QuietKept
<1>4. CASE ~\E o \in open : o.port = job[h].port
  <2> DEFINE new == [id |-> lastId + 1, proxy |-> job[h].p, port |-> job[h].port,
                     creds |-> 0, global |-> 0, own |-> 0]
  <2>1. /\ lastId' = lastId + 1 /\ open' = open \cup {new}
        /\ Goto(h, "creds", [job[h] EXCEPT !.l = lastId + 1])
    BY <1>4 DEF StartBind
  <2>2. /\ Others(h) /\ pc'[h] = "creds" /\ pc'[h] \in InHand
        /\ job'[h].l = lastId + 1 /\ job'[h].p = job[h].p
    BY <2>1, Placed, AtWork DEF Goto, Job, InHand
  <2>3. AllocInv'
    BY <1>2, <2>2, AllocFrame DEF InAlloc
  <2>4. PortsSound'
    BY <1>1, <1>2, <2>1, <2>2 DEF PortsSound, Others, Live
  <2>5. listeners[job[h].p] = 0 /\ \A o \in open : o.proxy # job[h].p
    BY <1>1, <1>4, FreePort
  <2>6. \A o \in open : o.id \in Nat /\ o.id <= lastId /\ o.id # lastId + 1
    BY DEF HandInv, IdsSound, TypeOK, MemoryOK, Listener
  <2>7. IdsSound'
    <3>1. lastId \in Nat
      BY DEF TypeOK, MemoryOK
    <3> QED BY <2>1, <2>6, <3>1 DEF HandInv, IdsSound
  <2>8. \A g \in Procs : pc[g] \in InHand => job[g].l # lastId + 1
    BY <2>6, HandHolds
  <2>9. HandsSound'
    <3>1. ASSUME NEW g \in Procs, pc'[g] \in InHand
          PROVE  /\ \E o \in open' : o.id = job'[g].l /\ o.proxy = job'[g].p
                 /\ listeners'[job'[g].p] # job'[g].l
      <4>1. CASE g = h
        <5>1. new \in open' /\ new.id = lastId + 1 /\ new.proxy = job[h].p
          BY <2>1
        <5>2. 0 # lastId + 1
          BY DEF TypeOK, MemoryOK
        <5> HIDE DEF new
        <5> QED BY <1>2, <2>2, <2>5, <4>1, <5>1, <5>2
      <4>2. CASE g # h
        BY <1>2, <2>1, <2>2, <3>1, <4>2, HandHolds DEF Others
      <4> QED BY <4>1, <4>2
    <3>2. ASSUME NEW f \in Procs, NEW g \in Procs, pc'[f] \in InHand, pc'[g] \in InHand,
                 job'[g].l = job'[f].l
          PROVE  g = f
      BY <2>2, <2>8, <3>2, HandHolds DEF Others
    <3> QED BY <3>1, <3>2 DEF HandsSound
  <2>10. Owned'
    <3>1. ASSUME NEW o \in open'
          PROVE  \/ listeners'[o.proxy] = o.id
                 \/ \E g \in Procs : job'[g].l = o.id /\ pc'[g] \in InHand
      <4>1. CASE o \in open
        BY <1>2, <2>2, <4>1 DEF HandInv, Owned, InHand, Others
      <4>2. CASE o = new
        BY <2>2, <4>2
      <4> QED BY <2>1, <4>1, <4>2
    <3>2. \A a, b \in open' : a.proxy = b.proxy => a = b
      BY <2>1, <2>5 DEF HandInv, Owned
    <3>3. \A p \in Proxies : listeners'[p] # 0 => \E o \in open' : o.id = listeners'[p] /\ o.proxy = p
      BY <1>2, <2>1 DEF HandInv, Owned
    <3> QED BY <3>1, <3>2, <3>3 DEF Owned, InHand
  <2> QED BY <2>3, <2>4, <2>7, <2>9, <2>10 DEF HandInv
<1> QED BY <1>3, <1>4

\* Start reads a port that will not change.
LEMMA LoadKept ==
  ASSUME TypeOK, AllocInv, PortsSound, HandInv, NEW h \in Procs, StartLoad(h)
  PROVE  AllocInv' /\ PortsSound' /\ HandInv'
<1>1. pc[h] = "start" /\ job[h].p \in Live
  BY DEF StartLoad
<1>2. UNCHANGED <<row, open, lastId, listeners, allocMu>> /\ NoNewRows /\ SameSockets
  BY NothingMoves, NotSaving DEF StartLoad, tables, memory
<1>3. /\ Others(h) /\ pc'[h] = "bind" /\ job'[h].p = job[h].p
      /\ job'[h].port = row[job[h].p].port
  BY Placed, AtWork DEF StartLoad, Goto, Job
<1>4. AllocInv'
  BY <1>1, <1>2, <1>3, AllocFrame DEF InAlloc
<1>5. HandInv'
  BY <1>1, <1>2, <1>3, HandsFrame DEF InHand
<1>6. PortsSound'
  BY <1>1, <1>2, <1>3 DEF PortsSound, Others, Live
<1> QED BY <1>4, <1>5, <1>6

\* creds.set and rules.set change no owner.
LEMMA InstallKept ==
  ASSUME TypeOK, AllocInv, PortsSound, HandInv, NEW h \in Procs, StartCreds(h) \/ StartRules(h)
  PROVE  AllocInv' /\ PortsSound' /\ HandInv'
<1>1. pc[h] \in {"creds", "rules"} /\ job[h].p \in Proxies
  BY AtWork DEF StartCreds, StartRules, OnProxy, Starting
<1>2. UNCHANGED <<row, lastId, listeners, allocMu>> /\ NoNewRows
  BY NothingMoves, NotSaving DEF StartCreds, StartRules, tables
<1>3. Others(h) /\ pc'[h] \in {"rules", "register"} /\ job'[h] = job[h]
  BY Placed DEF StartCreds, StartRules, Goto
<1>4. SameSockets
  <2>1. creds[job[h].p] \in Nat /\ own[job[h].p] \in Nat /\ cache \in Nat /\ open \subseteq Listener
    BY <1>1 DEF TypeOK, TablesOK, MemoryOK
  <2> QED BY <2>1, Given DEF StartCreds, StartRules
<1>5. AllocInv'
  BY <1>1, <1>2, <1>3, AllocFrame DEF InAlloc
<1>6. PortsSound'
  BY <1>2, <1>3, <1>4, PortsFrame
<1>7. HandInv'
  BY <1>1, <1>2, <1>3, <1>4, HandsFrame DEF InHand
<1> QED BY <1>5, <1>6, <1>7

\* A Start hands its listener over to the map.
LEMMA RegisterKept ==
  ASSUME TypeOK, AllocInv, PortsSound, HandInv, NEW h \in Procs, StartRegister(h)
  PROVE  AllocInv' /\ PortsSound' /\ HandInv'
<1> DEFINE p == job[h].p
           l == job[h].l
<1>1. pc[h] = "register" /\ pc[h] \in InHand /\ p \in Proxies
  BY AtWork DEF StartRegister, InHand, OnProxy, Starting
<1>2. UNCHANGED <<row, open, lastId, allocMu>> /\ NoNewRows /\ SameSockets
  BY NothingMoves, NotSaving DEF StartRegister, tables
<1>3. Others(h) /\ pc'[h] = "running" /\ pc'[h] \notin InHand
  BY Placed DEF StartRegister, Goto, InHand
<1>4. /\ listeners'[p] = l
      /\ \A q \in Proxies : q # p => listeners'[q] = listeners[q]
  BY <1>1 DEF StartRegister, TypeOK, MemoryOK
<1>5. PICK mine \in open : mine.id = l /\ mine.proxy = p
  BY <1>1, HandHolds
<1>6. \A o \in open : o.proxy \in Proxies /\ (o.proxy = p => o = mine) /\ (o.id = l => o = mine)
  BY <1>5 DEF HandInv, Owned, IdsSound, TypeOK, MemoryOK, Listener
<1> HIDE DEF p, l
<1>7. AllocInv'
  BY <1>1, <1>2, <1>3, AllocFrame DEF InAlloc
<1>8. PortsSound'
  BY <1>2, <1>3, PortsFrame
<1>9. IdsSound'
  BY <1>2 DEF HandInv, IdsSound
<1>10. HandsSound'
  <2>1. ASSUME NEW g \in Procs, pc'[g] \in InHand
        PROVE  /\ \E o \in open' : o.id = job'[g].l /\ o.proxy = job'[g].p
               /\ listeners'[job'[g].p] # job'[g].l
    <3>1. g # h /\ pc'[g] = pc[g] /\ job'[g] = job[g]
      BY <1>3, <2>1 DEF Others
    <3>2. PICK o \in open : o.id = job[g].l /\ o.proxy = job[g].p
      BY <2>1, <3>1, HandHolds
    <3>3. job[g].l # l
      BY <1>1, <2>1, <3>1, HandHolds DEF l
    <3>4. job[g].p \in Proxies /\ job[g].p # p
      BY <1>5, <1>6, <3>2, <3>3
    <3> QED BY <1>2, <1>4, <2>1, <3>1, <3>2, <3>4, HandHolds
  <2>2. ASSUME NEW f \in Procs, NEW g \in Procs, pc'[f] \in InHand, pc'[g] \in InHand,
               job'[g].l = job'[f].l
        PROVE  g = f
    BY <1>3, <2>2, HandHolds DEF Others
  <2> QED BY <2>1, <2>2 DEF HandsSound
<1>11. Owned'
  <2>1. ASSUME NEW o \in open'
        PROVE  \/ listeners'[o.proxy] = o.id
               \/ \E g \in Procs : job'[g].l = o.id /\ pc'[g] \in InHand
    <3>1. o \in open
      BY <1>2
    <3>2. CASE o = mine
      BY <1>4, <1>5, <3>2
    <3>3. CASE o # mine
      <4>1. o.proxy # p /\ o.id # l /\ o.proxy \in Proxies
        BY <1>6, <3>1, <3>3
      <4>2. \/ listeners[o.proxy] = o.id
            \/ \E g \in Procs : job[g].l = o.id /\ pc[g] \in InHand
        BY <3>1 DEF HandInv, Owned, InHand
      <4> QED BY <1>3, <1>4, <4>1, <4>2 DEF Others, l
    <3> QED BY <3>2, <3>3
  <2>2. \A a, b \in open' : a.proxy = b.proxy => a = b
    BY <1>2 DEF HandInv, Owned
  <2>3. \A q \in Proxies : listeners'[q] # 0 => \E o \in open' : o.id = listeners'[q] /\ o.proxy = q
    BY <1>2, <1>4, <1>5 DEF HandInv, Owned
  <2> QED BY <2>1, <2>2, <2>3 DEF Owned, InHand
<1> QED BY <1>7, <1>8, <1>9, <1>10, <1>11 DEF HandInv

\* Stop takes a listener out of the map into its hands.
LEMMA RemoveKept ==
  ASSUME TypeOK, AllocInv, PortsSound, HandInv, NEW h \in Procs, StopRemove(h)
  PROVE  AllocInv' /\ PortsSound' /\ HandInv'
<1> DEFINE p == job[h].p
           l == listeners[p]
<1>1. pc[h] = "stop" /\ pc[h] \notin InHand /\ p \in Proxies
  BY AtWork DEF StopRemove, InHand, OnProxy, Stopping
<1>2. UNCHANGED <<row, open, lastId, allocMu>> /\ NoNewRows /\ SameSockets
  BY NothingMoves, NotSaving DEF StopRemove, tables
<1>3. /\ Others(h) /\ pc'[h] = (IF l = 0 THEN "stopped" ELSE "close")
      /\ job'[h].l = l /\ job'[h].p = p
  BY Placed, AtWork DEF StopRemove, Goto, Job
<1>4. /\ listeners'[p] = 0
      /\ \A q \in Proxies : q # p => listeners'[q] = listeners[q]
  BY <1>1 DEF StopRemove, TypeOK, MemoryOK
<1>5. \A o \in open : o.proxy \in Proxies /\ o.id # 0
  BY DEF TypeOK, MemoryOK, Listener
<1>6. l # 0 => \E o \in open : o.id = l /\ o.proxy = p
  BY <1>1 DEF HandInv, Owned
<1> HIDE DEF p, l
<1>7. AllocInv'
  BY <1>1, <1>2, <1>3, AllocFrame DEF InAlloc
<1>8. PortsSound'
  BY <1>2, <1>3, PortsFrame
<1>9. IdsSound'
  BY <1>2 DEF HandInv, IdsSound
<1>10. pc'[h] \in InHand <=> l # 0
  BY <1>3 DEF InHand
<1>11. ASSUME NEW g \in Procs, pc[g] \in InHand, l # 0 PROVE job[g].l # l
  <2>1. PICK o \in open : o.id = job[g].l /\ o.proxy = job[g].p
    BY <1>11, HandHolds
  <2>2. PICK m \in open : m.id = l /\ m.proxy = p
    BY <1>6, <1>11
  <2>3. job[g].l = l => job[g].p = p
    BY <2>1, <2>2 DEF HandInv, IdsSound
  <2> QED BY <1>11, <2>3, HandHolds DEF l
<1>12. HandsSound'
  <2>1. ASSUME NEW g \in Procs, pc'[g] \in InHand
        PROVE  /\ \E o \in open' : o.id = job'[g].l /\ o.proxy = job'[g].p
               /\ listeners'[job'[g].p] # job'[g].l
    <3>1. CASE g = h
      BY <1>2, <1>3, <1>4, <1>6, <1>10, <2>1, <3>1
    <3>2. CASE g # h
      <4>1. pc'[g] = pc[g] /\ job'[g] = job[g] /\ pc[g] \in InHand
        BY <1>3, <2>1, <3>2 DEF Others
      <4>2. PICK o \in open : o.id = job[g].l /\ o.proxy = job[g].p
        BY <4>1, HandHolds
      <4>3. listeners[job[g].p] # job[g].l
        BY <4>1, HandHolds
      <4> QED BY <1>2, <1>4, <1>5, <4>1, <4>2, <4>3
    <3> QED BY <3>1, <3>2
  <2>2. ASSUME NEW f \in Procs, NEW g \in Procs, pc'[f] \in InHand, pc'[g] \in InHand,
               job'[g].l = job'[f].l
        PROVE  g = f
    BY <1>3, <1>10, <1>11, <2>2, HandHolds DEF Others
  <2> QED BY <2>1, <2>2 DEF HandsSound
<1>13. Owned'
  <2>1. ASSUME NEW o \in open'
        PROVE  \/ listeners'[o.proxy] = o.id
               \/ \E g \in Procs : job'[g].l = o.id /\ pc'[g] \in InHand
    <3>1. o \in open /\ o.proxy \in Proxies /\ o.id # 0
      BY <1>2, <1>5
    <3>2. CASE listeners[o.proxy] = o.id
      BY <1>3, <1>4, <1>10, <3>1, <3>2 DEF l
    <3>3. CASE \E g \in Procs : job[g].l = o.id /\ pc[g] \in InHand
      BY <1>1, <1>3, <3>3 DEF Others
    <3> QED BY <3>1, <3>2, <3>3 DEF HandInv, Owned, InHand
  <2>2. \A a, b \in open' : a.proxy = b.proxy => a = b
    BY <1>2 DEF HandInv, Owned
  <2>3. \A q \in Proxies : listeners'[q] # 0 => \E o \in open' : o.id = listeners'[q] /\ o.proxy = q
    BY <1>2, <1>4 DEF HandInv, Owned
  <2> QED BY <2>1, <2>2, <2>3 DEF Owned, InHand
<1> QED BY <1>7, <1>8, <1>9, <1>12, <1>13 DEF HandInv

\* Stop closes the listener it has, which nobody else has.
LEMMA CloseKept ==
  ASSUME TypeOK, AllocInv, PortsSound, HandInv, NEW h \in Procs, StopClose(h)
  PROVE  AllocInv' /\ PortsSound' /\ HandInv'
<1> DEFINE l == job[h].l
<1>1. pc[h] = "close" /\ pc[h] \in InHand
  BY DEF StopClose, InHand
<1>2. UNCHANGED <<row, lastId, listeners, allocMu>> /\ NoNewRows
  BY NothingMoves, NotSaving DEF StopClose, tables
<1>3. Others(h) /\ pc'[h] = "stopped" /\ pc'[h] \notin InHand
  BY Placed DEF StopClose, Goto, InHand
<1>4. open' = {o \in open : o.id # l}
  BY DEF StopClose
<1>5. \A o \in open : o.proxy \in Proxies
  BY DEF TypeOK, MemoryOK, Listener
<1> HIDE DEF l
<1>6. AllocInv'
  BY <1>1, <1>2, <1>3, AllocFrame DEF InAlloc
<1>7. PortsSound'
  <2>1. \A g \in Procs : pc'[g] \in {"bind", "allocport", "addproxy"}
                         => pc'[g] = pc[g] /\ job'[g] = job[g]
    BY <1>3 DEF Others
  <2> QED BY <1>2, <1>4, <2>1 DEF PortsSound, Live
<1>8. IdsSound'
  BY <1>2, <1>4 DEF HandInv, IdsSound
<1>9. HandsSound'
  <2>1. ASSUME NEW g \in Procs, pc'[g] \in InHand
        PROVE  /\ \E o \in open' : o.id = job'[g].l /\ o.proxy = job'[g].p
               /\ listeners'[job'[g].p] # job'[g].l
    <3>1. g # h /\ pc'[g] = pc[g] /\ job'[g] = job[g] /\ pc[g] \in InHand
      BY <1>3, <2>1 DEF Others
    <3>2. job[g].l # l
      BY <1>1, <3>1, HandHolds DEF l
    <3> QED BY <1>2, <1>4, <3>1, <3>2, HandHolds
  <2>2. ASSUME NEW f \in Procs, NEW g \in Procs, pc'[f] \in InHand, pc'[g] \in InHand,
               job'[g].l = job'[f].l
        PROVE  g = f
    BY <1>3, <2>2, HandHolds DEF Others
  <2> QED BY <2>1, <2>2 DEF HandsSound
<1>10. Owned'
  <2>1. ASSUME NEW o \in open'
        PROVE  \/ listeners'[o.proxy] = o.id
               \/ \E g \in Procs : job'[g].l = o.id /\ pc'[g] \in InHand
    <3>1. o \in open /\ o.id # l
      BY <1>4
    <3> QED BY <1>2, <1>3, <3>1 DEF HandInv, Owned, InHand, Others, l
  <2>2. \A a, b \in open' : a.proxy = b.proxy => a = b
    BY <1>4 DEF HandInv, Owned
  <2>3. ASSUME NEW q \in Proxies, listeners'[q] # 0
        PROVE  \E o \in open' : o.id = listeners'[q] /\ o.proxy = q
    <3>1. PICK o \in open : o.id = listeners[q] /\ o.proxy = q
      BY <1>2, <2>3 DEF HandInv, Owned
    <3>2. PICK m \in open : m.id = l /\ m.proxy = job[h].p
      BY <1>1, HandHolds DEF l
    <3>3. listeners[job[h].p] # l
      BY <1>1, HandHolds DEF l
    <3>4. o.id # l
      BY <3>1, <3>2, <3>3 DEF HandInv, IdsSound
    <3> QED BY <1>2, <1>4, <3>1, <3>4
  <2> QED BY <2>1, <2>2, <2>3 DEF Owned, InHand
<1> QED BY <1>6, <1>7, <1>8, <1>9, <1>10 DEF HandInv

\* RestoreAll gives every listener to the map.
LEMMA RestartKept ==
  ASSUME TypeOK, PortsSound, Restart
  PROVE  AllocInv' /\ PortsSound' /\ HandInv'
<1>1. PICK number \in [Up -> 1..Cardinality(Up)] :
        /\ \A p, q \in Up : number[p] = number[q] => p = q
        /\ lastId' = Cardinality(Up)
        /\ open' = {[id |-> number[p], proxy |-> p, port |-> row[p].port, creds |-> creds[p],
                     global |-> global, own |-> own[p]] : p \in Up}
        /\ listeners' = [p \in Proxies |-> IF p \in Up THEN number[p] ELSE 0]
  BY DEF Restart, Up
<1>2. row' = row /\ \A h \in Procs : pc'[h] = "idle"
  BY DEF Restart, tables
<1>3. \A o \in open' : o.proxy \in Up /\ o.id = number[o.proxy] /\ o.port = row[o.proxy].port
  BY <1>1
<1>4. \A a, b \in open' : a.proxy = b.proxy => a = b
  BY <1>1
<1>5. Up \subseteq Proxies
  BY DEF Up, Live
<1>6. AllocInv'
  BY <1>2, PoolsAssumption DEF Restart, AllocInv, MutexHeld, AllocExact, InAlloc
<1>7. PortsSound'
  BY <1>2, <1>3 DEF PortsSound, Live
<1>8. IdsSound'
  <2>1. \A o \in open' : o.id <= lastId'
    BY <1>1, <1>3, UpFinite
  <2>2. \A a, b \in open' : a.id = b.id => a = b
    BY <1>1, <1>3, <1>4
  <2> QED BY <2>1, <2>2 DEF IdsSound
<1>9. HandsSound'
  BY <1>2 DEF HandsSound, InHand
<1>10. Owned'
  <2>1. \A o \in open' : listeners'[o.proxy] = o.id
    BY <1>1, <1>3, <1>5
  <2>2. \A p \in Proxies : listeners'[p] # 0 => \E o \in open' : o.id = listeners'[p] /\ o.proxy = p
    <3> SUFFICES ASSUME NEW p \in Proxies, listeners'[p] # 0
                 PROVE  \E o \in open' : o.id = listeners'[p] /\ o.proxy = p
      OBVIOUS
    <3>1. p \in Up /\ listeners'[p] = number[p]
      BY <1>1
    <3>2. \E o \in open' : o.id = number[p] /\ o.proxy = p
      <4> DEFINE o == [id |-> number[p], proxy |-> p, port |-> row[p].port,
                       creds |-> creds[p], global |-> global, own |-> own[p]]
      <4>1. o \in open'
        BY <1>1, <3>1
      <4>2. o.id = number[p] /\ o.proxy = p
        OBVIOUS
      <4> HIDE DEF o
      <4> QED BY <4>1, <4>2
    <3> QED BY <3>1, <3>2
  <2> QED BY <1>4, <2>1, <2>2 DEF Owned
<1> QED BY <1>6, <1>7, <1>8, <1>9, <1>10 DEF HandInv

-----------------------------------------------------------------------------
(* The invariant. *)

\* The invariant holds in a new installation.
LEMMA InvInit == Init => IInv
<1> SUFFICES ASSUME Init PROVE IInv
  OBVIOUS
<1>1. (CHOOSE u \in Units : TRUE) \in Units
  BY PoolsAssumption
<1>2. TablesOK
  BY <1>1 DEF Init, TablesOK, Row
<1>3. MemoryOK
  BY DEF Init, MemoryOK
<1>4. LocalsOK
  <2>1. "idle" \in Labels \ OnProxy
    BY DEF Labels, OnProxy, Starting, Stopping
  <2> QED BY <2>1, RestTyped DEF Init, LocalsOK
<1>5. TypeOK
  BY <1>2, <1>3, <1>4, PoolsAssumption DEF Init, TypeOK
<1>6. AllocInv
  BY PoolsAssumption DEF Init, AllocInv, MutexHeld, AllocExact, InAlloc
<1>7. OwnInv
  BY DEF Init, OwnInv, PortsSound, IdsSound, HandsSound, Owned, Live, InHand
<1> QED BY <1>5, <1>6, <1>7 DEF IInv

\* Every step keeps it.
LEMMA InvNext == IInv /\ [Next]_vars => IInv'
<1> SUFFICES ASSUME IInv, [Next]_vars PROVE IInv'
  OBVIOUS
<1>1. TypeOK /\ AllocInv /\ PortsSound /\ HandInv
  BY DEF IInv, OwnInv, HandInv
<1>2. TypeOK' /\ AllocInv' /\ PortsSound' /\ HandInv' => IInv'
  BY DEF IInv, OwnInv, HandInv
<1>3. ASSUME NEW h \in Procs, Step(h) PROVE IInv'
  <2>1. TypeOK'
    BY <1>1, <1>3, StartTyped, StopTyped, CreateTyped, ReloadTyped DEF Step
  <2>2. CASE Quiet(h)
    BY <1>1, <1>2, <2>1, <2>2, QuietKept
  <2>3. CASE \/ StartLoad(h) \/ StartBind(h) \/ StartCreds(h) \/ StartRules(h)
             \/ StartRegister(h) \/ StopRemove(h) \/ StopClose(h)
    BY <1>1, <1>2, <2>1, <2>3, LoadKept, BindKept, InstallKept, RegisterKept, RemoveKept, CloseKept
  <2>4. CASE CreateLock(h) \/ CreateSession(h) \/ CreatePort(h) \/ CreateProxy(h)
    BY <1>1, <1>2, <2>1, <2>4, CreateKept
  <2> QED BY <1>1, <1>3, <2>2, <2>3, <2>4, QuietSteps DEF Step
<1>4. ASSUME NEW h \in Procs, Request(h) PROVE IInv'
  <2>1. TypeOK' /\ Quiet(h)
    BY <1>1, <1>4, RequestTyped, QuietSteps
  <2> QED BY <1>1, <1>2, <2>1, QuietKept
<1>5. CASE Restart
  BY <1>1, <1>2, <1>5, RestartTyped, RestartKept
<1>6. ASSUME NEW p \in Proxies, RowLoad(p) \/ RowSave(p) PROVE IInv'
  BY <1>1, <1>2, <1>6, RowTyped, RowKept
<1>7. CASE UNCHANGED vars
  <2>1. TypeOK'
    BY <1>1, <1>7 DEF vars, tables, memory, saves, TypeOK, TablesOK, MemoryOK, LocalsOK
  <2>2. AllocInv'
    BY <1>1, <1>7 DEF vars, tables, memory, saves, AllocInv, MutexHeld, AllocExact, UsedPorts,
                      Live, Sessions
  <2>3. PortsSound'
    BY <1>1, <1>7 DEF vars, tables, memory, PortsSound, Live
  <2>4. HandInv'
    BY <1>1, <1>7 DEF vars, tables, memory, HandInv, IdsSound, HandsSound, Owned
  <2> QED BY <1>2, <2>1, <2>2, <2>3, <2>4
<1> QED BY <1>3, <1>4, <1>5, <1>6, <1>7 DEF Next

\* It always holds.
LEMMA Invariant == Spec => []IInv
BY InvInit, InvNext, PTL DEF Spec

\* Every variable keeps its type, whatever the requests and their order, and a
\* goroutine that works on a proxy (manager.go Start, Stop, ReloadCreds and the rest)
\* has one.
THEOREM TypeCorrect == Spec => []TypeOK
<1>1. IInv => TypeOK
  BY DEF IInv
<1> QED BY <1>1, Invariant, PTL

\* createSessionAndDial: between AllocPort and the INSERT nobody takes the port, and
\* between AllocPppUnit and the INSERT nobody takes the unit but a Save of a deleted
\* session that had it, for any number of creations, deletions, dials and restarts
\* at any point.
THEOREM AllocationExact == Spec => []AllocExact
<1>1. IInv => AllocExact
  BY DEF IInv, AllocInv
<1> QED BY <1>1, Invariant, PTL

\* manager.go: no bound socket is lost between net.Listen, the map and Close, a proxy
\* has at most one, and what the map names is bound, for any number of
\* goroutines that start, stop and delete the same proxy.
THEOREM ListenersOwned == Spec => []Owned
<1>1. IInv => Owned
  BY DEF IInv, OwnInv
<1> QED BY <1>1, Invariant, PTL
=============================================================================
