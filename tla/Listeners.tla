----------------------------- MODULE Listeners -----------------------------
(* The listener manager (internal/proxy/server/manager.go) and the handlers  *)
(* that drive it: creating, enabling and deleting sessions, changing creds   *)
(* and access rules.  A session has one proxy, named like it; tables hold    *)
(* versions of creds and rules, and a listener the versions it has copied.   *)
(* An action is one statement on a table, one critical section of m.mu or    *)
(* one socket call; reads with no write between them go together.            *)
EXTENDS Integers, FiniteSets

CONSTANTS
  Proxies,    \* ids of sessions and of their proxies
  Ports,      \* portMin .. portMax
  Units,      \* the pool of ppp units
  Macs,       \* custom_macs of the line
  RandomMac,  \* any random MAC: no two collide
  Procs,      \* goroutines: requests and the cleanup ticker
  NoOne,      \* the owner of the free allocMu
  NoProxy,    \* no proxy
  MaxRequests \* how many requests arrive (bound of a run)

ASSUME PoolsAssumption ==
  /\ Ports \subseteq Nat \ {0} /\ Units \subseteq Nat /\ Units # {}
  /\ MaxRequests \in Nat /\ RandomMac \notin Macs
  /\ NoOne \notin Procs /\ NoProxy \notin Proxies /\ IsFiniteSet(Proxies)

VARIABLES
  row,        \* tables sessions and proxies
  creds,      \* version of each proxy's rows in proxy_credentials
  global, own, \* versions of the global and of each session's access rules
  cache,      \* m.globalRules
  open,       \* listeners whose socket is bound
  lastId,     \* how many listeners have been made
  listeners,  \* the map m.listeners: the id of a proxy's listener, or 0
  allocMu,    \* the goroutine in allocMu
  pc, job,    \* where each goroutine is, and what it holds
  requests,   \* requests still to come
  held,       \* sessions whose row a Dial, Rotate or Hangup has in memory
  back,       \* history: sessions that a Save has put back into the table while
              \* somebody had chosen their unit
  overlap     \* history: <<what, p>> when two operations that set the same thing
              \* of p overlapped

tables == <<row, creds, global, own>>
memory == <<cache, open, lastId, listeners>>
saves  == <<held, back>>
vars   == <<tables, memory, allocMu, pc, job, requests, saves, overlap>>

\* Has the id been given out, is there a session row, and is there a proxy row?
Row == [born : BOOLEAN, session : BOOLEAN, proxy : BOOLEAN, unit : Units,
        mac : Macs \cup {RandomMac}, port : Ports \cup {0}, status : {"stopped", "running"}]
Listener == [id : Nat \ {0}, proxy : Proxies, port : Ports, creds : Nat, global : Nat, own : Nat]
Job == [p : Proxies \cup {NoProxy}, l : Nat, unit : Units, mac : Macs \cup {RandomMac},
        port : Ports \cup {0}, copy : Nat, copyOwn : Nat, todo : SUBSET Proxies, ids : SUBSET Nat,
        del : BOOLEAN]

Starting  == {"start", "bind", "creds", "rules", "register", "running"}
Stopping  == {"stop", "close", "stopped", "dropcreds", "droprow", "dropsession"}
Creating  == {"lock", "addsession", "allocport", "addproxy", "seed", "dial", "dialing", "dialed"}
Reloading == {"reload", "setcreds", "query", "cache", "snapshot", "target", "merge", "setrules"}
Labels    == {"idle"} \cup Starting \cup Stopping \cup Creating \cup Reloading
InAlloc   == {"addsession", "allocport", "addproxy"}

Rest == [p |-> NoProxy, l |-> 0, unit |-> CHOOSE u \in Units : TRUE, mac |-> RandomMac, port |-> 0,
         copy |-> 0, copyOwn |-> 0, todo |-> {}, ids |-> {}, del |-> FALSE]

Live     == {p \in Proxies : row[p].proxy}
Sessions == {p \in Proxies : row[p].session}

\* Where a goroutine works on a proxy.
OnProxy == Starting \cup Stopping \cup
  {"allocport", "addproxy", "seed", "dial", "dialing", "dialed", "setcreds", "target", "setrules"}

TablesOK == /\ row \in [Proxies -> Row] /\ creds \in [Proxies -> Nat]
            /\ global \in Nat /\ own \in [Proxies -> Nat]
MemoryOK == /\ cache \in Nat /\ open \subseteq Listener /\ lastId \in Nat
            /\ listeners \in [Proxies -> Nat]
LocalsOK == /\ pc \in [Procs -> Labels] /\ job \in [Procs -> Job]
            /\ held \subseteq Proxies /\ back \subseteq Proxies
            /\ \A h \in Procs : pc[h] \in OnProxy => job[h].p \in Proxies

\* Values have their types, and a goroutine that works on a proxy has one.
TypeOK ==
  /\ TablesOK /\ MemoryOK /\ LocalsOK
  /\ allocMu \in Procs \cup {NoOne} /\ requests \in 0..MaxRequests
  /\ overlap \subseteq {"status", "creds", "rules", "cache"} \X Proxies

\* A new installation.
Init ==
  /\ row = [p \in Proxies |-> [born |-> FALSE, session |-> FALSE, proxy |-> FALSE,
                               unit |-> CHOOSE u \in Units : TRUE, mac |-> RandomMac, port |-> 0,
                               status |-> "stopped"]]
  /\ creds = [p \in Proxies |-> 0] /\ own = [p \in Proxies |-> 0] /\ global = 0 /\ cache = 0
  /\ open = {} /\ lastId = 0 /\ listeners = [p \in Proxies |-> 0]
  /\ allocMu = NoOne
  /\ pc = [h \in Procs |-> "idle"] /\ job = [h \in Procs |-> Rest]
  /\ requests = MaxRequests /\ held = {} /\ back = {} /\ overlap = {}

-----------------------------------------------------------------------------
(* Requests, and what overlaps. *)

Arrives(h) == pc[h] = "idle" /\ requests > 0 /\ requests' = requests - 1

Move(h, l, j)  == pc' = [pc EXCEPT ![h] = l] /\ job' = [job EXCEPT ![h] = j]
Begin(h, l, j) == Move(h, l, j) /\ UNCHANGED saves
Goto(h, l, j)  == Begin(h, l, j) /\ UNCHANGED requests
Done(h)        == Goto(h, "idle", Rest)

\* Another goroutine is at one of the labels, for the same proxy.
Busy(h, p, labels) == \E g \in Procs \ {h} : job[g].p = p /\ pc[g] \in labels
Mark(what, h, p, labels) ==
  overlap' = overlap \cup (IF Busy(h, p, labels) THEN {<<what, p>>} ELSE {})

Switching == Starting \cup Stopping
\* Creds (rules) of a listener have been read and are not yet in force.
HoldsCreds == {"rules", "register", "setcreds"}
HoldsRules == {"register", "setrules"}

\* creds.set and rules.set of listener l, which does nothing to one that is closed.
GiveCreds(l, c)    == open' = {IF o.id = l THEN [o EXCEPT !.creds = c] ELSE o : o \in open}
GiveRules(l, g, w) ==
  open' = {IF o.id = l THEN [o EXCEPT !.global = g, !.own = w] ELSE o : o \in open}
SetStatus(p, s) == row' = IF p \in Live THEN [row EXCEPT ![p].status = s] ELSE row

-----------------------------------------------------------------------------
(* Start. *)

Enable(h, p) ==
  /\ Arrives(h) /\ p \in Live
  /\ Begin(h, "start", [Rest EXCEPT !.p = p])
  /\ Mark("status", h, p, Switching)
  /\ UNCHANGED <<tables, memory, allocMu>>

\* It is running, or its row is gone: Start returns.
StartNothing(h) ==
  /\ pc[h] = "start"
  /\ listeners[job[h].p] # 0 \/ job[h].p \notin Live
  /\ Done(h)
  /\ UNCHANGED <<tables, memory, allocMu, overlap>>

StartLoad(h) ==
  /\ pc[h] = "start"
  /\ listeners[job[h].p] = 0 /\ job[h].p \in Live
  /\ Goto(h, "bind", [job[h] EXCEPT !.port = row[job[h].p].port])
  /\ UNCHANGED <<tables, memory, allocMu, overlap>>

\* net.Listen: refused while another listener has the port.
StartBind(h) ==
  /\ pc[h] = "bind"
  /\ IF \E o \in open : o.port = job[h].port
     THEN Done(h) /\ UNCHANGED <<open, lastId, overlap>>
     ELSE /\ lastId' = lastId + 1
          /\ open' = open \cup {[id |-> lastId + 1, proxy |-> job[h].p, port |-> job[h].port,
                                 creds |-> 0, global |-> 0, own |-> 0]}
          /\ overlap' = overlap \ {<<"creds", job[h].p>>, <<"rules", job[h].p>>}
          /\ Goto(h, "creds", [job[h] EXCEPT !.l = lastId + 1])
  /\ UNCHANGED <<tables, cache, listeners, allocMu>>

StartCreds(h) ==
  /\ pc[h] = "creds"
  /\ GiveCreds(job[h].l, creds[job[h].p])
  /\ Goto(h, "rules", job[h])
  /\ UNCHANGED <<tables, cache, lastId, listeners, allocMu, overlap>>

\* mergedRulesFor: the cached global rules and the session's own.
StartRules(h) ==
  /\ pc[h] = "rules"
  /\ GiveRules(job[h].l, cache, own[job[h].p])
  /\ Goto(h, "register", job[h])
  /\ UNCHANGED <<tables, cache, lastId, listeners, allocMu, overlap>>

StartRegister(h) ==
  /\ pc[h] = "register"
  /\ listeners' = [listeners EXCEPT ![job[h].p] = job[h].l]
  /\ Goto(h, "running", job[h])
  /\ UNCHANGED <<tables, cache, open, lastId, allocMu, overlap>>

\* Variant: the status is not written.
StartRunning_Silent(h) ==
  /\ pc[h] = "running"
  /\ Done(h)
  /\ UNCHANGED <<tables, memory, allocMu, overlap>>

StartRunning(h) ==
  /\ pc[h] = "running"
  /\ SetStatus(job[h].p, "running")
  /\ Done(h)
  /\ UNCHANGED <<creds, global, own, memory, allocMu, overlap>>

-----------------------------------------------------------------------------
(* Stop, and DeleteSession (DeleteLine: one session after the other).        *)

Disable(h, p) ==
  /\ Arrives(h) /\ p \in Live
  /\ Begin(h, "stop", [Rest EXCEPT !.p = p])
  /\ Mark("status", h, p, Switching)
  /\ UNCHANGED <<tables, memory, allocMu>>

\* Variant: the proxy is not stopped.
Delete_Running(h, p) ==
  /\ Arrives(h) /\ p \in Sessions
  /\ Begin(h, IF p \in Live THEN "dropcreds" ELSE "dropsession",
           [Rest EXCEPT !.p = p, !.del = TRUE])
  /\ Mark("status", h, p, Switching)
  /\ UNCHANGED <<tables, memory, allocMu>>

Delete(h, p) ==
  /\ Arrives(h) /\ p \in Sessions
  /\ Begin(h, IF p \in Live THEN "stop" ELSE "dropsession", [Rest EXCEPT !.p = p, !.del = TRUE])
  /\ Mark("status", h, p, Switching)
  /\ UNCHANGED <<tables, memory, allocMu>>

StopRemove(h) ==
  /\ pc[h] = "stop"
  /\ listeners' = [listeners EXCEPT ![job[h].p] = 0]
  /\ Goto(h, IF listeners[job[h].p] = 0 THEN "stopped" ELSE "close",
          [job[h] EXCEPT !.l = listeners[job[h].p]])
  /\ UNCHANGED <<tables, cache, open, lastId, allocMu, overlap>>

\* Variant: the socket is not closed.
StopClose_Leak(h) ==
  /\ pc[h] = "close"
  /\ Goto(h, "stopped", [job[h] EXCEPT !.l = 0])
  /\ UNCHANGED <<tables, memory, allocMu, overlap>>

\* Close, and wait until acceptLoop has returned.
StopClose(h) ==
  /\ pc[h] = "close"
  /\ open' = {o \in open : o.id # job[h].l}
  /\ Goto(h, "stopped", [job[h] EXCEPT !.l = 0])
  /\ UNCHANGED <<tables, cache, lastId, listeners, allocMu, overlap>>

StopStatus(h) ==
  /\ pc[h] = "stopped"
  /\ SetStatus(job[h].p, "stopped")
  /\ IF job[h].del THEN Goto(h, "dropcreds", job[h]) ELSE Done(h)
  /\ UNCHANGED <<creds, global, own, memory, allocMu, overlap>>

DropCreds(h) ==
  /\ pc[h] = "dropcreds"
  /\ creds' = [creds EXCEPT ![job[h].p] = @ + 1]
  /\ Goto(h, "droprow", job[h])
  /\ UNCHANGED <<row, global, own, memory, allocMu, overlap>>

DropRow(h) ==
  /\ pc[h] = "droprow"
  /\ row' = [row EXCEPT ![job[h].p].proxy = FALSE]
  /\ Goto(h, "dropsession", job[h])
  /\ UNCHANGED <<creds, global, own, memory, allocMu, overlap>>

\* After Hangup and the rest of the session's teardown.
DropSession(h) ==
  /\ pc[h] = "dropsession"
  /\ row' = [row EXCEPT ![job[h].p].session = FALSE]
  /\ Done(h)
  /\ UNCHANGED <<creds, global, own, memory, allocMu, overlap>>

-----------------------------------------------------------------------------
(* createSessionAndDial: unit and port under allocMu, the MAC before it.     *)

UsedMacs  == {row[p].mac : p \in Sessions}
UsedUnits == {row[p].unit : p \in Sessions}
UsedPorts == {row[p].port : p \in Live}

\* pickCustomMacOrRandom takes the first free MAC of the pool: which is first does
\* not matter.
PickMac(m) == IF Macs \subseteq UsedMacs THEN m = RandomMac ELSE m \in Macs \ UsedMacs

CreateBegin(h, m) ==
  /\ Arrives(h) /\ PickMac(m)
  /\ Begin(h, "lock", [Rest EXCEPT !.mac = m])
  /\ UNCHANGED <<tables, memory, allocMu, overlap>>

Unlock == allocMu' = NoOne

\* Variant: without allocMu.
CreateLock_Free(h) ==
  /\ pc[h] = "lock" /\ allocMu' = h
  /\ \/ Units \subseteq UsedUnits /\ Done(h)
     \/ \E u \in Units \ UsedUnits :
          /\ \A v \in Units \ UsedUnits : u <= v
          /\ Goto(h, "addsession", [job[h] EXCEPT !.unit = u])
  /\ UNCHANGED <<tables, memory, overlap>>

\* AllocPppUnit: the smallest free unit.
CreateLock(h) ==
  /\ pc[h] = "lock" /\ allocMu = NoOne
  /\ \/ Units \subseteq UsedUnits /\ Done(h) /\ UNCHANGED allocMu
     \/ \E u \in Units \ UsedUnits :
          /\ \A v \in Units \ UsedUnits : u <= v
          /\ Goto(h, "addsession", [job[h] EXCEPT !.unit = u])
          /\ allocMu' = h
  /\ UNCHANGED <<tables, memory, overlap>>

\* INSERT INTO sessions, refused by the unique index when the unit is taken.
CreateSession(h) ==
  /\ pc[h] = "addsession"
  /\ IF job[h].unit \in UsedUnits THEN Done(h) /\ Unlock /\ UNCHANGED row
     ELSE \E p \in Proxies :
          /\ ~row[p].born
          /\ row' = [row EXCEPT ![p] = [@ EXCEPT !.born = TRUE, !.session = TRUE,
                                                !.unit = job[h].unit, !.mac = job[h].mac]]
          /\ Goto(h, "allocport", [job[h] EXCEPT !.p = p]) /\ UNCHANGED allocMu
  /\ UNCHANGED <<creds, global, own, memory, overlap>>

\* AllocPort: any port no row has; without one the session is deleted again.
CreatePort(h) ==
  /\ pc[h] = "allocport"
  /\ \/ \E n \in Ports \ UsedPorts :
          Goto(h, "addproxy", [job[h] EXCEPT !.port = n]) /\ UNCHANGED <<row, allocMu>>
     \/ /\ Ports \subseteq UsedPorts
        /\ row' = [row EXCEPT ![job[h].p].session = FALSE]
        /\ Done(h) /\ Unlock
  /\ UNCHANGED <<creds, global, own, memory, overlap>>

\* Variant: the row is inserted without its port.
CreateProxy_NoPort(h) ==
  /\ pc[h] = "addproxy"
  /\ row' = [row EXCEPT ![job[h].p].proxy = TRUE]
  /\ Goto(h, "seed", job[h])
  /\ Unlock
  /\ UNCHANGED <<creds, global, own, memory, overlap>>

\* INSERT INTO proxies, refused by the unique index when the port is taken.
CreateProxy(h) ==
  /\ pc[h] = "addproxy"
  /\ IF job[h].port \in UsedPorts
     THEN row' = [row EXCEPT ![job[h].p].session = FALSE] /\ Done(h)
     ELSE /\ row' = [row EXCEPT ![job[h].p] = [@ EXCEPT !.proxy = TRUE, !.port = job[h].port]]
          /\ Goto(h, "seed", job[h])
  /\ Unlock
  /\ UNCHANGED <<creds, global, own, memory, overlap>>

\* The default cred, which nothing reloads; mode none has none.
CreateSeed(h) ==
  /\ pc[h] = "seed"
  /\ creds' = [creds EXCEPT ![job[h].p] = @ + 1] \/ UNCHANGED creds
  /\ overlap' = overlap \cup
       (IF listeners[job[h].p] # 0 \/ Busy(h, job[h].p, HoldsCreds) THEN {<<"creds", job[h].p>>}
        ELSE {})
  /\ Goto(h, "dial", job[h])
  /\ UNCHANGED <<row, global, own, memory, allocMu>>

\* A proxy_auth that is not valid is noticed only here: the rows go again.
CreateReject(h) ==
  /\ pc[h] = "seed"
  /\ overlap' = overlap \cup
       (IF listeners[job[h].p] # 0 \/ Busy(h, job[h].p, Switching) THEN {<<"status", job[h].p>>}
        ELSE {})
  /\ Goto(h, "droprow", job[h])
  /\ UNCHANGED <<tables, memory, allocMu>>

\* Dial loads the row; without one it fails.
CreateDial(h) ==
  /\ pc[h] = "dial"
  /\ Done(h) \/ (job[h].p \in Sessions /\ Goto(h, "dialing", job[h]))
  /\ UNCHANGED <<tables, memory, allocMu, overlap>>

\* Save writes the whole row (pppoe/manager.go:172, 219, 636): gorm inserts one that is
\* gone, and the unique index refuses it if its unit is taken.
Save(p) ==
  IF p \in Sessions \/ row[p].unit \in UsedUnits
  THEN UNCHANGED <<row, back>>
  ELSE /\ row' = [row EXCEPT ![p].session = TRUE]
       /\ back' = back \cup {q \in {p} : \E g \in Procs : /\ pc[g] = "addsession"
                                                         /\ job[g].unit = row[p].unit}

\* setStatus(dialing), with the line to itself.
CreateDialing(h) ==
  /\ pc[h] = "dialing"
  /\ Save(job[h].p)
  /\ Move(h, "dialed", job[h])
  /\ UNCHANGED <<creds, global, own, memory, allocMu, requests, held, overlap>>

\* It saves the outcome, and the proxy is started if it is connected.
CreateDialed(h) ==
  /\ pc[h] = "dialed"
  /\ Save(job[h].p)
  /\ \/ Move(h, "idle", Rest) /\ UNCHANGED overlap
     \/ Move(h, "start", job[h]) /\ Mark("status", h, job[h].p, Switching)
  /\ UNCHANGED <<creds, global, own, memory, allocMu, requests, held>>

-----------------------------------------------------------------------------
(* Dial, Rotate and Hangup of a session that somebody else asks for: a       *)
(* request, a loop or its deletion.  The row they have loaded may be deleted *)
(* before they save it, and several may have loaded it.                      *)

RowLoad(p) ==
  /\ requests > 0 /\ requests' = requests - 1
  /\ p \in Sessions \ held /\ held' = held \cup {p}
  /\ UNCHANGED <<tables, memory, allocMu, pc, job, back, overlap>>

RowSave(p) ==
  /\ p \in held /\ held' \in {held, held \ {p}}
  /\ Save(p)
  /\ UNCHANGED <<creds, global, own, memory, allocMu, pc, job, requests, overlap>>

-----------------------------------------------------------------------------
(* ReloadCreds after every change of creds, of one proxy or of several       *)
(* (bulk creation, release, prune, change, the cleanup of expired creds).    *)

Back(h, l, j) == IF j.todo = {} /\ j.ids = {} THEN Done(h) ELSE Goto(h, l, j)

\* Variant: no reload.
CredWrite_Alone(h, P) ==
  /\ Arrives(h) /\ P # {} /\ P \subseteq Live
  /\ creds' = [p \in Proxies |-> IF p \in P THEN creds[p] + 1 ELSE creds[p]]
  /\ UNCHANGED <<row, global, own, memory, allocMu, pc, job, saves, overlap>>

CredWrite(h, P) ==
  /\ Arrives(h) /\ P # {} /\ P \subseteq Live
  /\ creds' = [p \in Proxies |-> IF p \in P THEN creds[p] + 1 ELSE creds[p]]
  /\ Begin(h, "reload", [Rest EXCEPT !.todo = P])
  /\ UNCHANGED <<row, global, own, memory, allocMu, overlap>>

\* What a listener that stops in between is given has no effect.
ReloadCreds(h) ==
  /\ pc[h] = "reload"
  /\ \E p \in job[h].todo :
       /\ Mark("creds", h, p, HoldsCreds)
       /\ IF listeners[p] = 0
          THEN Back(h, "reload", [job[h] EXCEPT !.todo = @ \ {p}])
          ELSE Goto(h, "setcreds",
                    [job[h] EXCEPT !.p = p, !.l = listeners[p], !.copy = creds[p]])
  /\ UNCHANGED <<tables, memory, allocMu>>

SetCreds(h) ==
  /\ pc[h] = "setcreds"
  /\ GiveCreds(job[h].l, job[h].copy)
  /\ Back(h, "reload", [Rest EXCEPT !.todo = job[h].todo \ {job[h].p}])
  /\ UNCHANGED <<tables, cache, lastId, listeners, allocMu, overlap>>

-----------------------------------------------------------------------------
(* CreateRule, UpdateRule, DeleteRule: ReloadGlobalRules, ReloadSessionRules.*)

GlobalWrite(h) ==
  /\ Arrives(h)
  /\ global' = global + 1
  /\ Begin(h, "query", Rest)
  /\ UNCHANGED <<row, creds, own, memory, allocMu, overlap>>

\* LoadGlobalRules
GlobalQuery(h) ==
  /\ pc[h] = "query"
  /\ overlap' = overlap \cup
       (IF \E g \in Procs \ {h} : pc[g] = "cache" THEN {"cache"} \X Proxies ELSE {})
  /\ Goto(h, "cache", [job[h] EXCEPT !.copy = global])
  /\ UNCHANGED <<tables, memory, allocMu>>

\* Variant: the cache keeps what it has.
GlobalStore_Keep(h) ==
  /\ pc[h] = "cache"
  /\ Goto(h, "snapshot", Rest)
  /\ UNCHANGED <<tables, memory, allocMu, overlap>>

GlobalStore(h) ==
  /\ pc[h] = "cache"
  /\ cache' = job[h].copy
  /\ Goto(h, "snapshot", Rest)
  /\ UNCHANGED <<tables, open, lastId, listeners, allocMu, overlap>>

Registered == {listeners[p] : p \in Proxies} \ {0}

GlobalSnapshot(h) ==
  /\ pc[h] = "snapshot"
  /\ overlap' = overlap \cup {<<"rules", p>> : p \in {q \in Proxies : Busy(h, q, {"register"})}}
  /\ Back(h, "merge", [Rest EXCEPT !.ids = Registered])
  /\ UNCHANGED <<tables, memory, allocMu>>

SessionWrite(h, p) ==
  /\ Arrives(h) /\ p \in Sessions
  /\ own' = [own EXCEPT ![p] = @ + 1]
  /\ Begin(h, "target", [Rest EXCEPT !.p = p])
  /\ UNCHANGED <<row, creds, global, memory, allocMu, overlap>>

SessionTarget(h) ==
  /\ pc[h] = "target"
  /\ Mark("rules", h, job[h].p, {"register"})
  /\ Back(h, "merge", [Rest EXCEPT !.ids = {listeners[job[h].p]} \ {0}])
  /\ UNCHANGED <<tables, memory, allocMu>>

\* A listener that has stopped since is skipped: setting its rules has no effect.
Merge(h) ==
  /\ pc[h] = "merge"
  /\ \E l \in job[h].ids :
       \/ /\ \A o \in open : o.id # l
          /\ Back(h, "merge", [Rest EXCEPT !.ids = job[h].ids \ {l}])
          /\ UNCHANGED overlap
       \/ \E o \in open :
            /\ o.id = l
            /\ Mark("rules", h, o.proxy, HoldsRules)
            /\ Goto(h, "setrules", [job[h] EXCEPT !.p = o.proxy, !.l = l, !.copy = cache,
                                                  !.copyOwn = own[o.proxy]])
  /\ UNCHANGED <<tables, memory, allocMu>>

SetRules(h) ==
  /\ pc[h] = "setrules"
  /\ GiveRules(job[h].l, job[h].copy, job[h].copyOwn)
  /\ Back(h, "merge", [Rest EXCEPT !.ids = job[h].ids \ {job[h].l}])
  /\ UNCHANGED <<tables, cache, lastId, listeners, allocMu, overlap>>

-----------------------------------------------------------------------------
(* A crash and the next start.  RestoreAll loads the global rules and starts *)
(* every proxy in status running before anything else runs, and their ports  *)
(* differ: it is one step.                                                   *)

Restart ==
  /\ allocMu' = NoOne /\ overlap' = {} /\ held' = {} /\ back' = {}
  /\ pc' = [h \in Procs |-> "idle"] /\ job' = [h \in Procs |-> Rest]
  /\ LET up == {p \in Live : row[p].status = "running"} IN
       \E number \in [up -> 1..Cardinality(up)] :
         /\ \A p, q \in up : number[p] = number[q] => p = q
         /\ cache' = global /\ lastId' = Cardinality(up)
         /\ open' = {[id |-> number[p], proxy |-> p, port |-> row[p].port, creds |-> creds[p],
                      global |-> global, own |-> own[p]] : p \in up}
         /\ listeners' = [p \in Proxies |-> IF p \in up THEN number[p] ELSE 0]
  /\ UNCHANGED <<tables, requests>>

-----------------------------------------------------------------------------
Step(h) ==
  \/ StartNothing(h) \/ StartLoad(h) \/ StartBind(h) \/ StartCreds(h) \/ StartRules(h)
  \/ StartRegister(h) \/ StartRunning(h)
  \/ StopRemove(h) \/ StopClose(h) \/ StopStatus(h) \/ DropCreds(h) \/ DropRow(h) \/ DropSession(h)
  \/ CreateLock(h) \/ CreateSession(h) \/ CreatePort(h) \/ CreateProxy(h) \/ CreateSeed(h)
  \/ CreateReject(h) \/ CreateDial(h) \/ CreateDialing(h) \/ CreateDialed(h)
  \/ ReloadCreds(h) \/ SetCreds(h)
  \/ GlobalQuery(h) \/ GlobalStore(h) \/ GlobalSnapshot(h) \/ SessionTarget(h) \/ Merge(h)
  \/ SetRules(h)

Request(h) ==
  \/ \E p \in Proxies : Enable(h, p) \/ Disable(h, p) \/ Delete(h, p) \/ SessionWrite(h, p)
  \/ \E m \in Macs \cup {RandomMac} : CreateBegin(h, m)
  \/ \E P \in SUBSET Proxies : CredWrite(h, P)
  \/ GlobalWrite(h)

Next == \/ \E h \in Procs : Step(h) \/ Request(h)
        \/ \E p \in Proxies : RowLoad(p) \/ RowSave(p)
        \/ Restart

Spec == Init /\ [][Next]_vars

-----------------------------------------------------------------------------
(* Properties. *)

\* Every bound socket belongs to one goroutine that is starting or stopping it, or
\* is in the map, and a proxy never has two: no Start, Stop, deletion or failure
\* leaks one.  What the map names is bound.
Owned ==
  /\ \A o \in open :
       \/ listeners[o.proxy] = o.id
       \/ \E h \in Procs : job[h].l = o.id /\ pc[h] \in {"creds", "rules", "register", "close"}
  /\ \A a, b \in open : a.proxy = b.proxy => a = b
  /\ \A p \in Proxies : listeners[p] # 0 => \E o \in open : o.id = listeners[p] /\ o.proxy = p

\* A bound socket has the port of a row, so that a port AllocPort gives away is
\* free; only an enable that overlaps the deletion can leave a listener without row.
PortsReturn ==
  \A o \in open : \/ o.proxy \in Live /\ row[o.proxy].port = o.port
                  \/ <<"status", o.proxy>> \in overlap

\* Nobody is between a change of p and what follows from it.
Calm(p, labels) ==
  \A h \in Procs : (job[h].p = p \/ p \in job[h].todo \/ listeners[p] \in job[h].ids)
                   => pc[h] \notin labels

\* Reloads that do not overlap another one, or a Start, leave the listener with
\* the creds of the table: ReloadCreds misses no change.
CredsFresh ==
  \A p \in Live, o \in open :
    /\ listeners[p] = o.id
    /\ Calm(p, {"reload", "setcreds"} \cup Stopping)
    /\ <<"creds", p>> \notin overlap
    => o.creds = creds[p]

\* The same for access rules, where a change of the global ones has to pass
\* through the cache to every listener.
RulesFresh ==
  \A p \in Live, o \in open :
    /\ listeners[p] = o.id
    /\ Calm(p, {"target", "merge", "setrules"})
    /\ <<"rules", p>> \notin overlap
    => /\ o.own = own[p]
       /\ \/ o.global = global
          \/ <<"cache", p>> \in overlap
          \/ \E h \in Procs : pc[h] \in {"query", "cache", "snapshot"}

\* Once nobody starts or stops it, a proxy's status tells whether it listens, so
\* that a restart brings back what was running.
StatusTruthful ==
  \A p \in Live : Calm(p, Switching) /\ <<"status", p>> \notin overlap
                  => (row[p].status = "running" <=> listeners[p] # 0)

\* allocMu: between choosing a unit or a port and inserting it nobody takes it, so that
\* a unique index refuses a creation only if a Save, which is outside allocMu, has
\* put a deleted session with that unit back in between.
AllocExact ==
  \A h \in Procs :
    /\ pc[h] = "addsession" => \A p \in Sessions : row[p].unit = job[h].unit => p \in back
    /\ pc[h] = "addproxy" => job[h].port \notin UsedPorts
=============================================================================
