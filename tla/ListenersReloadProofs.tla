------------------------ MODULE ListenersReloadProofs ------------------------
(* Further proofs about Listeners: what a reload has not yet given a listener *)
(* is still on its way to it, unless reloads of the same proxy overlap.       *)
EXTENDS ListenersProofs

\* The listeners a goroutine with job j at label c will give something to.
HeldIds(j, c) == (IF c \in {"setcreds", "setrules"} THEN {j.l} ELSE {})
                 \cup (IF c \in {"merge", "setrules"} THEN j.ids ELSE {})

\* They have been in the map, and the one at hand is the proxy's that h works on.
HeldSound ==
  \A h \in Procs :
    /\ \A l \in HeldIds(job[h], pc[h]) :
         l <= lastId /\ \A g \in Procs : pc[g] \in {"creds", "rules", "register"} => job[g].l # l
    /\ pc[h] \in {"setcreds", "setrules"} => \A o \in open : o.id = job[h].l => o.proxy = job[h].p

\* A reload will still come to the creds of p.
CredsDue(p) ==
  \E h \in Procs : \/ pc[h] = "reload" /\ p \in job[h].todo
                   \/ pc[h] = "setcreds" /\ p \in job[h].todo /\ job[h].p # p

\* p has no row, or loses it next.
Going(p) == ~row[p].proxy \/ \E h \in Procs : pc[h] = "droprow" /\ job[h].p = p

\* Listener o has the creds of the table, or will be given them, or is closed.
CredsKept(o) ==
  /\ \/ o.creds = creds[o.proxy] \/ CredsDue(o.proxy) \/ Going(o.proxy)
     \/ \E h \in Procs : pc[h] \in {"creds", "setcreds", "close"} /\ job[h].l = o.id
  /\ \A h \in Procs : pc[h] = "setcreds" /\ job[h].l = o.id =>
       job[h].copy = creds[o.proxy] \/ CredsDue(o.proxy) \/ Going(o.proxy)

CredsInv == \A o \in open : <<"creds", o.proxy>> \notin overlap => CredsKept(o)

\* A reload will still come to the rules of listener o.
RulesDue(o) ==
  \E h \in Procs : \/ pc[h] = "merge" /\ o.id \in job[h].ids
                   \/ pc[h] = "setrules" /\ o.id \in job[h].ids /\ job[h].l # o.id

\* A change of the global rules is not yet in the cache, or the listeners that are
\* to have it are not yet counted.
Loading == \E h \in Procs : pc[h] \in {"query", "cache", "snapshot"}
Targeting(p) == \E h \in Procs : pc[h] = "target" /\ job[h].p = p

\* The cache has the global rules, or somebody is about to write them there.
CacheKept ==
  /\ cache = global \/ \E h \in Procs : pc[h] \in {"query", "cache"}
  /\ \A h \in Procs : pc[h] = "cache" =>
       job[h].copy = global \/ \E g \in Procs : pc[g] = "query"

CacheInv == \A p \in Proxies : <<"cache", p>> \notin overlap => CacheKept

Closing(o) == \E h \in Procs : pc[h] = "close" /\ job[h].l = o.id

\* Listener o has the rules of p, or will be given them, or is closed.
OwnKept(o) ==
  /\ \/ o.own = own[o.proxy] \/ RulesDue(o) \/ Targeting(o.proxy) \/ Closing(o)
     \/ \E h \in Procs : pc[h] \in {"creds", "rules", "setrules"} /\ job[h].l = o.id
  /\ \A h \in Procs : pc[h] = "setrules" /\ job[h].l = o.id =>
       job[h].copyOwn = own[o.proxy] \/ RulesDue(o) \/ Targeting(o.proxy) \/ Closing(o)

GlobalKept(o) ==
  /\ \/ o.global = global \/ RulesDue(o) \/ Loading \/ Closing(o)
     \/ \E h \in Procs : pc[h] \in {"creds", "rules", "setrules"} /\ job[h].l = o.id
  /\ \A h \in Procs : pc[h] = "setrules" /\ job[h].l = o.id =>
       job[h].copy = global \/ RulesDue(o) \/ Loading \/ Closing(o)

RulesInv ==
  \A o \in open : <<"rules", o.proxy>> \notin overlap =>
    OwnKept(o) /\ (<<"cache", o.proxy>> \notin overlap => GlobalKept(o))

ReloadInv == HeldSound /\ CredsInv /\ CacheInv /\ RulesInv

-----------------------------------------------------------------------------
(* Sockets. *)

\* What creds.set leaves of each listener.
LEMMA CredsGiven ==
  ASSUME open \subseteq Listener, NEW l, NEW c, GiveCreds(l, c), NEW n \in open'
  PROVE  \E o \in open : /\ n.id = o.id /\ n.proxy = o.proxy /\ n.global = o.global /\ n.own = o.own
                         /\ n.creds = IF o.id = l THEN c ELSE o.creds
<1>1. PICK o \in open : n = IF o.id = l THEN [o EXCEPT !.creds = c] ELSE o
  BY DEF GiveCreds
<1>2. o \in Listener
  OBVIOUS
<1> QED BY <1>1, <1>2 DEF Listener

\* What rules.set leaves of each listener.
LEMMA RulesGiven ==
  ASSUME open \subseteq Listener, NEW l, NEW g, NEW w, GiveRules(l, g, w), NEW n \in open'
  PROVE  \E o \in open : /\ n.id = o.id /\ n.proxy = o.proxy /\ n.creds = o.creds
                         /\ n.global = IF o.id = l THEN g ELSE o.global
                         /\ n.own = IF o.id = l THEN w ELSE o.own
<1>1. PICK o \in open : n = IF o.id = l THEN [o EXCEPT !.global = g, !.own = w] ELSE o
  BY DEF GiveRules
<1>2. o \in Listener
  OBVIOUS
<1> QED BY <1>1, <1>2 DEF Listener

\* A listener that is not in the map is being started or stopped, for its proxy.
LEMMA Somewhere ==
  ASSUME HandInv, NEW o \in open
  PROVE  \/ listeners[o.proxy] = o.id
         \/ \E h \in Procs : job[h].l = o.id /\ job[h].p = o.proxy /\ pc[h] \in InHand
<1>1. SUFFICES ASSUME NEW h \in Procs, job[h].l = o.id, pc[h] \in InHand
               PROVE  job[h].p = o.proxy
  BY DEF HandInv, Owned, InHand
<1>2. PICK q \in open : q.id = job[h].l /\ q.proxy = job[h].p
  BY <1>1, HandHolds
<1> QED BY <1>1, <1>2 DEF HandInv, IdsSound

\* The one that is in the map for p is p's.
LEMMA NamedOwner ==
  ASSUME HandInv, NEW p \in Proxies, NEW o \in open, listeners[p] = o.id, o.id # 0
  PROVE  o.proxy = p
<1>1. PICK q \in open : q.id = listeners[p] /\ q.proxy = p
  BY DEF HandInv, Owned
<1> QED BY <1>1 DEF HandInv, IdsSound

-----------------------------------------------------------------------------
(* What a step of h keeps of each promise.                                   *)

\* What is due stays due, unless h does it.
LEMMA CredsStayDue ==
  ASSUME NEW h \in Procs, Others(h), NEW p, CredsDue(p), pc[h] \notin {"reload", "setcreds"}
  PROVE  CredsDue(p)'
BY DEF CredsDue, Others

\* The same of rules.
LEMMA RulesStayDue ==
  ASSUME NEW h \in Procs, Others(h), NEW o, NEW n, n.id = o.id, RulesDue(o),
         pc[h] \notin {"merge", "setrules"}
  PROVE  RulesDue(n)'
BY DEF RulesDue, Others

\* The creds of listener o, which is n after the step.
LEMMA CredsFrame ==
  ASSUME NEW h \in Procs, Others(h), NEW o, NEW n, CredsKept(o), n.id = o.id, n.proxy = o.proxy,
         creds'[o.proxy] = creds[o.proxy], row'[o.proxy].proxy => row[o.proxy].proxy,
         ~(pc[h] = "droprow" /\ job[h].p = o.proxy),
         CredsDue(o.proxy) => CredsDue(n.proxy)',
         \/ n.creds = creds[o.proxy]
         \/ /\ n.creds = o.creds
            /\ pc[h] \in {"creds", "setcreds", "close"} => job[h].l # o.id,
         pc'[h] = "setcreds" /\ job'[h].l = n.id => job'[h].copy = creds[o.proxy]
  PROVE  CredsKept(n)'
<1>1. Going(o.proxy) => Going(n.proxy)'
  BY DEF Going, Others
<1>2. \/ n.creds = creds'[n.proxy] \/ CredsDue(n.proxy)' \/ Going(n.proxy)'
      \/ \E g \in Procs : pc'[g] \in {"creds", "setcreds", "close"} /\ job'[g].l = n.id
  BY <1>1 DEF CredsKept, Others
<1>3. \A g \in Procs : pc'[g] = "setcreds" /\ job'[g].l = n.id =>
        job'[g].copy = creds'[n.proxy] \/ CredsDue(n.proxy)' \/ Going(n.proxy)'
  BY <1>1 DEF CredsKept, Others
<1> QED BY <1>2, <1>3 DEF CredsKept

\* Its session's rules.
LEMMA OwnFrame ==
  ASSUME NEW h \in Procs, Others(h), NEW o, NEW n, OwnKept(o), n.id = o.id, n.proxy = o.proxy,
         own'[o.proxy] = own[o.proxy],
         ~(pc[h] = "target" /\ job[h].p = o.proxy), ~(pc[h] = "close" /\ job[h].l = o.id),
         RulesDue(o) => RulesDue(n)',
         \/ n.own = own[o.proxy]
         \/ /\ n.own = o.own
            /\ pc[h] \in {"creds", "rules", "setrules"} /\ job[h].l = o.id
                 => pc'[h] = "rules" /\ job'[h].l = o.id,
         pc'[h] = "setrules" /\ job'[h].l = n.id => job'[h].copyOwn = own[o.proxy]
  PROVE  OwnKept(n)'
<1>1. Targeting(o.proxy) => Targeting(n.proxy)'
  BY DEF Targeting, Others
<1>2. Closing(o) => Closing(n)'
  BY DEF Closing, Others
<1>3. \/ n.own = own'[n.proxy] \/ RulesDue(n)' \/ Targeting(n.proxy)' \/ Closing(n)'
      \/ \E g \in Procs : pc'[g] \in {"creds", "rules", "setrules"} /\ job'[g].l = n.id
  BY <1>1, <1>2 DEF OwnKept, Others
<1>4. \A g \in Procs : pc'[g] = "setrules" /\ job'[g].l = n.id =>
        job'[g].copyOwn = own'[n.proxy] \/ RulesDue(n)' \/ Targeting(n.proxy)' \/ Closing(n)'
  BY <1>1, <1>2 DEF OwnKept, Others
<1> QED BY <1>3, <1>4 DEF OwnKept

\* Its global rules.
LEMMA GlobalFrame ==
  ASSUME NEW h \in Procs, Others(h), NEW o, NEW n, GlobalKept(o), n.id = o.id, n.proxy = o.proxy,
         global' = global, Loading => Loading', ~(pc[h] = "close" /\ job[h].l = o.id),
         RulesDue(o) => RulesDue(n)',
         \/ n.global = global
         \/ /\ n.global = o.global
            /\ pc[h] \in {"creds", "rules", "setrules"} /\ job[h].l = o.id
                 => pc'[h] = "rules" /\ job'[h].l = o.id,
         pc'[h] = "setrules" /\ job'[h].l = n.id => job'[h].copy = global
  PROVE  GlobalKept(n)'
<1>1. Closing(o) => Closing(n)'
  BY DEF Closing, Others
<1>2. \/ n.global = global' \/ RulesDue(n)' \/ Loading' \/ Closing(n)'
      \/ \E g \in Procs : pc'[g] \in {"creds", "rules", "setrules"} /\ job'[g].l = n.id
  BY <1>1 DEF GlobalKept, Others
<1>3. \A g \in Procs : pc'[g] = "setrules" /\ job'[g].l = n.id =>
        job'[g].copy = global' \/ RulesDue(n)' \/ Loading' \/ Closing(n)'
  BY <1>1 DEF GlobalKept, Others
<1> QED BY <1>2, <1>3 DEF GlobalKept

\* Any promise about the global rules holds while somebody loads them.
LEMMA LoadingKeeps == ASSUME NEW n, Loading' PROVE GlobalKept(n)'
BY DEF GlobalKept

\* Loading goes on, unless h ends it.
LEMMA LoadingStays ==
  ASSUME NEW h \in Procs, Others(h), Loading,
         pc[h] \in {"query", "cache", "snapshot"} => pc'[h] \in {"query", "cache", "snapshot"}
  PROVE  Loading'
BY DEF Loading, Others

\* The cache.
LEMMA CacheFrame ==
  ASSUME NEW h \in Procs, Others(h), CacheKept, cache' = cache, global' = global,
         pc[h] \notin {"query", "cache"}, pc'[h] # "cache"
  PROVE  CacheKept'
BY DEF CacheKept, Others

\* A listener in the map has left the hands of the Start that made it.
LEMMA InMapPast ==
  ASSUME HandInv, NEW l \in Registered
  PROVE  l <= lastId /\ \A g \in Procs : pc[g] \in {"creds", "rules", "register"} => job[g].l # l
<1>1. PICK p \in Proxies : listeners[p] = l /\ l # 0
  BY DEF Registered
<1>2. PICK q \in open : q.id = l /\ q.proxy = p
  BY <1>1 DEF HandInv, Owned
<1>3. ASSUME NEW g \in Procs, pc[g] \in {"creds", "rules", "register"}, job[g].l = l PROVE FALSE
  <2>1. pc[g] \in InHand
    BY <1>3 DEF InHand
  <2>2. PICK o \in open : o.id = l /\ o.proxy = job[g].p
    BY <1>3, <2>1, HandHolds
  <2>3. job[g].p = p
    BY <1>2, <2>2 DEF HandInv, IdsSound
  <2> QED BY <1>1, <1>3, <2>1, <2>3, HandHolds
<1> QED BY <1>2, <1>3 DEF HandInv, IdsSound

\* What a reload holds.
LEMMA HeldFrame ==
  ASSUME HandInv, HeldSound, NEW h \in Procs, Others(h), lastId' = lastId,
         \A n \in open' : \E o \in open : n.id = o.id /\ n.proxy = o.proxy,
         HeldIds(job'[h], pc'[h]) \subseteq HeldIds(job[h], pc[h]) \cup Registered,
         pc'[h] \in {"creds", "rules", "register"} =>
           pc[h] \in {"creds", "rules", "register"} /\ job'[h].l = job[h].l,
         pc'[h] \in {"setcreds", "setrules"} =>
           \A o \in open : o.id = job'[h].l => o.proxy = job'[h].p
  PROVE  HeldSound'
<1>1. \A g \in Procs : pc'[g] \in {"creds", "rules", "register"} =>
        pc[g] \in {"creds", "rules", "register"} /\ job'[g].l = job[g].l
  BY DEF Others
<1>2. ASSUME NEW g \in Procs, NEW l \in HeldIds(job'[g], pc'[g])
      PROVE  /\ l <= lastId'
             /\ \A k \in Procs : pc'[k] \in {"creds", "rules", "register"} => job'[k].l # l
  <2>1. CASE l \in Registered
    BY <1>1, <2>1, InMapPast
  <2>2. CASE l \in HeldIds(job[g], pc[g])
    BY <1>1, <2>2 DEF HeldSound
  <2> QED BY <1>2, <2>1, <2>2 DEF Others
<1>3. \A g \in Procs : pc'[g] \in {"setcreds", "setrules"} =>
        \A n \in open' : n.id = job'[g].l => n.proxy = job'[g].p
  BY DEF HeldSound, Others
<1> QED BY <1>2, <1>3 DEF HeldSound

-----------------------------------------------------------------------------
(* The steps that change neither creds nor rules, and are not about a reload. *)

Ordinary(h) ==
  \/ StartNothing(h) \/ StartLoad(h) \/ StartRegister(h) \/ StartRunning(h)
  \/ StartBind(h) /\ open' = open
  \/ StopRemove(h) \/ StopStatus(h) \/ DropSession(h)
  \/ CreateLock(h) \/ CreateSession(h) \/ CreatePort(h) \/ CreateReject(h)
  \/ CreateDial(h) \/ CreateDialing(h) \/ CreateDialed(h)
  \/ \E p \in Proxies : Enable(h, p) \/ Disable(h, p) \/ Delete(h, p)
  \/ \E m \in Macs \cup {RandomMac} : CreateBegin(h, m)

\* A Start that makes no listener has found its port taken.
LEMMA Refused ==
  ASSUME NEW h \in Procs, StartBind(h), open' = open
  PROVE  /\ pc[h] = "bind" /\ Done(h)
         /\ UNCHANGED <<row, creds, global, own, cache, open, lastId, overlap>>
<1>1. CASE \E o \in open : o.port = job[h].port
  BY <1>1 DEF StartBind, tables
<1>2. CASE ~\E o \in open : o.port = job[h].port
  <2> DEFINE new == [id |-> lastId + 1, proxy |-> job[h].p, port |-> job[h].port,
                     creds |-> 0, global |-> 0, own |-> 0]
  <2>1. new \in open' /\ new.port = job[h].port
    BY <1>2 DEF StartBind
  <2> HIDE DEF new
  <2> QED BY <1>2, <2>1
<1> QED BY <1>1, <1>2

\* Where they come from and lead to.
LEMMA OrdinaryMoves ==
  ASSUME TypeOK, NEW h \in Procs, Ordinary(h)
  PROVE  /\ Others(h)
         /\ pc[h] \in {"idle", "start", "bind", "register", "running", "stop", "stopped",
                       "dropsession", "lock", "addsession", "allocport", "seed", "dial",
                       "dialing", "dialed"}
         /\ pc'[h] \in {"idle", "start", "bind", "running", "stop", "close", "stopped", "dropcreds",
                        "droprow", "dropsession", "lock", "addsession", "allocport", "addproxy",
                        "dialing", "dialed"}
<1>1. CASE \/ StartNothing(h) \/ StartLoad(h) \/ StartRegister(h) \/ StartRunning(h)
           \/ StopRemove(h) \/ StopStatus(h) \/ DropSession(h)
  BY <1>1, Placed, DonePlaced DEF StartNothing, StartLoad, StartRegister, StartRunning, StopRemove,
     StopStatus, DropSession, Goto
<1>2. CASE StartBind(h) /\ open' = open
  BY <1>2, Refused, DonePlaced
<1>3. CASE \/ CreateLock(h) \/ CreateSession(h) \/ CreatePort(h) \/ CreateReject(h) \/ CreateDial(h)
  <2>1. /\ pc[h] \in {"lock", "addsession", "allocport", "seed", "dial"}
        /\ \/ Done(h)
           \/ \E l \in {"addsession", "allocport", "addproxy", "droprow", "dialing"} :
                \E j : Begin(h, l, j)
    BY <1>3 DEF CreateLock, CreateSession, CreatePort, CreateReject, CreateDial, Goto
  <2> QED BY <2>1, Placed, DonePlaced
<1>4. CASE \/ \E p \in Proxies : Enable(h, p) \/ Disable(h, p) \/ Delete(h, p)
           \/ \E m \in Macs \cup {RandomMac} : CreateBegin(h, m)
  <2>1. /\ pc[h] = "idle"
        /\ \E l \in {"start", "stop", "dropsession", "lock"} : \E j : Begin(h, l, j)
    BY <1>4 DEF Enable, Disable, Delete, CreateBegin, Arrives
  <2> QED BY <2>1, Placed
<1>5. CASE CreateDialing(h) \/ CreateDialed(h)
  BY <1>5, SavePlaced DEF CreateDialing, CreateDialed
<1> QED BY <1>1, <1>2, <1>3, <1>4, <1>5 DEF Ordinary

\* Writes of a status or of a session add no proxy and take none away.
LEMMA RowWrites ==
  ASSUME TypeOK, NEW p \in Proxies, NEW q
  PROVE  /\ \A t : SetStatus(q, t) => row'[p].proxy = row[p].proxy
         /\ row' = [row EXCEPT ![q].session = FALSE] => row'[p].proxy = row[p].proxy
         /\ \A u, m : row' = [row EXCEPT ![q] = [row[q] EXCEPT !.born = TRUE, !.session = TRUE,
                                                               !.unit = u, !.mac = m]]
                        => row'[p].proxy = row[p].proxy
<1>1. row \in [Proxies -> Row] /\ row[p] \in Row
  BY DEF TypeOK, TablesOK
<1>2. ASSUME NEW t, SetStatus(q, t) PROVE row'[p].proxy = row[p].proxy
  <2>1. row'[p] \in {row[p], [row[p] EXCEPT !.status = t]}
    <3>1. CASE q \in Live
      <4>1. row' = [row EXCEPT ![q] = [row[q] EXCEPT !.status = t]]
        BY <1>2, <3>1 DEF SetStatus
      <4> QED BY <1>1, <4>1
    <3>2. CASE q \notin Live
      BY <1>2, <3>2 DEF SetStatus
    <3> QED BY <3>1, <3>2
  <2> QED BY <1>1, <2>1 DEF Row
<1>3. ASSUME row' = [row EXCEPT ![q].session = FALSE] PROVE row'[p].proxy = row[p].proxy
  <2>1. row'[p] \in {row[p], [row[p] EXCEPT !.session = FALSE]}
    BY <1>1, <1>3
  <2> QED BY <1>1, <2>1 DEF Row
<1>4. ASSUME NEW u, NEW m,
             row' = [row EXCEPT ![q] = [row[q] EXCEPT !.born = TRUE, !.session = TRUE,
                                                      !.unit = u, !.mac = m]]
      PROVE  row'[p].proxy = row[p].proxy
  <2>1. row'[p] \in {row[p], [row[p] EXCEPT !.born = TRUE, !.session = TRUE, !.unit = u, !.mac = m]}
    BY <1>1, <1>4
  <2> QED BY <1>1, <2>1 DEF Row
<1> QED BY <1>2, <1>3, <1>4

\* What they leave as it is.
LEMMA OrdinaryKeeps ==
  ASSUME TypeOK, NEW h \in Procs, Ordinary(h)
  PROVE  /\ UNCHANGED <<creds, global, own, cache, open, lastId>>
         /\ \A p \in Proxies : row'[p].proxy => row[p].proxy
         /\ overlap \subseteq overlap'
<1>1. CASE StartBind(h) /\ open' = open
  BY <1>1, Refused
<1>2. CASE \/ StartNothing(h) \/ StartLoad(h) \/ StartRegister(h) \/ StartRunning(h)
           \/ StopRemove(h) \/ StopStatus(h) \/ DropSession(h)
  <2>1. UNCHANGED <<creds, global, own, cache, open, lastId, overlap>>
    BY <1>2 DEF StartNothing, StartLoad, StartRegister, StartRunning, StopRemove, StopStatus,
       DropSession, tables, memory
  <2>2. \/ row' = row
        \/ \E t : SetStatus(job[h].p, t)
        \/ row' = [row EXCEPT ![job[h].p].session = FALSE]
    BY <1>2 DEF StartNothing, StartLoad, StartRegister, StartRunning, StopRemove, StopStatus,
       DropSession, tables
  <2>3. \A p \in Proxies : row'[p].proxy = row[p].proxy
    BY <2>2, RowWrites
  <2> QED BY <2>1, <2>3
<1>3. CASE \/ CreateLock(h) \/ CreateReject(h) \/ CreateDial(h)
           \/ \E p \in Proxies : Enable(h, p) \/ Disable(h, p) \/ Delete(h, p)
           \/ \E m \in Macs \cup {RandomMac} : CreateBegin(h, m)
  BY <1>3 DEF CreateLock, CreateReject, CreateDial, Enable, Disable, Delete, CreateBegin, Mark,
     tables, memory
<1>4. CASE CreateSession(h) \/ CreatePort(h)
  <2>1. UNCHANGED <<creds, global, own, cache, open, lastId, overlap>>
    BY <1>4 DEF CreateSession, CreatePort, memory
  <2>2. \/ row' = row
        \/ row' = [row EXCEPT ![job[h].p].session = FALSE]
        \/ \E q \in Proxies :
             row' = [row EXCEPT ![q] = [row[q] EXCEPT !.born = TRUE, !.session = TRUE,
                                               !.unit = job[h].unit, !.mac = job[h].mac]]
    BY <1>4 DEF CreateSession, CreatePort
  <2>3. ASSUME NEW p \in Proxies PROVE row'[p].proxy = row[p].proxy
    <3>1. CASE row' = row \/ row' = [row EXCEPT ![job[h].p].session = FALSE]
      BY <3>1, RowWrites
    <3>2. CASE \E q \in Proxies :
             row' = [row EXCEPT ![q] = [row[q] EXCEPT !.born = TRUE, !.session = TRUE,
                                               !.unit = job[h].unit, !.mac = job[h].mac]]
      <4>1. PICK q \in Proxies :
             row' = [row EXCEPT ![q] = [row[q] EXCEPT !.born = TRUE, !.session = TRUE,
                                               !.unit = job[h].unit, !.mac = job[h].mac]]
        BY <3>2
      <4> QED BY <4>1, RowWrites
    <3> QED BY <2>2, <3>1, <3>2
  <2> QED BY <2>1, <2>3
<1>5. CASE CreateDialing(h) \/ CreateDialed(h)
  <2>1. job[h].p \in Proxies /\ Save(job[h].p)
    BY <1>5, AtWork DEF CreateDialing, CreateDialed, OnProxy
  <2>2. UNCHANGED <<creds, global, own, cache, open, lastId>> /\ overlap \subseteq overlap'
    BY <1>5 DEF CreateDialing, CreateDialed, Mark, memory
  <2> QED BY <2>1, <2>2, SaveSession
<1> QED BY <1>1, <1>2, <1>3, <1>4, <1>5 DEF Ordinary

\* So they keep every promise.
LEMMA OrdinaryKept ==
  ASSUME TypeOK, HandInv, ReloadInv, NEW h \in Procs, Ordinary(h)
  PROVE  ReloadInv'
<1>1. /\ Others(h)
      /\ pc[h] \notin {"reload", "setcreds", "droprow", "creds", "close", "merge", "setrules",
                       "target", "rules", "query", "cache", "snapshot"}
      /\ pc'[h] \notin {"setcreds", "setrules", "cache"}
  BY OrdinaryMoves
<1>2. /\ UNCHANGED <<creds, global, own, cache, open, lastId>> /\ overlap \subseteq overlap'
      /\ \A o \in open : row'[o.proxy].proxy => row[o.proxy].proxy
  <2>1. \A o \in open : o.proxy \in Proxies
    BY DEF TypeOK, MemoryOK, Listener
  <2> QED BY <2>1, OrdinaryKeeps
<1>3. HeldSound'
  <2>1. HeldIds(job'[h], pc'[h]) = {}
    BY OrdinaryMoves DEF HeldIds
  <2> QED BY <1>1, <1>2, <2>1, HeldFrame, OrdinaryMoves DEF ReloadInv
<1>4. ASSUME NEW n \in open', <<"creds", n.proxy>> \notin overlap' PROVE CredsKept(n)'
  <2>1. n \in open /\ CredsKept(n)
    BY <1>2, <1>4 DEF ReloadInv, CredsInv
  <2> QED BY <1>1, <1>2, <2>1, CredsFrame, CredsStayDue
<1>5. CacheInv'
  BY <1>1, <1>2, CacheFrame DEF ReloadInv, CacheInv
<1>6. ASSUME NEW n \in open', <<"rules", n.proxy>> \notin overlap'
      PROVE  OwnKept(n)' /\ (<<"cache", n.proxy>> \notin overlap' => GlobalKept(n)')
  <2>1. n \in open /\ OwnKept(n) /\ (<<"cache", n.proxy>> \notin overlap' => GlobalKept(n))
    BY <1>2, <1>6 DEF ReloadInv, RulesInv
  <2>2. OwnKept(n)'
    BY <1>1, <1>2, <2>1, OwnFrame, RulesStayDue
  <2>3. GlobalKept(n) => GlobalKept(n)'
    BY <1>1, <1>2, GlobalFrame, RulesStayDue, LoadingStays
  <2> QED BY <2>1, <2>2, <2>3
<1> QED BY <1>3, <1>4, <1>5, <1>6 DEF ReloadInv, CredsInv, RulesInv

-----------------------------------------------------------------------------
(* Start and Stop of a listener. *)

\* The ids a goroutine holds are numbers.
LEMMA HeldInNat == ASSUME TypeOK, NEW g \in Procs PROVE HeldIds(job[g], pc[g]) \subseteq Nat
BY AtWork DEF HeldIds, Job

\* A new listener is in the hands of its Start, that will read all it needs.
LEMMA BindReload ==
  ASSUME TypeOK, PortsSound, HandInv, ReloadInv, NEW h \in Procs, StartBind(h), open' # open
  PROVE  ReloadInv'
<1>0. PICK new : new = [id |-> lastId + 1, proxy |-> job[h].p, port |-> job[h].port,
                        creds |-> 0, global |-> 0, own |-> 0]
  OBVIOUS
<1>1. /\ pc[h] = "bind" /\ ~\E o \in open : o.port = job[h].port
      /\ lastId' = lastId + 1 /\ open' = open \cup {new}
      /\ overlap' = overlap \ {<<"creds", job[h].p>>, <<"rules", job[h].p>>}
      /\ Goto(h, "creds", [job[h] EXCEPT !.l = lastId + 1])
      /\ UNCHANGED <<row, creds, global, own, cache>>
  BY <1>0 DEF StartBind, tables
<1>2. job[h].p \in Proxies /\ lastId \in Nat
  BY <1>1, AtWork DEF OnProxy, Starting, TypeOK, MemoryOK
<1>3. /\ Others(h) /\ pc'[h] = "creds" /\ job'[h].l = lastId + 1
  BY <1>1, Placed, AtWork DEF Goto, Job
<1>4. \A o \in open : o.proxy # job[h].p
  BY <1>1, <1>2, FreePort DEF PortsSound
<1>5. new.id = lastId + 1 /\ new.proxy = job[h].p
  BY <1>0
<1>6. \A g \in Procs : \A l \in HeldIds(job[g], pc[g]) : l # lastId + 1 /\ l <= lastId + 1
  <2> SUFFICES ASSUME NEW g \in Procs, NEW l \in HeldIds(job[g], pc[g])
               PROVE  l # lastId + 1 /\ l <= lastId + 1
    OBVIOUS
  <2>1. l \in Nat
    BY HeldInNat
  <2>2. l <= lastId
    BY DEF ReloadInv, HeldSound
  <2> QED BY <1>2, <2>1, <2>2
<1>7. \A g \in Procs : pc'[g] \in {"setcreds", "setrules"} =>
        /\ pc[g] = pc'[g] /\ job'[g] = job[g]
        /\ job[g].l \in HeldIds(job[g], pc[g])
  BY <1>3 DEF Others, HeldIds
<1>8. HeldSound'
  <2>1. ASSUME NEW g \in Procs, NEW l \in HeldIds(job'[g], pc'[g])
        PROVE  /\ l <= lastId'
               /\ \A k \in Procs : pc'[k] \in {"creds", "rules", "register"} => job'[k].l # l
    <3>1. g # h /\ l \in HeldIds(job[g], pc[g])
      BY <1>3, <2>1 DEF HeldIds, Others
    <3> QED BY <1>1, <1>3, <1>6, <3>1 DEF ReloadInv, HeldSound, Others
  <2>2. ASSUME NEW g \in Procs, pc'[g] \in {"setcreds", "setrules"}, NEW n \in open',
               n.id = job'[g].l
        PROVE  n.proxy = job'[g].p
    <3>1. n \in open
      BY <1>1, <1>5, <1>6, <1>7, <2>2
    <3> QED BY <1>7, <2>2, <3>1 DEF ReloadInv, HeldSound
  <2> QED BY <2>1, <2>2 DEF HeldSound
<1>9. CredsKept(new)' /\ OwnKept(new)' /\ GlobalKept(new)'
  <2>1. \A g \in Procs : pc'[g] \in {"setcreds", "setrules"} => job'[g].l # new.id
    BY <1>5, <1>6, <1>7
  <2>2. \E g \in Procs : pc'[g] = "creds" /\ job'[g].l = new.id
    BY <1>3, <1>5
  <2>3. CredsKept(new)'
    BY <2>1, <2>2 DEF CredsKept
  <2>4. OwnKept(new)'
    BY <2>1, <2>2 DEF OwnKept
  <2>5. GlobalKept(new)'
    BY <2>1, <2>2 DEF GlobalKept
  <2> QED BY <2>3, <2>4, <2>5
<1>10. ASSUME NEW n \in open, <<"creds", n.proxy>> \notin overlap' PROVE CredsKept(n)'
  <2>1. CredsKept(n)
    BY <1>1, <1>4, <1>10 DEF ReloadInv, CredsInv
  <2> QED BY <1>1, <1>3, <2>1, CredsFrame, CredsStayDue
<1>11. CacheInv'
  BY <1>1, <1>3, CacheFrame DEF ReloadInv, CacheInv
<1>12. ASSUME NEW n \in open, <<"rules", n.proxy>> \notin overlap'
       PROVE  OwnKept(n)' /\ (<<"cache", n.proxy>> \notin overlap' => GlobalKept(n)')
  <2>1. OwnKept(n) /\ (<<"cache", n.proxy>> \notin overlap' => GlobalKept(n))
    BY <1>1, <1>4, <1>12 DEF ReloadInv, RulesInv
  <2>2. OwnKept(n)'
    BY <1>1, <1>3, <2>1, OwnFrame, RulesStayDue
  <2>3. GlobalKept(n) => GlobalKept(n)'
    BY <1>1, <1>3, GlobalFrame, RulesStayDue, LoadingStays
  <2> QED BY <2>1, <2>2, <2>3
<1>13. CredsInv'
  BY <1>1, <1>9, <1>10 DEF CredsInv
<1>14. RulesInv'
  BY <1>1, <1>9, <1>12 DEF RulesInv
<1> QED BY <1>8, <1>11, <1>13, <1>14 DEF ReloadInv

\* The creds a Start reads are those of the table.
LEMMA StartCredsReload ==
  ASSUME TypeOK, HandInv, ReloadInv, NEW h \in Procs, StartCreds(h)
  PROVE  ReloadInv'
<1>1. /\ pc[h] = "creds" /\ GiveCreds(job[h].l, creds[job[h].p])
      /\ pc'[h] = "rules" /\ job'[h] = job[h] /\ Others(h)
      /\ UNCHANGED <<row, creds, global, own, cache, lastId, overlap>>
  BY Placed DEF StartCreds, Goto, tables
<1>2. \A o \in open : o.id = job[h].l => o.proxy = job[h].p
  BY <1>1, HandHolds DEF HandInv, IdsSound, InHand
<1>3. ASSUME NEW n \in open'
      PROVE  \E o \in open : /\ n.id = o.id /\ n.proxy = o.proxy
                             /\ n.global = o.global /\ n.own = o.own
                             /\ n.creds = IF o.id = job[h].l THEN creds[job[h].p] ELSE o.creds
  BY <1>1, <1>3, CredsGiven DEF TypeOK, MemoryOK
<1>4. HeldSound'
  <2>1. HeldIds(job'[h], pc'[h]) = {}
    BY <1>1 DEF HeldIds
  <2> QED BY <1>1, <1>3, <2>1, HeldFrame DEF ReloadInv
<1>5. CacheInv'
  BY <1>1, CacheFrame DEF ReloadInv, CacheInv
<1>6. ASSUME NEW n \in open' 
      PROVE  /\ <<"creds", n.proxy>> \notin overlap => CredsKept(n)'
             /\ <<"rules", n.proxy>> \notin overlap =>
                  OwnKept(n)' /\ (<<"cache", n.proxy>> \notin overlap => GlobalKept(n)')
  <2>1. PICK o \in open : /\ n.id = o.id /\ n.proxy = o.proxy
                          /\ n.global = o.global /\ n.own = o.own
                          /\ n.creds = IF o.id = job[h].l THEN creds[job[h].p] ELSE o.creds
    BY <1>3
  <2>2. CredsKept(o) => CredsKept(n)'
    BY <1>1, <1>2, <2>1, CredsFrame, CredsStayDue
  <2>3. OwnKept(o) => OwnKept(n)'
    BY <1>1, <2>1, OwnFrame, RulesStayDue
  <2>4. GlobalKept(o) => GlobalKept(n)'
    BY <1>1, <2>1, GlobalFrame, RulesStayDue, LoadingStays
  <2> QED BY <2>1, <2>2, <2>3, <2>4 DEF ReloadInv, CredsInv, RulesInv
<1> QED BY <1>1, <1>4, <1>5, <1>6 DEF ReloadInv, CredsInv, RulesInv

\* Its rules are those of the table, and of the cache.
LEMMA StartRulesReload ==
  ASSUME TypeOK, HandInv, ReloadInv, NEW h \in Procs, StartRules(h)
  PROVE  ReloadInv'
<1>1. /\ pc[h] = "rules" /\ GiveRules(job[h].l, cache, own[job[h].p])
      /\ pc'[h] = "register" /\ job'[h] = job[h] /\ Others(h)
      /\ UNCHANGED <<row, creds, global, own, cache, lastId, overlap>>
  BY Placed DEF StartRules, Goto, tables
<1>2. \A o \in open : o.id = job[h].l => o.proxy = job[h].p
  BY <1>1, HandHolds DEF HandInv, IdsSound, InHand
<1>3. ASSUME NEW n \in open'
      PROVE  \E o \in open : /\ n.id = o.id /\ n.proxy = o.proxy /\ n.creds = o.creds
                             /\ n.global = IF o.id = job[h].l THEN cache ELSE o.global
                             /\ n.own = IF o.id = job[h].l THEN own[job[h].p] ELSE o.own
  BY <1>1, <1>3, RulesGiven DEF TypeOK, MemoryOK
<1>4. HeldSound'
  <2>1. HeldIds(job'[h], pc'[h]) = {}
    BY <1>1 DEF HeldIds
  <2> QED BY <1>1, <1>3, <2>1, HeldFrame DEF ReloadInv
<1>5. CacheInv'
  BY <1>1, CacheFrame DEF ReloadInv, CacheInv
<1>6. ASSUME NEW n \in open'
      PROVE  /\ <<"creds", n.proxy>> \notin overlap => CredsKept(n)'
             /\ <<"rules", n.proxy>> \notin overlap =>
                  OwnKept(n)' /\ (<<"cache", n.proxy>> \notin overlap => GlobalKept(n)')
  <2>1. PICK o \in open : /\ n.id = o.id /\ n.proxy = o.proxy /\ n.creds = o.creds
                          /\ n.global = IF o.id = job[h].l THEN cache ELSE o.global
                          /\ n.own = IF o.id = job[h].l THEN own[job[h].p] ELSE o.own
    BY <1>3
  <2>2. CredsKept(o) => CredsKept(n)'
    BY <1>1, <2>1, CredsFrame, CredsStayDue
  <2>3. OwnKept(o) => OwnKept(n)'
    BY <1>1, <1>2, <2>1, OwnFrame, RulesStayDue
  <2>4. CacheKept /\ GlobalKept(o) => GlobalKept(n)'
    <3>1. CASE Loading
      BY <1>1, <3>1, LoadingStays, LoadingKeeps
    <3>2. CASE ~Loading
      <4>1. CacheKept => cache = global
        BY <3>2 DEF CacheKept, Loading
      <4> QED BY <1>1, <2>1, <3>2, <4>1, GlobalFrame, RulesStayDue
    <3> QED BY <3>1, <3>2
  <2>5. o.proxy \in Proxies
    BY DEF TypeOK, MemoryOK, Listener
  <2> QED BY <2>1, <2>2, <2>3, <2>4, <2>5 DEF ReloadInv, CredsInv, RulesInv, CacheInv
<1> QED BY <1>1, <1>4, <1>5, <1>6 DEF ReloadInv, CredsInv, RulesInv

\* A closed listener needs nothing more.
LEMMA CloseReload ==
  ASSUME TypeOK, HandInv, ReloadInv, NEW h \in Procs, StopClose(h)
  PROVE  ReloadInv'
<1>1. /\ pc[h] = "close" /\ open' = {o \in open : o.id # job[h].l}
      /\ pc'[h] = "stopped" /\ Others(h)
      /\ UNCHANGED <<row, creds, global, own, cache, lastId, overlap>>
  BY Placed DEF StopClose, Goto, tables
<1>2. HeldSound'
  <2>1. HeldIds(job'[h], pc'[h]) = {}
    BY <1>1 DEF HeldIds
  <2> QED BY <1>1, <2>1, HeldFrame DEF ReloadInv
<1>3. CacheInv'
  BY <1>1, CacheFrame DEF ReloadInv, CacheInv
<1>4. ASSUME NEW n \in open'
      PROVE  /\ <<"creds", n.proxy>> \notin overlap => CredsKept(n)'
             /\ <<"rules", n.proxy>> \notin overlap =>
                  OwnKept(n)' /\ (<<"cache", n.proxy>> \notin overlap => GlobalKept(n)')
  <2>1. n \in open /\ n.id # job[h].l
    BY <1>1
  <2>2. CredsKept(n) => CredsKept(n)'
    BY <1>1, <2>1, CredsFrame, CredsStayDue
  <2>3. OwnKept(n) => OwnKept(n)'
    BY <1>1, <2>1, OwnFrame, RulesStayDue
  <2>4. GlobalKept(n) => GlobalKept(n)'
    BY <1>1, <2>1, GlobalFrame, RulesStayDue, LoadingStays
  <2> QED BY <2>1, <2>2, <2>3, <2>4 DEF ReloadInv, CredsInv, RulesInv
<1> QED BY <1>1, <1>2, <1>3, <1>4 DEF ReloadInv, CredsInv, RulesInv

-----------------------------------------------------------------------------
(* Creds and their reloads. *)

\* They leave the rules alone.
LEMMA RulesAside ==
  ASSUME CacheInv, RulesInv, NEW h \in Procs, Others(h), UNCHANGED <<global, own, cache>>,
         overlap \subseteq overlap',
         \A n \in open' : \E o \in open : /\ n.id = o.id /\ n.proxy = o.proxy
                                          /\ n.global = o.global /\ n.own = o.own,
         pc[h] \notin {"creds", "close", "merge", "setrules", "target", "rules", "query", "cache",
                       "snapshot"},
         pc'[h] \notin {"setrules", "cache"}
  PROVE  CacheInv' /\ RulesInv'
<1>1. CacheInv'
  BY CacheFrame DEF CacheInv
<1>2. ASSUME NEW n \in open', <<"rules", n.proxy>> \notin overlap'
      PROVE  OwnKept(n)' /\ (<<"cache", n.proxy>> \notin overlap' => GlobalKept(n)')
  <2>1. PICK o \in open : /\ n.id = o.id /\ n.proxy = o.proxy
                          /\ n.global = o.global /\ n.own = o.own
    OBVIOUS
  <2>2. OwnKept(o) /\ (<<"cache", n.proxy>> \notin overlap' => GlobalKept(o))
    BY <1>2, <2>1 DEF RulesInv
  <2>3. OwnKept(n)'
    BY <2>1, <2>2, OwnFrame, RulesStayDue
  <2>4. GlobalKept(o) => GlobalKept(n)'
    BY <2>1, GlobalFrame, RulesStayDue, LoadingStays
  <2> QED BY <2>2, <2>3, <2>4
<1> QED BY <1>1, <1>2 DEF RulesInv

\* A change of the creds of proxies that are going, or are reloaded next.
LEMMA CredsWritten ==
  ASSUME TypeOK, HandInv, ReloadInv, NEW h \in Procs,
         DropCreds(h) \/ \E P \in SUBSET Proxies : CredWrite(h, P)
  PROVE  ReloadInv'
<1>1. /\ Others(h) /\ pc[h] \in {"dropcreds", "idle"} /\ pc'[h] \in {"droprow", "reload"}
      /\ UNCHANGED <<row, global, own, cache, open, lastId, overlap>>
      /\ \A p \in Proxies :
           \/ creds'[p] = creds[p]
           \/ pc'[h] = "droprow" /\ job'[h].p = p
           \/ pc'[h] = "reload" /\ p \in job'[h].todo
  <2>1. CASE DropCreds(h)
    BY <2>1, Placed DEF DropCreds, Goto, memory, TypeOK, TablesOK
  <2>2. CASE \E P \in SUBSET Proxies : CredWrite(h, P)
    <3>1. PICK P \in SUBSET Proxies : CredWrite(h, P)
      BY <2>2
    <3>2. [Rest EXCEPT !.todo = P].todo = P
      BY RestTyped DEF Job
    <3>3. Others(h) /\ pc'[h] = "reload" /\ job'[h].todo = P
      BY <3>1, <3>2, Placed DEF CredWrite
    <3>4. \A p \in Proxies : creds'[p] = creds[p] \/ p \in P
      BY <3>1 DEF CredWrite
    <3> QED BY <3>1, <3>3, <3>4 DEF CredWrite, Arrives, memory
  <2> QED BY <2>1, <2>2
<1>2. HeldSound'
  <2>1. HeldIds(job'[h], pc'[h]) = {}
    BY <1>1 DEF HeldIds
  <2> QED BY <1>1, <2>1, HeldFrame DEF ReloadInv
<1>3. CacheInv' /\ RulesInv'
  BY <1>1, RulesAside DEF ReloadInv
<1>4. ASSUME NEW n \in open', <<"creds", n.proxy>> \notin overlap' PROVE CredsKept(n)'
  <2>1. n \in open /\ CredsKept(n) /\ n.proxy \in Proxies
    BY <1>1, <1>4 DEF ReloadInv, CredsInv, TypeOK, MemoryOK, Listener
  <2>2. CASE creds'[n.proxy] = creds[n.proxy]
    BY <1>1, <2>1, <2>2, CredsFrame, CredsStayDue
  <2>3. CASE creds'[n.proxy] # creds[n.proxy]
    <3>1. Going(n.proxy)' \/ CredsDue(n.proxy)'
      BY <1>1, <2>1, <2>3 DEF Going, CredsDue
    <3> QED BY <3>1 DEF CredsKept
  <2> QED BY <2>2, <2>3
<1> QED BY <1>2, <1>3, <1>4 DEF ReloadInv, CredsInv

\* A proxy that goes, and one that comes.
LEMMA RowReload ==
  ASSUME TypeOK, PortsSound, HandInv, ReloadInv, NEW h \in Procs, DropRow(h) \/ CreateProxy(h)
  PROVE  ReloadInv'
<1>1. /\ Others(h) /\ pc[h] \in {"droprow", "addproxy"}
      /\ pc'[h] \in {"dropsession", "seed", "idle"} /\ job[h].p \in Proxies
      /\ UNCHANGED <<creds, global, own, cache, open, lastId, overlap>>
  BY AtWork, Placed, DonePlaced DEF DropRow, CreateProxy, Goto, memory, OnProxy, Stopping
<1>2. \A o \in open : o.proxy \in Proxies /\ o.port # 0
  BY PoolsAssumption DEF TypeOK, MemoryOK, Listener
<1>3. \A o \in open : /\ pc[h] = "droprow" /\ job[h].p = o.proxy => ~row'[o.proxy].proxy
                      /\ row'[o.proxy].proxy => row[o.proxy].proxy
  <2> SUFFICES ASSUME NEW o \in open
               PROVE  /\ pc[h] = "droprow" /\ job[h].p = o.proxy => ~row'[o.proxy].proxy
                      /\ row'[o.proxy].proxy => row[o.proxy].proxy
    OBVIOUS
  <2>1. row[o.proxy] \in Row
    BY <1>2 DEF TypeOK, TablesOK
  <2>2. CASE DropRow(h)
    BY <1>1, <1>2, <2>1, <2>2 DEF DropRow, TypeOK, TablesOK, Row
  <2>3. CASE CreateProxy(h)
    <3>1. o.proxy # job[h].p
      BY <1>2, <2>3 DEF CreateProxy, PortsSound
    <3> QED BY <1>1, <1>2, <2>3, <3>1 DEF CreateProxy, TypeOK, TablesOK
  <2> QED BY <2>2, <2>3
<1>4. HeldSound'
  <2>1. HeldIds(job'[h], pc'[h]) = {}
    BY <1>1 DEF HeldIds
  <2> QED BY <1>1, <2>1, HeldFrame DEF ReloadInv
<1>5. CacheInv' /\ RulesInv'
  BY <1>1, RulesAside DEF ReloadInv
<1>6. ASSUME NEW n \in open', <<"creds", n.proxy>> \notin overlap' PROVE CredsKept(n)'
  <2>1. n \in open /\ CredsKept(n)
    BY <1>1, <1>6 DEF ReloadInv, CredsInv
  <2>2. CASE pc[h] = "droprow" /\ job[h].p = n.proxy
    BY <1>3, <2>1, <2>2 DEF CredsKept, Going
  <2>3. CASE ~(pc[h] = "droprow" /\ job[h].p = n.proxy)
    BY <1>1, <1>3, <2>1, <2>3, CredsFrame, CredsStayDue
  <2> QED BY <2>2, <2>3
<1> QED BY <1>4, <1>5, <1>6 DEF ReloadInv, CredsInv

\* A listener whose proxy is not in the map is at the start or at the end of its life,
\* unless somebody holds creds for it.
LEMMA NotYet ==
  ASSUME HandInv, HeldSound, NEW h \in Procs, pc[h] \notin InHand, NEW o \in open, o.id # 0,
         listeners[o.proxy] = 0, ~Busy(h, o.proxy, HoldsCreds)
  PROVE  /\ \E g \in Procs : pc[g] \in {"creds", "close"} /\ job[g].l = o.id /\ g # h
         /\ \A g \in Procs \ {h} : ~(pc[g] = "setcreds" /\ job[g].l = o.id)
<1>1. PICK g \in Procs : job[g].l = o.id /\ job[g].p = o.proxy /\ pc[g] \in InHand
  BY Somewhere
<1>2. pc[g] \in {"creds", "close"} /\ g # h
  BY <1>1 DEF Busy, HoldsCreds, InHand
<1>3. \A f \in Procs \ {h} : ~(pc[f] = "setcreds" /\ job[f].l = o.id)
  BY DEF HeldSound, Busy, HoldsCreds
<1> QED BY <1>1, <1>2, <1>3

\* The default cred, which nothing reloads: no listener has read the creds without it.
LEMMA SeedReload ==
  ASSUME TypeOK, HandInv, ReloadInv, NEW h \in Procs, CreateSeed(h)
  PROVE  ReloadInv'
<1>1. /\ Others(h) /\ pc[h] = "seed" /\ pc'[h] = "dial" /\ job[h].p \in Proxies
      /\ UNCHANGED <<row, global, own, cache, open, lastId, listeners>>
      /\ creds' = [creds EXCEPT ![job[h].p] = @ + 1] \/ UNCHANGED creds
      /\ overlap \subseteq overlap'
      /\ <<"creds", job[h].p>> \notin overlap' =>
           listeners[job[h].p] = 0 /\ ~Busy(h, job[h].p, HoldsCreds)
  BY AtWork, Placed DEF CreateSeed, Goto, memory, OnProxy
<1>2. \A o \in open : o.proxy \in Proxies /\ o.id # 0
  BY DEF TypeOK, MemoryOK, Listener
<1>3. HeldSound'
  <2>1. HeldIds(job'[h], pc'[h]) = {}
    BY <1>1 DEF HeldIds
  <2> QED BY <1>1, <2>1, HeldFrame DEF ReloadInv
<1>4. CacheInv' /\ RulesInv'
  BY <1>1, RulesAside DEF ReloadInv
<1>5. ASSUME NEW n \in open', <<"creds", n.proxy>> \notin overlap' PROVE CredsKept(n)'
  <2>1. n \in open /\ CredsKept(n)
    BY <1>1, <1>5 DEF ReloadInv, CredsInv
  <2>2. CASE n.proxy # job[h].p
    <3>1. creds'[n.proxy] = creds[n.proxy]
      BY <1>1, <1>2, <2>1, <2>2 DEF TypeOK, TablesOK
    <3> QED BY <1>1, <2>1, <3>1, CredsFrame, CredsStayDue
  <2>3. CASE n.proxy = job[h].p
    <3>1. /\ \E g \in Procs : pc[g] \in {"creds", "close"} /\ job[g].l = n.id /\ g # h
          /\ \A g \in Procs \ {h} : ~(pc[g] = "setcreds" /\ job[g].l = n.id)
      BY <1>1, <1>2, <1>5, <2>1, <2>3, NotYet DEF ReloadInv, InHand
    <3> QED BY <1>1, <3>1 DEF CredsKept, Others
  <2> QED BY <2>2, <2>3
<1> QED BY <1>3, <1>4, <1>5 DEF ReloadInv, CredsInv

\* Going on with what is left to reload.
LEMMA GoesOn ==
  ASSUME TypeOK, NEW h \in Procs, NEW l, NEW j, Back(h, l, j)
  PROVE  /\ Others(h)
         /\ \/ pc'[h] = "idle" /\ j.todo = {} /\ j.ids = {}
            \/ pc'[h] = l /\ job'[h] = j
BY Placed, DonePlaced DEF Back, Goto

\* ReloadCreds takes the creds of one proxy after the other.
LEMMA ReloadCredsReload ==
  ASSUME TypeOK, HandInv, ReloadInv, NEW h \in Procs, ReloadCreds(h)
  PROVE  ReloadInv'
<1>1. PICK p \in job[h].todo :
        /\ Mark("creds", h, p, HoldsCreds)
        /\ IF listeners[p] = 0
           THEN Back(h, "reload", [job[h] EXCEPT !.todo = @ \ {p}])
           ELSE Goto(h, "setcreds", [job[h] EXCEPT !.p = p, !.l = listeners[p], !.copy = creds[p]])
  BY DEF ReloadCreds
<1>2. /\ pc[h] = "reload" /\ overlap \subseteq overlap'
      /\ UNCHANGED <<row, creds, global, own, cache, open, lastId, listeners>>
      /\ <<"creds", p>> \notin overlap' => ~Busy(h, p, HoldsCreds)
  BY <1>1 DEF ReloadCreds, Mark, tables, memory
<1>3. p \in Proxies /\ job[h] \in Job
  BY AtWork DEF Job
<1>4. /\ Others(h)
      /\ \/ /\ listeners[p] = 0
            /\ \/ pc'[h] = "idle" /\ job[h].todo \ {p} = {}
               \/ pc'[h] = "reload" /\ job'[h].todo = job[h].todo \ {p}
         \/ /\ listeners[p] # 0 /\ pc'[h] = "setcreds"
            /\ job'[h].p = p /\ job'[h].l = listeners[p] /\ job'[h].copy = creds[p]
            /\ job'[h].todo = job[h].todo
  <2>1. CASE listeners[p] = 0
    <3> DEFINE j == [job[h] EXCEPT !.todo = @ \ {p}]
    <3>1. j.todo = job[h].todo \ {p}
      BY <1>3 DEF Job
    <3>2. Back(h, "reload", j)
      BY <1>1, <2>1
    <3> HIDE DEF j
    <3>3. /\ Others(h)
          /\ \/ pc'[h] = "idle" /\ j.todo = {}
             \/ pc'[h] = "reload" /\ job'[h] = j
      BY <3>2, GoesOn
    <3> QED BY <2>1, <3>1, <3>3
  <2>2. CASE listeners[p] # 0
    <3> DEFINE j == [job[h] EXCEPT !.p = p, !.l = listeners[p], !.copy = creds[p]]
    <3>1. j.p = p /\ j.l = listeners[p] /\ j.copy = creds[p] /\ j.todo = job[h].todo
      BY <1>3 DEF Job
    <3>2. Goto(h, "setcreds", j)
      BY <1>1, <2>2
    <3> HIDE DEF j
    <3> QED BY <2>2, <3>1, <3>2, Placed DEF Goto
  <2> QED BY <2>1, <2>2
<1>5. \A o \in open : listeners[p] = o.id => o.proxy = p
  BY <1>3, NamedOwner DEF TypeOK, MemoryOK, Listener
<1>6. HeldSound'
  <2>1. HeldIds(job'[h], pc'[h]) \subseteq Registered
    BY <1>3, <1>4 DEF HeldIds, Registered
  <2> QED BY <1>2, <1>4, <1>5, <2>1, HeldFrame DEF ReloadInv
<1>7. CacheInv' /\ RulesInv'
  BY <1>2, <1>4, RulesAside DEF ReloadInv
<1>8. ASSUME NEW n \in open', <<"creds", n.proxy>> \notin overlap' PROVE CredsKept(n)'
  <2>1. n \in open /\ CredsKept(n) /\ n.id # 0
    BY <1>2, <1>8 DEF ReloadInv, CredsInv, TypeOK, MemoryOK, Listener
  <2>2. CASE n.proxy # p
    <3>1. CredsDue(n.proxy) => CredsDue(n.proxy)'
      BY <1>2, <1>4, <2>2 DEF CredsDue, Others
    <3> QED BY <1>2, <1>4, <1>5, <2>1, <2>2, <3>1, CredsFrame
  <2>3. CASE n.proxy = p /\ listeners[p] = 0
    <3>1. /\ \E g \in Procs : pc[g] \in {"creds", "close"} /\ job[g].l = n.id /\ g # h
          /\ \A g \in Procs \ {h} : ~(pc[g] = "setcreds" /\ job[g].l = n.id)
      BY <1>2, <1>8, <2>1, <2>3, NotYet DEF ReloadInv, InHand
    <3> QED BY <1>4, <2>3, <3>1 DEF CredsKept, Others
  <2>4. CASE n.proxy = p /\ listeners[p] # 0
    <3>1. n.id = listeners[p]
      BY <1>3, <2>1, <2>4 DEF HandInv, Owned
    <3>2. \A g \in Procs \ {h} : ~(pc[g] = "setcreds" /\ job[g].l = n.id)
      BY <1>2, <1>8, <2>1, <2>4 DEF ReloadInv, HeldSound, Busy, HoldsCreds
    <3> QED BY <1>2, <1>4, <2>4, <3>1, <3>2 DEF CredsKept, Others
  <2> QED BY <2>2, <2>3, <2>4
<1> QED BY <1>6, <1>7, <1>8 DEF ReloadInv, CredsInv

\* creds.set installs what was read, which is no older than the last change that
\* nobody else reloads.
LEMMA SetCredsReload ==
  ASSUME TypeOK, HandInv, ReloadInv, NEW h \in Procs, SetCreds(h)
  PROVE  ReloadInv'
<1>1. /\ pc[h] = "setcreds" /\ GiveCreds(job[h].l, job[h].copy)
      /\ UNCHANGED <<row, creds, global, own, cache, lastId, overlap>>
      /\ Back(h, "reload", [Rest EXCEPT !.todo = job[h].todo \ {job[h].p}])
  BY DEF SetCreds, tables
<1>2. /\ Others(h)
      /\ \/ pc'[h] = "idle" /\ job[h].todo \ {job[h].p} = {}
         \/ pc'[h] = "reload" /\ job'[h].todo = job[h].todo \ {job[h].p}
  <2> DEFINE j == [Rest EXCEPT !.todo = job[h].todo \ {job[h].p}]
  <2>1. j.todo = job[h].todo \ {job[h].p}
    BY RestTyped DEF Job
  <2>2. Back(h, "reload", j)
    BY <1>1
  <2> HIDE DEF j
  <2>3. /\ Others(h)
        /\ \/ pc'[h] = "idle" /\ j.todo = {}
           \/ pc'[h] = "reload" /\ job'[h] = j
    BY <2>2, GoesOn
  <2> QED BY <2>1, <2>3
<1>3. ASSUME NEW n \in open'
      PROVE  \E o \in open : /\ n.id = o.id /\ n.proxy = o.proxy
                             /\ n.global = o.global /\ n.own = o.own
                             /\ n.creds = IF o.id = job[h].l THEN job[h].copy ELSE o.creds
  BY <1>1, <1>3, CredsGiven DEF TypeOK, MemoryOK
<1>4. HeldSound'
  <2>1. HeldIds(job'[h], pc'[h]) = {}
    BY <1>2 DEF HeldIds
  <2> QED BY <1>1, <1>2, <1>3, <2>1, HeldFrame DEF ReloadInv
<1>5. CacheInv' /\ RulesInv'
  BY <1>1, <1>2, <1>3, RulesAside DEF ReloadInv
<1>6. ASSUME NEW n \in open', <<"creds", n.proxy>> \notin overlap' PROVE CredsKept(n)'
  <2>1. PICK o \in open : /\ n.id = o.id /\ n.proxy = o.proxy
                          /\ n.creds = IF o.id = job[h].l THEN job[h].copy ELSE o.creds
    BY <1>3
  <2>2. CredsKept(o)
    BY <1>1, <1>6, <2>1 DEF ReloadInv, CredsInv
  <2>3. CredsDue(o.proxy) => CredsDue(n.proxy)'
    BY <1>1, <1>2, <2>1 DEF CredsDue, Others
  <2>4. CASE o.id # job[h].l
    BY <1>1, <1>2, <2>1, <2>2, <2>3, <2>4, CredsFrame
  <2>5. CASE o.id = job[h].l
    <3>1. Going(o.proxy) => Going(n.proxy)'
      BY <1>1, <1>2, <2>1 DEF Going, Others
    <3>2. \A g \in Procs : pc[g] = "setcreds" /\ job[g].l = o.id =>
            job[g].copy = creds'[n.proxy] \/ CredsDue(n.proxy)' \/ Going(n.proxy)'
      BY <1>1, <2>1, <2>2, <2>3, <3>1 DEF CredsKept
    <3>3. n.creds = creds'[n.proxy] \/ CredsDue(n.proxy)' \/ Going(n.proxy)'
      BY <1>1, <2>1, <2>5, <3>2
    <3>4. \A g \in Procs : pc'[g] = "setcreds" => pc[g] = "setcreds" /\ job'[g] = job[g]
      BY <1>2 DEF Others
    <3> QED BY <2>1, <3>2, <3>3, <3>4 DEF CredsKept
  <2> QED BY <2>4, <2>5
<1> QED BY <1>4, <1>5, <1>6 DEF ReloadInv, CredsInv

-----------------------------------------------------------------------------
(* Access rules and their reloads. *)

\* They leave the creds alone.
LEMMA CredsAside ==
  ASSUME CredsInv, NEW h \in Procs, Others(h), UNCHANGED <<row, creds>>, overlap \subseteq overlap',
         \A n \in open' : \E o \in open : n.id = o.id /\ n.proxy = o.proxy /\ n.creds = o.creds,
         pc[h] \notin {"reload", "setcreds", "droprow", "creds", "close"}, pc'[h] # "setcreds"
  PROVE  CredsInv'
<1>1. ASSUME NEW n \in open', <<"creds", n.proxy>> \notin overlap' PROVE CredsKept(n)'
  <2>1. PICK o \in open : n.id = o.id /\ n.proxy = o.proxy /\ n.creds = o.creds
    OBVIOUS
  <2>2. CredsKept(o)
    BY <1>1, <2>1 DEF CredsInv
  <2> QED BY <2>1, <2>2, CredsFrame, CredsStayDue
<1> QED BY <1>1 DEF CredsInv

\* A change of the global rules, its way into the cache included: what a listener has
\* does not matter until the listeners are counted.
LEMMA LoadReload ==
  ASSUME TypeOK, HandInv, ReloadInv, NEW h \in Procs,
         GlobalWrite(h) \/ GlobalQuery(h) \/ GlobalStore(h)
  PROVE  ReloadInv'
<1>1. /\ pc[h] \in {"idle", "query", "cache"} /\ pc'[h] \in {"query", "cache", "snapshot"}
      /\ Others(h) /\ UNCHANGED <<row, creds, own, open, lastId, listeners>>
      /\ overlap \subseteq overlap'
  BY Placed DEF GlobalWrite, GlobalQuery, GlobalStore, Goto, Arrives, tables, memory
<1>2. HeldSound'
  <2>1. HeldIds(job'[h], pc'[h]) = {}
    BY <1>1 DEF HeldIds
  <2> QED BY <1>1, <2>1, HeldFrame DEF ReloadInv
<1>3. CredsInv'
  BY <1>1, CredsAside DEF ReloadInv
<1>4. ASSUME NEW p \in Proxies, <<"cache", p>> \notin overlap' PROVE CacheKept'
  <2>1. CacheKept
    BY <1>1, <1>4 DEF ReloadInv, CacheInv
  <2>2. CASE GlobalWrite(h)
    <3>1. pc'[h] = "query"
      BY <2>2, Placed DEF GlobalWrite
    <3> QED BY <3>1 DEF CacheKept
  <2>3. CASE GlobalQuery(h)
    <3>1. /\ pc'[h] = "cache" /\ job'[h].copy = global /\ global' = global
      <4>1. [job[h] EXCEPT !.copy = global].copy = global
        BY AtWork DEF Job
      <4>2. Begin(h, "cache", [job[h] EXCEPT !.copy = global])
        BY <2>3 DEF GlobalQuery, Goto
      <4>3. pc'[h] = "cache" /\ job'[h] = [job[h] EXCEPT !.copy = global]
        BY <4>2, Placed
      <4>4. global' = global
        BY <2>3 DEF GlobalQuery, tables
      <4> QED BY <4>1, <4>3, <4>4
    <3>2. \A g \in Procs \ {h} : pc[g] # "cache"
      BY <1>4, <2>3 DEF GlobalQuery
    <3> QED BY <1>1, <3>1, <3>2 DEF CacheKept, Others
  <2>4. CASE GlobalStore(h)
    <3>1. /\ pc[h] = "cache" /\ cache' = job[h].copy /\ global' = global /\ pc'[h] = "snapshot"
      BY <2>4, Placed DEF GlobalStore, Goto, tables
    <3>2. (\E g \in Procs : pc[g] = "query") => \E g \in Procs : pc'[g] = "query"
      BY <1>1, <3>1 DEF Others
    <3>3. cache' = global \/ \E g \in Procs : pc[g] = "query"
      BY <2>1, <3>1 DEF CacheKept
    <3>4. \A g \in Procs : pc'[g] = "cache" => pc[g] = "cache" /\ job'[g] = job[g]
      BY <1>1, <3>1 DEF Others
    <3> QED BY <2>1, <3>1, <3>2, <3>3, <3>4 DEF CacheKept
  <2> QED BY <2>2, <2>3, <2>4
<1>5. RulesInv'
  <2>1. Loading'
    BY <1>1 DEF Loading
  <2>2. ASSUME NEW n \in open', <<"rules", n.proxy>> \notin overlap' PROVE OwnKept(n)'
    <3>1. n \in open /\ OwnKept(n)
      BY <1>1, <2>2 DEF ReloadInv, RulesInv
    <3> QED BY <1>1, <3>1, OwnFrame, RulesStayDue
  <2> QED BY <2>1, <2>2, LoadingKeeps DEF RulesInv
<1> QED BY <1>2, <1>3, <1>4, <1>5 DEF ReloadInv, CacheInv

\* A listener that is not in the map is at the start or at the end of its life, unless
\* its Start has read the rules and not yet entered it.
LEMMA NotMapped ==
  ASSUME HandInv, NEW h \in Procs, pc[h] \notin InHand, NEW o \in open,
         listeners[o.proxy] # o.id, ~Busy(h, o.proxy, {"register"})
  PROVE  \E g \in Procs : pc[g] \in {"creds", "rules", "close"} /\ job[g].l = o.id /\ g # h
<1>1. PICK g \in Procs : job[g].l = o.id /\ job[g].p = o.proxy /\ pc[g] \in InHand
  BY Somewhere
<1> QED BY <1>1 DEF Busy, InHand

\* Whoever gives o rules has found it in the map, so that o is there or is being closed.
LEMMA Mapless ==
  ASSUME HeldSound, NEW o, NEW f \in Procs, pc[f] = "setrules", job[f].l = o.id,
         NEW g \in Procs, pc[g] \in {"creds", "rules", "close"}, job[g].l = o.id
  PROVE  pc[g] = "close"
<1>1. o.id \in HeldIds(job[f], pc[f])
  BY DEF HeldIds
<1> QED BY <1>1 DEF HeldSound

\* Counting the listeners: one that is missed reads the new rules itself or is closed.
LEMMA Counted ==
  ASSUME HandInv, HeldSound, NEW h \in Procs, Others(h), pc[h] \notin InHand,
         pc'[h] # "setrules", NEW o \in open,
         ~Busy(h, o.proxy, {"register"}),
         listeners[o.proxy] = o.id => RulesDue(o)'
  PROVE  OwnKept(o)' /\ GlobalKept(o)'
<1>1. CASE RulesDue(o)'
  BY <1>1 DEF OwnKept, GlobalKept
<1>2. CASE listeners[o.proxy] # o.id
  <2>1. PICK g \in Procs : pc[g] \in {"creds", "rules", "close"} /\ job[g].l = o.id /\ g # h
    BY <1>2, NotMapped
  <2>2. pc'[g] = pc[g] /\ job'[g] = job[g]
    BY <2>1 DEF Others
  <2>3. \A f \in Procs : pc'[f] = "setrules" /\ job'[f].l = o.id => pc[g] = "close"
    <3> SUFFICES ASSUME NEW f \in Procs, pc'[f] = "setrules", job'[f].l = o.id PROVE pc[g] = "close"
      OBVIOUS
    <3>1. pc[f] = "setrules" /\ job[f].l = o.id
      BY DEF Others
    <3> QED BY <2>1, <3>1, Mapless
  <2>4. (\A f \in Procs : ~(pc'[f] = "setrules" /\ job'[f].l = o.id)) \/ Closing(o)'
    BY <2>1, <2>2, <2>3 DEF Closing
  <2>5. Closing(o)' \/ \E f \in Procs : pc'[f] \in {"creds", "rules", "setrules"} /\ job'[f].l = o.id
    BY <2>1, <2>2 DEF Closing
  <2> QED BY <2>4, <2>5 DEF OwnKept, GlobalKept
<1> QED BY <1>1, <1>2

\* A change of a session's own rules.
LEMMA SessionWriteReload ==
  ASSUME TypeOK, HandInv, ReloadInv, NEW h \in Procs, NEW p \in Proxies, SessionWrite(h, p)
  PROVE  ReloadInv'
<1>1. /\ pc[h] = "idle" /\ pc'[h] = "target" /\ Others(h)
      /\ UNCHANGED <<row, creds, global, cache, open, lastId, overlap>>
      /\ own' = [own EXCEPT ![p] = @ + 1]
  BY Placed DEF SessionWrite, Arrives, memory
<1>2. job'[h].p = p
  <2>1. [Rest EXCEPT !.p = p].p = p
    BY RestTyped DEF Job
  <2> QED BY <2>1, Placed DEF SessionWrite
<1>3. HeldSound'
  <2>1. HeldIds(job'[h], pc'[h]) = {}
    BY <1>1 DEF HeldIds
  <2> QED BY <1>1, <2>1, HeldFrame DEF ReloadInv
<1>4. CredsInv'
  BY <1>1, CredsAside DEF ReloadInv
<1>5. CacheInv'
  BY <1>1, CacheFrame DEF ReloadInv, CacheInv
<1>6. ASSUME NEW n \in open', <<"rules", n.proxy>> \notin overlap'
      PROVE  OwnKept(n)' /\ (<<"cache", n.proxy>> \notin overlap' => GlobalKept(n)')
  <2>1. n \in open /\ OwnKept(n) /\ (<<"cache", n.proxy>> \notin overlap' => GlobalKept(n))
    BY <1>1, <1>6 DEF ReloadInv, RulesInv
  <2>2. OwnKept(n)'
    <3>1. CASE n.proxy = p
      BY <1>1, <1>2, <3>1 DEF OwnKept, Targeting
    <3>2. CASE n.proxy # p
      <4>1. own'[n.proxy] = own[n.proxy]
        BY <1>1, <2>1, <3>2 DEF TypeOK, TablesOK, MemoryOK, Listener
      <4> QED BY <1>1, <2>1, <4>1, OwnFrame, RulesStayDue
    <3> QED BY <3>1, <3>2
  <2>3. GlobalKept(n) => GlobalKept(n)'
    BY <1>1, GlobalFrame, RulesStayDue, LoadingStays
  <2> QED BY <2>1, <2>2, <2>3
<1> QED BY <1>3, <1>4, <1>5, <1>6 DEF ReloadInv, RulesInv

\* The listener it concerns.
LEMMA TargetReload ==
  ASSUME TypeOK, HandInv, ReloadInv, NEW h \in Procs, SessionTarget(h)
  PROVE  ReloadInv'
<1>1. /\ pc[h] = "target" /\ UNCHANGED <<row, creds, global, own, cache, open, lastId, listeners>>
      /\ overlap \subseteq overlap' /\ job[h].p \in Proxies
      /\ <<"rules", job[h].p>> \notin overlap' => ~Busy(h, job[h].p, {"register"})
  BY AtWork DEF SessionTarget, Mark, tables, memory, OnProxy
<1>2. /\ Others(h)
      /\ \/ pc'[h] = "idle" /\ {listeners[job[h].p]} \ {0} = {}
         \/ pc'[h] = "merge" /\ job'[h].ids = {listeners[job[h].p]} \ {0}
  <2> DEFINE j == [Rest EXCEPT !.ids = {listeners[job[h].p]} \ {0}]
  <2>1. j.ids = {listeners[job[h].p]} \ {0}
    BY RestTyped DEF Job
  <2>2. Back(h, "merge", j)
    BY DEF SessionTarget
  <2> HIDE DEF j
  <2>3. /\ Others(h)
        /\ \/ pc'[h] = "idle" /\ j.ids = {}
           \/ pc'[h] = "merge" /\ job'[h] = j
    BY <2>2, GoesOn
  <2> QED BY <2>1, <2>3
<1>3. HeldSound'
  <2>1. HeldIds(job'[h], pc'[h]) \subseteq Registered
    BY <1>1, <1>2 DEF HeldIds, Registered
  <2> QED BY <1>1, <1>2, <2>1, HeldFrame DEF ReloadInv
<1>4. CredsInv'
  BY <1>1, <1>2, CredsAside DEF ReloadInv
<1>5. CacheInv'
  BY <1>1, <1>2, CacheFrame DEF ReloadInv, CacheInv
<1>6. ASSUME NEW n \in open', <<"rules", n.proxy>> \notin overlap'
      PROVE  OwnKept(n)' /\ (<<"cache", n.proxy>> \notin overlap' => GlobalKept(n)')
  <2>1. n \in open /\ OwnKept(n) /\ (<<"cache", n.proxy>> \notin overlap' => GlobalKept(n))
    BY <1>1, <1>6 DEF ReloadInv, RulesInv
  <2>2. GlobalKept(n) => GlobalKept(n)'
    BY <1>1, <1>2, GlobalFrame, RulesStayDue, LoadingStays
  <2>3. CASE n.proxy # job[h].p
    <3>1. OwnKept(n)'
      BY <1>1, <1>2, <2>1, <2>3, OwnFrame, RulesStayDue
    <3> QED BY <2>1, <2>2, <3>1
  <2>4. CASE n.proxy = job[h].p
    <3>1. listeners[n.proxy] = n.id => RulesDue(n)'
      <4>1. n.id # 0
        BY <2>1 DEF TypeOK, MemoryOK, Listener
      <4> QED BY <1>2, <2>4, <4>1 DEF RulesDue
    <3>2. OwnKept(n)'
      BY <1>1, <1>2, <1>6, <2>1, <2>4, <3>1, Counted DEF ReloadInv, InHand
    <3> QED BY <2>1, <2>2, <3>2
  <2> QED BY <2>3, <2>4
<1> QED BY <1>3, <1>4, <1>5, <1>6 DEF ReloadInv, RulesInv

\* All listeners in the map, for the global rules.
LEMMA SnapshotReload ==
  ASSUME TypeOK, HandInv, ReloadInv, NEW h \in Procs, GlobalSnapshot(h)
  PROVE  ReloadInv'
<1>1. /\ pc[h] = "snapshot" /\ UNCHANGED <<row, creds, global, own, cache, open, lastId, listeners>>
      /\ overlap \subseteq overlap'
      /\ \A p \in Proxies : <<"rules", p>> \notin overlap' => ~Busy(h, p, {"register"})
  BY DEF GlobalSnapshot, tables, memory
<1>2. /\ Others(h)
      /\ \/ pc'[h] = "idle" /\ Registered = {}
         \/ pc'[h] = "merge" /\ job'[h].ids = Registered
  <2> DEFINE j == [Rest EXCEPT !.ids = Registered]
  <2>1. j.ids = Registered
    BY RestTyped DEF Job
  <2>2. Back(h, "merge", j)
    BY DEF GlobalSnapshot
  <2> HIDE DEF j
  <2>3. /\ Others(h)
        /\ \/ pc'[h] = "idle" /\ j.ids = {}
           \/ pc'[h] = "merge" /\ job'[h] = j
    BY <2>2, GoesOn
  <2> QED BY <2>1, <2>3
<1>3. HeldSound'
  <2>1. HeldIds(job'[h], pc'[h]) \subseteq Registered
    BY <1>2 DEF HeldIds
  <2> QED BY <1>1, <1>2, <2>1, HeldFrame DEF ReloadInv
<1>4. CredsInv'
  BY <1>1, <1>2, CredsAside DEF ReloadInv
<1>5. CacheInv'
  BY <1>1, <1>2, CacheFrame DEF ReloadInv, CacheInv
<1>6. ASSUME NEW n \in open', <<"rules", n.proxy>> \notin overlap'
      PROVE  OwnKept(n)' /\ GlobalKept(n)'
  <2>1. n \in open /\ n.id # 0 /\ n.proxy \in Proxies
    BY <1>1 DEF TypeOK, MemoryOK, Listener
  <2>2. listeners[n.proxy] = n.id => RulesDue(n)'
    BY <1>2, <2>1 DEF RulesDue, Registered
  <2> QED BY <1>1, <1>2, <1>6, <2>1, <2>2, Counted DEF ReloadInv, InHand
<1> QED BY <1>3, <1>4, <1>5, <1>6 DEF ReloadInv, RulesInv

\* The rules of the next listener: copied, unless it has stopped.
LEMMA MergeReload ==
  ASSUME TypeOK, HandInv, ReloadInv, NEW h \in Procs, Merge(h)
  PROVE  ReloadInv'
<1>1. /\ pc[h] = "merge" /\ UNCHANGED <<row, creds, global, own, cache, open, lastId, listeners>>
      /\ overlap \subseteq overlap'
  BY DEF Merge, Mark, tables, memory
<1>2. PICK l \in job[h].ids :
        \/ (\A o \in open : o.id # l) /\ Back(h, "merge", [Rest EXCEPT !.ids = job[h].ids \ {l}])
        \/ \E o \in open :
             /\ o.id = l /\ Mark("rules", h, o.proxy, HoldsRules)
             /\ Goto(h, "setrules", [job[h] EXCEPT !.p = o.proxy, !.l = l, !.copy = cache,
                                                   !.copyOwn = own[o.proxy]])
  BY DEF Merge
<1>3. /\ Others(h)
      /\ \/ /\ \A o \in open : o.id # l
            /\ \/ pc'[h] = "idle" /\ job[h].ids \ {l} = {}
               \/ pc'[h] = "merge" /\ job'[h].ids = job[h].ids \ {l}
         \/ \E q \in open :
              /\ q.id = l /\ pc'[h] = "setrules"
              /\ job'[h].p = q.proxy /\ job'[h].l = l /\ job'[h].copy = cache
              /\ job'[h].copyOwn = own[q.proxy] /\ job'[h].ids = job[h].ids
              /\ <<"rules", q.proxy>> \notin overlap' => ~Busy(h, q.proxy, HoldsRules)
  <2>1. CASE (\A o \in open : o.id # l) /\ Back(h, "merge", [Rest EXCEPT !.ids = job[h].ids \ {l}])
    <3> DEFINE j == [Rest EXCEPT !.ids = job[h].ids \ {l}]
    <3>1. j.ids = job[h].ids \ {l}
      BY RestTyped DEF Job
    <3>2. Back(h, "merge", j)
      BY <2>1
    <3> HIDE DEF j
    <3>3. /\ Others(h)
          /\ \/ pc'[h] = "idle" /\ j.ids = {}
             \/ pc'[h] = "merge" /\ job'[h] = j
      BY <3>2, GoesOn
    <3> QED BY <2>1, <3>1, <3>3
  <2>2. ASSUME NEW q \in open, q.id = l, Mark("rules", h, q.proxy, HoldsRules),
               Goto(h, "setrules", [job[h] EXCEPT !.p = q.proxy, !.l = l, !.copy = cache,
                                                  !.copyOwn = own[q.proxy]])
        PROVE  /\ Others(h) /\ pc'[h] = "setrules"
               /\ job'[h].p = q.proxy /\ job'[h].l = l /\ job'[h].copy = cache
               /\ job'[h].copyOwn = own[q.proxy] /\ job'[h].ids = job[h].ids
               /\ <<"rules", q.proxy>> \notin overlap' => ~Busy(h, q.proxy, HoldsRules)
    <3> DEFINE j == [job[h] EXCEPT !.p = q.proxy, !.l = l, !.copy = cache, !.copyOwn = own[q.proxy]]
    <3>1. /\ j.p = q.proxy /\ j.l = l /\ j.copy = cache /\ j.copyOwn = own[q.proxy]
          /\ j.ids = job[h].ids
      BY AtWork DEF Job
    <3>2. Goto(h, "setrules", j)
      BY <2>2
    <3> HIDE DEF j
    <3>3. Others(h) /\ pc'[h] = "setrules" /\ job'[h] = j
      BY <3>2, Placed DEF Goto
    <3> QED BY <2>2, <3>1, <3>3 DEF Mark
  <2> QED BY <1>2, <2>1, <2>2
<1>4. \A a, b \in open : a.id = b.id => a = b
  BY DEF HandInv, IdsSound
<1>5. HeldSound'
  <2>1. HeldIds(job'[h], pc'[h]) \subseteq HeldIds(job[h], pc[h])
    BY <1>1, <1>3 DEF HeldIds
  <2> QED BY <1>1, <1>3, <1>4, <2>1, HeldFrame DEF ReloadInv
<1>6. CredsInv'
  BY <1>1, <1>3, CredsAside DEF ReloadInv
<1>7. CacheInv'
  BY <1>1, <1>3, CacheFrame DEF ReloadInv, CacheInv
<1>8. ASSUME NEW n \in open', <<"rules", n.proxy>> \notin overlap'
      PROVE  OwnKept(n)' /\ (<<"cache", n.proxy>> \notin overlap' => GlobalKept(n)')
  <2>1. n \in open /\ OwnKept(n) /\ (<<"cache", n.proxy>> \notin overlap' => GlobalKept(n))
    BY <1>1, <1>8 DEF ReloadInv, RulesInv
  <2>2. Loading => Loading'
    BY <1>1, <1>3, LoadingStays
  <2>3. CASE n.id # l
    <3>1. RulesDue(n) => RulesDue(n)'
      BY <1>1, <1>3, <2>3 DEF RulesDue, Others
    <3>2. ~(pc'[h] = "setrules" /\ job'[h].l = n.id)
      BY <1>3, <2>3
    <3>3. OwnKept(n)'
      BY <1>1, <1>3, <2>1, <3>1, <3>2, OwnFrame
    <3>4. GlobalKept(n) => GlobalKept(n)'
      BY <1>1, <1>3, <2>2, <3>1, <3>2, GlobalFrame
    <3> QED BY <2>1, <3>3, <3>4
  <2>4. CASE n.id = l
    <3>1. /\ pc'[h] = "setrules" /\ job'[h].p = n.proxy /\ job'[h].l = n.id
          /\ job'[h].copy = cache /\ job'[h].copyOwn = own[n.proxy]
          /\ ~Busy(h, n.proxy, HoldsRules)
      BY <1>3, <1>4, <1>8, <2>1, <2>4
    <3>2. \A g \in Procs \ {h} : ~(pc'[g] = "setrules" /\ job'[g].l = n.id)
      BY <1>3, <2>1, <3>1 DEF Others, ReloadInv, HeldSound, Busy, HoldsRules
    <3>3. OwnKept(n)'
      BY <1>1, <3>1, <3>2 DEF OwnKept
    <3>4. CacheKept => GlobalKept(n)'
      <4>1. CASE Loading
        BY <2>2, <4>1, LoadingKeeps
      <4>2. CASE ~Loading
        <5>1. CacheKept => cache = global
          BY <4>2 DEF CacheKept, Loading
        <5> QED BY <1>1, <3>1, <3>2, <5>1 DEF GlobalKept
      <4> QED BY <4>1, <4>2
    <3>5. n.proxy \in Proxies
      BY <2>1 DEF TypeOK, MemoryOK, Listener
    <3> QED BY <1>1, <3>3, <3>4, <3>5 DEF ReloadInv, CacheInv
  <2> QED BY <2>3, <2>4
<1> QED BY <1>5, <1>6, <1>7, <1>8 DEF ReloadInv, RulesInv

\* rules.set installs what was copied.
LEMMA SetRulesReload ==
  ASSUME TypeOK, HandInv, ReloadInv, NEW h \in Procs, SetRules(h)
  PROVE  ReloadInv'
<1>1. /\ pc[h] = "setrules" /\ GiveRules(job[h].l, job[h].copy, job[h].copyOwn)
      /\ UNCHANGED <<row, creds, global, own, cache, lastId, overlap>>
      /\ Back(h, "merge", [Rest EXCEPT !.ids = job[h].ids \ {job[h].l}])
  BY DEF SetRules, tables
<1>2. /\ Others(h)
      /\ \/ pc'[h] = "idle" /\ job[h].ids \ {job[h].l} = {}
         \/ pc'[h] = "merge" /\ job'[h].ids = job[h].ids \ {job[h].l}
  <2> DEFINE j == [Rest EXCEPT !.ids = job[h].ids \ {job[h].l}]
  <2>1. j.ids = job[h].ids \ {job[h].l}
    BY RestTyped DEF Job
  <2>2. Back(h, "merge", j)
    BY <1>1
  <2> HIDE DEF j
  <2>3. /\ Others(h)
        /\ \/ pc'[h] = "idle" /\ j.ids = {}
           \/ pc'[h] = "merge" /\ job'[h] = j
    BY <2>2, GoesOn
  <2> QED BY <2>1, <2>3
<1>3. ASSUME NEW n \in open'
      PROVE  \E o \in open : /\ n.id = o.id /\ n.proxy = o.proxy /\ n.creds = o.creds
                             /\ n.global = IF o.id = job[h].l THEN job[h].copy ELSE o.global
                             /\ n.own = IF o.id = job[h].l THEN job[h].copyOwn ELSE o.own
  BY <1>1, <1>3, RulesGiven DEF TypeOK, MemoryOK
<1>4. HeldSound'
  <2>1. HeldIds(job'[h], pc'[h]) \subseteq HeldIds(job[h], pc[h])
    BY <1>1, <1>2 DEF HeldIds
  <2> QED BY <1>1, <1>2, <1>3, <2>1, HeldFrame DEF ReloadInv
<1>5. CredsInv'
  BY <1>1, <1>2, <1>3, CredsAside DEF ReloadInv
<1>6. CacheInv'
  BY <1>1, <1>2, CacheFrame DEF ReloadInv, CacheInv
<1>7. ASSUME NEW n \in open', <<"rules", n.proxy>> \notin overlap'
      PROVE  OwnKept(n)' /\ (<<"cache", n.proxy>> \notin overlap' => GlobalKept(n)')
  <2>1. PICK o \in open : /\ n.id = o.id /\ n.proxy = o.proxy
                          /\ n.global = IF o.id = job[h].l THEN job[h].copy ELSE o.global
                          /\ n.own = IF o.id = job[h].l THEN job[h].copyOwn ELSE o.own
    BY <1>3
  <2>2. OwnKept(o) /\ (<<"cache", n.proxy>> \notin overlap' => GlobalKept(o))
    BY <1>1, <1>7, <2>1 DEF ReloadInv, RulesInv
  <2>3. RulesDue(o) => RulesDue(n)'
    BY <1>1, <1>2, <2>1 DEF RulesDue, Others
  <2>4. Loading => Loading'
    BY <1>1, <1>2, LoadingStays
  <2>5. CASE o.id # job[h].l
    <3>1. OwnKept(n)'
      BY <1>1, <1>2, <2>1, <2>2, <2>3, <2>5, OwnFrame
    <3>2. GlobalKept(o) => GlobalKept(n)'
      BY <1>1, <1>2, <2>1, <2>3, <2>4, <2>5, GlobalFrame
    <3> QED BY <2>2, <3>1, <3>2
  <2>6. CASE o.id = job[h].l
    <3>1. \A g \in Procs : pc'[g] = "setrules" => pc[g] = "setrules" /\ job'[g] = job[g]
      BY <1>2 DEF Others
    <3>2. (Targeting(o.proxy) => Targeting(n.proxy)') /\ (Closing(o) => Closing(n)')
      BY <1>1, <1>2, <2>1 DEF Targeting, Closing, Others
    <3>3. OwnKept(n)'
      <4>1. \A g \in Procs : pc[g] = "setrules" /\ job[g].l = o.id =>
              job[g].copyOwn = own'[n.proxy] \/ RulesDue(n)' \/ Targeting(n.proxy)' \/ Closing(n)'
        BY <1>1, <2>1, <2>2, <2>3, <3>2 DEF OwnKept
      <4>2. n.own = own'[n.proxy] \/ RulesDue(n)' \/ Targeting(n.proxy)' \/ Closing(n)'
        BY <1>1, <2>1, <2>6, <4>1
      <4> QED BY <2>1, <3>1, <4>1, <4>2 DEF OwnKept
    <3>4. GlobalKept(o) => GlobalKept(n)'
      <4> SUFFICES ASSUME GlobalKept(o) PROVE GlobalKept(n)'
        OBVIOUS
      <4>1. \A g \in Procs : pc[g] = "setrules" /\ job[g].l = o.id =>
              job[g].copy = global' \/ RulesDue(n)' \/ Loading' \/ Closing(n)'
        BY <1>1, <2>1, <2>3, <2>4, <3>2 DEF GlobalKept
      <4>2. n.global = global' \/ RulesDue(n)' \/ Loading' \/ Closing(n)'
        BY <1>1, <2>1, <2>6, <4>1
      <4> QED BY <2>1, <3>1, <4>1, <4>2 DEF GlobalKept
    <3> QED BY <2>2, <3>3, <3>4
  <2> QED BY <2>5, <2>6
<1> QED BY <1>4, <1>5, <1>6, <1>7 DEF ReloadInv, RulesInv

-----------------------------------------------------------------------------
(* The invariant. *)

\* A new installation has no listener.
LEMMA ReloadInit == Init => ReloadInv
<1> SUFFICES ASSUME Init PROVE ReloadInv
  OBVIOUS
<1>1. HeldSound
  BY DEF Init, HeldSound, HeldIds
<1>2. CredsInv /\ RulesInv
  BY DEF Init, CredsInv, RulesInv
<1>3. CacheInv
  BY DEF Init, CacheInv, CacheKept
<1> QED BY <1>1, <1>2, <1>3 DEF ReloadInv

\* RestoreAll gives every listener what the tables have.
LEMMA ReloadRestart == TypeOK /\ Restart => ReloadInv'
<1> SUFFICES ASSUME TypeOK, Restart PROVE ReloadInv'
  OBVIOUS
<1>1. PICK number \in [Up -> 1..Cardinality(Up)] :
        /\ cache' = global
        /\ open' = {[id |-> number[p], proxy |-> p, port |-> row[p].port, creds |-> creds[p],
                     global |-> global, own |-> own[p]] : p \in Up}
  BY DEF Restart, Up
<1>2. UNCHANGED <<creds, global, own>> /\ \A h \in Procs : pc'[h] = "idle"
  BY DEF Restart, tables
<1>3. \A n \in open' : n.creds = creds[n.proxy] /\ n.global = global /\ n.own = own[n.proxy]
  BY <1>1
<1>4. HeldSound'
  BY <1>2 DEF HeldSound, HeldIds
<1>5. ASSUME NEW n \in open' PROVE CredsKept(n)' /\ OwnKept(n)' /\ GlobalKept(n)'
  BY <1>2, <1>3 DEF CredsKept, OwnKept, GlobalKept
<1>6. CacheInv'
  BY <1>1, <1>2 DEF CacheInv, CacheKept
<1> QED BY <1>4, <1>5, <1>6 DEF ReloadInv, CredsInv, RulesInv

\* Every step keeps it.
LEMMA ReloadNext == IInv /\ ReloadInv /\ [Next]_vars => ReloadInv'
<1> SUFFICES ASSUME IInv, ReloadInv, [Next]_vars PROVE ReloadInv'
  OBVIOUS
<1>1. TypeOK /\ PortsSound /\ HandInv
  BY DEF IInv, OwnInv, HandInv
<1>2. ASSUME NEW h \in Procs, Step(h) \/ Request(h) PROVE ReloadInv'
  <2>1. CASE Ordinary(h)
    BY <1>1, <2>1, OrdinaryKept
  <2>2. CASE StartBind(h) /\ open' # open
    BY <1>1, <2>2, BindReload
  <2>3. CASE StartCreds(h) \/ StartRules(h) \/ StopClose(h)
    BY <1>1, <2>3, StartCredsReload, StartRulesReload, CloseReload
  <2>4. CASE DropCreds(h) \/ DropRow(h) \/ CreateProxy(h) \/ CreateSeed(h)
             \/ \E P \in SUBSET Proxies : CredWrite(h, P)
    BY <1>1, <2>4, CredsWritten, RowReload, SeedReload
  <2>5. CASE ReloadCreds(h) \/ SetCreds(h)
    BY <1>1, <2>5, ReloadCredsReload, SetCredsReload
  <2>6. CASE GlobalWrite(h) \/ GlobalQuery(h) \/ GlobalStore(h) \/ GlobalSnapshot(h)
    BY <1>1, <2>6, LoadReload, SnapshotReload
  <2>7. CASE SessionTarget(h) \/ \E p \in Proxies : SessionWrite(h, p)
    BY <1>1, <2>7, SessionWriteReload, TargetReload
  <2>8. CASE Merge(h) \/ SetRules(h)
    BY <1>1, <2>8, MergeReload, SetRulesReload
  <2> QED BY <1>2, <2>1, <2>2, <2>3, <2>4, <2>5, <2>6, <2>7, <2>8 DEF Step, Request, Ordinary
<1>3. CASE Restart
  BY <1>1, <1>3, ReloadRestart
<1>4. ASSUME NEW q \in Proxies, RowLoad(q) \/ RowSave(q) PROVE ReloadInv'
  <2>1. UNCHANGED <<creds, global, own, memory, pc, job, overlap>>
    BY <1>1, <1>4, RowMoves
  <2>2. \A o \in open : row'[o.proxy].proxy = row[o.proxy].proxy
    BY <1>1, <1>4, RowMoves DEF TypeOK, MemoryOK, Listener
  <2> QED BY <2>1, <2>2 DEF memory, ReloadInv, HeldSound, CredsInv, CacheInv, RulesInv, CredsKept,
          CredsDue, Going, CacheKept, OwnKept, GlobalKept, RulesDue, Targeting, Closing, Loading
<1>5. CASE UNCHANGED vars
  BY <1>5 DEF vars, tables, memory, ReloadInv, HeldSound, CredsInv, CacheInv, RulesInv, CredsKept,
     CredsDue, Going, CacheKept, OwnKept, GlobalKept, RulesDue, Targeting, Closing, Loading
<1> QED BY <1>2, <1>3, <1>4, <1>5 DEF Next

\* It always holds.
LEMMA ReloadInvariant == Spec => [](IInv /\ ReloadInv)
BY Invariant, ReloadInit, ReloadNext, PTL DEF Spec

\* What the map names for p is p's, and nobody is making or closing it.
LEMMA MappedFree ==
  ASSUME TypeOK, HandInv, NEW p \in Proxies, NEW o \in open, listeners[p] = o.id
  PROVE  o.proxy = p /\ \A h \in Procs : pc[h] \in InHand => job[h].l # o.id
<1>1. o.id # 0
  BY DEF TypeOK, MemoryOK, Listener
<1>2. o.proxy = p
  BY <1>1, NamedOwner
<1>3. ASSUME NEW h \in Procs, pc[h] \in InHand, job[h].l = o.id PROVE FALSE
  <2>1. PICK q \in open : q.id = job[h].l /\ q.proxy = job[h].p
    BY <1>3, HandHolds
  <2>2. job[h].p = p
    BY <1>2, <1>3, <2>1 DEF HandInv, IdsSound
  <2> QED BY <1>3, <2>2, HandHolds
<1> QED BY <1>2, <1>3

\* manager.go ReloadCreds: whatever the order of changes, reloads, starts, deletions and
\* restarts, once no reload of a proxy is under way its listener has the creds of
\* the table, unless two reloads of it, or a reload and a Start, overlapped.
THEOREM CredsStayFresh == Spec => []CredsFresh
<1>1. IInv /\ ReloadInv => CredsFresh
  <2> SUFFICES ASSUME IInv, ReloadInv, NEW p \in Live, NEW o \in open, listeners[p] = o.id,
                      Calm(p, {"reload", "setcreds"} \cup Stopping),
                      <<"creds", p>> \notin overlap
               PROVE  o.creds = creds[p]
    BY DEF CredsFresh
  <2>1. TypeOK /\ HandInv /\ p \in Proxies
    BY DEF IInv, OwnInv, HandInv, Live
  <2>2. o.proxy = p /\ \A h \in Procs : pc[h] \in InHand => job[h].l # o.id
    BY <2>1, MappedFree
  <2>3. CredsKept(o)
    BY <2>2 DEF ReloadInv, CredsInv
  <2>4. ~CredsDue(p) /\ ~Going(p)
    BY DEF CredsDue, Going, Calm, Live, Stopping
  <2>5. \A h \in Procs : pc[h] = "setcreds" => job[h].l # o.id
    BY <2>2 DEF ReloadInv, HeldSound, Calm
  <2> QED BY <2>2, <2>3, <2>4, <2>5 DEF CredsKept, InHand
<1> QED BY <1>1, ReloadInvariant, PTL

\* manager.go ReloadGlobalRules and ReloadSessionRules: a change of the access rules goes
\* through the cache to every listener, unless it overlaps another reload of the same
\* cache or listener, or a Start between its two last steps.
THEOREM RulesStayFresh == Spec => []RulesFresh
<1>1. IInv /\ ReloadInv => RulesFresh
  <2> SUFFICES ASSUME IInv, ReloadInv, NEW p \in Live, NEW o \in open, listeners[p] = o.id,
                      Calm(p, {"target", "merge", "setrules"}), <<"rules", p>> \notin overlap
               PROVE  /\ o.own = own[p]
                      /\ \/ o.global = global
                         \/ <<"cache", p>> \in overlap
                         \/ \E h \in Procs : pc[h] \in {"query", "cache", "snapshot"}
    BY DEF RulesFresh
  <2>1. TypeOK /\ HandInv /\ p \in Proxies
    BY DEF IInv, OwnInv, HandInv, Live
  <2>2. o.proxy = p /\ \A h \in Procs : pc[h] \in InHand => job[h].l # o.id
    BY <2>1, MappedFree
  <2>3. OwnKept(o) /\ (<<"cache", p>> \notin overlap => GlobalKept(o))
    BY <2>2 DEF ReloadInv, RulesInv
  <2>4. ~RulesDue(o) /\ ~Targeting(p)
    BY DEF RulesDue, Targeting, Calm
  <2>5. \A h \in Procs : pc[h] = "setrules" => job[h].l # o.id
    BY <2>2 DEF ReloadInv, HeldSound, Calm
  <2>6. ~Closing(o) /\ \A h \in Procs : pc[h] \in {"creds", "rules", "setrules"} => job[h].l # o.id
    BY <2>2, <2>5 DEF Closing, InHand
  <2>7. o.own = own[p]
    BY <2>2, <2>3, <2>4, <2>6 DEF OwnKept
  <2>8. GlobalKept(o) => o.global = global \/ Loading
    BY <2>4, <2>6 DEF GlobalKept
  <2> QED BY <2>3, <2>7, <2>8 DEF Loading
<1> QED BY <1>1, ReloadInvariant, PTL

=============================================================================
