------------------------------- MODULE Claims -------------------------------
(* Claims and credentials (internal/api/handlers_claim.go, handlers_cred.go, *)
(* SetSessionType and the expiry cleanup): which user and order holds a slot *)
(* on which proxy.  Claim, change and prune run under claimMu; release,      *)
(* extend, admin edits, type changes and the cleanup do not.  Handlers use   *)
(* no transaction: an action is one write, or the reads before it, between   *)
(* which only deletions and marked writes (bent) could come.                 *)
(* Credentials without a user (the default one of a proxy) hold no slot and  *)
(* are left out, and so is the reload of the listeners after each change.    *)
EXTENDS Integers, FiniteSets

CONSTANTS
  Users,      \* iuser_id
  Orders,     \* order_id
  NoOrder,    \* the empty order_id
  Proxies,    \* one proxy per session
  Types,      \* static, private, rotating
  MaxCreds,   \* MaxCredsForType
  Handlers,   \* goroutines of the HTTP server
  NoOne,      \* the owner of the free claimMu
  FirstType,  \* the type each session is created with
  Counts,     \* counts a claim may ask for (bound of a run)
  Ttls,       \* lifetimes a request may name, 0 for none (bound of a run)
  MaxTime,    \* end of time (bound of a run)
  MaxRequests \* how many requests arrive (bound of a run)

ASSUME SlotsAssumption == MaxCreds \in [Types -> Nat \ {0}]
ASSUME NamesAssumption ==
  /\ NoOne \notin Handlers /\ Users # {} /\ Types # {} /\ IsFiniteSet(Proxies)
  /\ FirstType \in [Proxies -> Types]
ASSUME LimitsAssumption ==
  /\ Counts \subseteq Nat \ {0} /\ Ttls \subseteq Nat
  /\ MaxTime \in Nat /\ MaxRequests \in Nat

VARIABLES
  creds,    \* table proxy_credentials, the rows with a user
  lastId,   \* its last primary key
  type,     \* sessions.type, by the session's proxy
  now,      \* the clock
  claimMu,  \* the handler in claimMu
  pc, job,  \* where each handler is, and what it holds in memory
  requests, \* requests still to come
  bent      \* history: an operation outside claimMu revived a cred of the
            \* proxy, or changed the type of its session

locals == <<pc, job>>
vars   == <<creds, lastId, type, now, claimMu, pc, job, requests, bent>>

Names == Orders \cup {NoOrder}
\* expires_at is 0 when it is NULL.
Cred == [id : Nat, user : Users, order : Names, proxy : Proxies, on : BOOLEAN, exp : Nat]

\* enabled AND (expires_at IS NULL OR expires_at > now)
Active(c) == c.on /\ (c.exp = 0 \/ c.exp > now)

ActiveOf(u) == {c \in creds : c.user = u /\ Active(c)}
Slots(q)    == {c \in creds : c.proxy = q /\ Active(c)}

\* availableProxiesForType, but for the sessions that happen to be down.
Available(used, t) ==
  {q \in Proxies \ used : type[q] = t /\ Cardinality(Slots(q)) < MaxCreds[t]}

ProxiesOf(C) == {c.proxy : c \in C}

Job == [user : Users, order : Names, type : Types, need : Nat, count : Nat, ttl : Nat, at : Nat,
        used : SUBSET Proxies, plan : SUBSET Proxies, todo : SUBSET Cred, ids : SUBSET Nat]
Labels == {"idle", "pick", "insert", "change", "create", "drop", "prune", "release", "extend",
           "settype", "update"}
InMutex == {"pick", "insert", "change", "create", "drop", "prune"}

Rest == [user |-> CHOOSE u \in Users : TRUE, order |-> NoOrder, type |-> CHOOSE t \in Types : TRUE,
         need |-> 0, count |-> 0, ttl |-> 0, at |-> 0, used |-> {}, plan |-> {}, todo |-> {},
         ids |-> {}]

\* Values have their types and primary keys are unique.
TypeOK ==
  /\ creds \subseteq Cred /\ lastId \in Nat
  /\ \A c, d \in creds : c.id <= lastId /\ (c.id = d.id => c = d)
  /\ type \in [Proxies -> Types] /\ now \in 0..MaxTime
  /\ claimMu \in Handlers \cup {NoOne}
  /\ pc \in [Handlers -> Labels] /\ job \in [Handlers -> Job]
  /\ requests \in 0..MaxRequests /\ bent \in [Proxies -> BOOLEAN]

Init ==
  /\ creds = {} /\ lastId = 0 /\ type = FirstType /\ now = 0
  /\ claimMu = NoOne
  /\ pc = [h \in Handlers |-> "idle"] /\ job = [h \in Handlers |-> Rest]
  /\ requests = MaxRequests /\ bent = [q \in Proxies |-> FALSE]

-----------------------------------------------------------------------------
(* Requests, the mutex and the table. *)

Arrives(h) == pc[h] = "idle" /\ requests > 0 /\ requests' = requests - 1

Begin(h, l, j) == pc' = [pc EXCEPT ![h] = l] /\ job' = [job EXCEPT ![h] = j]
Goto(h, l, j)  == Begin(h, l, j) /\ UNCHANGED requests
Done(h)        == Goto(h, "idle", Rest)

Lock(h)   == claimMu = NoOne /\ claimMu' = h
Unlock(h) == claimMu' = NoOne

\* INSERT: a new row with the next key.
Create(u, o, q, e) ==
  /\ lastId' = lastId + 1
  /\ creds' = creds \cup {[id |-> lastId + 1, user |-> u, order |-> o, proxy |-> q, on |-> TRUE,
                           exp |-> e]}
\* DELETE .. WHERE id IN (..)
Delete(ids) == creds' = {c \in creds : c.id \notin ids} /\ UNCHANGED lastId

\* time.Now().Add(ttl), NULL without one
Expiry(ttl) == IF ttl = 0 THEN 0 ELSE now + ttl

-----------------------------------------------------------------------------
(* ClaimCredentials. *)

\* Variant: creds of an order are passed over whatever the claim names.
Matching_LegacyOnly(u, o, t) == {c \in ActiveOf(u) : type[c.proxy] = t /\ c.order = o /\ o = NoOrder}

\* The creds a claim gives again: same user, same order (none for none), and a
\* session of the type asked for.
Matching(u, o, t) == {c \in ActiveOf(u) : type[c.proxy] = t /\ c.order = o}

\* Variant: the proxies of the order are not excluded.
Excluded_Nothing(u, o, t) == IF o = NoOrder THEN ProxiesOf(ActiveOf(u)) ELSE {}

Excluded(u, o, t) == ProxiesOf(IF o = NoOrder THEN ActiveOf(u) ELSE Matching(u, o, t))

ClaimJob(u, o, t, n, ttl) ==
  [user |-> u, order |-> o, type |-> t, count |-> n, ttl |-> ttl, used |-> Excluded(u, o, t),
   need |-> n - Cardinality(Matching(u, o, t)), at |-> 0, plan |-> {}, todo |-> {}, ids |-> {}]

\* Variant: without claimMu.
ClaimBegin_NoLock(h, u, o, t, n, ttl) ==
  /\ Arrives(h) /\ claimMu' = h
  /\ Cardinality(Matching(u, o, t)) < n
  /\ Begin(h, "pick", ClaimJob(u, o, t, n, ttl))
  /\ UNCHANGED <<creds, lastId, type, now, bent>>

\* A claim that has enough creds already answers with them and changes nothing.
ClaimBegin(h, u, o, t, n, ttl) ==
  /\ Arrives(h) /\ Lock(h)
  /\ Cardinality(Matching(u, o, t)) < n
  /\ Begin(h, "pick", ClaimJob(u, o, t, n, ttl))
  /\ UNCHANGED <<creds, lastId, type, now, bent>>

\* The candidates come shuffled, and which sessions are up is not known here: any
\* `need` of them, or too few.
ClaimPick(h) ==
  /\ pc[h] = "pick"
  /\ \E plan \in SUBSET Available(job[h].used, job[h].type) :
       /\ Cardinality(plan) = job[h].need
       /\ Goto(h, "insert", [job[h] EXCEPT !.plan = plan, !.at = Expiry(job[h].ttl)])
  /\ UNCHANGED <<creds, lastId, type, now, claimMu, bent>>

\* Too few slots, or a failed INSERT: what was inserted stays.
GiveUp(h) ==
  /\ pc[h] \in {"pick", "insert", "change", "create"}
  /\ Done(h) /\ Unlock(h)
  /\ UNCHANGED <<creds, lastId, type, now, bent>>

ClaimInsert(h) ==
  /\ pc[h] = "insert"
  /\ \E q \in job[h].plan :
       /\ Create(job[h].user, job[h].order, q, job[h].at)
       /\ IF job[h].plan = {q} THEN Done(h) /\ Unlock(h)
          ELSE Goto(h, "insert", [job[h] EXCEPT !.plan = @ \ {q}]) /\ UNCHANGED claimMu
  /\ UNCHANGED <<type, now, bent>>

-----------------------------------------------------------------------------
(* ChangeCredentials: a new cred on another proxy, then the old one goes. *)

Owned(u, ids) == {c \in creds : c.user = u /\ c.id \in ids}

\* Variant: without claimMu.
ChangeBegin_NoLock(h, u, ids) ==
  /\ Arrives(h) /\ claimMu' = h
  /\ ids # {} /\ Cardinality(Owned(u, ids)) = Cardinality(ids)
  /\ Begin(h, "change", [Rest EXCEPT !.user = u, !.todo = Owned(u, ids), !.at = now,
                           !.used = ProxiesOf(ActiveOf(u))])
  /\ UNCHANGED <<creds, lastId, type, now, bent>>

ChangeBegin(h, u, ids) ==
  /\ Arrives(h) /\ Lock(h)
  /\ ids # {} /\ Cardinality(Owned(u, ids)) = Cardinality(ids)
  /\ Begin(h, "change", [Rest EXCEPT !.user = u, !.todo = Owned(u, ids), !.at = now,
                           !.used = ProxiesOf(ActiveOf(u))])
  /\ UNCHANGED <<creds, lastId, type, now, bent>>

\* The old creds come in the order the query returns them in, which has no ORDER BY.
ChangePick(h) ==
  /\ pc[h] = "change"
  /\ \E old \in job[h].todo : \E q \in Available(job[h].used, type[old.proxy]) :
       Goto(h, "create", [job[h] EXCEPT !.ids = {old.id}, !.plan = {q}, !.used = @ \cup {q}])
  /\ UNCHANGED <<creds, lastId, type, now, claimMu, bent>>

Old(h) == CHOOSE c \in job[h].todo : c.id \in job[h].ids

\* The remaining time of the old cred; none when it has run out.
Remaining(h) == IF Old(h).exp > job[h].at THEN Old(h).exp ELSE 0

ChangeCreate(h) ==
  /\ pc[h] = "create"
  /\ \E q \in job[h].plan : Create(job[h].user, Old(h).order, q, Remaining(h))
  /\ Goto(h, "drop", [job[h] EXCEPT !.plan = {}])
  /\ UNCHANGED <<type, now, claimMu, bent>>

ChangeDrop(h) ==
  /\ pc[h] = "drop"
  /\ Delete(job[h].ids)
  /\ LET left == {c \in job[h].todo : c.id \notin job[h].ids} IN
       IF left = {} THEN Done(h) /\ Unlock(h)
       ELSE Goto(h, "change", [job[h] EXCEPT !.todo = left, !.ids = {}]) /\ UNCHANGED claimMu
  /\ UNCHANGED <<type, now, bent>>

-----------------------------------------------------------------------------
(* PruneCredentials under claimMu; ReleaseCredentials and ExtendCredentials  *)
(* without it.                                                               *)

Ids(C) == {c.id : c \in C}

PruneBegin(h, keep) ==
  /\ Arrives(h) /\ Lock(h)
  /\ Begin(h, "prune", [Rest EXCEPT !.ids = Ids(creds) \ keep])
  /\ UNCHANGED <<creds, lastId, type, now, bent>>

PruneDelete(h) ==
  /\ pc[h] = "prune"
  /\ Delete(job[h].ids) /\ Done(h) /\ Unlock(h)
  /\ UNCHANGED <<type, now, bent>>

\* The creds of a user, of an order, of a type: an absent filter admits all.
Filtered(C, os, ts) == {c \in C : c.order \in os /\ type[c.proxy] \in ts}
OrderFilters == {{o} : o \in Orders} \cup {Names}
TypeFilters  == {{t} : t \in Types} \cup {Types}

ReleaseBegin(h, u, os, ts) ==
  /\ Arrives(h)
  /\ LET C == Filtered({c \in creds : c.user = u}, os, ts) IN
       C # {} /\ Begin(h, "release", [Rest EXCEPT !.ids = Ids(C)])
  /\ UNCHANGED <<creds, lastId, type, now, claimMu, bent>>

ReleaseDelete(h) ==
  /\ pc[h] = "release"
  /\ Delete(job[h].ids) /\ Done(h)
  /\ UNCHANGED <<type, now, claimMu, bent>>

\* By cred_ids, whether active or not; by order or type, the active ones.
ExtendTargets(u) ==
  {Owned(u, ids) : ids \in SUBSET Ids({c \in creds : c.user = u})} \cup
  {Filtered(ActiveOf(u), os, ts) : os \in OrderFilters, ts \in TypeFilters}

ExtendBegin(h, u, C, ttl) ==
  /\ Arrives(h) /\ C # {}
  /\ Begin(h, "extend", [Rest EXCEPT !.todo = C, !.at = now, !.ttl = ttl])
  /\ UNCHANGED <<creds, lastId, type, now, claimMu, bent>>

\* The rows of a write outside claimMu give a slot to a cred that had none.
Revives(C, q) == \E c \in C : c.proxy = q /\ Active(c) /\ \A d \in creds : d.id = c.id => ~Active(d)
Bend(C) == bent' = [q \in Proxies |-> bent[q] \/ Revives(C, q)]

\* max(now, expires_at) + ttl of the cred as it was read; NULL counts from now.
Extended(h, c) == (IF c.exp > job[h].at THEN c.exp ELSE job[h].at) + job[h].ttl

\* UPDATE .. SET expires_at: nothing if the row is gone.
ExtendWrite(h) ==
  /\ pc[h] = "extend"
  /\ \E c \in job[h].todo :
       LET old == {d \in creds : d.id = c.id}
           new == {[d EXCEPT !.exp = Extended(h, c)] : d \in old}
       IN /\ creds' = (creds \ old) \cup new
          /\ Bend(new)
          /\ IF job[h].todo = {c} THEN Done(h)
             ELSE Goto(h, "extend", [job[h] EXCEPT !.todo = @ \ {c}])
  /\ UNCHANGED <<lastId, type, now, claimMu>>

-----------------------------------------------------------------------------
(* SetSessionType, UpdateCred, DeleteCred: no claimMu.                       *)

SetTypeBegin(h, q, t) ==
  /\ Arrives(h)
  /\ Cardinality(Slots(q)) <= MaxCreds[t]
  /\ Begin(h, "settype", [Rest EXCEPT !.plan = {q}, !.type = t])
  /\ UNCHANGED <<creds, lastId, type, now, claimMu, bent>>

SetTypeWrite(h) ==
  /\ pc[h] = "settype"
  /\ type' = [q \in Proxies |-> IF q \in job[h].plan THEN job[h].type ELSE type[q]]
  /\ bent' = [q \in Proxies |-> bent[q] \/ type'[q] # type[q]]
  /\ Done(h)
  /\ UNCHANGED <<creds, lastId, now, claimMu>>

\* An administrator sets enabled and the lifetime of a cred.
UpdateBegin(h, c, on, exp) ==
  /\ Arrives(h) /\ c \in creds
  /\ Begin(h, "update", [Rest EXCEPT !.todo = {[c EXCEPT !.on = on, !.exp = exp]}])
  /\ UNCHANGED <<creds, lastId, type, now, claimMu, bent>>

\* Variant: the Save always inserts.
UpdateSave_Insert(h) ==
  /\ pc[h] = "update"
  /\ creds' = creds \cup job[h].todo
  /\ Bend(job[h].todo)
  /\ Done(h)
  /\ UNCHANGED <<lastId, type, now, claimMu>>

\* gorm.Save: the whole row, and an insert when it is gone.
UpdateSave(h) ==
  /\ pc[h] = "update"
  /\ creds' = {c \in creds : c.id \notin Ids(job[h].todo)} \cup job[h].todo
  /\ Bend(job[h].todo)
  /\ Done(h)
  /\ UNCHANGED <<lastId, type, now, claimMu>>

DeleteCred(c) ==
  /\ c \in creds /\ requests > 0 /\ requests' = requests - 1
  /\ Delete({c.id})
  /\ UNCHANGED <<type, now, claimMu, locals, bent>>

-----------------------------------------------------------------------------
(* The clock, the cleanup every minute, and a restart of the process.        *)

Tick ==
  /\ now < MaxTime /\ now' = now + 1
  /\ UNCHANGED <<creds, lastId, type, claimMu, locals, requests, bent>>

Expired == {c \in creds : c.exp # 0 /\ c.exp <= now}

CleanExpired ==
  /\ Expired # {}
  /\ Delete(Ids(Expired))
  /\ UNCHANGED <<type, now, claimMu, locals, requests, bent>>

Crash ==
  /\ \E h \in Handlers : pc[h] # "idle"
  /\ claimMu' = NoOne
  /\ pc' = [h \in Handlers |-> "idle"] /\ job' = [h \in Handlers |-> Rest]
  /\ UNCHANGED <<creds, lastId, type, now, requests, bent>>

-----------------------------------------------------------------------------
Step(h) ==
  \/ ClaimPick(h) \/ ClaimInsert(h) \/ GiveUp(h)
  \/ ChangePick(h) \/ ChangeCreate(h) \/ ChangeDrop(h)
  \/ PruneDelete(h) \/ ReleaseDelete(h) \/ ExtendWrite(h)
  \/ SetTypeWrite(h) \/ UpdateSave(h)

Request(h) ==
  \/ \E u \in Users, o \in Names, t \in Types, n \in Counts, ttl \in Ttls :
       ClaimBegin(h, u, o, t, n, ttl)
  \/ \E u \in Users, ids \in SUBSET Ids(creds) : ChangeBegin(h, u, ids)
  \/ \E keep \in SUBSET Ids(creds) : PruneBegin(h, keep)
  \/ \E u \in Users, os \in OrderFilters, ts \in TypeFilters : ReleaseBegin(h, u, os, ts)
  \/ \E u \in Users, ttl \in Ttls \ {0} : \E C \in ExtendTargets(u) : ExtendBegin(h, u, C, ttl)
  \/ \E q \in Proxies, t \in Types : SetTypeBegin(h, q, t)
  \/ \E c \in creds, on \in BOOLEAN : \E exp \in {c.exp} \cup {Expiry(ttl) : ttl \in Ttls} :
       UpdateBegin(h, c, on, exp)

Next ==
  \/ \E h \in Handlers : Step(h) \/ Request(h)
  \/ \E c \in creds : DeleteCred(c)
  \/ Tick \/ CleanExpired \/ Crash

Spec == Init /\ [][Next]_vars

-----------------------------------------------------------------------------
(* Properties. *)

\* No session holds more users than its type allows, however claims, changes,
\* releases, expiry and crashes interleave.  Only what runs without claimMu can
\* break it, by giving an inactive cred its slot again or changing the type.
QuotaHeld == \A q \in Proxies : bent[q] \/ Cardinality(Slots(q)) <= MaxCreds[type[q]]

\* The active creds of one order of a user are on different sessions, in the
\* middle of a change too.
OrderSpread ==
  \A c, d \in creds :
    /\ Active(c) /\ Active(d)
    /\ c.user = d.user /\ c.order = d.order /\ c.proxy = d.proxy
    => c = d \/ bent[c.proxy]

\* The creds that count for the claim h is answering.
Reclaimed(h) ==
  {c \in creds : /\ Active(c) /\ ~bent[c.proxy] /\ type[c.proxy] = job[h].type
                 /\ c.user = job[h].user /\ c.order = job[h].order}

\* A claim, repeated after a lost answer, a failed INSERT or a crash, never makes
\* the order's creds more than it asks for.
ClaimIdempotent ==
  [][\A h \in Handlers : ClaimInsert(h) => Cardinality(Reclaimed(h)) < job[h].count]_vars

-----------------------------------------------------------------------------
(* What claimMu promises.                                                    *)

Slot(c) == [id |-> c.id, user |-> c.user, order |-> c.order, proxy |-> c.proxy]
InUse   == {Slot(c) : c \in {d \in creds : Active(d)}}
Limits  == [q \in Proxies |-> MaxCreds[type[q]]]
Unbent  == {q \in Proxies : ~bent[q]}

Ledger == INSTANCE SlotLedger WITH
  Sessions <- Proxies, slots <- InUse, limit <- Limits, strict <- Unbent

\* The table implements SlotLedger: a claim or a change grants one slot at a time,
\* on a session with room and without that user's order, though sessions were
\* picked several statements before; whatever runs beside it, stale rows written
\* back included, only frees slots of unbent sessions and hands none to another.
LedgerSpec == Ledger!Spec
=============================================================================
