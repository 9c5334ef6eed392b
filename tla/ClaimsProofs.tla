----------------------------- MODULE ClaimsProofs -----------------------------
(* Proofs about Claims, for any users, orders, sessions and limits.          *)
EXTENDS Claims, FiniteSetTheorems, TLAPS

-----------------------------------------------------------------------------
(* The inductive invariant. *)

Known == creds \cup UNION {job[h].todo : h \in Handlers}
SameRow(c, d) == c.user = d.user /\ c.order = d.order /\ c.proxy = d.proxy

\* A primary key stands for one cred, in the table and in every handler's memory.
RowsSound ==
  /\ IsFiniteSet(creds)
  /\ \A c \in Known : c.id <= lastId
  /\ \A c, d \in Known : c.id = d.id => SameRow(c, d)

\* claimMu belongs to the one handler between its Lock and its deferred Unlock.
MutexHeld == \A h \in Handlers : pc[h] \in InMutex <=> claimMu = h

\* What a claim knows of the table between picking sessions and inserting.
ClaimPromise(h) ==
  /\ pc[h] = "pick" =>
       /\ \A c \in Reclaimed(h) : c.proxy \in job[h].used
       /\ Cardinality(Reclaimed(h)) + job[h].need <= job[h].count
  /\ pc[h] = "insert" =>
       /\ \A c \in creds :
            Active(c) /\ c.user = job[h].user /\ c.order = job[h].order
              => c.proxy \notin job[h].plan \/ bent[c.proxy]
       /\ IsFiniteSet(job[h].plan)
       /\ Cardinality(Reclaimed(h)) + Cardinality(job[h].plan) <= job[h].count

\* What a change knows: every session the user is on is used up, and so is the
\* one picked.
ChangePromise(h) ==
  pc[h] \in {"change", "create", "drop"} =>
    /\ job[h].plan \subseteq job[h].used
    /\ \A c \in creds :
         Active(c) /\ c.user = job[h].user /\ ~bent[c.proxy]
           => c.proxy \in job[h].used /\ c.proxy \notin job[h].plan

\* The sessions picked still have a slot.
SlotPromise(h) ==
  pc[h] \in {"insert", "create"} =>
    \A q \in job[h].plan : bent[q] \/ Cardinality(Slots(q)) < MaxCreds[type[q]]

\* The cred being replaced is one of those to replace.
OldPromise(h) == pc[h] \in {"create", "drop"} => \E c \in job[h].todo : c.id \in job[h].ids

\* An update holds one cred.
UpdatePromise(h) == pc[h] = "update" => \E c \in Cred : job[h].todo = {c}

Promise(h) ==
  ClaimPromise(h) /\ ChangePromise(h) /\ SlotPromise(h) /\ OldPromise(h) /\ UpdatePromise(h)

IInv == /\ TypeOK /\ RowsSound /\ MutexHeld /\ QuotaHeld /\ OrderSpread
        /\ \A h \in Handlers : Promise(h)
-----------------------------------------------------------------------------
(* Types. *)

\* The empty job has its type, and so has every job a handler is given.
LEMMA RestTyped == Rest \in Job
<1>1. Rest.user \in Users /\ Rest.type \in Types
  BY NamesAssumption DEF Rest
<1> QED BY <1>1 DEF Rest, Job, Names

\* The fields handlers set.
LEMMA JobEdits ==
  ASSUME NEW j \in Job
  PROVE  /\ \A P \in SUBSET Proxies, k \in Nat : [j EXCEPT !.plan = P, !.at = k] \in Job
         /\ \A P \in SUBSET Proxies : [j EXCEPT !.plan = P] \in Job
         /\ \A u \in Users, C \in SUBSET Cred, k \in Nat, P \in SUBSET Proxies :
              [j EXCEPT !.user = u, !.todo = C, !.at = k, !.used = P] \in Job
         /\ \A I \in SUBSET Nat, P, Q \in SUBSET Proxies :
              [j EXCEPT !.ids = I, !.plan = P, !.used = Q] \in Job
         /\ \A C \in SUBSET Cred, I \in SUBSET Nat : [j EXCEPT !.todo = C, !.ids = I] \in Job
         /\ \A I \in SUBSET Nat : [j EXCEPT !.ids = I] \in Job
         /\ \A C \in SUBSET Cred, n, k \in Nat :
              [j EXCEPT !.todo = C, !.at = n, !.ttl = k] \in Job
         /\ \A C \in SUBSET Cred : [j EXCEPT !.todo = C] \in Job
         /\ \A P \in SUBSET Proxies, t \in Types : [j EXCEPT !.plan = P, !.type = t] \in Job
  BY DEF Job

\* The part of TypeOK about the handlers.
Placed == pc \in [Handlers -> Labels] /\ job \in [Handlers -> Job] /\ requests \in 0..MaxRequests

\* The part of TypeOK about the tables.
Stored ==
  /\ creds \subseteq Cred /\ lastId \in Nat
  /\ \A c, d \in creds : c.id <= lastId /\ (c.id = d.id => c = d)
  /\ type \in [Proxies -> Types] /\ now \in 0..MaxTime
  /\ claimMu \in Handlers \cup {NoOne} /\ bent \in [Proxies -> BOOLEAN]

\* TypeOK is these two parts, before a step and after it.
LEMMA TypeParts == (TypeOK <=> Placed /\ Stored) /\ (TypeOK' <=> Placed' /\ Stored')
  BY DEF TypeOK, Placed, Stored

\* A handler that moves on with a well-typed job stays well placed.
LEMMA GotoPlaced ==
  ASSUME Placed, NEW h \in Handlers, NEW l \in Labels, NEW j \in Job, Goto(h, l, j)
  PROVE  Placed'
  BY DEF Placed, Goto, Begin

\* So does one that has answered.
LEMMA DonePlaced ==
  ASSUME Placed, NEW h \in Handlers, Done(h)
  PROVE  Placed'
  BY RestTyped, GotoPlaced DEF Done, Labels

\* So does one that takes a request.
LEMMA BeginPlaced ==
  ASSUME Placed, NEW h \in Handlers, NEW l \in Labels, NEW j \in Job, Arrives(h), Begin(h, l, j)
  PROVE  Placed'
  BY LimitsAssumption DEF Placed, Arrives, Begin

\* Inserting keeps the keys of the table unique.
LEMMA CreateStored ==
  ASSUME Stored, NEW u \in Users, NEW o \in Names, NEW q \in Proxies, NEW e \in Nat, Create(u, o, q, e)
  PROVE  /\ creds' \subseteq Cred /\ lastId' \in Nat
         /\ \A c, d \in creds' : c.id <= lastId' /\ (c.id = d.id => c = d)
<1> DEFINE n == [id |-> lastId + 1, user |-> u, order |-> o, proxy |-> q, on |-> TRUE, exp |-> e]
<1>1. creds' = creds \cup {n} /\ lastId' = lastId + 1 /\ n \in Cred /\ n.id = lastId + 1
  BY DEF Create, Cred, Stored
<1>2. \A c \in creds : c.id \in Nat /\ c.id <= lastId
  BY DEF Stored, Cred
<1> HIDE DEF n
<1> QED BY <1>1, <1>2 DEF Stored

\* Deleting keeps them unique.
LEMMA DeleteStored ==
  ASSUME Stored, NEW ids, Delete(ids)
  PROVE  /\ creds' \subseteq Cred /\ lastId' \in Nat
         /\ \A c, d \in creds' : c.id <= lastId' /\ (c.id = d.id => c = d)
  BY DEF Stored, Delete

\* A lifetime is a natural number.
LEMMA ExpiryTyped == ASSUME Stored, NEW ttl \in Nat PROVE Expiry(ttl) \in Nat
  BY LimitsAssumption DEF Expiry, Stored

\* The cred a change replaces.
LEMMA OldTyped ==
  ASSUME NEW h \in Handlers, OldPromise(h), pc[h] \in {"create", "drop"}
  PROVE  Old(h) \in job[h].todo /\ Old(h).id \in job[h].ids
  BY DEF OldPromise, Old

\* The creds a claim finds are counted.
LEMMA MatchingCounted ==
  ASSUME IsFiniteSet(creds), NEW u, NEW o, NEW t
  PROVE  IsFiniteSet(Matching(u, o, t)) /\ Cardinality(Matching(u, o, t)) \in Nat
<1>1. Matching(u, o, t) \subseteq creds
  BY DEF Matching, ActiveOf
<1> QED BY <1>1, FS_Subset, FS_CardinalityType

\* Claims keep the types.
LEMMA ClaimTyped ==
  ASSUME TypeOK, IsFiniteSet(creds), NEW h \in Handlers,
         \/ ClaimPick(h) \/ ClaimInsert(h) \/ GiveUp(h)
         \/ \E u \in Users, o \in Names, t \in Types, n \in Counts, ttl \in Ttls :
              ClaimBegin(h, u, o, t, n, ttl)
  PROVE  TypeOK'
<1>0. Placed /\ Stored /\ job[h] \in Job
  BY TypeParts DEF Placed
<1>j. /\ job[h].user \in Users /\ job[h].order \in Names /\ job[h].plan \subseteq Proxies
      /\ job[h].at \in Nat /\ job[h].ttl \in Nat
  BY <1>0 DEF Job
<1>1. ASSUME NEW u \in Users, NEW o \in Names, NEW t \in Types, NEW n \in Counts, NEW ttl \in Ttls,
             ClaimBegin(h, u, o, t, n, ttl)
      PROVE  TypeOK'
  <2>0. n \in Nat /\ ttl \in Nat
    BY LimitsAssumption
  <2>1. n - Cardinality(Matching(u, o, t)) \in Nat
    BY <2>0, <1>1, MatchingCounted DEF ClaimBegin
  <2>2. Excluded(u, o, t) \in SUBSET Proxies
    BY <1>0 DEF Excluded, ProxiesOf, ActiveOf, Matching, Stored, Cred
  <2>3. ClaimJob(u, o, t, n, ttl) \in Job
    BY <2>0, <2>1, <2>2 DEF ClaimJob, Job
  <2>4. Arrives(h) /\ Begin(h, "pick", ClaimJob(u, o, t, n, ttl)) /\ claimMu' = h
        /\ UNCHANGED <<creds, lastId, type, now, bent>>
    BY <1>1 DEF ClaimBegin, Lock
  <2>5. Placed'
    BY <2>3, <2>4, <1>0, BeginPlaced DEF Labels
  <2> QED BY <2>4, <2>5, <1>0, TypeParts DEF Stored
<1>2. CASE ClaimPick(h)
  <2>1. PICK plan \in SUBSET Proxies :
          Goto(h, "insert", [job[h] EXCEPT !.plan = plan, !.at = Expiry(job[h].ttl)])
    BY <1>2 DEF ClaimPick, Available
  <2>2. [job[h] EXCEPT !.plan = plan, !.at = Expiry(job[h].ttl)] \in Job
    BY <1>0, <1>j, ExpiryTyped, JobEdits
  <2>3. Placed'
    BY <2>1, <2>2, <1>0, GotoPlaced DEF Labels
  <2> QED BY <1>2, <2>3, <1>0, TypeParts DEF ClaimPick, Stored
<1>3. CASE ClaimInsert(h)
  <2>1. PICK q \in job[h].plan :
          /\ Create(job[h].user, job[h].order, q, job[h].at)
          /\ \/ Done(h) /\ claimMu' = NoOne
             \/ Goto(h, "insert", [job[h] EXCEPT !.plan = @ \ {q}]) /\ UNCHANGED claimMu
    BY <1>3 DEF ClaimInsert, Unlock
  <2>2. [job[h] EXCEPT !.plan = @ \ {q}] \in Job
    BY <1>0, <1>j, JobEdits
  <2>3. Placed'
    BY <2>1, <2>2, <1>0, GotoPlaced, DonePlaced DEF Labels
  <2>4. /\ creds' \subseteq Cred /\ lastId' \in Nat
        /\ \A c, d \in creds' : c.id <= lastId' /\ (c.id = d.id => c = d)
    BY <2>1, <1>0, <1>j, CreateStored
  <2> QED BY <1>3, <2>1, <2>3, <2>4, <1>0, TypeParts DEF ClaimInsert, Stored
<1>4. CASE GiveUp(h)
  BY <1>4, <1>0, DonePlaced, TypeParts DEF GiveUp, Unlock, Stored
<1> QED BY <1>1, <1>2, <1>3, <1>4

\* Changes keep the types.
LEMMA ChangeTyped ==
  ASSUME TypeOK, NEW h \in Handlers, OldPromise(h),
         \/ ChangePick(h) \/ ChangeCreate(h) \/ ChangeDrop(h)
         \/ \E u \in Users, ids \in SUBSET Ids(creds) : ChangeBegin(h, u, ids)
  PROVE  TypeOK'
<1>0. Placed /\ Stored /\ job[h] \in Job
  BY TypeParts DEF Placed
<1>j. /\ job[h].user \in Users /\ job[h].plan \subseteq Proxies /\ job[h].used \subseteq Proxies
      /\ job[h].at \in Nat /\ job[h].todo \subseteq Cred /\ job[h].ids \subseteq Nat
  BY <1>0 DEF Job
<1>1. ASSUME NEW u \in Users, NEW ids \in SUBSET Ids(creds), ChangeBegin(h, u, ids)
      PROVE  TypeOK'
  <2> DEFINE C == Owned(u, ids)
             P == ProxiesOf(ActiveOf(u))
             j == [Rest EXCEPT !.user = u, !.todo = C, !.at = now, !.used = P]
  <2>1. C \in SUBSET Cred /\ P \in SUBSET Proxies /\ now \in Nat
    BY <1>0, LimitsAssumption DEF Owned, ProxiesOf, ActiveOf, Stored, Cred
  <2>2. Arrives(h) /\ Begin(h, "change", j) /\ claimMu' = h
        /\ UNCHANGED <<creds, lastId, type, now, bent>>
    BY <1>1 DEF ChangeBegin, Lock
  <2> HIDE DEF C, P
  <2>3. j \in Job
    BY <2>1, RestTyped, JobEdits
  <2> HIDE DEF j
  <2>4. Placed'
    BY <2>2, <2>3, <1>0, BeginPlaced DEF Labels
  <2> QED BY <2>2, <2>4, <1>0, TypeParts DEF Stored
<1>2. CASE ChangePick(h)
  <2>1. PICK old \in job[h].todo, q \in Proxies :
          Goto(h, "create", [job[h] EXCEPT !.ids = {old.id}, !.plan = {q}, !.used = @ \cup {q}])
    BY <1>2 DEF ChangePick, Available
  <2>2. {old.id} \in SUBSET Nat /\ {q} \in SUBSET Proxies /\ job[h].used \cup {q} \in SUBSET Proxies
    BY <1>j DEF Cred
  <2>3. [job[h] EXCEPT !.ids = {old.id}, !.plan = {q}, !.used = @ \cup {q}] \in Job
    BY <2>2, <1>0, JobEdits
  <2>4. Placed'
    BY <2>1, <2>3, <1>0, GotoPlaced DEF Labels
  <2> QED BY <1>2, <2>4, <1>0, TypeParts DEF ChangePick, Stored
<1>3. CASE ChangeCreate(h)
  <2>1. PICK q \in job[h].plan : Create(job[h].user, Old(h).order, q, Remaining(h))
    BY <1>3 DEF ChangeCreate
  <2>2. Old(h) \in Cred
    BY <1>3, <1>j, OldTyped DEF ChangeCreate
  <2>3. Old(h).order \in Names /\ Remaining(h) \in Nat
    BY <2>2 DEF Remaining, Cred
  <2>4. /\ creds' \subseteq Cred /\ lastId' \in Nat
        /\ \A c, d \in creds' : c.id <= lastId' /\ (c.id = d.id => c = d)
    BY <2>1, <2>3, <1>0, <1>j, CreateStored
  <2>5. [job[h] EXCEPT !.plan = {}] \in Job
    BY <1>0, JobEdits
  <2>6. Placed'
    BY <1>3, <2>5, <1>0, GotoPlaced DEF ChangeCreate, Labels
  <2> QED BY <1>3, <2>4, <2>6, <1>0, TypeParts DEF ChangeCreate, Stored
<1>4. CASE ChangeDrop(h)
  <2> DEFINE left == {c \in job[h].todo : c.id \notin job[h].ids}
  <2>1. /\ Delete(job[h].ids)
        /\ \/ Done(h) /\ claimMu' = NoOne
           \/ Goto(h, "change", [job[h] EXCEPT !.todo = left, !.ids = {}]) /\ UNCHANGED claimMu
    BY <1>4 DEF ChangeDrop, Unlock
  <2>2. left \in SUBSET Cred
    BY <1>j
  <2> HIDE DEF left
  <2>3. [job[h] EXCEPT !.todo = left, !.ids = {}] \in Job
    BY <2>2, <1>0, JobEdits
  <2>4. Placed'
    BY <2>1, <2>3, <1>0, GotoPlaced, DonePlaced DEF Labels
  <2>5. /\ creds' \subseteq Cred /\ lastId' \in Nat
        /\ \A c, d \in creds' : c.id <= lastId' /\ (c.id = d.id => c = d)
    BY <2>1, <1>0, DeleteStored
  <2> QED BY <1>4, <2>1, <2>4, <2>5, <1>0, TypeParts DEF ChangeDrop, Stored
<1> QED BY <1>1, <1>2, <1>3, <1>4

\* Prune, release and extend keep the types.
LEMMA CollectTyped ==
  ASSUME TypeOK, NEW h \in Handlers,
         \/ PruneDelete(h) \/ ReleaseDelete(h) \/ ExtendWrite(h)
         \/ \E keep \in SUBSET Ids(creds) : PruneBegin(h, keep)
         \/ \E u \in Users, os \in OrderFilters, ts \in TypeFilters : ReleaseBegin(h, u, os, ts)
         \/ \E u \in Users, ttl \in Ttls \ {0} : \E C \in ExtendTargets(u) : ExtendBegin(h, u, C, ttl)
  PROVE  TypeOK'
<1>0. Placed /\ Stored /\ job[h] \in Job
  BY TypeParts DEF Placed
<1>j. job[h].todo \subseteq Cred /\ job[h].at \in Nat /\ job[h].ttl \in Nat
  BY <1>0 DEF Job
<1>i. \A C \in SUBSET creds : Ids(C) \subseteq Nat
  BY <1>0 DEF Ids, Stored, Cred
<1>1. ASSUME NEW keep, PruneBegin(h, keep) PROVE TypeOK'
  <2>1. Arrives(h) /\ Begin(h, "prune", [Rest EXCEPT !.ids = Ids(creds) \ keep]) /\ claimMu' = h
        /\ UNCHANGED <<creds, lastId, type, now, bent>>
    BY <1>1 DEF PruneBegin, Lock
  <2>2. Ids(creds) \ keep \in SUBSET Nat
    BY <1>i
  <2>3. [Rest EXCEPT !.ids = Ids(creds) \ keep] \in Job
    BY <2>2, RestTyped, JobEdits
  <2>4. Placed'
    BY <2>1, <2>3, <1>0, BeginPlaced DEF Labels
  <2> QED BY <2>1, <2>4, <1>0, TypeParts DEF Stored
<1>2. ASSUME NEW u, NEW os, NEW ts, ReleaseBegin(h, u, os, ts) PROVE TypeOK'
  <2> DEFINE C == Filtered({c \in creds : c.user = u}, os, ts)
  <2>1. Arrives(h) /\ Begin(h, "release", [Rest EXCEPT !.ids = Ids(C)])
        /\ UNCHANGED <<creds, lastId, type, now, claimMu, bent>>
    BY <1>2 DEF ReleaseBegin
  <2>2. Ids(C) \in SUBSET Nat
    BY <1>i DEF Filtered
  <2> HIDE DEF C
  <2>3. [Rest EXCEPT !.ids = Ids(C)] \in Job
    BY <2>2, RestTyped, JobEdits
  <2>4. Placed'
    BY <2>1, <2>3, <1>0, BeginPlaced DEF Labels
  <2> QED BY <2>1, <2>4, <1>0, TypeParts DEF Stored
<1>3. ASSUME NEW u \in Users, NEW ttl \in Ttls, NEW C \in ExtendTargets(u), ExtendBegin(h, u, C, ttl)
      PROVE  TypeOK'
  <2>1. Arrives(h) /\ Begin(h, "extend", [Rest EXCEPT !.todo = C, !.at = now, !.ttl = ttl])
        /\ UNCHANGED <<creds, lastId, type, now, claimMu, bent>>
    BY <1>3 DEF ExtendBegin
  <2>2. C \in SUBSET Cred /\ now \in Nat /\ ttl \in Nat
    BY <1>0, LimitsAssumption DEF ExtendTargets, Owned, Filtered, ActiveOf, Stored
  <2>3. [Rest EXCEPT !.todo = C, !.at = now, !.ttl = ttl] \in Job
    BY <2>2, RestTyped, JobEdits
  <2>4. Placed'
    BY <2>1, <2>3, <1>0, BeginPlaced DEF Labels
  <2> QED BY <2>1, <2>4, <1>0, TypeParts DEF Stored
<1>4. CASE PruneDelete(h) \/ ReleaseDelete(h)
  <2>1. Delete(job[h].ids) /\ Done(h) /\ claimMu' \in {claimMu, NoOne} /\ UNCHANGED <<type, now, bent>>
    BY <1>4 DEF PruneDelete, ReleaseDelete, Unlock
  <2>2. /\ creds' \subseteq Cred /\ lastId' \in Nat
        /\ \A c, d \in creds' : c.id <= lastId' /\ (c.id = d.id => c = d)
    BY <2>1, <1>0, DeleteStored
  <2>3. Placed'
    BY <2>1, <1>0, DonePlaced
  <2> QED BY <2>1, <2>2, <2>3, <1>0, TypeParts DEF Stored
<1>5. CASE ExtendWrite(h)
  <2> DEFINE old(c) == {d \in creds : d.id = c.id}
             new(c) == {[d EXCEPT !.exp = Extended(h, c)] : d \in old(c)}
  <2>1. PICK c \in job[h].todo :
          /\ creds' = (creds \ old(c)) \cup new(c) /\ Bend(new(c))
          /\ Done(h) \/ Goto(h, "extend", [job[h] EXCEPT !.todo = @ \ {c}])
    BY <1>5 DEF ExtendWrite
  <2>2. Extended(h, c) \in Nat
    BY <1>j DEF Extended, Cred
  <2>3. \A d \in new(c) : d \in Cred /\ d.id = c.id /\ \E e \in creds : e.id = d.id
    BY <2>2, <1>0 DEF Stored, Cred
  <2>4. \A d, e \in new(c) : d = e
    BY <1>0 DEF Stored
  <2>5. \A d \in creds \ old(c) : d.id # c.id
    OBVIOUS
  <2>6. bent' \in [Proxies -> BOOLEAN] /\ UNCHANGED <<lastId, type, now, claimMu>>
    BY <2>1, <1>5, <1>0 DEF Bend, Revives, ExtendWrite, Stored
  <2>7. [job[h] EXCEPT !.todo = @ \ {c}] \in Job
    <3>1. job[h].todo \ {c} \in SUBSET Cred
      BY <1>j
    <3> QED BY <3>1, <1>0, JobEdits
  <2>8. Placed'
    BY <2>1, <2>7, <1>0, GotoPlaced, DonePlaced DEF Labels
  <2> HIDE DEF old, new
  <2>9. Stored'
    <3>1. creds' \subseteq Cred
      BY <2>1, <2>3, <1>0 DEF Stored
    <3>2. \A d \in creds' : d.id <= lastId
      BY <2>1, <2>3, <1>0 DEF Stored
    <3>3. \A d, e \in creds' : d.id = e.id => d = e
      BY <2>1, <2>3, <2>4, <2>5, <1>0 DEF Stored
    <3> QED BY <3>1, <3>2, <3>3, <2>6, <1>0 DEF Stored
  <2> QED BY <2>8, <2>9, TypeParts
<1> QED BY <1>1, <1>2, <1>3, <1>4, <1>5

\* Type changes, admin edits and what happens by itself keep the types.
LEMMA AdminTyped ==
  ASSUME TypeOK, RowsSound, NEW h \in Handlers, UpdatePromise(h),
         \/ SetTypeWrite(h) \/ UpdateSave(h)
         \/ \E q \in Proxies, t \in Types : SetTypeBegin(h, q, t)
         \/ \E c \in creds, on \in BOOLEAN : \E exp \in {c.exp} \cup {Expiry(ttl) : ttl \in Ttls} :
              UpdateBegin(h, c, on, exp)
  PROVE  TypeOK'
<1>0. Placed /\ Stored /\ job[h] \in Job
  BY TypeParts DEF Placed
<1>j. job[h].todo \subseteq Cred /\ job[h].plan \subseteq Proxies /\ job[h].type \in Types
  BY <1>0 DEF Job
<1>1. ASSUME NEW q \in Proxies, NEW t \in Types, SetTypeBegin(h, q, t) PROVE TypeOK'
  <2>1. Arrives(h) /\ Begin(h, "settype", [Rest EXCEPT !.plan = {q}, !.type = t])
        /\ UNCHANGED <<creds, lastId, type, now, claimMu, bent>>
    BY <1>1 DEF SetTypeBegin
  <2>2. {q} \in SUBSET Proxies
    OBVIOUS
  <2>3. [Rest EXCEPT !.plan = {q}, !.type = t] \in Job
    BY <2>2, RestTyped, JobEdits
  <2>4. Placed'
    BY <2>1, <2>3, <1>0, BeginPlaced DEF Labels
  <2> QED BY <2>1, <2>4, <1>0, TypeParts DEF Stored
<1>2. ASSUME NEW c \in creds, NEW on \in BOOLEAN,
             NEW exp \in {c.exp} \cup {Expiry(ttl) : ttl \in Ttls}, UpdateBegin(h, c, on, exp)
      PROVE  TypeOK'
  <2> DEFINE n == [c EXCEPT !.on = on, !.exp = exp]
  <2>1. Arrives(h) /\ Begin(h, "update", [Rest EXCEPT !.todo = {n}])
        /\ UNCHANGED <<creds, lastId, type, now, claimMu, bent>>
    BY <1>2 DEF UpdateBegin
  <2>2. exp \in Nat
    BY <1>0, ExpiryTyped, LimitsAssumption DEF Stored, Cred
  <2>3. {n} \in SUBSET Cred
    BY <2>2, <1>0 DEF Stored, Cred
  <2> HIDE DEF n
  <2>4. [Rest EXCEPT !.todo = {n}] \in Job
    BY <2>3, RestTyped, JobEdits
  <2>5. Placed'
    BY <2>1, <2>4, <1>0, BeginPlaced DEF Labels
  <2> QED BY <2>1, <2>5, <1>0, TypeParts DEF Stored
<1>3. CASE SetTypeWrite(h)
  <2>1. type' \in [Proxies -> Types] /\ bent' \in [Proxies -> BOOLEAN]
    BY <1>3, <1>0, <1>j DEF SetTypeWrite, Stored
  <2>2. Placed'
    BY <1>3, <1>0, DonePlaced DEF SetTypeWrite
  <2> QED BY <1>3, <2>1, <2>2, <1>0, TypeParts DEF SetTypeWrite, Stored
<1>4. CASE UpdateSave(h)
  <2>1. PICK c \in Cred : job[h].todo = {c}
    BY <1>4 DEF UpdatePromise, UpdateSave
  <2>2. creds' = {d \in creds : d.id # c.id} \cup {c}
    BY <1>4, <2>1 DEF UpdateSave, Ids
  <2>3. c.id <= lastId
    BY <2>1 DEF RowsSound, Known
  <2>4. /\ creds' \subseteq Cred
        /\ \A d, e \in creds' : d.id <= lastId /\ (d.id = e.id => d = e)
    BY <2>2, <2>3, <1>0 DEF Stored
  <2>5. bent' \in [Proxies -> BOOLEAN]
    BY <1>4, <1>0 DEF UpdateSave, Bend, Revives, Stored
  <2>6. Placed'
    BY <1>4, <1>0, DonePlaced DEF UpdateSave
  <2> QED BY <1>4, <2>4, <2>5, <2>6, <1>0, TypeParts DEF UpdateSave, Stored
<1> QED BY <1>1, <1>2, <1>3, <1>4

\* So do deletions by hand, the clock, the cleanup and a restart.
LEMMA WorldTyped ==
  ASSUME TypeOK, Tick \/ CleanExpired \/ Crash \/ \E c \in creds : DeleteCred(c)
  PROVE  TypeOK'
<1>0. Placed /\ Stored
  BY TypeParts
<1>1. CASE Tick
  BY <1>1, <1>0, TypeParts, LimitsAssumption DEF Tick, locals, Placed, Stored
<1>2. ASSUME NEW ids, Delete(ids), UNCHANGED <<type, now, claimMu, locals, bent>>,
             requests' \in 0..MaxRequests
      PROVE  TypeOK'
  <2>1. /\ creds' \subseteq Cred /\ lastId' \in Nat
        /\ \A c, d \in creds' : c.id <= lastId' /\ (c.id = d.id => c = d)
    BY <1>2, <1>0, DeleteStored
  <2> QED BY <2>1, <1>2, <1>0, TypeParts DEF locals, Placed, Stored
<1>3. CASE CleanExpired
  BY <1>3, <1>2, <1>0 DEF CleanExpired, Placed
<1>4. ASSUME NEW c \in creds, DeleteCred(c) PROVE TypeOK'
  BY <1>4, <1>2, <1>0, LimitsAssumption DEF DeleteCred, Placed
<1>5. CASE Crash
  <2>1. Placed'
    BY <1>5, <1>0, RestTyped DEF Crash, Placed, Labels
  <2> QED BY <1>5, <2>1, <1>0, TypeParts DEF Crash, Stored
<1> QED BY <1>1, <1>3, <1>4, <1>5

\* The types are inductive, given what the handlers hold.
LEMMA TypesKept ==
  ASSUME IInv, [Next]_vars
  PROVE  TypeOK'
<1>1. ASSUME NEW h \in Handlers, Step(h) \/ Request(h) PROVE TypeOK'
  <2>1. TypeOK /\ RowsSound /\ IsFiniteSet(creds) /\ OldPromise(h) /\ UpdatePromise(h)
    BY DEF IInv, Promise, RowsSound
  <2>2. CASE Step(h)
    BY <2>1, <2>2, ClaimTyped, ChangeTyped, CollectTyped, AdminTyped DEF Step
  <2>3. CASE Request(h)
    BY <2>1, <2>3, ClaimTyped, ChangeTyped, CollectTyped, AdminTyped DEF Request
  <2> QED BY <1>1, <2>2, <2>3
<1>2. CASE UNCHANGED vars
  BY <1>2 DEF vars, locals, TypeOK, IInv
<1> QED BY <1>1, <1>2, WorldTyped DEF Next, IInv

-----------------------------------------------------------------------------
(* How one handler moves. *)

Others(h) == \A g \in Handlers \ {h} : pc'[g] = pc[g] /\ job'[g] = job[g]

\* A handler given a place and a job has them, and the others keep theirs.
LEMMA BeginMoves ==
  ASSUME TypeOK, NEW h \in Handlers, NEW l, NEW j, Begin(h, l, j)
  PROVE  pc'[h] = l /\ job'[h] = j /\ Others(h)
  BY DEF TypeOK, Begin, Others

\* So with one that goes on,
LEMMA GotoMoves ==
  ASSUME TypeOK, NEW h \in Handlers, NEW l, NEW j, Goto(h, l, j)
  PROVE  pc'[h] = l /\ job'[h] = j /\ Others(h)
  BY BeginMoves DEF Goto

\* and with one that has answered.
LEMMA DoneMoves ==
  ASSUME TypeOK, NEW h \in Handlers, Done(h)
  PROVE  pc'[h] = "idle" /\ job'[h] = Rest /\ Others(h)
  BY GotoMoves DEF Done

\* Rows that stand for creds some handler or the table already knows.
Sourced(C) == \A c \in C : \E d \in Known : d.id = c.id /\ SameRow(c, d)

\* Each action of a handler moves it alone, and the creds it holds are known ones.
LEMMA ClaimMoves ==
  ASSUME TypeOK, NEW h \in Handlers,
         \/ ClaimPick(h) \/ ClaimInsert(h) \/ GiveUp(h)
         \/ \E u \in Users, o \in Names, t \in Types, n \in Counts, ttl \in Ttls :
              ClaimBegin(h, u, o, t, n, ttl)
  PROVE  Others(h) /\ Sourced(job'[h].todo)
<1>1. \A C : C \subseteq job[h].todo \/ C \subseteq creds => Sourced(C)
  BY DEF Sourced, Known, SameRow
<1>2. Rest.todo = {} /\ job[h] \in Job
  BY DEF Rest, TypeOK
<1>3. ASSUME NEW u, NEW o, NEW t, NEW n, NEW ttl, ClaimBegin(h, u, o, t, n, ttl)
      PROVE  Others(h) /\ job'[h].todo = {}
  BY <1>3, BeginMoves DEF ClaimBegin, ClaimJob
<1>4. CASE ClaimPick(h)
  <2>1. PICK plan : Goto(h, "insert", [job[h] EXCEPT !.plan = plan, !.at = Expiry(job[h].ttl)])
    BY <1>4 DEF ClaimPick
  <2>2. [job[h] EXCEPT !.plan = plan, !.at = Expiry(job[h].ttl)].todo = job[h].todo
    BY <1>2 DEF Job
  <2> QED BY <2>1, <2>2, <1>1, GotoMoves
<1>5. CASE ClaimInsert(h)
  <2>1. PICK q : Done(h) \/ Goto(h, "insert", [job[h] EXCEPT !.plan = @ \ {q}])
    BY <1>5 DEF ClaimInsert
  <2>2. [job[h] EXCEPT !.plan = @ \ {q}].todo = job[h].todo
    BY <1>2 DEF Job
  <2> QED BY <2>1, <2>2, <1>1, <1>2, GotoMoves, DoneMoves
<1>6. CASE GiveUp(h)
  BY <1>6, <1>1, <1>2, DoneMoves DEF GiveUp
<1> QED BY <1>1, <1>3, <1>4, <1>5, <1>6

\* Changes move one handler and hold known creds, too.
LEMMA ChangeMoves ==
  ASSUME TypeOK, NEW h \in Handlers,
         \/ ChangePick(h) \/ ChangeCreate(h) \/ ChangeDrop(h)
         \/ \E u \in Users, ids \in SUBSET Ids(creds) : ChangeBegin(h, u, ids)
  PROVE  Others(h) /\ Sourced(job'[h].todo)
<1>1. \A C : C \subseteq job[h].todo \/ C \subseteq creds => Sourced(C)
  BY DEF Sourced, Known, SameRow
<1>2. Rest.todo = {} /\ job[h] \in Job /\ Rest \in Job
  BY RestTyped DEF Rest, TypeOK
<1>3. ASSUME NEW u, NEW ids, ChangeBegin(h, u, ids)
      PROVE  Others(h) /\ job'[h].todo \subseteq creds
  <2> DEFINE P == ProxiesOf(ActiveOf(u))
             C == Owned(u, ids)
  <2>1. Begin(h, "change", [Rest EXCEPT !.user = u, !.todo = C, !.at = now, !.used = P])
    BY <1>3 DEF ChangeBegin
  <2>2. C \subseteq creds
    BY DEF Owned
  <2> HIDE DEF P, C
  <2>3. [Rest EXCEPT !.user = u, !.todo = C, !.at = now, !.used = P].todo = C
    BY <1>2 DEF Job
  <2> QED BY <2>1, <2>2, <2>3, BeginMoves
<1>4. CASE ChangePick(h)
  <2>1. PICK old, q : Goto(h, "create", [job[h] EXCEPT !.ids = {old.id}, !.plan = {q}, !.used = @ \cup {q}])
    BY <1>4 DEF ChangePick
  <2>2. [job[h] EXCEPT !.ids = {old.id}, !.plan = {q}, !.used = @ \cup {q}].todo = job[h].todo
    BY <1>2 DEF Job
  <2> QED BY <2>1, <2>2, <1>1, GotoMoves
<1>5. CASE ChangeCreate(h)
  <2>1. [job[h] EXCEPT !.plan = {}].todo = job[h].todo
    BY <1>2 DEF Job
  <2> QED BY <1>5, <2>1, <1>1, GotoMoves DEF ChangeCreate
<1>6. CASE ChangeDrop(h)
  <2> DEFINE left == {c \in job[h].todo : c.id \notin job[h].ids}
  <2>1. Done(h) \/ Goto(h, "change", [job[h] EXCEPT !.todo = left, !.ids = {}])
    BY <1>6 DEF ChangeDrop
  <2>2. left \subseteq job[h].todo
    OBVIOUS
  <2> HIDE DEF left
  <2>3. [job[h] EXCEPT !.todo = left, !.ids = {}].todo = left
    BY <1>2 DEF Job
  <2> QED BY <2>1, <2>2, <2>3, <1>1, <1>2, GotoMoves, DoneMoves
<1> QED BY <1>1, <1>3, <1>4, <1>5, <1>6

\* Prune, release and extend move one handler and hold known creds, too.
LEMMA CollectMoves ==
  ASSUME TypeOK, NEW h \in Handlers,
         \/ PruneDelete(h) \/ ReleaseDelete(h) \/ ExtendWrite(h)
         \/ \E keep \in SUBSET Ids(creds) : PruneBegin(h, keep)
         \/ \E u \in Users, os \in OrderFilters, ts \in TypeFilters : ReleaseBegin(h, u, os, ts)
         \/ \E u \in Users, ttl \in Ttls \ {0} : \E C \in ExtendTargets(u) : ExtendBegin(h, u, C, ttl)
  PROVE  Others(h) /\ Sourced(job'[h].todo)
<1>1. \A C : C \subseteq job[h].todo \/ C \subseteq creds => Sourced(C)
  BY DEF Sourced, Known, SameRow
<1>2. Rest.todo = {} /\ job[h] \in Job /\ Rest \in Job
  BY RestTyped DEF Rest, TypeOK
<1>3. CASE PruneDelete(h) \/ ReleaseDelete(h)
  BY <1>3, <1>1, <1>2, DoneMoves DEF PruneDelete, ReleaseDelete
<1>4. CASE ExtendWrite(h)
  <2>1. PICK c : Done(h) \/ Goto(h, "extend", [job[h] EXCEPT !.todo = @ \ {c}])
    BY <1>4 DEF ExtendWrite
  <2>2. [job[h] EXCEPT !.todo = @ \ {c}].todo \subseteq job[h].todo
    BY <1>2 DEF Job
  <2> QED BY <2>1, <2>2, <1>1, <1>2, GotoMoves, DoneMoves
<1>5. ASSUME NEW l, NEW I, Begin(h, l, [Rest EXCEPT !.ids = I])
      PROVE  Others(h) /\ job'[h].todo = {}
  <2>1. [Rest EXCEPT !.ids = I].todo = {}
    BY <1>2 DEF Job
  <2> QED BY <1>5, <2>1, BeginMoves
<1>6. ASSUME NEW keep, PruneBegin(h, keep) PROVE Others(h) /\ job'[h].todo = {}
  BY <1>5, <1>6 DEF PruneBegin
<1>7. ASSUME NEW u, NEW os, NEW ts, ReleaseBegin(h, u, os, ts) PROVE Others(h) /\ job'[h].todo = {}
  BY <1>5, <1>7 DEF ReleaseBegin
<1>8. ASSUME NEW u, NEW ttl, NEW C \in ExtendTargets(u), ExtendBegin(h, u, C, ttl)
      PROVE  Others(h) /\ job'[h].todo \subseteq creds
  <2>1. [Rest EXCEPT !.todo = C, !.at = now, !.ttl = ttl].todo = C
    BY <1>2 DEF Job
  <2>2. C \subseteq creds
    BY DEF ExtendTargets, Owned, Filtered, ActiveOf
  <2> QED BY <1>8, <2>1, <2>2, BeginMoves DEF ExtendBegin
<1> QED BY <1>1, <1>3, <1>4, <1>6, <1>7, <1>8

\* Type changes and admin edits move one handler and hold known creds, too.
LEMMA AdminMoves ==
  ASSUME TypeOK, NEW h \in Handlers,
         \/ SetTypeWrite(h) \/ UpdateSave(h)
         \/ \E q \in Proxies, t \in Types : SetTypeBegin(h, q, t)
         \/ \E c \in creds, on \in BOOLEAN : \E exp \in {c.exp} \cup {Expiry(ttl) : ttl \in Ttls} :
              UpdateBegin(h, c, on, exp)
  PROVE  Others(h) /\ Sourced(job'[h].todo)
<1>2. Rest.todo = {} /\ Rest \in Job /\ Sourced({}) /\ creds \subseteq Cred
  BY RestTyped DEF Rest, TypeOK, Sourced
<1>3. CASE SetTypeWrite(h) \/ UpdateSave(h)
  BY <1>3, <1>2, DoneMoves DEF SetTypeWrite, UpdateSave
<1>4. ASSUME NEW q, NEW t, SetTypeBegin(h, q, t) PROVE Others(h) /\ job'[h].todo = {}
  <2>1. [Rest EXCEPT !.plan = {q}, !.type = t].todo = {}
    BY <1>2 DEF Job
  <2> QED BY <1>4, <2>1, BeginMoves DEF SetTypeBegin
<1>5. ASSUME NEW c \in creds, NEW on, NEW exp, UpdateBegin(h, c, on, exp)
      PROVE  Others(h) /\ Sourced(job'[h].todo)
  <2> DEFINE n == [c EXCEPT !.on = on, !.exp = exp]
  <2>1. Begin(h, "update", [Rest EXCEPT !.todo = {n}])
    BY <1>5 DEF UpdateBegin
  <2>2. n.id = c.id /\ SameRow(n, c)
    BY <1>2 DEF Cred, SameRow
  <2> HIDE DEF n
  <2>3. [Rest EXCEPT !.todo = {n}].todo = {n}
    BY <1>2 DEF Job
  <2>4. Sourced({n})
    BY <2>2 DEF Sourced, Known
  <2> QED BY <2>1, <2>3, <2>4, BeginMoves
<1> QED BY <1>2, <1>3, <1>4, <1>5

-----------------------------------------------------------------------------
(* Rows. *)

\* The table after a step: rows already known, or one new row besides.
Reuses == lastId' = lastId /\ \E C : IsFiniteSet(C) /\ Sourced(C) /\ creds' \subseteq creds \cup C
Grows  == \E u \in Users, o \in Names, q \in Proxies, e \in Nat : Create(u, o, q, e)

\* Deletions, and steps that leave the table alone, reuse.
LEMMA ReusesLess == ASSUME UNCHANGED lastId, creds' \subseteq creds PROVE Reuses
<1>1. IsFiniteSet({}) /\ Sourced({})
  BY FS_EmptySet DEF Sourced
<1> QED BY <1>1 DEF Reuses

\* Extends and edits write rows they know, too.
LEMMA WritesReuse ==
  ASSUME TypeOK, RowsSound, NEW h \in Handlers, UpdatePromise(h), ExtendWrite(h) \/ UpdateSave(h)
  PROVE  Reuses
<1>1. CASE ExtendWrite(h)
  <2> DEFINE old(c) == {d \in creds : d.id = c.id}
             new(c) == {[d EXCEPT !.exp = Extended(h, c)] : d \in old(c)}
  <2>1. PICK c \in job[h].todo : creds' = (creds \ old(c)) \cup new(c)
    BY <1>1 DEF ExtendWrite
  <2>2. CASE old(c) = {}
    <3>1. new(c) = {}
      BY <2>2
    <3>2. creds' \subseteq creds
      BY <2>1, <3>1
    <3> QED BY <3>2, <1>1, ReusesLess DEF ExtendWrite
  <2>3. ASSUME NEW d \in old(c) PROVE Reuses
    <3> DEFINE n == [d EXCEPT !.exp = Extended(h, c)]
    <3>1. \A e \in old(c) : e = d
      BY DEF TypeOK
    <3>2. new(c) = {n}
      BY <3>1
    <3>3. d \in creds /\ n.id = d.id /\ SameRow(n, d)
      BY DEF TypeOK, Cred, SameRow
    <3>4. creds' \subseteq creds \cup {n}
      BY <2>1, <3>2
    <3> HIDE DEF n, new, old
    <3>5. Sourced({n})
      BY <3>3 DEF Sourced, Known
    <3> QED BY <3>4, <3>5, <1>1, FS_Singleton DEF Reuses, ExtendWrite
  <2> QED BY <2>2, <2>3
<1>2. CASE UpdateSave(h)
  <2>1. PICK c \in Cred : job[h].todo = {c}
    BY <1>2 DEF UpdatePromise, UpdateSave
  <2>2. Sourced({c}) /\ IsFiniteSet({c})
    BY <2>1, FS_Singleton DEF Sourced, Known, SameRow
  <2>3. creds' \subseteq creds \cup {c}
    BY <1>2, <2>1 DEF UpdateSave
  <2> QED BY <1>2, <2>2, <2>3 DEF UpdateSave, Reuses
<1> QED BY <1>1, <1>2

\* Known rows stay sound when a step reuses them,
LEMMA RowsReused ==
  ASSUME RowsSound, Reuses, \A h \in Handlers : Sourced(job'[h].todo)
  PROVE  RowsSound'
<1>1. PICK C : IsFiniteSet(C) /\ Sourced(C) /\ creds' \subseteq creds \cup C
  BY DEF Reuses
<1>2. IsFiniteSet(creds')
  BY <1>1, FS_Union, FS_Subset DEF RowsSound
<1>3. \A c \in Known' : \E d \in Known : d.id = c.id /\ SameRow(c, d)
  BY <1>1 DEF Known, Sourced, SameRow
<1> QED BY <1>2, <1>3 DEF RowsSound, Reuses, SameRow

\* and when it inserts a new one.
LEMMA RowsGrown ==
  ASSUME TypeOK, RowsSound, Grows, \A h \in Handlers : Sourced(job'[h].todo)
  PROVE  RowsSound'
<1>0. PICK u \in Users, o \in Names, q \in Proxies, e \in Nat : Create(u, o, q, e)
  BY DEF Grows
<1> DEFINE n == [id |-> lastId + 1, user |-> u, order |-> o, proxy |-> q, on |-> TRUE, exp |-> e]
<1>1. creds' = creds \cup {n} /\ n.id = lastId + 1
  BY <1>0 DEF Create
<1> HIDE DEF n
<1>2. IsFiniteSet(creds) /\ lastId' = lastId + 1 /\ lastId \in Nat
  BY DEF Grows, Create, TypeOK, RowsSound
<1>f. IsFiniteSet(creds')
  BY <1>1, <1>2, FS_AddElement
<1>3. \A c \in Known' : c = n \/ \E d \in Known : d.id = c.id /\ SameRow(c, d)
  BY <1>1 DEF Known, Sourced, SameRow
<1>4. \A d \in Known : d.id \in Nat /\ d.id <= lastId
  BY DEF TypeOK, RowsSound, Known, Job, Cred
<1> QED BY <1>1, <1>2, <1>f, <1>3, <1>4 DEF RowsSound, SameRow

\* What every step of a handler does to the table, and to the handlers.
LEMMA HandlerMoves ==
  ASSUME TypeOK, RowsSound, NEW h \in Handlers, OldPromise(h), UpdatePromise(h),
         Step(h) \/ Request(h)
  PROVE  Others(h) /\ Sourced(job'[h].todo) /\ (Reuses \/ Grows)
<1>1. Others(h) /\ Sourced(job'[h].todo)
  BY ClaimMoves, ChangeMoves, CollectMoves, AdminMoves DEF Step, Request
<1>2. UNCHANGED creds => creds' \subseteq creds
  OBVIOUS
<1>3. CASE Request(h)
  <2>1. UNCHANGED <<creds, lastId>>
    BY <1>3 DEF Request, ClaimBegin, ChangeBegin, PruneBegin, ReleaseBegin, ExtendBegin, SetTypeBegin,
                UpdateBegin
  <2> QED BY <2>1, <1>1, <1>2, ReusesLess
<1>4. CASE ClaimPick(h) \/ GiveUp(h) \/ ChangePick(h) \/ SetTypeWrite(h)
  BY <1>4, <1>1, <1>2, ReusesLess DEF ClaimPick, GiveUp, ChangePick, SetTypeWrite
<1>5. CASE ClaimInsert(h)
  <2>1. PICK q \in job[h].plan : Create(job[h].user, job[h].order, q, job[h].at)
    BY <1>5 DEF ClaimInsert
  <2>2. job[h] \in Job
    BY DEF TypeOK
  <2>3. job[h].user \in Users /\ job[h].order \in Names /\ q \in Proxies /\ job[h].at \in Nat
    BY <2>2 DEF Job
  <2> QED BY <2>1, <2>3, <1>1 DEF Grows
<1>6. CASE ChangeCreate(h)
  <2>1. PICK q \in job[h].plan : Create(job[h].user, Old(h).order, q, Remaining(h))
    BY <1>6 DEF ChangeCreate
  <2>2. job[h] \in Job
    BY DEF TypeOK
  <2>3. job[h].user \in Users /\ q \in Proxies /\ Old(h) \in Cred
    BY <2>2, <1>6, OldTyped DEF Job, ChangeCreate
  <2>4. Old(h).order \in Names /\ Remaining(h) \in Nat
    BY <2>3 DEF Cred, Remaining
  <2> QED BY <2>1, <2>3, <2>4, <1>1 DEF Grows
<1>7. CASE ChangeDrop(h) \/ PruneDelete(h) \/ ReleaseDelete(h)
  <2>1. UNCHANGED lastId /\ creds' \subseteq creds
    BY <1>7 DEF ChangeDrop, PruneDelete, ReleaseDelete, Delete
  <2> QED BY <2>1, <1>1, ReusesLess
<1>8. CASE ExtendWrite(h) \/ UpdateSave(h)
  BY <1>8, <1>1, WritesReuse
<1> QED BY <1>3, <1>4, <1>5, <1>6, <1>7, <1>8 DEF Step

\* Rows stay sound.
LEMMA RowsKept ==
  ASSUME IInv, [Next]_vars
  PROVE  RowsSound'
<1>0. TypeOK /\ RowsSound
  BY DEF IInv
<1>1. \A C : C \subseteq creds \/ (\E g \in Handlers : C = job[g].todo) => Sourced(C)
  BY DEF Sourced, Known, SameRow
<1>2. ASSUME NEW h \in Handlers, Step(h) \/ Request(h) PROVE RowsSound'
  <2>1. Others(h) /\ Sourced(job'[h].todo) /\ (Reuses \/ Grows)
    BY <1>2, HandlerMoves DEF IInv, Promise
  <2>2. \A g \in Handlers : Sourced(job'[g].todo)
    BY <2>1, <1>1 DEF Others
  <2> QED BY <2>1, <2>2, <1>0, RowsReused, RowsGrown
<1>3. CASE Tick \/ CleanExpired \/ (\E c \in creds : DeleteCred(c)) \/ UNCHANGED vars
  <2>1. UNCHANGED lastId /\ creds' \subseteq creds /\ UNCHANGED job
    BY <1>3 DEF Tick, CleanExpired, DeleteCred, Delete, locals, vars
  <2> QED BY <2>1, <1>0, <1>1, ReusesLess, RowsReused
<1>4. CASE Crash
  <2>1. UNCHANGED lastId /\ creds' \subseteq creds /\ \A g \in Handlers : job'[g].todo = {}
    BY <1>4 DEF Crash, Rest
  <2>2. \A g \in Handlers : Sourced(job'[g].todo)
    BY <2>1 DEF Sourced
  <2> QED BY <2>1, <2>2, <1>0, ReusesLess, RowsReused
<1> QED BY <1>2, <1>3, <1>4 DEF Next

-----------------------------------------------------------------------------
(* claimMu. *)

\* A handler inside claimMu that goes on inside it.
LEMMA MutexInside ==
  ASSUME MutexHeld, NEW h \in Handlers, Others(h), pc[h] \in InMutex, pc'[h] \in InMutex,
         UNCHANGED claimMu
  PROVE  MutexHeld'
  BY DEF MutexHeld, Others

\* One outside that stays outside.
LEMMA MutexOutside ==
  ASSUME MutexHeld, NEW h \in Handlers, Others(h), pc[h] \notin InMutex, pc'[h] \notin InMutex,
         UNCHANGED claimMu
  PROVE  MutexHeld'
  BY DEF MutexHeld, Others

\* One that takes it,
LEMMA MutexTaken ==
  ASSUME MutexHeld, NEW h \in Handlers, Others(h), Lock(h), pc'[h] \in InMutex
  PROVE  MutexHeld'
  BY NamesAssumption DEF MutexHeld, Others, Lock

\* and one that gives it back.
LEMMA MutexFreed ==
  ASSUME MutexHeld, NEW h \in Handlers, Others(h), pc[h] \in InMutex, Unlock(h), pc'[h] \notin InMutex
  PROVE  MutexHeld'
  BY NamesAssumption DEF MutexHeld, Others, Unlock

\* claimMu stays with the handler that unlocks it.
LEMMA MutexKept ==
  ASSUME IInv, [Next]_vars
  PROVE  MutexHeld'
<1>0. TypeOK /\ RowsSound /\ MutexHeld
  BY DEF IInv
<1>1. ASSUME NEW h \in Handlers, Step(h) \/ Request(h) PROVE MutexHeld'
  <2>0. Others(h)
    BY <1>1, <1>0, HandlerMoves DEF IInv, Promise
  <2>1. CASE ClaimPick(h)
    <3>1. PICK plan : Goto(h, "insert", [job[h] EXCEPT !.plan = plan, !.at = Expiry(job[h].ttl)])
      BY <2>1 DEF ClaimPick
    <3>2. pc'[h] = "insert"
      BY <3>1, <1>0, GotoMoves
    <3> QED BY <2>0, <2>1, <3>2, <1>0, MutexInside DEF ClaimPick, InMutex
  <2>2. CASE ClaimInsert(h)
    <3>1. PICK q : \/ Done(h) /\ Unlock(h)
                   \/ Goto(h, "insert", [job[h] EXCEPT !.plan = @ \ {q}]) /\ UNCHANGED claimMu
      BY <2>2 DEF ClaimInsert
    <3>2. (pc'[h] = "idle" /\ Unlock(h)) \/ (pc'[h] = "insert" /\ UNCHANGED claimMu)
      BY <3>1, <1>0, GotoMoves, DoneMoves
    <3> QED BY <2>0, <2>2, <3>2, <1>0, MutexInside, MutexFreed DEF ClaimInsert, InMutex
  <2>3. CASE GiveUp(h) \/ PruneDelete(h)
    <3>1. pc'[h] = "idle" /\ Unlock(h) /\ pc[h] \in InMutex
      BY <2>3, <1>0, DoneMoves DEF GiveUp, PruneDelete, InMutex
    <3> QED BY <2>0, <3>1, <1>0, MutexFreed DEF InMutex
  <2>4. CASE ChangePick(h)
    <3>1. PICK I, P, Q : Goto(h, "create", [job[h] EXCEPT !.ids = I, !.plan = P, !.used = Q])
      BY <2>4 DEF ChangePick
    <3>2. pc'[h] = "create"
      BY <3>1, <1>0, GotoMoves
    <3> QED BY <2>0, <2>4, <3>2, <1>0, MutexInside DEF ChangePick, InMutex
  <2>5. CASE ChangeCreate(h)
    <3>1. pc'[h] = "drop"
      BY <2>5, <1>0, GotoMoves DEF ChangeCreate
    <3> QED BY <2>0, <2>5, <3>1, <1>0, MutexInside DEF ChangeCreate, InMutex
  <2>6. CASE ChangeDrop(h)
    <3> DEFINE left == {c \in job[h].todo : c.id \notin job[h].ids}
    <3>1. \/ Done(h) /\ Unlock(h)
          \/ Goto(h, "change", [job[h] EXCEPT !.todo = left, !.ids = {}]) /\ UNCHANGED claimMu
      BY <2>6 DEF ChangeDrop
    <3>2. (pc'[h] = "idle" /\ Unlock(h)) \/ (pc'[h] = "change" /\ UNCHANGED claimMu)
      BY <3>1, <1>0, GotoMoves, DoneMoves
    <3> QED BY <2>0, <2>6, <3>2, <1>0, MutexInside, MutexFreed DEF ChangeDrop, InMutex
  <2>7. CASE ReleaseDelete(h) \/ ExtendWrite(h) \/ SetTypeWrite(h) \/ UpdateSave(h)
    <3>1. PICK j : Done(h) \/ (pc[h] = "extend" /\ Goto(h, "extend", j))
      BY <2>7 DEF ReleaseDelete, ExtendWrite, SetTypeWrite, UpdateSave
    <3>2. pc'[h] \in {"idle", "extend"}
      BY <3>1, <1>0, GotoMoves, DoneMoves
    <3>3. pc[h] \in {"release", "extend", "settype", "update"} /\ UNCHANGED claimMu
      BY <2>7 DEF ReleaseDelete, ExtendWrite, SetTypeWrite, UpdateSave
    <3> QED BY <2>0, <3>2, <3>3, <1>0, MutexOutside DEF InMutex
  <2>8. CASE Request(h)
    <3> DEFINE Begun(l) == pc[h] = "idle" /\ \E j : Begin(h, l, j)
    <3>a. /\ \A u, o, t, n, ttl : ClaimBegin(h, u, o, t, n, ttl) => Begun("pick") /\ Lock(h)
          /\ \A u, ids : ChangeBegin(h, u, ids) => Begun("change") /\ Lock(h)
          /\ \A keep : PruneBegin(h, keep) => Begun("prune") /\ Lock(h)
      BY DEF ClaimBegin, ChangeBegin, PruneBegin, Arrives
    <3>b. /\ \A u, os, ts : ReleaseBegin(h, u, os, ts) => Begun("release") /\ UNCHANGED claimMu
          /\ \A u, C, ttl : ExtendBegin(h, u, C, ttl) => Begun("extend") /\ UNCHANGED claimMu
          /\ \A q, t : SetTypeBegin(h, q, t) => Begun("settype") /\ UNCHANGED claimMu
          /\ \A c, on, exp : UpdateBegin(h, c, on, exp) => Begun("update") /\ UNCHANGED claimMu
      BY DEF ReleaseBegin, ExtendBegin, SetTypeBegin, UpdateBegin, Arrives
    <3> HIDE DEF Begun
    <3>1. \E l : /\ Begun(l)
                 /\ \/ l \in InMutex /\ Lock(h)
                    \/ l \notin InMutex /\ UNCHANGED claimMu
      BY <2>8, <3>a, <3>b DEF Request, InMutex
    <3>2. PICK l : /\ Begun(l)
                   /\ \/ l \in InMutex /\ Lock(h)
                      \/ l \notin InMutex /\ UNCHANGED claimMu
      BY <3>1
    <3>3. pc[h] = "idle" /\ pc'[h] = l
      BY <3>2, <1>0, BeginMoves DEF Begun
    <3> QED BY <2>0, <3>2, <3>3, <1>0, MutexOutside, MutexTaken DEF InMutex
  <2> QED BY <1>1, <2>1, <2>2, <2>3, <2>4, <2>5, <2>6, <2>7, <2>8 DEF Step
<1>2. CASE Tick \/ CleanExpired \/ (\E c \in creds : DeleteCred(c)) \/ UNCHANGED vars
  BY <1>2, <1>0 DEF Tick, CleanExpired, DeleteCred, locals, vars, MutexHeld
<1>3. CASE Crash
  BY <1>3, NamesAssumption DEF Crash, MutexHeld, InMutex
<1> QED BY <1>1, <1>2, <1>3 DEF Next

-----------------------------------------------------------------------------
(* Slots. *)

\* A set of creds is no larger than one that holds a cred of the same key for each.
LEMMA Fewer ==
  ASSUME NEW S, NEW T, IsFiniteSet(T),
         \A c, d \in S : c.id = d.id => c = d,
         \A c \in S : \E d \in T : d.id = c.id
  PROVE  IsFiniteSet(S) /\ Cardinality(S) <= Cardinality(T)
<1> DEFINE f == [c \in S |-> CHOOSE d \in T : d.id = c.id]
<1>1. \A c \in S : f[c] \in T /\ f[c].id = c.id
  OBVIOUS
<1>2. f \in [S -> T]
  BY <1>1
<1> HIDE DEF f
<1>3. \A c, d \in S : f[c] = f[d] => c = d
  BY <1>1
<1>4. f \in Injection(S, T)
  BY <1>2, <1>3 DEF Injection, IsInjective
<1> QED BY <1>4, FS_Injection

\* No session is unbent, nor its type changed without a mark.
Straight == \A q \in Proxies : ~bent'[q] => ~bent[q] /\ type'[q] = type[q]

\* Every cred that is active after the step, on an unbent session, was active
\* before it under the same key.
Lasting ==
  \A c \in creds' : Active(c)' /\ ~bent'[c.proxy]
    => \E d \in creds : Active(d) /\ d.id = c.id /\ SameRow(c, d)

\* The slots in use and the creds that count for a claim are counted.
LEMMA SlotsCounted ==
  ASSUME IsFiniteSet(creds)
  PROVE  /\ \A q : IsFiniteSet(Slots(q)) /\ Cardinality(Slots(q)) \in Nat
         /\ \A h : IsFiniteSet(Reclaimed(h)) /\ Cardinality(Reclaimed(h)) \in Nat
<1>1. \A q : Slots(q) \subseteq creds
  BY DEF Slots
<1>2. \A h : Reclaimed(h) \subseteq creds
  BY DEF Reclaimed
<1> QED BY <1>1, <1>2, FS_Subset, FS_CardinalityType

\* The same of the table after a step.
LEMMA SlotsCountedNext ==
  ASSUME RowsSound'
  PROVE  /\ \A q : IsFiniteSet(Slots(q)') /\ Cardinality(Slots(q)') \in Nat
         /\ \A h : IsFiniteSet(Reclaimed(h)') /\ Cardinality(Reclaimed(h)') \in Nat
<1>0. IsFiniteSet(creds')
  BY DEF RowsSound
<1>1. \A q : Slots(q)' \subseteq creds'
  BY DEF Slots
<1>2. \A h : Reclaimed(h)' \subseteq creds'
  BY DEF Reclaimed
<1> QED BY <1>0, <1>1, <1>2, FS_Subset, FS_CardinalityType

\* Where creds last, no session has more slots in use than before.
LEMMA LastingSlots ==
  ASSUME RowsSound, TypeOK', Straight, Lasting, NEW q \in Proxies, ~bent'[q]
  PROVE  Cardinality(Slots(q)') <= Cardinality(Slots(q))
<1>1. \A c \in Slots(q)' : \E d \in Slots(q) : d.id = c.id
  BY DEF Lasting, Slots, SameRow
<1>2. \A c, d \in Slots(q)' : c.id = d.id => c = d
  BY DEF Slots, TypeOK
<1>3. IsFiniteSet(Slots(q))
  BY SlotsCounted DEF RowsSound
<1> QED BY <1>1, <1>2, <1>3, Fewer

\* And a claim finds no more than before.
LEMMA LastingReclaimed ==
  ASSUME RowsSound, TypeOK, TypeOK', Straight, Lasting, NEW h \in Handlers,
         job'[h].user = job[h].user, job'[h].order = job[h].order, job'[h].type = job[h].type
  PROVE  /\ Cardinality(Reclaimed(h)') <= Cardinality(Reclaimed(h))
         /\ \A c \in Reclaimed(h)' : \E d \in Reclaimed(h) : d.proxy = c.proxy
<1>1. \A c \in Reclaimed(h)' : \E d \in Reclaimed(h) : d.id = c.id /\ d.proxy = c.proxy
  <2> SUFFICES ASSUME NEW c \in Reclaimed(h)'
               PROVE  \E d \in Reclaimed(h) : d.id = c.id /\ d.proxy = c.proxy
    OBVIOUS
  <2>1. c \in creds' /\ Active(c)' /\ ~bent'[c.proxy] /\ c.proxy \in Proxies
    BY DEF Reclaimed, TypeOK, Cred
  <2>2. PICK d \in creds : Active(d) /\ d.id = c.id /\ SameRow(c, d)
    BY <2>1 DEF Lasting
  <2>3. ~bent[c.proxy] /\ type'[c.proxy] = type[c.proxy]
    BY <2>1 DEF Straight
  <2> QED BY <2>2, <2>3 DEF Reclaimed, SameRow
<1>2. \A c, d \in Reclaimed(h)' : c.id = d.id => c = d
  BY DEF Reclaimed, TypeOK
<1>3. IsFiniteSet(Reclaimed(h))
  BY SlotsCounted DEF RowsSound
<1> QED BY <1>1, <1>2, <1>3, Fewer

\* So quotas hold, orders stay spread,
LEMMA LastingQuota ==
  ASSUME IInv, TypeOK', RowsSound', Straight, Lasting
  PROVE  QuotaHeld' /\ OrderSpread'
<1>1. ASSUME NEW q \in Proxies, ~bent'[q]
      PROVE  Cardinality(Slots(q)') <= MaxCreds[type'[q]]
  <2>1. Cardinality(Slots(q)') <= Cardinality(Slots(q)) /\ ~bent[q] /\ type'[q] = type[q]
    BY <1>1, LastingSlots DEF IInv, Straight
  <2>2. Cardinality(Slots(q)) <= MaxCreds[type[q]]
    BY <2>1 DEF IInv, QuotaHeld
  <2>3. MaxCreds[type[q]] \in Nat
    BY SlotsAssumption DEF IInv, TypeOK
  <2>4. Cardinality(Slots(q)) \in Nat /\ Cardinality(Slots(q)') \in Nat
    BY SlotsCounted, SlotsCountedNext DEF IInv, RowsSound
  <2> QED BY <2>1, <2>2, <2>3, <2>4
<1>2. ASSUME NEW c \in creds', NEW d \in creds', Active(c)', Active(d)',
             c.user = d.user, c.order = d.order, c.proxy = d.proxy, ~bent'[c.proxy]
      PROVE  c = d
  <2>1. PICK c0 \in creds : Active(c0) /\ c0.id = c.id /\ SameRow(c, c0)
    BY <1>2 DEF Lasting
  <2>2. PICK d0 \in creds : Active(d0) /\ d0.id = d.id /\ SameRow(d, d0)
    BY <1>2 DEF Lasting
  <2>3. ~bent[c0.proxy]
    BY <1>2, <2>1 DEF Straight, SameRow, TypeOK, Cred
  <2>4. c0 = d0
    BY <1>2, <2>1, <2>2, <2>3 DEF IInv, OrderSpread, SameRow
  <2> QED BY <2>1, <2>2, <2>4 DEF TypeOK
<1> QED BY <1>1, <1>2 DEF QuotaHeld, OrderSpread

\* and what a handler that does not move knows stays true.
LEMMA LastingPromise ==
  ASSUME IInv, TypeOK', RowsSound', Straight, Lasting, NEW h \in Handlers,
         pc'[h] = pc[h], job'[h] = job[h]
  PROVE  Promise(h)'
<1>0. TypeOK /\ RowsSound /\ ClaimPromise(h) /\ ChangePromise(h) /\ SlotPromise(h) /\ OldPromise(h)
      /\ UpdatePromise(h) /\ job[h] \in Job
  BY DEF IInv, Promise, TypeOK
<1>1. /\ Cardinality(Reclaimed(h)') <= Cardinality(Reclaimed(h))
      /\ \A c \in Reclaimed(h)' : \E d \in Reclaimed(h) : d.proxy = c.proxy
      /\ Cardinality(Reclaimed(h)) \in Nat /\ Cardinality(Reclaimed(h)') \in Nat
  BY <1>0, LastingReclaimed, SlotsCounted, SlotsCountedNext DEF RowsSound
<1>2. \A c \in creds' : Active(c)' /\ ~bent'[c.proxy]
        => \E d \in creds : Active(d) /\ ~bent[d.proxy] /\ SameRow(c, d)
  BY DEF Lasting, Straight, SameRow, TypeOK, Cred
<1>3. ClaimPromise(h)'
  <2>1. ASSUME pc'[h] = "pick"
        PROVE  /\ \A c \in Reclaimed(h)' : c.proxy \in job[h].used
               /\ Cardinality(Reclaimed(h)') + job[h].need <= job[h].count
    <3>1. job[h].need \in Nat /\ job[h].count \in Nat
      BY <1>0 DEF Job
    <3>2. /\ \A c \in Reclaimed(h) : c.proxy \in job[h].used
          /\ Cardinality(Reclaimed(h)) + job[h].need <= job[h].count
      BY <2>1, <1>0 DEF ClaimPromise
    <3> QED BY <3>1, <3>2, <1>1
  <2>2. ASSUME pc'[h] = "insert"
        PROVE  /\ \A c \in creds' :
                    Active(c)' /\ c.user = job[h].user /\ c.order = job[h].order
                      => c.proxy \notin job[h].plan \/ bent'[c.proxy]
               /\ IsFiniteSet(job[h].plan)
               /\ Cardinality(Reclaimed(h)') + Cardinality(job[h].plan) <= job[h].count
    <3>0. /\ \A c \in creds : Active(c) /\ c.user = job[h].user /\ c.order = job[h].order
               => c.proxy \notin job[h].plan \/ bent[c.proxy]
          /\ IsFiniteSet(job[h].plan)
          /\ Cardinality(Reclaimed(h)) + Cardinality(job[h].plan) <= job[h].count
      BY <2>2, <1>0 DEF ClaimPromise
    <3>1. job[h].count \in Nat /\ Cardinality(job[h].plan) \in Nat
      BY <3>0, <1>0, FS_CardinalityType DEF Job
    <3>2. Cardinality(Reclaimed(h)') + Cardinality(job[h].plan) <= job[h].count
      BY <3>0, <3>1, <1>1
    <3>3. \A c \in creds' : Active(c)' /\ c.user = job[h].user /\ c.order = job[h].order
            => c.proxy \notin job[h].plan \/ bent'[c.proxy]
      BY <3>0, <1>2 DEF SameRow
    <3> QED BY <3>0, <3>2, <3>3
  <2> QED BY <2>1, <2>2 DEF ClaimPromise
<1>4. ChangePromise(h)'
  BY <1>0, <1>2 DEF ChangePromise, SameRow
<1>5. SlotPromise(h)'
  <2> SUFFICES ASSUME pc[h] \in {"insert", "create"}, NEW q \in job[h].plan, ~bent'[q]
               PROVE  Cardinality(Slots(q)') < MaxCreds[type'[q]]
    BY DEF SlotPromise
  <2>0. q \in Proxies
    BY <1>0 DEF Job
  <2>1. Cardinality(Slots(q)') <= Cardinality(Slots(q)) /\ ~bent[q] /\ type'[q] = type[q]
    BY <2>0, <1>0, LastingSlots DEF Straight
  <2>2. Cardinality(Slots(q)) < MaxCreds[type[q]]
    BY <2>1, <1>0 DEF SlotPromise
  <2>3. MaxCreds[type[q]] \in Nat /\ Cardinality(Slots(q)) \in Nat /\ Cardinality(Slots(q)') \in Nat
    BY <2>0, <1>0, SlotsAssumption, SlotsCounted, SlotsCountedNext DEF TypeOK, RowsSound
  <2> QED BY <2>1, <2>2, <2>3
<1>6. OldPromise(h)' /\ UpdatePromise(h)'
  BY <1>0 DEF OldPromise, UpdatePromise
<1> QED BY <1>3, <1>4, <1>5, <1>6 DEF Promise

\* Creds last where none is written, whatever is deleted or runs out,
LEMMA SubsetLasts ==
  ASSUME TypeOK, creds' \subseteq creds, UNCHANGED <<type, bent>>, now' \in {now, now + 1}
  PROVE  Straight /\ Lasting
<1>1. now \in Nat /\ \A c \in creds : c.exp \in Nat
  BY LimitsAssumption DEF TypeOK, Cred
<1> QED BY <1>1 DEF Straight, Lasting, Active, SameRow

\* where a write outside claimMu marks what it revives,
LEMMA BendLasts ==
  ASSUME TypeOK, TypeOK', RowsSound, UNCHANGED <<type, now>>, NEW W, Sourced(W), Bend(W),
         creds' \subseteq creds \cup W
  PROVE  Straight /\ Lasting
<1>1. Straight
  BY DEF Straight, Bend
<1>2. ASSUME NEW c \in creds', Active(c)', ~bent'[c.proxy]
      PROVE  \E d \in creds : Active(d) /\ d.id = c.id /\ SameRow(c, d)
  <2>1. Active(c)
    BY <1>2 DEF Active
  <2>2. CASE c \in creds
    BY <2>1, <2>2 DEF SameRow
  <2>3. CASE c \in W
    <3>1. c.proxy \in Proxies
      BY DEF TypeOK, Cred
    <3>2. ~Revives(W, c.proxy)
      BY <3>1, <1>2 DEF Bend
    <3>3. PICK d \in creds : d.id = c.id /\ Active(d)
      BY <3>2, <2>1, <2>3 DEF Revives
    <3>4. PICK e \in Known : e.id = c.id /\ SameRow(c, e)
      BY <2>3 DEF Sourced
    <3>5. SameRow(e, d)
      BY <3>3, <3>4 DEF RowsSound, Known
    <3> QED BY <3>3, <3>4, <3>5 DEF SameRow
  <2> QED BY <2>2, <2>3
<1> QED BY <1>1, <1>2 DEF Lasting

\* and so at every step that inserts nothing.
LEMMA StepLasts ==
  ASSUME IInv, TypeOK', NEW h \in Handlers, Step(h) \/ Request(h), ~ClaimInsert(h), ~ChangeCreate(h)
  PROVE  Straight /\ Lasting
<1>0. TypeOK /\ RowsSound /\ UpdatePromise(h)
  BY DEF IInv, Promise
<1>1. CASE Request(h)
  <2>1. UNCHANGED <<creds, type, now, bent>>
    BY <1>1 DEF Request, ClaimBegin, ChangeBegin, PruneBegin, ReleaseBegin, ExtendBegin, SetTypeBegin,
                UpdateBegin
  <2> QED BY <2>1, <1>0, SubsetLasts
<1>2. CASE ClaimPick(h) \/ GiveUp(h) \/ ChangePick(h) \/ ChangeDrop(h) \/ PruneDelete(h) \/ ReleaseDelete(h)
  <2>1. creds' \subseteq creds /\ UNCHANGED <<type, now, bent>>
    BY <1>2 DEF ClaimPick, GiveUp, ChangePick, ChangeDrop, PruneDelete, ReleaseDelete, Delete
  <2> QED BY <2>1, <1>0, SubsetLasts
<1>3. CASE ExtendWrite(h)
  <2> DEFINE old(c) == {d \in creds : d.id = c.id}
             new(c) == {[d EXCEPT !.exp = Extended(h, c)] : d \in old(c)}
  <2>1. PICK c \in job[h].todo : creds' = (creds \ old(c)) \cup new(c) /\ Bend(new(c))
    BY <1>3 DEF ExtendWrite
  <2>2. \A n \in new(c) : \E d \in creds : d.id = n.id /\ SameRow(n, d)
    BY <1>0 DEF TypeOK, Cred, SameRow
  <2>3. creds' \subseteq creds \cup new(c)
    BY <2>1
  <2> HIDE DEF new, old
  <2>4. Sourced(new(c))
    BY <2>2 DEF Sourced, Known
  <2>5. UNCHANGED <<type, now>>
    BY <1>3 DEF ExtendWrite
  <2> QED BY <2>1, <2>3, <2>4, <2>5, <1>0, BendLasts
<1>4. CASE UpdateSave(h)
  <2>1. creds' \subseteq creds \cup job[h].todo /\ Bend(job[h].todo) /\ UNCHANGED <<type, now>>
    BY <1>4 DEF UpdateSave
  <2>2. Sourced(job[h].todo)
    BY DEF Sourced, Known, SameRow
  <2> QED BY <2>1, <2>2, <1>0, BendLasts
<1>5. CASE SetTypeWrite(h)
  <2>1. UNCHANGED <<creds, now>> /\ bent' = [q \in Proxies |-> bent[q] \/ type'[q] # type[q]]
    BY <1>5 DEF SetTypeWrite
  <2> QED BY <2>1, <1>0 DEF Straight, Lasting, Active, SameRow
<1> QED BY <1>1, <1>2, <1>3, <1>4, <1>5 DEF Step

\* A new cred of h on a session it picked.
Inserts(h, q, o, e) ==
  /\ pc[h] \in {"insert", "create"} /\ q \in job[h].plan /\ o \in Names
  /\ Create(job[h].user, o, q, e)
  /\ \A c \in creds : Active(c) /\ c.user = job[h].user /\ c.order = o /\ c.proxy = q => bent[q]
  /\ UNCHANGED <<type, now, bent>>

Fresh(h, q, o, e) ==
  [id |-> lastId + 1, user |-> job[h].user, order |-> o, proxy |-> q, on |-> TRUE, exp |-> e]

\* The table has one row more, which is nobody else's.
LEMMA InsertedRow ==
  ASSUME TypeOK, NEW h \in Handlers, NEW q, NEW o, NEW e, Inserts(h, q, o, e)
  PROVE  /\ creds' = creds \cup {Fresh(h, q, o, e)} /\ Fresh(h, q, o, e) \notin creds
         /\ \A c : Active(c)' <=> Active(c)
         /\ \A r : Slots(r)' \subseteq Slots(r) \cup {Fresh(h, q, o, e)}
         /\ \A r : r # q => Slots(r)' = Slots(r)
<1> DEFINE n == Fresh(h, q, o, e)
<1>1. creds' = creds \cup {n} /\ n.id = lastId + 1 /\ n.proxy = q
  BY DEF Inserts, Create, Fresh
<1>2. \A c \in creds : c.id \in Nat /\ c.id <= lastId
  BY DEF TypeOK, Cred
<1>3. \A c : Active(c)' <=> Active(c)
  BY DEF Active, Inserts
<1> HIDE DEF n
<1>4. n \notin creds
  BY <1>1, <1>2 DEF TypeOK
<1>5. \A r : Slots(r)' \subseteq Slots(r) \cup {n}
  BY <1>1, <1>3 DEF Slots
<1>6. \A r : r # q => Slots(r)' = Slots(r)
  BY <1>1, <1>3 DEF Slots
<1> QED BY <1>1, <1>3, <1>4, <1>5, <1>6 DEF n

\* The slot was free and the order not on that session.
LEMMA InsertQuota ==
  ASSUME IInv, NEW h \in Handlers, NEW q, NEW o, NEW e, Inserts(h, q, o, e)
  PROVE  QuotaHeld' /\ OrderSpread'
<1> DEFINE n == Fresh(h, q, o, e)
<1>0. TypeOK /\ RowsSound /\ SlotPromise(h) /\ QuotaHeld /\ OrderSpread
  BY DEF IInv, Promise
<1>1. /\ creds' = creds \cup {n}
      /\ \A c : Active(c)' <=> Active(c)
      /\ \A r : Slots(r)' \subseteq Slots(r) \cup {n}
      /\ \A r : r # q => Slots(r)' = Slots(r)
      /\ UNCHANGED <<type, bent>>
  BY <1>0, InsertedRow DEF Inserts
<1>2. n.user = job[h].user /\ n.order = o /\ n.proxy = q
  BY DEF Fresh
<1> HIDE DEF n
<1>3. ASSUME NEW r \in Proxies, ~bent[r]
      PROVE  Cardinality(Slots(r)') <= MaxCreds[type[r]]
  <2>1. CASE r # q
    BY <2>1, <1>0, <1>1, <1>3 DEF QuotaHeld
  <2>2. CASE r = q
    <3>1. Cardinality(Slots(q)) < MaxCreds[type[q]]
      BY <2>2, <1>0, <1>3 DEF SlotPromise, Inserts
    <3>2. IsFiniteSet(Slots(q)) /\ Cardinality(Slots(q)) \in Nat /\ MaxCreds[type[q]] \in Nat
      BY <2>2, <1>0, SlotsCounted, SlotsAssumption DEF RowsSound, TypeOK
    <3>a. /\ IsFiniteSet(Slots(q) \cup {n})
          /\ Cardinality(Slots(q) \cup {n}) \in {Cardinality(Slots(q)), Cardinality(Slots(q)) + 1}
      BY <3>2, FS_AddElement
    <3>3. IsFiniteSet(Slots(q) \cup {n}) /\ Cardinality(Slots(q) \cup {n}) <= Cardinality(Slots(q)) + 1
      BY <3>2, <3>a
    <3>4. IsFiniteSet(Slots(q)') /\ Cardinality(Slots(q)') <= Cardinality(Slots(q) \cup {n})
      BY <3>3, <1>1, FS_Subset
    <3>5. Cardinality(Slots(q)') \in Nat /\ Cardinality(Slots(q) \cup {n}) \in Nat
      BY <3>3, <3>4, FS_CardinalityType
    <3> QED BY <2>2, <3>1, <3>2, <3>3, <3>4, <3>5
  <2> QED BY <2>1, <2>2
<1>4. OrderSpread'
  BY <1>0, <1>1, <1>2 DEF OrderSpread, Inserts
<1> QED BY <1>1, <1>3, <1>4 DEF QuotaHeld

-----------------------------------------------------------------------------
(* Promises of the handler that moves. *)

\* Outside claimMu a handler promises nothing but the form of an update.
LEMMA OutsidePromise ==
  ASSUME NEW h \in Handlers, pc'[h] \notin InMutex, UpdatePromise(h)'
  PROVE  Promise(h)'
  BY DEF Promise, ClaimPromise, ChangePromise, SlotPromise, OldPromise, InMutex

\* A request: what it has read is what the table holds.
LEMMA ClaimPromised ==
  ASSUME IInv, TypeOK', NEW h \in Handlers, NEW u \in Users, NEW o \in Names, NEW t \in Types,
         NEW n \in Counts, NEW ttl \in Ttls, ClaimBegin(h, u, o, t, n, ttl)
  PROVE  Promise(h)'
<1>0. TypeOK /\ RowsSound
  BY DEF IInv
<1>1. /\ pc'[h] = "pick" /\ job'[h] = ClaimJob(u, o, t, n, ttl)
      /\ UNCHANGED <<creds, type, now, bent>> /\ Cardinality(Matching(u, o, t)) < n
  BY <1>0, BeginMoves DEF ClaimBegin
<1>2. /\ job'[h].user = u /\ job'[h].order = o /\ job'[h].type = t /\ job'[h].count = n
      /\ job'[h].used = Excluded(u, o, t) /\ job'[h].need = n - Cardinality(Matching(u, o, t))
  BY <1>1 DEF ClaimJob
<1>3. Reclaimed(h)' \subseteq Matching(u, o, t)
  BY <1>1, <1>2 DEF Reclaimed, Matching, ActiveOf, Active
<1>4. IsFiniteSet(Matching(u, o, t)) /\ Cardinality(Matching(u, o, t)) \in Nat /\ n \in Nat
  BY <1>0, MatchingCounted, LimitsAssumption DEF RowsSound
<1>5. Cardinality(Reclaimed(h)') <= Cardinality(Matching(u, o, t)) /\ Cardinality(Reclaimed(h)') \in Nat
  BY <1>3, <1>4, FS_Subset, FS_CardinalityType
<1>6. \A c \in Reclaimed(h)' : c.proxy \in Excluded(u, o, t)
  BY <1>3 DEF Excluded, ProxiesOf, Matching
<1>7. ClaimPromise(h)'
  BY <1>1, <1>2, <1>4, <1>5, <1>6 DEF ClaimPromise
<1> QED BY <1>1, <1>7 DEF Promise, ChangePromise, SlotPromise, OldPromise, UpdatePromise

\* A change has used up every session of the user.
LEMMA ChangePromised ==
  ASSUME IInv, TypeOK', NEW h \in Handlers, NEW u \in Users, NEW ids, ChangeBegin(h, u, ids)
  PROVE  Promise(h)'
<1>0. TypeOK
  BY DEF IInv
<1> DEFINE P == ProxiesOf(ActiveOf(u))
           C == Owned(u, ids)
           j == [Rest EXCEPT !.user = u, !.todo = C, !.at = now, !.used = P]
<1>1. Begin(h, "change", j) /\ UNCHANGED <<creds, type, now, bent>>
  BY DEF ChangeBegin
<1>2. \A c \in creds : Active(c)' /\ c.user = u => c.proxy \in P
  BY <1>1 DEF ProxiesOf, ActiveOf, Active
<1> HIDE DEF P, C
<1>3. j.user = u /\ j.plan = {} /\ j.used = P
  BY RestTyped DEF Rest, Job
<1> HIDE DEF j
<1>4. pc'[h] = "change" /\ job'[h] = j
  BY <1>0, <1>1, BeginMoves
<1>5. ChangePromise(h)'
  BY <1>1, <1>2, <1>3, <1>4 DEF ChangePromise
<1> QED BY <1>4, <1>5 DEF Promise, ClaimPromise, SlotPromise, OldPromise, UpdatePromise

\* A session is picked when it has a free slot and the order is not on it.
LEMMA ClaimPicked ==
  ASSUME IInv, TypeOK', NEW h \in Handlers, ClaimPick(h)
  PROVE  Promise(h)'
<1>0. TypeOK /\ RowsSound /\ ClaimPromise(h) /\ job[h] \in Job
  BY DEF IInv, Promise, TypeOK
<1>1. PICK plan \in SUBSET Available(job[h].used, job[h].type) :
        /\ Cardinality(plan) = job[h].need
        /\ Goto(h, "insert", [job[h] EXCEPT !.plan = plan, !.at = Expiry(job[h].ttl)])
  BY DEF ClaimPick
<1>2. UNCHANGED <<creds, type, now, bent>> /\ pc[h] = "pick"
  BY DEF ClaimPick
<1> DEFINE j == [job[h] EXCEPT !.plan = plan, !.at = Expiry(job[h].ttl)]
<1>3. /\ j.plan = plan /\ j.user = job[h].user /\ j.order = job[h].order /\ j.type = job[h].type
      /\ j.count = job[h].count
  BY <1>0 DEF Job
<1> HIDE DEF j
<1>4. pc'[h] = "insert" /\ job'[h] = j
  <2>1. Goto(h, "insert", j)
    BY <1>1 DEF j
  <2> QED BY <2>1, <1>0, GotoMoves
<1>5. \A q \in plan : q \in Proxies /\ q \notin job[h].used /\ type[q] = job[h].type
                      /\ Cardinality(Slots(q)) < MaxCreds[type[q]]
  BY <1>1 DEF Available
<1>6. \A c \in creds : Active(c) /\ c.user = job[h].user /\ c.order = job[h].order
        => c.proxy \notin plan \/ bent[c.proxy]
  BY <1>0, <1>2, <1>5 DEF ClaimPromise, Reclaimed
<1>7. Reclaimed(h)' = Reclaimed(h)
  BY <1>2, <1>3, <1>4 DEF Reclaimed, Active
<1>8. IsFiniteSet(plan)
  <2>1. plan \subseteq Proxies
    BY <1>5
  <2> QED BY <2>1, FS_Subset, NamesAssumption
<1>9. Cardinality(Reclaimed(h)) + Cardinality(plan) <= job[h].count
  BY <1>0, <1>1, <1>2 DEF ClaimPromise
<1>10. \A c : Active(c)' <=> Active(c)
  BY <1>2 DEF Active
<1>11. ClaimPromise(h)'
  BY <1>2, <1>3, <1>4, <1>6, <1>7, <1>8, <1>9, <1>10 DEF ClaimPromise
<1>12. SlotPromise(h)'
  <2>1. \A q : Slots(q)' = Slots(q)
    BY <1>2, <1>10 DEF Slots
  <2> QED BY <2>1, <1>2, <1>3, <1>4, <1>5 DEF SlotPromise
<1> QED BY <1>4, <1>11, <1>12 DEF Promise, ChangePromise, OldPromise, UpdatePromise

\* So it is in a change.
LEMMA ChangePicked ==
  ASSUME IInv, TypeOK', NEW h \in Handlers, ChangePick(h)
  PROVE  Promise(h)'
<1>0. TypeOK /\ RowsSound /\ ChangePromise(h) /\ job[h] \in Job
  BY DEF IInv, Promise, TypeOK
<1>1. PICK old \in job[h].todo : \E q \in Available(job[h].used, type[old.proxy]) :
        Goto(h, "create", [job[h] EXCEPT !.ids = {old.id}, !.plan = {q}, !.used = @ \cup {q}])
  BY DEF ChangePick
<1>2. PICK q \in Available(job[h].used, type[old.proxy]) :
        Goto(h, "create", [job[h] EXCEPT !.ids = {old.id}, !.plan = {q}, !.used = @ \cup {q}])
  BY <1>1
<1>3. UNCHANGED <<creds, type, now, bent>> /\ pc[h] = "change"
  BY DEF ChangePick
<1> DEFINE j == [job[h] EXCEPT !.ids = {old.id}, !.plan = {q}, !.used = @ \cup {q}]
<1>4. /\ j.plan = {q} /\ j.user = job[h].user /\ j.todo = job[h].todo /\ j.ids = {old.id}
      /\ j.used = job[h].used \cup {q}
  BY <1>0 DEF Job
<1> HIDE DEF j
<1>5. pc'[h] = "create" /\ job'[h] = j
  <2>1. Goto(h, "create", j)
    BY <1>2 DEF j
  <2> QED BY <2>1, <1>0, GotoMoves
<1>6. q \notin job[h].used /\ Cardinality(Slots(q)) < MaxCreds[type[q]]
  BY <1>2 DEF Available
<1>7. \A c : Active(c)' <=> Active(c)
  BY <1>3 DEF Active
<1>8. ChangePromise(h)'
  BY <1>0, <1>3, <1>4, <1>5, <1>6, <1>7 DEF ChangePromise
<1>9. SlotPromise(h)'
  <2>1. Slots(q)' = Slots(q)
    BY <1>3, <1>7 DEF Slots
  <2> QED BY <2>1, <1>3, <1>4, <1>5, <1>6 DEF SlotPromise
<1>10. OldPromise(h)'
  BY <1>4, <1>5 DEF OldPromise
<1> QED BY <1>5, <1>8, <1>9, <1>10 DEF Promise, ClaimPromise, UpdatePromise

\* After a replacement the rest of the change goes on as before.
LEMMA DropPromised ==
  ASSUME IInv, TypeOK', NEW h \in Handlers, ChangeDrop(h)
  PROVE  Promise(h)'
<1>0. TypeOK /\ ChangePromise(h) /\ job[h] \in Job /\ pc[h] = "drop"
  BY DEF IInv, Promise, TypeOK, ChangeDrop
<1> DEFINE left == {c \in job[h].todo : c.id \notin job[h].ids}
           j == [job[h] EXCEPT !.todo = left, !.ids = {}]
<1>1. Done(h) \/ Goto(h, "change", j)
  BY DEF ChangeDrop
<1>2. creds' \subseteq creds /\ \A c : Active(c)' <=> Active(c)
  BY DEF ChangeDrop, Delete, Active
<1> HIDE DEF left
<1>3. j.plan = job[h].plan /\ j.used = job[h].used /\ j.user = job[h].user
  BY <1>0 DEF Job
<1> HIDE DEF j
<1>4. CASE Done(h)
  <2>1. pc'[h] = "idle"
    BY <1>4, <1>0, DoneMoves
  <2> QED BY <2>1, OutsidePromise DEF InMutex, UpdatePromise
<1>5. CASE Goto(h, "change", j)
  <2>1. pc'[h] = "change" /\ job'[h] = j /\ UNCHANGED bent
    BY <1>5, <1>0, GotoMoves DEF ChangeDrop
  <2>2. ChangePromise(h)'
    BY <1>0, <1>2, <1>3, <2>1 DEF ChangePromise
  <2> QED BY <2>1, <2>2 DEF Promise, ClaimPromise, SlotPromise, OldPromise, UpdatePromise
<1> QED BY <1>1, <1>4, <1>5

\* What a claim inserts was promised,
LEMMA ClaimInserts ==
  ASSUME IInv, NEW h \in Handlers, ClaimInsert(h)
  PROVE  \E q \in job[h].plan :
           /\ Inserts(h, q, job[h].order, job[h].at)
           /\ \/ job[h].plan = {q} /\ Done(h)
              \/ Goto(h, "insert", [job[h] EXCEPT !.plan = @ \ {q}])
<1>0. ClaimPromise(h) /\ pc[h] = "insert" /\ job[h].order \in Names
  BY DEF IInv, Promise, TypeOK, Job, ClaimInsert
<1>1. PICK q \in job[h].plan :
        /\ Create(job[h].user, job[h].order, q, job[h].at)
        /\ \/ job[h].plan = {q} /\ Done(h)
           \/ Goto(h, "insert", [job[h] EXCEPT !.plan = @ \ {q}])
  BY DEF ClaimInsert
<1>2. \A c \in creds : Active(c) /\ c.user = job[h].user /\ c.order = job[h].order /\ c.proxy = q => bent[q]
  BY <1>0 DEF ClaimPromise
<1>3. UNCHANGED <<type, now, bent>>
  BY DEF ClaimInsert
<1> QED BY <1>0, <1>1, <1>2, <1>3 DEF Inserts

\* and what a change inserts.
LEMMA ChangeInserts ==
  ASSUME IInv, NEW h \in Handlers, ChangeCreate(h)
  PROVE  \E q \in job[h].plan : Inserts(h, q, Old(h).order, Remaining(h))
<1>0. TypeOK /\ ChangePromise(h) /\ OldPromise(h) /\ pc[h] = "create"
  BY DEF IInv, Promise, ChangeCreate
<1>1. PICK q \in job[h].plan : Create(job[h].user, Old(h).order, q, Remaining(h))
  BY DEF ChangeCreate
<1>2. \A c \in creds : Active(c) /\ c.user = job[h].user /\ c.proxy = q => bent[q]
  BY <1>0 DEF ChangePromise
<1>3. Old(h).order \in Names
  <2>1. Old(h) \in job[h].todo /\ job[h] \in Job
    BY <1>0, OldTyped DEF TypeOK
  <2> QED BY <2>1 DEF Job, Cred
<1>4. UNCHANGED <<type, now, bent>>
  BY DEF ChangeCreate
<1> QED BY <1>0, <1>1, <1>2, <1>3, <1>4 DEF Inserts

\* With each cred a claim inserts it has one less to insert.
LEMMA InsertPromised ==
  ASSUME IInv, NEW h \in Handlers, NEW q \in job[h].plan, Inserts(h, q, job[h].order, job[h].at),
         pc[h] = "insert", Goto(h, "insert", [job[h] EXCEPT !.plan = @ \ {q}])
  PROVE  Promise(h)'
<1>0. TypeOK /\ RowsSound /\ ClaimPromise(h) /\ SlotPromise(h) /\ job[h] \in Job
  BY DEF IInv, Promise, TypeOK
<1> DEFINE n == Fresh(h, q, job[h].order, job[h].at)
           j == [job[h] EXCEPT !.plan = @ \ {q}]
<1>1. /\ creds' = creds \cup {n}
      /\ \A c : Active(c)' <=> Active(c)
      /\ \A r : r # q => Slots(r)' = Slots(r)
      /\ UNCHANGED <<type, bent>>
  BY <1>0, InsertedRow DEF Inserts
<1>2. n.proxy = q
  BY DEF Fresh
<1> HIDE DEF n
<1>3. /\ j.plan = job[h].plan \ {q} /\ j.user = job[h].user /\ j.order = job[h].order
      /\ j.type = job[h].type /\ j.count = job[h].count
  BY <1>0 DEF Job
<1>4. pc'[h] = "insert" /\ job'[h] = j
  BY <1>0, GotoMoves
<1> HIDE DEF j
<1>5. \A c \in creds' : Active(c)' /\ c.user = job[h].user /\ c.order = job[h].order
        => c.proxy \notin job[h].plan \ {q} \/ bent[c.proxy]
  BY <1>0, <1>1, <1>2 DEF ClaimPromise
<1>6. /\ IsFiniteSet(job[h].plan \ {q}) /\ Cardinality(job[h].plan) \in Nat
      /\ Cardinality(job[h].plan \ {q}) = Cardinality(job[h].plan) - 1
  BY <1>0, FS_RemoveElement, FS_CardinalityType DEF ClaimPromise
<1>7. Reclaimed(h)' \subseteq Reclaimed(h) \cup {n}
  BY <1>1, <1>3, <1>4 DEF Reclaimed
<1>8. IsFiniteSet(Reclaimed(h)) /\ Cardinality(Reclaimed(h)) \in Nat
  BY <1>0, SlotsCounted DEF RowsSound
<1>9. /\ IsFiniteSet(Reclaimed(h) \cup {n})
      /\ Cardinality(Reclaimed(h) \cup {n}) \in {Cardinality(Reclaimed(h)), Cardinality(Reclaimed(h)) + 1}
  BY <1>8, FS_AddElement
<1>10. Cardinality(Reclaimed(h)') <= Cardinality(Reclaimed(h) \cup {n}) /\ Cardinality(Reclaimed(h)') \in Nat
  BY <1>7, <1>9, FS_Subset, FS_CardinalityType
<1>11. Cardinality(Reclaimed(h)) + Cardinality(job[h].plan) <= job[h].count /\ job[h].count \in Nat
  BY <1>0 DEF ClaimPromise, Job
<1>12. Cardinality(Reclaimed(h)') + Cardinality(job[h].plan \ {q}) <= job[h].count
  BY <1>6, <1>8, <1>9, <1>10, <1>11
<1>13. ClaimPromise(h)'
  BY <1>1, <1>3, <1>4, <1>5, <1>6, <1>12 DEF ClaimPromise
<1>14. SlotPromise(h)'
  BY <1>0, <1>1, <1>3, <1>4 DEF SlotPromise
<1> QED BY <1>4, <1>13, <1>14 DEF Promise, ChangePromise, OldPromise, UpdatePromise

\* With the cred a change inserts, the session picked is used up.
LEMMA CreatePromised ==
  ASSUME IInv, NEW h \in Handlers, ChangeCreate(h)
  PROVE  Promise(h)'
<1>0. TypeOK /\ ChangePromise(h) /\ OldPromise(h) /\ job[h] \in Job /\ pc[h] = "create"
  BY DEF IInv, Promise, TypeOK, ChangeCreate
<1>1. PICK q \in job[h].plan : Inserts(h, q, Old(h).order, Remaining(h))
  BY ChangeInserts
<1> DEFINE n == Fresh(h, q, Old(h).order, Remaining(h))
           j == [job[h] EXCEPT !.plan = {}]
<1>2. creds' = creds \cup {n} /\ (\A c : Active(c)' <=> Active(c)) /\ UNCHANGED bent
  BY <1>0, <1>1, InsertedRow DEF Inserts
<1>3. n.proxy = q /\ q \in job[h].used
  BY <1>0, <1>1 DEF Fresh, ChangePromise
<1> HIDE DEF n
<1>4. j.plan = {} /\ j.user = job[h].user /\ j.used = job[h].used /\ j.todo = job[h].todo /\ j.ids = job[h].ids
  BY <1>0 DEF Job
<1>5. pc'[h] = "drop" /\ job'[h] = j
  BY <1>0, GotoMoves DEF ChangeCreate
<1> HIDE DEF j
<1>6. ChangePromise(h)'
  BY <1>0, <1>2, <1>3, <1>4, <1>5 DEF ChangePromise
<1>7. OldPromise(h)'
  BY <1>0, <1>4, <1>5 DEF OldPromise
<1> QED BY <1>5, <1>6, <1>7 DEF Promise, ClaimPromise, SlotPromise, UpdatePromise

\* The others leave claimMu, never take it, or promise nothing inside it.
LEMMA RestPromised ==
  ASSUME IInv, TypeOK', NEW h \in Handlers,
         \/ GiveUp(h) \/ PruneDelete(h) \/ ReleaseDelete(h) \/ ExtendWrite(h) \/ SetTypeWrite(h)
         \/ UpdateSave(h)
         \/ \E keep : PruneBegin(h, keep)
         \/ \E u, os, ts : ReleaseBegin(h, u, os, ts)
         \/ \E u, C, ttl : ExtendBegin(h, u, C, ttl)
         \/ \E q, t : SetTypeBegin(h, q, t)
         \/ \E c, on, exp : UpdateBegin(h, c, on, exp)
  PROVE  Promise(h)'
<1>0. TypeOK
  BY DEF IInv
<1>1. ASSUME pc'[h] \in {"idle", "extend", "prune", "release", "settype"} PROVE Promise(h)'
  BY <1>1 DEF Promise, ClaimPromise, ChangePromise, SlotPromise, OldPromise, UpdatePromise
<1>2. CASE \/ GiveUp(h) \/ PruneDelete(h) \/ ReleaseDelete(h) \/ ExtendWrite(h) \/ SetTypeWrite(h)
           \/ UpdateSave(h)
  <2>1. \E j : Done(h) \/ Goto(h, "extend", j)
    BY <1>2 DEF GiveUp, PruneDelete, ReleaseDelete, ExtendWrite, SetTypeWrite, UpdateSave
  <2> QED BY <2>1, <1>0, <1>1, GotoMoves, DoneMoves
<1>3. ASSUME NEW l, NEW j, Begin(h, l, j) PROVE pc'[h] = l /\ job'[h] = j
  BY <1>0, <1>3, BeginMoves
<1>4. ASSUME NEW keep, PruneBegin(h, keep) PROVE Promise(h)'
  BY <1>1, <1>3, <1>4 DEF PruneBegin
<1>5. ASSUME NEW u, NEW os, NEW ts, ReleaseBegin(h, u, os, ts) PROVE Promise(h)'
  BY <1>1, <1>3, <1>5 DEF ReleaseBegin
<1>6. ASSUME NEW u, NEW C, NEW ttl, ExtendBegin(h, u, C, ttl) PROVE Promise(h)'
  BY <1>1, <1>3, <1>6 DEF ExtendBegin
<1>7. ASSUME NEW q, NEW t, SetTypeBegin(h, q, t) PROVE Promise(h)'
  BY <1>1, <1>3, <1>7 DEF SetTypeBegin
<1>8. ASSUME NEW c, NEW on, NEW exp, UpdateBegin(h, c, on, exp) PROVE Promise(h)'
  <2> DEFINE n == [c EXCEPT !.on = on, !.exp = exp]
  <2>1. Begin(h, "update", [Rest EXCEPT !.todo = {n}])
    BY <1>8 DEF UpdateBegin
  <2> HIDE DEF n
  <2>2. [Rest EXCEPT !.todo = {n}].todo = {n}
    BY RestTyped DEF Job
  <2>3. pc'[h] = "update" /\ job'[h].todo = {n}
    BY <2>1, <2>2, <1>3
  <2>4. n \in Cred
    <3>1. job'[h] \in Job
      BY DEF TypeOK
    <3> QED BY <3>1, <2>3 DEF Job
  <2>5. UpdatePromise(h)'
    BY <2>3, <2>4 DEF UpdatePromise
  <2> QED BY <2>3, <2>5, OutsidePromise DEF InMutex
<1> QED BY <1>2, <1>4, <1>5, <1>6, <1>7, <1>8

-----------------------------------------------------------------------------
(* The invariant. *)

\* A step that inserts nothing keeps quotas, and every handler's promise.
LEMMA LastingKept ==
  ASSUME IInv, TypeOK', RowsSound', NEW h \in Handlers, Step(h) \/ Request(h),
         ~ClaimInsert(h), ~ChangeCreate(h)
  PROVE  QuotaHeld' /\ OrderSpread' /\ \A g \in Handlers : Promise(g)'
<1>1. Straight /\ Lasting
  BY StepLasts
<1>2. Others(h)
  BY HandlerMoves DEF IInv, Promise
<1>3. ASSUME NEW g \in Handlers, g # h PROVE Promise(g)'
  BY <1>1, <1>2, <1>3, LastingPromise DEF Others
<1>4. Promise(h)'
  <2>1. CASE Step(h)
    BY <2>1, ClaimPicked, ChangePicked, DropPromised, RestPromised DEF Step
  <2>2. CASE Request(h)
    BY <2>2, ClaimPromised, ChangePromised, RestPromised DEF Request
  <2> QED BY <2>1, <2>2
<1> QED BY <1>1, <1>3, <1>4, LastingQuota

\* So does one that inserts, since claimMu keeps the other handlers from
\* promising anything.
LEMMA InsertingKept ==
  ASSUME IInv, TypeOK', NEW h \in Handlers, ClaimInsert(h) \/ ChangeCreate(h)
  PROVE  QuotaHeld' /\ OrderSpread' /\ \A g \in Handlers : Promise(g)'
<1>0. TypeOK /\ MutexHeld /\ RowsSound
  BY DEF IInv
<1>1. \E q, o, e : Inserts(h, q, o, e)
  BY ClaimInserts, ChangeInserts
<1>2. Others(h) /\ claimMu = h
  <2>1. Others(h)
    BY <1>0, HandlerMoves DEF Step, IInv, Promise
  <2>2. pc[h] \in InMutex
    BY DEF ClaimInsert, ChangeCreate, InMutex
  <2> QED BY <2>1, <2>2, <1>0 DEF MutexHeld
<1>3. ASSUME NEW g \in Handlers, g # h PROVE Promise(g)'
  <2>1. pc'[g] = pc[g] /\ job'[g] = job[g] /\ pc[g] \notin InMutex
    BY <1>0, <1>2, <1>3 DEF Others, MutexHeld
  <2>2. UpdatePromise(g)'
    BY <2>1 DEF IInv, Promise, UpdatePromise
  <2> QED BY <2>1, <2>2, OutsidePromise
<1>4. Promise(h)'
  <2>1. CASE ChangeCreate(h)
    BY <2>1, CreatePromised
  <2>2. CASE ClaimInsert(h)
    <3>1. PICK q \in job[h].plan :
            /\ Inserts(h, q, job[h].order, job[h].at)
            /\ \/ job[h].plan = {q} /\ Done(h)
               \/ Goto(h, "insert", [job[h] EXCEPT !.plan = @ \ {q}])
      BY <2>2, ClaimInserts
    <3>2. CASE Done(h)
      <4>1. pc'[h] = "idle"
        BY <3>2, <1>0, DoneMoves
      <4> QED BY <4>1, OutsidePromise DEF InMutex, UpdatePromise
    <3>3. CASE Goto(h, "insert", [job[h] EXCEPT !.plan = @ \ {q}])
      <4>1. pc[h] = "insert"
        BY <2>2 DEF ClaimInsert
      <4> QED BY <3>1, <3>3, <4>1, InsertPromised
    <3> QED BY <3>1, <3>2, <3>3
  <2> QED BY <2>1, <2>2
<1> QED BY <1>1, <1>3, <1>4, InsertQuota

\* And what happens by itself.
LEMMA WorldKept ==
  ASSUME IInv, TypeOK', RowsSound',
         Tick \/ CleanExpired \/ Crash \/ (\E c \in creds : DeleteCred(c)) \/ UNCHANGED vars
  PROVE  QuotaHeld' /\ OrderSpread' /\ \A g \in Handlers : Promise(g)'
<1>0. TypeOK
  BY DEF IInv
<1>1. Straight /\ Lasting
  <2>1. creds' \subseteq creds /\ UNCHANGED <<type, bent>> /\ now' \in {now, now + 1}
    BY DEF Tick, CleanExpired, Crash, DeleteCred, Delete, vars
  <2> QED BY <2>1, <1>0, SubsetLasts
<1>2. CASE Crash
  <2>1. \A g \in Handlers : pc'[g] = "idle"
    BY <1>2 DEF Crash
  <2>2. \A g \in Handlers : Promise(g)'
    BY <2>1, OutsidePromise DEF InMutex, UpdatePromise
  <2> QED BY <1>1, <2>2, LastingQuota
<1>3. CASE ~Crash
  <2>1. UNCHANGED <<pc, job>>
    BY <1>3 DEF Tick, CleanExpired, DeleteCred, locals, vars
  <2>2. \A g \in Handlers : pc'[g] = pc[g] /\ job'[g] = job[g]
    BY <2>1
  <2> QED BY <1>1, <2>2, LastingQuota, LastingPromise
<1> QED BY <1>2, <1>3

\* The invariant holds at the start,
LEMMA InitInvariant == Init => IInv
<1> SUFFICES ASSUME Init PROVE IInv
  OBVIOUS
<1>1. TypeOK
  BY RestTyped, LimitsAssumption, NamesAssumption DEF Init, TypeOK, Labels
<1>2. creds = {} /\ (\A h \in Handlers : pc[h] = "idle" /\ job[h].todo = {}) /\ claimMu = NoOne
  BY DEF Init, Rest
<1>3. RowsSound /\ OrderSpread
  BY <1>2, FS_EmptySet DEF RowsSound, Known, OrderSpread
<1>4. MutexHeld /\ \A h \in Handlers : Promise(h)
  BY <1>2, NamesAssumption DEF MutexHeld, InMutex, Promise, ClaimPromise, ChangePromise, SlotPromise,
     OldPromise, UpdatePromise
<1>5. QuotaHeld
  <2>1. \A q \in Proxies : Slots(q) = {}
    BY <1>2 DEF Slots
  <2> QED BY <2>1, <1>1, FS_EmptySet, SlotsAssumption DEF QuotaHeld, TypeOK
<1> QED BY <1>1, <1>3, <1>4, <1>5 DEF IInv

\* and every step keeps it.
LEMMA Inductive == Spec => []IInv
<1>1. IInv /\ [Next]_vars => IInv'
  <2> SUFFICES ASSUME IInv, [Next]_vars PROVE IInv'
    OBVIOUS
  <2>1. TypeOK' /\ RowsSound' /\ MutexHeld'
    BY TypesKept, RowsKept, MutexKept
  <2>2. QuotaHeld' /\ OrderSpread' /\ \A h \in Handlers : Promise(h)'
    BY <2>1, LastingKept, InsertingKept, WorldKept DEF Next
  <2> QED BY <2>1, <2>2 DEF IInv
<1> QED BY <1>1, InitInvariant, PTL DEF Spec

-----------------------------------------------------------------------------
(* Theorems. *)

\* Values keep their types and primary keys stay unique, the Save of a stale row
\* included.
THEOREM TypeCorrect == Spec => []TypeOK
<1>1. IInv => TypeOK
  BY DEF IInv
<1> QED BY <1>1, Inductive, PTL

\* No session holds more users than its type allows, but where an extend or an
\* edit outside claimMu revived a cred or the type was changed.
THEOREM QuotaKept == Spec => []QuotaHeld
<1>1. IInv => QuotaHeld
  BY DEF IInv
<1> QED BY <1>1, Inductive, PTL

\* The active creds of an order are on different sessions, with the same proviso.
THEOREM OrdersSpread == Spec => []OrderSpread
<1>1. IInv => OrderSpread
  BY DEF IInv
<1> QED BY <1>1, Inductive, PTL

\* A claim inserts only while its order has fewer creds than it asks for.
THEOREM ClaimsRepeatable == Spec => ClaimIdempotent
<1>1. ASSUME IInv, NEW h \in Handlers, ClaimInsert(h)
      PROVE  Cardinality(Reclaimed(h)) < job[h].count
  <2>1. pc[h] = "insert" /\ job[h].plan # {}
    BY <1>1 DEF ClaimInsert
  <2>2. IsFiniteSet(job[h].plan) /\ Cardinality(Reclaimed(h)) + Cardinality(job[h].plan) <= job[h].count
    BY <1>1, <2>1 DEF IInv, Promise, ClaimPromise
  <2>3. Cardinality(job[h].plan) \in Nat /\ Cardinality(job[h].plan) # 0
    BY <2>1, <2>2, FS_EmptySet, FS_CardinalityType
  <2>4. Cardinality(Reclaimed(h)) \in Nat /\ job[h].count \in Nat
    BY <1>1, SlotsCounted DEF IInv, RowsSound, TypeOK, Job
  <2> QED BY <2>2, <2>3, <2>4
<1>2. IInv => [\A h \in Handlers : ClaimInsert(h) => Cardinality(Reclaimed(h)) < job[h].count]_vars
  BY <1>1
<1> QED BY <1>2, Inductive, PTL DEF ClaimIdempotent

-----------------------------------------------------------------------------
(* The ledger of slots. *)

\* The ledger counts no more slots on a session than the table.
LEMMA LedgerCounts ==
  ASSUME TypeOK, RowsSound, NEW q
  PROVE  Cardinality(Ledger!On(q)) \in Nat /\ Cardinality(Ledger!On(q)) <= Cardinality(Slots(q))
<1>1. \A s \in Ledger!On(q) : \E c \in Slots(q) : s = Slot(c)
  BY DEF Ledger!On, InUse, Slot, Slots
<1>2. \A c, d \in Slots(q) : c.id = d.id => c = d
  BY DEF TypeOK, Slots
<1>3. \A c : Slot(c).id = c.id
  BY DEF Slot
<1>4. \A s, t \in Ledger!On(q) : s.id = t.id => s = t
  BY <1>1, <1>2, <1>3
<1>5. \A s \in Ledger!On(q) : \E c \in Slots(q) : c.id = s.id
  BY <1>1, <1>3
<1>6. IsFiniteSet(Slots(q))
  BY SlotsCounted DEF RowsSound
<1>7. IsFiniteSet(Ledger!On(q)) /\ Cardinality(Ledger!On(q)) <= Cardinality(Slots(q))
  BY <1>4, <1>5, <1>6, Fewer
<1> QED BY <1>7, FS_CardinalityType

\* It counts as the table does.
LEMMA LedgerCounted == \A S : Ledger!Cardinality(S) = Cardinality(S)
  BY DEF Ledger!Cardinality, Cardinality

LedgerVars == <<InUse, Limits, Unbent>>

\* An inserted cred is granted a slot, unless it has run out by then.
LEMMA LedgerGrants ==
  ASSUME IInv, NEW h \in Handlers, NEW q, NEW o, NEW e, Inserts(h, q, o, e)
  PROVE  [Ledger!Next]_LedgerVars
<1> DEFINE n == Fresh(h, q, o, e)
           s == Slot(n)
<1>0. TypeOK /\ RowsSound /\ SlotPromise(h) /\ job[h] \in Job
  BY DEF IInv, Promise, TypeOK
<1>1. creds' = creds \cup {n} /\ (\A c : Active(c)' <=> Active(c)) /\ UNCHANGED <<type, bent>>
  BY <1>0, InsertedRow DEF Inserts
<1>2. UNCHANGED <<Limits, Unbent>>
  BY <1>1 DEF Limits, Unbent
<1>3. /\ s.id = lastId + 1 /\ s.user = job[h].user /\ s.order = o /\ s.proxy = q
      /\ q \in Proxies /\ q \in job[h].plan /\ pc[h] \in {"insert", "create"}
  BY <1>0 DEF Fresh, Slot, Inserts, Job
<1>4. \A t \in InUse : \E c \in creds : Active(c) /\ t = Slot(c)
  BY DEF InUse
<1> HIDE DEF n
<1>5. CASE Active(n)
  <2>1. InUse' = InUse \cup {s}
    BY <1>1, <1>5 DEF InUse, Slot
  <2> HIDE DEF s
  <2>2. \A t \in InUse : t.id # s.id
    <3>1. \A c \in creds : c.id \in Nat /\ c.id <= lastId /\ Slot(c).id = c.id
      BY <1>0 DEF TypeOK, Cred, Slot
    <3>2. lastId \in Nat
      BY <1>0 DEF TypeOK
    <3> QED BY <3>1, <3>2, <1>3, <1>4
  <2>3. ASSUME q \in Unbent
        PROVE  /\ Cardinality(Ledger!On(q)) < Limits[q]
               /\ ~\E t \in Ledger!On(q) : Ledger!SameClient(s, t)
    <3>1. ~bent[q]
      BY <2>3 DEF Unbent
    <3>2. Cardinality(Slots(q)) < MaxCreds[type[q]]
      BY <3>1, <1>0, <1>3 DEF SlotPromise
    <3>3. Cardinality(Slots(q)) \in Nat /\ MaxCreds[type[q]] \in Nat
      BY <1>0, <1>3, SlotsCounted, SlotsAssumption DEF RowsSound, TypeOK
    <3>4. Cardinality(Ledger!On(q)) < MaxCreds[type[q]]
      BY <3>2, <3>3, <1>0, LedgerCounts
    <3>5. Limits[q] = MaxCreds[type[q]]
      BY <1>3 DEF Limits
    <3>6. \A c \in creds : Active(c) /\ c.user = job[h].user /\ c.order = o => c.proxy # q
      BY <3>1 DEF Inserts
    <3>7. \A c : Slot(c).user = c.user /\ Slot(c).order = c.order /\ Slot(c).proxy = c.proxy
      BY DEF Slot
    <3>8. ~\E t \in Ledger!On(q) : Ledger!SameClient(s, t)
      BY <3>6, <3>7, <1>3, <1>4 DEF Ledger!On, Ledger!SameClient
    <3> QED BY <3>4, <3>5, <3>8
  <2>a. s.proxy = q
    BY <1>3
  <2>b. s.proxy \in Unbent =>
          /\ Ledger!Cardinality(Ledger!On(s.proxy)) < Limits[s.proxy]
          /\ ~\E t \in Ledger!On(s.proxy) : Ledger!SameClient(s, t)
    BY <2>3, <2>a, LedgerCounted
  <2>4. Ledger!Grant(s)
    BY <2>1, <2>2, <2>b, <1>2 DEF Ledger!Grant
  <2>5. s \in InUse' \ InUse
    BY <2>1, <2>2
  <2> QED BY <2>4, <2>5 DEF Ledger!Next
<1>6. CASE ~Active(n)
  <2>1. UNCHANGED InUse
    BY <1>1, <1>6 DEF InUse, Slot
  <2> QED BY <2>1, <1>2 DEF LedgerVars
<1> QED BY <1>5, <1>6

\* Whatever inserts nothing gives slots back, and no slot to somebody else.
LEMMA LedgerGivesBack ==
  ASSUME TypeOK, TypeOK', RowsSound, Straight, Lasting, Reuses
  PROVE  Ledger!Next
<1>0. \A c : /\ Slot(c).id = c.id /\ Slot(c).proxy = c.proxy
             /\ \A d : c.id = d.id /\ SameRow(c, d) => Slot(c) = Slot(d)
  BY DEF Slot, SameRow
<1>1. Unbent' \subseteq Unbent /\ \A q \in Unbent' : Limits'[q] = Limits[q]
  BY DEF Straight, Unbent, Limits
<1>2. ASSUME NEW s \in InUse', s.proxy \in Unbent' PROVE s \in InUse
  <2>1. PICK c \in creds' : Active(c)' /\ s = Slot(c)
    BY <1>2 DEF InUse, Slot
  <2>2. ~bent'[c.proxy]
    BY <1>0, <1>2, <2>1 DEF Unbent
  <2>3. PICK d \in creds : Active(d) /\ d.id = c.id /\ SameRow(c, d)
    BY <2>1, <2>2 DEF Lasting
  <2> QED BY <1>0, <2>1, <2>3 DEF InUse
<1>3. ASSUME NEW s \in InUse, NEW t \in InUse', s.id = t.id PROVE s = t
  <2>1. PICK c \in creds : s = Slot(c)
    BY <1>3 DEF InUse
  <2>2. PICK d \in creds' : t = Slot(d)
    BY <1>3 DEF InUse, Slot
  <2>3. PICK e \in Known : e.id = d.id /\ SameRow(d, e)
    BY DEF Reuses, Sourced, Known, SameRow
  <2>4. c.id = d.id /\ SameRow(c, e)
    BY <1>0, <1>3, <2>1, <2>2, <2>3 DEF RowsSound, Known
  <2> QED BY <1>0, <2>1, <2>2, <2>3, <2>4 DEF SameRow
<1> QED BY <1>1, <1>2, <1>3 DEF Ledger!Next, Ledger!GiveBack

\* Every step of the service is a step of the ledger.
LEMMA LedgerStep == ASSUME IInv, TypeOK', [Next]_vars PROVE [Ledger!Next]_LedgerVars
<1>0. TypeOK /\ RowsSound /\ \A h \in Handlers : UpdatePromise(h)
  BY DEF IInv, Promise
<1>1. ASSUME NEW h \in Handlers, ClaimInsert(h) \/ ChangeCreate(h)
      PROVE  [Ledger!Next]_LedgerVars
  <2>1. \E q, o, e : Inserts(h, q, o, e)
    BY <1>1, ClaimInserts, ChangeInserts
  <2> QED BY <2>1, LedgerGrants
<1>2. ASSUME NEW h \in Handlers, Step(h) \/ Request(h), ~ClaimInsert(h), ~ChangeCreate(h)
      PROVE  [Ledger!Next]_LedgerVars
  <2>1. Straight /\ Lasting
    BY <1>2, StepLasts
  <2>2. Reuses
    <3>1. CASE ExtendWrite(h) \/ UpdateSave(h)
      BY <3>1, <1>0, WritesReuse
    <3>2. CASE ~ExtendWrite(h) /\ ~UpdateSave(h) /\ Step(h)
      <4>1. creds' \subseteq creds /\ UNCHANGED lastId
        BY <3>2, <1>2 DEF Step, ClaimPick, GiveUp, ChangePick, ChangeDrop, PruneDelete, ReleaseDelete,
                      SetTypeWrite, Delete
      <4> QED BY <4>1, ReusesLess
    <3>3. CASE Request(h)
      <4>1. UNCHANGED <<creds, lastId>>
        BY <3>3 DEF Request, ClaimBegin, ChangeBegin, PruneBegin, ReleaseBegin, ExtendBegin,
                    SetTypeBegin, UpdateBegin
      <4> QED BY <4>1, ReusesLess
    <3> QED BY <1>2, <3>1, <3>2, <3>3
  <2> QED BY <2>1, <2>2, <1>0, LedgerGivesBack
<1>3. CASE Tick \/ CleanExpired \/ Crash \/ (\E c \in creds : DeleteCred(c)) \/ UNCHANGED vars
  <2>1. creds' \subseteq creds /\ UNCHANGED <<lastId, type, bent>> /\ now' \in {now, now + 1}
    BY <1>3 DEF Tick, CleanExpired, Crash, DeleteCred, Delete, vars
  <2> QED BY <2>1, <1>0, SubsetLasts, ReusesLess, LedgerGivesBack
<1> QED BY <1>1, <1>2, <1>3 DEF Next

\* The table implements SlotLedger: slots are granted one at a time within the
\* limits and given back, whatever runs beside claimMu.
THEOREM ClaimsKeepLedger == Spec => LedgerSpec
<1>1. Init => Ledger!Init
  <2> SUFFICES ASSUME Init PROVE Ledger!Init
    OBVIOUS
  <2>1. InUse = {}
    BY DEF Init, InUse
  <2>2. Unbent = Proxies
    BY DEF Init, Unbent
  <2>3. Limits \in [Proxies -> Nat \ {0}]
    BY SlotsAssumption, NamesAssumption DEF Init, Limits
  <2> QED BY <2>1, <2>2, <2>3 DEF Ledger!Init
<1>2. IInv /\ TypeOK' /\ [Next]_vars => [Ledger!Next]_<<InUse, Limits, Unbent>>
  BY LedgerStep DEF LedgerVars
<1> QED BY <1>1, <1>2, Inductive, TypeCorrect, PTL DEF Spec, LedgerSpec, Ledger!Spec

=============================================================================
