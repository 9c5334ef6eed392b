------------------------- MODULE PppoeManagerProofs -------------------------
(* Proofs about PppoeManager, for every set of sessions, lines and           *)
(* goroutines and every capacity.                                            *)
EXTENDS PppoeManager, FiniteSetTheorems, TLAPS

-----------------------------------------------------------------------------
(* Control paths: what being at one label says about the others. *)

\* What each path of labels contains, kind of job by kind of job.
LEMMA Paths ==
  ASSUME NEW k \in Kinds
  PROVE  /\ Path[k] \subseteq Labels
         /\ "idle" \in Path[k] <=> k = "none"
         /\ \A l \in DialPath : l \in Path[k] => DialPath \subseteq Path[k]
         /\ \A l \in HangPath : l \in Path[k] => HangPath \subseteq Path[k]
         /\ \A l \in HangPath : l \in Path[k] => k \in {"rotate", "autorotate", "delete"}
         /\ \A l \in {"rotLock", "settle"} : l \in Path[k] => k \in {"rotate", "autorotate"}
         /\ "pause" \in Path[k] => k = "autorotate"
         /\ "erase" \in Path[k] <=> k = "delete"
         /\ \A l \in {"try", "apply", "demote"} : l \in Path[k] => k = "reconcile"
  BY DEF Path, Kinds, DialPath, HangPath, RotatePath, Locked, Section, Labels

\* The labels open to a goroutine of each kind.
LEMMA PathsOf ==
  /\ Path["none"] = {"idle"}
  /\ \A k \in {"create", "reconnect", "restore"} : Path[k] = DialPath
  /\ Path["rotate"] = RotatePath
  /\ Path["autorotate"] = RotatePath \cup {"pause"}
  /\ Path["delete"] = HangPath \cup {"erase"}
  /\ Path["reconcile"] = DialPath \cup {"try", "apply", "demote"}
  BY DEF Path, Kinds

\* The empty rows, networks and jobs have their types.
LEMMA NullsTyped == NoRow \in Row /\ NewRow \in Row /\ NoNet \in Net /\ NoJob \in Job
<1>1. 0 \in 0..MaxRetries /\ 0 \in 0..(MaxRetries + CreateRetries)
  BY BoundsAssumption
<1>2. NoRow \in Row
  BY <1>1 DEF NoRow, Row, Statuses, Reasons, Addrs
<1>3. NewRow \in Row
  BY <1>2 DEF NewRow, Row, Statuses
<1>4. NoNet \in Net
  BY DEF NoNet, Net, Addrs
<1>5. NoJob \in Job
  BY <1>1 DEF NoJob, Job, Kinds, Acts, Addrs
<1> QED BY <1>2, <1>3, <1>4, <1>5

\* The network state of a session whose pppd is killed or whose rule is removed.
LEMMA NetTyped ==
  ASSUME NEW n \in Net
  PROVE  Dead(n) \in Net /\ Unrouted(n) \in Net
  BY DEF Dead, Unrouted, Net, Addrs, NoAddr, Down

\* pkill keeps the type of net, whatever its pattern matches.
LEMMA KillTyped ==
  ASSUME net \in [Sessions -> Net], NEW s \in Sessions
  PROVE  /\ AfterKill(s) \in [Sessions -> Net]
         /\ [AfterKill(s) EXCEPT ![s] = Unrouted(@)] \in [Sessions -> Net]
  BY NetTyped DEF AfterKill

\* ApplyReplyRouting keeps the type of net for an address or none.
LEMMA RouteTyped ==
  ASSUME net \in [Sessions -> Net], NEW s \in Sessions, NEW ip \in Addrs
  PROVE  [net EXCEPT ![s] = Routed(s, ip)] \in [Sessions -> Net]
<1>1. [net[s] EXCEPT !.rule = ip, !.tbl = TRUE] \in Net
  BY DEF Net
<1>2. Routed(s, ip) \in Net
  BY <1>1, NetTyped DEF Routed
<1> QED BY <1>2

\* A row that records a failure is a row.
LEMMA FailedTyped ==
  ASSUME NEW r \in Row, NEW e \in {"authnak", "other"}
  PROVE  Failed(r, e) \in Row
  BY DEF Failed, Row, Statuses, Reasons

\* The rows Dial and Hangup build from a row are rows.
LEMMA RowTyped ==
  ASSUME NEW r \in Row, NEW e \in {"authnak", "other"}, NEW ip \in Addrs
  PROVE  /\ Failed(r, e) \in Row /\ Connected(r, ip) \in Row
         /\ [r EXCEPT !.status = "dialing", !.err = ""] \in Row
         /\ [r EXCEPT !.status = "disconnected", !.iface = FALSE, !.ip = NoAddr] \in Row
         /\ [r EXCEPT !.status = "disconnected", !.err = ""] \in Row
         /\ [r EXCEPT !.paused = TRUE] \in Row /\ [r EXCEPT !.paused = FALSE] \in Row
         /\ [r EXCEPT !.auto = ~@] \in Row /\ [r EXCEPT !.due = TRUE] \in Row
         /\ [r EXCEPT !.ip = ip] \in Row /\ [r EXCEPT !.pub = ip] \in Row
         /\ \A n \in 0..MaxRetries : [r EXCEPT !.tries = n, !.due = FALSE] \in Row
         /\ [NoRow EXCEPT !.status = "deleted"] \in Row
<1>1. 0 \in 0..MaxRetries /\ NoRow \in Row /\ NoAddr \in Addrs
  BY BoundsAssumption, NullsTyped DEF Addrs
<1>2. Failed(r, e) \in Row /\ Connected(r, ip) \in Row
  BY <1>1 DEF Failed, Connected, Row, Statuses, Reasons
<1>3. \A n \in 0..MaxRetries : [r EXCEPT !.tries = n, !.due = FALSE] \in Row
  BY DEF Row
<1>4. /\ [r EXCEPT !.status = "dialing", !.err = ""] \in Row
      /\ [r EXCEPT !.status = "disconnected", !.iface = FALSE, !.ip = NoAddr] \in Row
      /\ [r EXCEPT !.status = "disconnected", !.err = ""] \in Row
      /\ [NoRow EXCEPT !.status = "deleted"] \in Row
  BY <1>1 DEF Row, Statuses, Reasons
<1>5. /\ [r EXCEPT !.paused = TRUE] \in Row /\ [r EXCEPT !.paused = FALSE] \in Row
      /\ [r EXCEPT !.due = TRUE] \in Row
      /\ [r EXCEPT !.ip = ip] \in Row /\ [r EXCEPT !.pub = ip] \in Row
  BY DEF Row
<1>6. [r EXCEPT !.auto = ~@] \in Row
  BY DEF Row
<1> QED BY <1>2, <1>3, <1>4, <1>5, <1>6

-----------------------------------------------------------------------------
(* Type correctness. *)

\* The initial state has its types.
LEMMA InitTyped == Init => TypeOK
<1> SUFFICES ASSUME Init PROVE TypeOK
  OBVIOUS
<1>1. row \in [Sessions -> Row] /\ net \in [Sessions -> Net] /\ snap \in [Procs -> Row]
  BY NullsTyped DEF Init
<1>2. job \in [Procs -> Job] /\ pc \in [Procs -> Labels]
  BY NullsTyped DEF Init, Labels
<1>3. \A p \in Procs : /\ pc[p] \in Path[job[p].kind]
                       /\ pc[p] # "idle" => job[p].sid \in Sessions
                       /\ job[p].kind = "reconnect" => job[p].tries <= MaxRetries
  BY PathsOf DEF Init, NoJob
<1>4. dialSem \in 0..DialConcurrent /\ events \in 0..MaxEvents
  BY BoundsAssumption DEF Init
<1> QED BY <1>1, <1>2, <1>3, <1>4 DEF Init, TypeOK, ControlOK

\* A goroutine gets a job j and goes to l, keeping or replacing its snapshot.
LEMMA JobTyped ==
  ASSUME ControlOK, NEW p \in Procs, NEW j \in Job, NEW l \in Path[j.kind],
         l # "idle" => j.sid \in Sessions, j.kind = "reconnect" => j.tries <= MaxRetries,
         Goto(p, l), job' = [job EXCEPT ![p] = j], snap' \in [Procs -> Row]
  PROVE  ControlOK'
<1>1. l \in Labels
  BY Paths DEF Job
<1>2. \A q \in Procs : /\ pc'[q] = IF q = p THEN l ELSE pc[q]
                       /\ job'[q] = IF q = p THEN j ELSE job[q]
  BY DEF Goto, ControlOK
<1>3. pc' \in [Procs -> Labels] /\ job' \in [Procs -> Job]
  BY <1>1 DEF Goto, ControlOK
<1> QED BY <1>2, <1>3 DEF ControlOK

\* A goroutine moves on along its path with the same job.
LEMMA MoveTyped ==
  ASSUME ControlOK, NEW p \in Procs, NEW l \in Path[job[p].kind], pc[p] # "idle",
         Goto(p, l), UNCHANGED job, snap' \in [Procs -> Row]
  PROVE  ControlOK'
<1>1. job' = [job EXCEPT ![p] = job[p]] /\ job[p] \in Job
  BY DEF ControlOK
<1> QED BY <1>1, JobTyped DEF ControlOK

\* A goroutine that ends keeps the control state well formed.
LEMMA FinishTyped ==
  ASSUME ControlOK, NEW p \in Procs, Finish(p)
  PROVE  ControlOK'
<1>1. NoJob \in Job /\ "idle" \in Path[NoJob.kind] /\ NoJob.kind # "reconnect"
  BY NullsTyped, PathsOf DEF NoJob
<1>2. snap' \in [Procs -> Row]
  BY NullsTyped DEF Finish, ControlOK
<1> QED BY <1>1, <1>2, JobTyped DEF Finish

\* A goroutine that starts on its path keeps the control state well formed.
LEMMA StartTyped ==
  ASSUME ControlOK, NEW p \in Procs, NEW s \in Sessions, NEW k \in Kinds \ {"none", "reconnect"},
         NEW a \in Acts, NEW ip \in Addrs, NEW l \in Path[k],
         job' = [job EXCEPT ![p] = [NoJob EXCEPT !.kind = k, !.sid = s, !.act = a, !.ip = ip]],
         Goto(p, l), UNCHANGED snap
  PROVE  ControlOK'
<1> DEFINE j == [NoJob EXCEPT !.kind = k, !.sid = s, !.act = a, !.ip = ip]
<1>1. j \in Job /\ j.kind = k /\ j.sid = s
  BY NullsTyped DEF Job
<1> HIDE DEF j
<1>2. job' = [job EXCEPT ![p] = j]
  BY DEF j
<1> QED BY <1>1, <1>2, JobTyped DEF ControlOK

\* A goroutine that returns from Dial stays on the path of its kind.
LEMMA ReturnTyped ==
  ASSUME ControlOK, NEW p \in Procs, pc[p] \in DialPath, snap' \in [Procs -> Row],
         NEW e \in {"ok", "refused", "authnak", "other"}, Return(p, e)
  PROVE  ControlOK'
<1> DEFINE j == [job[p] EXCEPT !.err = e]
<1>1. job[p] \in Job /\ pc[p] # "idle" /\ "dialed" \in DialPath
  BY DEF ControlOK, DialPath, Locked, Section
<1>2. j \in Job /\ j.kind = job[p].kind /\ j.sid = job[p].sid /\ j.tries = job[p].tries
  BY <1>1 DEF Job
<1>3. "dialed" \in Path[j.kind]
  BY <1>1, <1>2, Paths DEF ControlOK, Job
<1> HIDE DEF j
<1>4. job' = [job EXCEPT ![p] = j]
  BY DEF j, Return
<1> QED BY <1>1, <1>2, <1>3, <1>4, JobTyped DEF ControlOK, Return

-----------------------------------------------------------------------------
(* Dial keeps the types. *)

\* A goroutine in the dial section is one of those the semaphore counts.
LEMMA HoldersCounted ==
  ASSUME TypeOK, LocksHeld, NEW p \in Procs, pc[p] \in Section
  PROVE  dialSem > 0
<1>1. IsFiniteSet(InSection) /\ p \in InSection
  BY ProcsAssumption, FS_Subset DEF InSection
<1>2. Cardinality(InSection) # 0 /\ Cardinality(InSection) \in Nat
  BY <1>1, FS_EmptySet, FS_CardinalityType
<1> QED BY <1>2 DEF LocksHeld, TokensCounted

\* Starting a public address probe keeps the type of probes.
LEMMA ProbesTyped ==
  ASSUME probes \subseteq Probe, NEW s \in Sessions, AddProbe(s)
  PROVE  probes' \subseteq Probe
<1>1. [sid |-> s, ip |-> NoAddr] \in Probe
  BY DEF Probe, Addrs
<1> QED BY <1>1 DEF AddProbe

\* LeaveDial keeps the types when the goroutine's token was counted.
LEMMA LeaveTyped ==
  ASSUME TypeOK, NEW p \in Procs, pc[p] \in Section, NEW r \in Row,
         NEW e \in {"ok", "authnak", "other"}, LeaveDial(p, r, e), dialSem > 0
  PROVE  /\ row' \in [Sessions -> Row] /\ lineOwner' \in [Lines -> Procs \cup {NoProc}]
         /\ dialSem' \in 0..DialConcurrent
         /\ ControlOK'
<1>1. job[p].sid \in Sessions /\ pc[p] \in DialPath
  BY DEF TypeOK, ControlOK, Section, DialPath, Locked
<1>2. row' \in [Sessions -> Row] /\ snap' \in [Procs -> Row]
  BY <1>1, NullsTyped DEF LeaveDial, Save, TypeOK, ControlOK
<1>3. lineOwner' \in [Lines -> Procs \cup {NoProc}]
  BY <1>1, IdsAssumption DEF LeaveDial, TypeOK
<1>4. dialSem' \in 0..DialConcurrent
  BY BoundsAssumption DEF LeaveDial, TypeOK
<1>5. ControlOK'
  BY <1>1, <1>2, ReturnTyped DEF LeaveDial, TypeOK
<1> QED BY <1>2, <1>3, <1>4, <1>5

\* What the label of a goroutine says of its job.
LEMMA Where ==
  ASSUME ControlOK, NEW p \in Procs
  PROVE  /\ job[p] \in Job /\ snap[p] \in Row
         /\ pc[p] # "idle" => job[p].sid \in Sessions
         /\ pc[p] \in DialPath => DialPath \subseteq Path[job[p].kind]
         /\ pc[p] \in HangPath => HangPath \subseteq Path[job[p].kind]
         /\ pc[p] \in HangPath /\ job[p].kind # "delete" => RotatePath \subseteq Path[job[p].kind]
         /\ pc[p] \in HangPath /\ job[p].kind = "delete" => "erase" \in Path[job[p].kind]
         /\ pc[p] \in {"rotLock", "settle"} => RotatePath \subseteq Path[job[p].kind]
         /\ pc[p] \in {"try", "apply", "demote"} =>
              DialPath \cup {"apply", "demote"} \subseteq Path[job[p].kind]
         /\ pc[p] \in {"try", "apply", "demote"} => job[p].kind = "reconcile"
         /\ pc[p] = "rotLock" => job[p].kind \in {"rotate", "autorotate"}
         /\ pc[p] = "erase" => job[p].kind = "delete"
         /\ job[p].kind = "reconnect" => job[p].tries <= MaxRetries
<1>1. /\ job[p] \in Job /\ snap[p] \in Row /\ job[p].kind \in Kinds
      /\ pc[p] \in Path[job[p].kind]
  BY DEF ControlOK, Job
<1> QED BY <1>1, Paths, PathsOf DEF ControlOK, RotatePath

\* Every step of Dial keeps the types; the release of a token needs LocksHeld.
LEMMA DialTyped ==
  ASSUME TypeOK, LocksHeld, NEW p \in Procs, Dial(p)
  PROVE  TypeOK'
<1> DEFINE s == job[p].sid
<1>0. ControlOK /\ row \in [Sessions -> Row] /\ net \in [Sessions -> Net]
  BY DEF TypeOK
<1>1. pc[p] \in Section => dialSem > 0
  BY HoldersCounted
<1>2. pc[p] \in DialPath => s \in Sessions /\ DialPath \subseteq Path[job[p].kind]
  BY <1>0, Where DEF DialPath, Locked, Section
<1>3. snap \in [Procs -> Row] /\ snap[p] \in Row
  BY <1>0 DEF ControlOK
<1> HIDE DEF s
<1>a. CASE DialRefused(p)
  <2>1. ControlOK'
    BY <1>a, <1>0, <1>3, ReturnTyped DEF DialRefused, DialPath
  <2> QED BY <2>1, <1>a DEF DialRefused, TypeOK, locks, bg, lists
<1>b. CASE DialLoad(p)
  <2>1. snap' \in [Procs -> Row]
    BY <1>b, <1>0, <1>2, <1>3 DEF DialLoad, DialPath, s
  <2>2. ControlOK'
    BY <2>1, <1>b, <1>0, <1>2, MoveTyped DEF DialLoad, DialPath
  <2> QED BY <2>2, <1>b DEF DialLoad, TypeOK, locks, bg, lists
<1>c. CASE LockLine(p)
  <2>1. ControlOK'
    BY <1>c, <1>0, <1>2, <1>3, MoveTyped DEF LockLine, DialPath, Locked
  <2>2. lineOwner' \in [Lines -> Procs \cup {NoProc}]
    BY <1>c, <1>2, IdsAssumption DEF LockLine, DialPath, TypeOK, s
  <2> QED BY <2>1, <2>2, <1>c DEF LockLine, TypeOK, bg, lists
<1>d. CASE DialMark(p)
  <2>1. [snap[p] EXCEPT !.status = "dialing", !.err = ""] \in Row
    BY <1>3, RowTyped, NullsTyped DEF NoRow, Row
  <2>2. snap' \in [Procs -> Row] /\ snap'[p] \in Row
    BY <2>1, <1>d, <1>3 DEF DialMark
  <2>3. row' \in [Sessions -> Row]
    BY <2>2, <1>d, <1>0, <1>2 DEF DialMark, Save, DialPath, Locked, s
  <2>4. ControlOK'
    BY <2>2, <1>d, <1>0, <1>2, MoveTyped DEF DialMark, DialPath, Locked, Section
  <2>5. dialSem' \in 0..DialConcurrent
    BY <1>d, BoundsAssumption DEF DialMark, TypeOK
  <2> QED BY <2>3, <2>4, <2>5, <1>d DEF DialMark, TypeOK, bg, lists
<1>e. CASE DialPrepFail(p)
  <2>1. Failed(snap[p], "other") \in Row
    BY <1>3, FailedTyped
  <2>2. /\ row' \in [Sessions -> Row] /\ lineOwner' \in [Lines -> Procs \cup {NoProc}]
        /\ dialSem' \in 0..DialConcurrent /\ ControlOK'
    BY <2>1, <1>1, <1>e, LeaveTyped DEF DialPrepFail, Section
  <2> QED BY <2>2, <1>e DEF DialPrepFail, LeaveDial, TypeOK, bg, lists
<1>f. CASE DialCall(p)
  <2>1. ControlOK'
    BY <1>f, <1>0, <1>2, <1>3, MoveTyped DEF DialCall, DialPath, Locked, Section
  <2>2. s \in Sessions /\ net[s] \in Net
    BY <1>f, <1>0, <1>2 DEF DialCall, DialPath, Locked, Section
  <2>3. [net[s] EXCEPT !.child = TRUE] \in Net
    BY <2>2 DEF Net
  <2>4. net' = [net EXCEPT ![s] = [net[s] EXCEPT !.child = TRUE]]
    BY <1>f DEF DialCall, s
  <2>5. net' \in [Sessions -> Net]
    BY <2>2, <2>3, <2>4, <1>0
  <2> QED BY <2>1, <2>5, <1>f DEF DialCall, TypeOK, locks, bg, lists
<1>g. CASE PppdUp(p)
  <2>1. ControlOK'
    BY <1>g, <1>0, <1>2, <1>3, MoveTyped DEF PppdUp, DialPath, Locked, Section
  <2>2. s \in Sessions /\ net[s] \in Net
    BY <1>g, <1>0, <1>2 DEF PppdUp, DialPath, Locked, Section
  <2>3. PICK a \in {a \in Assignable(s) : "up" \in Outcomes} \cup ({Cgnat, NoAddr} \cap Outcomes) :
          net' = [net EXCEPT ![s] = Up(net[s], a)]
    BY <1>g DEF PppdUp, s
  <2>4. a \in Addrs
    BY <2>3 DEF Assignable, Addrs
  <2>5. Up(net[s], a) \in Net
    BY <2>2, <2>4 DEF Net, Up
  <2>6. net' \in [Sessions -> Net]
    BY <2>2, <2>3, <2>5, <1>0
  <2> QED BY <2>1, <2>6, <1>g DEF PppdUp, TypeOK, locks, bg, lists
<1>h. ASSUME NEW e \in {"other", "authnak"}, PppdFail(p, e) PROVE TypeOK'
  <2>1. Failed(snap[p], e) \in Row
    <3>1. NoAddr \in Addrs /\ e \in {"authnak", "other"}
      BY <1>h DEF Addrs
    <3> QED BY <3>1, <1>3, RowTyped
  <2>2. /\ row' \in [Sessions -> Row] /\ lineOwner' \in [Lines -> Procs \cup {NoProc}]
        /\ dialSem' \in 0..DialConcurrent /\ ControlOK'
    BY <2>1, <1>1, <1>h, LeaveTyped DEF PppdFail, Section
  <2>3. s \in Sessions /\ net[s] \in Net
    BY <1>h, <1>0, <1>2 DEF PppdFail, DialPath, Locked, Section
  <2>4. [net[s] EXCEPT !.child = FALSE] \in Net
    BY <2>3 DEF Net
  <2>5. net' = [net EXCEPT ![s] = [net[s] EXCEPT !.child = FALSE]]
    BY <1>h DEF PppdFail, s
  <2>6. net' \in [Sessions -> Net]
    BY <2>3, <2>4, <2>5, <1>0
  <2>7. nak' \in [Sessions -> BOOLEAN]
    BY <1>h, <2>3 DEF PppdFail, TypeOK, s
  <2> QED BY <2>2, <2>6, <2>7, <1>h DEF PppdFail, LeaveDial, TypeOK, lists
<1>i. CASE DialPollUp(p)
  <2>1. s \in Sessions /\ net[s].live \in Addrs
    BY <1>i, <1>0, <1>2 DEF DialPollUp, DialPath, Locked, Section, s, Net
  <2>2. ControlOK'
    <3> DEFINE j == [job[p] EXCEPT !.ip = net[s].live]
    <3>1. job[p] \in Job /\ pc[p] \in DialPath
      BY <1>i, <1>0, Where DEF DialPollUp, DialPath, Locked, Section
    <3>2. j \in Job /\ j.kind = job[p].kind /\ j.sid = s /\ j.tries = job[p].tries
      BY <3>1, <2>1 DEF Job, s
    <3> HIDE DEF j
    <3>3. job' = [job EXCEPT ![p] = j] /\ Goto(p, "route")
      BY <1>i DEF DialPollUp, j, s
    <3>4. "route" \in Path[j.kind] /\ snap' \in [Procs -> Row]
      BY <3>1, <3>2, <1>2, <1>3, <1>i DEF DialPath, Locked, Section, DialPollUp
    <3> QED BY <3>2, <3>3, <3>4, <2>1, <1>0, JobTyped, Where
  <2> QED BY <2>2, <1>i DEF DialPollUp, TypeOK, locks, bg, lists
<1>j. CASE DialPollBad(p)
  <2>1. ControlOK'
    BY <1>j, <1>0, <1>2, <1>3, MoveTyped DEF DialPollBad, DialPath, Locked, Section
  <2>2. net' \in [Sessions -> Net]
    BY <1>j, <1>0, <1>2, KillTyped DEF DialPollBad, HangupPeer, DialPath, Locked, Section, s
  <2> QED BY <2>1, <2>2, <1>j DEF DialPollBad, TypeOK, locks, bg, lists
<1>k. CASE DialGiveUp(p)
  <2>1. Failed(snap[p], "other") \in Row
    BY <1>3, FailedTyped
  <2>2. /\ row' \in [Sessions -> Row] /\ lineOwner' \in [Lines -> Procs \cup {NoProc}]
        /\ dialSem' \in 0..DialConcurrent /\ ControlOK'
    BY <2>1, <1>1, <1>k, LeaveTyped DEF DialGiveUp, Section
  <2>3. net' \in [Sessions -> Net]
    BY <1>k, <1>0, <1>2, KillTyped DEF DialGiveUp, HangupPeer, DialPath, Locked, Section, s
  <2> QED BY <2>2, <2>3, <1>k DEF DialGiveUp, LeaveDial, TypeOK, bg, lists
<1>l. CASE DialRoute(p)
  <2>1. ControlOK'
    BY <1>l, <1>0, <1>2, <1>3, MoveTyped DEF DialRoute, DialPath, Locked, Section
  <2>2. s \in Sessions /\ job[p].ip \in Addrs
    BY <1>l, <1>0, <1>2, Where DEF DialRoute, DialPath, Locked, Section, Job
  <2>3. net' \in [Sessions -> Net]
    BY <2>2, <1>l, <1>0, RouteTyped DEF DialRoute, ApplyReplyRouting, s
  <2> QED BY <2>1, <2>3, <1>l DEF DialRoute, TypeOK, locks, bg, lists
<1>m. CASE DialSave(p)
  <2>1. s \in Sessions /\ job[p].ip \in Addrs
    BY <1>m, <1>0, <1>2, Where DEF DialSave, DialPath, Locked, Section, Job
  <2>2. Connected(snap[p], job[p].ip) \in Row
    BY <2>1, <1>3, RowTyped
  <2>3. /\ row' \in [Sessions -> Row] /\ lineOwner' \in [Lines -> Procs \cup {NoProc}]
        /\ dialSem' \in 0..DialConcurrent /\ ControlOK'
    BY <2>2, <1>1, <1>m, LeaveTyped DEF DialSave, Section
  <2>4. probes' \subseteq Probe
    BY <2>1, <1>m, ProbesTyped DEF DialSave, TypeOK, s
  <2> QED BY <2>3, <2>4, <1>m DEF DialSave, LeaveDial, TypeOK, lists
<1> QED BY <1>a, <1>b, <1>c, <1>d, <1>e, <1>f, <1>g, <1>h, <1>i, <1>j, <1>k, <1>l, <1>m DEF Dial

-----------------------------------------------------------------------------
(* The other steps of a goroutine keep the types. *)

\* A row stays a row whether it is saved or updated.
LEMMA UpdateTyped ==
  ASSUME row \in [Sessions -> Row], NEW s \in Sessions, NEW r \in Row, Save(s, r) \/ Update(s, r)
  PROVE  row' \in [Sessions -> Row]
  BY DEF Save, Update

\* Unlocking rotateMu keeps its type.
LEMMA UnlockTyped ==
  ASSUME rotateOwner \in [Sessions -> Procs \cup {NoProc}], NEW s \in Sessions, Unlock(s)
  PROVE  rotateOwner' \in [Sessions -> Procs \cup {NoProc}]
  BY DEF Unlock

\* Every step of Hangup keeps the types.
LEMMA HangupTyped ==
  ASSUME TypeOK, NEW p \in Procs, Hangup(p)
  PROVE  TypeOK'
<1> DEFINE s == job[p].sid
<1>0. ControlOK /\ row \in [Sessions -> Row] /\ net \in [Sessions -> Net]
  BY DEF TypeOK
<1>1. snap \in [Procs -> Row] /\ snap[p] \in Row
  BY <1>0 DEF ControlOK
<1>2. /\ pc[p] \in HangPath /\ pc[p] # "idle" /\ s \in Sessions
      /\ HangPath \subseteq Path[job[p].kind]
      /\ (IF job[p].kind = "delete" THEN "erase" ELSE "settle") \in Path[job[p].kind]
  <2>1. pc[p] \in HangPath /\ pc[p] # "idle" /\ "settle" \in RotatePath
    BY DEF Hangup, HangLoad, HangKill, HangSave, HangPath, RotatePath
  <2> QED BY <2>1, <1>0, Where
<1> HIDE DEF s
<1>a. CASE HangLoad(p)
  <2>1. net' \in [Sessions -> Net] /\ snap' \in [Procs -> Row]
    BY <1>a, <1>0, <1>1, <1>2, KillTyped DEF HangLoad, HangupPeer, s
  <2>2. ControlOK'
    BY <2>1, <1>a, <1>0, <1>2, MoveTyped DEF HangLoad, HangPath
  <2> QED BY <2>1, <2>2, <1>a DEF HangLoad, TypeOK, locks, bg, lists
<1>b. CASE HangKill(p)
  <2>1. net' \in [Sessions -> Net]
    BY <1>b, <1>0, <1>2, KillTyped DEF HangKill, s
  <2>2. ControlOK'
    BY <1>b, <1>0, <1>1, <1>2, MoveTyped DEF HangKill, HangPath
  <2> QED BY <2>1, <2>2, <1>b DEF HangKill, TypeOK, locks, bg, lists
<1>c. CASE HangSave(p)
  <2>1. [snap[p] EXCEPT !.status = "disconnected", !.iface = FALSE, !.ip = NoAddr] \in Row
    <3>1. NoAddr \in Addrs
      BY DEF Addrs
    <3> QED BY <3>1, <1>1, RowTyped
  <2>2. row' \in [Sessions -> Row]
    BY <2>1, <1>c, <1>0, <1>2, UpdateTyped DEF HangSave, s
  <2>3. snap' \in [Procs -> Row]
    BY <1>c, <1>1, NullsTyped DEF HangSave
  <2>4. ControlOK'
    BY <2>3, <1>c, <1>0, <1>2, MoveTyped DEF HangSave
  <2> QED BY <2>2, <2>4, <1>c DEF HangSave, TypeOK, locks, bg, lists
<1> QED BY <1>a, <1>b, <1>c DEF Hangup

\* Every step of Rotate and of an automatic rotation keeps the types.
LEMMA RotateTyped ==
  ASSUME TypeOK, NEW p \in Procs, Rotate(p)
  PROVE  TypeOK'
<1> DEFINE s == job[p].sid
<1>0. ControlOK /\ row \in [Sessions -> Row] /\ rotateOwner \in [Sessions -> Procs \cup {NoProc}]
  BY DEF TypeOK
<1>1. snap \in [Procs -> Row] /\ job[p] \in Job
  BY <1>0 DEF ControlOK
<1>2. pc[p] # "idle" /\ s \in Sessions
  BY <1>0, Where DEF Rotate, RotateLock, RotateClear, RotateDone, AutoRotatePause
<1>3. row[s] \in Row /\ NoAddr \in Addrs
  BY <1>0, <1>2 DEF Addrs
<1> HIDE DEF s
<1>a. CASE RotateLock(p)
  <2>1. RotatePath \subseteq Path[job[p].kind] /\ "hang" \in RotatePath
    BY <1>a, <1>0, Where DEF RotateLock, RotatePath, HangPath
  <2>2. rotateOwner' \in [Sessions -> Procs \cup {NoProc}] /\ nak' \in [Sessions -> BOOLEAN]
    BY <1>a, <1>2 DEF RotateLock, TypeOK, s
  <2>3. CASE Exists(s)
    BY <2>1, <2>2, <2>3, <1>a, <1>0, <1>1, <1>2, MoveTyped DEF RotateLock, TypeOK, s, lists
  <2>4. CASE ~Exists(s)
    BY <2>2, <2>4, <1>a, <1>0, FinishTyped DEF RotateLock, TypeOK, s, lists
  <2> QED BY <2>3, <2>4
<1>b. CASE RotateClear(p)
  <2>1. "dial" \in Path[job[p].kind]
    BY <1>b, <1>0, Where DEF RotateClear, RotatePath, DialPath
  <2>2. ControlOK'
    BY <2>1, <1>b, <1>0, <1>1, <1>2, MoveTyped DEF RotateClear
  <2>3. row' \in [Sessions -> Row]
    BY <1>b, <1>0, <1>2, <1>3, RowTyped, UpdateTyped DEF RotateClear, s
  <2> QED BY <2>2, <2>3, <1>b DEF RotateClear, TypeOK, locks, bg, lists
<1>c. CASE RotateDone(p)
  <2>1. rotateOwner' \in [Sessions -> Procs \cup {NoProc}]
    BY <1>c, <1>0, <1>2, UnlockTyped DEF RotateDone, s
  <2>2. ControlOK'
    <3>1. CASE job[p].kind = "autorotate" /\ job[p].err # "ok"
      <4>1. "pause" \in Path[job[p].kind]
        BY <3>1, PathsOf
      <4> QED BY <4>1, <3>1, <1>c, <1>0, <1>1, <1>2, MoveTyped DEF RotateDone
    <3>2. CASE ~(job[p].kind = "autorotate" /\ job[p].err # "ok")
      BY <3>2, <1>c, <1>0, FinishTyped DEF RotateDone
    <3> QED BY <3>1, <3>2
  <2> QED BY <2>1, <2>2, <1>c DEF RotateDone, TypeOK, bg, lists
<1>d. CASE AutoRotatePause(p)
  <2>1. ControlOK'
    BY <1>d, <1>0, FinishTyped DEF AutoRotatePause
  <2>2. row' \in [Sessions -> Row]
    BY <1>d, <1>0, <1>2, <1>3, RowTyped, UpdateTyped DEF AutoRotatePause, s
  <2> QED BY <2>1, <2>2, <1>d DEF AutoRotatePause, TypeOK, locks, bg, lists
<1> QED BY <1>a, <1>b, <1>c, <1>d DEF Rotate

\* Every step of reconcileApply keeps the types.
LEMMA ReconcileTyped ==
  ASSUME TypeOK, NEW p \in Procs, ReconcileApply(p)
  PROVE  TypeOK'
<1> DEFINE s == job[p].sid
<1>0. /\ ControlOK /\ row \in [Sessions -> Row] /\ net \in [Sessions -> Net]
      /\ rotateOwner \in [Sessions -> Procs \cup {NoProc}]
  BY DEF TypeOK
<1>1. snap \in [Procs -> Row] /\ job[p] \in Job /\ job[p].ip \in Addrs
  BY <1>0 DEF ControlOK, Job
<1>2. pc[p] # "idle" /\ s \in Sessions
  BY <1>0, Where DEF ReconcileApply, ApplyLock, ApplyRedial, ApplyRedialed, ApplyDemote,
                     ApplyDemoted, ApplyRouting
<1>3. row[s] \in Row /\ NoAddr \in Addrs
  BY <1>0, <1>2 DEF Addrs
<1>4. pc[p] \in {"try", "apply"} => {"dial", "apply", "demote"} \subseteq Path[job[p].kind]
  BY <1>0, Where DEF DialPath
<1>5. Unlock(s) => rotateOwner' \in [Sessions -> Procs \cup {NoProc}]
  BY <1>0, <1>2, UnlockTyped
<1>6. Finish(p) => ControlOK'
  BY <1>0, FinishTyped
<1> HIDE DEF s
<1>a. CASE ApplyLock(p)
  <2>1. rotateOwner' \in [Sessions -> Procs \cup {NoProc}]
    BY <1>a, <1>0, <1>2 DEF ApplyLock, s
  <2>2. Goto(p, "apply") /\ UNCHANGED <<job, snap>> => ControlOK'
    BY <1>a, <1>0, <1>1, <1>2, <1>4, MoveTyped DEF ApplyLock
  <2>3. ControlOK'
    BY <1>a, <1>6, <2>2 DEF ApplyLock
  <2> QED BY <2>1, <2>3, <1>a DEF ApplyLock, TypeOK, bg, lists
<1>b. CASE ApplyRedial(p)
  <2>1. rotateOwner' \in [Sessions -> Procs \cup {NoProc}]
    BY <1>b, <1>0, <1>5 DEF ApplyRedial, s
  <2>2. Goto(p, "dial") /\ UNCHANGED <<job, snap>> => ControlOK'
    BY <1>b, <1>0, <1>1, <1>2, <1>4, MoveTyped DEF ApplyRedial
  <2>3. ControlOK'
    BY <1>b, <1>6, <2>2 DEF ApplyRedial
  <2> QED BY <2>1, <2>3, <1>b DEF ApplyRedial, TypeOK, bg, lists
<1>c. CASE ApplyRedialed(p)
  BY <1>c, <1>5, <1>6 DEF ApplyRedialed, TypeOK, bg, lists, s
<1>d. CASE ApplyDemote(p)
  <2>1. ControlOK'
    BY <1>d, <1>0, <1>1, <1>2, <1>4, MoveTyped DEF ApplyDemote
  <2>2. net' \in [Sessions -> Net]
    BY <1>d, <1>0, <1>2, KillTyped DEF ApplyDemote, HangupPeer, s
  <2> QED BY <2>1, <2>2, <1>d DEF ApplyDemote, TypeOK, locks, bg, lists
<1>e. CASE ApplyDemoted(p)
  <2>1. Failed(row[s], "other") \in Row
    BY <1>3, RowTyped
  <2>2. row' \in [Sessions -> Row]
    BY <2>1, <1>e, <1>0, <1>2, UpdateTyped DEF ApplyDemoted, s
  <2>3. net' \in [Sessions -> Net]
    BY <1>e, <1>0, <1>2, KillTyped DEF ApplyDemoted, s
  <2>4. rotateOwner' \in [Sessions -> Procs \cup {NoProc}] /\ ControlOK'
    BY <1>e, <1>5, <1>6 DEF ApplyDemoted, s
  <2> QED BY <2>2, <2>3, <2>4, <1>e DEF ApplyDemoted, TypeOK, bg, lists
<1>f. CASE ApplyRouting(p)
  <2>1. [row[s] EXCEPT !.ip = job[p].ip] \in Row
    BY <1>1, <1>3, RowTyped
  <2>2. row' \in [Sessions -> Row]
    BY <2>1, <1>f, <1>0, <1>2, UpdateTyped DEF ApplyRouting, s
  <2>3. net' \in [Sessions -> Net]
    BY <1>f, <1>0, <1>1, <1>2, RouteTyped DEF ApplyRouting, ApplyReplyRouting, s
  <2>4. rotateOwner' \in [Sessions -> Procs \cup {NoProc}] /\ ControlOK'
    BY <1>f, <1>5, <1>6 DEF ApplyRouting, s
  <2>5. probes' \subseteq Probe
    BY <1>f, <1>2, ProbesTyped DEF ApplyRouting, TypeOK, s
  <2> QED BY <2>2, <2>3, <2>4, <2>5, <1>f DEF ApplyRouting, TypeOK, lists
<1> QED BY <1>a, <1>b, <1>c, <1>d, <1>e, <1>f DEF ReconcileApply

\* Every step of a running goroutine keeps the types.
LEMMA WorkerTyped ==
  ASSUME TypeOK, NEW p \in Procs,
         CreateRetry(p) \/ CreateDone(p) \/ DeleteErase(p) \/ ReconnectDone(p) \/ RestoreDone(p)
  PROVE  TypeOK'
<1> DEFINE s == job[p].sid
<1>0. ControlOK /\ row \in [Sessions -> Row]
  BY DEF TypeOK
<1>1. snap \in [Procs -> Row] /\ job[p] \in Job
  BY <1>0 DEF ControlOK
<1>2. pc[p] # "idle" /\ s \in Sessions
  BY <1>0, Where DEF CreateRetry, CreateDone, DeleteErase, ReconnectDone, RestoreDone
<1>3. row[s] \in Row /\ NoAddr \in Addrs
  BY <1>0, <1>2 DEF Addrs
<1>4. Finish(p) => ControlOK'
  BY <1>0, FinishTyped
<1>a. CASE CreateRetry(p)
  <2> DEFINE j == [job[p] EXCEPT !.act = "retry", !.tries = @ + 1, !.err = ""]
  <2>1. job[p].tries \in 0..(MaxRetries + CreateRetries)
    BY <1>1 DEF Job
  <2>2. job[p].tries + 1 \in 0..(MaxRetries + CreateRetries)
    <3>1. job[p].tries < CreateRetries
      BY <1>a DEF CreateRetry
    <3> HIDE DEF s
    <3> QED BY <3>1, <2>1, BoundsAssumption
  <2>3. j \in Job /\ j.kind = "create" /\ j.sid = s
    BY <2>2, <1>a, <1>1 DEF CreateRetry, Job, Acts
  <2>4. job' = [job EXCEPT ![p] = j]
    BY <1>a, <1>0 DEF CreateRetry, ControlOK
  <2> HIDE DEF j, s
  <2>5. "dial" \in Path[j.kind]
    BY <2>3, PathsOf DEF DialPath
  <2>6. ControlOK'
    BY <2>3, <2>4, <2>5, <1>a, <1>0, <1>1, <1>2, JobTyped DEF CreateRetry
  <2> QED BY <2>6, <1>a DEF CreateRetry, TypeOK, locks, bg, lists
<1> HIDE DEF s
<1>b. CASE CreateDone(p)
  BY <1>b, <1>4 DEF CreateDone, TypeOK, locks, bg, lists
<1>c. CASE DeleteErase(p)
  <2>1. row' \in [Sessions -> Row]
    BY <1>c, <1>0, <1>2, <1>3, RowTyped, UpdateTyped DEF DeleteErase, s
  <2> QED BY <2>1, <1>c, <1>4 DEF DeleteErase, TypeOK, locks, bg, lists
<1>d. CASE ReconnectDone(p)
  <2>1. job[p].tries \in 0..MaxRetries
    <3>1. job[p].tries \in 0..(MaxRetries + CreateRetries)
      BY <1>1 DEF Job
    <3>2. job[p].tries <= MaxRetries
      BY <1>d, <1>0, Where DEF ReconnectDone
    <3> QED BY <3>1, <3>2, BoundsAssumption
  <2>2. [row[s] EXCEPT !.tries = job[p].tries, !.due = FALSE] \in Row
    BY <2>1, <1>3, RowTyped
  <2>3. row' \in [Sessions -> Row]
    BY <2>2, <1>d, <1>0, <1>2, UpdateTyped DEF ReconnectDone, s
  <2> QED BY <2>3, <1>d, <1>4 DEF ReconnectDone, TypeOK, locks, bg, lists
<1>e. CASE RestoreDone(p)
  BY <1>e, <1>4 DEF RestoreDone, TypeOK, locks, bg, lists
<1> QED BY <1>a, <1>b, <1>c, <1>d, <1>e

-----------------------------------------------------------------------------
(* Requests, tickers and the world outside keep the types. *)

\* Start gives a goroutine a fresh job.
LEMMA FreshTyped ==
  ASSUME ControlOK, NEW p \in Procs, NEW s \in Sessions, NEW k \in Kinds \ {"none", "reconnect"},
         NEW l \in Path[k], UNCHANGED snap, Goto(p, l),
         job' = [job EXCEPT ![p] = [NoJob EXCEPT !.kind = k, !.sid = s]]
  PROVE  ControlOK'
<1> DEFINE j == [NoJob EXCEPT !.kind = k, !.sid = s]
<1>1. j \in Job /\ j.kind = k /\ j.sid = s
  BY NullsTyped DEF Job
<1> HIDE DEF j
<1>2. job' = [job EXCEPT ![p] = j]
  BY DEF j
<1> QED BY <1>1, <1>2, JobTyped DEF ControlOK

\* Every start of a goroutine keeps the types.
LEMMA RequestTyped ==
  ASSUME TypeOK, NEW p \in Procs, NEW s \in Sessions, Request(p, s)
  PROVE  TypeOK'
<1>0. ControlOK /\ row \in [Sessions -> Row] /\ net \in [Sessions -> Net]
  BY DEF TypeOK
<1>1. /\ "rotLock" \in Path["rotate"] /\ "rotLock" \in Path["autorotate"]
      /\ "dial" \in Path["create"] /\ "dial" \in Path["restore"]
      /\ "hang" \in Path["delete"] /\ "try" \in Path["reconcile"]
  BY PathsOf DEF RotatePath, HangPath, DialPath
<1>2. {"rotate", "autorotate", "create", "restore", "delete", "reconcile"}
        \subseteq Kinds \ {"none", "reconnect"}
  BY DEF Kinds
<1>3. \A e \in {"rotate", "autorotate", "create", "delete"} : Happens(e) => events' \in 0..MaxEvents
  BY BoundsAssumption DEF Happens, TypeOK
<1>a. CASE RotateRequest(p, s)
  <2>1. ControlOK'
    BY <1>a, <1>0, <1>1, <1>2, FreshTyped DEF RotateRequest, Start
  <2> QED BY <2>1, <1>3, <1>a DEF RotateRequest, TypeOK, locks, lists
<1>b. CASE AutoRotateDue(p, s)
  <2>1. ControlOK'
    BY <1>b, <1>0, <1>1, <1>2, FreshTyped DEF AutoRotateDue, Start
  <2> QED BY <2>1, <1>3, <1>b DEF AutoRotateDue, TypeOK, locks
<1>c. CASE CreateRequest(p, s)
  <2>1. ControlOK'
    BY <1>c, <1>0, <1>1, <1>2, FreshTyped DEF CreateRequest, Start
  <2>2. row' \in [Sessions -> Row]
    BY <1>c, <1>0, NullsTyped, UpdateTyped DEF CreateRequest
  <2> QED BY <2>1, <2>2, <1>3, <1>c DEF CreateRequest, TypeOK, locks, lists
<1>d. CASE DeleteRequest(p, s)
  <2>1. ControlOK'
    BY <1>d, <1>0, <1>1, <1>2, FreshTyped DEF DeleteRequest, Start
  <2> QED BY <2>1, <1>3, <1>d DEF DeleteRequest, TypeOK, locks, lists
<1>e. CASE Reconcile(p, s)
  <2>1. Decide(s) \in Acts
    BY DEF Decide, Decision, Acts
  <2>2. net[s].live \in Addrs \cup {Down}
    BY <1>0 DEF Net
  <2>3. (IF net[s].live = Down THEN NoAddr ELSE net[s].live) \in Addrs
    BY <2>2 DEF Addrs
  <2>4. ControlOK'
    BY <2>1, <2>3, <1>e, <1>0, <1>1, <1>2, StartTyped DEF Reconcile
  <2> QED BY <2>4, <1>e DEF Reconcile, TypeOK, locks, bg, lists
<1>f. CASE RestoreDial(p, s)
  <2>1. ControlOK'
    BY <1>f, <1>0, <1>1, <1>2, FreshTyped DEF RestoreDial
  <2>2. booting' \subseteq Sessions
    BY <1>f DEF RestoreDial, TypeOK
  <2> QED BY <2>1, <2>2, <1>f DEF RestoreDial, TypeOK, locks, lists
<1> QED BY <1>a, <1>b, <1>c, <1>d, <1>e, <1>f DEF Request

\* Single-statement handlers and the world outside keep the types.
LEMMA OutsideTyped ==
  ASSUME TypeOK, NEW s \in Sessions, Outside(s)
  PROVE  TypeOK'
<1>0. /\ row \in [Sessions -> Row] /\ net \in [Sessions -> Net]
      /\ row[s] \in Row /\ net[s] \in Net /\ NoAddr \in Addrs
  BY DEF TypeOK, Addrs
<1>1. UNCHANGED procs => ControlOK'
  BY DEF TypeOK, ControlOK, procs
<1>2. \A e \in {"setauto", "resume", "drop", "drift"} : Happens(e) => events' \in 0..MaxEvents
  BY BoundsAssumption DEF Happens, TypeOK
<1>3. \A a \in Addrs : [net[s] EXCEPT !.live = a] \in Net
  BY <1>0 DEF Net
<1>4. \A a \in Assignable(s) \cup ({Cgnat, NoAddr} \cap Outcomes) : a \in Addrs
  BY DEF Assignable, Addrs
<1>a. CASE SetSessionAutoRotate(s)
  <2>1. row' \in [Sessions -> Row]
    BY <1>a, <1>0, RowTyped, UpdateTyped DEF SetSessionAutoRotate
  <2> QED BY <2>1, <1>1, <1>2, <1>a DEF SetSessionAutoRotate, TypeOK, locks, lists
<1>b. CASE ResumeAutoRotate(s)
  <2>1. row' \in [Sessions -> Row]
    BY <1>b, <1>0, RowTyped, UpdateTyped DEF ResumeAutoRotate
  <2> QED BY <2>1, <1>1, <1>2, <1>b DEF ResumeAutoRotate, TypeOK, locks, lists
<1>c. CASE PauseOver(s)
  <2>1. [row[s] EXCEPT !.due = TRUE] \in Row
    BY <1>0, RowTyped
  <2>2. row' = [row EXCEPT ![s] = [row[s] EXCEPT !.due = TRUE]]
    BY <1>c DEF PauseOver
  <2>3. row' \in [Sessions -> Row]
    BY <2>1, <2>2, <1>0
  <2> QED BY <2>3, <1>1, <1>c DEF PauseOver, TypeOK, locks, bg, lists
<1>d. CASE RestoreAdopt(s)
  <2>1. booting' \subseteq Sessions
    BY <1>d DEF RestoreAdopt, TypeOK
  <2>2. CASE net[s].live \in {NoAddr, Cgnat}
    BY <2>1, <2>2, <1>1, <1>d DEF RestoreAdopt, TypeOK, locks, lists
  <2>3. CASE net[s].live \notin {NoAddr, Cgnat}
    <3>1. net[s].live \in Addrs
      BY <1>d, <1>0 DEF RestoreAdopt, Net
    <3>2. net' \in [Sessions -> Net]
      BY <3>1, <2>3, <1>d, <1>0, RouteTyped DEF RestoreAdopt, ApplyReplyRouting
    <3>3. [row[s] EXCEPT !.ip = net[s].live] \in Row
      BY <3>1, <1>0, RowTyped
    <3>4. row' \in [Sessions -> Row]
      BY <3>3, <2>3, <1>d, <1>0, UpdateTyped DEF RestoreAdopt
    <3>5. probes' \subseteq Probe
      BY <2>3, <1>d, ProbesTyped DEF RestoreAdopt, TypeOK
    <3> QED BY <2>1, <3>2, <3>4, <3>5, <1>1, <1>d DEF RestoreAdopt, TypeOK, locks, lists
  <2> QED BY <2>2, <2>3
<1>e. CASE LinkDrop(s)
  <2>1. PICK alive \in {FALSE, net[s].pppd} :
          net' = [net EXCEPT ![s] = [@ EXCEPT !.pppd = alive, !.live = Down, !.tbl = FALSE]]
    BY <1>e DEF LinkDrop
  <2>2. [net[s] EXCEPT !.pppd = alive, !.live = Down, !.tbl = FALSE] \in Net
    BY <1>0 DEF Net
  <2>3. net' \in [Sessions -> Net]
    BY <2>1, <2>2, <1>0
  <2> QED BY <2>3, <1>1, <1>2, <1>e DEF LinkDrop, TypeOK, locks, lists
<1>f. CASE LinkReturn(s)
  <2>1. net' \in [Sessions -> Net]
    BY <1>f, <1>0, <1>3, <1>4 DEF LinkReturn
  <2> QED BY <2>1, <1>1, <1>f DEF LinkReturn, TypeOK, locks, bg, lists
<1>g. CASE AddrDrift(s)
  <2>1. net' \in [Sessions -> Net]
    BY <1>g, <1>0, <1>3, <1>4 DEF AddrDrift
  <2> QED BY <2>1, <1>1, <1>2, <1>g DEF AddrDrift, TypeOK, locks, lists
<1>h. CASE AddrArrives(s)
  <2>1. net' \in [Sessions -> Net]
    BY <1>h, <1>0, <1>3, <1>4 DEF AddrArrives
  <2> QED BY <2>1, <1>1, <1>h DEF AddrArrives, TypeOK, locks, bg, lists
<1> QED BY <1>a, <1>b, <1>c, <1>d, <1>e, <1>f, <1>g, <1>h DEF Outside

\* The ticks that build or consume a list keep the types.
LEMMA WatchdogTyped ==
  ASSUME TypeOK, AutoRotateTick \/ ReconnectScan \/ \E e \in queue : ReconnectNext(e)
  PROVE  TypeOK'
<1>0. ControlOK /\ row \in [Sessions -> Row] /\ Watchdog \in Procs
  BY ProcsAssumption DEF TypeOK
<1>a. CASE ReconnectScan
  <2>1. \A s \in Sessions : row[s].tries \in 0..MaxRetries
    BY <1>0 DEF Row
  <2>2. \A s \in Sessions : ReconnectDue(s) => row[s].tries \in 0..(MaxRetries - 1)
    BY <2>1, BoundsAssumption DEF ReconnectDue
  <2>3. queue' \subseteq [sid : Sessions, tries : 0..(MaxRetries - 1)]
    BY <2>2, <1>a DEF ReconnectScan
  <2>4. ControlOK'
    BY <1>a, <1>0 DEF ReconnectScan, ControlOK, procs
  <2> QED BY <2>3, <2>4, <1>a DEF ReconnectScan, TypeOK, locks
<1>c. CASE AutoRotateTick
  <2>1. rotations' \subseteq Sessions
    BY <1>c DEF AutoRotateTick
  <2>2. events' \in 0..MaxEvents
    BY <1>c, BoundsAssumption DEF AutoRotateTick, Happens, TypeOK
  <2>3. ControlOK'
    BY <1>c, <1>0 DEF AutoRotateTick, ControlOK, procs
  <2> QED BY <2>1, <2>2, <2>3, <1>c DEF AutoRotateTick, TypeOK, locks
<1>b. ASSUME NEW e \in queue, ReconnectNext(e) PROVE TypeOK'
  <2> DEFINE j == [NoJob EXCEPT !.kind = "reconnect", !.sid = e.sid, !.tries = e.tries + 1]
  <2>1. e.sid \in Sessions /\ e.tries \in 0..(MaxRetries - 1)
    BY DEF TypeOK
  <2>2. /\ e.tries + 1 \in 0..(MaxRetries + CreateRetries)
        /\ e.tries + 1 <= MaxRetries
    BY <2>1, BoundsAssumption
  <2>3. j \in Job /\ j.kind = "reconnect" /\ j.sid = e.sid /\ j.tries = e.tries + 1
    BY <2>1, <2>2, NullsTyped DEF Job, Kinds
  <2>4. "dial" \in Path[j.kind]
    BY <2>3, PathsOf DEF DialPath
  <2>5. job' = [job EXCEPT ![Watchdog] = j]
    BY <1>b DEF ReconnectNext
  <2> HIDE DEF j
  <2>6. snap' \in [Procs -> Row] /\ Goto(Watchdog, "dial")
    BY <1>b, <1>0 DEF ReconnectNext, ControlOK
  <2>7. ControlOK'
    BY <2>1, <2>2, <2>3, <2>4, <2>5, <2>6, <1>0, JobTyped
  <2>8. queue' \subseteq queue
    BY <1>b DEF ReconnectNext
  <2> QED BY <2>7, <2>8, <1>b DEF ReconnectNext, TypeOK, locks
<1> QED BY <1>a, <1>b, <1>c

\* The public address probe keeps the types.
LEMMA ProbeTyped ==
  ASSUME TypeOK, NEW e \in probes, ProbeMeasure(e) \/ ProbeWrite(e)
  PROVE  TypeOK'
<1>0. /\ row \in [Sessions -> Row] /\ probes \subseteq Probe /\ NoAddr \in Addrs
      /\ e \in Probe /\ e.sid \in Sessions /\ e.ip \in Addrs
  BY DEF TypeOK, Probe, Addrs
<1>1. UNCHANGED procs => ControlOK'
  BY DEF TypeOK, ControlOK, procs
<1>a. CASE ProbeMeasure(e)
  <2>1. \A a \in PublicAddrs : [e EXCEPT !.ip = a] \in Probe
    BY <1>0 DEF Probe, Addrs
  <2>2. probes' \subseteq Probe
    BY <2>1, <1>0, <1>a DEF ProbeMeasure
  <2> QED BY <2>2, <1>1, <1>a DEF ProbeMeasure, TypeOK, locks, lists
<1>b. CASE ProbeWrite(e)
  <2>1. row[e.sid] \in Row
    BY <1>0
  <2>2. [row[e.sid] EXCEPT !.pub = e.ip] \in Row
    BY <2>1, <1>0, RowTyped
  <2>3. row' \in [Sessions -> Row] /\ probes' \subseteq Probe
    BY <2>2, <1>b, <1>0, UpdateTyped DEF ProbeWrite
  <2> QED BY <2>3, <1>1, <1>b DEF ProbeWrite, TypeOK, locks, lists
<1> QED BY <1>a, <1>b

\* A crash leaves a well-typed state.
LEMMA CrashTyped ==
  ASSUME TypeOK, Crash
  PROVE  TypeOK'
<1>1. net' \in [Sessions -> Net]
  <2>1. PICK keep \in BOOLEAN :
          net' = [s \in Sessions |->
                   IF keep THEN [net[s] EXCEPT !.pppd = @ \/ net[s].child, !.child = FALSE]
                   ELSE Dead(net[s])]
    BY DEF Crash
  <2>2. \A s \in Sessions : /\ net[s] \in Net /\ Dead(net[s]) \in Net
    BY NetTyped DEF TypeOK
  <2>3. \A n \in Net : (n.pppd \/ n.child) \in BOOLEAN
    BY DEF Net
  <2>4. \A n \in Net : [n EXCEPT !.pppd = n.pppd \/ n.child, !.child = FALSE] \in Net
    BY <2>3 DEF Net
  <2> QED BY <2>1, <2>2, <2>4
<1>2. /\ pc' = [p \in Procs |-> "idle"] /\ job' = [p \in Procs |-> NoJob]
      /\ snap' = [p \in Procs |-> NoRow]
  BY DEF Crash
<1>3. pc' \in [Procs -> Labels] /\ job' \in [Procs -> Job] /\ snap' \in [Procs -> Row]
  BY <1>2, NullsTyped DEF Labels
<1>4. ControlOK'
  <2>1. NoJob.kind = "none"
    BY DEF NoJob
  <2> QED BY <2>1, <1>2, <1>3, PathsOf DEF ControlOK
<1>5. events' \in 0..MaxEvents /\ dialSem' \in 0..DialConcurrent
  <2>1. events > 0 /\ events' = events - 1 /\ dialSem' = 0
    BY DEF Crash, Happens
  <2> QED BY <2>1, BoundsAssumption DEF TypeOK
<1>6. /\ UNCHANGED <<row, nak>> /\ queue' = {} /\ rotations' = {} /\ probes' = {} /\ booting' \subseteq Sessions
      /\ lineOwner' = [l \in Lines |-> NoProc] /\ rotateOwner' = [s \in Sessions |-> NoProc]
  BY DEF Crash
<1> QED BY <1>1, <1>4, <1>5, <1>6 DEF TypeOK

\* TypeOK is kept by every step from a state where the locks are held soundly.
LEMMA TypesKept ==
  ASSUME TypeOK, LocksHeld, [Next]_vars
  PROVE  TypeOK'
<1>1. ASSUME NEW p \in Procs, Step(p) PROVE TypeOK'
  BY <1>1, DialTyped, HangupTyped, RotateTyped, ReconcileTyped, WorkerTyped DEF Step
<1>2. CASE UNCHANGED vars
  BY <1>2 DEF vars, locks, procs, bg, lists, TypeOK, ControlOK
<1> QED BY <1>1, <1>2, RequestTyped, OutsideTyped, WatchdogTyped, ProbeTyped, CrashTyped DEF Next

-----------------------------------------------------------------------------
(* Locks: a step of one goroutine, seen from each lock. *)

Others(p) == \A q \in Procs \ {p} : pc'[q] = pc[q] /\ job'[q] = job[q]

\* Goto moves one goroutine and no other.
LEMMA GotoOthers ==
  ASSUME ControlOK, NEW p \in Procs, NEW l, Goto(p, l), NEW j,
         job' = [job EXCEPT ![p] = j] \/ UNCHANGED job
  PROVE  /\ Others(p) /\ pc'[p] = l
         /\ job' = [job EXCEPT ![p] = j] => job'[p] = j
         /\ UNCHANGED job => job'[p] = job[p]
  BY DEF ControlOK, Goto, Others

\* The semaphore: a goroutine outside the dial section stays outside, one
\* inside stays inside; one enters; one leaves.
LEMMA SectionKept ==
  ASSUME TokensCounted, NEW p \in Procs, Others(p), UNCHANGED dialSem,
         pc'[p] \in Section <=> pc[p] \in Section
  PROVE  TokensCounted'
<1>1. InSection' = InSection
  BY DEF InSection, Others
<1> QED BY <1>1 DEF TokensCounted

\* One more goroutine in the dial section is one more token counted.
LEMMA SectionEntered ==
  ASSUME TokensCounted, NEW p \in Procs, Others(p), dialSem' = dialSem + 1,
         pc[p] \notin Section, pc'[p] \in Section
  PROVE  InSection' = InSection \cup {p} /\ TokensCounted'
<1>1. InSection' = InSection \cup {p} /\ p \notin InSection
  BY DEF InSection, Others
<1>2. IsFiniteSet(InSection)
  BY ProcsAssumption, FS_Subset DEF InSection
<1>3. Cardinality(InSection \cup {p}) = Cardinality(InSection) + 1
  BY <1>1, <1>2, FS_AddElement
<1> QED BY <1>1, <1>3 DEF TokensCounted

\* One goroutine fewer in the dial section is one token fewer counted.
LEMMA SectionLeft ==
  ASSUME TokensCounted, NEW p \in Procs, Others(p), dialSem' = dialSem - 1,
         pc[p] \in Section, pc'[p] \notin Section
  PROVE  InSection' = InSection \ {p} /\ TokensCounted'
<1>1. InSection' = InSection \ {p} /\ p \in InSection
  BY DEF InSection, Others
<1>2. IsFiniteSet(InSection)
  BY ProcsAssumption, FS_Subset DEF InSection
<1>3. Cardinality(InSection \ {p}) = Cardinality(InSection) - 1
  BY <1>1, <1>2, FS_RemoveElement
<1> QED BY <1>1, <1>3 DEF TokensCounted

\* The line mutexes: kept, taken when free, released.
LEMMA LineKept ==
  ASSUME LinesHeld, NEW p \in Procs, Others(p), UNCHANGED lineOwner,
         pc'[p] \in Locked <=> pc[p] \in Locked,
         pc[p] \in Locked => job'[p].sid = job[p].sid
  PROVE  LinesHeld'
  BY DEF LinesHeld, Others

\* A free line mutex taken by the goroutine that is now behind it.
LEMMA LineTaken ==
  ASSUME LinesHeld, lineOwner \in [Lines -> Procs \cup {NoProc}], NEW p \in Procs, Others(p),
         NEW l \in Lines, lineOwner[l] = NoProc, lineOwner' = [lineOwner EXCEPT ![l] = p],
         LineOf[job'[p].sid] = l, pc[p] \notin Locked, pc'[p] \in Locked
  PROVE  LinesHeld'
  BY ProcsAssumption DEF LinesHeld, Others

\* A line mutex freed by the goroutine that leaves.
LEMMA LineFreed ==
  ASSUME LinesHeld, lineOwner \in [Lines -> Procs \cup {NoProc}], NEW p \in Procs, Others(p),
         pc[p] \in Locked, LineOf[job[p].sid] \in Lines, pc'[p] \notin Locked,
         lineOwner' = [lineOwner EXCEPT ![LineOf[job[p].sid]] = NoProc]
  PROVE  LinesHeld'
  BY ProcsAssumption DEF LinesHeld, Others

\* The rotate mutexes: kept, taken when free, released.
LEMMA RotateKept ==
  ASSUME RotatesHeld, NEW p \in Procs, Others(p), UNCHANGED rotateOwner,
         HoldsRotate(p)' <=> HoldsRotate(p), HoldsRotate(p) => job'[p].sid = job[p].sid
  PROVE  RotatesHeld'
  BY DEF RotatesHeld, Others, HoldsRotate

\* A free rotate mutex taken by the goroutine that now holds it.
LEMMA RotateTaken ==
  ASSUME RotatesHeld, rotateOwner \in [Sessions -> Procs \cup {NoProc}], NEW p \in Procs,
         Others(p), NEW s \in Sessions, rotateOwner[s] = NoProc,
         rotateOwner' = [rotateOwner EXCEPT ![s] = p],
         job'[p].sid = s, ~HoldsRotate(p), HoldsRotate(p)'
  PROVE  RotatesHeld'
  BY ProcsAssumption DEF RotatesHeld, Others, HoldsRotate

\* A rotate mutex freed by the goroutine that held it.
LEMMA RotateFreed ==
  ASSUME RotatesHeld, rotateOwner \in [Sessions -> Procs \cup {NoProc}], NEW p \in Procs,
         Others(p), job[p].sid \in Sessions, Unlock(job[p].sid), HoldsRotate(p), ~HoldsRotate(p)'
  PROVE  RotatesHeld'
  BY ProcsAssumption DEF RotatesHeld, Others, HoldsRotate, Unlock

\* A goroutine that neither enters nor leaves any section disturbs no lock.
LEMMA QuietKeeps ==
  ASSUME LocksHeld, NEW p \in Procs, Others(p), UNCHANGED locks,
         pc'[p] \in Section <=> pc[p] \in Section,
         pc'[p] \in Locked <=> pc[p] \in Locked,
         HoldsRotate(p)' <=> HoldsRotate(p),
         pc[p] \in Locked \/ HoldsRotate(p) => job'[p].sid = job[p].sid
  PROVE  LocksHeld'
  BY SectionKept, LineKept, RotateKept DEF LocksHeld, locks

\* A step that moves no goroutine and touches no lock keeps LocksHeld.
LEMMA StillKeeps ==
  ASSUME LocksHeld, UNCHANGED <<locks, pc, job>>
  PROVE  LocksHeld'
  BY DEF LocksHeld, TokensCounted, LinesHeld, RotatesHeld, InSection, HoldsRotate, locks

\* The sessions being dialled change only when a goroutine enters or leaves the
\* section.
LEMMA SameSids ==
  ASSUME NEW p \in Procs, Others(p), job'[p].sid = job[p].sid,
         pc'[p] \in Section <=> pc[p] \in Section
  PROVE  Dialing' = Dialing
<1>1. InSection' = InSection /\ \A q \in InSection : job'[q].sid = job[q].sid
  BY DEF InSection, Others
<1>2. {<<q, job'[q].sid>> : q \in InSection} = {<<q, job[q].sid>> : q \in InSection}
  BY <1>1
<1> QED BY <1>1, <1>2 DEF Dialing

\* A goroutine that stays outside the dial section leaves Dialing alone.
LEMMA OutsideSection ==
  ASSUME NEW p \in Procs, Others(p), pc[p] \notin Section, pc'[p] \notin Section
  PROVE  Dialing' = Dialing
<1>1. InSection' = InSection /\ \A q \in InSection : job'[q].sid = job[q].sid
  BY DEF InSection, Others
<1>2. {<<q, job'[q].sid>> : q \in InSection} = {<<q, job[q].sid>> : q \in InSection}
  BY <1>1
<1> QED BY <1>1, <1>2 DEF Dialing

-----------------------------------------------------------------------------
(* Each action keeps the locks. *)

\* The labels of Dial outside and inside the sections.
LEMMA DialLabels ==
  /\ {"dial", "line", "dialed", "idle"} \cap Locked = {} /\ Section \subseteq Locked
  /\ "sem" \in Locked \ Section /\ Locked \subseteq DialPath
  /\ {"prep", "call", "poll", "giveup", "route", "save"} = Section
  /\ DialPath \cap {"idle", "rotLock", "try", "pause"} = {}
  BY DEF Locked, Section, DialPath

\* Inside Dial, HoldsRotate depends on the kind of the job only.
LEMMA DialHolds ==
  ASSUME NEW p \in Procs, pc[p] \in DialPath, pc'[p] \in DialPath, job'[p].kind = job[p].kind
  PROVE  HoldsRotate(p)' <=> HoldsRotate(p)
  BY DialLabels DEF HoldsRotate

\* LeaveDial gives back the token and the line, and nothing else.
LEMMA LeaveLocks ==
  ASSUME TypeOK, LocksHeld, NEW p \in Procs, pc[p] \in Section, NEW r, NEW e, LeaveDial(p, r, e)
  PROVE  LocksHeld' /\ InSection' = InSection \ {p} /\ Others(p)
<1>1. ControlOK /\ job[p] \in Job
  BY DEF TypeOK, ControlOK
<1> DEFINE j == [job[p] EXCEPT !.err = e]
<1>2. j.kind = job[p].kind /\ j.sid = job[p].sid
  BY <1>1 DEF Job
<1>3. job' = [job EXCEPT ![p] = j] /\ Goto(p, "dialed")
  BY DEF LeaveDial, Return
<1> HIDE DEF j
<1>4. Others(p) /\ pc'[p] = "dialed" /\ job'[p] = j
  BY <1>1, <1>3, GotoOthers
<1>5. job[p].sid \in Sessions /\ LineOf[job[p].sid] \in Lines
  BY <1>1, Where, IdsAssumption, DialLabels
<1>6. TokensCounted' /\ InSection' = InSection \ {p}
  BY <1>4, SectionLeft, DialLabels DEF LeaveDial, LocksHeld
<1>7. LinesHeld'
  BY <1>4, <1>5, LineFreed, DialLabels DEF LeaveDial, LocksHeld, TypeOK
<1>8. RotatesHeld'
  <2>1. HoldsRotate(p)' <=> HoldsRotate(p)
    BY <1>2, <1>4, DialHolds, DialLabels DEF DialPath
  <2> QED BY <2>1, <1>2, <1>4, RotateKept DEF LeaveDial, LocksHeld
<1> QED BY <1>4, <1>6, <1>7, <1>8 DEF LocksHeld

\* DialMark takes a token and nothing else.
LEMMA EnterLocks ==
  ASSUME TypeOK, LocksHeld, NEW p \in Procs, DialMark(p)
  PROVE  LocksHeld' /\ InSection' = InSection \cup {p} /\ Others(p) /\ job'[p] = job[p]
<1>1. ControlOK /\ Goto(p, "prep") /\ UNCHANGED job /\ pc[p] = "sem"
  BY DEF TypeOK, DialMark
<1>2. Others(p) /\ pc'[p] = "prep" /\ job'[p] = job[p]
  BY <1>1, GotoOthers
<1>3. TokensCounted' /\ InSection' = InSection \cup {p}
  BY <1>1, <1>2, SectionEntered, DialLabels DEF DialMark, LocksHeld
<1>4. LinesHeld'
  BY <1>1, <1>2, LineKept, DialLabels DEF DialMark, LocksHeld
<1>5. HoldsRotate(p)' <=> HoldsRotate(p)
  BY <1>1, <1>2, DialHolds, DialLabels
<1>6. RotatesHeld'
  BY <1>2, <1>5, RotateKept DEF DialMark, LocksHeld
<1> QED BY <1>2, <1>3, <1>4, <1>6 DEF LocksHeld

\* The other steps of Dial move a goroutine within its section.
DialInside(p) ==
  DialCall(p) \/ PppdUp(p) \/ DialPollUp(p) \/ DialPollBad(p) \/ DialRoute(p)

\* The steps of Dial between two locks take and free none.
LEMMA DialQuiet ==
  ASSUME TypeOK, LocksHeld, NEW p \in Procs, DialRefused(p) \/ DialLoad(p) \/ DialInside(p)
  PROVE  LocksHeld' /\ Dialing' = Dialing
<1>1. ControlOK /\ job[p] \in Job
  BY DEF TypeOK, ControlOK
<1>2. PICK l \in DialPath : /\ Goto(p, l) /\ UNCHANGED locks /\ pc[p] \in DialPath
                            /\ l \in Section <=> pc[p] \in Section
                            /\ l \in Locked <=> pc[p] \in Locked
  BY DialLabels DEF DialRefused, DialLoad, DialInside, DialCall, PppdUp, DialPollUp, DialPollBad,
                    DialRoute, Return, DialPath
<1>3. Others(p) /\ job'[p].kind = job[p].kind /\ job'[p].sid = job[p].sid /\ pc'[p] = l
  <2>1. CASE UNCHANGED job
    BY <2>1, <1>1, <1>2, GotoOthers
  <2>2. ASSUME NEW j, j \in {[job[p] EXCEPT !.err = "refused"], [job[p] EXCEPT !.ip = net[job[p].sid].live]},
               job' = [job EXCEPT ![p] = j]
        PROVE  Others(p) /\ job'[p].kind = job[p].kind /\ job'[p].sid = job[p].sid /\ pc'[p] = l
    <3>1. j.kind = job[p].kind /\ j.sid = job[p].sid
      BY <2>2, <1>1 DEF Job
    <3> QED BY <3>1, <2>2, <1>1, <1>2, GotoOthers
  <2>3. \/ UNCHANGED job
        \/ job' = [job EXCEPT ![p] = [job[p] EXCEPT !.err = "refused"]]
        \/ job' = [job EXCEPT ![p] = [job[p] EXCEPT !.ip = net[job[p].sid].live]]
    BY DEF DialRefused, DialLoad, DialInside, DialCall, PppdUp, DialPollUp, DialPollBad,
           DialRoute, Return
  <2> QED BY <2>1, <2>2, <2>3
<1>4. HoldsRotate(p)' <=> HoldsRotate(p)
  BY <1>2, <1>3, DialHolds
<1>5. LocksHeld'
  BY <1>2, <1>3, <1>4, QuietKeeps
<1>6. Dialing' = Dialing
  BY <1>2, <1>3, SameSids
<1> QED BY <1>5, <1>6

\* LockLine takes the free line of its session and nothing else.
LEMMA LineLocks ==
  ASSUME TypeOK, LocksHeld, NEW p \in Procs, LockLine(p)
  PROVE  LocksHeld' /\ Dialing' = Dialing
<1>1. ControlOK /\ Goto(p, "sem") /\ UNCHANGED job /\ pc[p] = "line"
  BY DEF TypeOK, LockLine
<1>2. Others(p) /\ pc'[p] = "sem" /\ job'[p] = job[p]
  BY <1>1, GotoOthers
<1>3. job[p].sid \in Sessions /\ LineOf[job[p].sid] \in Lines
  BY <1>1, Where, IdsAssumption
<1>4. LinesHeld'
  BY <1>1, <1>2, <1>3, LineTaken, DialLabels DEF LockLine, LocksHeld, TypeOK
<1>5. TokensCounted'
  BY <1>1, <1>2, SectionKept, DialLabels DEF LockLine, LocksHeld
<1>6. HoldsRotate(p)' <=> HoldsRotate(p)
  BY <1>1, <1>2, DialHolds, DialLabels DEF DialPath
<1>7. RotatesHeld'
  BY <1>2, <1>6, RotateKept DEF LockLine, LocksHeld
<1>8. Dialing' = Dialing
  BY <1>1, <1>2, OutsideSection, DialLabels
<1> QED BY <1>4, <1>5, <1>7, <1>8 DEF LocksHeld

\* Every step of Dial keeps LocksHeld.
LEMMA DialLocks ==
  ASSUME TypeOK, LocksHeld, NEW p \in Procs, Dial(p)
  PROVE  LocksHeld'
<1>1. CASE DialRefused(p) \/ DialLoad(p) \/ DialInside(p)
  BY <1>1, DialQuiet
<1>2. CASE LockLine(p)
  BY <1>2, LineLocks
<1>3. CASE DialMark(p)
  BY <1>3, EnterLocks
<1>4. CASE DialPrepFail(p)
  BY <1>4, LeaveLocks DEF DialPrepFail, Section
<1>5. ASSUME NEW e \in {"other", "authnak"}, PppdFail(p, e) PROVE LocksHeld'
  BY <1>5, LeaveLocks DEF PppdFail, Section
<1>6. CASE DialGiveUp(p)
  BY <1>6, LeaveLocks DEF DialGiveUp, Section
<1>7. CASE DialSave(p)
  BY <1>7, LeaveLocks DEF DialSave, Section
<1> QED BY <1>1, <1>2, <1>3, <1>4, <1>5, <1>6, <1>7 DEF Dial, DialInside

\* A goroutine that ends outside every section.
LEMMA FinishLocks ==
  ASSUME TypeOK, LocksHeld, NEW p \in Procs, Finish(p), UNCHANGED locks,
         pc[p] \notin Locked, ~HoldsRotate(p)
  PROVE  LocksHeld' /\ Dialing' = Dialing
<1>1. Others(p) /\ pc'[p] = "idle" /\ ~HoldsRotate(p)'
  BY GotoOthers DEF Finish, TypeOK, HoldsRotate
<1> QED BY <1>1, QuietKeeps, OutsideSection, DialLabels

\* A goroutine that unlocks rotateMu and ends, or goes on to pause.
LEMMA UnlockLocks ==
  ASSUME TypeOK, LocksHeld, NEW p \in Procs, pc[p] \notin Locked, HoldsRotate(p),
         Unlock(job[p].sid), UNCHANGED <<lineOwner, dialSem>>,
         Finish(p) \/ (Goto(p, "pause") /\ UNCHANGED job)
  PROVE  LocksHeld' /\ Dialing' = Dialing
<1>1. Others(p) /\ pc'[p] \in {"idle", "pause"}
  BY GotoOthers DEF Finish, TypeOK
<1>2. pc'[p] \notin Locked /\ ~HoldsRotate(p)'
  BY <1>1 DEF HoldsRotate, Locked, Section
<1>3. pc[p] # "idle" /\ job[p].sid \in Sessions
  BY Where DEF HoldsRotate, TypeOK
<1>4. TokensCounted' /\ LinesHeld'
  BY <1>1, <1>2, SectionKept, LineKept, DialLabels DEF LocksHeld
<1>5. RotatesHeld'
  BY <1>1, <1>2, <1>3, RotateFreed DEF LocksHeld, TypeOK
<1>6. Dialing' = Dialing
  BY <1>1, <1>2, OutsideSection, DialLabels
<1> QED BY <1>4, <1>5, <1>6 DEF LocksHeld

\* A goroutine that takes the free rotateMu of its session.
LEMMA TakeLocks ==
  ASSUME TypeOK, LocksHeld, NEW p \in Procs, pc[p] \in {"rotLock", "try"},
         rotateOwner[job[p].sid] = NoProc, UNCHANGED <<lineOwner, dialSem, job>>,
         rotateOwner' = [rotateOwner EXCEPT ![job[p].sid] = p],
         NEW l \in {"hang", "apply"}, Goto(p, l)
  PROVE  LocksHeld' /\ Dialing' = Dialing
<1>1. Others(p) /\ pc'[p] = l /\ job'[p] = job[p] /\ job[p].sid \in Sessions
  BY GotoOthers, Where DEF TypeOK
<1>2. job[p].kind \in {"rotate", "autorotate", "reconcile"}
  BY Where DEF TypeOK
<1>3. ~HoldsRotate(p) /\ HoldsRotate(p)' /\ pc[p] \notin Locked /\ pc'[p] \notin Locked
  BY <1>1, <1>2 DEF HoldsRotate, Locked, Section
<1>4. TokensCounted' /\ LinesHeld'
  BY <1>1, <1>3, SectionKept, LineKept, DialLabels DEF LocksHeld
<1>5. RotatesHeld'
  BY <1>1, <1>3, RotateTaken DEF LocksHeld, TypeOK
<1>6. Dialing' = Dialing
  BY <1>1, <1>3, OutsideSection, DialLabels
<1> QED BY <1>4, <1>5, <1>6 DEF LocksHeld

\* A goroutine that moves outside Dial with the same job, holding rotateMu
\* before and after or neither.
Roaming == {"hang", "hangKill", "hangSave", "settle", "erase", "apply", "demote", "dial", "dialed"}

\* A goroutine that moves under its rotate mutex, outside the sections, keeps LocksHeld.
LEMMA RoamLocks ==
  ASSUME TypeOK, LocksHeld, NEW p \in Procs, NEW l \in Roaming, pc[p] \in Roaming, Goto(p, l),
         job'[p].kind = job[p].kind, job'[p].sid = job[p].sid,
         \A q \in Procs \ {p} : job'[q] = job[q], UNCHANGED locks
  PROVE  LocksHeld' /\ Dialing' = Dialing
<1>1. Others(p) /\ pc'[p] = l
  BY DEF Goto, Others, TypeOK, ControlOK
<1>2. /\ l \notin Locked /\ pc[p] \notin Locked
      /\ HoldsRotate(p)' <=> HoldsRotate(p)
  BY <1>1 DEF Roaming, HoldsRotate, Locked, Section
<1> QED BY <1>1, <1>2, QuietKeeps, OutsideSection, DialLabels

\* Every step of Hangup keeps LocksHeld.
LEMMA HangupLocks ==
  ASSUME TypeOK, LocksHeld, NEW p \in Procs, Hangup(p)
  PROVE  LocksHeld' /\ Dialing' = Dialing
<1>1. \E l \in Roaming : Goto(p, l) /\ pc[p] \in Roaming /\ UNCHANGED <<locks, job>>
  BY DEF Hangup, HangLoad, HangKill, HangSave, Roaming
<1> QED BY <1>1, RoamLocks

\* Every step of Rotate keeps LocksHeld, a failed rotation's too.
LEMMA RotateLocks ==
  ASSUME TypeOK, LocksHeld, NEW p \in Procs, Rotate(p)
  PROVE  LocksHeld' /\ Dialing' = Dialing
<1>a. CASE RotateLock(p)
  <2>1. CASE Exists(job[p].sid)
    BY <2>1, <1>a, TakeLocks DEF RotateLock
  <2>2. CASE ~Exists(job[p].sid)
    <3>1. pc[p] \notin Locked /\ ~HoldsRotate(p) /\ Finish(p) /\ UNCHANGED locks
      BY <2>2, <1>a DEF RotateLock, HoldsRotate, Locked, Section, locks
    <3> QED BY <3>1, FinishLocks
  <2> QED BY <2>1, <2>2
<1>b. CASE RotateClear(p)
  <2>1. "dial" \in Roaming /\ Goto(p, "dial") /\ pc[p] \in Roaming /\ UNCHANGED <<locks, job>>
    BY <1>b DEF RotateClear, Roaming
  <2> QED BY <2>1, RoamLocks
<1>c. CASE RotateDone(p)
  <2>1. pc[p] \notin Locked /\ HoldsRotate(p)
    BY <1>c DEF RotateDone, HoldsRotate, Locked, Section
  <2> QED BY <2>1, <1>c, UnlockLocks DEF RotateDone
<1>d. CASE AutoRotatePause(p)
  <2>1. pc[p] \notin Locked /\ ~HoldsRotate(p) /\ Finish(p) /\ UNCHANGED locks
    BY <1>d DEF AutoRotatePause, HoldsRotate, Locked, Section
  <2> QED BY <2>1, FinishLocks
<1> QED BY <1>a, <1>b, <1>c, <1>d DEF Rotate

\* Every step of reconcileApply keeps LocksHeld.
LEMMA ReconcileLocks ==
  ASSUME TypeOK, LocksHeld, NEW p \in Procs, ReconcileApply(p)
  PROVE  LocksHeld' /\ Dialing' = Dialing
<1>0. pc[p] \in {"apply", "demote"} => job[p].kind = "reconcile"
  BY Where DEF TypeOK
<1>1. pc[p] \in {"apply", "demote"} \/ (pc[p] = "dialed" /\ job[p].kind = "reconcile")
        => pc[p] \notin Locked /\ HoldsRotate(p)
  BY <1>0 DEF HoldsRotate, Locked, Section
<1>a. CASE ApplyLock(p)
  <2>1. CASE rotateOwner[job[p].sid] = NoProc /\ row[job[p].sid].status = "connected"
             /\ row[job[p].sid].iface
    BY <2>1, <1>a, TakeLocks DEF ApplyLock
  <2>2. CASE ~(rotateOwner[job[p].sid] = NoProc /\ row[job[p].sid].status = "connected"
               /\ row[job[p].sid].iface)
    <3>1. pc[p] \notin Locked /\ ~HoldsRotate(p) /\ Finish(p) /\ UNCHANGED locks
      BY <2>2, <1>a DEF ApplyLock, HoldsRotate, Locked, Section, locks
    <3> QED BY <3>1, FinishLocks
  <2> QED BY <2>1, <2>2
<1>b. CASE ApplyRedial(p)
  <2>1. CASE net[job[p].sid].live # Down
    BY <2>1, <1>b, <1>1, UnlockLocks DEF ApplyRedial
  <2>2. CASE net[job[p].sid].live = Down
    <3>1. "dial" \in Roaming /\ Goto(p, "dial") /\ pc[p] \in Roaming /\ UNCHANGED <<locks, job>>
      BY <2>2, <1>b DEF ApplyRedial, Roaming, locks
    <3> QED BY <3>1, RoamLocks
  <2> QED BY <2>1, <2>2
<1>c. CASE ApplyRedialed(p)
  BY <1>c, <1>1, UnlockLocks DEF ApplyRedialed
<1>d. CASE ApplyDemote(p)
  <2>1. /\ "demote" \in Roaming /\ Goto(p, "demote") /\ pc[p] \in Roaming
        /\ UNCHANGED <<locks, job>>
    BY <1>d DEF ApplyDemote, Roaming
  <2> QED BY <2>1, RoamLocks
<1>e. CASE ApplyDemoted(p)
  BY <1>e, <1>1, UnlockLocks DEF ApplyDemoted
<1>f. CASE ApplyRouting(p)
  BY <1>f, <1>1, UnlockLocks DEF ApplyRouting
<1> QED BY <1>a, <1>b, <1>c, <1>d, <1>e, <1>f DEF ReconcileApply

\* Every step of a running goroutine keeps LocksHeld.
LEMMA WorkerLocks ==
  ASSUME TypeOK, LocksHeld, NEW p \in Procs,
         CreateRetry(p) \/ CreateDone(p) \/ DeleteErase(p) \/ ReconnectDone(p) \/ RestoreDone(p)
  PROVE  LocksHeld' /\ Dialing' = Dialing
<1>a. CASE CreateRetry(p)
  <2> DEFINE j == [job[p] EXCEPT !.act = "retry", !.tries = @ + 1, !.err = ""]
  <2>1. job[p] \in Job /\ job' = [job EXCEPT ![p] = j]
    BY <1>a DEF CreateRetry, TypeOK, ControlOK
  <2>2. j.kind = job[p].kind /\ j.sid = job[p].sid
    BY <2>1 DEF Job
  <2> HIDE DEF j
  <2>3. /\ job'[p].kind = job[p].kind /\ job'[p].sid = job[p].sid
        /\ \A q \in Procs \ {p} : job'[q] = job[q]
    BY <2>1, <2>2 DEF TypeOK, ControlOK
  <2>4. "dial" \in Roaming /\ Goto(p, "dial") /\ pc[p] \in Roaming /\ UNCHANGED locks
    BY <1>a DEF CreateRetry, Roaming
  <2> QED BY <2>3, <2>4, RoamLocks
<1>b. CASE CreateDone(p) \/ DeleteErase(p) \/ ReconnectDone(p) \/ RestoreDone(p)
  <2>1. pc[p] = "erase" => job[p].kind = "delete"
    BY Where DEF TypeOK
  <2>2. pc[p] \notin Locked /\ ~HoldsRotate(p) /\ Finish(p) /\ UNCHANGED locks
    BY <2>1, <1>b DEF CreateDone, DeleteErase, ReconnectDone, RestoreDone, HoldsRotate, Locked, Section
  <2> QED BY <2>2, FinishLocks
<1> QED BY <1>a, <1>b

\* A goroutine starts without a lock.
LEMMA StartLocks ==
  ASSUME TypeOK, LocksHeld, NEW p \in Procs, pc[p] = "idle", UNCHANGED locks,
         NEW l, Goto(p, l), NEW j, job' = [job EXCEPT ![p] = j],
         l \in {"rotLock", "try"} \/ (l \in {"dial", "hang"} /\ j.kind \in {"create", "delete", "restore", "reconnect"})
  PROVE  LocksHeld' /\ Dialing' = Dialing
<1>1. Others(p) /\ pc'[p] = l /\ job'[p] = j
  BY GotoOthers DEF TypeOK
<1>2. pc'[p] \notin Locked /\ pc[p] \notin Locked /\ ~HoldsRotate(p) /\ ~HoldsRotate(p)'
  BY <1>1 DEF HoldsRotate, Locked, Section
<1> QED BY <1>1, <1>2, QuietKeeps, OutsideSection, DialLabels

\* Every start of a goroutine keeps LocksHeld.
LEMMA RequestLocks ==
  ASSUME TypeOK, LocksHeld, NEW p \in Procs, NEW s \in Sessions, Request(p, s)
  PROVE  LocksHeld' /\ Dialing' = Dialing
<1>1. \A k : [NoJob EXCEPT !.kind = k, !.sid = s].kind = k
  BY DEF NoJob
<1>a. CASE RotateRequest(p, s)
  BY <1>a, StartLocks DEF RotateRequest, Start
<1>b. CASE AutoRotateDue(p, s)
  BY <1>b, StartLocks DEF AutoRotateDue, Start
<1>c. CASE CreateRequest(p, s)
  <2>1. /\ pc[p] = "idle" /\ UNCHANGED locks /\ Goto(p, "dial")
        /\ job' = [job EXCEPT ![p] = [NoJob EXCEPT !.kind = "create", !.sid = s]]
    BY <1>c DEF CreateRequest, Start
  <2> QED BY <2>1, <1>1, StartLocks
<1>d. CASE DeleteRequest(p, s)
  BY <1>d, <1>1, StartLocks DEF DeleteRequest, Start
<1>e. CASE Reconcile(p, s)
  BY <1>e, StartLocks DEF Reconcile
<1>f. CASE RestoreDial(p, s)
  BY <1>f, <1>1, StartLocks DEF RestoreDial
<1> QED BY <1>a, <1>b, <1>c, <1>d, <1>e, <1>f DEF Request

\* Ticks, probes, handlers and the world outside keep LocksHeld.
LEMMA BackgroundLocks ==
  ASSUME TypeOK, LocksHeld,
         \/ \E s \in Sessions : Outside(s)
         \/ AutoRotateTick \/ ReconnectScan \/ \E e \in queue : ReconnectNext(e)
         \/ \E e \in probes : ProbeMeasure(e) \/ ProbeWrite(e)
  PROVE  LocksHeld' /\ Dialing' = Dialing
<1>1. ASSUME NEW s \in Sessions, Outside(s) PROVE UNCHANGED <<locks, pc, job>>
  BY <1>1 DEF Outside, SetSessionAutoRotate, ResumeAutoRotate, PauseOver, RestoreAdopt, LinkDrop,
              LinkReturn, AddrDrift, AddrArrives, procs
<1>2. AutoRotateTick \/ ReconnectScan => UNCHANGED <<locks, pc, job>>
  BY DEF AutoRotateTick, ReconnectScan, procs
<1>3. ASSUME NEW e \in probes, ProbeMeasure(e) \/ ProbeWrite(e) PROVE UNCHANGED <<locks, pc, job>>
  BY <1>3 DEF ProbeMeasure, ProbeWrite, procs
<1>4. UNCHANGED <<locks, pc, job>> => LocksHeld' /\ Dialing' = Dialing
  BY StillKeeps DEF Dialing, InSection
<1>5. ASSUME NEW e \in queue, ReconnectNext(e) PROVE LocksHeld' /\ Dialing' = Dialing
  <2> DEFINE j == [NoJob EXCEPT !.kind = "reconnect", !.sid = e.sid, !.tries = e.tries + 1]
  <2>1. j.kind = "reconnect"
    BY DEF NoJob
  <2>2. pc[Watchdog] = "idle" /\ Goto(Watchdog, "dial") /\ job' = [job EXCEPT ![Watchdog] = j]
        /\ UNCHANGED locks
    BY <1>5 DEF ReconnectNext
  <2> HIDE DEF j
  <2> QED BY <2>1, <2>2, StartLocks, ProcsAssumption
<1> QED BY <1>1, <1>2, <1>3, <1>4, <1>5

\* After a crash nothing is held by anybody.
LEMMA CrashLocks ==
  ASSUME TypeOK, Crash
  PROVE  LocksHeld' /\ Dialing' = {}
<1>1. /\ pc' = [p \in Procs |-> "idle"] /\ lineOwner' = [l \in Lines |-> NoProc]
      /\ dialSem' = 0 /\ rotateOwner' = [s \in Sessions |-> NoProc]
  BY DEF Crash
<1>2. InSection' = {} /\ Dialing' = {}
  BY <1>1 DEF Dialing, InSection, Section
<1>3. TokensCounted' /\ LinesHeld' /\ RotatesHeld'
  BY <1>1, <1>2, ProcsAssumption, FS_EmptySet
     DEF TokensCounted, LinesHeld, RotatesHeld, HoldsRotate, Locked, Section
<1> QED BY <1>2, <1>3 DEF LocksHeld

-----------------------------------------------------------------------------
(* The theorems. *)

IInv == TypeOK /\ LocksHeld

\* At the start nothing is held by anybody.
LEMMA InitLocks == Init => LocksHeld
<1> SUFFICES ASSUME Init PROVE LocksHeld
  OBVIOUS
<1>1. /\ pc = [p \in Procs |-> "idle"] /\ lineOwner = [l \in Lines |-> NoProc]
      /\ dialSem = 0 /\ rotateOwner = [s \in Sessions |-> NoProc]
  BY DEF Init
<1>2. InSection = {}
  BY <1>1 DEF InSection, Section
<1> QED BY <1>1, <1>2, ProcsAssumption, FS_EmptySet
        DEF LocksHeld, TokensCounted, LinesHeld, RotatesHeld, HoldsRotate, Locked, Section

\* LocksHeld is kept by every step from a well-typed state.
LEMMA LocksKept ==
  ASSUME IInv, [Next]_vars
  PROVE  LocksHeld'
<1>1. ASSUME NEW p \in Procs, Step(p) PROVE LocksHeld'
  BY <1>1, DialLocks, HangupLocks, RotateLocks, ReconcileLocks, WorkerLocks DEF Step, IInv
<1>2. ASSUME NEW p \in Procs, NEW s \in Sessions, Request(p, s) PROVE LocksHeld'
  BY <1>2, RequestLocks DEF IInv
<1>3. CASE UNCHANGED vars
  BY <1>3, StillKeeps DEF vars, procs, IInv
<1> QED BY <1>1, <1>2, <1>3, BackgroundLocks, CrashLocks DEF Next, IInv

\* The inductive invariant: types and locks together.
LEMMA Inductive == Spec => []IInv
<1>1. Init => IInv
  BY InitTyped, InitLocks DEF IInv
<1>2. IInv /\ [Next]_vars => IInv'
  BY TypesKept, LocksKept DEF IInv
<1> QED BY <1>1, <1>2, PTL DEF Spec

\* Whatever the number of sessions, lines and goroutines, every variable keeps
\* its type and every goroutine stays on the path of its kind of job.
THEOREM TypeCorrect == Spec => []TypeOK
<1>1. IInv => TypeOK
  BY DEF IInv
<1> QED BY <1>1, Inductive, PTL

\* No return path of Dial, Rotate or reconcileApply loses or duplicates a line
\* mutex, a rotate mutex or a token of dialSem.
THEOREM LocksSound == Spec => []LocksHeld
<1>1. IInv => LocksHeld
  BY DEF IInv
<1> QED BY <1>1, Inductive, PTL

\* The locks are taken in one order, so that whoever is held up at one is held up by
\* a goroutine that is at none, or at one later in the order: nobody waits in a circle.
THEOREM NobodyDeadlocks == Spec => []NoDeadlock
<1> USE DEF Locked, Section
<1>1. TypeOK /\ LocksHeld => NoDeadlock
  <2> SUFFICES ASSUME TypeOK, LocksHeld,
                      NEW W \in SUBSET {p \in Procs : pc[p] = "idle" \/ Waits(p)},
                      NEW w \in W, Waits(w),
                      \A p \in W : Waits(p) => Blockers(p) \subseteq W
               PROVE  FALSE
    BY Zenon DEF NoDeadlock
  <2>1. ASSUME NEW p \in W PROVE pc[p] \in {"idle", "rotLock", "line", "sem"}
    BY DEF Waits
  <2>2. ASSUME NEW p \in W, pc[p] = "sem" PROVE FALSE
    <3>1. Waits(p) /\ Blockers(p) = InSection BY <2>2 DEF Blockers
    <3>2. dialSem = DialConcurrent BY <2>2, <3>1 DEF Waits
    <3>3. Cardinality(InSection) # 0 BY <3>2, BoundsAssumption DEF LocksHeld, TokensCounted
    <3>4. PICK q : q \in InSection BY <3>3, FS_EmptySet
    <3>5. q \in W /\ pc[q] \in Section BY <3>1, <3>4 DEF InSection
    <3> QED BY <2>1, <3>5
  <2>3. ASSUME NEW p \in W, pc[p] = "line" PROVE FALSE
    <3>1. Waits(p) /\ Blockers(p) = {q \in Procs : lineOwner[LineOf[job[p].sid]] = q}
      BY <2>3 DEF Blockers
    <3>2. LineOf[job[p].sid] \in Lines BY <2>3, IdsAssumption DEF TypeOK, ControlOK
    <3>3. PICK q \in Procs : lineOwner[LineOf[job[p].sid]] = q
      BY <2>3, <3>1, <3>2 DEF Waits, TypeOK
    <3>4. q \in W BY <3>1, <3>3
    <3>5. pc[q] \in Locked BY <3>2, <3>3 DEF LocksHeld, LinesHeld
    <3>6. pc[q] = "sem" BY <2>1, <3>4, <3>5
    <3> QED BY <2>2, <3>4, <3>6
  <2>4. ASSUME NEW p \in W, pc[p] = "rotLock" PROVE FALSE
    <3>1. Waits(p) /\ Blockers(p) = {q \in Procs : rotateOwner[job[p].sid] = q}
      BY <2>4 DEF Blockers
    <3>2. job[p].sid \in Sessions BY <2>4 DEF TypeOK, ControlOK
    <3>3. PICK q \in Procs : rotateOwner[job[p].sid] = q
      BY <2>4, <3>1, <3>2 DEF Waits, TypeOK
    <3>4. q \in W BY <3>1, <3>3
    <3>5. pc[q] \notin {"idle", "rotLock"} BY <3>2, <3>3 DEF LocksHeld, RotatesHeld, HoldsRotate
    <3>6. pc[q] \in {"line", "sem"} BY <2>1, <3>4, <3>5
    <3> QED BY <2>2, <2>3, <3>4, <3>6
  <2> QED BY <2>1, <2>2, <2>3, <2>4 DEF Waits
<1>2. IInv => NoDeadlock BY <1>1 DEF IInv
<1> QED BY <1>2, Inductive, PTL

-----------------------------------------------------------------------------
(* Dial implements the admission gate. *)

\* The goroutines of the dial section serve different lines, so different
\* sessions.
LEMMA OnePerLine ==
  ASSUME LinesHeld, NEW p \in InSection, NEW q \in InSection,
         LineOf[job[p].sid] \in Lines, LineOf[job[p].sid] = LineOf[job[q].sid]
  PROVE  p = q
<1>1. p \in Procs /\ q \in Procs /\ pc[p] \in Locked /\ pc[q] \in Locked
  BY DEF InSection, Locked
<1> QED BY <1>1 DEF LinesHeld

\* A goroutine in the dial section holds the mutex of its session's line.
LEMMA SectionLines ==
  ASSUME TypeOK, NEW p \in InSection
  PROVE  job[p].sid \in Sessions /\ LineOf[job[p].sid] \in Lines
<1>1. p \in Procs /\ pc[p] # "idle"
  BY DEF InSection, Section
<1> QED BY <1>1, Where, IdsAssumption DEF TypeOK

\* The cardinality of the abstract gate is the cardinality of the library.
LEMMA GateCounts == \A d : Gate!Cardinality(d) = Cardinality(d)
  BY DEF Gate!Cardinality, Cardinality

\* What is being dialled is always admissible to the abstract gate.
LEMMA GateAdmissible == IInv => Gate!Admissible(Dialing)
<1> SUFFICES ASSUME IInv PROVE Gate!Admissible(Dialing)
  OBVIOUS
<1>1. \A x, y \in Dialing : LineOf[x[2]] = LineOf[y[2]] => x = y
  BY OnePerLine, SectionLines DEF IInv, LocksHeld, Dialing
<1>2. Cardinality(Dialing) <= DialConcurrent
  <2> DEFINE f == [p \in InSection |-> <<p, job[p].sid>>]
  <2>1. f \in Surjection(InSection, Dialing)
    BY DEF Surjection, Dialing
  <2>2. IsFiniteSet(InSection)
    BY ProcsAssumption, FS_Subset DEF InSection
  <2>3. IsFiniteSet(Dialing) /\ Cardinality(Dialing) <= Cardinality(InSection)
    BY <2>1, <2>2, FS_Surjection
  <2>4. Cardinality(InSection) <= DialConcurrent
    BY BoundsAssumption DEF IInv, TypeOK, LocksHeld, TokensCounted
  <2>5. Cardinality(InSection) \in Nat /\ Cardinality(Dialing) \in Nat
    BY <2>2, <2>3, FS_CardinalityType
  <2> QED BY <2>3, <2>4, <2>5, BoundsAssumption
<1> QED BY <1>1, <1>2, GateCounts DEF Gate!Admissible

\* The same in the next state.
LEMMA GateStaysAdmissible == IInv' => Gate!Admissible(Dialing)'
  BY GateAdmissible, PTL

\* Entering the dial section is the gate's Enter.
LEMMA GateEntered ==
  ASSUME IInv, IInv', NEW p \in Procs, DialMark(p)
  PROVE  Gate!Enter(p, job[p].sid) /\ job[p].sid \in Sessions
<1>1. /\ InSection' = InSection \cup {p} /\ Others(p) /\ job'[p] = job[p] /\ p \notin InSection
  BY EnterLocks DEF IInv, DialMark, InSection, Section
<1>2. \A q \in InSection : job'[q].sid = job[q].sid
  BY <1>1 DEF Others, InSection
<1>3. Dialing' = Dialing \cup {<<p, job[p].sid>>}
  <2>1. Dialing' = {<<q, job'[q].sid>> : q \in InSection \cup {p}}
    BY <1>1 DEF Dialing
  <2> QED BY <2>1, <1>1, <1>2 DEF Dialing
<1>4. job[p].sid \in Sessions /\ LineOf[job[p].sid] \in Lines /\ pc[p] \in Locked
  BY Where, IdsAssumption, DialLabels DEF IInv, TypeOK, DialMark
<1>5. <<p, job[p].sid>> \notin Dialing
  BY <1>1 DEF Dialing
<1>6. Gate!Admissible(Dialing)'
  BY GateStaysAdmissible
<1> QED BY <1>3, <1>4, <1>5, <1>6 DEF Gate!Enter

\* Leaving the dial section is the gate's Leave.
LEMMA GateLeft ==
  ASSUME IInv, NEW p \in Procs, pc[p] \in Section, NEW r, NEW e, LeaveDial(p, r, e)
  PROVE  Gate!Leave(p, job[p].sid) /\ job[p].sid \in Sessions
<1>1. InSection' = InSection \ {p} /\ Others(p) /\ p \in InSection
  BY LeaveLocks DEF IInv, InSection
<1>2. \A q \in InSection \ {p} : job'[q].sid = job[q].sid
  BY <1>1 DEF Others, InSection
<1>3. Dialing' = {<<q, job[q].sid>> : q \in InSection \ {p}}
  <2>1. Dialing' = {<<q, job'[q].sid>> : q \in InSection \ {p}}
    BY <1>1 DEF Dialing
  <2> QED BY <2>1, <1>2
<1>4. \A q \in InSection \ {p} : job[q].sid # job[p].sid
  BY <1>1, OnePerLine, SectionLines DEF IInv, LocksHeld
<1>5. Dialing' = Dialing \ {<<p, job[p].sid>>} /\ <<p, job[p].sid>> \in Dialing
  BY <1>1, <1>3, <1>4 DEF Dialing
<1> QED BY <1>1, <1>5, SectionLines DEF Gate!Leave, IInv

\* Every step of the manager is a step of the gate or leaves it alone.
LEMMA GateStep ==
  ASSUME IInv, IInv', [Next]_vars
  PROVE  [Gate!Next]_Dialing
<1>1. ASSUME NEW p \in Procs, Dial(p) PROVE [Gate!Next]_Dialing
  <2>1. CASE DialRefused(p) \/ DialLoad(p) \/ DialInside(p) \/ LockLine(p)
    BY <2>1, DialQuiet, LineLocks DEF IInv
  <2>2. CASE DialMark(p)
    BY <2>2, GateEntered DEF Gate!Next
  <2>3. CASE DialPrepFail(p) \/ PppdFail(p, "other") \/ PppdFail(p, "authnak")
             \/ DialGiveUp(p) \/ DialSave(p)
    <3>1. pc[p] \in Section /\ \E r, e : LeaveDial(p, r, e)
      BY <2>3 DEF DialPrepFail, PppdFail, DialGiveUp, DialSave, Section
    <3> QED BY <3>1, GateLeft DEF Gate!Next
  <2> QED BY <1>1, <2>1, <2>2, <2>3 DEF Dial, DialInside
<1>2. ASSUME NEW p \in Procs, Step(p) PROVE [Gate!Next]_Dialing
  BY <1>1, <1>2, HangupLocks, RotateLocks, ReconcileLocks, WorkerLocks DEF Step, IInv
<1>3. ASSUME NEW p \in Procs, NEW s \in Sessions, Request(p, s) PROVE [Gate!Next]_Dialing
  BY <1>3, RequestLocks DEF IInv
<1>4. CASE Crash
  BY <1>4, CrashLocks DEF IInv, Gate!Next, Gate!Restart
<1>5. CASE UNCHANGED vars
  <2>1. UNCHANGED <<pc, job>>
    BY <1>5 DEF vars, procs
  <2> QED BY <2>1 DEF Dialing, InSection
<1> QED BY <1>2, <1>3, <1>4, <1>5, BackgroundLocks DEF Next, IInv

\* lineMu and dialSem implement the admission gate: whatever requests, tickers
\* and crashes do, goroutines enter the dial section one per line and at most
\* DialConcurrent in all.
THEOREM DialImplementsGate == Spec => GateSpec
<1>1. Init => Gate!Init
  <2>1. Init => InSection = {}
    BY DEF Init, InSection, Section
  <2> QED BY <2>1 DEF Gate!Init, Dialing
<1>2. IInv /\ IInv' /\ [Next]_vars => [Gate!Next]_Dialing
  BY GateStep
<1> QED BY <1>1, <1>2, Inductive, PTL DEF Spec, GateSpec, Gate!Spec

-----------------------------------------------------------------------------
(* Between two restarts no row is left unattended. *)

\* A step that puts no row in "dialing" and connects none without its interface.
Calm ==
  \A t \in Sessions :
    /\ row'[t].status = "dialing" => row[t].status = "dialing"
    /\ row'[t].status = "connected" => row'[t].iface \/ (row[t].status = "connected" /\ row[t].iface = row'[t].iface)

\* A calm step that keeps whoever is dialling keeps Attended.
LEMMA CalmAttended ==
  ASSUME Attended, Calm, Dialing' = Dialing
  PROVE  Attended'
<1>1. \A t, p : <<p, t>> \in Dialing <=> p \in InSection /\ job[p].sid = t
  BY DEF Dialing
<1>2. \A t, p : <<p, t>> \in Dialing' <=> p \in InSection' /\ job'[p].sid = t
  BY DEF Dialing
<1> QED BY <1>1, <1>2 DEF Attended, Calm

\* A step that writes no row is calm.
LEMMA CalmSame == UNCHANGED row => Calm
  BY DEF Calm

\* Writing s calmly is calm.
LEMMA CalmWrite ==
  ASSUME row \in [Sessions -> Row], NEW s \in Sessions, NEW r \in Row, Save(s, r) \/ Update(s, r),
         \/ r.status \notin {"dialing", "connected"}
         \/ r.status = row[s].status /\ r.iface = row[s].iface
  PROVE  Calm
  BY DEF Calm, Save, Update, Row

\* The status of each row the manager writes.
LEMMA Edits ==
  ASSUME NEW r \in Row, NEW e \in {"authnak", "other"}, NEW ip \in Addrs
  PROVE  /\ Failed(r, e).status = "error" /\ Connected(r, ip).status = "connected"
         /\ Connected(r, ip).iface
         /\ [r EXCEPT !.status = "disconnected", !.iface = FALSE, !.ip = NoAddr].status = "disconnected"
         /\ [r EXCEPT !.status = "disconnected", !.err = ""].status = "disconnected"
         /\ NewRow.status = "disconnected" /\ [NoRow EXCEPT !.status = "deleted"].status = "deleted"
  BY DEF Row, Failed, Connected, NewRow, NoRow

\* The updates of single columns leave status and iface alone.
LEMMA ColumnEdits ==
  ASSUME row \in [Sessions -> Row], NEW s \in Sessions, NEW ip \in Addrs, NEW n \in 0..MaxRetries,
         \/ Update(s, [row[s] EXCEPT !.paused = TRUE])
         \/ Update(s, [row[s] EXCEPT !.paused = FALSE])
         \/ Update(s, [row[s] EXCEPT !.auto = ~@])
         \/ Save(s, [row[s] EXCEPT !.due = TRUE])
         \/ Update(s, [row[s] EXCEPT !.ip = ip])
         \/ Update(s, [row[s] EXCEPT !.pub = ip])
         \/ Update(s, [row[s] EXCEPT !.tries = n, !.due = FALSE])
  PROVE  Calm
<1>1. ASSUME NEW r, r.status = row[s].status, r.iface = row[s].iface, Save(s, r) \/ Update(s, r)
      PROVE  Calm
  BY <1>1 DEF Calm, Save, Update
<1>2. row[s] \in Row
  OBVIOUS
<1>3. CASE Update(s, [row[s] EXCEPT !.paused = TRUE])
  BY <1>1, <1>2, <1>3 DEF Row
<1>4. CASE Update(s, [row[s] EXCEPT !.paused = FALSE])
  BY <1>1, <1>2, <1>4 DEF Row
<1>5. CASE Update(s, [row[s] EXCEPT !.auto = ~@])
  BY <1>1, <1>2, <1>5 DEF Row
<1>6. CASE Save(s, [row[s] EXCEPT !.due = TRUE])
  BY <1>1, <1>2, <1>6 DEF Row
<1>7. CASE Update(s, [row[s] EXCEPT !.ip = ip])
  BY <1>1, <1>2, <1>7 DEF Row
<1>8. CASE Update(s, [row[s] EXCEPT !.pub = ip])
  BY <1>1, <1>2, <1>8 DEF Row
<1>9. CASE Update(s, [row[s] EXCEPT !.tries = n, !.due = FALSE])
  BY <1>1, <1>2, <1>9 DEF Row
<1> QED BY <1>3, <1>4, <1>5, <1>6, <1>7, <1>8, <1>9

\* The steps of goroutines outside the dial section write rows calmly.
LEMMA StepCalm ==
  ASSUME TypeOK, NEW p \in Procs,
         Hangup(p) \/ Rotate(p) \/ ReconcileApply(p) \/ CreateRetry(p) \/ CreateDone(p)
           \/ DeleteErase(p) \/ ReconnectDone(p) \/ RestoreDone(p)
  PROVE  Calm
<1> DEFINE s == job[p].sid
<1>0. row \in [Sessions -> Row] /\ job[p].ip \in Addrs /\ snap[p] \in Row /\ NoAddr \in Addrs
  BY Where DEF TypeOK, Addrs, Job
<1>1. s \in Sessions
  BY Where DEF TypeOK, Hangup, HangLoad, HangKill, HangSave, Rotate, RotateLock, RotateClear,
        RotateDone, AutoRotatePause, ReconcileApply, ApplyLock, ApplyRedial, ApplyRedialed,
        ApplyDemote, ApplyDemoted, ApplyRouting, CreateRetry, CreateDone, DeleteErase,
        ReconnectDone, RestoreDone
<1>2. row[s] \in Row /\ 0 \in 0..MaxRetries
  BY <1>0, <1>1, BoundsAssumption
<1> HIDE DEF s
<1>3. \/ UNCHANGED row
      \/ HangSave(p) \/ RotateClear(p) \/ AutoRotatePause(p) \/ ApplyDemoted(p) \/ ApplyRouting(p)
      \/ DeleteErase(p) \/ ReconnectDone(p)
  BY DEF Hangup, HangLoad, HangKill, Rotate, RotateLock, RotateDone, ReconcileApply, ApplyLock,
         ApplyRedial, ApplyRedialed, ApplyDemote, CreateRetry, CreateDone, RestoreDone
<1>a. CASE HangSave(p)
  <2> DEFINE r == [snap[p] EXCEPT !.status = "disconnected", !.iface = FALSE, !.ip = NoAddr]
  <2>1. r \in Row /\ r.status = "disconnected" /\ Save(s, r)
    BY <1>a, <1>0, <1>2, RowTyped, Edits DEF HangSave, s
  <2> HIDE DEF r
  <2> QED BY <2>1, <1>0, <1>1, CalmWrite
<1>b. CASE RotateClear(p)
  <2> DEFINE r == [row[s] EXCEPT !.status = "disconnected", !.err = ""]
  <2>1. r \in Row /\ r.status = "disconnected" /\ Update(s, r)
    BY <1>b, <1>0, <1>2, RowTyped, Edits DEF RotateClear, s
  <2> HIDE DEF r
  <2> QED BY <2>1, <1>0, <1>1, CalmWrite
<1>c. CASE AutoRotatePause(p)
  BY <1>c, <1>0, <1>1, <1>2, ColumnEdits DEF AutoRotatePause, s
<1>d. CASE ApplyDemoted(p)
  <2> DEFINE r == Failed(row[s], "other")
  <2>1. r \in Row /\ r.status = "error" /\ Update(s, r)
    BY <1>d, <1>0, <1>2, RowTyped, Edits DEF ApplyDemoted, s
  <2> HIDE DEF r
  <2> QED BY <2>1, <1>0, <1>1, CalmWrite
<1>e. CASE ApplyRouting(p)
  BY <1>e, <1>0, <1>1, <1>2, ColumnEdits, CalmSame DEF ApplyRouting, s
<1>f. CASE DeleteErase(p)
  <2> DEFINE r == [NoRow EXCEPT !.status = "deleted"]
  <2>1. r \in Row /\ r.status = "deleted" /\ Save(s, r)
    BY <1>f, <1>0, <1>2, RowTyped, Edits DEF DeleteErase, s
  <2> HIDE DEF r
  <2> QED BY <2>1, <1>0, <1>1, CalmWrite
<1>g. CASE ReconnectDone(p)
  <2>1. job[p].tries \in 0..MaxRetries
    <3>1. job[p].tries \in 0..(MaxRetries + CreateRetries) /\ job[p].tries <= MaxRetries
      BY <1>g, Where DEF TypeOK, ReconnectDone, Job
    <3> QED BY <3>1, BoundsAssumption
  <2> QED BY <2>1, <1>g, <1>0, <1>1, ColumnEdits, CalmSame DEF ReconnectDone, s
<1> QED BY <1>3, <1>a, <1>b, <1>c, <1>d, <1>e, <1>f, <1>g, CalmSame

\* Starting a goroutine writes rows calmly.
LEMMA RequestCalm ==
  ASSUME TypeOK, NEW p \in Procs, NEW s \in Sessions, Request(p, s)
  PROVE  Calm
<1>1. CASE CreateRequest(p, s)
  <2>1. NewRow \in Row /\ NewRow.status = "disconnected" /\ Save(s, NewRow)
    BY <1>1, NullsTyped DEF CreateRequest, NewRow, NoRow
  <2> QED BY <2>1, CalmWrite DEF TypeOK
<1>2. CASE ~CreateRequest(p, s)
  BY <1>2, CalmSame DEF Request, RotateRequest, DeleteRequest, AutoRotateDue, Reconcile, RestoreDial
<1> QED BY <1>1, <1>2

\* Handlers, ticks and the world outside write rows calmly.
LEMMA OutsideCalm ==
  ASSUME TypeOK, NEW s \in Sessions, Outside(s)
  PROVE  Calm
<1>0. row \in [Sessions -> Row] /\ row[s] \in Row /\ 0 \in 0..MaxRetries /\ NoAddr \in Addrs
  BY BoundsAssumption DEF TypeOK, Addrs
<1>1. CASE SetSessionAutoRotate(s) \/ ResumeAutoRotate(s) \/ PauseOver(s)
  <2>1. PauseOver(s) => Save(s, [row[s] EXCEPT !.due = TRUE])
    BY DEF PauseOver, Save
  <2> QED BY <2>1, <1>1, <1>0, ColumnEdits DEF SetSessionAutoRotate, ResumeAutoRotate
<1>2. CASE RestoreAdopt(s)
  <2>1. UNCHANGED row \/ (net[s].live \in Addrs /\ Update(s, [row[s] EXCEPT !.ip = net[s].live]))
    BY <1>2 DEF RestoreAdopt, TypeOK, Net
  <2> QED BY <2>1, <1>0, ColumnEdits, CalmSame
<1>3. CASE LinkDrop(s) \/ LinkReturn(s) \/ AddrDrift(s) \/ AddrArrives(s)
  BY <1>3, CalmSame DEF LinkDrop, LinkReturn, AddrDrift, AddrArrives
<1> QED BY <1>1, <1>2, <1>3 DEF Outside

\* The public address probe writes rows calmly.
LEMMA ProbeCalm ==
  ASSUME TypeOK, NEW e \in probes, ProbeMeasure(e) \/ ProbeWrite(e)
  PROVE  Calm
<1>0. /\ row \in [Sessions -> Row] /\ e.sid \in Sessions /\ e.ip \in Addrs /\ row[e.sid] \in Row
      /\ 0 \in 0..MaxRetries
  BY BoundsAssumption DEF TypeOK, Probe
<1>1. CASE ProbeWrite(e)
  BY <1>1, <1>0, ColumnEdits DEF ProbeWrite
<1> QED BY <1>1, CalmSame DEF ProbeMeasure

\* Every step of Dial keeps Attended: a row in dialing has its goroutine.
LEMMA DialAttends ==
  ASSUME IInv, IInv', Attended, NEW p \in Procs, Dial(p)
  PROVE  Attended'
<1> DEFINE s == job[p].sid
<1>0. /\ row \in [Sessions -> Row] /\ snap[p] \in Row /\ job[p].ip \in Addrs /\ NoAddr \in Addrs
  BY Where DEF IInv, TypeOK, Addrs, Job
<1>1. CASE DialRefused(p) \/ DialLoad(p) \/ DialInside(p) \/ LockLine(p)
  <2>1. UNCHANGED row
    BY <1>1 DEF DialRefused, DialLoad, LockLine, DialInside, DialCall, PppdUp, DialPollUp,
                DialPollBad, DialRoute
  <2> QED BY <2>1, <1>1, DialQuiet, LineLocks, CalmSame, CalmAttended DEF IInv
<1>2. CASE DialMark(p)
  <2>1. /\ InSection' = InSection \cup {p} /\ Others(p) /\ job'[p] = job[p] /\ s \in Sessions
    BY <1>2, EnterLocks, GateEntered DEF IInv, DialMark, InSection, Section
  <2>2. snap'[p] = [snap[p] EXCEPT !.status = "dialing", !.err = ""]
    BY <1>2 DEF DialMark, IInv, TypeOK, ControlOK
  <2>3. snap'[p].status = "dialing" /\ row' = [row EXCEPT ![s] = snap'[p]]
    BY <2>2, <1>2, <1>0 DEF DialMark, Save, Row
  <2>4. \A q \in InSection : job'[q].sid = job[q].sid
    BY <2>1 DEF Others, InSection
  <2> QED BY <2>1, <2>3, <2>4, <1>0 DEF Attended
<1>3. CASE DialPrepFail(p) \/ PppdFail(p, "other") \/ PppdFail(p, "authnak")
           \/ DialGiveUp(p) \/ DialSave(p)
  <2>1. pc[p] \in Section
    BY <1>3 DEF DialPrepFail, PppdFail, DialGiveUp, DialSave, Section
  <2>2. \E e : \E r \in {Failed(snap[p], "other"), Failed(snap[p], "authnak"),
                         Connected(snap[p], job[p].ip)} : LeaveDial(p, r, e)
    BY <1>3 DEF DialPrepFail, PppdFail, DialGiveUp, DialSave
  <2>3. PICK r, e : LeaveDial(p, r, e) /\ (r.status = "error" \/ (r.status = "connected" /\ r.iface))
    BY <2>2, <1>0, Edits
  <2>4. InSection' = InSection \ {p} /\ Others(p) /\ s \in Sessions /\ row' = [row EXCEPT ![s] = r]
    BY <2>1, <2>3, LeaveLocks, GateLeft DEF IInv, LeaveDial, Save
  <2>5. \A q \in InSection \ {p} : job'[q].sid = job[q].sid
    BY <2>4 DEF Others, InSection
  <2>6. ASSUME NEW t \in Sessions, row'[t].status = "dialing"
        PROVE  \E q \in InSection' : job'[q].sid = t
    <3>1. t # s /\ row[t].status = "dialing"
      BY <2>3, <2>4, <2>6, <1>0
    <3>2. PICK q \in InSection : job[q].sid = t
      BY <3>1 DEF Attended
    <3> QED BY <3>1, <3>2, <2>4, <2>5
  <2> QED BY <2>3, <2>4, <2>6, <1>0 DEF Attended
<1> QED BY <1>1, <1>2, <1>3 DEF Dial, DialInside

\* Every step but a crash keeps Attended.
LEMMA AttendedKept ==
  ASSUME IInv, IInv', Attended, [Next]_vars, ~Crash
  PROVE  Attended'
<1>1. ASSUME NEW p \in Procs, Step(p) PROVE Attended'
  <2>1. CASE Dial(p)
    BY <2>1, DialAttends
  <2>2. CASE ~Dial(p)
    BY <2>2, <1>1, StepCalm, CalmAttended, HangupLocks, RotateLocks, ReconcileLocks, WorkerLocks
       DEF Step, IInv
  <2> QED BY <2>1, <2>2
<1>2. ASSUME NEW p \in Procs, NEW s \in Sessions, Request(p, s) PROVE Attended'
  BY <1>2, RequestCalm, RequestLocks, CalmAttended DEF IInv
<1>3. ASSUME NEW s \in Sessions, Outside(s) PROVE Attended'
  BY <1>3, OutsideCalm, BackgroundLocks, CalmAttended DEF IInv
<1>4. CASE AutoRotateTick \/ ReconnectScan \/ \E e \in queue : ReconnectNext(e)
  <2>1. UNCHANGED row
    BY <1>4 DEF AutoRotateTick, ReconnectScan, ReconnectNext
  <2> QED BY <2>1, <1>4, CalmSame, BackgroundLocks, CalmAttended DEF IInv
<1>5. ASSUME NEW e \in probes, ProbeMeasure(e) \/ ProbeWrite(e) PROVE Attended'
  BY <1>5, ProbeCalm, BackgroundLocks, CalmAttended DEF IInv
<1>6. CASE UNCHANGED vars
  BY <1>6 DEF vars, procs, Attended, Dialing, InSection
<1> QED BY <1>1, <1>2, <1>3, <1>4, <1>5, <1>6 DEF Next

\* While the process runs, a row in "dialing" always has a goroutine inside Dial
\* that will write its outcome, and a connected row names its interface, so
\* every row is in the reach of the watchdog.  (A restart breaks it: see
\* DialingResumed.)
THEOREM RowsAttended ==
  ASSUME "crash" \notin Events
  PROVE  Spec => []Attended
<1>1. Init => Attended
  <2> SUFFICES ASSUME Init, NEW s \in Sessions PROVE row[s].status = "unborn"
    BY DEF Attended
  <2> QED BY DEF Init, NoRow
<1>2. ~Crash
  BY DEF Crash, Happens
<1>3. IInv /\ IInv' /\ Attended /\ [Next]_vars => Attended'
  BY <1>2, AttendedKept
<1> QED BY <1>1, <1>3, Inductive, PTL DEF Spec

-----------------------------------------------------------------------------
(* Pauses. *)

\* A row that was never inserted is not paused.
Unpaused == \A s \in Sessions : row[s].status = "unborn" => ~row[s].paused

\* A step that keeps pauses, and changes no row that was never inserted into
\* another one of that kind.
Patient ==
  \A t \in Sessions :
    /\ PauseKept(t)
    /\ row'[t].status = "unborn" => row[t].status = "unborn" /\ row'[t].paused = row[t].paused

\* A step that writes no row is patient.
LEMMA PatientSame == UNCHANGED row => Patient
  BY DEF Patient, PauseKept

\* Writing s is patient if the row stays paused or s is one whose pause may end.
LEMMA PatientWrite ==
  ASSUME row \in [Sessions -> Row], NEW s \in Sessions, NEW r, Save(s, r) \/ Update(s, r),
         \/ r.paused = row[s].paused /\ r.status = row[s].status
         \/ r.status # "unborn" /\ (row[s].paused /\ ~r.paused => PauseKept(s))
  PROVE  Patient
<1>1. CASE UNCHANGED row
  BY <1>1, PatientSame
<1>2. CASE row' = [row EXCEPT ![s] = r]
  <2>1. row'[s] = r /\ \A t \in Sessions \ {s} : row'[t] = row[t]
    BY <1>2
  <2>2. PauseKept(s)
    BY <2>1 DEF PauseKept
  <2>3. \A t \in Sessions \ {s} : PauseKept(t)
    BY <2>1 DEF PauseKept
  <2> QED BY <2>1, <2>2, <2>3 DEF Patient
<1> QED BY <1>1, <1>2 DEF Save, Update

\* What the rows that the manager writes keep of the one they come from.
LEMMA PauseEdits ==
  ASSUME NEW r \in Row, NEW e \in {"authnak", "other"}, NEW ip \in Addrs, NEW n \in 0..MaxRetries
  PROVE  /\ Failed(r, e).paused = r.paused /\ Connected(r, ip).paused = r.paused
         /\ [r EXCEPT !.status = "dialing", !.err = ""].paused = r.paused
         /\ [r EXCEPT !.status = "dialing", !.err = ""].status = "dialing"
         /\ [r EXCEPT !.status = "disconnected", !.iface = FALSE, !.ip = NoAddr].paused = r.paused
         /\ [r EXCEPT !.status = "disconnected", !.err = ""].paused = r.paused
         /\ [r EXCEPT !.auto = ~@].paused = r.paused /\ [r EXCEPT !.auto = ~@].status = r.status
         /\ [r EXCEPT !.due = TRUE].paused = r.paused /\ [r EXCEPT !.due = TRUE].status = r.status
         /\ [r EXCEPT !.ip = ip].paused = r.paused /\ [r EXCEPT !.ip = ip].status = r.status
         /\ [r EXCEPT !.pub = ip].paused = r.paused /\ [r EXCEPT !.pub = ip].status = r.status
         /\ [r EXCEPT !.tries = n, !.due = FALSE].paused = r.paused
         /\ [r EXCEPT !.tries = n, !.due = FALSE].status = r.status
  BY DEF Row, Failed, Connected

\* A goroutine that saves the row it has read keeps pauses: if the row it read was
\* not paused it is the one that SavesUnpaused names.
LEMMA PatientSaver ==
  ASSUME TypeOK, NEW p \in Procs, pc[p] \in Locked \cup {"hangSave"}, pc'[p] # pc[p],
         NEW r, r.paused = snap[p].paused, r.status # "unborn", Save(job[p].sid, r)
  PROVE  Patient
<1>1. job[p].sid \in Sessions /\ row \in [Sessions -> Row]
  BY Where DEF TypeOK, Locked, Section
<1>2. ASSUME ~r.paused PROVE PauseKept(job[p].sid)
  BY <1>2 DEF PauseKept, SavesUnpaused
<1> QED BY <1>1, <1>2, PatientWrite

\* Dial writes its row from the one it has loaded.
LEMMA DialPatient ==
  ASSUME TypeOK, NEW p \in Procs, Dial(p)
  PROVE  Patient
<1>0. /\ pc \in [Procs -> Labels] /\ snap \in [Procs -> Row] /\ snap[p] \in Row
      /\ job[p].ip \in Addrs /\ 0 \in 0..MaxRetries /\ NoAddr \in Addrs
  <2>1. ControlOK /\ pc \in [Procs -> Labels] /\ snap \in [Procs -> Row]
    BY DEF TypeOK, ControlOK
  <2>2. job[p].ip \in Addrs
    BY <2>1, Where DEF Job
  <2> QED BY <2>1, <2>2, BoundsAssumption DEF Addrs
<1>1. CASE DialRefused(p) \/ DialLoad(p) \/ LockLine(p) \/ DialInside(p)
  <2>1. UNCHANGED row
    BY <1>1 DEF DialRefused, DialLoad, LockLine, DialInside, DialCall, PppdUp, DialPollUp,
                DialPollBad, DialRoute
  <2> QED BY <2>1, PatientSame
<1>2. CASE DialMark(p)
  <2>1. snap'[p] = [snap[p] EXCEPT !.status = "dialing", !.err = ""]
    BY <1>2, <1>0 DEF DialMark
  <2>2. snap'[p].paused = snap[p].paused /\ snap'[p].status = "dialing"
    BY <2>1, <1>0, PauseEdits
  <2>3. pc[p] \in Locked /\ pc'[p] # pc[p] /\ Save(job[p].sid, snap'[p])
    BY <1>2, <1>0 DEF DialMark, Goto, Locked
  <2> QED BY <2>2, <2>3, PatientSaver
<1>3. CASE DialPrepFail(p) \/ PppdFail(p, "other") \/ PppdFail(p, "authnak")
           \/ DialGiveUp(p) \/ DialSave(p)
  <2>1. pc[p] \in Section
    BY <1>3 DEF DialPrepFail, PppdFail, DialGiveUp, DialSave, Section
  <2>2. \E e : \E r \in {Failed(snap[p], "other"), Failed(snap[p], "authnak"),
                         Connected(snap[p], job[p].ip)} : LeaveDial(p, r, e)
    BY <1>3 DEF DialPrepFail, PppdFail, DialGiveUp, DialSave
  <2>3. PICK r, e : LeaveDial(p, r, e) /\ r.paused = snap[p].paused /\ r.status # "unborn"
    BY <2>2, <1>0, PauseEdits, Edits
  <2>4. pc'[p] # pc[p] /\ Save(job[p].sid, r)
    BY <2>1, <2>3, <1>0 DEF LeaveDial, Return, Goto, Section
  <2> QED BY <2>1, <2>3, <2>4, PatientSaver DEF Locked
<1> QED BY <1>1, <1>2, <1>3 DEF Dial, DialInside

\* The other steps of goroutines: Hangup writes the row it has loaded, the rest
\* writes columns other than the pause, or sets it, or deletes the row.
LEMMA StepPatient ==
  ASSUME TypeOK, NEW p \in Procs,
         Hangup(p) \/ Rotate(p) \/ ReconcileApply(p) \/ CreateRetry(p) \/ CreateDone(p)
           \/ DeleteErase(p) \/ ReconnectDone(p) \/ RestoreDone(p)
  PROVE  Patient
<1> DEFINE s == job[p].sid
<1>0. /\ row \in [Sessions -> Row] /\ job[p].ip \in Addrs /\ snap[p] \in Row /\ NoAddr \in Addrs
      /\ pc \in [Procs -> Labels]
  BY Where DEF TypeOK, ControlOK, Addrs, Job
<1>1. s \in Sessions
  BY Where DEF TypeOK, Hangup, HangLoad, HangKill, HangSave, Rotate, RotateLock, RotateClear,
        RotateDone, AutoRotatePause, ReconcileApply, ApplyLock, ApplyRedial, ApplyRedialed,
        ApplyDemote, ApplyDemoted, ApplyRouting, CreateRetry, CreateDone, DeleteErase,
        ReconnectDone, RestoreDone
<1>2. row[s] \in Row /\ 0 \in 0..MaxRetries
  BY <1>0, <1>1, BoundsAssumption
<1> HIDE DEF s
<1>3. \/ UNCHANGED row
      \/ HangSave(p) \/ RotateClear(p) \/ AutoRotatePause(p) \/ ApplyDemoted(p) \/ ApplyRouting(p)
      \/ DeleteErase(p) \/ ReconnectDone(p)
  BY DEF Hangup, HangLoad, HangKill, Rotate, RotateLock, RotateDone, ReconcileApply, ApplyLock,
         ApplyRedial, ApplyRedialed, ApplyDemote, CreateRetry, CreateDone, RestoreDone
<1>a. CASE HangSave(p)
  <2>1. PICK r : r.paused = snap[p].paused /\ r.status # "unborn" /\ Save(job[p].sid, r)
    BY <1>a, <1>0, <1>2, PauseEdits, Edits DEF HangSave
  <2>2. pc[p] = "hangSave" /\ pc'[p] # pc[p]
    BY <1>a, <1>0 DEF HangSave, Goto
  <2> QED BY <2>1, <2>2, PatientSaver
<1>b. CASE RotateClear(p)
  <2>1. PICK r : r.paused = row[s].paused /\ r.status # "unborn" /\ Update(s, r)
    BY <1>b, <1>0, <1>2, PauseEdits, Edits DEF RotateClear, s
  <2> QED BY <2>1, <1>0, <1>1, PatientWrite
<1>c. CASE AutoRotatePause(p)
  <2> DEFINE r == [row[s] EXCEPT !.paused = TRUE]
  <2>1. r.paused /\ r.status = row[s].status /\ Update(s, r)
    BY <1>c, <1>2 DEF AutoRotatePause, Row, s
  <2>2. row[s].status # "unborn" \/ UNCHANGED row
    BY <2>1 DEF Update, Exists
  <2> HIDE DEF r
  <2> QED BY <2>1, <2>2, <1>0, <1>1, PatientWrite, PatientSame
<1>d. CASE ApplyDemoted(p)
  <2>1. PICK r : r.paused = row[s].paused /\ r.status # "unborn" /\ Update(s, r)
    BY <1>d, <1>0, <1>2, PauseEdits, Edits DEF ApplyDemoted, s
  <2> QED BY <2>1, <1>0, <1>1, PatientWrite
<1>e. CASE ApplyRouting(p)
  <2>1. \/ UNCHANGED row
        \/ \E r : r.paused = row[s].paused /\ r.status = row[s].status /\ Update(s, r)
    BY <1>e, <1>0, <1>2, PauseEdits DEF ApplyRouting, s
  <2> QED BY <2>1, <1>0, <1>1, PatientWrite, PatientSame
<1>f. CASE DeleteErase(p)
  <2> DEFINE r == [NoRow EXCEPT !.status = "deleted"]
  <2>1. r.status = "deleted" /\ row' = [row EXCEPT ![s] = r]
    BY <1>f, <1>0, <1>2, Edits DEF DeleteErase, Save, s
  <2>2. PauseKept(s)
    BY <2>1, <1>0, <1>1 DEF PauseKept
  <2> HIDE DEF r
  <2> QED BY <2>1, <2>2, <1>0, <1>1, PatientWrite DEF Save
<1>g. CASE ReconnectDone(p)
  <2>1. job[p].tries \in 0..MaxRetries
    <3>1. job[p].tries \in 0..(MaxRetries + CreateRetries) /\ job[p].tries <= MaxRetries
      BY <1>g, Where DEF TypeOK, ReconnectDone, Job
    <3> QED BY <3>1, BoundsAssumption
  <2>2. \/ UNCHANGED row
        \/ \E r : r.paused = row[s].paused /\ r.status = row[s].status /\ Update(s, r)
    BY <1>g, <2>1, <1>0, <1>2, PauseEdits DEF ReconnectDone, s
  <2> QED BY <2>2, <1>0, <1>1, PatientWrite, PatientSame
<1> QED BY <1>3, <1>a, <1>b, <1>c, <1>d, <1>e, <1>f, <1>g, PatientSame

\* A request inserts a row that was not there, and so was not paused, or writes none.
LEMMA RequestPatient ==
  ASSUME TypeOK, Unpaused, NEW p \in Procs, NEW s \in Sessions, Request(p, s)
  PROVE  Patient
<1>1. CASE CreateRequest(p, s)
  <2>1. NewRow.status # "unborn" /\ Save(s, NewRow) /\ ~row[s].paused
    BY <1>1 DEF CreateRequest, NewRow, NoRow, Unpaused
  <2> QED BY <2>1, PatientWrite DEF TypeOK
<1>2. CASE ~CreateRequest(p, s)
  BY <1>2, PatientSame DEF Request, RotateRequest, DeleteRequest, AutoRotateDue, Reconcile, RestoreDial
<1> QED BY <1>1, <1>2

\* Of the handlers and the world outside only the resume ends a pause.
LEMMA OutsidePatient ==
  ASSUME TypeOK, NEW s \in Sessions, Outside(s)
  PROVE  Patient
<1>0. row \in [Sessions -> Row] /\ row[s] \in Row /\ 0 \in 0..MaxRetries /\ NoAddr \in Addrs
  BY BoundsAssumption DEF TypeOK, Addrs
<1>1. CASE SetSessionAutoRotate(s)
  BY <1>1, <1>0, PauseEdits, PatientWrite DEF SetSessionAutoRotate
<1>2. CASE ResumeAutoRotate(s)
  <2> DEFINE r == [row[s] EXCEPT !.paused = FALSE]
  <2>1. r.status = row[s].status /\ row[s].status # "unborn" /\ Update(s, r)
    BY <1>2, <1>0 DEF ResumeAutoRotate, Row, Exists
  <2>2. PauseKept(s)
    BY <1>2 DEF PauseKept
  <2> HIDE DEF r
  <2> QED BY <2>1, <2>2, <1>0, PatientWrite
<1>3. CASE PauseOver(s)
  <2>1. Save(s, [row[s] EXCEPT !.due = TRUE])
    BY <1>3 DEF PauseOver, Save
  <2> QED BY <2>1, <1>0, PauseEdits, PatientWrite
<1>4. CASE RestoreAdopt(s)
  <2>1. UNCHANGED row \/ (net[s].live \in Addrs /\ Update(s, [row[s] EXCEPT !.ip = net[s].live]))
    BY <1>4 DEF RestoreAdopt, TypeOK, Net
  <2>2. \/ UNCHANGED row
        \/ \E r : r.paused = row[s].paused /\ r.status = row[s].status /\ Update(s, r)
    BY <2>1, <1>0, PauseEdits
  <2> QED BY <2>2, <1>0, PatientWrite, PatientSame
<1>5. CASE LinkDrop(s) \/ LinkReturn(s) \/ AddrDrift(s) \/ AddrArrives(s)
  BY <1>5, PatientSame DEF LinkDrop, LinkReturn, AddrDrift, AddrArrives
<1> QED BY <1>1, <1>2, <1>3, <1>4, <1>5 DEF Outside

\* The public address probe writes its own column.
LEMMA ProbePatient ==
  ASSUME TypeOK, NEW e \in probes, ProbeMeasure(e) \/ ProbeWrite(e)
  PROVE  Patient
<1>0. /\ row \in [Sessions -> Row] /\ e.sid \in Sessions /\ e.ip \in Addrs /\ row[e.sid] \in Row
      /\ 0 \in 0..MaxRetries
  BY BoundsAssumption DEF TypeOK, Probe
<1>1. CASE ProbeWrite(e)
  <2>1. \E r : r.paused = row[e.sid].paused /\ r.status = row[e.sid].status /\ Update(e.sid, r)
    BY <1>1, <1>0, PauseEdits DEF ProbeWrite
  <2> QED BY <2>1, <1>0, PatientWrite
<1> QED BY <1>1, PatientSame DEF ProbeMeasure

\* Every step is patient.
LEMMA StepsPatient ==
  ASSUME TypeOK, Unpaused, [Next]_vars
  PROVE  Patient
<1>1. ASSUME NEW p \in Procs, Step(p) PROVE Patient
  BY <1>1, DialPatient, StepPatient DEF Step
<1>2. ASSUME NEW s \in Sessions, NEW p \in Procs, Request(p, s) PROVE Patient
  BY <1>2, RequestPatient
<1>3. ASSUME NEW s \in Sessions, Outside(s) PROVE Patient
  BY <1>3, OutsidePatient
<1>4. ASSUME NEW e \in probes, ProbeMeasure(e) \/ ProbeWrite(e) PROVE Patient
  BY <1>4, ProbePatient
<1>5. CASE \/ AutoRotateTick \/ ReconnectScan \/ \E e \in queue : ReconnectNext(e)
           \/ Crash \/ UNCHANGED vars
  BY <1>5, PatientSame DEF AutoRotateTick, ReconnectScan, ReconnectNext, Crash, vars
<1> QED BY <1>1, <1>2, <1>3, <1>4, <1>5 DEF Next

\* A paused auto-rotation goes on only when it is resumed or its session deleted,
\* but for the goroutine that saves a row it read before the pause: no dial,
\* rotation, reconnect, probe or restart ends a pause otherwise.
THEOREM PausesStick == Spec => PauseSticks
<1>1. Init => Unpaused
  <2>1. ~NoRow.paused
    BY DEF NoRow
  <2> QED BY <2>1 DEF Init, Unpaused
<1>2. TypeOK /\ Unpaused /\ [Next]_vars => Unpaused'
  BY StepsPatient DEF Patient, Unpaused
<1>3. TypeOK /\ Unpaused /\ [Next]_vars => [PausesKept]_vars
  BY StepsPatient DEF Patient, PausesKept
<1> QED BY <1>1, <1>2, <1>3, TypeCorrect, PTL DEF Spec, PauseSticks

-----------------------------------------------------------------------------
(* Hangups. *)

\* A step of a goroutine says where that goroutine goes.
LEMMA StepGoes ==
  ASSUME NEW p \in Procs, Step(p)
  PROVE  \E l : Goto(p, l)
<1>1. CASE Dial(p)
  BY <1>1 DEF Dial, DialRefused, DialLoad, LockLine, DialMark, DialPrepFail, DialCall, PppdUp,
        PppdFail, DialPollUp, DialPollBad, DialGiveUp, DialRoute, DialSave, LeaveDial, Return
<1>2. CASE Hangup(p)
  BY <1>2 DEF Hangup, HangLoad, HangKill, HangSave
<1>3. CASE Rotate(p)
  BY <1>3 DEF Rotate, RotateLock, RotateClear, RotateDone, AutoRotatePause, Finish
<1>4. CASE ReconcileApply(p)
  BY <1>4 DEF ReconcileApply, ApplyLock, ApplyRedial, ApplyRedialed, ApplyDemote, ApplyDemoted,
        ApplyRouting, Finish
<1>5. CASE CreateRetry(p) \/ CreateDone(p) \/ DeleteErase(p) \/ ReconnectDone(p) \/ RestoreDone(p)
  BY <1>5 DEF CreateRetry, CreateDone, DeleteErase, ReconnectDone, RestoreDone, Finish
<1> QED BY <1>1, <1>2, <1>3, <1>4, <1>5 DEF Step

\* The steps of a goroutine at one of the two kills of Hangup.
LEMMA HangSteps ==
  ASSUME NEW p \in Procs, Step(p), pc[p] \in {"hang", "hangKill"}
  PROVE  HangLoad(p) \/ HangKill(p)
<1>1. ~Dial(p)
  BY DEF Dial, DialRefused, DialLoad, LockLine, DialMark, DialPrepFail, DialCall, PppdUp,
        PppdFail, DialPollUp, DialPollBad, DialGiveUp, DialRoute, DialSave
<1>2. ~Rotate(p) /\ ~HangSave(p)
  BY DEF HangSave, Rotate, RotateLock, RotateClear, RotateDone, AutoRotatePause
<1>3. ~ReconcileApply(p)
  BY DEF ReconcileApply, ApplyLock, ApplyRedial, ApplyRedialed, ApplyDemote, ApplyDemoted,
         ApplyRouting
<1>4. ~(CreateRetry(p) \/ CreateDone(p) \/ DeleteErase(p) \/ ReconnectDone(p) \/ RestoreDone(p))
  BY DEF CreateRetry, CreateDone, DeleteErase, ReconnectDone, RestoreDone
<1> QED BY <1>1, <1>2, <1>3, <1>4 DEF Step, Hangup

\* But for a restart, only the goroutine itself leaves the kills of Hangup.
LEMMA OnlyHangup ==
  ASSUME ControlOK, [Next]_vars, ~Crash, NEW p \in Procs,
         pc[p] \in {"hang", "hangKill"}, pc'[p] # pc[p]
  PROVE  HangLoad(p) \/ HangKill(p)
<1>0. pc \in [Procs -> Labels] /\ Watchdog \in Procs
  BY ProcsAssumption DEF ControlOK
<1>1. ASSUME NEW q \in Procs, Step(q) PROVE q = p
  BY <1>0, <1>1, StepGoes DEF Goto
<1>2. ASSUME NEW q \in Procs, NEW s \in Sessions, Request(q, s) PROVE FALSE
  <2>1. pc[q] = "idle" /\ \E l : Goto(q, l)
    BY <1>2 DEF Request, CreateRequest, RotateRequest, DeleteRequest, AutoRotateDue, Reconcile,
          RestoreDial, Start
  <2> QED BY <2>1, <1>0 DEF Goto
<1>3. ASSUME NEW e \in queue, ReconnectNext(e) PROVE FALSE
  <2>1. Watchdog # p /\ Goto(Watchdog, "dial")
    BY <1>3 DEF ReconnectNext
  <2> QED BY <2>1, <1>0 DEF Goto
<1>4. ~\E s \in Sessions : Outside(s)
  BY DEF Outside, SetSessionAutoRotate, ResumeAutoRotate, PauseOver, RestoreAdopt, LinkDrop,
         LinkReturn, AddrDrift, AddrArrives, procs
<1>5. ~AutoRotateTick /\ ~ReconnectScan /\ ~UNCHANGED vars
  BY DEF AutoRotateTick, ReconnectScan, vars, procs
<1>6. ~\E e \in probes : ProbeMeasure(e) \/ ProbeWrite(e)
  BY DEF ProbeMeasure, ProbeWrite, procs
<1> QED BY <1>1, <1>2, <1>3, <1>4, <1>5, <1>6, HangSteps DEF Next

\* While the process runs, and as long as no session's id begins with the digits of
\* another's (the sessions 1 to 9, say), Hangup kills no pppd but that of its own
\* session: what HangupIsLocal is violated by is the pattern of pkill alone.
THEOREM HangupsLocal ==
  ASSUME \A s \in Sessions : Killed(s) \subseteq {s}, "crash" \notin Events
  PROVE  Spec => HangupIsLocal
<1> DEFINE Local ==
      \A p \in Procs, t \in Sessions :
        pc[p] \in {"hang", "hangKill"} /\ pc'[p] # pc[p] /\ t # job[p].sid
          => net'[t].pppd = net[t].pppd
<1>1. ~Crash
  BY DEF Crash, Happens
<1>2. TypeOK /\ [Next]_vars => Local
  <2> SUFFICES ASSUME TypeOK, [Next]_vars, NEW p \in Procs, NEW t \in Sessions,
                      pc[p] \in {"hang", "hangKill"}, pc'[p] # pc[p], t # job[p].sid
               PROVE  net'[t].pppd = net[t].pppd
    OBVIOUS
  <2>1. HangLoad(p) \/ HangKill(p)
    BY <1>1, OnlyHangup DEF TypeOK
  <2>2. job[p].sid \in Sessions /\ net \in [Sessions -> Net]
    BY DEF TypeOK, ControlOK
  <2>3. AfterKill(job[p].sid)[t] = net[t]
    BY <2>2 DEF AfterKill
  <2> QED BY <2>1, <2>2, <2>3 DEF HangLoad, HangKill, HangupPeer, AfterKill
<1> QED BY <1>2, TypeCorrect, PTL DEF Spec, HangupIsLocal

=============================================================================
