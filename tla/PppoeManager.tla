---------------------------- MODULE PppoeManager ----------------------------
(* The PPPoE manager (internal/pppoe/manager.go with routing.go, ifquery.go  *)
(* and the session handlers that drive it): goroutines that dial, hang up,   *)
(* rotate, reconcile and restore PPPoE sessions, the database rows they read *)
(* and save back whole, the kernel state they change, and the locks between  *)
(* them.  One action is one stretch of a goroutine between two points where  *)
(* the others can be noticed: a lock, a sleep, an external command, a        *)
(* database statement.                                                       *)
EXTENDS Integers, FiniteSets

CONSTANTS
  Sessions,        \* session ids that may ever be created
  Lines,           \* physical lines
  LineOf,          \* the line of each session
  Procs,           \* goroutines: request handlers and spawned workers
  Watchdog,        \* the goroutine of StartWatchdog, one of Procs
  NoProc,          \* the owner of a free mutex
  DialConcurrent,  \* capacity of dialSem (BESTPHONE_PPPOE_DIAL_CONCURRENT)
  AutoRotateCap,   \* capacity of the semaphore in autoRotateOnce
  MaxRetries,      \* setting reconnect_max_retries
  CreateRetries,   \* maxRetries of CreateLineSessionsBulk
  PublicAddrs,     \* addresses the BRAS hands out
  Outcomes,        \* how a pppd call may end (bound of a run)
  Events,          \* which outside events a run exercises (bound of a run)
  MaxEvents        \* how many of them may happen (bound of a run)

NoAddr == "none"   \* the empty string in an address column or an interface without IPv4
Down   == "down"   \* IsIfaceUp is false
Cgnat  == "cgnat"  \* any address for which IsBlockedISPIp is true
Addrs  == PublicAddrs \cup {NoAddr, Cgnat}

ASSUME ProcsAssumption == IsFiniteSet(Procs) /\ Watchdog \in Procs /\ NoProc \notin Procs
ASSUME IdsAssumption == Sessions \subseteq Nat \ {0} /\ LineOf \in [Sessions -> Lines]
ASSUME BoundsAssumption ==
  /\ DialConcurrent \in Nat \ {0} /\ AutoRotateCap \in Nat \ {0}
  /\ MaxRetries \in Nat \ {0} /\ CreateRetries \in Nat /\ MaxEvents \in Nat
ASSUME AddrsAssumption == PublicAddrs \cap {NoAddr, Down, Cgnat} = {}

VARIABLES
  row,         \* table sessions
  net,         \* pppd processes, interfaces and policy routing of each session
  lineOwner,   \* Manager.lineMu
  dialSem,     \* tokens in Manager.dialSem
  rotateOwner, \* Manager.rotateMu
  pc, job,     \* where each goroutine is, and what it was asked to do
  snap,        \* the models.Session a goroutine holds in memory
  queue,       \* the sessions reconnectErrorSessions still has to dial
  rotations,   \* the sessions autoRotateOnce still has to rotate
  booting,     \* the sessions RestoreState still has to visit
  probes,      \* running probePublicIP goroutines
  events,      \* outside events left
  nak          \* history: the BRAS refused this login and no operator has rotated since

locks == <<lineOwner, dialSem, rotateOwner>>
procs == <<pc, job, snap>>
lists == <<queue, rotations>>
bg    == <<lists, booting, probes, events, nak>>
vars  == <<row, net, locks, procs, bg>>

Statuses == {"unborn", "disconnected", "dialing", "connected", "error", "deleted"}
Reasons  == {"", "authnak", "other"}
Row == [status : Statuses, err : Reasons, iface : BOOLEAN, ip : Addrs, pub : Addrs,
        tries : 0..MaxRetries, due : BOOLEAN, auto : BOOLEAN, paused : BOOLEAN]
NoRow  == [status |-> "unborn", err |-> "", iface |-> FALSE, ip |-> NoAddr, pub |-> NoAddr,
           tries |-> 0, due |-> TRUE, auto |-> FALSE, paused |-> FALSE]
NewRow == [NoRow EXCEPT !.status = "disconnected"]

Net == [pppd : BOOLEAN, child : BOOLEAN, live : Addrs \cup {Down}, rule : Addrs, tbl : BOOLEAN]
NoNet == [pppd |-> FALSE, child |-> FALSE, live |-> Down, rule |-> NoAddr, tbl |-> FALSE]

Acts  == {"noop", "redial", "demote", "update", "reapply", "retry"}
Kinds == {"none", "create", "rotate", "autorotate", "delete", "reconnect", "reconcile", "restore"}
Job   == [kind : Kinds, sid : Sessions \cup {0}, act : Acts, ip : Addrs,
          tries : 0..(MaxRetries + CreateRetries), err : {"", "ok", "refused", "authnak", "other"}]
NoJob == [kind |-> "none", sid |-> 0, act |-> "noop", ip |-> NoAddr, tries |-> 0, err |-> ""]

Section == {"prep", "call", "poll", "giveup", "route", "save"}   \* holding a dialSem token
Locked  == Section \cup {"sem"}                                   \* holding the line's mutex
Labels  == Locked \cup {"idle", "dial", "line", "dialed", "rotLock", "hang", "hangKill",
                        "hangSave", "erase", "settle", "pause", "try", "apply", "demote"}
Probe   == [sid : Sessions, ip : Addrs]

\* Where a goroutine of each kind can be.
DialPath   == Locked \cup {"dial", "line", "dialed"}
HangPath   == {"hang", "hangKill", "hangSave"}
RotatePath == DialPath \cup HangPath \cup {"rotLock", "settle"}
Path == [k \in Kinds |->
  CASE k = "none"       -> {"idle"}
    [] k = "rotate"     -> RotatePath
    [] k = "autorotate" -> RotatePath \cup {"pause"}
    [] k = "delete"     -> HangPath \cup {"erase"}
    [] k = "reconcile"  -> DialPath \cup {"try", "apply", "demote"}
    [] OTHER            -> DialPath]

ControlOK ==
  /\ pc \in [Procs -> Labels] /\ job \in [Procs -> Job] /\ snap \in [Procs -> Row]
  /\ \A p \in Procs : /\ pc[p] \in Path[job[p].kind]
                      /\ pc[p] # "idle" => job[p].sid \in Sessions
                      /\ job[p].kind = "reconnect" => job[p].tries <= MaxRetries

\* Values have their types, and each goroutine is on the path of its kind.
TypeOK ==
  /\ row \in [Sessions -> Row] /\ net \in [Sessions -> Net]
  /\ lineOwner \in [Lines -> Procs \cup {NoProc}]
  /\ dialSem \in 0..DialConcurrent
  /\ rotateOwner \in [Sessions -> Procs \cup {NoProc}]
  /\ ControlOK
  /\ queue \subseteq [sid : Sessions, tries : 0..(MaxRetries - 1)] /\ rotations \subseteq Sessions
  /\ booting \subseteq Sessions /\ probes \subseteq Probe
  /\ events \in 0..MaxEvents /\ nak \in [Sessions -> BOOLEAN]

Init ==
  /\ row = [s \in Sessions |-> NoRow] /\ net = [s \in Sessions |-> NoNet]
  /\ lineOwner = [l \in Lines |-> NoProc] /\ dialSem = 0
  /\ rotateOwner = [s \in Sessions |-> NoProc]
  /\ pc = [p \in Procs |-> "idle"] /\ job = [p \in Procs |-> NoJob]
  /\ snap = [p \in Procs |-> NoRow]
  /\ queue = {} /\ rotations = {} /\ booting = {} /\ probes = {}
  /\ events = MaxEvents /\ nak = [s \in Sessions |-> FALSE]

-----------------------------------------------------------------------------
(* Rows, interfaces and locks. *)

Exists(s) == row[s].status \notin {"unborn", "deleted"}

\* gorm.Save: every column, and an insert when the row is gone.
Save(s, r) == row' = [row EXCEPT ![s] = r]
\* db.Model(..).Where("id = ?").Update(..): touches an existing row only.
Update(s, r) == row' = IF Exists(s) THEN [row EXCEPT ![s] = r] ELSE row

Goto(p, l) == pc' = [pc EXCEPT ![p] = l]
Finish(p) ==
  /\ Goto(p, "idle")
  /\ job' = [job EXCEPT ![p] = NoJob] /\ snap' = [snap EXCEPT ![p] = NoRow]
Unlock(s) == rotateOwner' = [rotateOwner EXCEPT ![s] = NoProc]

\* pkill -f "pppd call bp-sess-<s>": the pattern is not anchored, so it matches
\* every session whose decimal id starts with the digits of s.
Killed(s) == {t \in Sessions : \E k \in 0..6 : t \div (10 ^ k) = s}
Dead(n) == [n EXCEPT !.pppd = FALSE, !.child = FALSE, !.live = Down, !.tbl = FALSE]
AfterKill(s) == [t \in Sessions |-> IF t \in Killed(s) THEN Dead(net[t]) ELSE net[t]]
HangupPeer(s) == net' = AfterKill(s)
Unrouted(n) == [n EXCEPT !.rule = NoAddr, !.tbl = FALSE]

\* ApplyReplyRouting: refuses an empty address, cleans the table, and fails at
\* "ip route replace" when the interface is not there.
CanRoute(s, ip) == ip # NoAddr /\ net[s].live # Down
Routed(s, ip) ==
  CASE ip = NoAddr       -> net[s]
    [] net[s].live = Down -> Unrouted(net[s])
    [] OTHER              -> [net[s] EXCEPT !.rule = ip, !.tbl = TRUE]
ApplyReplyRouting(s, ip) == net' = [net EXCEPT ![s] = Routed(s, ip)]

RoutingHealthy(s, ip) ==
  ip # NoAddr /\ (\E t \in Sessions : net[t].rule = ip) /\ net[s].tbl

\* An address the BRAS may assign to s now.
Assignable(s) == {a \in PublicAddrs : \A t \in Sessions \ {s} : net[t].live # a}

\* One more outside event of the kinds this run exercises.
Happens(e) == e \in Events /\ events > 0 /\ events' = events - 1

AddProbe(s) ==
  probes' = IF "probe" \in Events THEN probes \cup {[sid |-> s, ip |-> NoAddr]} ELSE probes

-----------------------------------------------------------------------------
(* Dial. *)

LockedOut(r) == r.status = "error" /\ r.err = "authnak"

Return(p, e) == Goto(p, "dialed") /\ job' = [job EXCEPT ![p].err = e]

DialRefused(p) ==
  /\ pc[p] = "dial"
  /\ ~Exists(job[p].sid) \/ LockedOut(row[job[p].sid])
  /\ Return(p, "refused")
  /\ UNCHANGED <<row, net, locks, snap, bg>>

DialLoad(p) ==
  /\ pc[p] = "dial"
  /\ Exists(job[p].sid) /\ ~LockedOut(row[job[p].sid])
  /\ snap' = [snap EXCEPT ![p] = row[job[p].sid]]
  /\ Goto(p, "line")
  /\ UNCHANGED <<row, net, locks, job, bg>>

\* Variant: dialling without waiting for the line.
LockLine_NoWait(p) ==
  /\ pc[p] = "line"
  /\ lineOwner' = [lineOwner EXCEPT ![LineOf[job[p].sid]] = p]
  /\ Goto(p, "sem")
  /\ UNCHANGED <<row, net, dialSem, rotateOwner, job, snap, bg>>

LockLine(p) ==
  /\ pc[p] = "line" /\ lineOwner[LineOf[job[p].sid]] = NoProc
  /\ lineOwner' = [lineOwner EXCEPT ![LineOf[job[p].sid]] = p]
  /\ Goto(p, "sem")
  /\ UNCHANGED <<row, net, dialSem, rotateOwner, job, snap, bg>>

\* Variant: a token is taken without waiting for one.
DialMark_NoWait(p) ==
  /\ pc[p] = "sem" /\ dialSem' = dialSem + 1
  /\ snap' = [snap EXCEPT ![p] = [@ EXCEPT !.status = "dialing", !.err = ""]]
  /\ Save(job[p].sid, snap'[p])
  /\ Goto(p, "prep")
  /\ UNCHANGED <<net, lineOwner, rotateOwner, job, bg>>

\* dialSem <- token; setStatus(&sess, dialing, "").
DialMark(p) ==
  /\ pc[p] = "sem" /\ dialSem < DialConcurrent
  /\ dialSem' = dialSem + 1
  /\ snap' = [snap EXCEPT ![p] = [@ EXCEPT !.status = "dialing", !.err = ""]]
  /\ Save(job[p].sid, snap'[p])
  /\ Goto(p, "prep")
  /\ UNCHANGED <<net, lineOwner, rotateOwner, job, bg>>

\* Variant: returning without the deferred release of the token.
LeaveDial_KeepToken(p, r, e) ==
  /\ Save(job[p].sid, r)
  /\ lineOwner' = [lineOwner EXCEPT ![LineOf[job[p].sid]] = NoProc]
  /\ snap' = [snap EXCEPT ![p] = NoRow]
  /\ Return(p, e)
  /\ UNCHANGED <<dialSem, rotateOwner>>

\* The deferred unlocks run after the last Save of Dial.
LeaveDial(p, r, e) ==
  /\ Save(job[p].sid, r)
  /\ dialSem' = dialSem - 1
  /\ lineOwner' = [lineOwner EXCEPT ![LineOf[job[p].sid]] = NoProc]
  /\ snap' = [snap EXCEPT ![p] = NoRow]
  /\ Return(p, e)
  /\ UNCHANGED rotateOwner

\* Variant: the reason is recorded, the status is not.
Failed_ReasonOnly(r, e) == [r EXCEPT !.err = e]
Failed(r, e) == [r EXCEPT !.status = "error", !.err = e]
\* Variant: a dial that succeeds ends the pause, too.
Connected_Resumes(r, ip) ==
  [r EXCEPT !.status = "connected", !.err = "", !.iface = TRUE, !.ip = ip,
            !.tries = 0, !.due = TRUE, !.paused = FALSE]
Connected(r, ip) ==
  [r EXCEPT !.status = "connected", !.err = "", !.iface = TRUE, !.ip = ip,
            !.tries = 0, !.due = TRUE]

\* ensureMacvlan or WritePeerFile failed.
DialPrepFail(p) ==
  /\ pc[p] = "prep" /\ "prepfail" \in Outcomes
  /\ LeaveDial(p, Failed(snap[p], "other"), "other")
  /\ UNCHANGED <<net, bg>>

DialCall(p) ==
  /\ pc[p] = "prep"
  /\ net' = [net EXCEPT ![job[p].sid].child = TRUE]
  /\ Goto(p, "call")
  /\ UNCHANGED <<row, locks, job, snap, bg>>

\* When another pppd of the session already holds the unit, that interface
\* keeps its address.
Up(n, a) == [n EXCEPT !.child = FALSE, !.pppd = TRUE, !.live = IF n.live = Down THEN a ELSE n.live]

\* pppd detaches with the link up.
PppdUp(p) ==
  LET s == job[p].sid IN
  /\ pc[p] = "call" /\ net[s].child
  /\ \E a \in {a \in Assignable(s) : "up" \in Outcomes} \cup ({Cgnat, NoAddr} \cap Outcomes) :
       net' = [net EXCEPT ![s] = Up(@, a)]
  /\ Goto(p, "poll")
  /\ UNCHANGED <<row, locks, job, snap, bg>>

\* pppd exits with an error, is killed by a hangup, or runs into dialTimeout.
PppdFail(p, e) ==
  LET s == job[p].sid IN
  /\ pc[p] = "call"
  /\ e = "authnak" => net[s].child /\ "authnak" \in Outcomes
  /\ net' = [net EXCEPT ![s].child = FALSE]
  /\ nak' = [nak EXCEPT ![s] = @ \/ e = "authnak"]
  /\ LeaveDial(p, Failed(snap[p], e), e)
  /\ UNCHANGED <<lists, booting, probes, events>>

DialPollUp(p) ==
  LET s == job[p].sid IN
  /\ pc[p] = "poll" /\ net[s].live \notin {Down, Cgnat}
  /\ job' = [job EXCEPT ![p].ip = net[s].live]
  /\ Goto(p, "route")
  /\ UNCHANGED <<row, net, locks, snap, bg>>

\* The interface stayed down for 15 s, or has a blocked address.
DialPollBad(p) ==
  /\ pc[p] = "poll" /\ net[job[p].sid].live \in {Down, Cgnat}
  /\ HangupPeer(job[p].sid)
  /\ Goto(p, "giveup")
  /\ UNCHANGED <<row, locks, job, snap, bg>>

DialGiveUp(p) ==
  /\ pc[p] = "giveup"
  /\ HangupPeer(job[p].sid)
  /\ LeaveDial(p, Failed(snap[p], "other"), "other")
  /\ UNCHANGED bg

DialRoute(p) ==
  /\ pc[p] = "route"
  /\ ApplyReplyRouting(job[p].sid, job[p].ip)
  /\ Goto(p, "save")
  /\ UNCHANGED <<row, locks, job, snap, bg>>

DialSave(p) ==
  /\ pc[p] = "save"
  /\ LeaveDial(p, Connected(snap[p], job[p].ip), "ok")
  /\ AddProbe(job[p].sid)
  /\ UNCHANGED <<net, lists, booting, events, nak>>

Dial(p) ==
  \/ DialRefused(p) \/ DialLoad(p) \/ LockLine(p) \/ DialMark(p)
  \/ DialPrepFail(p) \/ DialCall(p) \/ PppdUp(p) \/ PppdFail(p, "other")
  \/ PppdFail(p, "authnak") \/ DialPollUp(p) \/ DialPollBad(p) \/ DialGiveUp(p)
  \/ DialRoute(p) \/ DialSave(p)

-----------------------------------------------------------------------------
(* Hangup: takes no lock. *)

HangLoad(p) ==
  LET s == job[p].sid IN
  /\ pc[p] = "hang"
  /\ IF Exists(s)
     THEN /\ snap' = [snap EXCEPT ![p] = row[s]]
          /\ HangupPeer(s)                          \* pkill -TERM
          /\ Goto(p, "hangKill")
     ELSE /\ Goto(p, IF job[p].kind = "delete" THEN "erase" ELSE "settle")
          /\ UNCHANGED <<net, snap>>
  /\ UNCHANGED <<row, locks, job, bg>>

\* 0.8 s later: pkill -KILL, RemoveReplyRouting, ip link set down.
HangKill(p) ==
  LET s == job[p].sid IN
  /\ pc[p] = "hangKill"
  /\ net' = [AfterKill(s) EXCEPT ![s] = Unrouted(@)]
  /\ Goto(p, "hangSave")
  /\ UNCHANGED <<row, locks, job, snap, bg>>

HangSave(p) ==
  /\ pc[p] = "hangSave"
  /\ Save(job[p].sid, [snap[p] EXCEPT !.status = "disconnected", !.iface = FALSE, !.ip = NoAddr])
  /\ Goto(p, IF job[p].kind = "delete" THEN "erase" ELSE "settle")
  /\ snap' = [snap EXCEPT ![p] = NoRow]
  /\ UNCHANGED <<net, locks, job, bg>>

Hangup(p) == HangLoad(p) \/ HangKill(p) \/ HangSave(p)

-----------------------------------------------------------------------------
(* Rotate. *)

\* A goroutine of kind k is started for session s.
Start(p, k, s, l) ==
  /\ pc[p] = "idle" /\ p # Watchdog /\ booting = {}
  /\ job' = [job EXCEPT ![p] = [NoJob EXCEPT !.kind = k, !.sid = s]]
  /\ Goto(p, l)

\* POST /sessions/:id/rotate, or one goroutine of RotateBatch.
RotateRequest(p, s) ==
  /\ Exists(s) /\ Happens("rotate")
  /\ Start(p, "rotate", s, "rotLock")
  /\ UNCHANGED <<row, net, locks, snap, lists, booting, probes, nak>>

\* autoRotateOnce lists the connected sessions whose period has run out, hands
\* them to AutoRotateCap goroutines, and waits for all of them.
AutoRotating == {q \in Procs : job[q].kind = "autorotate"}

AutoRotateTick ==
  /\ rotations = {} /\ AutoRotating = {} /\ booting = {} /\ Happens("autorotate")
  /\ rotations' \in SUBSET {s \in Sessions : row[s].status = "connected" /\ row[s].auto /\ ~row[s].paused}
  /\ rotations' # {}
  /\ UNCHANGED <<row, net, locks, procs, queue, booting, probes, nak>>

AutoRotateDue(p, s) ==
  /\ s \in rotations /\ Cardinality(AutoRotating) < AutoRotateCap
  /\ rotations' = rotations \ {s}
  /\ Start(p, "autorotate", s, "rotLock")
  /\ UNCHANGED <<row, net, locks, snap, queue, booting, probes, events, nak>>

RotateLock(p) ==
  LET s == job[p].sid IN
  /\ pc[p] = "rotLock" /\ rotateOwner[s] = NoProc
  /\ IF Exists(s)
     THEN /\ rotateOwner' = [rotateOwner EXCEPT ![s] = p]
          /\ nak' = [nak EXCEPT ![s] = @ /\ job[p].kind # "rotate"]
          /\ Goto(p, "hang")
          /\ UNCHANGED <<job, snap>>
     ELSE Finish(p) /\ UNCHANGED <<rotateOwner, nak>>
  /\ UNCHANGED <<row, net, lineOwner, dialSem, lists, booting, probes, events>>

\* After the 3 s of BRAS settle: status and last_error are overwritten.
RotateClear(p) ==
  LET s == job[p].sid IN
  /\ pc[p] = "settle"
  /\ Update(s, [row[s] EXCEPT !.status = "disconnected", !.err = ""])
  /\ Goto(p, "dial")
  /\ UNCHANGED <<net, locks, job, snap, bg>>

\* Variant: a failed rotation returns without unlocking.
RotateDone_KeepLock(p) ==
  /\ pc[p] = "dialed" /\ job[p].kind \in {"rotate", "autorotate"}
  /\ IF job[p].err = "ok" THEN Unlock(job[p].sid) ELSE UNCHANGED rotateOwner
  /\ IF job[p].kind = "autorotate" /\ job[p].err # "ok"
     THEN Goto(p, "pause") /\ UNCHANGED <<job, snap>>
     ELSE Finish(p)
  /\ UNCHANGED <<row, net, lineOwner, dialSem, bg>>

\* Dial has returned; the deferred unlock of rotateMu.
RotateDone(p) ==
  /\ pc[p] = "dialed" /\ job[p].kind \in {"rotate", "autorotate"}
  /\ Unlock(job[p].sid)
  /\ IF job[p].kind = "autorotate" /\ job[p].err # "ok"
     THEN Goto(p, "pause") /\ UNCHANGED <<job, snap>>
     ELSE Finish(p)
  /\ UNCHANGED <<row, net, lineOwner, dialSem, bg>>

AutoRotatePause(p) ==
  LET s == job[p].sid IN
  /\ pc[p] = "pause"
  /\ Update(s, [row[s] EXCEPT !.paused = TRUE])
  /\ Finish(p)
  /\ UNCHANGED <<net, locks, bg>>

Rotate(p) == RotateLock(p) \/ RotateClear(p) \/ RotateDone(p) \/ AutoRotatePause(p)

-----------------------------------------------------------------------------
(* Session handlers: create, delete, auto-rotation settings. *)

\* createSessionAndDial has inserted the row; it goes on to Dial.
CreateRequest(p, s) ==
  /\ row[s].status = "unborn" /\ Happens("create")
  /\ Save(s, NewRow)
  /\ Start(p, "create", s, "dial")
  /\ UNCHANGED <<net, locks, snap, lists, booting, probes, nak>>

\* CreateLineSessionsBulk dials again while the FIRST error looked like a
\* timeout; the error of a retry is dropped.
CreateRetry(p) ==
  /\ pc[p] = "dialed" /\ job[p].kind = "create" /\ job[p].err # "ok"
  /\ job[p].err = "other" \/ job[p].act = "retry"
  /\ job[p].tries < CreateRetries
  /\ job' = [job EXCEPT ![p].act = "retry", ![p].tries = @ + 1, ![p].err = ""]
  /\ Goto(p, "dial")
  /\ UNCHANGED <<row, net, locks, snap, bg>>

CreateDone(p) ==
  /\ pc[p] = "dialed" /\ job[p].kind = "create"
  /\ Finish(p)
  /\ UNCHANGED <<row, net, locks, bg>>

DeleteRequest(p, s) ==
  /\ Exists(s) /\ Happens("delete")
  /\ Start(p, "delete", s, "hang")
  /\ UNCHANGED <<row, net, locks, snap, lists, booting, probes, nak>>

DeleteErase(p) ==
  /\ pc[p] = "erase"
  /\ Save(job[p].sid, [NoRow EXCEPT !.status = "deleted"])
  /\ Finish(p)
  /\ UNCHANGED <<net, locks, bg>>

SetSessionAutoRotate(s) ==
  /\ Exists(s) /\ booting = {} /\ Happens("setauto")
  /\ Update(s, [row[s] EXCEPT !.auto = ~@])
  /\ UNCHANGED <<net, locks, procs, lists, booting, probes, nak>>

ResumeAutoRotate(s) ==
  /\ Exists(s) /\ row[s].paused /\ booting = {} /\ Happens("resume")
  /\ Update(s, [row[s] EXCEPT !.paused = FALSE])
  /\ UNCHANGED <<net, locks, procs, lists, booting, probes, nak>>

-----------------------------------------------------------------------------
(* Watchdog: reconcileOnce, reconcileApply, reconnectErrorSessions. *)

\* Variant: every ppp interface counts as up (the POINTOPOINT test that
\* ifaceUpFromLinkShow replaced).
Decision_AlwaysUp(ifaceUp, liveIP, dbIP, healthy) ==
  CASE ~ifaceUp \/ liveIP = NoAddr -> "noop"
    [] liveIP = Cgnat   -> "demote"
    [] liveIP # dbIP    -> "update"
    [] ~healthy         -> "reapply"
    [] OTHER            -> "noop"

Decision(ifaceUp, liveIP, dbIP, healthy) ==
  CASE ~ifaceUp         -> "redial"
    [] liveIP = NoAddr  -> "noop"
    [] liveIP = Cgnat   -> "demote"
    [] liveIP # dbIP    -> "update"
    [] ~healthy         -> "reapply"
    [] OTHER            -> "noop"

Decide(s) ==
  LET live == net[s].live IN
  IF row[s].status # "connected" \/ ~row[s].iface THEN "noop"
  ELSE Decision(live # Down, live, row[s].ip, RoutingHealthy(s, live))

WatchdogFree == pc[Watchdog] = "idle" /\ queue = {} /\ booting = {}

\* go m.reconcileApply(s, act, liveIP), decided from what the tick saw.
Reconcile(p, s) ==
  /\ WatchdogFree /\ Decide(s) # "noop"
  /\ pc[p] = "idle" /\ p # Watchdog
  /\ job' = [job EXCEPT ![p] =
       [NoJob EXCEPT !.kind = "reconcile", !.sid = s, !.act = Decide(s),
                     !.ip = IF net[s].live = Down THEN NoAddr ELSE net[s].live]]
  /\ Goto(p, "try")
  /\ UNCHANGED <<row, net, locks, snap, bg>>

\* rotateMu.TryLock, then the row is read again.
ApplyLock(p) ==
  LET s == job[p].sid IN
  /\ pc[p] = "try"
  /\ IF rotateOwner[s] = NoProc /\ row[s].status = "connected" /\ row[s].iface
     THEN /\ rotateOwner' = [rotateOwner EXCEPT ![s] = p]
          /\ Goto(p, "apply")
          /\ UNCHANGED <<job, snap>>
     ELSE Finish(p) /\ UNCHANGED rotateOwner
  /\ UNCHANGED <<row, net, lineOwner, dialSem, bg>>

ApplyRedial(p) ==
  LET s == job[p].sid IN
  /\ pc[p] = "apply" /\ job[p].act = "redial"
  /\ IF net[s].live # Down
     THEN Unlock(s) /\ Finish(p)
     ELSE Goto(p, "dial") /\ UNCHANGED <<rotateOwner, job, snap>>
  /\ UNCHANGED <<row, net, lineOwner, dialSem, bg>>

ApplyRedialed(p) ==
  /\ pc[p] = "dialed" /\ job[p].kind = "reconcile"
  /\ Unlock(job[p].sid) /\ Finish(p)
  /\ UNCHANGED <<row, net, lineOwner, dialSem, bg>>

ApplyDemote(p) ==
  /\ pc[p] = "apply" /\ job[p].act = "demote"
  /\ HangupPeer(job[p].sid)
  /\ Goto(p, "demote")
  /\ UNCHANGED <<row, locks, job, snap, bg>>

ApplyDemoted(p) ==
  LET s == job[p].sid IN
  /\ pc[p] = "demote"
  /\ net' = [AfterKill(s) EXCEPT ![s] = Unrouted(@)]
  /\ Update(s, Failed(row[s], "other"))
  /\ Unlock(s) /\ Finish(p)
  /\ UNCHANGED <<lineOwner, dialSem, bg>>

\* reconUpdateAndReapply and reconReapply, with the address of the decision.
ApplyRouting(p) ==
  LET s == job[p].sid IN
  /\ pc[p] = "apply" /\ job[p].act \in {"update", "reapply"}
  /\ ApplyReplyRouting(s, job[p].ip)
  /\ IF job[p].act = "update" /\ CanRoute(s, job[p].ip)
     THEN Update(s, [row[s] EXCEPT !.ip = job[p].ip]) /\ AddProbe(s)
     ELSE UNCHANGED <<row, probes>>
  /\ Unlock(s) /\ Finish(p)
  /\ UNCHANGED <<lineOwner, dialSem, lists, booting, events, nak>>

ReconcileApply(p) ==
  \/ ApplyLock(p) \/ ApplyRedial(p) \/ ApplyRedialed(p) \/ ApplyDemote(p)
  \/ ApplyDemoted(p) \/ ApplyRouting(p)

\* reconnectErrorSessions: the list is read once, the dials follow one by one.
\* Variant: the retry limit is not part of the query.
ReconnectDue_NoLimit(s) ==
  row[s].status \in {"error", "disconnected"} /\ row[s].due

ReconnectDue(s) ==
  row[s].status \in {"error", "disconnected"} /\ row[s].tries < MaxRetries /\ row[s].due

ReconnectScan ==
  /\ WatchdogFree
  /\ queue' = {[sid |-> s, tries |-> row[s].tries] : s \in {t \in Sessions : ReconnectDue(t)}}
  /\ queue' # {}
  /\ UNCHANGED <<row, net, locks, procs, rotations, booting, probes, events, nak>>

ReconnectNext(e) ==
  /\ pc[Watchdog] = "idle" /\ e \in queue
  /\ queue' = queue \ {e}
  /\ job' = [job EXCEPT ![Watchdog] =
               [NoJob EXCEPT !.kind = "reconnect", !.sid = e.sid, !.tries = e.tries + 1]]
  /\ Goto(Watchdog, "dial")
  /\ UNCHANGED <<row, net, locks, snap, rotations, booting, probes, events, nak>>

ReconnectDone(p) ==
  LET s == job[p].sid IN
  /\ pc[p] = "dialed" /\ job[p].kind = "reconnect"
  /\ IF job[p].err = "ok" THEN UNCHANGED row
     ELSE Update(s, [row[s] EXCEPT !.tries = job[p].tries, !.due = FALSE])
  /\ Finish(p)
  /\ UNCHANGED <<net, locks, bg>>

\* reconnect_pause_minutes later.
PauseOver(s) ==
  /\ ~row[s].due
  /\ row' = [row EXCEPT ![s].due = TRUE]
  /\ UNCHANGED <<net, locks, procs, bg>>

-----------------------------------------------------------------------------
(* Start of the process: RestoreState.  main starts the watchdog and the API *)
(* only after it.                                                            *)

RestoreAdopt(s) ==
  LET live == net[s].live IN
  /\ s \in booting /\ row[s].iface /\ live # Down
  /\ booting' = booting \ {s}
  /\ IF live \in {NoAddr, Cgnat}
     THEN UNCHANGED <<row, net, probes>>
     ELSE /\ ApplyReplyRouting(s, live)
          /\ IF live # row[s].ip
             THEN Update(s, [row[s] EXCEPT !.ip = live]) /\ AddProbe(s)
             ELSE UNCHANGED <<row, probes>>
  /\ UNCHANGED <<locks, procs, lists, events, nak>>

RestoreDial(p, s) ==
  /\ s \in booting /\ ~(row[s].iface /\ net[s].live # Down)
  /\ booting' = booting \ {s}
  /\ pc[p] = "idle" /\ p # Watchdog
  /\ job' = [job EXCEPT ![p] = [NoJob EXCEPT !.kind = "restore", !.sid = s]]
  /\ Goto(p, "dial")
  /\ UNCHANGED <<row, net, locks, snap, lists, probes, events, nak>>

RestoreDone(p) ==
  /\ pc[p] = "dialed" /\ job[p].kind = "restore"
  /\ Finish(p)
  /\ UNCHANGED <<row, net, locks, bg>>

-----------------------------------------------------------------------------
(* The public address probe. *)

ProbeMeasure(e) ==
  /\ e \in probes /\ e.ip = NoAddr
  /\ LET a == net[e.sid].live IN
       probes' = (probes \ {e}) \cup (IF a \in PublicAddrs THEN {[e EXCEPT !.ip = a]} ELSE {})
  /\ UNCHANGED <<row, net, locks, procs, lists, booting, events, nak>>

ProbeWrite(e) ==
  /\ e \in probes /\ e.ip # NoAddr
  /\ Update(e.sid, [row[e.sid] EXCEPT !.pub = e.ip])
  /\ probes' = probes \ {e}
  /\ UNCHANGED <<net, locks, procs, lists, booting, events, nak>>

-----------------------------------------------------------------------------
(* The world outside: the links, the BRAS, the machine. *)

\* LCP gives up; pppd (persist, maxfail 0) goes on or is gone.
LinkDrop(s) ==
  /\ net[s].live # Down /\ Happens("drop")
  /\ \E alive \in {FALSE, net[s].pppd} :
       net' = [net EXCEPT ![s] = [@ EXCEPT !.pppd = alive, !.live = Down, !.tbl = FALSE]]
  /\ UNCHANGED <<row, locks, procs, lists, booting, probes, nak>>

\* A pppd that persisted has redialled by itself.
LinkReturn(s) ==
  /\ net[s].pppd /\ net[s].live = Down
  /\ \E a \in Assignable(s) \cup ({Cgnat, NoAddr} \cap Outcomes) : net' = [net EXCEPT ![s].live = a]
  /\ UNCHANGED <<row, locks, procs, bg>>

\* IPCP changes the address of a link that stays up.
AddrDrift(s) ==
  /\ net[s].live # Down /\ Happens("drift")
  /\ \E a \in Assignable(s) \cup ({Cgnat} \cap Outcomes) : net' = [net EXCEPT ![s].live = a]
  /\ UNCHANGED <<row, locks, procs, lists, booting, probes, nak>>

\* IPCP completes on a link that came up without an address.
AddrArrives(s) ==
  /\ net[s].live = NoAddr
  /\ \E a \in Assignable(s) : net' = [net EXCEPT ![s].live = a]
  /\ UNCHANGED <<row, locks, procs, bg>>

\* The process dies and is started again.  The pppd processes stay (restart
\* outside systemd) or go with the unit's control group.
Crash ==
  /\ Happens("crash")
  /\ \E keep \in BOOLEAN :
       net' = [s \in Sessions |->
                IF keep THEN [net[s] EXCEPT !.pppd = @ \/ net[s].child, !.child = FALSE]
                ELSE Dead(net[s])]
  /\ pc' = [p \in Procs |-> "idle"] /\ job' = [p \in Procs |-> NoJob]
  /\ snap' = [p \in Procs |-> NoRow]
  /\ lineOwner' = [l \in Lines |-> NoProc] /\ dialSem' = 0
  /\ rotateOwner' = [s \in Sessions |-> NoProc]
  /\ queue' = {} /\ rotations' = {} /\ probes' = {}
  /\ booting' = {s \in Sessions : row[s].status \in {"connected", "dialing"}}
  /\ UNCHANGED <<row, nak>>

-----------------------------------------------------------------------------
\* What a running goroutine does next.
Step(p) ==
  \/ Dial(p) \/ Hangup(p) \/ Rotate(p) \/ ReconcileApply(p)
  \/ CreateRetry(p) \/ CreateDone(p) \/ DeleteErase(p)
  \/ ReconnectDone(p) \/ RestoreDone(p)

\* What starts goroutines: requests and tickers.
Request(p, s) ==
  \/ CreateRequest(p, s) \/ RotateRequest(p, s) \/ DeleteRequest(p, s)
  \/ AutoRotateDue(p, s) \/ Reconcile(p, s) \/ RestoreDial(p, s)

Outside(s) ==
  \/ SetSessionAutoRotate(s) \/ ResumeAutoRotate(s) \/ PauseOver(s) \/ RestoreAdopt(s)
  \/ LinkDrop(s) \/ LinkReturn(s) \/ AddrDrift(s) \/ AddrArrives(s)

Next ==
  \/ \E p \in Procs : Step(p)
  \/ \E p \in Procs, s \in Sessions : Request(p, s)
  \/ \E s \in Sessions : Outside(s)
  \/ AutoRotateTick \/ ReconnectScan \/ \E e \in queue : ReconnectNext(e)
  \/ \E e \in probes : ProbeMeasure(e) \/ ProbeWrite(e)
  \/ Crash

Spec == Init /\ [][Next]_vars

\* Go runs every runnable goroutine, hands mutexes and channel slots to waiters
\* in turn (strong fairness), external commands return (timeouts of 30 s and
\* 15 s), and the tickers keep ticking.
Fairness ==
  /\ \A p \in Procs : SF_vars(Step(p))
  /\ \A s \in Sessions :
       /\ SF_vars(\E p \in Procs : Reconcile(p, s))
       /\ WF_vars(PauseOver(s))
  /\ WF_vars(ReconnectScan) /\ WF_vars(\E e \in queue : ReconnectNext(e))

FairSpec == Spec /\ Fairness

-----------------------------------------------------------------------------
(* Properties. *)

HoldsRotate(p) ==
  /\ job[p].kind \in {"rotate", "autorotate", "reconcile"}
  /\ pc[p] \notin {"idle", "rotLock", "try", "pause"}

InSection == {p \in Procs : pc[p] \in Section}
Dialing == {<<p, job[p].sid>> : p \in InSection}

TokensCounted == dialSem = Cardinality(InSection)
LinesHeld ==
  \A p \in Procs, l \in Lines :
    lineOwner[l] = p <=> pc[p] \in Locked /\ LineOf[job[p].sid] = l
RotatesHeld ==
  \A p \in Procs, s \in Sessions :
    rotateOwner[s] = p <=> HoldsRotate(p) /\ job[p].sid = s

\* No mutex and no dialSem token is lost or held twice on any return path of
\* Dial, Rotate and reconcileApply: the tokens are exactly the goroutines in the
\* dial section, and every held mutex belongs to a goroutine that will unlock it.
LocksHeld == TokensCounted /\ LinesHeld /\ RotatesHeld

\* A goroutine at a lock it cannot have now, and those one of which must release it first.
Waits(p) ==
  \/ pc[p] = "rotLock" /\ rotateOwner[job[p].sid] # NoProc
  \/ pc[p] = "line" /\ lineOwner[LineOf[job[p].sid]] # NoProc
  \/ pc[p] = "sem" /\ dialSem = DialConcurrent
Blockers(p) ==
  CASE pc[p] = "rotLock" -> {q \in Procs : rotateOwner[job[p].sid] = q}
    [] pc[p] = "line"    -> {q \in Procs : lineOwner[LineOf[job[p].sid]] = q}
    [] OTHER             -> InSection

\* rotateMu, lineMu and dialSem never close a circle: nobody, alone or with others,
\* waits only for goroutines that wait in the same circle, for a lock kept by one that
\* has finished, or for a token that nobody has (Dial, Rotate, reconcileApply).
NoDeadlock ==
  \A W \in SUBSET {p \in Procs : pc[p] = "idle" \/ Waits(p)} :
    (\E p \in W : Waits(p)) => \E p \in W : Waits(p) /\ ~(Blockers(p) \subseteq W)

\* While the process runs, no row is left where no loop looks at it: a row in
\* "dialing" has a goroutine inside Dial for it, and a connected row names its
\* interface (reconcileOnce skips the others).
Attended ==
  \A s \in Sessions :
    /\ row[s].status = "dialing" => \E p \in InSection : job[p].sid = s
    /\ row[s].status = "connected" => row[s].iface

\* Dial's admission as an abstract gate: whatever the goroutines do, they enter
\* the dial section one per line and DialConcurrent in all.
Gate == INSTANCE DialGate WITH
  Goroutines <- Procs,
  Capacity   <- DialConcurrent,
  dialing    <- Dialing
GateSpec == Gate!Spec

\* A goroutine about to save the row of s, which it read while the rotation was not paused.
SavesUnpaused(p, s) ==
  job[p].sid = s /\ pc[p] \in Locked \cup {"hangSave"} /\ ~snap[p].paused

\* A step that ends the pause of s only if somebody who may does.
PauseKept(s) ==
  row[s].paused /\ ~row'[s].paused =>
    \/ ResumeAutoRotate(s) \/ row'[s].status = "deleted"
    \/ \E p \in Procs : SavesUnpaused(p, s) /\ pc'[p] # pc[p]
PausesKept == \A s \in Sessions : PauseKept(s)

\* A paused auto-rotation goes on when it is resumed through the API (or its
\* session deleted) and not before: neither a later dial, rotation or reconnect nor
\* a restart undoes the pause, but for a goroutine that read the row before the
\* pause and saves it whole after it (autoRotateOnce, setStatus, Hangup).
PauseSticks == [][PausesKept]_vars

\* rotateMu is taken before lineMu and lineMu before dialSem, and every holder
\* goes on to release: no request, ticker or worker waits for ever.
RequestsFinish == \A p \in Procs : pc[p] # "idle" ~> pc[p] = "idle"

\* A session the loops have nothing left to do for: connected with database,
\* interface and reply rule in agreement, or out of retries.
Settled(s) ==
  \/ row[s].status \in {"unborn", "deleted"}
  \/ row[s].status = "connected" /\ net[s].live = NoAddr
  \/ /\ row[s].status = "connected" /\ net[s].live \in PublicAddrs
     /\ net[s].live = row[s].ip /\ RoutingHealthy(s, row[s].ip)
  \/ row[s].status \in {"error", "disconnected"} /\ row[s].tries = MaxRetries

\* However drops, address changes and requests interleave with the dials and the
\* watchdog, once they stop the watchdog brings every session to rest.
Converges == <>[](\A s \in Sessions : Settled(s))

-----------------------------------------------------------------------------
(* What the documentation says of the manager and the code does not keep. *)

Automatic == {"reconnect", "reconcile", "autorotate", "restore"}

\* PLAN.md, "HARD RULE": no automatic redial after an AuthNak, only a manual
\* rotation dials again.  Dial checks before it waits for the line.
NoAutoRedialAfterAuthNak ==
  [][\A p \in Procs :
       pc[p] = "prep" /\ pc'[p] = "call" /\ job[p].kind \in Automatic => ~nak[job[p].sid]]_vars

\* Hangup kills "the pppd process of this session" and of no other.
HangupIsLocal ==
  [][\A p \in Procs, t \in Sessions :
       pc[p] \in {"hang", "hangKill"} /\ pc'[p] # pc[p] /\ t # job[p].sid
         => net'[t].pppd = net[t].pppd]_vars

\* RestoreState leaves no interrupted dial behind: after a restart too, a row in
\* "dialing" is being dialled or about to be.
DialingResumed ==
  \A s \in Sessions : row[s].status = "dialing" =>
    \/ s \in booting
    \/ \E p \in Procs : job[p].sid = s /\ pc[p] \in Locked \cup {"dial", "line"}

=============================================================================
