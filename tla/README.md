# TLA+ specifications of bestphone-pppoe

bestphone-pppoe is one Go process that dials hundreds of PPPoE sessions through macvlans on the
physical lines of a host, keeps their policy routing in order, and serves a SOCKS5/HTTP proxy on
each session's public address. A REST API creates sessions, hands out proxy credentials ("creds")
to orders and rotates addresses. This directory holds its formal model: TLA+ modules translated
from the Go source, TLC configurations that check them on small instances, and TLAPS proofs of the
properties that matter most for every instance.

    tlc -config pppoe_session.cfg MCPppoe.tla       one model-checking run
    tlapm PppoeManagerProofs.tla                    the proofs of one component; likewise ClaimsProofs,
                                                    ListenersProofs, ListenersStatusProofs,
                                                    ListenersReloadProofs, ProxyConnProofs, AdminApiProofs,
                                                    PeerFilesProofs

`PROJECT.json` lists components, runs, mutated definitions (each shows that a property notices a
plausible bug), the source lines behind every definition, findings, hazards and theorems.

## Inventory

| Component | Source | State | Operations |
|---|---|---|---|
| PPPoE manager | `internal/pppoe/manager.go`, `ifquery.go` | table `sessions`; `lineMu`, `rotateMu` (mutex maps), `dialSem` (channel); the watchdog's list | Dial, Hangup, Rotate, reconcileOnce/Apply, reconnectErrorSessions, autoRotateOnce, RestoreState, probePublicIP |
| Policy routing | `internal/pppoe/routing.go`, `scripts/reconcile-routing.py` | kernel: `ip rule` and table of each session | ApplyReplyRouting, RemoveReplyRouting, ReplyRoutingHealthy |
| Peer files | `internal/pppoe/config.go` | peer files, chap/pap secrets, macvlans | WritePeer, upsert/remove secret, EnsureMacvlan |
| Session handlers | `internal/api/handlers_session.go`, `handlers_line.go` | tables `sessions`, `proxies`, `lines`; `allocMu` | create (one, bulk), delete, rotate, auto-rotate, enable, set type, set proxy type |
| Claims and creds | `internal/api/handlers_claim.go`, `handlers_cred.go` | table `proxy_credentials`; `claimMu` | claim, change, release, extend, prune, admin create/update/delete, expiry cleanup |
| Listener manager | `internal/proxy/server/manager.go`, `listener.go`, `auth.go` | map of listeners; each listener's cred set, access rules, host cache | Start, Stop, ReloadCreds, ReloadGlobalRules, ReloadSessionRules, RestoreAll, cleanExpiredCreds |
| Access rules | `internal/proxy/server/access.go`, `handlers_rule.go` | table `access_rules`, compiled rule sets | merge of global and session rules, allow/deny decision |
| UDP association | `internal/proxy/server/udp.go` | two sockets, client address, last activity | associate, relay up, relay down, idle timeout, teardown |
| SOCKS5/HTTP | `socks5.go`, `http.go`, `dial.go` | one connection each | parse, authenticate, connect, copy |
| Event hub | `internal/events/hub.go` | map of subscriber channels (buffer 64) | Subscribe, Publish, Unsubscribe |
| Tokens | `internal/api/handlers_token.go`, `middleware.go` | tables `users`, `api_tokens` | login, logout, change password, create, delete, check |
| Settings, logs, statistics, export, health, interfaces | `internal/db`, `activity`, `audit`, the remaining handlers | their tables | reads, appends, periodic cleanup |
| UI, deployment | `ui/`, `deploy/` | none | pages, install and update scripts |

How they interact. Handlers run as goroutines of the HTTP server and call the PPPoE manager
(`pppoe.M`) and the listener manager (`proxysrv.M`) directly; both managers, and every handler,
share one SQLite database through gorm. The pool has one connection, so each statement is atomic,
but no handler opens a transaction: a handler is a sequence of statements, between any two of
which others run. `row.Save()` writes **every** column of a copy read earlier and inserts the row
if it is gone; `Update("col", v)` writes one column. Managers announce changes on the event hub,
which drops what a slow subscriber cannot take. The boot order of `main.go` (lines 52-62) is
RestoreState, RestoreAll, then watchdog, auto-rotate and cred cleanup, then the API.

What is hard here:

* **Dial waits, then acts on what it read.** Dial loads the session, waits for the line mutex and
  for one of `DialConcurrent` tokens, and runs up to a minute of external commands before it saves
  the row it loaded.
* **Many drivers of one session.** Requests, the 20 s watchdog, its reconnect loop, auto-rotate and
  RestoreState all dial; Rotate and reconcileApply hold `rotateMu`, Dial and Hangup do not take it.
* **State outside the process.** pppd processes, interfaces and policy routing change by themselves
  and survive (or not) a restart; rows and kernel may disagree in every combination.
* **Counting under partial locking.** Claims count free slots under `claimMu`; admin edits, extend,
  release, set-type and expiry change the same rows without it.
* **Reload races.** Listeners keep copies of creds and rules that are loaded and installed in two
  steps.

What makes each component correct:

* PPPoE manager: at most one dial per line and `DialConcurrent` in all; no lock or token lost on any
  return path; no row stuck in `dialing`; row, interface and routing agree again once disturbances
  stop; no automatic redial after an AuthNak; one session's hangup leaves the others alone; a paused
  rotation stays paused.
* Claims: never more active creds on a session than its type allows; an order's creds on distinct
  sessions; a repeated claim gives the same creds; change keeps the remaining time; extends add up.
* Listener manager: one listener per proxy; the running listener's creds and rules are those of the
  database once requests stop; status tells the truth; a connected session is served.
* Session allocation: units, ports and MACs distinct; pools not leaked; secrets kept while used.
* One connection: it is admitted by the documented meaning of the rules in force at that moment (a deny
  that matches wins, allow rules bind their own kind), leaves by the session's line, ends when its
  protocol says, and gives back every socket and goroutine wherever it is cut short.
* Event hub: no send on a closed channel, no publisher that waits; a slow stream loses its own events.
* Tokens, settings: a password change revokes what an earlier password obtained; settings are valid and
  updated all or, when rejected, not at all.
* Peer files: what a session needs to dial is there while it lives and gone when it is deleted.

## Modules

| Component module | Abstraction | Values for TLC | Proofs | Section |
|---|---|---|---|---|
| `PppoeManager` | `DialGate` | `MCPppoe` | `PppoeManagerProofs` | PppoeManager |
| `Claims` | `SlotLedger` | `MCClaims` | `ClaimsProofs` | Claims |
| `Listeners` | | `MCListeners` | `ListenersProofs`, `ListenersStatusProofs`, `ListenersReloadProofs` | Listeners |
| `ProxyConn` | `RelayLife` | `MCProxyConn` | `ProxyConnProofs` | ProxyConn |
| `AdminApi`, on `EventHub` | | `MCControl` | `AdminApiProofs` | AdminApi and EventHub |
| `PeerFiles` | `SecretBook` | `MCControl` | `PeerFilesProofs` | PeerFiles |

The order was that of importance: first what keeps sessions connected, then who may use them, then what
serves them, then one connection, then the control plane. Where two modules meet, each has the other's
effect as a step: every write of `Claims` is a `CredWrite` of `Listeners`, every reload of `Listeners` a
`Reload` of `ProxyConn`, each Hangup of `PppoeManager` a `LineDown` and `RowCleared` there, each Dial a
`DialBegin` of `PeerFiles`, each publication an `event` request of `AdminApi`.

## PppoeManager

`PppoeManager.tla` models `manager.go` whole, what it uses of `routing.go` and `ifquery.go`, and the
session handlers that drive it (create with retries, rotate, delete, set auto-rotate, resume).

State. `row[s]` is the session's database row (status, last_error as a class, whether iface is set,
ip, public_ip, reconnect_attempts, whether the pause since the last attempt is over, auto-rotate,
paused). `net[s]` is the outside: whether a pppd runs, whether it is still the child of a `pppd call`,
the interface (down, without address, a public or a CGNAT address), the address of its reply rule
and whether its table is filled. `lineOwner`, `dialSem`, `rotateOwner` are the two mutex maps and the
channel. A goroutine has a place `pc[p]`, a `job[p]` (its parameters and results) and `snap[p]`, the
`models.Session` it holds in memory and will save back. `queue`, `rotations` and `booting` are the
lists that reconnectErrorSessions, autoRotateOnce and RestoreState work through; `probes` are running
probePublicIP goroutines. `events` and `nak` belong to the model: the budget of outside events, and
the history "this login was refused and nobody has rotated by hand since".

Actions. One action is one stretch of code between two points where others can be noticed. Dial is
`DialRefused`/`DialLoad` (54-67), `LockLine` (69-70), `DialMark` (73 and 76-83: token and status
`dialing`), `DialPrepFail`, `DialCall`, the three outcomes of `pppd call`, polling for the interface,
`DialRoute`, and `LeaveDial`, which saves the row, returns the token and unlocks. Hangup is `HangLoad`,
`HangKill` (pkill with its real pattern: `Killed(s)` is every session whose id begins with the digits
of `s`), `HangSave`. Rotate is `RotateLock`, Hangup, `RotateClear` after the BRAS settle, Dial,
`RotateDone`. The watchdog's `Reconcile` starts a reconcileApply with the decision of the tick;
`Decision` is reconcileDecision as it stands. `ReconnectScan`, `ReconnectNext`, `ReconnectDone` are
reconnectErrorSessions in the watchdog's own goroutine. `Crash` ends every goroutine at once;
`RestoreAdopt` and `RestoreDial` are RestoreState, before which nothing else starts.

`DialGate.tla` is what lineMu and dialSem promise together: a set of dials in progress that enter
one per line and at most Capacity in all. `GateSpec` maps it to the goroutines between taking and
returning a token.

| Run | Checks | Shows |
|---|---|---|
| `pppoe_session` | TypeOK, LocksHeld, NoDeadlock, Attended, GateSpec | two sessions, two lines, one token: create (one retry), rotate, delete, drops, drift against dials, demotions and reconnects; 3.3 M states |
| `pppoe_restart` | GateSpec, PauseSticks | auto-rotation, pause, resume, probe, under crashes with and without surviving pppd: only the API, or a goroutine with an older copy of the row, ends a pause |
| `pppoe_liveness` | Converges, RequestsFinish | after disturbances stop the session comes to rest; nobody waits for ever |
| `bug_authnak`, `bug_pkill`, `bug_adopt` | one property each | disagreements with the documentation, below |

Bounds. One session and one line show every race of several drivers of a session: two request
goroutines plus the watchdog, which is one more than the code needs to interleave at each point.
`pppoe_session` adds a second session on a line of its own, so that dials meet at the semaphore (one
token); `pppoe_restart` has a token for everybody, so that only the line mutex keeps dials apart. Two
outside events (requests, drops, drifts) let one disturb the handling of the other; `pppoe_restart` needs four to reach a paused rotation and a crash. One retry
(`MaxRetries = 1`) reaches the limit. Deadlock is not checked: with the event budget used up the
system may rest.

Fairness. `FairSpec` has strong fairness on each goroutine's step (Go mutexes and channels hand over
to waiters; external commands run under `exec.CommandContext` timeouts or return), on the watchdog's
reconciliation of each session (the ticker comes back every 20 s and a goroutine can be started at
any time) and weak fairness on the reconnect loop and the passing of the pause. With the two events of
`pppoe_liveness` two goroutines do not yet compete for `rotateMu`; that nobody waits for it for ever
rests on NoDeadlock, which is proved. Nothing makes links
stay up or the BRAS accept: `Converges` holds because the event budget ends, "once they stop".

Left out: time (timestamps are "due" or not, sleeps are steps), the 25-per-tick budget of
reconnectErrorSessions (a bound on one tick, the next goes on), `reconnect_enabled` off, MSS clamp
rules, failing iptables, `rotate_fail_count`, event publishing and logs. The reads of one watchdog
tick are one snapshot; what is applied later runs in its own goroutine against whatever holds then.

### Proved

`PppoeManagerProofs.tla`, for any sessions, lines, goroutines and capacities (assumptions: finitely
many goroutines, ids positive, capacities positive):

* `TypeCorrect`: `Spec => []TypeOK`. TypeOK also says that each goroutine is on the path of its kind.
* `LocksSound`: `Spec => []LocksHeld`. The tokens in `dialSem` are exactly the goroutines in the dial
  section; a line's mutex belongs to the one goroutine that will unlock it, a session's `rotateMu` too.
* `NobodyDeadlocks`: `Spec => []NoDeadlock`. No goroutines wait only for each other (`Waits`, `Blockers`:
  the guards of the three locks and who must release them), nor for a lock left behind by one that has
  finished, nor for a token that nobody has. Who waits for a token is behind the goroutines of the dial
  section, which wait for no lock; who waits for a line, behind one that has the line and waits at most
  for a token; who waits for `rotateMu`, behind one that waits at most for a line or a token.
* `DialImplementsGate`: `Spec => GateSpec`, across restarts too.
* `RowsAttended`: `Spec => []Attended` while there is no crash: a row in `dialing` has a goroutine in
  the dial section, a connected row has its interface.
* `PausesStick`: `Spec => PauseSticks`, across restarts too: whatever interleaves, a pause ends by the
  resume, by the deletion, or by a goroutine that saves a row it read before.
* `HangupsLocal`: `Spec => HangupIsLocal` as long as no session's id begins with the digits of another's
  (the hypothesis `Killed(s) \subseteq {s}`: the sessions 1 to 9, say) and the process does not crash. It
  delimits what `bug_pkill` finds: only the goroutine itself leaves the two kills (`OnlyHangup`), and
  they reach what the pattern matches and nothing else.

The inductive invariant is `IInv == TypeOK /\ LocksHeld`. TypeOK alone is not inductive: returning a
token is `dialSem - 1`, which stays in range only because the goroutine that returns it is one of
those counted. The proof that a step keeps it has one lemma per group of actions (`DialTyped`,
`HangupTyped`, ... and `DialLocks`, `HangupLocks`, ...), resting on a few lemmas on how a step moves
one goroutine (`SectionEntered`, `LineTaken`, `RotateFreed`, ...). `GateEntered` and `GateLeft` then
map the entry and exit of the dial section; every other step stutters. `RowsAttended` uses
`CalmAttended`: a step that puts no row in `dialing` and connects none keeps Attended, and only
`DialMark` and `LeaveDial` are not calm. `PausesStick` in the same way shows that every step is `Patient`
(`PatientWrite`, `PatientSaver`); it needs that a row never inserted is not paused, or a creation could
end a pause.

Only model-checked: `Converges` and `RequestsFinish` (liveness).

### Where code and documents disagree

* `bug_authnak` (manager.go:65): the AuthNak check precedes the wait for the line, PLAN.md:95-96 has
  it after; a dial that waited behind a refused one dials the refused login again, which PLAN.md:122
  forbids.
* `bug_pkill` (manager.go:228): `pkill -f "pppd call bp-sess-1"` also kills the pppd of session 10.
* `bug_adopt` (manager.go:624): a row in `dialing` whose interface is up after a restart is adopted
  with its status; no loop selects `dialing` again.

Seen while modelling, without a run of its own: a dial in progress saves its old copy of the row (172)
and so ends a pause set meanwhile, which PLAN.md:118 says only the API does (PauseSticks excuses exactly
this); a rotation's answer takes `new_ip` from `public_ip`
before the probe has written it (263, 182), so `same_ip` is true after every change of address; a
delete while a dial holds the row is undone by the dial's Save (636); reconcileApply's rotateMu does
not exclude Dial (438) although its comment says so, which costs a second redial but still converges;
`max_sessions` of a line is stored and shown but no creation checks it (`handlers_line.go:69`); a
failed automatic rotation counts twice in `rotate_fail_count` (255, 348).

## Claims

`Claims.tla` models `handlers_claim.go`, the admin edits of creds in `handlers_cred.go`, SetSessionType
and the expiry cleanup of the listener manager: everything that changes who holds a slot on which
session.

State. `creds` is the table `proxy_credentials`, its rows with a user: id, user, order (or
`NoOrder`), proxy, `on` for `enabled`, `exp` for `expires_at` (0 for NULL). `lastId` is the last primary
key, `type[q]` the type of the session behind proxy `q`, `now` the clock, `claimMu` its holder. A
handler has a place `pc[h]` and a `job[h]`, what it holds in memory: the request, the proxies in use
(`used`), those picked (`plan`), the creds or keys it read (`todo`, `ids`). `bent` belongs to the model:
`bent[q]` says that a write outside claimMu has given an inactive cred on `q` its slot back, or changed
the type of its session.

Actions. An action is one write, or the reads before it. ClaimCredentials is `ClaimBegin` (lock,
count what matches), `ClaimPick` (availableProxiesForType: any `need` sessions of the type with a free
slot), one `ClaimInsert` per row, `GiveUp` for too few slots or a failed INSERT, which leaves what was
inserted. ChangeCredentials is `ChangeBegin` and, for each old cred, `ChangePick`, `ChangeCreate`,
`ChangeDrop`. Prune, release, extend, SetSessionType and UpdateCred have a reading and a writing action
each (`ExtendWrite` one per cred; `UpdateSave` writes the whole row and inserts it if it is gone, as
`gorm.Save` does); DeleteCred and CleanExpired are single statements. `Crash` forgets all handlers.
Reads within one action may in the code be separated by others' writes. Under claimMu these are
deletions and the passing of time, which only free slots, and writes outside claimMu, which `bent`
marks: a count that is too old is never too low on a session that is not bent. Primary keys are taken
to be never used again, as with the AUTOINCREMENT the gorm driver gives an integer key.

`SlotLedger.tla` is what claimMu promises: slots are granted one at a time, each under a key not in use,
on a session with room and without a slot of that user's order; otherwise they are only given back, and
no slot passes from one user to another. A session leaves `strict` for good when someone moves its slots
or its limit without the mutex. The mapping forgets whether a cred is enabled and when it expires: `slots`
are the active creds (`InUse`), `limit` is MaxCredsForType of the session's type, `strict` the sessions
not `bent`. A cred that is inserted when its lifetime is over is a stutter, the clock may be a
`GiveBack`.

| Run | Checks | Shows |
|---|---|---|
| `claims_service` | TypeOK, QuotaHeld, OrderSpread, ClaimIdempotent, LedgerSpec | two handlers and three requests of any kind, expiry, cleanup, crashes; 0.8 M states |

Bounds. Two users, one order besides none, two proxies, two types with 1 and 2 slots, two handlers.
Three requests are enough for a claim that is repeated while another request runs between; every
race of two handlers over a slot needs two requests and one to set the scene. Lifetimes of 0 (none) and
1 with the clock ending at 1 let a cred run out once, before or after the cleanup. Handlers are
symmetric in `claims_service`. Deadlock is not checked: requests run out.

### Proved

`ClaimsProofs.tla`, for any users, orders, sessions (finitely many), types, limits, handlers and number
of requests:

* `TypeCorrect`: `Spec => []TypeOK`, uniqueness of keys included, although `Save` inserts rows that are
  gone.
* `QuotaKept`: `Spec => []QuotaHeld`. Claims and changes never give a session more users than its type
  allows; only what `bent` marks can.
* `OrdersSpread`: `Spec => []OrderSpread`.
* `ClaimsRepeatable`: `Spec => ClaimIdempotent`.
* `ClaimsKeepLedger`: `Spec => LedgerSpec`, the refinement of `SlotLedger`.

The inductive invariant adds to these: `RowsSound` (a key stands for one user, order and proxy, in the
table and in every handler's memory, which is what lets a stale row be written back), `MutexHeld`
(claimMu belongs to the one handler between Lock and Unlock), and a `Promise` for each handler: what it
read is still true enough. A claim in `insert` promises that each session picked has a free slot, that
its order is on none of them and that what it will insert does not exceed what was asked; a change
promises that all sessions of the user are used up. The proof rests on `Lasting`: every step that
inserts nothing leaves, on sessions not bent, only active creds that were active before under the same
key (`StepLasts`), so that counts do not grow (`Fewer`) and every promise stays true
(`LastingPromise`). A step that inserts (`InsertedRow`, `InsertQuota`) uses up one promise of its own
handler, and the others have none because they do not hold claimMu (`InsertingKept`). The refinement
uses the same facts: the promise of the inserting handler is the guard of `Grant` (`LedgerGrants`), and a
step that lasts and writes only rows it knows is a `GiveBack` (`LedgerGivesBack`).

### Where code and documents disagree

Seen while modelling, without a run of its own: ExtendCredentials (handlers_claim.go:769) takes no
claimMu, counts no slots and by `cred_ids` extends expired creds too, so that a cred whose slot was
claimed between its expiry and the next cleanup gets it back and a `private` session has two users
(models.go:39, API.md:624; `bent` marks it); API.md:613 says a user cannot have two creds on one
session, the comment at handlers_claim.go:232-235 and the code let two orders share one; SetSessionType
counts and then writes without claimMu (handlers_session.go:552-561), so a claim in between leaves a
private session with several users; a claim repeated after SetSessionType matches nothing and gives the
order twice as many; changing a cred that has run out gives one without expiry (355-361); two extends
that read the same expiry add up to one (API.md says they accumulate); UpdateCred's Save
(handlers_cred.go:180) brings a cred back that was released or cleaned up after it was read.

Left out: creds without a user (created with a proxy or by an administrator, who is limited by
checkCredLimit), which no count of slots includes; deletion of a session with its creds; whether a
session is up, which only narrows what `ClaimPick` may choose; usernames and passwords; the reload of
the listeners after each change, which is in `Listeners`.

## Listeners

`Listeners.tla` models the listener manager (`proxy/server/manager.go`) with the handlers that drive
it: createSessionAndDial, SetSessionEnabled, DeleteSession and DeleteLine, every handler that changes
creds, and the rule handlers.

State. `row[p]` joins the rows of a session and its proxy (a session has one proxy), either of which
may be there: unit, MAC, port, status. What creds and rules say does not matter here, only whether a listener has
the latest: `creds[p]`, `global` and `own[p]` count the changes of the tables, `cache` is
`m.globalRules`. `open` is the set of listeners whose socket is bound, each with the versions it was
given; `listeners` is the map `m.listeners`. `held` are the sessions whose row some Dial, Rotate or Hangup has
loaded and may still save. A goroutine has a place `pc[h]` and a `job[h]`, its local
variables. `overlap` belongs to the model: `<<"creds", p>>` says that somebody read the creds of `p`
while another held a copy not yet in force, `"rules"` the same for rules, `"cache"` for two
LoadGlobalRules, `"status"` that two of Start, Stop and deletion of `p` overlapped. `back` belongs to the
model too: the sessions that a Save has put back into the table while a creation had chosen their unit.

Actions. Start is `StartNothing` or `StartLoad` (the map and the row), `StartBind` (a port is refused
while a listener has it), `StartCreds`, `StartRules`, `StartRegister`, `StartRunning`; Stop is
`StopRemove`, `StopClose`, `StopStatus`; a deletion goes on with `DropCreds`, `DropRow`, `DropSession`.
A creation is `CreateBegin` (which picks the MAC, before the mutex), `CreateLock` and `CreateSession`
(the unit), `CreatePort` and `CreateProxy` (the port, and unlock), `CreateSeed` or `CreateReject`,
`CreateDial` (loads the row), `CreateDialing` and `CreateDialed` (the two Saves of a dial), and Start. `Save`
is gorm's: it writes the whole row, inserts it again when it is gone, and is refused by the unique index
when another session has its unit. `RowLoad` and `RowSave` are the same of the dials, rotations and hangups
that requests, loops and deletions ask for (PppoeManager has them in full). `CredWrite` stands for every change of creds: of one proxy (administrator,
claim) or of several (release, prune, change, bulk, the cleanup of expired ones); then
`ReloadCreds` and `SetCreds` for each. ReloadGlobalRules is `GlobalQuery`, `GlobalStore`,
`GlobalSnapshot`, ReloadSessionRules is `SessionTarget`, and both go on with `Merge` and `SetRules`.
`Restart` is a crash and RestoreAll. Claims says which creds a change may write, this module what
becomes of it: they meet in `CredWrite`.

| Run | Checks | Shows |
|---|---|---|
| `listeners_service` | TypeOK, Owned, PortsReturn, CredsFresh, RulesFresh, StatusTruthful, AllocExact | two goroutines and four requests of any kind, with restarts; 3.8 M states |

Bounds. Three ids for two ports and two units, so that both pools run out and a port comes back; a pool
of one MAC; two goroutines, which is what every overlap needs; four requests, enough for a creation,
its deletion, another creation that takes port and unit over, and one request or one dial or hangup (a
`RowLoad`) that overlaps any of these; a row that was loaded may be saved any number of times.
Goroutines and ids are symmetric. Deadlock is not checked: requests run out.

Left out: `p.Port == 0` in Start (91-98), since rows are inserted with their port; failing statements
of the database; a port that another program has; connections being served, which a Stop does not
end; an accept loop that ends on an error of accept other than a timeout (listener.go:47-49), after
which the proxy is in the map, `running`, and serves nobody until it is disabled and enabled.

### Proved

`ListenersProofs.tla`, for any proxies (finitely many), ports, units, MACs, goroutines and number of
requests:

* `TypeCorrect`: `Spec => []TypeOK`.
* `AllocationExact`: `Spec => []AllocExact`. Between its choice and its INSERT nobody takes a port, so that
  the unique index of ports never refuses a creation; and nobody takes a unit but the Save of a deleted
  session that had it. What is left of `allocMu` when Saves do not take it is thus stated for every
  interleaving (`ChoiceKept`, `SaveRows`).
* `ListenersOwned`: `Spec => []Owned`. No socket leaks and none is doubled, however Starts, Stops, deletions
  and reloads of one proxy overlap.

The inductive invariant adds to them: `MutexHeld` (allocMu belongs to the one goroutine that is
allocating), `PortsSound` (a row keeps its port once it has one, and a Start that has read it, or a
bound listener, agrees with it), `IdsSound` and `HandsSound` (a listener that is being started or
stopped is in the hands of one goroutine and not in the map). That a proxy never has two listeners rests
on the port: a second Start finds it bound (`FreePort`, `BindKept`), although Start releases `m.mu`
between its check of the map and net.Listen. Most steps are `Quiet`: they add no row, allocate nothing
and leave sockets, map and hands alone (`QuietSteps`), and the frame lemmas `AllocFrame`, `PortsFrame`
and `HandsFrame` show once that such a step keeps each part; the eleven others of a goroutine have a lemma
each or share one. `NoNewRows`, the frame of the rows, admits a session that a Save puts back and
requires it in `back` if its unit is chosen; `RowKept` is the Saves of other dials.

`ListenersStatusProofs.tla`, on top of it:

* `PortsReturned`: `Spec => []PortsReturn`.
* `StatusTrue`: `Spec => []StatusTruthful`.

`Agreed(p)` is what overlaps disturb, and it is required of the proxies that none has disturbed: one
goroutine at most is starting, stopping or deleting p; as long as p listens or is being started its row
is there; and unless that goroutine has acted and not yet written, the row says `running` exactly when
the map has a listener. Most steps are about another proxy or leave all this alone (`Elsewhere`); a step
by which a second goroutine would join the first makes p overlapped instead.

`ListenersReloadProofs.tla`, on top of it:

* `CredsStayFresh`: `Spec => []CredsFresh`.
* `RulesStayFresh`: `Spec => []RulesFresh`.

`ReloadInv` says of each listener that what it lacks is on its way: it has the creds of the table, or
somebody who has written them will still reload it (`CredsDue`), or it is in the hands of its Start,
which has not read them yet, or it is being closed; and whoever holds a copy for it holds a good one,
or one that another reload will replace. The same of the rules (`RulesDue`), of those who have still to
find the listeners they are for (`Targeting`, `Loading`), and of the cache of global rules (`CacheKept`).
When nobody is at work none of this is left but equality, which is what the two properties say.

All the invariants of this component's run are proved.

### Where code and documents disagree

Seen while modelling, without a run of its own: the Save of a dial or hangup puts a session that was deleted
meanwhile back into the table with its unit (pppoe/manager.go:172, 219, 636) and does not take
`allocMu`, so that a unit may be taken between AllocPppUnit (handlers_session.go:221) and Create (235) and
the creation is refused (`AllocExact` excuses exactly this, by `back`); pickCustomMacOrRandom is called before `allocMu` is taken
(handlers_session.go:217) although its comment (41) says that the caller must hold it, so that two
creations on a line may take the same MAC of its pool; two reloads of
one listener that overlap may install the older creds last, and a change between the Start's read (117)
and its registration (124) reaches nobody, so a deleted cred goes on working until the next change;
an enable that overlaps a deletion leaves a listener without row, which nothing can stop and whose port
a later creation is given in vain; a Start that overlaps a Stop may leave the opposite status, which
decides what the next RestoreAll starts; a creation whose dial fails never starts its proxy, although
the watchdog connects the session later; a session enabled between its insertion and its default
cred (251-267) listens without it, since nothing
reloads; a session deleted between the inserts of session and proxy (235-246) leaves a proxy that no
request can delete.

## ProxyConn

`ProxyConn.tla` models one client connection of a listener from accept to the last of its goroutines:
`listener.go` (handle, pipe), `socks5.go`, `http.go`, `dial.go`, `udp.go`, and the decision of
`access.go`. `Listeners` says which creds and rules a listener is given; here they are `creds` and
`rules`, replaced at any moment.

State. Of the listener: `listening` (its context), `creds`, `rules`. Of the session: `iface` (the row
names an interface), `dev` (the interface exists). Of each connection: the place of its goroutine
`pc[c]`, its open sockets `fds[c]`, the goroutines it started `gor[c]` (the two copies of a tunnel; the
three loops and the reader of the control connection of an association), the state of the two `ends`
(open, stuck: open but no longer reading, gone), where its outbound socket sends (`egress[c]`: the
line, the default route, or a line that is lost), what it asked for, and of an association whether its
`cancel` was called (`over`), the locked client address, the datagram in hand and the ticks since
the last activity.

Actions. Handshake: `Accept`, `Peek`, `Greet`, `Auth`, `Connect`/`AskUdp` for SOCKS5, `Http` for both
kinds of HTTP request, and `GiveUp` for the deadline and everything refused. Tunnel: `Lookup` (the
interface's name, read before the host is resolved), `DialBound`/`DialError`, `Reply` or `Forward`,
`CopyEnds` for each direction, `PipeReturn` with the first of them. Association: `Listen`, `Bind`,
`Answer` with an error path each, `Recv` (source lock, rules, then resolving), `Resolved`, `Backward`,
`Tick`, `Control`, `LoopEnds`, `Teardown`, `Waited`. The environment closes or blocks either end,
reloads, stops the listener, takes the line down and up, and clears and saves the row's interface.
`allowed` is the loop over the compiled rules; a pattern is the set of hosts or addresses it covers.

`RelayLife.tla` is the abstract life of a connection: resources are taken while it is set up, it relays
only with a way out, then only gives back, and holds nothing when closed. `LifeSpec` maps `Phases`
and `Holds` (sockets and loops) to it.

| Run | Checks | Shows |
|---|---|---|
| `proxy_connections` | TypeOK, Admission, LifeSpec, HandshakeEnds, TunnelEnds, AssociationEnds, IdleEnds | every path of a connection against every change around it; 87 k states |
| `bug_egress` | EgressOnLine | a connection that looks its interface up while the row has none dials by the default route |

Bounds. Connections share only what the environment changes, so one connection shows what the changes
can do to it. A name and an address as destinations, since only a name is resolved; rule lists in
which a deny meets an allow, both kinds are strict, and an allow of one kind must not satisfy the other;
a user with and one without creds; two datagram sources, one of which loses the lock; an idle limit of
two ticks (one passes before the limit, one at it). Deadlock is not checked: a connection ends.

Fairness. `Progress` has weak fairness for what a goroutine can do without anybody's help: calls under a
deadline or timeout end (SetDeadline, the dial's 15 s, resolve's 5 s), a read on a closed socket
returns, ticks come. Neither client nor server owes anything, so `Recv`, `Peek`, `Auth` have none.
`TunnelEnds` therefore excuses an end that stays open without reading: a tunnel has no deadline and a
copy that writes to it waits.

Left out: parsing beyond what it decides, the encapsulation of datagrams and the table of targets, byte
and connection counters, the host cache (a memo of resolve).

### Proved

`ProxyConnProofs.tla`, for any connections, hosts, creds, rules, idle limit:

* `ConnTyped`: `Spec => []TypeOK`.
* `AllowedIsRuleOK`: `allowed(h, ip) <=> RuleOK(h, ip)` for every list of rules in `RuleSets`, of any
  length and in any order: the loop with its early return and its four flags, and the sentence of its
  comment, are the same decision.
* `AdmissionHolds`: `Spec => Admission`.
* `ConnImplementsLife`: `Spec => LifeSpec`. No return path, of which there are about fifteen, leaks a
  socket or a loop, and no relaying goes on without an outbound socket.

The inductive invariant adds to the types `Shaped` (what a connection holds is a function of its place,
which is what makes every deferred Close complete) and `Outbound` (egress is set exactly while an
outbound socket is open). For the refinement each action is one of six shapes (`MovesOn`, `Accepting`,
`Taking`, `Relaying`, `Releasing`, `Closing`) or leaves places, sockets and goroutines alone, and one
lemma per shape (`LifeTakes`, `LifeCloses`, ...) maps it to a step of RelayLife or a stutter.

`allowed` is a recursion over the list, and the induction theorems of the library, which take a predicate
as a parameter, cannot be used. `SetInduction` replaces them: a set of naturals that has 0 and with each
number the next is Nat, since the rest would have a least element (`WFMin`). With it `TurnsStep` shows that
the recursive function exists and obeys its equation, and `LastTurn` carries `ScanOK` (denied exactly
if a deny among the first n matches, or else the kinds that allow and the kinds that allowed) over the turns.

The proofs assume `RulesAssumption`: rules allow or deny, a domain or an address (handlers_rule.go 151-155
refuses others, compile skips them). Only model-checked: the liveness properties.

### Where code and documents disagree

* `bug_egress` (manager.go:244): makeIfaceFn answers "" when Hangup has cleared the row's interface or the row
  is gone, and SO_BINDTODEVICE with "" binds to nothing; dial.go:1 and udp.go:7 say that all traffic
  leaves by the session's line. Every rotation opens this window.

Seen while modelling, without a run of its own: names in TCP requests are resolved by the default resolver, not
over the line; the buffered reader of http.go (21) keeps what arrives behind the request, so bytes a
client sends before the answer to CONNECT are lost, and a second request on a kept-alive connection goes to
the server of the first; Stop ends associations but not tunnels; pipe ends with the first
direction, so a half-closed connection loses what the other direction still had to say; an association
whose interface has vanished lives on as long as its client sends, since activity is noted before the
answer; a socket bound to an interface that comes back under the same name stays lost.

## AdminApi and EventHub

`AdminApi.tla` models the management requests (`middleware.go`, `handlers_token.go`,
`handlers_settings.go`, `handlers_iface.go`, `handlers_events.go`) and the seeding of `main.go`; it
extends `EventHub.tla`, which is `events/hub.go`.

State. A request `r` has a place `at[r]` and what it asks `req[r]`. `apiTok` and `userTok` are the rows of
`tokens` without and with a user (a token has the name of the request that inserted it), `hash` the
password the user's row has, `settings` the rows of settings, `probeRunning` the flag under probeMu.
Histories of the model: `born[t]`, the password whose knowledge token `t` stands for; `late`, tokens
that an overlapping login or a crash kept from the deletion; `wrote[r]`, the keys a request has saved;
`gone`, the streams whose client has left. Of the hub: `subs`, the channels with what was `sent` and
`taken`, `closed`, the publishers' walks (`todo`, with `audience` at its start and the channels found
full, `lost`).

Actions. `BearerAuth`, then each handler in the statements others can come between: `Login` compares and
`Insert` inserts; `ChangePassword` compares, `SavePassword` saves, `Purge` deletes the other tokens;
`Validate` looks at the whole body, `SaveSetting` writes one key, `SaveError` gives up between two;
`Probe` tests and sets the flag; `StreamBegin`, `StreamEvent`, `StreamEnd` are the SSE handler. The hub's
`Subscribe` and `Unsubscribe` need the write lock, so no publisher may be on its walk; `PublishBegin` and
`Send` are a walk under the read lock, of which several may go on at once. `Restart` ends all.

## PeerFiles

`PeerFiles.tla` models what Dial and the deletions do outside the database (`config.go`, called from
`manager.go`, `handlers_session.go`, `handlers_line.go`): `kit[s]` is the macvlan and the peer file of a
session, `file[f]` the contents of chap-secrets and pap-secrets, which all sessions share. A change of a
secrets file is `Open` (read all, truncate) and `Write` under `secretsMu` (`mu`, `buf`). A Dial is
`DialBegin`, `DialLock` (which saves the row, whether it is there or not), `Macvlan`, `PeerFile`,
`UpsertOpen`/`UpsertWrite` per file, `DialEnd`; a deletion is `DeleteBegin`, `RemovePeerFile`,
`RemoveMacvlan`, `RemoveOpen`/`RemoveWrite` per file, `DeleteRow`. `Crash` leaves a file that was being
written empty. File errors are actions too: `UpsertMisread` (an error of ReadFile is ignored, config.go:83,
and the file is written with the one login), `UpsertFail` and `RemoveFail` (WriteFile fails after it has
truncated the file, 102-104 and 125: Dial gives up, the deletion goes on), `RemoveSkip` (the removal's
read failed, or its write before it truncated: the secret stays). An upsert whose write fails before it
truncates is `DialEnd`. A file that a crash or an error has torn counts as empty; in truth a prefix of it
may be left. Histories: `has[f]`, the sessions whose secret was written; `swept[f]`, of those the ones
whose login another session has removed or changed; `torn[f]`, of those the ones that a crash or an error
of the file has cost their secret; `mixed`, deletions that overlapped a Dial.

`SecretBook.tla` is what secretsMu makes of the two files: books in which one login's secret is entered or
struck out at a time. `BookSpec` maps to a book the contents of its file, or `buf` while the file is being
written: a change happens when the file is opened, and the truncated file in between is seen by nobody
unless the process dies or the write fails there. A `Mishap` is such a crash or error: it blanks one book
at most (`Tear`), or all of it but the login being entered (`Misread`), and the book counts them.

## AdminApi and PeerFiles checked

`MCControl` checks both in one run, since they share no state: `part` chooses which of the two
moves in a behaviour, so the run has the states of both side by side and not their product.

| Run | Checks | Shows |
|---|---|---|
| `control_plane` | TypeOK, NoSendOnClosed, SlowLosesItsOwn, OldPasswordRevoked, SettingsSound, OneProbe, PublishEnds, StreamEnds; FilesTypeOK, SecretsServe, BookSpec, NoLeftovers | four overlapping requests with a restart; three dials or deletions of three sessions with a crash and a file error; 1.0 M states |
| `bug_secrets` | SecretsKept | deleting a session takes the secret from the others with the same login |

Bounds. Requests are given by `MCRequests`: two of any kind, a third that streams or publishes and a
fourth that publishes, which is enough for a change of password against a login, two updates of the same
key, two probes, and two publishers walking over two streams. Channels of capacity 1 fill with the second
event. Two sessions share a line and a login, a third has its own, so that writes meet under secretsMu,
removals under one login and dials on one line. One restart or crash falls between any two steps, and
one read or write of a secrets file fails at any of them.
Deadlock is not checked: requests run out.

Fairness. `Fairness` is weak fairness for publishers (nothing they do waits) and for `StreamEnd`
(CloseNotify is one of the cases of the stream's select). A stream whose client stays and does
not read has none: it may never take another event, and `PublishEnds` holds nonetheless.

Left out: requests that only read; the keep-alive ticker; expiry of tokens (there is none); more than one
user (the code seeds one and creates no other); errors of removing a peer file or a macvlan, which the
code ignores (NoLeftovers is about removals that succeed).

### Proved

`AdminApiProofs.tla`, for any requests, tokens, passwords, settings, capacity and number of restarts:

* `ControlTyped`: `Spec => []TypeOK`; no channel ever holds more than its capacity.
* `NeverSendsOnClosed`: `Spec => []NoSendOnClosed`, by `Channels`: a channel is closed only by the stream
  that has ended, `subs` names streams that run, and a walk is on its way only over `subs`.
* `SlowLosesOnlyItsOwn`: `Spec => []SlowLosesItsOwn`.
* `OldPasswordsRevoked`: `Spec => []OldPasswordRevoked`. Two overlapping changes are covered.
* `SettingsStaySound`: `Spec => []SettingsSound`, by `Updating`: whoever is saving has validated all it saves.
* `OneProbeAtATime`: `Spec => []OneProbe`.

The common invariant is the types with `Asks` (which operation brings a request to each place), `Fresh` (a
token has the name of a request that has ended, so an insertion never meets an old token) and
`Streaming` (`subs` are the streams that run).

`PeerFilesProofs.tla`, for any sessions, lines, logins, secrets, crashes and file errors:

* `FilesTyped`: `FilesSpec => []FilesTypeOK`, with `Holding` (the mutex belongs to a goroutine that is at
  that file) and `LinesApart` (one dial past the lock of its line).
* `SecretsServed`: `FilesSpec => []SecretsServe`, by `Kept`: what is promised of the file is, during a
  write, promised of `buf`. A crash or a file error costs the secrets of the one file it hits, whoever they
  belong to; these are excused by name (`torn`, `LossKept`) until they are written again, and no others.
* `FilesImplementBook`: `FilesSpec => BookSpec`, with `Truncated` (a file being written is empty): an
  `Open` is an entry, a `Write` a stutter (`WriteStutters`), a crash or a failing write blanks the one book
  (`LossTears`), an ignored error of ReadFile blanks it but for its login (`MisreadEnters`).
* `NothingLeft`: `FilesSpec => []NoLeftovers`, by `Clean`: a deletion has removed the parts it has passed.
* `OwnLoginsKept`: `FilesSpec => []SecretsKept` where all logins differ and no secret is empty. It delimits
  what `bug_secrets` finds: with no login shared nothing is ever `swept`, and SecretsServed does the rest.
  What a crash or a file error has torn is excused here as there: only these, and a login shared, lose a
  secret.

Only model-checked: `PublishEnds` and `StreamEnds` (liveness).

### Where code and documents disagree

* `bug_secrets` (handlers_session.go:366, handlers_line.go:175): the deletion of a session removes its login's
  secret whoever else uses it; config.go:128 says only if no other session does. The pppd of the
  other sessions of the line (`persist`, config.go:42) finds no secret when it reconnects by itself, until a
  Dial writes it again.

Seen while modelling, without a run of its own: a login that compared the old password before the change
and inserts after it keeps its token, a fresh login between the save and the deletion loses its token,
and of two overlapping changes both are answered with success and each may delete the token of the other
(handlers_token.go:99-180); ADMIN_TOKEN comes back at the next start when all API tokens were deleted;
an event stream outlives the token it was opened with; a save of settings that fails half-way leaves the
keys before it saved and publishes nothing; a crash in the middle of a change leaves a secrets file
truncated, and nothing writes the other logins again before their next dial; without any crash the same
happens when upsertSecret ignores an error of ReadFile (config.go:83) and writes the file with its one
login, or when WriteFile fails after truncating (102-104; at 125 the error is ignored); a dial that overlaps the
deletion of its session brings row, macvlan and peer file back.

## Not modelled

* Activity and audit logs: append-only tables with a periodic cleanup, which nothing reads to decide.
* Statistics, export, health, the listing of interfaces: queries and formatting, no state changes.
* `scripts/reconcile-routing.py`: an operator's tool outside the process; it repeats ApplyReplyRouting.
* Parsing of the environment, migrations of the database; `ui/`, `deploy/`; test code.
* Of session handlers: the editing of lines and of fields that no other component reads.

Out of the provers' reach and left to TLC: the liveness properties (Converges, RequestsFinish,
HandshakeEnds, TunnelEnds, AssociationEnds, IdleEnds, PublishEnds, StreamEnds), which need fairness.
