------------------------------ MODULE AdminApi ------------------------------
(* The management requests of the HTTP API (internal/api: middleware.go,      *)
(* handlers_token.go, handlers_settings.go, handlers_iface.go,                *)
(* handlers_events.go) and what main.go seeds at a start.  A request is a     *)
(* goroutine of its own; one action is what it does in one statement of the   *)
(* database or under one lock.  Publications of the other components appear   *)
(* as requests that only publish.                                             *)
EXTENDS EventHub

CONSTANTS
  Requests,   \* what each request may ask (bound of a run): records with the fields below
  Seed, Web,  \* ADMIN_TOKEN, and a token of an earlier login
  Passwords, First, \* passwords, and the one in the database at first
  Defaults,   \* the settings that SeedDefaultSettings inserts
  Accepted,   \* the values that the validator of each setting accepts
  MaxRestarts \* bound of a run

\* op; tok: the bearer token; pass, new: passwords; body: settings; id: a token.
Ops == {"login", "logout", "change", "create", "delete", "settings", "probe", "events", "event"}
Reqs == Pubs
Tokens == {Seed, Web} \cup Reqs
Idle == [op |-> "none"]

ASSUME RequestsAssumption ==
  /\ Streams = Pubs /\ Cap \in Nat \ {0} /\ MaxRestarts \in Nat
  /\ Seed # Web /\ {Seed, Web} \cap Pubs = {}
  /\ First \in Passwords /\ \A k \in DOMAIN Defaults : Defaults[k] \in Accepted[k]
  /\ \A r \in Pubs : Idle \notin Requests[r] /\ \A q \in Requests[r] :
       /\ q.op \in Ops /\ (q.op = "login" => q.pass \in Passwords)
       /\ q.op = "change" => q.new \in Passwords

VARIABLES
  at, req,    \* where each request is, and what it asks
  apiTok, userTok, \* the rows of tokens without and with a user
  hash,       \* the password whose hash the user's row has
  born,       \* the password that the holder of a token has shown or set
  late,       \* tokens inserted, or spared by a crash, after their password was replaced
  settings,   \* the rows of settings
  wrote,      \* the keys that a request has saved
  probeRunning,
  gone,       \* requests whose client has closed the connection
  restarts

reqVars  == <<at, req, wrote, gone>>
authVars == <<apiTok, userTok, hash, born, late>>
setVars  == <<settings, probeRunning, restarts>>
vars     == <<reqVars, authVars, setVars, hubVars>>

Labels == {"none", "auth", "insert", "save", "purge", "saving", "publish", "sending",
           "probing", "stream", "ok", "rejected", "failed", "killed"} \cup Ops
Ended(r) == at[r] \in {"none", "ok", "rejected", "failed", "killed"}

TypeOK ==
  /\ HubTypeOK
  /\ at \in [Reqs -> Labels] /\ \A r \in Reqs : req[r] \in Requests[r] \cup {Idle}
  /\ apiTok \subseteq Tokens /\ userTok \subseteq Tokens /\ apiTok \cap userTok = {}
  /\ hash \in Passwords /\ born \in [Tokens -> Passwords] /\ late \subseteq Tokens
  /\ DOMAIN settings = DOMAIN Defaults /\ wrote \in [Reqs -> SUBSET DOMAIN Defaults]
  /\ probeRunning \in BOOLEAN /\ gone \subseteq Reqs /\ restarts \in 0..MaxRestarts
  /\ subs = {r \in Reqs : at[r] = "stream"}

Init ==
  /\ at = [r \in Reqs |-> "none"] /\ req = [r \in Reqs |-> Idle]
  /\ apiTok = {Seed} /\ userTok = {Web} /\ hash = First
  /\ born = [t \in Tokens |-> First] /\ late = {}
  /\ settings = Defaults /\ wrote = [r \in Reqs |-> {}]
  /\ probeRunning = FALSE /\ gone = {} /\ restarts = 0
  /\ HubInit

Goto(r, l) == at' = [at EXCEPT ![r] = l]

\* Only login and health need no token; events of other components are no requests.
Arrive(r, q) ==
  /\ at[r] = "none"
  /\ req' = [req EXCEPT ![r] = q]
  /\ Goto(r, CASE q.op = "login" -> "login" [] q.op = "event" -> "publish" [] OTHER -> "auth")
  /\ UNCHANGED <<wrote, gone, authVars, setVars, hubVars>>

BearerAuth(r) ==
  /\ at[r] = "auth"
  /\ Goto(r, IF req[r].tok \in apiTok \cup userTok THEN req[r].op ELSE "rejected")
  /\ UNCHANGED <<req, wrote, gone, authVars, setVars, hubVars>>

-----------------------------------------------------------------------------
(* Tokens and passwords. *)

\* AuthLogin reads the user and compares the password ...
Login(r) ==
  /\ at[r] = "login"
  /\ Goto(r, IF req[r].pass = hash THEN "insert" ELSE "rejected")
  /\ UNCHANGED <<req, wrote, gone, authVars, setVars, hubVars>>

\* ... and, a bcrypt later, inserts the token.
Insert(r) ==
  /\ at[r] = "insert" /\ Goto(r, "ok")
  /\ userTok' = userTok \cup {r} /\ born' = [born EXCEPT ![r] = req[r].pass]
  /\ late' = IF req[r].pass = hash THEN late ELSE late \cup {r}
  /\ UNCHANGED <<req, wrote, gone, apiTok, hash, setVars, hubVars>>

\* AuthLogout: an API token cannot log out; one deleted meanwhile is fine.
Logout(r) ==
  /\ at[r] = "logout"
  /\ Goto(r, IF req[r].tok \in apiTok THEN "rejected" ELSE "ok")
  /\ userTok' = userTok \ {req[r].tok}
  /\ UNCHANGED <<req, wrote, gone, apiTok, hash, born, late, setVars, hubVars>>

CreateToken(r) ==
  /\ at[r] = "create" /\ Goto(r, "ok") /\ apiTok' = apiTok \cup {r}
  /\ UNCHANGED <<req, wrote, gone, userTok, hash, born, late, setVars, hubVars>>

\* DeleteToken: only API tokens.
DeleteToken(r) ==
  /\ at[r] = "delete"
  /\ Goto(r, IF req[r].id \in apiTok THEN "ok" ELSE "rejected")
  /\ apiTok' = apiTok \ {req[r].id}
  /\ UNCHANGED <<req, wrote, gone, userTok, hash, born, late, setVars, hubVars>>

\* ChangePassword reads its token and the user, and compares ...
ChangePassword(r) ==
  /\ at[r] = "change"
  /\ Goto(r, IF req[r].tok \in userTok /\ req[r].pass = hash THEN "save" ELSE "rejected")
  /\ UNCHANGED <<req, wrote, gone, authVars, setVars, hubVars>>

\* ... saves the new hash ...
SavePassword(r) ==
  /\ at[r] = "save" /\ Goto(r, "purge") /\ hash' = req[r].new
  /\ UNCHANGED <<req, wrote, gone, apiTok, userTok, born, late, setVars, hubVars>>

\* Variant: the sense of the condition on the id is turned round.
Purge_Own(r) ==
  /\ at[r] = "purge" /\ Goto(r, "ok")
  /\ userTok' = userTok \ {req[r].tok} /\ born' = [born EXCEPT ![req[r].tok] = hash]
  /\ UNCHANGED <<req, wrote, gone, apiTok, hash, late, setVars, hubVars>>

\* ... and deletes the user's other tokens.
Purge(r) ==
  /\ at[r] = "purge" /\ Goto(r, "ok")
  /\ userTok' = userTok \cap {req[r].tok} /\ born' = [born EXCEPT ![req[r].tok] = hash]
  /\ UNCHANGED <<req, wrote, gone, apiTok, hash, late, setVars, hubVars>>

-----------------------------------------------------------------------------
(* Settings and the interface probe. *)

Valid(k, v) == k \in DOMAIN Defaults /\ v \in Accepted[k]

\* Variant: a single entry of the body is looked at.
Validate_One(r) ==
  /\ at[r] = "settings"
  /\ \E k \in DOMAIN req[r].body : Goto(r, IF Valid(k, req[r].body[k]) THEN "saving" ELSE "rejected")
  /\ UNCHANGED <<req, wrote, gone, authVars, setVars, hubVars>>

\* UpdateSettings looks at every entry of the body before it saves any.
Validate(r) ==
  /\ at[r] = "settings"
  /\ Goto(r, IF \A k \in DOMAIN req[r].body : Valid(k, req[r].body[k]) THEN "saving" ELSE "rejected")
  /\ UNCHANGED <<req, wrote, gone, authVars, setVars, hubVars>>

\* One entry after the other, in the order of the map, until a save fails; then the event.
SaveSetting(r, k) ==
  /\ at[r] = "saving" /\ k \in DOMAIN req[r].body \ wrote[r]
  /\ settings' = [settings EXCEPT ![k] = req[r].body[k]]
  /\ wrote' = [wrote EXCEPT ![r] = @ \cup {k}]
  /\ UNCHANGED <<at, req, gone, authVars, probeRunning, restarts, hubVars>>
SaveError(r) ==
  /\ at[r] = "saving" /\ wrote[r] # DOMAIN req[r].body /\ Goto(r, "failed")
  /\ UNCHANGED <<req, wrote, gone, authVars, setVars, hubVars>>
Saved(r) ==
  /\ at[r] = "saving" /\ wrote[r] = DOMAIN req[r].body /\ Goto(r, "publish")
  /\ UNCHANGED <<req, wrote, gone, authVars, setVars, hubVars>>

\* Variant: the flag is not looked at.
Probe_Unchecked(r) ==
  /\ at[r] = "probe" /\ Goto(r, "probing") /\ probeRunning' = TRUE
  /\ UNCHANGED <<req, wrote, gone, authVars, settings, restarts, hubVars>>

\* ProbeIfaces tests and sets its flag under probeMu; the deferred function resets it.
Probe(r) ==
  /\ at[r] = "probe" /\ probeRunning' = TRUE
  /\ Goto(r, IF probeRunning THEN "rejected" ELSE "probing")
  /\ UNCHANGED <<req, wrote, gone, authVars, settings, restarts, hubVars>>
ProbeEnd(r) ==
  /\ at[r] = "probing" /\ Goto(r, "ok") /\ probeRunning' = FALSE
  /\ UNCHANGED <<req, wrote, gone, authVars, settings, restarts, hubVars>>

-----------------------------------------------------------------------------
(* Publications and event streams. *)

apiVars == <<req, wrote, gone, authVars, setVars>>

Publish(r) == at[r] = "publish" /\ PublishBegin(r) /\ Goto(r, "sending") /\ UNCHANGED apiVars
PublishTo(r, s) == at[r] = "sending" /\ Send(r, s) /\ UNCHANGED <<at, apiVars>>
PublishEnd(r) ==
  /\ at[r] = "sending" /\ todo[r] = {} /\ Goto(r, "ok")
  /\ UNCHANGED <<apiVars, hubVars>>

StreamBegin(r) == at[r] = "events" /\ Subscribe(r) /\ Goto(r, "stream") /\ UNCHANGED apiVars
StreamEvent(r) == at[r] = "stream" /\ Take(r) /\ UNCHANGED <<at, apiVars>>

\* Variant: the end of a stream without the deferred cancel.
StreamEnd_NoCancel(r) ==
  /\ at[r] = "stream" /\ r \in gone
  /\ Goto(r, "ok") /\ UNCHANGED <<apiVars, hubVars>>

\* Variant: the stream looks at its client only when it has an event for it.
StreamEnd_AtEvent(r) ==
  /\ at[r] = "stream" /\ r \in gone /\ taken[r] < Len(sent[r])
  /\ Unsubscribe(r) /\ Goto(r, "ok") /\ UNCHANGED apiVars

\* CloseNotify ends the stream, and the deferred cancel its subscription.
StreamEnd(r) ==
  /\ at[r] = "stream" /\ r \in gone
  /\ Unsubscribe(r) /\ Goto(r, "ok") /\ UNCHANGED apiVars

ClientGone(r) ==
  /\ at[r] = "stream" /\ r \notin gone /\ gone' = gone \cup {r}
  /\ UNCHANGED <<at, req, wrote, authVars, setVars, hubVars>>

\* The process ends wherever its requests are, and starts again: SeedAdminToken
\* inserts ADMIN_TOKEN if no API token is left.
Restart ==
  /\ restarts < MaxRestarts /\ restarts' = restarts + 1
  /\ at' = [r \in Reqs |-> IF Ended(r) THEN at[r] ELSE "killed"]
  /\ apiTok' = IF apiTok = {} THEN {Seed} ELSE apiTok
  /\ late' = IF \E r \in Reqs : at[r] = "purge" THEN late \cup userTok ELSE late
  /\ probeRunning' = FALSE /\ HubRestart
  /\ UNCHANGED <<req, wrote, gone, userTok, hash, born, settings>>

-----------------------------------------------------------------------------
Next ==
  \/ Restart
  \/ \E r \in Reqs :
       \/ \E q \in Requests[r] : Arrive(r, q)
       \/ BearerAuth(r) \/ Login(r) \/ Insert(r) \/ Logout(r) \/ CreateToken(r) \/ DeleteToken(r)
       \/ ChangePassword(r) \/ SavePassword(r) \/ Purge(r)
       \/ Validate(r) \/ SaveError(r) \/ Saved(r) \/ Probe(r) \/ ProbeEnd(r)
       \/ \E k \in DOMAIN Defaults : SaveSetting(r, k)
       \/ Publish(r) \/ PublishEnd(r) \/ \E s \in Streams : PublishTo(r, s)
       \/ StreamBegin(r) \/ StreamEvent(r) \/ StreamEnd(r) \/ ClientGone(r)

\* Publishers and the ends of streams wait for nobody but each other.
Fairness ==
  \A r \in Reqs :
    WF_vars(Publish(r) \/ PublishEnd(r) \/ \E s \in Streams : PublishTo(r, s)) /\ WF_vars(StreamEnd(r))

Spec     == Init /\ [][Next]_vars
LiveSpec == Spec /\ Fairness

-----------------------------------------------------------------------------
(* Properties. *)

\* Once a password change has been answered, no login with an earlier password is
\* worth anything (ChangePassword deletes the user's other tokens), but for the
\* login that compared before the change and inserted after it, and the change
\* that a crash cut off before the deletion.
OldPasswordRevoked ==
  (\A r \in Reqs : at[r] # "purge") => \A t \in userTok \ late : born[t] = hash

\* Settings always hold what their validators accept, a rejected update has
\* changed none of them and an accepted one all it names (UpdateSettings).
SettingsSound ==
  /\ \A k \in DOMAIN Defaults : settings[k] \in Accepted[k]
  /\ \A r \in Reqs : req[r] # Idle /\ req[r].op = "settings" =>
       /\ at[r] = "rejected" => wrote[r] = {}
       /\ at[r] \in {"publish", "sending", "ok"} => wrote[r] = DOMAIN req[r].body

\* One discovery at a time, and the flag is up exactly while it runs, so that no
\* end of a probe, nor a restart, locks the probe for ever (ProbeIfaces).
OneProbe ==
  /\ \A r, q \in Reqs : at[r] = "probing" /\ at[q] = "probing" => r = q
  /\ probeRunning <=> \E r \in Reqs : at[r] = "probing"

\* The publishers come to an end, and leave the lock, although no stream ever
\* reads (Publish drops what does not fit).
PublishEnds == []<>(\A r \in Reqs : at[r] \notin {"publish", "sending"})

\* A stream whose client has gone gives up its channel although no event ever comes.
StreamEnds == []<>(gone \cap subs = {})
=============================================================================
