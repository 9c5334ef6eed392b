----------------------------- MODULE MCControl -----------------------------
(* The management requests and the files of the sessions share no state, so   *)
(* one run checks both: `part` says which of the two moves in a behaviour.    *)
EXTENDS AdminApi, PeerFiles, TLC

VARIABLE part
mcVars == <<part, vars, peerVars>>

MCInit == Init /\ FilesInit /\ part \in {"api", "files"}
MCNext ==
  /\ part' = part
  /\ \/ part = "api" /\ Next /\ UNCHANGED peerVars
     \/ part = "files" /\ FilesNext /\ UNCHANGED vars
MCSpec == MCInit /\ [][MCNext]_mcVars /\ Fairness

Ask(op, t) == [op |-> op, tok |-> t]
Update(v) == Ask("settings", Seed) @@ [body |-> [k1 |-> v, k2 |-> "v2"]]
Change    == Ask("change", Web) @@ [pass |-> First, new |-> "p2"]
Delete(t) == Ask("delete", Web) @@ [id |-> t]
LogIn(p)  == Ask("login", "") @@ [pass |-> p]
MCRequests == [r \in Pubs |->
  CASE r = "r1" -> {LogIn("p1"), Change, Ask("create", Seed), Delete(Seed), Delete(Web),
                    Update("v2"), Update("bad"), Ask("probe", Seed), Ask("events", Seed)}
    [] r = "r2" -> {LogIn("p1"), LogIn("p2"), Change, Ask("logout", Web), Ask("logout", Seed),
                    Update("v1"), Ask("probe", Seed), Ask("events", Web)}
    [] r = "r3" -> {Ask("events", Seed), Ask("event", "")}
    [] OTHER    -> {Ask("event", "")}]
MCDefaults == [k1 |-> "v1", k2 |-> "v1"]
MCAccepted == [k1 |-> {"v1", "v2"}, k2 |-> {"v1", "v2"}]

\* Two sessions of a line with its login, and one of another line.
MCLineOf   == "s1" :> "l1" @@ "s2" :> "l1" @@ "s3" :> "l2"
MCLoginOf  == "s1" :> "a" @@ "s2" :> "a" @@ "s3" :> "b"
MCSecretOf == "s1" :> "x" @@ "s2" :> "x" @@ "s3" :> "y"
=============================================================================
