----------------------------- MODULE PeerFiles -----------------------------
(* What a session has outside the database (internal/pppoe/config.go): its    *)
(* macvlan, its peer file, and the secret of its login in the two secrets     *)
(* files, which all sessions share.  Dial writes them, the deletion of the    *)
(* session removes them (handlers_session.go, handlers_line.go).  The process *)
(* may die between any two writes, and reading or writing a secrets file may  *)
(* fail.  Sessions of a line have the line's login and password unless they   *)
(* were given others.                                                         *)
EXTENDS Naturals, FiniteSets

CONSTANTS
  Sessions,
  LineOf, LoginOf, SecretOf, \* the line, username and password of each session's row
  MaxCrashes, MaxErrors, MaxTasks   \* bounds of a run

ASSUME TasksAssumption == MaxCrashes \in Nat /\ MaxErrors \in Nat /\ MaxTasks \in Nat

VARIABLES
  rows,     \* sessions in the database
  kit,      \* of a session, which of macvlan and peer file exist
  file,     \* the secrets file of each protocol: the secret of each login, or ""
  buf,      \* the content that the holder of secretsMu writes
  mu,       \* who holds secretsMu: a session and its goroutine, or nobody
  dial, del, \* where the goroutine in Dial, and the one that deletes, is
  has,      \* history: sessions whose secret was written to a file
  swept,    \* history: of those, the ones whose login others have removed or changed since
  torn,     \* history: the ones that a crash or an error has cost their secret since
  mixed,    \* history: sessions whose deletion overlapped a Dial
  crashes, errors, tasks \* how many crashes, file errors, and dials and deletions there were

history  == <<has, swept, torn, mixed>>
peerVars == <<rows, kit, file, buf, mu, dial, del, history, crashes, errors, tasks>>

Files  == {"chap", "pap"}
Logins == {LoginOf[s] : s \in Sessions}
Values == {SecretOf[s] : s \in Sessions} \cup {""}
Nobody == <<>>
Empty  == [l \in Logins |-> ""]
Sharers(s) == {t \in Sessions \ {s} : LoginOf[t] = LoginOf[s]}

FilesTypeOK ==
  /\ rows \subseteq Sessions /\ kit \in [Sessions -> SUBSET {"macvlan", "peer"}]
  /\ file \in [Files -> [Logins -> Values]] /\ buf \in [Logins -> Values]
  /\ mu \in {Nobody} \cup (Sessions \X {"dial", "del"} \X Files)
  /\ mu # Nobody => (IF mu[2] = "dial" THEN dial[mu[1]] ELSE del[mu[1]]) = mu[3]
  /\ dial \in [Sessions -> {"idle", "waiting", "macvlan", "peer", "chap", "pap", "status"}]
  /\ del \in [Sessions -> {"idle", "peer", "macvlan", "chap", "pap", "row"}]
  /\ has \in [Files -> SUBSET Sessions] /\ swept \in [Files -> SUBSET Sessions]
  /\ torn \in [Files -> SUBSET Sessions]
  /\ \A s, t \in Sessions : LineOf[s] = LineOf[t] /\ dial[s] \notin {"idle", "waiting"} /\ s # t
       => dial[t] \in {"idle", "waiting"}
  /\ mixed \subseteq Sessions
  /\ crashes \in 0..MaxCrashes /\ errors \in 0..MaxErrors /\ tasks \in 0..MaxTasks

FilesInit ==
  /\ rows = Sessions /\ kit = [s \in Sessions |-> {}]
  /\ file = [f \in Files |-> Empty] /\ buf = Empty /\ mu = Nobody
  /\ dial = [s \in Sessions |-> "idle"] /\ del = [s \in Sessions |-> "idle"]
  /\ has = [f \in Files |-> {}] /\ swept = [f \in Files |-> {}] /\ torn = [f \in Files |-> {}]
  /\ mixed = {} /\ crashes = 0 /\ errors = 0 /\ tasks = 0

Begins == tasks < MaxTasks /\ tasks' = tasks + 1
Goes(s, l) == dial' = [dial EXCEPT ![s] = l]
Deletes(s, l) == del' = [del EXCEPT ![s] = l]

-----------------------------------------------------------------------------
(* The secrets files: each change reads the file, truncates it and writes it, *)
(* with secretsMu held.  A write that fails has truncated the file, or not.   *)

\* Variant: secretsMu is not taken.
Open_NoLock(s, who, f, secret) ==
  /\ buf' = [file[f] EXCEPT ![LoginOf[s]] = secret]
  /\ mu' = <<s, who, f>> /\ file' = [file EXCEPT ![f] = Empty]

Open(s, who, f, secret) ==
  /\ mu = Nobody /\ mu' = <<s, who, f>>
  /\ buf' = [file[f] EXCEPT ![LoginOf[s]] = secret]
  /\ file' = [file EXCEPT ![f] = Empty]
Write(s, who, f) ==
  /\ mu = <<s, who, f>> /\ mu' = Nobody
  /\ file' = [file EXCEPT ![f] = buf] /\ buf' = Empty

\* Reading or writing a file fails.
Errs == errors < MaxErrors /\ errors' = errors + 1
\* All that was in the file is lost.
Loses(f) == torn' = [torn EXCEPT ![f] = has[f]]
\* The write stops after the truncation.
WriteFails(s, who, f) ==
  /\ mu = <<s, who, f>> /\ mu' = Nobody /\ buf' = Empty /\ UNCHANGED file
  /\ Errs /\ Loses(f)

-----------------------------------------------------------------------------
(* Dial. *)

\* Dial has read the row and waits for the line.
DialBegin(s) ==
  /\ s \in rows /\ dial[s] = "idle" /\ Goes(s, "waiting") /\ Begins
  /\ mixed' = IF del[s] = "idle" THEN mixed ELSE mixed \cup {s}
  /\ UNCHANGED <<rows, kit, file, buf, mu, del, has, swept, torn, crashes, errors>>

\* Variant: without the line's lock.
DialLock_Free(s) ==
  /\ dial[s] = "waiting" /\ rows' = rows \cup {s} /\ Goes(s, "macvlan")
  /\ UNCHANGED <<kit, file, buf, mu, del, history, crashes, errors, tasks>>

\* With the line's lock, setStatus saves the row, whether it is still there or not.
DialLock(s) ==
  /\ dial[s] = "waiting"
  /\ \A t \in Sessions : LineOf[t] = LineOf[s] => dial[t] \in {"idle", "waiting"}
  /\ rows' = rows \cup {s} /\ Goes(s, "macvlan")
  /\ UNCHANGED <<kit, file, buf, mu, del, history, crashes, errors, tasks>>

Macvlan(s) ==
  /\ dial[s] = "macvlan" /\ kit' = [kit EXCEPT ![s] = @ \cup {"macvlan"}] /\ Goes(s, "peer")
  /\ UNCHANGED <<rows, file, buf, mu, del, history, crashes, errors, tasks>>
PeerFile(s) ==
  /\ dial[s] = "peer" /\ kit' = [kit EXCEPT ![s] = @ \cup {"peer"}] /\ Goes(s, "chap")
  /\ UNCHANGED <<rows, file, buf, mu, del, history, crashes, errors, tasks>>

UpsertOpen(s, f) ==
  /\ dial[s] = f /\ mu # <<s, "dial", f>> /\ Open(s, "dial", f, SecretOf[s])
  /\ UNCHANGED <<rows, kit, dial, del, history, crashes, errors, tasks>>
\* An error of ReadFile is ignored: the file is taken for an empty one.
UpsertMisread(s, f) ==
  /\ dial[s] = f /\ mu = Nobody /\ mu' = <<s, "dial", f>>
  /\ buf' = [Empty EXCEPT ![LoginOf[s]] = SecretOf[s]] /\ file' = [file EXCEPT ![f] = Empty]
  /\ Errs /\ Loses(f)
  /\ UNCHANGED <<rows, kit, dial, del, has, swept, mixed, crashes, tasks>>
UpsertWrite(s, f) ==
  /\ Write(s, "dial", f) /\ Goes(s, IF f = "chap" THEN "pap" ELSE "status")
  /\ has' = [has EXCEPT ![f] = @ \cup {s}] /\ torn' = [torn EXCEPT ![f] = @ \ {s}]
  /\ swept' = [swept EXCEPT ![f] = (@ \cup {t \in Sharers(s) : SecretOf[t] # SecretOf[s]}) \ {s}]
  /\ UNCHANGED <<rows, kit, del, mixed, crashes, errors, tasks>>
\* Dial gives up; secretsMu is free, the file stays truncated.
UpsertFail(s, f) ==
  /\ WriteFails(s, "dial", f) /\ Goes(s, "status")
  /\ UNCHANGED <<rows, kit, del, has, swept, mixed, crashes, tasks>>

\* pppd has been started, or something failed on the way (a write that has not
\* truncated its file is one): setStatus, and return.
DialEnd(s) ==
  /\ dial[s] \notin {"idle", "waiting"} /\ \A f \in Files : mu # <<s, "dial", f>>
  /\ rows' = rows \cup {s} /\ Goes(s, "idle")
  /\ UNCHANGED <<kit, file, buf, mu, del, history, crashes, errors, tasks>>

-----------------------------------------------------------------------------
(* DeleteSession, and each turn of DeleteLine, after Hangup. *)

DeleteBegin(s) ==
  /\ s \in rows /\ del[s] = "idle" /\ Deletes(s, "peer") /\ Begins
  /\ mixed' = IF dial[s] = "idle" THEN mixed ELSE mixed \cup {s}
  /\ UNCHANGED <<rows, kit, file, buf, mu, dial, has, swept, torn, crashes, errors>>

\* Variant: the row goes first.
RemovePeerFile_RowFirst(s) ==
  /\ del[s] = "peer" /\ kit' = [kit EXCEPT ![s] = @ \ {"peer"}] /\ Deletes(s, "macvlan")
  /\ rows' = rows \ {s}
  /\ UNCHANGED <<file, buf, mu, dial, history, crashes, errors, tasks>>
RemovePeerFile(s) ==
  /\ del[s] = "peer" /\ kit' = [kit EXCEPT ![s] = @ \ {"peer"}] /\ Deletes(s, "macvlan")
  /\ UNCHANGED <<rows, file, buf, mu, dial, history, crashes, errors, tasks>>
RemoveMacvlan(s) ==
  /\ del[s] = "macvlan" /\ kit' = [kit EXCEPT ![s] = @ \ {"macvlan"}] /\ Deletes(s, "chap")
  /\ UNCHANGED <<rows, file, buf, mu, dial, history, crashes, errors, tasks>>

\* RemoveSessionSecrets, whoever else has the login.
RemoveOpen(s, f) ==
  /\ del[s] = f /\ mu # <<s, "del", f>> /\ Open(s, "del", f, "")
  /\ UNCHANGED <<rows, kit, dial, del, history, crashes, errors, tasks>>
RemoveWrite(s, f) ==
  /\ Write(s, "del", f) /\ Deletes(s, IF f = "chap" THEN "pap" ELSE "row")
  /\ has' = [has EXCEPT ![f] = @ \ {s}]
  /\ swept' = [swept EXCEPT ![f] = @ \cup Sharers(s)]
  /\ UNCHANGED <<rows, kit, dial, torn, mixed, crashes, errors, tasks>>
\* Errors are ignored: of a write that has truncated the file...
RemoveFail(s, f) ==
  /\ WriteFails(s, "del", f) /\ Deletes(s, IF f = "chap" THEN "pap" ELSE "row")
  /\ UNCHANGED <<rows, kit, dial, has, swept, mixed, crashes, tasks>>
\* ... and of a read, or a write that has not: the secret stays.
RemoveSkip(s, f) ==
  /\ del[s] = f /\ mu = Nobody /\ Errs /\ Deletes(s, IF f = "chap" THEN "pap" ELSE "row")
  /\ UNCHANGED <<rows, kit, file, buf, mu, dial, history, crashes, tasks>>

DeleteRow(s) ==
  /\ del[s] = "row" /\ rows' = rows \ {s} /\ Deletes(s, "idle")
  /\ UNCHANGED <<kit, file, buf, mu, dial, history, crashes, errors, tasks>>

\* The process dies; a file that was being written stays as short as it was.
Crash ==
  /\ crashes < MaxCrashes /\ crashes' = crashes + 1
  /\ dial' = [s \in Sessions |-> "idle"] /\ del' = [s \in Sessions |-> "idle"]
  /\ mu' = Nobody /\ buf' = Empty
  /\ torn' = [f \in Files |-> IF mu # Nobody /\ mu[3] = f THEN has[f] ELSE torn[f]]
  /\ UNCHANGED <<rows, kit, file, has, swept, mixed, errors, tasks>>

FilesNext ==
  \/ Crash
  \/ \E s \in Sessions :
       \/ DialBegin(s) \/ DialLock(s) \/ Macvlan(s) \/ PeerFile(s) \/ DialEnd(s)
       \/ DeleteBegin(s) \/ RemovePeerFile(s) \/ RemoveMacvlan(s) \/ DeleteRow(s)
       \/ \E f \in Files : \/ UpsertOpen(s, f) \/ UpsertMisread(s, f) \/ UpsertWrite(s, f)
                           \/ UpsertFail(s, f)
                           \/ RemoveOpen(s, f) \/ RemoveWrite(s, f) \/ RemoveFail(s, f)
                           \/ RemoveSkip(s, f)

FilesSpec == FilesInit /\ [][FilesNext]_peerVars

-----------------------------------------------------------------------------
(* Properties. *)

\* Sessions whose secret is in the file, but for those that have lost it to another
\* session of the same login, to a crash or to an error of the file.
Served(f) == has[f] \ (swept[f] \cup torn[f])

\* However dials and deletions interleave, a secret that was written is there when
\* nobody is writing, until its session is deleted: secretsMu lets no session lose
\* that of another login.  Not kept, by what the code does: secrets of the file in
\* which the process died or ReadFile or WriteFile failed (config.go:83, 102, 125),
\* whoever they belong to, until they are written again.
SecretsServe ==
  mu = Nobody => \A f \in Files : \A s \in Served(f) : file[f][LoginOf[s]] = SecretOf[s]

\* The two files as books that change one login at a time: reading a file whole,
\* truncating it and writing it again are one step to everybody else (config.go:
\* secretsMu), for what is being written is the contents already.  A book loses
\* more than the one login only in a crash or an error.
Contents == [f \in Files |-> IF mu # Nobody /\ mu[3] = f THEN buf ELSE file[f]]
Book == INSTANCE SecretBook WITH Books <- Files, Owners <- Sessions, book <- Contents,
                            mishaps <- crashes + errors
BookSpec == Book!Spec

\* A deleted session leaves no peer file and no macvlan behind, not even when the
\* process dies half-way (the row goes last), unless a Dial was under way.
NoLeftovers == \A s \in Sessions \ (rows \cup mixed) : kit[s] = {}

\* config.go:128: the secrets go with a session only if no other has the same login.
\* What a crash or an error of the file has cost is left out.
SecretsKept ==
  mu = Nobody => \A f \in Files : \A s \in (has[f] \cap rows) \ torn[f] : file[f][LoginOf[s]] # ""
=============================================================================
