-------------------------- MODULE PeerFilesProofs --------------------------
(* Proofs about PeerFiles, for every set of sessions, whatever lines and     *)
(* logins they share, and every number of dials, deletions, crashes and       *)
(* errors of files.                                                          *)
EXTENDS PeerFiles, TLAPS

\* The lock of the secrets files belongs to a goroutine that is at the file.
Holding ==
  mu # Nobody => (IF mu[2] = "dial" THEN dial[mu[1]] ELSE del[mu[1]]) = mu[3]

\* Past the lock of its line a dial is the only one of that line.
LinesApart ==
  \A s, t \in Sessions :
    LineOf[s] = LineOf[t] /\ dial[s] \notin {"idle", "waiting"} /\ s # t
      => dial[t] \in {"idle", "waiting"}

Typed ==
  /\ rows \in SUBSET Sessions /\ kit \in [Sessions -> SUBSET {"macvlan", "peer"}]
  /\ file \in [Files -> [Logins -> Values]] /\ buf \in [Logins -> Values]
  /\ mu \in {Nobody} \cup (Sessions \X {"dial", "del"} \X Files)
  /\ dial \in [Sessions -> {"idle", "waiting", "macvlan", "peer", "chap", "pap", "status"}]
  /\ del \in [Sessions -> {"idle", "peer", "macvlan", "chap", "pap", "row"}]
  /\ has \in [Files -> SUBSET Sessions] /\ swept \in [Files -> SUBSET Sessions]
  /\ torn \in [Files -> SUBSET Sessions] /\ mixed \in SUBSET Sessions
  /\ crashes \in 0..MaxCrashes /\ errors \in 0..MaxErrors /\ tasks \in 0..MaxTasks

-----------------------------------------------------------------------------
(* Types. *)

\* FilesTypeOK in the parts the proofs use.
LEMMA TypeParts == FilesTypeOK <=> Typed /\ Holding /\ LinesApart
  BY DEF FilesTypeOK, Typed, Holding, LinesApart

\* An empty file, logins and secrets are of their types.
LEMMA ContentsTyped == /\ Empty \in [Logins -> Values]
                  /\ \A s \in Sessions : LoginOf[s] \in Logins /\ SecretOf[s] \in Values /\ "" \in Values
  BY DEF Empty, Logins, Values

\* One open of a file by s keeps the types of the files and of the lock.
LEMMA OpenTyped ==
  ASSUME Typed, NEW s \in Sessions, NEW who \in {"dial", "del"}, NEW f \in Files,
         NEW secret \in Values, Open(s, who, f, secret)
  PROVE  /\ file' \in [Files -> [Logins -> Values]] /\ buf' \in [Logins -> Values]
         /\ mu' \in Sessions \X {"dial", "del"} \X Files /\ mu = Nobody /\ mu' = <<s, who, f>>
<1>1. [file[f] EXCEPT ![LoginOf[s]] = secret] \in [Logins -> Values]
  BY ContentsTyped DEF Typed
<1> QED BY <1>1, ContentsTyped DEF Typed, Open

\* So does its write, which gives the lock back.
LEMMA WriteTyped ==
  ASSUME Typed, NEW s \in Sessions, NEW who \in {"dial", "del"}, NEW f \in Files, Write(s, who, f)
  PROVE  /\ file' \in [Files -> [Logins -> Values]] /\ buf' \in [Logins -> Values]
         /\ mu = <<s, who, f>> /\ mu' = Nobody
  BY ContentsTyped DEF Typed, Write

\* A write that fails loses what was in the file, and an error is counted.
LEMMA FailTyped ==
  ASSUME Typed, NEW s \in Sessions, NEW who \in {"dial", "del"}, NEW f \in Files, WriteFails(s, who, f)
  PROVE  /\ buf' \in [Logins -> Values] /\ torn' \in [Files -> SUBSET Sessions]
         /\ errors' \in 0..MaxErrors /\ mu = <<s, who, f>> /\ mu' = Nobody /\ file' = file
<1>1. errors' \in 0..MaxErrors
  BY TasksAssumption DEF Typed, WriteFails, Errs
<1>2. torn' \in [Files -> SUBSET Sessions]
  BY DEF Typed, WriteFails, Loses
<1> QED BY <1>1, <1>2, ContentsTyped DEF WriteFails

\* A session gets or loses a part of its kit.
LEMMA KitTyped ==
  ASSUME NEW k \in [Sessions -> SUBSET {"macvlan", "peer"}], NEW s \in Sessions,
         NEW x \in {"macvlan", "peer"}
  PROVE  /\ [k EXCEPT ![s] = @ \cup {x}] \in [Sessions -> SUBSET {"macvlan", "peer"}]
         /\ [k EXCEPT ![s] = @ \ {x}] \in [Sessions -> SUBSET {"macvlan", "peer"}]
<1>1. k[s] \cup {x} \in SUBSET {"macvlan", "peer"} /\ k[s] \ {x} \in SUBSET {"macvlan", "peer"}
  OBVIOUS
<1> QED BY <1>1

\* A triple is not the empty tuple, and says who holds what.
LEMMA Triples ==
  ASSUME NEW s, NEW w, NEW f
  PROVE  /\ <<s, w, f>> # Nobody /\ <<s, w, f>>[1] = s /\ <<s, w, f>>[2] = w /\ <<s, w, f>>[3] = f
         /\ \A s2, w2, f2 : <<s, w, f>> = <<s2, w2, f2>> => s = s2 /\ w = w2 /\ f = f2
  BY DEF Nobody

\* The files and the places of dials and deletions keep their types; the lock belongs to one
\* that is at the file, and a line has at most one dial past its lock.
THEOREM FilesTyped == FilesSpec => []FilesTypeOK
<1>1. FilesInit => FilesTypeOK
  <2> SUFFICES ASSUME FilesInit PROVE FilesTypeOK OBVIOUS
  <2>1. 0 \in 0..MaxCrashes /\ 0 \in 0..MaxErrors /\ 0 \in 0..MaxTasks BY TasksAssumption
  <2>2. /\ file \in [Files -> [Logins -> Values]] /\ buf \in [Logins -> Values]
    BY ContentsTyped DEF FilesInit
  <2>3. /\ rows \in SUBSET Sessions /\ kit \in [Sessions -> SUBSET {"macvlan", "peer"}]
        /\ has \in [Files -> SUBSET Sessions] /\ swept \in [Files -> SUBSET Sessions]
        /\ torn \in [Files -> SUBSET Sessions] /\ mixed \in SUBSET Sessions /\ mu = Nobody
    BY DEF FilesInit
  <2>4. Typed BY <2>1, <2>2, <2>3 DEF FilesInit, Typed
  <2> QED BY <2>4, TypeParts DEF FilesInit, Holding, LinesApart
<1>2. FilesTypeOK /\ [FilesNext]_peerVars => FilesTypeOK'
  <2> SUFFICES ASSUME Typed, Holding, LinesApart, [FilesNext]_peerVars
               PROVE  Typed' /\ Holding' /\ LinesApart'
    BY TypeParts, PTL
  <2>1. CASE Crash
    <3>2. crashes' \in 0..MaxCrashes BY <2>1, TasksAssumption DEF Typed, Crash
    <3>3. torn' \in [Files -> SUBSET Sessions] BY <2>1 DEF Typed, Crash
    <3>4. buf' \in [Logins -> Values] BY <2>1, ContentsTyped DEF Crash
    <3>1. Typed' BY <2>1, <3>2, <3>3, <3>4 DEF Typed, Crash
    <3> QED BY <3>1, <2>1 DEF Crash, Holding, LinesApart
  <2>2. ASSUME NEW s \in Sessions, DialBegin(s) PROVE Typed' /\ Holding' /\ LinesApart'
    <3>1. Typed' BY <2>2, TasksAssumption DEF Typed, history, DialBegin, Begins, Goes
    <3>2. Holding' BY <2>2 DEF Typed, Holding, DialBegin, Begins, Goes, Files
    <3>3. LinesApart' BY <2>2 DEF Typed, LinesApart, DialBegin, Begins, Goes
    <3> QED BY <3>1, <3>2, <3>3
  <2>3. ASSUME NEW s \in Sessions, DialLock(s) PROVE Typed' /\ Holding' /\ LinesApart'
    <3>1. Typed' BY <2>3 DEF Typed, history, DialLock, Goes
    <3>2. Holding' BY <2>3 DEF Typed, Holding, DialLock, Goes, Files
    <3>3. LinesApart' BY <2>3 DEF Typed, LinesApart, DialLock, Goes
    <3> QED BY <3>1, <3>2, <3>3
  <2>4. ASSUME NEW s \in Sessions, Macvlan(s) \/ PeerFile(s)
        PROVE  Typed' /\ Holding' /\ LinesApart'
    <3>4. kit' \in [Sessions -> SUBSET {"macvlan", "peer"}]
      BY <2>4, KitTyped DEF Typed, Macvlan, PeerFile
    <3>1. Typed' BY <2>4, <3>4 DEF Typed, history, Macvlan, PeerFile, Goes
    <3>2. Holding' BY <2>4 DEF Typed, Holding, Macvlan, PeerFile, Goes, Files
    <3>3. LinesApart' BY <2>4 DEF Typed, LinesApart, Macvlan, PeerFile, Goes
    <3> QED BY <3>1, <3>2, <3>3
  <2>5. ASSUME NEW s \in Sessions, DialEnd(s) PROVE Typed' /\ Holding' /\ LinesApart'
    <3>1. Typed' BY <2>5 DEF Typed, history, DialEnd, Goes
    <3>2. Holding' BY <2>5 DEF Typed, Holding, DialEnd, Goes, Files
    <3>3. LinesApart' BY <2>5 DEF Typed, LinesApart, DialEnd, Goes
    <3> QED BY <3>1, <3>2, <3>3
  <2>6. ASSUME NEW s \in Sessions, NEW f \in Files, UpsertOpen(s, f)
        PROVE  Typed' /\ Holding' /\ LinesApart'
    <3>1. Open(s, "dial", f, SecretOf[s]) /\ dial[s] = f BY <2>6 DEF UpsertOpen
    <3>2. Typed' BY <2>6, <3>1, OpenTyped, ContentsTyped DEF Typed, history, UpsertOpen
    <3>4. mu' = <<s, "dial", f>> BY <3>1 DEF Open
    <3>3. Holding' BY <2>6, <3>1, <3>4 DEF Holding, UpsertOpen
    <3> QED BY <2>6, <3>2, <3>3 DEF LinesApart, UpsertOpen
  <2>7. ASSUME NEW s \in Sessions, NEW f \in Files, UpsertWrite(s, f)
        PROVE  Typed' /\ Holding' /\ LinesApart'
    <3>1. Write(s, "dial", f) BY <2>7 DEF UpsertWrite
    <3>2. /\ has' \in [Files -> SUBSET Sessions] /\ swept' \in [Files -> SUBSET Sessions]
          /\ torn' \in [Files -> SUBSET Sessions]
      BY <2>7 DEF Typed, UpsertWrite, Sharers
    <3>3. Typed' BY <2>7, <3>1, <3>2, WriteTyped DEF Typed, UpsertWrite, Goes
    <3>4. dial[s] = f BY <3>1, WriteTyped, Triples DEF Holding
    <3>5. LinesApart' BY <2>7, <3>4 DEF Typed, LinesApart, UpsertWrite, Goes, Files
    <3> QED BY <3>1, <3>3, <3>5, WriteTyped DEF Holding
  <2>8. ASSUME NEW s \in Sessions, DeleteBegin(s) PROVE Typed' /\ Holding' /\ LinesApart'
    <3>1. Typed' BY <2>8, TasksAssumption DEF Typed, history, DeleteBegin, Begins, Deletes
    <3>2. Holding' BY <2>8 DEF Typed, Holding, DeleteBegin, Begins, Deletes, Files
    <3> QED BY <2>8, <3>1, <3>2 DEF LinesApart, DeleteBegin
  <2>9. ASSUME NEW s \in Sessions, RemovePeerFile(s) \/ RemoveMacvlan(s) \/ DeleteRow(s)
        PROVE  Typed' /\ Holding' /\ LinesApart'
    <3>3. kit' \in [Sessions -> SUBSET {"macvlan", "peer"}]
      BY <2>9, KitTyped DEF Typed, RemovePeerFile, RemoveMacvlan, DeleteRow
    <3>4. rows' \in SUBSET Sessions
      BY <2>9 DEF Typed, RemovePeerFile, RemoveMacvlan, DeleteRow
    <3>6. del' \in [Sessions -> {"idle", "peer", "macvlan", "chap", "pap", "row"}]
      BY <2>9 DEF Typed, RemovePeerFile, RemoveMacvlan, DeleteRow, Deletes
    <3>5. UNCHANGED <<file, buf, mu, dial, history, crashes, errors, tasks>>
      BY <2>9 DEF RemovePeerFile, RemoveMacvlan, DeleteRow
    <3>1. Typed' BY <3>3, <3>4, <3>5, <3>6 DEF Typed, history
    <3>2. Holding'
      BY <2>9 DEF Typed, Holding, RemovePeerFile, RemoveMacvlan, DeleteRow, Deletes, Files
    <3> QED BY <2>9, <3>1, <3>2 DEF LinesApart, RemovePeerFile, RemoveMacvlan, DeleteRow
  <2>10. ASSUME NEW s \in Sessions, NEW f \in Files, RemoveOpen(s, f)
         PROVE  Typed' /\ Holding' /\ LinesApart'
    <3>1. Open(s, "del", f, "") /\ del[s] = f BY <2>10 DEF RemoveOpen
    <3>2. Typed' BY <2>10, <3>1, OpenTyped, ContentsTyped DEF Typed, history, RemoveOpen
    <3>4. mu' = <<s, "del", f>> BY <3>1 DEF Open
    <3>3. Holding' BY <2>10, <3>1, <3>4 DEF Holding, RemoveOpen
    <3> QED BY <2>10, <3>2, <3>3 DEF LinesApart, RemoveOpen
  <2>11. ASSUME NEW s \in Sessions, NEW f \in Files, RemoveWrite(s, f)
         PROVE  Typed' /\ Holding' /\ LinesApart'
    <3>1. Write(s, "del", f) BY <2>11 DEF RemoveWrite
    <3>2. /\ has' \in [Files -> SUBSET Sessions] /\ swept' \in [Files -> SUBSET Sessions]
      BY <2>11 DEF Typed, RemoveWrite, Sharers
    <3>3. Typed' BY <2>11, <3>1, <3>2, WriteTyped DEF Typed, RemoveWrite, Deletes
    <3> QED BY <2>11, <3>1, <3>3, WriteTyped DEF Holding, LinesApart, RemoveWrite
  <2>12. ASSUME NEW s \in Sessions, NEW f \in Files, UpsertMisread(s, f)
         PROVE  Typed' /\ Holding' /\ LinesApart'
    <3>1. dial[s] = f /\ mu' = <<s, "dial", f>> BY <2>12 DEF UpsertMisread
    <3>2. buf' \in [Logins -> Values] /\ file' \in [Files -> [Logins -> Values]]
      BY <2>12, ContentsTyped DEF UpsertMisread, Typed
    <3>3. torn' \in [Files -> SUBSET Sessions] /\ errors' \in 0..MaxErrors
      BY <2>12, TasksAssumption DEF UpsertMisread, Typed, Errs, Loses
    <3>4. Typed' BY <2>12, <3>1, <3>2, <3>3 DEF Typed, UpsertMisread
    <3>5. Holding' BY <2>12, <3>1 DEF Holding, UpsertMisread
    <3> QED BY <2>12, <3>4, <3>5 DEF LinesApart, UpsertMisread
  <2>13. ASSUME NEW s \in Sessions, NEW f \in Files, UpsertFail(s, f)
         PROVE  Typed' /\ Holding' /\ LinesApart'
    <3>1. WriteFails(s, "dial", f) BY <2>13 DEF UpsertFail
    <3>2. Typed' BY <2>13, <3>1, FailTyped DEF Typed, UpsertFail, Goes
    <3>3. dial[s] = f BY <3>1, FailTyped, Triples DEF Holding
    <3>4. LinesApart' BY <2>13, <3>3 DEF Typed, LinesApart, UpsertFail, Goes, Files
    <3> QED BY <3>1, <3>2, <3>4, FailTyped DEF Holding
  <2>14. ASSUME NEW s \in Sessions, NEW f \in Files, RemoveFail(s, f)
         PROVE  Typed' /\ Holding' /\ LinesApart'
    <3>1. WriteFails(s, "del", f) BY <2>14 DEF RemoveFail
    <3>2. Typed' BY <2>14, <3>1, FailTyped DEF Typed, RemoveFail, Deletes
    <3> QED BY <2>14, <3>1, <3>2, FailTyped DEF Holding, LinesApart, RemoveFail
  <2>15. ASSUME NEW s \in Sessions, NEW f \in Files, RemoveSkip(s, f)
         PROVE  Typed' /\ Holding' /\ LinesApart'
    <3>1. Typed' BY <2>15, TasksAssumption DEF Typed, history, RemoveSkip, Errs, Deletes
    <3> QED BY <2>15, <3>1 DEF Holding, LinesApart, RemoveSkip
  <2>16. CASE UNCHANGED peerVars BY <2>16 DEF peerVars, history, Typed, Holding, LinesApart
  <2> QED
    BY <2>1, <2>2, <2>3, <2>4, <2>5, <2>6, <2>7, <2>8, <2>9, <2>10, <2>11, <2>12, <2>13, <2>14,
       <2>15, <2>16 DEF FilesNext
<1> QED BY <1>1, <1>2, PTL DEF FilesSpec
-----------------------------------------------------------------------------
(* The secrets files.  What the holder of the lock is about to write keeps   *)
(* every secret that is in force, its own aside; a file nobody holds has them *)
(* all.                                                                      *)

Kept ==
  /\ \A f \in Files : \A s \in Served(f) :
       mu = Nobody \/ mu[3] # f => file[f][LoginOf[s]] = SecretOf[s]
  /\ \A f \in Files, s \in Sessions, who \in {"dial", "del"} : mu = <<s, who, f>> =>
       /\ buf[LoginOf[s]] = IF who = "dial" THEN SecretOf[s] ELSE ""
       /\ \A t \in Served(f) : LoginOf[t] # LoginOf[s] => buf[LoginOf[t]] = SecretOf[t]

\* Opening a file takes all its secrets into the buffer, the own one changed.
LEMMA OpenKept ==
  ASSUME Typed, Kept, NEW s \in Sessions, NEW who \in {"dial", "del"}, NEW f \in Files,
         Open(s, who, f, IF who = "dial" THEN SecretOf[s] ELSE ""), UNCHANGED <<has, swept, torn>>
  PROVE  Kept'
<1>1. mu = Nobody /\ mu' = <<s, who, f>> /\ mu'[3] = f
  BY DEF Open
<1>2. \A g \in Files : \A t \in Served(g) : file[g][LoginOf[t]] = SecretOf[t]
  BY <1>1 DEF Kept
<1>3. ASSUME NEW g \in Files, NEW t \in Served(g)', mu' = Nobody \/ mu'[3] # g
      PROVE  file'[g][LoginOf[t]] = SecretOf[t]
  <2>3. <<s, who, f>> # Nobody BY DEF Nobody
  <2>1. g # f BY <1>1, <1>3, <2>3
  <2>2. file'[g] = file[g] BY <2>1 DEF Typed, Open
  <2>4. t \in Served(g) BY DEF Served
  <2> QED BY <2>2, <2>4, <1>2
<1>4. ASSUME NEW g \in Files, NEW s2 \in Sessions, NEW w2 \in {"dial", "del"}, mu' = <<s2, w2, g>>
      PROVE  /\ buf'[LoginOf[s2]] = IF w2 = "dial" THEN SecretOf[s2] ELSE ""
             /\ \A t \in Served(g)' : LoginOf[t] # LoginOf[s2] => buf'[LoginOf[t]] = SecretOf[t]
  <2>3. <<s, who, f>> = <<s2, w2, g>> BY <1>1, <1>4
  <2>1. s2 = s /\ w2 = who /\ g = f BY <2>3
  <2>2. /\ LoginOf[s] \in Logins /\ file[f] \in [Logins -> Values]
        /\ \A t \in Served(f) : LoginOf[t] \in Logins
    BY ContentsTyped DEF Typed, Served
  <2>4. Served(f)' = Served(f) BY DEF Served
  <2> QED BY <2>1, <2>2, <2>4, <1>2 DEF Open
<1> QED BY <1>3, <1>4 DEF Kept

\* Who closes a file leaves in it what is in force by then.
LEMMA WriteKept ==
  ASSUME Typed, Kept, NEW s \in Sessions, NEW who \in {"dial", "del"}, NEW f \in Files,
         Write(s, who, f),
         \A g \in Files : g # f => Served(g)' = Served(g),
         \A t \in Served(f)' :
           \/ t \in Served(f) /\ LoginOf[t] # LoginOf[s]
           \/ LoginOf[t] = LoginOf[s] /\ SecretOf[t] = IF who = "dial" THEN SecretOf[s] ELSE ""
  PROVE  Kept'
<1>1. mu = <<s, who, f>> /\ mu[3] = f /\ mu' = Nobody
  BY DEF Write
<1>2. /\ buf[LoginOf[s]] = IF who = "dial" THEN SecretOf[s] ELSE ""
      /\ \A t \in Served(f) : LoginOf[t] # LoginOf[s] => buf[LoginOf[t]] = SecretOf[t]
  BY <1>1 DEF Kept
<1>3. file'[f] = buf /\ \A g \in Files \ {f} : file'[g] = file[g]
  BY DEF Write, Typed
<1>4. ASSUME NEW g \in Files, NEW t \in Served(g)'
      PROVE  file'[g][LoginOf[t]] = SecretOf[t]
  <2>1. CASE g = f BY <2>1, <1>2, <1>3
  <2>2. CASE g # f
    <3>1. t \in Served(g) BY <2>2
    <3>2. mu[3] # g BY <2>2, <1>1
    <3>3. file[g][LoginOf[t]] = SecretOf[t] BY <3>1, <3>2 DEF Kept
    <3> QED BY <3>3, <2>2, <1>3
  <2> QED BY <2>1, <2>2
<1>5. \A g \in Files, s2 \in Sessions, w2 \in {"dial", "del"} : mu' # <<s2, w2, g>>
  <2> SUFFICES ASSUME NEW g \in Files, NEW s2 \in Sessions, NEW w2 \in {"dial", "del"}
               PROVE  mu' # <<s2, w2, g>>
    OBVIOUS
  <2> QED BY <1>1, <<s2, w2, g>> # Nobody DEF Nobody
<1> QED BY <1>4, <1>5 DEF Kept

\* A step that writes no file and serves nobody else keeps what is served.
LEMMA ServedFrame ==
  ASSUME Kept, UNCHANGED <<file, buf, mu>>, \A f \in Files : Served(f)' \subseteq Served(f)
  PROVE  Kept'
<1>1. ASSUME NEW g \in Files, NEW t \in Served(g)', mu' = Nobody \/ mu'[3] # g
      PROVE  file'[g][LoginOf[t]] = SecretOf[t]
  BY <1>1 DEF Kept
<1>2. ASSUME NEW g \in Files, NEW s \in Sessions, NEW w \in {"dial", "del"}, mu' = <<s, w, g>>
      PROVE  /\ buf'[LoginOf[s]] = IF w = "dial" THEN SecretOf[s] ELSE ""
             /\ \A t \in Served(g)' : LoginOf[t] # LoginOf[s] => buf'[LoginOf[t]] = SecretOf[t]
  <2>1. mu = <<s, w, g>> BY <1>2
  <2>2. /\ buf[LoginOf[s]] = IF w = "dial" THEN SecretOf[s] ELSE ""
        /\ \A t \in Served(g) : LoginOf[t] # LoginOf[s] => buf[LoginOf[t]] = SecretOf[t]
    BY <2>1 DEF Kept
  <2> QED BY <2>2
<1> QED BY <1>1, <1>2 DEF Kept

\* A file whose contents a crash or an error loses serves nobody; the other one
\* goes on as before.
LEMMA LossKept ==
  ASSUME Typed, Kept, NEW f \in Files, Served(f)' = {}, mu # Nobody => mu[3] = f,
         \A g \in Files : g # f => Served(g)' = Served(g) /\ file'[g] = file[g],
         \/ mu' = Nobody
         \/ \E s \in Sessions : /\ mu' = <<s, "dial", f>>
                               /\ buf' = [Empty EXCEPT ![LoginOf[s]] = SecretOf[s]]
  PROVE  Kept'
<1>1. ASSUME NEW g \in Files, NEW t \in Served(g)'
      PROVE  file'[g][LoginOf[t]] = SecretOf[t]
  <2>1. g # f BY <1>1
  <2>2. t \in Served(g) /\ file'[g] = file[g] BY <1>1, <2>1
  <2>3. mu = Nobody \/ mu[3] # g BY <2>1
  <2>4. file[g][LoginOf[t]] = SecretOf[t] BY <2>2, <2>3 DEF Kept
  <2> QED BY <2>2, <2>4
<1>2. ASSUME NEW g \in Files, NEW s2 \in Sessions, NEW w2 \in {"dial", "del"}, mu' = <<s2, w2, g>>
      PROVE  /\ buf'[LoginOf[s2]] = IF w2 = "dial" THEN SecretOf[s2] ELSE ""
             /\ \A t \in Served(g)' : LoginOf[t] # LoginOf[s2] => buf'[LoginOf[t]] = SecretOf[t]
  <2>1. mu' # Nobody BY <1>2, Triples
  <2>2. PICK s \in Sessions : /\ mu' = <<s, "dial", f>>
                              /\ buf' = [Empty EXCEPT ![LoginOf[s]] = SecretOf[s]]
    BY <2>1
  <2>3. s2 = s /\ w2 = "dial" /\ g = f BY <1>2, <2>2, Triples
  <2>4. buf'[LoginOf[s]] = SecretOf[s] BY <2>2, ContentsTyped DEF Empty
  <2> QED BY <2>3, <2>4
<1> QED BY <1>1, <1>2 DEF Kept

\* SecretsServe for every set of sessions, logins and lines: with secretsMu held
\* over the read, the truncation and the write, no dial and no deletion loses the
\* secret of a session with another login.  A crash and an error of the file, which
\* do lose it, cost no more than what that one file had in it at that moment.
THEOREM SecretsServed == FilesSpec => []SecretsServe
<1>1. FilesInit => Kept
  BY DEF FilesInit, Kept, Nobody, Served
<1>2. FilesTypeOK /\ Kept /\ [FilesNext]_peerVars => Kept'
  <2> SUFFICES ASSUME Typed, Holding, Kept, [FilesNext]_peerVars PROVE Kept'
    BY TypeParts
  <2>1. CASE UNCHANGED <<file, buf, mu, has, swept, torn>>
    BY <2>1, ServedFrame DEF Served
  <2>2. CASE Crash
    <3>1. CASE mu = Nobody
      <4>1. ASSUME NEW g \in Files PROVE Served(g)' = Served(g)
        BY <2>2, <3>1 DEF Crash, Served, Typed
      <4>2. \A f \in Files, s \in Sessions, w \in {"dial", "del"} : mu' # <<s, w, f>>
        BY <2>2, Triples DEF Crash
      <4> QED BY <2>2, <3>1, <4>1, <4>2 DEF Crash, Kept
    <3>2. CASE mu # Nobody
      <4>1. PICK s \in Sessions, w \in {"dial", "del"}, f \in Files : mu = <<s, w, f>>
        BY <3>2 DEF Typed
      <4>2. mu[3] = f BY <4>1, Triples
      <4>3. Served(f)' = {} BY <2>2, <3>2, <4>2 DEF Crash, Served
      <4>4. \A g \in Files : g # f => Served(g)' = Served(g) /\ file'[g] = file[g]
        BY <2>2, <4>2 DEF Crash, Served
      <4>5. mu' = Nobody BY <2>2 DEF Crash
      <4> QED BY <4>2, <4>3, <4>4, <4>5, LossKept
    <3> QED BY <3>1, <3>2
  <2>3. ASSUME NEW s \in Sessions, NEW f \in Files, UpsertOpen(s, f) PROVE Kept'
    BY <2>3, OpenKept DEF UpsertOpen, history
  <2>4. ASSUME NEW s \in Sessions, NEW f \in Files, RemoveOpen(s, f) PROVE Kept'
    BY <2>4, OpenKept DEF RemoveOpen, history
  <2>5. ASSUME NEW s \in Sessions, NEW f \in Files, UpsertWrite(s, f) PROVE Kept'
    <3>1. Write(s, "dial", f) BY <2>5 DEF UpsertWrite
    <3>2. \A g \in Files : g # f => Served(g)' = Served(g)
      BY <2>5 DEF UpsertWrite, Typed, Served
    <3>3. \A t \in Served(f)' :
            \/ t \in Served(f) /\ LoginOf[t] # LoginOf[s]
            \/ LoginOf[t] = LoginOf[s] /\ SecretOf[t] = IF "dial" = "dial" THEN SecretOf[s] ELSE ""
      BY <2>5 DEF UpsertWrite, Sharers, Typed, Served
    <3> QED BY <3>1, <3>2, <3>3, WriteKept
  <2>6. ASSUME NEW s \in Sessions, NEW f \in Files, RemoveWrite(s, f) PROVE Kept'
    <3>1. Write(s, "del", f) BY <2>6 DEF RemoveWrite
    <3>2. \A g \in Files : g # f => Served(g)' = Served(g)
      BY <2>6 DEF RemoveWrite, Typed, Served
    <3>3. \A t \in Served(f)' :
            \/ t \in Served(f) /\ LoginOf[t] # LoginOf[s]
            \/ LoginOf[t] = LoginOf[s] /\ SecretOf[t] = IF "del" = "dial" THEN SecretOf[s] ELSE ""
      BY <2>6 DEF RemoveWrite, Sharers, Typed, Served
    <3> QED BY <3>1, <3>2, <3>3, WriteKept
  <2>7. ASSUME NEW s \in Sessions,
               \/ DialBegin(s) \/ DialLock(s) \/ Macvlan(s) \/ PeerFile(s) \/ DialEnd(s)
               \/ DeleteBegin(s) \/ RemovePeerFile(s) \/ RemoveMacvlan(s) \/ DeleteRow(s)
        PROVE  Kept'
    <3>1. UNCHANGED <<file, buf, mu, has, swept, torn>>
      BY <2>7 DEF DialBegin, DialLock, Macvlan, PeerFile, DialEnd, DeleteBegin, RemovePeerFile,
                  RemoveMacvlan, DeleteRow, history
    <3> QED BY <3>1, <2>1
  <2>8. ASSUME NEW s \in Sessions, NEW f \in Files, UpsertMisread(s, f) PROVE Kept'
    <3>1. mu = Nobody /\ Served(f)' = {} BY <2>8 DEF UpsertMisread, Loses, Served, Typed
    <3>2. \A g \in Files : g # f => Served(g)' = Served(g) /\ file'[g] = file[g]
      BY <2>8 DEF UpsertMisread, Loses, Served, Typed
    <3> QED BY <2>8, <3>1, <3>2, LossKept DEF UpsertMisread
  <2>9. ASSUME NEW s \in Sessions, NEW w \in {"dial", "del"}, NEW f \in Files,
               WriteFails(s, w, f), UNCHANGED <<has, swept>>
        PROVE  Kept'
    <3>1. mu = <<s, w, f>> /\ mu[3] = f /\ mu' = Nobody BY <2>9, Triples DEF WriteFails
    <3>2. Served(f)' = {} BY <2>9 DEF WriteFails, Loses, Served, Typed
    <3>3. \A g \in Files : g # f => Served(g)' = Served(g) /\ file'[g] = file[g]
      BY <2>9 DEF WriteFails, Loses, Served, Typed
    <3> QED BY <3>1, <3>2, <3>3, LossKept
  <2>10. ASSUME NEW s \in Sessions, NEW f \in Files, UpsertFail(s, f) \/ RemoveFail(s, f)
         PROVE  Kept'
    BY <2>9, <2>10 DEF UpsertFail, RemoveFail
  <2>11. ASSUME NEW s \in Sessions, NEW f \in Files, RemoveSkip(s, f) PROVE Kept'
    BY <2>1, <2>11 DEF RemoveSkip, history
  <2>12. CASE UNCHANGED peerVars BY <2>12, <2>1 DEF peerVars, history
  <2> QED BY <2>2, <2>3, <2>4, <2>5, <2>6, <2>7, <2>8, <2>10, <2>11, <2>12 DEF FilesNext
<1>3. FilesTypeOK /\ Kept => SecretsServe
  BY DEF Kept, SecretsServe
<1> QED BY <1>1, <1>2, <1>3, FilesTyped, PTL DEF FilesSpec

-----------------------------------------------------------------------------
(* Where the deletion of a session keeps the secrets of the others.           *)

\* SecretsKept, which shared logins violate, holds for every set of sessions whose
\* logins are all different and whose secrets are not empty: then only a crash or an
\* error in the middle of a change of the file, which SecretsKept leaves out, costs
\* a session its secret (RemoveSessionSecrets does not look for other sessions).
THEOREM OwnLoginsKept ==
  ASSUME \A s, t \in Sessions : LoginOf[s] = LoginOf[t] => s = t,
         \A s \in Sessions : SecretOf[s] # ""
  PROVE  FilesSpec => []SecretsKept
<1> DEFINE Unswept == \A f \in Files : swept[f] = {}
<1>1. \A s \in Sessions : Sharers(s) = {}
  BY DEF Sharers
<1>2. FilesInit => Unswept
  BY DEF FilesInit
<1>3. FilesTypeOK /\ Unswept /\ [FilesNext]_peerVars => Unswept'
  <2> SUFFICES ASSUME Typed, Unswept, [FilesNext]_peerVars, NEW g \in Files PROVE swept'[g] = {}
    BY TypeParts
  <2>1. ASSUME NEW s \in Sessions, NEW f \in Files, UpsertWrite(s, f) PROVE swept'[g] = {}
    BY <2>1, <1>1 DEF UpsertWrite, Typed
  <2>2. ASSUME NEW s \in Sessions, NEW f \in Files, RemoveWrite(s, f) PROVE swept'[g] = {}
    BY <2>2, <1>1 DEF RemoveWrite, Typed
  <2>3. ASSUME NEW s \in Sessions, NEW f \in Files, UpsertOpen(s, f) \/ RemoveOpen(s, f)
        PROVE  UNCHANGED swept
    BY <2>3 DEF UpsertOpen, RemoveOpen, history
  <2>4. ASSUME NEW s \in Sessions,
               \/ DialBegin(s) \/ DialLock(s) \/ Macvlan(s) \/ PeerFile(s) \/ DialEnd(s)
               \/ DeleteBegin(s) \/ RemovePeerFile(s) \/ RemoveMacvlan(s) \/ DeleteRow(s)
        PROVE  UNCHANGED swept
    BY <2>4 DEF DialBegin, DialLock, Macvlan, PeerFile, DialEnd, DeleteBegin, RemovePeerFile,
                RemoveMacvlan, DeleteRow, history
  <2>5. ASSUME NEW s \in Sessions, NEW f \in Files,
               UpsertMisread(s, f) \/ UpsertFail(s, f) \/ RemoveFail(s, f) \/ RemoveSkip(s, f)
        PROVE  UNCHANGED swept
    BY <2>5 DEF UpsertMisread, UpsertFail, RemoveFail, RemoveSkip, history
  <2>6. CASE Crash \/ UNCHANGED peerVars BY <2>6 DEF Crash, peerVars, history
  <2> QED BY <2>1, <2>2, <2>3, <2>4, <2>5, <2>6 DEF FilesNext
<1>4. FilesTypeOK /\ SecretsServe /\ Unswept => SecretsKept
  <2> SUFFICES ASSUME Typed, SecretsServe, Unswept, mu = Nobody,
                      NEW f \in Files, NEW s \in (has[f] \cap rows) \ torn[f]
               PROVE  file[f][LoginOf[s]] # ""
    BY TypeParts DEF SecretsKept
  <2>1. s \in Served(f) /\ s \in Sessions
    BY DEF Typed, Served
  <2> QED BY <2>1 DEF SecretsServe
<1> QED BY <1>2, <1>3, <1>4, FilesTyped, SecretsServed, PTL DEF FilesSpec

-----------------------------------------------------------------------------
(* The refinement of SecretBook.                                             *)

\* While a file is being written there is nothing in it.
Truncated == \A f \in Files : mu # Nobody /\ mu[3] = f => file[f] = Empty

\* A goroutine that opens a file enters or strikes out its login there and then.
LEMMA OpenEnters ==
  ASSUME Typed, NEW s \in Sessions, NEW who \in {"dial", "del"}, NEW f \in Files, NEW secret,
         Open(s, who, f, secret)
  PROVE  Book!Enters(f, s, secret)
<1>1. mu = Nobody /\ mu' # Nobody /\ mu'[3] = f BY Triples DEF Open
<1>2. Contents[f] = file[f] BY <1>1 DEF Contents
<1>3. Contents'[f] = [Contents[f] EXCEPT ![LoginOf[s]] = secret]
  BY <1>1, <1>2 DEF Contents, Open
<1>4. ASSUME NEW g \in Files \ {f} PROVE Contents'[g] = Contents[g]
  <2>1. file'[g] = file[g] BY DEF Open, Typed
  <2> QED BY <1>1, <2>1 DEF Contents
<1>5. /\ Contents = [g \in Files |-> Contents[g]]
      /\ Contents' = [g \in Files |-> Contents'[g]]
  BY DEF Contents
<1>6. Contents' = [Contents EXCEPT ![f] = [Contents[f] EXCEPT ![LoginOf[s]] = secret]]
  BY <1>3, <1>4, <1>5
<1> QED BY <1>6 DEF Book!Enters

\* The write that follows changes nothing of what the books say.
LEMMA WriteStutters ==
  ASSUME Typed, NEW s \in Sessions, NEW who \in {"dial", "del"}, NEW f \in Files, Write(s, who, f)
  PROVE  Contents' = Contents
<1>1. mu # Nobody /\ mu[3] = f /\ mu' = Nobody BY Triples DEF Write
<1>2. file'[f] = buf /\ \A g \in Files \ {f} : file'[g] = file[g] BY DEF Write, Typed
<1> QED BY <1>1, <1>2 DEF Contents

\* What stays of a file whose write goes no further is nothing.
LEMMA LossTears ==
  ASSUME Typed, Truncated, NEW s \in Sessions, NEW who \in {"dial", "del"}, NEW f \in Files,
         mu = <<s, who, f>>, mu' = Nobody, file' = file
  PROVE  Book!Tear(f)
<1>1. mu # Nobody /\ mu[3] = f BY Triples
<1>2. \A g \in Files \ {f} : Contents'[g] = Contents[g] BY <1>1 DEF Contents
<1>3. Contents'[f] = Book!Blank BY <1>1 DEF Contents, Truncated, Book!Blank, Empty, Logins
<1>4. /\ Contents = [g \in Files |-> Contents[g]]
      /\ Contents' = [g \in Files |-> Contents'[g]]
  BY DEF Contents
<1>5. Contents' = [Contents EXCEPT ![f] = Book!Blank] BY <1>2, <1>3, <1>4
<1> QED BY <1>5 DEF Book!Tear

\* An upsert that has not read the file enters its login in a blank book.
LEMMA MisreadEnters ==
  ASSUME Typed, NEW s \in Sessions, NEW f \in Files, UpsertMisread(s, f)
  PROVE  Book!Misread(f, s)
<1>1. mu = Nobody /\ mu' # Nobody /\ mu'[3] = f BY Triples DEF UpsertMisread
<1>2. Contents'[f] = [Book!Blank EXCEPT ![LoginOf[s]] = SecretOf[s]]
  BY <1>1 DEF Contents, UpsertMisread, Book!Blank, Empty, Logins
<1>3. ASSUME NEW g \in Files \ {f} PROVE Contents'[g] = Contents[g]
  <2>1. file'[g] = file[g] BY DEF UpsertMisread, Typed
  <2> QED BY <1>1, <2>1 DEF Contents
<1>4. /\ Contents = [g \in Files |-> Contents[g]]
      /\ Contents' = [g \in Files |-> Contents'[g]]
  BY DEF Contents
<1>5. Contents' = [Contents EXCEPT ![f] = [Book!Blank EXCEPT ![LoginOf[s]] = SecretOf[s]]]
  BY <1>2, <1>3, <1>4
<1> QED BY <1>5 DEF Book!Misread

\* The files are books for every set of sessions, lines and logins: two changes
\* under way never mix, and only a crash or an error in the middle of one costs the
\* book it was in, and no other, what was entered before.
THEOREM FilesImplementBook == FilesSpec => BookSpec
<1>1. FilesInit => Book!Init
  <2>1. FilesInit => Contents = [f \in Files |-> Book!Blank]
    BY DEF FilesInit, Book!Blank, Contents, Empty, Logins
  <2>2. FilesInit => crashes + errors = 0
    BY DEF FilesInit
  <2> QED BY <2>1, <2>2 DEF Book!Init
<1>2. FilesTypeOK /\ Truncated /\ [FilesNext]_peerVars => [Book!Next]_<<Contents, crashes + errors>>
  <2> DEFINE mishaps == crashes + errors
  <2> SUFFICES ASSUME Typed, Holding, Truncated, [FilesNext]_peerVars
               PROVE  Book!Next \/ (Contents' = Contents /\ mishaps' = mishaps)
    BY TypeParts
  <2>1. CASE Crash
    <3>1. mu' = Nobody /\ file' = file BY <2>1 DEF Crash
    <3>2. mishaps' = mishaps + 1 BY <2>1 DEF Crash, Typed
    <3>3. CASE mu = Nobody
      <4>1. Contents' = Contents BY <3>1, <3>3 DEF Contents
      <4> QED BY <3>2, <4>1 DEF Book!Next, Book!Mishap
    <3>4. CASE mu # Nobody
      <4>1. PICK s \in Sessions, w \in {"dial", "del"}, f \in Files : mu = <<s, w, f>>
        BY <3>4 DEF Typed
      <4>2. Book!Tear(f) BY <3>1, <4>1, LossTears
      <4> QED BY <3>2, <4>2 DEF Book!Next, Book!Mishap
    <3> QED BY <3>3, <3>4
  <2>2. ASSUME NEW s \in Sessions, NEW f \in Files, UpsertOpen(s, f) PROVE Book!Next
    <3>1. mishaps' = mishaps BY <2>2 DEF UpsertOpen
    <3> QED BY <2>2, <3>1, OpenEnters DEF UpsertOpen, Book!Next, Book!Record
  <2>3. ASSUME NEW s \in Sessions, NEW f \in Files, RemoveOpen(s, f) PROVE Book!Next
    <3>1. mishaps' = mishaps BY <2>3 DEF RemoveOpen
    <3> QED BY <2>3, <3>1, OpenEnters DEF RemoveOpen, Book!Next, Book!Strike
  <2>4. ASSUME NEW s \in Sessions, NEW f \in Files, UpsertWrite(s, f) \/ RemoveWrite(s, f)
        PROVE  Contents' = Contents /\ mishaps' = mishaps
    BY <2>4, WriteStutters DEF UpsertWrite, RemoveWrite
  <2>5. ASSUME NEW s \in Sessions,
               \/ DialBegin(s) \/ DialLock(s) \/ Macvlan(s) \/ PeerFile(s) \/ DialEnd(s)
               \/ DeleteBegin(s) \/ RemovePeerFile(s) \/ RemoveMacvlan(s) \/ DeleteRow(s)
        PROVE  Contents' = Contents /\ mishaps' = mishaps
    <3>1. UNCHANGED <<file, buf, mu, crashes, errors>>
      BY <2>5 DEF DialBegin, DialLock, Macvlan, PeerFile, DialEnd, DeleteBegin, RemovePeerFile,
                  RemoveMacvlan, DeleteRow
    <3> QED BY <3>1 DEF Contents
  <2>6. ASSUME NEW s \in Sessions, NEW f \in Files, UpsertMisread(s, f) PROVE Book!Next
    <3>1. mishaps' = mishaps + 1 BY <2>6 DEF UpsertMisread, Errs, Typed
    <3>2. Book!Misread(f, s) BY <2>6, MisreadEnters
    <3> QED BY <3>1, <3>2 DEF Book!Next, Book!Mishap
  <2>7. ASSUME NEW s \in Sessions, NEW w \in {"dial", "del"}, NEW f \in Files, WriteFails(s, w, f),
               UNCHANGED crashes
        PROVE  Book!Next
    <3>1. mishaps' = mishaps + 1 BY <2>7 DEF WriteFails, Errs, Typed
    <3>2. Book!Tear(f) BY <2>7, LossTears DEF WriteFails
    <3> QED BY <3>1, <3>2 DEF Book!Next, Book!Mishap
  <2>8. ASSUME NEW s \in Sessions, NEW f \in Files, UpsertFail(s, f) \/ RemoveFail(s, f)
        PROVE  Book!Next
    BY <2>7, <2>8 DEF UpsertFail, RemoveFail
  <2>9. ASSUME NEW s \in Sessions, NEW f \in Files, RemoveSkip(s, f) PROVE Book!Next
    <3>1. mishaps' = mishaps + 1 BY <2>9 DEF RemoveSkip, Errs, Typed
    <3>2. Contents' = Contents BY <2>9 DEF RemoveSkip, Contents
    <3> QED BY <3>1, <3>2 DEF Book!Next, Book!Mishap
  <2>10. ASSUME UNCHANGED peerVars PROVE Contents' = Contents /\ mishaps' = mishaps
    BY <2>10 DEF peerVars, Contents
  <2> HIDE DEF mishaps
  <2> QED BY <2>1, <2>2, <2>3, <2>4, <2>5, <2>6, <2>8, <2>9, <2>10 DEF FilesNext
<1>3. FilesInit => Truncated BY DEF FilesInit, Truncated
<1>4. FilesTypeOK /\ Truncated /\ [FilesNext]_peerVars => Truncated'
  <2> SUFFICES ASSUME Typed, Truncated, [FilesNext]_peerVars PROVE Truncated' BY TypeParts
  <2>1. CASE UNCHANGED <<file, mu>> BY <2>1 DEF Truncated
  <2>2. CASE mu' = Nobody BY <2>2 DEF Truncated
  <2>3. ASSUME NEW s \in Sessions, NEW who \in {"dial", "del"}, NEW f \in Files, NEW secret,
               Open(s, who, f, secret)
        PROVE  Truncated'
    <3>1. mu'[3] = f /\ file'[f] = Empty BY <2>3, Triples DEF Open, Typed
    <3> QED BY <3>1 DEF Truncated
  <2>4. ASSUME NEW s \in Sessions, NEW f \in Files, UpsertOpen(s, f) \/ RemoveOpen(s, f)
        PROVE  Truncated'
    BY <2>3, <2>4 DEF UpsertOpen, RemoveOpen
  <2>5. ASSUME NEW s \in Sessions, NEW f \in Files,
               UpsertWrite(s, f) \/ RemoveWrite(s, f) \/ UpsertFail(s, f) \/ RemoveFail(s, f)
        PROVE  mu' = Nobody
    BY <2>5 DEF UpsertWrite, RemoveWrite, Write, UpsertFail, RemoveFail, WriteFails
  <2>6. ASSUME NEW s \in Sessions,
               \/ DialBegin(s) \/ DialLock(s) \/ Macvlan(s) \/ PeerFile(s) \/ DialEnd(s)
               \/ DeleteBegin(s) \/ RemovePeerFile(s) \/ RemoveMacvlan(s) \/ DeleteRow(s)
        PROVE  UNCHANGED <<file, mu>>
    BY <2>6 DEF DialBegin, DialLock, Macvlan, PeerFile, DialEnd, DeleteBegin, RemovePeerFile,
                RemoveMacvlan, DeleteRow
  <2>7. Crash => mu' = Nobody BY DEF Crash
  <2>8. UNCHANGED peerVars => UNCHANGED <<file, mu>> BY DEF peerVars
  <2>9. ASSUME NEW s \in Sessions, NEW f \in Files, UpsertMisread(s, f) PROVE Truncated'
    <3>1. mu'[3] = f /\ file'[f] = Empty BY <2>9, Triples DEF UpsertMisread, Typed
    <3> QED BY <3>1 DEF Truncated
  <2>10. ASSUME NEW s \in Sessions, NEW f \in Files, RemoveSkip(s, f) PROVE UNCHANGED <<file, mu>>
    BY <2>10 DEF RemoveSkip
  <2> QED BY <2>1, <2>2, <2>4, <2>5, <2>6, <2>7, <2>8, <2>9, <2>10 DEF FilesNext
<1> QED BY <1>1, <1>2, <1>3, <1>4, FilesTyped, PTL DEF FilesSpec, BookSpec, Book!Spec

-----------------------------------------------------------------------------
(* What is left of a session.                                                *)

\* A deletion that no dial overlaps takes the kit apart while the row is there.
Clean ==
  \A s \in Sessions \ mixed :
    /\ kit[s] # {} => s \in rows
    /\ dial[s] # "idle" => del[s] = "idle" /\ s \in rows
    /\ del[s] \in {"macvlan", "chap", "pap", "row"} => "peer" \notin kit[s]
    /\ del[s] \in {"chap", "pap", "row"} => "macvlan" \notin kit[s]

\* NoLeftovers for every set of sessions: the row goes last, so that neither the
\* end of a deletion nor a crash in the middle of it leaves a kit without its row.
THEOREM NothingLeft == FilesSpec => []NoLeftovers
<1>1. FilesInit => Clean
  BY DEF FilesInit, Clean
<1>2. FilesTypeOK /\ Clean /\ [FilesNext]_peerVars => Clean'
  <2> SUFFICES ASSUME Typed, Holding, Clean, [FilesNext]_peerVars PROVE Clean'
    BY TypeParts
  <2>1. CASE Crash BY <2>1 DEF Crash, Clean, Typed
  <2>2. ASSUME NEW s \in Sessions, DialBegin(s) PROVE Clean'
    BY <2>2 DEF DialBegin, Goes, Clean, Typed
  <2>3. ASSUME NEW s \in Sessions, DialLock(s) PROVE Clean'
    BY <2>3 DEF history, DialLock, Goes, Clean, Typed
  <2>4. ASSUME NEW s \in Sessions, Macvlan(s) PROVE Clean'
    BY <2>4 DEF history, Macvlan, Goes, Clean, Typed
  <2>5. ASSUME NEW s \in Sessions, PeerFile(s) PROVE Clean'
    BY <2>5 DEF history, PeerFile, Goes, Clean, Typed
  <2>6. ASSUME NEW s \in Sessions, DialEnd(s) PROVE Clean'
    BY <2>6 DEF history, DialEnd, Goes, Clean, Typed
  <2>7. ASSUME NEW s \in Sessions, DeleteBegin(s) PROVE Clean'
    BY <2>7 DEF DeleteBegin, Deletes, Clean, Typed
  <2>8. ASSUME NEW s \in Sessions, RemovePeerFile(s) PROVE Clean'
    BY <2>8 DEF history, RemovePeerFile, Deletes, Clean, Typed
  <2>9. ASSUME NEW s \in Sessions, RemoveMacvlan(s) PROVE Clean'
    BY <2>9 DEF history, RemoveMacvlan, Deletes, Clean, Typed
  <2>10. ASSUME NEW s \in Sessions, DeleteRow(s) PROVE Clean'
    BY <2>10 DEF history, DeleteRow, Deletes, Clean, Typed
  <2>11. ASSUME NEW s \in Sessions, NEW f \in Files, UpsertOpen(s, f) \/ RemoveOpen(s, f)
         PROVE  Clean'
    BY <2>11 DEF history, UpsertOpen, RemoveOpen, Clean
  <2>12. ASSUME NEW s \in Sessions, NEW f \in Files, UpsertWrite(s, f) PROVE Clean'
    <3>1. dial[s] = f BY <2>12, WriteTyped, Triples DEF UpsertWrite, Holding
    <3> QED BY <2>12, <3>1 DEF UpsertWrite, Goes, Clean, Typed, Files
  <2>13. ASSUME NEW s \in Sessions, NEW f \in Files, RemoveWrite(s, f) PROVE Clean'
    <3>1. del[s] = f BY <2>13, WriteTyped, Triples DEF RemoveWrite, Holding
    <3> QED BY <2>13, <3>1 DEF RemoveWrite, Deletes, Clean, Typed, Files
  <2>14. ASSUME NEW s \in Sessions, NEW f \in Files, UpsertMisread(s, f) PROVE Clean'
    BY <2>14 DEF UpsertMisread, Clean
  <2>15. ASSUME NEW s \in Sessions, NEW f \in Files, UpsertFail(s, f) PROVE Clean'
    <3>1. dial[s] = f BY <2>15, FailTyped, Triples DEF UpsertFail, Holding
    <3> QED BY <2>15, <3>1 DEF UpsertFail, Goes, Clean, Typed, Files
  <2>16. ASSUME NEW s \in Sessions, NEW f \in Files, RemoveFail(s, f) PROVE Clean'
    <3>1. del[s] = f BY <2>16, FailTyped, Triples DEF RemoveFail, Holding
    <3> QED BY <2>16, <3>1 DEF RemoveFail, Deletes, Clean, Typed, Files
  <2>17. ASSUME NEW s \in Sessions, NEW f \in Files, RemoveSkip(s, f) PROVE Clean'
    BY <2>17 DEF RemoveSkip, history, Deletes, Clean, Typed, Files
  <2>18. CASE UNCHANGED peerVars BY <2>18 DEF peerVars, history, Clean
  <2> QED
    BY <2>1, <2>2, <2>3, <2>4, <2>5, <2>6, <2>7, <2>8, <2>9, <2>10, <2>11, <2>12, <2>13, <2>14,
       <2>15, <2>16, <2>17, <2>18 DEF FilesNext
<1>3. Clean => NoLeftovers
  BY DEF Clean, NoLeftovers
<1> QED BY <1>1, <1>2, <1>3, FilesTyped, PTL DEF FilesSpec
=============================================================================
