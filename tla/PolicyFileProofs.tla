------------------------- MODULE PolicyFileProofs -------------------------
(***************************************************************************)
(* Policy administration for any number of administrators, whatever they   *)
(* are asked to do, with hand edits that ignore the lock, failing system   *)
(* calls, killed processes and power failures: no update is lost, the      *)
(* policy keeps a project, the audit file tells the truth and a removal    *)
(* can be undone.                                                          *)
(***************************************************************************)
EXTENDS PolicyFile, AuditLogProofs

\* A leaf is first-order reasoning unless it calls the SMT solver.
USE ZenonT(20)

---------------------------------------------------------------------------
(* The invariant, and the part of it about the policy file: what an        *)
(* operation has read, the lock, the file, what is reported and what is in *)
(* the audit file.                                                         *)

\* Where an operation has its start record; where it holds data it read; where
\* it has a plan; where it has a descriptor of the file it locks.
Audited == {"load", "stat", "read", "restat", "publish", "open", "lock", "finish"} \cup Publishing \cup Locked
Planned == {"publish", "open", "lock", "check", "temp", "recheck", "rename"} \cup Publishing
HasData == {"restat"} \cup Planned
Opened == {"lock"} \cup Locked
\* Before an artifact of a removal exists, and after it is published for good.
Unpublished == {"idle", "begin", "load", "stat", "read", "restat", "publish", "reads"}
Ended == {"finish", "done", "dead"}

\* The kind of an operation decides the stages it can be in.
KindOK(e) ==
    /\ epc[e] \in Audited => op[e].kind \notin {"list", "hand"}
    /\ epc[e] = "load" => op[e].kind = "restore"
    /\ epc[e] \in {"publish"} \cup Publishing => op[e].kind = "remove"
    /\ epc[e] = "reads" => op[e].kind = "list"
    /\ op[e].kind \in {"remove", "restore", "list", "hand"} => seen[e] = {}
    /\ op[e].kind # "remove" /\ rid[e] => op[e].kind = "restore"

\* What an operation read is what the file holds as long as its generation is
\* the one found, and generations only grow while the operation is alive.
ReadOK(e) ==
    /\ epc[e] \in {"read"} \cup HasData => before[e] <= file.gen
    /\ epc[e] \in HasData /\ file.gen = before[e] => data[e] = file.content
    /\ epc[e] \in Planned => plan[e] \in Plan(e, data[e]) /\ seen[e] \in {{}, {data[e]}}
    /\ epc[e] \in Opened => before[e] <= fd[e] /\ fd[e] <= file.gen
    /\ epc[e] = "rename" /\ e \notin raced => file.gen = before[e]

\* At most one operation holds the lock of a generation.
LockOK == \A d, e \in Editors : d # e /\ epc[d] \in Locked /\ epc[e] \in Locked => fd[d] # fd[e]

\* The durable file is the current one or an older one.
FileOK ==
    /\ DOMAIN file.content # {} /\ DOMAIN disk.content # {}
    /\ disk.gen <= file.gen /\ disk.applied \subseteq file.applied

\* Outcome, report and history agree with each other and with the file.
OutcomeOK(e) ==
    /\ renamed[e] => epc[e] \in {"syncdir"} \cup Ended
    /\ epc[e] = "syncdir" => e \in file.applied
    /\ outcome[e] = "changed" => e \in disk.applied
    /\ outcome[e] = "no_change" => ~renamed[e]
    /\ outcome[e] # "none" => epc[e] \in Ended
    /\ epc[e] = "finish" => outcome[e] # "none"
    /\ told[e] # "none" => epc[e] = "done"

TrailOK(e) ==
    /\ epc[e] \in Audited => Durable(e, "start")
    /\ renamed[e] /\ op[e].kind # "hand" => Secured(e, "start")
    /\ Entries(e, "finish") # {} => epc[e] \in {"done", "dead"}
    /\ \A i \in Entries(e, "finish") : log[i].outcome = outcome[e]
    /\ told[e] = "ok" /\ op[e].kind # "list" =>
          outcome[e] \in {"changed", "no_change"} /\ Secured(e, "start") /\ Secured(e, "finish")

\* Every name in the recovery directory was there at the start, or is the
\* artifact of the operation whose id it has; a temporary name belongs to a
\* removal that has not replaced the policy.
NameOK(x) ==
    /\ x \in {Temp(x.art), Final(x.art)}
    /\ x.art.id \notin Editors => x = Final(x.art)
    /\ x.art.id \in Editors =>
          LET d == x.art.id IN
          /\ op[d].kind = "remove" /\ epc[d] \notin Unpublished /\ x.art = Artifact(d) /\ IsRemoval(x.art)
          /\ x = Temp(x.art) => ~renamed[d] /\ epc[d] \in Publishing \cup Ended

DirOK ==
    /\ \A x \in dir \cup dirDisk : NameOK(x)
    /\ \A e \in Editors : epc[e] = "syncrecovery" => Temp(Artifact(e)) \notin dir

PublishedOK(e) ==
    /\ epc[e] \in {"unlink", "syncrecovery"} => Final(Artifact(e)) \in dir
    /\ op[e].kind = "remove" /\ (rid[e] \/ renamed[e] \/ epc[e] \in {"open", "lock"} \cup Locked) =>
          epc[e] \in {"open"} \cup Opened \cup Ended /\ Final(Artifact(e)) \in dir \cap dirDisk

\* What a listing has yet to read is there, or was taken back by its removal.
ListOK(e) ==
    epc[e] = "reads" => \A a \in loaded[e] :
        \/ Final(a) \in dir
        \/ a.id \in Editors /\ op[a.id].kind = "remove" /\ ~renamed[a.id] /\ epc[a.id] \in Ended

\* The inductive invariant.
EditorInv(e) == KindOK(e) /\ ReadOK(e) /\ OutcomeOK(e) /\ TrailOK(e) /\ PublishedOK(e) /\ ListOK(e)
PolicyInv == TypeOK /\ LockOK /\ FileOK /\ DirOK /\ \A e \in Editors : EditorInv(e)

---------------------------------------------------------------------------

Stages == Resting \cup Locked \cup Publishing
            \cup {"begin", "load", "stat", "read", "restat", "publish", "open", "lock", "finish", "reads"}

\* What the proofs below need of the types of one operation.
LEMMA EditorFacts ==
  ASSUME EditorTypeOK, NEW s \in Editors
  PROVE  /\ s \in DOMAIN epc /\ s \in DOMAIN seen /\ s \in DOMAIN rid /\ s \in DOMAIN before /\ s \in DOMAIN fd
         /\ before[s] \in Int /\ fd[s] \in Int /\ gens \in Int /\ before[s] <= gens /\ fd[s] <= gens
  BY SMTT(30) DEF EditorTypeOK

\* ... and of the generations of the two files.
LEMMA FileFacts ==
  ASSUME EditorTypeOK
  PROVE  file.gen \in Int /\ disk.gen \in Int /\ gens \in Int /\ file.gen <= gens /\ disk.gen <= gens
  BY SMTT(30) DEF EditorTypeOK

\* A record an operation can write is a well-typed one.
LEMMA RecordTyped ==
  ASSUME NEW e \in Editors, NEW event \in {"start", "finish"}, NEW result \in Outcomes
  PROVE  /\ Record(e, event, result) \in Records(Editors, Outcomes)
         /\ Record(e, event, result).id = e /\ Record(e, event, result).event = event
         /\ Record(e, event, result).outcome = result /\ Record(e, event, result).whole
  BY DEF Record, Records

\* Every step keeps the types of the audit file.
LEMMA LogTypeStep == EditorTypeOK /\ [Next]_vars => LogTypeOK(Editors, Outcomes)'
  <1> SUFFICES ASSUME EditorTypeOK, [Next]_vars PROVE LogTypeOK(Editors, Outcomes)'
    OBVIOUS
  <1>0. LogTypeOK(Editors, Outcomes) /\ outcome \in [Editors -> Outcomes] /\ "none" \in Outcomes
    BY DEF EditorTypeOK, Outcomes
  <1>1. ASSUME NEW rec \in Records(Editors, Outcomes), AppendOK(rec) \/ AppendError(rec)
        PROVE  LogTypeOK(Editors, Outcomes)'
    BY <1>0, <1>1, AppendShape
  <1>2. CASE UNCHANGED logVars BY <1>0, <1>2 DEF LogTypeOK, logVars
  <1>3. CASE PowerLoss BY <1>0, <1>3, PowerLossEntries DEF PowerLoss
  <1>4. ASSUME NEW e \in Editors, AuditStart(e) PROVE LogTypeOK(Editors, Outcomes)'
    BY <1>0, <1>1, <1>4, RecordTyped, SMTT(30) DEF AuditStart
  <1>5. ASSUME NEW e \in Editors, AuditFinish(e) PROVE LogTypeOK(Editors, Outcomes)'
    BY <1>0, <1>1, <1>5, RecordTyped, SMTT(30) DEF AuditFinish
  <1>6. ASSUME NEW e \in Editors, Begin(e) \/ EditorNext(e) \/ Killed(e)
        PROVE  LogTypeOK(Editors, Outcomes)'
    BY <1>2, <1>4, <1>5, <1>6
    DEF Begin, EditorNext, Killed, LoadArtifact, ReadBefore, ReadData, ReadAfter, Publish, PublishFails,
        OpenLock, AcquireLock, CheckFile, WriteTemp, Rename, CallFails, SyncDirectory,
        ScanRecoveries, ReadListed, ListFails, HandEdit
  <1>7. CASE UNCHANGED vars BY <1>2, <1>7 DEF vars
  <1> QED BY <1>3, <1>6, <1>7 DEF Next

\* The state of operation r is what a step of another operation leaves alone.
SameEditor(r) ==
    /\ epc'[r] = epc[r] /\ op'[r] = op[r] /\ seen'[r] = seen[r] /\ before'[r] = before[r]
    /\ data'[r] = data[r] /\ loaded'[r] = loaded[r] /\ plan'[r] = plan[r] /\ fd'[r] = fd[r]
    /\ outcome'[r] = outcome[r] /\ rid'[r] = rid[r] /\ told'[r] = told[r] /\ renamed'[r] = renamed[r]

\* A step of one operation leaves the state of the others alone.
LEMMA OthersKept ==
  ASSUME EditorTypeOK, NEW s \in Editors, NEW r \in Editors \ {s}, Begin(s) \/ EditorNext(s) \/ Killed(s)
  PROVE  SameEditor(r)
  <1> USE DEF EditorTypeOK, SameEditor, readVars, resultVars, fileVars, Go, Conclude, Tell
  <1>1. CASE Begin(s) BY <1>1 DEF Begin
  <1>2. CASE AuditStart(s) BY <1>2 DEF AuditStart
  <1>3. CASE LoadArtifact(s) BY <1>3, SMTT(30) DEF LoadArtifact
  <1>4. CASE ReadBefore(s) \/ ReadData(s) BY <1>4 DEF ReadBefore, ReadData
  <1>5. CASE ReadAfter(s) BY <1>5, SMTT(30) DEF ReadAfter
  <1>6. CASE Publish(s) BY <1>6, SMTT(30) DEF Publish
  <1>7. CASE PublishFails(s) BY <1>7 DEF PublishFails
  <1>8. CASE OpenLock(s) \/ AcquireLock(s) BY <1>8, SMTT(30) DEF OpenLock, AcquireLock
  <1>9. CASE CheckFile(s) \/ WriteTemp(s) BY <1>9, SMTT(30) DEF CheckFile, WriteTemp
  <1>10. CASE Rename(s) \/ HandEdit(s) BY <1>10 DEF Rename, HandEdit
  <1>11. CASE CallFails(s) \/ SyncDirectory(s) BY <1>11, SMTT(30) DEF CallFails, SyncDirectory
  <1>12. CASE AuditFinish(s) BY <1>12 DEF AuditFinish
  <1>13. CASE ScanRecoveries(s) BY <1>13 DEF ScanRecoveries
  <1>14. CASE ReadListed(s) BY <1>14 DEF ReadListed
  <1>15. CASE ListFails(s) \/ Killed(s) BY <1>15 DEF ListFails, Killed
  <1> QED BY <1>1, <1>2, <1>3, <1>4, <1>5, <1>6, <1>7, <1>8, <1>9, <1>10, <1>11, <1>12, <1>13, <1>14, <1>15
      DEF EditorNext

\* Files keep their types: a replacement gets a fresh generation.
LEMMA FileTypeStep ==
  ASSUME EditorTypeOK, [Next]_vars
  PROVE  /\ gens' \in Nat /\ gens <= gens'
         /\ \A f \in {file', disk'} : f.gen \in 1 .. gens' /\ f.applied \subseteq Editors
         /\ raced' \subseteq Editors
  <1> DEFINE Kept == /\ gens' \in Nat /\ gens <= gens'
                     /\ \A f \in {file', disk'} : f.gen \in 1 .. gens' /\ f.applied \subseteq Editors
                     /\ raced' \subseteq Editors
  <1> USE DEF EditorTypeOK, fileVars
  <1>1. CASE UNCHANGED fileVars BY <1>1, SMTT(30)
  <1>2. ASSUME NEW e \in Editors, Rename(e) \/ HandEdit(e) PROVE Kept
    <2>1. /\ gens' = gens + 1 /\ disk' = disk /\ file'.gen = gens + 1
          /\ file'.applied = file.applied \cup {e}
      BY <1>2, SMTT(30) DEF Rename, HandEdit
    <2>2. raced' \subseteq Editors BY <1>2 DEF Rename, HandEdit
    <2> QED BY <2>1, <2>2, SMTT(30)
  <1>3. ASSUME NEW e \in Editors, SyncDirectory(e) PROVE Kept
    BY <1>3, SMTT(30) DEF SyncDirectory
  <1>4. CASE PowerLoss BY <1>4, SMTT(30) DEF PowerLoss
  <1> HIDE DEF EditorTypeOK
  <1> QED BY <1>1, <1>2, <1>3, <1>4
      DEF Next, vars, Begin, EditorNext, Killed, AuditStart, LoadArtifact, ReadBefore, ReadData, ReadAfter,
          Publish, PublishFails, OpenLock, AcquireLock, CheckFile, WriteTemp, CallFails, AuditFinish,
          ScanRecoveries, ReadListed, ListFails

\* Every step of an operation keeps its own types.
LEMMA EditorTypeStep == EditorTypeOK /\ [Next]_vars => EditorTypeOK'
  <1> SUFFICES ASSUME EditorTypeOK, [Next]_vars PROVE EditorTypeOK'
    OBVIOUS
  <1>0. /\ LogTypeOK(Editors, Outcomes)' /\ gens' \in Nat /\ gens <= gens'
        /\ \A f \in {file', disk'} : f.gen \in 1 .. gens' /\ f.applied \subseteq Editors
        /\ raced' \subseteq Editors
    BY LogTypeStep, FileTypeStep
  <1> DEFINE Places == epc' \in [Editors -> Stages]
             Reads == /\ op' = op
                      /\ DOMAIN seen' = Editors /\ DOMAIN data' = Editors
                      /\ DOMAIN loaded' = Editors /\ DOMAIN plan' = Editors
             Numbers == before' \in [Editors -> 0 .. gens'] /\ fd' \in [Editors -> 0 .. gens']
             Results == /\ outcome' \in [Editors -> Outcomes]
                        /\ told' \in [Editors -> {"none", "ok", "error", "unsafe"}]
             Flags == rid' \in [Editors -> BOOLEAN] /\ renamed' \in [Editors -> BOOLEAN]
  <1>1. SUFFICES Places /\ Reads /\ Numbers /\ Results /\ Flags
    <2>1. op \in Asked BY DEF EditorTypeOK
    <2> QED BY <1>0, <1>1, <2>1 DEF EditorTypeOK, Stages
  <1> USE DEF readVars, resultVars, fileVars
  <1>2. CASE UNCHANGED vars
    <2>1. Places /\ Reads /\ Results /\ Flags BY <1>2 DEF vars, EditorTypeOK, Stages
    <2>2. Numbers BY <1>2 DEF vars, EditorTypeOK
    <2> QED BY <2>1, <2>2
  <1>3. CASE PowerLoss
    <2>1. Reads /\ Results /\ Flags BY <1>3 DEF PowerLoss, EditorTypeOK
    <2>2. Numbers BY <1>0, <1>3, SMTT(30) DEF PowerLoss, EditorTypeOK
    <2>3. Places BY <1>3 DEF PowerLoss, EditorTypeOK, Stages, Resting
    <2> QED BY <2>1, <2>2, <2>3
  <1>4. ASSUME NEW e \in Editors, Begin(e) \/ EditorNext(e) \/ Killed(e)
        PROVE  Places /\ Reads /\ Numbers /\ Results /\ Flags
    <2>1. Flags
      <3>1. CASE UNCHANGED <<rid, renamed>> BY <3>1 DEF EditorTypeOK
      <3>2. CASE LoadArtifact(e) BY <3>2 DEF LoadArtifact, EditorTypeOK
      <3>3. CASE Publish(e) BY <3>3 DEF Publish, EditorTypeOK
      <3>4. CASE Rename(e) \/ HandEdit(e) BY <3>4 DEF Rename, HandEdit, EditorTypeOK
      <3> QED BY <1>4, <3>1, <3>2, <3>3, <3>4
          DEF Begin, EditorNext, Killed, AuditStart, ReadBefore, ReadData, ReadAfter, PublishFails, OpenLock,
              AcquireLock, CheckFile, WriteTemp, CallFails, SyncDirectory, AuditFinish, ScanRecoveries,
              ReadListed, ListFails
    <2>2. Reads
      <3> USE DEF EditorTypeOK
      <3>1. CASE UNCHANGED readVars BY <3>1
      <3>2. CASE Begin(e) BY <3>2 DEF Begin
      <3>3. CASE LoadArtifact(e) BY <3>3, SMTT(20) DEF LoadArtifact
      <3>4. CASE ReadBefore(e) \/ ReadData(e) BY <3>4 DEF ReadBefore, ReadData
      <3>5. CASE ReadAfter(e) BY <3>5 DEF ReadAfter
      <3>6. CASE ScanRecoveries(e) BY <3>6 DEF ScanRecoveries
      <3>7. CASE ReadListed(e) BY <3>7 DEF ReadListed
      <3> QED BY <1>4, <3>1, <3>2, <3>3, <3>4, <3>5, <3>6, <3>7
          DEF EditorNext, Killed, AuditStart, Publish, PublishFails, OpenLock, AcquireLock, CheckFile,
              WriteTemp, Rename, CallFails, SyncDirectory, AuditFinish, ListFails, HandEdit
    <2>3. Numbers
      <3> USE <1>0 DEF EditorTypeOK
      <3>1. file.gen \in 0 .. gens' /\ 0 \in 0 .. gens' /\ \A n \in 0 .. gens : n \in 0 .. gens'
        BY SMTT(30)
      <3>2. CASE /\ UNCHANGED before /\ fd' \in {fd, [fd EXCEPT ![e] = 0], [fd EXCEPT ![e] = file.gen]}
        BY <3>1, <3>2, SMTT(20)
      <3>3. CASE ReadBefore(e) BY <3>1, <3>3 DEF ReadBefore
      <3> QED BY <1>4, <3>2, <3>3
          DEF Begin, EditorNext, Killed, AuditStart, LoadArtifact, ReadData, ReadAfter, Publish, PublishFails,
              OpenLock, AcquireLock, CheckFile, WriteTemp, Rename, CallFails, SyncDirectory, AuditFinish,
              ScanRecoveries, ReadListed, ListFails, HandEdit, Conclude
    <2>4. Results
      <3>1. Reported(e) \in {"ok", "error"} BY DEF Reported, ReportedChange, ReportedEdit
      <3>2. /\ outcome' = outcome \/ \E result \in Outcomes : outcome' = [outcome EXCEPT ![e] = result]
            /\ \/ told' = told
               \/ \E what \in {"ok", "error", "unsafe"} : told' = [told EXCEPT ![e] = what]
        BY <1>4, <3>1
        DEF Begin, EditorNext, Killed, AuditStart, LoadArtifact, ReadBefore, ReadData, ReadAfter, Publish,
            PublishFails, OpenLock, AcquireLock, CheckFile, WriteTemp, Rename, CallFails, SyncDirectory,
            AuditFinish, ScanRecoveries, ReadListed, ListFails, HandEdit, Conclude, Tell, Outcomes
      <3> QED BY <3>2, SMTT(30) DEF EditorTypeOK
    <2>5. Places
      <3>1. epc' = epc \/ \E there \in Stages : Go(e, there)
        BY <1>4
        DEF Begin, EditorNext, Killed, AuditStart, LoadArtifact, ReadBefore, ReadData, ReadAfter, Publish,
            PublishFails, OpenLock, AcquireLock, CheckFile, WriteTemp, Rename, CallFails, SyncDirectory,
            AuditFinish, ScanRecoveries, ReadListed, ListFails, HandEdit, Conclude, Stages, Resting,
            Locked, Publishing
      <3> QED BY <3>1 DEF EditorTypeOK, Stages, Go
    <2> QED BY <2>1, <2>2, <2>3, <2>4, <2>5
  <1> QED BY <1>2, <1>3, <1>4 DEF Next

---------------------------------------------------------------------------
(* What an operation makes of the content it read.                         *)

\* No operation removes the last project: RemoveProject refuses to, and the
\* policy a restore brings back has the project it is asked for.
LEMMA PlanNonEmpty ==
  ASSUME NEW e, NEW c, NEW n \in Plan(e, c)
  PROVE  DOMAIN n # {}
  <1> DEFINE o == op[e]
  <1>1. CASE n \in CreateProject(c, o) BY <1>1 DEF CreateProject
  <1>2. ASSUME NEW p, n \in Edit(c, o.alias, p) PROVE DOMAIN n # {} BY <1>2 DEF Edit
  <1>3. CASE n \in RemoveProject(c, o) BY <1>3 DEF RemoveProject, Restrict
  <1>4. CASE n \in RestoreProject(c, o, loaded[e]) BY <1>4 DEF RestoreProject, Reproduces
  <1>5. \/ n \in CreateProject(c, o) \/ n \in UpdateProjectMetadata(c, o) \/ n \in SetApproval(c, o)
        \/ n \in AddAllowlist(c, o) \/ n \in RemoveAllowlist(c, o) \/ n \in RemoveProject(c, o)
        \/ n \in RestoreProject(c, o, loaded[e])
    BY DEF Plan
  <1> QED BY <1>1, <1>2, <1>3, <1>4, <1>5
      DEF UpdateProjectMetadata, SetApproval, AddAllowlist, RemoveAllowlist

\* A removal takes out exactly the project it names.
LEMMA PlanOfRemoval ==
  ASSUME NEW e, NEW c, NEW n \in Plan(e, c), op[e].kind = "remove"
  PROVE  op[e].alias \in DOMAIN c /\ n = Restrict(c, DOMAIN c \ {op[e].alias})
  BY DEF Plan, RemoveProject

\* A restore brings back a policy whose removal led to the current one.
LEMMA PlanOfRestore ==
  ASSUME NEW e, NEW c, NEW n \in Plan(e, c), op[e].kind = "restore"
  PROVE  \E a \in loaded[e] : a.project = op[e].alias /\ Reproduces(a, c) /\ n = a.before
  BY DEF Plan, RestoreProject

\* A plan depends on the request, the content read and the artifact read only.
LEMMA PlanStable ==
  ASSUME NEW e, op'[e] = op[e], loaded'[e] = loaded[e], data'[e] = data[e]
  PROVE  Plan(e, data[e])' = Plan(e, data[e])
  BY DEF Plan, CreateProject, UpdateProjectMetadata, SetApproval, AddAllowlist, RemoveAllowlist,
         RemoveProject, RestoreProject, Reproduces, Edit, storedApproval

---------------------------------------------------------------------------
(* Reading, locking and replacing the file.                                *)

\* Two operations whose last check found the file unchanged cannot both be
\* about to rename: both have the lock on the current generation.
LEMMA OneRenames ==
  ASSUME EditorTypeOK, LockOK, NEW d \in Editors, NEW e \in Editors, ReadOK(d), ReadOK(e),
         epc[d] = "rename", epc[e] = "rename", d \notin raced, e \notin raced
  PROVE  d = e
  <1>1. fd[d] = file.gen /\ fd[e] = file.gen
    <2>1. /\ file.gen = before[d] /\ before[d] <= fd[d] /\ fd[d] <= file.gen
          /\ file.gen = before[e] /\ before[e] <= fd[e] /\ fd[e] <= file.gen
      BY DEF ReadOK, Opened, Locked
    <2>2. fd[d] \in Int /\ fd[e] \in Int /\ file.gen \in Int BY EditorFacts, FileFacts
    <2> QED BY <2>1, <2>2, SMTT(30)
  <1> QED BY <1>1 DEF LockOK, Locked

\* How a step of one operation changes the file: not at all, or by putting a
\* new generation in place and marking whoever it overtakes.
LEMMA FileMoves ==
  ASSUME EditorTypeOK, LockOK, \A e \in Editors : ReadOK(e),
         NEW s \in Editors, Begin(s) \/ EditorNext(s) \/ Killed(s)
  PROVE  \/ file' = file /\ raced' = raced /\ renamed' = renamed
         \/ /\ file'.gen = gens + 1 /\ file'.applied = file.applied \cup {s}
            /\ \A r \in Editors \ {s} : epc[r] = "rename" => r \in raced'
            /\ disk' = disk /\ renamed'[s] = TRUE
            /\ Rename(s) \/ HandEdit(s)
  <1> USE DEF fileVars
  <1>1. CASE Rename(s)
    <2>1. ASSUME NEW r \in Editors \ {s}, epc[r] = "rename" PROVE r \in raced'
      <3>1. CASE s \in raced BY <1>1, <2>1, <3>1 DEF Rename, At
      <3>2. CASE s \notin raced
        <4>1. r \in raced BY <1>1, <2>1, <3>2, OneRenames DEF Rename, At
        <4> QED BY <1>1, <3>2, <4>1 DEF Rename
      <3> QED BY <3>1, <3>2
    <2>2. renamed'[s] = TRUE BY <1>1 DEF Rename, EditorTypeOK
    <2> QED BY <1>1, <2>1, <2>2 DEF Rename
  <1>2. CASE HandEdit(s)
    <2>1. renamed'[s] = TRUE BY <1>2 DEF HandEdit, EditorTypeOK
    <2>2. file'.gen = gens + 1 /\ file'.applied = file.applied \cup {s} /\ disk' = disk
      BY <1>2, SMTT(30) DEF HandEdit
    <2>3. \A r \in Editors : epc[r] = "rename" => r \in raced' BY <1>2 DEF HandEdit, At
    <2> QED BY <1>2, <2>1, <2>2, <2>3
  <1>3. CASE UNCHANGED <<file, raced, renamed>> BY <1>3
  <1> QED BY <1>1, <1>2, <1>3
      DEF Begin, EditorNext, Killed, AuditStart, LoadArtifact, ReadBefore, ReadData, ReadAfter, Publish,
          PublishFails, OpenLock, AcquireLock, CheckFile, WriteTemp, CallFails, SyncDirectory,
          AuditFinish, ScanRecoveries, ReadListed, ListFails

\* What another operation read stays what the file holds, or the file has a
\* generation it never saw.
LEMMA OthersRead ==
  ASSUME EditorTypeOK, LockOK, \A e \in Editors : ReadOK(e),
         NEW s \in Editors, Begin(s) \/ EditorNext(s) \/ Killed(s), NEW r \in Editors \ {s}
  PROVE  ReadOK(r)'
  <1>1. SameEditor(r) BY OthersKept, SMTT(20)
  <1>2. Plan(r, data[r])' = Plan(r, data[r]) BY <1>1, PlanStable DEF SameEditor
  <1>4. CASE file' = file /\ raced' = raced
    BY <1>1, <1>2, <1>4 DEF SameEditor, ReadOK
  <1>5. CASE file'.gen = gens + 1 /\ \A d \in Editors \ {s} : epc[d] = "rename" => d \in raced'
    <2>1. /\ before[r] \in Int /\ fd[r] \in Int /\ gens \in Int
          /\ before[r] <= gens /\ fd[r] <= gens
      BY EditorFacts
    <2>2. before[r] < file'.gen /\ fd[r] <= file'.gen /\ before[r] <= file'.gen /\ file'.gen # before[r]
      BY <1>5, <2>1, SMTT(30)
    <2> QED BY <1>1, <1>2, <1>5, <2>2 DEF SameEditor, ReadOK
  <1> QED BY <1>4, <1>5, FileMoves

\* The operation's own steps: it reads under one generation, plans from what it
\* read, locks what it finds and goes on only if that is what it read.
LEMMA OwnRead ==
  ASSUME TypeOK, NEW s \in Editors, KindOK(s), ReadOK(s), Begin(s) \/ EditorNext(s) \/ Killed(s)
  PROVE  ReadOK(s)'
  <1>0. /\ EditorTypeOK /\ RecoveryTypeOK
        /\ before[s] \in Int /\ fd[s] \in Int /\ file.gen \in Int /\ gens \in Int
        /\ before[s] <= gens /\ fd[s] <= gens
        /\ s \in DOMAIN epc /\ s \in DOMAIN before
    BY EditorFacts, FileFacts DEF TypeOK
  <1> USE DEF readVars, resultVars, fileVars
  <1> DEFINE Stage == /\ epc'[s] \in {"read"} \cup HasData => before'[s] <= file'.gen
                      /\ epc'[s] \in HasData /\ file'.gen = before'[s] => data'[s] = file'.content
                      /\ epc'[s] \in Planned => plan'[s] \in Plan(s, data[s])' /\ seen'[s] \in {{}, {data'[s]}}
                      /\ epc'[s] \in Opened => before'[s] <= fd'[s] /\ fd'[s] <= file'.gen
                      /\ epc'[s] = "rename" /\ s \notin raced' => file'.gen = before'[s]
  <1>1. SUFFICES Stage BY DEF ReadOK
  <1>2. Stage
    <2> USE DEF HasData, Planned, Opened, Locked, Publishing, Resting, Go, At
    <2>1. CASE epc'[s] \in {"idle", "done", "dead", "begin", "load", "stat", "finish", "reads"} BY <2>1
    <2>2. CASE ReadBefore(s) 
      <3>1. epc'[s] = "read" /\ before'[s] = file.gen /\ file' = file BY <1>0, <2>2 DEF ReadBefore, EditorTypeOK
      <3>2. file.gen <= file.gen BY <1>0, SMTT(30)
      <3> QED BY <3>1, <3>2
    <2>3. CASE ReadData(s) BY <1>0, <2>3 DEF ReadData, EditorTypeOK, ReadOK
    <2>4. CASE ReadAfter(s) /\ epc'[s] # "finish"
      <3>1. /\ epc[s] = "restat" /\ file.gen = before[s] /\ seen[s] \in {{}, {data[s]}}
            /\ plan'[s] \in Plan(s, data[s]) /\ epc'[s] \in {"publish", "open"}
            /\ op' = op /\ loaded' = loaded /\ data' = data /\ before' = before /\ seen' = seen /\ file' = file
        BY <1>0, <2>4, SMTT(20) DEF ReadAfter, CanPlan, EditorTypeOK, Conclude
      <3>2. Plan(s, data[s])' = Plan(s, data[s]) BY <3>1, PlanStable
      <3> QED BY <1>0, <3>1, <3>2 DEF ReadOK
    <2>5. CASE op' = op /\ loaded' = loaded /\ data' = data /\ before' = before /\ seen' = seen /\ plan' = plan
      <3>1. Plan(s, data[s])' = Plan(s, data[s]) BY <2>5, PlanStable
      <3>2. CASE Publish(s) BY <1>0, <2>5, <3>1, <3>2 DEF Publish, EditorTypeOK, ReadOK
      <3>3. CASE OpenLock(s)
        <4>1. epc[s] = "open" /\ epc'[s] = "lock" /\ fd'[s] = file.gen /\ file' = file
          BY <1>0, <3>3 DEF OpenLock, EditorTypeOK
        <4>2. before[s] <= file.gen /\ file.gen <= file.gen BY <1>0, <4>1, SMTT(30) DEF ReadOK
        <4> QED BY <2>5, <3>1, <4>1, <4>2 DEF ReadOK
      <3>4. CASE AcquireLock(s) /\ epc'[s] # "finish"
        <4>1. epc[s] = "lock" /\ epc'[s] = "check" /\ fd' = fd /\ file' = file
          BY <1>0, <3>4 DEF AcquireLock, Conclude, EditorTypeOK
        <4> QED BY <2>5, <3>1, <4>1 DEF ReadOK
      <3>5. CASE CheckFile(s) /\ epc'[s] # "finish"
        <4>1. /\ epc[s] \in {"check", "recheck"} /\ fd' = fd /\ file' = file /\ file.gen = before[s]
              /\ epc' = [epc EXCEPT ![s] = IF epc[s] = "check" THEN "temp" ELSE "rename"]
          BY <1>0, <3>5 DEF CheckFile, SameFile, Conclude, EditorTypeOK
        <4>2. epc'[s] \in {"temp", "rename"} BY <1>0, <4>1 DEF EditorTypeOK
        <4> QED BY <2>5, <3>1, <4>1, <4>2 DEF ReadOK
      <3>6. CASE WriteTemp(s) BY <1>0, <2>5, <3>1, <3>6 DEF WriteTemp, EditorTypeOK, ReadOK
      <3>7. CASE Rename(s)
        <4>1. epc[s] = "rename" /\ epc'[s] = "syncdir" /\ fd' = fd /\ file'.gen = gens + 1
          BY <1>0, <3>7 DEF Rename, EditorTypeOK
        <4>2. fd[s] <= gens + 1 BY <1>0, SMTT(30)
        <4> QED BY <2>5, <3>1, <4>1, <4>2 DEF ReadOK
      <3>8. epc'[s] = "finish" => Stage OBVIOUS
      <3>9. CASE PublishFails(s) \/ CallFails(s) \/ SyncDirectory(s)
        BY <1>0, <3>8, <3>9 DEF PublishFails, CallFails, SyncDirectory, Conclude, EditorTypeOK
      <3>10. CASE AuditStart(s) \/ AuditFinish(s) \/ ListFails(s) \/ HandEdit(s) \/ Killed(s)
        BY <1>0, <3>10 DEF AuditStart, AuditFinish, ListFails, HandEdit, Killed, EditorTypeOK
      <3>11. CASE Begin(s) \/ LoadArtifact(s) \/ ScanRecoveries(s) \/ ReadListed(s)
        BY <1>0, <2>1, <3>11 DEF Begin, LoadArtifact, ScanRecoveries, ReadListed, Conclude, Tell, EditorTypeOK
      <3>12. CASE ReadBefore(s) \/ ReadData(s) \/ ReadAfter(s) BY <2>2, <2>3, <2>4, <3>8, <3>12
      <3> QED BY <3>2, <3>3, <3>4, <3>5, <3>6, <3>7, <3>8, <3>9, <3>10, <3>11, <3>12 DEF EditorNext
    <2>6. CASE Begin(s) \/ LoadArtifact(s) \/ ScanRecoveries(s) \/ ReadListed(s)
      BY <1>0, <2>1, <2>6 DEF Begin, LoadArtifact, ScanRecoveries, ReadListed, Conclude, Tell, EditorTypeOK
    <2> QED BY <2>1, <2>2, <2>3, <2>4, <2>5, <2>6
        DEF EditorNext, Killed, AuditStart, Publish, PublishFails, OpenLock, AcquireLock, CheckFile,
            WriteTemp, Rename, CallFails, SyncDirectory, AuditFinish, ListFails, HandEdit
  <1> QED BY <1>2

\* The lock of a generation is taken only when nobody holds it.
LEMMA LockStep ==
  ASSUME EditorTypeOK, LockOK, NEW s \in Editors, Begin(s) \/ EditorNext(s) \/ Killed(s)
  PROVE  LockOK'
  <1>1. \A r \in Editors \ {s} : epc'[r] = epc[r] /\ fd'[r] = fd[r] BY OthersKept DEF SameEditor
  <1>2. \/ epc'[s] \notin Locked
        \/ epc[s] \in Locked /\ fd'[s] = fd[s]
        \/ CanLock(s) /\ fd'[s] = fd[s]
    <2>0. s \in DOMAIN epc /\ s \in DOMAIN fd BY EditorFacts
    <2> USE DEF Locked, Publishing, Resting, Go, At
    <2>1. CASE AcquireLock(s) BY <2>0, <2>1 DEF AcquireLock, Conclude
    <2>2. CASE CheckFile(s) BY <2>0, <2>2 DEF CheckFile, Conclude
    <2>3. CASE WriteTemp(s) BY <2>0, <2>3 DEF WriteTemp
    <2>4. CASE Rename(s) BY <2>0, <2>4 DEF Rename
    <2>5. CASE ReadListed(s) BY <2>0, <2>5, SMTT(20) DEF ReadListed
    <2>6. CASE Begin(s) \/ AuditStart(s) \/ LoadArtifact(s) \/ ReadBefore(s) \/ ReadData(s) \/ ReadAfter(s)
      BY <2>0, <2>6 DEF Begin, AuditStart, LoadArtifact, ReadBefore, ReadData, ReadAfter, Conclude
    <2>7. CASE Publish(s) \/ PublishFails(s) \/ OpenLock(s) \/ CallFails(s) \/ SyncDirectory(s)
      BY <2>0, <2>7 DEF Publish, PublishFails, OpenLock, CallFails, SyncDirectory, Conclude
    <2>8. CASE AuditFinish(s) \/ ScanRecoveries(s) \/ ListFails(s) \/ HandEdit(s) \/ Killed(s)
      BY <2>0, <2>8 DEF AuditFinish, ScanRecoveries, ListFails, HandEdit, Killed
    <2> QED BY <2>1, <2>2, <2>3, <2>4, <2>5, <2>6, <2>7, <2>8 DEF EditorNext
  <1>3. ASSUME NEW r \in Editors \ {s}, epc'[r] \in Locked, epc'[s] \in Locked PROVE fd'[r] # fd'[s]
    BY <1>1, <1>2, <1>3 DEF LockOK, CanLock
  <1> QED BY <1>1, <1>3 DEF LockOK

\* The kind of an operation decides the way it takes.
LEMMA KindStep ==
  ASSUME EditorTypeOK, NEW s \in Editors, KindOK(s), Begin(s) \/ EditorNext(s) \/ Killed(s)
  PROVE  KindOK(s)'
  <1>0. s \in DOMAIN epc /\ s \in DOMAIN seen /\ s \in DOMAIN rid BY EditorFacts
  <1> USE DEF KindOK, Audited, Locked, Publishing, readVars, resultVars, Go, At
  <1>1. CASE Begin(s) BY <1>0, <1>1 DEF Begin
  <1>2. CASE AuditStart(s) BY <1>0, <1>2 DEF AuditStart
  <1>3. CASE LoadArtifact(s) BY <1>0, <1>3 DEF LoadArtifact, Conclude
  <1>4. CASE ReadBefore(s) BY <1>0, <1>4 DEF ReadBefore
  <1>5. CASE ReadData(s) BY <1>0, <1>5 DEF ReadData
  <1>6. CASE ReadAfter(s) BY <1>0, <1>6 DEF ReadAfter, Conclude
  <1>7. CASE Publish(s) BY <1>0, <1>7 DEF Publish
  <1>8. CASE PublishFails(s) BY <1>0, <1>8 DEF PublishFails, Conclude
  <1>9. CASE OpenLock(s) BY <1>0, <1>9 DEF OpenLock
  <1>10. CASE AcquireLock(s) BY <1>0, <1>10 DEF AcquireLock, Conclude
  <1>11. CASE CheckFile(s) BY <1>0, <1>11 DEF CheckFile, Conclude
  <1>12. CASE WriteTemp(s) BY <1>0, <1>12 DEF WriteTemp
  <1>13. CASE Rename(s) BY <1>0, <1>13 DEF Rename
  <1>14. CASE CallFails(s) BY <1>0, <1>14 DEF CallFails, Conclude
  <1>15. CASE SyncDirectory(s) BY <1>0, <1>15 DEF SyncDirectory, Conclude
  <1>16. CASE AuditFinish(s) BY <1>0, <1>16 DEF AuditFinish
  <1>17. CASE HandEdit(s) BY <1>0, <1>17 DEF HandEdit
  <1>18. CASE ScanRecoveries(s) BY <1>0, <1>18 DEF ScanRecoveries
  <1>19. CASE ReadListed(s) BY <1>0, <1>19 DEF ReadListed
  <1>20. CASE ListFails(s) BY <1>0, <1>20 DEF ListFails
  <1>21. CASE Killed(s) BY <1>0, <1>21 DEF Killed
  <1> QED BY <1>1, <1>2, <1>3, <1>4, <1>5, <1>6, <1>7, <1>8, <1>9, <1>10, <1>11, <1>12, <1>13, <1>14, <1>15,
             <1>16, <1>17, <1>18, <1>19, <1>20, <1>21 DEF EditorNext

\* No step takes the last project out of the file, and the durable file is
\* never ahead of the current one.
LEMMA FileStep ==
  ASSUME EditorTypeOK, FileOK, NEW s \in Editors, ReadOK(s), Begin(s) \/ EditorNext(s) \/ Killed(s)
  PROVE  /\ FileOK'
         /\ file.applied \subseteq file'.applied /\ disk.applied \subseteq disk'.applied
  <1> USE DEF fileVars
  <1>0. /\ file.gen \in Int /\ disk.gen \in Int /\ gens \in Int /\ file.gen <= gens /\ disk.gen <= gens
    BY FileFacts
  <1>1. CASE Rename(s) \/ HandEdit(s)
    <2>1. /\ file'.gen = gens + 1 /\ file'.applied = file.applied \cup {s} /\ disk' = disk
          /\ \E c : file'.content \in Plan(s, c)
      <3>1. CASE Rename(s) BY <3>1 DEF Rename, At, ReadOK, Planned
      <3>2. CASE HandEdit(s) BY <3>2, SMTT(30) DEF HandEdit
      <3> QED BY <1>1, <3>1, <3>2
    <2>2. DOMAIN file'.content # {} BY <2>1, PlanNonEmpty DEF ReadOK
    <2>3. disk'.gen <= file'.gen BY <1>0, <2>1, SMTT(30) DEF FileOK
    <2> QED BY <2>1, <2>2, <2>3 DEF FileOK
  <1>2. CASE SyncDirectory(s) BY <1>0, <1>2, SMTT(30) DEF SyncDirectory, FileOK
  <1>3. CASE UNCHANGED <<file, disk>> BY <1>3 DEF FileOK
  <1> QED BY <1>1, <1>2, <1>3
      DEF Begin, EditorNext, Killed, AuditStart, LoadArtifact, ReadBefore, ReadData, ReadAfter, Publish,
          PublishFails, OpenLock, AcquireLock, CheckFile, WriteTemp, CallFails, AuditFinish,
          ScanRecoveries, ReadListed, ListFails

\* Outcomes, reports and history of the operation that takes the step.
LEMMA OutcomeStep ==
  ASSUME EditorTypeOK, FileOK, NEW s \in Editors, OutcomeOK(s), ReadOK(s),
         Begin(s) \/ EditorNext(s) \/ Killed(s)
  PROVE  OutcomeOK(s)'
  <1>0. file.applied \subseteq file'.applied /\ disk.applied \subseteq disk'.applied BY FileStep
  <1> USE DEF Ended, Locked, Publishing, Resting, EditorTypeOK, readVars, resultVars, fileVars, Go, At
  <1>1. ASSUME renamed' = renamed, told' = told, epc[s] \notin Resting,
               epc'[s] = "finish", outcome'[s] \in {"failed", "no_change", "changed"},
               outcome'[s] = "no_change" => epc[s] = "restat",
               outcome'[s] = "changed" => s \in disk'.applied
        PROVE  OutcomeOK(s)'
    BY <1>0, <1>1 DEF OutcomeOK
  <1>2. ASSUME outcome' = outcome, renamed' = renamed, told' = told,
               epc[s] \notin Ended \cup {"syncdir"}, epc'[s] \notin {"finish", "syncdir"}
        PROVE  OutcomeOK(s)'
    BY <1>0, <1>2 DEF OutcomeOK
  <1>3. CASE Begin(s) \/ ReadBefore(s) \/ ReadData(s) \/ OpenLock(s) \/ WriteTemp(s)
    BY <1>2, <1>3 DEF Begin, ReadBefore, ReadData, OpenLock, WriteTemp
  <1>4. CASE AuditStart(s) BY <1>0, <1>4, SMTT(30) DEF AuditStart, Tell, OutcomeOK
  <1>5. CASE LoadArtifact(s) BY <1>1, <1>2, <1>5, SMTT(30) DEF LoadArtifact, Conclude
  <1>6. CASE ReadAfter(s) BY <1>1, <1>2, <1>6, SMTT(30) DEF ReadAfter, Conclude
  <1>7. CASE Publish(s) BY <1>2, <1>7 DEF Publish
  <1>8. CASE PublishFails(s) BY <1>1, <1>8 DEF PublishFails, Conclude
  <1>9. CASE AcquireLock(s) BY <1>1, <1>2, <1>9, SMTT(30) DEF AcquireLock, Conclude
  <1>10. CASE CheckFile(s) BY <1>1, <1>2, <1>10, SMTT(30) DEF CheckFile, Conclude
  <1>11. CASE CallFails(s) BY <1>1, <1>11 DEF CallFails, Conclude
  <1>12. CASE SyncDirectory(s) BY <1>1, <1>12 DEF SyncDirectory, Conclude, OutcomeOK, FileOK
  <1>13. CASE Rename(s)
    <2>1. /\ epc'[s] = "syncdir" /\ s \in file'.applied /\ outcome'[s] = outcome[s] /\ told'[s] = told[s]
          /\ epc[s] = "rename"
      BY <1>13 DEF Rename
    <2> QED BY <1>0, <2>1 DEF OutcomeOK
  <1>14. CASE HandEdit(s)
    <2>1. epc'[s] = "done" /\ outcome'[s] = outcome[s] /\ told'[s] = told[s] /\ epc[s] = "begin"
      BY <1>14 DEF HandEdit
    <2> QED BY <1>0, <2>1 DEF OutcomeOK
  <1>15. CASE AuditFinish(s) BY <1>0, <1>15 DEF AuditFinish, Tell, OutcomeOK
  <1>16. CASE ScanRecoveries(s) BY <1>0, <1>16 DEF ScanRecoveries, Tell, OutcomeOK
  <1>17. CASE ReadListed(s) BY <1>0, <1>17 DEF ReadListed, Tell, OutcomeOK
  <1>18. CASE ListFails(s) BY <1>0, <1>18 DEF ListFails, Tell, OutcomeOK
  <1>19. CASE Killed(s) BY <1>0, <1>19 DEF Killed, OutcomeOK
  <1> QED BY <1>3, <1>4, <1>5, <1>6, <1>7, <1>8, <1>9, <1>10, <1>11, <1>12, <1>13, <1>14, <1>15, <1>16, <1>17,
             <1>18, <1>19 DEF EditorNext

---------------------------------------------------------------------------
(* The audit records of an operation.                                      *)

SameRecords(r) ==
    \A event \in {"start", "finish"} :
        /\ Entries(r, event)' = Entries(r, event)
        /\ \A i \in Entries(r, event) : log'[i] = log[i]
        /\ Durable(r, event) => Durable(r, event)'
        /\ Secured(r, event) => Secured(r, event)'

\* The trail of an operation that does not move, and of one whose move asks
\* nothing more of it.
LEMMA TrailKept ==
  ASSUME NEW r \in Editors, TrailOK(r), SameRecords(r), op'[r] = op[r],
         epc'[r] \in Audited => epc[r] \in Audited,
         renamed'[r] /\ op[r].kind # "hand" => epc[r] \in Audited \/ renamed[r],
         epc[r] \in {"done", "dead"} => epc'[r] \in {"done", "dead"} /\ outcome'[r] = outcome[r],
         told'[r] = "ok" /\ op[r].kind # "list" => told[r] = "ok" /\ outcome'[r] = outcome[r]
  PROVE  TrailOK(r)'
  <1>1. /\ Entries(r, "finish")' = Entries(r, "finish")
        /\ \A i \in Entries(r, "finish") : log'[i] = log[i]
        /\ Durable(r, "start") => Durable(r, "start")' /\ Secured(r, "start")
        /\ \A event \in {"start", "finish"} : Secured(r, event) => Secured(r, event)'
    BY DEF SameRecords, Secured
  <1> QED BY <1>1 DEF TrailOK

\* Without a write to the audit file the records stay what they are.
LEMMA SameLog ==
  ASSUME UNCHANGED logVars, NEW r
  PROVE  SameRecords(r)
  BY DEF logVars, SameRecords, Entries, Durable, Secured

\* A record appended for one operation leaves those of another alone.
LEMMA OthersRecords ==
  ASSUME EditorTypeOK, NEW s \in Editors, NEW r \in Editors \ {s},
         NEW event \in {"start", "finish"}, NEW result \in Outcomes,
         AppendOK(Record(s, event, result)) \/ AppendError(Record(s, event, result))
  PROVE  SameRecords(r)
  <1> DEFINE rec == Record(s, event, result)
  <1>1. LogTypeOK(Editors, Outcomes) BY DEF EditorTypeOK
  <1>2. rec \in Records(Editors, Outcomes) /\ rec.id = s BY RecordTyped, SMTT(30)
  <1> HIDE DEF rec
  <1>3. AppendOK(rec) \/ AppendError(rec) BY DEF rec
  <1>4. rec.id # r BY <1>2, SMTT(20)
  <1>5. \A ev : /\ Entries(r, ev)' = Entries(r, ev)
                /\ \A i \in Entries(r, ev) : log'[i] = log[i]
                /\ Durable(r, ev) => Durable(r, ev)'
                /\ Secured(r, ev) => Secured(r, ev)'
    BY <1>1, <1>2, <1>3, <1>4, AppendElsewhere, SMTT(20)
  <1> QED BY <1>5 DEF SameRecords

\* A step of one operation keeps the trail of another.
LEMMA OthersTrail ==
  ASSUME EditorTypeOK, NEW s \in Editors, NEW r \in Editors \ {s}, TrailOK(r),
         Begin(s) \/ EditorNext(s) \/ Killed(s)
  PROVE  TrailOK(r)'
  <1>1. SameRecords(r)
    <2>1. CASE UNCHANGED logVars BY <2>1, SameLog, SMTT(20)
    <2>2. outcome[s] \in Outcomes /\ "none" \in Outcomes BY DEF EditorTypeOK, Outcomes
    <2>3. CASE AuditStart(s) BY <2>2, <2>3, OthersRecords DEF AuditStart
    <2>4. CASE AuditFinish(s) BY <2>2, <2>4, OthersRecords DEF AuditFinish
    <2> QED BY <2>1, <2>3, <2>4
        DEF Begin, EditorNext, Killed, LoadArtifact, ReadBefore, ReadData, ReadAfter, Publish, PublishFails,
            OpenLock, AcquireLock, CheckFile, WriteTemp, Rename, CallFails, SyncDirectory,
            ScanRecoveries, ReadListed, ListFails, HandEdit
  <1>2. SameEditor(r) BY OthersKept
  <1> QED BY <1>1, <1>2, TrailKept DEF SameEditor

\* The start record: the operation goes on only once it is durable.
LEMMA StartTrail ==
  ASSUME EditorTypeOK, NEW s \in Editors, TrailOK(s), OutcomeOK(s), AuditStart(s)
  PROVE  TrailOK(s)'
  <1> DEFINE rec == Record(s, "start", "none")
  <1>0. /\ op' = op /\ renamed' = renamed /\ outcome' = outcome /\ epc[s] = "begin"
        /\ \/ AppendOK(rec) /\ told' = told
           \/ AppendError(rec) /\ epc'[s] = "done" /\ told'[s] = "error"
    BY DEF AuditStart, At, Go, Tell, EditorTypeOK, readVars, fileVars
  <1>1. LogTypeOK(Editors, Outcomes) BY DEF EditorTypeOK
  <1>2. rec \in Records(Editors, Outcomes) /\ rec.id = s /\ rec.event = "start" /\ rec.whole
    BY RecordTyped, SMTT(30) DEF Outcomes
  <1> HIDE DEF rec
  <1>3. ~renamed[s] /\ told[s] = "none" BY <1>0 DEF OutcomeOK, Ended
  <1>4. Entries(s, "finish")' = {}
    <2>1. Entries(s, "finish") = {} BY <1>0 DEF TrailOK
    <2>2. rec.event # "finish" BY <1>2, SMTT(20)
    <2>3. Entries(s, "finish")' = Entries(s, "finish") BY <1>0, <1>1, <1>2, <2>2, AppendElsewhere, SMTT(30)
    <2> QED BY <2>1, <2>3
  <1>5. CASE AppendOK(rec) /\ told' = told
    <2>1. Durable(rec.id, rec.event)' BY <1>1, <1>2, <1>5, AppendDurable
    <2>2. Durable(s, "start")' BY <1>2, <2>1, SMTT(20)
    <2> QED BY <1>0, <1>3, <1>4, <1>5, <2>2 DEF TrailOK
  <1>6. CASE AppendError(rec) /\ epc'[s] = "done" /\ told'[s] = "error"
    BY <1>0, <1>3, <1>4, <1>6 DEF TrailOK, Audited, Publishing, Locked
  <1> QED BY <1>0, <1>5, <1>6

\* The finish record: success is reported only with both records durable.
LEMMA FinishTrail ==
  ASSUME EditorTypeOK, NEW s \in Editors, TrailOK(s), OutcomeOK(s), AuditFinish(s)
  PROVE  TrailOK(s)'
  <1> PICK rec : rec = Record(s, "finish", outcome[s]) OBVIOUS
  <1>0. /\ op' = op /\ renamed' = renamed /\ outcome' = outcome /\ epc[s] = "finish" /\ epc'[s] = "done"
        /\ AppendOK(rec) \/ AppendError(rec)
        /\ told'[s] = "ok" => AppendOK(rec) /\ Reported(s) = "ok"
    BY DEF AuditFinish, At, Go, Tell, EditorTypeOK, readVars, fileVars
  <1>1. LogTypeOK(Editors, Outcomes) BY SMTT(20) DEF EditorTypeOK
  <1>2. /\ rec \in Records(Editors, Outcomes) /\ rec.id = s /\ rec.event = "finish" /\ rec.whole
        /\ rec.outcome = outcome[s]
    BY RecordTyped, SMTT(30) DEF EditorTypeOK
  <1>3. Entries(s, "finish") = {} /\ Durable(s, "start")
    BY <1>0 DEF TrailOK, Audited
  <1>4. \A i \in Entries(s, "finish")' : log'[i] = rec
    <2>1. Entries(rec.id, rec.event) = {} BY <1>2, <1>3
    <2>2. \A i \in Entries(rec.id, rec.event)' : i = Len(log) + 1 /\ log'[i] = rec
      BY <1>0, <1>1, <1>2, <2>1, AppendFirst
    <2> QED BY <1>2, <2>2
  <1>5. Secured(s, "start")'
    <2>1. Durable(s, "start")' BY <1>0, <1>1, <1>2, <1>3, AppendEntries
    <2> QED BY <2>1 DEF Secured
  <1>6. AppendOK(rec) => Secured(s, "finish")'
    <2>1. AppendOK(rec) => Durable(rec.id, rec.event)' BY <1>1, <1>2, AppendDurable
    <2>2. AppendOK(rec) => Durable(s, "finish")' BY <1>2, <2>1, SMTT(20)
    <2> QED BY <2>2 DEF Secured
  <1>7. Reported(s) = "ok" => outcome[s] \in {"changed", "no_change"}
    <2>1. outcome[s] \in Outcomes /\ outcome[s] # "none" BY <1>0 DEF OutcomeOK, EditorTypeOK
    <2> QED BY <2>1 DEF Reported, ReportedChange, ReportedEdit, Outcomes
  <1>8. epc'[s] \notin Audited BY <1>0 DEF Audited, Publishing, Locked
  <1> QED BY <1>0, <1>2, <1>4, <1>5, <1>6, <1>7, <1>8 DEF TrailOK

\* A step of an operation keeps its own trail.
LEMMA OwnTrail ==
  ASSUME EditorTypeOK, NEW s \in Editors, TrailOK(s), OutcomeOK(s), KindOK(s),
         Begin(s) \/ EditorNext(s) \/ Killed(s)
  PROVE  TrailOK(s)'
  <1> USE DEF Audited, Locked, Publishing, Resting, EditorTypeOK, readVars, resultVars, fileVars, Go, At
  <1>1. CASE AuditStart(s) BY <1>1, StartTrail
  <1>2. CASE AuditFinish(s) BY <1>2, FinishTrail
  <1>3. ASSUME UNCHANGED logVars, op' = op, renamed' = renamed, told' = told,
               epc[s] \in Audited \/ epc'[s] \notin Audited,
               epc[s] \notin Resting, epc'[s] # "idle"
        PROVE  TrailOK(s)'
    <2>1. SameRecords(s) BY <1>3, SameLog
    <2>2. told[s] = "none" BY <1>3 DEF OutcomeOK
    <2> QED BY <1>3, <2>1, <2>2, TrailKept
  <1>4. CASE Begin(s) \/ ScanRecoveries(s) \/ ReadListed(s) \/ ListFails(s)
    <2>1. /\ UNCHANGED logVars /\ op' = op /\ renamed' = renamed /\ outcome' = outcome
          /\ epc[s] \notin {"done", "dead"}
          /\ epc'[s] \notin Audited
          /\ op[s].kind = "list" \/ told' = told
      <3>1. CASE Begin(s) BY <3>1 DEF Begin
      <3>2. CASE ScanRecoveries(s) BY <3>2, SMTT(30) DEF ScanRecoveries
      <3>3. CASE ReadListed(s) BY <3>3, SMTT(30) DEF ReadListed, KindOK
      <3>4. CASE ListFails(s) BY <3>4 DEF ListFails, KindOK
      <3> QED BY <1>4, <3>1, <3>2, <3>3, <3>4
    <2>2. SameRecords(s) BY <2>1, SameLog, SMTT(20)
    <2> QED BY <2>1, <2>2, TrailKept
  <1>5. CASE ReadBefore(s) \/ ReadData(s) \/ OpenLock(s) \/ WriteTemp(s) \/ Killed(s)
    BY <1>3, <1>5 DEF ReadBefore, ReadData, OpenLock, WriteTemp, Killed
  <1>6. CASE LoadArtifact(s) \/ ReadAfter(s) BY <1>3, <1>6, SMTT(20) DEF LoadArtifact, ReadAfter, Conclude
  <1>7. CASE Publish(s) \/ PublishFails(s) BY <1>3, <1>7 DEF Publish, PublishFails, Conclude
  <1>8. CASE AcquireLock(s) \/ CheckFile(s) BY <1>3, <1>8 DEF AcquireLock, CheckFile, Conclude
  <1>9. CASE CallFails(s) \/ SyncDirectory(s) BY <1>3, <1>9 DEF CallFails, SyncDirectory, Conclude
  <1>10. CASE Rename(s)
    <2>1. UNCHANGED <<logVars, op, told, outcome>> /\ epc[s] = "rename" BY <1>10 DEF Rename
    <2>2. SameRecords(s) BY <2>1, SameLog
    <2> QED BY <2>1, <2>2, TrailKept
  <1>11. CASE HandEdit(s)
    <2>1. UNCHANGED <<logVars, op, told, outcome>> /\ epc[s] = "begin" /\ epc'[s] = "done" /\ op[s].kind = "hand"
      BY <1>11 DEF HandEdit
    <2>2. SameRecords(s) BY <2>1, SameLog
    <2> QED BY <2>1, <2>2, TrailKept
  <1> QED BY <1>1, <1>2, <1>4, <1>5, <1>6, <1>7, <1>8, <1>9, <1>10, <1>11 DEF EditorNext


---------------------------------------------------------------------------
(* The recovery directory.                                                 *)

\* An operation that has an artifact never reads or plans again, and one that
\* has ended replaces nothing.
LEMMA OwnMoves ==
  ASSUME EditorTypeOK, NEW s \in Editors, Begin(s) \/ EditorNext(s) \/ Killed(s)
  PROVE  /\ op' = op
         /\ epc[s] \in Ended => epc'[s] \in Ended /\ renamed'[s] = renamed[s]
         /\ epc[s] \notin Unpublished => epc'[s] \notin Unpublished
         /\ epc[s] \notin Unpublished \ {"publish"} => data'[s] = data[s] /\ plan'[s] = plan[s]
         /\ epc[s] \in {"publish"} \cup Publishing => renamed'[s] = renamed[s]
         /\ epc[s] \in Publishing =>
               \/ epc'[s] \in Publishing \cup Ended
               \/ epc[s] = "syncrecovery" /\ epc'[s] = "open" /\ SyncDir
         /\ epc'[s] \in Publishing => epc[s] \in {"publish"} \cup Publishing
         /\ epc'[s] = "syncrecovery" => epc[s] = "unlink" /\ RemoveTemp(Artifact(s))
  <1> USE DEF Unpublished, Ended, Locked, Publishing, Resting, EditorTypeOK, readVars, resultVars, fileVars, Go, At
  <1>1. CASE Begin(s) \/ ReadBefore(s) \/ ReadData(s) \/ OpenLock(s) \/ WriteTemp(s)
    BY <1>1 DEF Begin, ReadBefore, ReadData, OpenLock, WriteTemp
  <1>2. CASE AuditStart(s) BY <1>2 DEF AuditStart
  <1>3. CASE LoadArtifact(s) BY <1>3 DEF LoadArtifact, Conclude
  <1>4. CASE ReadAfter(s) BY <1>4 DEF ReadAfter, Conclude
  <1>5. CASE Publish(s) BY <1>5, SMTT(30) DEF Publish
  <1>6. CASE PublishFails(s) \/ CallFails(s) \/ SyncDirectory(s)
    BY <1>6 DEF PublishFails, CallFails, SyncDirectory, Conclude
  <1>7. CASE AcquireLock(s) BY <1>7, SMTT(30) DEF AcquireLock, Conclude
  <1>8. CASE CheckFile(s) BY <1>8 DEF CheckFile, Conclude
  <1>9. CASE Rename(s) \/ HandEdit(s) BY <1>9 DEF Rename, HandEdit
  <1>10. CASE AuditFinish(s) \/ ListFails(s) \/ Killed(s) BY <1>10 DEF AuditFinish, ListFails, Killed
  <1>11. CASE ScanRecoveries(s) BY <1>11 DEF ScanRecoveries
  <1>12. CASE ReadListed(s) BY <1>12 DEF ReadListed
  <1> QED BY <1>1, <1>2, <1>3, <1>4, <1>5, <1>6, <1>7, <1>8, <1>9, <1>10, <1>11, <1>12 DEF EditorNext

\* A name tells its artifact, and whether it is the temporary one.
LEMMA NamesDiffer ==
  ASSUME NEW a, NEW b
  PROVE  /\ Temp(a) # Final(b)
         /\ Temp(a) = Temp(b) => a = b
         /\ Final(a) = Final(b) => a = b
         /\ Temp(a).art = a /\ Final(a).art = a /\ Temp(a).name = "temp" /\ Final(a).name = "final"
  <1>1. Temp(a).name = "temp" /\ Final(b).name = "final" /\ Final(a).name = "final" BY DEF Temp, Final
  <1>2. Temp(a).art = a /\ Temp(b).art = b /\ Final(a).art = a /\ Final(b).art = b BY DEF Temp, Final
  <1> QED BY <1>1, <1>2

\* An operation adds and takes back names of its own artifact only.
LEMMA DirMoves ==
  ASSUME NEW s \in Editors, Begin(s) \/ EditorNext(s) \/ Killed(s)
  PROVE  LET temp == Temp(Artifact(s))
             final == Final(Artifact(s))
         IN /\ \A x \in dir' : \/ x \in dir
                               \/ x = temp /\ epc[s] = "publish" /\ Publish(s)
                               \/ x = final /\ epc[s] = "link" /\ Publish(s)
            /\ \A x \in dirDisk' : x \in dir \cup dirDisk
            /\ \A x \in dir \ {temp, final} : x \in dir'
            /\ \A x \in dir \cap dirDisk : x \notin {temp, final} => x \in dirDisk'
            /\ final \in dir => final \in dir' \/ PublishFails(s)
            /\ epc[s] \notin {"publish"} \cup Publishing => UNCHANGED recoveryVars
  <1> DEFINE temp == Temp(Artifact(s))
             final == Final(Artifact(s))
  <1>0. temp # final BY NamesDiffer
  <1> HIDE DEF temp, final
  <1> USE DEF recoveryVars
  <1>1. CASE UNCHANGED recoveryVars BY <1>1 DEF temp, final
  <1>2. CASE Publish(s)
    <2>1. CASE At(s, "publish") /\ dir' = dir \cup {temp} /\ dirDisk' = dirDisk
      BY <1>0, <1>2, <2>1 DEF At, temp, final, Publishing
    <2>2. CASE At(s, "link") /\ dir' = dir \cup {final} /\ dirDisk' = dirDisk
      BY <1>0, <1>2, <2>2 DEF At, temp, final, Publishing
    <2>3. CASE At(s, "unlink") /\ dir' = dir \ {temp} /\ dirDisk' = dirDisk
      BY <1>0, <1>2, <2>3 DEF At, temp, final, Publishing
    <2>4. CASE At(s, "syncrecovery") /\ dirDisk' = dir /\ dir' = dir
      BY <1>0, <1>2, <2>4 DEF At, temp, final, Publishing
    <2> QED BY <1>2, <2>1, <2>2, <2>3, <2>4
        DEF Publish, CreateTemp, LinkFinal, RemoveTemp, SyncDir, temp, final
  <1>3. CASE PublishFails(s)
    <2>1. /\ dir' \subseteq dir /\ dir \ {temp, final} \subseteq dir'
          /\ dirDisk' \subseteq dir \cup dirDisk
          /\ (dir \cap dirDisk) \ {temp, final} \subseteq dirDisk'
      <3>1. CASE TakeBack({temp}) \/ TakeBack({temp, final}) BY <3>1 DEF TakeBack
      <3>2. CASE TakeBackSynced(Artifact(s))
        BY <3>2 DEF TakeBackSynced, final
      <3> QED BY <1>3, <3>1, <3>2 DEF PublishFails, temp, final
    <2>2. epc[s] \in Publishing BY <1>3 DEF PublishFails, At, Publishing
    <2> QED BY <1>3, <2>1, <2>2 DEF temp, final
  <1> QED BY <1>1, <1>2, <1>3
      DEF Begin, EditorNext, Killed, AuditStart, LoadArtifact, ReadBefore, ReadData, ReadAfter,
          OpenLock, AcquireLock, CheckFile, WriteTemp, Rename, CallFails, SyncDirectory, AuditFinish,
          ScanRecoveries, ReadListed, ListFails, HandEdit

\* The artifact of an operation does not change once it may have been written.
LEMMA ArtifactStable ==
  ASSUME EditorTypeOK, NEW s \in Editors, Begin(s) \/ EditorNext(s) \/ Killed(s), NEW d \in Editors,
         d # s \/ epc[s] \notin Unpublished \ {"publish"}
  PROVE  Artifact(d)' = Artifact(d)
  <1>1. op'[d] = op[d] /\ data'[d] = data[d] /\ plan'[d] = plan[d]
    BY OthersKept, OwnMoves DEF SameEditor
  <1> QED BY <1>1 DEF Artifact

\* Names in the recovery directory are accounted for after every step.
LEMMA DirStep ==
  ASSUME EditorTypeOK, DirOK, NEW s \in Editors, KindOK(s), ReadOK(s), OutcomeOK(s),
         Begin(s) \/ EditorNext(s) \/ Killed(s)
  PROVE  DirOK'
  <1> DEFINE temp == Temp(Artifact(s))
             final == Final(Artifact(s))
  <1>0. op' = op BY OwnMoves
  <1>1. ASSUME NEW x \in dir \cup dirDisk,
               x = Temp(x.art) /\ x.art.id = s => ~(epc[s] = "syncrecovery" /\ epc'[s] = "open" /\ SyncDir)
        PROVE  NameOK(x)'
    <2>1. NameOK(x) BY DEF DirOK
    <2>2. CASE x.art.id \notin Editors BY <2>1, <2>2 DEF NameOK
    <2>3. CASE x.art.id \in Editors \ {s}
      <3>1. SameEditor(x.art.id) BY <2>3, OthersKept
      <3>2. Artifact(x.art.id)' = Artifact(x.art.id) BY <2>3, ArtifactStable
      <3> QED BY <2>1, <2>3, <3>1, <3>2 DEF NameOK, SameEditor
    <2>4. CASE x.art.id = s
      <3>1. /\ op[s].kind = "remove" /\ epc[s] \notin Unpublished /\ x.art = Artifact(s) /\ IsRemoval(x.art)
            /\ x = Temp(x.art) => ~renamed[s] /\ epc[s] \in Publishing \cup Ended
        BY <2>1, <2>4 DEF NameOK
      <3>2. Artifact(s)' = Artifact(s) BY <3>1, ArtifactStable
      <3>3. epc'[s] \notin Unpublished BY <3>1, OwnMoves
      <3>4. x = Temp(x.art) => ~renamed'[s] /\ epc'[s] \in Publishing \cup Ended
        BY <1>1, <2>4, <3>1, OwnMoves
      <3> QED BY <1>0, <2>1, <2>4, <3>1, <3>2, <3>3, <3>4 DEF NameOK
    <2> QED BY <2>2, <2>3, <2>4
  <1>2. ASSUME Publish(s), epc[s] \in {"publish", "link"}, NEW x \in {temp, final},
               x = temp <=> epc[s] = "publish"
        PROVE  NameOK(x)'
    <2>1. op[s].kind = "remove" /\ plan[s] \in Plan(s, data[s])
      BY <1>2 DEF KindOK, ReadOK, Planned, Publishing
    <2>2. IsRemoval(Artifact(s)) BY <2>1, PlanOfRemoval DEF IsRemoval, Reproduces, Artifact
    <2>3. Artifact(s)' = Artifact(s) BY <1>2, ArtifactStable DEF Unpublished
    <2>4. epc'[s] \in {"link", "unlink"} BY <1>2 DEF Publish, Go, At, EditorTypeOK
    <2>5. ~renamed[s] /\ renamed'[s] = renamed[s]
      BY <1>2, OwnMoves DEF OutcomeOK, Ended, Publishing
    <2>6. x.art = Artifact(s) /\ x.art.id = s /\ x \in {Temp(x.art), Final(x.art)}
      BY NamesDiffer, SMTT(30) DEF Artifact
    <2>7. epc'[s] \in Publishing /\ epc'[s] \notin Unpublished BY <2>4 DEF Publishing, Unpublished
    <2> QED BY <1>0, <2>1, <2>2, <2>3, <2>5, <2>6, <2>7 DEF NameOK
  <1>3. temp # final BY NamesDiffer
  <1>4. \A x \in dir' \cup dirDisk' : NameOK(x)'
    <2> SUFFICES ASSUME NEW x \in dir' \cup dirDisk' PROVE NameOK(x)'
      OBVIOUS
    <2>1. CASE /\ epc[s] = "syncrecovery" /\ epc'[s] = "open" /\ SyncDir
      <3>1. x \in dir BY <2>1 DEF SyncDir
      <3>2. x = Temp(x.art) => x.art.id # s
        <4> SUFFICES ASSUME x = Temp(x.art), x.art.id = s PROVE FALSE
          OBVIOUS
        <4>1. x = Temp(Artifact(s)) BY <3>1 DEF DirOK, NameOK
        <4> QED BY <2>1, <3>1, <4>1 DEF DirOK
      <3> QED BY <1>1, <3>1, <3>2
    <2>2. CASE /\ ~(epc[s] = "syncrecovery" /\ epc'[s] = "open" /\ SyncDir) /\ x \in dir \cup dirDisk
      BY <1>1, <2>2
    <2>3. CASE x \notin dir \cup dirDisk
      BY <1>2, <1>3, <2>3, DirMoves
    <2> QED BY <2>1, <2>2, <2>3
  <1>5. ASSUME NEW e \in Editors, epc'[e] = "syncrecovery" PROVE Temp(Artifact(e))' \notin dir'
    <2>1. CASE e = s
      <3>1. epc[s] = "unlink" /\ dir' = dir \ {temp} BY <1>5, <2>1, OwnMoves DEF RemoveTemp
      <3>2. Artifact(s)' = Artifact(s) BY <3>1, ArtifactStable DEF Unpublished
      <3>3. Temp(Artifact(s))' = Temp(Artifact(s)) BY <3>2 DEF Temp
      <3> QED BY <2>1, <3>1, <3>3
    <2>2. CASE e # s
      <3>1. epc[e] = "syncrecovery" BY <1>5, <2>2, OthersKept DEF SameEditor
      <3>2. Artifact(e)' = Artifact(e) BY <2>2, ArtifactStable
      <3>3. Temp(Artifact(e))' = Temp(Artifact(e)) BY <3>2 DEF Temp
      <3>4. Artifact(e).id = e /\ Artifact(s).id = s BY DEF Artifact
      <3>5. Temp(Artifact(e)) \notin {temp, final} BY <2>2, <3>4, NamesDiffer
      <3>6. Temp(Artifact(e)) \notin dir BY <3>1 DEF DirOK
      <3> QED BY <3>3, <3>5, <3>6, DirMoves
    <2> QED BY <2>1, <2>2
  <1> QED BY <1>4, <1>5 DEF DirOK

\* A published artifact is not taken back by a step of another operation.
LEMMA OthersPublished ==
  ASSUME EditorTypeOK, NEW s \in Editors, Begin(s) \/ EditorNext(s) \/ Killed(s),
         NEW r \in Editors \ {s}, PublishedOK(r)
  PROVE  PublishedOK(r)'
  <1>1. SameEditor(r) BY OthersKept
  <1>2. Artifact(r)' = Artifact(r) BY ArtifactStable
  <1>3. Final(Artifact(r))' = Final(Artifact(r)) BY <1>2 DEF Final
  <1>4. Artifact(r).id = r /\ Artifact(s).id = s BY DEF Artifact
  <1>5. Final(Artifact(r)) \notin {Temp(Artifact(s)), Final(Artifact(s))} BY <1>4, NamesDiffer
  <1>6. /\ Final(Artifact(r)) \in dir => Final(Artifact(r)) \in dir'
        /\ Final(Artifact(r)) \in dir \cap dirDisk => Final(Artifact(r)) \in dirDisk'
    BY <1>5, DirMoves
  <1> QED BY <1>1, <1>3, <1>6 DEF SameEditor, PublishedOK

\* A removal goes on to replace the policy only with its artifact in the
\* directory for good.
LEMMA OwnPublished ==
  ASSUME EditorTypeOK, NEW s \in Editors, KindOK(s), OutcomeOK(s), PublishedOK(s),
         Begin(s) \/ EditorNext(s) \/ Killed(s)
  PROVE  PublishedOK(s)'
  <1> DEFINE final == Final(Artifact(s))
  <1>0. op' = op BY OwnMoves
  <1> USE DEF Ended, Opened, Locked, Publishing, Resting, Unpublished
  <1>1. CASE Publish(s)
    <2>1. Final(Artifact(s))' = final
      <3>1. epc[s] \in {"publish", "link", "unlink", "syncrecovery"} BY <1>1 DEF Publish, At
      <3>2. Artifact(s)' = Artifact(s) BY <3>1, ArtifactStable
      <3> QED BY <3>2 DEF Final
    <2>2. op[s].kind = "remove" /\ ~rid[s] /\ ~renamed[s]
      BY <1>1 DEF Publish, At, KindOK, PublishedOK
    <2>3. renamed' = renamed BY <1>1 DEF Publish, fileVars
    <2>4. final # Temp(Artifact(s)) BY NamesDiffer
    <2> HIDE DEF final
    <2>5. CASE epc[s] = "publish" /\ epc'[s] = "link" /\ rid' = rid
      BY <2>1, <2>2, <2>3, <2>5 DEF PublishedOK
    <2>6. CASE epc[s] = "link" /\ epc'[s] = "unlink" /\ rid' = rid /\ final \in dir'
      BY <2>1, <2>2, <2>3, <2>6 DEF PublishedOK
    <2>7. CASE epc[s] = "unlink" /\ epc'[s] = "syncrecovery" /\ rid' = rid /\ dir' = dir \ {Temp(Artifact(s))}
      BY <2>1, <2>2, <2>3, <2>4, <2>7 DEF PublishedOK, final
    <2>8. CASE epc[s] = "syncrecovery" /\ epc'[s] = "open" /\ dirDisk' = dir /\ dir' = dir
      BY <2>1, <2>2, <2>3, <2>8 DEF PublishedOK, final
    <2> QED BY <1>1, <2>5, <2>6, <2>7, <2>8
        DEF Publish, At, Go, CreateTemp, LinkFinal, RemoveTemp, SyncDir, EditorTypeOK, final
  <1>2. CASE PublishFails(s)
    <2>1. epc[s] \in Publishing /\ epc'[s] = "finish" /\ renamed' = renamed /\ rid' = rid
      BY <1>2 DEF PublishFails, At, Go, Conclude, EditorTypeOK, fileVars
    <2> QED BY <1>0, <2>1 DEF PublishedOK
  <1>3. ASSUME UNCHANGED recoveryVars, epc'[s] \notin {"unlink", "syncrecovery"},
               epc[s] \notin {"publish"} \cup Publishing,
               op[s].kind = "remove" /\ (rid'[s] \/ renamed'[s] \/ epc'[s] \in {"open", "lock"} \cup Locked) =>
                  /\ rid[s] \/ renamed[s] \/ epc[s] \in {"open", "lock"} \cup Locked
                  /\ epc'[s] \in {"open"} \cup Opened \cup Ended
        PROVE  PublishedOK(s)'
    <2>1. CASE ~(op[s].kind = "remove" /\ (rid'[s] \/ renamed'[s] \/ epc'[s] \in {"open", "lock"} \cup Locked))
      BY <1>0, <1>3, <2>1 DEF PublishedOK
    <2>2. CASE op[s].kind = "remove" /\ (rid[s] \/ renamed[s] \/ epc[s] \in {"open", "lock"} \cup Locked)
      <3>1. epc[s] \in {"open"} \cup Opened \cup Ended /\ final \in dir \cap dirDisk BY <2>2 DEF PublishedOK
      <3>2. Artifact(s)' = Artifact(s) BY <3>1, ArtifactStable
      <3>3. Final(Artifact(s))' = final BY <3>2 DEF Final
      <3> QED BY <1>0, <1>3, <2>2, <3>1, <3>3 DEF PublishedOK, recoveryVars
    <2> QED BY <1>3, <2>1, <2>2
  <1> USE DEF EditorTypeOK, readVars, resultVars, fileVars, Go, At
  <1>4. ASSUME UNCHANGED recoveryVars, rid' = rid, renamed' = renamed,
               epc[s] \notin {"publish"} \cup Publishing,
               epc'[s] \in {"open", "lock"} \cup Locked => epc[s] \in {"open", "lock"} \cup Locked,
               epc'[s] \notin {"unlink", "syncrecovery"},
               epc[s] \in {"open"} \cup Opened \cup Ended => epc'[s] \in {"open"} \cup Opened \cup Ended
        PROVE  PublishedOK(s)'
    BY <1>3, <1>4 DEF PublishedOK
  <1>5. CASE AuditStart(s) BY <1>4, <1>5 DEF AuditStart
  <1>6. CASE Begin(s) \/ ReadBefore(s) \/ ReadData(s) BY <1>4, <1>6 DEF Begin, ReadBefore, ReadData
  <1>7. CASE LoadArtifact(s)
    <2>1. op[s].kind = "restore" BY <1>7 DEF LoadArtifact, KindOK
    <2> QED BY <1>3, <1>7, <2>1 DEF LoadArtifact, Conclude
  <1>8. CASE ReadAfter(s)
    <2>1. /\ UNCHANGED <<rid, renamed, recoveryVars>> /\ epc[s] = "restat"
          /\ epc'[s] \in {"finish", "publish", "open"}
          /\ epc'[s] = "open" => op[s].kind # "remove"
      BY <1>8 DEF ReadAfter, Conclude
    <2> QED BY <1>3, <2>1 DEF PublishedOK
  <1>9. CASE OpenLock(s) \/ WriteTemp(s) BY <1>4, <1>9 DEF OpenLock, WriteTemp
  <1>10. CASE AcquireLock(s) BY <1>4, <1>10 DEF AcquireLock, Conclude
  <1>11. CASE CheckFile(s) BY <1>4, <1>11 DEF CheckFile, Conclude
  <1>12. CASE SyncDirectory(s) BY <1>4, <1>12 DEF SyncDirectory, Conclude
  <1>13. CASE Rename(s)
    <2>1. UNCHANGED <<rid, recoveryVars>> /\ epc[s] = "rename" /\ epc'[s] = "syncdir" BY <1>13 DEF Rename
    <2> QED BY <1>3, <2>1
  <1>14. CASE HandEdit(s)
    <2>1. UNCHANGED <<rid, recoveryVars>> /\ epc[s] = "begin" /\ epc'[s] = "done" /\ op[s].kind = "hand"
      BY <1>14 DEF HandEdit
    <2> QED BY <1>3, <2>1
  <1>15. CASE AuditFinish(s) \/ ListFails(s) BY <1>4, <1>15 DEF AuditFinish, ListFails
  <1>16. CASE ScanRecoveries(s) BY <1>4, <1>16 DEF ScanRecoveries
  <1>17. CASE ReadListed(s) BY <1>4, <1>17 DEF ReadListed
  <1>18. CASE CallFails(s) \/ Killed(s)
    <2>1. UNCHANGED <<rid, renamed, recoveryVars>> /\ epc'[s] \in {"finish", "dead"}
      BY <1>18 DEF CallFails, Conclude, Killed
    <2>2. CASE epc[s] \in {"publish"} \cup Publishing BY <1>0, <2>1, <2>2 DEF PublishedOK
    <2>3. CASE epc[s] \notin {"publish"} \cup Publishing BY <1>4, <2>1, <2>3
    <2> QED BY <2>2, <2>3
  <1> QED BY <1>1, <1>2, <1>5, <1>6, <1>7, <1>8, <1>9, <1>10, <1>11, <1>12, <1>13, <1>14, <1>15, <1>16, <1>17,
             <1>18 DEF EditorNext

\* What a listing still has to read is there, or its removal took it back.
LEMMA ListStep ==
  ASSUME EditorTypeOK, DirOK, NEW s \in Editors, Begin(s) \/ EditorNext(s) \/ Killed(s),
         KindOK(s), OutcomeOK(s), NEW r \in Editors, ListOK(r)
  PROVE  ListOK(r)'
  <1>0. op' = op BY OwnMoves
  <1>1. ASSUME NEW d \in Editors, ~renamed[d], epc[d] \in Ended
        PROVE  ~renamed'[d] /\ epc'[d] \in Ended
    <2>1. CASE d = s BY <1>1, <2>1, OwnMoves
    <2>2. CASE d # s BY <1>1, <2>2, OthersKept DEF SameEditor
    <2> QED BY <2>1, <2>2
  <1>2. ASSUME NEW a, Final(a) \in dir, Final(a) \notin dir'
        PROVE  a.id \in Editors /\ op[a.id].kind = "remove" /\ ~renamed'[a.id] /\ epc'[a.id] \in Ended
    <2>1. Final(a) \in {Temp(Artifact(s)), Final(Artifact(s))} BY <1>2, DirMoves
    <2>2. a = Artifact(s) BY <2>1, NamesDiffer
    <2>3. PublishFails(s) BY <1>2, <2>2, DirMoves
    <2>4. epc[s] \in Publishing /\ epc'[s] = "finish" /\ renamed' = renamed
      BY <2>3 DEF PublishFails, At, Go, Conclude, Publishing, EditorTypeOK, fileVars
    <2>5. op[s].kind = "remove" /\ ~renamed[s]
      BY <2>4 DEF KindOK, OutcomeOK, Ended, Publishing
    <2>6. a.id = s BY <2>2 DEF Artifact
    <2> QED BY <2>4, <2>5, <2>6 DEF Ended
  <1> SUFFICES ASSUME epc'[r] = "reads", NEW a \in loaded'[r]
               PROVE  \/ Final(a) \in dir'
                      \/ /\ a.id \in Editors /\ op[a.id].kind = "remove"
                         /\ ~renamed'[a.id] /\ epc'[a.id] \in Ended
    BY <1>0 DEF ListOK, Final
  <1>3. CASE epc[r] = "reads" /\ a \in loaded[r]
    BY <1>1, <1>2, <1>3 DEF ListOK
  <1>4. CASE ScanRecoveries(s) /\ r = s
    <2>1. PICK x \in dir : a = x.art /\ x.name # "temp"
      BY <1>4, SMTT(30) DEF ScanRecoveries, Go, At, EditorTypeOK
    <2>2. x \in {Temp(x.art), Final(x.art)} BY DEF DirOK, NameOK
    <2>3. x = Final(a) BY <2>1, <2>2, SMTT(30) DEF Temp
    <2> QED BY <1>4, <2>3 DEF ScanRecoveries, recoveryVars
  <1>5. CASE r = s /\ ~ScanRecoveries(s)
    <2> USE DEF Locked, Publishing, Resting, Go, At, EditorTypeOK, readVars, Conclude
    <2>1. CASE ReadListed(s)
      <3>1. loaded' = loaded \/ \E b : loaded'[s] = loaded[s] \ {b} BY <2>1 DEF ReadListed
      <3> QED BY <1>3, <1>5, <2>1, <3>1 DEF ReadListed
    <2>2. CASE Begin(s) \/ AuditStart(s) \/ LoadArtifact(s) \/ ReadBefore(s) \/ ReadData(s)
      BY <1>5, <2>2 DEF Begin, AuditStart, LoadArtifact, ReadBefore, ReadData
    <2>3. CASE ReadAfter(s) \/ Publish(s) \/ PublishFails(s) BY <1>5, <2>3 DEF ReadAfter, Publish, PublishFails
    <2>4. CASE OpenLock(s) \/ AcquireLock(s) \/ CheckFile(s) \/ WriteTemp(s)
      BY <1>5, <2>4 DEF OpenLock, AcquireLock, CheckFile, WriteTemp
    <2>5. CASE Rename(s) \/ CallFails(s) \/ SyncDirectory(s) \/ AuditFinish(s)
      BY <1>5, <2>5 DEF Rename, CallFails, SyncDirectory, AuditFinish
    <2>6. CASE ListFails(s) \/ HandEdit(s) \/ Killed(s) BY <1>5, <2>6 DEF ListFails, HandEdit, Killed
    <2> QED BY <1>5, <2>1, <2>2, <2>3, <2>4, <2>5, <2>6 DEF EditorNext
  <1>6. CASE r # s BY <1>3, <1>6, OthersKept DEF SameEditor
  <1> QED BY <1>4, <1>5, <1>6

---------------------------------------------------------------------------
(* Power failure.                                                          *)

\* A power failure ends every operation under way and hands out no descriptor.
LEMMA PowerStops ==
  ASSUME EditorTypeOK, PowerLoss, NEW e \in Editors
  PROVE  /\ epc'[e] \in Resting
         /\ epc'[e] \in {epc[e], "dead"}
         /\ epc[e] \in Ended => epc'[e] \in Ended
         /\ epc[e] \notin Unpublished => epc'[e] \notin Unpublished
         /\ epc[e] \in Resting => epc'[e] = epc[e]
         /\ UNCHANGED <<op, seen, before, data, loaded, plan, outcome, rid, told, renamed>>
         /\ Artifact(e)' = Artifact(e)
  BY DEF PowerLoss, EditorTypeOK, Resting, Ended, Unpublished, readVars, resultVars, Artifact

\* It leaves the file whole: the current one or the durable one.
LEMMA PowerFile ==
  ASSUME EditorTypeOK, FileOK, PowerLoss
  PROVE  /\ FileOK' /\ disk' = file'
         /\ disk.applied \subseteq disk'.applied
         /\ file'.gen \in {file.gen, disk.gen}
  <1>1. file' \in {file, disk} /\ disk' = file' BY DEF PowerLoss
  <1>0. file.gen \in Int /\ disk.gen \in Int BY FileFacts
  <1>2. CASE file' = file BY <1>0, <1>1, <1>2, SMTT(30) DEF FileOK
  <1>3. CASE file' = disk BY <1>0, <1>1, <1>3, SMTT(30) DEF FileOK
  <1> QED BY <1>1, <1>2, <1>3

\* It keeps every durable name and makes up none.
LEMMA PowerNames ==
  ASSUME PowerLoss
  PROVE  dir \cap dirDisk \subseteq dir' \cap dirDisk' /\ dir' \cup dirDisk' \subseteq dir \cup dirDisk
  <1>1. PICK kept \in SUBSET ((dir \cup dirDisk) \ (dir \cap dirDisk)) : dir' = (dir \cap dirDisk) \cup kept
    BY DEF PowerLoss, CrashDir
  <1>2. dirDisk' = dir' BY DEF PowerLoss, CrashDir
  <1> QED BY <1>1, <1>2

\* What a power failure leaves in the recovery directory, synced or not, was
\* linked or created by the operation whose id it has (recovery.go, Publish).
LEMMA PowerDir ==
  ASSUME EditorTypeOK, DirOK, PowerLoss
  PROVE  DirOK'
  <1>1. ASSUME NEW x \in dir' \cup dirDisk' PROVE NameOK(x)'
    <2>1. NameOK(x) BY <1>1, PowerNames DEF DirOK
    <2>2. x \in {Temp(x.art), Final(x.art)} /\ (x.art.id \notin Editors => x = Final(x.art))
      BY <2>1 DEF NameOK
    <2>3. CASE x.art.id \in Editors
      <3> DEFINE d == x.art.id
      <3>1. /\ op[d].kind = "remove" /\ epc[d] \notin Unpublished /\ x.art = Artifact(d) /\ IsRemoval(x.art)
            /\ x = Temp(x.art) => ~renamed[d] /\ epc[d] \in Publishing \cup Ended
        BY <2>1, <2>3 DEF NameOK
      <3>2. epc'[d] \notin Unpublished /\ Artifact(d)' = Artifact(d) /\ op' = op /\ renamed' = renamed
        BY <2>3, <3>1, PowerStops
      <3>3. epc[d] \in Publishing \cup Ended => epc'[d] \in Ended
        <4>1. epc[d] \in Publishing => epc'[d] = "dead" BY <2>3, PowerStops DEF Publishing, Resting
        <4> QED BY <2>3, <4>1, PowerStops DEF Ended
      <3> QED BY <2>2, <2>3, <3>1, <3>2, <3>3 DEF NameOK, Temp, Final, IsRemoval, Reproduces
    <2>4. CASE x.art.id \notin Editors BY <2>2, <2>4 DEF NameOK, Temp, Final, IsRemoval, Reproduces
    <2> QED BY <2>3, <2>4
  <1>2. \A e \in Editors : epc'[e] # "syncrecovery" BY PowerStops DEF Resting
  <1> QED BY <1>1, <1>2 DEF DirOK

\* A power failure spares the records an operation has synced, or takes the file
\* (AuditedEditor.mutate).
LEMMA PowerTrail ==
  ASSUME EditorTypeOK, NEW e \in Editors, TrailOK(e), OutcomeOK(e), PowerLoss
  PROVE  TrailOK(e)'
  <1>1. /\ \A event : /\ Entries(e, event)' \subseteq Entries(e, event)
                      /\ \A i \in Entries(e, event)' : log'[i] = log[i]
                      /\ Secured(e, event) => Secured(e, event)'
    BY PowerLossEntries DEF PowerLoss, EditorTypeOK
  <1>2. epc'[e] \notin Audited BY PowerStops DEF Audited, Resting, Publishing, Locked
  <1>3. UNCHANGED <<op, renamed, outcome, told>> BY PowerStops
  <1>4. renamed'[e] /\ op'[e].kind # "hand" => Secured(e, "start")' BY <1>1, <1>3 DEF TrailOK
  <1>5. Entries(e, "finish")' # {} => epc'[e] \in {"done", "dead"}
    <2>1. Entries(e, "finish")' # {} => epc[e] \in {"done", "dead"} BY <1>1 DEF TrailOK
    <2> QED BY <2>1, PowerStops
  <1>6. \A i \in Entries(e, "finish")' : log'[i].outcome = outcome'[e] BY <1>1, <1>3 DEF TrailOK
  <1>7. told'[e] = "ok" /\ op'[e].kind # "list" =>
          outcome'[e] \in {"changed", "no_change"} /\ Secured(e, "start")' /\ Secured(e, "finish")'
    BY <1>1, <1>3 DEF TrailOK
  <1> QED BY <1>2, <1>4, <1>5, <1>6, <1>7 DEF TrailOK

\* Every part of the invariant about one operation survives a power failure.
LEMMA PowerEditor ==
  ASSUME EditorTypeOK, FileOK, NEW e \in Editors, EditorInv(e), PowerLoss
  PROVE  EditorInv(e)'
  <1>1. KindOK(e)'
    BY PowerStops, SMTT(30) DEF EditorInv, KindOK, Audited, Resting, Publishing, Locked
  <1>2. ReadOK(e)'
    <2>1. epc'[e] \notin {"read"} \cup HasData \cup Opened
      BY PowerStops DEF Resting, HasData, Planned, Opened, Publishing, Locked
    <2> QED BY <2>1 DEF ReadOK, HasData, Opened, Locked
  <1>3. OutcomeOK(e)'
    <2>1. OutcomeOK(e) BY SMTT(20) DEF EditorInv
    <2>2. outcome'[e] = "changed" => e \in disk'.applied BY <2>1, PowerFile, PowerStops DEF OutcomeOK
    <2>3. renamed'[e] => epc'[e] \in Ended
      BY <2>1, PowerStops DEF OutcomeOK, Ended, Resting
    <2>4. epc'[e] # "syncdir" /\ epc'[e] # "finish" BY PowerStops DEF Resting
    <2>5. outcome'[e] # "none" => epc'[e] \in Ended BY <2>1, PowerStops DEF OutcomeOK
    <2>6. told'[e] # "none" => epc'[e] = "done" BY <2>1, PowerStops DEF OutcomeOK, Resting
    <2>7. outcome'[e] = "no_change" => ~renamed'[e] BY <2>1, PowerStops DEF OutcomeOK
    <2> QED BY <2>2, <2>3, <2>4, <2>5, <2>6, <2>7 DEF OutcomeOK
  <1>4. TrailOK(e)' BY PowerTrail DEF EditorInv
  <1>5. PublishedOK(e)'
    <2>1. epc'[e] \notin {"unlink", "syncrecovery", "open", "lock"} \cup Locked
      BY PowerStops DEF Resting, Locked
    <2>2. op'[e].kind = "remove" /\ (rid'[e] \/ renamed'[e]) =>
            epc[e] \in {"open"} \cup Opened \cup Ended /\ Final(Artifact(e)) \in dir \cap dirDisk
      BY PowerStops DEF EditorInv, PublishedOK
    <2>3. epc[e] \in {"open"} \cup Opened \cup Ended => epc'[e] \in Ended
      BY PowerStops DEF Resting, Opened, Locked, Ended
    <2>4. Final(Artifact(e))' = Final(Artifact(e)) BY PowerStops DEF Final
    <2> QED BY <2>1, <2>2, <2>3, <2>4, PowerNames DEF PublishedOK
  <1>6. ListOK(e)' BY PowerStops DEF ListOK, Resting
  <1> QED BY <1>1, <1>2, <1>3, <1>4, <1>5, <1>6 DEF EditorInv

---------------------------------------------------------------------------
(* The invariant and what follows from it.                                 *)

\* A step of one operation keeps the whole invariant about each of them.
LEMMA EditorStep ==
  ASSUME PolicyInv, NEW s \in Editors, Begin(s) \/ EditorNext(s) \/ Killed(s), NEW r \in Editors
  PROVE  EditorInv(r)'
  <1>0. /\ TypeOK /\ EditorTypeOK /\ LockOK /\ FileOK /\ DirOK
        /\ KindOK(s) /\ ReadOK(s) /\ OutcomeOK(s) /\ TrailOK(s) /\ PublishedOK(s) /\ ListOK(s)
        /\ KindOK(r) /\ ReadOK(r) /\ OutcomeOK(r) /\ TrailOK(r) /\ PublishedOK(r) /\ ListOK(r)
        /\ \A e \in Editors : ReadOK(e)
    BY DEF PolicyInv, EditorInv, TypeOK
  <1>1. ListOK(r)' BY <1>0, ListStep
  <1>2. CASE r = s
    <2>1. KindOK(s)' BY <1>0, KindStep
    <2>2. ReadOK(s)' BY <1>0, OwnRead
    <2>3. OutcomeOK(s)' BY <1>0, OutcomeStep
    <2>4. TrailOK(s)' BY <1>0, OwnTrail
    <2>5. PublishedOK(s)' BY <1>0, OwnPublished
    <2> QED BY <1>1, <1>2, <2>1, <2>2, <2>3, <2>4, <2>5 DEF EditorInv
  <1>3. CASE r # s
    <2>1. SameEditor(r) BY <1>0, <1>3, OthersKept
    <2>2. KindOK(r)' BY <1>0, <2>1 DEF SameEditor, KindOK
    <2>3. ReadOK(r)' BY <1>0, <1>3, OthersRead
    <2>4. OutcomeOK(r)'
      <3>1. file.applied \subseteq file'.applied /\ disk.applied \subseteq disk'.applied BY <1>0, FileStep
      <3> QED BY <1>0, <2>1, <3>1 DEF SameEditor, OutcomeOK
    <2>5. TrailOK(r)' BY <1>0, <1>3, OthersTrail
    <2>6. PublishedOK(r)' BY <1>0, <1>3, OthersPublished
    <2> QED BY <1>1, <2>2, <2>3, <2>4, <2>5, <2>6 DEF EditorInv
  <1> QED BY <1>2, <1>3

\* The names of DirOK are those of the type invariant.
LEMMA NamesTyped == DirOK => RecoveryTypeOK
  <1> SUFFICES ASSUME DirOK, NEW x \in dir \cup dirDisk
               PROVE  x.name \in {"temp", "final"} /\ (x.art.id \in Editors => IsRemoval(x.art))
    BY DEF RecoveryTypeOK
  <1>1. x \in {Temp(x.art), Final(x.art)} /\ (x.art.id \in Editors => IsRemoval(x.art)) BY DEF DirOK, NameOK
  <1> QED BY <1>1, SMTT(30) DEF Temp, Final

\* It holds of the installed policy, before any operation has begun.
LEMMA PolicyInit == Init => PolicyInv
  <1> SUFFICES ASSUME Init PROVE PolicyInv OBVIOUS
  <1>1. EditorTypeOK
    <2>1. LogTypeOK(Editors, Outcomes)
      <3>1. log = <<>> /\ synced = 0 /\ named = FALSE /\ lost = {} BY DEF Init, LogInit
      <3>2. log \in Seq(Records(Editors, Outcomes)) /\ synced \in 0 .. Len(log) BY <3>1, SMTT(30)
      <3> QED BY <3>1, <3>2 DEF LogTypeOK
    <2> QED BY <2>1, SMTT(30) DEF Init, EditorTypeOK, Resting, Outcomes
  <1>2. DirOK
    <2>1. ASSUME NEW x \in dir \cup dirDisk PROVE NameOK(x)
      <3>1. PICK a \in FirstArtifacts : x = Final(a) BY DEF Init
      <3>2. x.art = a BY <3>1 DEF Final
      <3>3. a.id \notin Editors BY PolicyAssumption
      <3> QED BY <3>1, <3>2, <3>3 DEF NameOK
    <2> QED BY <2>1 DEF Init, DirOK
  <1>3. LockOK BY DEF Init, LockOK, Locked
  <1>4. FileOK BY PolicyAssumption, SMTT(30) DEF Init, FileOK
  <1>5. ASSUME NEW e \in Editors PROVE EditorInv(e)
    <2>1. /\ epc[e] = "idle" /\ seen[e] = {} /\ loaded[e] = {} /\ outcome[e] = "none" /\ told[e] = "none"
          /\ ~rid[e] /\ ~renamed[e]
      BY DEF Init
    <2>2. KindOK(e) BY <2>1 DEF KindOK, Audited, Publishing, Locked
    <2>3. ReadOK(e) BY <2>1 DEF ReadOK, HasData, Planned, Opened, Publishing, Locked
    <2>4. OutcomeOK(e) BY <2>1 DEF OutcomeOK
    <2>5. TrailOK(e)
      <3>1. Entries(e, "finish") = {}
        <4>1. log = <<>> BY DEF Init, LogInit
        <4> QED BY <4>1, SMTT(30) DEF Entries
      <3> QED BY <2>1, <3>1 DEF TrailOK, Audited, Publishing, Locked
    <2>6. PublishedOK(e) BY <2>1 DEF PublishedOK, Locked
    <2>7. ListOK(e) BY <2>1 DEF ListOK
    <2> QED BY <2>2, <2>3, <2>4, <2>5, <2>6, <2>7 DEF EditorInv
  <1> QED BY <1>1, <1>2, <1>3, <1>4, <1>5, NamesTyped DEF PolicyInv, TypeOK

\* No step of an operation, a kill or a power failure breaks it.
LEMMA PolicyStep == PolicyInv /\ [Next]_vars => PolicyInv'
  <1> SUFFICES ASSUME PolicyInv, [Next]_vars PROVE PolicyInv' OBVIOUS
  <1>0. TypeOK /\ EditorTypeOK /\ RecoveryTypeOK /\ LockOK /\ FileOK /\ DirOK
    BY DEF PolicyInv, TypeOK
  <1>1. EditorTypeOK' BY <1>0, EditorTypeStep
  <1>2. CASE PowerLoss
    <2>1. LockOK' BY <1>0, <1>2, PowerStops DEF LockOK, Resting, Locked
    <2>2. FileOK' BY <1>0, <1>2, PowerFile
    <2>3. DirOK' BY <1>0, <1>2, PowerDir
    <2>4. \A e \in Editors : EditorInv(e)' BY <1>0, <1>2, PowerEditor DEF PolicyInv
    <2>5. RecoveryTypeOK' BY <2>3, NamesTyped, PTL
    <2> QED BY <1>1, <2>1, <2>2, <2>3, <2>4, <2>5 DEF PolicyInv, TypeOK
  <1>3. ASSUME NEW s \in Editors, Begin(s) \/ EditorNext(s) \/ Killed(s)
        PROVE  PolicyInv'
    <2>0. KindOK(s) /\ ReadOK(s) /\ OutcomeOK(s) BY DEF PolicyInv, EditorInv
    <2>1. LockOK' BY <1>0, <1>3, LockStep
    <2>2. FileOK' BY <1>0, <1>3, <2>0, FileStep
    <2>3. DirOK' BY <1>0, <1>3, <2>0, DirStep
    <2>4. \A e \in Editors : EditorInv(e)' BY <1>3, EditorStep
    <2>5. RecoveryTypeOK' BY <2>3, NamesTyped, PTL
    <2> QED BY <1>1, <2>1, <2>2, <2>3, <2>4, <2>5 DEF PolicyInv, TypeOK
  <1>4. CASE UNCHANGED vars
    <2> USE <1>4 DEF vars, logVars, fileVars, recoveryVars, readVars, resultVars
    <2>1. RecoveryTypeOK' /\ LockOK' /\ FileOK'
      BY <1>0 DEF RecoveryTypeOK, IsRemoval, Reproduces, LockOK, FileOK
    <2>2. DirOK' BY <1>0 DEF DirOK, NameOK, IsRemoval, Reproduces, Temp, Final, Artifact
    <2>3. ASSUME NEW e \in Editors PROVE EditorInv(e)'
      <3>1. KindOK(e)' /\ OutcomeOK(e)' BY DEF PolicyInv, EditorInv, KindOK, OutcomeOK
      <3>2. ReadOK(e)' BY PlanStable DEF PolicyInv, EditorInv, ReadOK
      <3>3. TrailOK(e)'
        <4>1. SameRecords(e) BY SameLog
        <4>2. TrailOK(e) BY DEF PolicyInv, EditorInv
        <4> QED BY <4>1, <4>2, TrailKept
      <3>4. PublishedOK(e)' /\ ListOK(e)'
        BY DEF PolicyInv, EditorInv, PublishedOK, ListOK, Final, Artifact
      <3> QED BY <3>1, <3>2, <3>3, <3>4 DEF EditorInv
    <2> QED BY <1>1, <2>1, <2>2, <2>3, SMTT(20) DEF PolicyInv, TypeOK
  <1> QED BY <1>2, <1>3, <1>4 DEF Next

\* The invariant of policy administration, however many administrators there
\* are and whatever they are asked to do (Editor, AuditedEditor, RecoveryStore).
THEOREM PolicyInvariant == Spec => []PolicyInv
  BY PolicyInit, PolicyStep, PTL DEF Spec


\* The policy keeps a project and every part its type, whatever administrators
\* remove and restore at the same time (RemoveProject, RestoreProject).
THEOREM PolicyNeverEmpty == Spec => []NeverEmpty
  <1>1. PolicyInv => NeverEmpty BY DEF PolicyInv, FileOK, NeverEmpty
  <1> QED BY <1>1, PolicyInvariant, PTL

\* The audit file never contradicts the policy file, and success is reported
\* only with both records and the change on disk (AuditedEditor).
THEOREM AdministrationIsAudited == Spec => []AuditTellsTruth
  <1>1. PolicyInv => AuditTellsTruth
    <2> SUFFICES ASSUME PolicyInv, NEW e \in Editors
                 PROVE  /\ renamed[e] /\ op[e].kind # "hand" => Secured(e, "start")
                        /\ \A i \in Entries(e, "finish") :
                              /\ log[i].outcome = "changed" => e \in file.applied /\ e \in disk.applied
                              /\ log[i].outcome = "no_change" => ~renamed[e]
                        /\ told[e] = "ok" /\ op[e].kind # "list" =>
                              /\ Secured(e, "start") /\ Secured(e, "finish")
                              /\ renamed[e] => e \in disk.applied
      BY DEF AuditTellsTruth
    <2>1. TrailOK(e) /\ OutcomeOK(e) /\ disk.applied \subseteq file.applied BY DEF PolicyInv, EditorInv, FileOK
    <2> QED BY <2>1 DEF TrailOK, OutcomeOK
  <1> QED BY <1>1, PolicyInvariant, PTL

\* A removed project's artifact is in the recovery directory for good and undoes
\* exactly that removal (RecoveryStore.Publish before writeAtomic).
THEOREM RemovalsAreRecoverable == Spec => []RemovalRecoverable
  <1>1. PolicyInv => RemovalRecoverable
    <2> SUFFICES ASSUME PolicyInv, NEW e \in Editors, op[e].kind = "remove", renamed[e] \/ rid[e]
                 PROVE  \E x \in dir \cap dirDisk :
                           /\ x.name = "final" /\ x.art.id = e
                           /\ x.art.project = op[e].alias /\ IsRemoval(x.art)
      BY SMTT(20) DEF RemovalRecoverable
    <2>1. Final(Artifact(e)) \in dir \cap dirDisk BY SMTT(20) DEF PolicyInv, EditorInv, PublishedOK
    <2>3. /\ Final(Artifact(e)).name = "final" /\ Final(Artifact(e)).art = Artifact(e)
          /\ Artifact(e).id = e /\ Artifact(e).project = op[e].alias
      BY DEF Final, Artifact
    <2>2. IsRemoval(Final(Artifact(e)).art) BY <2>1, <2>3 DEF PolicyInv, DirOK, NameOK
    <2> QED BY <2>1, <2>2, <2>3
  <1> QED BY <1>1, PolicyInvariant, PTL

\* What an operation writes it made of the content in force, unless the file was
\* replaced behind its lock; a hand edit reads and replaces the file at once.
LEMMA ReplacesCurrent ==
  ASSUME PolicyInv, [Next]_vars, file'.gen > file.gen \/ \E d \in Editors : ~renamed[d] /\ renamed'[d]
  PROVE  \E e \in Editors :
            /\ file'.applied = file.applied \cup {e}
            /\ \A d \in Editors : ~renamed[d] /\ renamed'[d] => d = e
            /\ \/ HandEdit(e) /\ file'.content \in Plan(e, file.content)
               \/ Rename(e) /\ e \in raced
               \/ /\ Rename(e) /\ file'.content \in Plan(e, file.content)
                  /\ seen[e] \in {{}, {file.content}}
  <1>0. /\ EditorTypeOK /\ LockOK /\ FileOK /\ file.gen \in Int /\ disk.gen \in Int
        /\ \A e \in Editors : ReadOK(e) /\ KindOK(e)
    <2>1. EditorTypeOK /\ LockOK /\ FileOK /\ \A e \in Editors : ReadOK(e) /\ KindOK(e)
      BY DEF PolicyInv, TypeOK, EditorInv
    <2>2. file.gen \in Int /\ disk.gen \in Int BY <2>1, FileFacts
    <2> QED BY <2>1, <2>2
  <1>1. ~PowerLoss
    <2> SUFFICES ASSUME PowerLoss PROVE FALSE BY SMTT(20)
    <2>1. file'.gen \in {file.gen, disk.gen} BY <1>0, PowerFile
    <2>2. disk.gen <= file.gen BY <1>0 DEF FileOK
    <2>3. renamed' = renamed BY DEF PowerLoss
    <2> QED BY <1>0, <2>1, <2>2, <2>3, SMTT(30)
  <1>2. ~UNCHANGED vars BY <1>0, SMTT(30) DEF vars, fileVars
  <1>3. PICK s \in Editors : Begin(s) \/ EditorNext(s) \/ Killed(s) BY <1>1, <1>2 DEF Next
  <1>4. \A d \in Editors \ {s} : renamed'[d] = renamed[d] BY <1>0, <1>3, OthersKept DEF SameEditor
  <1>5. ~(file' = file /\ renamed' = renamed) BY <1>0, SMTT(30)
  <1>6. file'.applied = file.applied \cup {s} /\ (Rename(s) \/ HandEdit(s)) BY <1>0, <1>3, <1>5, FileMoves
  <1>7. CASE HandEdit(s)
    <2>1. PICK c \in Plan(s, file.content) :
             file' = [gen |-> gens + 1, content |-> c, applied |-> file.applied \cup {s}]
      BY <1>7 DEF HandEdit
    <2> QED BY <1>4, <1>6, <1>7, <2>1
  <1>8. CASE Rename(s) /\ s \notin raced
    <2>1. epc[s] = "rename" /\ file'.content = plan[s] BY <1>8 DEF Rename, At
    <2>2. /\ file.gen = before[s] /\ data[s] = file.content
          /\ plan[s] \in Plan(s, data[s]) /\ seen[s] \in {{}, {data[s]}}
      BY <1>0, <1>8, <2>1 DEF ReadOK, HasData, Planned
    <2> QED BY <1>4, <1>6, <1>8, <2>1, <2>2
  <1>9. CASE Rename(s) /\ s \in raced BY <1>4, <1>6, <1>9
  <1> QED BY <1>6, <1>7, <1>8, <1>9

\* No update is lost between any number of administrators (writeAtomic's two
\* checks under the lock of the inode that was read).
THEOREM UpdatesAreNotLost == Spec => NoLostUpdate
  <1> DEFINE Step == file'.gen > file.gen =>
                        \E e \in Editors : /\ file'.applied = file.applied \cup {e}
                                           /\ file'.content \in Plan(e, file.content) \/ e \in raced
  <1>1. PolicyInv /\ [Next]_vars => [Step]_vars
    <2> SUFFICES ASSUME PolicyInv, [Next]_vars, file'.gen > file.gen
                 PROVE  \E e \in Editors : /\ file'.applied = file.applied \cup {e}
                                           /\ file'.content \in Plan(e, file.content) \/ e \in raced
      OBVIOUS
    <2> QED BY ReplacesCurrent
  <1> QED BY <1>1, PolicyInvariant, PTL DEF Spec, NoLostUpdate

\* A browser edit is applied to the very policy the browser showed (WithRevision).
THEOREM RevisionsAreHonoured == Spec => RevisionHonoured
  <1> DEFINE Step == \A e \in Editors : ~renamed[e] /\ renamed'[e] =>
                        seen[e] \in {{}, {file.content}} \/ e \in raced
  <1>1. PolicyInv /\ [Next]_vars => [Step]_vars
    <2> SUFFICES ASSUME PolicyInv, [Next]_vars, NEW e \in Editors, ~renamed[e], renamed'[e]
                 PROVE  seen[e] \in {{}, {file.content}} \/ e \in raced
      BY SMTT(20)
    <2>1. \/ HandEdit(e) \/ e \in raced \/ seen[e] \in {{}, {file.content}} BY ReplacesCurrent
    <2>2. HandEdit(e) => seen[e] = {} BY DEF PolicyInv, EditorInv, KindOK, HandEdit
    <2> QED BY <2>1, <2>2
  <1> QED BY <1>1, PolicyInvariant, PTL DEF Spec, RevisionHonoured

\* A restore puts back the removed project and touches no other (RestoreProject).
THEOREM RestoresAreExact == Spec => RestoreIsExact
  <1> DEFINE Exact(e) == /\ DOMAIN file'.content = DOMAIN file.content \cup {op[e].alias}
                         /\ op[e].alias \notin DOMAIN file.content
                         /\ \A a \in DOMAIN file.content : file'.content[a] = file.content[a]
             Step == \A e \in Editors :
                        (~renamed[e] /\ renamed'[e] /\ op[e].kind = "restore" /\ e \notin raced) => Exact(e)
  <1>1. PolicyInv /\ [Next]_vars => [Step]_vars
    <2> SUFFICES ASSUME PolicyInv, [Next]_vars, NEW e \in Editors,
                        ~renamed[e], renamed'[e], op[e].kind = "restore", e \notin raced
                 PROVE  Exact(e)
      OBVIOUS
    <2>1. HandEdit(e) \/ file'.content \in Plan(e, file.content) BY ReplacesCurrent
    <2>2. ~HandEdit(e) BY DEF HandEdit
    <2>3. PICK a \in loaded[e] :
             a.project = op[e].alias /\ Reproduces(a, file.content) /\ file'.content = a.before
      BY <2>1, <2>2, PlanOfRestore, SMTT(30)
    <2>4. op[e].alias \in DOMAIN file'.content BY <2>3 DEF Reproduces
    <2>5. file.content = [b \in DOMAIN file'.content \ {op[e].alias} |-> file'.content[b]]
      BY <2>3 DEF Reproduces, Restrict
    <2> QED BY <2>4, <2>5
  <1> QED BY <1>1, PolicyInvariant, PTL DEF Spec, RestoreIsExact

\* A listing is refused only on account of a removal that is publishing its
\* artifact or stopped short (RecoveryStore.List).
THEOREM ListingsAreExplained == Spec => ListingExplained
  <1> DEFINE Blocks(d) == /\ op[d].kind = "remove" /\ ~renamed[d]
                          /\ epc[d] \in Publishing \cup {"finish", "done", "dead"}
             Step == \A e \in Editors : told[e] # "unsafe" /\ told'[e] = "unsafe" =>
                        \E d \in Editors : Blocks(d)
  <1>1. PolicyInv /\ [Next]_vars => [Step]_vars
    <2> SUFFICES ASSUME PolicyInv, [Next]_vars, NEW e \in Editors, told[e] # "unsafe", told'[e] = "unsafe"
                 PROVE  \E d \in Editors : Blocks(d)
      OBVIOUS
    <2>0. EditorTypeOK BY DEF PolicyInv, TypeOK
    <2>1. ~PowerLoss BY DEF PowerLoss, resultVars
    <2>2. ~UNCHANGED vars BY DEF vars, resultVars
    <2>3. PICK s \in Editors : Begin(s) \/ EditorNext(s) \/ Killed(s) BY <2>1, <2>2 DEF Next
    <2>4. e = s BY <2>0, <2>3, OthersKept DEF SameEditor
    <2>5. \/ \E x \in dir : x.name = "temp"
          \/ epc[e] = "reads" /\ \E a \in loaded[e] : Final(a) \notin dir
      <3> USE <2>0, <2>3, <2>4 DEF Go, At, Tell, EditorTypeOK, readVars, resultVars
      <3>1. CASE ScanRecoveries(s)
        <4>1. told' # told BY <2>4
        <4>2. {x \in dir : x.name = "temp"} # {} BY <3>1, <4>1 DEF ScanRecoveries
        <4> QED BY <4>2
      <3>2. CASE ReadListed(s) BY <3>2 DEF ReadListed
      <3>3. CASE AuditFinish(s)
        BY <3>3 DEF AuditFinish, Reported, ReportedChange, ReportedEdit
      <3>4. CASE AuditStart(s) \/ ListFails(s) BY <3>4 DEF AuditStart, ListFails
      <3>5. CASE told' = told BY <3>5
      <3>6. CASE Begin(s) \/ LoadArtifact(s) \/ ReadBefore(s) \/ ReadData(s) \/ ReadAfter(s) \/ Killed(s)
        BY <3>5, <3>6 DEF Begin, LoadArtifact, ReadBefore, ReadData, ReadAfter, Killed
      <3>7. CASE Publish(s) \/ PublishFails(s) \/ OpenLock(s) \/ AcquireLock(s) \/ CheckFile(s)
        BY <3>5, <3>7 DEF Publish, PublishFails, OpenLock, AcquireLock, CheckFile
      <3>8. CASE WriteTemp(s) \/ Rename(s) \/ CallFails(s) \/ SyncDirectory(s) \/ HandEdit(s)
        BY <3>5, <3>8 DEF WriteTemp, Rename, CallFails, SyncDirectory, HandEdit
      <3> QED BY <3>1, <3>2, <3>3, <3>4, <3>6, <3>7, <3>8 DEF EditorNext
    <2>6. CASE \E x \in dir : x.name = "temp"
      <3>1. PICK x \in dir : x.name = "temp" BY <2>6
      <3>2. NameOK(x) BY DEF PolicyInv, DirOK
      <3>3. x = Temp(x.art) /\ x # Final(x.art) BY <3>1, <3>2, NamesDiffer DEF NameOK
      <3> QED BY <3>2, <3>3 DEF NameOK, Ended
    <2>7. CASE epc[e] = "reads" /\ \E a \in loaded[e] : Final(a) \notin dir
      <3>1. ListOK(e) BY DEF PolicyInv, EditorInv
      <3> QED BY <2>7, <3>1 DEF ListOK, Ended
    <2> QED BY <2>5, <2>6, <2>7
  <1> QED BY <1>1, PolicyInvariant, PTL DEF Spec, ListingExplained
===========================================================================
