---------------------------- MODULE PolicyFile ----------------------------
(***************************************************************************)
(* Policy administration: the operations of Editor                         *)
(* (internal/admin/policy.go) on policy.toml, as AuditedEditor             *)
(* (internal/admin/audit.go) wraps them in audit records and the command   *)
(* line (internal/admincli/root.go) reports them, on top of the recovery   *)
(* artifacts of removed projects (RecoveryStore).                          *)
(*                                                                         *)
(* Several administrators work at once, from the command line or from the  *)
(* browser, and one may edit the file by hand, without the lock.  An       *)
(* operation reads the file, plans the new content without a lock, locks   *)
(* the inode it finds under the path, checks that the file is still the    *)
(* one it read, writes a temporary file, checks again, renames and syncs   *)
(* the directory.  Any step can fail, the process can be killed between    *)
(* any two, and the host can lose power.                                   *)
(*                                                                         *)
(* A content is the parsed policy; two contents are equal when their bytes *)
(* are.  The identity of a file (inode, owner, mode, size, time) is a      *)
(* generation number, fresh for every replacement.                         *)
(***************************************************************************)
EXTENDS AuditLog, RecoveryStore, Functions

CONSTANTS Editors,      \* administrator operations; also names recovery ids
          Asked,        \* what they may be asked for, each a function from Editors
          FirstPolicy,  \* content of the policy file at the start
          FirstArtifacts \* artifacts found in the recovery directory, of whatever origin

Kinds == {"create", "approval", "metadata", "allow", "disallow", "remove", "restore", "list", "hand"}

\* Removing the artifact's project from the policy it stores leaves content c.
Reproduces(a, c) ==
    /\ a.project \in DOMAIN a.before
    /\ c = Restrict(a.before, DOMAIN a.before \ {a.project})

\* An artifact as a removal writes it.
IsRemoval(a) == Reproduces(a, a.after)

ASSUME PolicyAssumption ==
    /\ DOMAIN FirstPolicy # {}
    /\ \A f \in Asked : DOMAIN f = Editors /\ \A e \in Editors : f[e].kind \in Kinds
    /\ \A a \in FirstArtifacts : a.id \notin Editors

VARIABLES
    file,       \* [gen, content, applied]: what the path names now
    disk,       \* the same, as a power failure would leave it
    gens,       \* generations handed out
    epc,        \* where each operation is
    op,         \* what it was asked to do
    seen,       \* content the browser showed, {} for the command line
    before,     \* generation found when reading began
    data,       \* content read
    loaded,     \* artifact a restore read, or artifacts a listing has yet to read
    plan,       \* content to write
    fd,         \* generation locked or waited for, 0 if none
    outcome,    \* outcome of its finish record
    rid,        \* RecoveryResult.RecoveryID is set, so the report will carry it
    told,       \* what the administrator was told
    renamed,    \* history: its rename was done
    raced       \* history: operations past their last check when the file was
                \* replaced behind the lock's back

fileVars == <<file, disk, gens, renamed, raced>>
readVars == <<op, seen, before, data, loaded, plan>>
resultVars == <<outcome, rid, told>>
vars == <<logVars, fileVars, recoveryVars, epc, fd, readVars, resultVars>>

Outcomes == {"none", "changed", "no_change", "failed"}
Resting == {"idle", "done", "dead"}
Locked == {"check", "temp", "recheck", "rename", "syncdir"}
Publishing == {"link", "unlink", "syncrecovery"}

RecoveryTypeOK ==
    \A x \in dir \cup dirDisk : x.name \in {"temp", "final"} /\ (x.art.id \in Editors => IsRemoval(x.art))

EditorTypeOK ==
    /\ LogTypeOK(Editors, Outcomes)
    /\ gens \in Nat
    /\ \A f \in {file, disk} : f.gen \in 1 .. gens /\ f.applied \subseteq Editors
    /\ epc \in [Editors -> Resting \cup Locked \cup Publishing
                             \cup {"begin", "load", "stat", "read", "restat", "publish", "open",
                                   "lock", "finish", "reads"}]
    /\ op \in Asked
    /\ DOMAIN seen = Editors /\ DOMAIN data = Editors
    /\ DOMAIN loaded = Editors /\ DOMAIN plan = Editors
    /\ before \in [Editors -> 0 .. gens]
    /\ fd \in [Editors -> 0 .. gens]
    /\ outcome \in [Editors -> Outcomes]
    /\ told \in [Editors -> {"none", "ok", "error", "unsafe"}]
    /\ rid \in [Editors -> BOOLEAN]
    /\ renamed \in [Editors -> BOOLEAN]
    /\ raced \subseteq Editors

\* Type invariant: the policy file, its artifacts and the operations on it (Editor).
TypeOK == EditorTypeOK /\ RecoveryTypeOK

Init ==
    /\ LogInit
    /\ file = [gen |-> 1, content |-> FirstPolicy, applied |-> {}]
    /\ disk = file
    /\ gens = 1
    /\ dir = {Final(a) : a \in FirstArtifacts}
    /\ dirDisk = dir
    /\ epc = [e \in Editors |-> "idle"]
    /\ op \in Asked
    /\ seen = [e \in Editors |-> {}]
    /\ before = [e \in Editors |-> 0]
    /\ data = [e \in Editors |-> FirstPolicy]
    /\ loaded = [e \in Editors |-> {}]
    /\ plan = [e \in Editors |-> FirstPolicy]
    /\ fd = [e \in Editors |-> 0]
    /\ outcome = [e \in Editors |-> "none"]
    /\ rid = [e \in Editors |-> FALSE]
    /\ told = [e \in Editors |-> "none"]
    /\ renamed = [e \in Editors |-> FALSE]
    /\ raced = {}

---------------------------------------------------------------------------
(* What each operation makes of the content it read: no element is an      *)
(* error, the content itself is "no change".  Each operation edits one     *)
(* project and compares the reparsed text with exactly that edit.          *)

Edit(c, alias, project) ==
    IF alias \in DOMAIN c THEN {[c EXCEPT ![alias] = project]} ELSE {}

CreateProject(c, o) ==
    IF o.alias \in DOMAIN c THEN {}
    ELSE {[a \in DOMAIN c \cup {o.alias} |->
             IF a = o.alias THEN [approval |-> "allowlisted-prompt", allow |-> {}, meta |-> o.arg]
             ELSE c[a]]}

UpdateProjectMetadata(c, o) ==
    Edit(c, o.alias, [c[o.alias] EXCEPT !.meta = o.arg])

\* Administrators choose between two of the four approval modes, by other names.
storedApproval == [automatic |-> "never", confirm |-> "allowlisted-prompt"]

SetApproval(c, o) ==
    IF o.arg \notin DOMAIN storedApproval THEN {}
    ELSE Edit(c, o.alias, [c[o.alias] EXCEPT !.approval = storedApproval[o.arg]])

AddAllowlist(c, o) == Edit(c, o.alias, [c[o.alias] EXCEPT !.allow = @ \cup {o.arg}])

RemoveAllowlist(c, o) == Edit(c, o.alias, [c[o.alias] EXCEPT !.allow = @ \ {o.arg}])

\* Mutant of RemoveProject: the last project can be removed.
RemoveProjectLast(c, o) ==
    IF o.alias \notin DOMAIN c THEN {}
    ELSE {Restrict(c, DOMAIN c \ {o.alias})}

RemoveProject(c, o) ==
    IF o.alias \notin DOMAIN c \/ DOMAIN c = {o.alias} THEN {}
    ELSE {Restrict(c, DOMAIN c \ {o.alias})}

\* Mutant of RestoreProject: an artifact whose digest fits is believed.
RestoreProjectTrusting(c, o, read) ==
    {a.before : a \in {b \in read : b.project = o.alias /\ b.after = c}}

\* The artifact read must name the confirmed project, the current policy must
\* have the digest of the one the removal produced, and removing the project
\* from the stored policy must reproduce it, parsed and byte for byte.
RestoreProject(c, o, read) ==
    {a.before : a \in {b \in read : b.project = o.alias /\ b.after = c /\ Reproduces(b, c)}}

\* What operation e makes of content c.
Plan(e, c) ==
    LET o == op[e] IN
    CASE o.kind = "create" -> CreateProject(c, o)
      [] o.kind = "metadata" -> UpdateProjectMetadata(c, o)
      [] o.kind \in {"approval", "hand"} -> SetApproval(c, o)
      [] o.kind = "allow" -> AddAllowlist(c, o)
      [] o.kind = "disallow" -> RemoveAllowlist(c, o)
      [] o.kind = "remove" -> RemoveProject(c, o)
      [] o.kind = "restore" -> RestoreProject(c, o, loaded[e])
      [] OTHER -> {}

---------------------------------------------------------------------------
(* The steps of one audited operation.                                     *)

At(e, here) == epc[e] = here
Go(e, there) == epc' = [epc EXCEPT ![e] = there]

\* The operation is over; the lock is released with its descriptor.
Conclude(e, result) ==
    /\ Go(e, "finish")
    /\ outcome' = [outcome EXCEPT ![e] = result]
    /\ fd' = [fd EXCEPT ![e] = 0]

Tell(e, what) == told' = [told EXCEPT ![e] = what]

\* Creating, removing and restoring are reported as done only if something
\* changed; the other edits may also turn out not to be needed.
ReportedChange(result) == IF result = "changed" THEN "ok" ELSE "error"
ReportedEdit(result) == IF result = "failed" THEN "error" ELSE "ok"
Reported(e) ==
    IF op[e].kind \in {"create", "remove", "restore"} THEN ReportedChange(outcome[e])
    ELSE ReportedEdit(outcome[e])

\* The browser shows the policy whose revision the form will carry, and offers
\* the five edits only; the command line has no revision.
Begin(e) ==
    /\ At(e, "idle")
    /\ \/ UNCHANGED seen
       \/ /\ op[e].kind \notin {"remove", "restore", "list", "hand"}
          /\ seen' = [seen EXCEPT ![e] = {file.content}]
    /\ Go(e, "begin")
    /\ UNCHANGED <<logVars, fileVars, recoveryVars, fd, op, before, data, loaded, plan, resultVars>>

\* mutate and mutateRecovery: a failed start record ends the operation.
AuditStart(e) ==
    /\ At(e, "begin") /\ op[e].kind \notin {"list", "hand"}
    /\ \/ /\ AppendOK(Record(e, "start", "none"))
          /\ Go(e, IF op[e].kind = "restore" THEN "load" ELSE "stat")
          /\ UNCHANGED told
       \/ AppendError(Record(e, "start", "none")) /\ Go(e, "done") /\ Tell(e, "error")
    /\ UNCHANGED <<fileVars, recoveryVars, fd, readVars, outcome, rid>>

\* RestoreProject reads the artifact before the policy.
LoadArtifact(e) ==
    /\ At(e, "load")
    /\ LET found == Artifacts(op[e].arg) IN
       \/ /\ found # {}
          /\ loaded' = [loaded EXCEPT ![e] = found]
          /\ rid' = [rid EXCEPT ![e] = TRUE]
          /\ Go(e, "stat")
          /\ UNCHANGED <<fd, outcome>>
       \/ found = {} /\ Conclude(e, "failed") /\ UNCHANGED <<loaded, rid>>
    /\ UNCHANGED <<logVars, fileVars, recoveryVars, op, seen, before, data, plan, told>>

\* readPolicy: the file's identity, its data, its identity again.
ReadBefore(e) ==
    /\ At(e, "stat")
    /\ before' = [before EXCEPT ![e] = file.gen]
    /\ Go(e, "read")
    /\ UNCHANGED <<logVars, fileVars, recoveryVars, fd, op, seen, data, loaded, plan, resultVars>>

ReadData(e) ==
    /\ At(e, "read")
    /\ data' = [data EXCEPT ![e] = file.content]
    /\ Go(e, "restat")
    /\ UNCHANGED <<logVars, fileVars, recoveryVars, fd, op, seen, before, loaded, plan, resultVars>>

\* Mutant of CanPlan: the revision the browser showed is not compared.
CanPlanAnyRevision(e) == file.gen = before[e]

\* The file did not change under the reader and has the revision shown.
CanPlan(e) ==
    /\ file.gen = before[e]
    /\ seen[e] \in {{}, {data[e]}}

\* The second look at the file, the revision check, and the edit itself.
ReadAfter(e) ==
    /\ At(e, "restat")
    /\ LET new == Plan(e, data[e]) IN
       \/ /\ ~CanPlan(e) \/ new = {}
          /\ Conclude(e, "failed")
          /\ UNCHANGED plan
       \/ /\ CanPlan(e) /\ new = {data[e]}
          /\ Conclude(e, "no_change")
          /\ UNCHANGED plan
       \/ /\ CanPlan(e) /\ new # {} /\ new # {data[e]}
          /\ plan' \in {[plan EXCEPT ![e] = c] : c \in new}
          /\ Go(e, IF op[e].kind = "remove" THEN "publish" ELSE "open")
          /\ UNCHANGED <<fd, outcome>>
    /\ UNCHANGED <<logVars, fileVars, recoveryVars, op, seen, before, data, loaded, rid, told>>

\* Mutant of Artifact: the policies are stored the wrong way round.
ArtifactSwapped(e) ==
    [id |-> e, project |-> op[e].alias, before |-> plan[e], after |-> data[e]]

Artifact(e) ==
    [id |-> e, project |-> op[e].alias, before |-> data[e], after |-> plan[e]]

\* Mutant of Publish: the temporary name stays in the directory.
PublishLeavesTemp(e) ==
    /\ \/ At(e, "publish") /\ CreateTemp(Artifact(e)) /\ Go(e, "link") /\ UNCHANGED rid
       \/ At(e, "link") /\ LinkFinal(Artifact(e)) /\ Go(e, "unlink") /\ UNCHANGED rid
       \/ At(e, "unlink") /\ UNCHANGED recoveryVars /\ Go(e, "syncrecovery") /\ UNCHANGED rid
       \/ At(e, "syncrecovery") /\ SyncDir /\ Go(e, "open") /\ rid' = [rid EXCEPT ![e] = TRUE]
    /\ UNCHANGED <<logVars, fileVars, fd, readVars, outcome, told>>

\* Mutant of Publish: the recovery directory is not synced.
PublishUnsynced(e) ==
    /\ \/ At(e, "publish") /\ CreateTemp(Artifact(e)) /\ Go(e, "link") /\ UNCHANGED rid
       \/ At(e, "link") /\ LinkFinal(Artifact(e)) /\ Go(e, "unlink") /\ UNCHANGED rid
       \/ At(e, "unlink") /\ RemoveTemp(Artifact(e)) /\ Go(e, "open") /\ rid' = [rid EXCEPT ![e] = TRUE]
    /\ UNCHANGED <<logVars, fileVars, fd, readVars, outcome, told>>

\* The steps of Publish; its id is reported from its return on.
Publish(e) ==
    /\ \/ At(e, "publish") /\ CreateTemp(Artifact(e)) /\ Go(e, "link") /\ UNCHANGED rid
       \/ At(e, "link") /\ LinkFinal(Artifact(e)) /\ Go(e, "unlink") /\ UNCHANGED rid
       \/ At(e, "unlink") /\ RemoveTemp(Artifact(e)) /\ Go(e, "syncrecovery") /\ UNCHANGED rid
       \/ At(e, "syncrecovery") /\ SyncDir /\ Go(e, "open") /\ rid' = [rid EXCEPT ![e] = TRUE]
    /\ UNCHANGED <<logVars, fileVars, fd, readVars, outcome, told>>

\* An error of one of them takes back the earlier ones.
PublishFails(e) ==
    /\ \/ At(e, "link") /\ TakeBack({Temp(Artifact(e))})
       \/ At(e, "unlink") /\ TakeBack({Temp(Artifact(e)), Final(Artifact(e))})
       \/ At(e, "syncrecovery") /\ TakeBackSynced(Artifact(e))
    /\ Conclude(e, "failed")
    /\ UNCHANGED <<logVars, fileVars, readVars, rid, told>>

\* lockPolicy opens whatever the path names now.
OpenLock(e) ==
    /\ At(e, "open")
    /\ fd' = [fd EXCEPT ![e] = file.gen]
    /\ Go(e, "lock")
    /\ UNCHANGED <<logVars, fileVars, recoveryVars, readVars, resultVars>>

\* Mutant of CanLock: the lock does not exclude.
CanLockShared(e) == TRUE

\* Mutant of CanLock: a waiter excludes other waiters.
CanLockUnwanted(e) == \A d \in Editors \ {e} : fd[d] # fd[e]

\* flock is per inode: nobody else holds the lock on the generation opened.
CanLock(e) == \A d \in Editors \ {e} : epc[d] \in Locked => fd[d] # fd[e]

\* A browser edit does not wait (ErrPolicyBusy).
AcquireLock(e) ==
    /\ At(e, "lock")
    /\ \/ CanLock(e) /\ Go(e, "check") /\ UNCHANGED <<fd, outcome>>
       \/ ~CanLock(e) /\ seen[e] # {} /\ Conclude(e, "failed")
    /\ UNCHANGED <<logVars, fileVars, recoveryVars, readVars, rid, told>>

\* Mutant of SameFile: only the first check looks at the file.
SameFileOnce(e) == At(e, "recheck") \/ file.gen = before[e]

SameFile(e) == file.gen = before[e]

\* One of the two checks of writeAtomic.
CheckFile(e) ==
    /\ epc[e] \in {"check", "recheck"}
    /\ \/ /\ SameFile(e)
          /\ Go(e, IF epc[e] = "check" THEN "temp" ELSE "rename")
          /\ UNCHANGED <<fd, outcome>>
       \/ ~SameFile(e) /\ Conclude(e, "failed")
    /\ UNCHANGED <<logVars, fileVars, recoveryVars, readVars, rid, told>>

\* The temporary file is created, given its owner and mode, written, synced and
\* closed.
WriteTemp(e) ==
    /\ At(e, "temp")
    /\ Go(e, "recheck")
    /\ UNCHANGED <<logVars, fileVars, recoveryVars, fd, readVars, resultVars>>

\* The lock is on the generation that was opened: an operation that a hand edit
\* overtook replaces a file it has no lock on, and so overtakes others in turn.
Rename(e) ==
    /\ At(e, "rename")
    /\ gens' = gens + 1
    /\ file' = [gen |-> gens + 1, content |-> plan[e], applied |-> file.applied \cup {e}]
    /\ renamed' = [renamed EXCEPT ![e] = TRUE]
    /\ raced' = IF e \in raced THEN {d \in Editors : At(d, "rename")} ELSE raced
    /\ Go(e, "syncdir")
    /\ UNCHANGED <<logVars, disk, recoveryVars, fd, readVars, resultVars>>

\* A system call on the way to the rename returns an error: the temporary file
\* is removed and the lock released.
CallFails(e) ==
    /\ epc[e] \in {"load", "stat", "read", "restat", "publish", "open", "lock",
                  "check", "temp", "recheck", "rename"}
    /\ Conclude(e, "failed")
    /\ UNCHANGED <<logVars, fileVars, recoveryVars, readVars, rid, told>>

\* Mutant of SyncDirectory: the directory is not synced.
SyncDirectorySkipped(e) ==
    /\ At(e, "syncdir")
    /\ Conclude(e, "changed")
    /\ UNCHANGED <<logVars, fileVars, recoveryVars, readVars, rid, told>>

\* The directory is synced; if that fails the operation reports failure although
\* the new file is in place.
SyncDirectory(e) ==
    /\ At(e, "syncdir")
    /\ \/ disk' = file /\ Conclude(e, "changed")
       \/ UNCHANGED disk /\ Conclude(e, "failed")
    /\ UNCHANGED <<logVars, file, gens, renamed, raced, recoveryVars, readVars, rid, told>>

\* Mutant of AuditFinish: an error of the finish record is not reported.
AuditFinishQuietly(e) ==
    /\ At(e, "finish")
    /\ AppendOK(Record(e, "finish", outcome[e])) \/ AppendError(Record(e, "finish", outcome[e]))
    /\ Tell(e, Reported(e))
    /\ Go(e, "done")
    /\ UNCHANGED <<fileVars, recoveryVars, fd, readVars, outcome, rid>>

\* The finish record, then the report: success only without any error.
AuditFinish(e) ==
    /\ At(e, "finish")
    /\ \/ /\ AppendOK(Record(e, "finish", outcome[e]))
          /\ Tell(e, Reported(e))
       \/ AppendError(Record(e, "finish", outcome[e])) /\ Tell(e, "error")
    /\ Go(e, "done")
    /\ UNCHANGED <<fileVars, recoveryVars, fd, readVars, outcome, rid>>

---------------------------------------------------------------------------
(* Listing artifacts, editing by hand, and what stops an operation.        *)

\* List: every name must be a recovery id.  It is not audited.
ScanRecoveries(e) ==
    /\ At(e, "begin") /\ op[e].kind = "list"
    /\ LET temps == {x \in dir : x.name = "temp"} IN
       \/ /\ temps = {}
          /\ loaded' = [loaded EXCEPT ![e] = {x.art : x \in dir}]
          /\ Go(e, "reads")
          /\ UNCHANGED told
       \/ temps # {} /\ Go(e, "done") /\ Tell(e, "unsafe") /\ UNCHANGED loaded
    /\ UNCHANGED <<logVars, fileVars, recoveryVars, fd, op, seen, before, data, plan, outcome, rid>>

\* ... and every artifact is read in turn; one that is gone fails the listing.
ReadListed(e) ==
    /\ At(e, "reads")
    /\ \/ /\ loaded[e] = {}
          /\ Go(e, "done") /\ Tell(e, "ok")
          /\ UNCHANGED loaded
       \/ \E a \in loaded[e] :
            IF Final(a) \in dir
            THEN loaded' = [loaded EXCEPT ![e] = @ \ {a}] /\ UNCHANGED <<epc, told>>
            ELSE Go(e, "done") /\ Tell(e, "unsafe") /\ UNCHANGED loaded
    /\ UNCHANGED <<logVars, fileVars, recoveryVars, fd, op, seen, before, data, plan, outcome, rid>>

ListFails(e) ==
    /\ At(e, "reads") \/ (At(e, "begin") /\ op[e].kind = "list")
    /\ Go(e, "done") /\ Tell(e, "error")
    /\ UNCHANGED <<logVars, fileVars, recoveryVars, fd, readVars, outcome, rid>>

\* Root saves another file under the path, as README.md tells it to, with a tool
\* that knows nothing of the lock.
HandEdit(e) ==
    /\ At(e, "begin") /\ op[e].kind = "hand"
    /\ \E c \in Plan(e, file.content) :
          file' = [gen |-> gens + 1, content |-> c, applied |-> file.applied \cup {e}]
    /\ gens' = gens + 1
    /\ renamed' = [renamed EXCEPT ![e] = TRUE]
    /\ raced' = {d \in Editors : At(d, "rename")}
    /\ Go(e, "done")
    /\ UNCHANGED <<logVars, disk, recoveryVars, fd, readVars, resultVars>>

Killed(e) ==
    /\ epc[e] \notin Resting
    /\ Go(e, "dead")
    /\ fd' = [fd EXCEPT ![e] = 0]
    /\ UNCHANGED <<logVars, fileVars, recoveryVars, readVars, resultVars>>

PowerLoss ==
    /\ LosePower
    /\ CrashDir
    /\ file' \in {file, disk}
    /\ disk' = file'
    /\ epc' = [e \in Editors |-> IF epc[e] \in Resting THEN epc[e] ELSE "dead"]
    /\ fd' = [e \in Editors |-> 0]
    /\ UNCHANGED <<gens, renamed, raced, readVars, resultVars>>

EditorNext(e) ==
    \/ AuditStart(e) \/ LoadArtifact(e)
    \/ ReadBefore(e) \/ ReadData(e) \/ ReadAfter(e) \/ Publish(e) \/ PublishFails(e)
    \/ OpenLock(e) \/ AcquireLock(e) \/ CheckFile(e) \/ WriteTemp(e)
    \/ Rename(e) \/ CallFails(e) \/ SyncDirectory(e) \/ AuditFinish(e)
    \/ ScanRecoveries(e) \/ ReadListed(e) \/ ListFails(e) \/ HandEdit(e)

Next ==
    \/ \E e \in Editors : Begin(e) \/ EditorNext(e) \/ Killed(e)
    \/ PowerLoss

Spec == Init /\ [][Next]_vars

\* A process that can run does; flock wakes a waiter when the lock is free, and is
\* not obliged to fail while it is not.
Fairness == \A e \in Editors : WF_vars((~At(e, "lock") /\ EditorNext(e)) \/ AcquireLock(e))

---------------------------------------------------------------------------
(* Properties.                                                             *)

\* No lost update: whenever the policy changes in normal operation, the new
\* content is the effect of one requested operation on the content in force
\* just before, never on an older one (sameFile checks under the lock).  A file
\* saved by hand without the lock is safe too, unless it came between an
\* operation's last check and its rename; that rename may then do the same to
\* another operation, whose lock is on the file saved by hand.
NoLostUpdate ==
    [][file'.gen > file.gen =>
         \E e \in Editors : /\ file'.applied = file.applied \cup {e}
                            /\ file'.content \in Plan(e, file.content) \/ e \in raced]_vars

\* A browser edit is applied only to the very policy the browser showed
\* (WithRevision), with the same exception.
RevisionHonoured ==
    [][\A e \in Editors : ~renamed[e] /\ renamed'[e] =>
         seen[e] \in {{}, {file.content}} \/ e \in raced]_vars

\* The policy never loses its last project, whatever administrators remove at
\* the same time and whatever is restored ("no projects defined" would make
\* every worker refuse); contents, artifacts and outcomes keep their types.
NeverEmpty == TypeOK /\ DOMAIN file.content # {} /\ DOMAIN disk.content # {}

\* Every audited change is preceded by a start record on disk, a finish record
\* never contradicts the policy file ("changed" only for a change that is in place
\* and stays there, "no_change" only where nothing was done), and an administrator
\* is told of success only with both records and the change on disk.  A record
\* goes only with the whole audit file, if that was new at a power failure.
AuditTellsTruth ==
    \A e \in Editors :
        /\ renamed[e] /\ op[e].kind # "hand" => Secured(e, "start")
        /\ \A i \in Entries(e, "finish") :
              /\ log[i].outcome = "changed" => e \in file.applied /\ e \in disk.applied
              /\ log[i].outcome = "no_change" => ~renamed[e]
        /\ told[e] = "ok" /\ op[e].kind # "list" =>
              /\ Secured(e, "start") /\ Secured(e, "finish")
              /\ renamed[e] => e \in disk.applied

\* Once a project is removed, or its recovery id is to be reported, the artifact
\* is in the recovery directory for good and holds the policy the project was
\* removed from and the policy that resulted ("The recovery ID is reported
\* whenever an artifact was published", decisions/0019).
RemovalRecoverable ==
    \A e \in Editors : op[e].kind = "remove" /\ (renamed[e] \/ rid[e]) =>
        \E x \in dir \cap dirDisk :
            x.name = "final" /\ x.art.id = e /\ x.art.project = op[e].alias /\ IsRemoval(x.art)

\* A listing of recovery artifacts is refused only on account of a removal that
\* is between creating and removing its temporary file, or that stopped short of
\* replacing the policy; a removal that went through never blocks one.
ListingExplained ==
    [][\A e \in Editors : told[e] # "unsafe" /\ told'[e] = "unsafe" =>
         \E d \in Editors : /\ op[d].kind = "remove" /\ ~renamed[d]
                            /\ epc[d] \in Publishing \cup {"finish", "done", "dead"}]_vars

\* A restore puts back exactly the removed project, whatever is in the recovery
\* directory: every other project stays as it is in the policy in force (with the
\* same exception as NoLostUpdate).
RestoreIsExact ==
    [][\A e \in Editors :
         (~renamed[e] /\ renamed'[e] /\ op[e].kind = "restore" /\ e \notin raced) =>
            /\ DOMAIN file'.content = DOMAIN file.content \cup {op[e].alias}
            /\ op[e].alias \notin DOMAIN file.content
            /\ \A a \in DOMAIN file.content : file'.content[a] = file.content[a]]_vars

\* Every operation that starts comes to an end: nobody waits for ever for the
\* lock, which dies with its holder.
OperationsEnd == \A e \in Editors : At(e, "begin") ~> epc[e] \in Resting
===========================================================================
