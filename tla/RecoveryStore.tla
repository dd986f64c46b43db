--------------------------- MODULE RecoveryStore --------------------------
(***************************************************************************)
(* The directory of recovery artifacts (RecoveryStore,                     *)
(* internal/admin/recovery.go).  An artifact is written under a temporary  *)
(* name, linked under its recovery id, its temporary name is removed, and  *)
(* the directory is synced.  A failure takes back what was done, but the   *)
(* calls that take it back can fail as well, and nothing sweeps the        *)
(* directory later.                                                        *)
(*                                                                         *)
(* An artifact is [id, project, before, after]: before and after are the   *)
(* policies whose digests it carries, before is also stored whole.         *)
(***************************************************************************)
VARIABLES dir,      \* names in the directory now
          dirDisk   \* names a completed sync has made durable

recoveryVars == <<dir, dirDisk>>

Temp(a) == [name |-> "temp", art |-> a]
Final(a) == [name |-> "final", art |-> a]

\* What Read can find: by id, in a file whose name is that id.
Artifacts(id) == {x.art : x \in {f \in dir : f.name = "final" /\ f.art.id = id}}

\* The temporary file is created, restricted, written, synced and closed.  The
\* name is what others see; an error leaves it to TakeBack.
CreateTemp(a) == dir' = dir \cup {Temp(a)} /\ UNCHANGED dirDisk

\* Linking never replaces an artifact.
LinkFinal(a) ==
    /\ Artifacts(a.id) = {}
    /\ dir' = dir \cup {Final(a)}
    /\ UNCHANGED dirDisk

RemoveTemp(a) == dir' = dir \ {Temp(a)} /\ UNCHANGED dirDisk

SyncDir == dirDisk' = dir /\ UNCHANGED dir

\* The deferred removals after an error; each may fail silently.
TakeBack(names) ==
    /\ \E gone \in SUBSET names : dir' = dir \ gone
    /\ UNCHANGED dirDisk

\* After a failed sync: remove, sync again, and remove once more when Publish
\* returns, each ignoring errors.
TakeBackSynced(a) ==
    \E first \in {dir, dir \ {Final(a)}} :
        /\ dirDisk' \in {dirDisk, first}
        /\ dir' \in {first, first \ {Final(a)}}

\* A power failure keeps what is durable and any part of what is not.
CrashDir ==
    /\ \E kept \in SUBSET ((dir \cup dirDisk) \ (dir \cap dirDisk)) :
          dir' = (dir \cap dirDisk) \cup kept
    /\ dirDisk' = dir'
===========================================================================
