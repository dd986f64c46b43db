----------------------------- MODULE AuditLog -----------------------------
(***************************************************************************)
(* The JSONL audit file that worker processes append to                    *)
(* (internal/audit/jsonl.go, and internal/admin/audit.go for the           *)
(* administrator's own file).  Every append opens the file with O_APPEND,  *)
(* writes one line and syncs it.  An append that returns an error may have *)
(* written nothing, part of the line, or all of it; nothing cleans up.     *)
(*                                                                         *)
(* At the start there is no file: the first append creates it (O_CREAT),   *)
(* as it does when logrotate has moved the old one away.  The file is      *)
(* synced, its directory never is, so a power failure may take a new file  *)
(* away with its name, synced lines and all.                               *)
(***************************************************************************)
EXTENDS Integers, Sequences

VARIABLES log,      \* the file, one entry per write, whole or cut short
          synced,   \* how many entries a completed fsync has made durable
          named,    \* the file's name is known to be on disk
          lost      \* history: <<id, event>> of the synced records of a file that
                    \* went with its name

logVars == <<log, synced, named, lost>>

Record(id, event, outcome) ==
    [id |-> id, event |-> event, outcome |-> outcome, whole |-> TRUE]

Torn(rec) == [rec EXCEPT !.whole = FALSE]

Records(ids, outcomes) ==
    [id : ids, event : {"start", "finish"}, outcome : outcomes, whole : BOOLEAN]

LogTypeOK(ids, outcomes) ==
    /\ log \in Seq(Records(ids, outcomes))
    /\ synced \in 0 .. Len(log)
    /\ named \in BOOLEAN
    /\ lost \subseteq ids \X {"start", "finish"}

LogInit == log = <<>> /\ synced = 0 /\ named = FALSE /\ lost = {}

AppendOK(rec) ==
    /\ log' = Append(log, rec)
    /\ synced' = Len(log) + 1
    /\ UNCHANGED <<named, lost>>

\* Opening, validating, writing or syncing failed.
AppendError(rec) ==
    /\ log' \in {log, Append(log, Torn(rec)), Append(log, rec)}
    /\ UNCHANGED <<synced, named, lost>>

\* A power failure that leaves the file keeps what was synced and any part of
\* the rest; a file that is found afterwards has its name on disk.
KeepFile ==
    /\ \E n \in synced .. Len(log) :
          log' \in {SubSeq(log, 1, n)} \cup
                   (IF n > synced THEN {Append(SubSeq(log, 1, n - 1), Torn(log[n]))} ELSE {})
    /\ named' = (named \/ log' # <<>>)
    /\ UNCHANGED <<synced, lost>>

LoseFile ==
    /\ ~named
    /\ log' = <<>>
    /\ synced' = 0
    /\ lost' = lost \cup {<<log[i].id, log[i].event>> : i \in {i \in 1 .. synced : log[i].whole}}
    /\ UNCHANGED named

LosePower == KeepFile \/ LoseFile

Entries(id, event) ==
    {i \in 1 .. Len(log) : log[i].id = id /\ log[i].event = event /\ log[i].whole}

Durable(id, event) == \E i \in Entries(id, event) : i <= synced

\* The record is on disk in the file, or was until the file itself was lost.
Secured(id, event) == Durable(id, event) \/ <<id, event>> \in lost

\* A line can be parsed if it is whole and does not continue a torn one.
Readable(i) == log[i].whole /\ (i > 1 => log[i - 1].whole)
===========================================================================
