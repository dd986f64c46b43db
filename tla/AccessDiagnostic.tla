------------------------- MODULE AccessDiagnostic -------------------------
(***************************************************************************)
(* The administrator's diagnostics: "projects access check",               *)
(* "projects available" and "projects path check"                          *)
(* (internal/admincli/root.go).  The first two run the worker as another   *)
(* user between two audit records (internal/admin/access.go); the worker   *)
(* reads the policy, then runs bws once per project, or once for the list, *)
(* with a deadline and bounded capture of its output                       *)
(* (internal/worker/access.go, projects.go, internal/boundedio).  The      *)
(* third looks at a directory in several steps (internal/admin/path.go).   *)
(*                                                                         *)
(* Meanwhile the policy is replaced, the directory changes, bws hangs,     *)
(* either process is killed, and the power may fail.  What bws prints is   *)
(* the set of the phrases the classifier looks for; lengths count in units *)
(* of the limits.                                                          *)
(***************************************************************************)
EXTENDS AuditLog, Functions

CONSTANTS Commands,     \* [kind, alias]: what the administrator may ask for
          NoAlias,      \* alias of a check of every project
          Policies,     \* [valid, projects]: what the policy file may hold
          Places,       \* [kind, worker, runner, write]: what the directory may be
          Sayings,      \* what a failing bws may print: sets of phrases
          Listings,     \* [ids, sound]: what bws may print as its project list
          StderrLimit,  \* accessStderrLimit (64 KiB)
          OutputLimit,  \* accessOutputLimit, projectListOutputLimit (2 MiB)
          MaxProjects,  \* projectlist.MaxProjects (256)
          MaxWritten,   \* bound: how much bws writes to stderr
          MaxChanges    \* bound: replacements of the policy, changes of the directory

ASSUME DiagnosticAssumption ==
    /\ \A c \in Commands : c.kind \in {"check", "available", "path"}
    /\ \A p \in Policies : /\ p.projects \in Seq(Range(p.projects))
                           /\ Len(p.projects) > 0 /\ IsInjective(p.projects)
    /\ \A l \in Listings : l.ids \in Seq(Range(l.ids))
    /\ Places \subseteq [kind : {"dir", "file", "missing", "loop"},
                        worker : BOOLEAN, runner : BOOLEAN, write : BOOLEAN]
    /\ {StderrLimit, OutputLimit, MaxProjects, MaxWritten, MaxChanges} \subseteq Nat

VARIABLES
    apc,        \* where the administrator's command is
    cmd,        \* the command
    policy,     \* the policy file
    place,      \* the project's directory
    changes,    \* changes of the two so far
    wpc,        \* where the worker is
    selected,   \* projects the worker has to probe
    results,    \* statuses so far
    child,      \* bws: [state, code, says, listing]
    stderr,     \* boundedio.Buffer on its stderr: [len, exceeded]
    timer,      \* context.WithTimeout of the probe
    reply,      \* what the worker left behind: [exit, docs, noise]
    result,     \* documents CheckAccess or ListAvailable returned, none or one
    consumed,   \* the table was written
    view,       \* PathCheckResult
    exit,       \* exit status of the command
    written,    \* history: what bws wrote to stderr
    truth,      \* history: how each probe ended, [alias, code, says, late, cut]
    before      \* history: changes when the path check read the policy

adminVars == <<apc, cmd, result, consumed, view, exit, before>>
worldVars == <<policy, place, changes>>
workerVars == <<wpc, selected, results, reply, truth>>
childVars == <<child, stderr, timer, written>>
vars == <<logVars, adminVars, worldVars, workerVars, childVars>>

Statuses == {"accessible", "inaccessible", "authentication_error",
             "network_error", "api_error", "unknown_error"}
Outcomes == {"all_accessible", "listed"} \cup (Statuses \ {"accessible"})
Resting == {"idle", "done", "dead"}
PathSteps == {"lookup", "resolve", "stat", "worker", "runner", "write", "report"}
Quiet == [state |-> "off", code |-> 0, says |-> {}, listing |-> [ids |-> <<>>, sound |-> TRUE]]
NoReply == [exit |-> 0, docs |-> {}, noise |-> FALSE]
NotChecked == [resolution |-> "none", worker |-> FALSE, runner |-> FALSE, write |-> FALSE]

\* Type invariant: administrator, worker, bws and what they exchange
\* (AuditedAccessDiagnostic, worker.Server, accessdiag.Result, PathCheckResult).
TypeOK ==
    /\ apc \in Resting \cup PathSteps \cup {"start", "invoke", "wait", "consume", "finish"}
    /\ cmd \in Commands
    /\ policy \in Policies /\ place \in Places /\ changes \in 0 .. MaxChanges
    /\ wpc \in {"off", "load", "token", "next", "probe", "list", "encode", "failed", "exited"}
    /\ \A i \in DOMAIN results : results[i].status \in Statuses \cup {"listed"}
    /\ child.state \in {"off", "starting", "running", "ended", "unstarted"}
    /\ stderr.len \in 0 .. StderrLimit /\ stderr.exceeded \in BOOLEAN
    /\ timer \in {"off", "armed", "expired"}
    /\ reply.exit \in {-1, 0, 1, 2}
    /\ \A d \in reply.docs \cup result : d.outcome \in Outcomes
    /\ consumed \in BOOLEAN
    /\ view.resolution \in {"none", "resolved", "missing", "not_directory", "unresolvable"}
    /\ exit \in {-1, 0, 1, 2}
    /\ LogTypeOK({1}, Outcomes \cup {"none", "failed"})

Init ==
    /\ LogInit
    /\ apc = "idle" /\ cmd \in Commands
    /\ policy \in Policies /\ place \in Places /\ changes = 0
    /\ wpc = "off" /\ selected = <<>> /\ results = <<>> /\ reply = NoReply /\ truth = <<>>
    /\ child = Quiet /\ timer = "off" /\ written = 0
    /\ stderr = [len |-> 0, exceeded |-> FALSE]
    /\ result = {} /\ consumed = FALSE
    /\ view = NotChecked
    /\ exit = -1
    /\ before = 0

---------------------------------------------------------------------------
(* Pure parts: capture, classification, aggregation, validation.           *)

\* Mutant of BufferWrite: what does not fit is dropped without a trace.
BufferWriteSilent(b, n, limit) ==
    [b EXCEPT !.len = IF limit - @ < n THEN limit ELSE @ + n]

\* Mutant of BufferWrite: the limit is compared with what is there already.
BufferWriteLate(b, n, limit) ==
    IF limit < b.len THEN [b EXCEPT !.exceeded = TRUE] ELSE [b EXCEPT !.len = @ + n]

\* boundedio.Buffer.Write: keep what fits, remember that something did not.
BufferWrite(b, n, limit) ==
    IF limit - b.len < n THEN [len |-> limit, exceeded |-> TRUE] ELSE [b EXCEPT !.len = @ + n]

Exceeds(n, limit) == BufferWrite([len |-> 0, exceeded |-> FALSE], n, limit).exceeded

\* The phrases the classifier tries, in its order, and what each means.
Phrases == <<"401", "403", "404", "http", "auth", "network">>

ASSUME SayingAssumption == Sayings \subseteq SUBSET Range(Phrases)

Meaning == [p \in Range(Phrases) |->
    CASE p \in {"401", "403", "auth"} -> "authentication_error"
      [] p = "404" -> "inaccessible"
      [] p = "http" -> "api_error"
      [] p = "network" -> "network_error"]

FirstOf(phrases, says) ==
    LET found == {i \in DOMAIN phrases : phrases[i] \in says}
    IN Meaning[phrases[CHOOSE i \in found : \A j \in found : i <= j]]

\* Mutant of classifyAccess: the phrases are tried in the wrong order.
classifyAccessNetworkFirst(code, says) ==
    CASE code = 0 -> "accessible"
      [] code # 0 /\ says = {} -> "unknown_error"
      [] OTHER -> FirstOf([i \in DOMAIN Phrases |-> Phrases[Len(Phrases) + 1 - i]], says)

classifyAccess(code, says) ==
    CASE code = 0 -> "accessible"
      [] code # 0 /\ says = {} -> "unknown_error"
      [] OTHER -> FirstOf(Phrases, says)

\* Mutant of Worse: the latest failure wins.
WorseLatest(worst, status) ==
    IF worst = "authentication_error" \/ status = "accessible" THEN worst ELSE status

\* One turn of Aggregate's loop; after an authentication error it has returned.
Worse(worst, status) ==
    IF \/ worst = "authentication_error"
       \/ status = "accessible"
       \/ status = "api_error" /\ worst = "network_error"
       \/ status = "unknown_error" /\ worst \in {"network_error", "api_error"}
       \/ status = "inaccessible" /\ worst # "all_accessible"
    THEN worst ELSE status

Aggregate(rows) ==
    LET worst[i \in 0 .. Len(rows)] ==
            IF i = 0 THEN "all_accessible" ELSE Worse(worst[i - 1], rows[i].status)
    IN worst[Len(rows)]

\* A document is rows and an outcome; a project list is one whose rows say "listed".
Rows(aliases, status) == [i \in DOMAIN aliases |-> [alias |-> aliases[i], status |-> status]]
Distinct(rows) == \A i, j \in DOMAIN rows : rows[i].alias = rows[j].alias => i = j

Validate(d) ==
    /\ Distinct(d.rows)
    /\ \/ d.outcome = "listed" /\ Len(d.rows) <= MaxProjects
       \/ d.outcome = Aggregate(d.rows) /\ d.rows # <<>>

FromBWS(listing) ==
    LET d == [rows |-> Rows(listing.ids, "listed"), outcome |-> "listed"]
    IN IF listing.sound /\ Validate(d) THEN {d} ELSE {}

---------------------------------------------------------------------------
(* The worker (cmd/secrets-broker-worker/main.go) and bws.                 *)

LoadPolicy ==
    /\ wpc = "load"
    /\ \/ /\ policy.valid
          /\ \/ cmd.kind = "available" /\ wpc' = "token" /\ UNCHANGED selected
             \/ /\ cmd.kind = "check" /\ cmd.alias \in {NoAlias} \cup Range(policy.projects)
                /\ selected' = IF cmd.alias = NoAlias THEN policy.projects ELSE <<cmd.alias>>
                /\ wpc' = "token"
       \/ /\ \/ ~policy.valid
             \/ cmd.kind = "check" /\ cmd.alias \notin {NoAlias} \cup Range(policy.projects)
          /\ wpc' = "failed"
          /\ UNCHANGED selected
    /\ UNCHANGED <<logVars, adminVars, worldVars, childVars, results, reply, truth>>

\* The token file can be read, or it cannot.
ResolveToken ==
    /\ wpc = "token"
    /\ wpc' \in {"next", "failed"}
    /\ UNCHANGED <<logVars, adminVars, worldVars, childVars, selected, results, reply, truth>>

\* Every call has a buffer of its own.
NoBuffer == stderr' = [len |-> 0, exceeded |-> FALSE] /\ written' = 0

\* Mutant of RunBWS: no deadline.
RunBWSUntimed ==
    /\ wpc = "next"
    /\ cmd.kind = "check" => Len(results) < Len(selected)
    /\ wpc' = IF cmd.kind = "check" THEN "probe" ELSE "list"
    /\ child' = [Quiet EXCEPT !.state = "starting"]
    /\ timer' = "off"
    /\ NoBuffer
    /\ UNCHANGED <<logVars, adminVars, worldVars, selected, results, reply, truth>>

\* The deadline starts before the child does.
RunBWS ==
    /\ wpc = "next"
    /\ cmd.kind = "check" => Len(results) < Len(selected)
    /\ wpc' = IF cmd.kind = "check" THEN "probe" ELSE "list"
    /\ child' = [Quiet EXCEPT !.state = "starting"]
    /\ timer' = "armed"
    /\ NoBuffer
    /\ UNCHANGED <<logVars, adminVars, worldVars, selected, results, reply, truth>>

\* os/exec does not start a command whose context is done.
BWSStarts ==
    /\ child.state = "starting"
    /\ \/ timer # "expired" /\ child' = [child EXCEPT !.state = "running"]
       \/ child' = [child EXCEPT !.state = "unstarted", !.code = -1]
    /\ UNCHANGED <<logVars, adminVars, worldVars, workerVars, stderr, timer, written>>

BWSWrites ==
    /\ child.state = "running"
    /\ \E n \in 1 .. MaxWritten - written :
          /\ written' = written + n
          /\ stderr' = BufferWrite(stderr, n, StderrLimit)
    /\ UNCHANGED <<logVars, adminVars, worldVars, workerVars, child, timer>>

\* It says something only if it wrote something.
BWSExits ==
    /\ child.state = "running"
    /\ \E code \in {0, 1}, says \in Sayings \cup {{}}, l \in Listings :
          /\ says # {} => code # 0 /\ written > 0 /\ wpc = "probe"
          /\ wpc = "probe" \/ code # 0 => l = Quiet.listing
          /\ child' = [state |-> "ended", code |-> code, says |-> says, listing |-> l]
    /\ UNCHANGED <<logVars, adminVars, worldVars, workerVars, stderr, timer, written>>

Expire ==
    /\ timer = "armed"
    /\ timer' = "expired"
    /\ UNCHANGED <<logVars, adminVars, worldVars, workerVars, child, stderr, written>>

BWSKilled ==
    /\ child.state = "running"
    /\ timer = "expired"
    /\ child' = [child EXCEPT !.state = "ended", !.code = -1]
    /\ UNCHANGED <<logVars, adminVars, worldVars, workerVars, stderr, timer, written>>

\* Mutant of ProbeStatus: the deadline is not looked at.
ProbeStatusPatient ==
    IF stderr.exceeded \/ child.state = "unstarted" THEN {}
    ELSE {classifyAccess(child.code, child.says)}

\* No element: the probe returned an error.
ProbeStatus ==
    IF stderr.exceeded THEN {}
    ELSE IF timer = "expired" THEN {"network_error"}
    ELSE IF child.state = "unstarted" THEN {}
    ELSE {classifyAccess(child.code, child.says)}

Ended == child.state \in {"ended", "unstarted"}

ProbeReturns ==
    /\ wpc = "probe" /\ Ended
    /\ LET alias == selected[Len(results) + 1] IN
       /\ truth' = Append(truth, [alias |-> alias, code |-> child.code, says |-> child.says,
                                  late |-> timer = "expired", cut |-> written > StderrLimit])
       /\ \/ \E s \in ProbeStatus :
                /\ results' = Append(results, [alias |-> alias, status |-> s])
                /\ wpc' = "next"
          \/ ProbeStatus = {} /\ wpc' = "failed" /\ UNCHANGED results
    /\ child' = Quiet
    /\ timer' = "off"
    /\ NoBuffer
    /\ UNCHANGED <<logVars, adminVars, worldVars, selected, reply>>

\* The list is refused when bws printed anything on stderr.  One that came late is
\* refused if the kill was sent before bws was waited for: Wait then returns the
\* context's error although bws had exited with 0.
ListReturns ==
    /\ wpc = "list" /\ Ended
    /\ \/ /\ child.code = 0 /\ stderr.len = 0 /\ ~stderr.exceeded
          /\ ~Exceeds(Len(child.listing.ids), OutputLimit)
          /\ \E d \in FromBWS(child.listing) : results' = d.rows
          /\ wpc' = "encode"
       \/ /\ \/ child.code # 0 \/ stderr.len # 0 \/ stderr.exceeded \/ timer = "expired"
             \/ Exceeds(Len(child.listing.ids), OutputLimit)
             \/ FromBWS(child.listing) = {}
          /\ wpc' = "failed"
          /\ UNCHANGED results
    /\ truth' = [i \in DOMAIN child.listing.ids |->
                   [alias |-> child.listing.ids[i], code |-> child.code, says |-> {},
                    late |-> FALSE, cut |-> written > StderrLimit]]
    /\ child' = Quiet
    /\ timer' = "off"
    /\ NoBuffer
    /\ UNCHANGED <<logVars, adminVars, worldVars, selected, reply>>

ProbesDone ==
    /\ wpc = "next" /\ cmd.kind = "check" /\ Len(results) = Len(selected)
    /\ wpc' = "encode"
    /\ UNCHANGED <<logVars, adminVars, worldVars, childVars, selected, results, reply, truth>>

Document ==
    [rows |-> results, outcome |-> IF cmd.kind = "check" THEN Aggregate(results) ELSE "listed"]

ExitCode(outcome) == IF outcome \in {"all_accessible", "listed"} THEN 0 ELSE 1

\* Writing the document to an administrator that is gone fails.
Encode ==
    /\ wpc = "encode"
    /\ reply' = IF apc = "dead" THEN [exit |-> 2, docs |-> {}, noise |-> TRUE]
                ELSE [exit |-> ExitCode(Document.outcome), docs |-> {Document}, noise |-> FALSE]
    /\ wpc' = "exited"
    /\ UNCHANGED <<logVars, adminVars, worldVars, childVars, selected, results, truth>>

WorkerFails ==
    /\ wpc = "failed"
    /\ reply' = [exit |-> 2, docs |-> {}, noise |-> TRUE]
    /\ wpc' = "exited"
    /\ UNCHANGED <<logVars, adminVars, worldVars, childVars, selected, results, truth>>

\* The worker is killed, perhaps after it wrote its document; bws is left alone.
WorkerKilled ==
    /\ wpc \notin {"off", "exited"}
    /\ \E docs \in {{}} \cup (IF wpc = "encode" THEN {{Document}} ELSE {}) :
          reply' = [exit |-> -1, docs |-> docs, noise |-> FALSE]
    /\ wpc' = "exited"
    /\ child' = Quiet
    /\ timer' = "off"
    /\ NoBuffer
    /\ UNCHANGED <<logVars, adminVars, worldVars, selected, results, truth>>

---------------------------------------------------------------------------
(* The administrator's command.                                            *)

\* Only root gets past the first check.
Begin ==
    /\ apc = "idle"
    /\ \/ apc' = (IF cmd.kind = "path" THEN "lookup" ELSE "start") /\ UNCHANGED exit
       \/ apc' = "done" /\ exit' = 2
    /\ UNCHANGED <<logVars, worldVars, workerVars, childVars, cmd, result, consumed, view, before>>

StartRecord == Record(1, "start", "none")

\* Mutant of AuditStart: a failed start record does not stop the check.
AuditStartOptional ==
    /\ apc = "start"
    /\ AppendOK(StartRecord) \/ AppendError(StartRecord)
    /\ apc' = "invoke"
    /\ UNCHANGED <<worldVars, workerVars, childVars, cmd, result, consumed, view, exit, before>>

AuditStart ==
    /\ apc = "start"
    /\ \/ AppendOK(StartRecord) /\ apc' = "invoke" /\ UNCHANGED exit
       \/ AppendError(StartRecord) /\ apc' = "done" /\ exit' = 2
    /\ UNCHANGED <<worldVars, workerVars, childVars, cmd, result, consumed, view, before>>

\* runuser and the worker start, or they do not.
Invoke ==
    /\ apc = "invoke"
    /\ \/ apc' = "wait" /\ wpc' = "load"
       \/ apc' = "finish" /\ UNCHANGED wpc
    /\ UNCHANGED <<logVars, worldVars, childVars, selected, results, reply, truth,
                   cmd, result, consumed, view, exit, before>>

\* WorkerAccessChecker: the one document it accepts, if any.
Accepted ==
    {d \in reply.docs : /\ ~reply.noise
                        /\ ~Exceeds(Len(d.rows), OutputLimit)
                        /\ Validate(d)
                        /\ reply.exit = ExitCode(d.outcome)}

Collect ==
    /\ apc = "wait" /\ wpc = "exited"
    /\ result' = Accepted
    /\ apc' = IF Accepted = {} THEN "finish" ELSE "consume"
    /\ UNCHANGED <<logVars, worldVars, workerVars, childVars, cmd, consumed, view, exit, before>>

\* The table is printed, or printing fails.
Consume ==
    /\ apc = "consume"
    /\ consumed' \in BOOLEAN
    /\ apc' = "finish"
    /\ UNCHANGED <<logVars, worldVars, workerVars, childVars, cmd, result, view, exit, before>>

FinishOutcome(d) == IF consumed THEN d.outcome ELSE "failed"

\* Mutant of AuditFinish: a failed finish record is not reported.
AuditFinishQuietly ==
    /\ apc = "finish"
    /\ LET o == IF result = {} THEN "failed" ELSE FinishOutcome(CHOOSE d \in result : TRUE) IN
       /\ AppendOK(Record(1, "finish", o)) \/ AppendError(Record(1, "finish", o))
       /\ exit' = IF o = "failed" THEN 2 ELSE ExitCode(o)
    /\ apc' = "done"
    /\ UNCHANGED <<worldVars, workerVars, childVars, cmd, result, consumed, view, before>>

AuditFinish ==
    /\ apc = "finish"
    /\ LET o == IF result = {} THEN "failed" ELSE FinishOutcome(CHOOSE d \in result : TRUE) IN
       \/ AppendOK(Record(1, "finish", o)) /\ exit' = IF o = "failed" THEN 2 ELSE ExitCode(o)
       \/ AppendError(Record(1, "finish", o)) /\ exit' = 2
    /\ apc' = "done"
    /\ UNCHANGED <<worldVars, workerVars, childVars, cmd, result, consumed, view, before>>

---------------------------------------------------------------------------
(* The path check: every look at the directory is a step of its own.       *)

PathStep(from) ==
    /\ apc = from
    /\ UNCHANGED <<logVars, worldVars, workerVars, childVars, cmd, result, consumed>>

GetProject ==
    /\ PathStep("lookup")
    /\ before' = changes
    /\ \/ /\ policy.valid /\ cmd.alias \in Range(policy.projects)
          /\ apc' = "resolve"
          /\ UNCHANGED exit
       \/ apc' = "done" /\ exit' = 2
    /\ UNCHANGED view

Resolution(p) ==
    CASE p.kind = "missing" -> "missing"
      [] p.kind = "loop" -> "unresolvable"
      [] p.kind = "file" -> "not_directory"
      [] p.kind = "dir" -> "resolved"

EvalSymlinks ==
    /\ PathStep("resolve")
    /\ \/ place.kind \in {"dir", "file"} /\ apc' = "stat" /\ UNCHANGED view
       \/ /\ place.kind \in {"missing", "loop"}
          /\ view' = [view EXCEPT !.resolution = Resolution(place)]
          /\ apc' = "report"
    /\ UNCHANGED <<exit, before>>

Stat ==
    /\ PathStep("stat")
    /\ view' = [view EXCEPT !.resolution = Resolution(place)]
    /\ apc' = IF place.kind = "dir" THEN "worker" ELSE "report"
    /\ UNCHANGED <<exit, before>>

\* What "test -x" or "test -w" answers, which holds of a file as well.
Grants(who) == place.kind \in {"dir", "file"} /\ place[who]

ProbePath(who, granted, refused) ==
    /\ PathStep(who)
    /\ \/ /\ view' = [view EXCEPT ![who] = Grants(who)]
          /\ apc' = IF Grants(who) THEN granted ELSE refused
          /\ UNCHANGED exit
       \/ apc' = "done" /\ exit' = 2 /\ UNCHANGED view
    /\ UNCHANGED before

ProbeWorker == ProbePath("worker", "runner", "runner")
ProbeRunner == ProbePath("runner", "write", "report")
ProbeWrite == ProbePath("write", "report", "report")

\* Mutant of Ready: the wrong answer about the runner.
ReadyToWrite == view.resolution = "resolved" /\ view.worker /\ view.write

Ready == view.resolution = "resolved" /\ view.worker /\ view.runner

Report ==
    /\ PathStep("report")
    /\ apc' = "done"
    /\ exit' \in {IF Ready THEN 0 ELSE 1, 2}
    /\ UNCHANGED <<view, before>>

---------------------------------------------------------------------------
(* Everything else.                                                        *)

AdminKilled ==
    /\ apc \notin Resting
    /\ apc' = "dead"
    /\ UNCHANGED <<logVars, worldVars, workerVars, childVars, cmd, result, consumed, view, exit, before>>

\* Another administrator replaces the policy, or somebody changes the directory.
Change ==
    /\ changes < MaxChanges
    /\ changes' = changes + 1
    /\ \/ cmd.kind # "path" /\ policy' \in Policies /\ UNCHANGED place
       \/ cmd.kind = "path" /\ place' \in Places /\ UNCHANGED policy
    /\ UNCHANGED <<logVars, adminVars, workerVars, childVars>>

\* The power fails: both processes and bws are gone, of the audit file what was on disk
\* is left.
PowerLoss ==
    /\ apc # "idle"
    /\ LosePower
    /\ apc' = IF apc = "done" THEN "done" ELSE "dead"
    /\ wpc' = IF wpc = "off" THEN "off" ELSE "exited"
    /\ child' = Quiet
    /\ timer' = "off"
    /\ NoBuffer
    /\ UNCHANGED <<worldVars, selected, results, reply, truth,
                   cmd, result, consumed, view, exit, before>>

AdminNext ==
    \/ Begin \/ AuditStart \/ Invoke \/ Collect \/ Consume \/ AuditFinish
    \/ GetProject \/ EvalSymlinks \/ Stat \/ ProbeWorker \/ ProbeRunner \/ ProbeWrite \/ Report

WorkerNext ==
    \/ LoadPolicy \/ ResolveToken \/ RunBWS \/ ProbeReturns \/ ListReturns \/ ProbesDone
    \/ Encode \/ WorkerFails

Next ==
    \/ AdminNext \/ WorkerNext
    \/ BWSStarts \/ BWSWrites \/ BWSExits \/ BWSKilled
    \/ Expire \/ WorkerKilled \/ AdminKilled \/ Change \/ PowerLoss

\* Nothing is assumed of bws: it may hang for ever.  Processes that can take a step
\* take it, the deadline comes, and a killed process ends.
Fairness ==
    /\ WF_vars(AdminNext) /\ WF_vars(WorkerNext)
    /\ WF_vars(BWSStarts) /\ WF_vars(BWSKilled) /\ WF_vars(Expire)

Spec == Init /\ [][Next]_vars /\ Fairness

---------------------------------------------------------------------------
(* Properties.                                                             *)

\* What bws wrote to stderr is kept completely or known not to be
\* (boundedio.Buffer, which continues to consume what it drops).  What is captured
\* and reported keeps its type.
CaptureIsHonest ==
    /\ TypeOK
    /\ stderr.exceeded <=> written > StderrLimit
    /\ ~stderr.exceeded => stderr.len = written

\* The worst status in the order of decisions/0020: authentication, network, API,
\* unknown, inaccessible, then all accessible.
Worst(rows) ==
    LET order == <<"all_accessible", "inaccessible", "unknown_error", "api_error",
                   "network_error", "authentication_error">>
        rank(s) == IF s = "accessible" THEN 1 ELSE CHOOSE i \in DOMAIN order : order[i] = s
        ranks == {1} \cup {rank(rows[i].status) : i \in DOMAIN rows}
    IN order[CHOOSE r \in ranks : \A q \in ranks : q <= r]

\* A table the administrator was shown is complete and says of each project what bws
\* answered about it: "accessible" only after a successful exit within the deadline, a
\* refusal or a missing project only if bws said so, a network error only without
\* an HTTP answer, and nothing at all from part of a message.  Its outcome, computed in one pass, is the worst status in whatever
\* order the projects come (probeAccess, classifyAccess, Aggregate, CheckAccess of both
\* processes).
TableIsTrue ==
    consumed => \A d \in result :
        /\ Distinct(d.rows)
        /\ Len(d.rows) = Len(truth)
        /\ cmd.kind = "check" => /\ [i \in DOMAIN d.rows |-> d.rows[i].alias] = selected
                                 /\ d.outcome = Worst(d.rows)
        /\ \A i \in DOMAIN d.rows :
              LET row == d.rows[i]
                  t == truth[i]
                  http == t.says \cap {"401", "403", "404", "http"}
              IN /\ row.alias = t.alias
                 /\ row.status = "accessible" <=> t.code = 0 /\ ~t.late /\ cmd.kind = "check"
                 /\ row.status = "inaccessible" => "404" \in t.says
                 /\ row.status = "authentication_error" => t.says \cap {"401", "403", "auth"} # {}
                 /\ row.status = "network_error" => t.late \/ http = {}
                 /\ row.status = "unknown_error" => t.says = {}
                 /\ ~t.cut

\* Exit status and audit file agree with what happened: no worker runs with the token,
\* and no finish record is written, without a start record on disk; 0 and 1 only with a
\* table on the terminal and the same outcome recorded on disk, 0 of an access check only
\* if every selected project answered in time.  A power failure takes such a record only
\* with the whole file, whose directory entry is never synced
\* (AuditedAccessDiagnostic.Run, ListAvailable, executeWithAccess).
ExitIsAudited ==
    /\ wpc # "off" \/ Entries(1, "finish") # {} => Secured(1, "start")
    /\ exit \in {0, 1} /\ cmd.kind # "path" =>
        /\ consumed
        /\ \A d \in result :
              /\ exit = 0 <=> d.outcome \in {"all_accessible", "listed"}
              /\ \/ \E i \in Entries(1, "finish") : i <= synced /\ log[i].outcome = d.outcome
                 \/ <<1, "finish">> \in lost
        /\ exit = 0 /\ cmd.kind = "check" =>
              \A a \in Range(selected) : \E i \in DOMAIN truth :
                  truth[i].alias = a /\ truth[i].code = 0 /\ ~truth[i].late

\* A path check during which the directory did not change reports exactly whether
\* worker and runner can enter it, whatever it finds about writing
\* (checkProjectPath, PathCheckResult.Ready).
PathIsTrue ==
    exit \in {0, 1} /\ cmd.kind = "path" /\ changes = before =>
        (exit = 0 <=> place.kind = "dir" /\ place.worker /\ place.runner)

\* Every diagnostic ends although bws may hang: the deadline of each probe ends it
\* (probeAccess, ListProjects, exec.CommandContext).
DiagnosticEnds == <>(apc \in {"done", "dead"})
===========================================================================
