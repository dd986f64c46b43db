---------------------------- MODULE BrokerRun -----------------------------
(***************************************************************************)
(* `secrets-broker run` end to end: the unprivileged client                *)
(* (internal/cli/run.go, internal/worker/client.go) starts one worker      *)
(* process per invocation; the worker (internal/worker/server.go) reads    *)
(* the policy, audits, decides, asks for approval, resolves the token,     *)
(* runs bws and reports back in frames over a pipe                         *)
(* (internal/broker/broker.go, internal/runner, internal/execx).           *)
(*                                                                         *)
(* Invocations run concurrently and share the policy file, which an        *)
(* administrator may replace at any moment, the audit file, and the file   *)
(* system, whose symbolic links anybody may re-point.  A worker or a       *)
(* client can be killed between any two steps and the host can lose power. *)
(* The approver is taken by its contract (see OneShotApproval): it answers *)
(* "approved" or "denied".                                                 *)
(***************************************************************************)
EXTENDS AuditLog

CONSTANTS Runs,         \* invocations of `secrets-broker run`
          Asked,        \* their requests, each a function from Runs to records
                        \* [project, dir, argv, dry, fits]: fits = decodeRequest takes it
          Installed,    \* contents of the policy file at the start
          Written,      \* and those an administrator writes: [decodes, sources, projects]
          Trees,        \* states of the file system: the directory each path resolves
                        \* to, "" if it resolves to none
          PipeCap,      \* frames the pipe from worker to client can hold
          MaxOut        \* bound: output frames one command produces

Policies == Installed \cup Written
Approvals == {"always", "prompt", "allowlisted-prompt", "never"}

ASSUME BrokerAssumption ==
    /\ \A f \in Asked : DOMAIN f = Runs /\ \A r \in Runs :
          /\ DOMAIN f[r] = {"project", "dir", "argv", "dry", "fits"}
          /\ f[r].dry \in BOOLEAN /\ f[r].fits \in BOOLEAN
          /\ \A t \in Trees : f[r].dir \in DOMAIN t
    /\ \A p \in Policies :
          /\ DOMAIN p = {"decodes", "sources", "projects"}
          /\ \A a \in DOMAIN p.projects : DOMAIN p.projects[a] = {"approval", "allow", "dir"}
          /\ p.decodes \in BOOLEAN
          /\ p.sources \in {"worker", "desktop", "unsupported"}
    /\ PipeCap \in Nat \ {0}
    /\ MaxOut \in Nat

VARIABLES
    policy,     \* content of policy.toml
    tree,       \* the file system's directories and links
    req,        \* the request of each invocation
    cpc,        \* where each client is
    wpc,        \* where each worker is
    cfg,        \* the policy file each worker read
    why,        \* the outcome its finish record gets, without "denied:"
    code,       \* exit code of the command
    judged,     \* history: the tree its directory was checked in
    approved,   \* history: the approver answered "approved"
    started,    \* history: bws was started for the invocation
    ranIn,      \* history: the directory bws was started in
    moved,      \* history: its path was re-pointed after that check and before bws
    outs,       \* output frames written so far
    pipe,       \* frames between worker and client
    got,        \* the client holds a Result
    exit        \* exit code of the client, -1 while it runs

hostVars == <<policy, tree>>
dirVars == <<judged, ranIn, moved>>
workVars == <<cfg, why, code, approved, started, outs, dirVars>>
clientVars == <<cpc, got, exit>>
vars == <<logVars, hostVars, req, wpc, workVars, pipe, clientVars>>

Reasons == {"unknown_project", "not_allowlisted", "approval_rejected",
            "token_resolution_failed", "runner_start_failed", "audit_unavailable",
            "working_directory_not_allowed"}
Refusals == {"invalid_request", "config_unavailable"}
DryReasons == {"dry_deny", "dry_prompt", "dry_allow"}
Outcomes == {"none", "executed"} \cup Reasons \cup Refusals \cup DryReasons
Frames == {"output", "result", "error"}
\* Success, and a code of the command's own that Serve also uses.
CommandCodes == {0, 126}
Down == {"none", "exited", "killed"}

\* Type invariant: the audit file, workers, pipes and clients (Serve and Client.Run).
TypeOK ==
    /\ LogTypeOK(Runs, Outcomes)
    /\ policy \in Policies
    /\ tree \in Trees
    /\ req \in Asked
    /\ cpc \in [Runs -> {"idle", "reading", "waiting", "broken", "done", "dead"}]
    /\ wpc \in [Runs -> Down \cup {"open", "load", "refuse", "refused", "report",
                                   "start", "decide", "prompt", "token", "launch", "running",
                                   "finish", "warn", "reply"}]
    /\ cfg \in [Runs -> Policies]
    /\ why \in [Runs -> Outcomes]
    /\ code \in [Runs -> CommandCodes]
    /\ approved \in [Runs -> BOOLEAN]
    /\ started \in [Runs -> BOOLEAN]
    /\ judged \in [Runs -> Trees]
    /\ DOMAIN ranIn = Runs
    /\ moved \in [Runs -> BOOLEAN]
    /\ outs \in [Runs -> 0 .. MaxOut]
    /\ pipe \in [Runs -> Seq(Frames)]
    /\ \A r \in Runs : Len(pipe[r]) <= PipeCap
    /\ got \in [Runs -> BOOLEAN]
    /\ exit \in [Runs -> {-1, 125, 126} \cup CommandCodes]

Init ==
    /\ LogInit
    /\ policy \in Installed
    /\ tree \in Trees
    /\ req \in Asked
    /\ cpc = [r \in Runs |-> "idle"]
    /\ wpc = [r \in Runs |-> "none"]
    /\ cfg = [r \in Runs |-> policy]
    /\ why = [r \in Runs |-> "none"]
    /\ code = [r \in Runs |-> 0]
    /\ approved = [r \in Runs |-> FALSE]
    /\ started = [r \in Runs |-> FALSE]
    /\ judged = [r \in Runs |-> tree]
    /\ ranIn = [r \in Runs |-> ""]
    /\ moved = [r \in Runs |-> FALSE]
    /\ outs = [r \in Runs |-> 0]
    /\ pipe = [r \in Runs |-> <<>>]
    /\ got = [r \in Runs |-> FALSE]
    /\ exit = [r \in Runs |-> -1]

---------------------------------------------------------------------------
(* The policy file.  decodes: it can be read and is a TOML document whose  *)
(* projects have an alias of their own, their ids and no empty allow entry; *)
(* sources: what its token, approval and runtime settings are good for.    *)

\* Mutant of applyDefaults: a missing approval mode defaults to asking.
applyDefaultsPrompt(p) ==
    [p EXCEPT !.projects = [a \in DOMAIN p.projects |->
        LET mode == p.projects[a].approval IN
        [p.projects[a] EXCEPT !.approval = IF mode = "" THEN "prompt" ELSE mode]]]

applyDefaults(p) ==
    [p EXCEPT !.projects = [a \in DOMAIN p.projects |->
        LET mode == p.projects[a].approval IN
        [p.projects[a] EXCEPT !.approval = IF mode = "" THEN "never" ELSE mode]]]

validate(p) ==
    /\ p.sources # "unsupported"
    /\ DOMAIN p.projects # {}
    /\ \A a \in DOMAIN p.projects : p.projects[a].approval \in Approvals

\* The worker takes only a token file and the relay, and wants the directory
\* of every project.
ValidateWorker(p) ==
    /\ p.sources = "worker"
    /\ \A a \in DOMAIN p.projects : p.projects[a].dir # ""

Parse(p) == p.decodes /\ validate(applyDefaults(p))

\* Exact equality with an entry, so an allowlist is a set.
Match(allow, argv) == argv \in allow

---------------------------------------------------------------------------
(* Policy decisions.                                                       *)

\* Mutant of sameWorkingDir: errors of EvalSymlinks are not looked at.
sameWorkingDirUnresolved(t, allowed, requested) == t[allowed] = t[requested]

\* Both paths resolve (filepath.EvalSymlinks), to the same directory.  No link
\* on either is taken to change between the two resolutions.
sameWorkingDir(t, allowed, requested) ==
    /\ t[allowed] # "" /\ t[requested] # ""
    /\ t[allowed] = t[requested]

\* Mutant of decide: the allowlist is consulted before the approval mode.
decideAllowFirst(project, argv) ==
    IF Match(project.allow, argv) THEN "allow"
    ELSE IF project.approval \in {"always", "prompt"} THEN "prompt" ELSE "deny"

decide(project, argv) ==
    IF project.approval = "always" THEN "prompt"
    ELSE IF Match(project.allow, argv)
         THEN IF project.approval = "allowlisted-prompt" THEN "prompt" ELSE "allow"
         ELSE IF project.approval = "prompt" THEN "prompt" ELSE "deny"

\* The checks Run makes on a loaded policy before anything else happens.
RunVerdict(p, q, t) ==
    IF q.project \notin DOMAIN p.projects THEN "unknown_project"
    ELSE LET project == p.projects[q.project] IN
         IF project.dir # "" /\ ~sameWorkingDir(t, project.dir, q.dir)
         THEN "working_directory_not_allowed"
         ELSE decide(project, q.argv)

\* Mutant of DryRunVerdict: whatever is listed is reported as allowed.
DryRunVerdictListed(p, q, t) ==
    IF q.project \notin DOMAIN p.projects THEN "dry_deny"
    ELSE LET project == p.projects[q.project] IN
         IF project.dir # "" /\ ~sameWorkingDir(t, project.dir, q.dir) THEN "dry_deny"
         ELSE IF Match(project.allow, q.argv) THEN "dry_allow" ELSE "dry_deny"

\* Mutant of DryRunVerdict: the verdict is passed on untranslated.
DryRunVerdictRaw(p, q, t) == RunVerdict(p, q, t)

\* DryRun repeats the same checks and reports a verdict.
DryRunVerdict(p, q, t) ==
    IF q.project \notin DOMAIN p.projects THEN "dry_deny"
    ELSE LET project == p.projects[q.project] IN
         IF project.dir # "" /\ ~sameWorkingDir(t, project.dir, q.dir) THEN "dry_deny"
         ELSE LET verdict == decide(project, q.argv) IN
              IF verdict = "allow" THEN "dry_allow"
              ELSE IF verdict = "prompt" THEN "dry_prompt" ELSE "dry_deny"

---------------------------------------------------------------------------
(* The worker.                                                             *)

At(r, here) == wpc[r] = here
Go(r, there) == wpc' = [wpc EXCEPT ![r] = there]
Because(r, reason) == why' = [why EXCEPT ![r] = reason]

\* A frame written to a client that has died kills the worker (SIGPIPE on its
\* standard output); a frame does not fit into a full pipe.
Write(r, frame, there) ==
    \/ /\ cpc[r] = "dead"
       /\ Go(r, "killed")
       /\ UNCHANGED pipe
    \/ /\ cpc[r] # "dead"
       /\ Len(pipe[r]) < PipeCap
       /\ pipe' = [pipe EXCEPT ![r] = Append(@, frame)]
       /\ Go(r, there)

\* NewJSONLLogger, then decodeRequest: without an audit directory the worker
\* only reports an error; a request over 64 KiB is refused.
ReadRequest(r) ==
    /\ At(r, "open")
    /\ \/ Go(r, "report") /\ UNCHANGED why
       \/ req[r].fits /\ Go(r, "load") /\ UNCHANGED why
       \/ ~req[r].fits /\ Go(r, "refuse") /\ Because(r, "invalid_request")
    /\ UNCHANGED <<logVars, hostVars, req, cfg, code, approved, started, outs, dirVars, pipe, clientVars>>

\* LoadWorker, ValidateWorker and validateRuntime; the last can fail for
\* reasons outside the policy.  A dry run is answered from the loaded policy.
LoadConfig(r) ==
    /\ At(r, "load")
    /\ cfg' = [cfg EXCEPT ![r] = policy]
    /\ \/ Go(r, "refuse") /\ Because(r, "config_unavailable") /\ UNCHANGED judged
       \/ /\ Parse(policy) /\ ValidateWorker(applyDefaults(policy))
          /\ IF req[r].dry
             THEN /\ Go(r, "reply")
                  /\ Because(r, DryRunVerdict(applyDefaults(policy), req[r], tree))
                  /\ judged' = [judged EXCEPT ![r] = tree]
             ELSE Go(r, "start") /\ UNCHANGED <<why, judged>>
    /\ UNCHANGED <<logVars, hostVars, req, code, approved, started, outs, ranIn, moved, pipe, clientVars>>

\* auditDenied: a start record, then a finish record if the start succeeded.
RefuseStart(r) ==
    /\ At(r, "refuse")
    /\ \/ AppendOK(Record(r, "start", "none")) /\ Go(r, "refused")
       \/ AppendError(Record(r, "start", "none")) /\ Go(r, "report")
    /\ UNCHANGED <<hostVars, req, workVars, pipe, clientVars>>

RefuseFinish(r) ==
    /\ At(r, "refused")
    /\ \/ AppendOK(Record(r, "finish", why[r]))
       \/ AppendError(Record(r, "finish", why[r]))
    /\ Go(r, "report")
    /\ UNCHANGED <<hostVars, req, workVars, pipe, clientVars>>

\* writeWorkerError.
ReportError(r) ==
    /\ At(r, "report")
    /\ Write(r, "error", "exited")
    /\ UNCHANGED <<logVars, hostVars, req, workVars, clientVars>>

\* Mutant of AuditStart: a failed start record does not stop the run.
AuditStartOptional(r) ==
    /\ At(r, "start")
    /\ \/ AppendOK(Record(r, "start", "none"))
       \/ AppendError(Record(r, "start", "none"))
    /\ Go(r, "decide")
    /\ UNCHANGED why
    /\ UNCHANGED <<hostVars, req, cfg, code, approved, started, outs, dirVars, pipe, clientVars>>

\* Run's first step.
AuditStart(r) ==
    /\ At(r, "start")
    /\ \/ AppendOK(Record(r, "start", "none")) /\ Go(r, "decide") /\ UNCHANGED why
       \/ /\ AppendError(Record(r, "start", "none"))
          /\ Go(r, "reply")
          /\ Because(r, "audit_unavailable")
    /\ UNCHANGED <<hostVars, req, cfg, code, approved, started, outs, dirVars, pipe, clientVars>>

Decide(r) ==
    /\ At(r, "decide")
    /\ LET verdict == RunVerdict(applyDefaults(cfg[r]), req[r], tree) IN
       \/ verdict = "allow" /\ Go(r, "token") /\ UNCHANGED why
       \/ verdict = "prompt" /\ Go(r, "prompt") /\ UNCHANGED why
       \/ verdict = "deny" /\ Go(r, "finish") /\ Because(r, "not_allowlisted")
       \/ verdict \in Reasons /\ Go(r, "finish") /\ Because(r, verdict)
    /\ judged' = [judged EXCEPT ![r] = tree]
    /\ UNCHANGED <<logVars, hostVars, req, cfg, code, approved, started, outs, ranIn, moved, pipe, clientVars>>

\* The approver answers; an error counts as a denial.
Approve(r, yes) ==
    /\ At(r, "prompt")
    /\ approved' = [approved EXCEPT ![r] = yes]
    /\ IF yes THEN Go(r, "token") /\ UNCHANGED why
              ELSE Go(r, "finish") /\ Because(r, "approval_rejected")
    /\ UNCHANGED <<logVars, hostVars, req, cfg, code, started, outs, dirVars, pipe, clientVars>>

ResolveToken(r) ==
    /\ At(r, "token")
    /\ \/ Go(r, "launch") /\ UNCHANGED why
       \/ Go(r, "finish") /\ Because(r, "token_resolution_failed")
    /\ UNCHANGED <<logVars, hostVars, req, cfg, code, approved, started, outs, dirVars, pipe, clientVars>>

\* BWSRunner.Run and RunPassthrough up to the start of the process, in the
\* directory the path of the request names by then (cmd.Dir).
Launch(r) ==
    /\ At(r, "launch")
    /\ \/ /\ tree[req[r].dir] # ""
          /\ Go(r, "running")
          /\ started' = [started EXCEPT ![r] = TRUE]
          /\ ranIn' = [ranIn EXCEPT ![r] = tree[req[r].dir]]
          /\ UNCHANGED why
       \/ /\ Go(r, "finish")
          /\ Because(r, "runner_start_failed")
          /\ UNCHANGED <<started, ranIn>>
    /\ UNCHANGED <<logVars, hostVars, req, cfg, code, approved, outs, judged, moved, pipe, clientVars>>

\* frameWriter.Write.
Output(r) ==
    /\ At(r, "running")
    /\ outs[r] < MaxOut
    /\ outs' = [outs EXCEPT ![r] = @ + 1]
    /\ Write(r, "output", "running")
    /\ UNCHANGED <<logVars, hostVars, req, cfg, why, code, approved, started, dirVars, clientVars>>

\* The worker gives the command no input and no deadline, and dies if it cannot
\* write its output, so Run returns nothing but the command's status.
CommandExit(r) ==
    /\ At(r, "running")
    /\ code' \in {[code EXCEPT ![r] = c] : c \in CommandCodes}
    /\ Because(r, "executed")
    /\ Go(r, "finish")
    /\ UNCHANGED <<logVars, hostVars, req, cfg, approved, started, outs, dirVars, pipe, clientVars>>

\* Mutant of AuditFinish: a failed finish record is tried again.
AuditFinishRetried(r) ==
    /\ At(r, "finish")
    /\ \/ AppendOK(Record(r, "finish", why[r])) /\ Go(r, "reply")
       \/ AppendError(Record(r, "finish", why[r])) /\ UNCHANGED wpc
    /\ Len(log) < 6
    /\ UNCHANGED <<hostVars, req, workVars, pipe, clientVars>>

\* The finish record; if it cannot be written the worker adds a warning.
AuditFinish(r) ==
    /\ At(r, "finish")
    /\ \/ AppendOK(Record(r, "finish", why[r])) /\ Go(r, "reply")
       \/ AppendError(Record(r, "finish", why[r])) /\ Go(r, "warn")
    /\ UNCHANGED <<hostVars, req, workVars, pipe, clientVars>>

WarnIncomplete(r) ==
    /\ At(r, "warn")
    /\ Write(r, "output", "reply")
    /\ UNCHANGED <<logVars, hostVars, req, workVars, clientVars>>

Reply(r) ==
    /\ At(r, "reply")
    /\ Write(r, "result", "exited")
    /\ UNCHANGED <<logVars, hostVars, req, workVars, clientVars>>

WorkerKilled(r) ==
    /\ wpc[r] \notin Down
    /\ Go(r, "killed")
    /\ UNCHANGED <<logVars, hostVars, req, workVars, pipe, clientVars>>

---------------------------------------------------------------------------
(* The client.                                                             *)

\* The Result as Serve fills it in.
ResultExit(r) ==
    CASE why[r] = "executed" -> code[r]
      [] why[r] \in {"dry_allow", "dry_prompt"} -> 0
      [] why[r] = "runner_start_failed" -> 126
      [] OTHER -> 125

Exit(r, status) ==
    /\ cpc' = [cpc EXCEPT ![r] = "done"]
    /\ exit' = [exit EXCEPT ![r] = status]

\* Starting the worker and sending the request.  A request that cannot be sent
\* ends as if the worker died before reading it.
ClientStart(r) ==
    /\ cpc[r] = "idle"
    /\ \/ /\ cpc' = [cpc EXCEPT ![r] = "reading"]
          /\ Go(r, "open")
          /\ UNCHANGED exit
       \/ Exit(r, 125) /\ UNCHANGED wpc
    /\ UNCHANGED <<logVars, hostVars, req, workVars, pipe, got>>

\* One iteration of the frame loop.  Writing the command's output can fail;
\* from there on, as after an error frame, the client only waits for the
\* worker to exit and no longer reads.
ClientRead(r) ==
    /\ cpc[r] = "reading"
    /\ pipe[r] # <<>>
    /\ pipe' = [pipe EXCEPT ![r] = Tail(@)]
    /\ \/ Head(pipe[r]) = "output" /\ UNCHANGED <<cpc, got>>
       \/ /\ Head(pipe[r]) = "output"
          /\ cpc' = [cpc EXCEPT ![r] = "broken"]
          /\ UNCHANGED got
       \/ /\ Head(pipe[r]) = "result"
          /\ got' = [got EXCEPT ![r] = TRUE]
          /\ UNCHANGED cpc
       \/ /\ Head(pipe[r]) = "error"
          /\ cpc' = [cpc EXCEPT ![r] = "waiting"]
          /\ UNCHANGED got
    /\ UNCHANGED <<logVars, hostVars, req, wpc, workVars, exit>>

\* Mutant of ClientEOF: the exit status of the worker is not looked at and a
\* missing result reads as the zero Result.
ClientEOFTrusting(r) ==
    /\ cpc[r] = "reading"
    /\ pipe[r] = <<>>
    /\ wpc[r] \in Down
    /\ Exit(r, IF got[r] THEN ResultExit(r) ELSE 0)
    /\ UNCHANGED <<logVars, hostVars, req, wpc, workVars, pipe, got>>

\* Mutant of ClientEOF: the loop ends only once there is a result.
ClientEOFWithResult(r) ==
    /\ cpc[r] = "reading"
    /\ pipe[r] = <<>>
    /\ wpc[r] \in Down
    /\ got[r]
    /\ Exit(r, IF wpc[r] = "exited" THEN ResultExit(r) ELSE 125)
    /\ UNCHANGED <<logVars, hostVars, req, wpc, workVars, pipe, got>>

\* End of the frames: without a result, or if the worker did not exit cleanly,
\* the client reports an error.
ClientEOF(r) ==
    /\ cpc[r] = "reading"
    /\ pipe[r] = <<>>
    /\ wpc[r] \in Down
    /\ Exit(r, IF got[r] /\ wpc[r] = "exited" THEN ResultExit(r) ELSE 125)
    /\ UNCHANGED <<logVars, hostVars, req, wpc, workVars, pipe, got>>

\* cmd.Wait on the error paths.
ClientWaited(r) ==
    /\ cpc[r] \in {"waiting", "broken"}
    /\ wpc[r] \in Down
    /\ Exit(r, 125)
    /\ UNCHANGED <<logVars, hostVars, req, wpc, workVars, pipe, got>>

ClientKilled(r) ==
    /\ cpc[r] \in {"reading", "waiting", "broken"}
    /\ cpc' = [cpc EXCEPT ![r] = "dead"]
    /\ UNCHANGED <<logVars, hostVars, req, wpc, workVars, pipe, got, exit>>

---------------------------------------------------------------------------

\* An administrator replaces the policy file (one rename, see PolicyFile).
AdminEdit ==
    /\ policy' \in Written \ {policy}
    /\ UNCHANGED <<logVars, tree, req, wpc, workVars, pipe, clientVars>>

\* Between Run's directory check and the start of bws.
Checked == {"prompt", "token", "launch"}

\* Somebody re-points a symbolic link, or removes or adds a directory.
Relink ==
    /\ tree' \in Trees \ {tree}
    /\ moved' = [r \in Runs |->
          moved[r] \/ (wpc[r] \in Checked /\ tree'[req[r].dir] # tree[req[r].dir])]
    /\ UNCHANGED <<logVars, policy, req, wpc, cfg, why, code, approved, started, outs, judged, ranIn,
                   pipe, clientVars>>

PowerLoss ==
    /\ LosePower
    /\ wpc' = [r \in Runs |-> IF wpc[r] \in Down THEN wpc[r] ELSE "killed"]
    /\ cpc' = [r \in Runs |-> IF cpc[r] \in {"idle", "done"} THEN cpc[r] ELSE "dead"]
    /\ UNCHANGED <<hostVars, req, workVars, pipe, got, exit>>

WorkerNext(r) ==
    \/ ReadRequest(r) \/ LoadConfig(r)
    \/ RefuseStart(r) \/ RefuseFinish(r) \/ ReportError(r)
    \/ AuditStart(r) \/ Decide(r) \/ ResolveToken(r) \/ Launch(r)
    \/ \E yes \in BOOLEAN : Approve(r, yes)
    \/ Output(r) \/ CommandExit(r)
    \/ AuditFinish(r) \/ WarnIncomplete(r) \/ Reply(r)

ClientNext(r) == ClientStart(r) \/ ClientRead(r) \/ ClientEOF(r) \/ ClientWaited(r)

Next ==
    \/ \E r \in Runs : WorkerNext(r) \/ ClientNext(r) \/ WorkerKilled(r) \/ ClientKilled(r)
    \/ AdminEdit
    \/ Relink
    \/ PowerLoss

Spec == Init /\ [][Next]_vars

\* Processes that can run do; the approver returns (ApproveReturns of
\* TailscaleApproval); the wrapped command is assumed to terminate.
FairSpec ==
    /\ Spec
    /\ \A r \in Runs : WF_vars(WorkerNext(r)) /\ WF_vars(ClientRead(r) \/ ClientEOF(r) \/ ClientWaited(r))

---------------------------------------------------------------------------
(* Properties.                                                             *)

\* bws is never started for an invocation without a start record that is
\* already on disk (Run returns when Start fails) and survives a power failure,
\* unless that takes away the file itself, new since the last one.
RanOnlyAudited == \A r \in Runs : started[r] => Secured(r, "start")

\* What the approval modes promise (decisions/0012): an entry runs without a
\* human only in the modes that say so, and a denial by the human is final.  A
\* mode left out is the strictest about what is not listed.  The directory is
\* compared link by link resolved, and bws runs in the one that was compared
\* unless the path of the request was re-pointed in between.
Authorized(r) ==
    LET project == cfg[r].projects[req[r].project]
        listed == req[r].argv \in project.allow
    IN /\ req[r].project \in DOMAIN cfg[r].projects
       /\ judged[r][req[r].dir] = judged[r][project.dir] /\ judged[r][project.dir] # ""
       /\ ranIn[r] = judged[r][project.dir] \/ moved[r]
       /\ CASE project.approval = "always" -> approved[r]
            [] project.approval = "allowlisted-prompt" -> listed /\ approved[r]
            [] project.approval = "prompt" -> listed \/ approved[r]
            [] project.approval \in {"never", ""} -> listed
            [] OTHER -> FALSE

\* bws is started only for a request the policy file that was read authorises,
\* as written and not as defaulted, with the human's approval where the mode
\* demands it, from a path that led to the project's directory when Run checked
\* it and in that directory unless the path was re-pointed since, with the relay
\* as approver, and never for a dry run; requests, frames and verdicts keep their
\* types.
RanOnlyAuthorized ==
    TypeOK /\ \A r \in Runs : started[r] => ~req[r].dry /\ cfg[r].sources = "worker" /\ Authorized(r)

\* The audit file never contradicts what happened: a finish record follows the
\* start record of its run, a run has one at most, "executed" is written only
\* for a run whose bws was started and a denial only for one that never is.
AuditTellsTruth ==
    \A r \in Runs :
        /\ \A i, j \in Entries(r, "finish") : i = j
        /\ \A i \in Entries(r, "finish") :
              /\ \E j \in Entries(r, "start") : j < i
              /\ (log[i].outcome = "executed") <=> started[r]

\* The client's exit code: any code but 125 and 126 is the command's own, passed
\* on from a bws that was started, and 126 is either the command's own or says
\* that bws was not started.
ExitTellsTruth ==
    \A r \in Runs : cpc[r] = "done" /\ ~req[r].dry =>
        /\ exit[r] \notin {125, 126} => started[r] /\ exit[r] = code[r]
        /\ exit[r] = 126 /\ started[r] => code[r] = 126

\* A preflight under the same policy and request foretells the run, whatever
\* else is run, replaced or re-pointed between the two: a run the policy denies
\* was foretold as denied (for its directory, if no link changed), one foretold
\* as allowed never waits for a human, and one foretold as prompting never
\* starts without one.
PreflightForetells ==
    \A d, r \in Runs :
        (/\ req[d].dry /\ why[d] \in DryReasons
         /\ ~req[r].dry /\ cfg[r] = cfg[d] /\ [req[d] EXCEPT !.dry = FALSE] = req[r]) =>
            /\ why[r] \in {"unknown_project", "not_allowlisted"} => why[d] = "dry_deny"
            /\ why[r] = "working_directory_not_allowed" /\ judged[r] = judged[d] => why[d] = "dry_deny"
            /\ why[d] = "dry_allow" => wpc[r] # "prompt" /\ why[r] # "approval_rejected"
            /\ why[d] = "dry_prompt" => (started[r] => approved[r])

\* The client returns once it has started the worker, unless it is killed.  The
\* one state in which it may be kept waiting is that it could not write the
\* command's output, no longer reads, and the worker's frames fill the pipe
\* (Client.Run's frame loop and cmd.Wait).
ClientReturns ==
    \A r \in Runs : cpc[r] = "reading" ~>
        \/ cpc[r] \in {"done", "dead"}
        \/ cpc[r] = "broken" /\ wpc[r] \notin Down /\ Len(pipe[r]) = PipeCap

\* Comment on JSONLLogger: it "appends one JSON object per line".  Read as: the
\* start record of a command that was run can be read back as a line.
StartLineReadable ==
    \A r \in Runs : started[r] => \E i \in Entries(r, "start") : Readable(i)
===========================================================================
