--------------------------- MODULE BrokerProofs ---------------------------
(***************************************************************************)
(* `secrets-broker run` for any number of concurrent invocations, any      *)
(* requests and policy files, with an administrator replacing the policy,  *)
(* links re-pointed, workers and clients killed and the host losing power  *)
(* at any moment: no command runs unaudited or unauthorised, the audit     *)
(* file and the exit code tell what happened, and a preflight foretells    *)
(* the run.                                                                *)
(***************************************************************************)
EXTENDS BrokerRun, AuditLogProofs

\* A leaf is first-order reasoning unless it calls the SMT solver.
USE ZenonT(20)

\* Where a worker is while bws has not been started and nothing is decided.
Undecided == {"none", "open", "load", "start", "decide", "prompt", "token", "launch"}

\* Where a worker has a start record, and where it cannot have a finish record.
StartRecorded == {"refused", "decide", "prompt", "token", "launch", "running", "finish"}
Unfinished == Undecided \cup {"refuse", "refused", "running", "finish"}

Loadable(p) == Parse(p) /\ ValidateWorker(applyDefaults(p))

\* Run's checks come to this verdict on the policy the worker read.
Verdict(r, v) == RunVerdict(applyDefaults(cfg[r]), req[r], judged[r]) = v

\* The outcome and the history agree with where the worker is.
StageTruth(r) ==
    /\ wpc[r] \in Undecided => why[r] = "none" /\ ~started[r]
    /\ wpc[r] \in {"refuse", "refused"} => why[r] \in Refusals /\ ~started[r]
    /\ wpc[r] = "running" => why[r] = "none" /\ started[r]
    /\ wpc[r] = "finish" => why[r] \in Reasons \cup {"executed"}
    /\ why[r] = "executed" => started[r]
    /\ started[r] => why[r] \in {"none", "executed"}

\* What a worker does, and reports, follows from the policy it read.
Judged(r) ==
    /\ wpc[r] \in {"start", "decide", "prompt", "token", "launch"} \/ started[r] \/ why[r] \in Reasons =>
          ~req[r].dry /\ Loadable(cfg[r])
    /\ why[r] \in DryReasons =>
          /\ req[r].dry /\ Loadable(cfg[r])
          /\ why[r] = DryRunVerdict(applyDefaults(cfg[r]), req[r], judged[r])
    /\ why[r] \in {"unknown_project", "working_directory_not_allowed"} => Verdict(r, why[r])
    /\ why[r] = "not_allowlisted" => Verdict(r, "deny")
    /\ wpc[r] = "prompt" \/ why[r] = "approval_rejected" => Verdict(r, "prompt")
    /\ wpc[r] \in {"token", "launch"} \/ started[r] =>
          Verdict(r, "allow") \/ (Verdict(r, "prompt") /\ approved[r])

\* The path of the request leads where it led when it was checked, and bws was
\* started there, unless the path was re-pointed in between.
Placed(r) ==
    /\ wpc[r] \in Checked => tree[req[r].dir] = judged[r][req[r].dir] \/ moved[r]
    /\ started[r] => ranIn[r] = judged[r][req[r].dir] \/ moved[r]

\* The records of a run: a durable start before anything is decided, and no
\* finish before everything is.
Trail(r) ==
    /\ wpc[r] \in StartRecorded => Durable(r, "start")
    /\ started[r] => Secured(r, "start")
    /\ wpc[r] \in Unfinished => Entries(r, "finish") = {}
    /\ \A i, j \in Entries(r, "finish") : i = j
    /\ \A i \in Entries(r, "finish") :
          /\ \E j \in Entries(r, "start") : j < i /\ j <= synced
          /\ (log[i].outcome = "executed") <=> started[r]

\* A client that is not running has no worker that is.
ClientTruth(r) ==
    /\ cpc[r] = "idle" => wpc[r] = "none"
    /\ cpc[r] = "done" => wpc[r] \in Down
    /\ cpc[r] = "done" /\ ~req[r].dry =>
          /\ exit[r] \notin {125, 126} => started[r] /\ exit[r] = code[r]
          /\ exit[r] = 126 /\ started[r] => code[r] = 126

\* The inductive invariant: types, and the facts above for every invocation.
RunInv(r) == StageTruth(r) /\ Judged(r) /\ Placed(r) /\ Trail(r) /\ ClientTruth(r)
BrokerInv == TypeOK /\ \A r \in Runs : RunInv(r)

---------------------------------------------------------------------------

\* A record the worker of r can write is a well-typed one.
LEMMA RecordTyped ==
  ASSUME NEW r \in Runs, NEW event \in {"start", "finish"}, NEW outcome \in Outcomes
  PROVE  /\ Record(r, event, outcome) \in Records(Runs, Outcomes)
         /\ Record(r, event, outcome).id = r /\ Record(r, event, outcome).event = event
         /\ Record(r, event, outcome).outcome = outcome /\ Record(r, event, outcome).whole
  BY DEF Record, Records

\* What applyDefaults leaves alone, and the one thing it fills in.
LEMMA DefaultsKeep ==
  ASSUME NEW p \in Policies
  PROVE  /\ applyDefaults(p).sources = p.sources
         /\ DOMAIN applyDefaults(p).projects = DOMAIN p.projects
         /\ \A a \in DOMAIN p.projects :
               /\ applyDefaults(p).projects[a].allow = p.projects[a].allow
               /\ applyDefaults(p).projects[a].dir = p.projects[a].dir
               /\ applyDefaults(p).projects[a].approval =
                     IF p.projects[a].approval = "" THEN "never" ELSE p.projects[a].approval
  <1> DEFINE Mode(a) == IF p.projects[a].approval = "" THEN "never" ELSE p.projects[a].approval
             filled == [a \in DOMAIN p.projects |-> [p.projects[a] EXCEPT !.approval = Mode(a)]]
  <1>1. applyDefaults(p) = [p EXCEPT !.projects = filled] BY DEF applyDefaults
  <1>2. DOMAIN p = {"decodes", "sources", "projects"} BY BrokerAssumption
  <1>3. ASSUME NEW a \in DOMAIN p.projects
        PROVE  /\ filled[a].allow = p.projects[a].allow /\ filled[a].dir = p.projects[a].dir
               /\ filled[a].approval = Mode(a)
    <2>1. DOMAIN p.projects[a] = {"approval", "allow", "dir"} BY BrokerAssumption
    <2>2. filled[a] = [p.projects[a] EXCEPT !.approval = Mode(a)] OBVIOUS
    <2> HIDE DEF filled, Mode
    <2> QED BY <2>1, <2>2
  <1>4. DOMAIN filled = DOMAIN p.projects OBVIOUS
  <1> HIDE DEF filled
  <1>5. applyDefaults(p).sources = p.sources /\ applyDefaults(p).projects = filled BY <1>1, <1>2
  <1> QED BY <1>3, <1>4, <1>5

\* DryRun's verdicts and Run's are among the outcomes the audit file knows.
LEMMA VerdictsTyped ==
  ASSUME NEW p, NEW q, NEW t
  PROVE  /\ DryRunVerdict(p, q, t) \in DryReasons
         /\ RunVerdict(p, q, t) \in
              {"unknown_project", "working_directory_not_allowed", "allow", "prompt", "deny"}
  BY DEF DryRunVerdict, RunVerdict, decide, DryReasons

\* Every step keeps the types of the audit file: only well-typed records are
\* appended.
LEMMA LogTypeStep == TypeOK /\ [Next]_vars => LogTypeOK(Runs, Outcomes)'
  <1> SUFFICES ASSUME TypeOK, [Next]_vars PROVE LogTypeOK(Runs, Outcomes)'
    OBVIOUS
  <1>0. LogTypeOK(Runs, Outcomes) /\ why \in [Runs -> Outcomes] /\ "none" \in Outcomes
    BY DEF TypeOK, Outcomes
  <1>1. ASSUME NEW rec \in Records(Runs, Outcomes), AppendOK(rec) \/ AppendError(rec)
        PROVE  LogTypeOK(Runs, Outcomes)'
    BY <1>0, <1>1, AppendShape
  <1>2. CASE UNCHANGED logVars BY <1>0, <1>2 DEF LogTypeOK, logVars
  <1>3. CASE PowerLoss BY <1>0, <1>3, PowerLossEntries DEF PowerLoss
  <1>4. ASSUME NEW r \in Runs, RefuseStart(r) \/ AuditStart(r) PROVE LogTypeOK(Runs, Outcomes)'
    BY <1>0, <1>1, <1>4, RecordTyped DEF RefuseStart, AuditStart
  <1>5. ASSUME NEW r \in Runs, RefuseFinish(r) \/ AuditFinish(r) PROVE LogTypeOK(Runs, Outcomes)'
    BY <1>0, <1>1, <1>5, RecordTyped, SMTT(30) DEF RefuseFinish, AuditFinish
  <1>6. ASSUME NEW r \in Runs, WorkerNext(r) \/ ClientNext(r) \/ WorkerKilled(r) \/ ClientKilled(r)
        PROVE  LogTypeOK(Runs, Outcomes)'
    BY <1>2, <1>4, <1>5, <1>6
    DEF WorkerNext, ClientNext, WorkerKilled, ClientKilled, ReadRequest, LoadConfig, ReportError,
        Decide, Approve, ResolveToken, Launch, Output, CommandExit, WarnIncomplete, Reply,
        ClientStart, ClientRead, ClientEOF, ClientWaited
  <1>7. CASE AdminEdit \/ Relink BY <1>2, <1>7 DEF AdminEdit, Relink
  <1>8. CASE UNCHANGED vars BY <1>2, <1>8 DEF vars
  <1> QED BY <1>3, <1>6, <1>7, <1>8 DEF Next

\* A frame written, or a worker killed by writing it, keeps the types of the
\* pipe and of the worker's place.
LEMMA WriteTyped ==
  ASSUME TypeOK, NEW r \in Runs, NEW frame \in Frames,
         NEW there \in {"exited", "running", "reply"}, Write(r, frame, there)
  PROVE  /\ wpc'[r] \in {"killed", there} /\ wpc' = [wpc EXCEPT ![r] = wpc'[r]]
         /\ pipe' \in [Runs -> Seq(Frames)] /\ \A s \in Runs : Len(pipe'[s]) <= PipeCap
  <1> USE DEF TypeOK
  <1>1. CASE Go(r, "killed") /\ UNCHANGED pipe BY <1>1 DEF Go
  <1>2. CASE /\ Len(pipe[r]) < PipeCap
             /\ pipe' = [pipe EXCEPT ![r] = Append(@, frame)]
             /\ Go(r, there)
    <2>1. pipe[r] \in Seq(Frames) /\ Len(pipe[r]) \in Nat /\ PipeCap \in Nat
      BY BrokerAssumption, SMTT(30)
    <2>2. Append(pipe[r], frame) \in Seq(Frames) /\ Len(Append(pipe[r], frame)) = Len(pipe[r]) + 1
      BY <2>1, SMTT(30)
    <2>3. wpc'[r] = there /\ wpc' = [wpc EXCEPT ![r] = wpc'[r]] BY <1>2 DEF Go
    <2> QED BY <1>2, <2>1, <2>2, <2>3, SMTT(30)
  <1> QED BY <1>1, <1>2 DEF Write

\* The places of workers and clients, and what the frames between them are.
Stages == Down \cup {"open", "load", "refuse", "refused", "report", "start", "decide", "prompt",
                     "token", "launch", "running", "finish", "warn", "reply"}

\* The type invariant is preserved by every step.
LEMMA BrokerTypeStep == TypeOK /\ [Next]_vars => TypeOK'
  <1> SUFFICES ASSUME TypeOK, [Next]_vars PROVE TypeOK'
    OBVIOUS
  <1>0. LogTypeOK(Runs, Outcomes)' BY LogTypeStep
  <1> DEFINE Pipes == pipe' \in [Runs -> Seq(Frames)] /\ \A s \in Runs : Len(pipe'[s]) <= PipeCap
             Places == wpc' \in [Runs -> Stages]
             Others == /\ policy' \in Policies /\ tree' \in Trees /\ req' \in Asked
                       /\ cpc' \in [Runs -> {"idle", "reading", "waiting", "broken", "done", "dead"}]
                       /\ cfg' \in [Runs -> Policies] /\ why' \in [Runs -> Outcomes]
                       /\ code' \in [Runs -> CommandCodes]
                       /\ outs' \in [Runs -> 0 .. MaxOut]
                       /\ exit' \in [Runs -> {-1, 125, 126} \cup CommandCodes]
                       /\ judged' \in [Runs -> Trees] /\ DOMAIN ranIn' = Runs
             Flags == /\ approved' \in [Runs -> BOOLEAN] /\ started' \in [Runs -> BOOLEAN]
                      /\ got' \in [Runs -> BOOLEAN] /\ moved' \in [Runs -> BOOLEAN]
  <1>1. SUFFICES Pipes /\ Places /\ Others /\ Flags
    BY <1>0 DEF TypeOK, Stages
  <1> USE DEF hostVars, dirVars, workVars, clientVars
  <1>2. ASSUME NEW r \in Runs, WorkerNext(r) PROVE Pipes /\ Places /\ Others /\ Flags
    <2>1. Flags
      <3>1. ASSUME NEW yes \in BOOLEAN, Approve(r, yes) PROVE Flags
        BY <3>1 DEF Approve, TypeOK
      <3>2. CASE Launch(r) BY <3>2 DEF Launch, TypeOK
      <3>3. CASE UNCHANGED <<approved, started, got, moved>> BY <3>3 DEF TypeOK
      <3> QED BY <1>2, <3>1, <3>2, <3>3
          DEF WorkerNext, ReadRequest, LoadConfig, RefuseStart, RefuseFinish, ReportError,
              AuditStart, Decide, ResolveToken, Output, CommandExit, AuditFinish, WarnIncomplete, Reply
    <2>2. Pipes /\ Places
      <3>1. CASE ReportError(r) \/ WarnIncomplete(r) \/ Reply(r) \/ Output(r)
        <4>1. PICK frame \in Frames, there \in {"exited", "running", "reply"} : Write(r, frame, there)
          BY <3>1 DEF ReportError, WarnIncomplete, Reply, Output, Frames
        <4>2. Pipes /\ wpc'[r] \in {"killed", there} /\ wpc' = [wpc EXCEPT ![r] = wpc'[r]]
          BY <4>1, WriteTyped
        <4>3. wpc'[r] \in Stages BY <4>2 DEF Stages, Down
        <4> QED BY <4>2, <4>3 DEF TypeOK, Stages
      <3>2. CASE UNCHANGED pipe /\ \E there \in Stages : Go(r, there)
        BY <3>2, SMTT(20) DEF TypeOK, Stages, Go
      <3> QED BY <1>2, <3>1, <3>2
          DEF WorkerNext, ReadRequest, LoadConfig, RefuseStart, RefuseFinish, AuditStart, Decide,
              ResolveToken, Launch, Approve, CommandExit, AuditFinish, Stages, Down
    <2>3. Others
      <3> USE DEF TypeOK, Because
      <3>1. CASE ReadRequest(r) BY <3>1 DEF ReadRequest, Outcomes, Refusals
      <3>2. CASE LoadConfig(r)
        <4>1. DryRunVerdict(applyDefaults(policy), req[r], tree) \in Outcomes
          BY VerdictsTyped DEF Outcomes
        <4>2. UNCHANGED why \/ \E reason \in Outcomes : Because(r, reason)
          BY <3>2, <4>1 DEF LoadConfig, Outcomes, Refusals
        <4>3. why' \in [Runs -> Outcomes]
          <5>1. why \in [Runs -> Outcomes] OBVIOUS
          <5> HIDE DEF TypeOK
          <5> QED BY <4>2, <5>1
        <4>4. /\ cfg' = [cfg EXCEPT ![r] = policy]
              /\ UNCHANGED <<policy, tree, req, code, outs, ranIn, cpc, exit>>
          BY <3>2 DEF LoadConfig
        <4>5. judged' \in [Runs -> Trees] BY <3>2 DEF LoadConfig
        <4> QED BY <4>3, <4>4, <4>5
      <3>3. CASE RefuseStart(r) \/ RefuseFinish(r) \/ ReportError(r) \/ AuditFinish(r)
                 \/ WarnIncomplete(r) \/ Reply(r)
        BY <3>3, SMTT(30) DEF RefuseStart, RefuseFinish, ReportError, AuditFinish, WarnIncomplete, Reply
      <3>4. CASE AuditStart(r) BY <3>4 DEF AuditStart, Outcomes, Reasons
      <3>5. CASE Decide(r) BY <3>5 DEF Decide, Outcomes, Reasons
      <3>6. CASE ResolveToken(r) BY <3>6 DEF ResolveToken, Outcomes, Reasons
      <3>7. CASE Launch(r) BY <3>7 DEF Launch, Outcomes, Reasons
      <3>8. ASSUME NEW yes \in BOOLEAN, Approve(r, yes) PROVE Others
        BY <3>8 DEF Approve, Outcomes, Reasons
      <3>9. CASE Output(r) BY <3>9, BrokerAssumption, SMTT(30) DEF Output
      <3>10. CASE CommandExit(r) BY <3>10 DEF CommandExit, Outcomes
      <3> QED BY <1>2, <3>1, <3>2, <3>3, <3>4, <3>5, <3>6, <3>7, <3>8, <3>9, <3>10 DEF WorkerNext
    <2> QED BY <2>1, <2>2, <2>3
  <1>3. ASSUME NEW r \in Runs, ClientNext(r) \/ ClientKilled(r) \/ WorkerKilled(r)
        PROVE  Pipes /\ Places /\ Others /\ Flags
    <2>1. Flags
      <3>1. CASE ClientRead(r) BY <3>1 DEF ClientRead, TypeOK
      <3>2. CASE UNCHANGED <<approved, started, got, moved>> BY <3>2 DEF TypeOK
      <3> QED BY <1>3, <3>1, <3>2
          DEF ClientNext, ClientKilled, WorkerKilled, ClientStart, ClientEOF, ClientWaited
    <2>2. Places
      <3>1. CASE ClientStart(r) BY <3>1 DEF ClientStart, Go, TypeOK, Stages, Down
      <3>2. CASE WorkerKilled(r) BY <3>2 DEF WorkerKilled, Go, TypeOK, Stages, Down
      <3>3. CASE UNCHANGED wpc BY <3>3 DEF TypeOK, Stages
      <3> QED BY <1>3, <3>1, <3>2, <3>3 DEF ClientNext, ClientKilled, ClientRead, ClientEOF, ClientWaited
    <2>3. Pipes
      <3>1. CASE ClientRead(r)
        <4>1. pipe[r] \in Seq(Frames) /\ pipe[r] # <<>> BY <3>1 DEF ClientRead, TypeOK
        <4>2. /\ Tail(pipe[r]) \in Seq(Frames) /\ Len(Tail(pipe[r])) = Len(pipe[r]) - 1
              /\ Len(pipe[r]) \in Nat
          BY <4>1, SMTT(30)
        <4>3. PipeCap \in Nat BY BrokerAssumption
        <4> QED BY <3>1, <4>2, <4>3, SMTT(30) DEF ClientRead, TypeOK
      <3>2. CASE UNCHANGED pipe BY <3>2 DEF TypeOK
      <3> QED BY <1>3, <3>1, <3>2
          DEF ClientNext, ClientKilled, WorkerKilled, ClientStart, ClientEOF, ClientWaited
    <2>4. Others
      <3>1. ResultExit(r) \in {125, 126} \cup CommandCodes
        BY SMTT(30) DEF ResultExit, CommandCodes, TypeOK
      <3> USE DEF TypeOK
      <3>2. CASE ClientStart(r) BY <3>2 DEF ClientStart, Exit
      <3>3. CASE ClientRead(r) BY <3>3 DEF ClientRead
      <3>4. CASE ClientEOF(r) BY <3>1, <3>4 DEF ClientEOF, Exit
      <3>5. CASE ClientWaited(r) BY <3>5 DEF ClientWaited, Exit
      <3>6. CASE ClientKilled(r) \/ WorkerKilled(r) BY <3>6 DEF ClientKilled, WorkerKilled
      <3> QED BY <1>3, <3>2, <3>3, <3>4, <3>5, <3>6 DEF ClientNext
    <2> QED BY <2>1, <2>2, <2>3, <2>4
  <1>4. CASE AdminEdit BY <1>4 DEF AdminEdit, TypeOK, Stages, Policies
  <1>7. CASE Relink
    <2>1. Flags
      <3>1. moved' \in [Runs -> BOOLEAN] BY <1>7 DEF Relink
      <3> QED BY <1>7, <3>1 DEF Relink, TypeOK
    <2>2. Places /\ Others /\ Pipes BY <1>7 DEF Relink, TypeOK, Stages
    <2> QED BY <2>1, <2>2
  <1>5. CASE PowerLoss
    <2>1. Places BY <1>5 DEF PowerLoss, TypeOK, Stages, Down
    <2>2. Others BY <1>5 DEF PowerLoss, TypeOK
    <2>3. Flags /\ Pipes BY <1>5 DEF PowerLoss, TypeOK
    <2> QED BY <2>1, <2>2, <2>3
  <1>6. CASE UNCHANGED vars BY <1>6 DEF vars, TypeOK, Stages
  <1> QED BY <1>2, <1>3, <1>4, <1>5, <1>6, <1>7 DEF Next

---------------------------------------------------------------------------

\* The state of invocation r, and its records, as other invocations leave them.
SameState(r) ==
    /\ wpc'[r] = wpc[r] /\ cpc'[r] = cpc[r] /\ req'[r] = req[r] /\ cfg'[r] = cfg[r]
    /\ why'[r] = why[r] /\ code'[r] = code[r] /\ exit'[r] = exit[r]
    /\ approved'[r] = approved[r] /\ started'[r] = started[r]
    /\ judged'[r] = judged[r] /\ ranIn'[r] = ranIn[r] /\ moved'[r] = moved[r] /\ tree' = tree

SameRecords(r) ==
    /\ Entries(r, "finish")' = Entries(r, "finish")
    /\ \A i \in Entries(r, "finish") : log'[i] = log[i]
    /\ \A j \in Entries(r, "start") : j <= synced => j \in Entries(r, "start")' /\ j <= synced'
    /\ lost' = lost

\* A verdict depends on the policy that was read, the request and the tree it was
\* checked in only.
LEMMA VerdictStable ==
  ASSUME NEW r, cfg'[r] = cfg[r], req'[r] = req[r], judged'[r] = judged[r], NEW v
  PROVE  Verdict(r, v)' <=> Verdict(r, v)
  BY DEF Verdict

\* What was durable stays so when the records of the run are left alone.
LEMMA RecordsStayDurable ==
  ASSUME NEW r, SameRecords(r)
  PROVE  /\ Durable(r, "start") => Durable(r, "start")'
         /\ Secured(r, "start") => Secured(r, "start")'
  BY DEF SameRecords, Durable, Secured

\* What holds of an invocation holds while nothing of it changes.
LEMMA RunInvStable ==
  ASSUME NEW r \in Runs, RunInv(r), SameState(r), SameRecords(r)
  PROVE  RunInv(r)'
  <1>1. StageTruth(r)' BY DEF RunInv, SameState, StageTruth
  <1>2. Judged(r)'
    <2>1. \A v : Verdict(r, v)' <=> Verdict(r, v) BY VerdictStable DEF SameState
    <2> QED BY <2>1 DEF RunInv, SameState, Judged
  <1>3. Trail(r)'
    BY RecordsStayDurable DEF RunInv, SameState, SameRecords, Trail
  <1>4. ClientTruth(r)' BY SMTT(30) DEF RunInv, SameState, ClientTruth
  <1>5. Placed(r)' BY DEF RunInv, SameState, Placed
  <1> QED BY <1>1, <1>2, <1>3, <1>4, <1>5 DEF RunInv

\* Without a write to the audit file the records stay what they are.
LEMMA SameLog ==
  ASSUME TypeOK, UNCHANGED logVars, NEW r
  PROVE  SameRecords(r) /\ Entries(r, "start")' = Entries(r, "start")
  BY DEF logVars, SameRecords, Entries

\* A record appended for one run leaves those of another alone.
LEMMA OthersRecords ==
  ASSUME TypeOK, NEW s \in Runs, NEW r \in Runs \ {s},
         NEW event \in {"start", "finish"}, NEW outcome \in Outcomes,
         AppendOK(Record(s, event, outcome)) \/ AppendError(Record(s, event, outcome))
  PROVE  SameRecords(r)
  <1> DEFINE rec == Record(s, event, outcome)
  <1>1. LogTypeOK(Runs, Outcomes) BY DEF TypeOK
  <1>2. rec \in Records(Runs, Outcomes) /\ rec.id = s BY RecordTyped, SMTT(30)
  <1> HIDE DEF rec
  <1>3. AppendOK(rec) \/ AppendError(rec) BY DEF rec
  <1>4. \A ev : /\ Entries(r, ev)' = Entries(r, ev)
                /\ \A i \in Entries(r, ev) : log'[i] = log[i]
    <2>1. rec.id # r BY <1>2
    <2> QED BY <1>1, <1>2, <1>3, <2>1, AppendElsewhere, SMTT(30)
  <1>5. synced \in Int /\ synced' \in Int /\ synced <= synced'
    BY <1>1, <1>2, <1>3, AppendShape, SMTT(30) DEF LogTypeOK
  <1>6. \A j \in Entries(r, "start") : j \in Int BY SMTT(30) DEF Entries
  <1>7. lost' = lost BY <1>3 DEF AppendOK, AppendError
  <1> QED BY <1>4, <1>5, <1>6, <1>7, SMTT(30) DEF SameRecords

\* A step of one invocation changes nothing of another.
LEMMA OthersKept ==
  ASSUME TypeOK, NEW s \in Runs, NEW r \in Runs \ {s},
         WorkerNext(s) \/ ClientNext(s) \/ WorkerKilled(s) \/ ClientKilled(s)
  PROVE  SameState(r) /\ SameRecords(r)
  <1> USE DEF hostVars, dirVars, workVars, clientVars
  <1>1. SameRecords(r)
    <2>1. CASE UNCHANGED logVars BY <2>1, SameLog
    <2>2. why[s] \in Outcomes /\ "none" \in Outcomes BY DEF TypeOK, Outcomes
    <2>3. CASE RefuseStart(s) \/ AuditStart(s)
      BY <2>2, <2>3, OthersRecords DEF RefuseStart, AuditStart
    <2>4. CASE RefuseFinish(s) \/ AuditFinish(s)
      BY <2>2, <2>4, OthersRecords DEF RefuseFinish, AuditFinish
    <2> QED BY <2>1, <2>3, <2>4
        DEF WorkerNext, ClientNext, WorkerKilled, ClientKilled, ReadRequest, LoadConfig, ReportError,
            Decide, Approve, ResolveToken, Launch, Output, CommandExit, WarnIncomplete, Reply,
            ClientStart, ClientRead, ClientEOF, ClientWaited
  <1>2. SameState(r)
    <2> USE DEF SameState, TypeOK, Go, Because
    <2>1. CASE ReadRequest(s) BY <2>1 DEF ReadRequest
    <2>2. CASE LoadConfig(s) BY <2>2 DEF LoadConfig
    <2>3. CASE RefuseStart(s) \/ RefuseFinish(s) \/ AuditFinish(s)
      BY <2>3 DEF RefuseStart, RefuseFinish, AuditFinish
    <2>4. CASE ReportError(s) \/ WarnIncomplete(s) \/ Reply(s) \/ Output(s)
      BY <2>4 DEF ReportError, WarnIncomplete, Reply, Output, Write
    <2>5. CASE AuditStart(s) BY <2>5 DEF AuditStart
    <2>6. CASE Decide(s) BY <2>6 DEF Decide
    <2>7. CASE ResolveToken(s) BY <2>7 DEF ResolveToken
    <2>8. CASE Launch(s) BY <2>8 DEF Launch
    <2>9. ASSUME NEW yes \in BOOLEAN, Approve(s, yes) PROVE SameState(r) BY <2>9, SMTT(20) DEF Approve
    <2>10. CASE CommandExit(s) BY <2>10 DEF CommandExit
    <2>11. CASE ClientStart(s) \/ ClientEOF(s) \/ ClientWaited(s)
      BY <2>11 DEF ClientStart, ClientEOF, ClientWaited, Exit
    <2>12. CASE ClientRead(s) BY <2>12 DEF ClientRead
    <2>13. CASE WorkerKilled(s) \/ ClientKilled(s) BY <2>13 DEF WorkerKilled, ClientKilled
    <2> QED BY <2>1, <2>2, <2>3, <2>4, <2>5, <2>6, <2>7, <2>8, <2>9, <2>10, <2>11, <2>12, <2>13
        DEF WorkerNext, ClientNext
  <1> QED BY <1>1, <1>2

---------------------------------------------------------------------------

\* Steps without a write to the audit file keep the trail when they lead to no
\* stage that asks more of it.
LEMMA TrailKept ==
  ASSUME TypeOK, NEW r \in Runs, Trail(r), UNCHANGED logVars,
         wpc'[r] \in StartRecorded => wpc[r] \in StartRecorded,
         started'[r] => wpc[r] \in StartRecorded \/ started[r],
         wpc'[r] \in Unfinished => wpc[r] \in Unfinished,
         started'[r] = started[r] \/ wpc[r] \in Unfinished
  PROVE  Trail(r)'
  <1>1. SameRecords(r) BY SameLog
  <1>2. /\ Durable(r, "start") => Durable(r, "start")' /\ Secured(r, "start")
        /\ Secured(r, "start") => Secured(r, "start")'
    BY <1>1, RecordsStayDurable DEF Secured
  <1> QED BY <1>1, <1>2 DEF Trail, SameRecords

\* Opening the request and loading the policy: the worker goes on to run, or
\* answers a dry run, only with the policy it just read.
LEMMA OpeningStep ==
  ASSUME TypeOK, NEW r \in Runs, RunInv(r), ReadRequest(r) \/ LoadConfig(r)
  PROVE  RunInv(r)'
  <1> USE DEF RunInv, hostVars, dirVars, workVars, clientVars
  <1>0. /\ req'[r] = req[r] /\ cpc'[r] = cpc[r] /\ code'[r] = code[r] /\ exit'[r] = exit[r]
        /\ approved'[r] = approved[r] /\ started'[r] = started[r] /\ UNCHANGED logVars
        /\ wpc[r] \in {"open", "load"} /\ why[r] = "none" /\ ~started[r] /\ tree' = tree
    BY DEF ReadRequest, LoadConfig, At, StageTruth, Undecided
  <1>1. \/ wpc'[r] \in {"report", "load"} /\ why'[r] = why[r] /\ cfg'[r] = cfg[r]
        \/ wpc'[r] = "refuse" /\ why'[r] \in Refusals
        \/ /\ wpc'[r] = "reply" /\ req[r].dry /\ Loadable(cfg'[r])
           /\ why'[r] \in DryReasons
           /\ why'[r] = DryRunVerdict(applyDefaults(cfg'[r]), req[r], judged'[r])
        \/ wpc'[r] = "start" /\ why'[r] = why[r] /\ ~req[r].dry /\ Loadable(cfg'[r])
    <2> USE DEF TypeOK, At, Go, Because
    <2>1. CASE ReadRequest(r) BY <2>1 DEF ReadRequest, Refusals
    <2>2. CASE LoadConfig(r)
      <3>1. cfg'[r] = policy BY <2>2 DEF LoadConfig
      <3>2. CASE Go(r, "refuse") /\ Because(r, "config_unavailable") BY <3>2 DEF Refusals
      <3>3. CASE /\ Loadable(policy) /\ req[r].dry /\ Go(r, "reply")
                 /\ Because(r, DryRunVerdict(applyDefaults(policy), req[r], tree))
                 /\ judged' = [judged EXCEPT ![r] = tree]
        BY <3>1, <3>3, VerdictsTyped, SMTT(30)
      <3>4. CASE Loadable(policy) /\ ~req[r].dry /\ Go(r, "start") /\ UNCHANGED why
        BY <3>1, <3>4
      <3> QED BY <2>2, <3>2, <3>3, <3>4 DEF LoadConfig, Loadable
    <2> QED BY <2>1, <2>2
  <1>2. StageTruth(r)' BY <1>0, <1>1 DEF StageTruth, Undecided, Refusals, DryReasons
  <1>3. Judged(r)'
    BY <1>0, <1>1 DEF Judged, DryReasons, Reasons, Refusals
  <1>4. Trail(r)' BY <1>0, <1>1, TrailKept DEF StartRecorded, Unfinished, Undecided
  <1>5. ClientTruth(r)' BY <1>0, <1>1 DEF ClientTruth, Down
  <1>6. Placed(r)' BY <1>0, <1>1 DEF Placed, Checked
  <1> QED BY <1>2, <1>3, <1>4, <1>5, <1>6

\* From the decision to the end of the command: bws starts only after an allow,
\* or after a prompt the human approved.
LEMMA DecisionStep ==
  ASSUME TypeOK, NEW r \in Runs, RunInv(r),
         \/ Decide(r) \/ ResolveToken(r) \/ Launch(r) \/ CommandExit(r)
         \/ \E yes \in BOOLEAN : Approve(r, yes)
  PROVE  RunInv(r)'
  <1> USE DEF RunInv, hostVars, dirVars, workVars, clientVars
  <1>0. /\ req'[r] = req[r] /\ cpc'[r] = cpc[r] /\ exit'[r] = exit[r] /\ cfg'[r] = cfg[r]
        /\ UNCHANGED logVars
        /\ wpc[r] \in {"decide", "prompt", "token", "launch", "running"} /\ why[r] = "none"
        /\ wpc[r] = "running" <=> started[r]
    BY DEF Decide, ResolveToken, Launch, CommandExit, Approve, At, StageTruth, Undecided
  <1>1. wpc[r] # "decide" => judged'[r] = judged[r] /\ \A v : Verdict(r, v)' <=> Verdict(r, v)
    <2>1. wpc[r] # "decide" => judged'[r] = judged[r]
      BY DEF Decide, ResolveToken, Launch, CommandExit, Approve, At
    <2> QED BY <1>0, <2>1, VerdictStable
  <1>2. Loadable(cfg[r]) /\ ~req[r].dry BY <1>0 DEF Judged
  <1> DEFINE now == RunVerdict(applyDefaults(cfg'[r]), req'[r], judged'[r])
  <1>9. /\ \A v : Verdict(r, v)' <=> now = v
        /\ Verdict(r, why[r])' <=> now = why'[r]
    BY DEF Verdict
  <1> HIDE DEF now
  <1>3. /\ wpc'[r] \in {"prompt", "token", "launch", "running", "finish"}
        /\ wpc'[r] = "running" => wpc[r] = "launch" /\ started'[r]
        /\ wpc'[r] # "running" => started'[r] = started[r]
        /\ wpc'[r] = "finish" => IF wpc[r] = "running" THEN why'[r] = "executed" ELSE why'[r] \in Reasons
        /\ wpc'[r] # "finish" => why'[r] = "none" /\ wpc[r] # "running"
        /\ why'[r] \in {"unknown_project", "working_directory_not_allowed"} => now = why'[r]
        /\ why'[r] = "not_allowlisted" => now = "deny"
        /\ why'[r] = "approval_rejected" => wpc[r] = "prompt"
        /\ wpc'[r] = "prompt" => now = "prompt"
        /\ wpc'[r] = "token" => now = "allow" \/ (wpc[r] = "prompt" /\ approved'[r])
        /\ wpc'[r] = "launch" => wpc[r] = "token"
        /\ wpc[r] # "prompt" => approved'[r] = approved[r]
    <2> USE DEF TypeOK, At, Go, Because
    <2>1. CASE Decide(r)
      <3> DEFINE verdict == RunVerdict(applyDefaults(cfg[r]), req[r], tree)
      <3>1. \/ verdict = "allow" /\ Go(r, "token") /\ UNCHANGED why
            \/ verdict = "prompt" /\ Go(r, "prompt") /\ UNCHANGED why
            \/ verdict = "deny" /\ Go(r, "finish") /\ Because(r, "not_allowlisted")
            \/ verdict \in Reasons /\ Go(r, "finish") /\ Because(r, verdict)
        BY <2>1 DEF Decide
      <3>2. verdict \in {"unknown_project", "working_directory_not_allowed", "allow", "prompt", "deny"}
        BY VerdictsTyped
      <3>3. now = verdict
        <4>1. judged'[r] = tree /\ cfg'[r] = cfg[r] /\ req'[r] = req[r] BY <2>1 DEF Decide
        <4> QED BY <4>1 DEF now
      <3> HIDE DEF verdict
      <3>4. started'[r] = started[r] /\ approved'[r] = approved[r] /\ wpc[r] = "decide"
        BY <2>1, SMTT(20) DEF Decide
      <3> QED BY <1>0, <3>1, <3>2, <3>3, <3>4 DEF Reasons
    <2>2. CASE ResolveToken(r) BY <1>0, <2>2, SMTT(20) DEF ResolveToken, Reasons
    <2>3. CASE Launch(r) BY <1>0, <2>3 DEF Launch, Reasons
    <2>4. CASE CommandExit(r) BY <1>0, <2>4 DEF CommandExit
    <2>5. ASSUME NEW yes \in BOOLEAN, Approve(r, yes) PROVE <1>3!:
      BY <1>0, <2>5, SMTT(30) DEF Approve, Reasons
    <2> QED BY <2>1, <2>2, <2>3, <2>4, <2>5
  <1>4. StageTruth(r)' BY <1>0, <1>3 DEF StageTruth, Undecided, Refusals, Reasons
  <1>5. Judged(r)'
    <2>1. Loadable(cfg'[r]) /\ ~req'[r].dry /\ why'[r] \notin DryReasons
      BY <1>0, <1>2, <1>3 DEF DryReasons, Reasons
    <2>2. /\ wpc'[r] = "prompt" \/ why'[r] = "approval_rejected" => now = "prompt"
          /\ wpc'[r] \in {"token", "launch"} \/ started'[r] =>
                now = "allow" \/ (now = "prompt" /\ approved'[r])
      BY <1>0, <1>1, <1>3, <1>9 DEF Judged
    <2> QED BY <1>3, <1>9, <2>1, <2>2 DEF Judged
  <1>6. Trail(r)' BY <1>0, <1>3, TrailKept DEF StartRecorded, Unfinished, Undecided
  <1>7. ClientTruth(r)' BY <1>0, <1>3 DEF ClientTruth, Down
  <1>8. Placed(r)'
    <2> USE DEF TypeOK, At, Go, Because
    <2>1. tree' = tree /\ moved'[r] = moved[r]
      BY DEF Decide, ResolveToken, Launch, CommandExit, Approve
    <2>2. CASE Decide(r) BY <1>0, <1>3, <2>1, <2>2 DEF Decide, Placed
    <2>3. CASE Launch(r)
      <3>1. tree[req[r].dir] = judged[r][req[r].dir] \/ moved[r] BY <2>3 DEF Launch, Placed, Checked
      <3>2. wpc'[r] \notin Checked BY <2>3 DEF Launch, Checked
      <3>3. started'[r] => ranIn'[r] = tree[req[r].dir] BY <1>0, <2>3 DEF Launch
      <3>4. judged'[r] = judged[r] BY <2>3 DEF Launch
      <3> QED BY <1>0, <2>1, <3>1, <3>2, <3>3, <3>4 DEF Placed
    <2>4. CASE wpc[r] # "decide" /\ UNCHANGED <<started, ranIn, judged>>
      BY <1>0, <1>3, <2>1, <2>4 DEF Placed, Checked
    <2> QED BY <2>2, <2>3, <2>4 DEF ResolveToken, CommandExit, Approve
  <1> QED BY <1>4, <1>5, <1>6, <1>7, <1>8

\* The start record: the worker goes on only once it is durable.
LEMMA StartStep ==
  ASSUME TypeOK, NEW r \in Runs, RunInv(r), RefuseStart(r) \/ AuditStart(r)
  PROVE  RunInv(r)'
  <1> USE DEF RunInv, hostVars, dirVars, workVars, clientVars
  <1> DEFINE rec == Record(r, "start", "none")
  <1>0. /\ req'[r] = req[r] /\ cpc'[r] = cpc[r] /\ exit'[r] = exit[r] /\ cfg'[r] = cfg[r]
        /\ approved'[r] = approved[r] /\ started'[r] = started[r] /\ code'[r] = code[r]
        /\ judged'[r] = judged[r] /\ ranIn'[r] = ranIn[r] /\ moved'[r] = moved[r] /\ tree' = tree
        /\ wpc[r] \in {"refuse", "start"} /\ ~started[r]
        /\ \/ AppendOK(rec) /\ why'[r] = why[r] /\ wpc'[r] = IF wpc[r] = "refuse" THEN "refused" ELSE "decide"
           \/ /\ AppendError(rec)
              /\ \/ wpc[r] = "refuse" /\ wpc'[r] = "report" /\ why'[r] = why[r]
                 \/ wpc[r] = "start" /\ wpc'[r] = "reply" /\ why'[r] = "audit_unavailable"
    BY DEF RefuseStart, AuditStart, At, Go, Because, StageTruth, Undecided, TypeOK
  <1>1. LogTypeOK(Runs, Outcomes) BY DEF TypeOK
  <1>2. rec \in Records(Runs, Outcomes) /\ rec.id = r /\ rec.event = "start" /\ rec.whole
    BY RecordTyped, SMTT(30) DEF Outcomes
  <1> HIDE DEF rec
  <1>3. StageTruth(r)' BY <1>0 DEF StageTruth, Undecided, Refusals, Reasons
  <1>4. Judged(r)'
    <2>1. \A v : Verdict(r, v)' <=> Verdict(r, v) BY <1>0, VerdictStable
    <2> QED BY <1>0, <2>1 DEF Judged, DryReasons, Reasons, StageTruth, Undecided, Refusals
  <1>5. Trail(r)'
    <2>1. Entries(r, "finish")' = {}
      <3>1. Entries(r, "finish") = {} BY <1>0 DEF Trail, Unfinished, Undecided
      <3>2. rec.event # "finish" BY <1>2, SMTT(20)
      <3>3. Entries(r, "finish")' = Entries(r, "finish") BY <1>0, <1>1, <1>2, <3>2, AppendElsewhere, SMTT(30)
      <3> QED BY <3>1, <3>3
    <2>2. wpc'[r] \in StartRecorded => Durable(r, "start")'
      <3>1. CASE AppendOK(rec)
        <4>1. Durable(rec.id, rec.event)' BY <1>1, <1>2, <3>1, AppendDurable
        <4> QED BY <1>2, <4>1
      <3>2. CASE AppendError(rec) /\ wpc'[r] \in {"report", "reply"} BY <3>2 DEF StartRecorded
      <3> QED BY <1>0, <3>1, <3>2
    <2> QED BY <1>0, <2>1, <2>2 DEF Trail
  <1>6. ClientTruth(r)' BY <1>0 DEF ClientTruth, Down
  <1>7. Placed(r)' BY <1>0 DEF Placed, Checked
  <1> QED BY <1>3, <1>4, <1>5, <1>6, <1>7

\* The finish record: it is the only one of its run, it follows the durable
\* start record, and its outcome agrees with whether bws was started.
LEMMA FinishStep ==
  ASSUME TypeOK, NEW r \in Runs, RunInv(r), RefuseFinish(r) \/ AuditFinish(r)
  PROVE  RunInv(r)'
  <1> USE DEF RunInv, hostVars, dirVars, workVars, clientVars
  <1> PICK rec : rec = Record(r, "finish", why[r]) OBVIOUS
  <1>0. /\ req'[r] = req[r] /\ cpc'[r] = cpc[r] /\ exit'[r] = exit[r] /\ cfg'[r] = cfg[r]
        /\ approved'[r] = approved[r] /\ started'[r] = started[r] /\ code'[r] = code[r]
        /\ why'[r] = why[r]
        /\ judged'[r] = judged[r] /\ ranIn'[r] = ranIn[r] /\ moved'[r] = moved[r] /\ tree' = tree
        /\ wpc[r] \in {"refused", "finish"} /\ wpc'[r] \in {"report", "reply", "warn"}
        /\ AppendOK(rec) \/ AppendError(rec)
    BY DEF RefuseFinish, AuditFinish, At, Go, TypeOK
  <1>1. LogTypeOK(Runs, Outcomes) BY DEF TypeOK
  <1>2. /\ rec \in Records(Runs, Outcomes) /\ rec.id = r /\ rec.event = "finish" /\ rec.whole
        /\ rec.outcome = why[r]
    BY RecordTyped, SMTT(30) DEF TypeOK
  <1>3. StageTruth(r)' BY <1>0 DEF StageTruth, Undecided
  <1>4. Judged(r)'
    <2>1. \A v : Verdict(r, v)' <=> Verdict(r, v) BY <1>0, VerdictStable
    <2> QED BY <1>0, <2>1 DEF Judged
  <1>5. Trail(r)'
    <2>1. (why[r] = "executed") <=> started[r]
      BY <1>0 DEF StageTruth, Refusals, Reasons
    <2>2. Entries(r, "finish") = {} /\ Durable(r, "start")
      BY <1>0 DEF Trail, Unfinished, StartRecorded
    <2>3. \A i \in Entries(r, "finish")' : i = Len(log) + 1 /\ log'[i] = rec
      <3>1. Entries(rec.id, rec.event) = {} BY <1>2, <2>2
      <3>2. \A i \in Entries(rec.id, rec.event)' : i = Len(log) + 1 /\ log'[i] = rec
        BY <1>0, <1>1, <1>2, <3>1, AppendFirst
      <3> QED BY <1>2, <3>2
    <2>4. Entries(r, "start") \subseteq Entries(r, "start")'
      BY <1>0, <1>1, <1>2, AppendEntries
    <2>5. synced \in 0 .. Len(log) /\ Len(log) \in Nat /\ synced' \in Int /\ synced <= synced'
      <3>1. LogTypeOK(Runs, Outcomes)' /\ synced <= synced' BY <1>0, <1>1, <1>2, AppendShape
      <3> QED BY <1>1, <3>1, SMTT(30) DEF LogTypeOK
    <2>6. PICK j \in Entries(r, "start") : j <= synced BY <2>2 DEF Durable
    <2>7. j \in Entries(r, "start")' /\ j \in Int /\ j <= synced' /\ j < Len(log) + 1
      BY <2>4, <2>5, <2>6, SMTT(30) DEF Entries
    <2>8. Durable(r, "start")' /\ Secured(r, "start")' BY <2>7, SMTT(20) DEF Durable, Secured
    <2> QED BY <1>0, <1>2, <2>1, <2>2, <2>3, <2>7, <2>8 DEF Trail, Unfinished, Undecided
  <1>6. ClientTruth(r)' BY <1>0 DEF ClientTruth, Down
  <1>7. Placed(r)' BY <1>0 DEF Placed, Checked
  <1> QED BY <1>3, <1>4, <1>5, <1>6, <1>7

\* Frames, and a worker that is killed, by a signal or by writing to a client
\* that is gone.
LEMMA FrameStep ==
  ASSUME TypeOK, NEW r \in Runs, RunInv(r),
         ReportError(r) \/ WarnIncomplete(r) \/ Reply(r) \/ Output(r) \/ WorkerKilled(r)
  PROVE  RunInv(r)'
  <1> USE DEF RunInv, hostVars, dirVars, workVars, clientVars
  <1>1. /\ req'[r] = req[r] /\ cpc'[r] = cpc[r] /\ exit'[r] = exit[r] /\ cfg'[r] = cfg[r]
        /\ approved'[r] = approved[r] /\ started'[r] = started[r] /\ code'[r] = code[r]
        /\ why'[r] = why[r] /\ UNCHANGED logVars /\ wpc[r] \notin Down
        /\ judged'[r] = judged[r] /\ ranIn'[r] = ranIn[r] /\ moved'[r] = moved[r] /\ tree' = tree
    BY DEF ReportError, WarnIncomplete, Reply, Output, WorkerKilled, At, Down
  <1>2. \/ wpc'[r] = wpc[r] \/ wpc'[r] = "killed" \/ wpc'[r] = "exited"
        \/ wpc[r] = "warn" /\ wpc'[r] = "reply"
    BY DEF ReportError, WarnIncomplete, Reply, Output, WorkerKilled, At, Go, Write, TypeOK
  <1>3. StageTruth(r)' BY <1>1, <1>2 DEF StageTruth, Undecided
  <1>4. Judged(r)'
    <2>1. \A v : Verdict(r, v)' <=> Verdict(r, v) BY <1>1, VerdictStable
    <2> QED BY <1>1, <1>2, <2>1 DEF Judged
  <1>5. Trail(r)' BY <1>1, <1>2, TrailKept DEF StartRecorded, Unfinished, Undecided
  <1>6. ClientTruth(r)' BY <1>1, <1>2 DEF ClientTruth, Down
  <1>7. Placed(r)' BY <1>1, <1>2 DEF Placed, Checked
  <1> QED BY <1>3, <1>4, <1>5, <1>6, <1>7

\* The client: it exits when the worker is down, with a code that is the
\* command's own or says that there is none.
LEMMA ClientStep ==
  ASSUME TypeOK, NEW r \in Runs, RunInv(r), ClientNext(r) \/ ClientKilled(r)
  PROVE  RunInv(r)'
  <1> USE DEF RunInv, hostVars, dirVars, workVars, clientVars
  <1>1. /\ req'[r] = req[r] /\ cfg'[r] = cfg[r] /\ approved'[r] = approved[r] /\ why'[r] = why[r]
        /\ started'[r] = started[r] /\ code'[r] = code[r] /\ UNCHANGED logVars
        /\ judged'[r] = judged[r] /\ ranIn'[r] = ranIn[r] /\ moved'[r] = moved[r] /\ tree' = tree
        /\ wpc'[r] = wpc[r] \/ (wpc[r] = "none" /\ wpc'[r] = "open" /\ cpc'[r] = "reading")
    BY SMTT(30) DEF ClientNext, ClientKilled, ClientStart, ClientRead, ClientEOF, ClientWaited, Go, TypeOK, ClientTruth
  <1>2. \/ cpc'[r] \in {cpc[r], "broken", "waiting", "dead", "reading"} /\ cpc[r] # "done" /\ cpc'[r] # "idle"
        \/ cpc'[r] = "done" /\ cpc[r] # "done" /\ wpc'[r] = wpc[r] /\ wpc[r] \in Down /\ exit'[r] \in {125, ResultExit(r)}
    <2> USE DEF TypeOK
    <2>1. CASE ClientStart(r) BY <2>1, SMTT(30) DEF ClientStart, Exit, ClientTruth, Down
    <2>2. CASE ClientRead(r) BY <2>2, SMTT(30) DEF ClientRead
    <2>3. CASE ClientEOF(r) BY <2>3 DEF ClientEOF, Exit
    <2>4. CASE ClientWaited(r) BY <2>4, SMTT(30) DEF ClientWaited, Exit
    <2>5. CASE ClientKilled(r) BY <2>5 DEF ClientKilled
    <2> QED BY <2>1, <2>2, <2>3, <2>4, <2>5 DEF ClientNext
  <1>3. StageTruth(r)' BY <1>1 DEF StageTruth, Undecided
  <1>4. Judged(r)'
    <2>1. \A v : Verdict(r, v)' <=> Verdict(r, v) BY <1>1, VerdictStable
    <2> QED BY <1>1, <2>1 DEF Judged
  <1>5. Trail(r)' BY <1>1, TrailKept, SMTT(20) DEF StartRecorded, Unfinished, Undecided
  <1>6. ClientTruth(r)'
    <2>1. ~req[r].dry => /\ ResultExit(r) \notin {125, 126} => started[r] /\ ResultExit(r) = code[r]
                         /\ ResultExit(r) = 126 /\ started[r] => code[r] = 126
      <3>1. ~req[r].dry => why[r] \notin {"dry_allow", "dry_prompt"} BY DEF Judged, DryReasons
      <3>2. CASE why[r] = "executed" BY <3>2 DEF ResultExit, StageTruth
      <3>3. CASE why[r] = "runner_start_failed" BY <3>3, SMTT(30) DEF ResultExit, StageTruth
      <3>4. CASE why[r] \notin {"executed", "runner_start_failed", "dry_allow", "dry_prompt"}
        BY <3>4, SMTT(30) DEF ResultExit
      <3> QED BY <3>1, <3>2, <3>3, <3>4
    <2>2. cpc'[r] = "idle" => wpc'[r] = "none" BY <1>1, <1>2 DEF ClientTruth
    <2>3. cpc'[r] = "done" => wpc'[r] \in Down BY <1>1, <1>2 DEF ClientTruth
    <2> QED BY <1>1, <1>2, <2>1, <2>2, <2>3, SMTT(30) DEF ClientTruth
  <1>7. Placed(r)' BY <1>1 DEF Placed, Checked
  <1> QED BY <1>3, <1>4, <1>5, <1>6, <1>7, SMTT(20)

\* A link re-pointed: a path that no longer leads where it was checked to lead is
\* noted as such until bws is started.
LEMMA RelinkStep ==
  ASSUME TypeOK, NEW r \in Runs, RunInv(r), Relink
  PROVE  RunInv(r)'
  <1> USE DEF RunInv, clientVars
  <1>1. /\ req'[r] = req[r] /\ cfg'[r] = cfg[r] /\ approved'[r] = approved[r] /\ why'[r] = why[r]
        /\ started'[r] = started[r] /\ code'[r] = code[r] /\ exit'[r] = exit[r] /\ wpc'[r] = wpc[r]
        /\ cpc'[r] = cpc[r] /\ judged'[r] = judged[r] /\ ranIn'[r] = ranIn[r] /\ UNCHANGED logVars
    BY DEF Relink
  <1>2. StageTruth(r)' BY <1>1 DEF StageTruth
  <1>3. Judged(r)'
    <2>1. \A v : Verdict(r, v)' <=> Verdict(r, v) BY <1>1, VerdictStable
    <2> QED BY <1>1, <2>1 DEF Judged
  <1>4. Trail(r)' BY <1>1, TrailKept
  <1>5. ClientTruth(r)' BY <1>1, SMTT(20) DEF ClientTruth
  <1>6. Placed(r)'
    <2>1. moved'[r] = (moved[r] \/ (wpc[r] \in Checked /\ tree'[req[r].dir] # tree[req[r].dir]))
      BY DEF Relink
    <2> QED BY <1>1, <2>1 DEF Placed
  <1> QED BY <1>2, <1>3, <1>4, <1>5, <1>6

\* A power failure: every worker that was running is killed, no whole record
\* appears, and the durable ones stay or the file is gone with all of them.
LEMMA PowerStep ==
  ASSUME TypeOK, NEW r \in Runs, RunInv(r), PowerLoss
  PROVE  RunInv(r)'
  <1> USE DEF RunInv, hostVars, dirVars, workVars
  <1>1. /\ req'[r] = req[r] /\ cfg'[r] = cfg[r] /\ approved'[r] = approved[r] /\ why'[r] = why[r]
        /\ started'[r] = started[r] /\ code'[r] = code[r] /\ exit'[r] = exit[r]
        /\ wpc'[r] = IF wpc[r] \in Down THEN wpc[r] ELSE "killed"
        /\ cpc'[r] = IF cpc[r] \in {"idle", "done"} THEN cpc[r] ELSE "dead"
        /\ judged'[r] = judged[r] /\ ranIn'[r] = ranIn[r] /\ moved'[r] = moved[r] /\ tree' = tree
    BY DEF PowerLoss
  <1>2. StageTruth(r)' BY <1>1 DEF StageTruth, Undecided
  <1>3. Judged(r)'
    <2>1. \A v : Verdict(r, v)' <=> Verdict(r, v) BY <1>1, VerdictStable
    <2> QED BY <1>1, <2>1 DEF Judged
  <1>4. Trail(r)'
    <2>1. /\ \A i \in Entries(r, "finish")' : i \in Entries(r, "finish") /\ log'[i] = log[i]
          /\ Secured(r, "start") => Secured(r, "start")'
          /\ \/ Entries(r, "finish")' = {}
             \/ /\ synced' = synced
                /\ \A i \in Entries(r, "start") : i <= synced => i \in Entries(r, "start")'
      BY PowerLossEntries DEF PowerLoss, TypeOK
    <2>2. wpc'[r] \in Unfinished => wpc[r] \in Unfinished
      BY <1>1 DEF Unfinished, Undecided
    <2>3. wpc'[r] \notin StartRecorded
      BY <1>1 DEF StartRecorded, Down
    <2>4. ASSUME NEW i \in Entries(r, "finish")'
          PROVE  \E j \in Entries(r, "start")' : j < i /\ j <= synced'
      <3>1. PICK j \in Entries(r, "start") : j < i /\ j <= synced
        BY <2>1, <2>4 DEF Trail
      <3> QED BY <2>1, <2>4, <3>1
    <2> QED BY <1>1, <2>1, <2>2, <2>3, <2>4 DEF Trail
  <1>5. ClientTruth(r)' BY <1>1 DEF ClientTruth, Down
  <1>6. Placed(r)' BY <1>1 DEF Placed, Checked
  <1> QED BY <1>2, <1>3, <1>4, <1>5, <1>6

---------------------------------------------------------------------------

\* Every state of every invocation satisfies the inductive invariant.
THEOREM BrokerInvariant == Spec => []BrokerInv
  <1>1. Init => BrokerInv
    <2> SUFFICES ASSUME Init PROVE BrokerInv
      OBVIOUS
    <2>1. TypeOK
      <3>1. LogTypeOK(Runs, Outcomes)
        <4>1. log = <<>> /\ synced = 0 /\ named = FALSE /\ lost = {} BY DEF Init, LogInit
        <4>2. log \in Seq(Records(Runs, Outcomes)) /\ synced \in 0 .. Len(log) BY <4>1, SMTT(30)
        <4> QED BY <4>1, <4>2 DEF LogTypeOK
      <3>2. /\ approved \in [Runs -> BOOLEAN] /\ started \in [Runs -> BOOLEAN]
            /\ got \in [Runs -> BOOLEAN] /\ moved \in [Runs -> BOOLEAN]
        BY DEF Init
      <3>3. outs \in [Runs -> 0 .. MaxOut] /\ exit \in [Runs -> {-1, 125, 126} \cup CommandCodes]
        <4>1. outs = [r \in Runs |-> 0] /\ exit = [r \in Runs |-> -1] /\ MaxOut \in Nat
          BY BrokerAssumption DEF Init
        <4> QED BY <4>1, SMTT(30)
      <3>4. pipe \in [Runs -> Seq(Frames)] /\ \A r \in Runs : Len(pipe[r]) <= PipeCap
        <4>1. <<>> \in Seq(Frames) /\ Len(<<>>) = 0 /\ 0 <= PipeCap BY BrokerAssumption, SMTT(30)
        <4>2. pipe = [r \in Runs |-> <<>>] BY DEF Init
        <4> QED BY <4>1, <4>2
      <3>5. /\ policy \in Policies /\ req \in Asked /\ cfg \in [Runs -> Policies]
            /\ tree \in Trees /\ judged \in [Runs -> Trees] /\ DOMAIN ranIn = Runs
            /\ cpc \in [Runs -> {"idle", "reading", "waiting", "broken", "done", "dead"}]
            /\ wpc \in [Runs -> Stages]
            /\ why \in [Runs -> Outcomes] /\ code \in [Runs -> CommandCodes]
        BY DEF Init, Policies, Outcomes, CommandCodes, Stages, Down
      <3> QED BY <3>1, <3>2, <3>3, <3>4, <3>5 DEF TypeOK, Stages
    <2>2. ASSUME NEW r \in Runs PROVE RunInv(r)
      <3>1. wpc[r] = "none" /\ why[r] = "none" /\ cpc[r] = "idle" BY DEF Init
      <3>2. started[r] = FALSE BY DEF Init
      <3>3. Entries(r, "finish") = {}
        <4>1. log = <<>> BY DEF Init, LogInit
        <4> QED BY <4>1, SMTT(30) DEF Entries
      <3> QED BY <3>1, <3>2, <3>3
          DEF RunInv, StageTruth, Judged, Placed, Trail, ClientTruth, Undecided, Unfinished,
              StartRecorded, Checked, DryReasons, Reasons
    <2> QED BY <2>1, <2>2 DEF BrokerInv
  <1>2. BrokerInv /\ [Next]_vars => BrokerInv'
    <2> SUFFICES ASSUME BrokerInv, [Next]_vars PROVE BrokerInv'
      OBVIOUS
    <2>1. TypeOK /\ \A r \in Runs : RunInv(r) BY DEF BrokerInv
    <2>2. TypeOK' BY <2>1, BrokerTypeStep
    <2>3. ASSUME NEW s \in Runs, WorkerNext(s) \/ ClientNext(s) \/ WorkerKilled(s) \/ ClientKilled(s),
                 NEW r \in Runs
          PROVE  RunInv(r)'
      <3>1. CASE r # s BY <2>1, <2>3, <3>1, OthersKept, RunInvStable
      <3>2. CASE r = s
        BY <2>1, <2>3, <3>2, OpeningStep, DecisionStep, StartStep, FinishStep, FrameStep, ClientStep
        DEF WorkerNext
      <3> QED BY <3>1, <3>2
    <2>4. ASSUME UNCHANGED <<logVars, tree, req, wpc, workVars, clientVars>>, NEW r \in Runs
          PROVE  RunInv(r)'
      <3>1. SameState(r) BY <2>4 DEF SameState, dirVars, workVars, clientVars
      <3>2. SameRecords(r) BY <2>1, <2>4, SameLog
      <3> QED BY <2>1, <3>1, <3>2, RunInvStable, SMTT(20)
    <2>5. ASSUME PowerLoss, NEW r \in Runs PROVE RunInv(r)' BY <2>1, <2>5, PowerStep
    <2>6. \A r \in Runs : RunInv(r)'
      BY <2>1, <2>3, <2>4, <2>5, RelinkStep DEF Next, AdminEdit, vars, hostVars
    <2> QED BY <2>2, <2>6 DEF BrokerInv
  <1> QED BY <1>1, <1>2, PTL DEF Spec

\* No bws without a start record on disk, whatever is killed and whenever the
\* power fails; only the file as a whole can go.
THEOREM RunsAreAudited == Spec => []RanOnlyAudited
  <1>1. BrokerInv => RanOnlyAudited BY SMTT(20) DEF BrokerInv, RunInv, Trail, RanOnlyAudited
  <1> QED BY <1>1, BrokerInvariant, PTL

\* The audit file never contradicts what happened.
THEOREM AuditIsTrue == Spec => []AuditTellsTruth
  <1>1. BrokerInv => AuditTellsTruth BY DEF BrokerInv, RunInv, Trail, AuditTellsTruth
  <1> QED BY <1>1, BrokerInvariant, PTL

\* The client's exit code is the command's own or says that none was run.
THEOREM ExitIsTrue == Spec => []ExitTellsTruth
  <1>1. BrokerInv => ExitTellsTruth BY DEF BrokerInv, RunInv, ClientTruth, ExitTellsTruth
  <1> QED BY <1>1, BrokerInvariant, PTL

\* What a verdict of Run's checks says of the policy file as it was written.
Meaning(p, q, t, verdict) ==
    LET project == p.projects[q.project]
        listed == q.argv \in project.allow
    IN /\ verdict \in {"allow", "prompt", "deny"} =>
             q.project \in DOMAIN p.projects /\ sameWorkingDir(t, project.dir, q.dir)
       /\ verdict = "allow" => listed /\ project.approval \in {"prompt", "never", ""}
       /\ verdict = "prompt" => \/ project.approval = "always"
                                \/ project.approval = "allowlisted-prompt" /\ listed
                                \/ project.approval = "prompt" /\ ~listed
       /\ verdict = "deny" => ~listed /\ project.approval \in {"allowlisted-prompt", "never", ""}
       /\ verdict = "unknown_project" => q.project \notin DOMAIN p.projects
       /\ verdict = "working_directory_not_allowed" => q.project \in DOMAIN p.projects

\* Run's checks come to a verdict only where it is so.
LEMMA VerdictMeans ==
  ASSUME NEW p \in Policies, Loadable(p), NEW q, NEW t
  PROVE  Meaning(p, q, t, RunVerdict(applyDefaults(p), q, t))
  <1> USE DEF Meaning
  <1> DEFINE d == applyDefaults(p)
             verdict == RunVerdict(d, q, t)
  <1>1. CASE q.project \notin DOMAIN p.projects
    BY <1>1, DefaultsKeep DEF RunVerdict
  <1>2. CASE q.project \in DOMAIN p.projects
    <2> DEFINE project == p.projects[q.project]
               given == d.projects[q.project]
    <2>1. /\ given.allow = project.allow /\ given.dir = project.dir
          /\ given.approval = IF project.approval = "" THEN "never" ELSE project.approval
          /\ q.project \in DOMAIN d.projects
      BY <1>2, DefaultsKeep
    <2>2. given.dir # "" /\ given.approval \in Approvals
      BY <2>1 DEF Loadable, Parse, validate, ValidateWorker
    <2>3. verdict = IF ~sameWorkingDir(t, given.dir, q.dir) THEN "working_directory_not_allowed"
                    ELSE decide(given, q.argv)
      BY <2>1, <2>2 DEF RunVerdict
    <2>4. decide(given, q.argv) =
            IF given.approval = "always" THEN "prompt"
            ELSE IF q.argv \in project.allow
                 THEN IF given.approval = "allowlisted-prompt" THEN "prompt" ELSE "allow"
                 ELSE IF given.approval = "prompt" THEN "prompt" ELSE "deny"
      BY <2>1 DEF decide, Match
    <2> HIDE DEF d, verdict, given
    <2>5. CASE ~sameWorkingDir(t, given.dir, q.dir) BY <1>2, <2>3, <2>5 DEF verdict, d
    <2>6. CASE sameWorkingDir(t, given.dir, q.dir)
      <3>1. verdict = decide(given, q.argv) /\ sameWorkingDir(t, project.dir, q.dir) BY <2>1, <2>3, <2>6
      <3> HIDE DEF project
      <3>2. /\ verdict \in {"allow", "prompt", "deny"}
            /\ verdict = "allow" => q.argv \in project.allow /\ project.approval \in {"prompt", "never", ""}
            /\ verdict = "prompt" => \/ project.approval = "always"
                                     \/ project.approval = "allowlisted-prompt" /\ q.argv \in project.allow
                                     \/ project.approval = "prompt" /\ q.argv \notin project.allow
            /\ verdict = "deny" => q.argv \notin project.allow /\ project.approval \in {"allowlisted-prompt", "never", ""}
        BY <2>1, <2>2, <2>4, <3>1 DEF Approvals
      <3> QED BY <1>2, <2>6, <3>1, <3>2 DEF verdict, d, project
    <2> QED BY <2>5, <2>6
  <1> QED BY <1>1, <1>2

\* The verdicts that let bws run, as the policy file words them.
LEMMA AllowMeans ==
  ASSUME NEW p \in Policies, Loadable(p), NEW q, NEW t,
         RunVerdict(applyDefaults(p), q, t) = "allow"
  PROVE  /\ q.project \in DOMAIN p.projects
         /\ sameWorkingDir(t, p.projects[q.project].dir, q.dir)
         /\ q.argv \in p.projects[q.project].allow
         /\ p.projects[q.project].approval \in {"prompt", "never", ""}
  <1>1. Meaning(p, q, t, "allow") BY VerdictMeans
  <1> QED BY <1>1 DEF Meaning

\* ... and the one that asks first.
LEMMA PromptMeans ==
  ASSUME NEW p \in Policies, Loadable(p), NEW q, NEW t,
         RunVerdict(applyDefaults(p), q, t) = "prompt"
  PROVE  /\ q.project \in DOMAIN p.projects
         /\ sameWorkingDir(t, p.projects[q.project].dir, q.dir)
         /\ \/ p.projects[q.project].approval = "always"
            \/ /\ p.projects[q.project].approval = "allowlisted-prompt"
               /\ q.argv \in p.projects[q.project].allow
            \/ /\ p.projects[q.project].approval = "prompt"
               /\ q.argv \notin p.projects[q.project].allow
  <1>1. Meaning(p, q, t, "prompt") BY VerdictMeans
  <1> QED BY <1>1 DEF Meaning

\* DryRun's verdict is the translation of the one Run's checks come to.
LEMMA DryTranslates ==
  ASSUME NEW p, NEW q, NEW t
  PROVE  DryRunVerdict(p, q, t) =
            IF RunVerdict(p, q, t) = "allow" THEN "dry_allow"
            ELSE IF RunVerdict(p, q, t) = "prompt" THEN "dry_prompt" ELSE "dry_deny"
  BY DEF DryRunVerdict, RunVerdict, decide

\* bws runs only what the policy file that was read authorises, as written, in
\* the directory that was checked unless its path was re-pointed in between.
THEOREM RunsAreAuthorized == Spec => []RanOnlyAuthorized
  <1>1. ASSUME BrokerInv, NEW r \in Runs, started[r]
        PROVE  ~req[r].dry /\ cfg[r].sources = "worker" /\ Authorized(r)
    <2>1. /\ ~req[r].dry /\ Loadable(cfg[r]) /\ cfg[r] \in Policies
          /\ Verdict(r, "allow") \/ (Verdict(r, "prompt") /\ approved[r])
          /\ ranIn[r] = judged[r][req[r].dir] \/ moved[r]
      BY <1>1 DEF BrokerInv, TypeOK, RunInv, Judged, Placed
    <2>2. cfg[r].sources = "worker" BY <2>1, DefaultsKeep DEF Loadable, ValidateWorker
    <2>3. CASE Verdict(r, "allow")
      <3>1. RunVerdict(applyDefaults(cfg[r]), req[r], judged[r]) = "allow" BY <2>3 DEF Verdict
      <3>2. /\ req[r].project \in DOMAIN cfg[r].projects
            /\ sameWorkingDir(judged[r], cfg[r].projects[req[r].project].dir, req[r].dir)
            /\ req[r].argv \in cfg[r].projects[req[r].project].allow
            /\ cfg[r].projects[req[r].project].approval \in {"prompt", "never", ""}
        BY <2>1, <3>1, AllowMeans
      <3> QED BY <2>1, <2>2, <3>2 DEF Authorized, sameWorkingDir
    <2>4. CASE Verdict(r, "prompt") /\ approved[r]
      <3>1. RunVerdict(applyDefaults(cfg[r]), req[r], judged[r]) = "prompt" BY <2>4 DEF Verdict
      <3>2. /\ req[r].project \in DOMAIN cfg[r].projects
            /\ sameWorkingDir(judged[r], cfg[r].projects[req[r].project].dir, req[r].dir)
            /\ \/ cfg[r].projects[req[r].project].approval = "always"
               \/ /\ cfg[r].projects[req[r].project].approval = "allowlisted-prompt"
                  /\ req[r].argv \in cfg[r].projects[req[r].project].allow
               \/ /\ cfg[r].projects[req[r].project].approval = "prompt"
                  /\ req[r].argv \notin cfg[r].projects[req[r].project].allow
        BY <2>1, <3>1, PromptMeans
      <3> QED BY <2>1, <2>2, <2>4, <3>2 DEF Authorized, sameWorkingDir
    <2> QED BY <2>1, <2>3, <2>4
  <1>2. BrokerInv => RanOnlyAuthorized BY <1>1 DEF BrokerInv, RanOnlyAuthorized
  <1> QED BY <1>2, BrokerInvariant, PTL

\* A preflight under the same policy and request foretells the run.
THEOREM PreflightIsTrue == Spec => []PreflightForetells
  <1>1. ASSUME BrokerInv, NEW d \in Runs, NEW r \in Runs,
               req[d].dry, why[d] \in DryReasons,
               ~req[r].dry, cfg[r] = cfg[d], [req[d] EXCEPT !.dry = FALSE] = req[r]
        PROVE  /\ why[r] \in {"unknown_project", "not_allowlisted"} => why[d] = "dry_deny"
               /\ why[r] = "working_directory_not_allowed" /\ judged[r] = judged[d] => why[d] = "dry_deny"
               /\ why[d] = "dry_allow" => wpc[r] # "prompt" /\ why[r] # "approval_rejected"
               /\ why[d] = "dry_prompt" => (started[r] => approved[r])
    <2> DEFINE p == cfg[r]
               q == req[r]
               project == p.projects[q.project]
               listed == q.argv \in project.allow
    <2>1. /\ p \in Policies /\ Loadable(p) /\ cfg[d] = p
          /\ RunInv(r)
          /\ why[d] = DryRunVerdict(applyDefaults(p), req[d], judged[d])
      BY <1>1 DEF BrokerInv, TypeOK, RunInv, Judged
    <2>2. q.project = req[d].project /\ q.dir = req[d].dir /\ q.argv = req[d].argv
      <3>1. DOMAIN req[d] = {"project", "dir", "argv", "dry", "fits"}
        BY <1>1, BrokerAssumption DEF BrokerInv, TypeOK
      <3> QED BY <1>1, <3>1
    <2> DEFINE foretold == RunVerdict(applyDefaults(p), req[d], judged[d])
    <2>4. why[d] = IF foretold = "allow" THEN "dry_allow"
                   ELSE IF foretold = "prompt" THEN "dry_prompt" ELSE "dry_deny"
      BY <2>1, DryTranslates, SMTT(20)
    <2>5. foretold = RunVerdict(applyDefaults(p), q, judged[d])
      BY <2>2 DEF RunVerdict
    <2>6. ASSUME NEW t, NEW v, v = RunVerdict(applyDefaults(p), q, t)
          PROVE  /\ v \in {"allow", "prompt", "deny"} => q.project \in DOMAIN p.projects
                 /\ v = "allow" => listed /\ project.approval \in {"prompt", "never", ""}
                 /\ v = "prompt" => \/ project.approval = "always"
                                    \/ project.approval = "allowlisted-prompt" /\ listed
                                    \/ project.approval = "prompt" /\ ~listed
                 /\ v = "deny" => ~listed /\ project.approval \in {"allowlisted-prompt", "never", ""}
                 /\ v = "unknown_project" => q.project \notin DOMAIN p.projects
      <3>1. Meaning(p, q, t, v) BY <2>1, <2>6, VerdictMeans
      <3> QED BY <3>1 DEF Meaning
    <2> HIDE DEF p, q, project, listed
    <2>7. \A v : Verdict(r, v) => v = RunVerdict(applyDefaults(p), q, judged[r])
      BY DEF Verdict, p, q
    <2>8. why[r] \in {"unknown_project", "not_allowlisted"} => why[d] = "dry_deny"
      <3>1. CASE Verdict(r, "unknown_project") BY <2>4, <2>5, <2>6, <2>7, <3>1
      <3>2. CASE Verdict(r, "deny") BY <2>4, <2>5, <2>6, <2>7, <3>2
      <3> QED BY <2>1, <3>1, <3>2 DEF RunInv, Judged
    <2>9. why[r] = "working_directory_not_allowed" /\ judged[r] = judged[d] => why[d] = "dry_deny"
      <3>1. why[r] = "working_directory_not_allowed" => Verdict(r, "working_directory_not_allowed")
        BY <2>1 DEF RunInv, Judged
      <3> QED BY <2>4, <2>5, <2>7, <3>1
    <2>10. why[d] = "dry_allow" => ~Verdict(r, "prompt") BY <2>4, <2>5, <2>6, <2>7
    <2>11. why[d] = "dry_prompt" => ~Verdict(r, "allow") BY <2>4, <2>5, <2>6, <2>7
    <2>12. /\ wpc[r] = "prompt" \/ why[r] = "approval_rejected" => Verdict(r, "prompt")
           /\ started[r] => Verdict(r, "allow") \/ approved[r]
      BY <2>1 DEF RunInv, Judged
    <2> QED BY <2>8, <2>9, <2>10, <2>11, <2>12
  <1>2. BrokerInv => PreflightForetells BY <1>1 DEF PreflightForetells
  <1> QED BY <1>2, BrokerInvariant, PTL
===========================================================================
