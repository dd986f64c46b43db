# secrets-broker: TLA+ models, checks and proofs

`secrets-broker` lets an unprivileged user (or a program running as that user)
run an exact command with secrets from Bitwarden without ever holding the access
token. A worker process under another account keeps the token, judges each
request by a root-owned policy, asks a human when the policy says so, runs the
command and leaves an audit trail. This directory models the parts of that
system whose correctness depends on the order in which things happen, checks
the models with TLC on small instances, and proves with TLAPS, for instances of any
size, the safety of the approval path, of `secrets-broker run`, of policy administration
and the editing of the policy's text, of the diagnostics, of the web interface and of its
listener.

`PROJECT.json` is the index: components, runs, mutants, the map from definitions
to source lines, hazards, findings and theorems.

## 1. The system

| Part | Source | State | Operations that change it | Interacts with |
|---|---|---|---|---|
| Approval relay | `internal/relay`, `cmd/secrets-broker-relay` | in-memory table of requests with status and deadline | register, poll, decide, sweep, restart | approver (control port), human's browser (decision port) |
| Remote approver | `internal/approval` | one call: deadline, poll results, cause | register, poll, give up | relay, broker |
| Broker and worker | `internal/broker`, `internal/worker`, `internal/runner`, `internal/execx` | one process per invocation | read request, load policy, audit start, decide, approve, resolve token, launch, audit finish, reply | client (pipe), approver, audit file, policy file |
| Client | `internal/cli`, `internal/worker/client.go` | one process per invocation | start worker, read frames, exit | worker |
| Audit files | `internal/audit`, `internal/admin/audit.go` | JSON lines | append with sync | worker, administrator tools |
| Policy editor and recovery store | `internal/admin` | policy file and its text, recovery directory | create, metadata, approval, allow, disallow, remove, restore, list | other editors (flock), edits by hand, workers, power failures |
| Administrator web interface | `internal/adminweb` | form tokens, project list, stored checks | pages, posts, review, commit, checks, discovery | policy editor, browser |
| Peer listener | `internal/adminweb/listener_linux.go`, `run.go` | connection slots, two goroutines | activate, accept, refuse, close, shut down | systemd, tailscaled, HTTP server |
| Policy configuration | `internal/config`, `internal/policy` | none | parse, validate, match | worker |
| Diagnostics | `internal/admin/access.go`, `path.go`, `internal/worker/access.go`, `projects.go`, `internal/accessdiag`, `projectlist`, `boundedio` | two processes and bws | probe, classify, aggregate, report | administrator tools, audit file, policy file |
| Deployment scripts | `deploy`, `scripts` | installed files | install, upgrade | host |

What makes it hard: requests, answers and polls are lost, late and repeated, and
the relay forgets everything in a restart; a deadline races an answer; processes
are killed and hosts lose power between an audit record and the act it records;
the policy file is read by several processes and replaced under them; the web
interface checks a revision at one moment and acts at another; the policy is edited
as text, by patterns that know lines and not TOML; a program that is asked about
access may hang, be late, or print more than anybody keeps.

## 2. Modules

| Module | Models | Extends or composes |
|---|---|---|
| `RelayStore` | the relay's table, `store.go` | |
| `OneShotApproval` | abstract contract of remote approval | |
| `TailscaleApproval` | `Approve`, relay handlers, network, human | `RelayStore`; implements `OneShotApproval` |
| `AuditLog` | an append-only JSONL file with torn writes and fsync | |
| `BrokerRun` | `secrets-broker run`: client, worker, broker | `AuditLog`; the approver by its contract |
| `RecoveryStore` | the directory of recovery artifacts, `recovery.go` | |
| `PolicyFile` | `Editor`, `AuditedEditor`, what the command line reports | `AuditLog`, `RecoveryStore` |
| `PolicyText` | how `Editor` edits the text of the policy | |
| `AdminWeb` | `internal/adminweb` handlers | the editor by its contract (see `PolicyFile`) |
| `PeerListener` | the administrator socket: `listener_linux.go`, `Run` | |
| `AccessDiagnostic` | access check, project list, path check | `AuditLog` |
| `ApprovalProofs` | theorems about both | `TailscaleApproval`, which extends `RelayStore` |
| `AuditLogProofs` | lemmas about appends and power failures | `AuditLog` |
| `BrokerProofs` | theorems | `BrokerRun`, `AuditLogProofs` |
| `PolicyFileProofs` | theorems | `PolicyFile`, `AuditLogProofs` |
| `TextProofs` | theorems | `PolicyText` |
| `DiagnosticProofs` | theorems | `AccessDiagnostic`, `AuditLogProofs` |
| `WebProofs`, `ListenerProofs` | theorems | `AdminWeb`, `PeerListener` |
| `MC*` | instances for TLC | one per module |

**RelayStore.** `status[id]` and `left[id]` are the map entry's status and the
time to its deadline. Each method is one critical section and one action.
"Expired" is never stored, it is computed on reading, as in the code. `left` stops
counting at the last instant a comparison can tell apart, so time is unbounded.

**TailscaleApproval.** One call of `Approve` per id. `Begin`, `RegisterOK`,
`RegisterError`, `PollSend`, `PollDefinite`, `PollPending`, `PollError`, `CtxDone` are the
call's steps; `RelayRegister`, `RelayPoll`, `RelayDecide` the relay's handlers;
`Submit` the human, who only sees buttons for open requests. A registration can
be handled after the caller gave up, a poll's answer can be old when it is read,
and a decision POST can arrive late and repeatedly. `accepted` is a history
variable: the decisions acknowledged to the human.

**BrokerRun.** Each invocation has a client and a worker joined by a bounded pipe
of frames. Worker actions follow `Serve` and `Broker.Run` in order. `WorkerKilled`,
`ClientKilled` and `PowerLoss` can strike between any two steps; `AdminEdit` replaces
the policy. A worker decides by the policy it read (`cfg`), with the defaults and the
validation of `internal/config` applied to it; an approver's error counts as a denial.
`tree` is where each path leads, links resolved, and `Relink` changes it. `Run` compares two
paths by where they lead at that moment (`judged`), `Launch` starts bws where the requested path
leads when it starts (`ranIn`); `moved` (history) says that it was re-pointed between the two.

**AuditLog.** An append that fails may have written nothing, a part or the whole
line; a power failure keeps what was synced and any part of the rest. The file is new at the
start, and the code never syncs the directory that holds it, so a first power failure may take
the file away altogether; `lost` (history) holds the synced records that went with it.

**PolicyFile.** One audited operation per administrator. `file` is what the path
names: a generation (the inode), a content, and the operations applied (history);
`disk` is what survives a power failure. The lock belongs to a generation, as flock
belongs to an inode, so a waiter may obtain the lock of a replaced file. `HandEdit` is
root saving the file with an editor that knows nothing of the lock; `raced` (history) holds
the operations that are past their last check when it strikes, and those that one of them
overtakes in turn, because it replaces a file whose lock it does not have. `told` is what
the command line reports in the end. Artifacts found at the start may be anything; a restore
makes all the comparisons of `RestoreProject` (`Reproduces`).

**RecoveryStore.** `dir` and `dirDisk` are the names in the recovery directory now and
after a power failure. Publishing is four steps (temporary file, link, unlink, sync) and
each has the clean-up the code attempts, which may fail as well.

**PolicyText.** A text is a sequence of lines and a flag for the final newline; a line
keeps what the patterns and the parser tell apart: its kind, its value, whether the value
goes on in the next line, the comment on it (`note`; a comment line is a blank line with one),
and whether it is spelt as the patterns expect (`usual`; TOML also allows `[[ projects ]]`). The
projects may also be elements of an inline array. Each operation locates the project by patterns, splices lines,
parses the result (`Decode`, the part of TOML that matters here) and compares it with the
intended policy. Sequences of operations matter, because each has to find what the one
before wrote. A restore may name any artifact stored so far. `PolicyFile` takes the outcome of such an edit as a function of the parsed
policy, which is what `EditsAreExact` says of it. Filters are written with `Pick` rather than
with a recursive operator, so that the proofs can follow them.

**PeerListener.** `lpc` is the goroutine in `Serve` and `Accept`, `spc` the one that waits
for a signal. A connection is closed by its own goroutine, by `Shutdown`, or by both;
`calls` and `released` are the calls of `peerConn.Close` and its `sync.Once`. An activation may
fail before anything is accepted (`ActivateFails`), which leaves the connection queued. The HTTP
server is modelled as far as `Run` relies on it.

**AccessDiagnostic.** `apc` is the administrator's command, `wpc` the worker it starts as
another user, `child` the bws process. What bws prints is the set of phrases the
classifier looks for, and a length in units of the capture limit. The policy or the
directory changes at any moment, either process is killed, the power fails, printing and both
audit records fail. `truth` is a history variable: how each probe really ended.

**AdminWeb.** `req[h]` is a request's handler with everything it holds. Every read
of the policy is a step of its own; the editor's read-check-replace is one step, which
is what `NoLostUpdate` and `RevisionHonoured` say of `PolicyFile`. A revision is a
digest of the content, so contents stand for revisions, and a file that returns to
an earlier content returns to its revision; the history variable `recurred` records
that. Setting the reviewed change on the commit token is a second critical section in
the code; the token is not known to anybody before, so the two are one step here. A project
page takes over stored check results between issuing two groups of tokens (`PageChecks`);
`StoreOther` is a check of another project, which may evict this one's results. `taken` (history)
counts how often each token was found in the table: it is used up also when the form is posted
to another action's address or for another project.

## 3. What is checked

Every property of a passing run has a mutant, a plausible bug in a mapped
definition under which TLC finds the property violated.

| Run | Shows |
|---|---|
| `relay_store` | capacity is kept, closed requests stay closed, only stale entries are swept, the table drains |
| `approval` | no approval without an acknowledged human approval of that request; one answer per request; "rejected" and the relay's "expired" are true of what the human did; `Approve` returns; the composition implements `OneShotApproval` |
| `broker_pair` | nothing runs without a start record on disk; no finish record contradicts what happened; an exit code other than 125 means what it says; a dry run, whatever its verdict, foretells the run under the same policy |
| `broker_matrix` | only authorised requests start, for every kind of request and approval mode, one left out and files the worker refuses included, in the directory that was compared unless its path was re-pointed since; the client returns, but for the one state in which it no longer reads and the pipe is full |
| `policy_file` | no lost update, edits by hand included except in the window no code can close; browser edits apply to the policy shown; never an empty policy; the records "changed" and "no_change" and a reported success are true across crashes; a removal is recoverable; a restore is exact; a listing is blocked only by a removal that did not go through; administrators contending for the lock all finish |
| `policy_text` | an edit means exactly what was asked, or is refused; lines outside the project stay, and so do comments, except at the end of the two lines of a removed allowlist entry; a file in the editor's own layout stays editable; a restore, from any artifact, is carried out only on what the removal left, and undoes it byte for byte |
| `web_commit` | tokens are bounded and found at most once; pages show what their forms are bound to; what is committed is what was reviewed, confirmed where it widens |
| `web_checks` | readiness results stored for the current policy, or shown on a page of it, were obtained on it, with discovery and creation under way |
| `listener` | slots neither leak nor are released twice; only tailscaled is served, over a bounded number of connections; everybody queued gets an answer once the service starts; a signal stops the service |
| `diagnostics` | bounded capture is complete or known not to be; the aggregate is the worst status in any order; tables say what bws answered; exit status, audit file and table agree; no probe without a start record; the path check is true of a directory that did not change; every diagnostic ends |

### Bounds

* Two or three ids, invocations, administrators or connections: every property
  relates at most two actors and the shared state between them. `RelayStore` has
  three ids for a capacity of two, so that the table fills; `approval` has a capacity
  of one for a call and another client that registers and gives up, so that a
  registration is refused.
* State counts: `broker_pair` 2,136,377, `broker_matrix` 752,259, `policy_file` 233,427,
  `policy_text` 44,225, `web_commit` 1,231,871, `web_checks` 2,939,104, `listener` 21,396.
* `TTL`, `SweepAfter`, `Life` of one or two ticks: enough for "before", "at"
  and "after" of each comparison. `approval` has `Timeout = 3` and `TTL = 1`, so that a
  request expires at the relay, and is said to, while the call still polls, and a decision
  already on its way arrives after that.
* `PipeCap = 1`: the pipe is full after one frame, the worst case for blocking.
  `MaxOut` bounds output frames.
* `broker_matrix` and `broker_pair` divide the work. The former has one invocation, with all
  requests (`MatrixAsked`: the project's directory, a link, another one) and all policies,
  while the policy is replaced and the link is re-pointed or broken. The latter has two
  concurrent runs of one command, or a run and a dry run of the same request, listed or denied
  for each of the three reasons, under a policy that asks a human until an administrator replaces
  it by one that does not. Its action constraint (`ReplacedAfterPreflight`) allows the
  replacement only where a dry run takes part, which is where it makes a difference to a
  property of that run; the paths stay as they are there.
* `policy_file`: two operations, each kind against those it can collide with, on a policy
  of two projects and a recovery directory that holds the artifact of an earlier removal,
  so that a restore can race another operation, and one ("odd") that has the digest of the policy
  but stores one that differs in another project. Every property relates two operations.
* `policy_text`: `MaxOps = 3`, so that an edit meets the result of two others; texts with
  two projects in the editor's own layout and in layouts made by hand (an inline
  allowlist, a value or a command over two lines, a continuation that looks like a header,
  an approval in another table, other tables after the projects, keys and headers in another
  spelling, as many lines that look like headers as there are headers the pattern misses, an
  inline array), with a third project, with comments on lines of their own and behind headers
  and values, without an approval, and without a final newline.
* `listener`: `Cap = 2` with three trusted peers and a stranger, so that the slots run
  out; `Backlog = 2`; `MaxFaults = 2` signals, failing accepts and failing activations, so that
  the service is stopped and activated again.
* `diagnostics`: policies of one to three projects, one of them invalid; capture limits of
  two units with up to three written, so that the limit is reached and crossed;
  `MaxProjects = 2` against lists of three; one change of policy or directory.
* `AdminWeb`: `MaxTokens` (four or five: a page and a review, or two pages),
  `MaxEdits` (replacements by others, who write the contents in `Others`), `Limit` small
  enough that a page fails half-way. `web_commit` has the forms of the project page that
  change the policy, `web_checks` the others.
* Symmetry is used only in runs without liveness properties.

Runs of the broker, the policy, the web interface and the diagnostics allow deadlock,
because an instance ends when its invocations, operations or tokens are used up.

### Fairness

* `Approve`: clocks advance, the sweeper's ticker fires, and a request whose
  context has ended returns an error (weak fairness). `select` chooses at random among
  ready cases, so a `ctx.Done()` that stays ready is not passed over for ever: strong
  fairness of `CtxDone`. Nothing is assumed of network, relay or human.
* Broker: processes that can run do; the approver returns (shown for
  `TailscaleApproval`); the wrapped command terminates. No fairness for kills.
  (`CommandExit` has no outcome but the command's status: the worker sets neither an input nor
  a deadline, and a failing write to its own output kills it, so `Run` meets no other error
  between start and exit.)
* Policy file: an administrator's process that can take a step takes one, and flock wakes a
  waiter when the lock is free; that a waiting flock fails is possible and not relied on. No
  fairness for kills and power failures.
* Listener: goroutines that can run do, systemd activates the service for a queued
  connection and does so again if it failed to start (at most `MaxFaults` times, so that
  `QueueMoves` is about a service that starts in the end), and the 35 seconds of `Shutdown` pass. Every connection ends, by the
  timeouts `Run` sets and because handlers are bounded; this takes for granted that
  tailscaled does not keep one connection busy for ever.
* Diagnostics: both processes run when they can, the 30 seconds of a probe pass, and a
  killed bws ends. Nothing else is assumed of bws. (A descendant of bws that kept the
  pipe open would delay `exec.Cmd.Wait`; the model has none.)

## 4. What is proved

Every theorem holds for all values of the constants that the named assumptions allow; TLC
evaluates the assumptions on every run. Each safety invariant and action property of the
passing runs is a theorem, except one half of `StaysEditable` (see below).

| Module | Theorems | Assumes of the constants |
|---|---|---|
| `ApprovalProofs` | `StoreTyped`, `StoreStaysBounded`, `StoreKeepsClosed`, `StoreSparesLive` | `RelayAssumption`: finitely many ids, positive lifetime |
| | `ApprovalInvariant`, `ApprovalSafety`, `SingleAnswer`, `HonestCause`, `ApprovalRefinement` | and `ApproverAssumption`: positive timeout |
| `ListenerProofs` | `ListenerInvariant`, `SlotsStayAccounted` | `ListenerAssumption`: finitely many connections, positive capacity and backlog |
| `BrokerProofs` | `BrokerInvariant`, `RunsAreAudited`, `AuditIsTrue`, `ExitIsTrue`, `RunsAreAuthorized`, `PreflightIsTrue` | `BrokerAssumption`: requests and policies are records with their fields, and every directory tree knows the requested path |
| `PolicyFileProofs` | `PolicyInvariant`, `PolicyNeverEmpty`, `AdministrationIsAudited`, `RemovalsAreRecoverable`, `UpdatesAreNotLost`, `RevisionsAreHonoured`, `RestoresAreExact`, `ListingsAreExplained` | `PolicyAssumption`: the first policy has a project, operations are of a known kind, artifacts found at the start are of other operations |
| `TextProofs` | `TextInvariant`, `TextTyped`, `EditsMeanWhatWasAsked`, `LinesStay`, `RestoresUndoRemovals` | `TextAssumption`: the first texts are lists of lines that `config.Parse` and `ValidateWorker` accept; `LinesStay` also `Unmixed` |
| `DiagnosticProofs` | `DiagnosticInvariant`, `CaptureStaysHonest`, `TablesAreTrue`, `ExitsAreAudited`, `PathChecksAreTrue` | `DiagnosticAssumption`, `SayingAssumption`: policies list distinct projects, at least one; what bws prints is a set of the classifier's phrases; limits are natural numbers |
| `WebProofs` | `WebInvariant`, `TokensAreSound`, `PagesShowRevision`, `StoredChecksAreCurrent`, `ReviewedIsCommitted`, `WideningIsConfirmed` | `WebAssumption`: contents and inputs are records with their fields; `ContentsClosed`: what an edit makes of a content is a content |

Each module proves one inductive invariant and reads the properties off it. The step lemmas
have one case per action. Where many processes run, a frame lemma says what a step of one
leaves alone of another (`OthersKept`), so that the actions are taken apart once. The
invariants were checked with TLC on the instances of the runs before they were proved.
A leaf is first-order reasoning, left to Zenon, unless it names the SMT solver.

**Approval.** "Approved only if acknowledged" is not inductive. A call becomes approved by a
response in flight, the response was computed from the table, and the table may have
forgotten the request since. `ApprovalInv` therefore says that the table agrees with the
acknowledgements while it holds a request (`TableMatchesAnswers`), that a request never
created has neither entry nor acknowledgement (`UncreatedIsUnknown`), that a response in
flight agrees with the acknowledgements, which are never taken back (`ResponsesAreTrue`),
what a call that has not returned looks like (`CallProgress`), and that a request the relay once
called expired is closed for good (`ExpiryIsFinal`). `UncreatedIsUnknown`
is what rules out a second answer after a restart: an id is registered once, so a
forgotten request cannot be put to the human again. `ApprovalRefinement` defines the
question put to the human from table, registration and acknowledgements. The bound of the
table rests on the cardinality of a set with one element added.

**Listener.** That slots are accounted for needs to know that a connection waits in the queue
once (`QueueDistinct`), that only one is being accepted (`OneAccepted`), and how far each of
the two closers of a connection has come (`CloseProgress`): the slot is given back by the
one that passes the `sync.Once`, and the other does not return before.

**Broker.** `StageTruth` ties a worker's stage to its outcome, `Judged` to the verdict that the
policy it read gives (the policy file may have been replaced since), `Trail` to its audit
records: a durable start record from `decide` on, no finish record before the end, at most
one, and after a durable start record ("durable" here allows for the loss of the whole new file). `ClientTruth` says that a client that has exited
leaves no worker that could still run something. `VerdictMeans` translates the verdict back
to the policy as it was written, before `applyDefaults`. `Placed` follows the
requested path from the comparison to the start: it leads where it led when it was compared, and bws is
started there, unless it was re-pointed since.

**Policy administration.** The core is `ReadOK`: what an operation read is the content of the
file as long as the file has the generation the operation found, and an operation at its
rename, unless it is in `raced`, finds that generation. It is inductive with `LockOK` (two holders lock
different generations): an operation that has passed its check holds the lock of the
current generation, so only a hand edit can replace the file under it. Working out
this invariant showed that the effect of a hand edit is not confined to one operation: the
operation it overtakes replaces the file without holding its lock, and may overtake a third. `raced` is
defined accordingly, and `UpdatesAreNotLost` and `RestoresAreExact` except these operations
and no others. `DirOK` and `PublishedOK` follow an artifact from temporary name to durable
link; `RemovalsAreRecoverable` needs that nobody else takes or removes the name of an id,
which `NameOK` says. `TrailOK` and `OutcomeOK` relate outcome, report, records and the two
files.

**Policy text.** `TextInv` says that the file validates and that each artifact holds a text, the
text from which its project was removed, and what the removal made of it (`ArtifactOK`).
`EditsMeanWhatWasAsked` and `RestoresUndoRemovals` follow from the comparisons that the editor
makes before it writes, and from what listing a set of places in order (`Ascending`, `Pick`)
yields. `LinesStay` is about the patterns, and the interesting one. By the least
line at which it would fail, the parser holds as many projects as the lines so far hold headings
(`DecodeState`). A continuation may look like a heading to the pattern and is none to the
parser, so a file may have more matches than headings; when `projectBlockBounds` finds as many
matches as there are projects, they are exactly the headings (`HeadersBegin`), and the block it
returns is the project's. The pattern may also miss a heading, in another spelling or in an inline
array. A file with both, missed headings and as many lines that look like one, passes the comparison of
numbers with wrong blocks; the edit is then only stopped by the comparison of the parsed policies.
`LinesStay` assumes that no policy found at the start has both (`Unmixed`), which no edit changes; the
run also has policies with both. Each edit then carries the lines it keeps to
later or earlier places without changing their order, and what it loses or adds are lines within that
block, neither headings nor lines with a comment, unless they are of a removed allowlist entry (`Moved`,
`BlockKept`; `PatchKept`, `CutKept` and `SpliceKept` are its three instances; `CommentsCarried`). `MCPolicyText` compares `Pick` with `SelectSeq` (`PickFilters`).

**Diagnostics.** `WorkerOK` ties the rows collected so far to how each probe really ended,
`ReplyOK` the document on the pipe and the one accepted to the complete table, `AuditOK` the stages to
the records in the file. `Captured` says when the bounded buffer is full. `ClassifiedTruly`
shows what a status says of the answer it was derived from, `AggregateIsWorst` that the one pass
of `Aggregate` computes the worst status, by the least row at which it would not. `PathOK` says
what each stage of a path check knows of a directory that has not changed since it began.

**Web interface.** `TokenOK` says that a token in the table was never accepted, that its
revision was one of the file's, and that a commit token carries a change `Reviewed` against
that revision; `RequestOK` says the same of a request that has taken the token, and that
what it read after checking the revision is of that revision if the policy has it now.
Without the history `past` this is not inductive: a revision may return. `Without`, the
removal of an allowlist entry, is a filter written without recursion; `WithoutShorter` shows
that it makes the list shorter, and `MCAdminWeb` compares it with `SelectSeq` (`WithoutFilters`).

Only model-checked, and why:

* all liveness (`StoreDrains`, `ApproveReturns`, `ClientReturns`, `OperationsEnd`, `QueueMoves`,
  `SignalStops`, `DiagnosticEnds`): fairness and ENABLED are beyond the prover;
* that a policy in the editor's own layout is never refused, the second half of `StaysEditable`
  (the first is `TextTyped`). It needs a description of all texts that canonical texts become,
  and that the parser accepts each edit of such a text with the intended result: the
  correctness of the edits themselves, where the theorems show that an incorrect one is not
  written;
* `LinesKept` for policies outside `Unmixed`;
* the two properties of section 5, which do not hold.

## 5. Disagreements between code and documentation

Each is a run in which TLC violates the one property that states the quoted line.

| Run | What the code does | What is said |
|---|---|---|
| `broker_torn` | a record appended after a torn line shares its line | `jsonl.go:30`: "appends one JSON object per line" |
| `web_no_change` | a metadata change is dropped when the reviewed values come and go during the commit | `controls.go:252`: "No change needed. The policy already has these values." |

Met while modelling, and part of the models' behaviour, but not runs of their own:

* the cause "expired" is also given when an answer was acknowledged after the last
  poll (`CtxDone`), where `approver.go:25` says "the request was never answered in time";
* the cause "unreachable" is also given when the relay answers every poll with 404 or refuses
  the registration (`RegisterError`, `CtxDone`), where `approver.go:26` says "the approval
  mechanism could not be reached"; `CauseIsHonest` claims nothing of it;
* bws is started in the path as it was requested, which may have been re-pointed since it was
  compared (`Relink`, `Launch`), where `README.md:35` says "an exact, symlink-resolved working
  directory";
* a record is synced, the directory of a new audit file is not (`LoseFile`), so the first power
  failure after its creation may take the file with all records;
* a project page of a policy that was replaced meanwhile may show a readiness result obtained on
  the new one (`RunCheck`, `PageChecks`): the result is filed under the revision of the form;
* removing an allowlist entry removes the comments at the end of its two lines
  (`removeAllowEntries`);
* a removal is recorded and reported as failed when only the sync of the directory failed
  after the rename (`SyncDirectory`), where the failure table of decision 0019 says
  "Policy replacement | Unchanged". `AuditTellsTruth` claims nothing of "failed";
* a file saved by hand between an operation's last check and its rename is overwritten
  (`raced`), where decision 0019 says "Concurrent policy replacement | Concurrent writer
  wins";
* exit code 125 also follows a command that was started, if the worker is killed or
  output cannot be written (`ClientEOF`, `ClientWaited`), where `run.go:13` says "exitDenied
  means the worker refused to run anything"; codes 125 and 126 can also be the command's
  own. `ExitTellsTruth` says what can be concluded from a code;
* a dry run refused for its configuration is audited (`LoadConfig`, `RefuseStart`), where
  the help of `--dry-run` says "without approval, token access, execution, or audit".

The web properties that relate several reads of the file are stated for behaviours
in which no content comes back; `web_no_change` shows why.

## 6. Not modelled

* Header, origin and content-type checks of both HTTP servers, and owner and mode
  checks of files: they can only refuse, and refusals are alternatives of the actions.
* TOML beyond what the editor's patterns and its comparison tell apart, and the bytes
  within a line.
* HTML, terminal output, environment variables, quoting.
* Commands that only read and print: `projects list`, `projects show`, `allowlist list`, the
  worker's offline `check`, the web service's `check` and `validate`. They have no state and
  nothing runs beside them that their source takes into account.
* Dialog approver and fake approver: the worker requires the relay.
* Installation and upgrade scripts: sequences of external programs run by hand, without
  concurrency of their own. The upgrade compares each installed file with the verified
  bundle at its end and claims no atomicity before.

## 7. Plan

1. `AdminWeb` over `PolicyFile` as a refinement: the editor step implemented by the
   steps of an `Editor` with a revision, rather than taken by contract.
2. `BrokerRun` with `TailscaleApproval` in place of the contract, to show that the
   properties carry over.
3. The other half of `StaysEditable`: an invariant that describes the canonical layout, and
   the parser's result for each edit of a text that has it.
