------------------------- MODULE DiagnosticProofs -------------------------
(***************************************************************************)
(* The administrator's diagnostics for any policies, directories, answers  *)
(* of bws and limits: what is captured, what the table and the exit status *)
(* say, and what is in the audit file.                                     *)
(***************************************************************************)
EXTENDS AccessDiagnostic, AuditLogProofs, WellFoundedInduction

\* A leaf is first-order reasoning unless it calls the SMT solver.
USE ZenonT(20)

Asked == {c.alias : c \in Commands}
Configured == UNION {Range(p.projects) : p \in Policies}
Listed == UNION {Range(l.ids) : l \in Listings}
Names == Asked \cup Configured \cup Listed

Row == [alias : Names, status : Statuses \cup {"listed"}]
Answer == [alias : Names, code : {-1, 0, 1}, says : SUBSET Range(Phrases), late : BOOLEAN,
           cut : BOOLEAN]
Doc == [rows : Seq(Row), outcome : Outcomes]

Auditing == {"start", "invoke", "wait", "consume", "finish"}

\* The type invariant by the part of the state that a step leaves alone, sequences
\* and documents as a whole.
AdminTyped ==
    /\ apc \in Resting \cup PathSteps \cup Auditing
    /\ cmd \in Commands
    /\ result \subseteq Doc /\ consumed \in BOOLEAN
    /\ view \in [resolution : {"none", "resolved", "missing", "not_directory", "unresolvable"},
                 worker : BOOLEAN, runner : BOOLEAN, write : BOOLEAN]
    /\ exit \in {-1, 0, 1, 2}

WorldTyped ==
    /\ policy \in Policies /\ place \in Places
    /\ changes \in 0 .. MaxChanges /\ before \in 0 .. changes

WorkerTyped ==
    /\ wpc \in {"off", "load", "token", "next", "probe", "list", "encode", "failed", "exited"}
    /\ selected \in Seq(Names) /\ results \in Seq(Row) /\ truth \in Seq(Answer)
    /\ reply \in [exit : {-1, 0, 1, 2}, docs : SUBSET Doc, noise : BOOLEAN]

ChildTyped ==
    /\ child \in [state : {"off", "starting", "running", "ended", "unstarted"}, code : {-1, 0, 1},
                  says : SUBSET Range(Phrases), listing : Listings \cup {Quiet.listing}]
    /\ stderr \in [len : 0 .. StderrLimit, exceeded : BOOLEAN] /\ written \in Nat
    /\ timer \in {"off", "armed", "expired"}

LogTyped == LogTypeOK({1}, Outcomes \cup {"none", "failed"})

\* The buffer is full once something was dropped.
Captured ==
    /\ stderr.exceeded => stderr.len = StderrLimit /\ written > StderrLimit
    /\ ~stderr.exceeded => stderr.len = written

\* The kind of a command decides its stages; the worker starts once, and an exit
\* status is the end.
StageOK ==
    /\ apc \in PathSteps => cmd.kind = "path"
    /\ apc \in Auditing => cmd.kind # "path"
    /\ wpc # "off" => cmd.kind # "path"
    /\ apc \in {"idle", "start", "invoke"} => wpc = "off"
    /\ exit # -1 => apc = "done"

\* What TableIsTrue says of a row and the probe it stands for.
RowIsTrue(row, t) ==
    /\ row.alias = t.alias
    /\ row.status = "accessible" <=> t.code = 0 /\ ~t.late /\ cmd.kind = "check"
    /\ row.status = "inaccessible" => "404" \in t.says
    /\ row.status = "authentication_error" => t.says \cap {"401", "403", "auth"} # {}
    /\ row.status = "network_error" => t.late \/ t.says \cap {"401", "403", "404", "http"} = {}
    /\ row.status = "unknown_error" => t.says = {}
    /\ ~t.cut

Complete ==
    /\ Len(results) = Len(truth)
    /\ cmd.kind = "check" => Len(results) = Len(selected)

\* The worker's rows are true from the first probe on, and are as many as the
\* probes until one fails.
WorkerOK ==
    /\ wpc \in {"off", "load", "token", "list"} \/ (wpc = "next" /\ cmd.kind # "check") =>
          results = <<>> /\ truth = <<>>
    /\ wpc = "probe" => cmd.kind = "check" /\ Len(results) < Len(selected)
    /\ wpc = "list" => cmd.kind # "check"
    /\ cmd.kind = "check" /\ wpc \notin {"failed", "exited"} => Len(results) = Len(truth)
    /\ Len(results) <= Len(truth)
    /\ cmd.kind = "check" => Len(results) <= Len(selected)
    /\ \A i \in 1 .. Len(results) :
          /\ RowIsTrue(results[i], truth[i])
          /\ cmd.kind = "check" => /\ results[i].alias = selected[i]
                                   /\ results[i].status \in Statuses
    /\ wpc = "encode" => Complete

\* What the worker left behind is its table, and what was accepted is that.
ReplyOK ==
    /\ reply.docs # {} => wpc = "exited" /\ Complete /\ reply.docs = {Document}
    /\ result \subseteq reply.docs
    /\ \A d \in result : Validate(d)

Enterable == place.kind = "dir" /\ place.worker /\ place.runner

\* While the directory stays as it is, every stage of a path check knows it.
PathOK ==
    /\ changes = before =>
        /\ apc \in {"worker", "runner", "write"} => view.resolution = "resolved" /\ place.kind = "dir"
        /\ apc \in {"runner", "write"} => view.worker = place.worker
        /\ apc = "write" => view.runner /\ place.runner
        /\ apc = "report" => (Ready <=> Enterable)
    /\ PathIsTrue

\* Where a start record was on disk, and what an exit status comes with.
AuditOK ==
    /\ apc \in {"invoke", "wait", "consume", "finish"} => Secured(1, "start")
    /\ wpc # "off" \/ Entries(1, "finish") # {} => Secured(1, "start")
    /\ exit \in {0, 1} /\ cmd.kind # "path" =>
        /\ consumed /\ result # {}
        /\ \A d \in result :
              /\ exit = 0 <=> d.outcome \in {"all_accessible", "listed"}
              /\ \/ \E i \in Entries(1, "finish") : i <= synced /\ log[i].outcome = d.outcome
                 \/ <<1, "finish">> \in lost

DiagnosticInv ==
    /\ AdminTyped /\ WorldTyped /\ WorkerTyped /\ ChildTyped /\ LogTyped
    /\ Captured /\ StageOK /\ WorkerOK /\ ReplyOK /\ PathOK /\ AuditOK

---------------------------------------------------------------------------
(* Aggregate's loop.                                                       *)

Below == {p \in Nat \X Nat : p[1] < p[2]}

\* A property of some natural number holds of a least one: the induction
\* principle that what a loop computes is shown with.
LEMMA LeastNatural ==
  ASSUME NEW T, T \subseteq Nat, T # {}
  PROVE  \E n \in T : \A m \in T : n <= m
  <1>1. IsWellFoundedOn(Below, Nat) BY NatLessThanWellFounded DEF OpToRel, Below
  <1>2. PICK n \in T : \A m \in T : <<m, n>> \notin Below BY <1>1, WFMin
  <1>3. \A m \in T : <<m, n>> \in Nat \X Nat /\ n \in Nat /\ m \in Nat OBVIOUS
  <1>4. \A m \in T : ~(m < n) BY <1>2, <1>3 DEF Below
  <1> QED BY <1>3, <1>4, SMTT(30)

\* The values of Aggregate's variable worst before the loop and after each turn
\* over the first n rows.
Turns(rows, n, g) ==
    g = [i \in 0 .. n |-> IF i = 0 THEN "all_accessible" ELSE Worse(g[i - 1], rows[i].status)]

\* The loop is well defined for any number of rows.
LEMMA TurnsExist ==
  ASSUME NEW rows
  PROVE  \A n \in Nat : \E g : Turns(rows, n, g)
  <1> DEFINE Bad == {n \in Nat : ~ \E g : Turns(rows, n, g)}
  <1>1. SUFFICES ASSUME Bad # {} PROVE FALSE OBVIOUS
  <1>2. PICK n \in Bad : \A m \in Bad : n <= m BY <1>1, LeastNatural
  <1>3. n # 0
    <2>1. Turns(rows, 0, [i \in 0 .. 0 |-> "all_accessible"]) BY SMTT(30) DEF Turns
    <2> QED BY <2>1
  <1>4. n \in Nat /\ n - 1 \in Nat /\ n - 1 \notin Bad BY <1>2, <1>3, SMTT(30)
  <1>5. PICK g : Turns(rows, n - 1, g) BY <1>4
  <1> DEFINE h == [i \in 0 .. n |-> IF i = n THEN Worse(g[n - 1], rows[n].status) ELSE g[i]]
  <1>6. Turns(rows, n, h) BY <1>3, <1>4, <1>5, SMTT(30) DEF Turns
  <1> QED BY <1>6

\* Aggregate returns the value after the last row.
LEMMA AggregateTurns ==
  ASSUME NEW rows, Len(rows) \in Nat
  PROVE  \E g : Turns(rows, Len(rows), g) /\ Aggregate(rows) = g[Len(rows)]
  <1> DEFINE g == CHOOSE g : Turns(rows, Len(rows), g)
  <1>1. Turns(rows, Len(rows), g) BY TurnsExist
  <1>2. Aggregate(rows) = g[Len(rows)] BY DEF Aggregate, Turns
  <1> QED BY <1>1, <1>2

\* The order of decisions/0020, from harmless to worst.
Rank(s) ==
    CASE s \in {"accessible", "all_accessible"} -> 1
      [] s = "inaccessible" -> 2
      [] s = "unknown_error" -> 3
      [] s = "api_error" -> 4
      [] s = "network_error" -> 5
      [] s = "authentication_error" -> 6

Severities == Outcomes \ {"listed"}

\* A turn of the loop keeps the worse of the two.
LEMMA WorseIsWorse ==
  ASSUME NEW w \in Severities, NEW s \in Statuses
  PROVE  /\ Worse(w, s) \in Severities
         /\ Rank(w) \in 1 .. 6 /\ Rank(s) \in 1 .. 6
         /\ Rank(Worse(w, s)) >= Rank(w) /\ Rank(Worse(w, s)) >= Rank(s)
         /\ Worse(w, s) = w \/ Rank(Worse(w, s)) = Rank(s)
  BY SMTT(30) DEF Worse, Rank, Severities, Outcomes, Statuses

\* What the variable holds after k rows: the worst of them.
LEMMA TurnsWorst ==
  ASSUME NEW rows, NEW n \in Nat, \A i \in 1 .. n : rows[i].status \in Statuses,
         NEW g, Turns(rows, n, g), NEW k \in 0 .. n
  PROVE  /\ g[k] \in Severities
         /\ \A i \in 1 .. k : Rank(rows[i].status) <= Rank(g[k])
         /\ Rank(g[k]) = 1 \/ \E i \in 1 .. k : Rank(rows[i].status) = Rank(g[k])
  <1> DEFINE Holds(j) == /\ g[j] \in Severities
                         /\ \A i \in 1 .. j : Rank(rows[i].status) <= Rank(g[j])
                         /\ Rank(g[j]) = 1 \/ \E i \in 1 .. j : Rank(rows[i].status) = Rank(g[j])
             Bad == {j \in 0 .. n : ~Holds(j)}
  <1>1. SUFFICES ASSUME Bad # {} PROVE FALSE OBVIOUS
  <1>0. Bad \subseteq Nat BY SMTT(30)
  <1>2. PICK j \in Bad : \A m \in Bad : j <= m
    <2> HIDE DEF Bad
    <2> QED BY <1>0, <1>1, LeastNatural
  <1>3. g[0] = "all_accessible" BY SMTT(30) DEF Turns
  <1>4. j # 0
    <2>1. Holds(0) BY <1>3, SMTT(30) DEF Rank, Severities, Outcomes
    <2> QED BY <2>1
  <1>5. j \in 1 .. n /\ j - 1 \in 0 .. n /\ Holds(j - 1) BY <1>2, <1>4, SMTT(30)
  <1>6. g[j] = Worse(g[j - 1], rows[j].status) BY <1>5, SMTT(30) DEF Turns
  <1>7. /\ g[j] \in Severities
        /\ Rank(g[j - 1]) \in 1 .. 6 /\ Rank(rows[j].status) \in 1 .. 6
        /\ Rank(g[j]) >= Rank(g[j - 1]) /\ Rank(g[j]) >= Rank(rows[j].status)
        /\ g[j] = g[j - 1] \/ Rank(g[j]) = Rank(rows[j].status)
    BY <1>5, <1>6, WorseIsWorse
  <1>8. \A i \in 1 .. j : i = j \/ i \in 1 .. j - 1 BY <1>5, SMTT(30)
  <1>9. Rank(g[j]) \in 1 .. 6 BY <1>7 DEF Rank, Severities, Outcomes, Statuses
  <1>10. \A i \in 1 .. n : Rank(rows[i].status) \in 1 .. 6 BY SMTT(30) DEF Rank, Statuses
  <1>11. \A i \in 1 .. j : Rank(rows[i].status) <= Rank(g[j])
    BY <1>5, <1>7, <1>8, <1>9, <1>10, SMTT(30)
  <1>12. Rank(g[j]) = 1 \/ \E i \in 1 .. j : Rank(rows[i].status) = Rank(g[j])
    <2>1. CASE g[j] = g[j - 1] BY <1>5, <2>1, SMTT(30)
    <2>2. CASE Rank(g[j]) = Rank(rows[j].status) BY <1>5, <2>2, SMTT(30)
    <2> QED BY <1>7, <2>1, <2>2
  <1> QED BY <1>7, <1>11, <1>12
\* What Aggregate returns is an outcome, and "all_accessible" only if every row
\* is accessible.
LEMMA AggregateTyped ==
  ASSUME NEW rows, Len(rows) \in Nat, \A i \in 1 .. Len(rows) : rows[i].status \in Statuses
  PROVE  /\ Aggregate(rows) \in Severities
         /\ Aggregate(rows) = "all_accessible" =>
               \A i \in 1 .. Len(rows) : rows[i].status = "accessible"
  <1>1. PICK g : Turns(rows, Len(rows), g) /\ Aggregate(rows) = g[Len(rows)]
    BY AggregateTurns
  <1> DEFINE n == Len(rows)
  <1>2. /\ g[n] \in Severities
        /\ \A i \in 1 .. n : Rank(rows[i].status) <= Rank(g[n])
    BY <1>1, TurnsWorst, SMTT(30)
  <1>3. ASSUME g[n] = "all_accessible", NEW i \in 1 .. n PROVE rows[i].status = "accessible"
    <2>1. Rank(rows[i].status) <= 1 BY <1>2, <1>3 DEF Rank
    <2> QED BY <2>1, SMTT(30) DEF Rank, Statuses
  <1> QED BY <1>1, <1>2, <1>3

\* Computed in one pass, the outcome is the worst status of decisions/0020,
\* whatever the order of the projects.
LEMMA AggregateIsWorst ==
  ASSUME NEW rows, Len(rows) \in Nat, DOMAIN rows = 1 .. Len(rows),
         \A i \in 1 .. Len(rows) : rows[i].status \in Statuses
  PROVE  Aggregate(rows) = Worst(rows)
  <1> DEFINE n == Len(rows)
             order == <<"all_accessible", "inaccessible", "unknown_error", "api_error",
                        "network_error", "authentication_error">>
             rank(s) == IF s = "accessible" THEN 1 ELSE CHOOSE i \in DOMAIN order : order[i] = s
             ranks == {1} \cup {rank(rows[i].status) : i \in DOMAIN rows}
  <1>1. PICK g : Turns(rows, n, g) /\ Aggregate(rows) = g[n]
    BY AggregateTurns
  <1>2. /\ g[n] \in Severities
        /\ \A i \in 1 .. n : Rank(rows[i].status) <= Rank(g[n])
        /\ Rank(g[n]) = 1 \/ \E i \in 1 .. n : Rank(rows[i].status) = Rank(g[n])
    BY <1>1, TurnsWorst, SMTT(30)
  <1>3. DOMAIN order = 1 .. 6 BY SMTT(30)
  <1>4. \A s \in Statuses : rank(s) = Rank(s)
    BY <1>3, SMTT(30) DEF Rank, Statuses
  <1>5. \A s \in Severities : Rank(s) \in 1 .. 6 /\ order[Rank(s)] = s
    BY SMTT(30) DEF Rank, Severities, Outcomes, Statuses
  <1>6. \A i \in 1 .. n : Rank(rows[i].status) \in 1 .. 6 BY SMTT(30) DEF Rank, Statuses
  <1>7. /\ \A i \in 1 .. n : Rank(rows[i].status) \in ranks
        /\ \A q \in ranks : q = 1 \/ \E i \in 1 .. n : q = Rank(rows[i].status)
        /\ 1 \in ranks
    <2> HIDE DEF rank
    <2> QED BY <1>4
  <1>8. /\ Rank(g[n]) \in ranks /\ Rank(g[n]) \in Int
        /\ \A q \in ranks : q \in Int /\ q <= Rank(g[n])
    <2> HIDE DEF ranks
    <2> QED BY <1>2, <1>5, <1>6, <1>7, SMTT(30)
  <1>9. (CHOOSE r \in ranks : \A q \in ranks : q <= r) = Rank(g[n])
    <2> HIDE DEF ranks
    <2> DEFINE top == CHOOSE r \in ranks : \A q \in ranks : q <= r
    <2>1. top \in ranks /\ \A q \in ranks : q <= top BY <1>8
    <2> QED BY <1>8, <2>1, SMTT(30)
  <1>10. Worst(rows) = order[CHOOSE r \in ranks : \A q \in ranks : q <= r]
    BY DEF Worst
  <1> QED BY <1>1, <1>2, <1>5, <1>9, <1>10

---------------------------------------------------------------------------
(* classifyAccess.                                                         *)

\* The first phrase that bws printed decides.
LEMMA FirstPhrase ==
  ASSUME NEW says, says \subseteq Range(Phrases), says # {}
  PROVE  \E k \in 1 .. 6 : /\ Phrases[k] \in says
                           /\ \A j \in 1 .. k - 1 : Phrases[j] \notin says
                           /\ FirstOf(Phrases, says) = Meaning[Phrases[k]]
  <1> DEFINE found == {i \in DOMAIN Phrases : Phrases[i] \in says}
  <1>1. DOMAIN Phrases = 1 .. 6 BY SMTT(30) DEF Phrases
  <1>2. found \subseteq Nat /\ found \subseteq 1 .. 6 /\ found # {}
    BY <1>1, SMTT(30) DEF Range
  <1>3. PICK k \in found : \A j \in found : k <= j
    <2> HIDE DEF found
    <2> QED BY <1>2, LeastNatural
  <1>4. (CHOOSE i \in found : \A j \in found : i <= j) = k
    <2> HIDE DEF found
    <2> DEFINE first == CHOOSE i \in found : \A j \in found : i <= j
    <2>1. first \in found /\ \A j \in found : first <= j BY <1>3
    <2> HIDE DEF first
    <2>2. first <= k /\ k <= first BY <1>3, <2>1
    <2>3. first \in Nat /\ k \in Nat BY <1>2, <2>1
    <2>4. first = k BY <2>2, <2>3, SMTT(30)
    <2> QED BY <2>4 DEF first
  <1>5. FirstOf(Phrases, says) = Meaning[Phrases[k]] BY <1>4 DEF FirstOf
  <1>6. k \in 1 .. 6 /\ Phrases[k] \in says /\ \A j \in 1 .. k - 1 : Phrases[j] \notin says
    BY <1>1, <1>2, <1>3, SMTT(30)
  <1> QED BY <1>5, <1>6

\* A status says no more than what bws printed and how it exited.
LEMMA ClassifiedTruly ==
  ASSUME NEW code \in {-1, 0, 1}, NEW says, says \subseteq Range(Phrases),
         NEW s, s = classifyAccess(code, says)
  PROVE  /\ s \in Statuses
         /\ s = "accessible" <=> code = 0
         /\ s = "inaccessible" => "404" \in says
         /\ s = "authentication_error" => says \cap {"401", "403", "auth"} # {}
         /\ s = "network_error" => says \cap {"401", "403", "404", "http"} = {}
         /\ s = "unknown_error" => says = {}
  <1>1. CASE code = 0 \/ says = {} BY <1>1 DEF classifyAccess, Statuses
  <1>2. CASE code # 0 /\ says # {}
    <2>1. s = FirstOf(Phrases, says) BY <1>2 DEF classifyAccess
    <2>2. PICK k \in 1 .. 6 : /\ Phrases[k] \in says
                              /\ \A j \in 1 .. k - 1 : Phrases[j] \notin says
                              /\ s = Meaning[Phrases[k]]
      BY <1>2, <2>1, FirstPhrase
    <2>3. /\ Phrases[1] = "401" /\ Phrases[2] = "403" /\ Phrases[3] = "404"
          /\ Phrases[4] = "http" /\ Phrases[5] = "auth" /\ Phrases[6] = "network"
          /\ DOMAIN Phrases = 1 .. 6
      BY SMTT(30) DEF Phrases
    <2>4. Range(Phrases) = {"401", "403", "404", "http", "auth", "network"}
      BY <2>3, SMTT(30) DEF Range
    <2>5. /\ Meaning["401"] = "authentication_error" /\ Meaning["403"] = "authentication_error"
          /\ Meaning["404"] = "inaccessible" /\ Meaning["http"] = "api_error"
          /\ Meaning["auth"] = "authentication_error" /\ Meaning["network"] = "network_error"
      BY <2>4 DEF Meaning
    <2>6. CASE k \in 1 .. 5 BY <1>2, <2>2, <2>3, <2>5, <2>6, SMTT(30) DEF Statuses
    <2>7. CASE k = 6 BY <1>2, <2>2, <2>3, <2>5, <2>7, SMTT(30) DEF Statuses
    <2> QED BY <2>6, <2>7, SMTT(30)
  <1> QED BY <1>1, <1>2
---------------------------------------------------------------------------
(* The inductive step.                                                     *)

\* Names are what the sequences of the state are made of.
LEMMA NamesKnown ==
  /\ \A c \in Commands : c.alias \in Names
  /\ \A p \in Policies : p.projects \in Seq(Names)
  /\ \A l \in Listings \cup {Quiet.listing} : l.ids \in Seq(Names)
  <1>1. \A c \in Commands : c.alias \in Names BY DEF Names, Asked
  <1>2. ASSUME NEW p \in Policies PROVE p.projects \in Seq(Names)
    <2>1. p.projects \in Seq(Range(p.projects)) BY DiagnosticAssumption
    <2>2. Range(p.projects) \subseteq Configured BY DEF Configured
    <2>3. Range(p.projects) \subseteq Names BY <2>2 DEF Names
    <2> QED BY <2>1, <2>3, SMTT(30)
  <1>3. ASSUME NEW l \in Listings PROVE l.ids \in Seq(Names)
    <2>1. l.ids \in Seq(Range(l.ids)) BY DiagnosticAssumption
    <2>2. Range(l.ids) \subseteq Listed BY DEF Listed
    <2>3. Range(l.ids) \subseteq Names BY <2>2 DEF Names
    <2> QED BY <2>1, <2>3, SMTT(30)
  <1>4. Quiet.listing.ids = <<>> /\ <<>> \in Seq(Names) BY SMTT(30) DEF Quiet
  <1> QED BY <1>1, <1>2, <1>3, <1>4

\* Nothing is selected, probed, shown or recorded at first.
LEMMA InitInv == Init => DiagnosticInv
  <1> SUFFICES ASSUME Init PROVE DiagnosticInv
    OBVIOUS
  <1> USE DEF Init, LogInit
  <1>1. AdminTyped BY DEF AdminTyped, Resting, NotChecked
  <1>2. WorldTyped BY DiagnosticAssumption, SMTT(30) DEF WorldTyped
  <1>3. WorkerTyped BY SMTT(30) DEF WorkerTyped, NoReply
  <1>4. ChildTyped /\ Captured BY DiagnosticAssumption, SMTT(30) DEF ChildTyped, Quiet, Captured
  <1>5. LogTyped
    <2>1. log = <<>> /\ synced = 0 /\ named = FALSE /\ lost = {} OBVIOUS
    <2>2. /\ log \in Seq(Records({1}, Outcomes \cup {"none", "failed"}))
          /\ synced \in 0 .. Len(log)
      BY <2>1, SMTT(30)
    <2> QED BY <2>1, <2>2 DEF LogTyped, LogTypeOK
  <1>6. StageOK BY DEF StageOK, PathSteps, Auditing
  <1>7. WorkerOK BY SMTT(30) DEF WorkerOK
  <1>8. ReplyOK BY DEF ReplyOK, NoReply
  <1>9. PathOK BY SMTT(30) DEF PathOK, PathIsTrue
  <1>10. AuditOK BY SMTT(30) DEF AuditOK, Entries
  <1> QED BY <1>1, <1>2, <1>3, <1>4, <1>5, <1>6, <1>7, <1>8, <1>9, <1>10 DEF DiagnosticInv

\* A step of bws or of the clock disturbs only what is captured.
LEMMA ChildFrame ==
  ASSUME DiagnosticInv, UNCHANGED <<logVars, adminVars, worldVars, workerVars>>,
         ChildTyped', Captured'
  PROVE  DiagnosticInv'
  <1> USE DEF DiagnosticInv, logVars, adminVars, worldVars, workerVars
  <1>1. AdminTyped' /\ WorldTyped' /\ WorkerTyped' BY SMTT(30) DEF AdminTyped, WorldTyped, WorkerTyped
  <1>2. LogTyped' BY DEF LogTyped, LogTypeOK
  <1>3. StageOK' BY DEF StageOK
  <1>4. WorkerOK' BY DEF WorkerOK, RowIsTrue, Complete
  <1>5. ReplyOK' BY DEF ReplyOK, Complete, Document
  <1>6. PathOK' BY DEF PathOK, PathIsTrue, Ready, Enterable
  <1>7. AuditOK' BY SMTT(30) DEF AuditOK, Secured, Durable, Entries
  <1> QED BY <1>1, <1>2, <1>3, <1>4, <1>5, <1>6, <1>7

\* A step of the worker, once it runs, leaves the command and its records alone.
LEMMA WorkerFrame ==
  ASSUME DiagnosticInv, UNCHANGED <<logVars, adminVars, worldVars>>,
         wpc # "off", wpc' # "off",
         WorkerTyped', ChildTyped', Captured', WorkerOK', ReplyOK'
  PROVE  DiagnosticInv'
  <1> USE DEF DiagnosticInv, logVars, adminVars, worldVars
  <1>1. AdminTyped' /\ WorldTyped' BY DEF AdminTyped, WorldTyped
  <1>2. LogTyped' BY DEF LogTyped, LogTypeOK
  <1>3. StageOK' BY DEF StageOK
  <1>4. PathOK' BY DEF PathOK, PathIsTrue, Ready, Enterable
  <1>5. AuditOK' BY SMTT(30) DEF AuditOK, Secured, Durable, Entries
  <1> QED BY <1>1, <1>2, <1>3, <1>4, <1>5

\* A step of the command leaves bws, the policy and the directory alone.
LEMMA AdminFrame ==
  ASSUME DiagnosticInv, UNCHANGED <<worldVars, childVars, cmd, selected, results, reply, truth>>,
         AdminTyped', before' \in 0 .. changes, wpc' \in {wpc, "load"}, wpc' # wpc => wpc = "off",
         LogTyped', StageOK', ReplyOK', PathOK', AuditOK'
  PROVE  DiagnosticInv'
  <1> USE DEF DiagnosticInv, worldVars, childVars
  <1>1. WorldTyped' BY DEF WorldTyped
  <1>2. WorkerTyped' BY DEF WorkerTyped
  <1>3. ChildTyped' /\ Captured' BY DEF ChildTyped, Captured
  <1>4. WorkerOK'
    <2>1. CASE wpc' = wpc BY <2>1 DEF WorkerOK, RowIsTrue, Complete
    <2>2. CASE wpc' = "load" /\ wpc = "off" BY <2>2 DEF WorkerOK, RowIsTrue, Complete
    <2> QED BY <2>1, <2>2
  <1> QED BY <1>1, <1>2, <1>3, <1>4
\* bws starts, writes, exits or is killed: BufferWrite keeps the capture honest.
LEMMA ChildStep ==
  ASSUME DiagnosticInv, BWSStarts \/ BWSWrites \/ BWSExits \/ BWSKilled \/ Expire
  PROVE  DiagnosticInv'
  <1> USE DEF DiagnosticInv, ChildTyped, Captured
  <1>1. ChildTyped' /\ Captured'
    <2>1. CASE BWSStarts BY <2>1 DEF BWSStarts
    <2>2. CASE BWSWrites
      <3>1. PICK n \in 1 .. MaxWritten - written :
               written' = written + n /\ stderr' = BufferWrite(stderr, n, StderrLimit)
        BY <2>2 DEF BWSWrites
      <3>2. UNCHANGED <<child, timer>> /\ StderrLimit \in Nat /\ MaxWritten \in Nat
        BY <2>2, DiagnosticAssumption DEF BWSWrites
      <3>3. CASE StderrLimit - stderr.len < n
        <4>1. stderr' = [len |-> StderrLimit, exceeded |-> TRUE] BY <3>1, <3>3 DEF BufferWrite
        <4> QED BY <3>1, <3>2, <3>3, <4>1, SMTT(30)
      <3>4. CASE ~(StderrLimit - stderr.len < n)
        <4>1. stderr' = [stderr EXCEPT !.len = @ + n] BY <3>1, <3>4 DEF BufferWrite
        <4>2. ~stderr.exceeded BY <3>1, <3>2, <3>4, SMTT(30)
        <4> QED BY <3>1, <3>2, <3>4, <4>1, <4>2, SMTT(30)
      <3> QED BY <3>3, <3>4
    <2>3. CASE BWSExits
      <3>1. PICK code \in {0, 1}, says \in Sayings \cup {{}}, l \in Listings :
               child' = [state |-> "ended", code |-> code, says |-> says, listing |-> l]
        BY <2>3 DEF BWSExits
      <3>2. UNCHANGED <<stderr, timer, written>> BY <2>3 DEF BWSExits
      <3>3. says \in SUBSET Range(Phrases) BY SayingAssumption
      <3> QED BY <3>1, <3>2, <3>3
    <2>4. CASE BWSKilled BY <2>4 DEF BWSKilled
    <2>5. CASE Expire BY <2>5 DEF Expire
    <2> QED BY <2>1, <2>2, <2>3, <2>4, <2>5
  <1>2. UNCHANGED <<logVars, adminVars, worldVars, workerVars>>
    BY DEF BWSStarts, BWSWrites, BWSExits, BWSKilled, Expire
  <1> QED BY <1>1, <1>2, ChildFrame

\* Between two calls of bws nothing is captured.
LEMMA QuietChild ==
  ASSUME child' \in {Quiet, [Quiet EXCEPT !.state = "starting"]},
         timer' \in {"off", "armed"}, NoBuffer
  PROVE  ChildTyped' /\ Captured'
  BY DiagnosticAssumption, SMTT(30) DEF Quiet, NoBuffer, ChildTyped, Captured

\* The document the worker encodes has the shape its readers expect.
LEMMA DocumentTyped ==
  ASSUME DiagnosticInv
  PROVE  Document \in Doc
  <1> USE DEF DiagnosticInv
  <1>1. results \in Seq(Row) BY DEF WorkerTyped
  <1>2. CASE cmd.kind # "check" BY <1>1, <1>2 DEF Document, Doc, Outcomes
  <1>3. CASE cmd.kind = "check"
    <2>1. \A i \in 1 .. Len(results) : results[i].status \in Statuses BY <1>3 DEF WorkerOK
    <2>2. Len(results) \in Nat BY <1>1, SMTT(30)
    <2>3. Aggregate(results) \in Outcomes BY <2>1, <2>2, AggregateTyped DEF Severities
    <2> QED BY <1>1, <1>3, <2>3 DEF Document, Doc
  <1> QED BY <1>2, <1>3
\* The policy is read, the token is resolved, bws is started, and the last probe
\* was done: the rows stay as they are.
LEMMA WorkerMoves ==
  ASSUME DiagnosticInv, LoadPolicy \/ ResolveToken \/ RunBWS \/ ProbesDone
  PROVE  DiagnosticInv'
  <1> USE DEF DiagnosticInv
  <1>1. UNCHANGED <<logVars, adminVars, worldVars, results, reply, truth>>
    BY DEF LoadPolicy, ResolveToken, RunBWS, ProbesDone
  <1>2. cmd' = cmd /\ result' = result BY <1>1 DEF adminVars
  <1>3. wpc \in {"load", "token", "next"} /\ wpc' \in {"token", "failed", "next", "probe", "list", "encode"}
    BY DEF LoadPolicy, ResolveToken, RunBWS, ProbesDone
  <1>4. selected' \in Seq(Names) /\ (selected' # selected => wpc = "load")
    <2>1. CASE LoadPolicy
      <3>1. selected' \in {selected, policy.projects, <<cmd.alias>>} BY <2>1 DEF LoadPolicy
      <3>2. policy.projects \in Seq(Names) /\ <<cmd.alias>> \in Seq(Names)
        BY NamesKnown, SMTT(30) DEF WorldTyped, AdminTyped
      <3> QED BY <2>1, <3>1, <3>2 DEF LoadPolicy, WorkerTyped
    <2>2. CASE ~LoadPolicy BY <2>2 DEF ResolveToken, RunBWS, ProbesDone, WorkerTyped
    <2> QED BY <2>1, <2>2
  <1>5. WorkerTyped' BY <1>1, <1>3, <1>4 DEF WorkerTyped
  <1>6. ChildTyped' /\ Captured'
    <2>1. CASE RunBWS BY <2>1, QuietChild DEF RunBWS
    <2>2. CASE ~RunBWS
      <3>1. UNCHANGED childVars BY <2>2 DEF LoadPolicy, ResolveToken, ProbesDone
      <3> QED BY <3>1 DEF childVars, ChildTyped, Captured
    <2> QED BY <2>1, <2>2
  <1>7. WorkerOK'
    <2>1. CASE LoadPolicy \/ ResolveToken
      <3>1. results = <<>> /\ truth = <<>> /\ wpc' \in {"token", "next", "failed"}
        BY <2>1 DEF WorkerOK, LoadPolicy, ResolveToken
      <3>2. Len(selected') \in Nat BY <1>4, SMTT(30)
      <3> QED BY <1>1, <1>2, <3>1, <3>2, SMTT(30) DEF WorkerOK
    <2>2. CASE RunBWS \/ ProbesDone
      <3>1. /\ wpc = "next" /\ selected' = selected
            /\ wpc' = "probe" => cmd.kind = "check" /\ Len(results) < Len(selected)
            /\ wpc' = "list" => cmd.kind # "check"
            /\ wpc' = "encode" => cmd.kind = "check" /\ Len(results) = Len(selected)
            /\ wpc' \in {"probe", "list", "encode"}
        BY <2>2 DEF RunBWS, ProbesDone
      <3> QED BY <1>1, <1>2, <3>1 DEF WorkerOK, RowIsTrue, Complete
    <2> QED BY <2>1, <2>2
  <1>8. ReplyOK' BY <1>1, <1>2, <1>3 DEF ReplyOK
  <1> QED BY <1>1, <1>3, <1>5, <1>6, <1>7, <1>8, WorkerFrame

\* A probe returns: its row, if there is one, says what bws answered in time.
LEMMA ProbeStep ==
  ASSUME DiagnosticInv, ProbeReturns
  PROVE  DiagnosticInv'
  <1> USE DEF DiagnosticInv
  <1> DEFINE alias == selected[Len(results) + 1]
             t == [alias |-> alias, code |-> child.code, says |-> child.says,
                   late |-> timer = "expired", cut |-> written > StderrLimit]
  <1>1. /\ wpc = "probe" /\ cmd.kind = "check" /\ Ended
        /\ Len(results) < Len(selected) /\ Len(results) = Len(truth)
        /\ wpc' \in {"next", "failed"}
        /\ UNCHANGED <<logVars, adminVars, worldVars, selected, reply>>
        /\ truth' = Append(truth, t)
    BY DEF ProbeReturns, WorkerOK
  <1>2. cmd' = cmd /\ result' = result BY <1>1 DEF adminVars
  <1>3. selected \in Seq(Names) /\ results \in Seq(Row) /\ truth \in Seq(Answer) BY DEF WorkerTyped
  <1>4. alias \in Names BY <1>1, <1>3, SMTT(30)
  <1>5. child.code \in {-1, 0, 1} /\ child.says \subseteq Range(Phrases) BY DEF ChildTyped
  <1>0. /\ (written > StderrLimit) \in BOOLEAN
        /\ ~stderr.exceeded => ~(written > StderrLimit)
    BY DiagnosticAssumption, SMTT(30) DEF ChildTyped, Captured
  <1>6. t \in Answer BY <1>0, <1>4, <1>5 DEF Answer
  <1>7. ChildTyped' /\ Captured' BY QuietChild DEF ProbeReturns
  <1>8. ASSUME NEW s \in ProbeStatus
        PROVE  s \in Statuses /\ RowIsTrue([alias |-> alias, status |-> s], t)
    <2>0. ~(written > StderrLimit) BY <1>0, <1>8 DEF ProbeStatus
    <2>1. CASE timer = "expired"
      <3>1. s = "network_error" BY <1>8, <2>1 DEF ProbeStatus
      <3> QED BY <2>0, <2>1, <3>1 DEF RowIsTrue, Statuses
    <2>2. CASE timer # "expired"
      <3>1. s = classifyAccess(child.code, child.says) BY <1>8, <2>2 DEF ProbeStatus
      <3>2. /\ s \in Statuses
            /\ s = "accessible" <=> child.code = 0
            /\ s = "inaccessible" => "404" \in child.says
            /\ s = "authentication_error" => child.says \cap {"401", "403", "auth"} # {}
            /\ s = "network_error" => child.says \cap {"401", "403", "404", "http"} = {}
            /\ s = "unknown_error" => child.says = {}
        BY <1>5, <3>1, ClassifiedTruly
      <3> QED BY <1>1, <2>0, <2>2, <3>2 DEF RowIsTrue
    <2> QED BY <2>1, <2>2
  <1> HIDE DEF t, alias
  <1>9. /\ truth' \in Seq(Answer) /\ Len(truth') = Len(truth) + 1
        /\ \A i \in 1 .. Len(truth) : truth'[i] = truth[i]
        /\ truth'[Len(truth) + 1] = t
    BY <1>1, <1>3, <1>6, SMTT(30)
  <1>10. CASE wpc' = "next"
    <2>1. PICK s \in ProbeStatus : results' = Append(results, [alias |-> alias, status |-> s])
      BY <1>10 DEF ProbeReturns, alias
    <2> DEFINE row == [alias |-> alias, status |-> s]
    <2>2. row \in Row /\ row.alias = alias /\ row.status = s BY <1>4, <1>8 DEF Row
    <2>3. RowIsTrue(row, t) /\ s \in Statuses BY <1>8
    <2> HIDE DEF row
    <2>4. /\ results' \in Seq(Row) /\ Len(results') = Len(results) + 1
          /\ \A i \in 1 .. Len(results) : results'[i] = results[i]
          /\ results'[Len(results) + 1] = row
      BY <1>3, <2>1, <2>2, SMTT(30) DEF row
    <2>5. WorkerTyped' BY <1>1, <1>9, <2>4 DEF WorkerTyped
    <2>6. \A i \in 1 .. Len(results') :
             /\ RowIsTrue(results'[i], truth'[i])
             /\ results'[i].alias = selected[i] /\ results'[i].status \in Statuses
      <3>1. \A i \in 1 .. Len(results') : i \in 1 .. Len(results) \/ i = Len(results) + 1
        BY <1>3, <2>4, SMTT(30)
      <3>2. \A i \in 1 .. Len(results) :
               /\ RowIsTrue(results'[i], truth'[i])
               /\ results'[i].alias = selected[i] /\ results'[i].status \in Statuses
        BY <1>1, <1>9, <2>4 DEF WorkerOK
      <3>3. /\ RowIsTrue(results'[Len(results) + 1], truth'[Len(results) + 1])
            /\ results'[Len(results) + 1].alias = selected[Len(results) + 1]
            /\ results'[Len(results) + 1].status \in Statuses
        BY <1>1, <1>9, <2>2, <2>3, <2>4 DEF alias
      <3> QED BY <3>1, <3>2, <3>3
    <2>7. \A i \in 1 .. Len(results') : RowIsTrue(results[i], truth[i])' BY <1>2, <2>6 DEF RowIsTrue
    <2>8. Len(results) \in Nat /\ Len(selected) \in Nat BY <1>3, SMTT(30)
    <2>9. WorkerOK' BY <1>1, <1>2, <1>9, <1>10, <2>4, <2>6, <2>7, <2>8, SMTT(30) DEF WorkerOK
    <2>10. ReplyOK' BY <1>1, <1>2 DEF ReplyOK
    <2> QED BY <1>1, <1>7, <1>10, <2>5, <2>9, <2>10, WorkerFrame
  <1>11. CASE wpc' = "failed"
    <2>1. UNCHANGED results BY <1>11 DEF ProbeReturns
    <2>2. WorkerTyped' BY <1>1, <1>9, <2>1, <1>11 DEF WorkerTyped
    <2>3. Len(results) \in Nat /\ Len(truth) \in Nat BY <1>3, SMTT(30)
    <2>4. \A i \in 1 .. Len(results) : RowIsTrue(results[i], truth[i])'
      BY <1>1, <1>2, <1>9, <2>1 DEF WorkerOK, RowIsTrue
    <2>5. WorkerOK' BY <1>1, <1>2, <1>9, <1>11, <2>1, <2>3, <2>4, SMTT(30) DEF WorkerOK
    <2>6. ReplyOK' BY <1>1, <1>2 DEF ReplyOK
    <2> QED BY <1>1, <1>7, <1>11, <2>2, <2>5, <2>6, WorkerFrame
  <1> QED BY <1>1, <1>10, <1>11
\* The positions of a sequence.
LEMMA Positions ==
  ASSUME NEW S, NEW s \in Seq(S)
  PROVE  Len(s) \in Nat /\ DOMAIN s = 1 .. Len(s)
  BY SMTT(30)

\* A function over the positions of a sequence is one of the same length.
LEMMA SameLength ==
  ASSUME NEW S, NEW T, NEW s \in Seq(S), NEW f \in [DOMAIN s -> T]
  PROVE  f \in Seq(T) /\ Len(f) = Len(s)
  <1>1. Len(s) \in Nat /\ DOMAIN s = 1 .. Len(s) BY Positions
  <1>2. f \in Seq(T) BY <1>1, SMTT(30)
  <1>3. Len(f) \in Nat /\ DOMAIN f = 1 .. Len(f) BY <1>2, Positions
  <1>4. 1 .. Len(f) = 1 .. Len(s) BY <1>1, <1>3
  <1> QED BY <1>1, <1>2, <1>3, <1>4, SMTT(30)

\* A list is returned or refused: its rows are the ids that bws printed.
LEMMA ListStep ==
  ASSUME DiagnosticInv, ListReturns
  PROVE  DiagnosticInv'
  <1> USE DEF DiagnosticInv
  <1> DEFINE ids == child.listing.ids
  <1>1. /\ wpc = "list" /\ cmd.kind # "check" /\ wpc' \in {"encode", "failed"}
        /\ UNCHANGED <<logVars, adminVars, worldVars, selected, reply>>
        /\ truth' = [i \in DOMAIN ids |-> [alias |-> ids[i], code |-> child.code, says |-> {},
                                           late |-> FALSE, cut |-> written > StderrLimit]]
    BY DEF ListReturns, WorkerOK
  <1>2. cmd' = cmd /\ result' = result BY <1>1 DEF adminVars
  <1>3. ids \in Seq(Names) /\ child.code \in {-1, 0, 1} BY NamesKnown DEF ChildTyped
  <1>4. truth' \in Seq(Answer) /\ Len(truth') = Len(ids)
    <2>1. \A i \in DOMAIN ids : [alias |-> ids[i], code |-> child.code, says |-> {},
                                  late |-> FALSE, cut |-> written > StderrLimit] \in Answer
      BY <1>3, SMTT(30) DEF Answer
    <2>2. truth' \in [DOMAIN ids -> Answer] BY <1>1, <2>1
    <2> QED BY <1>3, <2>2, SameLength, SMTT(30)
  <1>5. ChildTyped' /\ Captured' BY QuietChild DEF ListReturns
  <1>6. ReplyOK' BY <1>1, <1>2 DEF ReplyOK
  <1>7. CASE wpc' = "encode"
    <2>0. ~(written > StderrLimit)
      <3>1. ~stderr.exceeded BY <1>7 DEF ListReturns
      <3> QED BY <3>1, DiagnosticAssumption, SMTT(30) DEF ChildTyped, Captured
    <2>1. results' = Rows(ids, "listed") BY <1>7, SMTT(30) DEF ListReturns, FromBWS
    <2>2. results' \in Seq(Row) /\ Len(results') = Len(ids)
      <3>1. results' \in [DOMAIN ids -> Row] BY <1>3, <2>1, SMTT(30) DEF Rows, Row
      <3> QED BY <1>3, <3>1, SameLength, SMTT(30)
    <2>3. WorkerTyped' BY <1>1, <1>4, <2>2 DEF WorkerTyped
    <2>4. ASSUME NEW i \in 1 .. Len(results') PROVE RowIsTrue(results[i], truth[i])'
      <3>1. i \in DOMAIN ids BY <1>3, <2>2, <2>4, SMTT(30)
      <3>2. results'[i] = [alias |-> ids[i], status |-> "listed"] BY <2>1, <3>1 DEF Rows
      <3>3. truth'[i].alias = ids[i] /\ ~truth'[i].cut BY <1>1, <2>0, <3>1
      <3>4. results'[i].alias = ids[i] /\ results'[i].status = "listed" BY <3>2, SMTT(30)
      <3>5. cmd'.kind # "check" BY <1>1, <1>2
      <3> QED BY <3>3, <3>4, <3>5 DEF RowIsTrue
    <2>5. Len(results') \in Nat BY <2>2, SMTT(30)
    <2>6. Len(results') = Len(truth') BY <1>4, <2>2
    <2>7. \A i \in 1 .. Len(results') : RowIsTrue(results[i], truth[i])' BY <2>4
    <2>8. cmd'.kind # "check" BY <1>1, <1>2
    <2>9. WorkerOK' BY <1>7, <2>5, <2>6, <2>7, <2>8, SMTT(30) DEF WorkerOK, Complete
    <2> QED BY <1>1, <1>5, <1>6, <2>3, <2>9, WorkerFrame
  <1>8. CASE wpc' = "failed"
    <2>1. results' = results /\ results = <<>> BY <1>1, <1>8 DEF ListReturns, WorkerOK
    <2>2. WorkerTyped' BY <1>1, <1>4, <1>8, <2>1 DEF WorkerTyped
    <2>3. Len(truth') \in Nat BY <1>4, SMTT(30)
    <2>4. WorkerOK' BY <1>1, <1>2, <1>8, <2>1, <2>3, SMTT(30) DEF WorkerOK
    <2> QED BY <1>1, <1>5, <1>6, <2>2, <2>4, WorkerFrame
  <1> QED BY <1>1, <1>7, <1>8
\* The worker ends: it leaves its table, or part of nothing, behind.
LEMMA WorkerEnds ==
  ASSUME DiagnosticInv, Encode \/ WorkerFails \/ WorkerKilled
  PROVE  DiagnosticInv'
  <1> USE DEF DiagnosticInv
  <1>1. /\ wpc \notin {"off", "exited"} /\ wpc' = "exited"
        /\ UNCHANGED <<logVars, adminVars, worldVars, selected, results, truth>>
    BY DEF Encode, WorkerFails, WorkerKilled
  <1>2. cmd' = cmd /\ result' = result BY <1>1 DEF adminVars
  <1>3. reply.docs = {} /\ result = {} BY <1>1 DEF ReplyOK
  <1>4. /\ reply'.docs = {} \/ (reply'.docs = {Document} /\ wpc = "encode")
        /\ reply'.exit \in {-1, 0, 1, 2} /\ reply'.noise \in BOOLEAN
        /\ reply' = [exit |-> reply'.exit, docs |-> reply'.docs, noise |-> reply'.noise]
    <2>1. CASE Encode BY <2>1 DEF Encode, ExitCode
    <2>2. CASE WorkerFails BY <2>2 DEF WorkerFails
    <2>3. CASE WorkerKilled BY <2>3, SMTT(30) DEF WorkerKilled
    <2> QED BY <2>1, <2>2, <2>3
  <1>5. reply' \in [exit : {-1, 0, 1, 2}, docs : SUBSET Doc, noise : BOOLEAN]
    BY <1>4, DocumentTyped
  <1>6. WorkerTyped' BY <1>1, <1>5 DEF WorkerTyped
  <1>7. ChildTyped' /\ Captured'
    <2>1. CASE WorkerKilled BY <2>1, QuietChild DEF WorkerKilled
    <2>2. CASE ~WorkerKilled
      <3>1. UNCHANGED childVars BY <2>2 DEF Encode, WorkerFails
      <3> QED BY <3>1 DEF childVars, ChildTyped, Captured
    <2> QED BY <2>1, <2>2
  <1>8. WorkerOK' BY <1>1, <1>2 DEF WorkerOK, RowIsTrue
  <1>9. ReplyOK'
    <2>1. Document' = Document BY <1>1, <1>2 DEF Document
    <2>2. wpc = "encode" => Complete' BY <1>1, <1>2 DEF WorkerOK, Complete
    <2> QED BY <1>1, <1>2, <1>3, <1>4, <2>1, <2>2 DEF ReplyOK
  <1> QED BY <1>1, <1>6, <1>7, <1>8, <1>9, WorkerFrame
\* Only the document that the worker left behind is accepted, and its outcome is
\* a record's.
LEMMA AcceptedFacts ==
  ASSUME DiagnosticInv
  PROVE  /\ Accepted \subseteq reply.docs /\ Accepted \subseteq Doc
         /\ \A d \in Accepted : Validate(d)
  BY DEF DiagnosticInv, WorkerTyped, Accepted

\* A command begins, starts its worker, takes its document, prints it, or is killed:
\* the audit file and the exit status stay, but for the refusal of one who is not root.
LEMMA CommandMoves ==
  ASSUME DiagnosticInv, Begin \/ Invoke \/ Collect \/ Consume \/ AdminKilled
  PROVE  DiagnosticInv'
  <1> USE DEF DiagnosticInv
  <1>1. UNCHANGED <<logVars, worldVars, childVars, cmd, selected, results, reply, truth, view, before>>
    BY DEF Begin, Invoke, Collect, Consume, AdminKilled, workerVars
  <1>2. UNCHANGED <<log, synced, named, lost, policy, place, changes>> BY <1>1 DEF logVars, worldVars
  <1>3. LogTyped' BY <1>2 DEF LogTyped, LogTypeOK
  <1>4. before' \in 0 .. changes BY <1>1 DEF WorldTyped
  <1>5. /\ \A e : Entries(1, e)' = Entries(1, e)
        /\ \A e : Secured(1, e)' <=> Secured(1, e)
        /\ UNCHANGED <<log, synced, lost>>
    BY <1>2 DEF Entries, Durable, Secured
  <1>6. CASE Begin
    <2>1. UNCHANGED <<wpc, result, consumed>> BY <1>6 DEF Begin, workerVars
    <2>2. apc = "idle" /\ exit = -1 /\ wpc = "off" BY <1>6 DEF Begin, StageOK
    <2>3. \/ apc' = (IF cmd.kind = "path" THEN "lookup" ELSE "start") /\ exit' = exit
          \/ apc' = "done" /\ exit' = 2
      BY <1>6 DEF Begin
    <2>4. AdminTyped' BY <1>1, <2>1, <2>2, <2>3 DEF AdminTyped, Resting, PathSteps, Auditing
    <2>5. StageOK' BY <1>1, <2>1, <2>2, <2>3 DEF StageOK, PathSteps, Auditing
    <2>6. ReplyOK' BY <1>1, <2>1 DEF ReplyOK, Complete, Document
    <2>7. PathOK' BY <1>1, <1>2, <2>2, <2>3, SMTT(30) DEF PathOK, PathIsTrue
    <2>8. AuditOK' BY <1>5, <2>1, <2>2, <2>3, SMTT(30) DEF AuditOK
    <2> QED BY <1>1, <1>3, <1>4, <2>1, <2>4, <2>5, <2>6, <2>7, <2>8, AdminFrame
  <1>7. CASE Invoke
    <2>1. UNCHANGED <<result, consumed, exit>> BY <1>7 DEF Invoke
    <2>2. apc = "invoke" /\ wpc = "off" /\ exit = -1 /\ cmd.kind # "path" /\ Secured(1, "start")
      BY <1>7 DEF Invoke, StageOK, AuditOK, Auditing
    <2>3. (apc' = "wait" /\ wpc' = "load") \/ (apc' = "finish" /\ wpc' = wpc) BY <1>7 DEF Invoke
    <2>4. AdminTyped' BY <1>1, <2>1, <2>3 DEF AdminTyped, Auditing
    <2>5. StageOK' BY <1>1, <2>1, <2>2, <2>3 DEF StageOK, PathSteps
    <2>6. ReplyOK' BY <1>1, <2>1, <2>2 DEF ReplyOK
    <2>7. PathOK' BY <1>1, <1>2, <2>1, <2>2, <2>3 DEF PathOK, PathIsTrue
    <2>8. AuditOK' BY <1>5, <2>1, <2>2, SMTT(30) DEF AuditOK
    <2> QED BY <1>1, <1>3, <1>4, <2>2, <2>3, <2>4, <2>5, <2>6, <2>7, <2>8, AdminFrame
  <1>8. CASE Collect
    <2>1. UNCHANGED <<wpc, consumed, exit>> /\ result' = Accepted BY <1>8 DEF Collect, workerVars
    <2>2. apc = "wait" /\ exit = -1 /\ cmd.kind # "path" /\ Secured(1, "start")
      BY <1>8 DEF Collect, StageOK, AuditOK, Auditing
    <2>3. apc' \in {"finish", "consume"} BY <1>8 DEF Collect
    <2>4. AdminTyped' BY <1>1, <2>1, <2>3, AcceptedFacts, SMTT(30) DEF AdminTyped, Auditing
    <2>5. StageOK' BY <1>1, <2>1, <2>2, <2>3 DEF StageOK, PathSteps
    <2>6. ReplyOK' BY <1>1, <2>1, AcceptedFacts DEF ReplyOK, Complete, Document
    <2>7. PathOK' BY <1>1, <1>2, <2>1, <2>2, <2>3 DEF PathOK, PathIsTrue
    <2>8. AuditOK' BY <1>5, <2>1, <2>2, SMTT(30) DEF AuditOK
    <2> QED BY <1>1, <1>3, <1>4, <2>1, <2>4, <2>5, <2>6, <2>7, <2>8, AdminFrame
  <1>9. CASE Consume
    <2>1. UNCHANGED <<wpc, result, exit>> /\ consumed' \in BOOLEAN BY <1>9 DEF Consume, workerVars
    <2>2. apc = "consume" /\ exit = -1 /\ cmd.kind # "path" /\ Secured(1, "start")
      BY <1>9 DEF Consume, StageOK, AuditOK, Auditing
    <2>3. apc' = "finish" BY <1>9 DEF Consume
    <2>4. AdminTyped' BY <1>1, <2>1, <2>3 DEF AdminTyped, Auditing
    <2>5. StageOK' BY <1>1, <2>1, <2>2, <2>3 DEF StageOK, PathSteps
    <2>6. ReplyOK' BY <1>1, <2>1 DEF ReplyOK, Complete, Document
    <2>7. PathOK' BY <1>1, <1>2, <2>1, <2>2, <2>3 DEF PathOK, PathIsTrue
    <2>8. AuditOK' BY <1>5, <2>1, <2>2, SMTT(30) DEF AuditOK
    <2> QED BY <1>1, <1>3, <1>4, <2>1, <2>4, <2>5, <2>6, <2>7, <2>8, AdminFrame
  <1>10. CASE AdminKilled
    <2>1. UNCHANGED <<wpc, result, consumed, exit>> BY <1>10 DEF AdminKilled, workerVars
    <2>2. apc' = "dead" /\ exit = -1 BY <1>10 DEF AdminKilled, StageOK, Resting
    <2>3. AdminTyped' BY <1>1, <2>1, <2>2 DEF AdminTyped, Resting
    <2>4. StageOK' BY <1>1, <2>1, <2>2 DEF StageOK, PathSteps, Auditing
    <2>5. ReplyOK' BY <1>1, <2>1 DEF ReplyOK, Complete, Document
    <2>6. PathOK' BY <2>1, <2>2, SMTT(30) DEF PathOK, PathIsTrue
    <2>7. AuditOK' BY <1>5, <2>1, <2>2, SMTT(30) DEF AuditOK
    <2> QED BY <1>1, <1>3, <1>4, <2>1, <2>3, <2>4, <2>5, <2>6, <2>7, AdminFrame
  <1> QED BY <1>6, <1>7, <1>8, <1>9, <1>10
\* The start record is written, and only one on disk lets the command go on.
LEMMA StartStep ==
  ASSUME DiagnosticInv, AuditStart
  PROVE  DiagnosticInv'
  <1> USE DEF DiagnosticInv
  <1> DEFINE outs == Outcomes \cup {"none", "failed"}
  <1>1. /\ UNCHANGED <<worldVars, childVars, cmd, selected, results, reply, truth, view, before>>
        /\ UNCHANGED <<wpc, result, consumed>>
        /\ apc = "start" /\ exit = -1 /\ cmd.kind # "path" /\ wpc = "off"
    BY DEF AuditStart, workerVars, StageOK, Auditing
  <1>2. StartRecord \in Records({1}, outs) /\ StartRecord.whole
        /\ StartRecord.id = 1 /\ StartRecord.event = "start"
    BY DEF StartRecord, Record, Records
  <1>3. LogTypeOK({1}, outs) BY DEF LogTyped
  <1>4. AppendOK(StartRecord) \/ AppendError(StartRecord) BY DEF AuditStart
  <1> HIDE DEF outs
  <1>5. LogTypeOK({1}, outs)' BY <1>2, <1>3, <1>4, AppendShape
  <1>6. Entries(1, "finish")' = Entries(1, "finish")
    <2>1. StartRecord \in Records({1}, outs) BY <1>2
    <2>2. StartRecord.id # 1 \/ StartRecord.event # "finish" BY <1>2
    <2> QED BY <1>3, <1>4, <2>1, <2>2, AppendElsewhere, SMTT(30)
  <1>7. Secured(1, "start") => Secured(1, "start")' BY <1>2, <1>3, <1>4, AppendEntries
  <1>8. \/ apc' = "invoke" /\ exit' = exit /\ Secured(1, "start")'
        \/ apc' = "done" /\ exit' = 2
    <2>1. CASE AppendOK(StartRecord) /\ apc' = "invoke" /\ exit' = exit
      <3>1. Durable(StartRecord.id, StartRecord.event)' BY <1>2, <1>3, <2>1, AppendDurable
      <3>2. Secured(1, "start")' BY <3>1 DEF StartRecord, Record, Secured
      <3> QED BY <2>1, <3>2
    <2>2. CASE apc' = "done" /\ exit' = 2 BY <2>2
    <2> QED BY <2>1, <2>2 DEF AuditStart
  <1>9. LogTyped' BY <1>5 DEF LogTyped, outs
  <1>10. before' \in 0 .. changes BY <1>1 DEF WorldTyped
  <1>11. AdminTyped' BY <1>1, <1>8 DEF AdminTyped, Auditing, Resting
  <1>12. StageOK' BY <1>1, <1>8 DEF StageOK, PathSteps, Auditing
  <1>13. ReplyOK' BY <1>1 DEF ReplyOK, Complete, Document
  <1>14. PathOK' BY <1>1, <1>8 DEF PathOK, PathIsTrue
  <1>15. AuditOK' BY <1>1, <1>6, <1>7, <1>8, SMTT(30) DEF AuditOK
  <1> QED BY <1>1, <1>9, <1>10, <1>11, <1>12, <1>13, <1>14, <1>15, AdminFrame

\* The finish record is written: 0 and 1 are returned only if it is durable, and it
\* holds the outcome of the table that was shown.
LEMMA FinishStep ==
  ASSUME DiagnosticInv, AuditFinish
  PROVE  DiagnosticInv'
  <1> USE DEF DiagnosticInv
  <1> DEFINE outs == Outcomes \cup {"none", "failed"}
  <1>1. /\ UNCHANGED <<worldVars, childVars, cmd, selected, results, reply, truth, view, before>>
        /\ UNCHANGED <<wpc, result, consumed>>
        /\ apc = "finish" /\ apc' = "done" /\ cmd.kind # "path" /\ Secured(1, "start")
    BY DEF AuditFinish, workerVars, StageOK, AuditOK, Auditing
  <1>2. PICK o : /\ o = IF result = {} THEN "failed" ELSE FinishOutcome(CHOOSE d \in result : TRUE)
                 /\ \/ AppendOK(Record(1, "finish", o)) /\ exit' = IF o = "failed" THEN 2 ELSE ExitCode(o)
                    \/ AppendError(Record(1, "finish", o)) /\ exit' = 2
    BY DEF AuditFinish
  <1>3. /\ \A d \in result : d.outcome \in Outcomes
        /\ \A d, e \in result : d = e
    BY DEF AdminTyped, Doc, ReplyOK
  <1>4. /\ o \in outs
        /\ o # "failed" => consumed /\ result # {} /\ \A d \in result : o = d.outcome
    <2>1. CASE result = {} BY <1>2, <2>1
    <2>2. CASE result # {}
      <3>1. PICK d \in result : (CHOOSE e \in result : TRUE) = d BY <2>2
      <3>2. o = FinishOutcome(d) BY <1>2, <2>2, <3>1
      <3> QED BY <1>3, <3>2 DEF FinishOutcome
    <2> QED BY <2>1, <2>2
  <1>5. PICK rec : rec = Record(1, "finish", o) OBVIOUS
  <1>6. /\ rec \in Records({1}, outs) /\ rec.whole /\ rec.id = 1 /\ rec.event = "finish"
        /\ rec.outcome = o
    BY <1>4, <1>5 DEF Record, Records
  <1>7. LogTypeOK({1}, outs) BY DEF LogTyped
  <1>8. \/ AppendOK(rec) /\ exit' = IF o = "failed" THEN 2 ELSE ExitCode(o)
        \/ AppendError(rec) /\ exit' = 2
    BY <1>2, <1>5
  <1> HIDE DEF outs
  <1>9. AppendOK(rec) \/ AppendError(rec) BY <1>8
  <1>10. LogTypeOK({1}, outs)' BY <1>6, <1>7, <1>9, AppendShape
  <1>11. Secured(1, "start") => Secured(1, "start")' BY <1>6, <1>7, <1>9, AppendEntries
  <1>12. ASSUME exit' \in {0, 1}
         PROVE  /\ consumed' /\ result' # {} /\ o # "failed"
                /\ exit' = ExitCode(o)
                /\ \E i \in Entries(1, "finish")' : i <= synced' /\ log'[i].outcome = o
    <2>1. AppendOK(rec) /\ o # "failed" /\ exit' = ExitCode(o) BY <1>8, <1>12, SMTT(30)
    <2>2. \E i \in Entries(rec.id, rec.event)' : i <= synced' /\ log'[i] = rec
      BY <1>6, <1>7, <2>1, AppendDurable
    <2>3. Entries(rec.id, rec.event)' = Entries(1, "finish")' BY <1>6 DEF Entries
    <2> QED BY <1>1, <1>4, <1>6, <2>1, <2>2, <2>3
  <1>13. LogTyped' BY <1>10 DEF LogTyped, outs
  <1>14. before' \in 0 .. changes BY <1>1 DEF WorldTyped
  <1>15. exit' \in {0, 1, 2} BY <1>8 DEF ExitCode
  <1>16. AdminTyped' BY <1>1, <1>15 DEF AdminTyped, Resting
  <1>17. StageOK' BY <1>1 DEF StageOK, PathSteps, Auditing
  <1>18. ReplyOK' BY <1>1 DEF ReplyOK, Complete, Document
  <1>19. PathOK' BY <1>1 DEF PathOK, PathIsTrue
  <1>20. AuditOK'
    <2>1. ASSUME exit' \in {0, 1}, NEW d \in result'
          PROVE  /\ exit' = 0 <=> d.outcome \in {"all_accessible", "listed"}
                 /\ \E i \in Entries(1, "finish")' : i <= synced' /\ log'[i].outcome = d.outcome
      <3>1. d.outcome = o BY <1>1, <1>4, <1>12, <2>1
      <3> QED BY <1>12, <2>1, <3>1, SMTT(30) DEF ExitCode
    <2> QED BY <1>1, <1>11, <1>12, <2>1 DEF AuditOK
  <1> QED BY <1>1, <1>13, <1>14, <1>16, <1>17, <1>18, <1>19, <1>20, AdminFrame
\* Every look at the directory is kept as it was seen; while nothing changes, the
\* looks agree and the report is right.
LEMMA PathCheckStep ==
  ASSUME DiagnosticInv,
         GetProject \/ EvalSymlinks \/ Stat \/ ProbeWorker \/ ProbeRunner \/ ProbeWrite \/ Report
  PROVE  DiagnosticInv'
  <1> USE DEF DiagnosticInv
  <1>1. /\ UNCHANGED <<logVars, worldVars, workerVars, childVars, cmd, result, consumed>>
        /\ apc \in PathSteps
    BY DEF GetProject, EvalSymlinks, Stat, ProbeWorker, ProbeRunner, ProbeWrite, ProbePath, Report,
           PathStep, PathSteps
  <1>2. UNCHANGED <<log, synced, named, lost, policy, place, changes, wpc, selected, results, reply, truth>>
    BY <1>1 DEF logVars, worldVars, workerVars
  <1>3. cmd.kind = "path" /\ exit = -1 /\ wpc = "off" BY <1>1 DEF StageOK, PathSteps
  <1>4. /\ place.kind \in {"dir", "file", "missing", "loop"}
        /\ place.worker \in BOOLEAN /\ place.runner \in BOOLEAN /\ place.write \in BOOLEAN
        /\ changes \in Nat /\ before \in 0 .. changes
    BY DiagnosticAssumption, SMTT(30) DEF WorldTyped
  <1>5. view \in [resolution : {"none", "resolved", "missing", "not_directory", "unresolvable"},
                  worker : BOOLEAN, runner : BOOLEAN, write : BOOLEAN]
    BY DEF AdminTyped
  <1>6. Resolution(place) \in {"resolved", "missing", "not_directory", "unresolvable"}
        /\ (Resolution(place) = "resolved" <=> place.kind = "dir")
    BY <1>4 DEF Resolution
  <1> DEFINE Views == [resolution : {"none", "resolved", "missing", "not_directory", "unresolvable"},
                       worker : BOOLEAN, runner : BOOLEAN, write : BOOLEAN]
  <1>7. /\ before' \in 0 .. changes /\ view' \in Views
        /\ (apc' \in PathSteps /\ exit' = exit) \/ (apc' = "done" /\ exit' \in {0, 1, 2})
        /\ PathOK'
    <2>1. CASE GetProject
      <3>1. /\ before' = changes /\ view' = view
            /\ (apc' = "resolve" /\ exit' = exit) \/ (apc' = "done" /\ exit' = 2)
        BY <2>1 DEF GetProject
      <3>2. PathOK' BY <1>3, <3>1, SMTT(30) DEF PathOK, PathIsTrue
      <3> QED BY <1>4, <1>5, <3>1, <3>2, SMTT(30) DEF PathSteps
    <2>2. CASE EvalSymlinks
      <3>1. /\ before' = before /\ exit' = exit
            /\ \/ apc' = "stat" /\ view' = view
               \/ /\ apc' = "report" /\ place.kind # "dir"
                  /\ view' = [view EXCEPT !.resolution = Resolution(place)]
        BY <2>2 DEF EvalSymlinks
      <3>2. view' \in Views /\ (apc' = "report" => view'.resolution # "resolved")
        BY <1>5, <1>6, <3>1
      <3>3. PathOK' BY <1>2, <1>3, <3>1, <3>2 DEF PathOK, PathIsTrue, Ready, Enterable
      <3> QED BY <1>4, <3>1, <3>2, <3>3 DEF PathSteps
    <2>3. CASE Stat
      <3>1. /\ before' = before /\ exit' = exit
            /\ view' = [view EXCEPT !.resolution = Resolution(place)]
            /\ apc' = IF place.kind = "dir" THEN "worker" ELSE "report"
        BY <2>3 DEF Stat
      <3>2. view' \in Views /\ view'.resolution = Resolution(place) BY <1>5, <1>6, <3>1
      <3>3. PathOK' BY <1>2, <1>3, <1>6, <3>1, <3>2 DEF PathOK, PathIsTrue, Ready, Enterable
      <3> QED BY <1>4, <3>1, <3>2, <3>3 DEF PathSteps
    <2>4. ASSUME NEW who \in {"worker", "runner", "write"}, NEW granted, NEW refused,
                 ProbePath(who, granted, refused)
          PROVE  /\ before' = before /\ apc = who /\ view' \in Views
                 /\ \/ /\ exit' = exit /\ apc' = IF Grants(who) THEN granted ELSE refused
                       /\ view' = [view EXCEPT ![who] = Grants(who)]
                    \/ apc' = "done" /\ exit' = 2 /\ view' = view
      <3>1. Grants(who) \in BOOLEAN BY <1>4 DEF Grants
      <3>2. view' = view \/ view' = [view EXCEPT ![who] = Grants(who)] BY <2>4 DEF ProbePath
      <3>3. view' \in Views BY <1>5, <3>1, <3>2
      <3> QED BY <2>4, <3>3 DEF ProbePath, PathStep
    <2>5. CASE ProbeWorker
      <3>1. /\ before' = before /\ apc = "worker" /\ view' \in Views
            /\ \/ /\ exit' = exit /\ apc' = "runner"
                  /\ view' = [view EXCEPT !["worker"] = Grants("worker")]
               \/ apc' = "done" /\ exit' = 2 /\ view' = view
        BY <2>4, <2>5 DEF ProbeWorker
      <3>2. CASE apc' = "done"
        <4>1. exit' = 2 /\ exit' \notin {0, 1} BY <3>1, <3>2, SMTT(30)
        <4>2. PathOK' BY <3>2, <4>1 DEF PathOK, PathIsTrue
        <4> QED BY <1>4, <3>1, <3>2, <4>1, <4>2
      <3>3. CASE apc' = "runner"
        <4>1. view'.resolution = view.resolution /\ view'.worker = Grants("worker")
          BY <1>5, <3>1, <3>3
        <4>2. PathOK' BY <1>2, <1>3, <1>4, <3>1, <3>3, <4>1 DEF PathOK, PathIsTrue, Grants
        <4> QED BY <1>4, <3>1, <3>3, <4>2 DEF PathSteps
      <3> QED BY <3>1, <3>2, <3>3
    <2>6. CASE ProbeRunner
      <3>1. /\ before' = before /\ apc = "runner" /\ view' \in Views
            /\ \/ /\ exit' = exit /\ apc' = IF Grants("runner") THEN "write" ELSE "report"
                  /\ view' = [view EXCEPT !["runner"] = Grants("runner")]
               \/ apc' = "done" /\ exit' = 2 /\ view' = view
        BY <2>4, <2>6 DEF ProbeRunner
      <3>2. CASE apc' = "done"
        <4>1. exit' = 2 /\ exit' \notin {0, 1} BY <3>1, <3>2, SMTT(30)
        <4>2. PathOK' BY <3>2, <4>1 DEF PathOK, PathIsTrue
        <4> QED BY <1>4, <3>1, <3>2, <4>1, <4>2
      <3>3. CASE apc' # "done"
        <4>1. /\ view'.resolution = view.resolution /\ view'.worker = view.worker
              /\ view'.runner = Grants("runner")
          BY <1>5, <3>1, <3>3
        <4>2. PathOK'
          BY <1>2, <1>3, <1>4, <3>1, <3>3, <4>1 DEF PathOK, PathIsTrue, Grants, Ready, Enterable
        <4> QED BY <1>4, <3>1, <3>3, <4>2 DEF PathSteps
      <3> QED BY <3>2, <3>3
    <2>7. CASE ProbeWrite
      <3>1. /\ before' = before /\ apc = "write" /\ view' \in Views
            /\ \/ /\ exit' = exit /\ apc' = "report"
                  /\ view' = [view EXCEPT !["write"] = Grants("write")]
               \/ apc' = "done" /\ exit' = 2 /\ view' = view
        BY <2>4, <2>7 DEF ProbeWrite
      <3>2. CASE apc' = "done"
        <4>1. exit' = 2 /\ exit' \notin {0, 1} BY <3>1, <3>2, SMTT(30)
        <4>2. PathOK' BY <3>2, <4>1 DEF PathOK, PathIsTrue
        <4> QED BY <1>4, <3>1, <3>2, <4>1, <4>2
      <3>3. CASE apc' = "report"
        <4>1. /\ view'.resolution = view.resolution /\ view'.worker = view.worker
              /\ view'.runner = view.runner
          BY <1>5, <3>1, <3>3
        <4>2. PathOK'
          BY <1>2, <1>3, <1>4, <3>1, <3>3, <4>1 DEF PathOK, PathIsTrue, Ready, Enterable
        <4> QED BY <1>4, <3>1, <3>3, <4>2 DEF PathSteps
      <3> QED BY <3>1, <3>2, <3>3
    <2>8. CASE Report
      <3>1. /\ before' = before /\ view' = view /\ apc = "report" /\ apc' = "done"
            /\ exit' \in {IF Ready THEN 0 ELSE 1, 2}
        BY <2>8 DEF Report, PathStep
      <3>2. PathOK' BY <1>2, <3>1, SMTT(30) DEF PathOK, PathIsTrue, Enterable
      <3> QED BY <1>4, <1>5, <3>1, <3>2
    <2> QED BY <2>1, <2>2, <2>3, <2>5, <2>6, <2>7, <2>8
  <1>8. AdminTyped' BY <1>1, <1>3, <1>7 DEF AdminTyped, Resting
  <1>9. StageOK' BY <1>1, <1>2, <1>3, <1>7 DEF StageOK, PathSteps, Auditing
  <1>10. LogTyped' BY <1>2 DEF LogTyped, LogTypeOK
  <1>11. ReplyOK' BY <1>1, <1>2 DEF ReplyOK, Complete, Document
  <1>12. AuditOK'
    <2>1. apc' \notin {"invoke", "wait", "consume", "finish"} BY <1>7 DEF PathSteps
    <2>2. Entries(1, "finish")' = Entries(1, "finish") /\ (Secured(1, "start")' <=> Secured(1, "start"))
      BY <1>2 DEF Entries, Durable, Secured
    <2> QED BY <1>1, <1>2, <1>3, <2>1, <2>2 DEF AuditOK
  <1> QED BY <1>1, <1>2, <1>7, <1>8, <1>9, <1>10, <1>11, <1>12, AdminFrame

\* A change of the policy or of the directory ends what a path check knows.
LEMMA ChangeStep ==
  ASSUME DiagnosticInv, Change
  PROVE  DiagnosticInv'
  <1> USE DEF DiagnosticInv
  <1>1. /\ changes < MaxChanges /\ changes' = changes + 1
        /\ policy' \in Policies /\ place' \in Places
        /\ UNCHANGED <<logVars, adminVars, workerVars, childVars>>
    BY DEF Change, WorldTyped
  <1> USE DEF logVars, adminVars, workerVars, childVars
  <1>2. WorldTyped' BY <1>1, DiagnosticAssumption, SMTT(30) DEF WorldTyped
  <1>3. changes' # before' BY <1>1, DiagnosticAssumption, SMTT(30) DEF WorldTyped
  <1>4. PathOK' BY <1>3 DEF PathOK, PathIsTrue
  <1>5. AdminTyped' /\ WorkerTyped' BY <1>1, SMTT(30) DEF AdminTyped, WorkerTyped
  <1>6. ChildTyped' /\ Captured' BY <1>1 DEF ChildTyped, Captured
  <1>7. LogTyped' BY <1>1 DEF LogTyped, LogTypeOK
  <1>8. StageOK' BY <1>1 DEF StageOK
  <1>9. WorkerOK' BY <1>1 DEF WorkerOK, RowIsTrue, Complete
  <1>10. ReplyOK' BY <1>1 DEF ReplyOK, Complete, Document
  <1>11. AuditOK' BY <1>1 DEF AuditOK, Secured, Durable, Entries
  <1> QED BY <1>2, <1>4, <1>5, <1>6, <1>7, <1>8, <1>9, <1>10, <1>11

\* The power fails: what was shown stays shown, and of the audit file either every
\* synced record is left or nothing.
LEMMA PowerLossStep ==
  ASSUME DiagnosticInv, PowerLoss
  PROVE  DiagnosticInv'
  <1> USE DEF DiagnosticInv
  <1> DEFINE outs == Outcomes \cup {"none", "failed"}
  <1>1. /\ LosePower /\ apc # "idle"
        /\ apc' = IF apc = "done" THEN "done" ELSE "dead"
        /\ wpc' = IF wpc = "off" THEN "off" ELSE "exited"
        /\ UNCHANGED <<worldVars, selected, results, reply, truth>>
        /\ UNCHANGED <<cmd, result, consumed, view, exit, before>>
    BY DEF PowerLoss
  <1>2. ChildTyped' /\ Captured' BY QuietChild DEF PowerLoss
  <1>3. LogTypeOK({1}, outs) BY DEF LogTyped
  <1> HIDE DEF outs
  <1>4. /\ LogTypeOK({1}, outs)'
        /\ \A id, event :
              /\ Entries(id, event)' \subseteq Entries(id, event)
              /\ \A i \in Entries(id, event)' : log'[i] = log[i]
              /\ Secured(id, event) => Secured(id, event)'
        /\ \/ \A id, event : Entries(id, event)' = {}
           \/ /\ synced' = synced
              /\ \A id, event : \A i \in Entries(id, event) : i <= synced => i \in Entries(id, event)'
    BY <1>1, <1>3, PowerLossEntries
  <1>5. LogTyped' BY <1>4 DEF LogTyped, outs
  <1>6. AdminTyped' /\ WorldTyped' BY <1>1 DEF AdminTyped, WorldTyped, worldVars, Resting
  <1>7. WorkerTyped' BY <1>1 DEF WorkerTyped
  <1>8. StageOK' BY <1>1 DEF StageOK, PathSteps, Auditing
  <1>9. WorkerOK'
    <2>1. CASE wpc = "off" BY <1>1, <2>1 DEF WorkerOK, RowIsTrue, Complete
    <2>2. CASE wpc # "off" BY <1>1, <2>2 DEF WorkerOK, RowIsTrue
    <2> QED BY <2>1, <2>2
  <1>10. ReplyOK' BY <1>1 DEF ReplyOK, Complete, Document
  <1>11. PathOK' BY <1>1 DEF PathOK, PathIsTrue, worldVars
  <1>12. AuditOK'
    <2>1. apc' \notin {"invoke", "wait", "consume", "finish"} BY <1>1
    <2>2. wpc' # "off" \/ Entries(1, "finish")' # {} => Secured(1, "start")'
      BY <1>1, <1>4 DEF AuditOK
    <2>3. ASSUME NEW i \in Entries(1, "finish"), i <= synced
          PROVE  \/ i \in Entries(1, "finish")' /\ i <= synced' /\ log'[i] = log[i]
                 \/ <<1, "finish">> \in lost'
      <3>1. Secured(1, "finish")' BY <1>4, <2>3 DEF Secured, Durable
      <3>2. CASE Entries(1, "finish")' = {} BY <3>1, <3>2 DEF Secured, Durable
      <3>3. CASE Entries(1, "finish")' # {} BY <1>4, <2>3, <3>3
      <3> QED BY <3>2, <3>3
    <2>4. <<1, "finish">> \in lost => <<1, "finish">> \in lost'
      BY <1>1 DEF LosePower, KeepFile, LoseFile
    <2>5. ASSUME exit' \in {0, 1}, cmd'.kind # "path"
          PROVE  /\ consumed' /\ result' # {}
                 /\ \A d \in result' :
                       /\ exit' = 0 <=> d.outcome \in {"all_accessible", "listed"}
                       /\ \/ \E i \in Entries(1, "finish")' : i <= synced' /\ log'[i].outcome = d.outcome
                          \/ <<1, "finish">> \in lost'
      BY <1>1, <2>3, <2>4, <2>5 DEF AuditOK
    <2> QED BY <2>1, <2>2, <2>5 DEF AuditOK
  <1> QED BY <1>2, <1>5, <1>6, <1>7, <1>8, <1>9, <1>10, <1>11, <1>12

\* Every step of the system preserves the invariant.
LEMMA DiagnosticStep == DiagnosticInv /\ [Next]_vars => DiagnosticInv'
  <1> SUFFICES ASSUME DiagnosticInv, [Next]_vars PROVE DiagnosticInv'
    OBVIOUS
  <1>1. CASE AdminNext
    BY <1>1, CommandMoves, StartStep, FinishStep, PathCheckStep DEF AdminNext
  <1>2. CASE WorkerNext
    BY <1>2, WorkerMoves, ProbeStep, ListStep, WorkerEnds DEF WorkerNext
  <1>3. CASE BWSStarts \/ BWSWrites \/ BWSExits \/ BWSKilled \/ Expire
    BY <1>3, ChildStep
  <1>4. CASE WorkerKilled BY <1>4, WorkerEnds
  <1>5. CASE AdminKilled BY <1>5, CommandMoves
  <1>6. CASE Change BY <1>6, ChangeStep
  <1>7. CASE PowerLoss BY <1>7, PowerLossStep
  <1>8. CASE UNCHANGED vars
    <2>1. UNCHANGED <<logVars, adminVars, worldVars, workerVars>> /\ UNCHANGED childVars
      BY <1>8 DEF vars
    <2>2. ChildTyped' /\ Captured' BY <2>1 DEF DiagnosticInv, ChildTyped, Captured, childVars
    <2> QED BY <2>1, <2>2, ChildFrame
  <1> QED BY <1>1, <1>2, <1>3, <1>4, <1>5, <1>6, <1>7, <1>8 DEF Next

\* The invariant holds of every state of a diagnostic.
THEOREM DiagnosticInvariant == Spec => []DiagnosticInv
  BY InitInv, DiagnosticStep, PTL DEF Spec

---------------------------------------------------------------------------
(* What follows.                                                           *)

\* boundedio.Buffer never passes off a part of bws's stderr as the whole, for any
\* limit and whatever bws writes; and the state keeps its type.
THEOREM CaptureStaysHonest == Spec => []CaptureIsHonest
  <1>1. DiagnosticInv => CaptureIsHonest
    <2> SUFFICES ASSUME DiagnosticInv PROVE CaptureIsHonest
      OBVIOUS
    <2> USE DEF DiagnosticInv
    <2>1. stderr.exceeded <=> written > StderrLimit
      BY DiagnosticAssumption, SMTT(30) DEF ChildTyped, Captured
    <2>2. ~stderr.exceeded => stderr.len = written BY DEF Captured
    <2>3. \A i \in DOMAIN results : results[i].status \in Statuses \cup {"listed"}
      <3>1. results \in Seq(Row) BY DEF WorkerTyped
      <3>2. \A i \in DOMAIN results : results[i] \in Row BY <3>1, SMTT(30)
      <3> QED BY <3>2 DEF Row
    <2>4. \A d \in reply.docs \cup result : d.outcome \in Outcomes
      BY DEF WorkerTyped, AdminTyped, Doc
    <2>5. TypeOK
      BY <2>3, <2>4 DEF TypeOK, AdminTyped, WorldTyped, WorkerTyped, ChildTyped, LogTyped, Auditing
    <2> QED BY <2>1, <2>2, <2>5 DEF CaptureIsHonest
  <1> QED BY <1>1, DiagnosticInvariant, PTL

\* What the administrator is shown, for any policy and whatever bws answers: complete,
\* row by row what happened, and its outcome the worst of the rows.
THEOREM TablesAreTrue == Spec => []TableIsTrue
  <1>1. DiagnosticInv => TableIsTrue
    <2> SUFFICES ASSUME DiagnosticInv, NEW d \in result
                 PROVE  /\ Distinct(d.rows)
                        /\ Len(d.rows) = Len(truth)
                        /\ cmd.kind = "check" => /\ [i \in DOMAIN d.rows |-> d.rows[i].alias] = selected
                                                 /\ d.outcome = Worst(d.rows)
                        /\ \A i \in DOMAIN d.rows : RowIsTrue(d.rows[i], truth[i])
      BY DEF TableIsTrue, RowIsTrue
    <2> USE DEF DiagnosticInv
    <2>1. d.rows = results /\ Complete BY SMTT(30) DEF ReplyOK, Document
    <2>2. Distinct(d.rows) BY DEF ReplyOK, Validate
    <2>3. results \in Seq(Row) /\ selected \in Seq(Names) BY DEF WorkerTyped
    <2>4. Len(results) \in Nat /\ DOMAIN results = 1 .. Len(results) BY <2>3, SMTT(30)
    <2>5. \A i \in DOMAIN d.rows : RowIsTrue(d.rows[i], truth[i]) BY <2>1, <2>4 DEF WorkerOK
    <2>6. CASE cmd.kind = "check"
      <3>1. \A i \in 1 .. Len(results) : results[i].alias = selected[i] /\ results[i].status \in Statuses
        BY <2>6 DEF WorkerOK
      <3>2. Len(selected) = Len(results) BY <2>1, <2>6 DEF Complete
      <3>3. [i \in DOMAIN results |-> results[i].alias] = selected BY <2>3, <2>4, <3>1, <3>2, SMTT(30)
      <3>4. d.outcome = Aggregate(results) BY <2>6, SMTT(30) DEF ReplyOK, Document
      <3>5. d.outcome = Worst(results) BY <2>4, <3>1, <3>4, AggregateIsWorst
      <3> QED BY <2>1, <2>2, <2>5, <3>3, <3>5 DEF Complete
    <2>7. CASE cmd.kind # "check" BY <2>1, <2>2, <2>5, <2>7 DEF Complete
    <2> QED BY <2>6, <2>7
  <1> QED BY <1>1, DiagnosticInvariant, PTL

\* No worker runs and no finish record is written without a start record on disk; an
\* exit status of 0 or 1 comes with a table on the terminal and its outcome on disk,
\* unless the whole file was lost since, and 0 of an access check only if every selected
\* project answered in time.
THEOREM ExitsAreAudited == Spec => []ExitIsAudited
  <1>1. DiagnosticInv => ExitIsAudited
    <2> SUFFICES ASSUME DiagnosticInv PROVE ExitIsAudited
      OBVIOUS
    <2> USE DEF DiagnosticInv
    <2>1. ASSUME exit = 0, cmd.kind = "check", NEW a \in Range(selected)
          PROVE  \E i \in DOMAIN truth : truth[i].alias = a /\ truth[i].code = 0 /\ ~truth[i].late
      <3>1. PICK d \in result : d.outcome \in {"all_accessible", "listed"} BY <2>1 DEF AuditOK
      <3>2. d = Document /\ Complete BY DEF ReplyOK
      <3>3. Aggregate(results) \in {"all_accessible", "listed"} BY <2>1, <3>1, <3>2 DEF Document
      <3>4. /\ selected \in Seq(Names) /\ truth \in Seq(Answer)
            /\ Len(results) \in Nat /\ Len(results) = Len(selected) /\ Len(results) = Len(truth)
        BY <2>1, <3>2, SMTT(30) DEF WorkerTyped, Complete
      <3>5. \A i \in 1 .. Len(results) : /\ RowIsTrue(results[i], truth[i])
                                         /\ results[i].alias = selected[i]
                                         /\ results[i].status \in Statuses
        BY <2>1 DEF WorkerOK
      <3>6. \A i \in 1 .. Len(results) : results[i].status = "accessible"
        <4>1. Aggregate(results) = "all_accessible"
          BY <3>3, <3>4, <3>5, AggregateTyped DEF Severities
        <4> QED BY <3>4, <3>5, <4>1, AggregateTyped
      <3>7. DOMAIN selected = 1 .. Len(results) /\ DOMAIN truth = 1 .. Len(results)
        BY <3>4, Positions
      <3>8. PICK i \in 1 .. Len(results) : selected[i] = a BY <2>1, <3>7 DEF Range
      <3> QED BY <3>5, <3>6, <3>7, <3>8 DEF RowIsTrue
    <2> QED BY <2>1 DEF ExitIsAudited, AuditOK
  <1> QED BY <1>1, DiagnosticInvariant, PTL

\* A path check during which nothing changed reports exactly whether worker and runner
\* can enter the directory, for any directory.
THEOREM PathChecksAreTrue == Spec => []PathIsTrue
  <1>1. DiagnosticInv => PathIsTrue BY DEF DiagnosticInv, PathOK
  <1> QED BY <1>1, DiagnosticInvariant, PTL
===========================================================================
