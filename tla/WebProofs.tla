----------------------------- MODULE WebProofs ----------------------------
(***************************************************************************)
(* The browser interface for any number of requests handled at once, any   *)
(* contents and any forms: tokens are bounded and single-use, a page shows *)
(* the policy its forms are bound to, and what is committed is what was    *)
(* reviewed, confirmed where it widens the policy.                         *)
(***************************************************************************)
EXTENDS AdminWeb, FiniteSetTheorems, TLAPS

\* A leaf is first-order reasoning unless it calls the SMT solver.
USE ZenonT(20)

\* A change that review built from what was typed and from content c.on.
Reviewed(c) ==
    /\ c.on \in Contents
    /\ \E i \in Inputs : /\ i.kind = "remove" => i.entry \in DOMAIN c.on.allow
                         /\ c.input = Resolve(i, c.on)
    /\ c.widen <=> Widens(c.input, c.on)

\* Where a handler works on a reviewed change, and where review has checked
\* that the policy still had the form's revision.
Committing(r) == r.pc \in {"token", "read", "edit"} \/ (r.pc = "revision" /\ r.doing = "commit")

\* A token in the table was never found in it by a post, its revision was the policy's, and
\* a commit token carries a change reviewed against that revision.
TokenOK(e) ==
    /\ taken[e.token] = 0
    /\ e.revision \in past
    /\ e.action = "commit" => Reviewed(e.change) /\ (recurred \/ e.change.on = e.revision)

TableOK ==
    /\ IsFiniteSet(table) /\ Cardinality(table) <= Limit
    /\ \A e \in table : TokenOK(e)

TakenOK ==
    /\ taken \in [1 .. MaxTokens -> {0, 1}]
    /\ \A t \in 1 .. MaxTokens : t > issued => taken[t] = 0

\* What was read after the revision is of that revision, if the policy still
\* has it (or had it at a check) and no content has come back.
RequestOK(h) ==
    LET r == req[h] IN
    /\ r.pc \notin {"idle", "view"} => r.rev \in past
    /\ r.pc \in {"render", "store"} /\ ~recurred /\ policy = r.rev => r.cur = r.rev
    /\ r.pc \in {"issue", "more"} /\ ~recurred => r.cur = r.rev
    /\ r.pc = "more" /\ r.shows = "project" /\ ~recurred /\ policy = r.rev =>
          \A k \in Checks : r.found[k] \in {NoContent, r.rev}
    /\ r.pc \in {"check", "store"} => r.doing \in Checks
    /\ r.pc = "store" \/ (r.pc = "edit" /\ r.chg.input.kind = "metadata") => r.cur \in Contents
    /\ r.pc = "review" \/ (r.pc = "revision" /\ r.doing \in Changes) => r.chg.input \in Inputs
    /\ r.pc = "latest" \/ Committing(r) => Reviewed(r.chg)
    /\ r.pc = "latest" /\ ~recurred /\ policy = r.rev => r.chg.on = r.rev
    /\ Committing(r) /\ ~recurred => r.chg.on = r.rev
    /\ r.pc \in {"read", "edit"} /\ r.chg.widen => r.confirm
    /\ r.pc = "edit" /\ ~recurred /\ policy = r.rev /\ r.chg.input.kind = "metadata" => r.cur = r.rev

\* Results stored for the policy of the moment were obtained on it.
StoredCurrent ==
    ~recurred /\ checks.revision = policy =>
       \A k \in Checks : checks[k].left > 0 => checks[k].of = policy

PastOK == policy \in past /\ past \subseteq Contents /\ checks.revision \in past /\ StoredCurrent

\* The inductive invariant.
WebInv == TypeOK /\ TableOK /\ TakenOK /\ PastOK /\ \A h \in Handlers : RequestOK(h)

\* A request is handled by its own handler: the others stay where they are.
LEMMA OthersKept ==
  ASSUME TypeOK, NEW s \in Handlers, Handle(s), NEW r \in Handlers \ {s}
  PROVE  req'[r] = req[r]
  <1> USE DEF TypeOK, Step, Go, End
  <1>1. CASE Get(s) \/ ViewBefore(s) \/ ViewLoad(s) \/ ViewAfter(s)
    BY <1>1 DEF Get, ViewBefore, ViewLoad, ViewAfter
  <1>2. CASE PageToken(s) \/ PageList(s) \/ PageChecks(s) \/ PageSend(s) BY <1>2 DEF PageToken, PageList, PageChecks, PageSend
  <1>3. CASE Post(s) BY <1>3 DEF Post
  <1>4. CASE CheckRevision(s) BY <1>4 DEF CheckRevision
  <1>5. CASE Review(s) \/ ReviewLatest(s) \/ ReviewToken(s) BY <1>5 DEF Review, ReviewLatest, ReviewToken
  <1>6. CASE CommitRead(s) \/ CommitEdit(s) BY <1>6 DEF CommitRead, CommitEdit
  <1>7. CASE RunCheck(s) \/ StoreCheck(s) \/ Discover(s) \/ ReadFails(s)
    BY <1>7 DEF RunCheck, StoreCheck, Discover, ReadFails
  <1> QED BY <1>1, <1>2, <1>3, <1>4, <1>5, <1>6, <1>7 DEF Handle

\* The contents the file has had accumulate, and one that comes back is noticed.
Onward ==
    /\ past \subseteq past' /\ policy' \in past'
    /\ recurred => recurred'
    /\ \A c \in past : ~recurred' /\ policy' = c => policy = c

\* Every step of a handler, and every replacement by others, goes onward.
LEMMA OnwardStep == policy \in past /\ [Next]_vars => Onward
  <1> SUFFICES ASSUME policy \in past, [Next]_vars PROVE Onward OBVIOUS
  <1>1. CASE UNCHANGED <<policy, past, recurred>> BY <1>1 DEF Onward
  <1>2. ASSUME NEW c, Replace(c) PROVE Onward BY <1>2 DEF Replace, Onward
  <1>3. ASSUME NEW s \in Handlers, Handle(s) PROVE Onward
    <2> USE DEF contents
    <2>1. CASE CommitEdit(s) BY <1>1, <1>2, <2>1 DEF CommitEdit
    <2>2. CASE Get(s) \/ ViewBefore(s) \/ ViewLoad(s) \/ ViewAfter(s) \/ PageToken(s) \/ PageList(s) \/ PageChecks(s) \/ PageSend(s)
      BY <1>1, <2>2 DEF Get, ViewBefore, ViewLoad, ViewAfter, PageToken, PageList, PageChecks, PageSend
    <2>3. CASE Post(s) \/ CheckRevision(s) \/ Review(s) \/ ReviewLatest(s) \/ ReviewToken(s) \/ CommitRead(s)
      BY <1>1, <2>3 DEF Post, CheckRevision, Review, ReviewLatest, ReviewToken, CommitRead
    <2>4. CASE RunCheck(s) \/ StoreCheck(s) \/ Discover(s) \/ ReadFails(s)
      BY <1>1, <2>4 DEF RunCheck, StoreCheck, Discover, ReadFails
    <2> QED BY <1>3, <2>1, <2>2, <2>3, <2>4 DEF Handle
  <1>4. CASE OtherEdit BY <1>2, <1>4 DEF OtherEdit
  <1>5. CASE Tick \/ StoreOther BY <1>1, <1>5 DEF Tick, StoreOther, contents
  <1>6. CASE UNCHANGED vars BY <1>1, <1>6, SMTT(20) DEF vars, contents
  <1> QED BY <1>3, <1>4, <1>5, <1>6 DEF Next

\* A request that no step touches keeps what is true of it: a revision of the
\* past is the policy's now only if it was before.
LEMMA RequestKept ==
  ASSUME Onward, NEW r, RequestOK(r), req'[r] = req[r]
  PROVE  RequestOK(r)'
  BY SMTT(30) DEF RequestOK, Onward, Reviewed, Resolve, Widens, Committing

---------------------------------------------------------------------------
(* Types.                                                                  *)

\* A page to be rendered is a well-typed request, and so is no request.
LEMMA PageTyped ==
  ASSUME NEW shows \in {"overview", "project"}, NEW msg \in {"none", "saved", "no_change"}
  PROVE  /\ IsRequest(Idle) /\ IsRequest(Page(shows, msg))
         /\ Page(shows, msg).pc = "view" /\ Page(shows, msg).msg = msg
         /\ Idle.pc = "idle" /\ Idle.msg = "none"
  BY DEF Idle, Page, IsRequest, IsChange, NoChange, Nothing, NoContent

\* Numbers of tokens only grow, up to the bound.
LEMMA IssuedStep ==
  ASSUME issued \in 0 .. MaxTokens, [Next]_vars
  PROVE  issued' \in 0 .. MaxTokens /\ issued <= issued'
  <1>0. MaxTokens \in Nat BY WebAssumption
  <1>1. CASE issued' = issued BY <1>0, <1>1, SMTT(30)
  <1>2. ASSUME NEW a, NEW v, NEW c, issueToken(a, v, c) PROVE issued' \in 0 .. MaxTokens /\ issued <= issued'
    BY <1>0, <1>2, SMTT(30) DEF issueToken
  <1>3. ASSUME NEW s \in Handlers, Handle(s) PROVE issued' \in 0 .. MaxTokens /\ issued <= issued'
    <2> USE DEF server
    <2>1. CASE PageToken(s) BY <1>1, <1>2, <2>1 DEF PageToken, TooManyForms
    <2>2. CASE ReviewToken(s) BY <1>1, <1>2, <2>2 DEF ReviewToken, TooManyForms
    <2>3. CASE Get(s) \/ ViewBefore(s) \/ ViewLoad(s) \/ ViewAfter(s) \/ PageList(s) \/ PageChecks(s) \/ PageSend(s)
      BY <1>1, <2>3 DEF Get, ViewBefore, ViewLoad, ViewAfter, PageList, PageChecks, PageSend
    <2>4. CASE Post(s) \/ CheckRevision(s) \/ Review(s) \/ ReviewLatest(s) \/ CommitRead(s) \/ CommitEdit(s)
      BY <1>1, <2>4 DEF Post, CheckRevision, Review, ReviewLatest, CommitRead, CommitEdit
    <2>5. CASE RunCheck(s) \/ StoreCheck(s) \/ Discover(s) \/ ReadFails(s)
      BY <1>1, <2>5 DEF RunCheck, StoreCheck, Discover, ReadFails
    <2> QED BY <1>3, <2>1, <2>2, <2>3, <2>4, <2>5 DEF Handle
  <1>4. CASE OtherEdit BY <1>1, <1>4 DEF OtherEdit, server
  <1>5. CASE Tick \/ StoreOther BY <1>1, <1>5 DEF Tick, StoreOther
  <1>6. CASE UNCHANGED vars BY <1>1, <1>6 DEF vars, server
  <1> QED BY <1>3, <1>4, <1>5, <1>6 DEF Next

\* A change that review builds is a change, and is the reviewed one.
LEMMA ReviewTyped ==
  ASSUME NEW i \in Inputs, NEW c \in Contents, Acceptable(i, c),
         NEW x, x = [input |-> Resolve(i, c), widen |-> Widens(i, c), on |-> c]
  PROVE  IsChange(x) /\ Reviewed(x)
  <1>1. /\ DOMAIN i = {"kind", "id", "dir", "mode", "entry", "argv"} /\ i.kind \in Changes
    BY WebAssumption
  <1>2. Resolve(i, c).kind = i.kind /\ Resolve(i, c).id = i.id /\ Resolve(i, c).dir = i.dir /\ Resolve(i, c).mode = i.mode
    BY <1>1 DEF Resolve
  <1>3. Widens(Resolve(i, c), c) <=> Widens(i, c) BY <1>2 DEF Widens
  <1>4. Widens(i, c) \in BOOLEAN BY DEF Widens
  <1>5. IsChange(x) BY <1>1, <1>2, <1>4 DEF IsChange
  <1>6. i.kind = "remove" => i.entry \in DOMAIN c.allow BY DEF Acceptable
  <1>7. x.on = c /\ x.input = Resolve(i, c) /\ x.widen = Widens(i, c) OBVIOUS
  <1>8. \A y : y.on = c /\ y.input = Resolve(i, c) /\ y.widen = Widens(i, c) => Reviewed(y)
    BY <1>3, <1>6 DEF Reviewed
  <1> QED BY <1>5, <1>7, <1>8

\* What a handler holds keeps its type.
LEMMA RequestTyped ==
  ASSUME TypeOK, NEW s \in Handlers, RequestOK(s), Handle(s),
         issued' \in 0 .. MaxTokens, issued <= issued'
  PROVE  IsRequest(req[s])'
  <1> DEFINE r == req[s]
             n == req'[s]
  <1>0. /\ IsRequest(r) /\ s \in DOMAIN req /\ policy \in Contents /\ issued \in Nat /\ issued' \in Nat
    BY WebAssumption, SMTT(30) DEF TypeOK
  <1>1. \A x : IsRequest(x) => IsRequest(x)'
    BY <1>0, SMTT(30) DEF IsRequest, IsChange
  <1>2. ASSUME \E x : IsRequest(x) /\ n = x PROVE IsRequest(req[s])'
    <2>1. PICK x : IsRequest(x) /\ n = x BY <1>2
    <2>2. IsRequest(x)' BY <1>1, <2>1
    <2> QED BY <2>1, <2>2 DEF IsRequest
  <1>3. IsRequest(Idle) /\ \A p \in {"overview", "project"}, m \in {"none", "saved", "no_change"} : IsRequest(Page(p, m))
    BY PageTyped
  <1>4. ASSUME NEW pc \in {"load", "render", "discover", "check", "review", "read", "edit", "token", "store"},
               NEW v \in Contents, NEW w \in Contents
        PROVE  /\ IsRequest([r EXCEPT !.pc = pc]) /\ IsRequest([r EXCEPT !.pc = pc, !.rev = v])
               /\ IsRequest([r EXCEPT !.pc = pc, !.cur = w])
    BY <1>0 DEF IsRequest, IsChange
  <1>5. ASSUME NEW pc \in {"load", "render", "discover", "check", "review", "read", "edit", "token", "store"},
               Go(s, pc) PROVE IsRequest(req[s])'
    <2>1. n = [r EXCEPT !.pc = pc] BY <1>0, <1>5 DEF Go
    <2> QED BY <1>0, <1>2, <1>4, <2>1
  <1>6. ASSUME End(s) PROVE IsRequest(req[s])'
    <2>1. n = Idle BY <1>0, <1>6 DEF End, Step
    <2> QED BY <1>2, <1>3, <2>1
  <1>7. ASSUME NEW p \in {"overview", "project"}, NEW m \in {"none", "saved", "no_change"}, Step(s, Page(p, m))
        PROVE  IsRequest(req[s])'
    <2>1. n = Page(p, m) BY <1>0, <1>7 DEF Step
    <2> QED BY <1>2, <1>3, <2>1
  <1> HIDE DEF r, n
  <1>8. CASE Get(s) BY <1>7, <1>8 DEF Get
  <1>9. CASE ViewBefore(s) \/ ViewLoad(s) \/ CommitRead(s) \/ RunCheck(s)
    <2>1. \E pc \in {"load", "render", "edit", "store"} :
             n \in {[r EXCEPT !.pc = pc, !.rev = policy], [r EXCEPT !.pc = pc, !.cur = policy]}
      BY <1>0, <1>9 DEF ViewBefore, ViewLoad, CommitRead, RunCheck, Step, n, r
    <2> QED BY <1>0, <1>2, <1>4, <2>1
  <1>10. CASE ViewAfter(s)
    <2>1. CASE ~End(s)
      <3>1. PICK t \in SUBSET FormActions : n = [r EXCEPT !.pc = "issue", !.todo = t]
        BY <1>0, <1>10, <2>1 DEF ViewAfter, Step, n, r
      <3>2. IsRequest([r EXCEPT !.pc = "issue", !.todo = t]) BY <1>0 DEF IsRequest, IsChange
      <3> QED BY <1>2, <3>1, <3>2
    <2> QED BY <1>6, <2>1
  <1>11. CASE PageList(s)
    <2>1. PICK t \in SUBSET FormActions : n = [r EXCEPT !.pc = "more", !.todo = t]
      BY <1>0, <1>11 DEF PageList, Step, n, r
    <2>2. IsRequest([r EXCEPT !.pc = "more", !.todo = t]) BY <1>0 DEF IsRequest, IsChange
    <2> QED BY <1>2, <2>1, <2>2
  <1>20. CASE PageChecks(s)
    <2>1. PICK t, f : /\ n = [r EXCEPT !.pc = "more", !.todo = t, !.found = f]
                      /\ t = FormActions \ (Overview \cup Checks)
                      /\ f = [k \in Checks |-> IF Good(k, r.rev) THEN checks[k].of ELSE NoContent]
      BY <1>0, <1>20 DEF PageChecks, Step, n, r
    <2>2. \A k \in Checks : checks[k].of \in Contents BY DEF TypeOK, Result, Checks
    <2>3. t \in SUBSET FormActions /\ f \in [Checks -> Contents \cup {NoContent}] BY <2>1, <2>2
    <2>4. IsRequest([r EXCEPT !.pc = "more", !.todo = t, !.found = f]) BY <1>0, <2>3 DEF IsRequest, IsChange
    <2> QED BY <1>2, <2>1, <2>4
  <1>12. CASE PageToken(s)
    <2>1. CASE End(s) BY <1>6, <2>1
    <2>2. CASE ~End(s)
      <3>1. PICK a \in r.todo :
               /\ issued' = issued + 1
               /\ n = [r EXCEPT !.todo = r.todo \ {a},
                                !.page = r.page \cup {[token |-> issued + 1, action |-> a]}]
        BY <1>0, <1>12, <2>2 DEF PageToken, Step, issueToken, n, r
      <3>2. a \in FormActions BY <1>0, <3>1 DEF IsRequest
      <3>3. r.page \subseteq [token : 1 .. issued', action : FormActions \cup {"commit"}]
        BY <1>0, SMTT(30) DEF IsRequest
      <3>4. [token |-> issued + 1, action |-> a] \in [token : 1 .. issued', action : FormActions \cup {"commit"}]
        BY <1>0, <3>1, <3>2, SMTT(30)
      <3>5. /\ DOMAIN n = DOMAIN r /\ n.pc = r.pc /\ n.found = r.found /\ n.todo = r.todo \ {a}
            /\ n.page = r.page \cup {[token |-> issued + 1, action |-> a]}
            /\ n.shows = r.shows /\ n.msg = r.msg /\ n.doing = r.doing /\ n.rev = r.rev /\ n.cur = r.cur
            /\ n.chg = r.chg /\ n.confirm = r.confirm
        BY <1>0, <3>1 DEF IsRequest
      <3> QED BY <1>0, <3>1, <3>3, <3>4, <3>5, SMTT(30) DEF IsRequest, IsChange, n
    <2> QED BY <2>1, <2>2
  <1>13. CASE PageSend(s) \/ ReviewToken(s) \/ ReadFails(s)
    BY <1>6, <1>13 DEF PageSend, ReviewToken, ReadFails
  <1>14. CASE Post(s)
    <2>1. CASE req' = req BY <1>0, <1>2, <2>1 DEF n, r
    <2>2. CASE req' # req
      <3>1. PICK e \in pruneTokens, box \in BOOLEAN : \E c \in Posted(e) :
               Step(s, [Idle EXCEPT !.pc = "revision", !.doing = e.action, !.rev = e.revision,
                                    !.chg = c, !.confirm = box])
        BY <1>14, <2>2 DEF Post
      <3>2. PICK c \in Posted(e) :
               n = [Idle EXCEPT !.pc = "revision", !.doing = e.action, !.rev = e.revision, !.chg = c, !.confirm = box]
        BY <1>0, <3>1 DEF Step, n
      <3>3. e.action \in FormActions \cup {"commit"} /\ IsToken(e) BY DEF TypeOK, pruneTokens, IsToken
      <3>4. IsChange(c)
        <4>1. CASE c = e.change BY <3>3, <4>1 DEF IsToken
        <4>2. ASSUME NEW i \in Inputs, c = [NoChange EXCEPT !.input = i] PROVE IsChange(c)
          BY <4>2, WebAssumption DEF NoChange, IsChange
        <4> QED BY <4>1, <4>2 DEF Posted
      <3>5. e.revision \in Contents BY <3>3 DEF IsToken
      <3>6. IsRequest([Idle EXCEPT !.pc = "revision", !.doing = e.action, !.rev = e.revision, !.chg = c, !.confirm = box])
        BY <3>3, <3>4, <3>5 DEF IsRequest, Idle
      <3> QED BY <1>2, <3>2, <3>6
    <2> QED BY <2>1, <2>2
  <1>15. CASE CheckRevision(s) BY <1>5, <1>6, <1>15 DEF CheckRevision
  <1>16. CASE Review(s)
    <2>1. CASE End(s) BY <1>6, <2>1
    <2>2. CASE ~End(s)
      <3>1. PICK x : /\ x = [input |-> Resolve(r.chg.input, policy), widen |-> Widens(r.chg.input, policy), on |-> policy]
                     /\ n = [r EXCEPT !.pc = "latest", !.chg = x]
        BY <1>0, <1>16, <2>2 DEF Review, Step, n, r
      <3>2. r.chg.input \in Inputs /\ Acceptable(r.chg.input, policy)
        BY <1>16, <2>2 DEF Review, At, RequestOK, r
      <3>3. IsChange(x) BY <1>0, <3>1, <3>2, ReviewTyped
      <3>4. IsRequest([r EXCEPT !.pc = "latest", !.chg = x]) BY <1>0, <3>3 DEF IsRequest
      <3> QED BY <1>2, <3>1, <3>4
    <2> QED BY <2>1, <2>2
  <1>17. CASE ReviewLatest(s) BY <1>5, <1>6, <1>17 DEF ReviewLatest
  <1>18. CASE CommitEdit(s) BY <1>6, <1>7, <1>18 DEF CommitEdit
  <1>19. CASE StoreCheck(s) \/ Discover(s) BY <1>7, <1>19 DEF StoreCheck, Discover
  <1> QED BY <1>8, <1>9, <1>10, <1>11, <1>12, <1>13, <1>14, <1>15, <1>16, <1>17, <1>18, <1>19, <1>20 DEF Handle

\* What a commit writes is a content.
LEMMA CommitTyped ==
  ASSUME TypeOK, NEW s \in Handlers, RequestOK(s), At(s, "edit")
  PROVE  Edited(req[s].chg.input, req[s].cur, policy) \in Contents
  <1> DEFINE c == req[s].chg
  <1>1. Reviewed(c) BY DEF RequestOK, At, Committing
  <1>2. PICK i \in Inputs : /\ i.kind = "remove" => i.entry \in DOMAIN c.on.allow
                            /\ c.input = Resolve(i, c.on)
    BY <1>1 DEF Reviewed
  <1>3. c.on \in Contents /\ policy \in Contents BY <1>1 DEF Reviewed, TypeOK
  <1>4. \A read \in Contents : Edited(c.input, read, policy) \in Contents
    BY <1>2, <1>3, ContentsClosed
  <1>5. CASE c.input.kind = "metadata" BY <1>4, <1>5 DEF RequestOK, At
  <1>6. CASE c.input.kind # "metadata"
    <2>1. Edited(c.input, req[s].cur, policy) = Edited(c.input, policy, policy) BY <1>6, SMTT(30) DEF Edited
    <2> QED BY <1>3, <1>4, <2>1
  <1> QED BY <1>5, <1>6

\* The policy keeps to the contents it can have.
LEMMA ContentsStep ==
  ASSUME TypeOK, past \subseteq Contents, \A h \in Handlers : RequestOK(h), [Next]_vars
  PROVE  policy' \in Contents /\ past' \subseteq Contents /\ edits' \in 0 .. MaxEdits
  <1> DEFINE Goal == policy' \in Contents /\ past' \subseteq Contents /\ edits' \in 0 .. MaxEdits
  <1>0. policy \in Contents /\ edits \in 0 .. MaxEdits BY DEF TypeOK
  <1>1. CASE UNCHANGED contents BY <1>0, <1>1 DEF contents
  <1>2. CASE OtherEdit
    <2>1. PICK c \in Others : Replace(c) BY <1>2 DEF OtherEdit
    <2>2. c \in Contents BY WebAssumption
    <2>3. edits' \in 0 .. MaxEdits BY <1>0, <1>2, WebAssumption, SMTT(30) DEF OtherEdit
    <2> QED BY <2>1, <2>2, <2>3 DEF Replace
  <1>3. ASSUME NEW s \in Handlers, Handle(s) PROVE Goal
    <2>1. CASE CommitEdit(s)
      <3>1. Edited(req[s].chg.input, req[s].cur, policy) \in Contents BY <2>1, CommitTyped DEF CommitEdit
      <3> QED BY <1>0, <2>1, <3>1 DEF CommitEdit, Replace
    <2>2. CASE Get(s) \/ ViewBefore(s) \/ ViewLoad(s) \/ ViewAfter(s) \/ PageToken(s) \/ PageList(s) \/ PageChecks(s) \/ PageSend(s)
      BY <1>1, <2>2 DEF Get, ViewBefore, ViewLoad, ViewAfter, PageToken, PageList, PageChecks, PageSend
    <2>3. CASE Post(s) \/ CheckRevision(s) \/ Review(s) \/ ReviewLatest(s) \/ ReviewToken(s) \/ CommitRead(s)
      BY <1>1, <2>3 DEF Post, CheckRevision, Review, ReviewLatest, ReviewToken, CommitRead
    <2>4. CASE RunCheck(s) \/ StoreCheck(s) \/ Discover(s) \/ ReadFails(s)
      BY <1>1, <2>4 DEF RunCheck, StoreCheck, Discover, ReadFails
    <2> QED BY <1>3, <2>1, <2>2, <2>3, <2>4 DEF Handle
  <1>4. CASE Tick \/ StoreOther BY <1>1, <1>4 DEF Tick, StoreOther
  <1>5. CASE UNCHANGED vars BY <1>1, <1>5 DEF vars
  <1> QED BY <1>2, <1>3, <1>4, <1>5 DEF Next

\* How the token table moves: entries age, go, or one is added by a handler
\* that is about to send a page or a review.
NewToken(s) ==
    LET r == req[s] IN
    \/ r.pc \in {"issue", "more"} /\ \E a \in r.todo : issueToken(a, r.rev, NoChange)
    \/ At(s, "token") /\ issueToken("commit", r.rev, r.chg)

\* Tokens leave the table by being taken or pruned and enter it one at a time
\* (takeToken, pruneTokens, issueTargetToken).
LEMMA TableMoves ==
  ASSUME [Next]_vars
  PROVE  \/ table' \subseteq table /\ issued' = issued
         \/ Tick
         \/ \E s \in Handlers : NewToken(s) /\ taken' = taken
  <1>1. CASE UNCHANGED <<table, issued>> BY <1>1
  <1>2. ASSUME NEW s \in Handlers, Handle(s)
        PROVE  \/ table' \subseteq table /\ issued' = issued
               \/ NewToken(s) /\ taken' = taken
    <2> USE DEF server
    <2>1. CASE PageToken(s)
      <3>1. CASE TooManyForms BY <3>1 DEF TooManyForms, pruneTokens
      <3>2. CASE ~TooManyForms
        <4>1. req[s].pc \in {"issue", "more"} /\ req[s].todo # {} /\ taken' = taken BY <2>1 DEF PageToken
        <4>2. PICK a : a = CHOOSE b \in req[s].todo : TRUE OBVIOUS
        <4>3. a \in req[s].todo BY <4>1, <4>2
        <4>4. issueToken(a, req[s].rev, NoChange) BY <2>1, <3>2, <4>2 DEF PageToken
        <4> QED BY <4>1, <4>3, <4>4 DEF NewToken
      <3> QED BY <3>1, <3>2
    <2>2. CASE ReviewToken(s)
      <3>1. CASE TooManyForms BY <3>1 DEF TooManyForms, pruneTokens
      <3>2. CASE ~TooManyForms BY <2>2, <3>2 DEF ReviewToken, NewToken
      <3> QED BY <3>1, <3>2
    <2>3. CASE Post(s) BY <2>3 DEF Post, Remaining, pruneTokens
    <2>4. CASE Get(s) \/ ViewBefore(s) \/ ViewLoad(s) \/ ViewAfter(s) \/ PageList(s) \/ PageChecks(s) \/ PageSend(s)
      BY <1>1, <2>4 DEF Get, ViewBefore, ViewLoad, ViewAfter, PageList, PageChecks, PageSend
    <2>5. CASE CheckRevision(s) \/ Review(s) \/ ReviewLatest(s) \/ CommitRead(s) \/ CommitEdit(s)
      BY <1>1, <2>5 DEF CheckRevision, Review, ReviewLatest, CommitRead, CommitEdit
    <2>6. CASE RunCheck(s) \/ StoreCheck(s) \/ Discover(s) \/ ReadFails(s)
      BY <1>1, <2>6 DEF RunCheck, StoreCheck, Discover, ReadFails
    <2> QED BY <1>2, <2>1, <2>2, <2>3, <2>4, <2>5, <2>6 DEF Handle
  <1>3. CASE OtherEdit \/ StoreOther BY <1>1, <1>3 DEF OtherEdit, StoreOther, server
  <1>4. CASE UNCHANGED vars BY <1>1, <1>4 DEF vars, server
  <1> QED BY <1>2, <1>3, <1>4 DEF Next

\* Entries of the table keep their type; a new one is for a revision the policy
\* has had.
LEMMA TableTyped ==
  ASSUME TypeOK, past \subseteq Contents, \A h \in Handlers : RequestOK(h), [Next]_vars
  PROVE  \A e \in table' : IsToken(e)'
  <1>0. /\ \A e \in table : IsToken(e)
        /\ issued \in Nat /\ issued' \in Nat /\ issued <= issued' /\ Life \in Nat
    BY IssuedStep, WebAssumption, SMTT(30) DEF TypeOK
  <1>1. \A e : IsToken(e) => IsToken(e)' BY <1>0, SMTT(30) DEF IsToken, IsChange
  <1>2. CASE table' \subseteq table BY <1>0, <1>1, <1>2
  <1>3. CASE Tick
    <2> SUFFICES ASSUME NEW e \in table' PROVE IsToken(e)' OBVIOUS
    <2>1. PICK x \in table : e = [x EXCEPT !.left = Less(x.left)] BY <1>3 DEF Tick
    <2>2. IsToken(x)' BY <1>0, <1>1
    <2>3. Less(x.left) \in 0 .. Life BY <1>0, <2>2, SMTT(30) DEF Less, IsToken
    <2> QED BY <2>1, <2>2, <2>3 DEF IsToken
  <1>4. ASSUME NEW s \in Handlers, NewToken(s) PROVE \A e \in table' : IsToken(e)'
    <2>0. IsRequest(req[s]) BY DEF TypeOK
    <2>1. PICK a, c : issueToken(a, req[s].rev, c) /\ a \in FormActions \cup {"commit"} /\ IsChange(c)
      <3>1. IsChange(NoChange) BY SMTT(20) DEF IsChange, NoChange, Nothing, NoContent
      <3> QED BY <1>4, <2>0, <3>1 DEF NewToken, IsRequest
    <2>2. req[s].rev \in Contents BY <1>4 DEF NewToken, At, RequestOK
    <2> SUFFICES ASSUME NEW e \in table' PROVE IsToken(e)' OBVIOUS
    <2>3. CASE e \in table BY <1>0, <1>1, <2>3
    <2>4. CASE e = [token |-> issued + 1, action |-> a, revision |-> req[s].rev, change |-> c, left |-> Life]
      <3>1. issued' = issued + 1 BY <2>1 DEF issueToken
      <3> QED BY <1>0, <2>1, <2>2, <2>4, <3>1, SMTT(30) DEF IsToken, IsChange
    <2> QED BY <2>1, <2>3, <2>4 DEF issueToken, pruneTokens
  <1> QED BY <1>2, <1>3, <1>4, TableMoves

\* Forms and the project list keep their types.
LEMMA FormsTyped ==
  ASSUME TypeOK, [Next]_vars
  PROVE  /\ forms' \subseteq [token : 1 .. issued', action : FormActions \cup {"commit"}]
         /\ listed' \in 0 .. Life
  <1> DEFINE Forms == [token : 1 .. issued', action : FormActions \cup {"commit"}]
  <1>0. issued \in Nat /\ issued' \in Nat /\ issued <= issued' /\ Life \in Nat
    BY IssuedStep, WebAssumption, SMTT(30) DEF TypeOK
  <1>1. [token : 1 .. issued, action : FormActions \cup {"commit"}] \subseteq Forms BY <1>0, SMTT(30)
  <1>2. forms \subseteq Forms /\ listed \in 0 .. Life BY <1>1 DEF TypeOK
  <1> HIDE DEF Forms
  <1>3. CASE UNCHANGED <<forms, listed>> BY <1>2, <1>3 DEF Forms
  <1>4. ASSUME NEW s \in Handlers, Handle(s) PROVE forms' \subseteq Forms /\ listed' \in 0 .. Life
    <2> USE DEF server
    <2>1. CASE PageSend(s)
      <3>1. IsRequest(req[s]) BY DEF TypeOK
      <3>2. req[s].page \subseteq Forms BY <1>1, <3>1 DEF IsRequest
      <3> QED BY <1>2, <2>1, <3>2 DEF PageSend
    <2>2. CASE ReviewToken(s)
      <3>1. CASE forms' = forms BY <1>2, <2>2, <3>1 DEF ReviewToken
      <3>2. CASE forms' # forms
        <4>1. forms' = forms \cup {[token |-> issued + 1, action |-> "commit"]} /\ issued' = issued + 1 /\ listed' = listed
          BY <2>2, <3>2 DEF ReviewToken, issueToken
        <4>2. [token |-> issued + 1, action |-> "commit"] \in Forms BY <1>0, <4>1, SMTT(30) DEF Forms
        <4> QED BY <1>2, <4>1, <4>2
      <3> QED BY <3>1, <3>2
    <2>3. CASE Discover(s) BY <1>0, <1>2, <2>3, SMTT(30) DEF Discover
    <2>4. CASE Get(s) \/ ViewBefore(s) \/ ViewLoad(s) \/ ViewAfter(s) \/ PageList(s) \/ PageChecks(s) \/ PageToken(s)
      BY <1>2, <2>4 DEF Get, ViewBefore, ViewLoad, ViewAfter, PageList, PageChecks, PageToken
    <2>5. CASE Post(s) \/ CheckRevision(s) \/ Review(s) \/ ReviewLatest(s) \/ CommitRead(s) \/ CommitEdit(s)
      BY <1>2, <2>5 DEF Post, CheckRevision, Review, ReviewLatest, CommitRead, CommitEdit
    <2>6. CASE RunCheck(s) \/ StoreCheck(s) \/ ReadFails(s) BY <1>2, <2>6 DEF RunCheck, StoreCheck, ReadFails
    <2> QED BY <1>4, <2>1, <2>2, <2>3, <2>4, <2>5, <2>6 DEF Handle
  <1>5. CASE OtherEdit \/ StoreOther BY <1>2, <1>5 DEF OtherEdit, StoreOther, server, Forms
  <1>6. CASE Tick BY <1>0, <1>2, <1>6, SMTT(30) DEF Tick, Less, Forms
  <1>7. CASE UNCHANGED vars BY <1>2, <1>7 DEF vars, server, Forms
  <1> QED BY <1>4, <1>5, <1>6, <1>7 DEF Next, Forms

\* What storeCheck leaves, field by field.
LEMMA ChecksMove ==
  ASSUME TypeOK, [Next]_vars
  PROVE  \/ checks' = checks
         \/ Tick \/ StoreOther
         \/ \E s \in Handlers : StoreCheck(s)
  <1>1. ASSUME NEW s \in Handlers, Handle(s) PROVE checks' = checks \/ StoreCheck(s)
    <2> USE DEF server
    <2>1. CASE Get(s) \/ ViewBefore(s) \/ ViewLoad(s) \/ ViewAfter(s) \/ PageList(s) \/ PageChecks(s) \/ PageToken(s) \/ PageSend(s)
      BY <2>1 DEF Get, ViewBefore, ViewLoad, ViewAfter, PageList, PageChecks, PageToken, PageSend
    <2>2. CASE Post(s) \/ CheckRevision(s) \/ Review(s) \/ ReviewLatest(s) \/ ReviewToken(s)
      BY <2>2 DEF Post, CheckRevision, Review, ReviewLatest, ReviewToken
    <2>3. CASE CommitRead(s) \/ CommitEdit(s) \/ RunCheck(s) \/ Discover(s) \/ ReadFails(s)
      BY <2>3 DEF CommitRead, CommitEdit, RunCheck, Discover, ReadFails
    <2> QED BY <1>1, <2>1, <2>2, <2>3 DEF Handle
  <1>2. CASE OtherEdit BY <1>2 DEF OtherEdit, server
  <1>3. CASE UNCHANGED vars BY <1>3 DEF vars, server
  <1> QED BY <1>1, <1>2, <1>3 DEF Next

\* A stored result replaces those of another revision (storeCheck).
LEMMA StoreStep ==
  ASSUME TypeOK, past \subseteq Contents, NEW s \in Handlers, RequestOK(s), StoreCheck(s)
  PROVE  /\ checks' \in [revision : Contents, path : Result, access : Result]
         /\ checks'.revision = req[s].rev
         /\ checks'[req[s].doing] = [left |-> Life, of |-> req[s].cur]
         /\ req[s].doing \in Checks
         /\ \A k \in Checks \ {req[s].doing} :
               \/ checks.revision = req[s].rev /\ checks'[k] = checks[k]
               \/ checks'[k].left = 0
  <1> DEFINE r == req[s]
  <1>0. /\ r.rev \in Contents /\ r.cur \in Contents /\ r.doing \in {"path", "access"} /\ Life \in Nat
    BY WebAssumption DEF StoreCheck, At, RequestOK, Checks
  <1>1. checks \in [revision : Contents, path : Result, access : Result] BY DEF TypeOK
  <1>2. [left |-> 0, of |-> r.rev] \in Result /\ [left |-> Life, of |-> r.cur] \in Result
    BY <1>0, SMTT(30) DEF Result
  <1>3. PICK k : k = Kept(r.rev) OBVIOUS
  <1>4. /\ k \in [revision : Contents, path : Result, access : Result]
        /\ \/ k = checks /\ checks.revision = r.rev
           \/ k.path.left = 0 /\ k.access.left = 0
    BY <1>0, <1>1, <1>2, <1>3 DEF Kept, NoResults
  <1>5. checks' = [k EXCEPT !.revision = r.rev, ![r.doing] = [left |-> Life, of |-> r.cur]]
    BY <1>3, SMTT(20) DEF StoreCheck
  <1> HIDE DEF r
  <1>6. CASE r.doing = "path"
    <2>1. checks' = [revision |-> r.rev, path |-> [left |-> Life, of |-> r.cur], access |-> k.access]
      BY <1>4, <1>5, <1>6
    <2>2. checks'["path"] = [left |-> Life, of |-> r.cur] /\ checks'["access"] = k["access"] /\ checks'["revision"] = r.rev
      BY <2>1, SMTT(20)
    <2> QED BY <1>0, <1>2, <1>4, <1>6, <2>1, <2>2 DEF Checks, r
  <1>7. CASE r.doing = "access"
    <2>1. checks' = [revision |-> r.rev, path |-> k.path, access |-> [left |-> Life, of |-> r.cur]]
      BY <1>4, <1>5, <1>7
    <2>2. checks'["access"] = [left |-> Life, of |-> r.cur] /\ checks'["path"] = k["path"] /\ checks'["revision"] = r.rev
      BY <2>1
    <2> QED BY <1>0, <1>2, <1>4, <1>7, <2>1, <2>2 DEF Checks, r
  <1> QED BY <1>0, <1>6, <1>7

\* A check of another project at most drops the results of this one.
LEMMA OtherChecks ==
  ASSUME TypeOK, StoreOther
  PROVE  /\ checks' \in [revision : Contents, path : Result, access : Result]
         /\ checks'.revision = checks.revision
         /\ \A k \in Checks : checks'[k].left = 0
  <1>1. checks.revision \in Contents /\ Life \in Nat BY WebAssumption DEF TypeOK
  <1>2. [left |-> 0, of |-> checks.revision] \in Result BY <1>1, SMTT(30) DEF Result
  <1>3. checks' = [revision |-> checks.revision, path |-> [left |-> 0, of |-> checks.revision],
                   access |-> [left |-> 0, of |-> checks.revision]]
    BY DEF StoreOther, NoResults
  <1>4. checks'.revision = checks.revision /\ \A k \in {"path", "access"} : checks'[k].left = 0
    BY <1>3, SMTT(20)
  <1> QED BY <1>1, <1>2, <1>3, <1>4 DEF Checks

\* The passing of time only lets stored results run out.
LEMMA TickChecks ==
  ASSUME TypeOK, Tick
  PROVE  /\ checks' \in [revision : Contents, path : Result, access : Result]
         /\ checks'.revision = checks.revision
         /\ \A k \in Checks : checks'[k].of = checks[k].of /\ (checks'[k].left > 0 => checks[k].left > 0)
  <1>0. checks \in [revision : Contents, path : Result, access : Result] /\ Life \in Nat
    BY WebAssumption DEF TypeOK
  <1>1. checks' = [checks EXCEPT !.path.left = Less(@), !.access.left = Less(@)] BY DEF Tick
  <1>2. \A n \in 0 .. Life : Less(n) \in 0 .. Life /\ (Less(n) > 0 => n > 0) BY <1>0, SMTT(30) DEF Less
  <1>3. checks' = [revision |-> checks.revision,
                   path |-> [left |-> Less(checks.path.left), of |-> checks.path.of],
                   access |-> [left |-> Less(checks.access.left), of |-> checks.access.of]]
    BY <1>0, <1>1 DEF Result
  <1>4. checks.path \in Result /\ checks.access \in Result /\ checks.revision \in Contents BY <1>0
  <1>5. /\ [left |-> Less(checks.path.left), of |-> checks.path.of] \in Result
        /\ [left |-> Less(checks.access.left), of |-> checks.access.of] \in Result
    BY <1>2, <1>4 DEF Result
  <1>6. \A k \in {"path", "access"} : checks'[k].of = checks[k].of /\ (checks'[k].left > 0 => checks[k].left > 0)
    BY <1>2, <1>3, <1>4, SMTT(30) DEF Result
  <1> QED BY <1>3, <1>4, <1>5, <1>6 DEF Checks

\* Tokens, requests, stored results and the policy keep their types.
LEMMA WebTypeStep ==
  ASSUME TypeOK, past \subseteq Contents, \A h \in Handlers : RequestOK(h), [Next]_vars
  PROVE  TypeOK'
  <1>1. issued' \in 0 .. MaxTokens /\ issued <= issued' BY IssuedStep DEF TypeOK
  <1>2. \A e \in table' : IsToken(e)' BY TableTyped
  <1>3. policy' \in Contents /\ edits' \in 0 .. MaxEdits BY ContentsStep
  <1>4. checks' \in [revision : Contents, path : Result, access : Result]
    <2>1. CASE checks' = checks BY <2>1 DEF TypeOK
    <2>2. CASE Tick BY <2>2, TickChecks
    <2>4. CASE StoreOther BY <2>4, OtherChecks
    <2>3. ASSUME NEW s \in Handlers, StoreCheck(s) PROVE checks' \in [revision : Contents, path : Result, access : Result]
      BY <2>3, StoreStep
    <2> QED BY <2>1, <2>2, <2>3, <2>4, ChecksMove
  <1>5. DOMAIN req' = Handlers /\ \A h \in Handlers : IsRequest(req[h])'
    <2>1. CASE req' = req
      <3>1. \A h \in Handlers : IsRequest(req[h]) BY DEF TypeOK
      <3>2. issued \in Nat /\ issued' \in Nat BY <1>1, WebAssumption, SMTT(30) DEF TypeOK
      <3> QED BY <1>1, <2>1, <3>1, <3>2, SMTT(30) DEF IsRequest, IsChange, TypeOK
    <2>2. ASSUME NEW s \in Handlers, Handle(s)
          PROVE  DOMAIN req' = Handlers /\ \A h \in Handlers : IsRequest(req[h])'
      <3>1. DOMAIN req' = Handlers
        <4> USE DEF TypeOK, Step, Go, End
        <4>1. CASE Get(s) \/ ViewBefore(s) \/ ViewLoad(s) \/ ViewAfter(s) \/ PageToken(s) \/ PageList(s) \/ PageChecks(s) \/ PageSend(s)
          BY <4>1 DEF Get, ViewBefore, ViewLoad, ViewAfter, PageToken, PageList, PageChecks, PageSend
        <4>2. CASE Post(s) \/ CheckRevision(s) BY <4>2 DEF Post, CheckRevision
        <4>3. CASE Review(s) \/ ReviewLatest(s) \/ ReviewToken(s) BY <4>3 DEF Review, ReviewLatest, ReviewToken
        <4>4. CASE CommitRead(s) \/ CommitEdit(s) \/ RunCheck(s) \/ StoreCheck(s) \/ Discover(s) \/ ReadFails(s)
          BY <4>4 DEF CommitRead, CommitEdit, RunCheck, StoreCheck, Discover, ReadFails
        <4> QED BY <2>2, <4>1, <4>2, <4>3, <4>4 DEF Handle
      <3>2. IsRequest(req[s])' BY <1>1, <2>2, RequestTyped, SMTT(20)
      <3>3. ASSUME NEW h \in Handlers \ {s} PROVE IsRequest(req[h])'
        <4>1. req'[h] = req[h] /\ IsRequest(req[h]) BY <2>2, OthersKept DEF TypeOK
        <4>2. issued \in Nat /\ issued' \in Nat BY <1>1, WebAssumption, SMTT(30) DEF TypeOK
        <4> QED BY <1>1, <4>1, <4>2, SMTT(20) DEF IsRequest, IsChange
      <3> QED BY <3>1, <3>2, <3>3
    <2> QED BY <2>1, <2>2, SMTT(20) DEF Next, StoreOther, OtherEdit, Tick, vars
  <1>6. /\ forms' \subseteq [token : 1 .. issued', action : FormActions \cup {"commit"}]
        /\ listed' \in 0 .. Life
    BY FormsTyped
  <1> QED BY <1>1, <1>2, <1>3, <1>4, <1>5, <1>6 DEF TypeOK

---------------------------------------------------------------------------
(* Tokens.                                                                 *)

\* A token is accepted while it is in the table, and leaves it.
LEMMA TakenMoves ==
  ASSUME [Next]_vars
  PROVE  \/ taken' = taken
         \/ \E e \in table : /\ taken' = [taken EXCEPT ![e.token] = @ + 1]
                             /\ \A x \in table' : x.token # e.token
                             /\ table' \subseteq table /\ issued' = issued
  <1>1. ASSUME NEW s \in Handlers, Handle(s), taken' # taken
        PROVE  \E e \in table : /\ taken' = [taken EXCEPT ![e.token] = @ + 1]
                                /\ \A x \in table' : x.token # e.token
                                /\ table' \subseteq table /\ issued' = issued
    <2>1. CASE Post(s) BY <1>1, <2>1 DEF Post, Remaining, pruneTokens
    <2>2. CASE ~Post(s)
      BY <1>1, <2>2 DEF Handle, Get, ViewBefore, ViewLoad, ViewAfter, PageToken, PageList, PageChecks, PageSend, CheckRevision,
          Review, ReviewLatest, ReviewToken, CommitRead, CommitEdit, RunCheck, StoreCheck, Discover, ReadFails
    <2> QED BY <2>1, <2>2
  <1> QED BY <1>1 DEF Next, StoreOther, OtherEdit, Tick, vars

\* A token is accepted when it is taken out of the table, so never again
\* (takeToken).
LEMMA TakenStep ==
  ASSUME TypeOK, TakenOK, \A e \in table : TokenOK(e), [Next]_vars
  PROVE  TakenOK'
  <1>0. /\ issued \in 0 .. MaxTokens /\ issued' \in 0 .. MaxTokens /\ issued <= issued' /\ MaxTokens \in Nat
    BY IssuedStep, WebAssumption DEF TypeOK
  <1>1. CASE taken' = taken BY <1>0, <1>1, SMTT(30) DEF TakenOK
  <1>2. ASSUME NEW e \in table, taken' = [taken EXCEPT ![e.token] = @ + 1], issued' = issued PROVE TakenOK'
    <2>1. e.token \in 1 .. issued /\ taken[e.token] = 0 BY DEF TypeOK, IsToken, TokenOK
    <2> QED BY <1>0, <1>2, <2>1, SMTT(30) DEF TakenOK
  <1> QED BY <1>1, <1>2, TakenMoves

\* An entry that stays in the table, or is put there, is sound.
LEMMA TokensStep ==
  ASSUME TypeOK, TakenOK, \A e \in table : TokenOK(e), \A h \in Handlers : RequestOK(h), Onward, [Next]_vars
  PROVE  \A e \in table' : TokenOK(e)'
  <1>0. \A e \in table : e.token \in 1 .. issued /\ issued \in Nat /\ issued <= MaxTokens /\ MaxTokens \in Nat
    BY WebAssumption, SMTT(30) DEF TypeOK, IsToken
  <1>1. ASSUME NEW e, TokenOK(e), taken'[e.token] = 0 PROVE TokenOK(e)'
    BY <1>1, SMTT(20) DEF TokenOK, Onward, Reviewed, Resolve, Widens
  <1>3. CASE table' \subseteq table /\ taken' = taken BY <1>1, <1>3 DEF TokenOK
  <1>4. CASE \E d \in table : /\ taken' = [taken EXCEPT ![d.token] = @ + 1]
                              /\ \A x \in table' : x.token # d.token
                              /\ table' \subseteq table
    <2>1. PICK d \in table : /\ taken' = [taken EXCEPT ![d.token] = @ + 1]
                             /\ \A x \in table' : x.token # d.token
                             /\ table' \subseteq table
      BY <1>4
    <2> SUFFICES ASSUME NEW e \in table' PROVE TokenOK(e)' OBVIOUS
    <2>2. e \in table /\ e.token # d.token /\ e.token \in 1 .. MaxTokens BY <1>0, <2>1, SMTT(30)
    <2>3. taken'[e.token] = taken[e.token] BY <2>1, <2>2 DEF TakenOK
    <2> QED BY <1>1, <2>2, <2>3 DEF TokenOK
  <1>5. CASE Tick
    <2> SUFFICES ASSUME NEW e \in table' PROVE TokenOK(e)' OBVIOUS
    <2>1. PICK x \in table : e = [x EXCEPT !.left = Less(x.left)] BY <1>5 DEF Tick
    <2>2. IsToken(x) /\ TokenOK(x) BY DEF TypeOK
    <2>3. e.token = x.token /\ e.revision = x.revision /\ e.action = x.action /\ e.change = x.change
      BY <2>1, <2>2 DEF IsToken
    <2>4. TokenOK(x)' BY <1>1, <1>5, <2>2, SMTT(20) DEF Tick, TokenOK
    <2> QED BY <2>3, <2>4 DEF TokenOK
  <1>6. ASSUME NEW s \in Handlers, NewToken(s), taken' = taken PROVE \A e \in table' : TokenOK(e)'
    <2>1. PICK a, c : /\ issueToken(a, req[s].rev, c)
                      /\ a = "commit" => At(s, "token") /\ c = req[s].chg
                      /\ req[s].pc \in {"issue", "more", "token"}
      <3>1. IsRequest(req[s]) BY DEF TypeOK
      <3>2. "commit" \notin FormActions BY WebAssumption DEF Changes, Overview, Checks
      <3> QED BY <1>6, <3>1, <3>2 DEF NewToken, IsRequest, At
    <2> SUFFICES ASSUME NEW e \in table' PROVE TokenOK(e)' BY SMTT(20)
    <2>2. CASE e \in table BY <1>1, <1>6, <2>2 DEF TokenOK
    <2>3. CASE e = [token |-> issued + 1, action |-> a, revision |-> req[s].rev, change |-> c, left |-> Life]
      <3>1. issued + 1 \in 1 .. MaxTokens /\ issued + 1 > issued
        BY <2>1, WebAssumption, SMTT(30) DEF issueToken, TypeOK
      <3>2. taken[issued + 1] = 0 BY <3>1 DEF TakenOK
      <3>3. req[s].rev \in past BY <2>1 DEF RequestOK
      <3>4. a = "commit" => Reviewed(c) /\ (recurred \/ c.on = req[s].rev)
        BY <2>1 DEF RequestOK, Committing, At
      <3>5. TokenOK(e) BY <2>3, <3>2, <3>3, <3>4 DEF TokenOK
      <3>6. taken'[e.token] = 0 BY <1>6, <3>5 DEF TokenOK
      <3> QED BY <1>1, <3>5, <3>6, SMTT(20)
    <2> QED BY <2>1, <2>2, <2>3 DEF issueToken, pruneTokens
  <1>7. CASE table' \subseteq table /\ taken' # taken BY <1>4, <1>7, TakenMoves
  <1> QED BY <1>3, <1>5, <1>6, <1>7, TableMoves, SMTT(20)

\* The table never outgrows its limit.
LEMMA TableStep ==
  ASSUME TypeOK, IsFiniteSet(table), Cardinality(table) <= Limit, [Next]_vars
  PROVE  IsFiniteSet(table') /\ Cardinality(table') <= Limit
  <1>0. Limit \in Nat /\ Cardinality(table) \in Nat BY WebAssumption, FS_CardinalityType
  <1>1. ASSUME NEW T \in SUBSET table
        PROVE  IsFiniteSet(T) /\ Cardinality(T) \in Nat /\ Cardinality(T) <= Cardinality(table)
    BY FS_Subset, FS_CardinalityType
  <1>2. CASE table' \subseteq table BY <1>0, <1>1, <1>2, SMTT(30)
  <1>3. CASE Tick
    <2> DEFINE f == [e \in table |-> [e EXCEPT !.left = Less(@)]]
    <2>1. f \in Surjection(table, table') BY <1>3 DEF Tick, Surjection
    <2>2. IsFiniteSet(table') /\ Cardinality(table') <= Cardinality(table) BY <2>1, FS_Surjection
    <2>3. Cardinality(table') \in Nat BY <2>2, FS_CardinalityType
    <2> QED BY <1>0, <2>2, <2>3, SMTT(30)
  <1>4. ASSUME NEW a, NEW v, NEW c, issueToken(a, v, c) PROVE IsFiniteSet(table') /\ Cardinality(table') <= Limit
    <2>1. pruneTokens \in SUBSET table BY DEF pruneTokens
    <2>2. IsFiniteSet(pruneTokens) /\ Cardinality(pruneTokens) \in Nat BY <1>1, <2>1
    <2>3. Cardinality(pruneTokens) < Limit BY <1>4 DEF issueToken, CanIssue
    <2>4. PICK x : table' = pruneTokens \cup {x} BY <1>4 DEF issueToken
    <2>5. /\ IsFiniteSet(pruneTokens \cup {x})
          /\ Cardinality(pruneTokens \cup {x}) = IF x \in pruneTokens THEN Cardinality(pruneTokens)
                                                 ELSE Cardinality(pruneTokens) + 1
      BY <2>2, FS_AddElement, SMTT(20)
    <2> QED BY <1>0, <2>2, <2>3, <2>4, <2>5, SMTT(30)
  <1> QED BY <1>2, <1>3, <1>4, TableMoves DEF NewToken

---------------------------------------------------------------------------
(* Requests.                                                               *)

\* What is asked of a request at its start, rendering a page, or on its way to
\* discovery, a check or review.
LEMMA RequestPlain ==
  ASSUME NEW s, req'[s].pc \in {"idle", "view", "discover", "check", "review"},
         req'[s].pc \notin {"idle", "view"} => req'[s].rev \in past',
         req'[s].pc = "check" => req'[s].doing \in Checks,
         req'[s].pc = "review" => req'[s].chg.input \in Inputs
  PROVE  RequestOK(s)'
  BY DEF RequestOK, Committing

\* A request at its start, or rendering a page, claims nothing yet.
LEMMA RequestFresh ==
  ASSUME NEW s, req'[s].pc \in {"idle", "view"}
  PROVE  RequestOK(s)'
  BY RequestPlain, SMTT(30)

\* A handler that has answered claims nothing.
LEMMA RequestEnds ==
  ASSUME NEW s, req'[s] = Idle
  PROVE  RequestOK(s)'
  <1>1. req'[s].pc = "idle" BY SMTT(30) DEF Idle
  <1> QED BY <1>1, RequestFresh, SMTT(30)

\* A page is bound to the revision it was rendered under.
LEMMA PageRequest ==
  ASSUME TypeOK, NEW s \in Handlers, RequestOK(s), policy \in past, StoredCurrent,
         ViewBefore(s) \/ ViewLoad(s) \/ ViewAfter(s) \/ PageToken(s) \/ PageList(s) \/ PageChecks(s) \/ PageSend(s)
  PROVE  RequestOK(s)'
  <1> DEFINE r == req[s]
             n == req'[s]
  <1>0. /\ s \in DOMAIN req /\ UNCHANGED <<policy, past, recurred>>
        /\ DOMAIN r = {"pc", "shows", "msg", "todo", "page", "found", "doing", "rev", "cur", "chg", "confirm"}
    BY DEF TypeOK, IsRequest, ViewBefore, ViewLoad, ViewAfter, PageToken, PageList, PageChecks, PageSend, contents
  <1>1. CASE n = Idle BY <1>1, RequestEnds
  <1>2. CASE ViewBefore(s)
    <2>1. n.pc = "load" /\ n.rev = policy BY <1>0, <1>2 DEF ViewBefore, Step
    <2> QED BY <1>0, <2>1 DEF RequestOK, Committing
  <1>3. CASE ViewLoad(s)
    <2>1. n.pc = "render" /\ n.rev = r.rev /\ n.cur = policy /\ r.pc = "load"
      BY <1>0, <1>3 DEF ViewLoad, Step, At
    <2> QED BY <1>0, <2>1 DEF RequestOK, Committing
  <1>4. CASE ViewAfter(s) /\ ~End(s)
    <2>1. n.pc = "issue" /\ n.rev = r.rev /\ n.cur = r.cur /\ r.pc = "render" /\ policy = r.rev
      BY <1>0, <1>4 DEF ViewAfter, Step, At, Unchanged
    <2> QED BY <1>0, <2>1 DEF RequestOK, Committing
  <1>5. CASE PageToken(s) /\ ~End(s)
    <2>0. \E a : n = [r EXCEPT !.todo = r.todo \ {a},
                                !.page = r.page \cup {[token |-> issued + 1, action |-> a]}]
      BY <1>0, <1>5 DEF PageToken, Step
    <2>1. /\ n.pc = r.pc /\ n.rev = r.rev /\ n.cur = r.cur /\ n.found = r.found /\ n.shows = r.shows
          /\ r.pc \in {"issue", "more"}
      BY <1>0, <1>5, <2>0 DEF PageToken
    <2> QED BY <1>0, <2>1 DEF RequestOK, Committing
  <1>7. CASE PageList(s)
    <2>0. \E t : n = [r EXCEPT !.pc = "more", !.todo = t] BY <1>0, <1>7 DEF PageList, Step
    <2>1. n.pc = "more" /\ n.rev = r.rev /\ n.cur = r.cur /\ n.shows = "overview" /\ r.pc = "issue"
      BY <1>0, <1>7, <2>0 DEF PageList, At
    <2> QED BY <1>0, <2>1 DEF RequestOK, Committing
  <1>8. CASE PageChecks(s)
    <2>0. PICK t, f : /\ n = [r EXCEPT !.pc = "more", !.todo = t, !.found = f]
                      /\ f = [k \in Checks |-> IF Good(k, r.rev) THEN checks[k].of ELSE NoContent]
      BY <1>0, <1>8 DEF PageChecks, Step
    <2>1. n.pc = "more" /\ n.rev = r.rev /\ n.cur = r.cur /\ n.found = f /\ r.pc = "issue"
      BY <1>0, <1>8, <2>0 DEF PageChecks, At
    <2>2. ~recurred /\ policy = r.rev => \A k \in Checks : f[k] \in {NoContent, r.rev}
      BY <2>0 DEF Good, StoredCurrent
    <2> QED BY <1>0, <2>1, <2>2 DEF RequestOK, Committing
  <1>6. End(s) => n = Idle BY <1>0 DEF End, Step
  <1> QED BY <1>1, <1>2, <1>3, <1>4, <1>5, <1>6, <1>7, <1>8 DEF PageSend

\* A form is accepted with the revision and the change of its token.
LEMMA PostRequest ==
  ASSUME TypeOK, NEW s \in Handlers, RequestOK(s), \A e \in table : TokenOK(e), Post(s)
  PROVE  RequestOK(s)'
  <1> DEFINE n == req'[s]
  <1>0. s \in DOMAIN req /\ UNCHANGED <<policy, past, recurred>> BY DEF TypeOK, Post, contents
  <1>1. CASE req' = req
    <2>1. n.pc = "idle" BY <1>1 DEF Post, At
    <2> QED BY <2>1, RequestFresh, SMTT(30)
  <1>2. CASE req' # req
    <2>0. PICK e \in table, box \in BOOLEAN : \E c \in Posted(e) :
             Step(s, [Idle EXCEPT !.pc = "revision", !.doing = e.action, !.rev = e.revision,
                                  !.chg = c, !.confirm = box])
      BY <1>2 DEF Post, pruneTokens
    <2>1. PICK c \in Posted(e) :
             n = [Idle EXCEPT !.pc = "revision", !.doing = e.action, !.rev = e.revision, !.chg = c, !.confirm = box]
      BY <1>0, <2>0 DEF Step
    <2>2. n.pc = "revision" /\ n.doing = e.action /\ n.rev = e.revision /\ n.chg = c BY <2>1 DEF Idle
    <2>3. TokenOK(e) OBVIOUS
    <2>4. CASE e.action \in Changes
      <3>1. c.input \in Inputs BY <2>4 DEF Posted, NoChange
      <3>2. n.doing # "commit" BY <2>2, <2>4 DEF Changes
      <3> QED BY <1>0, <2>2, <2>3, <3>1, <3>2 DEF RequestOK, Committing, TokenOK
    <2>5. CASE e.action \notin Changes
      <3>1. c = e.change BY <2>5 DEF Posted
      <3>2. e.action = "commit" => Reviewed(c) /\ (recurred \/ c.on = e.revision) BY <2>0, <2>3, <3>1 DEF TokenOK
      <3>3. Reviewed(c) => Reviewed(c)' BY DEF Reviewed, Resolve, Widens
      <3> QED BY <1>0, <2>2, <2>3, <2>5, <3>2, <3>3 DEF RequestOK, Committing, TokenOK, Reviewed
    <2> QED BY <2>4, <2>5
  <1> QED BY <1>1, <1>2

\* From the check of the revision to review, check or commit.
LEMMA RevisionRequest ==
  ASSUME TypeOK, NEW s \in Handlers, RequestOK(s), CheckRevision(s)
  PROVE  RequestOK(s)'
  <1> DEFINE r == req[s]
             n == req'[s]
  <1>0. /\ s \in DOMAIN req /\ UNCHANGED <<policy, past, recurred>> /\ r.pc = "revision"
        /\ DOMAIN r = {"pc", "shows", "msg", "todo", "page", "found", "doing", "rev", "cur", "chg", "confirm"}
        /\ r.chg.widen \in BOOLEAN /\ r.confirm \in BOOLEAN
    BY DEF TypeOK, IsRequest, IsChange, CheckRevision, contents, At
  <1>1. CASE End(s)
    <2>1. n = Idle BY <1>0, <1>1 DEF End, Step
    <2> QED BY <2>1, RequestEnds
  <1>2. ASSUME NEW pc, Go(s, pc)
        PROVE  /\ n.pc = pc /\ n.rev = r.rev /\ n.cur = r.cur /\ n.doing = r.doing
               /\ n.chg = r.chg /\ n.confirm = r.confirm
    BY <1>0, <1>2 DEF Go
  <1>a. r.rev \in past /\ (r.doing \in Changes => r.chg.input \in Inputs) BY <1>0 DEF RequestOK
  <1>3. CASE Go(s, "discover")
    <2>1. n.pc = "discover" /\ n.rev \in past' BY <1>0, <1>2, <1>3, <1>a
    <2> QED BY <2>1, RequestPlain, SMTT(30)
  <1>4. CASE r.doing \in Checks /\ Go(s, "check")
    <2>1. n.pc = "check" /\ n.rev \in past' /\ n.doing \in Checks BY <1>0, <1>2, <1>4, <1>a
    <2> QED BY <2>1, RequestPlain, SMTT(30)
  <1>5. CASE r.doing \in Changes /\ Go(s, "review")
    <2>1. n.pc = "review" /\ n.rev \in past' /\ n.chg.input \in Inputs BY <1>0, <1>2, <1>5, <1>a
    <2> QED BY <2>1, RequestPlain, SMTT(20)
  <1>6. CASE /\ r.doing = "commit" /\ (r.chg.widen => r.confirm)
             /\ \/ Go(s, "read")
                \/ Go(s, "edit") /\ r.chg.input.kind # "metadata"
    <2>1. PICK pc \in {"read", "edit"} : Go(s, pc) /\ (pc = "edit" => r.chg.input.kind # "metadata") BY <1>6
    <2>2. n.pc = pc /\ n.rev = r.rev /\ n.chg = r.chg /\ n.confirm = r.confirm BY <1>2, <2>1
    <2>3. /\ Reviewed(r.chg) /\ r.rev \in past /\ (~recurred => r.chg.on = r.rev)
      BY <1>0, <1>6 DEF RequestOK, Committing
    <2>4. Reviewed(req[s].chg)' BY <2>2, <2>3 DEF Reviewed, Resolve, Widens
    <2> QED BY <1>0, <1>6, <2>1, <2>2, <2>3, <2>4 DEF RequestOK, Committing, Reviewed
  <1> QED BY <1>1, <1>3, <1>4, <1>5, <1>6 DEF CheckRevision

\* Review, its second look at the revision, and the commit's own read.
LEMMA ReviewRequest ==
  ASSUME TypeOK, NEW s \in Handlers, RequestOK(s),
         Review(s) \/ ReviewLatest(s) \/ ReviewToken(s) \/ CommitRead(s)
  PROVE  RequestOK(s)'
  <1> DEFINE r == req[s]
             n == req'[s]
  <1>0. /\ s \in DOMAIN req /\ UNCHANGED <<policy, past, recurred>> /\ policy \in Contents
        /\ DOMAIN r = {"pc", "shows", "msg", "todo", "page", "found", "doing", "rev", "cur", "chg", "confirm"}
    BY DEF TypeOK, IsRequest, Review, ReviewLatest, ReviewToken, CommitRead, contents
  <1>1. CASE End(s)
    <2>1. n = Idle BY <1>0, <1>1 DEF End, Step
    <2> QED BY <2>1, RequestEnds
  <1>2. CASE Review(s) /\ ~End(s)
    <2>1. PICK x : /\ x = [input |-> Resolve(r.chg.input, policy), widen |-> Widens(r.chg.input, policy), on |-> policy]
                   /\ n = [r EXCEPT !.pc = "latest", !.chg = x]
      BY <1>0, <1>2 DEF Review, Step
    <2>2. r.pc = "review" /\ r.chg.input \in Inputs /\ Acceptable(r.chg.input, policy)
      BY <1>2 DEF Review, At, RequestOK
    <2>3. Reviewed(x) /\ x.on = policy BY <1>0, <2>1, <2>2, ReviewTyped
    <2>4. n.pc = "latest" /\ n.chg = x /\ n.rev = r.rev BY <1>0, <2>1
    <2>5. Reviewed(x)' BY <2>3 DEF Reviewed, Resolve, Widens
    <2>6. r.rev \in past BY <2>2 DEF RequestOK
    <2> QED BY <1>0, <2>3, <2>4, <2>5, <2>6 DEF RequestOK, Committing, Reviewed
  <1>3. CASE ReviewLatest(s) /\ ~End(s)
    <2>1. r.pc = "latest" /\ policy = r.rev /\ n = [r EXCEPT !.pc = "token"]
      BY <1>0, <1>3 DEF ReviewLatest, At, Go
    <2>2. n.pc = "token" /\ n.chg = r.chg /\ n.rev = r.rev BY <1>0, <2>1
    <2>3. Reviewed(r.chg) /\ r.rev \in past /\ (~recurred => r.chg.on = r.rev) BY <2>1 DEF RequestOK
    <2>4. Reviewed(req[s].chg)' BY <2>2, <2>3 DEF Reviewed, Resolve, Widens
    <2> QED BY <1>0, <2>2, <2>3, <2>4 DEF RequestOK, Committing, Reviewed
  <1>4. CASE CommitRead(s)
    <2>1. r.pc = "read" /\ n = [r EXCEPT !.pc = "edit", !.cur = policy]
      BY <1>0, <1>4 DEF CommitRead, At, Step
    <2>2. n.pc = "edit" /\ n.chg = r.chg /\ n.rev = r.rev /\ n.cur = policy /\ n.confirm = r.confirm BY <1>0, <2>1
    <2>3. Reviewed(r.chg) /\ r.rev \in past /\ (~recurred => r.chg.on = r.rev) /\ (r.chg.widen => r.confirm)
      BY <2>1 DEF RequestOK, Committing
    <2>4. Reviewed(req[s].chg)' BY <2>2, <2>3 DEF Reviewed, Resolve, Widens
    <2> QED BY <1>0, <2>2, <2>3, <2>4 DEF RequestOK, Committing, Reviewed
  <1> QED BY <1>1, <1>2, <1>3, <1>4 DEF ReviewToken

\* A step of a handler keeps what is true of its own request.
LEMMA OwnRequest ==
  ASSUME TypeOK, PastOK, NEW s \in Handlers, RequestOK(s), \A e \in table : TokenOK(e), Handle(s)
  PROVE  RequestOK(s)'
  <1>0. s \in DOMAIN req /\ policy \in past /\ policy \in Contents /\ StoredCurrent BY DEF TypeOK, PastOK
  <1>1. CASE End(s)
    <2>1. req'[s] = Idle BY <1>0, <1>1 DEF End, Step
    <2> QED BY <2>1, RequestEnds
  <1>2. ASSUME NEW p, NEW m, Step(s, Page(p, m)) PROVE RequestOK(s)'
    <2>1. req'[s] = Page(p, m) BY <1>0, <1>2 DEF Step
    <2>2. Page(p, m).pc = "view" BY DEF Page, Idle
    <2> QED BY <2>1, <2>2, RequestFresh, SMTT(30)
  <1>3. CASE Get(s) BY <1>2, <1>3 DEF Get
  <1>4. CASE CommitEdit(s) BY <1>1, <1>2, <1>4 DEF CommitEdit
  <1>5. CASE StoreCheck(s) \/ Discover(s) \/ ReadFails(s) BY <1>1, <1>2, <1>5 DEF StoreCheck, Discover, ReadFails
  <1>6. CASE RunCheck(s)
    <2>0. DOMAIN req[s] = {"pc", "shows", "msg", "todo", "page", "found", "doing", "rev", "cur", "chg", "confirm"}
      BY DEF TypeOK, IsRequest
    <2>1. /\ req[s].pc = "check" /\ UNCHANGED <<policy, past, recurred>>
          /\ req'[s] = [req[s] EXCEPT !.pc = "store", !.cur = policy]
      BY <1>0, <1>6 DEF RunCheck, At, Step, contents
    <2>2. req'[s].pc = "store" /\ req'[s].cur = policy /\ req'[s].rev = req[s].rev /\ req'[s].doing = req[s].doing
      BY <2>0, <2>1
    <2> QED BY <1>0, <2>1, <2>2 DEF RequestOK, Committing
  <1> QED BY <1>0, <1>3, <1>4, <1>5, <1>6, PageRequest, PostRequest, RevisionRequest, ReviewRequest DEF Handle

---------------------------------------------------------------------------
(* The invariant and what follows from it.                                 *)

\* Results stored for the policy of the moment were obtained on it.
LEMMA ChecksStep ==
  ASSUME WebInv, [Next]_vars, Onward
  PROVE  checks'.revision \in past' /\ StoredCurrent'
  <1>0. /\ TypeOK /\ PastOK /\ past \subseteq past' /\ (recurred => recurred')
        /\ \A c \in past : ~recurred' /\ policy' = c => policy = c
    BY DEF WebInv, Onward
  <1>1. CASE checks' = checks BY <1>0, <1>1 DEF PastOK, StoredCurrent
  <1>2. CASE Tick
    <2>1. /\ checks'.revision = checks.revision /\ UNCHANGED <<policy, past, recurred>>
          /\ \A k \in Checks : checks'[k].of = checks[k].of /\ (checks'[k].left > 0 => checks[k].left > 0)
      BY <1>0, <1>2, TickChecks, SMTT(20) DEF Tick, contents
    <2> QED BY <1>0, <2>1 DEF PastOK, StoredCurrent
  <1>3. ASSUME NEW s \in Handlers, StoreCheck(s) PROVE checks'.revision \in past' /\ StoredCurrent'
    <2> DEFINE r == req[s]
    <2>0. RequestOK(s) /\ r.pc = "store" /\ UNCHANGED <<policy, past, recurred>>
      BY <1>3 DEF WebInv, StoreCheck, At, contents
    <2>1. /\ checks'.revision = r.rev /\ r.doing \in Checks
          /\ checks'[r.doing] = [left |-> Life, of |-> r.cur]
          /\ \A k \in Checks \ {r.doing} :
                \/ checks.revision = r.rev /\ checks'[k] = checks[k]
                \/ checks'[k].left = 0
      BY <1>0, <1>3, <2>0, StoreStep DEF PastOK
    <2>2. r.rev \in past BY <2>0 DEF RequestOK
    <2>3. ASSUME ~recurred, r.rev = policy, NEW k \in Checks, checks'[k].left > 0 PROVE checks'[k].of = policy
      <3>1. CASE k = r.doing
        <4>1. r.cur = r.rev BY <2>0, <2>3 DEF RequestOK
        <4>2. checks'[r.doing].of = r.cur BY <2>1, SMTT(30)
        <4> QED BY <2>3, <3>1, <4>1, <4>2
      <3>2. CASE k # r.doing /\ checks.revision = r.rev /\ checks'[k] = checks[k]
        BY <1>0, <2>3, <3>2 DEF PastOK, StoredCurrent
      <3>3. checks'[k].left # 0 BY <2>3, SMTT(30)
      <3> QED BY <2>1, <3>1, <3>2, <3>3
    <2> QED BY <1>0, <2>0, <2>1, <2>2, <2>3 DEF StoredCurrent
  <1>4. CASE StoreOther
    <2>1. /\ checks'.revision = checks.revision /\ UNCHANGED <<policy, past, recurred>>
          /\ \A k \in Checks : checks'[k].left = 0
      BY <1>0, <1>4, OtherChecks DEF StoreOther, contents
    <2>2. \A k \in Checks : ~(checks'[k].left > 0) BY <2>1, SMTT(20)
    <2> QED BY <1>0, <2>1, <2>2 DEF PastOK, StoredCurrent
  <1> QED BY <1>0, <1>1, <1>2, <1>3, <1>4, ChecksMove

\* It holds when the server starts.
LEMMA WebInit == Init => WebInv
  <1> SUFFICES ASSUME Init PROVE WebInv OBVIOUS
  <1>0. First \in Contents /\ Life \in Nat /\ MaxTokens \in Nat /\ MaxEdits \in Nat /\ Limit \in Nat BY WebAssumption
  <1>1. \A h \in Handlers : req[h] = Idle BY DEF Init
  <1>2. IsRequest(Idle) BY PageTyped, SMTT(20)
  <1>3. TypeOK
    <2>1. checks \in [revision : Contents, path : Result, access : Result] BY <1>0, SMTT(30) DEF Init, NoResults, Result
    <2> QED BY <1>0, <1>1, <1>2, <2>1, SMTT(30) DEF Init, TypeOK
  <1>4. TableOK
    <2>1. IsFiniteSet({}) /\ Cardinality({}) = 0 BY FS_EmptySet
    <2> QED BY <1>0, <2>1, SMTT(30) DEF Init, TableOK
  <1>5. TakenOK BY <1>0 DEF Init, TakenOK
  <1>6. PastOK BY <1>0, SMTT(20) DEF Init, NoResults, PastOK, StoredCurrent, Checks
  <1>7. ASSUME NEW h \in Handlers PROVE RequestOK(h)
    <2>1. req[h].pc = "idle" BY <1>1, SMTT(30) DEF Idle
    <2> QED BY <2>1, SMTT(20) DEF RequestOK, Committing
  <1> QED BY <1>3, <1>4, <1>5, <1>6, <1>7 DEF WebInv

\* No step of a handler, of others who edit the policy or of the clock breaks it.
LEMMA WebStep == WebInv /\ [Next]_vars => WebInv'
  <1> SUFFICES ASSUME WebInv, [Next]_vars PROVE WebInv' OBVIOUS
  <1>0. /\ TypeOK /\ TableOK /\ TakenOK /\ PastOK /\ policy \in past /\ past \subseteq Contents
        /\ \A h \in Handlers : RequestOK(h)
        /\ \A e \in table : TokenOK(e)
    BY DEF WebInv, PastOK, TableOK
  <1>1. Onward BY <1>0, OnwardStep
  <1>2. TypeOK' BY <1>0, WebTypeStep
  <1>3. TableOK' BY <1>0, <1>1, TableStep, TokensStep DEF TableOK
  <1>4. TakenOK' BY <1>0, TakenStep
  <1>5. PastOK' BY <1>0, <1>1, ContentsStep, ChecksStep DEF PastOK, Onward
  <1>6. ASSUME NEW h \in Handlers PROVE RequestOK(h)'
    <2>1. CASE req'[h] = req[h] BY <1>0, <1>1, <2>1, RequestKept
    <2>2. ASSUME NEW s \in Handlers, Handle(s) PROVE RequestOK(h)'
      <3>1. CASE h = s BY <1>0, <2>2, <3>1, OwnRequest
      <3>2. CASE h # s BY <1>0, <2>1, <2>2, <3>2, OthersKept
      <3> QED BY <3>1, <3>2
    <2> QED BY <2>1, <2>2 DEF Next, StoreOther, OtherEdit, Tick, vars
  <1> QED BY <1>2, <1>3, <1>4, <1>5, <1>6 DEF WebInv

\* The invariant of the browser interface, however many requests are handled at
\* once (Server and its handlers).
THEOREM WebInvariant == Spec => []WebInv
  BY WebInit, WebStep, PTL DEF Spec

\* The token table is bounded and a token is found in it at most once
\* (issueTargetToken, takeToken).
THEOREM TokensAreSound == Spec => []TokensSound
  <1>1. WebInv => TokensSound BY SMTT(30) DEF WebInv, TableOK, TakenOK, TokensSound
  <1> QED BY <1>1, WebInvariant, PTL

\* A page with forms shows the policy they are bound to (Server.view).
THEOREM PagesShowRevision == Spec => []PageShowsRevision
  <1>1. WebInv => PageShowsRevision BY DEF WebInv, RequestOK, PageShowsRevision
  <1> QED BY <1>1, WebInvariant, PTL

\* Readiness results stored for the current policy, and those on a page of it,
\* were obtained on it (storeCheck, renderProject).
THEOREM StoredChecksAreCurrent == Spec => []ChecksAreCurrent
  <1>1. WebInv => ChecksAreCurrent BY DEF WebInv, PastOK, StoredCurrent, RequestOK, ChecksAreCurrent, At
  <1> QED BY <1>1, WebInvariant, PTL

\* A commit that replaces the policy, or says nothing had to change, works on
\* the policy that was reviewed.
LEMMA CommitsOn ==
  ASSUME WebInv, [Next]_vars, NEW h \in Handlers, Commits(h), ~recurred,
         policy' # policy \/ req'[h].msg = "no_change"
  PROVE  LET c == req[h].chg IN
         /\ policy = c.on /\ policy' = Edited(c.input, c.on, c.on)
         /\ Reviewed(c) /\ (c.widen => req[h].confirm)
  <1> DEFINE r == req[h]
  <1>0. /\ TypeOK /\ RequestOK(h) /\ r.pc = "edit" /\ req'[h].pc # "edit" /\ h \in DOMAIN req
    BY DEF WebInv, TypeOK, Commits, At
  <1>1. Handle(h)
    <2>1. req'[h] # req[h] BY <1>0
    <2>2. PICK s \in Handlers : Handle(s) BY <2>1, SMTT(20) DEF Next, StoreOther, OtherEdit, Tick, vars
    <2>3. s = h BY <1>0, <2>1, <2>2, OthersKept, SMTT(20)
    <2> QED BY <2>2, <2>3
  <1>2. CommitEdit(h)
    BY <1>0, <1>1 DEF Handle, At, Get, ViewBefore, ViewLoad, ViewAfter, PageToken, PageList, PageChecks, PageSend, Post,
        CheckRevision, Review, ReviewLatest, ReviewToken, CommitRead, RunCheck, StoreCheck, Discover, ReadFails
  <1>3. End(h) => req'[h].msg = "none" BY <1>0, SMTT(30) DEF End, Step, Idle
  <1>4. CanCommit(h) /\ policy' = Edited(r.chg.input, r.cur, policy)
    BY <1>2, <1>3 DEF CommitEdit, Replace
  <1>5. Reviewed(r.chg) /\ r.chg.on = r.rev /\ (r.chg.widen => r.confirm) BY <1>0 DEF RequestOK, Committing
  <1>6. policy = r.chg.on BY <1>4, <1>5 DEF CanCommit
  <1>7. r.chg.input.kind = "metadata" => r.cur = r.chg.on BY <1>0, <1>5, <1>6 DEF RequestOK
  <1>8. Edited(r.chg.input, r.cur, policy) = Edited(r.chg.input, r.chg.on, r.chg.on)
    <2>1. CASE r.chg.input.kind = "metadata" BY <1>6, <1>7, <2>1
    <2>2. CASE r.chg.input.kind # "metadata" BY <1>6, <2>2, SMTT(30) DEF Edited
    <2> QED BY <2>1, <2>2
  <1> QED BY <1>4, <1>5, <1>6, <1>8

\* What is saved is what was reviewed (review, commit).
THEOREM ReviewedIsCommitted == Spec => CommitsAsReviewed
  <1> DEFINE As(h) == /\ Commits(h) /\ ~recurred
                      /\ policy' # policy \/ req'[h].msg = "no_change"
                      => LET c == req[h].chg IN policy = c.on /\ policy' = Edited(c.input, c.on, c.on)
             Saves == \A h \in Handlers : As(h)
  <1>1. WebInv /\ [Next]_vars => [Saves]_vars
    <2> SUFFICES ASSUME WebInv, [Next]_vars, NEW h \in Handlers PROVE As(h) OBVIOUS
    <2> QED BY CommitsOn, SMTT(20)
  <1> QED BY <1>1, WebInvariant, PTL DEF Spec, CommitsAsReviewed

\* The positions of a sequence.
LEMMA Positions ==
  ASSUME NEW S, NEW s \in Seq(S)
  PROVE  Len(s) \in Nat /\ DOMAIN s = 1 .. Len(s)
  BY SMTT(30)

\* Removing an entry makes no list longer.
LEMMA WithoutShorter ==
  ASSUME NEW S, NEW s \in Seq(S), NEW a
  PROVE  Len(Without(s, a)) <= Len(s) /\ Len(s) \in Nat
  <1> DEFINE kept == {n \in DOMAIN s : s[n] # a}
             t == Without(s, a)
             T == {t[k] : k \in DOMAIN t}
  <1>1. Len(s) \in Nat /\ DOMAIN s = 1 .. Len(s) BY Positions
  <1>2. IsFiniteSet(1 .. Len(s)) /\ Cardinality(1 .. Len(s)) = Len(s) BY <1>1, FS_Interval, SMTT(30)
  <1>3. kept \in SUBSET (1 .. Len(s)) BY <1>1
  <1>4. IsFiniteSet(kept) /\ Cardinality(kept) <= Len(s) BY <1>2, <1>3, FS_Subset
  <1>5. Cardinality(kept) \in Nat BY <1>4, FS_CardinalityType
  <1>6. DOMAIN t = 1 .. Cardinality(kept) /\ t = [k \in 1 .. Cardinality(kept) |-> t[k]] BY SMTT(30) DEF Without
  <1> HIDE DEF t, kept
  <1>7. t \in [1 .. Cardinality(kept) -> T] BY <1>6
  <1>8. ASSUME NEW n \in Nat, NEW U, NEW f \in [1 .. n -> U] PROVE f \in Seq(U)
    BY SMTT(30)
  <1> HIDE DEF T
  <1>9. t \in Seq(T) /\ Len(t) \in Nat /\ DOMAIN t = 1 .. Len(t) BY <1>5, <1>7, <1>8, Positions
  <1>10. Len(t) = Cardinality(kept) BY <1>5, <1>6, <1>9, SMTT(30)
  <1> QED BY <1>1, <1>4, <1>5, <1>10 DEF t

\* An edit that loosens a content is one that review says widens it.
LEMMA LooseningWidens ==
  ASSUME NEW i, i.kind \in Changes, NEW c \in Contents, NEW d, d = Edited(i, c, c),
         \/ d.id # c.id \/ d.dir # c.dir
         \/ d.mode = "automatic" /\ c.mode # "automatic"
         \/ Len(d.allow) > Len(c.allow)
  PROVE  Widens(i, c)
  <1>0. DOMAIN c = {"id", "dir", "mode", "allow", "created"} /\ c.allow \in Seq({c.allow[n] : n \in DOMAIN c.allow})
    BY WebAssumption
  <1>1. Len(c.allow) \in Nat BY <1>0, Positions
  <1>2. CASE i.kind = "create" BY <1>0, <1>1, <1>2, SMTT(30) DEF Edited
  <1>3. CASE i.kind = "metadata" BY <1>0, <1>1, <1>3, SMTT(30) DEF Edited, metadataChange, Widens
  <1>4. CASE i.kind = "mode" BY <1>0, <1>1, <1>4, SMTT(30) DEF Edited, Widens
  <1>5. CASE i.kind = "add" BY <1>5 DEF Widens
  <1>6. CASE i.kind = "remove"
    <2>1. d = [c EXCEPT !.allow = Without(c.allow, i.argv)] BY <1>6 DEF Edited
    <2>2. d.id = c.id /\ d.dir = c.dir /\ d.mode = c.mode /\ d.allow = Without(c.allow, i.argv) BY <1>0, <2>1
    <2>3. Len(d.allow) <= Len(c.allow) BY <1>0, <2>2, WithoutShorter
    <2>4. Len(d.allow) \in Int
      BY <1>0, <2>2, WithoutShorter, SMTT(30)
    <2> QED BY <1>1, <2>2, <2>3, <2>4, SMTT(30)
  <1> QED BY <1>2, <1>3, <1>4, <1>5, <1>6 DEF Changes

\* A commit that widens the policy was confirmed (commit's check of the box).
THEOREM WideningIsConfirmed == Spec => WideningConfirmed
  <1> DEFINE Confirmed ==
               \A h \in Handlers :
                  /\ Commits(h) /\ ~recurred
                  /\ \/ policy'.id # policy.id \/ policy'.dir # policy.dir
                     \/ policy'.mode = "automatic" /\ policy.mode # "automatic"
                     \/ Len(policy'.allow) > Len(policy.allow)
                  => req[h].confirm
  <1>1. WebInv /\ [Next]_vars => [Confirmed]_vars
    <2> SUFFICES ASSUME WebInv, [Next]_vars, NEW h \in Handlers, Commits(h), ~recurred,
                        \/ policy'.id # policy.id \/ policy'.dir # policy.dir
                        \/ policy'.mode = "automatic" /\ policy.mode # "automatic"
                        \/ Len(policy'.allow) > Len(policy.allow)
                 PROVE  req[h].confirm
      OBVIOUS
    <2> DEFINE c == req[h].chg
    <2>1. policy' # policy
      <3>1. policy \in Contents BY DEF WebInv, TypeOK
      <3>2. policy.allow \in Seq({policy.allow[n] : n \in DOMAIN policy.allow}) BY <3>1, WebAssumption
      <3>3. Len(policy.allow) \in Nat BY <3>2, Positions, SMTT(20)
      <3> QED BY <3>3, SMTT(30)
    <2>2. /\ policy = c.on /\ policy' = Edited(c.input, c.on, c.on)
          /\ Reviewed(c) /\ (c.widen => req[h].confirm)
      BY <2>1, CommitsOn
    <2>3. c.on \in Contents /\ (c.widen <=> Widens(c.input, c.on)) BY <2>2 DEF Reviewed
    <2>4. c.input.kind \in Changes
      <3>1. PICK i \in Inputs : c.input = Resolve(i, c.on) BY <2>2 DEF Reviewed
      <3>2. DOMAIN i = {"kind", "id", "dir", "mode", "entry", "argv"} /\ i.kind \in Changes BY WebAssumption, SMTT(20)
      <3> QED BY <3>1, <3>2 DEF Resolve
    <2> HIDE DEF c
    <2>5. Widens(c.input, c.on) BY <2>2, <2>3, <2>4, LooseningWidens
    <2> QED BY <2>2, <2>3, <2>5
  <1> QED BY <1>1, WebInvariant, PTL DEF Spec, WideningConfirmed
===========================================================================
