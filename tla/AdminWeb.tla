----------------------------- MODULE AdminWeb -----------------------------
(***************************************************************************)
(* The administrator's browser interface (internal/adminweb): pages, form  *)
(* tokens, the review of a change and its commit, for one project of the   *)
(* policy and the creation of another.                                     *)
(*                                                                         *)
(* Requests are handled concurrently.  A handler reads the policy file     *)
(* several times, and other administrators replace it in between.  The     *)
(* editor that finally writes is taken by its contract (RevisionHonoured   *)
(* and NoLostUpdate of PolicyFile): it replaces the file at one instant,   *)
(* if the file then has the revision the form carries.  A revision is a    *)
(* digest of the content, so contents stand for their revisions.           *)
(***************************************************************************)
EXTENDS Integers, Sequences, FiniteSets

CONSTANTS Handlers,     \* HTTP requests being handled
          Contents,     \* [id, dir, mode, allow, created]: all the policy can be
          First,        \* the content at the start
          Others,       \* contents other administrators write
          FormActions,  \* forms on a page, "commit" aside
          Inputs,       \* [kind, id, dir, mode, entry, argv]: what is typed into a form
          Limit,        \* size of the token table, 128 in the code
          Life,         \* ticks a token, a check or a project list is good for
          MaxTokens,    \* bound: tokens issued in a behaviour
          MaxEdits      \* bound: replacements by other administrators

Changes == {"create", "metadata", "mode", "add", "remove"}
Overview == {"discover", "create"}
Checks == {"path", "access"}

ASSUME WebAssumption ==
    /\ First \in Contents /\ Others \subseteq Contents
    /\ \A c \in Contents : /\ DOMAIN c = {"id", "dir", "mode", "allow", "created"}
                           /\ c.allow \in Seq({c.allow[n] : n \in DOMAIN c.allow})
    /\ FormActions \subseteq Changes \cup Overview \cup Checks
    /\ \A i \in Inputs : /\ DOMAIN i = {"kind", "id", "dir", "mode", "entry", "argv"}
                         /\ i.kind \in Changes
    /\ Limit \in Nat /\ Life \in Nat \ {0} /\ MaxTokens \in Nat /\ MaxEdits \in Nat

VARIABLES
    policy,     \* content of the policy file
    table,      \* Server.tokens: [token, action, revision, change, left]
    issued,     \* tokens issued so far; tokens are numbers
    forms,      \* forms sent to the browser: [token, action]
    listed,     \* ticks the discovered project list is still good for
    checks,     \* stored readiness checks: [revision, path, access], each [left, of]
    req,        \* the requests: where each handler is and what it holds
    past,       \* history: contents the file has had
    recurred,   \* history: the file returned to an earlier content
    taken,      \* history: how often each token was found in the table
    edits       \* history: replacements by other administrators

server == <<table, issued, forms, listed, checks>>
contents == <<policy, past, recurred, edits>>
vars == <<server, contents, req, taken>>

Nothing == [kind |-> "nil", id |-> "nil", dir |-> "nil", mode |-> "nil", entry |-> 0, argv |-> "nil"]
NoContent == [id |-> "nil", dir |-> "nil", mode |-> "nil", allow |-> <<>>, created |-> FALSE]

\* A policyChange: what was typed, whether it must be confirmed, and
\* (history) the content it was reviewed against.
NoChange == [input |-> Nothing, widen |-> FALSE, on |-> NoContent]

\* No request: the page shown, the message on it, the forms it still needs
\* tokens for and those it has, the contents its stored checks were obtained
\* on, the action of the form posted, the revision worked under, the content
\* last read, the change, the confirmation box.
Idle == [pc |-> "idle", shows |-> "project", msg |-> "none", todo |-> {}, page |-> {},
         found |-> [k \in Checks |-> NoContent],
         doing |-> "commit", rev |-> NoContent, cur |-> NoContent, chg |-> NoChange,
         confirm |-> FALSE]

Result == [left : 0 .. Life, of : Contents]

IsChange(c) ==
    /\ DOMAIN c = {"input", "widen", "on"}
    /\ c.input.kind \in Changes \cup {"nil"} /\ c.widen \in BOOLEAN
    /\ c.on \in Contents \cup {NoContent}

IsToken(e) ==
    /\ DOMAIN e = {"token", "action", "revision", "change", "left"}
    /\ e.token \in 1 .. issued /\ e.left \in 0 .. Life
    /\ e.action \in FormActions \cup {"commit"}
    /\ e.revision \in Contents /\ IsChange(e.change)

IsRequest(r) ==
    /\ DOMAIN r = {"pc", "shows", "msg", "todo", "page", "found", "doing", "rev", "cur", "chg",
                   "confirm"}
    /\ r.pc \in {"idle", "view", "load", "render", "issue", "more", "revision", "review",
                 "latest", "token", "read", "edit", "check", "store", "discover"}
    /\ r.shows \in {"overview", "project"} /\ r.msg \in {"none", "saved", "no_change"}
    /\ r.todo \subseteq FormActions
    /\ r.page \subseteq [token : 1 .. issued, action : FormActions \cup {"commit"}]
    /\ r.found \in [Checks -> Contents \cup {NoContent}]
    /\ r.doing \in FormActions \cup {"commit"}
    /\ {r.rev, r.cur} \subseteq Contents \cup {NoContent}
    /\ IsChange(r.chg) /\ r.confirm \in BOOLEAN

\* Type invariant: tokens, forms, stored checks and requests (Server); a token
\* in the table was issued and the policy keeps to the contents administrators
\* write.
TypeOK ==
    /\ policy \in Contents
    /\ \A e \in table : IsToken(e)
    /\ issued \in 0 .. MaxTokens
    /\ forms \subseteq [token : 1 .. issued, action : FormActions \cup {"commit"}]
    /\ listed \in 0 .. Life
    /\ checks \in [revision : Contents, path : Result, access : Result]
    /\ DOMAIN req = Handlers /\ \A h \in Handlers : IsRequest(req[h])
    /\ edits \in 0 .. MaxEdits

\* Server.checks without an entry for the project.
NoResults(revision) ==
    LET none == [left |-> 0, of |-> revision] IN [revision |-> revision, path |-> none, access |-> none]

Init ==
    /\ policy = First
    /\ table = {} /\ issued = 0 /\ forms = {} /\ listed = 0
    /\ checks = NoResults(policy)
    /\ req = [h \in Handlers |-> Idle]
    /\ past = {policy} /\ recurred = FALSE /\ edits = 0
    /\ taken = [t \in 1 .. MaxTokens |-> 0]

---------------------------------------------------------------------------
(* The token table.                                                        *)

pruneTokens == {e \in table : e.left > 0}

\* Mutant of CanIssue: the table is allowed one entry too many.
CanIssueOneMore == Cardinality(pruneTokens) <= Limit

CanIssue == Cardinality(pruneTokens) < Limit

issueToken(action, revision, change) ==
    /\ CanIssue
    /\ issued < MaxTokens
    /\ issued' = issued + 1
    /\ table' = pruneTokens \cup {[token |-> issued + 1, action |-> action, revision |-> revision,
                                   change |-> change, left |-> Life]}

TooManyForms == ~CanIssue /\ table' = pruneTokens /\ UNCHANGED issued

\* Mutant of Remaining: an accepted token stays in the table.
RemainingAll(token) == pruneTokens

\* takeToken removes the token whether or not it is accepted.
Remaining(token) == {e \in pruneTokens : e.token # token}

---------------------------------------------------------------------------
(* Changes and what they do.                                               *)

\* Mutant of Widens: loosening the approval mode needs no confirmation.
WidensAddOnly(i, c) == i.kind = "add"

\* Which changes must be confirmed, judged against the content just read.
Widens(i, c) ==
    \/ i.kind = "metadata" /\ (i.id # c.id \/ i.dir # c.dir)
    \/ i.kind = "mode" /\ i.mode = "automatic" /\ c.mode # "automatic"
    \/ i.kind = "add"

\* Can the form be turned into a change of the content just read?
Acceptable(i, c) ==
    /\ i.kind = "create" => ~c.created /\ listed > 0
    /\ i.kind = "remove" => i.entry \in DOMAIN c.allow

\* A removal is posted as an index into the list of the content just read.
Resolve(i, c) == IF i.kind = "remove" THEN [i EXCEPT !.argv = c.allow[i.entry]] ELSE i

\* metadataChange: only fields that differ from the content just read are
\* updated, or the directory alone if none does.
metadataChange(i, read, c) ==
    IF i.id = read.id /\ i.dir = read.dir THEN [c EXCEPT !.dir = i.dir]
    ELSE [c EXCEPT !.id = IF i.id # read.id THEN i.id ELSE @,
                   !.dir = IF i.dir # read.dir THEN i.dir ELSE @]

\* Every entry of s but those equal to a, in the same order.
Without(s, a) ==
    LET kept == {n \in DOMAIN s : s[n] # a}
        nth(k) == CHOOSE n \in kept : Cardinality({m \in kept : m <= n}) = k
    IN [k \in 1 .. Cardinality(kept) |-> s[nth(k)]]

\* The editor's operation on content c.
Edited(i, read, c) ==
    CASE i.kind = "create" -> [c EXCEPT !.created = TRUE]
      [] i.kind = "metadata" -> metadataChange(i, read, c)
      [] i.kind = "mode" -> [c EXCEPT !.mode = i.mode]
      [] i.kind = "add" -> IF \E n \in DOMAIN c.allow : c.allow[n] = i.argv THEN c
                           ELSE [c EXCEPT !.allow = Append(@, i.argv)]
      [] i.kind = "remove" -> [c EXCEPT !.allow = Without(@, i.argv)]

\* Contents has every content the forms can make of one of its own.
ASSUME ContentsClosed ==
    \A i \in Inputs, on, read, c \in Contents :
        (i.kind = "remove" => i.entry \in DOMAIN on.allow) => Edited(Resolve(i, on), read, c) \in Contents

\* The file gets content c.
Replace(c) ==
    /\ policy' = c
    /\ past' = past \cup {c}
    /\ recurred' = (recurred \/ (c # policy /\ c \in past))

---------------------------------------------------------------------------
(* Pages.                                                                  *)

At(h, here) == req[h].pc = here
Step(h, r) == req' = [req EXCEPT ![h] = r]
Go(h, there) == req' = [req EXCEPT ![h].pc = there]

\* The handler has answered.
End(h) == Step(h, Idle)

\* The handler goes on to render a page.
Page(shows, msg) == [Idle EXCEPT !.pc = "view", !.shows = shows, !.msg = msg]

\* A GET of either page.
Get(h) ==
    /\ At(h, "idle")
    /\ \E p \in {"overview", "project"} : Step(h, Page(p, "none"))
    /\ UNCHANGED <<server, contents, taken>>

\* view: the revision, the values, the revision again.
ViewBefore(h) ==
    /\ At(h, "view")
    /\ Step(h, [req[h] EXCEPT !.pc = "load", !.rev = policy])
    /\ UNCHANGED <<server, contents, taken>>

ViewLoad(h) ==
    /\ At(h, "load")
    /\ Step(h, [req[h] EXCEPT !.pc = "render", !.cur = policy])
    /\ UNCHANGED <<server, contents, taken>>

\* Mutant of Unchanged: the revision is not compared after loading.
UnchangedAnyway(h) == TRUE

Unchanged(h) == policy = req[h].rev

ViewAfter(h) ==
    /\ At(h, "render")
    /\ \/ /\ Unchanged(h)
          /\ Step(h, [req[h] EXCEPT !.pc = "issue",
                                    !.todo = FormActions \cap (IF req[h].shows = "overview"
                                                               THEN {"discover"} ELSE Checks)])
       \/ ~Unchanged(h) /\ End(h)
    /\ UNCHANGED <<server, contents, taken>>

\* One token per form; a full table fails the page and strands those issued.
\* Tokens are random names, so the order in which forms get theirs is chosen.
PageToken(h) ==
    /\ req[h].pc \in {"issue", "more"} /\ req[h].todo # {}
    /\ LET a == CHOOSE a \in req[h].todo : TRUE IN
       \/ /\ issueToken(a, req[h].rev, NoChange)
          /\ Step(h, [req[h] EXCEPT !.todo = @ \ {a},
                                    !.page = @ \cup {[token |-> issued + 1, action |-> a]}])
       \/ TooManyForms /\ End(h)
    /\ UNCHANGED <<forms, listed, checks, contents, taken>>

\* The overview has its first token; it offers a new project while the project
\* list is good.
PageList(h) ==
    /\ At(h, "issue") /\ req[h].todo = {} /\ req[h].shows = "overview"
    /\ Step(h, [req[h] EXCEPT !.pc = "more",
                              !.todo = IF listed > 0 THEN FormActions \cap {"create"} ELSE {}])
    /\ UNCHANGED <<server, contents, taken>>

\* Mutant of Good: results of any revision will do.
GoodAnyRevision(k, revision) == checks[k].left > 0

\* Is the stored result of check k one for a page of this revision?
Good(k, revision) == checks.revision = revision /\ checks[k].left > 0

\* The project page has the tokens of its checks; it takes over the results
\* stored by now, and needs tokens for the forms that change the project.
PageChecks(h) ==
    /\ At(h, "issue") /\ req[h].todo = {} /\ req[h].shows = "project"
    /\ Step(h, [req[h] EXCEPT !.pc = "more",
                              !.todo = FormActions \ (Overview \cup Checks),
                              !.found = [k \in Checks |-> IF Good(k, req[h].rev) THEN checks[k].of
                                                          ELSE NoContent]])
    /\ UNCHANGED <<server, contents, taken>>

PageSend(h) ==
    /\ At(h, "more") /\ req[h].todo = {}
    /\ forms' = forms \cup req[h].page
    /\ End(h)
    /\ UNCHANGED <<table, issued, listed, checks, contents, taken>>

---------------------------------------------------------------------------
(* Form submissions.                                                       *)

\* The change a post is about: what is typed now, or what was reviewed.
Posted(e) ==
    IF e.action \in Changes THEN {[NoChange EXCEPT !.input = i] : i \in {i \in Inputs : i.kind = e.action}}
    ELSE {e.change}

\* protectPost up to the token's target: any form sent to the browser, at any
\* time and any number of times.  The token is used up also when the form is
\* posted to the address of another action, or with the alias of another
\* project, and therefore refused.
Post(h) ==
    /\ At(h, "idle")
    /\ \E f \in forms :
          LET found == {e \in pruneTokens : e.token = f.token} IN
          /\ table' = Remaining(f.token)
          /\ \/ found = {} /\ UNCHANGED <<req, taken>>
             \/ \E e \in found :
                   /\ taken' = [taken EXCEPT ![e.token] = @ + 1]
                   /\ \/ UNCHANGED req
                      \/ \E box \in BOOLEAN : \E c \in Posted(e) :
                            /\ box => e.action = "commit"
                            /\ Step(h, [Idle EXCEPT !.pc = "revision", !.doing = e.action,
                                                    !.rev = e.revision, !.chg = c, !.confirm = box])
    /\ UNCHANGED <<issued, forms, listed, checks, contents>>

\* The policy must still have the form's revision; then the form's handler
\* runs.  commit refuses a widening change whose box is not ticked.
CheckRevision(h) ==
    /\ At(h, "revision")
    /\ LET r == req[h] IN
       \/ policy = r.rev /\ r.doing = "discover" /\ Go(h, "discover")
       \/ policy = r.rev /\ r.doing \in Checks /\ Go(h, "check")
       \/ policy = r.rev /\ r.doing \in Changes /\ Go(h, "review")
       \/ /\ policy = r.rev /\ r.doing = "commit" /\ (r.chg.widen => r.confirm)
          /\ Go(h, IF r.chg.input.kind = "metadata" THEN "read" ELSE "edit")
       \/ /\ policy # r.rev \/ (r.doing = "commit" /\ r.chg.widen /\ ~r.confirm)
          /\ End(h)
    /\ UNCHANGED <<server, contents, taken>>

\* review reads the project and builds the change, or refuses the form.
Review(h) ==
    /\ At(h, "review")
    /\ LET i == req[h].chg.input IN
       \/ /\ Acceptable(i, policy)
          /\ Step(h, [req[h] EXCEPT !.pc = "latest",
                                    !.chg = [input |-> Resolve(i, policy), widen |-> Widens(i, policy),
                                             on |-> policy]])
       \/ ~Acceptable(i, policy) /\ End(h)
    /\ UNCHANGED <<server, contents, taken>>

ReviewLatest(h) ==
    /\ At(h, "latest")
    /\ IF policy = req[h].rev THEN Go(h, "token") ELSE End(h)
    /\ UNCHANGED <<server, contents, taken>>

\* The review page, with the form that commits the change.
ReviewToken(h) ==
    /\ At(h, "token")
    /\ \/ /\ issueToken("commit", req[h].rev, req[h].chg)
          /\ forms' = forms \cup {[token |-> issued + 1, action |-> "commit"]}
       \/ TooManyForms /\ UNCHANGED forms
    /\ End(h)
    /\ UNCHANGED <<listed, checks, contents, taken>>

\* commit reads the project once more to see which metadata fields differ.
CommitRead(h) ==
    /\ At(h, "read")
    /\ Step(h, [req[h] EXCEPT !.pc = "edit", !.cur = policy])
    /\ UNCHANGED <<server, contents, taken>>

\* Mutant of CanCommit: the editor is not given the revision.
CanCommitAnyRevision(h) == ~(req[h].chg.input.kind = "create" /\ policy.created)

CanCommit(h) == policy = req[h].rev /\ ~(req[h].chg.input.kind = "create" /\ policy.created)

\* The editor's call.  It can fail at any point: busy, changed, an error
\* before the replacement, or one after it (the audit, the new index).
\* Success renders the project page.
CommitEdit(h) ==
    /\ At(h, "edit")
    /\ LET new == Edited(req[h].chg.input, req[h].cur, policy)
       IN \/ End(h) /\ UNCHANGED <<policy, past, recurred>>
          \/ /\ CanCommit(h) /\ new # policy /\ Replace(new)
             /\ End(h) \/ Step(h, Page("project", "saved"))
          \/ /\ CanCommit(h) /\ new = policy
             /\ Step(h, Page("project", "no_change"))
             /\ UNCHANGED <<policy, past, recurred>>
    /\ UNCHANGED <<server, edits, taken>>

---------------------------------------------------------------------------
(* Readiness checks and discovery.                                         *)

\* checkPath and checkAccess examine the project as the policy has it now.
RunCheck(h) ==
    /\ At(h, "check")
    /\ Step(h, [req[h] EXCEPT !.pc = "store", !.cur = policy])
    /\ UNCHANGED <<server, contents, taken>>

\* Mutant of Kept: the other check's result survives a change of revision.
KeptAlways(revision) == checks

\* What storeCheck keeps: nothing of another revision.
Kept(revision) ==
    IF checks.revision = revision THEN checks ELSE NoResults(revision)

\* storeCheck files the result under the form's revision; the handler then
\* renders the project page.
StoreCheck(h) ==
    /\ At(h, "store")
    /\ checks' = [Kept(req[h].rev) EXCEPT !.revision = req[h].rev,
                                          ![req[h].doing] = [left |-> Life, of |-> req[h].cur]]
    /\ Step(h, Page("project", "none"))
    /\ UNCHANGED <<table, issued, forms, listed, contents, taken>>

\* storeCheck for another project drops what it finds under another revision,
\* and any one entry when 128 projects have theirs.
StoreOther ==
    /\ checks' = NoResults(checks.revision)
    /\ UNCHANGED <<table, issued, forms, listed, contents, req, taken>>

\* discover asks the worker for its projects; a failure drops the list.
Discover(h) ==
    /\ At(h, "discover")
    /\ listed' \in {0, Life}
    /\ Step(h, Page("overview", "none"))
    /\ UNCHANGED <<table, issued, forms, checks, contents, taken>>

---------------------------------------------------------------------------

\* The policy cannot be read or the project is gone: the handler answers
\* with an error.
ReadFails(h) ==
    /\ req[h].pc \in {"view", "load", "render", "revision", "review", "latest", "read", "check"}
    /\ End(h)
    /\ UNCHANGED <<server, contents, taken>>

\* Somebody else replaces the policy (the command line, see PolicyFile).
OtherEdit ==
    /\ edits < MaxEdits
    /\ edits' = edits + 1
    /\ \E c \in Others \ {policy} : Replace(c)
    /\ UNCHANGED <<server, req, taken>>

Less(n) == IF n > 0 THEN n - 1 ELSE 0

Tick ==
    /\ table' = {[e EXCEPT !.left = Less(@)] : e \in table}
    /\ listed' = Less(listed)
    /\ checks' = [checks EXCEPT !.path.left = Less(@), !.access.left = Less(@)]
    /\ UNCHANGED <<issued, forms, contents, req, taken>>

Handle(h) ==
    \/ Get(h) \/ ViewBefore(h) \/ ViewLoad(h) \/ ViewAfter(h)
    \/ PageToken(h) \/ PageList(h) \/ PageChecks(h) \/ PageSend(h)
    \/ Post(h) \/ CheckRevision(h)
    \/ Review(h) \/ ReviewLatest(h) \/ ReviewToken(h)
    \/ CommitRead(h) \/ CommitEdit(h)
    \/ RunCheck(h) \/ StoreCheck(h) \/ Discover(h)
    \/ ReadFails(h)

Next == (\E h \in Handlers : Handle(h)) \/ StoreOther \/ OtherEdit \/ Tick

Spec == Init /\ [][Next]_vars

---------------------------------------------------------------------------
(* Properties.  The server recognises a policy by a digest of its content, *)
(* so those that relate several reads of the file are stated for           *)
(* behaviours in which no content comes back (recurred is false).          *)

\* "form-token state at 128 entries" (decisions/0022): however pages, reviews
\* and abandoned forms interleave, the table never holds more than Limit; and a
\* token is found at most once, so its form is acted on at most once, whatever
\* is posted again, late, elsewhere or by two connections at a time
\* (issueTargetToken, takeToken).
TokensSound ==
    /\ TypeOK
    /\ Cardinality(table) <= Limit
    /\ \A t \in 1 .. MaxTokens : taken[t] <= 1

\* A page that gets its form tokens shows the very policy its forms are
\* bound to, although view reads the revision and the values separately.
PageShowsRevision ==
    \A h \in Handlers :
       req[h].pc \in {"issue", "more"} /\ ~recurred => req[h].cur = req[h].rev

\* Handler h takes its editor step.
Commits(h) == At(h, "edit") /\ req'[h].pc # "edit"

\* What is saved is what was reviewed: a commit replaces the policy the
\* reviewer was shown by that policy with the reviewed change, and reports no
\* change only if that change makes none, although the policy is read at the
\* review, at the commit and by the editor.
CommitsAsReviewed ==
    [][\A h \in Handlers :
          /\ Commits(h) /\ ~recurred
          /\ policy' # policy \/ req'[h].msg = "no_change"
          => LET c == req[h].chg IN policy = c.on /\ policy' = Edited(c.input, c.on, c.on)]_vars

\* A commit that loosens the policy it replaces (another Bitwarden project
\* or directory, automatic approval, one more command) was confirmed, though
\* review decided that confirmation was needed from an earlier read.
WideningConfirmed ==
    [][\A h \in Handlers :
          /\ Commits(h) /\ ~recurred
          /\ \/ policy'.id # policy.id \/ policy'.dir # policy.dir
             \/ policy'.mode = "automatic" /\ policy.mode # "automatic"
             \/ Len(policy'.allow) > Len(policy.allow)
          => req[h].confirm]_vars

\* A readiness result stored for the current policy was obtained on that
\* policy, and so was every result on a project page of that policy: storeCheck
\* files results under the revision of the form and drops those of other
\* revisions, and a page takes over those of the revision it shows.  (A page
\* that shows a policy replaced meanwhile may have a result obtained on the
\* new one.)
ChecksAreCurrent ==
    ~recurred =>
       /\ checks.revision = policy => \A k \in Checks : checks[k].left > 0 => checks[k].of = policy
       /\ \A h \in Handlers : At(h, "more") /\ req[h].shows = "project" /\ req[h].rev = policy =>
             \A k \in Checks : req[h].found[k] \in {NoContent, policy}

Has(c, i) ==
    /\ i.kind = "metadata" => c.id = i.id /\ c.dir = i.dir
    /\ i.kind = "mode" => c.mode = i.mode
    /\ i.kind \in {"add", "remove"} =>
          ((i.kind = "add") <=> \E n \in DOMAIN c.allow : c.allow[n] = i.argv)

\* "No change needed. The policy already has these values." (controls.go:252)
\* is true when it is shown, whatever other administrators do.
NoChangeIsTrue ==
    [][\A h \in Handlers :
          Commits(h) /\ req'[h].msg = "no_change" => Has(policy, req[h].chg.input)]_vars
===========================================================================
