---------------------------- MODULE PolicyText ----------------------------
(***************************************************************************)
(* How Editor (internal/admin/policy.go) edits the text of policy.toml: it *)
(* locates the selected project by line patterns, splices the bytes,       *)
(* parses the result again and compares it with the intended policy.       *)
(*                                                                         *)
(* A text is a sequence of lines and a flag for the final newline.  A line *)
(* is what the patterns and the parser tell apart: its kind, its value,    *)
(* whether the value continues on the next line, whether it is spelled the *)
(* way the patterns expect ([[ projects ]], with spaces, is not), and the  *)
(* comment at its end, "" for none.  A comment on a line of its own is     *)
(* that of a blank line.  A continuation has the value Rest whatever it    *)
(* looks like, and it may look like a header.  A project in an inline      *)
(* array (projects = [{...}, ...]) is an "element".  bws_project_id,       *)
(* token_entry and working_dir are edited alike and are one field, meta.   *)
(* A command is one value; line endings do not matter to the patterns or   *)
(* to the parser.                                                          *)
(*                                                                         *)
(* The module runs sequences of operations: what one leaves behind is what *)
(* the next has to edit.                                                   *)
(***************************************************************************)
EXTENDS Integers, FiniteSetsExt, Sequences, Functions

CONSTANTS Texts,    \* texts to begin with
          Canonical, \* those in the layout the editor itself writes
          Ops,      \* what may be asked for
          MaxOps    \* bound on the length of a sequence of operations

VARIABLES text,     \* the policy file
          saved,    \* artifacts of removals, newest last
          last,     \* the last operation and its result
          regular,  \* history: the first text was canonical
          former,   \* history: the texts that projects were removed from
          steps     \* operations done

vars == <<text, saved, last, regular, former, steps>>

Line(kind, value) == [kind |-> kind, value |-> value, open |-> FALSE, usual |-> TRUE, note |-> ""]
Rest == "rest"
Blank == Line("blank", "")
Last(s) == s[Len(s)]

---------------------------------------------------------------------------
(* config.Parse and ValidateWorker: unknown keys are ignored, an absent    *)
(* approval is "never", and no header may add to an inline array.          *)

NewProject == [alias |-> "", meta |-> "", approval |-> "", allow |-> <<>>, inline |-> FALSE]

ParseLine(p, line) ==
    LET n == Len(p.projects)
        m == Len(p.projects[n].allow)
        Reads(kinds) == line.kind \in kinds
    IN
    IF p.open # (line.value = Rest) THEN [p EXCEPT !.ok = FALSE]
    ELSE IF p.open THEN [p EXCEPT !.open = FALSE]
    ELSE
    CASE Reads({"project"}) ->
            [p EXCEPT !.ok = @ /\ ~p.array, !.projects = Append(@, NewProject), !.table = "project"]
      [] Reads({"element"}) ->
            [p EXCEPT !.ok = @ /\ p.table = "", !.array = TRUE,
                      !.projects = Append(@, [NewProject EXCEPT !.alias = line.value, !.meta = line.value])]
      [] Reads({"allow"}) ->
            IF n = 0 \/ p.array \/ p.projects[n].inline THEN [p EXCEPT !.ok = FALSE]
            ELSE [p EXCEPT !.projects[n].allow = Append(@, ""), !.table = "allow"]
      [] Reads({"table"}) -> [p EXCEPT !.table = line.value]
      [] Reads({"setting"}) -> [p EXCEPT !.settings = @ \cup {<<p.table, line.value>>}]
      [] Reads({"alias", "meta", "approval"}) /\ p.table = "project" ->
            [p EXCEPT !.ok = @ /\ p.projects[n][line.kind] = "",
                      !.projects[n][line.kind] = line.value, !.open = line.open]
      [] Reads({"argv"}) /\ p.table = "allow" ->
            [p EXCEPT !.ok = @ /\ p.projects[n].allow[m] = "",
                      !.projects[n].allow[m] = line.value, !.open = line.open]
      [] Reads({"inline"}) /\ p.table = "project" ->
            [p EXCEPT !.ok = @ /\ m = 0, !.projects[n].allow = <<line.value>>,
                      !.projects[n].inline = TRUE]
      [] OTHER -> [p EXCEPT !.open = line.open]

Decode(lines) ==
    LET empty == [ok |-> TRUE, open |-> FALSE, array |-> FALSE, table |-> "",
                  projects |-> <<>>, settings |-> {}]
        upTo[k \in 0 .. Len(lines)] == IF k = 0 THEN empty ELSE ParseLine(upTo[k - 1], lines[k])
    IN upTo[Len(lines)]

\* The values a configuration holds once defaults are applied.
Config(t) ==
    LET p == Decode(t.lines) IN
    [projects |-> [i \in DOMAIN p.projects |->
        [alias |-> p.projects[i].alias, meta |-> p.projects[i].meta, allow |-> p.projects[i].allow,
         approval |-> IF p.projects[i].approval = "" THEN "never" ELSE p.projects[i].approval]],
     settings |-> p.settings]

Aliases(c) == {c.projects[i].alias : i \in DOMAIN c.projects}

Validates(t) ==
    LET p == Decode(t.lines) IN
    /\ p.ok /\ ~p.open
    /\ p.projects # <<>>
    /\ \A i \in DOMAIN p.projects :
          /\ p.projects[i].alias # "" /\ p.projects[i].meta # ""
          /\ \A j \in DOMAIN p.projects \ {i} : p.projects[j].alias # p.projects[i].alias
          /\ \A j \in DOMAIN p.projects[i].allow : p.projects[i].allow[j] # ""

IsLine(line) ==
    /\ line = [kind |-> line.kind, value |-> line.value, open |-> line.open,
                usual |-> line.usual, note |-> line.note]
    /\ line.open \in BOOLEAN /\ line.usual \in BOOLEAN

IsText(t) ==
    /\ t = [lines |-> t.lines, eol |-> t.eol] /\ t.eol \in BOOLEAN
    /\ t.lines \in Seq(Range(t.lines)) /\ \A line \in Range(t.lines) : IsLine(line)

\* readPolicy fails on any other file, and then nothing happens.
ASSUME TextAssumption ==
    /\ Canonical \subseteq Texts /\ MaxOps \in Nat
    /\ \A t \in Texts : IsText(t) /\ Validates(t)

---------------------------------------------------------------------------
(* Locating and splicing.  An edit is a set: empty when the layout is not  *)
(* one it can edit.                                                        *)

Ascending(S) ==
    [k \in 1 .. Cardinality(S) |-> CHOOSE i \in S : Cardinality({j \in S : j < i}) = k - 1]
\* The entries of s at the places in S, in order.
Pick(s, S) == [k \in 1 .. Cardinality(S) |-> s[Ascending(S)[k]]]

\* A comment at the end of a line does not matter to the patterns.
Matches(lines, kind, from, to) == {i \in from .. to : lines[i].kind = kind /\ lines[i].usual}

\* The patterns of fields do not match a value that goes on in the next line.
Single(lines, kind, from, to) == {i \in Matches(lines, kind, from, to) : ~lines[i].open}

\* The pattern takes a continuation that looks like a header for one, and misses
\* a header in another spelling.
Headers(lines) == Ascending(Matches(lines, "project", 1, Len(lines)))

EditableProjects(lines, c) == Len(Headers(lines)) = Len(c.projects)

\* Last line of project i's block: up to the next header or the end of the file.
BlockEnd(lines, i) ==
    LET h == Headers(lines) IN IF i < Len(h) THEN h[i + 1] - 1 ELSE Len(lines)

\* Lines go in after line "at"; at the end of the file a missing newline is
\* supplied first.
SpliceIn(t, at, new) ==
    [lines |-> SubSeq(t.lines, 1, at) \o new \o SubSeq(t.lines, at + 1, Len(t.lines)),
     eol |-> t.eol \/ at = Len(t.lines)]

\* Lines are cut with their newlines.
Cut(t, gone) ==
    [lines |-> Pick(t.lines, DOMAIN t.lines \ gone), eol |-> t.eol \/ Len(t.lines) \in gone]

\* Only the value is replaced: a comment after it stays.
Patch(t, at, value) == [t EXCEPT !.lines[at].value = value]

appendProject(t, project) ==
    {[lines |-> t.lines \o (IF Last(t.lines) = Blank /\ t.eol THEN <<>> ELSE <<Blank>>)
                \o <<Line("project", ""), Line("alias", project.alias),
                     Line("meta", project.meta), Line("approval", project.approval)>>,
      eol |-> TRUE]}

\* Mutant of replaceApproval: a missing field is added at the end of the block,
\* where it may fall into another table.
replaceApprovalLast(t, c, i, approval) ==
    LET end == BlockEnd(t.lines, i)
        found == Single(t.lines, "approval", Headers(t.lines)[i] + 1, end)
    IN IF ~EditableProjects(t.lines, c) \/ Cardinality(found) > 1 THEN {}
       ELSE IF found # {} THEN {Patch(t, j, approval) : j \in found}
       ELSE {SpliceIn(t, end, <<Line("approval", approval)>>)}

replaceApproval(t, c, i, approval) ==
    LET start == Headers(t.lines)[i] + 1
        end == BlockEnd(t.lines, i)
        found == Single(t.lines, "approval", start, end)
        allows == Matches(t.lines, "allow", start, end)
    IN IF ~EditableProjects(t.lines, c) \/ Cardinality(found) > 1 THEN {}
       ELSE IF found # {} THEN {Patch(t, j, approval) : j \in found}
       ELSE {SpliceIn(t, IF allows = {} THEN end ELSE Min(allows) - 1, <<Line("approval", approval)>>)}

replaceProjectField(t, c, i, value) ==
    LET found == Single(t.lines, "meta", Headers(t.lines)[i] + 1, BlockEnd(t.lines, i))
    IN IF ~EditableProjects(t.lines, c) \/ Cardinality(found) # 1 THEN {}
       ELSE {Patch(t, j, value) : j \in found}

AllowHeaders(lines, i) ==
    Ascending(Matches(lines, "allow", Headers(lines)[i] + 1, BlockEnd(lines, i)))

EditableAllows(lines, c, i) ==
    EditableProjects(lines, c) /\ Len(AllowHeaders(lines, i)) = Len(c.projects[i].allow)

insertAllowEntry(t, c, i, argv) ==
    IF ~EditableAllows(t.lines, c, i) THEN {}
    ELSE {SpliceIn(t, BlockEnd(t.lines, i), <<Line("allow", ""), Line("argv", argv)>>)}

\* The argv lines between an allow header and the next one, or the block's end.
\* The pattern also matches a value that goes on in the next line.
ArgvLines(lines, i, k) ==
    LET h == AllowHeaders(lines, i) IN
    Matches(lines, "argv", h[k] + 1, IF k < Len(h) THEN h[k + 1] - 1 ELSE BlockEnd(lines, i))

\* Mutant of removeAllowEntries: everything from the header to the next one goes.
removeAllowSections(t, c, i, argv) ==
    LET h == AllowHeaders(t.lines, i)
        remove == {k \in DOMAIN c.projects[i].allow : c.projects[i].allow[k] = argv}
        To(k) == IF k < Len(h) THEN h[k + 1] - 1 ELSE BlockEnd(t.lines, i)
    IN IF ~EditableAllows(t.lines, c, i) THEN {}
       ELSE {Cut(t, UNION {h[k] .. To(k) : k \in remove})}

\* The header's line and the argv line go, with the comments at their ends; lines
\* between them and after them stay.
removeAllowEntries(t, c, i, argv) ==
    LET remove == {k \in DOMAIN c.projects[i].allow : c.projects[i].allow[k] = argv}
    IN IF ~EditableAllows(t.lines, c, i)
          \/ \E k \in remove : Cardinality(ArgvLines(t.lines, i, k)) # 1
       THEN {}
       ELSE {Cut(t, UNION {{AllowHeaders(t.lines, i)[k]} \cup ArgvLines(t.lines, i, k) : k \in remove})}

removeProjectSpan(t, c, i) ==
    IF ~EditableProjects(t.lines, c) THEN {}
    ELSE {Cut(t, Headers(t.lines)[i] .. BlockEnd(t.lines, i))}

---------------------------------------------------------------------------
(* The operations, on the file as it is.                                   *)

Known(o, c) == o.alias \in Aliases(c)

\* findProject.
Index(c, alias) == CHOOSE i \in DOMAIN c.projects : c.projects[i].alias = alias
Selected(o, c) == c.projects[Index(c, o.alias)]

Report(o, result) ==
    /\ last' = [op |-> o, result |-> result]
    /\ steps' = steps + 1
    /\ UNCHANGED regular

Stay(o, result) == Report(o, result) /\ UNCHANGED <<text, saved, former>>

\* Mutant of Agrees: the result is only validated.
AgreesLoosely(t, want) == Validates(t)

\* The new text is parsed, validated and compared with the intended policy.
Agrees(t, want) == Validates(t) /\ Config(t) = want

Commit(o, edits, want) ==
    LET good == {t \in edits : Agrees(t, want)} IN
    \/ good = {} /\ Report(o, "refused") /\ UNCHANGED text
    \/ text' \in good /\ Report(o, "changed")

\* The intended policy: the selected project with one field changed.
With(o, c, field, value) == [c EXCEPT !.projects[Index(c, o.alias)][field] = value]

CreateProject(o, c) ==
    LET project == [alias |-> o.alias, meta |-> o.arg, allow |-> <<>>, approval |-> "allowlisted-prompt"]
    IN
    \/ Known(o, c) /\ Stay(o, "error")
    \/ /\ ~Known(o, c)
       /\ Commit(o, appendProject(text, project), [c EXCEPT !.projects = Append(@, project)])
       /\ UNCHANGED <<saved, former>>

UpdateProjectMetadata(o, c) ==
    \/ ~Known(o, c) /\ Stay(o, "error")
    \/ Known(o, c) /\ Selected(o, c).meta = o.arg /\ Stay(o, "no_change")
    \/ /\ Known(o, c) /\ Selected(o, c).meta # o.arg
       /\ Commit(o, replaceProjectField(text, c, Index(c, o.alias), o.arg), With(o, c, "meta", o.arg))
       /\ UNCHANGED <<saved, former>>

SetApproval(o, c) ==
    \/ ~Known(o, c) /\ Stay(o, "error")
    \/ Known(o, c) /\ Selected(o, c).approval = o.arg /\ Stay(o, "no_change")
    \/ /\ Known(o, c) /\ Selected(o, c).approval # o.arg
       /\ Commit(o, replaceApproval(text, c, Index(c, o.alias), o.arg), With(o, c, "approval", o.arg))
       /\ UNCHANGED <<saved, former>>

AddAllowlist(o, c) ==
    \/ ~Known(o, c) /\ Stay(o, "error")
    \/ Known(o, c) /\ o.arg \in Range(Selected(o, c).allow) /\ Stay(o, "no_change")
    \/ /\ Known(o, c) /\ o.arg \notin Range(Selected(o, c).allow)
       /\ Commit(o, insertAllowEntry(text, c, Index(c, o.alias), o.arg),
                 With(o, c, "allow", Append(Selected(o, c).allow, o.arg)))
       /\ UNCHANGED <<saved, former>>

Purged(allow, argv) == Pick(allow, {k \in DOMAIN allow : allow[k] # argv})

RemoveAllowlist(o, c) ==
    \/ ~Known(o, c) /\ Stay(o, "error")
    \/ Known(o, c) /\ o.arg \notin Range(Selected(o, c).allow) /\ Stay(o, "no_change")
    \/ /\ Known(o, c) /\ o.arg \in Range(Selected(o, c).allow)
       /\ Commit(o, removeAllowEntries(text, c, Index(c, o.alias), o.arg),
                 With(o, c, "allow", Purged(Selected(o, c).allow, o.arg)))
       /\ UNCHANGED <<saved, former>>

Without(c, alias) == [c EXCEPT !.projects = Pick(@, DOMAIN @ \ {Index(c, alias)})]

\* Mutant of Artifact: the stored policy ends with a newline if the new one does.
ArtifactTidied(o, after) ==
    [project |-> o.alias, before |-> [text EXCEPT !.eol = after.eol], after |-> after]

Artifact(o, after) == [project |-> o.alias, before |-> text, after |-> after]

\* Mutant of RemoveProject: the artifact is stored before the edit is validated.
RemoveProjectEager(o, c) ==
    \/ (~Known(o, c) \/ Len(c.projects) = 1) /\ Stay(o, "error")
    \/ /\ Known(o, c) /\ Len(c.projects) > 1
       /\ Commit(o, removeProjectSpan(text, c, Index(c, o.alias)), Without(c, o.alias))
       /\ saved' = Append(saved, Artifact(o, text'))
       /\ former' = IF last'.result = "changed" THEN Append(former, text) ELSE former

\* The last project stays.
RemoveProject(o, c) ==
    \/ (~Known(o, c) \/ Len(c.projects) = 1) /\ Stay(o, "error")
    \/ /\ Known(o, c) /\ Len(c.projects) > 1
       /\ Commit(o, removeProjectSpan(text, c, Index(c, o.alias)), Without(c, o.alias))
       /\ IF last'.result = "changed"
          THEN saved' = Append(saved, Artifact(o, text')) /\ former' = Append(former, text)
          ELSE UNCHANGED <<saved, former>>

\* The artifact differs from the current policy by exactly its project, in
\* meaning and in bytes.
Reproduces(a, c) ==
    LET stored == Config(a.before) IN
    /\ Validates(a.before) /\ a.project \in Aliases(stored)
    /\ Without(stored, a.project) = c
    /\ removeProjectSpan(a.before, stored, Index(stored, a.project)) = {text}

\* The recovery id names any artifact, or none, and the confirmation its project or
\* another one.  "stale" when the policy is not what the removal left.
RestoreProject(o, c) ==
    \/ Stay(o, "error")
    \/ \E k \in DOMAIN saved : LET a == saved[k] IN
       \/ a.project = o.alias /\ a.after # text /\ Stay(o, "stale")
       \/ /\ a.project = o.alias /\ a.after = text
          /\ IF Reproduces(a, c) THEN text' = a.before /\ Report(o, "changed")
             ELSE UNCHANGED text /\ Report(o, "refused")
          /\ UNCHANGED <<saved, former>>

Init ==
    /\ text \in Texts
    /\ saved = <<>>
    /\ last = [op |-> [kind |-> "none", alias |-> "", arg |-> ""], result |-> "none"]
    /\ regular = (text \in Canonical)
    /\ former = <<>>
    /\ steps = 0

\* readPolicy, then the operation on what was read.
Next ==
    /\ steps < MaxOps
    /\ LET c == Config(text) IN
       \E o \in Ops :
          \/ o.kind = "create" /\ CreateProject(o, c)
          \/ o.kind = "metadata" /\ UpdateProjectMetadata(o, c)
          \/ o.kind = "approval" /\ SetApproval(o, c)
          \/ o.kind = "allow" /\ AddAllowlist(o, c)
          \/ o.kind = "disallow" /\ RemoveAllowlist(o, c)
          \/ o.kind = "remove" /\ RemoveProject(o, c)
          \/ o.kind = "restore" /\ RestoreProject(o, c)

Spec == Init /\ [][Next]_vars

---------------------------------------------------------------------------
(* Properties.                                                             *)

\* Type invariant: the policy, what operations may report, and one artifact for
\* every text a project was removed from (RecoveryArtifactInput).
TypeOK ==
    /\ text.eol \in BOOLEAN
    /\ \A i \in DOMAIN text.lines : text.lines[i].open \in BOOLEAN /\ text.lines[i].usual \in BOOLEAN
    /\ last.result \in {"none", "changed", "no_change", "error", "refused", "stale"}
    /\ Len(saved) = Len(former)
    /\ steps \in 0 .. MaxOps

Others(c, alias) == Pick(c.projects, {i \in DOMAIN c.projects : c.projects[i].alias # alias})
TheOne(c, alias) == {p \in Range(c.projects) : p.alias = alias}

\* What operation o may make of the policy: settings and all other projects are as
\* before and in the same order, and the selected project differs in the selected
\* field only.
Exact(o, before, after) ==
    LET old == TheOne(before, o.alias)
        new == TheOne(after, o.alias)
        Differ(field) == \E p \in old, q \in new : q = [p EXCEPT ![field] = q[field]] /\ p # q
    IN
    /\ after.settings = before.settings
    /\ Others(after, o.alias) = Others(before, o.alias)
    /\ o.kind \in {"create", "restore"} => old = {} /\ Cardinality(new) = 1
    /\ o.kind = "remove" => new = {}
    /\ o.kind \in {"metadata", "approval"} =>
          LET field == IF o.kind = "approval" THEN o.kind ELSE "meta" IN
          Differ(field) /\ \A q \in new : q[field] = o.arg
    /\ o.kind \in {"allow", "disallow"} =>
          /\ Differ("allow")
          /\ \A p \in old, q \in new :
                Range(q.allow) = IF o.kind = "allow" THEN Range(p.allow) \cup {o.arg}
                                 ELSE Range(p.allow) \ {o.arg}

\* Whatever the layout, a change to the file has exactly the meaning that was
\* asked for (the comparisons of the operations and of validateAllowlistUpdate).
EditsAreExact ==
    [][last'.result = "changed" => Exact(last'.op, Config(text), Config(text'))]_vars

\* The lines that begin a project, however they are spelled.  A continuation does
\* not, whatever it looks like.
Headings(lines) == {i \in DOMAIN lines : lines[i].kind \in {"project", "element"} /\ lines[i].value # Rest}

\* The lines outside the block of a project, all lines when there is none.
Outside(t, alias) ==
    LET h == Ascending(Headings(t.lines))
        i == Index(Config(t), alias)
    IN IF alias \notin Aliases(Config(t)) THEN t.lines
       ELSE Cut(t, h[i] .. (IF i < Len(h) THEN h[i + 1] - 1 ELSE Len(t.lines))).lines

\* The comments of a text in order, each at the end of its line.
Notes(lines) == [i \in DOMAIN lines |-> lines[i].note]
Comments(t) == Pick(Notes(t.lines), {i \in DOMAIN t.lines : t.lines[i].note # ""})

\* Nothing but headers of allowlist entries and argv lines has gone.
OnlyEntriesGone(before, after) ==
    \E gone \in SUBSET {i \in DOMAIN before.lines : before.lines[i].kind \in {"allow", "argv"}} :
        after.lines = Cut(before, gone).lines

KeepsLines(o, before, after) ==
    /\ \/ Outside(after, o.alias) = Outside(before, o.alias)
       \/ o.kind = "create" /\ Outside(after, o.alias) = Append(before.lines, Blank)
    /\ o.kind \notin {"remove", "restore", "disallow"} => Comments(after) = Comments(before)
    /\ o.kind = "disallow" => OnlyEntriesGone(before, after)

\* "Every byte outside the selected span must remain unchanged" (decisions/0019;
\* a new project may be set off by a blank line).  Within a project no edit drops
\* a comment, on a line of its own or behind a value, but that the removal of an
\* allowlist entry takes those at the end of the entry's own two lines along
\* (decisions/0016, removeAllowEntries).
LinesKept == [][last'.result = "changed" => KeepsLines(last'.op, text, text')]_vars

\* A policy in the canonical layout stays editable: no sequence of operations
\* leaves a text that a later operation cannot edit.  Every removal leaves one
\* artifact, and nothing else does (TypeOK).
StaysEditable == TypeOK /\ (regular => last.result # "refused")

\* A restore is carried out only on the file that the removal left, and it brings
\* back the file the removal changed byte for byte, a missing final newline
\* included.  No artifact of the confirmed project that fits the file is refused:
\* what RemoveProject stored passes every check of RestoreProject.
RestoreIsIdentity ==
    [][last'.op.kind = "restore" =>
         /\ last'.result # "refused"
         /\ last'.result = "changed" =>
               \E k \in DOMAIN saved : saved[k].after = text /\ text' = former[k]]_vars
===========================================================================
