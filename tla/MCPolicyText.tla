--------------------------- MODULE MCPolicyText ---------------------------
(* Policies with the projects a and b in canonical and other layouts.      *)
EXTENDS PolicyText

Open(kind, value) == [Line(kind, value) EXCEPT !.open = TRUE]
Comment(note) == [Blank EXCEPT !.note = note]
Noted(line, note) == [line EXCEPT !.note = note]
Unusual(line) == [line EXCEPT !.usual = FALSE]

Runtime == <<Line("table", "runtime"), Line("setting", "home")>>
Opening(alias) == <<Line("project", ""), Line("alias", alias)>>
Fields(alias) == Opening(alias) \o <<Line("meta", "m")>>
Allow(argv) == <<Line("allow", ""), Line("argv", argv)>>

\* The layouts the editor writes or documents as editable.
Plain(alias) ==
    {Fields(alias) \o <<Line("approval", "never")>>,
     Fields(alias) \o Allow("x"),
     Fields(alias) \o <<Noted(Line("approval", "prompt"), "pool"), Comment("above"),
                        Noted(Line("allow", ""), "entry"), Noted(Line("argv", "x"), "why"),
                        Comment("below")>> \o Allow("y")}

\* Projects the pattern of headers misses, and more lines that look like one.
Hidden(alias) ==
    {<<Unusual(Line("project", "")), Line("alias", alias), Line("meta", "m"),
       Line("approval", "never")>>}
Misleading(alias) ==
    {Opening(alias) \o <<Open("meta", "m"), Line("project", Rest), Line("approval", "never")>>,
     Opening(alias) \o <<Line("meta", "m"), Line("approval", "never"), Open("other", "m"),
                         Line("project", Rest)>> \o Allow("x")}

\* Valid TOML the editor has to refuse to edit, in part or altogether: a value
\* over two lines, one that looks like a header, a command over two lines, an
\* inline allowlist, an approval that belongs to another table, headers and keys
\* in another spelling.
Odd(alias) ==
    {Opening(alias) \o <<Open("meta", "m"), Line("other", Rest), Line("approval", "never")>>,
     Fields(alias) \o <<Line("allow", ""), Open("argv", "x"), Line("other", Rest)>>,
     Fields(alias) \o <<Line("inline", "x")>>,
     Fields(alias) \o Allow("x") \o <<Line("approval", "prompt")>>,
     Opening(alias) \o <<Unusual(Line("meta", "m")), Unusual(Line("approval", "prompt")),
                         Unusual(Line("allow", "")), Unusual(Line("argv", "x"))>>}
        \cup Hidden(alias) \cup Misleading(alias)

File(lines, eol) == [lines |-> lines, eol |-> eol]

CanonicalTexts == {File(Runtime \o a \o b, eol) : a \in Plain("a"), b \in Plain("b"), eol \in BOOLEAN}

\* Also with a third project, with the other tables after the projects, with as
\* many lines that look like headers as there are projects, and with the projects
\* in an inline array.
AllTexts ==
    CanonicalTexts
      \cup {File(Runtime \o a \o b, TRUE) : a \in Odd("a"), b \in Plain("b")}
      \cup {File(Runtime \o a \o b, FALSE) : a \in Plain("a"), b \in Odd("b")}
      \cup {File(Runtime \o Fields("a") \o b \o Fields("c"), TRUE) : b \in Plain("b")}
      \cup {File(a \o b \o Runtime, TRUE) : a \in Plain("a"), b \in Plain("b")}
      \cup {File(Runtime \o a \o b, TRUE) : a \in Hidden("a"), b \in Misleading("b")}
      \cup {File(Runtime \o a \o b, TRUE) : a \in Misleading("a"), b \in Hidden("b")}
      \cup {File(<<Line("element", "a"), Line("element", "b")>> \o Runtime, TRUE)}

Do(kind, alias, arg) == [kind |-> kind, alias |-> alias, arg |-> arg]

EveryOp ==
    {Do("create", "c", "m"), Do("metadata", "a", "n"), Do("metadata", "b", "n"),
     Do("approval", "a", "never"), Do("approval", "b", "allowlisted-prompt"),
     Do("allow", "a", "y"), Do("allow", "b", "y"), Do("disallow", "a", "x"), Do("disallow", "b", "x"),
     Do("remove", "a", ""), Do("remove", "b", ""), Do("restore", "a", ""), Do("restore", "b", "")}

\* Pick agrees with the library's filter on short lists.
ASSUME PickFilters ==
    \A n \in 0 .. 4 : \A s \in [1 .. n -> {"x", "y"}] :
        Purged(s, "x") = SelectSeq(s, LAMBDA b : b # "x")
===========================================================================
