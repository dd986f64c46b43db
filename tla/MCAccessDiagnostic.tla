------------------------ MODULE MCAccessDiagnostic ------------------------
(* An instance of AccessDiagnostic: policies of one to three projects, one *)
(* that does not validate, every kind of directory, and limits small       *)
(* enough for each of them to be met and passed.                           *)
EXTENDS AccessDiagnostic

CONSTANTS a, b, c, none

AllCommands ==
    {[kind |-> "check", alias |-> x] : x \in {none, a}}
        \cup {[kind |-> "available", alias |-> none], [kind |-> "path", alias |-> a]}

SomePolicies ==
    {[valid |-> TRUE, projects |-> <<a, b>>], [valid |-> TRUE, projects |-> <<b>>],
     [valid |-> TRUE, projects |-> <<a, b, c>>],
     [valid |-> FALSE, projects |-> <<a>>]}

AllPlaces ==
    {[kind |-> "dir", worker |-> w, runner |-> r, write |-> x] : w, r, x \in BOOLEAN}
        \cup {[kind |-> k, worker |-> TRUE, runner |-> TRUE, write |-> FALSE] :
                 k \in {"file", "missing", "loop"}}

SomeSayings == {{"404"}, {"network"}, {"http", "network"}, {"auth", "network"}}

SomeListings ==
    {[ids |-> s, sound |-> TRUE] : s \in {<<>>, <<a>>, <<a, b>>, <<b, b>>, <<a, b, a>>}}
        \cup {[ids |-> <<a, b, c>>, sound |-> TRUE], [ids |-> <<a>>, sound |-> FALSE]}

\* The directory is of no concern to the other commands.
DiagnosticInit == Init /\ (cmd.kind # "path" => place.kind = "loop")
DiagnosticSpec == DiagnosticInit /\ [][Next]_vars /\ Fairness
===========================================================================
