--------------------------- MODULE MCPolicyFile ---------------------------
(* Two administrators on a policy with two projects, from which a third    *)
(* project, c, was removed earlier.  One more artifact has the digest of   *)
(* today's policy but stores a policy that differs in another project.     *)
EXTENDS PolicyFile

CONSTANTS e1, e2

Project(approval) == [approval |-> approval, allow |-> {"x"}, meta |-> "m"]

ThreeProjects == [a \in {"a", "b", "c"} |-> Project("never")]
TwoProjects == Restrict(ThreeProjects, {"a", "b"})

Stored(id, policy) == [id |-> id, project |-> "c", before |-> policy, after |-> TwoProjects]

Earlier == {Stored("old", ThreeProjects),
            Stored("odd", [ThreeProjects EXCEPT !["b"] = Project("always")])}

Do(kind, alias, arg) == [kind |-> kind, alias |-> alias, arg |-> arg]
Both(x, y) == [e \in {e1, e2} |-> IF e = e1 THEN x ELSE y]

RemoveA == Do("remove", "a", "")
RemoveB == Do("remove", "b", "")
RestoreC == Do("restore", "c", "old")
HandB == Do("hand", "b", "confirm")

\* Every operation, against one it can collide with.
Pairs ==
    {Both(Do("create", "c", "m"), RestoreC), Both(RestoreC, Do("restore", "c", "odd")),
     Both(Do("allow", "a", "y"), Do("approval", "a", "automatic")),
     Both(RemoveA, RemoveB), Both(RemoveA, RestoreC),
     Both(RemoveA, Do("restore", "a", e1)), Both(RemoveA, Do("list", "", "")),
     Both(HandB, Do("metadata", "a", "n")), Both(HandB, Do("disallow", "a", "x")),
     Both(HandB, RemoveA), Both(HandB, RestoreC)}

FairSpec == Spec /\ Fairness
===========================================================================
