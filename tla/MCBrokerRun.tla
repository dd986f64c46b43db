---------------------------- MODULE MCBrokerRun ---------------------------
(* Instances of BrokerRun: a project "app" confined to directory "work".   *)
EXTENDS BrokerRun, TLC

Ask(project, dir, argv, dry) ==
    [project |-> project, dir |-> dir, argv |-> argv, dry |-> dry, fits |-> TRUE]

Deploy == Ask("app", "work", "deploy", FALSE)
Preflight(q) == [q EXCEPT !.dry = TRUE]

Policy(approval) ==
    [decodes |-> TRUE, sources |-> "worker",
     projects |-> [a \in {"app"} |->
        [approval |-> approval, allow |-> {"deploy"}, dir |-> "work"]]]

\* Files the worker refuses.
Broken ==
    {[Policy("never") EXCEPT !.decodes = FALSE], [Policy("never") EXCEPT !.sources = "unsupported"],
     [Policy("never") EXCEPT !.sources = "desktop"], [Policy("never") EXCEPT !.projects = <<>>],
     [Policy("never") EXCEPT !.projects["app"].dir = ""], Policy("sometimes")}

\* "link" is a symbolic link to one of the two directories, or to nothing.
Tree(work, link) == [work |-> work, link |-> link, home |-> "/home"]
Still == {Tree("/work", "/work")}
Moving == Still \cup {Tree("/work", "/home"), Tree("", "")}

\* Two invocations of a command that needs a human's approval until an
\* administrator lifts that, or one of them after a preflight of the same
\* request; what is asked for may also be denied for each of the reasons.
Denied == {Ask("other", "work", "deploy", FALSE), Ask("app", "work", "destroy", FALSE),
           Ask("app", "home", "deploy", FALSE)}
PairAsked ==
    {f \in [Runs -> {Deploy} \cup Denied \cup {Preflight(q) : q \in {Deploy} \cup Denied}] :
        \/ \A r \in Runs : f[r] = Deploy
        \/ \E r, d \in Runs : f[d] = Preflight(f[r]) /\ ~f[r].dry}
Guarded == {Policy("allowlisted-prompt")}
Lifted == {Policy("never")}

\* One invocation: every kind of request, against every approval mode and
\* broken policies.
MatrixAsked ==
    [Runs -> {Ask("app", dir, argv, dry) : dir \in {"work", "link", "home"},
                                           argv \in {"deploy", "destroy"}, dry \in BOOLEAN}
               \cup {Ask("other", "work", "deploy", dry) : dry \in BOOLEAN}
               \cup {[Deploy EXCEPT !.fits = FALSE]}]
MatrixPolicies == {Policy(approval) : approval \in Approvals \cup {""}} \cup Broken
MatrixWritten == {Policy("always")}

\* The policy is replaced where a preflight may come before the replacement.
ReplacedAfterPreflight == policy' # policy => \E d \in Runs : req[d].dry

Symmetry == Permutations(Runs)
===========================================================================
