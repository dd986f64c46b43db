-------------------------- MODULE OneShotApproval --------------------------
(***************************************************************************)
(* What remote approval promises the broker (the Approver contract of      *)
(* internal/approval/approver.go and decisions 0008 and 0009): a request   *)
(* is put to a human at most once, it is answered at most once while it is *)
(* open, and the caller is told "approved" only on the strength of that    *)
(* answer.  Everything else - silence, expiry, a lost message, a restarted *)
(* relay - ends in a denial.                                               *)
(***************************************************************************)
CONSTANT Ids

VARIABLES question,     \* what the human side did with the request
          outcome       \* what the caller of Approve was told

absVars == <<question, outcome>>

Question == {"unasked", "open", "approved", "denied", "lapsed"}
Outcome == {"waiting", "approved", "denied"}

AbsInit ==
    /\ question = [id \in Ids |-> "unasked"]
    /\ outcome = [id \in Ids |-> "waiting"]

Ask(id) ==
    /\ question[id] = "unasked"
    /\ question' = [question EXCEPT ![id] = "open"]
    /\ UNCHANGED outcome

Answer(id, verdict) ==
    /\ question[id] = "open"
    /\ question' = [question EXCEPT ![id] = verdict]
    /\ UNCHANGED outcome

\* Several questions can lapse at once: the relay restarts, or a tick passes
\* more than one deadline.
Lapse(S) ==
    /\ \A id \in S : question[id] = "open"
    /\ question' = [id \in Ids |-> IF id \in S THEN "lapsed" ELSE question[id]]
    /\ UNCHANGED outcome

Grant(id) ==
    /\ outcome[id] = "waiting"
    /\ question[id] = "approved"
    /\ outcome' = [outcome EXCEPT ![id] = "approved"]
    /\ UNCHANGED question

Refuse(id) ==
    /\ outcome[id] = "waiting"
    /\ outcome' = [outcome EXCEPT ![id] = "denied"]
    /\ UNCHANGED question

AbsNext ==
    \/ \E id \in Ids : Ask(id) \/ Grant(id) \/ Refuse(id)
    \/ \E id \in Ids, verdict \in {"approved", "denied"} : Answer(id, verdict)
    \/ \E S \in SUBSET Ids : Lapse(S)

AbsSpec == AbsInit /\ [][AbsNext]_absVars
============================================================================
