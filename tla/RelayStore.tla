---------------------------- MODULE RelayStore ----------------------------
(***************************************************************************)
(* The approval relay's in-memory request table (internal/relay/store.go): *)
(* Create, Get, Pending, Decide and Sweep, each one critical section of    *)
(* the store's mutex, plus the passing of time and the loss of the table   *)
(* when the relay process restarts.                                        *)
(*                                                                         *)
(* Time is a countdown.  left[id] is deadline - now in ticks, so           *)
(* "time.Now().After(deadline)" is left[id] < 0 and the sweeper's          *)
(* "Deadline.Before(now - olderThan)" is left[id] < -SweepAfter.  The      *)
(* countdown stops at -(SweepAfter + 1): no comparison in the code tells   *)
(* later instants apart, so the model needs no bound on elapsed time.      *)
(***************************************************************************)
EXTENDS Integers, FiniteSets

CONSTANTS Ids,          \* request ids (128-bit random strings in the code)
          TTL,          \* -ttl: ticks a request stays open
          SweepAfter,   \* -sweep-after: ticks past the deadline before removal
          Limit         \* NewStoreWithLimit: capacity of the table

ASSUME RelayAssumption ==
    /\ IsFiniteSet(Ids)
    /\ TTL \in Nat \ {0}
    /\ SweepAfter \in Nat
    /\ Limit \in Nat

VARIABLES status,       \* the stored Status of each id, "absent" when not in the map
          left          \* ticks until the deadline of each id (0 when absent)

storeVars == <<status, left>>

Decisions == {"approved", "denied"}
StoredStatus == {"absent", "pending"} \cup Decisions

\* The value left[id] never falls below: the entry may be swept from there on.
Stale == -(SweepAfter + 1)

Present == {id \in Ids : status[id] # "absent"}
Expired(id) == left[id] < 0
Open(id) == status[id] = "pending" /\ ~Expired(id)

\* Type invariant: what the table (Store.requests) can hold for an id.
StoreTypeOK ==
    /\ status \in [Ids -> StoredStatus]
    /\ left \in [Ids -> Stale .. TTL]

StoreInit ==
    /\ status = [id \in Ids |-> "absent"]
    /\ left = [id \in Ids |-> 0]

---------------------------------------------------------------------------

\* Mutant of CanCreate: an off-by-one in the capacity test.
CanCreateOverLimit(id) ==
    status[id] = "absent" /\ Cardinality(Present) <= Limit

\* Create succeeds only for an id not in the table and below the capacity.
CanCreate(id) ==
    status[id] = "absent" /\ Cardinality(Present) < Limit

Create(id) ==
    /\ CanCreate(id)
    /\ status' = [status EXCEPT ![id] = "pending"]
    /\ left' = [left EXCEPT ![id] = TTL]

\* Get computes "expired" on read and never stores it.
Get(id) ==
    IF status[id] = "absent" THEN "notfound"
    ELSE IF status[id] = "pending" /\ Expired(id) THEN "expired"
    ELSE status[id]

\* The ids the dashboard lists (the order of the list is presentation).
Pending == {id \in Ids : Open(id)}

Verdict(approve) == IF approve THEN "approved" ELSE "denied"

\* Mutant of CanDecide: the deadline is not consulted.
CanDecideLate(id) == status[id] = "pending"

\* Mutant of CanDecide: a decided request can be decided again.
CanDecideAgain(id) == status[id] # "absent" /\ ~Expired(id)

CanDecide(id) == status[id] = "pending" /\ ~Expired(id)

Decide(id, approve) ==
    /\ CanDecide(id)
    /\ status' = [status EXCEPT ![id] = Verdict(approve)]
    /\ UNCHANGED left

\* Mutant of Sweepable: removes requests that are merely decided.
SweepableDecided(id) == status[id] \in Decisions

\* Mutant of Sweepable: keeps requests nobody answered.
SweepableAnswered(id) == status[id] \in Decisions /\ left[id] < -SweepAfter

Sweepable(id) == status[id] # "absent" /\ left[id] < -SweepAfter

Sweep ==
    /\ status' = [id \in Ids |-> IF Sweepable(id) THEN "absent" ELSE status[id]]
    /\ left' = [id \in Ids |-> IF Sweepable(id) THEN 0 ELSE left[id]]

\* Nothing is persisted: a restarted relay begins with an empty table.
Restart ==
    /\ status' = [id \in Ids |-> "absent"]
    /\ left' = [id \in Ids |-> 0]

\* One tick of the clock as the table's deadlines see it.
Elapse ==
    /\ left' = [id \in Ids |-> IF status[id] # "absent" /\ left[id] > Stale
                               THEN left[id] - 1 ELSE left[id]]
    /\ UNCHANGED status

StoreNext ==
    \/ \E id \in Ids : Create(id)
    \/ \E id \in Ids, approve \in BOOLEAN : Decide(id, approve)
    \/ Sweep
    \/ Restart
    \/ Elapse

\* The sweeper goroutine runs Sweep on every tick of its ticker, and time passes.
StoreSpec ==
    /\ StoreInit
    /\ [][StoreNext]_storeVars
    /\ WF_storeVars(Elapse)
    /\ WF_storeVars(Sweep)

---------------------------------------------------------------------------

\* The table never holds more than Limit requests (Create's capacity test).
StoreBounded == Cardinality(Present) <= Limit

\* A request that is decided or past its deadline is closed for good: until it
\* is removed no step changes its decision, decides it or moves its deadline
\* away ("rather than silently overwriting or reviving a closed request").
ClosedStaysClosed ==
    [][\A id \in Present :
         (~Open(id) /\ status'[id] # "absent") =>
            /\ status'[id] = status[id]
            /\ left'[id] <= left[id]]_storeVars

\* Only a restart removes a request the broker may still be polling: the
\* sweeper leaves every entry alone until SweepAfter past its deadline.
SweepSparesLive ==
    [][\A id \in Present :
         status'[id] = "absent" => (Restart \/ left[id] < -SweepAfter)]_storeVars

\* Every request is eventually removed, so a long-running relay neither leaks
\* entries nor stays full.
StoreDrains == \A id \in Ids : status[id] # "absent" ~> status[id] = "absent"
===========================================================================
