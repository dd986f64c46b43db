------------------------- MODULE TailscaleApproval -------------------------
(***************************************************************************)
(* Remote approval end to end: TailscaleApprover.Approve on the broker     *)
(* host (internal/approval/tailscale.go, relayclient.go), the relay's      *)
(* control and decision handlers (internal/relay/server.go) over           *)
(* RelayStore, the network between them and the human's browser.           *)
(*                                                                         *)
(* Ids stands both for the calls of Approve and for their request ids:     *)
(* every call draws a fresh 128-bit id, and ids of different calls are     *)
(* taken to differ.  The worker passes context.Background(), so the only   *)
(* way Approve's context ends is its own timeout.                          *)
(***************************************************************************)
EXTENDS RelayStore

CONSTANTS Timeout,      \* ticks Approve waits before it gives up
          Oversized     \* calls whose prompt exceeds the relay's 8 KiB limit

ASSUME ApproverAssumption == Timeout \in Nat \ {0} /\ Oversized \subseteq Ids

VARIABLES
    pc,         \* where each call of Approve is
    budget,     \* ticks until each call's context deadline
    cause,      \* TailscaleApprover.cause
    outcome,    \* the Decision returned: "waiting" until the call returns
    pollFailed, \* pollFailures > 0
    pollOK,     \* pollSucceeded
    reg,        \* the registration POST and its response
    answer,     \* the response to the poll in flight
    posts,      \* decision POSTs in the network, as <<id, approve>>
    accepted    \* history: decisions acknowledged with 200, as <<id, verdict>>

callVars == <<pc, budget, cause, outcome, pollFailed, pollOK, answer>>
vars == <<storeVars, callVars, reg, posts, accepted>>

Running == {"registering", "waiting", "polling"}
Cause == {"expired", "rejected", "unreachable"}
Answers == {"none", "pending", "expired", "notfound"} \cup Decisions

\* Type invariant: calls, messages and acknowledgements (Approve and the relay handlers).
TypeOK ==
    /\ StoreTypeOK
    /\ pc \in [Ids -> {"idle", "returned"} \cup Running]
    /\ budget \in [Ids -> 0 .. Timeout]
    /\ cause \in [Ids -> Cause]
    /\ outcome \in [Ids -> {"waiting"} \cup Decisions]
    /\ pollFailed \in [Ids -> BOOLEAN]
    /\ pollOK \in [Ids -> BOOLEAN]
    /\ reg \in [Ids -> {"unsent", "inflight", "created", "refused", "lost"}]
    /\ answer \in [Ids -> Answers]
    /\ posts \subseteq Ids \X BOOLEAN
    /\ accepted \subseteq Ids \X Decisions

Init ==
    /\ StoreInit
    /\ pc = [c \in Ids |-> "idle"]
    /\ budget = [c \in Ids |-> 0]
    /\ cause = [c \in Ids |-> "expired"]
    /\ outcome = [c \in Ids |-> "waiting"]
    /\ pollFailed = [c \in Ids |-> FALSE]
    /\ pollOK = [c \in Ids |-> FALSE]
    /\ reg = [c \in Ids |-> "unsent"]
    /\ answer = [c \in Ids |-> "none"]
    /\ posts = {}
    /\ accepted = {}

---------------------------------------------------------------------------
(* The broker host: one call of Approve.                                   *)

\* Approve returns: the deferred cancel abandons whatever is still in flight.
Return(c, decision, why) ==
    /\ pc' = [pc EXCEPT ![c] = "returned"]
    /\ outcome' = [outcome EXCEPT ![c] = decision]
    /\ cause' = [cause EXCEPT ![c] = why]
    /\ answer' = [answer EXCEPT ![c] = "none"]
    /\ UNCHANGED <<budget, pollFailed, pollOK>>

\* Approve draws an id, starts its timeout and sends the registration.
Begin(c) ==
    /\ pc[c] = "idle"
    /\ pc' = [pc EXCEPT ![c] = "registering"]
    /\ budget' = [budget EXCEPT ![c] = Timeout]
    /\ reg' = [reg EXCEPT ![c] = "inflight"]
    /\ UNCHANGED <<storeVars, cause, outcome, pollFailed, pollOK, answer, posts, accepted>>

\* newRequestID fails: nothing was sent and the cause is still the initial one.
NoRequestID(c) ==
    /\ pc[c] = "idle"
    /\ Return(c, "denied", "expired")
    /\ UNCHANGED <<storeVars, reg, posts, accepted>>

RegisterOK(c) ==
    /\ pc[c] = "registering"
    /\ reg[c] = "created"
    /\ pc' = [pc EXCEPT ![c] = "waiting"]
    /\ UNCHANGED <<storeVars, budget, cause, outcome, pollFailed, pollOK, answer, reg, posts, accepted>>

\* Register fails: a status other than 201, a network error at any moment
\* (whether or not the relay has handled or will handle the POST), or the
\* context's deadline.
RegisterError(c) ==
    /\ pc[c] = "registering"
    /\ Return(c, "denied", "unreachable")
    /\ UNCHANGED <<storeVars, reg, posts, accepted>>

\* Mutant of PollSend: every poll gets the full timeout again.
PollSendRenewed(c) ==
    /\ pc[c] = "waiting"
    /\ pc' = [pc EXCEPT ![c] = "polling"]
    /\ budget' = [budget EXCEPT ![c] = Timeout]
    /\ UNCHANGED <<storeVars, cause, outcome, pollFailed, pollOK, answer, reg, posts, accepted>>

\* The ticker case of the select; it may also be chosen when the deadline has
\* passed, because select picks at random among the ready cases.
PollSend(c) ==
    /\ pc[c] = "waiting"
    /\ pc' = [pc EXCEPT ![c] = "polling"]
    /\ UNCHANGED <<storeVars, budget, cause, outcome, pollFailed, pollOK, answer, reg, posts, accepted>>

\* Mutant of PollResult: an expired request counts as consent.
PollResultLenient(c) ==
    \/ answer[c] \in {"approved", "expired"} /\ Return(c, "approved", cause[c])
    \/ answer[c] = "denied" /\ Return(c, "denied", "rejected")

\* Mutant of PollResult: expiry is reported as a human's refusal.
PollResultBlame(c) ==
    \/ answer[c] = "approved" /\ Return(c, "approved", cause[c])
    \/ answer[c] \in {"denied", "expired"} /\ Return(c, "denied", "rejected")

\* The switch on a definite status (pollSucceeded dies with the call).
PollResult(c) ==
    \/ answer[c] = "approved" /\ Return(c, "approved", cause[c])
    \/ answer[c] = "denied" /\ Return(c, "denied", "rejected")
    \/ answer[c] = "expired" /\ Return(c, "denied", "expired")

PollDefinite(c) ==
    /\ pc[c] = "polling"
    /\ PollResult(c)
    /\ UNCHANGED <<storeVars, reg, posts, accepted>>

PollPending(c) ==
    /\ pc[c] = "polling"
    /\ answer[c] = "pending"
    /\ pollOK' = [pollOK EXCEPT ![c] = TRUE]
    /\ pc' = [pc EXCEPT ![c] = "waiting"]
    /\ answer' = [answer EXCEPT ![c] = "none"]
    /\ UNCHANGED <<storeVars, budget, cause, outcome, pollFailed, reg, posts, accepted>>

\* A poll fails: 404 because the relay no longer knows the id, a network error
\* at any moment, or the context's deadline.  The failure is counted only while
\* ctx.Err() is nil; at the deadline itself the context may or may not have
\* noticed yet.
PollError(c) ==
    /\ pc[c] = "polling"
    /\ \E counted \in (IF budget[c] > 0 THEN {TRUE} ELSE BOOLEAN) :
          pollFailed' = [pollFailed EXCEPT ![c] = @ \/ counted]
    /\ pc' = [pc EXCEPT ![c] = "waiting"]
    /\ answer' = [answer EXCEPT ![c] = "none"]
    /\ UNCHANGED <<storeVars, budget, cause, outcome, pollOK, reg, posts, accepted>>

\* The ctx.Done() case of the select.
CtxDone(c) ==
    /\ pc[c] = "waiting"
    /\ budget[c] = 0
    /\ Return(c, "denied", IF pollFailed[c] /\ ~pollOK[c] THEN "unreachable" ELSE cause[c])
    /\ UNCHANGED <<storeVars, reg, posts, accepted>>

---------------------------------------------------------------------------
(* The relay's handlers, the network and the human.                        *)

\* POST /requests/{id} on the control port: 201, or 400/409.
RelayRegister(c) ==
    /\ reg[c] = "inflight"
    /\ \/ /\ c \notin Oversized
          /\ Create(c)
          /\ reg' = [reg EXCEPT ![c] = "created"]
       \/ /\ c \in Oversized \/ ~CanCreate(c)
          /\ reg' = [reg EXCEPT ![c] = "refused"]
          /\ UNCHANGED storeVars
    /\ UNCHANGED <<callVars, posts, accepted>>

LoseRegister(c) ==
    /\ reg[c] = "inflight"
    /\ reg' = [reg EXCEPT ![c] = "lost"]
    /\ UNCHANGED <<storeVars, callVars, posts, accepted>>

\* GET /requests/{id} on the control port.
RelayPoll(c) ==
    /\ pc[c] = "polling"
    /\ answer[c] = "none"
    /\ answer' = [answer EXCEPT ![c] = Get(c)]
    /\ UNCHANGED <<storeVars, pc, budget, cause, outcome, pollFailed, pollOK, reg, posts, accepted>>

\* The human opens the dashboard or the request's page, which show buttons for
\* open requests only, and taps one; the POST may arrive much later.
Submit(c, approve) ==
    /\ c \in Pending
    /\ posts' = posts \cup {<<c, approve>>}
    /\ UNCHANGED <<storeVars, callVars, reg, accepted>>

\* POST /requests/{id}/decide: 200, or 404/409.  The POST may be delivered
\* again (a second tap, a resubmitted form, a retransmission).
RelayDecide(c, approve) ==
    /\ <<c, approve>> \in posts
    /\ \/ /\ Decide(c, approve)
          /\ accepted' = accepted \cup {<<c, Verdict(approve)>>}
       \/ /\ ~CanDecide(c)
          /\ UNCHANGED <<storeVars, accepted>>
    /\ posts' \in {posts, posts \ {<<c, approve>>}}
    /\ UNCHANGED <<callVars, reg>>

LosePost(c, approve) ==
    /\ <<c, approve>> \in posts
    /\ posts' = posts \ {<<c, approve>>}
    /\ UNCHANGED <<storeVars, callVars, reg, accepted>>

RelaySweep == Sweep /\ UNCHANGED <<callVars, reg, posts, accepted>>

RelayRestart == Restart /\ UNCHANGED <<callVars, reg, posts, accepted>>

Tick ==
    /\ Elapse
    /\ budget' = [c \in Ids |-> IF pc[c] \in Running /\ budget[c] > 0
                                THEN budget[c] - 1 ELSE budget[c]]
    /\ UNCHANGED <<pc, cause, outcome, pollFailed, pollOK, answer, reg, posts, accepted>>

CallNext(c) ==
    \/ Begin(c) \/ NoRequestID(c) \/ RegisterOK(c) \/ RegisterError(c)
    \/ PollSend(c) \/ PollDefinite(c) \/ PollPending(c) \/ PollError(c) \/ CtxDone(c)

RelayNext(c) ==
    \/ RelayRegister(c) \/ LoseRegister(c) \/ RelayPoll(c)
    \/ \E approve \in BOOLEAN :
          Submit(c, approve) \/ RelayDecide(c, approve) \/ LosePost(c, approve)

Next ==
    \/ \E c \in Ids : CallNext(c) \/ RelayNext(c)
    \/ RelaySweep
    \/ RelayRestart
    \/ Tick

Spec == Init /\ [][Next]_vars

\* What the code's scheduling guarantees.  Clocks advance and the sweeper's
\* ticker fires.  A request whose context has ended returns an error.  Go's
\* select chooses uniformly among ready cases, so a ctx.Done() that stays ready
\* is not passed over for ever by a ticker that is ready too: strong fairness.
\* Nothing is assumed of the network, the relay or the human.
Fairness ==
    /\ WF_vars(Tick)
    /\ WF_vars(RelaySweep)
    /\ \A c \in Ids :
          /\ WF_vars(RegisterError(c) /\ budget[c] = 0)
          /\ WF_vars(PollError(c) /\ budget[c] = 0)
          /\ SF_vars(CtxDone(c))

FairSpec == Spec /\ Fairness

---------------------------------------------------------------------------
(* Properties.                                                             *)

\* The broker is told "approved" only if the relay acknowledged a human's
\* approval of that very request, whatever was lost, delayed, delivered twice
\* or forgotten in a restart on the way (Approve's RelayStatusApproved case).
ApprovedOnlyByHuman ==
    \A c \in Ids : outcome[c] = "approved" => <<c, "approved">> \in accepted

\* No request is ever acknowledged both as approved and as denied: Decide takes
\* the first decision only, and neither a sweep nor a restart lets the id be
\* put to the human a second time.
AnsweredOnce ==
    \A c \in Ids : ~(<<c, "approved">> \in accepted /\ <<c, "denied">> \in accepted)

\* The diagnostic cause is true of what the human did: "rejected" is reported only
\* for a request a human declined and never approved; and a call that returns
\* "expired" before its own timeout, because the relay said so, speaks of a request
\* that no decision is ever acknowledged for, not even one already on its way
\* (a.cause in Approve).
CauseIsHonest ==
    \A c \in Ids : pc[c] = "returned" =>
        /\ cause[c] = "rejected" =>
              <<c, "denied">> \in accepted /\ <<c, "approved">> \notin accepted
        /\ cause[c] = "expired" /\ outcome[c] = "denied" /\ budget[c] > 0 =>
              \A v \in Decisions : <<c, v>> \notin accepted

\* The inductive invariant behind the three properties above.  The table agrees
\* with the acknowledgements as long as it holds the request; a request that was
\* never created has neither; a response in flight is as old as it likes but was
\* true when it was sent, and answers are never taken back; a request that was said
\* to have expired is closed for good.
TableMatchesAnswers ==
    \A c \in Ids :
        /\ status[c] = "pending" => \A v \in Decisions : <<c, v>> \notin accepted
        /\ status[c] = "approved" => <<c, "approved">> \in accepted
        /\ status[c] = "denied" => <<c, "denied">> \in accepted

UncreatedIsUnknown ==
    \A c \in Ids : reg[c] # "created" =>
        status[c] = "absent" /\ \A v \in Decisions : <<c, v>> \notin accepted

ResponsesAreTrue ==
    \A c \in Ids :
        /\ answer[c] = "approved" => <<c, "approved">> \in accepted
        /\ answer[c] = "denied" => <<c, "denied">> \in accepted

CallProgress ==
    \A c \in Ids :
        /\ pc[c] = "idle" => reg[c] = "unsent" /\ budget[c] = 0
        /\ pc[c] # "returned" => outcome[c] = "waiting" /\ cause[c] = "expired"

RejectedIsTrue ==
    \A c \in Ids : pc[c] = "returned" /\ cause[c] = "rejected" =>
        <<c, "denied">> \in accepted /\ <<c, "approved">> \notin accepted

Lapsed(c) ==
    /\ reg[c] = "created"
    /\ ~Open(c)
    /\ \A v \in Decisions : <<c, v>> \notin accepted

ToldExpired(c) ==
    pc[c] = "returned" /\ cause[c] = "expired" /\ outcome[c] = "denied" /\ budget[c] > 0

ExpiryIsFinal == \A c \in Ids : answer[c] = "expired" \/ ToldExpired(c) => Lapsed(c)

ApprovalInv ==
    /\ TypeOK
    /\ TableMatchesAnswers
    /\ UncreatedIsUnknown
    /\ ResponsesAreTrue
    /\ CallProgress
    /\ ApprovedOnlyByHuman
    /\ AnsweredOnce
    /\ RejectedIsTrue
    /\ ExpiryIsFinal

\* Approve returns, even if the relay never responds, restarts at the worst
\* moment, or answers every poll with "pending" (the context bounds the loop).
ApproveReturns ==
    \A c \in Ids : pc[c] = "registering" ~> pc[c] = "returned"

\* What the human side did with a request, as OneShotApproval sees it.
QuestionOf(c) ==
    IF <<c, "approved">> \in accepted THEN "approved"
    ELSE IF <<c, "denied">> \in accepted THEN "denied"
    ELSE IF Open(c) THEN "open"
    ELSE IF reg[c] = "created" THEN "lapsed" ELSE "unasked"

Abs == INSTANCE OneShotApproval WITH question <- [c \in Ids |-> QuestionOf(c)]

\* Approver, relay, network and human together implement the abstract one-shot
\* approval: each request is asked once, answered at most once while open, and
\* granted only on an approval.
ImplementsOneShot == Abs!AbsSpec
===========================================================================
