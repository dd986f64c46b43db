-------------------------- MODULE ApprovalProofs --------------------------
(***************************************************************************)
(* Safety of remote approval.  First the relay's request table alone, for  *)
(* any set of ids, capacity and lifetimes: it stays within its capacity,   *)
(* closed requests stay closed, and the sweeper spares every request that  *)
(* may still be polled.  Then the whole approval, for any number of calls, *)
(* any TTL, timeout, capacity and sweep delay: the inductive invariant     *)
(* ApprovalInv, what follows from it, and the refinement.                  *)
(***************************************************************************)
EXTENDS TailscaleApproval, FiniteSetTheorems, TLAPS

\* A leaf is first-order reasoning unless it calls the SMT solver.
USE ZenonT(20)

\* The type invariant is preserved by every operation on the table.
LEMMA StoreTypeStep == StoreTypeOK /\ [StoreNext]_storeVars => StoreTypeOK'
  <1> SUFFICES ASSUME StoreTypeOK, [StoreNext]_storeVars PROVE StoreTypeOK'
    OBVIOUS
  <1> USE RelayAssumption DEF StoreTypeOK, StoredStatus, Decisions, Stale
  <1>1. ASSUME NEW id \in Ids, Create(id) PROVE StoreTypeOK'
    BY <1>1, SMTT(30) DEF Create
  <1>2. ASSUME NEW id \in Ids, NEW a \in BOOLEAN, Decide(id, a) PROVE StoreTypeOK'
    BY <1>2 DEF Decide, Verdict
  <1>3. CASE Sweep BY <1>3, SMTT(30) DEF Sweep
  <1>4. CASE Restart BY <1>4, SMTT(30) DEF Restart
  <1>5. CASE Elapse BY <1>5, SMTT(30) DEF Elapse
  <1>6. CASE UNCHANGED storeVars BY <1>6 DEF storeVars
  <1> QED BY <1>1, <1>2, <1>3, <1>4, <1>5, <1>6 DEF StoreNext

\* Every state of the table is well typed.
THEOREM StoreTyped == StoreSpec => []StoreTypeOK
  <1>1. StoreInit => StoreTypeOK
    BY RelayAssumption, SMTT(30) DEF StoreInit, StoreTypeOK, StoredStatus, Stale
  <1> QED BY <1>1, StoreTypeStep, PTL DEF StoreSpec

\* A table is finite, and one with no more ids than another has no more entries.
LEMMA PresentShrinks ==
  ASSUME Present' \subseteq Present
  PROVE  Cardinality(Present') <= Cardinality(Present)
  <1>1. IsFiniteSet(Present)
    BY FS_Subset, RelayAssumption DEF Present
  <1> QED BY <1>1, FS_Subset

\* Create's capacity test keeps the table within Limit; nothing else adds to it.
THEOREM StoreStaysBounded == StoreSpec => []StoreBounded
  <1> USE RelayAssumption
  <1>1. StoreInit => StoreBounded
    <2>1. StoreInit => Present = {} BY DEF StoreInit, Present
    <2> QED BY <2>1, FS_EmptySet, SMTT(30) DEF StoreBounded
  <1>2. StoreTypeOK /\ StoreBounded /\ [StoreNext]_storeVars => StoreBounded'
    <2> SUFFICES ASSUME StoreTypeOK, StoreBounded, [StoreNext]_storeVars PROVE StoreBounded'
      OBVIOUS
    <2>0. IsFiniteSet(Present) /\ Cardinality(Present) \in Nat
      BY FS_Subset, FS_CardinalityType DEF Present
    <2>1. ASSUME NEW id \in Ids, Create(id) PROVE StoreBounded'
      <3>1. id \notin Present /\ Present' = Present \cup {id}
        BY <2>1 DEF Create, CanCreate, Present, StoreTypeOK
      <3>2. Cardinality(Present \cup {id}) = Cardinality(Present) + 1
        BY <2>0, <3>1, FS_AddElement
      <3>3. Cardinality(Present') = Cardinality(Present) + 1
        BY <3>1, <3>2
      <3> QED BY <2>0, <2>1, <3>3, SMTT(30) DEF Create, CanCreate, StoreBounded
    <2>2. CASE Present' \subseteq Present
      <3>1. IsFiniteSet(Present') /\ Cardinality(Present') \in Nat
        BY <2>0, <2>2, FS_Subset, FS_CardinalityType
      <3> QED BY <2>0, <2>2, <3>1, PresentShrinks, SMTT(30) DEF StoreBounded
    <2>3. ASSUME NEW id \in Ids, NEW a \in BOOLEAN, Decide(id, a) PROVE Present' \subseteq Present
      BY <2>3 DEF Decide, CanDecide, Present, StoreTypeOK
    <2>4. CASE Sweep \/ Restart \/ Elapse \/ UNCHANGED storeVars
      <3>1. Present' \subseteq Present
        BY <2>4 DEF Sweep, Restart, Elapse, storeVars, Present
      <3> QED BY <2>2, <3>1
    <2> QED BY <2>1, <2>2, <2>3, <2>4 DEF StoreNext
  <1> QED BY <1>1, <1>2, StoreTyped, PTL DEF StoreSpec

\* No operation decides, re-decides or prolongs a request that is decided or
\* past its deadline.
THEOREM StoreKeepsClosed == StoreSpec => ClosedStaysClosed
  <1> DEFINE Step == \A id \in Present :
                       (~Open(id) /\ status'[id] # "absent") =>
                          /\ status'[id] = status[id]
                          /\ left'[id] <= left[id]
  <1>1. StoreTypeOK /\ [StoreNext]_storeVars => [Step]_storeVars
    <2> SUFFICES ASSUME StoreTypeOK, [StoreNext]_storeVars, NEW id \in Present,
                        ~Open(id), status'[id] # "absent"
                 PROVE  status'[id] = status[id] /\ left'[id] <= left[id]
      OBVIOUS
    <2>0. id \in Ids /\ status[id] # "absent" /\ left[id] \in Int /\ Stale \in Int
      BY RelayAssumption, SMTT(30) DEF Present, StoreTypeOK, Stale
    <2>1. ASSUME NEW i \in Ids, Create(i) PROVE status'[id] = status[id] /\ left'[id] <= left[id]
      BY <2>0, <2>1, SMTT(30) DEF Create, CanCreate, StoreTypeOK
    <2>2. ASSUME NEW i \in Ids, NEW a \in BOOLEAN, Decide(i, a)
          PROVE  status'[id] = status[id] /\ left'[id] <= left[id]
      BY <2>0, <2>2, SMTT(30) DEF Decide, CanDecide, StoreTypeOK, Open
    <2>3. CASE Sweep BY <2>0, <2>3, SMTT(30) DEF Sweep
    <2>4. CASE Restart BY <2>0, <2>4 DEF Restart
    <2>5. CASE Elapse BY <2>0, <2>5, SMTT(30) DEF Elapse
    <2>6. CASE UNCHANGED storeVars BY <2>0, <2>6, SMTT(30) DEF storeVars
    <2> QED BY <2>1, <2>2, <2>3, <2>4, <2>5, <2>6 DEF StoreNext
  <1> QED BY <1>1, StoreTyped, PTL DEF StoreSpec, ClosedStaysClosed

\* Nothing but a restart or a sweep past the grace period removes a request.
THEOREM StoreSparesLive == StoreSpec => SweepSparesLive
  <1> DEFINE Step == \A id \in Present :
                       status'[id] = "absent" => (Restart \/ left[id] < -SweepAfter)
  <1>1. StoreTypeOK /\ [StoreNext]_storeVars => [Step]_storeVars
    <2> SUFFICES ASSUME StoreTypeOK, [StoreNext]_storeVars, NEW id \in Present,
                        status'[id] = "absent", ~Restart
                 PROVE  left[id] < -SweepAfter
      OBVIOUS
    <2>0. id \in Ids /\ status[id] # "absent" BY DEF Present
    <2>1. ASSUME NEW i \in Ids, Create(i) PROVE FALSE
      BY <2>0, <2>1 DEF Create, StoreTypeOK
    <2>2. ASSUME NEW i \in Ids, NEW a \in BOOLEAN, Decide(i, a) PROVE FALSE
      BY <2>0, <2>2 DEF Decide, Verdict, StoreTypeOK
    <2>3. CASE Sweep BY <2>0, <2>3 DEF Sweep, Sweepable
    <2>4. CASE Elapse BY <2>0, <2>4 DEF Elapse
    <2>5. CASE UNCHANGED storeVars BY <2>0, <2>5 DEF storeVars
    <2> QED BY <2>1, <2>2, <2>3, <2>4, <2>5 DEF StoreNext
  <1> QED BY <1>1, StoreTyped, PTL DEF StoreSpec, SweepSparesLive

---------------------------------------------------------------------------

\* The initial state satisfies the invariant: nothing is registered or answered.
LEMMA InitApprovalInv == Init => ApprovalInv
  <1> SUFFICES ASSUME Init PROVE ApprovalInv
    OBVIOUS
  <1> USE RelayAssumption, ApproverAssumption
  <1>1. TypeOK
    BY SMTT(30) DEF Init, StoreInit, TypeOK, StoreTypeOK, StoredStatus, Stale, Decisions,
           Running, Cause, Answers
  <1>2. QED
    BY <1>1 DEF Init, StoreInit, ApprovalInv, TableMatchesAnswers, UncreatedIsUnknown,
                ResponsesAreTrue, CallProgress, ApprovedOnlyByHuman, AnsweredOnce, RejectedIsTrue,
                ExpiryIsFinal, ToldExpired

\* The type invariant is preserved by every step of the system.
LEMMA TypeStep == TypeOK /\ [Next]_vars => TypeOK'
  <1> SUFFICES ASSUME TypeOK, [Next]_vars PROVE TypeOK'
    OBVIOUS
  <1> USE RelayAssumption, ApproverAssumption
  <1> USE DEF TypeOK, StoreTypeOK, StoredStatus, Stale, Decisions, Running, Cause, Answers,
              storeVars, callVars
  <1>1. ASSUME NEW c \in Ids, CallNext(c) PROVE TypeOK'
    <2>1. CASE Begin(c) BY <2>1, SMTT(30) DEF Begin
    <2>2. CASE NoRequestID(c) BY <2>2 DEF NoRequestID, Return
    <2>3. CASE RegisterOK(c) BY <2>3 DEF RegisterOK
    <2>4. CASE RegisterError(c) BY <2>4 DEF RegisterError, Return
    <2>5. CASE PollSend(c) BY <2>5 DEF PollSend
    <2>6. CASE PollDefinite(c) BY <2>6, SMTT(30) DEF PollDefinite, PollResult, Return
    <2>7. CASE PollPending(c) BY <2>7 DEF PollPending
    <2>8. CASE PollError(c) BY <2>8 DEF PollError
    <2>9. CASE CtxDone(c) BY <2>9 DEF CtxDone, Return
    <2> QED BY <1>1, <2>1, <2>2, <2>3, <2>4, <2>5, <2>6, <2>7, <2>8, <2>9 DEF CallNext
  <1>2. ASSUME NEW c \in Ids, RelayNext(c) PROVE TypeOK'
    <2>1. CASE RelayRegister(c) BY <2>1, SMTT(30) DEF RelayRegister, Create
    <2>2. CASE LoseRegister(c) BY <2>2 DEF LoseRegister
    <2>3. CASE RelayPoll(c) BY <2>3 DEF RelayPoll, Get
    <2>4. ASSUME NEW a \in BOOLEAN, Submit(c, a) PROVE TypeOK' BY <2>4, SMTT(30) DEF Submit
    <2>5. ASSUME NEW a \in BOOLEAN, RelayDecide(c, a) PROVE TypeOK'
      BY <2>5, SMTT(30) DEF RelayDecide, Decide, Verdict
    <2>6. ASSUME NEW a \in BOOLEAN, LosePost(c, a) PROVE TypeOK' BY <2>6 DEF LosePost
    <2> QED BY <1>2, <2>1, <2>2, <2>3, <2>4, <2>5, <2>6, SMTT(30) DEF RelayNext
  <1>3. CASE RelaySweep BY <1>3, SMTT(30) DEF RelaySweep, Sweep
  <1>4. CASE RelayRestart BY <1>4, SMTT(30) DEF RelayRestart, Restart
  <1>5. CASE Tick BY <1>5, SMTT(30) DEF Tick, Elapse
  <1>6. CASE UNCHANGED vars BY <1>6 DEF vars
  <1> QED BY <1>1, <1>2, <1>3, <1>4, <1>5, <1>6 DEF Next

\* One step of one call of Approve preserves the invariant: it changes neither
\* the table nor the acknowledgements, and returns only what a response said.
LEMMA CallStep ==
  ASSUME ApprovalInv, NEW c \in Ids, CallNext(c)
  PROVE  TypeOK' /\ ExpiryIsFinal' => ApprovalInv'
  <1> USE DEF ApprovalInv, TypeOK, StoreTypeOK, storeVars
  <1>0. TableMatchesAnswers' /\ AnsweredOnce'
    <2>1. UNCHANGED <<status, accepted>>
      BY DEF CallNext, Begin, NoRequestID, RegisterOK, RegisterError, PollSend, PollDefinite,
             PollPending, PollError, CtxDone
    <2> QED BY <2>1 DEF TableMatchesAnswers, AnsweredOnce
  <1>1. CASE Begin(c)
    <2>1. UncreatedIsUnknown' BY <1>1 DEF Begin, UncreatedIsUnknown, CallProgress
    <2>2. ResponsesAreTrue' BY <1>1 DEF Begin, ResponsesAreTrue
    <2>3. CallProgress' BY <1>1 DEF Begin, CallProgress
    <2>4. ApprovedOnlyByHuman' BY <1>1 DEF Begin, ApprovedOnlyByHuman
    <2>5. RejectedIsTrue' BY <1>1 DEF Begin, RejectedIsTrue
    <2> QED BY <1>0, <2>1, <2>2, <2>3, <2>4, <2>5
  <1>2. CASE NoRequestID(c)
    <2>1. UncreatedIsUnknown' BY <1>2 DEF NoRequestID, Return, UncreatedIsUnknown
    <2>2. ResponsesAreTrue' BY <1>2 DEF NoRequestID, Return, ResponsesAreTrue
    <2>3. CallProgress' BY <1>2 DEF NoRequestID, Return, CallProgress
    <2>4. ApprovedOnlyByHuman' BY <1>2 DEF NoRequestID, Return, ApprovedOnlyByHuman
    <2>5. RejectedIsTrue' BY <1>2 DEF NoRequestID, Return, RejectedIsTrue
    <2> QED BY <1>0, <2>1, <2>2, <2>3, <2>4, <2>5
  <1>3. CASE RegisterOK(c)
    <2>1. UncreatedIsUnknown' BY <1>3 DEF RegisterOK, UncreatedIsUnknown
    <2>2. ResponsesAreTrue' BY <1>3 DEF RegisterOK, ResponsesAreTrue
    <2>3. CallProgress' BY <1>3 DEF RegisterOK, CallProgress
    <2>4. ApprovedOnlyByHuman' BY <1>3 DEF RegisterOK, ApprovedOnlyByHuman
    <2>5. RejectedIsTrue' BY <1>3 DEF RegisterOK, RejectedIsTrue
    <2> QED BY <1>0, <2>1, <2>2, <2>3, <2>4, <2>5
  <1>4. CASE RegisterError(c)
    <2>1. UncreatedIsUnknown' BY <1>4 DEF RegisterError, Return, UncreatedIsUnknown
    <2>2. ResponsesAreTrue' BY <1>4 DEF RegisterError, Return, ResponsesAreTrue
    <2>3. CallProgress' BY <1>4 DEF RegisterError, Return, CallProgress
    <2>4. ApprovedOnlyByHuman' BY <1>4 DEF RegisterError, Return, ApprovedOnlyByHuman
    <2>5. RejectedIsTrue' BY <1>4 DEF RegisterError, Return, RejectedIsTrue, CallProgress
    <2> QED BY <1>0, <2>1, <2>2, <2>3, <2>4, <2>5
  <1>5. CASE PollSend(c)
    <2>1. UncreatedIsUnknown' BY <1>5 DEF PollSend, UncreatedIsUnknown
    <2>2. ResponsesAreTrue' BY <1>5 DEF PollSend, ResponsesAreTrue
    <2>3. CallProgress' BY <1>5 DEF PollSend, CallProgress
    <2>4. ApprovedOnlyByHuman' BY <1>5 DEF PollSend, ApprovedOnlyByHuman
    <2>5. RejectedIsTrue' BY <1>5 DEF PollSend, RejectedIsTrue
    <2> QED BY <1>0, <2>1, <2>2, <2>3, <2>4, <2>5
  <1>6. CASE PollDefinite(c)
    <2>1. UncreatedIsUnknown' BY <1>6 DEF PollDefinite, PollResult, Return, UncreatedIsUnknown
    <2>2. ResponsesAreTrue' BY <1>6 DEF PollDefinite, PollResult, Return, ResponsesAreTrue
    <2>3. CallProgress' BY <1>6, SMTT(30) DEF PollDefinite, PollResult, Return, CallProgress
    <2>4. ApprovedOnlyByHuman' BY <1>6 DEF PollDefinite, PollResult, Return, ApprovedOnlyByHuman, ResponsesAreTrue
    <2>5. RejectedIsTrue'
      BY <1>6, SMTT(30) DEF PollDefinite, PollResult, Return, RejectedIsTrue, ResponsesAreTrue,
                            CallProgress, AnsweredOnce
    <2> QED BY <1>0, <2>1, <2>2, <2>3, <2>4, <2>5
  <1>7. CASE PollPending(c)
    <2>1. UncreatedIsUnknown' BY <1>7 DEF PollPending, UncreatedIsUnknown
    <2>2. ResponsesAreTrue' BY <1>7 DEF PollPending, ResponsesAreTrue
    <2>3. CallProgress' BY <1>7 DEF PollPending, CallProgress
    <2>4. ApprovedOnlyByHuman' BY <1>7 DEF PollPending, ApprovedOnlyByHuman
    <2>5. RejectedIsTrue' BY <1>7 DEF PollPending, RejectedIsTrue
    <2> QED BY <1>0, <2>1, <2>2, <2>3, <2>4, <2>5
  <1>8. CASE PollError(c)
    <2>1. UncreatedIsUnknown' BY <1>8 DEF PollError, UncreatedIsUnknown
    <2>2. ResponsesAreTrue' BY <1>8 DEF PollError, ResponsesAreTrue
    <2>3. CallProgress' BY <1>8 DEF PollError, CallProgress
    <2>4. ApprovedOnlyByHuman' BY <1>8 DEF PollError, ApprovedOnlyByHuman
    <2>5. RejectedIsTrue' BY <1>8 DEF PollError, RejectedIsTrue
    <2> QED BY <1>0, <2>1, <2>2, <2>3, <2>4, <2>5
  <1>9. CASE CtxDone(c)
    <2>1. UncreatedIsUnknown' BY <1>9 DEF CtxDone, Return, UncreatedIsUnknown
    <2>2. ResponsesAreTrue' BY <1>9 DEF CtxDone, Return, ResponsesAreTrue
    <2>3. CallProgress' BY <1>9 DEF CtxDone, Return, CallProgress
    <2>4. ApprovedOnlyByHuman' BY <1>9 DEF CtxDone, Return, ApprovedOnlyByHuman
    <2>5. RejectedIsTrue' BY <1>9 DEF CtxDone, Return, RejectedIsTrue, CallProgress
    <2> QED BY <1>0, <2>1, <2>2, <2>3, <2>4, <2>5
  <1> QED BY <1>1, <1>2, <1>3, <1>4, <1>5, <1>6, <1>7, <1>8, <1>9 DEF CallNext

\* One step of the relay, the network or the human preserves the invariant: an
\* answer is acknowledged only for a request that is pending, hence unanswered,
\* and an id enters the table only once.
LEMMA RelayStep ==
  ASSUME ApprovalInv, NEW c \in Ids, RelayNext(c)
  PROVE  TypeOK' /\ ExpiryIsFinal' => ApprovalInv'
  <1> USE DEF ApprovalInv, TypeOK, StoreTypeOK, storeVars, callVars
  <1>1. CASE RelayRegister(c)
    <2>1. TableMatchesAnswers' BY <1>1 DEF RelayRegister, Create, CanCreate, TableMatchesAnswers, UncreatedIsUnknown
    <2>2. UncreatedIsUnknown' BY <1>1 DEF RelayRegister, Create, CanCreate, UncreatedIsUnknown
    <2>3. ResponsesAreTrue' BY <1>1 DEF RelayRegister, Create, CanCreate, ResponsesAreTrue
    <2>4. CallProgress' BY <1>1 DEF RelayRegister, Create, CanCreate, CallProgress
    <2>5. ApprovedOnlyByHuman' BY <1>1 DEF RelayRegister, Create, CanCreate, ApprovedOnlyByHuman
    <2>6. AnsweredOnce' BY <1>1 DEF RelayRegister, Create, CanCreate, AnsweredOnce
    <2>7. RejectedIsTrue' BY <1>1 DEF RelayRegister, Create, CanCreate, RejectedIsTrue
    <2> QED BY <2>1, <2>2, <2>3, <2>4, <2>5, <2>6, <2>7
  <1>2. CASE LoseRegister(c)
    <2>1. TableMatchesAnswers' BY <1>2 DEF LoseRegister, TableMatchesAnswers
    <2>2. UncreatedIsUnknown' BY <1>2 DEF LoseRegister, UncreatedIsUnknown
    <2>3. ResponsesAreTrue' BY <1>2 DEF LoseRegister, ResponsesAreTrue
    <2>4. CallProgress' BY <1>2 DEF LoseRegister, CallProgress
    <2>5. ApprovedOnlyByHuman' BY <1>2 DEF LoseRegister, ApprovedOnlyByHuman
    <2>6. AnsweredOnce' BY <1>2 DEF LoseRegister, AnsweredOnce
    <2>7. RejectedIsTrue' BY <1>2 DEF LoseRegister, RejectedIsTrue
    <2> QED BY <2>1, <2>2, <2>3, <2>4, <2>5, <2>6, <2>7
  <1>3. CASE RelayPoll(c)
    <2>1. TableMatchesAnswers' BY <1>3 DEF RelayPoll, Get, TableMatchesAnswers
    <2>2. UncreatedIsUnknown' BY <1>3 DEF RelayPoll, Get, UncreatedIsUnknown
    <2>3. ResponsesAreTrue' BY <1>3 DEF RelayPoll, Get, ResponsesAreTrue, TableMatchesAnswers
    <2>4. CallProgress' BY <1>3 DEF RelayPoll, Get, CallProgress
    <2>5. ApprovedOnlyByHuman' BY <1>3 DEF RelayPoll, Get, ApprovedOnlyByHuman
    <2>6. AnsweredOnce' BY <1>3 DEF RelayPoll, Get, AnsweredOnce
    <2>7. RejectedIsTrue' BY <1>3 DEF RelayPoll, Get, RejectedIsTrue
    <2> QED BY <2>1, <2>2, <2>3, <2>4, <2>5, <2>6, <2>7
  <1>4. ASSUME NEW a \in BOOLEAN, Submit(c, a) \/ LosePost(c, a)
        PROVE  TypeOK' /\ ExpiryIsFinal' => ApprovalInv'
    BY <1>4, SMTT(30) DEF Submit, LosePost,
       TableMatchesAnswers, UncreatedIsUnknown, ResponsesAreTrue, CallProgress, ApprovedOnlyByHuman, AnsweredOnce, RejectedIsTrue
  <1>5. ASSUME NEW a \in BOOLEAN, RelayDecide(c, a) PROVE TypeOK' /\ ExpiryIsFinal' => ApprovalInv'
    <2> UNCHANGED <<callVars, reg>> BY <1>5 DEF RelayDecide
    <2>1. CASE UNCHANGED <<storeVars, accepted>>
      BY <2>1 DEF TableMatchesAnswers, UncreatedIsUnknown, ResponsesAreTrue, CallProgress,
                  ApprovedOnlyByHuman, AnsweredOnce, RejectedIsTrue
    <2>2. CASE Decide(c, a) /\ accepted' = accepted \cup {<<c, Verdict(a)>>}
      <3>1. status[c] = "pending" /\ \A v \in Decisions : <<c, v>> \notin accepted
        BY <2>2 DEF Decide, CanDecide, TableMatchesAnswers
      <3>2. <<c, "approved">> \notin accepted /\ <<c, "denied">> \notin accepted
        BY <3>1 DEF Decisions
      <3>3. PICK v \in Decisions : /\ status' = [status EXCEPT ![c] = v]
                                  /\ accepted' = accepted \cup {<<c, v>>}
        BY <2>2 DEF Decide, Verdict, Decisions
      <3>4. v = "approved" \/ v = "denied" BY DEF Decisions
      <3>5. TableMatchesAnswers' BY <3>1, <3>3, <3>4 DEF TableMatchesAnswers
      <3>6. UncreatedIsUnknown' BY <3>1, <3>3 DEF UncreatedIsUnknown
      <3>7. ResponsesAreTrue' /\ ApprovedOnlyByHuman' BY <3>3 DEF ResponsesAreTrue, ApprovedOnlyByHuman
      <3>8. AnsweredOnce' BY <3>2, <3>3, <3>4 DEF AnsweredOnce
      <3>9. CallProgress' BY DEF CallProgress
      <3>10. RejectedIsTrue' BY <3>2, <3>3 DEF RejectedIsTrue
      <3> QED BY <3>5, <3>6, <3>7, <3>8, <3>9, <3>10
    <2> QED BY <1>5, <2>1, <2>2 DEF RelayDecide
  <1> QED BY <1>1, <1>2, <1>3, <1>4, <1>5 DEF RelayNext

\* Sweeping, restarting and the passing of time only forget table entries.
LEMMA EnvironmentStep ==
  ASSUME ApprovalInv, RelaySweep \/ RelayRestart \/ Tick \/ UNCHANGED vars
  PROVE  TypeOK' /\ ExpiryIsFinal' => ApprovalInv'
  <1> USE DEF ApprovalInv, TypeOK, StoreTypeOK, TableMatchesAnswers, UncreatedIsUnknown,
              ResponsesAreTrue, CallProgress, ApprovedOnlyByHuman, AnsweredOnce, RejectedIsTrue,
              storeVars, callVars
  <1>1. CASE RelaySweep BY <1>1 DEF RelaySweep, Sweep
  <1>2. CASE RelayRestart BY <1>2 DEF RelayRestart, Restart
  <1>3. CASE Tick BY <1>3 DEF Tick, Elapse, Running
  <1>4. CASE UNCHANGED vars BY <1>4 DEF vars
  <1> QED BY <1>1, <1>2, <1>3, <1>4

\* Sweeping, restarting and the passing of time open no request.
LEMMA OpenShrinks ==
  ASSUME TypeOK, RelaySweep \/ RelayRestart \/ Tick \/ UNCHANGED vars, NEW d \in Ids
  PROVE  Open(d)' => Open(d)
  <1> USE DEF TypeOK, StoreTypeOK
  <1>1. CASE RelaySweep BY <1>1 DEF RelaySweep, Sweep, Open, Expired
  <1>2. CASE RelayRestart BY <1>2 DEF RelayRestart, Restart, Open
  <1>3. CASE Tick BY <1>3, RelayAssumption, SMTT(30) DEF Tick, Elapse, Open, Expired, Stale
  <1>4. CASE UNCHANGED vars BY <1>4 DEF vars, storeVars, Open, Expired
  <1> QED BY <1>1, <1>2, <1>3, <1>4

\* No step opens a request that has lapsed: an id enters the table once, its
\* deadline never moves away, and only an open request is answered.
LEMMA LapsedStays ==
  ASSUME ApprovalInv, [Next]_vars, NEW d \in Ids, Lapsed(d)
  PROVE  Lapsed(d)'
  <1> USE DEF ApprovalInv, TypeOK, StoreTypeOK, Lapsed
  <1>1. ASSUME NEW c \in Ids, CallNext(c) PROVE Lapsed(d)'
    <2>1. UNCHANGED <<status, left, accepted>> /\ (reg[d] = "created" => reg'[d] = "created")
      BY <1>1 DEF CallNext, Begin, NoRequestID, RegisterOK, RegisterError, PollSend, PollDefinite,
             PollPending, PollError, CtxDone, storeVars, CallProgress
    <2> QED BY <2>1 DEF Open, Expired
  <1>2. ASSUME NEW c \in Ids, RelayNext(c) PROVE Lapsed(d)'
    <2>1. CASE RelayRegister(c)
      <3>1. c # d BY <2>1 DEF RelayRegister
      <3>2. status'[d] = status[d] /\ left'[d] = left[d] /\ reg'[d] = reg[d] /\ accepted' = accepted
        BY <2>1, <3>1 DEF RelayRegister, Create, storeVars
      <3> QED BY <3>2 DEF Open, Expired
    <2>2. CASE LoseRegister(c) BY <2>2 DEF LoseRegister, storeVars, Open, Expired
    <2>3. CASE RelayPoll(c) BY <2>3 DEF RelayPoll, storeVars, Open, Expired
    <2>4. ASSUME NEW a \in BOOLEAN, Submit(c, a) \/ LosePost(c, a) PROVE Lapsed(d)'
      BY <2>4 DEF Submit, LosePost, storeVars, Open, Expired
    <2>5. ASSUME NEW a \in BOOLEAN, RelayDecide(c, a) PROVE Lapsed(d)'
      <3>1. reg' = reg BY <2>5 DEF RelayDecide
      <3>2. CASE UNCHANGED <<storeVars, accepted>> BY <3>1, <3>2 DEF storeVars, Open, Expired
      <3>3. CASE Decide(c, a) /\ accepted' = accepted \cup {<<c, Verdict(a)>>}
        <4>1. c # d BY <3>3 DEF Decide, CanDecide, Open
        <4>2. status'[d] = status[d] /\ left' = left BY <3>3, <4>1 DEF Decide
        <4> QED BY <3>1, <3>3, <4>1, <4>2 DEF Open, Expired
      <3> QED BY <2>5, <3>2, <3>3 DEF RelayDecide
    <2> QED BY <1>2, <2>1, <2>2, <2>3, <2>4, <2>5 DEF RelayNext
  <1>3. CASE RelaySweep \/ RelayRestart \/ Tick \/ UNCHANGED vars
    <2>1. UNCHANGED <<accepted, reg>> BY <1>3 DEF RelaySweep, RelayRestart, Tick, vars
    <2>2. Open(d)' => Open(d) BY <1>3, OpenShrinks
    <2> QED BY <2>1, <2>2
  <1> QED BY <1>1, <1>2, <1>3 DEF Next

\* The relay says "expired" only of a request that has lapsed, and Approve returns it
\* before its timeout only if the relay said so.
LEMMA ExpiryStep == ApprovalInv /\ [Next]_vars => ExpiryIsFinal'
  <1> SUFFICES ASSUME ApprovalInv, [Next]_vars, NEW d \in Ids, (answer[d] = "expired" \/ ToldExpired(d))'
               PROVE  Lapsed(d)'
    BY DEF ExpiryIsFinal
  <1> USE DEF ApprovalInv, TypeOK, StoreTypeOK
  <1>1. SUFFICES Lapsed(d) BY LapsedStays
  <1>2. CASE answer[d] = "expired" \/ ToldExpired(d) BY <1>2 DEF ExpiryIsFinal
  <1>3. CASE ~(answer[d] = "expired" \/ ToldExpired(d))
    <2>1. ASSUME NEW c \in Ids, CallNext(c) PROVE FALSE
      <3>1. CASE Begin(c) BY <1>3, <3>1 DEF Begin, ToldExpired
      <3>2. CASE NoRequestID(c)
        <4>1. budget'[c] = 0 BY <3>2 DEF NoRequestID, Return, CallProgress
        <4>2. ~ToldExpired(c)' BY <4>1, SMTT(30) DEF ToldExpired
        <4> QED BY <1>3, <3>2, <4>2 DEF NoRequestID, Return, ToldExpired
      <3>6. CASE RegisterError(c) BY <1>3, <3>6 DEF RegisterError, Return, ToldExpired
      <3>3. CASE RegisterOK(c) \/ PollSend(c) \/ PollPending(c) \/ PollError(c)
        BY <1>3, <3>3 DEF RegisterOK, PollSend, PollPending, PollError, ToldExpired
      <3>4. CASE PollDefinite(c) BY <1>3, <3>4 DEF PollDefinite, PollResult, Return, ToldExpired
      <3>5. CASE CtxDone(c) BY <1>3, <3>5, SMTT(30) DEF CtxDone, Return, ToldExpired
      <3> QED BY <2>1, <3>1, <3>2, <3>3, <3>4, <3>5, <3>6 DEF CallNext
    <2>2. ASSUME NEW c \in Ids, RelayNext(c) PROVE Lapsed(d)
      <3>1. CASE RelayPoll(c)
        <4>1. d = c /\ Get(c) = "expired" BY <1>3, <3>1 DEF RelayPoll, ToldExpired
        <4>2. status[c] = "pending" /\ Expired(c) BY <4>1 DEF Get, StoredStatus, Decisions
        <4> QED BY <4>1, <4>2 DEF Lapsed, Open, UncreatedIsUnknown, TableMatchesAnswers
      <3>2. CASE ~RelayPoll(c)
        <4>1. UNCHANGED callVars
          BY <2>2, <3>2 DEF RelayNext, RelayRegister, LoseRegister, Submit, RelayDecide, LosePost
        <4> QED BY <1>3, <4>1 DEF callVars, ToldExpired
      <3> QED BY <3>1, <3>2
    <2>3. CASE RelaySweep \/ RelayRestart \/ UNCHANGED vars
      BY <1>3, <2>3 DEF RelaySweep, RelayRestart, vars, callVars, ToldExpired
    <2>4. CASE Tick
      <3>1. UNCHANGED <<pc, cause, outcome, answer>> BY <2>4 DEF Tick
      <3>2. pc[d] = "returned" /\ budget'[d] = budget[d]
        BY <1>3, <2>4, <3>1 DEF Tick, ToldExpired, Running
      <3> QED BY <1>3, <3>1, <3>2 DEF ToldExpired
    <2> QED BY <2>1, <2>2, <2>3, <2>4 DEF Next
  <1> QED BY <1>2, <1>3

\* ApprovalInv holds in every reachable state.
THEOREM ApprovalInvariant == Spec => []ApprovalInv
  <1>1. ApprovalInv /\ [Next]_vars => ApprovalInv'
    BY TypeStep, ExpiryStep, CallStep, RelayStep, EnvironmentStep DEF ApprovalInv, Next
  <1> QED BY InitApprovalInv, <1>1, PTL DEF Spec

\* Approve reports "approved" only for a request whose approval by a human the
\* relay acknowledged.
THEOREM ApprovalSafety == Spec => []ApprovedOnlyByHuman
  <1>1. ApprovalInv => ApprovedOnlyByHuman BY DEF ApprovalInv
  <1> QED BY ApprovalInvariant, <1>1, PTL

\* The relay never acknowledges two different answers to one request.
THEOREM SingleAnswer == Spec => []AnsweredOnce
  <1>1. ApprovalInv => AnsweredOnce BY DEF ApprovalInv
  <1> QED BY ApprovalInvariant, <1>1, PTL

\* The cause reported with a denial is true of what the human did: "rejected" only
\* of a request declined and never approved, and "expired", when the relay said so,
\* only of a request that no decision is ever acknowledged for.
THEOREM HonestCause == Spec => []CauseIsHonest
  <1>1. ApprovalInv => CauseIsHonest
    BY DEF ApprovalInv, CauseIsHonest, RejectedIsTrue, ExpiryIsFinal, ToldExpired, Lapsed
  <1> QED BY ApprovalInvariant, <1>1, PTL

\* Initially no question is asked and nobody has been told anything.
LEMMA RefinementInit == Init => Abs!AbsInit
  BY DEF Init, StoreInit, Abs!AbsInit, QuestionOf, Open

\* A step of one call of Approve leaves every question as it is; returning is
\* granting or refusing.
LEMMA CallRefines ==
  ASSUME ApprovalInv, NEW c \in Ids, CallNext(c)
  PROVE  [Abs!AbsNext]_(Abs!absVars)
  <1> USE DEF ApprovalInv, TypeOK
  <1> DEFINE Q == [d \in Ids |-> QuestionOf(d)]
  <1>1. UNCHANGED <<status, left, accepted>>
    BY DEF CallNext, Begin, NoRequestID, RegisterOK, RegisterError, PollSend, PollDefinite,
           PollPending, PollError, CtxDone, storeVars
  <1>2. \A d \in Ids : (reg'[d] = "created") <=> (reg[d] = "created")
    BY DEF CallNext, Begin, NoRequestID, RegisterOK, RegisterError, PollSend, PollDefinite,
           PollPending, PollError, CtxDone, CallProgress
  <1>3. \A d \in Ids : QuestionOf(d)' = QuestionOf(d)
    BY <1>1, <1>2 DEF QuestionOf, Open, Expired
  <1>4. Q' = Q
    BY <1>3
  <1>5. CASE outcome' = outcome
    BY <1>4, <1>5 DEF Abs!absVars
  <1>6. ASSUME NEW v \in Decisions, NEW why, pc[c] # "returned", Return(c, v, why),
               v = "approved" => <<c, "approved">> \in accepted
        PROVE  Abs!AbsNext
    <2>1. outcome[c] = "waiting" BY <1>6 DEF CallProgress
    <2>2. outcome' = [outcome EXCEPT ![c] = v] BY <1>6 DEF Return
    <2>3. CASE v = "approved"
      <3>1. Q[c] = "approved" BY <1>6, <2>3 DEF QuestionOf
      <3> QED BY <1>4, <2>1, <2>2, <2>3, <3>1 DEF Abs!AbsNext, Abs!Grant
    <2>4. CASE v = "denied"
      BY <1>4, <2>1, <2>2, <2>4 DEF Abs!AbsNext, Abs!Refuse
    <2> QED BY <2>3, <2>4 DEF Decisions
  <1>7. CASE outcome' # outcome
    BY <1>6, <1>7 DEF CallNext, Begin, NoRequestID, RegisterOK, RegisterError, PollSend,
       PollDefinite, PollResult, PollPending, PollError, CtxDone, Decisions, ResponsesAreTrue
  <1> QED BY <1>5, <1>7

\* A step of the relay, the network or the human asks one question, answers one
\* that is open, or changes none.
LEMMA RelayRefines ==
  ASSUME ApprovalInv, NEW c \in Ids, RelayNext(c)
  PROVE  [Abs!AbsNext]_(Abs!absVars)
  <1> USE DEF ApprovalInv, TypeOK, StoreTypeOK
  <1> DEFINE Q == [d \in Ids |-> QuestionOf(d)]
  <1>0. outcome' = outcome
    BY DEF RelayNext, RelayRegister, LoseRegister, RelayPoll, Submit, RelayDecide, LosePost, callVars
  <1>1. CASE Create(c) /\ reg' = [reg EXCEPT ![c] = "created"] /\ reg[c] = "inflight" /\ UNCHANGED accepted
    <2>1. QuestionOf(c) = "unasked"
      BY <1>1 DEF QuestionOf, Open, UncreatedIsUnknown, Decisions
    <2>2. QuestionOf(c)' = "open"
      BY <1>1, RelayAssumption, SMTT(30) DEF QuestionOf, Open, Expired, Create, UncreatedIsUnknown, Decisions
    <2>3. \A d \in Ids \ {c} : QuestionOf(d)' = QuestionOf(d)
      BY <1>1 DEF QuestionOf, Open, Expired, Create
    <2>4. Q' = [Q EXCEPT ![c] = "open"] BY <2>2, <2>3
    <2> QED BY <1>0, <2>1, <2>4 DEF Abs!AbsNext, Abs!Ask
  <1>2. ASSUME NEW a \in BOOLEAN, Decide(c, a), accepted' = accepted \cup {<<c, Verdict(a)>>}, UNCHANGED reg
        PROVE  Abs!AbsNext
    <2>0. Verdict(a) \in Decisions BY DEF Verdict, Decisions
    <2>1. QuestionOf(c) = "open"
      BY <1>2 DEF QuestionOf, Open, Decide, CanDecide, TableMatchesAnswers, Decisions
    <2>2. <<c, "approved">> \notin accepted /\ <<c, "denied">> \notin accepted
      BY <1>2 DEF Decide, CanDecide, TableMatchesAnswers, Decisions
    <2>3. QuestionOf(c)' = Verdict(a)
      BY <1>2, <2>0, <2>2 DEF QuestionOf, Decisions
    <2>4. \A d \in Ids \ {c} : QuestionOf(d)' = QuestionOf(d)
      BY <1>2 DEF QuestionOf, Open, Expired, Decide
    <2>5. Q' = [Q EXCEPT ![c] = Verdict(a)] BY <2>3, <2>4
    <2> QED BY <1>0, <2>0, <2>1, <2>5 DEF Abs!AbsNext, Abs!Answer, Decisions
  <1>3. CASE /\ UNCHANGED <<storeVars, accepted>>
             /\ \A d \in Ids : (reg'[d] = "created") <=> (reg[d] = "created")
    <2>1. \A d \in Ids : QuestionOf(d)' = QuestionOf(d)
      BY <1>3 DEF QuestionOf, Open, Expired, storeVars
    <2>2. Q' = Q BY <2>1
    <2> QED BY <1>0, <2>2 DEF Abs!absVars
  <1>4. CASE RelayRegister(c) BY <1>1, <1>3, <1>4 DEF RelayRegister
  <1>5. CASE LoseRegister(c) BY <1>3, <1>5 DEF LoseRegister
  <1>6. CASE RelayPoll(c) BY <1>3, <1>6 DEF RelayPoll
  <1>7. ASSUME NEW a \in BOOLEAN, Submit(c, a) \/ LosePost(c, a)
        PROVE  [Abs!AbsNext]_(Abs!absVars)
    BY <1>3, <1>7 DEF Submit, LosePost
  <1>8. ASSUME NEW a \in BOOLEAN, RelayDecide(c, a) PROVE [Abs!AbsNext]_(Abs!absVars)
    BY <1>2, <1>3, <1>8 DEF RelayDecide
  <1> QED BY <1>4, <1>5, <1>6, <1>7, <1>8 DEF RelayNext

\* Sweeping, restarting and the passing of time make open questions lapse.
LEMMA EnvironmentRefines ==
  ASSUME ApprovalInv, RelaySweep \/ RelayRestart \/ Tick \/ UNCHANGED vars
  PROVE  [Abs!AbsNext]_(Abs!absVars)
  <1> USE DEF ApprovalInv, TypeOK, StoreTypeOK
  <1> DEFINE Q == [d \in Ids |-> QuestionOf(d)]
             S == {d \in Ids : Open(d) /\ ~Open(d)'}
  <1>1. UNCHANGED <<accepted, reg, outcome>>
    BY DEF RelaySweep, RelayRestart, Tick, callVars, vars
  <1>2. \A d \in Ids : Open(d)' => Open(d) BY OpenShrinks
  <1>3. \A d \in S : QuestionOf(d) = "open"
    BY DEF QuestionOf, Open, TableMatchesAnswers, Decisions
  <1>4. \A d \in S : QuestionOf(d)' = "lapsed"
    BY <1>1 DEF QuestionOf, Open, TableMatchesAnswers, UncreatedIsUnknown, Decisions
  <1>5. \A d \in Ids \ S : QuestionOf(d)' = QuestionOf(d)
    BY <1>1, <1>2 DEF QuestionOf
  <1>6. Q' = [d \in Ids |-> IF d \in S THEN "lapsed" ELSE Q[d]]
    BY <1>4, <1>5
  <1>7. Abs!Lapse(S)
    BY <1>1, <1>3, <1>6 DEF Abs!Lapse
  <1> QED BY <1>7 DEF Abs!AbsNext

\* Approver, relay, network and human together implement the one-shot approval
\* promised to the broker, for every number of calls and every time limit.
THEOREM ApprovalRefinement == Spec => ImplementsOneShot
  <1>1. ApprovalInv /\ [Next]_vars => [Abs!AbsNext]_(Abs!absVars)
    BY CallRefines, RelayRefines, EnvironmentRefines DEF Next
  <1> QED BY RefinementInit, ApprovalInvariant, <1>1, PTL DEF Spec, ImplementsOneShot, Abs!AbsSpec
===========================================================================
