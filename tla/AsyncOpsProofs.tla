--------------------------- MODULE AsyncOpsProofs ---------------------------
(***************************************************************************)
(* Proofs about AsyncOps, for any features, operations, routes, executor   *)
(* size and scheduler.                                                     *)
(***************************************************************************)
EXTENDS AsyncOps, TLAPS

USE DEF Cancelled, Winners, InCall, CallState, OnWorker, WorkState, OnJs,
        TaskState, InClose, Promise, Suspend, Open, OpCancelled

(* Next, one action per disjunct, so that an invariance proof has a case   *)
(* for each.                                                               *)
LEMMA NextCases ==
  ASSUME Next
  PROVE  \/ \E o \in Ops : \/ Accept(o) \/ Register(o) \/ SetDiscardHook(o)
                           \/ Submit(o) \/ SetWork(o) \/ Exhausted(o)
                           \/ DeliverExhausted(o) \/ WorkerPop(o)
                           \/ WorkerStart(o) \/ WorkerFinish(o)
                           \/ WorkerLaunch(o) \/ WorkerLaunchFails(o)
                           \/ SetJobHook(o)
                           \/ NativeComplete(o) \/ JsStartComplete(o)
                           \/ JsStartReject(o) \/ JsClaim(o) \/ JsSettle(o)
                           \/ CloseTake(o) \/ CloseClaim(o) \/ CloseCancel(o)
                           \/ CloseReject(o)
         \/ \E f \in Features : CloseFeature(f) \/ CloseDetach(f)
                                \/ CloseFinish(f) \/ CleanupFeature(f)
         \/ Invalidate \/ CleanupBegin \/ CleanupEnd
BY Zenon DEF Next, Calling, Working, OnJsThread, Closing, Cleaning

(* Every variable keeps its type: Spec => []TypeOK.                        *)
THEOREM TypeCorrect == Spec => []TypeOK
<1>1. Init => TypeOK
  BY DEF Init, TypeOK
<1>2. TypeOK /\ [Next]_vars => TypeOK'
  <2> SUFFICES ASSUME TypeOK, [Next]_vars PROVE TypeOK'
    OBVIOUS
  <2> USE AsyncAssumption DEF TypeOK, runtimeVars, featureVars, claimVars,
            jvmVars, taskVars
  <2>1. ASSUME NEW o \in Ops, Accept(o) PROVE TypeOK'
    BY <2>1 DEF Accept
  <2>2. ASSUME NEW o \in Ops, Register(o) PROVE TypeOK'
    BY <2>2 DEF Register
  <2>3. ASSUME NEW o \in Ops, SetDiscardHook(o) PROVE TypeOK'
    BY <2>3 DEF SetDiscardHook, SetCancelHook, RunHook
  <2>4. ASSUME NEW o \in Ops, Submit(o) PROVE TypeOK'
    BY <2>4 DEF Submit
  <2>5. ASSUME NEW o \in Ops, SetWork(o) PROVE TypeOK'
    BY <2>5 DEF SetWork, CancelWork
  <2>6. ASSUME NEW o \in Ops, Exhausted(o) PROVE TypeOK'
    BY SMTT(60), <2>6 DEF Exhausted, CompleteJvmAsync, Deliver, ScheduleCompletion, Schedule, ClaimInternal, ClaimCompleting
  <2>7. ASSUME NEW o \in Ops, DeliverExhausted(o) PROVE TypeOK'
    BY <2>7 DEF DeliverExhausted, ClaimInternal, ClaimCompleting
  <2>8. ASSUME NEW o \in Ops, WorkerPop(o) PROVE TypeOK'
    BY <2>8 DEF WorkerPop
  <2>9. ASSUME NEW o \in Ops, WorkerStart(o) PROVE TypeOK'
    BY <2>9 DEF WorkerStart
  <2>10. ASSUME NEW o \in Ops, WorkerFinish(o) PROVE TypeOK'
    BY <2>10 DEF WorkerFinish, Deliver, ScheduleCompletion, Schedule, ClaimInternal, ClaimCompleting
  <2>11. ASSUME NEW o \in Ops, WorkerLaunch(o) PROVE TypeOK'
    BY <2>11 DEF WorkerLaunch
  <2>12. ASSUME NEW o \in Ops, WorkerLaunchFails(o) PROVE TypeOK'
    BY SMTT(60), <2>12 DEF WorkerLaunchFails, CompleteJvmAsync, Deliver, ScheduleCompletion, Schedule, ClaimInternal, ClaimCompleting
  <2>13. ASSUME NEW o \in Ops, SetJobHook(o) PROVE TypeOK'
    BY <2>13 DEF SetJobHook, SetCancelHook, RunHook
  <2>14. ASSUME NEW o \in Ops, NativeComplete(o) PROVE TypeOK'
    BY <2>14 DEF NativeComplete, CompleteJvmAsync, Deliver, ScheduleCompletion, Schedule, ClaimInternal, ClaimCompleting
  <2>15. ASSUME NEW o \in Ops, JsStartComplete(o) PROVE TypeOK'
    BY <2>15 DEF JsStartComplete
  <2>16. ASSUME NEW o \in Ops, JsStartReject(o) PROVE TypeOK'
    BY <2>16 DEF JsStartReject
  <2>17. ASSUME NEW o \in Ops, JsClaim(o) PROVE TypeOK'
    BY <2>17 DEF JsClaim, ClaimCompleting
  <2>18. ASSUME NEW o \in Ops, JsSettle(o) PROVE TypeOK'
    BY <2>18 DEF JsSettle
  <2>19. ASSUME NEW o \in Ops, CloseTake(o) PROVE TypeOK'
    BY <2>19 DEF CloseTake
  <2>20. ASSUME NEW o \in Ops, CloseClaim(o) PROVE TypeOK'
    BY <2>20 DEF CloseClaim
  <2>21. ASSUME NEW o \in Ops, CloseCancel(o) PROVE TypeOK'
    BY <2>21 DEF CloseCancel, CancelWork, RunHook
  <2>22. ASSUME NEW o \in Ops, CloseReject(o) PROVE TypeOK'
    BY <2>22 DEF CloseReject, Schedule
  <2>23. ASSUME NEW f \in Features, CloseFeature(f) PROVE TypeOK'
    BY <2>23 DEF CloseFeature
  <2>24. ASSUME NEW f \in Features, CloseDetach(f) PROVE TypeOK'
    BY <2>24 DEF CloseDetach
  <2>25. ASSUME NEW f \in Features, CloseFinish(f) PROVE TypeOK'
    BY <2>25 DEF CloseFinish
  <2>26. ASSUME NEW f \in Features, CleanupFeature(f) PROVE TypeOK'
    BY <2>26 DEF CleanupFeature
  <2>27. CASE Invalidate
    BY <2>27 DEF Invalidate
  <2>28. CASE CleanupBegin
    BY <2>28 DEF CleanupBegin
  <2>29. CASE CleanupEnd
    BY <2>29 DEF CleanupEnd
  <2>30. CASE UNCHANGED vars
    BY <2>30 DEF vars
  <2>31. QED
    BY <2>1, <2>2, <2>3, <2>4, <2>5, <2>6, <2>7, <2>8, <2>9, <2>10, <2>11, <2>12, <2>13, <2>14, <2>15, <2>16, <2>17, <2>18, <2>19, <2>20, <2>21, <2>22, <2>23, <2>24, <2>25, <2>26, <2>27, <2>28, <2>29, <2>30, NextCases
<1>3. QED
  BY <1>1, <1>2, PTL DEF Spec

-----------------------------------------------------------------------------
(***************************************************************************)
(* The settlement invariant is inductive relative to the types: whatever   *)
(* the threads interleave, an operation is decided by one exchange, its    *)
(* tasks belong to that decision, and a settling task has a continuation.  *)
(***************************************************************************)
LEMMA SettlementInit == Init => SettlementInv
BY AsyncAssumption DEF Init, SettlementInv, CallInv, DecisionInv, TaskInv,
  FeatureInv, Registered, ContinuationAvailable, OutcomeMatchesWinner

(* Every step of every thread keeps the settlement invariant.            *)
LEMMA SettlementStep ==
  ASSUME TypeOK, SettlementInv, [Next]_vars
  PROVE  SettlementInv'
  <2> USE AsyncAssumption DEF TypeOK, runtimeVars, featureVars, claimVars,
            jvmVars, taskVars, SettlementInv, CallInv, DecisionInv, TaskInv,
            FeatureInv, Registered, ContinuationAvailable, OutcomeMatchesWinner
  <2>1. ASSUME NEW o \in Ops, Accept(o) PROVE SettlementInv'
    BY <2>1 DEF Accept
  <2>2. ASSUME NEW o \in Ops, Register(o) PROVE SettlementInv'
    BY <2>2 DEF Register
  <2>3. ASSUME NEW o \in Ops, SetDiscardHook(o) PROVE SettlementInv'
    BY <2>3 DEF SetDiscardHook, SetCancelHook, RunHook
  <2>4. ASSUME NEW o \in Ops, Submit(o) PROVE SettlementInv'
    BY <2>4 DEF Submit
  <2>5. ASSUME NEW o \in Ops, SetWork(o) PROVE SettlementInv'
    BY <2>5 DEF SetWork, CancelWork
  <2>6. ASSUME NEW o \in Ops, Exhausted(o) PROVE SettlementInv'
    BY <2>6 DEF Exhausted, CompleteJvmAsync, Deliver, ScheduleCompletion, Schedule, ClaimInternal, ClaimCompleting
  <2>7. ASSUME NEW o \in Ops, DeliverExhausted(o) PROVE SettlementInv'
    BY <2>7 DEF DeliverExhausted, ClaimInternal, ClaimCompleting
  <2>8. ASSUME NEW o \in Ops, WorkerPop(o) PROVE SettlementInv'
    BY <2>8 DEF WorkerPop
  <2>9. ASSUME NEW o \in Ops, WorkerStart(o) PROVE SettlementInv'
    BY <2>9 DEF WorkerStart
  <2>10. ASSUME NEW o \in Ops, WorkerFinish(o) PROVE SettlementInv'
    BY <2>10 DEF WorkerFinish, Deliver, ScheduleCompletion, Schedule, ClaimInternal, ClaimCompleting
  <2>11. ASSUME NEW o \in Ops, WorkerLaunch(o) PROVE SettlementInv'
    BY <2>11 DEF WorkerLaunch
  <2>12. ASSUME NEW o \in Ops, WorkerLaunchFails(o) PROVE SettlementInv'
    BY <2>12 DEF WorkerLaunchFails, CompleteJvmAsync, Deliver, ScheduleCompletion, Schedule, ClaimInternal, ClaimCompleting
  <2>13. ASSUME NEW o \in Ops, SetJobHook(o) PROVE SettlementInv'
    BY <2>13 DEF SetJobHook, SetCancelHook, RunHook
  <2>14. ASSUME NEW o \in Ops, NativeComplete(o) PROVE SettlementInv'
    BY <2>14 DEF NativeComplete, CompleteJvmAsync, Deliver, ScheduleCompletion, Schedule, ClaimInternal, ClaimCompleting
  <2>15. ASSUME NEW o \in Ops, JsStartComplete(o) PROVE SettlementInv'
    BY <2>15 DEF JsStartComplete
  <2>16. ASSUME NEW o \in Ops, JsStartReject(o) PROVE SettlementInv'
    BY <2>16 DEF JsStartReject, JsIdle
  <2>17. ASSUME NEW o \in Ops, JsClaim(o) PROVE SettlementInv'
    BY <2>17 DEF JsClaim, ClaimCompleting
  <2>18. ASSUME NEW o \in Ops, JsSettle(o) PROVE SettlementInv'
    BY <2>18 DEF JsSettle
  <2>19. ASSUME NEW o \in Ops, CloseTake(o) PROVE SettlementInv'
    BY <2>19 DEF CloseTake, Looping
  <2>20. ASSUME NEW o \in Ops, CloseClaim(o) PROVE SettlementInv'
    BY <2>20 DEF CloseClaim
  <2>21. ASSUME NEW o \in Ops, CloseCancel(o) PROVE SettlementInv'
    BY <2>21 DEF CloseCancel, CancelWork, RunHook
  <2>22. ASSUME NEW o \in Ops, CloseReject(o) PROVE SettlementInv'
    BY <2>22 DEF CloseReject, Schedule
  <2>23. ASSUME NEW f \in Features, CloseFeature(f) PROVE SettlementInv'
    BY <2>23 DEF CloseFeature
  <2>24. ASSUME NEW f \in Features, CloseDetach(f) PROVE SettlementInv'
    BY <2>24 DEF CloseDetach
  <2>25. ASSUME NEW f \in Features, CloseFinish(f) PROVE SettlementInv'
    BY <2>25 DEF CloseFinish, Looping
  <2>26. ASSUME NEW f \in Features, CleanupFeature(f) PROVE SettlementInv'
    BY <2>26 DEF CleanupFeature
  <2>27. CASE Invalidate
    BY <2>27 DEF Invalidate
  <2>28. CASE CleanupBegin
    BY <2>28 DEF CleanupBegin
  <2>29. CASE CleanupEnd
    BY <2>29 DEF CleanupEnd
  <2>30. CASE UNCHANGED vars
    BY <2>30 DEF vars
  <2>31. QED
    BY <2>1, <2>2, <2>3, <2>4, <2>5, <2>6, <2>7, <2>8, <2>9, <2>10, <2>11, <2>12, <2>13, <2>14, <2>15, <2>16, <2>17, <2>18, <2>19, <2>20, <2>21, <2>22, <2>23, <2>24, <2>25, <2>26, <2>27, <2>28, <2>29, <2>30, NextCases

(* Spec => []SettlementInv.                                                *)
THEOREM Settlement == Spec => []SettlementInv
<1>1. TypeOK /\ SettlementInv /\ [Next]_vars => SettlementInv'
  BY SettlementStep
<1>2. QED
  BY <1>1, SettlementInit, TypeCorrect, PTL DEF Spec

-----------------------------------------------------------------------------
(* The cancellation invariant is inductive relative to the settlement one. *)
LEMMA CancellationInit == Init => CancellationInv
BY AsyncAssumption DEF Init, CancellationInv, CancelInv

(* Every step of every thread keeps the cancellation invariant.          *)
LEMMA CancellationStep ==
  ASSUME TypeOK, SettlementInv, CancellationInv, [Next]_vars
  PROVE  CancellationInv'
  <2> USE AsyncAssumption DEF TypeOK, runtimeVars, featureVars, claimVars,
            jvmVars, taskVars, SettlementInv, CallInv, DecisionInv, TaskInv,
            Registered, CancellationInv, CancelInv
  <2>1. ASSUME NEW o \in Ops, Accept(o) PROVE CancellationInv'
    BY <2>1 DEF Accept
  <2>2. ASSUME NEW o \in Ops, Register(o) PROVE CancellationInv'
    BY <2>2 DEF Register
  <2>3. ASSUME NEW o \in Ops, SetDiscardHook(o) PROVE CancellationInv'
    BY <2>3 DEF SetDiscardHook, SetCancelHook, RunHook
  <2>4. ASSUME NEW o \in Ops, Submit(o) PROVE CancellationInv'
    BY <2>4 DEF Submit
  <2>5. ASSUME NEW o \in Ops, SetWork(o) PROVE CancellationInv'
    BY <2>5 DEF SetWork, CancelWork
  <2>6. ASSUME NEW o \in Ops, Exhausted(o) PROVE CancellationInv'
    BY <2>6 DEF Exhausted, CompleteJvmAsync, Deliver, ScheduleCompletion, Schedule, ClaimInternal, ClaimCompleting
  <2>7. ASSUME NEW o \in Ops, DeliverExhausted(o) PROVE CancellationInv'
    BY <2>7 DEF DeliverExhausted, ClaimInternal, ClaimCompleting
  <2>8. ASSUME NEW o \in Ops, WorkerPop(o) PROVE CancellationInv'
    BY <2>8 DEF WorkerPop
  <2>9. ASSUME NEW o \in Ops, WorkerStart(o) PROVE CancellationInv'
    BY <2>9 DEF WorkerStart
  <2>10. ASSUME NEW o \in Ops, WorkerFinish(o) PROVE CancellationInv'
    BY <2>10 DEF WorkerFinish, Deliver, ScheduleCompletion, Schedule, ClaimInternal, ClaimCompleting
  <2>11. ASSUME NEW o \in Ops, WorkerLaunch(o) PROVE CancellationInv'
    BY <2>11 DEF WorkerLaunch
  <2>12. ASSUME NEW o \in Ops, WorkerLaunchFails(o) PROVE CancellationInv'
    BY <2>12 DEF WorkerLaunchFails, CompleteJvmAsync, Deliver, ScheduleCompletion, Schedule, ClaimInternal, ClaimCompleting
  <2>13. ASSUME NEW o \in Ops, SetJobHook(o) PROVE CancellationInv'
    BY <2>13 DEF SetJobHook, SetCancelHook, RunHook
  <2>14. ASSUME NEW o \in Ops, NativeComplete(o) PROVE CancellationInv'
    BY <2>14 DEF NativeComplete, CompleteJvmAsync, Deliver, ScheduleCompletion, Schedule, ClaimInternal, ClaimCompleting
  <2>15. ASSUME NEW o \in Ops, JsStartComplete(o) PROVE CancellationInv'
    BY <2>15 DEF JsStartComplete
  <2>16. ASSUME NEW o \in Ops, JsStartReject(o) PROVE CancellationInv'
    BY <2>16 DEF JsStartReject
  <2>17. ASSUME NEW o \in Ops, JsClaim(o) PROVE CancellationInv'
    BY <2>17 DEF JsClaim, ClaimCompleting
  <2>18. ASSUME NEW o \in Ops, JsSettle(o) PROVE CancellationInv'
    BY <2>18 DEF JsSettle
  <2>19. ASSUME NEW o \in Ops, CloseTake(o) PROVE CancellationInv'
    BY <2>19 DEF CloseTake
  <2>20. ASSUME NEW o \in Ops, CloseClaim(o) PROVE CancellationInv'
    BY <2>20 DEF CloseClaim
  <2>21. ASSUME NEW o \in Ops, CloseCancel(o) PROVE CancellationInv'
    BY <2>21 DEF CloseCancel, CancelWork, RunHook
  <2>22. ASSUME NEW o \in Ops, CloseReject(o) PROVE CancellationInv'
    BY <2>22 DEF CloseReject, Schedule
  <2>23. ASSUME NEW f \in Features, CloseFeature(f) PROVE CancellationInv'
    BY <2>23 DEF CloseFeature
  <2>24. ASSUME NEW f \in Features, CloseDetach(f) PROVE CancellationInv'
    BY <2>24 DEF CloseDetach
  <2>25. ASSUME NEW f \in Features, CloseFinish(f) PROVE CancellationInv'
    BY <2>25 DEF CloseFinish
  <2>26. ASSUME NEW f \in Features, CleanupFeature(f) PROVE CancellationInv'
    BY <2>26 DEF CleanupFeature
  <2>27. CASE Invalidate
    BY <2>27 DEF Invalidate
  <2>28. CASE CleanupBegin
    BY <2>28 DEF CleanupBegin
  <2>29. CASE CleanupEnd
    BY <2>29 DEF CleanupEnd
  <2>30. CASE UNCHANGED vars
    BY <2>30 DEF vars
  <2>31. QED
    BY <2>1, <2>2, <2>3, <2>4, <2>5, <2>6, <2>7, <2>8, <2>9, <2>10, <2>11, <2>12, <2>13, <2>14, <2>15, <2>16, <2>17, <2>18, <2>19, <2>20, <2>21, <2>22, <2>23, <2>24, <2>25, <2>26, <2>27, <2>28, <2>29, <2>30, NextCases

(* Spec => []CancellationInv.                                              *)
THEOREM Cancellation == Spec => []CancellationInv
<1>1. TypeOK /\ SettlementInv /\ CancellationInv /\ [Next]_vars
        => CancellationInv'
  BY CancellationStep
<1>2. QED
  BY <1>1, CancellationInit, Settlement, TypeCorrect, PTL DEF Spec

-----------------------------------------------------------------------------
(* The properties of AsyncOps that follow.                                 *)

(* A settling JS task always finds its continuation in the map.            *)
THEOREM SettleOnce == Spec => []ContinuationAvailable
<1>1. SettlementInv => ContinuationAvailable
  BY DEF SettlementInv
<1>2. QED
  BY <1>1, Settlement, PTL

(* What callers saw agrees with the winner of the exchange.                *)
THEOREM OutcomeAgrees == Spec => []OutcomeMatchesWinner
<1>1. SettlementInv => OutcomeMatchesWinner
  BY DEF SettlementInv
<1>2. QED
  BY <1>1, Settlement, PTL

(* An INACTIVE feature has no undecided operation.                         *)
THEOREM CloseDecidesAll == Spec => []NoOperationSurvivesClose
<1>1. TypeOK /\ SettlementInv => NoOperationSurvivesClose
  BY DEF SettlementInv, DecisionInv, NoOperationSurvivesClose
<1>2. QED
  BY <1>1, Settlement, TypeCorrect, PTL

(* A cancelled operation keeps no queued work, no registered completion    *)
(* and no coroutine that was not told to stop.                             *)
THEOREM CancelReleases == Spec => []CancelledWorkReleased
<1>1. CancellationInv => CancelledWorkReleased
  BY DEF CancellationInv, CancelInv, CancelledWorkReleased
<1>2. QED
  BY <1>1, Cancellation, PTL

(* A completing operation is untouched by the teardown that lost.          *)
THEOREM WinnerUndisturbed == Spec => []CompletingNeverCancelled
<1>1. CancellationInv => CompletingNeverCancelled
  BY DEF CancellationInv, CancelInv, CompletingNeverCancelled
<1>2. QED
  BY <1>1, Cancellation, PTL

-----------------------------------------------------------------------------
(***************************************************************************)
(* Every behaviour of the threads is a behaviour of OperationContract.     *)
(***************************************************************************)
LEMMA MeaningOf ==
  /\ Meaning("NONE") = "absent"
  /\ Meaning("PENDING") = "undecided"
  /\ Meaning("COMPLETING") = "completed"
  /\ Meaning("CANCELLED_BY_FEATURE") = "featureClosed"
  /\ Meaning("CANCELLED_BY_RUNTIME") = "runtimeGone"
BY DEF Meaning

(* A fresh runtime is a fresh contract: all features open, nothing begun. *)
LEMMA ContractInit == Init => Contract!CInit
<1> SUFFICES ASSUME Init PROVE Contract!CInit
  OBVIOUS
<1>1. {f \in Features : fstate[f] = "ACTIVE"} = Features
  BY DEF Init
<1>2. [o \in Ops |-> Meaning(winner[o])] = [o \in Ops |-> "absent"]
  BY MeaningOf DEF Init
<1>3. [o \in Ops |-> Seen(o)] = [o \in Ops |-> FALSE]
  <2>1. \A o \in Ops : Seen(o) = FALSE
    BY DEF Init, Seen
  <2>2. QED
    BY <2>1, Zenon
<1>4. QED
  BY <1>1, <1>2, <1>3 DEF Contract!CInit, Init

(* The five variables the contract sees.                                   *)
LEMMA Invisible ==
  ASSUME UNCHANGED <<active, fstate, winner, continuation, callback>>
  PROVE  UNCHANGED Contract!cvars
BY DEF Contract!cvars, Seen

(* An accepted call begins an operation of the contract.                 *)
LEMMA BeginStep ==
  ASSUME TypeOK, NEW o \in Ops, active, Open(o), winner[o] = "NONE",
         winner' = [winner EXCEPT ![o] = "PENDING"],
         callback[o] # "delivered",
         callback' \in [Ops -> {"none", "held", "delivered", "released"}],
         callback'[o] # "delivered",
         \A p \in Ops \ {o} : callback'[p] = callback[p],
         UNCHANGED <<active, fstate, continuation>>
  PROVE  Contract!CNext
<1>1. Contract!Begin(o)
  <2>1. \A p \in Ops : Seen(p)' = Seen(p)
    BY DEF TypeOK, Seen
  <2>2. [p \in Ops |-> Seen(p)]' = [p \in Ops |-> Seen(p)]
    BY <2>1
  <2>3. [p \in Ops |-> Meaning(winner[p])]'
          = [[p \in Ops |-> Meaning(winner[p])] EXCEPT ![o] = "undecided"]
    BY MeaningOf DEF TypeOK
  <2>4. [p \in Ops |-> Meaning(winner[p])][o] = "absent"
    BY MeaningOf
  <2>5. FeatureOf[o] \in {f \in Features : fstate[f] = "ACTIVE"}
    BY AsyncAssumption
  <2>6. QED
    BY <2>2, <2>3, <2>4, <2>5 DEF Contract!Begin
<1>2. QED
  BY <1>1 DEF Contract!CNext

(* The exchange of winner_ decides an operation of the contract.         *)
LEMMA DecideStep ==
  ASSUME TypeOK, NEW o \in Ops, NEW w \in Winners \ {"NONE", "PENDING"},
         winner[o] = "PENDING",
         w = "COMPLETING" => Open(o),
         w # "COMPLETING" => ~Open(o),
         w = "CANCELLED_BY_RUNTIME" => ~active,
         winner' = [winner EXCEPT ![o] = w],
         \A p \in Ops : Seen(p)' = Seen(p),
         UNCHANGED <<active, fstate>>
  PROVE  Contract!CNext
<1>1. Contract!Decide(o, Meaning(w))
  <2>1. [p \in Ops |-> Seen(p)]' = [p \in Ops |-> Seen(p)]
    OBVIOUS
  <2>2. [p \in Ops |-> Meaning(winner[p])]'
          = [[p \in Ops |-> Meaning(winner[p])] EXCEPT ![o] = Meaning(w)]
    BY DEF TypeOK
  <2>3. [p \in Ops |-> Meaning(winner[p])][o] = "undecided"
    BY MeaningOf
  <2>4. FeatureOf[o] \in {f \in Features : fstate[f] = "ACTIVE"} <=> Open(o)
    BY AsyncAssumption
  <2>5. /\ w = "COMPLETING" <=> Meaning(w) = "completed"
        /\ w = "CANCELLED_BY_RUNTIME" <=> Meaning(w) = "runtimeGone"
    BY MeaningOf
  <2>6. QED
    BY <2>1, <2>2, <2>3, <2>4, <2>5 DEF Contract!Decide
<1>2. Meaning(w) \in Contract!Decisions
  BY MeaningOf DEF Contract!Decisions
<1>3. QED
  BY <1>1, <1>2 DEF Contract!CNext

(* A settled promise or a delivered callback shows its outcome.          *)
LEMMA ShowStep ==
  ASSUME TypeOK, NEW o \in Ops,
         winner[o] \in {"COMPLETING", "CANCELLED_BY_FEATURE"},
         Seen(o) = FALSE, Seen(o)' = TRUE,
         \A p \in Ops \ {o} : Seen(p)' = Seen(p),
         UNCHANGED <<active, fstate, winner>>
  PROVE  Contract!CNext
<1>1. Contract!Show(o)
  <2>1. [p \in Ops |-> Seen(p)]' = [[p \in Ops |-> Seen(p)] EXCEPT ![o] = TRUE]
    OBVIOUS
  <2>2. QED
    BY MeaningOf, <2>1 DEF Contract!Show
<1>2. QED
  BY <1>1 DEF Contract!CNext

(* A callback claimed and delivered at once decides and shows.           *)
LEMMA DecideAndShowStep ==
  ASSUME TypeOK, NEW o \in Ops, winner[o] = "PENDING", Open(o),
         winner' = [winner EXCEPT ![o] = "COMPLETING"],
         Seen(o)' = TRUE,
         \A p \in Ops \ {o} : Seen(p)' = Seen(p),
         UNCHANGED <<active, fstate>>
  PROVE  Contract!CNext
<1>1. Contract!DecideAndShow(o)
  <2>1. [p \in Ops |-> Seen(p)]' = [[p \in Ops |-> Seen(p)] EXCEPT ![o] = TRUE]
    OBVIOUS
  <2>2. [p \in Ops |-> Meaning(winner[p])]'
          = [[p \in Ops |-> Meaning(winner[p])] EXCEPT ![o] = "completed"]
    BY MeaningOf DEF TypeOK
  <2>3. [p \in Ops |-> Meaning(winner[p])][o] = "undecided"
    BY MeaningOf
  <2>4. FeatureOf[o] \in {f \in Features : fstate[f] = "ACTIVE"}
    BY AsyncAssumption
  <2>5. QED
    BY <2>1, <2>2, <2>3, <2>4 DEF Contract!DecideAndShow
<1>2. QED
  BY <1>1 DEF Contract!CNext

(* A feature that leaves ACTIVE closes in the contract.                  *)
LEMMA CloseStep ==
  ASSUME TypeOK, NEW f \in Features, NEW s \in {"CLOSING", "INACTIVE"},
         fstate' = [fstate EXCEPT ![f] = s],
         UNCHANGED <<active, winner, continuation, callback>>
  PROVE  Contract!CNext
<1>1. Contract!Close(f)
  BY DEF Contract!Close, TypeOK, Seen
<1>2. QED
  BY <1>1 DEF Contract!CNext

(* A claim by the internal route is a decision, shown unless the callback  *)
(* is dropped.                                                             *)
LEMMA InternalStep ==
  ASSUME TypeOK, SettlementInv, NEW o \in Ops,
         NEW fate \in {"delivered", "released"},
         ClaimInternal(o, fate), UNCHANGED <<active, fstate, continuation>>
  PROVE  Contract!CNext \/ UNCHANGED Contract!cvars
<1>1. CASE ~(Open(o) /\ winner[o] = "PENDING")
  BY <1>1, Invisible DEF ClaimInternal, claimVars
<1>2. CASE Open(o) /\ winner[o] = "PENDING"
  <2> USE DEF ClaimInternal, ClaimCompleting, TypeOK
  <2>0. Seen(o) = FALSE
    BY <1>2 DEF SettlementInv, OutcomeMatchesWinner, Seen
  <2>1. \A p \in Ops \ {o} : Seen(p)' = Seen(p)
    BY <1>2 DEF Seen
  <2>2. CASE fate = "delivered"
    <3>1. Seen(o)' = TRUE
      BY <1>2, <2>2 DEF Seen
    <3>2. winner' = [winner EXCEPT ![o] = "COMPLETING"]
      BY <1>2
    <3>3. QED
      BY <1>2, <2>1, <3>1, <3>2, DecideAndShowStep DEF ClaimCompleting
  <2>3. CASE fate = "released"
    <3>1. Seen(o)' = FALSE
      BY <1>2, <2>0, <2>3 DEF Seen
    <3>2. winner' = [winner EXCEPT ![o] = "COMPLETING"]
      BY <1>2
    <3>3. \A p \in Ops : Seen(p)' = Seen(p)
      BY <2>0, <2>1, <3>1
    <3>4. QED
      BY <1>2, <3>2, <3>3, DecideStep
  <2>4. QED
    BY <2>2, <2>3
<1>3. QED
  BY <1>1, <1>2

(* Delivering a callback is a step of the contract or invisible to it.   *)
LEMMA DeliverStep ==
  ASSUME TypeOK, SettlementInv, NEW o \in Ops,
         Deliver(o), UNCHANGED <<active, fstate, continuation>>
  PROVE  Contract!CNext \/ UNCHANGED Contract!cvars
<1>1. CASE Promise(o)
  BY <1>1, Invisible DEF Deliver, claimVars
<1>2. CASE ~Promise(o)
  BY <1>2, InternalStep DEF Deliver
<1>3. QED
  BY <1>1, <1>2

(* So is the completion of a suspend callback.                           *)
LEMMA CompleteJvmStep ==
  ASSUME TypeOK, SettlementInv, NEW o \in Ops,
         CompleteJvmAsync(o), UNCHANGED <<active, fstate, continuation>>
  PROVE  Contract!CNext \/ UNCHANGED Contract!cvars
<1>1. Deliver(o) \/ UNCHANGED <<claimVars, callback>>
  BY DEF CompleteJvmAsync
<1>2. QED
  BY <1>1, DeliverStep, Invisible DEF claimVars

(* Every step of every thread is a step of the contract or invisible.    *)
LEMMA ContractStep ==
  ASSUME TypeOK, SettlementInv, [Next]_vars
  PROVE  [Contract!CNext]_(Contract!cvars)
  <2> USE AsyncAssumption DEF runtimeVars, featureVars, claimVars, jvmVars,
            taskVars
  <2>1. ASSUME NEW o \in Ops, Accept(o) PROVE [Contract!CNext]_(Contract!cvars)
    <3>1. CASE Open(o) /\ active
      <4>1. winner[o] = "NONE" /\ callback[o] # "delivered"
        BY <2>1 DEF Accept, SettlementInv, CallInv, OutcomeMatchesWinner
      <4>2. /\ callback'[o] # "delivered"
            /\ \A p \in Ops \ {o} : callback'[p] = callback[p]
            /\ callback' \in [Ops -> {"none", "held", "delivered", "released"}]
        BY <2>1, <3>1 DEF Accept, TypeOK
      <4>3. QED
        BY <2>1, <3>1, <4>1, <4>2, BeginStep DEF Accept
    <3>2. CASE ~(Open(o) /\ active)
      BY <2>1, <3>2, Invisible DEF Accept
    <3>3. QED
      BY <3>1, <3>2
  <2>2. ASSUME NEW o \in Ops, Register(o) PROVE [Contract!CNext]_(Contract!cvars)
    <3>1. UNCHANGED <<active, fstate, winner, callback>>
      BY <2>2 DEF Register
    <3>2. \A p \in Ops : continuation[p] = "taken" <=> continuation'[p] = "taken"
      BY <2>2 DEF Register, Registered, TypeOK, SettlementInv, CallInv
    <3>3. QED
      BY <3>1, <3>2 DEF Contract!cvars, Seen
  <2>3. ASSUME NEW o \in Ops, SetDiscardHook(o) PROVE [Contract!CNext]_(Contract!cvars)
    BY <2>3, Invisible DEF SetDiscardHook, SetCancelHook
  <2>4. ASSUME NEW o \in Ops, Submit(o) PROVE [Contract!CNext]_(Contract!cvars)
    BY <2>4, Invisible DEF Submit
  <2>5. ASSUME NEW o \in Ops, SetWork(o) PROVE [Contract!CNext]_(Contract!cvars)
    BY <2>5, Invisible DEF SetWork
  <2>6. ASSUME NEW o \in Ops, Exhausted(o) PROVE [Contract!CNext]_(Contract!cvars)
    <3>1. \/ CompleteJvmAsync(o) \/ ClaimInternal(o, "released")
          \/ UNCHANGED <<claimVars, callback>>
      BY <2>6 DEF Exhausted
    <3>2. QED
      BY <2>6, <3>1, CompleteJvmStep, InternalStep, Invisible DEF Exhausted
  <2>7. ASSUME NEW o \in Ops, DeliverExhausted(o) PROVE [Contract!CNext]_(Contract!cvars)
    BY <2>7, InternalStep DEF DeliverExhausted
  <2>8. ASSUME NEW o \in Ops, WorkerPop(o) PROVE [Contract!CNext]_(Contract!cvars)
    BY <2>8, Invisible DEF WorkerPop
  <2>9. ASSUME NEW o \in Ops, WorkerStart(o) PROVE [Contract!CNext]_(Contract!cvars)
    BY <2>9, Invisible DEF WorkerStart
  <2>10. ASSUME NEW o \in Ops, WorkerFinish(o) PROVE [Contract!CNext]_(Contract!cvars)
    <3>1. Deliver(o) \/ UNCHANGED <<claimVars, callback>>
      BY <2>10 DEF WorkerFinish
    <3>2. QED
      BY <2>10, <3>1, DeliverStep, Invisible DEF WorkerFinish
  <2>11. ASSUME NEW o \in Ops, WorkerLaunch(o) PROVE [Contract!CNext]_(Contract!cvars)
    BY <2>11, Invisible DEF WorkerLaunch
  <2>12. ASSUME NEW o \in Ops, WorkerLaunchFails(o) PROVE [Contract!CNext]_(Contract!cvars)
    BY <2>12, CompleteJvmStep DEF WorkerLaunchFails
  <2>13. ASSUME NEW o \in Ops, SetJobHook(o) PROVE [Contract!CNext]_(Contract!cvars)
    BY <2>13, Invisible DEF SetJobHook, SetCancelHook
  <2>14. ASSUME NEW o \in Ops, NativeComplete(o) PROVE [Contract!CNext]_(Contract!cvars)
    BY <2>14, CompleteJvmStep DEF NativeComplete
  <2>15. ASSUME NEW o \in Ops, JsStartComplete(o) PROVE [Contract!CNext]_(Contract!cvars)
    BY <2>15, Invisible DEF JsStartComplete
  <2>16. ASSUME NEW o \in Ops, JsStartReject(o) PROVE [Contract!CNext]_(Contract!cvars)
    BY <2>16, Invisible DEF JsStartReject
  <2>17. ASSUME NEW o \in Ops, JsClaim(o) PROVE [Contract!CNext]_(Contract!cvars)
    <3>0. \A p \in Ops : Seen(p)' = Seen(p)
      BY <2>17 DEF JsClaim, Seen
    <3>1. CASE Open(o) /\ winner[o] = "PENDING"
      BY <2>17, <3>0, <3>1, DecideStep DEF JsClaim, ClaimCompleting
    <3>2. CASE ~(Open(o) /\ winner[o] = "PENDING")
      BY <2>17, <3>2, Invisible DEF JsClaim
    <3>3. QED
      BY <3>1, <3>2
  <2>18. ASSUME NEW o \in Ops, JsSettle(o) PROVE [Contract!CNext]_(Contract!cvars)
    <3>1. winner[o] \in {"COMPLETING", "CANCELLED_BY_FEATURE"}
      BY <2>18 DEF JsSettle, SettlementInv, TaskInv
    <3>2. Seen(o) = FALSE
      BY <2>18 DEF JsSettle, SettlementInv, TaskInv, CallInv, Seen,
        ContinuationAvailable
    <3>3. Seen(o)' = TRUE
      BY <2>18 DEF JsSettle, Seen, TypeOK
    <3>4. \A p \in Ops \ {o} : Seen(p)' = Seen(p)
      BY <2>18 DEF JsSettle, Seen, TypeOK
    <3>5. QED
      BY <2>18, <3>1, <3>2, <3>3, <3>4, ShowStep DEF JsSettle
  <2>19. ASSUME NEW o \in Ops, CloseTake(o) PROVE [Contract!CNext]_(Contract!cvars)
    BY <2>19, Invisible DEF CloseTake
  <2>20. ASSUME NEW o \in Ops, CloseClaim(o) PROVE [Contract!CNext]_(Contract!cvars)
    <3>1. CASE winner[o] = "PENDING"
      <4>1. \A p \in Ops : Seen(p)' = Seen(p)
        BY <2>20 DEF CloseClaim, Seen
      <4>2. ~Open(o)
        BY <2>20 DEF CloseClaim, SettlementInv, DecisionInv
      <4>3. closeBy[FeatureOf[o]] = "runtime" => ~active
        BY AsyncAssumption DEF SettlementInv, FeatureInv
      <4>4. QED
        BY <2>20, <3>1, <4>1, <4>2, <4>3, DecideStep DEF CloseClaim
    <3>2. CASE winner[o] # "PENDING"
      BY <2>20, <3>2, Invisible DEF CloseClaim
    <3>3. QED
      BY <3>1, <3>2
  <2>21. ASSUME NEW o \in Ops, CloseCancel(o) PROVE [Contract!CNext]_(Contract!cvars)
    BY <2>21, Invisible DEF CloseCancel
  <2>22. ASSUME NEW o \in Ops, CloseReject(o) PROVE [Contract!CNext]_(Contract!cvars)
    <3>1. \A p \in Ops : Seen(p)' = Seen(p)
      BY <2>22 DEF CloseReject, Seen, TypeOK
    <3>2. QED
      BY <2>22, <3>1 DEF CloseReject, Contract!cvars
  <2>23. ASSUME NEW f \in Features, CloseFeature(f) PROVE [Contract!CNext]_(Contract!cvars)
    BY <2>23, CloseStep, Invisible DEF CloseFeature
  <2>24. ASSUME NEW f \in Features, CloseDetach(f) PROVE [Contract!CNext]_(Contract!cvars)
    BY <2>24, Invisible DEF CloseDetach
  <2>25. ASSUME NEW f \in Features, CloseFinish(f) PROVE [Contract!CNext]_(Contract!cvars)
    BY <2>25, CloseStep, Invisible DEF CloseFinish
  <2>26. ASSUME NEW f \in Features, CleanupFeature(f) PROVE [Contract!CNext]_(Contract!cvars)
    BY <2>26, CloseStep, Invisible DEF CleanupFeature
  <2>27. CASE Invalidate
    <3>1. Contract!Die
      BY <2>27 DEF Invalidate, Contract!Die, Seen
    <3>2. QED
      BY <3>1 DEF Contract!CNext
  <2>28. CASE CleanupBegin
    BY <2>28, Invisible DEF CleanupBegin
  <2>29. CASE CleanupEnd
    BY <2>29, Invisible DEF CleanupEnd
  <2>30. CASE UNCHANGED vars
    BY <2>30, Invisible DEF vars
  <2>31. QED
    BY <2>1, <2>2, <2>3, <2>4, <2>5, <2>6, <2>7, <2>8, <2>9, <2>10, <2>11, <2>12, <2>13, <2>14, <2>15, <2>16, <2>17, <2>18, <2>19, <2>20, <2>21, <2>22, <2>23, <2>24, <2>25, <2>26, <2>27, <2>28, <2>29, <2>30, NextCases

(* The threads of the runtime implement OperationContract: an operation is
   decided once, while the contract allows it, and shown at most once. *)
THEOREM Refinement == Spec => ImplementsContract
<1>1. TypeOK /\ SettlementInv /\ [Next]_vars => [Contract!CNext]_(Contract!cvars)
  BY ContractStep
<1>2. QED
  BY <1>1, ContractInit, TypeCorrect, Settlement, PTL
    DEF Spec, ImplementsContract, Contract!CSpec
=============================================================================
