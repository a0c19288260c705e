------------------------------ MODULE AsyncOps ------------------------------
(***************************************************************************)
(* Asynchronous operations of one installed JavaScript runtime: the        *)
(* PendingOperation, FeatureSession and RuntimeSession classes of          *)
(* runtime_services.cpp, and the generated call sites that drive them.     *)
(*                                                                         *)
(* An operation is accepted on behalf of a feature, its implementation is  *)
(* run by the shared executor, and its outcome is decided by ONE atomic    *)
(* exchange of winner_: completion, feature teardown or runtime teardown.  *)
(* The JS thread, the workers, coroutine threads, a thread closing a       *)
(* feature, the invalidating thread and the cleanup worker interleave; a   *)
(* step here is a critical section (or an atomic access) of the code.      *)
(*                                                                         *)
(* Two independent choices distinguish the generated routes:               *)
(*   Delivery  "promise"  settled on the JS thread through a continuation  *)
(*             "callback" an internal C++ completion callback              *)
(*   Body      "blocking" the worker runs the implementation itself        *)
(*             "suspend"  the worker launches a Kotlin coroutine           *)
(*                                                                         *)
(* The executor's queue and the JS scheduler's queue are unordered here:   *)
(* JsScheduler is an arbitrary function that promises no order.            *)
(***************************************************************************)
EXTENDS Naturals, FiniteSets

CONSTANTS
  Features,          (* features of the installed runtime                   *)
  Ops,               (* async calls that may be made; bounds the model      *)
  FeatureOf,         (* the feature an operation belongs to                 *)
  Delivery,          (* "promise" or "callback", per operation              *)
  Body,              (* "blocking" or "suspend", per operation              *)
  WorkerCount,       (* threads of the executor                             *)
  Capacity,          (* queue slots of the executor                         *)
  SchedulerMayFail   (* may the JS scheduler throw (allocation failure)?    *)

ASSUME AsyncAssumption ==
  /\ FeatureOf \in [Ops -> Features]
  /\ Delivery \in [Ops -> {"promise", "callback"}]
  /\ Body \in [Ops -> {"blocking", "suspend"}]
  /\ WorkerCount \in Nat \ {0}
  /\ Capacity \in Nat \ {0}
  /\ SchedulerMayFail \in BOOLEAN

VARIABLES
  active,        (* RuntimeSession::active_                                 *)
  hasScheduler,  (* RuntimeSession::scheduler_ is set                       *)
  attached,      (* RuntimeSession::features_                               *)
  cleaner,       (* progress of cleanup_physical on the cleanup worker      *)
  fstate,        (* FeatureSession::state_                                  *)
  closeBy,       (* which close() the feature is in: feature or runtime     *)
  pending,       (* union of the FeatureSession::pending_ maps              *)
  winner,        (* PendingOperation::winner_, "NONE" before accept         *)
  token,         (* which cancellation tokens were requested                *)
  hook,          (* PendingOperation::cancel_hook_                          *)
  teardown,      (* how far close() got with the operation                  *)
  call,          (* progress of the call that starts the operation          *)
  work,          (* the executor's view of the operation's task             *)
  completion,    (* ProcessServices::jvm_async_completions_ entry           *)
  job,           (* the Kotlin coroutine of a suspend body                  *)
  callback,      (* PendingOperation::internal_completion_                  *)
  continuation,  (* the promise's entry in the JS continuation map          *)
  complete,      (* the JS task that delivers the result                    *)
  reject         (* the JS task that delivers FEATURE_CLOSED                *)

runtimeVars == <<active, hasScheduler, attached, cleaner>>
featureVars == <<fstate, closeBy>>
claimVars   == <<pending, winner, hook>>
jvmVars     == <<completion, job>>
taskVars    == <<complete, reject>>
vars == <<active, hasScheduler, attached, cleaner, fstate, closeBy, pending,
          winner, token, hook, teardown, call, work, completion, job,
          callback, continuation, complete, reject>>

-----------------------------------------------------------------------------
(* States *)

Cancelled == {"CANCELLED_BY_FEATURE", "CANCELLED_BY_RUNTIME"}
Winners   == {"NONE", "PENDING", "COMPLETING"} \cup Cancelled

InCall    == {"accepted", "registered", "hooked", "submitted", "exhausted"}
CallState == {"none", "refused", "deferred", "returned"} \cup InCall
OnWorker  == {"popped", "running", "launched"}
WorkState == {"none", "queued", "rejected", "removed", "done"} \cup OnWorker
OnJs      == {"checked", "settling"}
TaskState == {"none", "queued", "ended"} \cup OnJs
InClose   == {"taken", "claimed", "cancelled"}

TypeOK ==
  /\ active \in BOOLEAN
  /\ hasScheduler \in BOOLEAN
  /\ attached \in SUBSET Features
  /\ cleaner \in {"idle", "queued", "draining", "done"}
  /\ fstate \in [Features -> {"ACTIVE", "CLOSING", "INACTIVE"}]
  /\ closeBy \in [Features -> {"none", "detaching", "feature", "runtime"}]
  /\ pending \in SUBSET Ops
  /\ winner \in [Ops -> Winners]
  /\ token \in [Ops -> SUBSET {"operation", "work"}]
  /\ hook \in [Ops -> {"none", "discard", "job"}]
  /\ teardown \in [Ops -> {"none", "lost", "done"} \cup InClose]
  /\ call \in [Ops -> CallState]
  /\ work \in [Ops -> WorkState]
  /\ completion \in [Ops -> {"none", "registered", "taken", "discarded"}]
  /\ job \in [Ops -> {"none", "running", "cancelling", "finished"}]
  /\ callback \in [Ops -> {"none", "held", "delivered", "released"}]
  /\ continuation \in [Ops -> {"none", "registered", "taken"}]
  /\ complete \in [Ops -> TaskState]
  /\ reject \in [Ops -> TaskState]

Init ==
  /\ active = TRUE
  /\ hasScheduler = TRUE
  /\ attached = Features
  /\ cleaner = "idle"
  /\ fstate = [f \in Features |-> "ACTIVE"]
  /\ closeBy = [f \in Features |-> "none"]
  /\ pending = {}
  /\ winner = [o \in Ops |-> "NONE"]
  /\ token = [o \in Ops |-> {}]
  /\ hook = [o \in Ops |-> "none"]
  /\ teardown = [o \in Ops |-> "none"]
  /\ call = [o \in Ops |-> "none"]
  /\ work = [o \in Ops |-> "none"]
  /\ completion = [o \in Ops |-> "none"]
  /\ job = [o \in Ops |-> "none"]
  /\ callback = [o \in Ops |-> "none"]
  /\ continuation = [o \in Ops |-> "none"]
  /\ complete = [o \in Ops |-> "none"]
  /\ reject = [o \in Ops |-> "none"]

Promise(o) == Delivery[o] = "promise"
Suspend(o) == Body[o] = "suspend"
Open(o)    == fstate[FeatureOf[o]] = "ACTIVE"
OpCancelled(o) == "operation" \in token[o]

(* The JS thread is running neither a promise executor nor a task.         *)
JsIdle == \A o \in Ops : /\ ~(Promise(o) /\ call[o] \in InCall)
                         /\ complete[o] \notin OnJs
                         /\ reject[o] \notin OnJs

-----------------------------------------------------------------------------
(* Building blocks shared by the handlers *)

(* RuntimeSession::schedule: the task reaches the JS queue unless the      *)
(* session is inactive, has lost its scheduler, or the scheduler throws.   *)
Schedule(taskOf, o) ==
  [taskOf EXCEPT ![o] = IF active /\ hasScheduler THEN "queued" ELSE @]

(* FeatureSession::schedule_completion.                                    *)
ScheduleCompletion(o) ==
  \/ complete' = IF Open(o) /\ active THEN Schedule(complete, o) ELSE complete
  \/ SchedulerMayFail /\ UNCHANGED complete

(* PendingOperation::claim(COMPLETING) by a caller holding the feature     *)
(* mutex, which then erases the operation from pending_.                   *)
ClaimCompleting(o) ==
  /\ winner' = [winner EXCEPT ![o] = "COMPLETING"]
  /\ hook' = [hook EXCEPT ![o] = "none"]
  /\ pending' = pending \ {o}

(* FeatureSession::claim_internal_completion; its winner takes the         *)
(* internal callback and delivers it, or drops it.                         *)
ClaimInternal(o, fate) ==
  IF Open(o) /\ winner[o] = "PENDING"
  THEN ClaimCompleting(o) /\ callback' = [callback EXCEPT ![o] = fate]
  ELSE UNCHANGED <<claimVars, callback>>

(* What a finished body does with its outcome.                             *)
Deliver(o) ==
  IF Promise(o)
  THEN ScheduleCompletion(o) /\ UNCHANGED <<claimVars, callback>>
  ELSE ClaimInternal(o, "delivered") /\ UNCHANGED complete

(* ProcessServices::complete_jvm_async and the completion it runs: the     *)
(* entry is taken from the map under its lock, so it runs at most once.    *)
CompleteJvmAsync(o) ==
  /\ completion' = [completion EXCEPT ![o] =
                      IF @ = "registered" THEN "taken" ELSE @]
  /\ IF completion[o] = "registered" /\ ~OpCancelled(o)
     THEN Deliver(o)
     ELSE UNCHANGED <<complete, claimVars, callback>>

(* Running a cancellation hook: discard_jvm_async_completion, and for the  *)
(* hook installed after launch, cancelling the coroutine job as well.      *)
RunHook(o, h) ==
  /\ completion' = [completion EXCEPT ![o] =
                      IF h # "none" /\ @ = "registered" THEN "discarded" ELSE @]
  /\ job' = [job EXCEPT ![o] =
               IF h = "job" /\ @ = "running" THEN "cancelling" ELSE @]

(* Fault: a hook installed after the cancellation is stored, never run.    *)
SetCancelHookStored(o, h) ==
  /\ hook' = [hook EXCEPT ![o] = h]
  /\ UNCHANGED <<completion, job>>

(* PendingOperation::set_cancel_hook: stored while undecided, run at once  *)
(* on a cancelled operation, dropped on a completing one.                  *)
SetCancelHook(o, h) ==
  /\ hook' = [hook EXCEPT ![o] = IF winner[o] = "PENDING" THEN h ELSE @]
  /\ RunHook(o, IF winner[o] \in Cancelled THEN h ELSE "none")

(* WorkHandle::cancel: request the executor's token and drop the item if   *)
(* it is still queued.                                                     *)
CancelWork(o) ==
  /\ token' = [token EXCEPT ![o] = @ \cup {"work"}]
  /\ work' = [work EXCEPT ![o] = IF @ = "queued" THEN "removed" ELSE @]

-----------------------------------------------------------------------------
(* The call that starts an operation *)

(* Fault: the feature's state is not looked at under its mutex.            *)
AcceptWhileClosing(o) ==
  /\ call[o] = "none"
  /\ Promise(o) => JsIdle
  /\ active
  /\ call' = [call EXCEPT ![o] = "accepted"]
  /\ winner' = [winner EXCEPT ![o] = "PENDING"]
  /\ pending' = pending \cup {o}
  /\ callback' = [callback EXCEPT ![o] = IF Promise(o) THEN "none" ELSE "held"]
  /\ UNCHANGED <<runtimeVars, featureVars, token, hook, teardown, work,
                 jvmVars, continuation, taskVars>>

(* accept / accept_factory under the feature mutex.  A refused promise is  *)
(* rejected on the spot; a refused internal call throws FEATURE_CLOSED.    *)
Accept(o) ==
  /\ call[o] = "none"
  /\ Promise(o) => JsIdle
  /\ IF Open(o) /\ active
     THEN /\ call' = [call EXCEPT ![o] = "accepted"]
          /\ winner' = [winner EXCEPT ![o] = "PENDING"]
          /\ pending' = pending \cup {o}
          /\ callback' = [callback EXCEPT ![o] =
                            IF Promise(o) THEN "none" ELSE "held"]
     ELSE /\ call' = [call EXCEPT ![o] = "refused"]
          /\ UNCHANGED <<winner, pending, callback>>
  /\ UNCHANGED <<runtimeVars, featureVars, token, hook, teardown, work,
                 jvmVars, continuation, taskVars>>

(* supernote_register_continuation for a promise, and                      *)
(* register_jvm_async_completion for a suspend body.                       *)
Register(o) ==
  /\ call[o] = "accepted"
  /\ call' = [call EXCEPT ![o] = IF Suspend(o) THEN "registered" ELSE "hooked"]
  /\ continuation' = [continuation EXCEPT ![o] =
                        IF Promise(o) THEN "registered" ELSE @]
  /\ completion' = [completion EXCEPT ![o] =
                      IF Suspend(o) THEN "registered" ELSE @]
  /\ UNCHANGED <<runtimeVars, featureVars, claimVars, token, teardown, work,
                 job, callback, taskVars>>

SetDiscardHook(o) ==
  /\ call[o] = "registered"
  /\ call' = [call EXCEPT ![o] = "hooked"]
  /\ SetCancelHook(o, "discard")
  /\ UNCHANGED <<runtimeVars, featureVars, pending, winner, token, teardown,
                 work, callback, continuation, taskVars>>

(* BoundedExecutor::submit: rejected when the queue is full.               *)
Submit(o) ==
  /\ call[o] = "hooked"
  /\ call' = [call EXCEPT ![o] = "submitted"]
  /\ work' = [work EXCEPT ![o] =
                IF Cardinality({p \in Ops : work[p] = "queued"}) >= Capacity
                THEN "rejected" ELSE "queued"]
  /\ UNCHANGED <<runtimeVars, featureVars, claimVars, token, teardown, jvmVars,
                 callback, continuation, taskVars>>

(* PendingOperation::set_work: a decided operation cancels its work.       *)
SetWork(o) ==
  /\ call[o] = "submitted"
  /\ call' = [call EXCEPT ![o] =
                IF work[o] = "rejected" THEN "exhausted" ELSE "returned"]
  /\ IF winner[o] # "PENDING" THEN CancelWork(o) ELSE UNCHANGED <<token, work>>
  /\ UNCHANGED <<runtimeVars, featureVars, claimVars, teardown, jvmVars,
                 callback, continuation, taskVars>>

(* Fault: a refused submission is forgotten.                               *)
ExhaustedIgnored(o) ==
  /\ call[o] = "exhausted"
  /\ call' = [call EXCEPT ![o] = "returned"]
  /\ UNCHANGED <<runtimeVars, featureVars, claimVars, token, teardown, work,
                 jvmVars, callback, continuation, taskVars>>

(* RESOURCE_EXHAUSTED: a blocking promise schedules the rejection itself,  *)
(* a suspend body ends through its registered completion, and a blocking   *)
(* callback is handed to the cleanup worker.                               *)
Exhausted(o) ==
  /\ call[o] = "exhausted"
  /\ \/ /\ Suspend(o)
        /\ call' = [call EXCEPT ![o] = "returned"]
        /\ CompleteJvmAsync(o)
     \/ /\ ~Suspend(o) /\ Promise(o)
        /\ call' = [call EXCEPT ![o] = "returned"]
        /\ ScheduleCompletion(o)
        /\ UNCHANGED <<claimVars, callback, completion>>
     \/ /\ ~Suspend(o) /\ ~Promise(o)
        /\ call' = [call EXCEPT ![o] = "deferred"]
        /\ UNCHANGED <<complete, claimVars, callback, completion>>
     \/ /\ ~Suspend(o) /\ ~Promise(o)  \* cleanup refused: drop and throw
        /\ call' = [call EXCEPT ![o] = "returned"]
        /\ ClaimInternal(o, "released")
        /\ UNCHANGED <<complete, completion>>
  /\ UNCHANGED <<runtimeVars, featureVars, token, teardown, work, job,
                 continuation, reject>>

(* The deferred RESOURCE_EXHAUSTED callback, run by the cleanup worker.    *)
DeliverExhausted(o) ==
  /\ call[o] = "deferred"
  /\ call' = [call EXCEPT ![o] = "returned"]
  /\ ClaimInternal(o, "delivered")
  /\ UNCHANGED <<runtimeVars, featureVars, token, teardown, work, jvmVars,
                 continuation, taskVars>>

-----------------------------------------------------------------------------
(* The executor's workers and the coroutine *)

WorkerPop(o) ==
  /\ work[o] = "queued"
  /\ Cardinality({p \in Ops : work[p] \in OnWorker}) < WorkerCount
  /\ work' = [work EXCEPT ![o] = "popped"]
  /\ UNCHANGED <<runtimeVars, featureVars, claimVars, token, teardown, call,
                 jvmVars, callback, continuation, taskVars>>

(* The worker skips a cancelled item; a suspend body also stops when its   *)
(* feature is no longer active.                                            *)
WorkerStart(o) ==
  /\ work[o] = "popped"
  /\ work' = [work EXCEPT ![o] =
                IF token[o] # {} \/ (Suspend(o) /\ ~Open(o))
                THEN "done" ELSE "running"]
  /\ UNCHANGED <<runtimeVars, featureVars, claimVars, token, teardown, call,
                 jvmVars, callback, continuation, taskVars>>

(* The end of a blocking body, with a result or with a caught exception.   *)
WorkerFinish(o) ==
  /\ work[o] = "running" /\ ~Suspend(o)
  /\ work' = [work EXCEPT ![o] = "done"]
  /\ IF OpCancelled(o) \/ (Promise(o) /\ token[o] # {})
     THEN UNCHANGED <<complete, claimVars, callback>>
     ELSE Deliver(o)
  /\ UNCHANGED <<runtimeVars, featureVars, token, teardown, call, jvmVars,
                 continuation, reject>>

(* Calling the generated adapter starts the coroutine ...                  *)
WorkerLaunch(o) ==
  /\ work[o] = "running" /\ Suspend(o)
  /\ work' = [work EXCEPT ![o] = "launched"]
  /\ job' = [job EXCEPT ![o] = "running"]
  /\ UNCHANGED <<runtimeVars, featureVars, claimVars, token, teardown, call,
                 completion, callback, continuation, taskVars>>

(* ... or throws, and the worker ends the operation with the error.        *)
WorkerLaunchFails(o) ==
  /\ work[o] = "running" /\ Suspend(o)
  /\ work' = [work EXCEPT ![o] = "done"]
  /\ CompleteJvmAsync(o)
  /\ UNCHANGED <<runtimeVars, featureVars, token, teardown, call, job,
                 continuation, reject>>

SetJobHook(o) ==
  /\ work[o] = "launched"
  /\ work' = [work EXCEPT ![o] = "done"]
  /\ SetCancelHook(o, "job")
  /\ UNCHANGED <<runtimeVars, featureVars, pending, winner, token, teardown,
                 call, callback, continuation, taskVars>>

(* The coroutine ends (result, failure or cancellation) on its own thread. *)
NativeComplete(o) ==
  /\ job[o] \in {"running", "cancelling"}
  /\ job' = [job EXCEPT ![o] = "finished"]
  /\ CompleteJvmAsync(o)
  /\ UNCHANGED <<runtimeVars, featureVars, token, teardown, call, work,
                 continuation, reject>>

-----------------------------------------------------------------------------
(* The JS thread *)

(* A scheduled task starts and checks that its session is still active.    *)
JsStartComplete(o) ==
  /\ JsIdle /\ complete[o] = "queued"
  /\ complete' = [complete EXCEPT ![o] = IF active THEN "checked" ELSE "ended"]
  /\ UNCHANGED <<runtimeVars, featureVars, claimVars, token, teardown, call,
                 work, jvmVars, callback, continuation, reject>>

JsStartReject(o) ==
  /\ JsIdle /\ reject[o] = "queued"
  /\ reject' = [reject EXCEPT ![o] = IF active THEN "settling" ELSE "ended"]
  /\ UNCHANGED <<runtimeVars, featureVars, claimVars, token, teardown, call,
                 work, jvmVars, callback, continuation, complete>>

(* Fault: the task settles without winning the exchange.                   *)
JsClaimUnchecked(o) ==
  /\ complete[o] = "checked"
  /\ ClaimCompleting(o)
  /\ complete' = [complete EXCEPT ![o] = "settling"]
  /\ UNCHANGED <<runtimeVars, featureVars, token, teardown, call, work,
                 jvmVars, callback, continuation, reject>>

(* The completion task claims the operation under the feature mutex.       *)
JsClaim(o) ==
  /\ complete[o] = "checked"
  /\ IF Open(o) /\ winner[o] = "PENDING"
     THEN /\ ClaimCompleting(o)
          /\ complete' = [complete EXCEPT ![o] = "settling"]
     ELSE /\ complete' = [complete EXCEPT ![o] = "ended"]
          /\ UNCHANGED claimVars
  /\ UNCHANGED <<runtimeVars, featureVars, token, teardown, call, work,
                 jvmVars, callback, continuation, reject>>

(* supernote_resolve_operation / supernote_reject_operation: take the      *)
(* continuation and settle the promise.                                    *)
JsSettle(o) ==
  /\ \/ /\ complete[o] = "settling"
        /\ complete' = [complete EXCEPT ![o] = "ended"]
        /\ UNCHANGED reject
     \/ /\ reject[o] = "settling"
        /\ reject' = [reject EXCEPT ![o] = "ended"]
        /\ UNCHANGED complete
  /\ continuation' = [continuation EXCEPT ![o] = "taken"]
  /\ UNCHANGED <<runtimeVars, featureVars, claimVars, token, teardown, call,
                 work, jvmVars, callback>>

-----------------------------------------------------------------------------
(* FeatureSession::close *)

(* close(f) is past its first two steps and between two iterations of its  *)
(* loop over pending_.                                                     *)
Looping(f) ==
  /\ fstate[f] = "CLOSING" /\ closeBy[f] # "detaching"
  /\ \A o \in Ops : FeatureOf[o] = f => teardown[o] \notin InClose

(* close_feature, from any thread; a second call returns at once.          *)
CloseFeature(f) ==
  /\ fstate[f] = "ACTIVE"
  /\ fstate' = [fstate EXCEPT ![f] = "CLOSING"]
  /\ closeBy' = [closeBy EXCEPT ![f] = "detaching"]
  /\ UNCHANGED <<runtimeVars, claimVars, token, teardown, call, work, jvmVars,
                 callback, continuation, taskVars>>

(* remove_feature, which the cleanup worker's own pop may have overtaken.  *)
CloseDetach(f) ==
  /\ closeBy[f] = "detaching"
  /\ closeBy' = [closeBy EXCEPT ![f] = "feature"]
  /\ attached' = attached \ {f}
  /\ UNCHANGED <<active, hasScheduler, cleaner, fstate, claimVars, token,
                 teardown, call, work, jvmVars, callback, continuation,
                 taskVars>>

CloseTake(o) ==
  /\ Looping(FeatureOf[o])
  /\ o \in pending
  /\ pending' = pending \ {o}
  /\ teardown' = [teardown EXCEPT ![o] = "taken"]
  /\ UNCHANGED <<runtimeVars, featureVars, winner, token, hook, call, work,
                 jvmVars, callback, continuation, taskVars>>

(* claim(CANCELLED_BY_x): the exchange, and the operation's own token.     *)
CloseClaim(o) ==
  /\ teardown[o] = "taken"
  /\ IF winner[o] = "PENDING"
     THEN /\ winner' = [winner EXCEPT ![o] =
                          IF closeBy[FeatureOf[o]] = "runtime"
                          THEN "CANCELLED_BY_RUNTIME" ELSE "CANCELLED_BY_FEATURE"]
          /\ token' = [token EXCEPT ![o] = @ \cup {"operation"}]
          /\ teardown' = [teardown EXCEPT ![o] = "claimed"]
     ELSE /\ teardown' = [teardown EXCEPT ![o] = "lost"]
          /\ UNCHANGED <<winner, token>>
  /\ UNCHANGED <<runtimeVars, featureVars, pending, hook, call, work, jvmVars,
                 callback, continuation, taskVars>>

(* The rest of claim under the operation mutex: cancel the attached work,  *)
(* take the hook and run it.                                               *)
CloseCancel(o) ==
  /\ teardown[o] = "claimed"
  /\ teardown' = [teardown EXCEPT ![o] = "cancelled"]
  /\ IF call[o] \in {"exhausted", "deferred", "returned"}
     THEN CancelWork(o) ELSE UNCHANGED <<token, work>>
  /\ hook' = [hook EXCEPT ![o] = "none"]
  /\ RunHook(o, hook[o])
  /\ UNCHANGED <<runtimeVars, featureVars, pending, winner, call, callback,
                 continuation, taskVars>>

(* Fault: the internal callback is not released.                           *)
CloseRejectKeepsCallback(o) ==
  /\ teardown[o] = "cancelled"
  /\ teardown' = [teardown EXCEPT ![o] = "done"]
  /\ UNCHANGED <<runtimeVars, featureVars, claimVars, token, call, work,
                 jvmVars, callback, continuation, taskVars>>

(* Release the internal callback; reject the promise, but only for a       *)
(* feature close under a live runtime.                                     *)
CloseReject(o) ==
  /\ teardown[o] = "cancelled"
  /\ teardown' = [teardown EXCEPT ![o] = "done"]
  /\ callback' = [callback EXCEPT ![o] = IF @ = "held" THEN "released" ELSE @]
  /\ \/ reject' = IF Promise(o) /\ closeBy[FeatureOf[o]] = "feature"
                  THEN Schedule(reject, o) ELSE reject
     \/ SchedulerMayFail /\ UNCHANGED reject
  /\ UNCHANGED <<runtimeVars, featureVars, claimVars, token, call, work,
                 jvmVars, continuation, complete>>

(* pending_ is empty: the feature's services are dropped and it is gone.   *)
CloseFinish(f) ==
  /\ Looping(f)
  /\ \A o \in pending : FeatureOf[o] # f
  /\ fstate' = [fstate EXCEPT ![f] = "INACTIVE"]
  /\ UNCHANGED <<runtimeVars, closeBy, claimVars, token, teardown, call, work,
                 jvmVars, callback, continuation, taskVars>>

-----------------------------------------------------------------------------
(* RuntimeSession::invalidate and cleanup_physical *)

Invalidate ==
  /\ active
  /\ active' = FALSE
  /\ cleaner' = "queued"
  /\ UNCHANGED <<hasScheduler, attached, featureVars, claimVars, token,
                 teardown, call, work, jvmVars, callback, continuation,
                 taskVars>>

CleanupBegin ==
  /\ cleaner = "queued"
  /\ cleaner' = "draining"
  /\ hasScheduler' = FALSE
  /\ UNCHANGED <<active, attached, featureVars, claimVars, token, teardown,
                 call, work, jvmVars, callback, continuation, taskVars>>

(* The cleanup worker is inside no close_runtime of its own.               *)
CleanerFree == \A f \in Features : closeBy[f] = "runtime" => fstate[f] = "INACTIVE"

(* Pop one feature and close_runtime it; a feature another thread is       *)
(* already closing is left to that thread.                                 *)
CleanupFeature(f) ==
  /\ cleaner = "draining" /\ CleanerFree
  /\ f \in attached
  /\ attached' = attached \ {f}
  /\ IF fstate[f] = "ACTIVE"
     THEN /\ fstate' = [fstate EXCEPT ![f] = "CLOSING"]
          /\ closeBy' = [closeBy EXCEPT ![f] = "runtime"]
     ELSE UNCHANGED featureVars
  /\ UNCHANGED <<active, hasScheduler, cleaner, claimVars, token, teardown,
                 call, work, jvmVars, callback, continuation, taskVars>>

CleanupEnd ==
  /\ cleaner = "draining" /\ CleanerFree /\ attached = {}
  /\ cleaner' = "done"
  /\ UNCHANGED <<active, hasScheduler, attached, featureVars, claimVars, token,
                 teardown, call, work, jvmVars, callback, continuation,
                 taskVars>>

-----------------------------------------------------------------------------

Calling(o) == Accept(o) \/ Register(o) \/ SetDiscardHook(o) \/ Submit(o)
              \/ SetWork(o) \/ Exhausted(o) \/ DeliverExhausted(o)
Working(o) == WorkerPop(o) \/ WorkerStart(o) \/ WorkerFinish(o)
              \/ WorkerLaunch(o) \/ WorkerLaunchFails(o) \/ SetJobHook(o)
              \/ NativeComplete(o)
OnJsThread(o) == JsStartComplete(o) \/ JsStartReject(o) \/ JsClaim(o)
                 \/ JsSettle(o)
Closing(o) == CloseTake(o) \/ CloseClaim(o) \/ CloseCancel(o) \/ CloseReject(o)
Cleaning   == CleanupBegin \/ CleanupEnd \/ \E f \in Features : CleanupFeature(f)

Next ==
  \/ \E o \in Ops : Calling(o) \/ Working(o) \/ OnJsThread(o) \/ Closing(o)
  \/ \E f \in Features : CloseFeature(f) \/ CloseDetach(f) \/ CloseFinish(f)
  \/ Invalidate
  \/ Cleaning

Spec == Init /\ [][Next]_vars

(***************************************************************************)
(* A thread inside a handler runs on, a queued item is popped, a scheduled *)
(* JS task is run, and implementations end.  Nobody has to make a call, to *)
(* close a feature or to invalidate the runtime.                           *)
(***************************************************************************)
Fairness ==
  /\ \A o \in Ops :
       /\ WF_vars(Calling(o) /\ call[o] # "none")
       /\ WF_vars(Working(o))
       /\ WF_vars(JsStartComplete(o))
       /\ WF_vars(JsStartReject(o))
       /\ WF_vars(JsClaim(o) \/ JsSettle(o))
       /\ WF_vars(Closing(o))
  /\ \A f \in Features : WF_vars(CloseDetach(f) \/ CloseFinish(f))
  /\ WF_vars(Cleaning)

FairSpec == Spec /\ Fairness

-----------------------------------------------------------------------------
(* Safety *)

(***************************************************************************)
(* A JS task that settles a promise finds its continuation: a second       *)
(* settlement, or one that overtakes supernote_register_continuation,      *)
(* would make supernote_take_continuation throw on the JS thread.          *)
(***************************************************************************)
ContinuationAvailable ==
  \A o \in Ops : "settling" \in {complete[o], reject[o]}
                 => continuation[o] = "registered"

(***************************************************************************)
(* No operation survives close(): when a feature is INACTIVE every         *)
(* operation it ever accepted has been decided, however accept, claims and *)
(* the two closing threads interleaved.                                    *)
(***************************************************************************)
NoOperationSurvivesClose ==
  \A o \in Ops : fstate[FeatureOf[o]] = "INACTIVE" => winner[o] # "PENDING"

(***************************************************************************)
(* What the caller saw agrees with winner_: a result or a delivered        *)
(* callback needs COMPLETING, a FEATURE_CLOSED rejection needs             *)
(* CANCELLED_BY_FEATURE, and runtime teardown shows nothing.               *)
(***************************************************************************)
OutcomeMatchesWinner ==
  \A o \in Ops :
    /\ continuation[o] = "taken" =>
         \/ winner[o] = "COMPLETING" /\ complete[o] = "ended"
         \/ winner[o] = "CANCELLED_BY_FEATURE" /\ reject[o] = "ended"
    /\ callback[o] = "delivered" => winner[o] = "COMPLETING"
    /\ winner[o] = "CANCELLED_BY_RUNTIME" =>
         continuation[o] # "taken" /\ callback[o] # "delivered"

(***************************************************************************)
(* Once close() and the call are through with a cancelled operation, its   *)
(* work holds no executor slot, its completion is out of the JVM map, and  *)
(* a coroutine it launched has been told to stop: set_work and             *)
(* set_cancel_hook race the claim and neither side may miss the other.     *)
(***************************************************************************)
CancelledWorkReleased ==
  \A o \in Ops :
    (teardown[o] \in {"cancelled", "done"} /\ call[o] = "returned") =>
      /\ work[o] # "queued"
      /\ completion[o] # "registered"
      /\ work[o] = "done" => job[o] # "running"

(***************************************************************************)
(* The loser's side effects never reach a winner: an operation claimed for *)
(* completion is never cancelled, neither its token nor its coroutine, by  *)
(* a teardown that lost the exchange.                                      *)
(***************************************************************************)
CompletingNeverCancelled ==
  \A o \in Ops : winner[o] = "COMPLETING" =>
                 /\ "operation" \notin token[o]
                 /\ job[o] # "cancelling"
                 /\ completion[o] # "discarded"

(***************************************************************************)
(* The inductive strengthening: what each thread may assume about an       *)
(* operation the others are working on.                                    *)
(***************************************************************************)
Registered(o) == call[o] \notin {"none", "refused", "accepted"}

(* How far the call got bounds everything that was started for it.         *)
CallInv(o) ==
  /\ winner[o] = "NONE" <=> call[o] \in {"none", "refused"}
  /\ Promise(o) /\ Registered(o) => continuation[o] # "none"
  /\ continuation[o] # "none" => Registered(o)
  /\ work[o] # "none" => Registered(o) /\ call[o] \notin {"registered", "hooked"}
  /\ completion[o] # "none" => Registered(o) /\ Suspend(o)
  /\ call[o] = "exhausted" => work[o] = "rejected"
  /\ call[o] = "deferred" \/ callback[o] # "none" => ~Promise(o)

(* An undecided operation is in pending_ or in the hands of close(), and   *)
(* a teardown decision names the close() that made it.                     *)
DecisionInv(o) ==
  /\ o \in pending => /\ winner[o] = "PENDING" /\ teardown[o] = "none"
                      /\ fstate[FeatureOf[o]] # "INACTIVE"
  /\ winner[o] = "PENDING" => o \in pending \/ teardown[o] = "taken"
  /\ winner[o] = "NONE" => teardown[o] = "none"
  /\ teardown[o] \in InClose => fstate[FeatureOf[o]] = "CLOSING"
  /\ teardown[o] = "taken" =>
       closeBy[FeatureOf[o]] \in {"feature", "runtime"}
  /\ teardown[o] \in {"claimed", "cancelled", "done"} => winner[o] \in Cancelled
  /\ winner[o] = "CANCELLED_BY_FEATURE" => closeBy[FeatureOf[o]] = "feature"
  /\ winner[o] = "CANCELLED_BY_RUNTIME" => closeBy[FeatureOf[o]] = "runtime"

(* A JS task exists once, for the right winner, and only a task that holds *)
(* the JS thread settles.                                                  *)
TaskInv(o) ==
  /\ complete[o] # "none" =>
       /\ Promise(o) /\ Registered(o)
       /\ Suspend(o) => completion[o] = "taken"
       /\ ~Suspend(o) => \/ work[o] = "done"
                         \/ work[o] = "rejected" /\ call[o] = "returned"
  /\ complete[o] = "settling" => winner[o] = "COMPLETING"
  /\ reject[o] # "none" => /\ winner[o] = "CANCELLED_BY_FEATURE"
                           /\ Promise(o) /\ teardown[o] = "done"
  /\ reject[o] = "settling" => Registered(o)

FeatureInv(f) ==
  /\ fstate[f] = "ACTIVE" <=> closeBy[f] = "none"
  /\ closeBy[f] = "runtime" => ~active

SettlementInv ==
  /\ \A o \in Ops : CallInv(o) /\ DecisionInv(o) /\ TaskInv(o)
  /\ \A f \in Features : FeatureInv(f)
  /\ cleaner # "idle" => ~active
  /\ ContinuationAvailable
  /\ OutcomeMatchesWinner

(* Who holds what cancellation will need: a registered completion and a    *)
(* running coroutine are reachable from a hook until close() has run it.   *)
CancelInv(o) ==
  /\ OpCancelled(o) \/ job[o] = "cancelling" \/ completion[o] = "discarded"
       => winner[o] \in Cancelled
  /\ job[o] # "none" => Suspend(o) /\ work[o] \in {"launched", "done"}
  /\ call[o] = "deferred" => ~Suspend(o)
  /\ completion[o] = "taken" => /\ work[o] \in {"launched", "done", "rejected"}
                               /\ job[o] \notin {"running", "cancelling"}
  /\ Suspend(o) /\ winner[o] = "COMPLETING" => completion[o] = "taken"
  /\ teardown[o] \in {"cancelled", "done"} =>
       /\ call[o] \in {"exhausted", "deferred", "returned"} => work[o] # "queued"
       /\ completion[o] = "registered" => call[o] = "registered"
       /\ ~(job[o] = "running" /\ work[o] = "done")
  /\ teardown[o] \notin {"cancelled", "done"} =>
       /\ completion[o] = "registered" /\ call[o] # "registered" => hook[o] # "none"
       /\ job[o] = "running" /\ work[o] = "done" => hook[o] = "job"

CancellationInv == \A o \in Ops : CancelInv(o)

-----------------------------------------------------------------------------
(* Liveness *)

(***************************************************************************)
(* Every accepted promise is settled, by its result, by RESOURCE_EXHAUSTED *)
(* or by FEATURE_CLOSED, unless the runtime is invalidated first.          *)
(***************************************************************************)
PromiseSettles ==
  \A o \in Ops : (Promise(o) /\ winner[o] = "PENDING")
                 ~> (continuation[o] = "taken" \/ ~active)

(***************************************************************************)
(* After invalidation the cleanup worker gets through every feature, and   *)
(* every operation is decided with its callback delivered or released.     *)
(***************************************************************************)
InvalidationDrains ==
  ~active ~> /\ cleaner = "done"
             /\ \A o \in Ops : winner[o] # "PENDING" /\ callback[o] # "held"

-----------------------------------------------------------------------------
(* Refinement *)

(* How the contract names a value of winner_.                              *)
Meaning(w) ==
  CASE w = "NONE" -> "absent"
    [] w = "PENDING" -> "undecided"
    [] w = "COMPLETING" -> "completed"
    [] w = "CANCELLED_BY_FEATURE" -> "featureClosed"
    [] w = "CANCELLED_BY_RUNTIME" -> "runtimeGone"

Seen(o) == continuation[o] = "taken" \/ callback[o] = "delivered"

Contract == INSTANCE OperationContract WITH
  alive   <- active,
  open    <- {f \in Features : fstate[f] = "ACTIVE"},
  outcome <- [o \in Ops |-> Meaning(winner[o])],
  shown   <- [o \in Ops |-> Seen(o)]

(* The threads implement the contract: every step of theirs decides, shows *)
(* or closes as OperationContract allows, or changes nothing it names.     *)
ImplementsContract == Contract!CSpec
=============================================================================
