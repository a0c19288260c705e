----------------------------- MODULE Retirement -----------------------------
(***************************************************************************)
(* Physical cleanup of invalidated runtimes: the retirement half of        *)
(* ProcessServices, the DeferredDestruction queue it uses, and the session *)
(* table of runtime_bootstrap.cpp.                                         *)
(*                                                                         *)
(* Invalidation promises that cleanup_physical will run exactly once, on   *)
(* another thread, although the cleanup queue is bounded and shared with   *)
(* every other release of the process, threads may fail to start, and the  *)
(* process may be shutting down.  A retired runtime is offered to the      *)
(* queue by the thread that invalidates it and, if the queue refuses, by a *)
(* retry worker; scheduled_retirements_ keeps the two from offering it     *)
(* twice.  A step is a critical section of retired_runtime_mutex_, of the  *)
(* queue's mutex, or of g_mutex.                                           *)
(***************************************************************************)
EXTENDS Naturals, Sequences, FiniteSets

CONSTANTS
  Runtimes,         (* runtime sessions of the process                      *)
  Releases,         (* other cleanup items; bounds the model                *)
  RetiredLimit,     (* kRetiredRuntimeLimit                                 *)
  QueueCapacity,    (* capacity of DeferredDestruction                      *)
  ThreadsMayFail,   (* may std::thread throw?                               *)
  NoRuntime

ASSUME RetirementAssumption ==
  /\ Runtimes \cap Releases = {}
  /\ RetiredLimit \in Nat \ {0}
  /\ QueueCapacity \in Nat \ {0}
  /\ ThreadsMayFail \in BOOLEAN
  /\ NoRuntime \notin Runtimes \cup Releases

VARIABLES
  sessions,     (* g_sessions                                               *)
  retired,      (* retired_runtimes_                                        *)
  scheduled,    (* scheduled_retirements_                                   *)
  restart,      (* restart_required_                                        *)
  stopping,     (* retirement_stopping_                                     *)
  queue,        (* DeferredDestruction::State::queue                        *)
  closing,      (* DeferredDestruction::State::stopping                     *)
  released,     (* other items ever offered to the queue                    *)
  inv,          (* progress of nativeInvalidate, per runtime                *)
  retry,        (* the retry worker's phase                                 *)
  candidate,    (* the runtime the retry worker is offering                 *)
  cleaner,      (* the cleanup worker's phase                               *)
  item,         (* the item the cleanup worker holds                        *)
  shutdown,     (* progress of ProcessServices::shutdown                    *)
  leftover,     (* runtimes shutdown took over                              *)
  cleanups      (* how often cleanup_physical has run                       *)

vars == <<sessions, retired, scheduled, restart, stopping, queue, closing,
          released, inv, retry, candidate, cleaner, item, shutdown, leftover,
          cleanups>>
retirementVars == <<sessions, retired, scheduled, restart, stopping>>
queueVars      == <<queue, closing, released>>
retryVars      == <<retry, candidate>>
cleanerVars    == <<cleaner, item>>
shutdownVars   == <<shutdown, leftover>>

-----------------------------------------------------------------------------

Invalidating == {"emplaced", "marked", "refused", "ensuring", "retained"}
InvState     == {"absent", "installed", "dropped", "kept"} \cup Invalidating
Retrying     == {"offering", "marked", "refused"}
RetryState   == {"none", "scan", "sleep", "ended"} \cup Retrying

TypeOK ==
  /\ sessions \in SUBSET Runtimes
  /\ retired \in SUBSET Runtimes
  /\ scheduled \in SUBSET Runtimes
  /\ restart \in BOOLEAN
  /\ stopping \in BOOLEAN
  /\ queue \in Seq(Runtimes \cup Releases)
  /\ closing \in BOOLEAN
  /\ released \in SUBSET Releases
  /\ inv \in [Runtimes -> InvState]
  /\ retry \in RetryState
  /\ candidate \in Runtimes \cup {NoRuntime}
  /\ retry \in Retrying => candidate \in Runtimes
  /\ cleaner \in {"none", "idle", "popped", "cleaning", "ended"}
  /\ item \in Runtimes \cup Releases \cup {NoRuntime}
  /\ cleaner = "popped" => item \in Runtimes \cup Releases
  /\ cleaner = "cleaning" => item \in Runtimes
  /\ shutdown \in {"idle", "joinRetry", "drain", "joinCleaner", "cleaning", "done"}
  /\ leftover \in SUBSET Runtimes
  /\ cleanups \in [Runtimes -> Nat]

Init ==
  /\ sessions = {}
  /\ retired = {}
  /\ scheduled = {}
  /\ restart = FALSE
  /\ stopping = FALSE
  /\ queue = <<>>
  /\ closing = FALSE
  /\ released = {}
  /\ inv = [r \in Runtimes |-> "absent"]
  /\ retry = "none"
  /\ candidate = NoRuntime
  /\ cleaner = "none"
  /\ item = NoRuntime
  /\ shutdown = "idle"
  /\ leftover = {}
  /\ cleanups = [r \in Runtimes |-> 0]

-----------------------------------------------------------------------------
(* DeferredDestruction *)

(* submit, which starts the worker with the first item.                    *)
Accepts(x) ==
  /\ ~closing
  /\ Len(queue) < QueueCapacity
  /\ queue' = Append(queue, x)
  /\ cleaner' = IF cleaner = "none" THEN "idle" ELSE cleaner
  /\ UNCHANGED <<closing, item>>

(* submit returns false: stopping, full, or the worker cannot be started.  *)
Refuses ==
  /\ closing \/ Len(queue) >= QueueCapacity \/ (cleaner = "none" /\ ThreadsMayFail)
  /\ UNCHANGED <<queue, closing, cleanerVars>>

(* Any other release that shares the queue; a refused one runs inline.     *)
Release(x) ==
  /\ x \notin released
  /\ released' = released \cup {x}
  /\ Accepts(x) \/ Refuses
  /\ UNCHANGED <<retirementVars, inv, retryVars, shutdownVars, cleanups>>

(* The cleanup worker takes the front item; it drains the queue before it  *)
(* ends.                                                                   *)
CleanerPop ==
  /\ cleaner = "idle"
  /\ IF queue # <<>>
     THEN /\ item' = Head(queue)
          /\ queue' = Tail(queue)
          /\ cleaner' = "popped"
     ELSE /\ closing
          /\ cleaner' = "ended"
          /\ UNCHANGED <<item, queue>>
  /\ UNCHANGED <<retirementVars, closing, released, inv, retryVars,
                 shutdownVars, cleanups>>

(* The item runs: a retirement item unmarks its runtime and takes it out   *)
(* of the map, if it is still there.                                       *)
CleanerTake ==
  /\ cleaner = "popped"
  /\ scheduled' = scheduled \ {item}
  /\ retired' = retired \ {item}
  /\ cleaner' = IF item \in retired THEN "cleaning" ELSE "idle"
  /\ UNCHANGED <<sessions, restart, stopping, queueVars, inv, retryVars, item,
                 shutdownVars, cleanups>>

CleanerRun ==
  /\ cleaner = "cleaning"
  /\ cleanups' = [cleanups EXCEPT ![item] = @ + 1]
  /\ cleaner' = "idle"
  /\ UNCHANGED <<retirementVars, queueVars, inv, retryVars, item, shutdownVars>>

-----------------------------------------------------------------------------
(* nativeInstall and nativeInvalidate *)

Install(r) ==
  /\ inv[r] = "absent"
  /\ inv' = [inv EXCEPT ![r] = "installed"]
  /\ sessions' = sessions \cup {r}
  /\ UNCHANGED <<retired, scheduled, restart, stopping, queueVars, retryVars,
                 cleanerVars, shutdownVars, cleanups>>

(* Fault: a full map is taken for a runtime that needs no cleanup.         *)
RetireUnkept(r) ==
  /\ inv[r] = "installed"
  /\ IF Cardinality(retired) >= RetiredLimit
     THEN inv' = [inv EXCEPT ![r] = "retained"] /\ UNCHANGED retired
     ELSE inv' = [inv EXCEPT ![r] = "emplaced"] /\ retired' = retired \cup {r}
  /\ UNCHANGED <<sessions, scheduled, restart, stopping, queueVars, retryVars,
                 cleanerVars, shutdownVars, cleanups>>

(* RuntimeSession::invalidate and the start of retire_runtime: the runtime *)
(* is kept in the map, or the limit is reached and nothing is promised.    *)
Retire(r) ==
  /\ inv[r] = "installed"
  /\ IF Cardinality(retired) >= RetiredLimit
     THEN /\ restart' = TRUE
          /\ inv' = [inv EXCEPT ![r] = "kept"]
          /\ UNCHANGED retired
     ELSE /\ retired' = retired \cup {r}
          /\ inv' = [inv EXCEPT ![r] = "emplaced"]
          /\ UNCHANGED restart
  /\ UNCHANGED <<sessions, scheduled, stopping, queueVars, retryVars,
                 cleanerVars, shutdownVars, cleanups>>

(* try_schedule_retired_runtime, first critical section: somebody else may *)
(* have scheduled or cleaned the runtime already.                          *)
InvMark(r) ==
  /\ inv[r] = "emplaced"
  /\ IF r \notin retired \/ r \in scheduled
     THEN inv' = [inv EXCEPT ![r] = "retained"] /\ UNCHANGED scheduled
     ELSE /\ inv' = [inv EXCEPT ![r] = "marked"]
          /\ scheduled' = scheduled \cup {r}
  /\ UNCHANGED <<sessions, retired, restart, stopping, queueVars, retryVars,
                 cleanerVars, shutdownVars, cleanups>>

InvOffer(r) ==
  /\ inv[r] = "marked"
  /\ \/ Accepts(r) /\ inv' = [inv EXCEPT ![r] = "retained"]
     \/ Refuses /\ inv' = [inv EXCEPT ![r] = "refused"]
  /\ UNCHANGED <<retirementVars, released, retryVars, shutdownVars, cleanups>>

InvUnmark(r) ==
  /\ inv[r] = "refused"
  /\ inv' = [inv EXCEPT ![r] = "ensuring"]
  /\ scheduled' = scheduled \ {r}
  /\ UNCHANGED <<sessions, retired, restart, stopping, queueVars, retryVars,
                 cleanerVars, shutdownVars, cleanups>>

(* ensure_retirement_retry_worker.                                         *)
Ensure(r) ==
  /\ inv[r] = "ensuring"
  /\ \/ /\ ~stopping
        /\ retry' = IF retry = "none" THEN "scan" ELSE retry
        /\ inv' = [inv EXCEPT ![r] = "retained"]
        /\ UNCHANGED restart
     \/ /\ stopping \/ (retry = "none" /\ ThreadsMayFail)
        /\ inv' = [inv EXCEPT ![r] = "kept"]
        /\ restart' = TRUE
        /\ UNCHANGED retry
  /\ UNCHANGED <<sessions, retired, scheduled, stopping, queueVars, candidate,
                 cleanerVars, shutdownVars, cleanups>>

(* nativeInvalidate drops its mapping once the runtime is retained.        *)
Drop(r) ==
  /\ inv[r] = "retained"
  /\ inv' = [inv EXCEPT ![r] = "dropped"]
  /\ sessions' = sessions \ {r}
  /\ UNCHANGED <<retired, scheduled, restart, stopping, queueVars, retryVars,
                 cleanerVars, shutdownVars, cleanups>>

-----------------------------------------------------------------------------
(* retirement_retry_loop *)

Waiting == retired \ scheduled

(* Blocks until a retired runtime is unscheduled or the process stops.     *)
RetryScan ==
  /\ retry = "scan"
  /\ IF stopping
     THEN retry' = "ended" /\ UNCHANGED candidate
     ELSE \E r \in Waiting : retry' = "offering" /\ candidate' = r
  /\ UNCHANGED <<retirementVars, queueVars, inv, cleanerVars, shutdownVars,
                 cleanups>>

RetryMark ==
  /\ retry = "offering"
  /\ IF candidate \notin retired \/ candidate \in scheduled
     THEN retry' = "scan" /\ UNCHANGED scheduled
     ELSE retry' = "marked" /\ scheduled' = scheduled \cup {candidate}
  /\ UNCHANGED <<sessions, retired, restart, stopping, queueVars, inv,
                 candidate, cleanerVars, shutdownVars, cleanups>>

RetryOffer ==
  /\ retry = "marked"
  /\ \/ Accepts(candidate) /\ retry' = "scan"
     \/ Refuses /\ retry' = "refused"
  /\ UNCHANGED <<retirementVars, released, inv, candidate, shutdownVars,
                 cleanups>>

RetryUnmark ==
  /\ retry = "refused"
  /\ retry' = "sleep"
  /\ scheduled' = scheduled \ {candidate}
  /\ UNCHANGED <<sessions, retired, restart, stopping, queueVars, inv,
                 candidate, cleanerVars, shutdownVars, cleanups>>

(* Fault: a retry worker that was refused gives up.                        *)
RetryGiveUp ==
  /\ retry = "sleep"
  /\ retry' = "ended"
  /\ UNCHANGED <<retirementVars, queueVars, inv, candidate, cleanerVars,
                 shutdownVars, cleanups>>

(* The 10 ms wait ends by time or by the stop.                             *)
RetryWake ==
  /\ retry = "sleep"
  /\ retry' = IF stopping THEN "ended" ELSE "scan"
  /\ UNCHANGED <<retirementVars, queueVars, inv, candidate, cleanerVars,
                 shutdownVars, cleanups>>

-----------------------------------------------------------------------------
(* ProcessServices::shutdown *)

ShutdownBegin ==
  /\ shutdown = "idle"
  /\ stopping' = TRUE
  /\ shutdown' = "joinRetry"
  /\ UNCHANGED <<sessions, retired, scheduled, restart, queueVars, inv,
                 retryVars, cleanerVars, leftover, cleanups>>

(* Join the retry worker; the executor and the completions follow.         *)
ShutdownJoinRetry ==
  /\ shutdown = "joinRetry"
  /\ retry \in {"none", "ended"}
  /\ shutdown' = "drain"
  /\ UNCHANGED <<retirementVars, queueVars, inv, retryVars, cleanerVars,
                 leftover, cleanups>>

ShutdownDrain ==
  /\ shutdown = "drain"
  /\ closing' = TRUE
  /\ shutdown' = "joinCleaner"
  /\ UNCHANGED <<retirementVars, queue, released, inv, retryVars, cleanerVars,
                 leftover, cleanups>>

(* The cleanup worker has been joined; shutdown takes what is left.        *)
ShutdownSwap ==
  /\ shutdown = "joinCleaner"
  /\ cleaner \in {"none", "ended"}
  /\ leftover' = retired
  /\ retired' = {}
  /\ scheduled' = {}
  /\ shutdown' = "cleaning"
  /\ UNCHANGED <<sessions, restart, stopping, queueVars, inv, retryVars,
                 cleanerVars, cleanups>>

ShutdownClean(r) ==
  /\ shutdown = "cleaning" /\ r \in leftover
  /\ leftover' = leftover \ {r}
  /\ cleanups' = [cleanups EXCEPT ![r] = @ + 1]
  /\ UNCHANGED <<retirementVars, queueVars, inv, retryVars, cleanerVars,
                 shutdown>>

ShutdownEnd ==
  /\ shutdown = "cleaning" /\ leftover = {}
  /\ shutdown' = "done"
  /\ UNCHANGED <<retirementVars, queueVars, inv, retryVars, cleanerVars,
                 leftover, cleanups>>

-----------------------------------------------------------------------------

InvalidateStep(r) == Retire(r) \/ InvMark(r) \/ InvOffer(r) \/ InvUnmark(r)
                     \/ Ensure(r) \/ Drop(r)
CleanerStep  == CleanerPop \/ CleanerTake \/ CleanerRun
RetryStep    == RetryScan \/ RetryMark \/ RetryOffer \/ RetryUnmark \/ RetryWake
ShutdownStep == ShutdownJoinRetry \/ ShutdownDrain \/ ShutdownSwap
                \/ (\E r \in Runtimes : ShutdownClean(r)) \/ ShutdownEnd

Next ==
  \/ \E r \in Runtimes : Install(r) \/ InvalidateStep(r)
  \/ \E x \in Releases : Release(x)
  \/ CleanerStep
  \/ RetryStep
  \/ ShutdownBegin
  \/ ShutdownStep

Spec == Init /\ [][Next]_vars

(* Threads inside a handler run on, and the retry worker's offers are not  *)
(* refused for ever: the queue drains and threads can be started again.    *)
(* Nobody has to install or invalidate a runtime, to release anything, or  *)
(* to shut the process down.                                               *)
Fairness ==
  /\ \A r \in Runtimes : WF_vars(InvalidateStep(r) /\ inv[r] # "installed")
  /\ WF_vars(CleanerStep)
  /\ WF_vars(RetryStep)
  /\ SF_vars(RetryOffer /\ retry' = "scan")
  /\ WF_vars(ShutdownStep)

FairSpec == Spec /\ Fairness

-----------------------------------------------------------------------------
(* Safety *)

Offering(r) == \/ inv[r] \in {"marked", "refused"}
               \/ retry \in {"marked", "refused"} /\ candidate = r
Queued(r)   == \E i \in 1..Len(queue) : queue[i] = r
Held(r)     == cleaner = "popped" /\ item = r
Cleaning(r) == cleaner = "cleaning" /\ item = r

(***************************************************************************)
(* cleanup_physical runs at most once per runtime, although the cleanup    *)
(* worker, the retry worker and shutdown all try to get it cleaned.        *)
(***************************************************************************)
CleanedAtMostOnce == \A r \in Runtimes : cleanups[r] <= 1

(***************************************************************************)
(* nativeInvalidate gives up its own reference only when somebody else is  *)
(* responsible for the cleanup, or it has been done.                       *)
(***************************************************************************)
RetainedUntilCleaned ==
  \A r \in Runtimes :
    inv[r] \in {"retained", "dropped"} =>
      r \in retired \cup leftover \/ Cleaning(r) \/ cleanups[r] = 1

(***************************************************************************)
(* A runtime marked as scheduled is in the queue or in the hands of a      *)
(* thread that will queue it or take the mark back; otherwise the retry    *)
(* worker would pass it over for ever.                                     *)
(***************************************************************************)
NoOrphanedMark ==
  \A r \in scheduled : Queued(r) \/ Offering(r) \/ Held(r)

(***************************************************************************)
(* The invalidating thread and the retry worker never both queue a runtime *)
(* into the bounded queue.                                                 *)
(***************************************************************************)
QueuedOnce ==
  \A i, j \in 1..Len(queue) : queue[i] = queue[j] /\ queue[i] \in Runtimes => i = j

(***************************************************************************)
(* An invalidation that could not be guaranteed is reported: the mapping   *)
(* stays and restart_required() is set.                                    *)
(***************************************************************************)
RestartReported ==
  \A r \in Runtimes : inv[r] = "kept" => restart /\ r \in sessions

(***************************************************************************)
(* The inductive strengthening.  A runtime that entered the map is in one  *)
(* place until it is cleaned; shutdown takes over only what no worker can  *)
(* touch any more; and whoever offers a runtime holds its mark.            *)
(***************************************************************************)
Known(r) == r \in retired \/ r \in leftover \/ Cleaning(r) \/ cleanups[r] = 1

PlaceInv(r) ==
  /\ Known(r) => inv[r] \notin {"absent", "installed"}
  /\ inv[r] \notin {"absent", "installed", "kept"} => Known(r)
  /\ r \in retired => r \notin leftover /\ ~Cleaning(r) /\ cleanups[r] = 0
  /\ r \in leftover => ~Cleaning(r) /\ cleanups[r] = 0
  /\ Cleaning(r) => cleanups[r] = 0
  /\ cleanups[r] \in {0, 1}
  /\ inv[r] = "kept" => restart
  /\ r \in sessions <=> inv[r] \notin {"absent", "dropped"}

MarkInv(r) ==
  /\ r \in scheduled => Queued(r) \/ Offering(r) \/ Held(r)
  /\ Queued(r) \/ Held(r) => r \in scheduled /\ ~Offering(r)
  /\ Queued(r) => ~Held(r)
  /\ inv[r] \in {"marked", "refused"} =>
       /\ ~(retry \in {"marked", "refused"} /\ candidate = r)
       /\ r \in scheduled \/ shutdown \in {"cleaning", "done"}
  /\ retry \in {"marked", "refused"} /\ candidate = r => r \in scheduled

StopInv ==
  /\ shutdown # "idle" => stopping
  /\ shutdown \in {"drain", "joinCleaner", "cleaning", "done"} =>
       retry \in {"none", "ended"}
  /\ closing <=> shutdown \in {"joinCleaner", "cleaning", "done"}
  /\ cleaner \in {"none", "ended"} => queue = <<>>
  /\ cleaner = "ended" => closing
  /\ shutdown \in {"cleaning", "done"} => cleaner \in {"none", "ended"}
  /\ shutdown \notin {"cleaning", "done"} => leftover = {}

RetirementInv ==
  /\ \A r \in Runtimes : PlaceInv(r) /\ MarkInv(r)
  /\ StopInv
  /\ QueuedOnce

-----------------------------------------------------------------------------
(* Liveness *)

(***************************************************************************)
(* Every invalidation that was accepted ends in cleanup_physical, through  *)
(* a full queue, through refused offers and through shutdown.              *)
(***************************************************************************)
CleanupFollows(r) == inv[r] = "dropped" ~> cleanups[r] = 1
PromisedCleanup == \A r \in Runtimes : CleanupFollows(r)
=============================================================================
