-------------------------- MODULE RetirementProofs --------------------------
(***************************************************************************)
(* Proofs about Retirement, for any runtimes, limits and thread failures.  *)
(***************************************************************************)
EXTENDS Retirement, TLAPS

USE DEF Invalidating, InvState, Retrying, RetryState

(* Next, one action per disjunct.                                          *)
LEMMA NextCases ==
  ASSUME Next
  PROVE  \/ \E r \in Runtimes : \/ Install(r) \/ Retire(r) \/ InvMark(r)
                                \/ InvOffer(r) \/ InvUnmark(r) \/ Ensure(r)
                                \/ Drop(r) \/ ShutdownClean(r)
         \/ \E x \in Releases : Release(x)
         \/ CleanerPop \/ CleanerTake \/ CleanerRun
         \/ RetryScan \/ RetryMark \/ RetryOffer \/ RetryUnmark \/ RetryWake
         \/ ShutdownBegin \/ ShutdownJoinRetry \/ ShutdownDrain \/ ShutdownSwap
         \/ ShutdownEnd
BY Zenon DEF Next, InvalidateStep, CleanerStep, RetryStep, ShutdownStep

(* An accepted item joins the queue and may start the cleanup worker.    *)
LEMMA AcceptsType ==
  ASSUME TypeOK, NEW x \in Runtimes \cup Releases, Accepts(x)
  PROVE  /\ queue' \in Seq(Runtimes \cup Releases)
         /\ closing' = closing /\ item' = item
         /\ cleaner' \in {"none", "idle", "popped", "cleaning", "ended"}
         /\ cleaner' \in {"popped", "cleaning"} => cleaner' = cleaner
BY DEF Accepts, TypeOK

(* What the cleanup worker pops is an item of the queue.                 *)
LEMMA FrontType ==
  ASSUME TypeOK, queue # <<>>
  PROVE  /\ Tail(queue) \in Seq(Runtimes \cup Releases)
         /\ Head(queue) \in Runtimes \cup Releases
BY DEF TypeOK

(* Every variable keeps its type: Spec => []TypeOK.                        *)
THEOREM TypeCorrect == Spec => []TypeOK
<1>1. Init => TypeOK
  <2> USE DEF Init, TypeOK
  <2>1. Init => restart \in BOOLEAN /\ stopping \in BOOLEAN /\ closing \in BOOLEAN
    BY Zenon
  <2>2. Init => queue \in Seq(Runtimes \cup Releases)
    OBVIOUS
  <2>3. QED
    BY <2>1, <2>2, RetirementAssumption
<1>2. TypeOK /\ [Next]_vars => TypeOK'
  <2> SUFFICES ASSUME TypeOK, [Next]_vars PROVE TypeOK'
    OBVIOUS
  <2> USE RetirementAssumption DEF TypeOK, retirementVars, queueVars, retryVars,
            cleanerVars, shutdownVars
  <2>1. ASSUME NEW r \in Runtimes, Install(r) PROVE TypeOK'
    BY <2>1 DEF Install
  <2>2. ASSUME NEW r \in Runtimes, Retire(r) PROVE TypeOK'
    <3>1. restart' \in BOOLEAN /\ retired' \in SUBSET Runtimes
      BY <2>2 DEF Retire
    <3>2. inv' \in [Runtimes -> InvState]
      BY <2>2 DEF Retire
    <3>3. QED
      BY <2>2, <3>1, <3>2 DEF Retire
  <2>3. ASSUME NEW r \in Runtimes, InvMark(r) PROVE TypeOK'
    BY <2>3 DEF InvMark
  <2>4. ASSUME NEW r \in Runtimes, InvOffer(r) PROVE TypeOK'
    <3>1. CASE Accepts(r)
      <4>1. inv' \in [Runtimes -> InvState]
        BY <2>4 DEF InvOffer
      <4>2. QED
        BY <2>4, <3>1, <4>1, AcceptsType DEF InvOffer
    <3>2. CASE Refuses
      BY <2>4, <3>2 DEF InvOffer, Refuses
    <3>3. QED
      BY <2>4, <3>1, <3>2 DEF InvOffer
  <2>5. ASSUME NEW r \in Runtimes, InvUnmark(r) PROVE TypeOK'
    BY <2>5 DEF InvUnmark
  <2>6. ASSUME NEW r \in Runtimes, Ensure(r) PROVE TypeOK'
    <3>1. restart' \in BOOLEAN
      BY <2>6 DEF Ensure
    <3>2. inv' \in [Runtimes -> InvState]
      BY <2>6 DEF Ensure
    <3>3. retry' \in RetryState /\ (retry' \in Retrying => candidate' \in Runtimes)
      BY <2>6 DEF Ensure
    <3>4. QED
      BY <2>6, <3>1, <3>2, <3>3 DEF Ensure
  <2>7. ASSUME NEW r \in Runtimes, Drop(r) PROVE TypeOK'
    BY <2>7 DEF Drop
  <2>8. ASSUME NEW r \in Runtimes, ShutdownClean(r) PROVE TypeOK'
    BY <2>8 DEF ShutdownClean
  <2>9. ASSUME NEW x \in Releases, Release(x) PROVE TypeOK'
    <3>1. CASE Accepts(x)
      BY <2>9, <3>1, AcceptsType DEF Release
    <3>2. CASE Refuses
      BY <2>9, <3>2 DEF Release, Refuses
    <3>3. QED
      BY <2>9, <3>1, <3>2 DEF Release
  <2>10. CASE CleanerPop
    <3>1. CASE queue # <<>>
      <4>1. queue' \in Seq(Runtimes \cup Releases) /\ item' \in Runtimes \cup Releases
        BY <2>10, <3>1, FrontType DEF CleanerPop
      <4>2. QED
        BY <2>10, <3>1, <4>1 DEF CleanerPop
    <3>2. CASE queue = <<>>
      BY <2>10, <3>2 DEF CleanerPop
    <3>3. QED
      BY <3>1, <3>2
  <2>11. CASE CleanerTake
    BY <2>11 DEF CleanerTake
  <2>12. CASE CleanerRun
    BY <2>12 DEF CleanerRun
  <2>13. CASE RetryScan
    BY <2>13 DEF RetryScan, Waiting
  <2>14. CASE RetryMark
    BY <2>14 DEF RetryMark
  <2>15. CASE RetryOffer
    <3>1. CASE Accepts(candidate)
      BY <2>15, <3>1, AcceptsType DEF RetryOffer
    <3>2. CASE Refuses
      BY <2>15, <3>2 DEF RetryOffer, Refuses
    <3>3. QED
      BY <2>15, <3>1, <3>2 DEF RetryOffer
  <2>16. CASE RetryUnmark
    BY <2>16 DEF RetryUnmark
  <2>17. CASE RetryWake
    BY <2>17 DEF RetryWake
  <2>18. CASE ShutdownBegin
    BY <2>18 DEF ShutdownBegin
  <2>19. CASE ShutdownJoinRetry
    BY <2>19 DEF ShutdownJoinRetry
  <2>20. CASE ShutdownDrain
    BY <2>20 DEF ShutdownDrain
  <2>21. CASE ShutdownSwap
    BY <2>21 DEF ShutdownSwap
  <2>22. CASE ShutdownEnd
    BY <2>22 DEF ShutdownEnd
  <2>23. CASE UNCHANGED vars
    BY <2>23 DEF vars
  <2>24. QED
    BY <2>1, <2>2, <2>3, <2>4, <2>5, <2>6, <2>7, <2>8, <2>9, <2>10, <2>11, <2>12, <2>13, <2>14, <2>15, <2>16, <2>17, <2>18, <2>19, <2>20, <2>21, <2>22, <2>23, NextCases
<1>3. QED
  BY <1>1, <1>2, PTL DEF Spec

-----------------------------------------------------------------------------
(* What the two queue operations do to membership.                         *)
LEMMA AppendMembers ==
  ASSUME TypeOK, NEW x \in Runtimes \cup Releases, queue' = Append(queue, x)
  PROVE  /\ \A y : Queued(y)' <=> Queued(y) \/ y = x
         /\ QueuedOnce /\ ~Queued(x) => QueuedOnce'
         /\ QueuedOnce /\ x \notin Runtimes => QueuedOnce'
         /\ queue' # <<>>
<1>1. /\ Len(queue) \in Nat /\ Len(queue') = Len(queue) + 1
      /\ \A i \in 1..Len(queue) : queue'[i] = queue[i]
      /\ queue'[Len(queue) + 1] = x
  BY DEF TypeOK
<1>2. \A i \in 1..Len(queue') : i \in 1..Len(queue) \/ i = Len(queue) + 1
  BY <1>1
<1>3. \A y : Queued(y)' <=> Queued(y) \/ y = x
  BY <1>1, <1>2 DEF Queued
<1>4. QED
  BY <1>1, <1>2, <1>3 DEF QueuedOnce, Queued

(* Popping removes exactly the first item.                               *)
LEMMA TailMembers ==
  ASSUME TypeOK, queue # <<>>, queue' = Tail(queue)
  PROVE  /\ \A y : Queued(y) <=> Queued(y)' \/ y = Head(queue)
         /\ QueuedOnce => QueuedOnce'
         /\ QueuedOnce => \A y \in Runtimes : y = Head(queue) => ~Queued(y)'
<1>1. /\ Len(queue) \in Nat \ {0} /\ Len(queue') = Len(queue) - 1
      /\ \A i \in 1..Len(queue') : queue'[i] = queue[i + 1]
      /\ queue[1] = Head(queue)
  BY DEF TypeOK
<1>2. \A i \in 1..Len(queue) : i = 1 \/ (i - 1 \in 1..Len(queue') /\ queue'[i - 1] = queue[i])
  BY <1>1
<1>3. \A i \in 1..Len(queue') : i + 1 \in 1..Len(queue)
  BY <1>1
<1>4. \A y : Queued(y) => Queued(y)' \/ y = Head(queue)
  BY <1>1, <1>2 DEF Queued
<1>5. \A y : Queued(y)' \/ y = Head(queue) => Queued(y)
  BY <1>1, <1>3 DEF Queued
<1>6. QueuedOnce => QueuedOnce'
  <2> SUFFICES ASSUME QueuedOnce, NEW i \in 1..Len(queue'), NEW j \in 1..Len(queue'),
                      queue'[i] = queue'[j], queue'[i] \in Runtimes
               PROVE  i = j
    BY DEF QueuedOnce
  <2>1. i + 1 = j + 1
    BY <1>1, <1>3 DEF QueuedOnce
  <2>2. QED
    BY <1>1, <2>1
<1>7. ASSUME QueuedOnce, NEW y \in Runtimes, y = Head(queue) PROVE ~Queued(y)'
  <2> SUFFICES ASSUME NEW i \in 1..Len(queue'), queue'[i] = y PROVE FALSE
    BY DEF Queued
  <2>1. 1 \in 1..Len(queue) /\ i + 1 \in 1..Len(queue) /\ queue[i + 1] = queue[1]
    BY <1>1, <1>3, <1>7
  <2>2. i + 1 = 1
    BY <1>1, <1>7, <2>1 DEF QueuedOnce
  <2>3. QED
    BY <2>2
<1>8. QED
  BY <1>4, <1>5, <1>6, <1>7

(* An untouched queue keeps its members.                                 *)
LEMMA SameMembers ==
  ASSUME UNCHANGED queue
  PROVE  /\ \A y : Queued(y)' <=> Queued(y)
         /\ QueuedOnce => QueuedOnce'
BY DEF Queued, QueuedOnce

-----------------------------------------------------------------------------
(***************************************************************************)
(* The invariant is inductive relative to the types.                       *)
(***************************************************************************)
LEMMA RetirementInit == Init => RetirementInv
BY RetirementAssumption DEF Init, RetirementInv, PlaceInv, MarkInv, StopInv,
  QueuedOnce, Known, Cleaning, Queued, Offering, Held

(* Every step of every thread keeps the retirement invariant.            *)
LEMMA RetirementStep ==
  ASSUME TypeOK, RetirementInv, [Next]_vars
  PROVE  RetirementInv'
  <2> USE RetirementAssumption DEF TypeOK, retirementVars, queueVars, retryVars,
            cleanerVars, shutdownVars, RetirementInv, PlaceInv, MarkInv, StopInv,
            Known, Cleaning, Offering, Held
  <2>1. ASSUME NEW r \in Runtimes, Install(r) PROVE RetirementInv'
    BY <2>1, SameMembers DEF Install
  <2>2. ASSUME NEW r \in Runtimes, Retire(r) PROVE RetirementInv'
    BY <2>2, SameMembers DEF Retire
  <2>3. ASSUME NEW r \in Runtimes, InvMark(r) PROVE RetirementInv'
    BY <2>3, SameMembers DEF InvMark
  <2>4. ASSUME NEW r \in Runtimes, InvOffer(r) PROVE RetirementInv'
    <3>1. CASE Accepts(r)
      <4>1. \A y : Queued(y)' <=> Queued(y) \/ y = r
        BY <3>1, AppendMembers DEF Accepts
      <4>2. ~Queued(r)
        BY <2>4 DEF InvOffer
      <4>3. QueuedOnce' /\ queue' # <<>>
        BY <3>1, <4>2, AppendMembers DEF Accepts
      <4>4. \A p \in Runtimes : PlaceInv(p)'
        BY <2>4, <3>1 DEF InvOffer, Accepts
      <4>5. \A p \in Runtimes : MarkInv(p)'
        <5>1. /\ inv' = [inv EXCEPT ![r] = "retained"]
              /\ UNCHANGED <<retired, scheduled, retry, candidate, item, shutdown>>
              /\ cleaner' = "popped" <=> cleaner = "popped"
          BY <2>4, <3>1 DEF InvOffer, Accepts, Refuses
        <5>2. MarkInv(r)'
          BY <2>4, <3>1, <4>1, <4>2, <5>1 DEF InvOffer, Accepts
        <5>3. ASSUME NEW p \in Runtimes \ {r} PROVE MarkInv(p)'
          BY <4>1, <5>1
        <5>4. QED
          BY <5>2, <5>3
      <4>6. StopInv'
        BY <2>4, <3>1, <4>3 DEF InvOffer, Accepts
      <4>7. QED
        BY <4>3, <4>4, <4>5, <4>6
    <3>2. CASE Refuses
      <4>1. /\ inv' = [inv EXCEPT ![r] = "refused"]
            /\ UNCHANGED <<retired, scheduled, retry, candidate, item, cleaner,
                          queue, closing, shutdown, leftover, sessions, stopping,
                          restart, cleanups>>
        BY <2>4, <3>2 DEF InvOffer, Accepts, Refuses
      <4>2. (\A y : Queued(y)' <=> Queued(y)) /\ QueuedOnce'
        BY <4>1, SameMembers
      <4>3. \A p \in Runtimes : MarkInv(p)'
        BY <2>4, <4>1, <4>2 DEF InvOffer
      <4>4. \A p \in Runtimes : PlaceInv(p)'
        BY <2>4, <4>1 DEF InvOffer
      <4>5. StopInv'
        BY <4>1
      <4>6. QED
        BY <4>2, <4>3, <4>4, <4>5
    <3>3. QED
      BY <2>4, <3>1, <3>2 DEF InvOffer
  <2>5. ASSUME NEW r \in Runtimes, InvUnmark(r) PROVE RetirementInv'
    BY <2>5, SameMembers DEF InvUnmark
  <2>6. ASSUME NEW r \in Runtimes, Ensure(r) PROVE RetirementInv'
    BY <2>6, SameMembers DEF Ensure
  <2>7. ASSUME NEW r \in Runtimes, Drop(r) PROVE RetirementInv'
    BY <2>7, SameMembers DEF Drop
  <2>8. ASSUME NEW r \in Runtimes, ShutdownClean(r) PROVE RetirementInv'
    BY <2>8, SameMembers DEF ShutdownClean
  <2>9. ASSUME NEW x \in Releases, Release(x) PROVE RetirementInv'
    BY <2>9, SameMembers, AppendMembers DEF Release, Accepts, Refuses
  <2>10. CASE CleanerPop
    <3>1. CASE queue # <<>>
      <4>1. \A y : Queued(y) <=> Queued(y)' \/ y = Head(queue)
        BY <2>10, <3>1, TailMembers DEF CleanerPop
      <4>2. QueuedOnce' /\ \A y \in Runtimes : y = Head(queue) => ~Queued(y)'
        BY <2>10, <3>1, TailMembers DEF CleanerPop
      <4>3. \A p \in Runtimes : PlaceInv(p)' /\ MarkInv(p)'
        BY <2>10, <3>1, <4>1, <4>2 DEF CleanerPop
      <4>4. StopInv'
        BY <2>10, <3>1 DEF CleanerPop
      <4>5. QED
        BY <4>2, <4>3, <4>4
    <3>2. CASE queue = <<>>
      BY <2>10, <3>2, SameMembers DEF CleanerPop
    <3>3. QED
      BY <3>1, <3>2
  <2>11. CASE CleanerTake
    BY <2>11, SameMembers DEF CleanerTake
  <2>12. CASE CleanerRun
    BY <2>12, SameMembers DEF CleanerRun
  <2>13. CASE RetryScan
    BY <2>13, SameMembers DEF RetryScan, Waiting
  <2>14. CASE RetryMark
    BY <2>14, SameMembers DEF RetryMark
  <2>15. CASE RetryOffer
    BY <2>15, SameMembers, AppendMembers DEF RetryOffer, Accepts, Refuses
  <2>16. CASE RetryUnmark
    BY <2>16, SameMembers DEF RetryUnmark
  <2>17. CASE RetryWake
    BY <2>17, SameMembers DEF RetryWake
  <2>18. CASE ShutdownBegin
    BY <2>18, SameMembers DEF ShutdownBegin
  <2>19. CASE ShutdownJoinRetry
    BY <2>19, SameMembers DEF ShutdownJoinRetry
  <2>20. CASE ShutdownDrain
    BY <2>20, SameMembers DEF ShutdownDrain
  <2>21. CASE ShutdownSwap
    <3>1. queue = <<>> /\ retry \in {"none", "ended"}
      BY <2>21 DEF ShutdownSwap
    <3>2. \A y : ~Queued(y) /\ ~Queued(y)'
      BY <2>21, <3>1 DEF ShutdownSwap, Queued
    <3>3. QED
      BY <2>21, <3>1, <3>2, SameMembers DEF ShutdownSwap
  <2>22. CASE ShutdownEnd
    BY <2>22, SameMembers DEF ShutdownEnd
  <2>23. CASE UNCHANGED vars
    BY <2>23, SameMembers DEF vars
  <2>24. QED
    BY <2>1, <2>2, <2>3, <2>4, <2>5, <2>6, <2>7, <2>8, <2>9, <2>10, <2>11, <2>12, <2>13, <2>14, <2>15, <2>16, <2>17, <2>18, <2>19, <2>20, <2>21, <2>22, <2>23, NextCases

(* Spec => []RetirementInv.                                                *)
THEOREM RetirementInvariant == Spec => []RetirementInv
<1>1. TypeOK /\ RetirementInv /\ [Next]_vars => RetirementInv'
  BY RetirementStep
<1>2. QED
  BY <1>1, RetirementInit, TypeCorrect, PTL DEF Spec

-----------------------------------------------------------------------------
(* cleanup_physical runs at most once per runtime.                         *)
THEOREM CleanedOnce == Spec => []CleanedAtMostOnce
<1>1. RetirementInv => CleanedAtMostOnce
  BY DEF RetirementInv, PlaceInv, CleanedAtMostOnce
<1>2. QED
  BY <1>1, RetirementInvariant, PTL

(* An accepted invalidation is never forgotten before its cleanup.         *)
THEOREM Retained == Spec => []RetainedUntilCleaned
<1>1. RetirementInv => RetainedUntilCleaned
  BY DEF RetirementInv, PlaceInv, Known, RetainedUntilCleaned
<1>2. QED
  BY <1>1, RetirementInvariant, PTL

(* A mark always has somebody behind it.                                   *)
THEOREM MarksOwned == Spec => []NoOrphanedMark
<1>1. TypeOK /\ RetirementInv => NoOrphanedMark
  BY DEF TypeOK, RetirementInv, MarkInv, NoOrphanedMark
<1>2. QED
  BY <1>1, RetirementInvariant, TypeCorrect, PTL

(* A runtime occupies at most one slot of the cleanup queue.               *)
THEOREM QueuedOnceOnly == Spec => []QueuedOnce
<1>1. RetirementInv => QueuedOnce
  BY DEF RetirementInv
<1>2. QED
  BY <1>1, RetirementInvariant, PTL

(* An invalidation without a guarantee is reported as restart-required.    *)
THEOREM Reported == Spec => []RestartReported
<1>1. RetirementInv => RestartReported
  BY DEF RetirementInv, PlaceInv, RestartReported
<1>2. QED
  BY <1>1, RetirementInvariant, PTL
=============================================================================
