--------------------------- MODULE CppObjectsProofs --------------------------
(***************************************************************************)
(* Theorems about CppObjects for any instances, addresses, handles,        *)
(* functions and calls.  First what the steps do to the queue, to the      *)
(* holds and to the registry; then ObjectsInv is inductive, one lemma per  *)
(* part of the invariant.                                                  *)
(***************************************************************************)
EXTENDS CppObjects, VectorTheorems

Entry == [object : Objects, handle : Handles]

-----------------------------------------------------------------------------
(* What the steps do *)

(* ManagedRef::reset leaves a queue of instances, with at most the         *)
(* instance it was given added.                                            *)
LEMMA ResetFacts ==
  ASSUME TypeOK, NEW x \in Objects \cup {None}, Reset(x)
  PROVE  /\ queue' \in Seq(Objects) /\ Len(queue') <= QueueCapacity /\ item' = item
         /\ ToSet(queue') \subseteq ToSet(queue) \cup ({x} \cap Objects)
<1>1. CASE x # None /\ Len(queue) < QueueCapacity
  <2>1. x \in Objects /\ queue \in Seq(Objects) /\ queue' = Append(queue, x)
    BY <1>1 DEF Reset, TypeOK
  <2>2. Len(queue') <= QueueCapacity
    <3>1. Len(queue) \in Nat /\ QueueCapacity \in Nat /\ Len(queue') = Len(queue) + 1
      BY <2>1, ObjectsAssumption, PushFacts
    <3> QED
      BY <3>1, <1>1
  <2> QED
    BY <2>1, <2>2, PushFacts DEF Reset
<1>2. CASE ~(x # None /\ Len(queue) < QueueCapacity)
  <2>1. queue' = queue
    BY <1>2 DEF Reset
  <2> QED
    BY <2>1 DEF Reset, TypeOK
<1> QED
  BY <1>1, <1>2

(* The instances after Settle: what is held lives, nothing was born.       *)
Settled ==
  /\ life' \in [Objects -> {"unborn", "live", "dead"}]
  /\ killer' \in [Objects -> Threads \cup {"nobody"}]
  /\ \A o \in Objects : Held(o)' => life'[o] = "live"
  /\ \A o \in Objects : life'[o] = "live" => life[o] = "live"
  /\ \A o \in Objects : life'[o] = "unborn" <=> life[o] = "unborn"

(* Settle destroys what nobody holds and nothing else.                     *)
LEMMA SettleFacts ==
  ASSUME TypeOK, HoldsKeepAlive, NEW thread \in Threads, Settle(thread),
         \A o \in Objects : Held(o)' => Held(o)
  PROVE  Settled
<1> DEFINE dying == {o \in Objects : life[o] = "live" /\ ~Held(o)'}
<1>1. /\ life' = [o \in Objects |-> IF o \in dying THEN "dead" ELSE life[o]]
      /\ killer' = [o \in Objects |-> IF o \in dying THEN thread ELSE killer[o]]
  BY DEF Settle
<1>2. \A o \in Objects : Held(o)' => o \notin dying /\ life[o] = "live"
  BY DEF HoldsKeepAlive
<1>3. \A o \in dying : life[o] = "live"
  OBVIOUS
<1> HIDE DEF dying
<1> QED
  BY <1>1, <1>2, <1>3 DEF TypeOK, Settled

(* The steps that end a hold: the last one destroys the instance.          *)
Release ==
  \/ \E o \in Objects : DropResult(o)
  \/ \E h \in Handles : Finalize(h)
  \/ \E f \in Functions : CollectFunction(f)
  \/ \E c \in Calls : CallEnd(c)
  \/ CleanerDrop

(* A step that gives up a hold destroys only what nobody holds any more,   *)
(* and the queue takes at most the hold that was given up.                 *)
LEMMA ReleaseFacts ==
  ASSUME TypeOK, HoldsKeepAlive, Release
  PROVE  /\ Settled /\ UNCHANGED address
         /\ queue' \in Seq(Objects) /\ Len(queue') <= QueueCapacity
         /\ item' \in Objects \cup {None}
<1> DEFINE Shrinks == \A p \in Objects : Held(p)' => Held(p)
<1>1. ASSUME NEW o \in Objects, DropResult(o)
      PROVE  Shrinks /\ (Settle("js") \/ Settle("worker")) /\ Reset(o) /\ UNCHANGED address
  <2>1. ToSet(queue') \subseteq ToSet(queue) \cup {o} /\ item' = item
    BY <1>1, ResetFacts DEF DropResult
  <2> QED
    BY <1>1, <2>1 DEF DropResult, Held, InUse, handleVars, functionVars, callVars, TypeOK
<1>2. ASSUME NEW h \in Handles, Finalize(h)
      PROVE  /\ Shrinks /\ (Settle("js") \/ Settle("worker")) /\ Reset(target[h])
             /\ UNCHANGED address
  <2>1. /\ ToSet(queue') \subseteq ToSet(queue) \cup ({target[h]} \cap Objects)
        /\ item' = item
    BY <1>2, ResetFacts DEF Finalize, TypeOK
  <2> QED
    BY <1>2, <2>1 DEF Finalize, Held, InUse, functionVars, callVars, TypeOK
<1>3. ASSUME NEW f \in Functions, CollectFunction(f)
      PROVE  /\ Shrinks /\ (Settle("js") \/ Settle("worker")) /\ Reset(receiver[f])
             /\ UNCHANGED address
  <2>1. /\ ToSet(queue') \subseteq ToSet(queue) \cup ({receiver[f]} \cap Objects)
        /\ item' = item
    BY <1>3, ResetFacts DEF CollectFunction, TypeOK
  <2> QED
    BY <1>3, <2>1 DEF CollectFunction, Held, InUse, handleVars, callVars, TypeOK
<1>4. ASSUME NEW c \in Calls, CallEnd(c)
      PROVE  Shrinks /\ Settle("worker") /\ Reset(callee[c]) /\ UNCHANGED address
  <2>1. /\ ToSet(queue') \subseteq ToSet(queue) \cup ({callee[c]} \cap Objects)
        /\ item' = item
    BY <1>4, ResetFacts DEF CallEnd, TypeOK
  <2> QED
    BY <1>4, <2>1 DEF CallEnd, Held, InUse, handleVars, functionVars, TypeOK
<1>5. ASSUME CleanerDrop
      PROVE  Shrinks /\ Settle("cleaner") /\ UNCHANGED <<address, queue>> /\ item' = None
  BY <1>5, ObjectsAssumption DEF CleanerDrop, Held, InUse, handleVars, functionVars, callVars,
     TypeOK
<1> HIDE DEF Shrinks
<1>6. ASSUME NEW x \in Objects \cup {None}, Reset(x)
      PROVE  /\ queue' \in Seq(Objects) /\ Len(queue') <= QueueCapacity
             /\ item' \in Objects \cup {None}
  BY <1>6, ResetFacts DEF TypeOK
<1>7. ASSUME NEW thread \in Threads, Settle(thread), Shrinks PROVE Settled
  BY <1>7, SettleFacts DEF Shrinks
<1>8. "js" \in Threads /\ "worker" \in Threads /\ "cleaner" \in Threads
  BY DEF Threads
<1>9. CASE CleanerDrop
  <2>1. Settled
    BY <1>9, <1>5, <1>7, <1>8
  <2> QED
    BY <2>1, <1>9, <1>5 DEF TypeOK
<1> QED
  <2>1. /\ \A h \in Handles : target[h] \in Objects \cup {None}
        /\ \A f \in Functions : receiver[f] \in Objects \cup {None}
        /\ \A c \in Calls : callee[c] \in Objects \cup {None}
    BY DEF TypeOK
  <2> QED
    BY <1>1, <1>2, <1>3, <1>4, <1>6, <1>7, <1>8, <1>9, <2>1 DEF Release

(* CppObjectRegistry::wrap: what is left of the registry (t), and either a *)
(* new handle or one that is there, or the report of a conflict.           *)
LEMMA WrapCases ==
  ASSUME TypeOK, RegistryInv, NEW o \in Objects, Wrap(o)
  PROVE  \E t \in Seq(Entry) :
           /\ IsInjective(t) /\ ToSet(t) \subseteq ToSet(entries)
           /\ \/ /\ \E h \in Handles : NewHandle(o, h, t)
                 /\ \A e \in ToSet(t) : e.object = o => Expired(e)
                 /\ \A e \in ToSet(entries) :
                       ~Expired(e) /\ handle[e.handle] = "reachable" => e \in ToSet(t)
              \/ /\ entries' = t /\ UNCHANGED <<handle, target>>
                 /\ \A e \in ToSet(entries) : ~Expired(e) => e \in ToSet(t)
                 /\ \/ UNCHANGED conflict
                    \/ \E e \in ToSet(entries) : Relevant(e, o) /\ ~Matches(e, o)
<1> DEFINE Living == {e \in ToSet(entries) : ~Expired(e)}
<1>0. /\ entries \in Seq(Entry) /\ IsInjective(entries)
      /\ ToSet(entries) \subseteq Entry
      /\ \A i \in DOMAIN entries : entries[i] \in ToSet(entries)
  <2>1. entries \in Seq(Entry)
    BY DEF TypeOK, Entry
  <2>2. \A i \in DOMAIN entries : entries[i] \in Entry
    BY <2>1
  <2> QED
    BY <2>1, <2>2 DEF RegistryInv, ToSet
<1>1. CASE ~\E i \in DOMAIN entries : Relevant(entries[i], o)
  <2> DEFINE t == Alive(entries)
  <2>1. PICK h \in Handles : NewHandle(o, h, t)
    BY <1>1 DEF Wrap
  <2>2. t \in Seq(Entry) /\ ToSet(t) = ToSet(entries) \cap Living /\ IsInjective(t)
    BY <1>0, KeptFacts DEF Alive
  <2>3. \A e \in ToSet(t) : e.object = o => Expired(e)
    BY <2>2, <1>1 DEF ToSet, Relevant, Matches
  <2> HIDE DEF t
  <2> QED
    BY <2>1, <2>2, <2>3
<1>2. CASE \E i \in DOMAIN entries : Relevant(entries[i], o)
  <2> DEFINE First(i) == /\ Relevant(entries[i], o)
                         /\ \A j \in 1 .. (i - 1) : ~Relevant(entries[j], o)
             i == CHOOSE i \in DOMAIN entries : First(i)
             before == Alive(SubSeq(entries, 1, i - 1))
             after == SubSeq(entries, i + 1, Len(entries))
             with == before \o <<entries[i]>> \o after
             without == before \o after
  <2>1. \E k \in DOMAIN entries : First(k)
    <3> DEFINE R == {k \in DOMAIN entries : Relevant(entries[k], o)}
    <3>1. DOMAIN entries = 1 .. Len(entries) /\ Len(entries) \in Nat
      BY <1>0
    <3>2. PICK k \in R : \A j \in R : k <= j
      <4>1. R \in SUBSET Nat /\ R # {}
        BY <1>2, <3>1
      <4> HIDE DEF R
      <4> QED
        BY <4>1, Least
    <3>3. \A j \in 1 .. (k - 1) : j \in DOMAIN entries /\ ~(k <= j)
      BY <3>1, <3>2
    <3> QED
      BY <3>2, <3>3
  <2>2. i \in DOMAIN entries /\ First(i)
    BY <2>1
  <2>3. \/ /\ ~Matches(entries[i], o)
           /\ entries' = with
           /\ UNCHANGED <<handle, target>>
        \/ /\ Matches(entries[i], o)
           /\ entries' = with
           /\ UNCHANGED <<handle, target, conflict>>
        \/ /\ Matches(entries[i], o)
           /\ handle[entries[i].handle] # "reachable"
           /\ \E h \in Handles : NewHandle(o, h, without)
    BY <1>2 DEF Wrap
  <2> HIDE DEF i
  <2> DEFINE left == SubSeq(entries, 1, i - 1)
             S == {e \in ToSet(left) : ~Expired(e)}
  <2>4. /\ with \in Seq(Entry) /\ IsInjective(with) /\ ToSet(with) \subseteq ToSet(entries)
        /\ \A e \in ToSet(entries) : (e \in ToSet(left) => e \in S) => e \in ToSet(with)
        /\ without \in Seq(Entry) /\ IsInjective(without)
        /\ ToSet(without) \subseteq ToSet(entries) \ {entries[i]}
        /\ \A e \in ToSet(entries) :
              e # entries[i] /\ (e \in ToSet(left) => e \in S) => e \in ToSet(without)
    BY <1>0, <2>2, SpliceFacts DEF Alive
  <2>5. Relevant(entries[i], o) /\ entries[i] \in ToSet(entries) /\ ~Expired(entries[i])
    BY <1>0, <2>2 DEF Relevant
  <2> HIDE DEF with, without, First, left
  <2>6. CASE ~Matches(entries[i], o)
    <3>1. entries' = with /\ UNCHANGED <<handle, target>>
      BY <2>3, <2>6
    <3> QED
      BY <2>4, <2>5, <2>6, <3>1
  <2>7. CASE Matches(entries[i], o) /\ entries' = with /\ UNCHANGED <<handle, target, conflict>>
    BY <2>4, <2>7
  <2>8. CASE /\ Matches(entries[i], o) /\ handle[entries[i].handle] # "reachable"
             /\ \E h \in Handles : NewHandle(o, h, without)
    <3>1. \A e \in ToSet(without) : e.object = o => Expired(e)
      BY <2>4, <2>5, <2>8 DEF RegistryInv, Matches
    <3>2. \A e \in ToSet(entries) :
            ~Expired(e) /\ handle[e.handle] = "reachable" => e \in ToSet(without)
      BY <2>4, <2>8
    <3> QED
      BY <2>4, <2>8, <3>1, <3>2
  <2> QED
    BY <2>3, <2>6, <2>7, <2>8
<1> QED
  BY <1>1, <1>2

-----------------------------------------------------------------------------
(* Types *)

(* Next as a list of actions.                                              *)
LEMMA NextCases ==
  ASSUME Next
  PROVE  \/ \E o \in Objects, a \in Addresses : Construct(o, a)
         \/ \E o \in Objects : ReturnAgain(o)
         \/ \E o \in Objects : DropResult(o)
         \/ \E o \in Objects : Wrap(o)
         \/ \E h \in Handles : Collect(h)
         \/ \E h \in Handles : Finalize(h)
         \/ \E h \in Handles, f \in Functions : GetMethod(h, f)
         \/ \E f \in Functions : CollectFunction(f)
         \/ \E f \in Functions, c \in Calls : CallAsync(f, c)
         \/ \E c \in Calls : CallEnd(c)
         \/ Purge \/ CleanerPop \/ CleanerDrop
  BY DEF Next

(* Every registry entry names an instance and a handle.                    *)
LEMMA EntryType == TypeOK => ToSet(entries) \subseteq Entry
<1> SUFFICES ASSUME TypeOK PROVE \A i \in DOMAIN entries : entries[i] \in Entry
  BY DEF ToSet
<1>1. entries \in Seq(Entry)
  BY DEF TypeOK, Entry
<1> QED
  BY <1>1

(* Every step keeps the types.                                             *)
LEMMA TypeStep == ObjectsInv /\ [Next]_vars => TypeOK'
<1> SUFFICES ASSUME ObjectsInv, [Next]_vars PROVE TypeOK'
  OBVIOUS
<1> USE ObjectsAssumption
<1>0. TypeOK /\ HoldsKeepAlive /\ RegistryInv
  BY DEF ObjectsInv
<1>1. ASSUME NEW o \in Objects, NEW a \in Addresses, Construct(o, a) PROVE TypeOK'
  BY <1>0, <1>1 DEF TypeOK, Construct, handleVars, functionVars, callVars, queueVars
<1>2. ASSUME NEW o \in Objects, ReturnAgain(o) PROVE TypeOK'
  BY <1>0, <1>2 DEF TypeOK, ReturnAgain, objectVars, handleVars, functionVars, callVars, queueVars
<1>3. ASSUME NEW o \in Objects, DropResult(o) PROVE TypeOK'
  BY <1>0, <1>3, ReleaseFacts DEF TypeOK, Release, Settled, DropResult, handleVars, functionVars, callVars
<1>4. ASSUME NEW o \in Objects, Wrap(o) PROVE TypeOK'
  <2>1. PICK t \in Seq(Entry) :
               (\E h \in Handles : NewHandle(o, h, t)) \/ (entries' = t /\ UNCHANGED <<handle, target>>)
    BY <1>0, <1>4, WrapCases
  <2>2. conflict' \in BOOLEAN
    BY <1>0, <1>4 DEF Wrap, NewHandle, TypeOK
  <2>3. UNCHANGED <<objectVars, address, results, functionVars, callVars, queueVars>>
    BY <1>4 DEF Wrap
  <2>4. ASSUME NEW h \in Handles, NewHandle(o, h, t)
        PROVE  /\ entries' \in Seq(Entry)
               /\ handle' \in [Handles -> {"free", "reachable", "collected", "gone"}]
               /\ target' \in [Handles -> Objects \cup {None}]
    <3>1. [object |-> o, handle |-> h] \in Entry
      BY DEF Entry
    <3> QED
      BY <1>0, <2>4, <3>1, PushFacts DEF NewHandle, TypeOK
  <2> QED
    BY <1>0, <2>1, <2>2, <2>3, <2>4 DEF TypeOK, Entry, objectVars, functionVars, callVars,
       queueVars
<1>5. ASSUME NEW h \in Handles, Collect(h) PROVE TypeOK'
  BY <1>0, <1>5 DEF TypeOK, Collect, objectVars, functionVars, callVars, queueVars
<1>6. ASSUME NEW h \in Handles, Finalize(h) PROVE TypeOK'
  BY <1>0, <1>6, ReleaseFacts DEF TypeOK, Release, Settled, Finalize, functionVars, callVars
<1>7. ASSUME NEW h \in Handles, NEW f \in Functions, GetMethod(h, f) PROVE TypeOK'
  BY <1>0, <1>7 DEF TypeOK, GetMethod, objectVars, handleVars, callVars, queueVars
<1>8. ASSUME NEW f \in Functions, CollectFunction(f) PROVE TypeOK'
  BY <1>0, <1>8, ReleaseFacts DEF TypeOK, Release, Settled, CollectFunction, handleVars, callVars
<1>9. ASSUME NEW f \in Functions, NEW c \in Calls, CallAsync(f, c) PROVE TypeOK'
  BY <1>0, <1>9 DEF TypeOK, CallAsync, objectVars, handleVars, queueVars
<1>10. ASSUME NEW c \in Calls, CallEnd(c) PROVE TypeOK'
  BY <1>0, <1>10, ReleaseFacts DEF TypeOK, Release, Settled, CallEnd, handleVars, functionVars
<1>11. CASE Purge
  BY <1>0, <1>11, KeptFacts DEF TypeOK, Purge, objectVars, functionVars, callVars, queueVars
<1>12. CASE CleanerPop
  BY <1>0, <1>12, PopFacts DEF TypeOK, CleanerPop, objectVars, handleVars, functionVars, callVars
<1>13. CASE CleanerDrop
  BY <1>0, <1>13, ReleaseFacts DEF TypeOK, Release, Settled, CleanerDrop, handleVars,
     functionVars, callVars
<1>14. CASE UNCHANGED vars
  BY <1>0, <1>14 DEF TypeOK, vars, objectVars, handleVars, functionVars, callVars, queueVars
<1> QED
  BY <1>1, <1>2, <1>3, <1>4, <1>5, <1>6, <1>7, <1>8, <1>9, <1>10, <1>11, <1>12, <1>13, <1>14,
     NextCases

-----------------------------------------------------------------------------
(* The invariant *)

(* No step drops the last hold of an instance and leaves it alive, or uses *)
(* the memory of a live instance again.                                    *)
LEMMA HoldsStep == ObjectsInv /\ [Next]_vars => HoldsKeepAlive'
<1> SUFFICES ASSUME ObjectsInv, [Next]_vars PROVE HoldsKeepAlive'
  OBVIOUS
<1>0. TypeOK /\ HoldsKeepAlive /\ RegistryInv /\ ReceiverInv /\ NoFalseConflict
  BY DEF ObjectsInv
<1>1. ASSUME NEW o \in Objects, NEW a \in Addresses, Construct(o, a) PROVE HoldsKeepAlive'
  <2>1. \A p \in Objects : Held(p)' => Held(p) \/ p = o
    BY <1>0, <1>1 DEF Construct, Held, InUse, handleVars, functionVars, callVars, queueVars, TypeOK
  <2>2. \A p \in Objects : p # o => life'[p] = life[p] /\ address'[p] = address[p]
    BY <1>0, <1>1 DEF Construct, TypeOK
  <2>3. life'[o] = "live" /\ address'[o] = a
    BY <1>0, <1>1 DEF Construct, TypeOK
  <2>4. \A p \in Objects : life[p] = "live" => address[p] # a
    BY <1>1 DEF Construct
  <2> QED
    BY <1>0, <2>1, <2>2, <2>3, <2>4 DEF HoldsKeepAlive
<1>2. ASSUME NEW o \in Objects, ReturnAgain(o) PROVE HoldsKeepAlive'
  <2>1. \A p \in Objects : Held(p)' => Held(p)
    BY <1>0, <1>2 DEF ReturnAgain, Held, InUse, handleVars, functionVars, callVars, queueVars
  <2> QED
    BY <1>0, <1>2, <2>1 DEF ReturnAgain, HoldsKeepAlive, objectVars
<1>3. ASSUME NEW o \in Objects, Wrap(o) PROVE HoldsKeepAlive'
  <2>1. PICK t \in Seq(Entry) :
               (\E h \in Handles : NewHandle(o, h, t)) \/ UNCHANGED <<handle, target>>
    BY <1>0, <1>3, WrapCases
  <2>2. /\ UNCHANGED <<objectVars, address, results, functionVars, callVars, queueVars>>
        /\ o \in results
    BY <1>3 DEF Wrap
  <2>3. \A g \in Handles, p \in Objects :
           target'[g] = p /\ handle'[g] \in {"reachable", "collected"}
             => p = o \/ (target[g] = p /\ handle[g] \in {"reachable", "collected"})
    BY <1>0, <2>1 DEF NewHandle, TypeOK
  <2>4. \A p \in Objects : Held(p)' => Held(p)
    BY <2>2, <2>3 DEF Held, InUse, functionVars, callVars, queueVars
  <2> QED
    BY <1>0, <2>2, <2>4 DEF HoldsKeepAlive, objectVars
<1>4. ASSUME NEW h \in Handles, Collect(h) PROVE HoldsKeepAlive'
  <2>1. \A p \in Objects : Held(p)' => Held(p)
    BY <1>0, <1>4 DEF Collect, Held, InUse, functionVars, callVars, queueVars, TypeOK
  <2> QED
    BY <1>0, <1>4, <2>1 DEF Collect, HoldsKeepAlive, objectVars
<1>5. ASSUME NEW h \in Handles, NEW f \in Functions, GetMethod(h, f) PROVE HoldsKeepAlive'
  <2>1. \A p \in Objects : Held(p)' => Held(p)
    BY <1>0, <1>5 DEF GetMethod, Held, InUse, handleVars, callVars, queueVars, TypeOK
  <2> QED
    BY <1>0, <1>5, <2>1 DEF GetMethod, HoldsKeepAlive, objectVars
<1>6. ASSUME NEW f \in Functions, NEW c \in Calls, CallAsync(f, c) PROVE HoldsKeepAlive'
  <2>1. \A p \in Objects : Held(p)' => Held(p)
    BY <1>0, <1>6, ObjectsAssumption DEF CallAsync, Held, InUse, handleVars, queueVars, TypeOK
  <2> QED
    BY <1>0, <1>6, <2>1 DEF CallAsync, HoldsKeepAlive, objectVars
<1>7. CASE Purge
  <2>1. \A p \in Objects : Held(p)' => Held(p)
    BY <1>0, <1>7 DEF Purge, Held, InUse, functionVars, callVars, queueVars
  <2> QED
    BY <1>0, <1>7, <2>1 DEF Purge, HoldsKeepAlive, objectVars
<1>8. CASE CleanerPop
  <2>1. ToSet(queue) = {Head(queue)} \cup ToSet(Tail(queue))
    BY <1>0, <1>8, PopFacts DEF CleanerPop, TypeOK
  <2>2. \A p \in Objects : Held(p)' => Held(p)
    BY <1>0, <1>8, <2>1 DEF CleanerPop, Held, InUse, handleVars, functionVars, callVars
  <2> QED
    BY <1>0, <1>8, <2>2 DEF CleanerPop, HoldsKeepAlive, objectVars
<1>9. CASE Release
  BY <1>0, <1>9, ReleaseFacts DEF HoldsKeepAlive, Settled
<1>10. CASE UNCHANGED vars
  BY <1>0, <1>10 DEF HoldsKeepAlive, Held, InUse, vars, objectVars, handleVars, functionVars,
     callVars, queueVars
<1> QED
  BY <1>1, <1>2, <1>3, <1>4, <1>5, <1>6, <1>7, <1>8, <1>9, <1>10,
     NextCases DEF Release

(* The registry after every step: wrap, purge, the collectors, and the     *)
(* death of instances.                                                     *)
LEMMA RegistryStep == ObjectsInv /\ [Next]_vars => RegistryInv'
<1> SUFFICES ASSUME ObjectsInv, [Next]_vars PROVE RegistryInv'
  OBVIOUS
<1>0. TypeOK /\ HoldsKeepAlive /\ RegistryInv /\ ReceiverInv /\ NoFalseConflict
  BY DEF ObjectsInv
<1>live. \A h \in Handles : handle[h] = "reachable" =>
         LET e == [object |-> target[h], handle |-> h] IN
         e \in ToSet(entries) /\ ~Expired(e) /\ handle[e.handle] = "reachable"
  <2>1. SUFFICES ASSUME NEW h \in Handles, handle[h] = "reachable"
                 PROVE  /\ [object |-> target[h], handle |-> h] \in ToSet(entries)
                        /\ life[target[h]] # "dead"
    BY DEF Expired
  <2>2. [object |-> target[h], handle |-> h] \in ToSet(entries)
    BY <1>0, <2>1 DEF RegistryInv
  <2>3. target[h] \in Objects
    BY <1>0, <2>2, EntryType DEF Entry
  <2>4. Held(target[h])
    BY <2>1 DEF Held, InUse
  <2> QED
    BY <1>0, <2>2, <2>3, <2>4 DEF HoldsKeepAlive
<1>1. ASSUME NEW o \in Objects, NEW a \in Addresses, Construct(o, a) PROVE RegistryInv'
  <2>1. \A p \in Objects : /\ life'[p] = "unborn" => life[p] = "unborn"
                           /\ life'[p] # "dead" /\ life[p] # "unborn" => life[p] # "dead"
    BY <1>0, <1>1 DEF Construct, TypeOK
  <2>2. \A e \in ToSet(entries) : e \in Entry
    BY <1>0, EntryType
  <2> QED
    BY <1>0, <1>1, <2>1, <2>2 DEF RegistryInv, Expired, Construct, handleVars, Entry
<1>2. ASSUME NEW o \in Objects, ReturnAgain(o) PROVE RegistryInv'
  BY <1>0, <1>2 DEF RegistryInv, Expired, ReturnAgain, objectVars, handleVars
<1>3. ASSUME NEW o \in Objects, Wrap(o) PROVE RegistryInv'
  <2>1. PICK t \in Seq(Entry) :
           /\ IsInjective(t) /\ ToSet(t) \subseteq ToSet(entries)
           /\ \/ /\ \E h \in Handles : NewHandle(o, h, t)
                 /\ \A e \in ToSet(t) : e.object = o => Expired(e)
                 /\ \A e \in ToSet(entries) :
                       ~Expired(e) /\ handle[e.handle] = "reachable" => e \in ToSet(t)
              \/ /\ entries' = t /\ UNCHANGED <<handle, target>>
                 /\ \A e \in ToSet(entries) : ~Expired(e) => e \in ToSet(t)
    BY <1>0, <1>3, WrapCases
  <2>2. life' = life /\ o \in results
    BY <1>3 DEF Wrap, objectVars
  <2>3. life[o] = "live"
    BY <1>0, <2>2 DEF HoldsKeepAlive, Held, InUse
  <2>4. CASE /\ entries' = t /\ UNCHANGED <<handle, target>>
             /\ \A e \in ToSet(entries) : ~Expired(e) => e \in ToSet(t)
    <3>1. \A h \in Handles : handle[h] = "reachable" =>
             [object |-> target[h], handle |-> h] \in ToSet(t)
      BY <1>0, <1>live, <2>4
    <3> QED
      BY <1>0, <2>1, <2>2, <2>4, <3>1 DEF RegistryInv, Expired
  <2>5. ASSUME NEW h \in Handles, NewHandle(o, h, t),
               \A e \in ToSet(t) : e.object = o => Expired(e),
               \A e \in ToSet(entries) :
                  ~Expired(e) /\ handle[e.handle] = "reachable" => e \in ToSet(t)
        PROVE  RegistryInv'
    <3> DEFINE new == [object |-> o, handle |-> h]
    <3>1. /\ handle[h] = "free" /\ handle' = [handle EXCEPT ![h] = "reachable"]
          /\ target' = [target EXCEPT ![h] = o] /\ entries' = Append(t, new)
      BY <2>5 DEF NewHandle
    <3>2. \A e \in ToSet(entries) : e.handle # h /\ e \in Entry
      BY <1>0, <3>1, EntryType DEF RegistryInv
    <3>3. new \in Entry /\ new \notin ToSet(t)
      BY <2>1, <3>2 DEF Entry
    <3>4. ToSet(entries') = ToSet(t) \cup {new} /\ IsInjective(entries')
      BY <2>1, <3>1, <3>3, PushFacts
    <3>5. /\ \A g \in Handles : g # h => handle'[g] = handle[g] /\ target'[g] = target[g]
          /\ handle'[h] = "reachable" /\ target'[h] = o
      BY <1>0, <3>1 DEF TypeOK
    <3>6. ASSUME NEW e \in ToSet(entries')
          PROVE  /\ target'[e.handle] = e.object /\ handle'[e.handle] # "free"
                 /\ life'[e.object] # "unborn"
      <4>1. CASE e = new
        BY <4>1, <2>2, <2>3, <3>5
      <4>2. CASE e \in ToSet(t)
        <5>1. e \in ToSet(entries) /\ e.handle \in Handles /\ e.handle # h
          BY <4>2, <2>1, <3>2 DEF Entry
        <5> QED
          BY <5>1, <1>0, <2>2, <3>5 DEF RegistryInv
      <4> QED
        BY <3>4, <4>1, <4>2
    <3>7. ASSUME NEW g \in Handles, handle'[g] = "reachable"
          PROVE  [object |-> target'[g], handle |-> g] \in ToSet(entries')
      <4>1. CASE g = h
        BY <4>1, <3>4, <3>5
      <4>2. CASE g # h
        <5> DEFINE e == [object |-> target[g], handle |-> g]
        <5>1. e \in ToSet(entries) /\ ~Expired(e) /\ handle[e.handle] = "reachable"
          BY <4>2, <3>5, <3>7, <1>live
        <5>2. e \in ToSet(t)
          BY <5>1, <2>5
        <5> QED
          BY <5>2, <4>2, <3>4, <3>5
      <4> QED
        BY <4>1, <4>2
    <3>8. ASSUME NEW d \in ToSet(entries'), NEW e \in ToSet(entries'), d.object = e.object,
                 life'[d.object] # "dead"
          PROVE  d = e
      <4>1. \A x \in ToSet(t) : x.object # o \/ life[o] = "dead"
        BY <2>5 DEF Expired
      <4>2. d # new /\ e # new => d = e
        BY <1>0, <2>1, <2>2, <3>4, <3>8 DEF RegistryInv, Expired
      <4> QED
        BY <4>1, <4>2, <2>3, <3>4, <3>8
    <3> QED
      BY <3>4, <3>6, <3>7, <3>8 DEF RegistryInv, Expired
  <2> QED
    BY <2>1, <2>4, <2>5
<1>4. ASSUME NEW h \in Handles, Collect(h) PROVE RegistryInv'
  <2>1. /\ entries' = entries /\ target' = target /\ life' = life
        /\ handle' = [handle EXCEPT ![h] = "collected"] /\ handle[h] = "reachable"
    BY <1>4 DEF Collect, objectVars
  <2>2. \A g \in Handles : /\ handle'[g] = "reachable" => handle[g] = "reachable"
                           /\ handle[g] # "free" => handle'[g] # "free"
    BY <1>0, <2>1 DEF TypeOK
  <2>3. \A e \in ToSet(entries) : e.handle \in Handles
    BY <1>0, EntryType DEF Entry
  <2> QED
    BY <1>0, <2>1, <2>2, <2>3 DEF RegistryInv, Expired
<1>5. ASSUME NEW h \in Handles, NEW f \in Functions, GetMethod(h, f) PROVE RegistryInv'
  BY <1>0, <1>5 DEF RegistryInv, Expired, GetMethod, objectVars, handleVars
<1>6. ASSUME NEW f \in Functions, NEW c \in Calls, CallAsync(f, c) PROVE RegistryInv'
  BY <1>0, <1>6 DEF RegistryInv, Expired, CallAsync, objectVars, handleVars
<1>7. CASE Purge
  <2> DEFINE S == {e \in ToSet(entries) : ~Expired(e) /\ handle[e.handle] = "reachable"}
  <2>1. entries' = Kept(entries, S) /\ UNCHANGED <<target, handle, life>>
    BY <1>7 DEF Purge, objectVars
  <2>2. ToSet(entries') = ToSet(entries) \cap S /\ IsInjective(entries')
    BY <1>0, <2>1, KeptFacts DEF TypeOK, RegistryInv
  <2>3. \A h \in Handles : handle[h] = "reachable" =>
           [object |-> target[h], handle |-> h] \in S
    BY <1>live
  <2> HIDE DEF S
  <2>4. \A e \in ToSet(entries') : e \in ToSet(entries)
    BY <2>2
  <2>5. \A h \in Handles : handle[h] = "reachable" =>
           [object |-> target[h], handle |-> h] \in ToSet(entries')
    BY <1>live, <2>2, <2>3
  <2> QED
    BY <1>0, <2>1, <2>2, <2>4, <2>5 DEF RegistryInv, Expired
<1>8. CASE CleanerPop
  BY <1>0, <1>8 DEF RegistryInv, Expired, CleanerPop, objectVars, handleVars
<1>9. CASE Release
  <2>1. entries' = entries /\ target' = target
    BY <1>9 DEF Release, DropResult, Finalize, CollectFunction, CallEnd, CleanerDrop, handleVars
  <2>2. \A g \in Handles : /\ handle'[g] = "reachable" => handle[g] = "reachable"
                           /\ handle[g] # "free" => handle'[g] # "free"
    BY <1>0, <1>9 DEF Release, DropResult, Finalize, CollectFunction, CallEnd, CleanerDrop,
       handleVars, TypeOK
  <2>3. \A e \in ToSet(entries) : e.handle \in Handles /\ e.object \in Objects
    BY <1>0, EntryType DEF Entry
  <2>4. \A o \in Objects : /\ life'[o] = "unborn" => life[o] = "unborn"
                           /\ life'[o] # "dead" => life[o] # "dead"
    <3>1. Settled
      BY <1>0, <1>9, ReleaseFacts
    <3> QED
      BY <1>0, <3>1 DEF Settled, TypeOK
  <2>r. /\ \A e \in ToSet(entries) :
              target[e.handle] = e.object /\ handle[e.handle] # "free" /\ life[e.object] # "unborn"
        /\ \A h \in Handles : handle[h] = "reachable" =>
              [object |-> target[h], handle |-> h] \in ToSet(entries)
        /\ \A d, e \in ToSet(entries) : d.object = e.object /\ life[e.object] # "dead" => d = e
    BY <1>0 DEF RegistryInv, Expired
  <2>5. ASSUME NEW d \in ToSet(entries), NEW e \in ToSet(entries),
               d.object = e.object, life'[e.object] # "dead"
        PROVE  d = e
    <3>1. life[e.object] # "dead"
      BY <2>3, <2>4, <2>5
    <3> QED
      BY <2>r, <2>5, <3>1
  <2>6. ASSUME NEW e \in ToSet(entries)
        PROVE  target[e.handle] = e.object /\ handle'[e.handle] # "free" /\ life'[e.object] # "unborn"
    <3>1. e.handle \in Handles /\ e.object \in Objects
      BY <2>3
    <3>2. target[e.handle] = e.object /\ handle[e.handle] # "free" /\ life[e.object] # "unborn"
      BY <2>r
    <3> QED
      BY <2>2, <2>4, <3>1, <3>2
  <2>7. ASSUME NEW h \in Handles, handle'[h] = "reachable"
        PROVE  [object |-> target[h], handle |-> h] \in ToSet(entries)
    <3>1. handle[h] = "reachable"
      BY <2>2, <2>7
    <3> QED
      BY <2>r, <3>1
  <2>8. IsInjective(entries)
    BY <1>0 DEF RegistryInv
  <2> QED
    BY <2>1, <2>5, <2>6, <2>7, <2>8 DEF RegistryInv, Expired
<1>10. CASE UNCHANGED vars
  BY <1>0, <1>10 DEF RegistryInv, Expired, vars, objectVars, handleVars
<1> QED
  BY <1>1, <1>2, <1>3, <1>4, <1>5, <1>6, <1>7, <1>8, <1>9, <1>10,
     NextCases DEF Release

(* A function has its receiver until the one call that takes it.           *)
LEMMA ReceiverStep == ObjectsInv /\ [Next]_vars => ReceiverInv'
<1> SUFFICES ASSUME ObjectsInv, [Next]_vars PROVE ReceiverInv'
  OBVIOUS
<1>0. TypeOK /\ HoldsKeepAlive /\ RegistryInv /\ ReceiverInv /\ NoFalseConflict
  BY DEF ObjectsInv
<1>1. ASSUME NEW o \in Objects, NEW a \in Addresses, Construct(o, a) PROVE ReceiverInv'
  BY <1>0, <1>1 DEF ReceiverInv, Construct, functionVars, callVars
<1>2. ASSUME NEW o \in Objects, ReturnAgain(o) PROVE ReceiverInv'
  BY <1>0, <1>2 DEF ReceiverInv, ReturnAgain, functionVars, callVars
<1>3. ASSUME NEW o \in Objects, Wrap(o) PROVE ReceiverInv'
  BY <1>0, <1>3 DEF ReceiverInv, Wrap, functionVars, callVars
<1>4. ASSUME NEW h \in Handles, Collect(h) PROVE ReceiverInv'
  BY <1>0, <1>4 DEF ReceiverInv, Collect, functionVars, callVars
<1>5. ASSUME NEW h \in Handles, NEW f \in Functions, GetMethod(h, f) PROVE ReceiverInv'
  <2>1. target[h] \in Objects
    <3>1. [object |-> target[h], handle |-> h] \in Entry
      BY <1>0, <1>5, EntryType DEF GetMethod, RegistryInv
    <3> QED
      BY <3>1 DEF Entry
  <2> QED
    BY <1>0, <1>5, <2>1 DEF ReceiverInv, GetMethod, callVars, TypeOK
<1>6. ASSUME NEW f \in Functions, NEW c \in Calls, CallAsync(f, c) PROVE ReceiverInv'
  <2>1. CallsPerFunction <= 1 => used[f] = 0
    BY <1>0, <1>6, ObjectsAssumption DEF CallAsync, TypeOK
  <2>2. used'[f] = used[f] + 1 /\ used'[f] # 0
    BY <1>0, <1>6, ObjectsAssumption DEF CallAsync, TypeOK
  <2> QED
    BY <1>0, <1>6, <2>1, <2>2 DEF ReceiverInv, CallAsync, TypeOK
<1>7. CASE Purge
  BY <1>0, <1>7 DEF ReceiverInv, Purge, functionVars, callVars
<1>8. CASE CleanerPop
  BY <1>0, <1>8 DEF ReceiverInv, CleanerPop, functionVars, callVars
<1>9. CASE Release
  BY <1>0, <1>9 DEF ReceiverInv, Release, DropResult, Finalize, CollectFunction, CallEnd,
     CleanerDrop, functionVars, callVars, TypeOK
<1>10. CASE UNCHANGED vars
  BY <1>0, <1>10 DEF ReceiverInv, vars, functionVars, callVars
<1> QED
  BY <1>1, <1>2, <1>3, <1>4, <1>5, <1>6, <1>7, <1>8, <1>9, <1>10,
     NextCases DEF Release

(* Two owners at one address are never both alive.                         *)
LEMMA ConflictStep == ObjectsInv /\ [Next]_vars => NoFalseConflict'
<1> SUFFICES ASSUME ObjectsInv, [Next]_vars PROVE NoFalseConflict'
  OBVIOUS
<1>0. TypeOK /\ HoldsKeepAlive /\ RegistryInv /\ ReceiverInv /\ NoFalseConflict
  BY DEF ObjectsInv
<1>1. ASSUME NEW o \in Objects, NEW a \in Addresses, Construct(o, a) PROVE NoFalseConflict'
  BY <1>0, <1>1 DEF NoFalseConflict, Construct, handleVars
<1>2. ASSUME NEW o \in Objects, ReturnAgain(o) PROVE NoFalseConflict'
  BY <1>0, <1>2 DEF NoFalseConflict, ReturnAgain, handleVars
<1>3. ASSUME NEW o \in Objects, Wrap(o) PROVE NoFalseConflict'
  <2>1. ~\E e \in ToSet(entries) : Relevant(e, o) /\ ~Matches(e, o)
    <3>1. SUFFICES ASSUME NEW e \in ToSet(entries), ~Expired(e), SameAddress(e, o)
                   PROVE  e.object = o
      BY DEF Relevant, Matches
    <3>2. e.object \in Objects
      BY <1>0, EntryType DEF Entry
    <3>3. life[e.object] = "live"
      BY <1>0, <3>1, <3>2 DEF RegistryInv, Expired, TypeOK
    <3>4. life[o] = "live"
      BY <1>0, <1>3 DEF Wrap, HoldsKeepAlive, Held, InUse
    <3> QED
      BY <1>0, <3>1, <3>2, <3>3, <3>4 DEF HoldsKeepAlive, SameAddress
  <2>2. conflict' = conflict
    BY <1>0, <1>3, <2>1, WrapCases DEF NewHandle
  <2> QED
    BY <1>0, <2>2 DEF NoFalseConflict
<1>4. ASSUME NEW h \in Handles, Collect(h) PROVE NoFalseConflict'
  BY <1>0, <1>4 DEF NoFalseConflict, Collect, handleVars
<1>5. ASSUME NEW h \in Handles, NEW f \in Functions, GetMethod(h, f) PROVE NoFalseConflict'
  BY <1>0, <1>5 DEF NoFalseConflict, GetMethod, handleVars
<1>6. ASSUME NEW f \in Functions, NEW c \in Calls, CallAsync(f, c) PROVE NoFalseConflict'
  BY <1>0, <1>6 DEF NoFalseConflict, CallAsync, handleVars
<1>7. CASE Purge
  BY <1>0, <1>7 DEF NoFalseConflict, Purge, handleVars
<1>8. CASE CleanerPop
  BY <1>0, <1>8 DEF NoFalseConflict, CleanerPop, handleVars
<1>9. CASE Release
  BY <1>0, <1>9 DEF NoFalseConflict, Release, DropResult, Finalize, CollectFunction, CallEnd,
     CleanerDrop, handleVars
<1>10. CASE UNCHANGED vars
  BY <1>0, <1>10 DEF NoFalseConflict, vars, handleVars
<1> QED
  BY <1>1, <1>2, <1>3, <1>4, <1>5, <1>6, <1>7, <1>8, <1>9, <1>10,
     NextCases DEF Release

-----------------------------------------------------------------------------
(* Theorems *)

(* No instance, handle or call exists at first.                            *)
LEMMA ObjectsInit == Init => ObjectsInv
<1> SUFFICES ASSUME Init PROVE ObjectsInv
  OBVIOUS
<1>1. ToSet(entries) = {} /\ ToSet(queue) = {} /\ IsInjective(entries)
  BY DEF Init, ToSet, IsInjective
<1>2. TypeOK
  <2>1. 0 \in 0 .. CallsPerFunction /\ 0 <= QueueCapacity
    BY ObjectsAssumption
  <2>2. /\ entries \in Seq([object : Objects, handle : Handles])
        /\ queue \in Seq(Objects) /\ Len(queue) = 0
    BY DEF Init
  <2> QED
    BY <2>1, <2>2 DEF Init, TypeOK
<1>3. HoldsKeepAlive
  BY <1>1, ObjectsAssumption DEF Init, HoldsKeepAlive, Held, InUse
<1>4. RegistryInv
  BY <1>1 DEF Init, RegistryInv
<1>5. ReceiverInv
  BY DEF Init, ReceiverInv
<1> QED
  BY <1>2, <1>3, <1>4, <1>5 DEF ObjectsInv, NoFalseConflict, Init

(* ObjectsInv holds in every reachable state, for any number of instances, *)
(* addresses, handles, functions and calls.                                *)
THEOREM ObjectsInvariant == Spec => []ObjectsInv
<1>1. Init => ObjectsInv
  BY ObjectsInit
<1>2. ObjectsInv /\ [Next]_vars => ObjectsInv'
  BY TypeStep, HoldsStep, RegistryStep, ReceiverStep, ConflictStep DEF ObjectsInv
<1> QED
  BY <1>1, <1>2, PTL DEF Spec

(* Object identity (CppObjectRegistry::wrap): JavaScript never reaches two *)
(* handles of one instance, whatever the collector, the cleanup worker and *)
(* purge do, and however often memory is used again.                       *)
THEOREM HandleUnique == Spec => []OneHandle
<1>1. ObjectsInv => OneHandle
  <2> SUFFICES ASSUME ObjectsInv, NEW g \in Handles, NEW h \in Handles,
                      handle[g] = "reachable", handle[h] = "reachable", target[g] = target[h]
               PROVE  g = h
    BY DEF OneHandle
  <2> DEFINE d == [object |-> target[g], handle |-> g]
             e == [object |-> target[h], handle |-> h]
  <2>1. d \in ToSet(entries) /\ e \in ToSet(entries)
    BY DEF ObjectsInv, RegistryInv
  <2>2. target[g] \in Objects
    BY <2>1, EntryType DEF ObjectsInv, Entry
  <2>3. life[target[g]] = "live"
    BY <2>2 DEF ObjectsInv, HoldsKeepAlive, Held, InUse
  <2>4. d = e
    BY <2>1, <2>3 DEF ObjectsInv, RegistryInv, Expired
  <2> QED
    BY <2>4
<1> QED
  BY <1>1, ObjectsInvariant, PTL

(* "conflicting C++ shared owners" is never reported for memory that was   *)
(* used again (CppObjectRegistry::wrap).                                   *)
THEOREM ConflictHonest == Spec => []NoFalseConflict
<1>1. ObjectsInv => NoFalseConflict
  BY DEF ObjectsInv
<1> QED
  BY <1>1, ObjectsInvariant, PTL

(* An accepted call has a living receiver when JavaScript calls every      *)
(* function value at most once; MCCppObjects_reuse shows what a second     *)
(* call does (_async_host_function).                                       *)
THEOREM ReceiverSafe == CallsPerFunction <= 1 => (Spec => []ReceiverRetained)
<1> SUFFICES ASSUME CallsPerFunction <= 1 PROVE Spec => []ReceiverRetained
  OBVIOUS
<1>1. ObjectsInv => ReceiverRetained
  BY DEF ObjectsInv, ReceiverInv, ReceiverRetained, HoldsKeepAlive, Held, InUse
<1> QED
  BY <1>1, ObjectsInvariant, PTL
=============================================================================
