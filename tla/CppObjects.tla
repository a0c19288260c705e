----------------------------- MODULE CppObjects -----------------------------
(***************************************************************************)
(* C++ objects that JavaScript holds: ManagedRef, the handle that wraps an *)
(* instance (CppObjectHandle), the registry that keeps one handle per      *)
(* instance (CppObjectRegistry), the method functions a handle's get()     *)
(* returns and the asynchronous calls made through them.                   *)
(*                                                                         *)
(* An instance lives as long as somebody holds it, and dies on the thread  *)
(* that gives up the last hold.  ManagedRef::reset passes its hold to the  *)
(* cleanup queue, or drops it where it is when the queue refuses.  The     *)
(* garbage collector first breaks the weak reference of a handle and runs  *)
(* the destructor some time later.  The memory of a dead instance may be   *)
(* used again, so two instances may have had one address.                  *)
(*                                                                         *)
(* Every class here has one nominal type.  A plugin's own shared_ptrs are  *)
(* not modelled.                                                           *)
(***************************************************************************)
EXTENDS Naturals, Sequences, FiniteSets, SequencesExt, Vectors

CONSTANTS
  Objects,           (* native instances                                    *)
  Addresses,         (* where they may lie                                  *)
  Handles,           (* JavaScript host objects                             *)
  Functions,         (* method functions taken from handles                 *)
  Calls,             (* asynchronous method calls                           *)
  CallsPerFunction,  (* how often JavaScript calls one function value       *)
  QueueCapacity,     (* capacity of DeferredDestruction                     *)
  None

ASSUME ObjectsAssumption ==
  /\ None \notin Objects \cup Addresses
  /\ CallsPerFunction \in Nat
  /\ QueueCapacity \in Nat \ {0}

VARIABLES
  life,        (* of an instance: "unborn", "live" or "dead"                *)
  address,     (* its address                                               *)
  killer,      (* the thread that ran its destructor                        *)
  results,     (* instances that a call's result state holds                *)
  entries,     (* CppObjectRegistry::entries_                               *)
  target,      (* the instance of a handle                                  *)
  handle,      (* "free", "reachable", "collected" or "gone"                *)
  receiver,    (* the instance a method function has captured               *)
  function,    (* "free", "reachable" or "gone"                             *)
  used,        (* calls made through a function                             *)
  callee,      (* the receiver of an asynchronous call                      *)
  call,        (* "free", "running" or "ended"                              *)
  queue,       (* the cleanup queue: the holds that wait to be dropped      *)
  item,        (* the hold the cleanup worker is dropping                   *)
  conflict     (* wrap has reported conflicting owners                      *)

objectVars   == <<life, killer>>
handleVars   == <<target, handle, entries, conflict>>
functionVars == <<receiver, function, used>>
callVars     == <<callee, call>>
queueVars    == <<queue, item>>
vars == <<objectVars, address, results, handleVars, functionVars, callVars,
          queueVars>>

Threads == {"js", "worker", "cleaner"}

TypeOK ==
  /\ life \in [Objects -> {"unborn", "live", "dead"}]
  /\ address \in [Objects -> Addresses \cup {None}]
  /\ killer \in [Objects -> Threads \cup {"nobody"}]
  /\ results \in SUBSET Objects
  /\ entries \in Seq([object : Objects, handle : Handles])
  /\ target \in [Handles -> Objects \cup {None}]
  /\ handle \in [Handles -> {"free", "reachable", "collected", "gone"}]
  /\ receiver \in [Functions -> Objects \cup {None}]
  /\ function \in [Functions -> {"free", "reachable", "gone"}]
  /\ used \in [Functions -> 0..CallsPerFunction]
  /\ callee \in [Calls -> Objects \cup {None}]
  /\ call \in [Calls -> {"free", "running", "ended"}]
  /\ queue \in Seq(Objects)
  /\ Len(queue) <= QueueCapacity
  /\ item \in Objects \cup {None}
  /\ conflict \in BOOLEAN

Init ==
  /\ life = [o \in Objects |-> "unborn"]
  /\ address = [o \in Objects |-> None]
  /\ killer = [o \in Objects |-> "nobody"]
  /\ results = {}
  /\ entries = <<>>
  /\ target = [h \in Handles |-> None]
  /\ handle = [h \in Handles |-> "free"]
  /\ receiver = [f \in Functions |-> None]
  /\ function = [f \in Functions |-> "free"]
  /\ used = [f \in Functions |-> 0]
  /\ callee = [c \in Calls |-> None]
  /\ call = [c \in Calls |-> "free"]
  /\ queue = <<>>
  /\ item = None
  /\ conflict = FALSE

-----------------------------------------------------------------------------
(* Ownership *)

(* What JavaScript, or a call on its behalf, holds.                        *)
InUse(o) ==
  \/ o \in results
  \/ \E h \in Handles : target[h] = o /\ handle[h] \in {"reachable", "collected"}
  \/ \E f \in Functions : receiver[f] = o /\ function[f] = "reachable"
  \/ \E c \in Calls : callee[c] = o /\ call[c] = "running"

(* Fault: an accepted call does not hold its receiver.                     *)
HeldByOthers(o) ==
  \/ o \in results
  \/ \E h \in Handles : target[h] = o /\ handle[h] \in {"reachable", "collected"}
  \/ \E f \in Functions : receiver[f] = o /\ function[f] = "reachable"
  \/ o \in ToSet(queue)
  \/ item = o

(* The control block's count is not zero.                                  *)
Held(o) == InUse(o) \/ o \in ToSet(queue) \/ item = o

(* After a step of `thread` the instances nobody holds are destroyed there.*)
Settle(thread) ==
  LET dying == {o \in Objects : life[o] = "live" /\ ~Held(o)'} IN
  /\ life' = [o \in Objects |-> IF o \in dying THEN "dead" ELSE life[o]]
  /\ killer' = [o \in Objects |-> IF o \in dying THEN thread ELSE killer[o]]

(* ManagedRef::reset: the queue takes the hold, or it ends here.  A        *)
(* ManagedRef that was moved from holds nothing.                           *)
Reset(o) ==
  /\ queue' = IF o # None /\ Len(queue) < QueueCapacity
              THEN Append(queue, o) ELSE queue
  /\ UNCHANGED item

(* The cleanup worker takes the front item and drops its hold.             *)
CleanerPop ==
  /\ item = None
  /\ queue # <<>>
  /\ item' = Head(queue)
  /\ queue' = Tail(queue)
  /\ UNCHANGED <<objectVars, address, results, handleVars, functionVars, callVars>>

(* Fault: the worker forgets the item without dropping its hold.           *)
CleanerForget ==
  /\ item # None
  /\ item' = None
  /\ UNCHANGED <<queue, objectVars, address, results, handleVars, functionVars,
                 callVars>>

CleanerDrop ==
  /\ item # None
  /\ item' = None
  /\ UNCHANGED <<queue, address, results, handleVars, functionVars, callVars>>
  /\ Settle("cleaner")

-----------------------------------------------------------------------------
(* Results and handles *)

(* An implementation returns a new instance, at an address that no live    *)
(* instance has.                                                           *)
Construct(o, a) ==
  /\ life[o] = "unborn"
  /\ \A p \in Objects : life[p] = "live" => address[p] # a
  /\ life' = [life EXCEPT ![o] = "live"]
  /\ address' = [address EXCEPT ![o] = a]
  /\ results' = results \cup {o}
  /\ UNCHANGED <<killer, handleVars, functionVars, callVars, queueVars>>

(* An implementation returns an instance it already knows.                 *)
ReturnAgain(o) ==
  /\ o \notin results
  /\ InUse(o)
  /\ results' = results \cup {o}
  /\ UNCHANGED <<objectVars, address, handleVars, functionVars, callVars, queueVars>>

(* The result state is destroyed once the promise is settled, by the       *)
(* completion on the JavaScript thread or by the worker's closure.         *)
DropResult(o) ==
  /\ o \in results
  /\ results' = results \ {o}
  /\ Reset(o)
  /\ UNCHANGED <<address, handleVars, functionVars, callVars>>
  /\ Settle("js") \/ Settle("worker")

Expired(e) == life[e.object] = "dead"
SameAddress(e, o) == address[e.object] = address[o]

(* CppObjectIdentity::matches: the address and the owner agree.            *)
Matches(e, o) == e.object = o

(* Fault: the scan does not notice that an entry's instance is dead.       *)
RelevantDead(e, o) == Matches(e, o) \/ SameAddress(e, o)

(* The scan of wrap ends at an entry that still lives and either matches   *)
(* or lies at the same address.                                            *)
Relevant(e, o) == ~Expired(e) /\ (Matches(e, o) \/ SameAddress(e, o))

Alive(s) == Kept(s, {e \in ToSet(s) : ~Expired(e)})

(* wrap creates a handle and appends its entry.                            *)
NewHandle(o, h, kept) ==
  /\ handle[h] = "free"
  /\ handle' = [handle EXCEPT ![h] = "reachable"]
  /\ target' = [target EXCEPT ![h] = o]
  /\ entries' = Append(kept, [object |-> o, handle |-> h])
  /\ UNCHANGED conflict

(* Fault: wrap does not look for the handle it has given out before.       *)
WrapAnew(o) ==
  /\ o \in results
  /\ \E h \in Handles : NewHandle(o, h, Alive(entries))
  /\ UNCHANGED <<objectVars, address, results, functionVars, callVars, queueVars>>

(* CppObjectRegistry::wrap.  Expired entries before the one that counts    *)
(* are erased; an entry whose handle was collected is replaced.            *)
Wrap(o) ==
  /\ o \in results
  /\ IF ~\E i \in DOMAIN entries : Relevant(entries[i], o)
     THEN \E h \in Handles : NewHandle(o, h, Alive(entries))
     ELSE LET i == CHOOSE i \in DOMAIN entries :
                      /\ Relevant(entries[i], o)
                      /\ \A j \in 1..(i - 1) : ~Relevant(entries[j], o)
              before == Alive(SubSeq(entries, 1, i - 1))
              after  == SubSeq(entries, i + 1, Len(entries))
              known  == entries[i].handle
          IN  \/ /\ ~Matches(entries[i], o)
                 /\ conflict' = TRUE
                 /\ entries' = before \o <<entries[i]>> \o after
                 /\ UNCHANGED <<handle, target>>
              \/ /\ Matches(entries[i], o)
                 /\ handle[known] = "reachable"
                 /\ entries' = before \o <<entries[i]>> \o after
                 /\ UNCHANGED <<handle, target, conflict>>
              \/ /\ Matches(entries[i], o)
                 /\ handle[known] # "reachable"
                 /\ \E h \in Handles : NewHandle(o, h, before \o after)
  /\ UNCHANGED <<objectVars, address, results, functionVars, callVars, queueVars>>

(* CppObjectRegistry::purge.                                               *)
Purge ==
  /\ entries' = Kept(entries, {e \in ToSet(entries) :
                                ~Expired(e) /\ handle[e.handle] = "reachable"})
  /\ UNCHANGED <<objectVars, address, results, target, handle, conflict,
                 functionVars, callVars, queueVars>>

(* The collector finds a handle unreachable: WeakObject::lock fails.       *)
Collect(h) ==
  /\ handle[h] = "reachable"
  /\ handle' = [handle EXCEPT ![h] = "collected"]
  /\ UNCHANGED <<objectVars, address, results, target, entries, conflict,
                 functionVars, callVars, queueVars>>

(* Its destructor runs, on a thread the engine chooses.                    *)
Finalize(h) ==
  /\ handle[h] = "collected"
  /\ handle' = [handle EXCEPT ![h] = "gone"]
  /\ Reset(target[h])
  /\ UNCHANGED <<address, results, target, entries, conflict, functionVars,
                 callVars>>
  /\ Settle("js") \/ Settle("worker")

-----------------------------------------------------------------------------
(* Method functions and asynchronous calls *)

(* get() returns a function that has captured this->managed_ref().         *)
GetMethod(h, f) ==
  /\ handle[h] = "reachable"
  /\ function[f] = "free"
  /\ function' = [function EXCEPT ![f] = "reachable"]
  /\ receiver' = [receiver EXCEPT ![f] = target[h]]
  /\ UNCHANGED <<objectVars, address, results, handleVars, used, callVars, queueVars>>

CollectFunction(f) ==
  /\ function[f] = "reachable"
  /\ function' = [function EXCEPT ![f] = "gone"]
  /\ Reset(receiver[f])
  /\ UNCHANGED <<address, results, handleVars, receiver, used, callVars>>
  /\ Settle("js") \/ Settle("worker")

(* A call through the function.  The host function is `mutable` and moves  *)
(* its captured receiver into the call.                                    *)
CallAsync(f, c) ==
  /\ function[f] = "reachable"
  /\ used[f] < CallsPerFunction
  /\ call[c] = "free"
  /\ used' = [used EXCEPT ![f] = @ + 1]
  /\ call' = [call EXCEPT ![c] = "running"]
  /\ callee' = [callee EXCEPT ![c] = receiver[f]]
  /\ receiver' = [receiver EXCEPT ![f] = None]
  /\ UNCHANGED <<objectVars, address, results, handleVars, function, queueVars>>

(* The worker's closure is destroyed when the implementation has returned. *)
CallEnd(c) ==
  /\ call[c] = "running"
  /\ call' = [call EXCEPT ![c] = "ended"]
  /\ Reset(callee[c])
  /\ UNCHANGED <<address, results, handleVars, functionVars, callee>>
  /\ Settle("worker")

-----------------------------------------------------------------------------

Next ==
  \/ \E o \in Objects, a \in Addresses : Construct(o, a)
  \/ \E o \in Objects : ReturnAgain(o) \/ DropResult(o) \/ Wrap(o)
  \/ \E h \in Handles : Collect(h) \/ Finalize(h)
  \/ \E h \in Handles, f \in Functions : GetMethod(h, f)
  \/ \E f \in Functions : CollectFunction(f)
  \/ \E f \in Functions, c \in Calls : CallAsync(f, c)
  \/ \E c \in Calls : CallEnd(c)
  \/ Purge
  \/ CleanerPop
  \/ CleanerDrop

Spec == Init /\ [][Next]_vars

(* The cleanup worker runs while it has items; destructors end.            *)
FairSpec == Spec /\ WF_vars(CleanerPop) /\ WF_vars(CleanerDrop)

-----------------------------------------------------------------------------
(* Properties *)

(* Object identity: JavaScript never reaches two handles of one instance,  *)
(* so === compares instances.                                              *)
OneHandle ==
  \A g, h \in Handles :
     /\ handle[g] = "reachable"
     /\ handle[h] = "reachable"
     /\ target[g] = target[h]
     => g = h

(* "conflicting C++ shared owners" is reported for a plugin that made two  *)
(* owners of one address, never for memory used again.                     *)
NoFalseConflict == ~conflict

(* "Accepted async object methods retain their implementation receiver     *)
(* until physical work can no longer access it" (README.md).               *)
ReceiverRetained ==
  \A c \in Calls :
     call[c] = "running" => callee[c] \in Objects /\ life[callee[c]] = "live"

(* An instance that JavaScript and the calls have given up is destroyed.   *)
EventuallyDestroyed ==
  \A o \in Objects : life[o] = "live" /\ ~InUse(o) ~> life[o] = "dead"
-----------------------------------------------------------------------------
(* Inductive invariant *)

(* A hold keeps an instance alive; two live instances do not overlap.      *)
HoldsKeepAlive ==
  /\ \A o \in Objects : Held(o) => life[o] = "live"
  /\ \A o, p \in Objects :
        life[o] = "live" /\ life[p] = "live" /\ address[o] = address[p] => o = p

(* The registry: an entry belongs to one handle that was made for the      *)
(* instance, a reachable handle has its entry, and no two entries are of   *)
(* one living instance.                                                    *)
RegistryInv ==
  /\ IsInjective(entries)
  /\ \A e \in ToSet(entries) :
        target[e.handle] = e.object /\ handle[e.handle] # "free" /\ life[e.object] # "unborn"
  /\ \A h \in Handles : handle[h] = "reachable" =>
        [object |-> target[h], handle |-> h] \in ToSet(entries)
  /\ \A d, e \in ToSet(entries) : d.object = e.object /\ ~Expired(e) => d = e

(* A function that JavaScript calls at most once has a receiver to give.   *)
ReceiverInv ==
  CallsPerFunction <= 1 =>
    /\ \A f \in Functions :
          function[f] = "reachable" /\ used[f] = 0 => receiver[f] \in Objects
    /\ \A c \in Calls : call[c] = "running" => callee[c] \in Objects

ObjectsInv == TypeOK /\ HoldsKeepAlive /\ RegistryInv /\ ReceiverInv /\ NoFalseConflict
=============================================================================
