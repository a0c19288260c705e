----------------------------- MODULE JvmObjects -----------------------------
(***************************************************************************)
(* JVM objects that JavaScript holds (jvm_object_runtime_codegen.py and    *)
(* the wrappers of jvm_object_binding_codegen.py): one JvmObjectRegistry   *)
(* per runtime maps a JVM object to its JavaScript handle; global          *)
(* references keep the object while a handle, a bound method, a running    *)
(* call or an undelivered result needs it, and are deleted on the cleanup  *)
(* thread.  Two collectors run beside it: the JVM takes objects without a  *)
(* strong reference, JavaScript takes unreachable handles, and a           *)
(* collected handle releases its reference only when it is finalized.      *)
(*                                                                         *)
(* How an operation is accepted, claimed and cancelled is AsyncOps; here   *)
(* cancelling is one step per call.                                        *)
(***************************************************************************)
EXTENDS Naturals, Sequences, FiniteSets, SequencesExt, Vectors

CONSTANTS Objects,      \* JVM objects
          Hash,         \* their identity hashes, which may collide
          TypeId,       \* their nominal types
          Calls,
          MaxRefs,      \* bound: global references at a time
          MaxHandles    \* bound: JavaScript handles at a time

ASSUME JvmObjectsAssumption ==
    /\ "none" \notin Objects
    /\ MaxRefs \in Nat /\ MaxHandles \in Nat

VARIABLES
    heap,      \* unborn, held (the implementation refers to it), free, collected
    refs,      \* global references: [object, holders, state]
    handles,   \* HostObjects: [ref, object, js]
    entries,   \* entries_ of the registry: [object, handle], oldest first
    calls,     \* asynchronous calls
    active,    \* is the feature ACTIVE
    answer     \* was every handle delivered so far that of the object returned

objectVars == <<heap, refs, handles, entries, calls, active, answer>>

RefIds == 1 .. MaxRefs
HandleIds == 1 .. MaxHandles
NoRef == [object |-> "none", holders |-> {}, state |-> "none"]
NoHandle == [ref |-> 0, object |-> "none", js |-> "none"]
NoCall == [pc |-> "idle", receiver |-> 0, suspend |-> FALSE, pending |-> FALSE,
           result |-> 0, job |-> "none"]

JvmObjectsInit ==
    /\ heap = [o \in Objects |-> "unborn"]
    /\ refs = [r \in RefIds |-> NoRef]
    /\ handles = [h \in HandleIds |-> NoHandle]
    /\ entries = <<>> /\ calls = [c \in Calls |-> NoCall]
    /\ active = TRUE /\ answer = TRUE

(*--------------------------- global references --------------------------*)
(* The last copy of a shared_ptr submits the deletion to the cleanup       *)
(* thread; a refused submit deletes at once, as if it were run next.       *)
Drop(rs, holder) ==
    [r \in RefIds |->
        IF holder \notin rs[r].holders THEN rs[r]
        ELSE [rs[r] EXCEPT !.holders = @ \ {holder},
                           !.state = IF rs[r].holders = {holder} THEN "queued" ELSE @]]
Share(rs, r, holder) == [rs EXCEPT ![r].holders = @ \cup {holder}]
FreeRefs(rs) == {r \in RefIds : rs[r].state = "none"}
(* retain_global: a new reference with one holder. *)
RetainGlobal(rs, r, o, holder) ==
    [rs EXCEPT ![r] = [object |-> o, holders |-> {holder}, state |-> "live"]]
DeleteRef(r) ==
    /\ refs[r].state = "queued"
    /\ refs' = [refs EXCEPT ![r] = NoRef]
    /\ UNCHANGED <<heap, handles, entries, calls, active, answer>>

(*-------------------------------- wrap ----------------------------------*)
Dead(entry) == heap[entry.object] = "collected"
(* Whether JavaScript still refers to a handle that is not collected does  *)
(* not matter: lock gives it back either way.                              *)
Locks(h) == handles[h].js = "live"

(* Mutant: the identity hash and the type decide. *)
MatchesByHash(entry, o) ==
    Hash[entry.object] = Hash[o] /\ TypeId[entry.object] = TypeId[o]
Matches(entry, o) ==
    /\ Hash[entry.object] = Hash[o] /\ TypeId[entry.object] = TypeId[o]
    /\ entry.object = o
(* Where the scan stops: at the first living entry for o, or past the end. *)
Stop(o) ==
    LET found == {i \in DOMAIN entries : ~Dead(entries[i]) /\ Matches(entries[i], o)} IN
    IF found = {} THEN Len(entries) + 1 ELSE CHOOSE i \in found : \A j \in found : i <= j
LivingEntries == {entry \in ToSet(entries) : ~Dead(entry)}
(* Entries of dead objects that the scan meets are erased, and an entry    *)
(* whose handle is gone.                                                   *)
Scanned(o, keep) ==
    Kept(SubSeq(entries, 1, Stop(o) - 1), LivingEntries)
    \o (IF keep THEN <<entries[Stop(o)]>> ELSE <<>>)
    \o SubSeq(entries, Stop(o) + 1, Len(entries))
Known(o) == Stop(o) <= Len(entries) /\ Locks(entries[Stop(o)].handle)
FreeHandles == {h \in HandleIds : /\ handles[h] = NoHandle
                                  /\ \A i \in DOMAIN entries : entries[i].handle # h}

(* The result o, whose reference r has the holder `from': the handle that  *)
(* JavaScript has already (the new reference is dropped), or a new one.    *)
WrapKnown(rs, r, o, from) ==
    LET h == entries[Stop(o)].handle IN
    /\ Known(o)
    /\ entries' = Scanned(o, TRUE)
    /\ refs' = Drop(rs, from)
    /\ answer' = (answer /\ handles[h].object = o)
    /\ UNCHANGED handles
WrapNew(rs, r, o, from) ==
    /\ ~Known(o)
    /\ FreeHandles # {}
    /\ LET h == CHOOSE h \in FreeHandles : TRUE IN
         /\ entries' = Append(Scanned(o, FALSE), [object |-> o, handle |-> h])
         /\ handles' = [handles EXCEPT ![h] = [ref |-> r, object |-> o, js |-> "live"]]
         /\ refs' = Drop(Share(rs, r, <<"handle", h>>), from)
         /\ UNCHANGED answer
(* NewWeakGlobalRef fails: the stale entry is gone, there is no handle. *)
WrapFails(rs, r, o, from) ==
    /\ ~Known(o)
    /\ entries' = Scanned(o, FALSE) /\ refs' = Drop(rs, from)
    /\ UNCHANGED <<handles, answer>>
Wrap(rs, r, o, from) ==
    WrapKnown(rs, r, o, from) \/ WrapNew(rs, r, o, from) \/ WrapFails(rs, r, o, from)

(*----------------------------- JavaScript -------------------------------*)
(* Reading a method: a function that captures the handle's owner. *)
GetMethod(h) ==
    /\ Locks(h)
    /\ refs' = Share(refs, handles[h].ref, <<"function", handles[h].ref>>)
    /\ UNCHANGED <<heap, handles, entries, calls, active, answer>>
DropFunction(r) ==
    /\ <<"function", r>> \in refs[r].holders
    /\ refs' = Drop(refs, <<"function", r>>)
    /\ UNCHANGED <<heap, handles, entries, calls, active, answer>>
Callable(r) == <<"function", r>> \in refs[r].holders

CollectHandle(h) ==
    /\ Locks(h) /\ handles' = [handles EXCEPT ![h].js = "collected"]
    /\ UNCHANGED <<heap, refs, entries, calls, active, answer>>
FinalizeHandle(h) ==
    /\ handles[h].js = "collected"
    /\ refs' = Drop(refs, <<"handle", h>>)
    /\ handles' = [handles EXCEPT ![h] = NoHandle]
    /\ UNCHANGED <<heap, entries, calls, active, answer>>

(*------------------------------ the JVM ---------------------------------*)
(* What an implementation can return: its receiver, an object it holds, or *)
(* a new one; it keeps the object or not.                                  *)
Returns(o, receiver) == o = receiver \/ heap[o] \in {"held", "unborn"}
Keep(o) == heap' \in {[heap EXCEPT ![o] = "held"], [heap EXCEPT ![o] = "free"]}
Forget(o) ==
    /\ heap[o] = "held" /\ heap' = [heap EXCEPT ![o] = "free"]
    /\ UNCHANGED <<refs, handles, entries, calls, active, answer>>
CollectObject(o) ==
    /\ heap[o] = "free"
    /\ \A r \in RefIds : refs[r].object # o
    /\ \A c \in Calls : calls[c].job # o
    /\ heap' = [heap EXCEPT ![o] = "collected"]
    /\ UNCHANGED <<refs, handles, entries, calls, active, answer>>
(*------------------------- calls that return now ------------------------*)
(* A synchronous method of receiver r, or a static function or constructor *)
(* (r = 0): call, read the result, wrap it.                                *)
CallSync(r, o) ==
    /\ active /\ (r # 0 => Callable(r))
    /\ Returns(o, IF r = 0 THEN "none" ELSE refs[r].object)
    /\ FreeRefs(refs) # {}
    /\ LET g == CHOOSE g \in FreeRefs(refs) : TRUE IN
       Wrap(RetainGlobal(refs, g, o, <<"result", 0>>), g, o, <<"result", 0>>)
    /\ Keep(o)
    /\ UNCHANGED <<calls, active>>

(* A field of handle h: its value is wrapped like a result; setting it     *)
(* lets the implementation hold the object of handle k.                    *)
GetField(h, o) ==
    /\ active /\ Locks(h) /\ heap[o] = "held" /\ FreeRefs(refs) # {}
    /\ LET g == CHOOSE g \in FreeRefs(refs) : TRUE IN
       Wrap(RetainGlobal(refs, g, o, <<"result", 0>>), g, o, <<"result", 0>>)
    /\ UNCHANGED <<heap, calls, active>>
SetField(h, k) ==
    /\ active /\ Locks(h) /\ Locks(k)
    /\ heap' = [heap EXCEPT ![handles[k].object] = "held"]
    /\ UNCHANGED <<refs, handles, entries, calls, active, answer>>

(*---------------------------- calls that wait ---------------------------*)
Set(c, fields) == calls' = [calls EXCEPT ![c] = fields]
(* Mutant: the operation and the worker keep the raw reference only. *)
RetainInputsRaw(c, r) == refs
(* retained_input_state of the operation, and the worker's own capture. *)
RetainInputs(c, r) == Share(refs, r, <<"call", c>>)

(* The operation is accepted and its work submitted, or the queue is full: *)
(* then the rejection waits for the JavaScript thread like a completion.   *)
CallAsync(c, r, suspend, accepted) ==
    /\ active /\ Callable(r) /\ calls[c].pc = "idle" /\ calls[c].job = "none"
    /\ refs' = RetainInputs(c, r)
    /\ Set(c, [NoCall EXCEPT !.pc = IF accepted THEN "queued" ELSE "completing",
                             !.receiver = r, !.suspend = suspend, !.pending = TRUE])
    /\ UNCHANGED <<heap, handles, entries, active, answer>>

(* The last owner of the operation is gone. *)
Idle(c) == [NoCall EXCEPT !.job = calls[c].job]
Released(rs, c) == Drop(Drop(rs, <<"call", c>>), <<"state", c>>)

WorkerStart(c) ==
    /\ calls[c].pc = "queued"
    /\ Set(c, [calls[c] EXCEPT !.pc = "running"])
    /\ UNCHANGED <<heap, refs, handles, entries, active, answer>>

Receiver(c) == refs[calls[c].receiver].object

(* The result of call c is o, read while `rs' are the references: it waits *)
(* for the JavaScript thread, or is dropped when the call was cancelled.   *)
Result(c, o) ==
    /\ FreeRefs(refs) # {}
    /\ LET g == CHOOSE g \in FreeRefs(refs) : TRUE
           retained == RetainGlobal(refs, g, o, <<"state", c>>) IN
       IF calls[c].pending
       THEN /\ refs' = retained
            /\ Set(c, [calls[c] EXCEPT !.pc = "completing", !.result = g, !.job = "none"])
       ELSE /\ refs' = Released(retained, c)
            /\ Set(c, [Idle(c) EXCEPT !.job = "none"])
    /\ Keep(o)
    /\ UNCHANGED <<handles, entries, active, answer>>
Failure(c) ==
    /\ IF calls[c].pending
       THEN /\ Set(c, [calls[c] EXCEPT !.pc = "completing", !.job = "none"]) /\ UNCHANGED refs
       ELSE Set(c, [Idle(c) EXCEPT !.job = "none"]) /\ refs' = Released(refs, c)
    /\ UNCHANGED <<heap, handles, entries, active, answer>>

WorkerReturn(c, o) ==
    calls[c].pc = "running" /\ ~calls[c].suspend /\ Returns(o, Receiver(c)) /\ Result(c, o)
WorkerFails(c) == calls[c].pc = "running" /\ Failure(c)

(* The coroutine has its own references in the JVM; a cancel that came     *)
(* first is run by set_cancel_hook at once.                                *)
WorkerLaunch(c) ==
    /\ calls[c].pc = "running" /\ calls[c].suspend
    /\ IF calls[c].pending
       THEN Set(c, [calls[c] EXCEPT !.pc = "coroutine", !.job = Receiver(c)]) /\ UNCHANGED refs
       ELSE Set(c, [Idle(c) EXCEPT !.job = Receiver(c)]) /\ refs' = Released(refs, c)
    /\ UNCHANGED <<heap, handles, entries, active, answer>>
NativeComplete(c, o) ==
    calls[c].pc = "coroutine" /\ Returns(o, calls[c].job) /\ Result(c, o)
NativeFails(c) == calls[c].pc = "coroutine" /\ Failure(c)
(* A cancelled coroutine ends; its completion id is no longer registered. *)
JobEnds(c) ==
    /\ calls[c].pc = "idle" /\ calls[c].job # "none"
    /\ Set(c, [calls[c] EXCEPT !.job = "none"])
    /\ UNCHANGED <<heap, refs, handles, entries, active, answer>>

(* On the JavaScript thread: the winner wraps the result. *)
Complete(c) ==
    LET g == calls[c].result IN
    /\ calls[c].pc = "completing"
    /\ IF calls[c].pending /\ g # 0
       THEN Wrap(Drop(refs, <<"call", c>>), g, refs[g].object, <<"state", c>>)
       ELSE refs' = Released(refs, c) /\ UNCHANGED <<handles, entries, answer>>
    /\ Set(c, Idle(c))
    /\ UNCHANGED <<heap, active>>

CloseFeature ==
    /\ active /\ active' = FALSE
    /\ UNCHANGED <<heap, refs, handles, entries, calls, answer>>
(* The feature lets go of the operation: work that waits is removed, the   *)
(* coroutine's completion discarded and its job cancelled.                 *)
Cancel(c) ==
    /\ ~active /\ calls[c].pending
    /\ IF calls[c].pc \in {"queued", "coroutine"}
       THEN Set(c, Idle(c)) /\ refs' = Released(refs, c)
       ELSE Set(c, [calls[c] EXCEPT !.pending = FALSE]) /\ UNCHANGED refs
    /\ UNCHANGED <<heap, handles, entries, active, answer>>

JvmObjectsNext ==
    \/ CloseFeature
    \/ \E r \in RefIds : DeleteRef(r) \/ DropFunction(r)
    \/ \E h \in HandleIds : GetMethod(h) \/ CollectHandle(h) \/ FinalizeHandle(h)
    \/ \E o \in Objects : Forget(o) \/ CollectObject(o)
    \/ \E h \in HandleIds, o \in Objects : GetField(h, o)
    \/ \E h, k \in HandleIds : SetField(h, k)
    \/ \E r \in RefIds \cup {0}, o \in Objects : CallSync(r, o)
    \/ \E c \in Calls :
         \/ WorkerStart(c) \/ WorkerFails(c) \/ WorkerLaunch(c) \/ NativeFails(c)
         \/ JobEnds(c) \/ Complete(c) \/ Cancel(c)
         \/ \E r \in RefIds, suspend, accepted \in BOOLEAN : CallAsync(c, r, suspend, accepted)
         \/ \E o \in Objects : WorkerReturn(c, o) \/ NativeComplete(c, o)

JvmObjectsSpec == JvmObjectsInit /\ [][JvmObjectsNext]_objectVars

(*------------------------------ properties ------------------------------*)
(* A JVM object has at most one handle that JavaScript can reach or get    *)
(* back from the registry, the handle a call delivered is the one of the   *)
(* object it returned, and the registry has one entry for a living object  *)
(* (JvmObjectRegistry::wrap, with colliding identity hashes, handles       *)
(* collected but not finalized, and bound methods that outlive a handle).  *)
IdentityPreserved ==
    /\ \A h, k \in HandleIds : Locks(h) /\ Locks(k) /\ handles[h].object = handles[k].object => h = k
    /\ answer
    /\ \A i, j \in DOMAIN entries : entries[i].object = entries[j].object => i = j

(* The receiver that a worker passes to JNI is a live global reference of  *)
(* a living object, whatever the collectors, close and the cleanup thread  *)
(* did since the call was made (_async_host_function,                      *)
(* _suspend_host_function); so is every reference a handle or a waiting    *)
(* result has.                                                             *)
ReceiverStaysValid ==
    LET Used == {calls[c].receiver : c \in {c \in Calls : calls[c].pc \in {"queued", "running"}}}
                \cup {handles[h].ref : h \in {h \in HandleIds : Locks(h)}}
                \cup ({calls[c].result : c \in Calls} \ {0}) IN
    \A r \in Used : refs[r].state = "live" /\ heap[refs[r].object] # "collected"

(*--------------------------- inductive invariant ------------------------*)
JvmTypes ==
    /\ heap \in [Objects -> {"unborn", "held", "free", "collected"}]
    /\ handles \in [HandleIds -> {NoHandle} \cup
          [ref : RefIds, object : Objects, js : {"live", "collected"}]]
    /\ entries \in Seq([object : Objects, handle : HandleIds])
    /\ calls \in [Calls ->
          [pc : {"idle", "queued", "running", "coroutine", "completing"},
           receiver : RefIds \cup {0}, suspend : BOOLEAN, pending : BOOLEAN,
           result : RefIds \cup {0}, job : Objects \cup {"none"}]]
    /\ active \in BOOLEAN

(* A reference is live as long as it has a holder; while it is there the   *)
(* object cannot be collected.                                             *)
CountedRef(ref) ==
    \/ ref = NoRef
    \/ /\ ref \in [object : Objects, holders : {ref.holders}, state : {"live", "queued"}]
       /\ ref.state = "live" <=> ref.holders # {}
Counted(rs) ==
    /\ DOMAIN rs = RefIds
    /\ \A r \in RefIds : CountedRef(rs[r])
RefsKeepAlive(rs) ==
    \A r \in RefIds : rs[r].state # "none" => heap[rs[r].object] # "collected"

(* A handle, a call and a result that waits are holders of the reference   *)
(* they name.                                                              *)
Owns(rs, r, holder) == r \in RefIds /\ holder \in rs[r].holders
HandlesOwn(rs) ==
    \A h \in HandleIds : handles[h] # NoHandle =>
        Owns(rs, handles[h].ref, <<"handle", h>>) /\ rs[handles[h].ref].object = handles[h].object
CallOwns(rs, c) ==
    /\ calls[c].pc \in {"queued", "running"} => Owns(rs, calls[c].receiver, <<"call", c>>)
    /\ calls[c].result # 0 => Owns(rs, calls[c].result, <<"state", c>>)
    /\ calls[c].job # "none" => heap[calls[c].job] # "collected"

(* A handle that JavaScript has is in the registry under its object; an    *)
(* entry whose handle is not finalized names the handle's object.          *)
RegistryInv ==
    /\ \A i, j \in DOMAIN entries : entries[i].object = entries[j].object => i = j
    /\ \A e \in ToSet(entries) :
          handles[e.handle] # NoHandle => handles[e.handle].object = e.object
    /\ \A h \in HandleIds : Locks(h) =>
          [object |-> handles[h].object, handle |-> h] \in ToSet(entries)

JvmInv ==
    /\ JvmTypes /\ Counted(refs) /\ RefsKeepAlive(refs) /\ HandlesOwn(refs)
    /\ \A c \in Calls : CallOwns(refs, c)
    /\ RegistryInv /\ answer
=============================================================================
