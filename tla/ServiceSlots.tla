---------------------------- MODULE ServiceSlots ----------------------------
(***************************************************************************)
(* FeatureSession::service<T>: the lazily constructed objects of a feature *)
(* (C++ internal services, JVM owners, resolved JVM routes), one slot per  *)
(* declaration, and the part of FeatureSession::close that empties the     *)
(* slots.                                                                  *)
(*                                                                         *)
(* Worker threads ask for the same declaration at the same time, the       *)
(* user's constructor runs outside every lock and may throw, and the       *)
(* feature may close at any point.  An instance is named by the attempt    *)
(* that constructed it, so that 0 stands for a null pointer and for the    *)
(* absence of an exception.  A step is one critical section of the         *)
(* feature's mutex, of a slot's mutex, or of both, or the run of a factory *)
(* between two of them.  No slot is created once the feature has left      *)
(* ACTIVE, so a declaration has one slot for ever, although close takes it *)
(* out of services_ while threads still hold it.                           *)
(***************************************************************************)
EXTENDS Naturals, FiniteSets

CONSTANTS
  Threads,        (* threads that call service<T>                           *)
  Declarations,   (* declaration ids                                        *)
  CallLimit,      (* calls a thread makes; bounds the model                 *)
  NoDeclaration

ASSUME SlotAssumption ==
  /\ CallLimit \in Nat
  /\ NoDeclaration \notin Declarations

VARIABLES
  feature,        (* FeatureSession::state_                                 *)
  services,       (* keys of services_                                      *)
  initializing,   (* ServiceSlot::initializing                              *)
  attempt,        (* ServiceSlot::attempt                                   *)
  completed,      (* ServiceSlot::completed_attempt                         *)
  value,          (* ServiceSlot::value                                     *)
  failure,        (* ServiceSlot::failure: the attempt that threw it        *)
  pc,             (* where a thread is in service<T>                        *)
  decl,           (* the declaration it asks for                            *)
  mine,           (* its local `attempt`                                    *)
  error,          (* the attempt whose exception its last call rethrew      *)
  made,           (* calls it has made                                      *)
  closer,         (* progress of close                                      *)
  taken,          (* the slot close has taken out of services_              *)
  moved,          (* the instance close has moved out of that slot          *)
  created,        (* every instance a factory has returned                  *)
  released,       (* instances handed to defer_release                      *)
  handed          (* instances returned to callers                          *)

slotVars   == <<initializing, attempt, completed, value, failure>>
threadVars == <<pc, decl, mine, error, made>>
closeVars  == <<services, closer, taken, moved>>
history    == <<created, released, handed>>
vars == <<feature, slotVars, threadVars, closeVars, history>>

Constructing == {"factory", "created", "caught"}

TypeOK ==
  /\ feature \in {"ACTIVE", "CLOSING", "INACTIVE"}
  /\ services \in SUBSET Declarations
  /\ initializing \in [Declarations -> BOOLEAN]
  /\ attempt \in [Declarations -> Nat]
  /\ completed \in [Declarations -> Nat]
  /\ value \in [Declarations -> Nat]
  /\ failure \in [Declarations -> Nat]
  /\ pc \in [Threads -> {"idle", "found", "waiting"} \cup Constructing]
  /\ decl \in [Threads -> Declarations \cup {NoDeclaration}]
  /\ \A t \in Threads : pc[t] # "idle" => decl[t] \in Declarations
  /\ mine \in [Threads -> Nat]
  /\ error \in [Threads -> Nat]
  /\ made \in [Threads -> Nat]
  /\ closer \in {"idle", "scan", "taken", "moved", "done"}
  /\ taken \in Declarations \cup {NoDeclaration}
  /\ closer \in {"taken", "moved"} => taken \in Declarations
  /\ moved \in Nat
  /\ created \in [Declarations -> SUBSET Nat]
  /\ released \in [Declarations -> SUBSET Nat]
  /\ handed \in [Declarations -> SUBSET Nat]

Init ==
  /\ feature = "ACTIVE"
  /\ services = {}
  /\ initializing = [d \in Declarations |-> FALSE]
  /\ attempt = [d \in Declarations |-> 0]
  /\ completed = [d \in Declarations |-> 0]
  /\ value = [d \in Declarations |-> 0]
  /\ failure = [d \in Declarations |-> 0]
  /\ pc = [t \in Threads |-> "idle"]
  /\ decl = [t \in Threads |-> NoDeclaration]
  /\ mine = [t \in Threads |-> 0]
  /\ error = [t \in Threads |-> 0]
  /\ made = [t \in Threads |-> 0]
  /\ closer = "idle"
  /\ taken = NoDeclaration
  /\ moved = 0
  /\ created = [d \in Declarations |-> {}]
  /\ released = [d \in Declarations |-> {}]
  /\ handed = [d \in Declarations |-> {}]

-----------------------------------------------------------------------------
(* service<T> *)

(* The lookup under the feature's mutex; a closed feature throws.          *)
Lookup(t, d) ==
  /\ pc[t] = "idle"
  /\ made[t] < CallLimit
  /\ made' = [made EXCEPT ![t] = @ + 1]
  /\ decl' = [decl EXCEPT ![t] = d]
  /\ error' = [error EXCEPT ![t] = 0]
  /\ IF feature = "ACTIVE"
     THEN /\ pc' = [pc EXCEPT ![t] = "found"]
          /\ services' = services \cup {d}
     ELSE UNCHANGED <<pc, services>>
  /\ UNCHANGED <<feature, slotVars, mine, closer, taken, moved, history>>

(* The slot holds an instance: return a reference to it.                   *)
ReturnValue(t, d) ==
  /\ pc' = [pc EXCEPT ![t] = "idle"]
  /\ handed' = [handed EXCEPT ![d] = @ \cup {value[d]}]
  /\ UNCHANGED <<slotVars, mine, error>>

(* Become the initializer: a new attempt, with no exception yet.           *)
Begin(t, d) ==
  /\ initializing' = [initializing EXCEPT ![d] = TRUE]
  /\ attempt' = [attempt EXCEPT ![d] = @ + 1]
  /\ failure' = [failure EXCEPT ![d] = 0]
  /\ mine' = [mine EXCEPT ![t] = attempt[d] + 1]
  /\ pc' = [pc EXCEPT ![t] = "factory"]
  /\ UNCHANGED <<completed, value, error, handed>>

(* Somebody constructs: remember the attempt and wait for its end.         *)
Wait(t, d) ==
  /\ mine' = [mine EXCEPT ![t] = attempt[d]]
  /\ pc' = [pc EXCEPT ![t] = "waiting"]
  /\ UNCHANGED <<slotVars, error, handed>>

(* The first look at the slot under its mutex.                             *)
Enter(t) ==
  LET d == decl[t] IN
  /\ pc[t] = "found"
  /\ \/ value[d] # 0 /\ ReturnValue(t, d)
     \/ value[d] = 0 /\ initializing[d] /\ Wait(t, d)
     \/ value[d] = 0 /\ ~initializing[d] /\ Begin(t, d)
  /\ UNCHANGED <<feature, decl, made, closeVars, created, released>>

(* Fault: a woken caller rethrows whatever exception the slot holds.       *)
WakeAny(t) ==
  LET d == decl[t] IN
  /\ pc[t] = "waiting"
  /\ ~initializing[d]
  /\ \/ value[d] # 0 /\ ReturnValue(t, d)
     \/ /\ value[d] = 0 /\ failure[d] # 0
        /\ pc' = [pc EXCEPT ![t] = "idle"]
        /\ error' = [error EXCEPT ![t] = failure[d]]
        /\ UNCHANGED <<slotVars, mine, handed>>
     \/ value[d] = 0 /\ failure[d] = 0 /\ Begin(t, d)
  /\ UNCHANGED <<feature, decl, made, closeVars, created, released>>

(* A waiting caller runs again once nobody constructs.  It takes the       *)
(* instance, rethrows the exception of the attempt it waited for, or       *)
(* constructs itself: when another attempt ended meanwhile, and also when  *)
(* close has already moved the instance away.                              *)
Wake(t) ==
  LET d == decl[t]
      OwnFailure == completed[d] = mine[t] /\ failure[d] # 0
  IN
  /\ pc[t] = "waiting"
  /\ ~initializing[d]
  /\ \/ value[d] # 0 /\ ReturnValue(t, d)
     \/ /\ value[d] = 0 /\ OwnFailure
        /\ pc' = [pc EXCEPT ![t] = "idle"]
        /\ error' = [error EXCEPT ![t] = failure[d]]
        /\ UNCHANGED <<slotVars, mine, handed>>
     \/ value[d] = 0 /\ ~OwnFailure /\ Begin(t, d)
  /\ UNCHANGED <<feature, decl, made, closeVars, created, released>>

(* The factory returns an instance, or throws or returns null.             *)
Factory(t) ==
  /\ pc[t] = "factory"
  /\ \/ /\ pc' = [pc EXCEPT ![t] = "created"]
        /\ created' = [created EXCEPT ![decl[t]] = @ \cup {mine[t]}]
     \/ /\ pc' = [pc EXCEPT ![t] = "caught"]
        /\ UNCHANGED created
  /\ UNCHANGED <<feature, slotVars, decl, mine, error, made, closeVars,
                 released, handed>>

(* The attempt ends, with an exception (the attempt itself) or none (0).   *)
EndAttempt(t, d, e) ==
  /\ initializing' = [initializing EXCEPT ![d] = FALSE]
  /\ completed' = [completed EXCEPT ![d] = mine[t]]
  /\ failure' = [failure EXCEPT ![d] = e]

(* The two outcomes of publication, under both mutexes: the instance is    *)
(* stored and returned, or the feature closed during construction and the  *)
(* instance is released.                                                   *)
Store(t, d) ==
  /\ value' = [value EXCEPT ![d] = mine[t]]
  /\ EndAttempt(t, d, failure[d])
  /\ pc' = [pc EXCEPT ![t] = "idle"]
  /\ handed' = [handed EXCEPT ![d] = @ \cup {mine[t]}]
  /\ UNCHANGED released

Reject(t, d) ==
  /\ EndAttempt(t, d, mine[t])
  /\ pc' = [pc EXCEPT ![t] = "caught"]
  /\ released' = [released EXCEPT ![d] = @ \cup {mine[t]}]
  /\ UNCHANGED <<value, handed>>

(* Fault: publish without looking at the feature's state.                  *)
PublishBlindly(t) ==
  /\ pc[t] = "created"
  /\ Store(t, decl[t])
  /\ UNCHANGED <<feature, attempt, decl, mine, error, made, closeVars, created>>

Publish(t) ==
  /\ pc[t] = "created"
  /\ \/ feature = "ACTIVE" /\ Store(t, decl[t])
     \/ feature # "ACTIVE" /\ Reject(t, decl[t])
  /\ UNCHANGED <<feature, attempt, decl, mine, error, made, closeVars, created>>

(* Fault: the exception passes and the slot still says "initializing".     *)
CatchAndLeave(t) ==
  /\ pc[t] = "caught"
  /\ pc' = [pc EXCEPT ![t] = "idle"]
  /\ error' = [error EXCEPT ![t] = mine[t]]
  /\ UNCHANGED <<feature, slotVars, decl, mine, made, closeVars, history>>

(* The catch block: the exception ends the attempt unless publication has  *)
(* ended it already, and is thrown on.                                     *)
Catch(t) ==
  LET d == decl[t] IN
  /\ pc[t] = "caught"
  /\ IF initializing[d] /\ attempt[d] = mine[t]
     THEN EndAttempt(t, d, mine[t])
     ELSE UNCHANGED <<initializing, completed, failure>>
  /\ pc' = [pc EXCEPT ![t] = "idle"]
  /\ error' = [error EXCEPT ![t] = mine[t]]
  /\ UNCHANGED <<feature, attempt, value, decl, mine, made, closeVars, history>>

-----------------------------------------------------------------------------
(* FeatureSession::close; the operations it cancels first are AsyncOps'.   *)

CloseBegin ==
  /\ feature = "ACTIVE"
  /\ feature' = "CLOSING"
  /\ closer' = "scan"
  /\ UNCHANGED <<slotVars, threadVars, services, taken, moved, history>>

CloseTake(d) ==
  /\ closer = "scan"
  /\ d \in services
  /\ services' = services \ {d}
  /\ taken' = d
  /\ closer' = "taken"
  /\ UNCHANGED <<feature, slotVars, threadVars, moved, history>>

(* The instance is moved out under the slot's mutex.                       *)
CloseMove ==
  /\ closer = "taken"
  /\ moved' = value[taken]
  /\ value' = [value EXCEPT ![taken] = 0]
  /\ closer' = "moved"
  /\ UNCHANGED <<feature, services, taken, initializing, attempt, completed,
                 failure, threadVars, history>>

CloseRelease ==
  /\ closer = "moved"
  /\ released' = [released EXCEPT ![taken] = @ \cup ({moved} \ {0})]
  /\ closer' = "scan"
  /\ UNCHANGED <<feature, services, taken, moved, slotVars, threadVars,
                 created, handed>>

CloseEnd ==
  /\ closer = "scan"
  /\ services = {}
  /\ feature' = "INACTIVE"
  /\ closer' = "done"
  /\ UNCHANGED <<services, taken, moved, slotVars, threadVars, history>>

-----------------------------------------------------------------------------

Step(t) ==
  \/ Enter(t)
  \/ Wake(t)
  \/ Factory(t)
  \/ Publish(t)
  \/ Catch(t)

Next ==
  \/ \E t \in Threads, d \in Declarations : Lookup(t, d)
  \/ \E t \in Threads : Step(t)
  \/ CloseBegin
  \/ \E d \in Declarations : CloseTake(d)
  \/ CloseMove
  \/ CloseRelease
  \/ CloseEnd

Spec == Init /\ [][Next]_vars

(* A call that has begun goes on, factories end, and so does close.  A     *)
(* thread that waits on a condition variable runs when the condition stays *)
(* true.                                                                   *)
FairSpec ==
  /\ Spec
  /\ \A t \in Threads : WF_vars(Step(t))
  /\ WF_vars(\E d \in Declarations : CloseTake(d))
  /\ WF_vars(CloseMove \/ CloseRelease \/ CloseEnd)

-----------------------------------------------------------------------------
(* Properties *)

(* One construction at a time per declaration: while a factory runs, or    *)
(* its instance awaits publication, the slot says so under this attempt,   *)
(* and no other thread constructs.                                         *)
SingleFlight ==
  \A t, u \in Threads :
     ( /\ pc[t] \in {"factory", "created"}
       /\ pc[u] \in {"factory", "created"}
       /\ decl[t] = decl[u] ) => t = u

(* A slot that says "initializing" has a thread that will end the attempt; *)
(* otherwise its waiters would never run again.                            *)
InitializerAlive ==
  \A d \in Declarations :
     initializing[d] =>
       \E t \in Threads : decl[t] = d /\ pc[t] \in Constructing /\ mine[t] = attempt[d]

(* Every caller of a feature gets the same instance of a declaration,      *)
(* however many attempts failed and whatever close does meanwhile.         *)
OneInstance ==
  \A d \in Declarations : \A i, j \in handed[d] : i = j

(* No instance leaks: what a factory returned is in its slot while         *)
(* the slot is reachable, held by the thread that made it or by close, or  *)
(* has been handed to the cleanup.                                         *)
Accounted ==
  \A d \in Declarations : \A i \in created[d] :
     \/ value[d] = i /\ (d \in services \/ (closer = "taken" /\ taken = d))
     \/ closer = "moved" /\ taken = d /\ moved = i
     \/ \E t \in Threads : pc[t] = "created" /\ decl[t] = d /\ mine[t] = i
     \/ i \in released[d]

(* A call that rethrows a factory's exception ran that factory or waited   *)
(* for it: never for another attempt.                                      *)
OwnException ==
  \A t \in Threads : pc[t] = "idle" /\ error[t] # 0 => error[t] = mine[t]

(* The parts of the inductive invariant.  A thread between Begin and       *)
(* publication owns the slot's current attempt; attempts are never shared. *)
OwnerInv ==
  \A t \in Threads :
     /\ pc[t] \in Constructing => mine[t] > 0 /\ mine[t] <= attempt[decl[t]]
     /\ pc[t] \in {"factory", "created"} =>
          initializing[decl[t]] /\ mine[t] = attempt[decl[t]]
     /\ pc[t] # "idle" => error[t] = 0

UniqueInv ==
  \A t, u \in Threads :
     ( /\ pc[t] \in Constructing
       /\ pc[u] \in Constructing
       /\ decl[t] = decl[u]
       /\ mine[t] = mine[u] ) => t = u

(* What a slot says of its last attempt.                                   *)
SlotInv ==
  \A d \in Declarations :
     /\ initializing[d] => value[d] = 0 /\ failure[d] = 0
     /\ failure[d] # 0 => failure[d] = completed[d]

(* Which instances callers may hold.                                       *)
HandedInv ==
  \A d \in Declarations :
     /\ value[d] # 0 => handed[d] = {value[d]}
     /\ value[d] = 0 /\ feature = "ACTIVE" => handed[d] = {}

(* The slots of an active feature are reachable for close.                 *)
CloseInv ==
  /\ closer # "idle" => feature # "ACTIVE"
  /\ \A t \in Threads :
       feature = "ACTIVE" /\ pc[t] # "idle" => decl[t] \in services
  /\ \A d \in Declarations : 0 \notin created[d]

SlotsInv ==
  /\ TypeOK
  /\ OwnerInv
  /\ UniqueInv
  /\ InitializerAlive
  /\ SlotInv
  /\ HandedInv
  /\ OneInstance
  /\ CloseInv
  /\ Accounted
  /\ OwnException

(* Every call returns or throws.                                           *)
CallsEnd == \A t \in Threads : pc[t] # "idle" ~> pc[t] = "idle"

=============================================================================
