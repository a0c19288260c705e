-------------------------- MODULE OperationContract --------------------------
(***************************************************************************)
(* What the runtime promises about an asynchronous operation, whatever     *)
(* threads implement it ("the same pending-operation, exactly-once         *)
(* completion, error, cancellation, and teardown lifecycle"): an accepted  *)
(* operation is decided once, its caller sees what was decided at most     *)
(* once, and a decision for runtime teardown is never shown.               *)
(***************************************************************************)
CONSTANTS Features, Ops, FeatureOf

VARIABLES
  alive,     (* the runtime has not been invalidated                        *)
  open,      (* features that accept calls                                  *)
  outcome,   (* the decision                                                *)
  shown      (* what the caller has seen                                    *)

cvars == <<alive, open, outcome, shown>>

Decisions == {"completed", "featureClosed", "runtimeGone"}

CInit == /\ alive = TRUE
         /\ open = Features
         /\ outcome = [o \in Ops |-> "absent"]
         /\ shown = [o \in Ops |-> FALSE]

(* New calls need a live runtime and an open feature.                      *)
Begin(o) == /\ outcome[o] = "absent"
            /\ alive /\ FeatureOf[o] \in open
            /\ outcome' = [outcome EXCEPT ![o] = "undecided"]
            /\ UNCHANGED <<alive, open, shown>>

(* Completion is decided only while the feature is open, teardown only     *)
(* once it is not, and runtime teardown only after invalidation.           *)
Decide(o, d) == /\ outcome[o] = "undecided"
                /\ d = "completed" => FeatureOf[o] \in open
                /\ d # "completed" => FeatureOf[o] \notin open
                /\ d = "runtimeGone" => ~alive
                /\ outcome' = [outcome EXCEPT ![o] = d]
                /\ UNCHANGED <<alive, open, shown>>

Show(o) == /\ outcome[o] \in {"completed", "featureClosed"}
           /\ shown[o] = FALSE
           /\ shown' = [shown EXCEPT ![o] = TRUE]
           /\ UNCHANGED <<alive, open, outcome>>

(* An internal callback is decided and shown in one step.                  *)
DecideAndShow(o) == /\ outcome[o] = "undecided"
                    /\ FeatureOf[o] \in open
                    /\ outcome' = [outcome EXCEPT ![o] = "completed"]
                    /\ shown' = [shown EXCEPT ![o] = TRUE]
                    /\ UNCHANGED <<alive, open>>

Close(f) == /\ open' = open \ {f}
            /\ UNCHANGED <<alive, outcome, shown>>

Die == /\ alive' = FALSE
       /\ UNCHANGED <<open, outcome, shown>>

CNext == \/ \E o \in Ops : \/ Begin(o) \/ Show(o) \/ DecideAndShow(o)
                           \/ \E d \in Decisions : Decide(o, d)
         \/ \E f \in Features : Close(f)
         \/ Die

CSpec == CInit /\ [][CNext]_cvars
=============================================================================
