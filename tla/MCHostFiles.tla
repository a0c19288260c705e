----------------------------- MODULE MCHostFiles -----------------------------
(***************************************************************************)
(* The four parts of the file system boundary for TLC, side by side: each  *)
(* behaviour exercises one part, chosen by its initial state, and leaves   *)
(* the variables of the others at their initial values.  The parts share   *)
(* no state, so nothing is lost by not interleaving them.                  *)
(***************************************************************************)
EXTENDS SourceTree, SourceGuard, WindowsAuthority, CoherentRead

VARIABLE part

MCComponents == {".git", "android", "build", "app", "local_modules", "@scope", "src",
                 ".supernote-generated"}

vars == <<part, treeWalk, guardVars, handleVars, readVars>>

Init == /\ part \in {"tree", "guard", "handles", "read"}
        /\ TreeInit /\ HandlesInit /\ ReadInit
        /\ GuardInit
        /\ part # "guard" => live = [e \in Leaves |-> 1]

Next ==
    /\ UNCHANGED part
    /\ \/ /\ part = "tree" /\ TreeNext
          /\ UNCHANGED <<guardVars, handleVars, readVars>>
       \/ /\ part = "guard" /\ GuardNext
          /\ UNCHANGED <<treeWalk, handleVars, readVars>>
       \/ /\ part = "handles" /\ HandlesNext
          /\ UNCHANGED <<treeWalk, guardVars, readVars>>
       \/ /\ part = "read" /\ ReadNext
          /\ UNCHANGED <<treeWalk, guardVars, handleVars>>

Spec == Init /\ [][Next]_vars
=============================================================================
