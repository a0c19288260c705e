----------------------------- MODULE MCCommands -----------------------------
(***************************************************************************)
(* The command side of the generator for TLC: an external tool run as a    *)
(* subprocess, the doctor command, one run of the command line, the        *)
(* publication of a new feature by add, and what generate makes of a       *)
(* feature's sources.  Each behaviour exercises one part, chosen by its    *)
(* initial state; the parts share no state.  The fairness is that of the   *)
(* subprocess call and of add.                                             *)
(***************************************************************************)
EXTENDS Subprocess, Doctor, CommandLine, AddPublication, MCFrontend

VARIABLE part

vars == <<part, callVars, doctorVars, cliVars, addVars, frontendVars>>

SomeFeature == CHOOSE f \in Features : TRUE

(* The parts that are not exercised start in one state only. *)
Init == /\ part \in {"tool", "doctor", "cli", "add", "frontend"}
        /\ FrontendInit /\ (part # "frontend" => feature = SomeFeature)
        /\ CallInit /\ (part # "tool" => stream /\ deaf = {})
        /\ DoctorInit /\ (part # "doctor" => root)
        /\ CliInit /\ (part # "cli" => args = NotAsked /\ ~closed)
        /\ AddInit /\ (part # "add" => atomic /\ parent = "absent")

ToolOnly == part = "tool" /\ UNCHANGED <<part, doctorVars, cliVars, addVars, frontendVars>>
DoctorOnly == part = "doctor" /\ UNCHANGED <<part, callVars, cliVars, addVars, frontendVars>>
CliOnly == part = "cli" /\ UNCHANGED <<part, callVars, doctorVars, addVars, frontendVars>>
AddOnly == part = "add" /\ UNCHANGED <<part, callVars, doctorVars, cliVars, frontendVars>>
FrontendOnly == part = "frontend" /\ UNCHANGED <<part, callVars, doctorVars, cliVars, addVars>>

Next ==
    \/ ToolOnly /\ CallNext
    \/ DoctorOnly /\ DoctorNext
    \/ CliOnly /\ CliNext
    \/ AddOnly /\ AddNext
    \/ FrontendOnly /\ FrontendNext

Spec == /\ Init /\ [][Next]_vars
        /\ WF_vars(ToolOnly /\ CallProgress)
        /\ \A p \in Processes : WF_vars(ToolOnly /\ Die(p))
        /\ WF_vars(AddOnly /\ Command)
        /\ \A c \in Configs : SF_vars(AddOnly /\ StartAdd(c))
        /\ WF_vars(AddOnly /\ RemoveStaging)
        /\ WF_vars(AddOnly /\ RepairParent)
        /\ SF_vars(AddOnly /\ RemoveIncomplete)

(* A user who reruns add gets the feature                        *)
(* (AddPublication!FeatureAppears: rerunning is always enough).  *)
AddRecovers == part = "add" => FeatureAppears
=============================================================================
