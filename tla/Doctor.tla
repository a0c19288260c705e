------------------------------- MODULE Doctor -------------------------------
(***************************************************************************)
(* The doctor command (doctor.py): it takes an inventory of the authored   *)
(* tree, probes the tools in three stages, takes the inventory again and   *)
(* turns checks, edits and interruptions into one verdict.                 *)
(*                                                                         *)
(* Data.  What the machine holds is revealed when a check looks at it, as  *)
(* a record of facts; the check's code is an operator on the facts.        *)
(* Versions are numbers; a version tuple is its major number for Java and  *)
(* a member of Versions elsewhere, 0 where none was reported.  Of the list *)
(* of checks only matters whether a required one failed.  `needs' is       *)
(* history: do the facts meet what the Android build will use.             *)
(***************************************************************************)
EXTENDS Naturals, FiniteSets

CONSTANTS Versions,       \* versions of SDK components a project can select
          Absent,         \* no such directory
          Minimum         \* MINIMUM_ANDROID_CMAKE_VERSION

ASSUME DoctorAssumption ==
    /\ IsFiniteSet(Versions) /\ Versions \subseteq Nat \ {0}
    /\ Minimum \in Nat
    /\ Absent \notin Versions

VARIABLES
    root,         \* did resolve_plugin_root find the plugin
    sdk,          \* what ANDROID_HOME and ANDROID_SDK_ROOT select
    selection,    \* GradleToolchainSelection: candidates of each name
    tree,         \* number of edits to the authored tree
    doctor,       \* pc, the first inventory, interrupted, stage_exception
    checks,       \* did every required check so far pass
    verdict,      \* status and exit_code of the CommandResult
    needs

doctorVars == <<root, sdk, selection, tree, doctor, checks, verdict, needs>>

ToolNames == {"ndkVersion", "compileSdkVersion", "buildToolsVersion"}
NoVerdict == [status |-> "none", exit |-> 99, changes |-> FALSE, cancelled |-> FALSE]
DoctorAt(pc) == doctor.pc = pc
DoctorTo(pc) == doctor' = [doctor EXCEPT !.pc = pc]

(* _android_sdk_selection: no variable, one, or both with one value. *)
SdkSelected == Cardinality(sdk.paths) = 1
SdkError == ~SdkSelected

(* _project_toolchain_selection: a name is selected by exactly one literal  *)
(* value; an unreadable file is an error of every name.                     *)
SelectionError(name) ==
    ~root \/ selection.unreadable \/ Cardinality(selection.found[name]) # 1
Selected(name) == IF SelectionError(name) THEN 0 ELSE CHOOSE v \in selection.found[name] : TRUE

DoctorInit ==
    /\ root \in BOOLEAN
    /\ sdk = [paths |-> {}, layout |-> FALSE]
    /\ selection = [unreadable |-> FALSE, found |-> [n \in ToolNames |-> {}]]
    /\ tree = 0
    /\ doctor = [pc |-> "idle", baseline |-> 0, interrupted |-> FALSE, exception |-> FALSE]
    /\ checks = TRUE /\ needs = TRUE
    /\ verdict = NoVerdict

(* The author, or a probed tool, changes the authored tree. *)
EditTree ==
    /\ doctor.pc \notin {"idle", "over", "left"} /\ tree < 2
    /\ tree' = tree + 1
    /\ UNCHANGED <<root, sdk, selection, doctor, checks, verdict, needs>>

(* Required checks ended: `passed' by the code, `met' by the facts. *)
Checked(passed, met) ==
    /\ checks' = (checks /\ passed)
    /\ needs' = (needs /\ met)
DoctorUntouched == UNCHANGED <<root, tree, verdict>>

(*------------------------------- execute --------------------------------*)
StartDoctor ==
    /\ DoctorAt("idle")
    /\ Checked(root, root)
    /\ DoctorTo("selection")
    /\ DoctorUntouched /\ UNCHANGED <<sdk, selection>>

(* The root build files and gradle.properties are read before the inventory. *)
ReadSelection(unreadable, found) ==
    /\ DoctorAt("selection")
    /\ selection' = [unreadable |-> unreadable, found |-> found]
    /\ DoctorTo("baseline")
    /\ DoctorUntouched /\ UNCHANGED <<sdk, checks, needs>>

Baseline ==
    /\ DoctorAt("baseline")
    /\ doctor' = [doctor EXCEPT !.pc = "javascript", !.baseline = tree]
    /\ DoctorUntouched /\ UNCHANGED <<sdk, selection, checks, needs>>

(* _javascript_checks: node, and the manager the lock files select, npm if *)
(* there is none; with both lock files one healthy manager is enough.      *)
JavascriptChecks(node, locks, healthy) ==
    /\ DoctorAt("javascript")
    /\ LET selected == IF locks = {} THEN {"npm"} ELSE locks
           passed == node /\ root /\ selected \cap healthy # {} IN
       Checked(passed, passed)
    /\ DoctorTo("java")
    /\ DoctorUntouched /\ UNCHANGED <<sdk, selection>>

(* _java_check: JAVA_HOME wins over PATH, and Java 17 or newer is required. *)
JavaCheck(home, inHome, onPath, runs, version) ==
    /\ DoctorAt("java")
    /\ LET found == IF home THEN inHome ELSE onPath
           passed == found /\ runs /\ version >= 17 IN
       Checked(passed, passed)
    /\ DoctorTo("sdk")
    /\ DoctorUntouched /\ UNCHANGED <<sdk, selection>>

SdkCheck(paths, layout) ==
    /\ DoctorAt("sdk")
    /\ sdk' = [paths |-> paths, layout |-> layout]
    /\ LET passed == Cardinality(paths) = 1 /\ layout IN Checked(passed, passed)
    /\ DoctorTo("platform")
    /\ DoctorUntouched /\ UNCHANGED selection

(* _selected_sdk_component_check: the selected version below the SDK, with *)
(* the files that make it whole.  Needed: the one version the project      *)
(* names is installed.                                                     *)
ComponentCheck(name, whole, next) ==
    /\ LET found == SdkSelected /\ Selected(name) \in whole IN
       Checked(found /\ ~SelectionError(name) /\ ~SdkError,
               \E v \in whole : selection.found[name] = {v})
    /\ DoctorTo(next)
    /\ DoctorUntouched /\ UNCHANGED <<sdk, selection>>

PlatformCheck(whole) ==
    DoctorAt("platform") /\ ComponentCheck("compileSdkVersion", whole, "build-tools")
BuildToolsCheck(whole) ==
    DoctorAt("build-tools") /\ ComponentCheck("buildToolsVersion", whole, "gradle")

(* Gradle wrapper and the JVM it reports (_android_checks,                 *)
(* _gradle_jvm_check): the daemon's Java home must be reported, executable *)
(* and of version 17 to 23; `executed' is what its java said of itself.    *)
GradleCheck(exists, runs, reported, daemonHome, executable, executed) ==
    /\ DoctorAt("gradle")
    /\ LET wrapper == root /\ exists /\ runs
           detected == IF daemonHome THEN executed ELSE reported
           jvm == /\ wrapper /\ daemonHome /\ executable
                  /\ detected >= 17 /\ detected < 24 IN
       Checked(wrapper /\ jvm, exists /\ runs /\ daemonHome /\ executable /\ executed \in 17 .. 23)
    /\ DoctorTo("cmake")
    /\ DoctorUntouched /\ UNCHANGED <<sdk, selection>>

(* _selected_cmake_check: cmake.dir of local.properties wins over the SDK; *)
(* the version of gradle.properties, or the default, must match exactly.   *)
CmakeCheck(directory, badProperties, selected, present, detected) ==
    /\ DoctorAt("cmake")
    /\ LET found == present /\ (directory \/ SdkSelected)
           passed == found /\ detected = selected /\ detected >= Minimum IN
       Checked(passed /\ ~badProperties /\ (~SdkError \/ directory),
               present /\ detected = selected /\ selected >= Minimum /\ ~badProperties)
    /\ DoctorTo("ndk")
    /\ DoctorUntouched /\ UNCHANGED <<sdk, selection>>

(* _native_checks: side-by-side NDKs by revision, or by directory name     *)
(* when none is recorded; then the directory of the selected name, then    *)
(* the environment.  `dirs' maps an NDK directory's name to its revision.  *)
NdkCheck(dirs, envRevision, compiles) ==
    /\ DoctorAt("ndk")
    /\ LET want == Selected("ndkVersion")
           present == {d \in Versions : dirs[d] # Absent}
           byRevision == {d \in present : want = IF dirs[d] = 0 THEN d ELSE dirs[d]} IN
       \E revision \in
              IF want = 0 \/ SdkError THEN {0}
              ELSE IF byRevision # {} THEN {dirs[d] : d \in byRevision}
              ELSE IF want \in present THEN {dirs[want]}
              ELSE IF envRevision = want THEN {want} ELSE {0} :
          Checked(compiles /\ revision # 0 /\ revision = want,
                  \E v \in Versions : /\ compiles /\ selection.found["ndkVersion"] = {v}
                                     /\ (envRevision = v \/ \E d \in present : dirs[d] = v))
    /\ DoctorTo("second inventory")
    /\ DoctorUntouched /\ UNCHANGED <<sdk, selection>>

Stages == {"javascript", "java", "sdk", "platform", "build-tools", "gradle", "cmake", "ndk"}

(* Ctrl-C, or an exception of a check, ends the stages. *)
StageInterrupted ==
    /\ doctor.pc \in Stages
    /\ doctor' = [doctor EXCEPT !.pc = "second inventory", !.interrupted = TRUE]
    /\ DoctorUntouched /\ UNCHANGED <<sdk, selection, checks, needs>>
StageRaises ==
    /\ doctor.pc \in Stages
    /\ doctor' = [doctor EXCEPT !.pc = "second inventory", !.exception = TRUE]
    /\ DoctorUntouched /\ UNCHANGED <<sdk, selection, checks, needs>>

(* _final_result and _stage_failure_result: what the checks amount to. *)
FinalResult ==
    IF doctor.exception \/ ~checks THEN [NoVerdict EXCEPT !.status = "failure", !.exit = 1]
    ELSE [NoVerdict EXCEPT !.status = "success", !.exit = 0]

(* Mutant: an interrupted doctor does not look at the tree again. *)
ReportInterruptedFirst ==
    /\ DoctorAt("second inventory")
    /\ LET mutated == root /\ tree # doctor.baseline IN
       verdict' = IF doctor.interrupted
                  THEN [NoVerdict EXCEPT !.status = "cancelled", !.exit = 130, !.cancelled = TRUE]
                  ELSE IF mutated THEN [NoVerdict EXCEPT !.status = "partial", !.exit = 3,
                                                         !.changes = TRUE]
                  ELSE FinalResult
    /\ DoctorTo("over")
    /\ UNCHANGED <<root, sdk, selection, tree, checks, needs>>

(* The second inventory decides before the interruption does: an edit is   *)
(* partial with exit code 3 whatever else happened.                        *)
Report ==
    /\ DoctorAt("second inventory")
    /\ LET mutated == root /\ tree # doctor.baseline IN
       verdict' = IF mutated
                  THEN [status |-> "partial", exit |-> 3, changes |-> TRUE,
                        cancelled |-> doctor.interrupted]
                  ELSE IF doctor.exception THEN FinalResult
                  ELSE IF doctor.interrupted
                  THEN [status |-> "cancelled", exit |-> 130, changes |-> FALSE,
                        cancelled |-> TRUE]
                  ELSE FinalResult
    /\ DoctorTo("over")
    /\ UNCHANGED <<root, sdk, selection, tree, checks, needs>>

(* A Ctrl-C outside the stages leaves execute; main reports it. *)
InterruptedOutside ==
    /\ doctor.pc \in {"selection", "baseline", "second inventory"}
    /\ verdict' = [status |-> "cancelled", exit |-> 130, changes |-> FALSE, cancelled |-> TRUE]
    /\ DoctorTo("left")
    /\ UNCHANGED <<root, sdk, selection, tree, checks, needs>>

Revisions == Versions \cup {0, Absent}
DoctorNext ==
    \/ EditTree \/ StartDoctor \/ Baseline \/ StageInterrupted \/ StageRaises \/ Report
    \/ InterruptedOutside
    \/ \E found \in [ToolNames -> SUBSET Versions] : ReadSelection(FALSE, found)
    \/ ReadSelection(TRUE, [n \in ToolNames |-> {}])
    \/ \E node \in BOOLEAN, locks, healthy \in SUBSET {"npm", "yarn"} :
          JavascriptChecks(node, locks, healthy)
    \/ \E home, inHome, onPath, runs \in BOOLEAN, version \in {11, 17} :
          JavaCheck(home, inHome, onPath, runs, version)
    \/ \E paths \in SUBSET {"a", "b"}, layout \in BOOLEAN : SdkCheck(paths, layout)
    \/ \E whole \in SUBSET Versions : PlatformCheck(whole) \/ BuildToolsCheck(whole)
    \/ \E exists, runs, daemonHome, executable \in BOOLEAN, v, w \in {0, 16, 17, 24} :
          GradleCheck(exists, runs, v, daemonHome, executable, w)
    \/ \E directory, bad, present \in BOOLEAN, selected, detected \in Versions :
          CmakeCheck(directory, bad, selected, present, detected)
    \/ \E dirs \in [Versions -> Revisions], env \in Versions \cup {0}, compiles \in BOOLEAN :
          NdkCheck(dirs, env, compiles)

DoctorSpec == DoctorInit /\ [][DoctorNext]_doctorVars

(*------------------------------ properties ------------------------------*)
Mutated == root /\ tree # doctor.baseline

(* Doctor reports success only when every stage ran, the authored tree is  *)
(* as it was and the tools the project selects, not merely some installed  *)
(* ones, serve the build; an edit seen between the inventories is reported *)
(* as partial even when Ctrl-C or an exception ended the stages, and the   *)
(* interruption is recorded with it (DoctorService.execute).               *)
VerdictIsHonest ==
    DoctorAt("over") =>
        /\ verdict.exit = 0 => ~doctor.interrupted /\ ~doctor.exception /\ ~Mutated /\ needs
        /\ verdict.exit = 130 /\ doctor.interrupted => ~Mutated
        /\ verdict.exit = 3 => verdict.changes /\ verdict.cancelled = doctor.interrupted

(*-------------------------- inductive invariant -------------------------*)
DoctorSteps == Stages \cup {"idle", "selection", "baseline", "second inventory", "over", "left"}
DoctorTypes ==
    /\ doctor \in [pc : DoctorSteps, baseline : Nat, interrupted : BOOLEAN, exception : BOOLEAN]
    /\ tree \in Nat
    /\ selection.found \in [ToolNames -> SUBSET Versions]
    /\ checks \in BOOLEAN /\ needs \in BOOLEAN

(* A check that passes found what the build needs. *)
ChecksInv == checks => needs

DoctorInv == DoctorTypes /\ ChecksInv /\ VerdictIsHonest
=============================================================================
