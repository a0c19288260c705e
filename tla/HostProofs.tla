------------------------------ MODULE HostProofs -----------------------------
(***************************************************************************)
(* Proofs about the generator's own process: the subprocesses it runs, the *)
(* doctor, the command line, the publication of a scaffold and the         *)
(* boundary to the plugin's file system.  One section per component; each  *)
(* ends in the theorem of its inductive invariant and in those of the      *)
(* properties that follow from it.                                         *)
(***************************************************************************)
EXTENDS Subprocess, Doctor, CommandLine, AddPublication, SourceTree, SourceGuard, WindowsAuthority,
        CoherentRead, FiniteSetTheorems, SequenceTheorems, WellFoundedInduction, TLAPS

(*------------------------------ subprocesses ----------------------------*)
(* What SIGKILL, or SIGTERM for those that listen, leaves of the processes.*)
LEMMA SignalFacts ==
  ASSUME CallTypes, NEW force \in BOOLEAN, SignalTree(force)
  PROVE  /\ proc' \in [Processes -> {"none", "alive", "dying", "dead"}]
         /\ (Group \cap Alive)' \subseteq Group \cap Alive
         /\ force => (Group \cap Alive)' = {}
BY DEF CallTypes, SignalTree, Alive, Processes, Group

(* A process starts only with the tool itself or where one of its group    *)
(* is alive.                                                               *)
LEMMA ProcessesStep ==
  ASSUME CallTypes, NEW p \in Processes,
         Exit(p) \/ ClosePipe(p) \/ Die(p) \/ \E forker \in Group : Fork(forker, p)
  PROVE  /\ proc' \in [Processes -> {"none", "alive", "dying", "dead"}]
         /\ Group \cap Alive = {} => (Group \cap Alive)' = {}
         /\ call' = call
<1>1. CASE Exit(p)
  BY <1>1 DEF Exit, CallTypes, Alive
<1>2. CASE ClosePipe(p)
  BY <1>2 DEF ClosePipe, CallTypes, Alive
<1>3. CASE Die(p)
  BY <1>3 DEF Die, CallTypes, Alive
<1>4. ASSUME NEW forker \in Group, Fork(forker, p)
      PROVE  /\ proc' \in [Processes -> {"none", "alive", "dying", "dead"}]
             /\ Group \cap Alive # {}
             /\ call' = call
  BY <1>4 DEF Fork, CallTypes, Alive
<1> QED
  BY <1>1, <1>2, <1>3, <1>4

(* Every step of a call keeps its invariant.                               *)
LEMMA CallStep == CallInv /\ [CallNext]_callVars => CallInv'
<1> SUFFICES ASSUME CallInv, [CallNext]_callVars PROVE CallInv'
  OBVIOUS
<1>0. CallTypes /\ CarriedInv /\ StoppedInv
  BY DEF CallInv
<1> USE DEF CarriedInv, StoppedInv, GroupKilled, CallAt
<1>1. ASSUME NEW p \in Processes,
             Exit(p) \/ ClosePipe(p) \/ Die(p) \/ \E forker \in Group : Fork(forker, p)
      PROVE  CallInv'
  BY <1>0, <1>1, ProcessesStep DEF CallInv, CallTypes
<1>2. CASE Popen
  BY <1>0, <1>2 DEF CallInv, CallTypes, Popen, CallTo
<1>3. CASE ToolEnds
  BY <1>0, <1>3 DEF CallInv, CallTypes, ToolEnds, CallTo, Alive
<1>4. CASE TimesOut
  BY <1>0, <1>4, SignalFacts DEF CallInv, CallTypes, TimesOut
<1>5. CASE GraceEnds
  BY <1>0, <1>5, SignalFacts DEF CallInv, CallTypes, GraceEnds, CallTo
<1>6. CASE Reaped
  BY <1>0, <1>6 DEF CallInv, CallTypes, Reaped, CallTo, Alive
<1>7. CASE Drained
  BY <1>0, <1>7 DEF CallInv, CallTypes, Drained, CallTo, Alive
<1>8. CASE Joined
  BY <1>0, <1>8 DEF CallInv, CallTypes, Joined, CallTo, Alive
<1>9. CASE Interrupted
  BY <1>0, <1>9, SignalFacts DEF CallInv, CallTypes, Interrupted
<1>10. CASE InterruptedAgain
  BY <1>0, <1>10 DEF CallInv, CallTypes, InterruptedAgain, Alive
<1>11. CASE PumpEnds
  BY <1>0, <1>11 DEF CallInv, CallTypes, PumpEnds, Alive
<1>12. CASE Terminated
  <2>1. CASE call.pc = "waiting"
    BY <1>0, <1>12, <2>1, SignalFacts DEF CallInv, CallTypes, Terminated
  <2>2. CASE call.pc # "waiting"
    <3>1. call' = [pc |-> "terminated", carries |-> "stopping"] /\ proc' = proc
      BY <1>12, <2>2 DEF Terminated
    <3> QED
      BY <1>0, <3>1 DEF CallInv, CallTypes
  <2> QED
    BY <2>1, <2>2
<1>13. CASE UNCHANGED callVars
  BY <1>0, <1>13 DEF CallInv, CallTypes, callVars, Alive
<1> QED
  BY <1>1, <1>2, <1>3, <1>4, <1>5, <1>6, <1>7, <1>8, <1>9, <1>10, <1>11, <1>12, <1>13 DEF CallNext

(* The call carries what its clean-up is for, and from the kill on no      *)
(* process of the group is alive: CallSpec => []CallInv.                   *)
THEOREM CallInvariant == CallSpec => []CallInv
<1>1. CallInit => CallInv
  BY DEF CallInit, CallInv, CallTypes, CarriedInv, StoppedInv, GroupKilled, CallAt
<1> QED
  BY <1>1, CallStep, PTL DEF CallSpec

(* A call that ended by timeout, Ctrl-C or SIGTERM leaves nothing of the   *)
(* group of the tool running (run_process, _stop_tree).                    *)
THEOREM GroupStopped == CallSpec => []TreeStopped
<1>1. CallInv => TreeStopped
  BY DEF CallInv, CarriedInv, StoppedInv, GroupKilled, CallAt, TreeStopped
<1> QED
  BY <1>1, CallInvariant, PTL

(*------------------------------- the doctor -----------------------------*)
(* A name without an error is selected by the one version the project      *)
(* gives it (_project_toolchain_selection).                                *)
LEMMA SelectedIsDeclared ==
  ASSUME DoctorTypes, NEW name \in ToolNames, ~SelectionError(name)
  PROVE  /\ Selected(name) \in Versions
         /\ selection.found[name] = {Selected(name)}
<1> DEFINE S == selection.found[name]
<1>1. IsFiniteSet(S) /\ S \subseteq Versions
  BY FS_Subset, DoctorAssumption DEF DoctorTypes
<1>2. Cardinality(S) = 1
  BY DEF SelectionError
<1>3. PICK v : S = {v}
  BY <1>1, <1>2, FS_Singleton
<1>4. Selected(name) = CHOOSE x \in S : TRUE
  BY DEF Selected
<1> QED
  BY <1>1, <1>3, <1>4

(* A stage that does not touch the tree and whose check, when it passes,   *)
(* found what the build needs keeps the invariant.                         *)
LEMMA StageStep ==
  ASSUME DoctorInv, NEW pc \in DoctorSteps, NEW from \in DoctorSteps \ {"over"},
         NEW passed \in BOOLEAN, NEW met \in BOOLEAN, passed => met,
         DoctorAt(from), Checked(passed, met), DoctorTo(pc), tree' = tree,
         pc # "over", selection' = selection
  PROVE  DoctorInv'
BY DEF DoctorInv, DoctorTypes, ChecksInv, VerdictIsHonest, DoctorAt, Checked, DoctorTo

(* _selected_sdk_component_check.                                          *)
LEMMA ComponentStep ==
  ASSUME DoctorInv, NEW name \in ToolNames, NEW whole \in SUBSET Versions,
         NEW next \in DoctorSteps \ {"over"}, NEW from \in DoctorSteps \ {"over"},
         DoctorAt(from), ComponentCheck(name, whole, next)
  PROVE  DoctorInv'
<1> DEFINE found == SdkSelected /\ Selected(name) \in whole
           passed == found /\ ~SelectionError(name) /\ ~SdkError
           met == \E v \in whole : selection.found[name] = {v}
<1>1. passed => met
  BY SelectedIsDeclared DEF DoctorInv
<1>2. /\ Checked(passed, met) /\ DoctorTo(next)
      /\ tree' = tree /\ selection' = selection
  BY DEF ComponentCheck, DoctorUntouched
<1> HIDE DEF passed, met
<1>3. Checked(passed = TRUE, met = TRUE)
  BY <1>2 DEF Checked, DoctorInv, DoctorTypes
<1> QED
  BY <1>1, <1>2, <1>3, StageStep

(* _gradle_jvm_check.                                                      *)
LEMMA GradleStep ==
  ASSUME DoctorInv, NEW exists \in BOOLEAN, NEW runs \in BOOLEAN, NEW daemonHome \in BOOLEAN,
         NEW executable \in BOOLEAN, NEW stated \in Nat, NEW executed \in Nat,
         GradleCheck(exists, runs, stated, daemonHome, executable, executed)
  PROVE  DoctorInv'
<1> DEFINE wrapper == root /\ exists /\ runs
           detected == IF daemonHome THEN executed ELSE stated
           jvm == /\ wrapper /\ daemonHome /\ executable
                  /\ detected >= 17 /\ detected < 24
           passed == wrapper /\ jvm
           met == exists /\ runs /\ daemonHome /\ executable /\ executed \in 17 .. 23
<1>1. passed => met
  OBVIOUS
<1>2. /\ DoctorAt("gradle") /\ Checked(passed, met) /\ DoctorTo("cmake")
      /\ tree' = tree /\ selection' = selection
  BY DEF GradleCheck, DoctorUntouched
<1> HIDE DEF passed, met
<1>3. Checked(passed = TRUE, met = TRUE)
  BY <1>2 DEF Checked, DoctorInv, DoctorTypes
<1> QED
  BY <1>1, <1>2, <1>3, StageStep DEF DoctorSteps, Stages

(* _selected_cmake_check.                                                  *)
LEMMA CmakeStep ==
  ASSUME DoctorInv, NEW directory \in BOOLEAN, NEW bad \in BOOLEAN, NEW selected \in Versions,
         NEW present \in BOOLEAN, NEW detected \in Versions,
         CmakeCheck(directory, bad, selected, present, detected)
  PROVE  DoctorInv'
<1> DEFINE passed == /\ present /\ (directory \/ SdkSelected)
                     /\ detected = selected /\ detected >= Minimum
                     /\ ~bad /\ (~SdkError \/ directory)
           met == present /\ detected = selected /\ selected >= Minimum /\ ~bad
<1>1. passed => met
  OBVIOUS
<1>2. /\ DoctorAt("cmake") /\ Checked(passed, met) /\ DoctorTo("ndk")
      /\ tree' = tree /\ selection' = selection
  BY DEF CmakeCheck, DoctorUntouched, Checked
<1> HIDE DEF passed, met
<1>3. Checked(passed = TRUE, met = TRUE)
  BY <1>2 DEF Checked, DoctorInv, DoctorTypes
<1> QED
  BY <1>1, <1>2, <1>3, StageStep DEF DoctorSteps, Stages

(* The NDK that compiles is one the project names (_native_checks).        *)
LEMMA NdkStep ==
  ASSUME DoctorInv, NEW installed \in [Versions -> Revisions], NEW env \in Versions \cup {0},
         NEW compiles \in BOOLEAN, NdkCheck(installed, env, compiles)
  PROVE  DoctorInv'
<1> DEFINE want == Selected("ndkVersion")
           present == {d \in Versions : installed[d] # Absent}
           byRevision == {d \in present : want = IF installed[d] = 0 THEN d ELSE installed[d]}
           candidates == IF want = 0 \/ SdkError THEN {0}
                         ELSE IF byRevision # {} THEN {installed[d] : d \in byRevision}
                         ELSE IF want \in present THEN {installed[want]}
                         ELSE IF env = want THEN {want} ELSE {0}
           met == \E v \in Versions : /\ compiles /\ selection.found["ndkVersion"] = {v}
                                      /\ (env = v \/ \E d \in present : installed[d] = v)
<1>1. PICK revision \in candidates : Checked(compiles /\ revision # 0 /\ revision = want, met)
  BY DEF NdkCheck
<1> DEFINE passed == compiles /\ revision # 0 /\ revision = want
<1>2. ASSUME passed PROVE met
  <2>1. want # 0 /\ ~SelectionError("ndkVersion")
    BY <1>2 DEF Selected
  <2>2. want \in Versions /\ selection.found["ndkVersion"] = {want}
    BY <2>1, SelectedIsDeclared DEF DoctorInv, ToolNames
  <2>3. env = want \/ \E d \in present : installed[d] = want
    BY <1>1, <1>2, <2>1
  <2> QED
    BY <1>2, <2>2, <2>3
<1>3. /\ DoctorAt("ndk") /\ DoctorTo("second inventory")
      /\ tree' = tree /\ selection' = selection
  BY DEF NdkCheck, DoctorUntouched
<1> HIDE DEF passed, met
<1>4. Checked(passed, met)
  BY <1>1 DEF passed
<1>5. Checked(passed = TRUE, met = TRUE)
  BY <1>4 DEF Checked, DoctorInv, DoctorTypes
<1> QED
  BY <1>2, <1>3, <1>5, StageStep DEF DoctorSteps, Stages
(* The other checks: what they require is what the build needs.            *)
LEMMA JavascriptStep ==
  ASSUME DoctorInv, NEW node \in BOOLEAN, NEW locks \in SUBSET {"npm", "yarn"},
         NEW healthy \in SUBSET {"npm", "yarn"}, JavascriptChecks(node, locks, healthy)
  PROVE  DoctorInv'
<1> DEFINE selected == IF locks = {} THEN {"npm"} ELSE locks
           passed == node /\ root /\ selected \cap healthy # {}
<1>1. /\ DoctorAt("javascript") /\ Checked(passed, passed) /\ DoctorTo("java")
      /\ tree' = tree /\ selection' = selection
  BY DEF JavascriptChecks, DoctorUntouched
<1> HIDE DEF passed
<1>2. Checked(passed = TRUE, passed = TRUE)
  BY <1>1 DEF Checked, DoctorInv, DoctorTypes
<1> QED
  BY <1>1, <1>2, StageStep DEF DoctorSteps, Stages

(* The check of the JDK: which of the three candidates runs.               *)
LEMMA JavaStep ==
  ASSUME DoctorInv, NEW home \in BOOLEAN, NEW inHome \in BOOLEAN, NEW onPath \in BOOLEAN,
         NEW runs \in BOOLEAN, NEW version \in {11, 17},
         JavaCheck(home, inHome, onPath, runs, version)
  PROVE  DoctorInv'
<1> DEFINE found == IF home THEN inHome ELSE onPath
           passed == found /\ runs /\ version >= 17
<1>1. /\ DoctorAt("java") /\ Checked(passed, passed) /\ DoctorTo("sdk")
      /\ tree' = tree /\ selection' = selection
  BY DEF JavaCheck, DoctorUntouched
<1> HIDE DEF passed
<1>2. Checked(passed = TRUE, passed = TRUE)
  BY <1>1 DEF Checked, DoctorInv, DoctorTypes
<1> QED
  BY <1>1, <1>2, StageStep DEF DoctorSteps, Stages

(* The check of the SDK: the candidates before the chosen one are no SDKs. *)
LEMMA SdkStep ==
  ASSUME DoctorInv, NEW paths, NEW layout \in BOOLEAN, SdkCheck(paths, layout)
  PROVE  DoctorInv'
<1> DEFINE passed == Cardinality(paths) = 1 /\ layout
<1>1. /\ DoctorAt("sdk") /\ Checked(passed, passed) /\ DoctorTo("platform")
      /\ tree' = tree /\ selection' = selection
  BY DEF SdkCheck, DoctorUntouched
<1> HIDE DEF passed
<1>2. Checked(passed = TRUE, passed = TRUE)
  BY <1>1 DEF Checked, DoctorInv, DoctorTypes
<1> QED
  BY <1>1, <1>2, StageStep DEF DoctorSteps, Stages

(* The steps around the stages, and the verdict.                           *)
LEMMA FrameStep ==
  ASSUME DoctorInv,
         \/ EditTree \/ StartDoctor \/ Baseline \/ StageInterrupted \/ StageRaises
         \/ InterruptedOutside \/ UNCHANGED doctorVars
         \/ \E unreadable \in BOOLEAN, found \in [ToolNames -> SUBSET Versions] :
               ReadSelection(unreadable, found)
  PROVE  DoctorInv'
<1>1. CASE EditTree
  <2>1. doctor' = doctor /\ doctor.pc # "over"
    BY <1>1 DEF EditTree
  <2>2. selection' = selection /\ checks' = checks /\ needs' = needs /\ tree' = tree + 1
    BY <1>1 DEF EditTree
  <2> QED
    BY <2>1, <2>2 DEF DoctorInv, DoctorTypes, ChecksInv, VerdictIsHonest, DoctorAt
<1> USE DEF DoctorInv, DoctorTypes, ChecksInv, VerdictIsHonest, DoctorAt, DoctorTo,
            DoctorUntouched, DoctorSteps, Stages
<1>2. CASE StartDoctor
  BY <1>2 DEF StartDoctor, Checked
<1>3. CASE Baseline
  BY <1>3 DEF Baseline
<1>4. CASE StageInterrupted
  BY <1>4 DEF StageInterrupted
<1>5. CASE StageRaises
  BY <1>5 DEF StageRaises
<1>6. CASE InterruptedOutside
  BY <1>6 DEF InterruptedOutside
<1>7. CASE UNCHANGED doctorVars
  BY <1>7 DEF doctorVars, Mutated
<1>8. ASSUME NEW unreadable \in BOOLEAN, NEW found \in [ToolNames -> SUBSET Versions],
             ReadSelection(unreadable, found)
      PROVE  DoctorInv'
  BY <1>8 DEF ReadSelection
<1> QED
  BY <1>1, <1>2, <1>3, <1>4, <1>5, <1>6, <1>7, <1>8

(* The report judges only once every tool has been checked.                *)
LEMMA ReportStep ==
  ASSUME DoctorInv, Report
  PROVE  DoctorInv'
<1>1. /\ doctor' = [doctor EXCEPT !.pc = "over"] /\ tree' = tree /\ root' = root
      /\ selection' = selection /\ checks' = checks /\ needs' = needs
  BY DEF Report, DoctorTo
<1>2. Mutated' = Mutated
  BY <1>1 DEF Mutated, DoctorInv, DoctorTypes
<1>3. verdict' = IF Mutated
                 THEN [status |-> "partial", exit |-> 3, changes |-> TRUE,
                       cancelled |-> doctor.interrupted]
                 ELSE IF doctor.exception THEN FinalResult
                 ELSE IF doctor.interrupted
                 THEN [status |-> "cancelled", exit |-> 130, changes |-> FALSE,
                       cancelled |-> TRUE]
                 ELSE FinalResult
  BY DEF Report, Mutated
<1>4. /\ FinalResult.exit \in {0, 1}
      /\ FinalResult.exit = 0 => ~doctor.exception /\ checks
  BY DEF FinalResult, NoVerdict
<1>5. VerdictIsHonest'
  BY <1>1, <1>2, <1>3, <1>4 DEF DoctorInv, DoctorTypes, ChecksInv, VerdictIsHonest
<1> QED
  BY <1>1, <1>5 DEF DoctorInv, DoctorTypes, ChecksInv, DoctorSteps

(* Every step of the doctor keeps its invariant.                           *)
LEMMA DoctorStep == DoctorInv /\ [DoctorNext]_doctorVars => DoctorInv'
<1> SUFFICES ASSUME DoctorInv, [DoctorNext]_doctorVars PROVE DoctorInv'
  OBVIOUS
<1>1. CASE \/ EditTree \/ StartDoctor \/ Baseline \/ StageInterrupted \/ StageRaises
           \/ InterruptedOutside \/ UNCHANGED doctorVars
           \/ \E found \in [ToolNames -> SUBSET Versions] : ReadSelection(FALSE, found)
  BY <1>1, FrameStep
<1>2. CASE ReadSelection(TRUE, [n \in ToolNames |-> {}])
  <2>1. [n \in ToolNames |-> {}] \in [ToolNames -> SUBSET Versions]
    OBVIOUS
  <2> QED
    BY <2>1, <1>2, FrameStep
<1>3. CASE Report
  BY <1>3, ReportStep
<1>4. CASE \E node \in BOOLEAN, locks, healthy \in SUBSET {"npm", "yarn"} :
              JavascriptChecks(node, locks, healthy)
  BY <1>4, JavascriptStep
<1>5. CASE \E home, inHome, onPath, runs \in BOOLEAN, version \in {11, 17} :
              JavaCheck(home, inHome, onPath, runs, version)
  BY <1>5, JavaStep
<1>6. CASE \E paths \in SUBSET {"a", "b"}, layout \in BOOLEAN : SdkCheck(paths, layout)
  BY <1>6, SdkStep
<1>7. ASSUME NEW whole \in SUBSET Versions, PlatformCheck(whole) \/ BuildToolsCheck(whole)
      PROVE  DoctorInv'
  BY <1>7, ComponentStep DEF PlatformCheck, BuildToolsCheck, DoctorSteps, Stages, ToolNames
<1>8. ASSUME NEW exists \in BOOLEAN, NEW runs \in BOOLEAN, NEW daemonHome \in BOOLEAN,
             NEW executable \in BOOLEAN, NEW v \in {0, 16, 17, 24}, NEW w \in {0, 16, 17, 24},
             GradleCheck(exists, runs, v, daemonHome, executable, w)
      PROVE  DoctorInv'
  BY <1>8, GradleStep
<1>9. ASSUME NEW directory \in BOOLEAN, NEW bad \in BOOLEAN, NEW present \in BOOLEAN,
             NEW selected \in Versions, NEW detected \in Versions,
             CmakeCheck(directory, bad, selected, present, detected)
      PROVE  DoctorInv'
  BY <1>9, CmakeStep
<1>10. CASE \E exists, runs, daemonHome, executable \in BOOLEAN, v, w \in {0, 16, 17, 24} :
               GradleCheck(exists, runs, v, daemonHome, executable, w)
  BY <1>8, <1>10
<1>11. CASE \E directory, bad, present \in BOOLEAN, selected, detected \in Versions :
               CmakeCheck(directory, bad, selected, present, detected)
  BY <1>9, <1>11
<1>12. CASE \E installed \in [Versions -> Revisions], env \in Versions \cup {0},
               compiles \in BOOLEAN : NdkCheck(installed, env, compiles)
  BY <1>12, NdkStep
<1> QED
  BY <1>1, <1>2, <1>3, <1>4, <1>5, <1>6, <1>7, <1>10, <1>11, <1>12, Zenon DEF DoctorNext

(* A check never passes on what the build cannot use: DoctorSpec =>        *)
(* []DoctorInv.                                                            *)
THEOREM DoctorInvariant == DoctorSpec => []DoctorInv
<1>1. DoctorInit => DoctorInv
  BY DEF DoctorInit, DoctorInv, DoctorTypes, ChecksInv, VerdictIsHonest, DoctorAt, DoctorSteps
<1> QED
  BY <1>1, DoctorStep, PTL DEF DoctorSpec

(* Success means tools the build can use, no edit and no interruption      *)
(* (DoctorService.execute).                                                *)
THEOREM DoctorHonest == DoctorSpec => []VerdictIsHonest
<1>1. DoctorInv => VerdictIsHonest
  BY DEF DoctorInv
<1> QED
  BY <1>1, DoctorInvariant, PTL

(*----------------------------- command line -----------------------------*)
LEMMA FieldsFacts ==
  /\ Len(Fields) = 5
  /\ Fields[1] = "starters" /\ Fields[2] = "package" /\ Fields[3] = "description"
  /\ Fields[4] = "derived" /\ Fields[5] = "version"
BY DEF Fields

(* Where the wizard may be: its field, and whether it is answered.         *)
LEMMA FieldFacts ==
  ASSUME CliTypes, wizard.index <= Len(Fields)
  PROVE  /\ wizard.index \in 1 .. 5
         /\ Field \in FieldNames
         /\ Field = "package" <=> wizard.index = 2
         /\ Field = "derived" <=> wizard.index = 4
BY FieldsFacts DEF CliTypes, Answers, Field, FieldNames

(* An end of the run leaves no menu, no service and no exception behind.   *)
LEMMA OverStep ==
  ASSUME CliInv, cli' = [cli EXCEPT !.pc = "over"], UNCHANGED <<args, wizard>>,
         project' \in {"untouched", "generated", "partial"},
         project' = "partial" /\ ~closed' => exit' # 0
  PROVE  CliInv'
BY DEF CliInv, CliTypes, NamesInv, UnwoundInv, NamesFollowPackage, ExitIsHonest, CliAt

(* An exception on its way: its context managers have undone.              *)
LEMMA UnwindStep ==
  ASSUME CliInv, UNCHANGED <<args, wizard>>, NEW what \in {"error", "usage", "cancelled",
             "interrupt", "signal", "partial", "back"}, Unwind(what),
         project' \in {"untouched", "generated", "partial"},
         project' # "untouched" => what \in {"partial", "signal"}
  PROVE  CliInv'
<1>1. /\ cli' = [cli EXCEPT !.pc = "raised", !.raised = what]
      /\ locked' = FALSE /\ environ' = "launched"
  BY DEF Unwind
<1>2. /\ CliTypes' /\ cli'.pc = "raised" /\ cli'.raised = what
  BY <1>1 DEF CliInv, CliTypes
<1> QED
  BY <1>1, <1>2 DEF CliInv, NamesInv, UnwoundInv, NamesFollowPackage, ExitIsHonest, CliAt, Nothing

(* A wizard that starts, or ends, has the names that were answered.        *)
LEMMA WizardStep ==
  ASSUME CliInv, NEW w, wizard' = w, CliAt("wizard"),
         UNCHANGED <<args, cli, locked, environ, project, closed, shown, exit>>,
         w \in Answers,
         w.index > 2 => w.package # Nothing,
         w.index > 4 => w.derived # Nothing,
         "derived" \notin args.options => w.derived \in {Nothing, w.package}
  PROVE  CliInv'
BY DEF CliInv, CliTypes, NamesInv, UnwoundInv, NamesFollowPackage, ExitIsHonest, CliAt

(*--------------------------- the questions of add -----------------------*)
(* The next question, with the answers given.                              *)
LEMMA NextFieldFacts ==
  ASSUME NEW w \in Answers, w.index \in 1 .. 5
  PROVE  /\ NextField(w) \in Answers
         /\ NextField(w).index = w.index + 1
         /\ NextField(w).package = w.package
         /\ NextField(w).derived = w.derived
<1> PICK n \in 1 .. 6 : n = w.index + 1
  OBVIOUS
<1>1. NextField(w) = [w EXCEPT !.revisit = Nothing, !.index = n]
  BY DEF NextField
<1> QED
  BY <1>1 DEF Answers

(* An answer fills the next field, which follows from the ones before.     *)
LEMMA QuestionSteps ==
  ASSUME CliInv, SkipAnswered \/ AnswerOther \/ \E p \in Packages : AnswerPackage(p)
  PROVE  CliInv'
<1>0. /\ CliTypes /\ NamesInv /\ CliAt("wizard") /\ wizard.index <= Len(Fields)
      /\ UNCHANGED <<args, cli, locked, environ, project, closed, shown, exit>>
  BY DEF CliInv, SkipAnswered, AnswerOther, AnswerPackage, Asking
<1>1. /\ wizard.index \in 1 .. 5 /\ Field \in FieldNames
      /\ Field = "package" <=> wizard.index = 2
      /\ Field = "derived" <=> wizard.index = 4
  BY <1>0, FieldFacts
<1>2. /\ wizard \in Answers
      /\ wizard.index > 2 => wizard.package # Nothing
      /\ wizard.index > 4 => wizard.derived # Nothing
      /\ "derived" \notin args.options => wizard.derived \in {Nothing, wizard.package}
  BY <1>0 DEF CliTypes, NamesInv, CliAt
<1>3. Nothing \notin Packages /\ Len(Fields) = 5
  BY CommandLineAssumption, FieldsFacts DEF Nothing
<1>4. CASE SkipAnswered
  <2>1. wizard' = NextField(wizard)
    BY <1>4 DEF SkipAnswered
  <2>2. Answered
    BY <1>0, <1>4 DEF SkipAnswered, Asking
  <2>3. /\ wizard.index = 2 => wizard.package # Nothing
        /\ wizard.index = 4 => wizard.derived # Nothing
    BY <2>2, <1>1 DEF Answered
  <2> QED
    BY <1>0, <1>1, <1>2, <2>1, <2>3, NextFieldFacts, WizardStep
<1>5. CASE AnswerOther
  <2> DEFINE w == IF wizard.index = 4 THEN [wizard EXCEPT !.derived = wizard.package]
                  ELSE [wizard EXCEPT !.given = @ \cup {Field}]
  <2>1. wizard' = NextField(w) /\ wizard.index # 2
    BY <1>1, <1>5 DEF AnswerOther
  <2>2. /\ w \in Answers /\ w.index = wizard.index /\ w.package = wizard.package
        /\ w.derived = IF wizard.index = 4 THEN wizard.package ELSE wizard.derived
    BY <1>1, <1>2 DEF Answers
  <2> HIDE DEF w
  <2> QED
    BY <1>0, <1>1, <1>2, <2>1, <2>2, NextFieldFacts, WizardStep
<1>6. ASSUME NEW p \in Packages, AnswerPackage(p) PROVE CliInv'
  <2> DEFINE d == IF p # wizard.package /\ "derived" \notin args.options THEN Nothing
                  ELSE wizard.derived
             w == [wizard EXCEPT !.package = p, !.derived = d]
  <2>1. wizard' = NextField(w) /\ wizard.index = 2
    BY <1>1, <1>2, <1>6 DEF AnswerPackage, Answers
  <2>2. w \in Answers /\ w.index = 2 /\ w.package = p /\ w.derived = d
    BY <1>2, <2>1 DEF Answers
  <2> HIDE DEF w
  <2> QED
    BY <1>0, <1>2, <1>3, <2>1, <2>2, NextFieldFacts, WizardStep
<1> QED
  BY <1>4, <1>5, <1>6

(* Going back drops an answer and every answer derived from it.            *)
LEMMA BackStep ==
  ASSUME CliInv, Back
  PROVE  CliInv'
<1>0. /\ CliTypes /\ NamesInv /\ CliAt("wizard") /\ wizard.index <= Len(Fields)
      /\ UNCHANGED <<args, project, closed, shown, exit>>
  BY DEF CliInv, Back, Asking
<1>1. CASE wizard.index = 1
  BY <1>0, <1>1, UnwindStep DEF Back, CliInv, UnwoundInv, CliAt
<1>2. CASE wizard.index # 1
  <2>1. wizard \in Answers /\ wizard.index \in 1 .. 5
    BY <1>0, FieldFacts DEF CliTypes
  <2>2. PICK n \in 1 .. 4 : n = wizard.index - 1
    BY <2>1, <1>2
  <2>3. PICK f \in FieldNames : f = Fields[n]
    BY <2>2, FieldsFacts DEF FieldNames
  <2> DEFINE w == [wizard EXCEPT !.index = n, !.revisit = f]
  <2>4. wizard' = w /\ UNCHANGED <<cli, locked, environ>>
    BY <1>2, <2>2, <2>3 DEF Back
  <2>5. wizard' \in Answers /\ wizard'.index = n /\ wizard'.package = wizard.package
        /\ wizard'.derived = wizard.derived
    <3>1. n \in 1 .. 6 /\ f \in FieldNames /\ wizard \in Answers
      BY <2>1, <2>2, <2>3
    <3>2. wizard' = [wizard EXCEPT !.index = n, !.revisit = f]
      BY <2>4
    <3> QED
      BY <3>1, <3>2 DEF Answers
  <2>6. /\ wizard.index > 2 => wizard.package # Nothing
        /\ wizard.index > 4 => wizard.derived # Nothing
        /\ "derived" \notin args.options => wizard.derived \in {Nothing, wizard.package}
    BY <1>0 DEF NamesInv, CliAt
  <2> HIDE DEF w
  <2> QED
    BY <1>0, <2>1, <2>2, <2>4, <2>5, <2>6, WizardStep
<1> QED
  BY <1>1, <1>2

(* The empty wizard has answered nothing.                                  *)
LEMMA NoWizardFacts == NoWizard \in Answers
BY DEF NoWizard, Answers

(*------------------------ before and after the wizard -------------------*)
LEMMA EntrySteps ==
  ASSUME CliInv, Reject \/ Parse \/ RefuseCommand \/ TakeLock \/ ApplyEnvironment
                 \/ (\E c \in Commands : MenuChoice(c))
                 \/ (\E e \in {"interrupt", "back"} : MenuLeft(e))
  PROVE  CliInv'
<1>0. /\ CliTypes /\ NamesInv /\ UnwoundInv
      /\ project = "untouched" \/ cli.pc \in {"raised", "over"}
  BY DEF CliInv, UnwoundInv
<1>1. CASE Reject
  BY <1>0, <1>1, OverStep DEF Reject, CliTo, CliAt
<1>2. CASE Parse
  <2>1. CASE cli'.pc = "over"
    <3>1. CliTo("over") /\ UNCHANGED <<args, wizard, project, closed>> /\ CliAt("parse")
      BY <1>0, <1>2, <2>1 DEF Parse, CliTo, CliAt, CliTypes
    <3> QED
      BY <1>0, <3>1, OverStep DEF CliTo, CliAt
  <2>2. CASE cli'.pc # "over"
    <3>1. /\ CliTo("public") \/ CliTo("menu")
          /\ CliAt("parse") /\ UNCHANGED <<args, locked, environ, wizard, project, closed>>
      BY <1>0, <1>2, <2>2 DEF Parse, CliTo, CliAt, CliTypes
    <3> QED
      BY <1>0, <3>1 DEF CliTo, CliInv, CliTypes, NamesInv, UnwoundInv, NamesFollowPackage,
                        ExitIsHonest, CliAt
  <2> QED
    BY <2>1, <2>2
<1>3. CASE RefuseCommand
  BY <1>0, <1>3, UnwindStep DEF RefuseCommand, UnwoundInv
<1>4. CASE TakeLock
  BY <1>4 DEF TakeLock, CliTo, CliInv, CliTypes, NamesInv, UnwoundInv, NamesFollowPackage,
              ExitIsHonest, CliAt
<1>5. CASE ApplyEnvironment
  <2> DEFINE d == IF "derived" \in args.options THEN "option"
                  ELSE IF args.yes /\ args.package # Nothing THEN args.package ELSE Nothing
             g == args.options \cup (IF args.yes THEN {"starters", "description", "version"}
                                     ELSE {})
             w == [NoWizard EXCEPT !.package = args.package, !.derived = d, !.given = g]
  <2>1. /\ wizard' = w /\ CliAt("locked")
        /\ UNCHANGED <<args, locked, project, closed, shown, exit>>
    BY <1>5 DEF ApplyEnvironment
  <2>2. g \in SUBSET FieldNames /\ d \in Packages \cup {Nothing, "option"}
    BY <1>0 DEF CliTypes, FieldNames
  <2>3. /\ w \in Answers /\ w.index = 1 /\ w.package = args.package /\ w.derived = d
    BY ZenonT(60), <1>0, <2>2, NoWizardFacts DEF CliTypes, NoWizard, Answers
  <2>4. PICK pc \in {"wizard", "confirm", "noninteractive"} :
            /\ cli' = [cli EXCEPT !.pc = pc]
            /\ pc = "confirm" => args.command = "update"
    BY <1>5 DEF ApplyEnvironment
  <2>5. "derived" \notin args.options => d \in {Nothing, args.package}
    OBVIOUS
  <2> HIDE DEF w, d, g
  <2> QED
    BY <1>0, <2>1, <2>3, <2>4, <2>5 DEF CliInv, CliTypes, NamesInv, UnwoundInv,
                        NamesFollowPackage, ExitIsHonest, CliAt
<1>6. ASSUME NEW c \in Commands, MenuChoice(c) PROVE CliInv'
  <2> DEFINE a == [NotAsked EXCEPT !.command = c]
  <2>1. a \in [command : Commands \cup {Nothing}, package : Packages \cup {Nothing},
               options : SUBSET {"starters", "derived"}, yes : BOOLEAN, tty : BOOLEAN]
    BY DEF NotAsked
  <2> HIDE DEF a
  <2>2. /\ args' = a /\ cli' = [cli EXCEPT !.pc = "public", !.menu = TRUE]
        /\ CliAt("menu") /\ UNCHANGED <<locked, environ, wizard, project, closed, shown, exit>>
    BY <1>6 DEF MenuChoice, a
  <2> QED
    BY <1>0, <2>1, <2>2 DEF CliInv, CliTypes, NamesInv, UnwoundInv, NamesFollowPackage,
                        ExitIsHonest, CliAt
<1>7. ASSUME NEW e, MenuLeft(e) PROVE CliInv'
  BY <1>0, <1>7, OverStep DEF MenuLeft, CliTo, CliAt
<1> QED
  BY <1>1, <1>2, <1>3, <1>4, <1>5, <1>6, <1>7

(* The service gets the answers, or what the command line gave.            *)
LEMMA ServiceSteps ==
  ASSUME CliInv, \/ NonInteractive \/ WizardDone
                 \/ \E a \in {"yes", "no", "back"} : Confirm(a)
                 \/ \E e \in {"cancelled", "interrupt", "signal"} : LeavePrompt(e)
                 \/ \E ok \in BOOLEAN : ServiceReturns(ok)
                 \/ \E what \in {"error", "partial", "signal"} : ServiceRaises(what)
  PROVE  CliInv'
<1>0. CliTypes /\ NamesInv /\ UnwoundInv
  BY DEF CliInv
<1>1. CASE NonInteractive
  <2>1. CASE Unwind("usage") /\ UNCHANGED wizard
    BY <1>0, <1>1, <2>1, UnwindStep DEF NonInteractive, UnwoundInv, CliAt
  <2>2. CASE /\ args.command = "add"
             /\ wizard' = [wizard EXCEPT !.derived = IF @ = Nothing THEN args.package ELSE @]
             /\ CliTo("service") /\ UNCHANGED <<locked, environ>>
    BY <1>0, <1>1, <2>2 DEF NonInteractive, CliInv, CliTypes, Answers, NamesInv, UnwoundInv,
                        NamesFollowPackage, ExitIsHonest, CliAt, CliTo
  <2>3. CASE args.command # "add" /\ CliTo("service") /\ UNCHANGED <<locked, environ, wizard>>
    BY <1>0, <1>1, <2>3 DEF NonInteractive, CliInv, CliTypes, NamesInv, UnwoundInv,
                        NamesFollowPackage, ExitIsHonest, CliAt, CliTo
  <2> QED
    BY <1>1, <2>1, <2>2, <2>3 DEF NonInteractive
<1>2. CASE WizardDone
  <2>1. wizard.index > 4
    BY <1>0, <1>2, FieldsFacts DEF WizardDone, CliTypes, Answers
  <2> QED
    BY <1>0, <1>2, <2>1 DEF WizardDone, CliInv, CliTypes, NamesInv, UnwoundInv,
                        NamesFollowPackage, ExitIsHonest, CliAt, CliTo
<1>3. ASSUME NEW a \in {"yes", "no", "back"}, Confirm(a) PROVE CliInv'
  <2>1. CASE Unwind("cancelled") \/ Unwind("back")
    BY <1>0, <1>3, <2>1, UnwindStep DEF Confirm, UnwoundInv, CliAt
  <2>2. CASE CliTo("service") /\ UNCHANGED <<locked, environ>>
    BY <1>0, <1>3, <2>2 DEF Confirm, CliInv, CliTypes, NamesInv, UnwoundInv,
                        NamesFollowPackage, ExitIsHonest, CliAt, CliTo
  <2> QED
    BY <1>3, <2>1, <2>2 DEF Confirm
<1>4. ASSUME NEW e \in {"cancelled", "interrupt", "signal"}, LeavePrompt(e) PROVE CliInv'
  BY <1>0, <1>4, UnwindStep DEF LeavePrompt, UnwoundInv, CliAt, Asking
<1>5. ASSUME NEW ok \in BOOLEAN, ServiceReturns(ok) PROVE CliInv'
  <2>1. project' \in {"generated", project} /\ project = "untouched"
    BY <1>0, <1>5 DEF ServiceReturns, UnwoundInv, CliAt
  <2> QED
    BY <2>1, <1>5, OverStep DEF ServiceReturns, CliTo
<1>6. ASSUME NEW what \in {"error", "partial", "signal"}, ServiceRaises(what) PROVE CliInv'
  BY <1>6, UnwindStep DEF ServiceRaises
<1> QED
  BY <1>1, <1>2, <1>3, <1>4, <1>5, <1>6

(* Only the frames that catch an error decide the exit status.             *)
LEMMA CatchSteps ==
  ASSUME CliInv, MenuCatches \/ MainCatches
  PROVE  CliInv'
<1>0. /\ CliTypes /\ NamesInv /\ UnwoundInv /\ CliAt("raised")
      /\ UNCHANGED <<args, project, closed>>
      /\ project # "untouched" => cli.raised \in {"partial", "signal"}
  BY DEF CliInv, UnwoundInv, MenuCatches, MainCatches
<1>1. CASE MenuCatches /\ cli.raised = "cancelled"
  <2>1. /\ cli' = [cli EXCEPT !.pc = "menu", !.menu = FALSE, !.raised = Nothing]
        /\ wizard' = NoWizard /\ UNCHANGED <<args, locked, environ, project, closed>>
    BY <1>1 DEF MenuCatches
  <2> QED
    BY <1>0, <1>1, <2>1, NoWizardFacts DEF CliInv, CliTypes, NamesInv, UnwoundInv,
                        NamesFollowPackage, ExitIsHonest, CliAt
<1>2. CASE MenuCatches /\ cli.raised # "cancelled"
  <2>1. /\ CliTo("over") /\ UNCHANGED wizard
        /\ exit' \in {0, 1, 130} /\ exit' = 0 => closed
    BY <1>2 DEF MenuCatches, Rendered
  <2> QED
    BY <1>0, <2>1, OverStep DEF CliTo, CliTypes
<1>3. CASE MainCatches
  <2>1. CliTo("over") /\ UNCHANGED wizard
    BY <1>3 DEF MainCatches
  <2>2. cli.raised \in {"partial", "signal"} /\ ~closed => exit' \in {3, 130}
    BY <1>3 DEF MainCatches, Rendered
  <2> QED
    BY <1>0, <2>1, <2>2, OverStep DEF CliTo, CliTypes
<1> QED
  BY <1>1, <1>2, <1>3

(* Every step of the command line keeps its invariant.                     *)
LEMMA CliStep == CliInv /\ [CliNext]_cliVars => CliInv'
<1> SUFFICES ASSUME CliInv, [CliNext]_cliVars PROVE CliInv'
  OBVIOUS
<1>1. CASE UNCHANGED cliVars
  BY <1>1 DEF cliVars, CliInv, CliTypes, NamesInv, UnwoundInv, NamesFollowPackage,
              ExitIsHonest, CliAt
<1> QED
  BY <1>1, QuestionSteps, BackStep, EntrySteps, ServiceSteps, CatchSteps, Zenon DEF CliNext

(* Past a question its answer is there and belongs to the package, and only *)
(* a service changes the project: CliSpec => []CliInv.                     *)
THEOREM CliInvariant == CliSpec => []CliInv
<1>1. ASSUME CliInit PROVE CliInv
  <2>1. CliTypes
    BY <1>1, NoWizardFacts DEF CliInit, CliTypes
  <2> QED
    BY <1>1, <2>1 DEF CliInit, CliInv, NamesInv, UnwoundInv, NamesFollowPackage, ExitIsHonest,
                      CliAt
<1> QED
  BY <1>1, CliStep, PTL DEF CliSpec

(* The names the service gets belong to its package, however often the     *)
(* author goes back (FeatureDecisionCollector.add).                        *)
THEOREM NamesBelong == CliSpec => []NamesFollowPackage
<1>1. CliInv => NamesFollowPackage
  BY DEF CliInv
<1> QED
  BY <1>1, CliInvariant, PTL

(* A partly generated project is never reported as success or as a         *)
(* cancellation (_main, _interactive_loop).                                *)
THEOREM ExitHonest == CliSpec => []ExitIsHonest
<1>1. CliInv => ExitIsHonest
  BY DEF CliInv
<1> QED
  BY <1>1, CliInvariant, PTL

(*--------------------------- add: publication ---------------------------*)
LEMMA ConfigFacts ==
  /\ \A c \in Configs : c \notin {"absent", "partial", "edited", "made"} /\ c # None
  /\ None \notin Places
BY AddAssumption DEF Places

(* A new directory holds nothing and belongs to its creator.               *)
LEMMA EmptyFacts ==
  ASSUME NEW who \in {"nobody", "add", "author"}
  PROVE  /\ EmptyDirectory(who) \in Directories
         /\ EmptyDirectory(who).by = who /\ EmptyDirectory(who).marker = "absent"
         /\ \A e \in Entries : EmptyDirectory(who).content[e] = "absent"
BY DEF EmptyDirectory, Directories, Entries, Files

(* A directory that would not count as an unfinished feature.              *)
WholeDirectory(d) ==
    /\ d.by = "add" /\ d.marker = "absent" /\ d.content["metadata"] # "absent"
    /\ d.content["metadata"] # "edited"
    => \A e \in Entries : d.content[e] \notin {"absent", "partial"}

(* What every directory satisfies, whoever made it.                        *)
Sound(d) ==
    /\ d \in Directories
    /\ d.by # "add" => d.marker = "absent"
    /\ d.by = "nobody" => d = EmptyDirectory("nobody")
    /\ WholeDirectory(d)

Adding == [pc : Steps, config : Configs \cup {None}, target : Places \cup {None},
           have : SUBSET Entries, held : SUBSET Openable]

(* AddInv, of the command a and the directories ds.                        *)
CommandOK(a, ds) ==
    LET d == ds[a.target] IN
    /\ a \in Adding
    /\ a.pc # "idle" => a.config \in Configs
    /\ a.pc \in {"opened", "reopened", "mark", "marking", "marked", "open", "fill",
                 "filling", "closing", "mode", "identity", "unmark"} =>
          a.target \in Places
    /\ a.pc \in {"mark", "marking", "marked"} => d.by = "add"
    /\ a.pc \in {"fill", "filling", "closing", "mode", "identity", "unmark"} =>
          d.marker # "absent"
    /\ a.pc \in {"mode", "identity", "unmark"} =>
          \A e \in Entries : d.content[e] \notin {"absent", "partial"}

DirsOK(ds) == ds \in [Places -> Directories] /\ \A i \in Places : Sound(ds[i])

(* The invariant, before and after a step, by command and by directory.    *)
LEMMA AddInvParts ==
  /\ AddInv <=> CommandOK(adding, dirs) /\ DirsOK(dirs)
  /\ AddInv' <=> CommandOK(adding', dirs') /\ DirsOK(dirs')
<1>1. AddInv <=> CommandOK(adding, dirs) /\ DirsOK(dirs)
  BY DEF AddInv, AddTypes, AddingInv, DirectoriesInv, FeatureIsWhole, Recognised, Sound,
         WholeDirectory, CommandOK, DirsOK, Adding, D
<1>2. AddInv' <=> CommandOK(adding', dirs') /\ DirsOK(dirs')
  BY DEF AddInv, AddTypes, AddingInv, DirectoriesInv, FeatureIsWhole, Recognised, Sound,
         WholeDirectory, CommandOK, DirsOK, Adding, D
<1> QED
  BY <1>1, <1>2

(* A new directory does not count as an unfinished feature.                *)
LEMMA EmptySound ==
  ASSUME NEW who \in {"nobody", "add", "author"}
  PROVE  Sound(EmptyDirectory(who))
BY EmptyFacts DEF Sound, WholeDirectory, Entries, Files

(* Without a command nothing is claimed of the directories.                *)
LEMMA NoCommandOK ==
  ASSUME NEW ds
  PROVE  CommandOK(NoCommand, ds)
BY DEF NoCommand, CommandOK, Adding, Steps

(* Any step that only replaces one directory by a sound one.               *)
LEMMA ReplaceSound ==
  ASSUME NEW ds, DirsOK(ds), NEW i \in Places, NEW d, Sound(d)
  PROVE  DirsOK([ds EXCEPT ![i] = d])
BY DEF DirsOK, Sound

(* A command that ended knows no directory; what others see stays.         *)
LEMMA EndStep ==
  ASSUME AddInv, dirs' = Forgotten \/ dirs' = dirs, adding' = NoCommand
  PROVE  AddInv'
BY AddInvParts, NoCommandOK, ReplaceSound, EmptySound DEF Forgotten, Places

(* A step of the command that changes only itself.                         *)
LEMMA QuietStep ==
  ASSUME AddInv, dirs' = dirs, CommandOK(adding', dirs)
  PROVE  AddInv'
BY AddInvParts

(* The steps in which a command knows nothing of its target.               *)
FreeSteps == {"idle", "stage", "parents", "rename", "mkdir", "opening", "reopening", "verify",
              "cleanup"}

(* Away from its target a command only has to know its configuration.      *)
LEMMA FreeCommand ==
  ASSUME NEW a \in Adding, NEW ds, a.pc # "idle" => a.config \in Configs, a.pc \in FreeSteps
  PROVE  CommandOK(a, ds)
BY DEF CommandOK, Adding, FreeSteps

(* What a command knows of its target is known of a directory that differs *)
(* in what the author wrote only, wherever it is.                          *)
LEMMA MovedTarget ==
  ASSUME NEW a, NEW ds, CommandOK(a, ds), NEW b, NEW es,
         b \in Adding, b.pc = a.pc, b.config = a.config,
         a.target \in Places =>
            /\ b.target \in Places
            /\ es[b.target].by = ds[a.target].by
            /\ ds[a.target].marker # "absent" => es[b.target].marker # "absent"
            /\ \A e \in Entries :
                  es[b.target].content[e] # ds[a.target].content[e] =>
                     es[b.target].content[e] \in {"made", "edited"}
  PROVE  CommandOK(b, es)
<1>1. b.pc \in {"mode", "identity", "unmark"} =>
          \A e \in Entries : es[b.target].content[e] \notin {"absent", "partial"}
  BY DEF CommandOK
<1> QED
  BY <1>1 DEF CommandOK

(*------------------------------ the author ------------------------------*)
LEMMA AuthorStep ==
  ASSUME AddInv, NEW new, NEW gone, Author(new, gone), new \in Directories, new.by = Here.by,
         new.marker = "absent" <=> Here.marker = "absent",
         \A e \in Entries : new.content[e] # Here.content[e] =>
             /\ new.content[e] \in {"made", "edited"}
             /\ e = "metadata" => new.content[e] = "edited"
  PROVE  AddInv'
<1>1. dirs' = [dirs EXCEPT !["here"] = new] /\ Here.by # "nobody"
  BY DEF Author, DestinationFree, Here
<1>2. CommandOK(adding, dirs) /\ DirsOK(dirs) /\ adding \in Adding
  BY AddInvParts DEF CommandOK
<1>3. Sound(Here)
  BY <1>2 DEF DirsOK, Here, Places
<1>4. WholeDirectory(new)
  BY <1>3 DEF Sound, WholeDirectory, Entries, Files
<1>5. Sound(new)
  BY <1>1, <1>3, <1>4 DEF Sound
<1>6. DirsOK(dirs')
  BY <1>1, <1>2, <1>5, ReplaceSound DEF Places
<1>7. /\ adding' \in Adding /\ adding'.pc = adding.pc /\ adding'.config = adding.config
      /\ adding'.target = adding.target
  BY <1>2 DEF Author, Adding
<1>8. CommandOK(adding', dirs')
  <2>1. dirs'["here"] = new /\ dirs'["away"] = dirs["away"]
    BY <1>1, <1>2 DEF DirsOK, Places
  <2> QED
    BY <1>2, <1>7, <2>1, MovedTarget DEF Places, Here
<1> QED
  BY <1>6, <1>8, AddInvParts

(* An entry, the marker, another file or the mode of the directory.        *)
LEMMA EditSteps ==
  ASSUME AddInv,
         \/ (\E e \in Entries : EditEntry(e)) \/ (\E f \in Files : SaveFile(f))
         \/ ReplaceDirectory \/ EditMarker \/ AddExtra \/ ChangeMode
  PROVE  AddInv'
<1>1. Sound(Here) /\ Here \in Directories
  BY AddInvParts DEF DirsOK, Here, Places, Sound
<1>2. ASSUME NEW e \in Entries, NEW v \in Edits(e), NEW gone,
             Author([Here EXCEPT !.content[e] = v], gone)
      PROVE  AddInv'
  <2> DEFINE new == [Here EXCEPT !.content[e] = v]
  <2>1. v \in {"made", "edited"} /\ (e = "metadata" => v = "edited")
    BY <1>2 DEF Edits
  <2>2. /\ new \in Directories /\ new.by = Here.by /\ new.marker = Here.marker
        /\ \A f \in Entries : new.content[f] = IF f = e THEN v ELSE Here.content[f]
    BY <1>1, <2>1 DEF Directories
  <2>3. Author(new, gone)
    BY <1>2
  <2> HIDE DEF new
  <2> QED
    BY <2>1, <2>2, <2>3, AuthorStep
<1>3. ASSUME NEW e \in Entries, EditEntry(e) PROVE AddInv'
  BY <1>2, <1>3 DEF EditEntry
<1>4. ASSUME NEW f \in Files, SaveFile(f) PROVE AddInv'
  <2>1. f \in Entries /\ "edited" \in Edits(f)
    BY <1>4 DEF Files, Entries, Edits
  <2> QED
    BY <1>2, <1>4, <2>1 DEF SaveFile
<1>5. CASE ReplaceDirectory
  <2>1. PICK v \in Edits("dir"), s \in {"absent", "edited"} :
            /\ s = "absent" => Here.content["source"] = "absent"
            /\ Author([Here EXCEPT !.content["dir"] = v, !.content["source"] = s],
                      {"dir", "source"})
    BY <1>5 DEF ReplaceDirectory
  <2> DEFINE new == [Here EXCEPT !.content["dir"] = v, !.content["source"] = s]
  <2>2. v \in {"made", "edited"}
    BY DEF Edits
  <2>3. /\ new \in Directories /\ new.by = Here.by /\ new.marker = Here.marker
        /\ new.content["dir"] = v /\ new.content["source"] = s
        /\ new.content["metadata"] = Here.content["metadata"]
    BY <1>1, <2>2 DEF Directories, Entries, Files
  <2>4. Author(new, {"dir", "source"})
    BY <2>1
  <2> HIDE DEF new
  <2>5. \A e \in Entries : new.content[e] # Here.content[e] =>
             /\ new.content[e] \in {"made", "edited"}
             /\ e = "metadata" => new.content[e] = "edited"
    BY <2>1, <2>2, <2>3 DEF Entries, Files
  <2> QED
    BY <2>3, <2>4, <2>5, AuthorStep
<1>6. ASSUME NEW new, NEW gone, Author(new, gone), new \in Directories, new.by = Here.by,
             new.content = Here.content, new.marker = "absent" <=> Here.marker = "absent"
      PROVE  AddInv'
  BY <1>6, AuthorStep
<1>7. CASE EditMarker
  <2>1. [Here EXCEPT !.marker = "edited"] \in Directories
    BY <1>1 DEF Directories
  <2> QED
    BY <1>1, <1>6, <1>7, <2>1 DEF EditMarker, Directories
<1>8. CASE AddExtra
  <2>1. [Here EXCEPT !.extra = TRUE] \in Directories
    BY <1>1 DEF Directories
  <2> QED
    BY <1>1, <1>6, <1>8, <2>1 DEF AddExtra, Directories
<1>9. CASE ChangeMode
  <2>1. [Here EXCEPT !.mode = "changed"] \in Directories
    BY <1>1 DEF Directories
  <2> QED
    BY <1>1, <1>6, <1>9, <2>1 DEF ChangeMode, Directories
<1> QED
  BY <1>3, <1>4, <1>5, <1>7, <1>8, <1>9

(* A directory moved away stays what the command knows it to be.           *)
LEMMA DisplaceStep ==
  ASSUME AddInv, NEW new, Sound(new), DisplaceDestination(new)
  PROVE  AddInv'
<1>1. CommandOK(adding, dirs) /\ DirsOK(dirs)
  BY AddInvParts
<1>2. dirs' = [dirs EXCEPT !["here"] = new,
                           !["away"] = IF adding.target = "here" THEN dirs["here"] ELSE @]
  BY DEF DisplaceDestination, Here
<1>3. adding' = IF adding.target = "here" THEN [adding EXCEPT !.target = "away"] ELSE adding
  BY DEF DisplaceDestination
<1>4. DirsOK(dirs')
  BY <1>1, <1>2 DEF DirsOK, Places, Sound
<1>5. adding' \in Adding
  BY <1>1, <1>3 DEF CommandOK, Adding, Places
<1>6. /\ adding'.pc = adding.pc /\ adding'.config = adding.config
      /\ adding'.target = IF adding.target = "here" THEN "away" ELSE adding.target
  BY <1>1, <1>3 DEF CommandOK, Adding
<1>7. adding.target \in Places => dirs'[adding'.target] = dirs[adding.target]
  BY <1>1, <1>2, <1>6 DEF DirsOK, Places
<1>8. CommandOK(adding', dirs')
  BY <1>1, <1>5, <1>6, <1>7, MovedTarget DEF Places
<1> QED
  BY <1>4, <1>8, AddInvParts

(* The two ways to move the destination leave sound directories.           *)
LEMMA DisplaceSteps ==
  ASSUME AddInv, RemoveDestination \/ Replace
  PROVE  AddInv'
<1>1. CASE RemoveDestination
  BY <1>1, DisplaceStep, EmptySound DEF RemoveDestination
<1>2. CASE Replace
  <2>1. PICK m \in {"private", "changed"} :
            DisplaceDestination([EmptyDirectory("author") EXCEPT !.mode = m])
    BY <1>2 DEF Replace
  <2> DEFINE d == [EmptyDirectory("author") EXCEPT !.mode = m]
  <2>2. /\ d \in Directories /\ d.by = "author" /\ d.marker = "absent"
        /\ d.content["metadata"] = "absent"
    BY EmptyFacts DEF Directories, EmptyDirectory, Entries, Files
  <2>3. DisplaceDestination(d)
    BY <2>1
  <2> HIDE DEF d
  <2> QED
    BY <2>2, <2>3, DisplaceStep DEF Sound, WholeDirectory
<1> QED
  BY <1>1, <1>2

(*------------------------------ the command -----------------------------*)
(* The steps that change no directory but the one they end with.           *)
LEMMA FrameSteps ==
  ASSUME AddInv,
         \/ (\E c \in Configs : StartAdd(c)) \/ StageFeature \/ EnsureParents
         \/ VerifyIdentity \/ VerifyPublished \/ RemoveStaged \/ RequireComplete
         \/ CloseMarker \/ OpenDestination \/ Interrupt \/ Kill
         \/ Redirect \/ RepairParent \/ RemoveStaging \/ RemoveIncomplete \/ UNCHANGED addVars
  PROVE  AddInv'
<1>0. CommandOK(adding, dirs) /\ DirsOK(dirs) /\ adding \in Adding
  BY AddInvParts DEF CommandOK
<1>1. ASSUME NEW why, Fail(why) PROVE AddInv'
  BY <1>1, EndStep DEF Fail
<1>2. ASSUME NEW pc \in Steps, AddTo(pc), dirs' = dirs, adding.pc # "idle", pc \in FreeSteps
      PROVE  AddInv'
  <2>1. adding' = [adding EXCEPT !.pc = pc]
    BY <1>2 DEF AddTo
  <2>2. adding' \in Adding /\ adding'.pc = pc /\ adding'.config = adding.config
    BY <1>0, <2>1 DEF Adding
  <2> QED
    BY <1>0, <1>2, <2>2, FreeCommand, QuietStep DEF CommandOK
<1>3. ASSUME NEW c \in Configs, StartAdd(c) PROVE AddInv'
  <2>1. CASE adding' = [NoCommand EXCEPT !.pc = "stage", !.config = c]
    <3>1. adding' \in Adding /\ adding'.pc = "stage" /\ adding'.config = c
      BY <2>1 DEF Adding, NoCommand, Steps
    <3> QED
      BY <1>3, <3>1, FreeCommand, QuietStep DEF StartAdd, FreeSteps
  <2>2. CASE adding' = adding
    BY <1>0, <1>3, <2>2, QuietStep DEF StartAdd
  <2> QED
    BY <1>3, <2>1, <2>2 DEF StartAdd
<1>4. CASE StageFeature
  BY <1>2, <1>4 DEF StageFeature, Steps, FreeSteps
<1>5. CASE EnsureParents
  BY <1>1, <1>2, <1>5 DEF EnsureParents, Steps, FreeSteps
<1>6. CASE VerifyIdentity
  <2>1. CASE AddTo("unmark") /\ dirs' = dirs /\ adding.pc = "identity"
    <3>1. adding' = [adding EXCEPT !.pc = "unmark"]
      BY <2>1 DEF AddTo
    <3>2. CommandOK(adding', dirs)
      BY <1>0, <2>1, <3>1 DEF CommandOK, Adding, Steps
    <3> QED
      BY <2>1, <3>2, QuietStep
  <2> QED
    BY <1>1, <1>6, <2>1 DEF VerifyIdentity
<1>7. CASE VerifyPublished
  BY <1>1, <1>2, <1>7 DEF VerifyPublished, Steps, FreeSteps
<1>8. CASE RemoveStaged
  BY <1>1, <1>8 DEF RemoveStaged
<1>9. CASE RequireComplete
  <2>1. CASE AddTo("mode") /\ dirs' = dirs /\ adding.pc = "fill" /\ ValidState(TRUE)
    <3>1. adding' = [adding EXCEPT !.pc = "mode"]
      BY <2>1 DEF AddTo
    <3>2. adding.config \in Configs
      BY <1>0, <2>1 DEF CommandOK
    <3>3. \A e \in Entries : dirs[adding.target].content[e] \notin {"absent", "partial"}
      BY <2>1, <3>2, ConfigFacts DEF ValidState, D, Scaffold
    <3>4. CommandOK(adding', dirs)
      BY <1>0, <2>1, <3>1, <3>3 DEF CommandOK, Adding, Steps
    <3> QED
      BY <2>1, <3>4, QuietStep
  <2> QED
    BY <1>1, <1>9, <2>1 DEF RequireComplete
<1>10. CASE Interrupt
  BY <1>1, <1>10 DEF Interrupt
<1>11. CASE Kill
  BY <1>11, EndStep DEF Kill
<1>12. CASE RemoveIncomplete
  <2>1. dirs' = [dirs EXCEPT !["here"] = EmptyDirectory("nobody")] /\ adding' = adding
        /\ adding.pc = "idle"
    BY <1>12 DEF RemoveIncomplete
  <2>2. CommandOK(adding', dirs')
    BY <1>0, <2>1, FreeCommand DEF FreeSteps
  <2>3. DirsOK(dirs')
    BY <1>0, <2>1, ReplaceSound, EmptySound DEF Places
  <2> QED
    BY <2>2, <2>3, AddInvParts
<1>13. CASE Redirect \/ RepairParent \/ RemoveStaging \/ UNCHANGED addVars
  BY <1>0, <1>13, QuietStep DEF Redirect, RepairParent, RemoveStaging, addVars
<1>14. CASE CloseMarker
  <2>1. CASE AddTo("open") /\ dirs' = dirs /\ adding.pc = "marked"
    <3>1. CommandOK(adding', dirs)
      BY <1>0, <2>1 DEF AddTo, CommandOK, Adding, Steps
    <3> QED
      BY <2>1, <3>1, QuietStep
  <2> QED
    BY <1>1, <1>14, <2>1 DEF CloseMarker
<1>15. CASE OpenDestination
  <2>1. ASSUME NEW pc \in {"opened", "reopened"}, dirs' = dirs,
               adding.pc \in {"opening", "reopening"},
               adding' = [adding EXCEPT !.target = "here", !.pc = pc]
        PROVE  AddInv'
    <3>1. CommandOK(adding', dirs)
      BY <1>0, <2>1 DEF CommandOK, Adding, Steps, Places
    <3> QED
      BY <2>1, <3>1, QuietStep
  <2> QED
    BY <1>1, <1>15, <2>1 DEF OpenDestination
<1> QED
  BY <1>3, <1>4, <1>5, <1>6, <1>7, <1>8, <1>9, <1>10, <1>11, <1>12, <1>13, <1>14, <1>15

(* A command goes on with a sound version of its directory.                *)
LEMMA TargetStep ==
  ASSUME AddInv, NEW t \in Places, NEW d, Sound(d), dirs' = [dirs EXCEPT ![t] = d],
         adding' \in Adding, adding'.target = t, adding'.config \in Configs,
         adding'.pc \in {"mark", "marking", "marked"} => d.by = "add",
         adding'.pc \in {"fill", "filling", "closing", "mode", "identity", "unmark"} =>
             d.marker # "absent",
         adding'.pc \in {"mode", "identity", "unmark"} =>
             \A e \in Entries : d.content[e] \notin {"absent", "partial"}
  PROVE  AddInv'
<1>1. DirsOK(dirs)
  BY AddInvParts
<1>2. DirsOK(dirs') /\ dirs'[t] = d
  BY <1>1, ReplaceSound DEF DirsOK
<1>3. CommandOK(adding', dirs')
  BY <1>2 DEF CommandOK
<1> QED
  BY <1>2, <1>3, AddInvParts

(* The rename publishes a whole directory.                                 *)
LEMMA RenameStep ==
  ASSUME AddInv, Rename
  PROVE  AddInv'
<1>1. CommandOK(adding, dirs) /\ DirsOK(dirs) /\ adding \in Adding /\ adding.pc = "rename"
      /\ adding.config \in Configs
  BY AddInvParts DEF CommandOK, Rename
<1>2. CASE dirs' = [dirs EXCEPT !["here"] =
                       [EmptyDirectory("add") EXCEPT !.content = Scaffold(adding.config)]]
           /\ adding' = [adding EXCEPT !.pc = "verify", !.target = "here"]
  <2> DEFINE d == [EmptyDirectory("add") EXCEPT !.content = Scaffold(adding.config)]
  <2>1. /\ d \in Directories /\ d.by = "add" /\ d.marker = "absent"
        /\ \A e \in Entries : d.content[e] \in {"made", adding.config}
    BY <1>1 DEF EmptyDirectory, Directories, Scaffold
  <2> HIDE DEF d
  <2>2. Sound(d)
    BY <1>1, <2>1, ConfigFacts DEF Sound, WholeDirectory
  <2>3. DirsOK(dirs')
    BY <1>1, <1>2, <2>2, ReplaceSound DEF d, Places
  <2>4. adding' \in Adding /\ adding'.pc = "verify" /\ adding'.config = adding.config
    BY <1>1, <1>2 DEF Adding, Places, Steps
  <2>5. CommandOK(adding', dirs')
    BY <1>1, <2>4, FreeCommand DEF FreeSteps
  <2> QED
    BY <2>3, <2>5, AddInvParts
<1>3. CASE Fail("exists")
  BY <1>3, EndStep DEF Fail
<1>4. CASE AddTo("mkdir") /\ dirs' = dirs
  <2>1. adding' \in Adding /\ adding'.pc = "mkdir" /\ adding'.config = adding.config
    BY <1>1, <1>4 DEF AddTo, Adding, Steps
  <2> QED
    BY <1>1, <1>4, <2>1, FreeCommand, QuietStep DEF FreeSteps
<1> QED
  BY <1>2, <1>3, <1>4 DEF Rename

(* The destination is made where nothing was, or found to exist.           *)
LEMMA MakeDestinationStep ==
  ASSUME AddInv, MakeDestination
  PROVE  AddInv'
<1>1. CommandOK(adding, dirs) /\ DirsOK(dirs) /\ adding \in Adding /\ adding.pc = "mkdir"
  BY AddInvParts DEF CommandOK, MakeDestination
<1>2. DirsOK(dirs')
  BY <1>1, ReplaceSound, EmptySound DEF MakeDestination, Places
<1>3. /\ adding' \in Adding /\ adding'.pc \in {"opening", "reopening"}
      /\ adding'.config = adding.config
  BY <1>1 DEF MakeDestination, AddTo, Adding, Steps
<1>4. CommandOK(adding', dirs')
  BY <1>1, <1>3, FreeCommand DEF CommandOK, FreeSteps
<1> QED
  BY <1>2, <1>4, AddInvParts

(* The command's own directory: what it is, and how a write changes it.    *)
LEMMA OwnDirectory ==
  ASSUME AddInv, adding.target \in Places
  PROVE  /\ D \in Directories /\ Sound(D) /\ CommandOK(adding, dirs)
         /\ adding \in Adding /\ DirsOK(dirs) /\ D = dirs[adding.target]
         /\ adding.pc # "idle" => adding.config \in Configs
BY AddInvParts DEF D, DirsOK, Sound, CommandOK

(* A destination that is still what was opened becomes the command's.      *)
LEMMA CheckStep ==
  ASSUME AddInv, CheckDestination
  PROVE  AddInv'
<1>1. adding.pc \in {"opened", "reopened"} /\ adding.target \in Places
  BY AddInvParts DEF CheckDestination, CommandOK
<1>2. /\ D \in Directories /\ Sound(D) /\ adding \in Adding /\ adding.config \in Configs
      /\ CommandOK(adding, dirs) /\ DirsOK(dirs) /\ D = dirs[adding.target]
  BY <1>1, OwnDirectory
<1>3. CASE /\ AddTo("mark") /\ dirs' = [dirs EXCEPT !["here"].by = "add"]
           /\ Bare(D) /\ adding.target = "here"
  <2> DEFINE d == [D EXCEPT !.by = "add"]
  <2>1. /\ d \in Directories /\ d.by = "add"
        /\ \A e \in Entries : d.content[e] = "absent"
    BY <1>2, <1>3 DEF Directories, Bare
  <2>2. dirs' = [dirs EXCEPT !["here"] = d]
    BY <1>2, <1>3 DEF DirsOK
  <2> HIDE DEF d
  <2>3. Sound(d)
    BY <2>1 DEF Sound, WholeDirectory, Entries, Files
  <2>4. /\ adding' \in Adding /\ adding'.target = "here" /\ adding'.config = adding.config
        /\ adding'.pc = "mark"
    BY <1>2, <1>3 DEF AddTo, Adding, Steps
  <2> QED
    BY <1>2, <2>1, <2>2, <2>3, <2>4, TargetStep DEF Places
<1>4. CASE AddTo("open") /\ dirs' = dirs
  <2>1. CommandOK(adding', dirs)
    BY <1>1, <1>2, <1>4 DEF AddTo, CommandOK, Adding, Steps
  <2> QED
    BY <1>4, <2>1, QuietStep
<1>5. CASE Fail("ambiguous")
  BY <1>5, EndStep DEF Fail
<1> QED
  BY <1>3, <1>4, <1>5 DEF CheckDestination

(* What a write leaves.                                                    *)
LEMMA OverwrittenFacts ==
  ASSUME adding.config \in Configs, NEW old, NEW v \in Overwritten(old)
  PROVE  v \in Configs \cup {"edited"}
BY DEF Overwritten

(* The marker is written before the first entry is made.                   *)
LEMMA MarkerSteps ==
  ASSUME AddInv, CreateMarker \/ WriteMarker
  PROVE  AddInv'
<1>1. adding.pc \in {"mark", "marking"} /\ adding.target \in Places /\ D.by = "add"
  BY AddInvParts DEF CreateMarker, WriteMarker, CommandOK, D
<1>2. /\ D \in Directories /\ Sound(D) /\ adding \in Adding /\ adding.config \in Configs
      /\ CommandOK(adding, dirs) /\ DirsOK(dirs) /\ D = dirs[adding.target]
  BY <1>1, OwnDirectory
<1>3. ASSUME NEW m \in Configs \cup {"partial", "edited"},
             dirs' = [dirs EXCEPT ![adding.target].marker = m],
             adding' \in Adding, adding'.target = adding.target,
             adding'.config = adding.config, adding'.pc \in {"marking", "marked"}
      PROVE  AddInv'
  <2> DEFINE d == [D EXCEPT !.marker = m]
  <2>1. d \in Directories /\ d.by = "add" /\ d.marker = m
    BY <1>1, <1>2, <1>3 DEF Directories
  <2>2. m # "absent"
    BY <1>3, ConfigFacts
  <2>3. dirs' = [dirs EXCEPT ![adding.target] = d]
    BY <1>1, <1>2, <1>3 DEF DirsOK
  <2> HIDE DEF d
  <2>4. Sound(d)
    BY <2>1, <2>2 DEF Sound, WholeDirectory
  <2> QED
    BY <1>1, <1>2, <1>3, <2>1, <2>3, <2>4, TargetStep
<1>4. CASE CreateMarker
  <2>1. CASE dirs' = [dirs EXCEPT ![adding.target].marker = "partial"]
             /\ adding' = [adding EXCEPT !.pc = "marking", !.held = {"marker"}]
    <3>1. /\ adding' \in Adding /\ adding'.target = adding.target
          /\ adding'.config = adding.config /\ adding'.pc = "marking"
      BY <1>2, <2>1 DEF Adding, Steps, Openable
    <3> QED
      BY <1>3, <2>1, <3>1
  <2>2. CASE Fail("exists")
    BY <2>2, EndStep DEF Fail
  <2> QED
    BY <1>4, <2>1, <2>2 DEF CreateMarker
<1>5. CASE WriteMarker
  <2>1. /\ adding' \in Adding /\ adding'.target = adding.target
        /\ adding'.config = adding.config /\ adding'.pc = "marked"
    BY <1>2, <1>5 DEF WriteMarker, AddTo, Adding, Steps
  <2>2. ASSUME NEW m \in Overwritten(D.marker),
               dirs' = [dirs EXCEPT ![adding.target].marker = m]
        PROVE  AddInv'
    BY <1>2, <1>3, <2>1, <2>2, OverwrittenFacts
  <2>3. CASE dirs' = dirs
    <3>1. CommandOK(adding', dirs)
      BY <1>1, <1>2, <2>1, <2>3 DEF CommandOK, D
    <3> QED
      BY <2>3, <3>1, QuietStep
  <2> QED
    BY <1>5, <2>2, <2>3 DEF WriteMarker
<1> QED
  BY <1>4, <1>5

(* An unfinished feature that is opened is one that a command left.        *)
LEMMA OpenStep ==
  ASSUME AddInv, OpenIncomplete
  PROVE  AddInv'
<1>1. /\ adding.pc = "open" /\ adding.target \in Places /\ adding \in Adding
      /\ CommandOK(adding, dirs) /\ adding.config \in Configs
  BY AddInvParts DEF OpenIncomplete, CommandOK
<1>2. CASE ValidState(FALSE)
  <2> DEFINE have == {e \in Entries : D.content[e] # "absent"}
             keptOpen == {e \in {"dir"} : D.content[e] # "absent"}
  <2>1. dirs' = dirs /\ adding' = [adding EXCEPT !.pc = "fill", !.have = have, !.held = keptOpen]
    BY <1>2 DEF OpenIncomplete
  <2>2. dirs[adding.target].marker # "absent"
    BY <1>1, <1>2, ConfigFacts DEF ValidState, D
  <2>3. have \in SUBSET Entries /\ keptOpen \in SUBSET Openable
    BY DEF Openable, Entries
  <2> HIDE DEF have, keptOpen
  <2>4. /\ adding' \in Adding /\ adding'.pc = "fill" /\ adding'.target = adding.target
        /\ adding'.config = adding.config
    BY <1>1, <2>1, <2>3 DEF Adding, Steps
  <2>5. CommandOK(adding', dirs)
    BY <1>1, <2>2, <2>4 DEF CommandOK
  <2> QED
    BY <2>1, <2>5, QuietStep
<1>3. CASE ~ValidState(FALSE)
  BY <1>3, EndStep DEF OpenIncomplete, Fail
<1> QED
  BY <1>2, <1>3

(* The next entry to make is an entry.                                     *)
LEMMA NextEntryFacts == NextEntry \in Entries /\ NextEntry \in Openable
BY DEF NextEntry, Missing, Entries, Files, Openable

(* One entry of the scaffold is created, its content written, and its name *)
(* compared; then the destination gets its mode.                           *)
LEMMA FillSteps ==
  ASSUME AddInv, CreateEntry \/ WriteEntry \/ CloseEntry
  PROVE  AddInv'
<1>1. /\ adding.pc \in {"fill", "filling", "closing"} /\ adding.target \in Places
      /\ D.marker # "absent"
  BY AddInvParts DEF CreateEntry, WriteEntry, CloseEntry, CommandOK, D
<1>2. /\ D \in Directories /\ Sound(D) /\ adding \in Adding /\ adding.config \in Configs
      /\ CommandOK(adding, dirs) /\ DirsOK(dirs) /\ D = dirs[adding.target]
  BY <1>1, OwnDirectory
<1>3. ASSUME NEW e \in Entries, NEW v \in Configs \cup {"partial", "edited", "made"},
             dirs' = [dirs EXCEPT ![adding.target].content[e] = v],
             adding' \in Adding, adding'.target = adding.target,
             adding'.config = adding.config, adding'.pc \in {"fill", "filling", "closing"}
      PROVE  AddInv'
  <2> DEFINE d == [D EXCEPT !.content[e] = v]
  <2>1. d \in Directories /\ d.by = D.by /\ d.marker = D.marker
    BY <1>2, <1>3 DEF Directories
  <2>2. dirs' = [dirs EXCEPT ![adding.target] = d]
    BY <1>1, <1>2, <1>3 DEF DirsOK
  <2> HIDE DEF d
  <2>3. Sound(d)
    BY <1>1, <1>2, <2>1, EmptyFacts DEF Sound, WholeDirectory
  <2> QED
    BY <1>1, <1>2, <1>3, <2>1, <2>2, <2>3, TargetStep
<1>4. ASSUME dirs' = dirs, adding' \in Adding, adding'.target = adding.target,
             adding'.config = adding.config, adding'.pc \in {"fill", "filling", "closing"}
      PROVE  AddInv'
  <2>1. CommandOK(adding', dirs)
    BY <1>1, <1>2, <1>4 DEF CommandOK
  <2> QED
    BY <1>4, <2>1, QuietStep
<1>5. CASE CreateEntry
  <2>1. CASE dirs' = [dirs EXCEPT ![adding.target].content[NextEntry] = "partial"]
             /\ adding' = [adding EXCEPT !.pc = "filling",
                                         !.held = @ \cup ({NextEntry} \ {"dir"})]
    <3>1. /\ adding' \in Adding /\ adding'.target = adding.target
          /\ adding'.config = adding.config /\ adding'.pc = "filling"
      BY <1>2, <2>1, NextEntryFacts DEF Adding, Steps
    <3> QED
      BY <1>3, <2>1, <3>1, NextEntryFacts
  <2>2. CASE AddTo("filling") /\ dirs' = dirs
    <3>1. /\ adding' \in Adding /\ adding'.target = adding.target
          /\ adding'.config = adding.config /\ adding'.pc = "filling"
      BY <1>2, <2>2 DEF AddTo, Adding, Steps
    <3> QED
      BY <1>4, <2>2, <3>1
  <2>3. CASE Fail("exists")
    BY <2>3, EndStep DEF Fail
  <2> QED
    BY <1>5, <2>1, <2>2, <2>3 DEF CreateEntry
<1>6. CASE WriteEntry
  <2>1. /\ adding' \in Adding /\ adding'.target = adding.target
        /\ adding'.config = adding.config /\ adding'.pc = "closing"
    BY <1>2, <1>6, NextEntryFacts DEF WriteEntry, Adding, Steps
  <2>2. ASSUME NEW v \in Overwritten(D.content[NextEntry]),
               dirs' = [dirs EXCEPT ![adding.target].content[NextEntry] = v]
        PROVE  AddInv'
    BY <1>2, <1>3, <2>1, <2>2, OverwrittenFacts, NextEntryFacts
  <2> QED
    BY <1>4, <1>6, <2>1, <2>2 DEF WriteEntry
<1>7. CASE CloseEntry
  <2>1. CASE /\ dirs' = IF NextEntry = "dir"
                        THEN [dirs EXCEPT ![adding.target].content["dir"] = "made"]
                        ELSE dirs
             /\ adding' = [adding EXCEPT !.pc = "fill", !.have = @ \cup {NextEntry}]
    <3>1. /\ adding' \in Adding /\ adding'.target = adding.target
          /\ adding'.config = adding.config /\ adding'.pc = "fill"
      BY <1>2, <2>1, NextEntryFacts DEF Adding, Steps
    <3>2. "dir" \in Entries
      BY DEF Entries
    <3> QED
      BY <1>3, <1>4, <2>1, <3>1, <3>2
  <2>2. CASE Fail("ambiguous")
    BY <2>2, EndStep DEF Fail
  <2> QED
    BY <1>7, <2>1, <2>2 DEF CloseEntry
<1> QED
  BY <1>5, <1>6, <1>7

(* The destination gets its mode, and then the marker goes from a          *)
(* directory that holds the whole scaffold.                                *)
LEMMA UnmarkSteps ==
  ASSUME AddInv, SetMode \/ Unmark
  PROVE  AddInv'
<1>1. /\ adding.pc \in {"mode", "unmark"} /\ adding.target \in Places
      /\ \A e \in Entries : D.content[e] \notin {"absent", "partial"}
      /\ D.marker # "absent"
  BY AddInvParts DEF SetMode, Unmark, CommandOK, D
<1>2. /\ D \in Directories /\ Sound(D) /\ adding \in Adding /\ adding.config \in Configs
      /\ DirsOK(dirs) /\ D = dirs[adding.target] /\ D.by = "add"
  BY <1>1, OwnDirectory DEF Sound
<1>3. CASE Unmark
  <2> DEFINE d == [D EXCEPT !.marker = "absent"]
  <2>1. d \in Directories /\ d.by = D.by /\ d.marker = "absent" /\ d.content = D.content
    BY <1>2 DEF Directories
  <2>2. dirs' = [dirs EXCEPT ![adding.target] = d]
    BY <1>1, <1>2, <1>3 DEF Unmark, DirsOK
  <2> HIDE DEF d
  <2>3. Sound(d)
    BY <1>1, <1>2, <2>1 DEF Sound, WholeDirectory
  <2>4. /\ adding' \in Adding /\ adding'.target = adding.target
        /\ adding'.config = adding.config /\ adding'.pc = "verify"
    BY <1>2, <1>3 DEF Unmark, AddTo, Adding, Steps
  <2> QED
    BY <1>1, <1>2, <2>2, <2>3, <2>4, TargetStep
<1>4. CASE SetMode
  <2> DEFINE d == [D EXCEPT !.mode = "private"]
  <2>1. d \in Directories /\ d.by = D.by /\ d.marker = D.marker /\ d.content = D.content
    BY <1>2 DEF Directories
  <2>2. dirs' = [dirs EXCEPT ![adding.target] = d]
    BY <1>1, <1>2, <1>4 DEF SetMode, DirsOK
  <2> HIDE DEF d
  <2>3. Sound(d)
    BY <1>1, <1>2, <2>1 DEF Sound, WholeDirectory
  <2>4. /\ adding' \in Adding /\ adding'.target = adding.target
        /\ adding'.config = adding.config /\ adding'.pc = "identity"
    BY <1>2, <1>4 DEF SetMode, AddTo, Adding, Steps
  <2> QED
    BY <1>1, <1>2, <2>1, <2>2, <2>3, <2>4, TargetStep
<1> QED
  BY <1>3, <1>4

(* Every step of the command, the author or a crash keeps the invariant.   *)
LEMMA AddStep == AddInv /\ [AddNext]_addVars => AddInv'
<1> SUFFICES ASSUME AddInv, [AddNext]_addVars PROVE AddInv'
  OBVIOUS
<1>1. CASE Command
  BY <1>1, FrameSteps, RenameStep, MakeDestinationStep, CheckStep, MarkerSteps, OpenStep,
     FillSteps, UnmarkSteps, Zenon DEF Command
<1> QED
  BY <1>1, FrameSteps, EditSteps, DisplaceSteps, Zenon DEF AddNext

(* The marker stays until the scaffold is whole: AddSpec => []AddInv.      *)
THEOREM AddInvariant == AddSpec => []AddInv
<1>1. ASSUME AddInit PROVE AddInv
  <2>1. DirsOK(dirs)
    BY <1>1, EmptySound DEF AddInit, DirsOK, Sound
  <2> QED
    BY <1>1, <2>1, NoCommandOK, AddInvParts DEF AddInit
<1> QED
  BY <1>1, AddStep, PTL DEF AddSpec

(* A directory that counts as a feature holds the whole scaffold, however  *)
(* often its publication was cut short (_publish_linux_add_scaffold).      *)
THEOREM FeaturesWhole == AddSpec => []FeatureIsWhole
<1>1. AddInv => FeatureIsWhole
  BY DEF AddInv
<1> QED
  BY <1>1, AddInvariant, PTL

(*--------------------------- the author's work --------------------------*)
(* A command that ends drops the directory nobody can reach any more.      *)
LEMMA EndKeepsWork ==
  ASSUME AddInv, adding'.target = None, dirs' = Forgotten
  PROVE  KeepsAuthorWork
<1>1. DirsOK(dirs)
  BY AddInvParts
<1>2. dirs'["here"] = dirs["here"]
  BY <1>1 DEF Forgotten, DirsOK, Places
<1> QED
  BY <1>2 DEF KeepsAuthorWork

(* A step may change a directory that is not the author's, in entries the  *)
(* author did not write or that it may write over.                         *)
LEMMA WriteKeepsWork ==
  ASSUME AddInv, NEW t \in Places, NEW d, dirs' = [dirs EXCEPT ![t] = d],
         dirs[t].by # "author", adding' \in Adding,
         \A e \in Entries : dirs[t].content[e] = "edited" =>
             d.content[e] = "edited" \/ (t = adding.target /\ e \in Written)
  PROVE  KeepsAuthorWork
<1>1. DirsOK(dirs)
  BY AddInvParts
<1>2. /\ dirs'[t] = d
      /\ \A i \in Places : i # t => dirs'[i] = dirs[i]
  BY <1>1 DEF DirsOK
<1>3. {"here", adding'.target} \ {None} \subseteq Places
  BY DEF Adding, Places
<1> QED
  BY <1>2, <1>3 DEF KeepsAuthorWork

(* No step of the command touches what the author made.                    *)
LEMMA CommandKeepsWork ==
  ASSUME AddInv, AddInv', Command
  PROVE  KeepsAuthorWork
<1>0. adding' \in Adding /\ CommandOK(adding, dirs) /\ DirsOK(dirs)
  BY AddInvParts DEF CommandOK
<1>1. ASSUME NEW why, Fail(why) PROVE KeepsAuthorWork
  BY <1>1, EndKeepsWork DEF Fail, NoCommand
<1>2. ASSUME dirs' = dirs PROVE KeepsAuthorWork
  BY <1>2 DEF KeepsAuthorWork
<1>3. ASSUME DestinationFree, NEW d, dirs' = [dirs EXCEPT !["here"] = d]
      PROVE  KeepsAuthorWork
  <2>1. /\ dirs["here"].by = "nobody"
        /\ \A e \in Entries : dirs["here"].content[e] = "absent"
    BY <1>0, <1>3, EmptyFacts DEF DestinationFree, DirsOK, Sound, Places
  <2> QED
    BY <1>0, <1>3, <2>1, WriteKeepsWork DEF Places
<1>4. ASSUME adding.pc \in {"mark", "marking", "fill", "filling", "closing", "mode", "unmark"}
      PROVE  /\ adding.target \in Places /\ D \in Directories /\ D.by # "author"
             /\ D = dirs[adding.target]
  <2>1. adding.target \in Places /\ (D.by = "add" \/ D.marker # "absent")
    BY <1>0, <1>4 DEF CommandOK, D
  <2>2. Sound(D) /\ D = dirs[adding.target]
    BY <1>0, <2>1 DEF DirsOK, D
  <2> QED
    BY <2>1, <2>2 DEF Sound
<1>5. ASSUME adding.pc \in {"mark", "marking", "mode", "unmark"}, NEW d,
             d.content = D.content, dirs' = [dirs EXCEPT ![adding.target] = d]
      PROVE  KeepsAuthorWork
  BY <1>0, <1>4, <1>5, WriteKeepsWork
<1>6. ASSUME adding.pc \in {"mark", "marking", "unmark"}, NEW m,
             dirs' = [dirs EXCEPT ![adding.target].marker = m]
      PROVE  KeepsAuthorWork
  <2>1. adding.target \in Places /\ D \in Directories /\ D = dirs[adding.target]
    BY <1>4, <1>6
  <2> DEFINE d == [D EXCEPT !.marker = m]
  <2>2. d.content = D.content /\ dirs' = [dirs EXCEPT ![adding.target] = d]
    BY <1>0, <1>6, <2>1 DEF Directories, DirsOK
  <2> HIDE DEF d
  <2> QED
    BY <1>5, <1>6, <2>2
<1>7. ASSUME adding.pc \in {"fill", "filling", "closing"}, NEW e \in Entries, NEW v,
             D.content[e] # "edited" \/ e \in Written,
             dirs' = [dirs EXCEPT ![adding.target].content[e] = v]
      PROVE  KeepsAuthorWork
  <2>1. /\ adding.target \in Places /\ D \in Directories /\ D.by # "author"
        /\ D = dirs[adding.target]
    BY <1>4, <1>7
  <2> DEFINE d == [D EXCEPT !.content[e] = v]
  <2>2. /\ \A f \in Entries : f # e => d.content[f] = D.content[f]
        /\ dirs' = [dirs EXCEPT ![adding.target] = d]
    BY <1>0, <1>7, <2>1 DEF Directories, DirsOK
  <2> HIDE DEF d
  <2>3. \A f \in Entries : dirs[adding.target].content[f] = "edited" =>
            d.content[f] = "edited" \/ (adding.target = adding.target /\ f \in Written)
    BY <1>7, <2>1, <2>2
  <2> QED
    <3>1. /\ adding.target \in Places /\ dirs[adding.target].by # "author"
          /\ dirs' = [dirs EXCEPT ![adding.target] = d] /\ adding' \in Adding
      BY <1>0, <2>1, <2>2
    <3> QED
      BY <2>3, <3>1, WriteKeepsWork, Zenon
<1>8. CASE StageFeature \/ EnsureParents \/ VerifyIdentity \/ VerifyPublished \/ RemoveStaged
           \/ RequireComplete \/ OpenIncomplete \/ OpenDestination \/ CloseMarker
  BY <1>1, <1>2, <1>8 DEF StageFeature, EnsureParents, VerifyIdentity, VerifyPublished,
     RemoveStaged, RequireComplete, OpenIncomplete, OpenDestination, CloseMarker
<1>9. CASE Rename \/ MakeDestination
  BY <1>1, <1>2, <1>3, <1>9 DEF Rename, MakeDestination
<1>10. CASE CheckDestination
  <2>1. CASE dirs' = [dirs EXCEPT !["here"].by = "add"] /\ Bare(D) /\ adding.target = "here"
    <3>1. /\ D = dirs["here"] /\ D \in Directories
          /\ dirs' = [dirs EXCEPT !["here"] = [D EXCEPT !.by = "add"]]
      BY <1>0, <2>1 DEF D, DirsOK, Places
    <3>2. /\ dirs'["here"] = [D EXCEPT !.by = "add"] /\ dirs'["away"] = dirs["away"]
          /\ \A e \in Entries : D.content[e] = "absent"
      BY <1>0, <2>1, <3>1 DEF DirsOK, Places, Bare
    <3>3. {"here", adding'.target} \ {None} \subseteq Places
      BY <1>0 DEF Adding, Places
    <3> QED
      BY <2>1, <3>1, <3>2, <3>3 DEF KeepsAuthorWork, Places
  <2> QED
    BY <1>1, <1>2, <1>10, <2>1 DEF CheckDestination
<1>11. CASE CreateMarker \/ WriteMarker \/ Unmark
  BY <1>1, <1>2, <1>6, <1>11 DEF CreateMarker, WriteMarker, Unmark
<1>12. CASE SetMode
  <2>1. adding.pc = "mode" /\ dirs' = [dirs EXCEPT ![adding.target].mode = "private"]
    BY <1>12 DEF SetMode
  <2>2. adding.target \in Places /\ D \in Directories /\ D = dirs[adding.target]
    BY <1>4, <2>1
  <2> DEFINE d == [D EXCEPT !.mode = "private"]
  <2>3. d.content = D.content /\ dirs' = [dirs EXCEPT ![adding.target] = d]
    BY <1>0, <2>1, <2>2 DEF Directories, DirsOK
  <2> HIDE DEF d
  <2> QED
    BY <1>5, <2>1, <2>3
<1>13. CASE CreateEntry
  BY <1>1, <1>2, <1>7, <1>13, NextEntryFacts DEF CreateEntry
<1>14. CASE WriteEntry
  <2>1. NextEntry \in adding.held => NextEntry \in Written
    BY <1>14 DEF WriteEntry, Written
  <2> QED
    BY <1>2, <1>7, <1>14, <2>1, NextEntryFacts DEF WriteEntry
<1>15. CASE CloseEntry
  <2>1. CASE dirs' = [dirs EXCEPT ![adding.target].content["dir"] = "made"]
             /\ NextEntry = "dir" /\ NextEntry \in adding.held /\ adding.pc = "closing"
    <3>1. "dir" \in Written
      BY <2>1 DEF Written
    <3> QED
      BY <1>7, <2>1, <3>1, NextEntryFacts
  <2>2. NextEntry = "dir" => Seen(NextEntry)
    BY DEF Seen
  <2> QED
    BY <1>1, <1>2, <1>15, <2>1, <2>2 DEF CloseEntry
<1> QED
  BY <1>8, <1>9, <1>10, <1>11, <1>12, <1>13, <1>14, <1>15, Zenon DEF Command

(* No step of add writes over a file of the author or a directory of       *)
(* theirs, but for the entry it just made and has open under its name, and *)
(* for an empty directory in the place of one it just made                 *)
(* (_write_add_file_exclusive, _linux_mkdir_open_directory).               *)
THEOREM AuthorKept == AddSpec => AuthorWorkKept
<1>1. AddInv /\ AddInv' /\ [AddNext]_addVars => [KeepsAuthorWork]_addVars
  BY CommandKeepsWork DEF KeepsAuthorWork
<1> QED
  BY <1>1, AddInvariant, PTL DEF AddSpec, AuthorWorkKept

(*----------------------------- least elements ----------------------------*)
(* Every non-empty set of natural numbers has a least one.                 *)
LEMMA Least ==
  ASSUME NEW B \in SUBSET Nat, B # {}
  PROVE  \E n \in B : \A m \in B : n <= m
<1>1. IsWellFoundedOn(OpToRel(<, Nat), Nat)
  BY NatLessThanWellFounded
<1>2. PICK n \in B : \A m \in B : ~ (<<m, n>> \in OpToRel(<, Nat))
  BY <1>1, WFMin
<1>3. \A m \in B : ~ (m < n)
  BY <1>2 DEF OpToRel
<1> QED
  BY <1>3

(*--------------------------- protected paths ----------------------------*)
(* A prefix of a path, entry by entry.                                     *)
LEMMA PrefixFacts ==
  ASSUME NEW S, NEW p \in Seq(S), NEW n \in 1 .. Len(p)
  PROVE  /\ SubSeq(p, 1, n) \in Seq(S) /\ Len(SubSeq(p, 1, n)) = n
         /\ SubSeq(p, 1, n) = [i \in 1 .. n |-> p[i]]
         /\ \A i \in 1 .. n : SubSeq(p, 1, n)[i] = p[i]
         /\ \A m \in 1 .. n : SubSeq(SubSeq(p, 1, n), 1, m) = SubSeq(p, 1, m)
<1>1. n \in Nat /\ Len(p) \in Nat /\ 1 .. n \subseteq 1 .. Len(p)
  OBVIOUS
<1>2. \A m \in 1 .. Len(p) : SubSeq(p, 1, m) = [i \in 1 .. m |-> p[i]]
  OBVIOUS
<1>3. /\ SubSeq(p, 1, n) \in Seq(S) /\ Len(SubSeq(p, 1, n)) = n
      /\ \A i \in 1 .. n : SubSeq(p, 1, n)[i] = p[i]
  BY <1>1, <1>2
<1>4. ASSUME NEW m \in 1 .. n
      PROVE  SubSeq(SubSeq(p, 1, n), 1, m) = SubSeq(p, 1, m)
  <2> DEFINE q == SubSeq(p, 1, n)
  <2>1. q \in Seq(S) /\ Len(q) = n /\ \A i \in 1 .. n : q[i] = p[i]
    BY <1>3
  <2> HIDE DEF q
  <2>2. SubSeq(q, 1, m) = [i \in 1 .. m |-> q[i]]
    BY <1>1, <2>1
  <2>3. SubSeq(p, 1, m) = [i \in 1 .. m |-> p[i]]
    BY <1>1, <1>2
  <2>4. \A i \in 1 .. m : q[i] = p[i]
    BY <1>1, <2>1
  <2> QED
    BY <2>2, <2>3, <2>4 DEF q
<1> QED
  BY <1>2, <1>3, <1>4

(* A path of two or three components is the tuple of them.                 *)
LEMMA ShortPaths ==
  ASSUME NEW S, NEW t \in Seq(S)
  PROVE  /\ Len(t) = 1 => t = <<t[1]>>
         /\ Len(t) = 2 => t = <<t[1], t[2]>>
         /\ Len(t) = 3 => t = <<t[1], t[2], t[3]>>
         /\ Len(t) = 4 => t = <<t[1], t[2], t[3], t[4]>>
<1>1. t = [i \in 1 .. Len(t) |-> t[i]]
  OBVIOUS
<1>2. Len(t) = 1 => t = <<t[1]>>
  BY <1>1
<1>3. Len(t) = 2 => t = <<t[1], t[2]>>
  BY <1>1
<1>4. Len(t) = 3 => t = <<t[1], t[2], t[3]>>
  BY <1>1
<1>5. Len(t) = 4 => t = <<t[1], t[2], t[3], t[4]>>
  BY <1>1
<1> QED
  BY <1>2, <1>3, <1>4, <1>5

(* The components of a path from one to another, three at most.            *)
LEMMA RangeFacts ==
  ASSUME NEW S, NEW p \in Seq(S), NEW a \in Nat \ {0}, NEW c \in Nat, c <= Len(p), a <= c + 1
  PROVE  /\ SubSeq(p, a, c) \in Seq(S)
         /\ Len(SubSeq(p, a, c)) = 1 <=> c = a
         /\ Len(SubSeq(p, a, c)) = 2 <=> c = a + 1
         /\ Len(SubSeq(p, a, c)) = 3 <=> c = a + 2
         /\ a <= c => SubSeq(p, a, c)[1] = p[a]
         /\ a + 1 <= c => SubSeq(p, a, c)[2] = p[a + 1]
         /\ a + 2 <= c => SubSeq(p, a, c)[3] = p[a + 2]
<1> DEFINE t == SubSeq(p, a, c)
<1>1. Len(p) \in Nat
  OBVIOUS
<1>2. \A i \in a .. c : p[i] \in S
  BY <1>1
<1>3. /\ t \in Seq(S)
      /\ Len(t) = IF a <= c THEN c - a + 1 ELSE 0
      /\ \A i \in 1 .. (c - a + 1) : t[i] = p[a + i - 1]
  BY <1>1, <1>2, SubSeqProperties
<1> HIDE DEF t
<1>4. /\ Len(t) = 1 <=> c = a
      /\ Len(t) = 2 <=> c = a + 1
      /\ Len(t) = 3 <=> c = a + 2
  BY <1>3
<1>5. a <= c => t[1] = p[a]
  <2>1. a <= c => 1 \in 1 .. (c - a + 1) /\ a + 1 - 1 = a
    OBVIOUS
  <2> QED
    BY <1>3, <2>1
<1>6. a + 1 <= c => t[2] = p[a + 1]
  <2>1. a + 1 <= c => 2 \in 1 .. (c - a + 1) /\ a + 2 - 1 = a + 1
    OBVIOUS
  <2> QED
    BY <1>3, <2>1
<1>7. a + 2 <= c => t[3] = p[a + 2]
  <2>1. a + 2 <= c => 3 \in 1 .. (c - a + 1) /\ a + 3 - 1 = a + 2
    OBVIOUS
  <2> QED
    BY <1>3, <2>1
<1> QED
  BY <1>3, <1>4, <1>5, <1>6, <1>7 DEF t

(* What Parts takes of a path: no component after the last.                *)
LEMMA PartsRange ==
  ASSUME NEW S, NEW p \in Seq(S), NEW a \in Nat \ {0}, NEW b \in Nat, a <= Len(p) + 1, a <= b + 1
  PROVE  \E c \in Nat : /\ Parts(p, a, b) = SubSeq(p, a, c) /\ c <= Len(p) /\ a <= c + 1 /\ c <= b
                        /\ c = b \/ c = Len(p)
<1>1. CASE b < Len(p)
  BY <1>1 DEF Parts
<1>2. CASE ~(b < Len(p))
  BY <1>2 DEF Parts
<1> QED
  BY <1>1, <1>2

(* When one component of a path, or two, or the first three are given.     *)
LEMMA OnePart ==
  ASSUME NEW S, NEW p \in Seq(S), NEW a \in Nat \ {0}, a <= Len(p) + 1, NEW x
  PROVE  /\ Parts(p, a, a) = <<x>> <=> a <= Len(p) /\ p[a] = x
         /\ Parts(p, a, Len(p)) = <<x>> <=> Len(p) = a /\ p[a] = x
<1>1. ASSUME NEW c \in Nat, c <= Len(p), a <= c + 1
      PROVE  SubSeq(p, a, c) = <<x>> <=> c = a /\ p[a] = x
  <2> DEFINE t == SubSeq(p, a, c)
  <2>1. t \in Seq(S) /\ (Len(t) = 1 <=> c = a) /\ (c = a => t[1] = p[a])
    BY <1>1, RangeFacts
  <2>2. Len(t) = 1 => t = <<t[1]>>
    BY <2>1, ShortPaths
  <2>3. t = <<x>> => Len(t) = 1 /\ t[1] = x
    OBVIOUS
  <2> HIDE DEF t
  <2>4. t = <<x>> <=> c = a /\ p[a] = x
    BY <2>1, <2>2, <2>3
  <2> QED
    BY <2>4 DEF t
<1>2. Len(p) \in Nat /\ a <= a + 1
  OBVIOUS
<1>3. PICK c \in Nat : /\ Parts(p, a, a) = SubSeq(p, a, c) /\ c <= Len(p) /\ a <= c + 1 /\ c <= a
                       /\ c = a \/ c = Len(p)
  BY <1>2, PartsRange
<1>4. PICK d \in Nat : /\ Parts(p, a, Len(p)) = SubSeq(p, a, d) /\ d <= Len(p) /\ a <= d + 1
                       /\ d = Len(p)
  BY <1>2, PartsRange
<1>5. SubSeq(p, a, c) = <<x>> <=> c = a /\ p[a] = x
  BY <1>1, <1>3
<1>6. SubSeq(p, a, d) = <<x>> <=> d = a /\ p[a] = x
  BY <1>1, <1>4
<1>7. c = a <=> a <= Len(p)
  BY <1>2, <1>3
<1> QED
  BY <1>3, <1>4, <1>5, <1>6, <1>7

(* Two components of a path.                                               *)
LEMMA TwoParts ==
  ASSUME NEW S, NEW p \in Seq(S), NEW a \in Nat \ {0}, NEW b \in Nat, b = a + 1, a <= Len(p) + 1
  PROVE  /\ b <= Len(p) => Parts(p, a, b) = <<p[a], p[b]>>
         /\ ~(b <= Len(p)) => Len(Parts(p, a, b)) # 2
<1>1. Len(p) \in Nat /\ a <= b + 1
  OBVIOUS
<1>2. PICK c \in Nat : /\ Parts(p, a, b) = SubSeq(p, a, c) /\ c <= Len(p) /\ a <= c + 1 /\ c <= b
                       /\ c = b \/ c = Len(p)
  BY <1>1, PartsRange
<1> DEFINE t == SubSeq(p, a, c)
<1>3. t \in Seq(S) /\ (Len(t) = 2 <=> c = b) /\ (c = b => t[1] = p[a] /\ t[2] = p[b])
  BY <1>2, RangeFacts
<1>4. Len(t) = 2 => t = <<t[1], t[2]>>
  BY <1>3, ShortPaths
<1> HIDE DEF t
<1>7. c = b <=> b <= Len(p)
  BY <1>1, <1>2
<1>8. Parts(p, a, b) = t
  BY <1>2 DEF t
<1> QED
  BY <1>3, <1>4, <1>7, <1>8

(* The first three components of a path.                                   *)
LEMMA ThreeParts ==
  ASSUME NEW S, NEW p \in Seq(S), p # <<>>, NEW x, NEW y, NEW z
  PROVE  Head3(p) = <<x, y, z>> <=> 3 <= Len(p) /\ p[1] = x /\ p[2] = y /\ p[3] = z
<1>1. Len(p) \in Nat /\ 1 <= Len(p)
  OBVIOUS
<1>2. PICK c \in Nat : Head3(p) = SubSeq(p, 1, c) /\ c <= Len(p) /\ 1 <= c /\ (c = 3 <=> 3 <= Len(p))
  <2>1. CASE 3 < Len(p)
    BY <1>1, <2>1 DEF Head3, Parts
  <2>2. CASE ~(3 < Len(p))
    BY <1>1, <2>2 DEF Head3, Parts
  <2> QED
    BY <2>1, <2>2
<1> DEFINE t == SubSeq(p, 1, c)
<1>3. /\ t \in Seq(S)
      /\ Len(t) = 3 <=> c = 1 + 2
      /\ 1 <= c => t[1] = p[1]
      /\ 1 + 1 <= c => t[2] = p[1 + 1]
      /\ 1 + 2 <= c => t[3] = p[1 + 2]
  BY <1>1, <1>2, RangeFacts
<1>4. Len(t) = 3 => t = <<t[1], t[2], t[3]>>
  BY <1>3, ShortPaths
<1> HIDE DEF t
<1>5. t = <<x, y, z>> => Len(t) = 3 /\ t[1] = x /\ t[2] = y /\ t[3] = z
  OBVIOUS
<1>6. (Len(t) = 3 <=> c = 3) /\ (c = 3 => t[1] = p[1] /\ t[2] = p[2] /\ t[3] = p[3])
  BY <1>3
<1>7. Head3(p) = t
  BY <1>2 DEF t
<1> QED
  BY <1>2, <1>4, <1>5, <1>6, <1>7

(* Which prefix of a path the code excludes, and which it splits, by the   *)
(* components of the path.                                                 *)
Excludes(p, n) ==
  \/ p[1] \in TopExcluded
  \/ n >= 2 /\ p[1] = "android" /\ p[2] \in GradleOutputs \cup {".supernote-module", "supernote-runtime"}
  \/ n >= 3 /\ p[1] = "android" /\ p[2] = "app" /\ p[3] = "build"
  \/ /\ p[1] = "local_modules" /\ n >= 2 /\ ~(n >= 3 /\ Scoped(p[2]))
     /\ \/ n >= 3 /\ p[3] = ".supernote-generated"
        \/ n >= 4 /\ p[3] = "android" /\ p[4] \in GradleOutputs
  \/ /\ p[1] = "local_modules" /\ n >= 3 /\ Scoped(p[2])
     /\ \/ n >= 4 /\ p[4] = ".supernote-generated"
        \/ n >= 5 /\ p[4] = "android" /\ p[5] \in GradleOutputs

Splits(p, n) ==
  \/ n = 1 /\ p[1] \in {"android", "local_modules"}
  \/ n = 2 /\ p[1] = "android" /\ p[2] \in {"app", ".supernote-module"}
  \/ n = 3 /\ p[1] = "android" /\ p[2] = ".supernote-module" /\ p[3] = "runtime"
  \/ /\ n = 4 /\ p[1] = "android" /\ p[2] = ".supernote-module" /\ p[3] = "runtime"
     /\ p[4] \in {"annotations", "processor"}
  \/ n = 2 /\ p[1] = "local_modules"
  \/ n = 3 /\ p[1] = "local_modules" /\ (Scoped(p[2]) \/ p[3] = "android")
  \/ n = 4 /\ p[1] = "local_modules" /\ Scoped(p[2]) /\ p[4] = "android"

(* A path is excluded as its components say.                               *)
LEMMA ExcludesWhole ==
  ASSUME NEW S, NEW p \in Seq(S), p # <<>>
  PROVE  IsBuildOrCachePath(p) <=> Excludes(p, Len(p))
<1> DEFINE f == FeatureComponentCount(p)
           n == Len(p)
           two == GradleOutputs \cup {".supernote-module", "supernote-runtime"}
<1>1. n \in Nat /\ n >= 1
  OBVIOUS
<1>2. f = IF p[1] = "local_modules" THEN IF n >= 3 /\ Scoped(p[2]) THEN 3 ELSE IF n >= 2 THEN 2 ELSE 0
          ELSE 0
  BY DEF FeatureComponentCount
<1>3. f \in Nat /\ f <= n
  BY <1>1, <1>2
<1>4. Parts(p, 1, 2) \in {<<"android", m>> : m \in two} <=> n >= 2 /\ p[1] = "android" /\ p[2] \in two
  <2>1. (n >= 2 => Parts(p, 1, 2) = <<p[1], p[2]>>) /\ (~(n >= 2) => Len(Parts(p, 1, 2)) # 2)
    BY <1>1, TwoParts
  <2> HIDE DEF two, n
  <2> QED
    BY <1>1, <2>1
<1>5. Head3(p) = <<"android", "app", "build">> <=> n >= 3 /\ p[1] = "android" /\ p[2] = "app" /\ p[3] = "build"
  <2>1. Head3(p) = <<"android", "app", "build">> <=>
           3 <= n /\ p[1] = "android" /\ p[2] = "app" /\ p[3] = "build"
    BY ThreeParts
  <2> QED
    BY <1>1, <2>1
<1> DEFINE a == f + 1
           b == f + 2
<1>a. a \in Nat \ {0} /\ b \in Nat /\ b = a + 1 /\ a <= n + 1
  BY <1>1, <1>3
<1>6. Parts(p, a, a) = <<".supernote-generated">> <=> a <= n /\ p[a] = ".supernote-generated"
  <2> HIDE DEF a, b, f
  <2> QED
    BY <1>a, OnePart
<1>7. Parts(p, a, b) \in {<<"android", m>> : m \in GradleOutputs} <=>
         b <= n /\ p[a] = "android" /\ p[b] \in GradleOutputs
  <2> HIDE DEF a, b, f
  <2>1. (b <= n => Parts(p, a, b) = <<p[a], p[b]>>) /\ (~(b <= n) => Len(Parts(p, a, b)) # 2)
    BY <1>a, TwoParts
  <2> HIDE DEF n
  <2> QED
    BY <2>1
<1>8. IsBuildOrCachePath(p) <=>
        \/ p[1] \in TopExcluded
        \/ n >= 2 /\ p[1] = "android" /\ p[2] \in two
        \/ n >= 3 /\ p[1] = "android" /\ p[2] = "app" /\ p[3] = "build"
        \/ /\ f > 0
           /\ \/ f + 1 <= n /\ p[f + 1] = ".supernote-generated"
              \/ f + 2 <= n /\ p[f + 1] = "android" /\ p[f + 2] \in GradleOutputs
  BY <1>4, <1>5, <1>6, <1>7 DEF IsBuildOrCachePath
<1> HIDE DEF f, n
<1>9. CASE p[1] = "local_modules" /\ n >= 3 /\ Scoped(p[2])
  <2>1. f = 3 /\ f + 1 = 4 /\ f + 2 = 5
    BY <1>2, <1>9
  <2> QED
    BY <1>1, <1>8, <1>9, <2>1 DEF Excludes, n
<1>10. CASE p[1] = "local_modules" /\ n >= 2 /\ ~(n >= 3 /\ Scoped(p[2]))
  <2>1. f = 2 /\ f + 1 = 3 /\ f + 2 = 4
    BY <1>2, <1>10
  <2> QED
    BY <1>1, <1>8, <1>10, <2>1 DEF Excludes, n
<1>11. CASE ~(p[1] = "local_modules" /\ n >= 2)
  <2>1. f = 0
    BY <1>1, <1>2, <1>11
  <2> QED
    BY <1>1, <1>8, <1>11, <2>1 DEF Excludes, n
<1> QED
  BY <1>9, <1>10, <1>11

(* A directory is split as its components say.                             *)
LEMMA SplitsWhole ==
  ASSUME NEW S, NEW p \in Seq(S), p # <<>>
  PROVE  MayContainExclusion(p) <=> Splits(p, Len(p))
<1> DEFINE f == FeatureComponentCount(p)
           n == Len(p)
<1>1. n \in Nat /\ n >= 1
  OBVIOUS
<1>2. f = IF p[1] = "local_modules" THEN IF n >= 3 /\ Scoped(p[2]) THEN 3 ELSE IF n >= 2 THEN 2 ELSE 0
          ELSE 0
  BY DEF FeatureComponentCount
<1>3. f \in Nat /\ f <= n
  BY <1>1, <1>2
<1>4. Parts(p, f + 1, n) = <<"android">> <=> n = f + 1 /\ p[f + 1] = "android"
  BY SMTT(60), <1>3, OnePart
<1>5. /\ n = 1 => p = <<p[1]>>
      /\ n = 2 => p = <<p[1], p[2]>>
      /\ n = 3 => p = <<p[1], p[2], p[3]>>
      /\ n = 4 => p = <<p[1], p[2], p[3], p[4]>>
  BY ShortPaths
<1> DEFINE runtime == p[1] = "android" /\ p[2] = ".supernote-module" /\ p[3] = "runtime"
<1>6. /\ p = <<"android">> <=> n = 1 /\ p[1] = "android"
      /\ p = <<"local_modules">> <=> n = 1 /\ p[1] = "local_modules"
  BY <1>5
<1>7. /\ p = <<"android", "app">> <=> n = 2 /\ p[1] = "android" /\ p[2] = "app"
      /\ p = <<"android", ".supernote-module">> <=> n = 2 /\ p[1] = "android" /\ p[2] = ".supernote-module"
  BY <1>5
<1>8. p = <<"android", ".supernote-module", "runtime">> <=> n = 3 /\ runtime
  BY <1>5
<1>9. /\ p = <<"android", ".supernote-module", "runtime", "annotations">> <=>
           n = 4 /\ runtime /\ p[4] = "annotations"
      /\ p = <<"android", ".supernote-module", "runtime", "processor">> <=>
           n = 4 /\ runtime /\ p[4] = "processor"
  BY <1>5
<1>10. MayContainExclusion(p) <=>
        \/ n = 1 /\ p[1] \in {"android", "local_modules"}
        \/ n = 2 /\ p[1] = "android" /\ p[2] \in {"app", ".supernote-module"}
        \/ n = 3 /\ runtime
        \/ n = 4 /\ runtime /\ p[4] \in {"annotations", "processor"}
        \/ f > 0 /\ (n <= f \/ (n = f + 1 /\ p[f + 1] = "android"))
  BY <1>4, <1>6, <1>7, <1>8, <1>9 DEF MayContainExclusion
<1> HIDE DEF f, n
<1>11. CASE p[1] = "local_modules" /\ n >= 3 /\ Scoped(p[2])
  <2>1. f = 3 /\ f + 1 = 4
    BY <1>2, <1>11
  <2>2. MayContainExclusion(p) <=> n = 3 \/ (n = 4 /\ p[4] = "android")
    BY <1>1, <1>10, <1>11, <2>1
  <2>3. Splits(p, n) <=> n = 3 \/ (n = 4 /\ p[4] = "android")
    BY <1>1, <1>11 DEF Splits
  <2> QED
    BY <2>2, <2>3 DEF n
<1>12. CASE p[1] = "local_modules" /\ n >= 2 /\ ~(n >= 3 /\ Scoped(p[2]))
  <2>1. f = 2 /\ f + 1 = 3
    BY <1>2, <1>12
  <2>2. MayContainExclusion(p) <=> n = 2 \/ (n = 3 /\ p[3] = "android")
    BY <1>1, <1>10, <1>12, <2>1
  <2>3. Splits(p, n) <=> n = 2 \/ (n = 3 /\ p[3] = "android")
    BY <1>1, <1>12 DEF Splits
  <2> QED
    BY <2>2, <2>3 DEF n
<1>13. CASE ~(p[1] = "local_modules" /\ n >= 2)
  <2>1. f = 0
    BY <1>1, <1>2, <1>13
  <2> QED
    BY <1>1, <1>10, <1>13, <2>1 DEF Splits, n
<1> QED
  BY <1>11, <1>12, <1>13

(* A prefix of a path is excluded, or split, as its own components say.     *)
LEMMA PrefixExcludes ==
  ASSUME NEW S, NEW p \in Seq(S), NEW n \in 1 .. Len(p)
  PROVE  IsBuildOrCachePath(SubSeq(p, 1, n)) <=> Excludes(p, n)
<1> DEFINE q == SubSeq(p, 1, n)
<1>1. q \in Seq(S) /\ Len(q) = n /\ (\A i \in 1 .. n : q[i] = p[i])
  BY PrefixFacts
<1> HIDE DEF q
<1>2. n \in Nat /\ n >= 1 /\ q # <<>>
  BY <1>1
<1>3. IsBuildOrCachePath(q) <=> Excludes(q, n)
  BY <1>1, <1>2, ExcludesWhole
<1>4. /\ q[1] = p[1]
      /\ n >= 2 => q[2] = p[2]
      /\ n >= 3 => q[3] = p[3]
      /\ n >= 4 => q[4] = p[4]
      /\ n >= 5 => q[5] = p[5]
  BY <1>1, <1>2
<1>5. Excludes(q, n) <=> Excludes(p, n)
  BY <1>2, <1>4 DEF Excludes
<1> QED
  BY <1>3, <1>5 DEF q

(* The same for the directories that are split.                            *)
LEMMA PrefixSplits ==
  ASSUME NEW S, NEW p \in Seq(S), NEW n \in 1 .. Len(p)
  PROVE  MayContainExclusion(SubSeq(p, 1, n)) <=> Splits(p, n)
<1> DEFINE q == SubSeq(p, 1, n)
<1>1. q \in Seq(S) /\ Len(q) = n /\ (\A i \in 1 .. n : q[i] = p[i])
  BY PrefixFacts
<1> HIDE DEF q
<1>2. n \in Nat /\ n >= 1 /\ q # <<>>
  BY <1>1
<1>3. MayContainExclusion(q) <=> Splits(q, n)
  BY <1>1, <1>2, SplitsWhole
<1>4. /\ q[1] = p[1]
      /\ n >= 2 => q[2] = p[2]
      /\ n >= 3 => q[3] = p[3]
      /\ n >= 4 => q[4] = p[4]
  BY <1>1, <1>2
<1>5. Splits(q, n) <=> Splits(p, n)
  BY <1>2, <1>4 DEF Splits
<1> QED
  BY <1>3, <1>5 DEF q

(* Every directory above an excluded entry, up to the first excluded one,   *)
(* is split, and so is every directory above a split one.                   *)
LEMMA AncestorsSplit ==
  ASSUME NEW p, NEW n \in Nat \ {0}
  PROVE  /\ Excludes(p, n) => \E k \in 1 .. n : Excludes(p, k) /\ \A j \in 1 .. k - 1 : Splits(p, j)
         /\ Splits(p, n) => \A j \in 1 .. n - 1 : Splits(p, j)
<1> DEFINE Reached(k) == Excludes(p, k) /\ \A j \in 1 .. k - 1 : Splits(p, j)
<1>1. ASSUME p[1] \in TopExcluded
      PROVE  \E k \in 1 .. n : Reached(k)
  <2>1. Reached(1)
    BY <1>1 DEF Excludes
  <2> QED
    BY <2>1
<1>2. ASSUME n >= 2, p[1] = "android",
             p[2] \in GradleOutputs \cup {".supernote-module", "supernote-runtime"}
      PROVE  \E k \in 1 .. n : Reached(k)
  <2>1. Splits(p, 1)
    BY <1>2 DEF Splits
  <2>2. Excludes(p, 2)
    BY <1>2 DEF Excludes
  <2>3. \A j \in 1 .. 2 - 1 : j = 1
    OBVIOUS
  <2>4. Reached(2)
    BY <2>1, <2>2, <2>3
  <2> QED
    BY <1>2, <2>4
<1>3. ASSUME n >= 3, p[1] = "android", p[2] = "app", p[3] = "build"
      PROVE  \E k \in 1 .. n : Reached(k)
  <2>1. Splits(p, 1) /\ Splits(p, 2)
    BY <1>3 DEF Splits
  <2>2. Excludes(p, 3)
    BY <1>3 DEF Excludes
  <2>3. \A j \in 1 .. 3 - 1 : j = 1 \/ j = 2
    OBVIOUS
  <2>4. Reached(3)
    BY <2>1, <2>2, <2>3
  <2> QED
    BY <1>3, <2>4
<1>4. ASSUME p[1] = "local_modules", n >= 3, ~Scoped(p[2]), p[3] = ".supernote-generated"
      PROVE  \E k \in 1 .. n : Reached(k)
  <2>1. Splits(p, 1) /\ Splits(p, 2)
    BY <1>4 DEF Splits
  <2>2. Excludes(p, 3)
    BY <1>4 DEF Excludes
  <2>3. \A j \in 1 .. 3 - 1 : j = 1 \/ j = 2
    OBVIOUS
  <2>4. Reached(3)
    BY <2>1, <2>2, <2>3
  <2> QED
    BY <1>4, <2>4
<1>5. ASSUME p[1] = "local_modules", n >= 4, ~Scoped(p[2]), p[3] = "android", p[4] \in GradleOutputs
      PROVE  \E k \in 1 .. n : Reached(k)
  <2>1. Splits(p, 1) /\ Splits(p, 2) /\ Splits(p, 3)
    BY <1>5 DEF Splits
  <2>2. Excludes(p, 4)
    BY <1>5 DEF Excludes
  <2>3. \A j \in 1 .. 4 - 1 : j = 1 \/ j = 2 \/ j = 3
    OBVIOUS
  <2>4. Reached(4)
    BY <2>1, <2>2, <2>3
  <2> QED
    BY <1>5, <2>4
<1>6. ASSUME p[1] = "local_modules", n >= 4, Scoped(p[2]), p[4] = ".supernote-generated"
      PROVE  \E k \in 1 .. n : Reached(k)
  <2>1. Splits(p, 1) /\ Splits(p, 2) /\ Splits(p, 3)
    BY <1>6 DEF Splits
  <2>2. Excludes(p, 4)
    BY <1>6 DEF Excludes
  <2>3. \A j \in 1 .. 4 - 1 : j = 1 \/ j = 2 \/ j = 3
    OBVIOUS
  <2>4. Reached(4)
    BY <2>1, <2>2, <2>3
  <2> QED
    BY <1>6, <2>4
<1>7. ASSUME p[1] = "local_modules", n >= 5, Scoped(p[2]), p[4] = "android", p[5] \in GradleOutputs
      PROVE  \E k \in 1 .. n : Reached(k)
  <2>1. Splits(p, 1) /\ Splits(p, 2) /\ Splits(p, 3) /\ Splits(p, 4)
    BY <1>7 DEF Splits
  <2>2. Excludes(p, 5)
    BY <1>7 DEF Excludes
  <2>3. \A j \in 1 .. 5 - 1 : j = 1 \/ j = 2 \/ j = 3 \/ j = 4
    OBVIOUS
  <2>4. Reached(5)
    BY <2>1, <2>2, <2>3
  <2> QED
    BY <1>7, <2>4
<1>8. Excludes(p, n) =>
        \/ p[1] \in TopExcluded
        \/ n >= 2 /\ p[1] = "android" /\ p[2] \in GradleOutputs \cup {".supernote-module", "supernote-runtime"}
        \/ n >= 3 /\ p[1] = "android" /\ p[2] = "app" /\ p[3] = "build"
        \/ p[1] = "local_modules" /\ n >= 3 /\ ~Scoped(p[2]) /\ p[3] = ".supernote-generated"
        \/ p[1] = "local_modules" /\ n >= 4 /\ ~Scoped(p[2]) /\ p[3] = "android" /\ p[4] \in GradleOutputs
        \/ p[1] = "local_modules" /\ n >= 4 /\ Scoped(p[2]) /\ p[4] = ".supernote-generated"
        \/ p[1] = "local_modules" /\ n >= 5 /\ Scoped(p[2]) /\ p[4] = "android" /\ p[5] \in GradleOutputs
  BY DEF Excludes
<1>9. Excludes(p, n) => \E k \in 1 .. n : Reached(k)
  BY <1>1, <1>2, <1>3, <1>4, <1>5, <1>6, <1>7, <1>8
<1>10. ASSUME Splits(p, n), NEW j \in 1 .. n - 1
       PROVE  Splits(p, j)
  <2>1. n \in {2, 3, 4} /\ j < n /\ j \in {1, 2, 3}
    BY <1>10 DEF Splits
  <2>2. p[1] \in {"android", "local_modules"}
    BY <1>10 DEF Splits
  <2>3. CASE j = 1
    BY <2>2, <2>3 DEF Splits
  <2>4. CASE j = 2
    BY <1>10, <2>1, <2>4 DEF Splits
  <2>5. CASE j = 3
    BY <1>10, <2>1, <2>5 DEF Splits
  <2> QED
    BY <2>1, <2>3, <2>4, <2>5
<1> QED
  BY <1>9, <1>10

(* The prefixes of a prefix; a prefix is told by its length.               *)
LEMMA PrefixesOf ==
  ASSUME NEW S, NEW p \in Seq(S), NEW n \in 1 .. Len(p)
  PROVE  /\ Prefixes(SubSeq(p, 1, n)) = {SubSeq(p, 1, m) : m \in 1 .. n}
         /\ \A m \in 1 .. Len(p) : SubSeq(p, 1, m) = SubSeq(p, 1, n) <=> m = n
         /\ SubSeq(p, 1, n) = p <=> n = Len(p)
<1> DEFINE q == SubSeq(p, 1, n)
<1>1. /\ q \in Seq(S) /\ Len(q) = n
      /\ \A m \in 1 .. n : SubSeq(q, 1, m) = SubSeq(p, 1, m)
  BY PrefixFacts
<1> HIDE DEF q
<1>2. Prefixes(q) = {SubSeq(p, 1, m) : m \in 1 .. n}
  BY <1>1 DEF Prefixes
<1>3. \A m \in 1 .. Len(p) : Len(SubSeq(p, 1, m)) = m
  BY PrefixFacts
<1>4. \A m \in 1 .. Len(p) : SubSeq(p, 1, m) = q <=> m = n
  BY <1>1, <1>3 DEF q
<1>5. n = Len(p) => q = p
  <2>1. q = [i \in 1 .. n |-> p[i]]
    BY PrefixFacts DEF q
  <2> QED
    BY <2>1
<1> QED
  BY <1>1, <1>2, <1>4, <1>5 DEF q

(* The roots above a path, or at it, by the components of the path.        *)
LEMMA RootAt ==
  ASSUME TreeTypes, path # <<>>, NEW n \in 1 .. Len(path)
  PROVE  SnapshotRoot(SubSeq(path, 1, n)) <=>
           /\ \A m \in 1 .. n : ~Excludes(path, m)
           /\ \A m \in 1 .. n - 1 : Splits(path, m)
           /\ ~(Splits(path, n) /\ (n = Len(path) => kind = "directory"))
<1> DEFINE q == SubSeq(path, 1, n)
<1>1. path \in Seq(Components) /\ 1 .. n \subseteq 1 .. Len(path) /\ n \in Nat /\ n >= 1
  BY DEF TreeTypes
<1>2. /\ Prefixes(q) = {SubSeq(path, 1, m) : m \in 1 .. n}
      /\ \A m \in 1 .. n : SubSeq(path, 1, m) = q <=> m = n
      /\ q = path <=> n = Len(path)
  BY <1>1, PrefixesOf
<1>3. \A m \in 1 .. n : /\ IsBuildOrCachePath(SubSeq(path, 1, m)) <=> Excludes(path, m)
                        /\ MayContainExclusion(SubSeq(path, 1, m)) <=> Splits(path, m)
  BY <1>1, PrefixExcludes, PrefixSplits
<1>4. (\A a \in Prefixes(q) : ~IsBuildOrCachePath(a)) <=> \A m \in 1 .. n : ~Excludes(path, m)
  BY <1>2, <1>3
<1>5. (\A a \in Prefixes(q) \ {q} : Split(a, "directory")) <=> \A m \in 1 .. n - 1 : Splits(path, m)
  <2>1. \A m \in 1 .. n : m # n <=> m \in 1 .. n - 1
    BY <1>1
  <2>2. \A m \in 1 .. n : Split(SubSeq(path, 1, m), "directory") <=> Splits(path, m)
    BY <1>3 DEF Split
  <2>3. 1 .. n - 1 \subseteq 1 .. n
    BY <1>1
  <2> HIDE DEF q
  <2> QED
    BY <1>2, <2>1, <2>2, <2>3
<1>6. Split(q, KindOf(q)) <=> (Splits(path, n) /\ (n = Len(path) => kind = "directory"))
  <2>1. MayContainExclusion(q) <=> Splits(path, n)
    BY <1>1, <1>3
  <2>2. KindOf(q) = "directory" <=> (n = Len(path) => kind = "directory")
    BY <1>2 DEF KindOf
  <2> HIDE DEF q
  <2> QED
    BY <2>1, <2>2 DEF Split
<1> HIDE DEF q
<1>7. SnapshotRoot(q) <=> /\ \A m \in 1 .. n : ~Excludes(path, m)
                          /\ \A m \in 1 .. n - 1 : Splits(path, m)
                          /\ ~(Splits(path, n) /\ (n = Len(path) => kind = "directory"))
  BY <1>4, <1>5, <1>6 DEF SnapshotRoot
<1> QED
  BY <1>7 DEF q

(* The roots cover the inventory, whatever the path.                       *)
LEMMA RootsCover ==
  ASSUME TreeTypes
  PROVE  RootsCoverInventory
<1>1. SUFFICES ASSUME path # <<>>
      PROVE  /\ Copied(path) <=> (Inventoried(path) /\ ~Split(path, kind))
             /\ \A q, r \in Prefixes(path) : SnapshotRoot(q) /\ SnapshotRoot(r) => q = r
  BY DEF RootsCoverInventory
<1> DEFINE N == Len(path)
           Open(n) == Splits(path, n) /\ (n = N => kind = "directory")
           IsRoot(n) == /\ \A m \in 1 .. n : ~Excludes(path, m)
                        /\ \A m \in 1 .. n - 1 : Splits(path, m)
                        /\ ~Open(n)
<1>2. path \in Seq(Components) /\ N \in Nat /\ N >= 1
  BY <1>1 DEF TreeTypes
<1>3. Prefixes(path) = {SubSeq(path, 1, n) : n \in 1 .. N}
  BY DEF Prefixes
<1>4. \A n \in 1 .. N : SnapshotRoot(SubSeq(path, 1, n)) <=> IsRoot(n)
  BY <1>1, RootAt
<1>5. Copied(path) <=> \E n \in 1 .. N : IsRoot(n)
  BY <1>3, <1>4 DEF Copied
<1>6. Inventoried(path) <=> \A n \in 1 .. N : ~Excludes(path, n)
  BY <1>2, <1>3, PrefixExcludes DEF Inventoried
<1>7. Split(path, kind) <=> Open(N)
  <2>1. SubSeq(path, 1, N) = path
    BY <1>2, PrefixesOf
  <2>2. MayContainExclusion(SubSeq(path, 1, N)) <=> Splits(path, N)
    BY <1>2, PrefixSplits
  <2> HIDE DEF N
  <2> QED
    BY <2>1, <2>2 DEF Split
<1> HIDE DEF N
<1>8. ASSUME NEW n \in 1 .. N, IsRoot(n), NEW m \in 1 .. N, IsRoot(m)
      PROVE  n = m
  <2>1. ASSUME NEW i \in 1 .. N, IsRoot(i), NEW j \in 1 .. N, IsRoot(j), i < j
        PROVE  FALSE
    <3>1. i \in 1 .. j - 1 /\ i # N
      BY <1>2, <2>1
    <3>2. Splits(path, i)
      BY <2>1, <3>1
    <3> QED
      BY <2>1, <3>1, <3>2
  <2>2. n < m \/ m < n \/ n = m
    BY <1>2
  <2> HIDE DEF IsRoot
  <2> QED
    BY <1>8, <2>1, <2>2
<1>9. ASSUME NEW n \in 1 .. N, IsRoot(n)
      PROVE  (\A m \in 1 .. N : ~Excludes(path, m)) /\ ~Open(N)
  <2>1. ASSUME NEW m \in 1 .. N, Excludes(path, m)
        PROVE  FALSE
    <3>1. PICK k \in 1 .. m : Excludes(path, k) /\ \A j \in 1 .. k - 1 : Splits(path, j)
      BY <1>2, <2>1, AncestorsSplit
    <3>2. n < k
      <4>1. k \notin 1 .. n
        BY <1>9, <3>1
      <4> QED
        BY <1>2, <4>1
    <3>3. n \in 1 .. k - 1 /\ n # N
      BY <1>2, <3>2
    <3> QED
      BY <1>9, <3>1, <3>3
  <2>2. ASSUME Open(N)
        PROVE  FALSE
    <3>1. n # N
      BY <1>9, <2>2
    <3>2. n \in 1 .. N - 1
      BY <1>2, <3>1
    <3>3. Splits(path, n)
      BY <1>2, <2>2, <3>2, AncestorsSplit
    <3> QED
      BY <1>9, <3>1, <3>3
  <2> QED
    BY <2>1, <2>2
<1>10. ASSUME \A m \in 1 .. N : ~Excludes(path, m), ~Open(N)
       PROVE  \E n \in 1 .. N : IsRoot(n)
  <2> DEFINE B == {n \in 1 .. N : ~Open(n)}
  <2>1. B \in SUBSET Nat /\ N \in B
    BY <1>2, <1>10
  <2>2. PICK n \in B : \A m \in B : n <= m
    BY <2>1, Least
  <2>3. n \in 1 .. N /\ ~Open(n)
    BY <2>2
  <2>4. ASSUME NEW m \in 1 .. n - 1
        PROVE  Splits(path, m)
    <3>1. m \in 1 .. N /\ m < n
      BY <1>2, <2>3
    <3>2. m \notin B
      BY <2>2, <3>1
    <3> QED
      BY <3>1, <3>2
  <2>5. \A m \in 1 .. n : ~Excludes(path, m)
    BY <1>2, <1>10, <2>3
  <2> QED
    BY <2>3, <2>4, <2>5
<1>11. \A q, r \in Prefixes(path) : SnapshotRoot(q) /\ SnapshotRoot(r) => q = r
  <2> HIDE DEF IsRoot
  <2> QED
    BY <1>3, <1>4, <1>8
<1> HIDE DEF IsRoot, Open
<1> QED
  BY <1>5, <1>6, <1>7, <1>9, <1>10, <1>11

(* The walk stays on paths of entry names                                  *)
THEOREM TreeInvariant == TreeSpec => []TreeInv
<1>1. TreeInit => TreeInv
  BY DEF TreeInit, TreeInv, TreeTypes, Kinds
<1>2. TreeInv /\ [TreeNext]_treeWalk => TreeInv'
  <2>1. ASSUME TreeInv, NEW name \in Components, NEW k \in Kinds, Descend(name, k)
        PROVE  TreeInv'
    BY <2>1 DEF TreeInv, TreeTypes, Descend
  <2> QED
    BY <2>1 DEF TreeInv, TreeTypes, TreeNext, treeWalk
<1> QED
  BY <1>1, <1>2, PTL DEF TreeSpec

(* At every path of the walk the roots of the bundle cover the inventory.   *)
THEOREM RootsCovered == TreeSpec => []RootsCoverInventory
<1>1. TreeInv => RootsCoverInventory
  BY RootsCover DEF TreeInv
<1> QED
  BY <1>1, TreeInvariant, PTL

(*------------------- the guard of the protected sources -----------------*)
(* Marks that stand for no content are none.                               *)
LEMMA MarkFacts ==
  /\ Gone = 0 /\ Gone \in Held /\ 1 \in Held
  /\ NoCopy \in Contents /\ NoCopy \notin Held /\ NoHash \in Contents /\ NoHash \notin Held
  /\ Held \subseteq Contents
  /\ \A c \in Held : c # Gone => c \in 1 .. EditLimit
  /\ \A c \in Contents : c # NoCopy => c \in Held
  /\ \A n \in Nat : n < EditLimit => n + 1 \in Held
  /\ 1 .. EditLimit \subseteq Held /\ Gone \notin 1 .. EditLimit
BY GuardAssumption DEF Gone, Held, NoCopy, NoHash, Contents

(* Where the guard stands changes no more than that.                       *)
LEMMA MoveFacts ==
  ASSUME GuardTypes, NEW pc \in GuardSteps
  PROVE  /\ GuardTo(pc) => /\ guard' \in GuardRecords /\ guard'.pc = pc
                           /\ guard'.todo = guard.todo /\ guard'.had = guard.had
         /\ \A a \in {1, 2}, t \in SUBSET Leaves, had \in BOOLEAN :
               /\ guard' = [guard EXCEPT !.pc = pc, !.todo = t] =>
                     guard' \in GuardRecords /\ guard'.pc = pc /\ guard'.todo = t
               /\ guard' = [guard EXCEPT !.pc = pc, !.attempt = a] =>
                     guard' \in GuardRecords /\ guard'.pc = pc /\ guard'.todo = guard.todo
               /\ guard' = [guard EXCEPT !.pc = pc, !.had = had] =>
                     /\ guard' \in GuardRecords /\ guard'.pc = pc
                     /\ guard'.todo = guard.todo /\ guard'.had = had
BY DEF GuardTypes, GuardTo, GuardRecords

(* The steps of the recovery are steps.                                    *)
LEMMA RecoveryStepFacts == RecoverySteps \cup {"over", "restoring", "dead"} \subseteq GuardSteps
BY DEF RecoverySteps, GuardSteps

(* What a step of the recovery takes, and the account of it.               *)
LEMMA AccountFacts ==
  ASSUME GuardTypes, NEW e \in Leaves
  PROVE  /\ Takes(e) \in SUBSET (1 .. EditLimit)
         /\ \A T \in SUBSET (1 .. EditLimit), U \in SUBSET Held :
               /\ witness' = [witness EXCEPT !.owed[e] = @ \cup T] =>
                     /\ witness' \in Histories /\ witness'.exposed = witness.exposed
                     /\ witness'.owed = [witness.owed EXCEPT ![e] = @ \cup T]
               /\ witness' = [witness EXCEPT !.owed[e] = @ \ U] =>
                     /\ witness' \in Histories /\ witness'.exposed = witness.exposed
                     /\ witness'.owed = [witness.owed EXCEPT ![e] = @ \ U]
               /\ witness' = [witness EXCEPT !.owed[e] = (@ \cup T) \ U] =>
                     /\ witness' \in Histories /\ witness'.exposed = witness.exposed
                     /\ witness'.owed = [witness.owed EXCEPT ![e] = (@ \cup T) \ U]
<1>1. Takes(e) \in SUBSET (1 .. EditLimit)
  BY MarkFacts DEF GuardTypes, Takes
<1>2. witness \in Histories
  BY DEF GuardTypes
<1>3. ASSUME NEW T \in SUBSET (1 .. EditLimit), NEW U \in SUBSET Held
      PROVE  /\ witness' = [witness EXCEPT !.owed[e] = @ \cup T] =>
                     /\ witness' \in Histories /\ witness'.exposed = witness.exposed
                     /\ witness'.owed = [witness.owed EXCEPT ![e] = @ \cup T]
             /\ witness' = [witness EXCEPT !.owed[e] = @ \ U] =>
                     /\ witness' \in Histories /\ witness'.exposed = witness.exposed
                     /\ witness'.owed = [witness.owed EXCEPT ![e] = @ \ U]
             /\ witness' = [witness EXCEPT !.owed[e] = (@ \cup T) \ U] =>
                     /\ witness' \in Histories /\ witness'.exposed = witness.exposed
                     /\ witness'.owed = [witness.owed EXCEPT ![e] = (@ \cup T) \ U]
  <2>1. ASSUME NEW V \in SUBSET (1 .. EditLimit), witness' = [witness EXCEPT !.owed[e] = V]
        PROVE  /\ witness' \in Histories /\ witness'.exposed = witness.exposed
               /\ witness'.owed = [witness.owed EXCEPT ![e] = V]
    <3>1. witness.owed \in [Leaves -> SUBSET (1 .. EditLimit)]
      BY <1>2 DEF Histories
    <3>2. [witness.owed EXCEPT ![e] = V] \in [Leaves -> SUBSET (1 .. EditLimit)]
      BY <3>1
    <3> DEFINE due == [witness.owed EXCEPT ![e] = V]
    <3>3. witness' = [witness EXCEPT !.owed = due]
      BY <2>1
    <3>4. due \in [Leaves -> SUBSET (1 .. EditLimit)]
      BY <3>2
    <3> HIDE DEF due
    <3>5. witness' \in Histories /\ witness'.exposed = witness.exposed /\ witness'.owed = due
      BY <1>2, <3>3, <3>4 DEF Histories
    <3> QED
      BY <3>5 DEF due
  <2>2. witness.owed[e] \in SUBSET (1 .. EditLimit)
    BY <1>2 DEF Histories
  <2>3. /\ witness.owed[e] \cup T \in SUBSET (1 .. EditLimit)
        /\ witness.owed[e] \ U \in SUBSET (1 .. EditLimit)
        /\ (witness.owed[e] \cup T) \ U \in SUBSET (1 .. EditLimit)
    BY <2>2
  <2> QED
    BY <2>1, <2>3
<1> QED
  BY <1>1, <1>3

(* Every step leaves contents, marks and sets where they belong.           *)
LEMMA GuardTypesStep ==
  ASSUME GuardTypes, [GuardNext]_guardVars
  PROVE  GuardTypes'
<1> USE MarkFacts
<1>a. /\ guard \in GuardRecords
      /\ witness \in Histories
      /\ faults \in Nat /\ edits \in Nat /\ (Fault => faults' \in Nat)
      /\ guard.todo \in SUBSET Leaves
  BY DEF GuardTypes, GuardRecords, Fault
<1>b. RemovalCut => witness' \in
         Histories
  BY <1>a DEF RemovalCut, GuardAt, Histories
<1>1. ASSUME NEW e \in Leaves, NEW c \in Contents, Edit(e, c) PROVE GuardTypes'
  <2>1. c \in Held /\ edits' \in Nat
    BY <1>1, <1>a DEF Edit
  <2>2. live' \in [Leaves -> Held]
    BY <1>1, <2>1 DEF Edit, GuardTypes
  <2>3. witness' \in Histories
    <3>1. {c} \ {Gone} \subseteq 1 .. EditLimit
      BY <2>1
    <3> QED
      BY <1>1, <1>a, <3>1 DEF Edit, Histories
  <2> QED
    BY <1>1, <2>1, <2>2, <2>3 DEF Edit, GuardTypes, bundleVars
<1>2. ASSUME NEW e \in Leaves, Corrupt(e) PROVE GuardTypes'
  <2>1. witness' \in Histories
    BY <1>2, <1>a DEF Corrupt, Histories
  <2> QED
    BY <1>2, <1>a, <2>1 DEF Corrupt, GuardTypes, sourceVars
<1>3. ASSUME NEW e \in Leaves, CopyEntry(e) PROVE GuardTypes'
  <2>1. "hashing" \in GuardSteps /\ guard.todo \ {e} \in SUBSET Leaves
    BY <1>a DEF GuardSteps
  <2> QED
    BY <1>3, <2>1, MoveFacts DEF CopyEntry, CopyLeaf, GuardTypes, sourceVars
<1>4. ASSUME NEW e \in Leaves, HashEntry(e) PROVE GuardTypes'
  <2>1. "copying" \in GuardSteps
    BY DEF GuardSteps
  <2> QED
    BY <1>4, <2>1, MoveFacts DEF HashEntry, GuardTypes, sourceVars
<1>5. ASSUME NEW e \in Leaves, RemoveCopy(e) PROVE GuardTypes'
  BY <1>5 DEF RemoveCopy, GuardTypes, sourceVars
<1>6. ASSUME NEW e \in Leaves, StageCopy(e) PROVE GuardTypes'
  <2>1. "staged" \in GuardSteps /\ guard.todo \ {e} \in SUBSET Leaves
    BY <1>a DEF GuardSteps
  <2>2. bundle[e] \in Held
    BY <1>6 DEF StageCopy, GuardTypes
  <2> QED
    BY <1>6, <2>1, <2>2, MoveFacts DEF StageCopy, CopyLeaf, GuardTypes, bundleVars
<1>7. ASSUME NEW e \in Leaves, Displace(e) \/ Activate(e) \/ ClearName(e) PROVE GuardTypes'
  <2>1. guard' \in GuardRecords
    BY <1>7, RecoveryStepFacts, MoveFacts DEF Displace, Activate, ClearName, RecoverySteps
  <2>2. /\ live[e] \in Held /\ staged[e] \in Held /\ Takes(e) \in SUBSET (1 .. EditLimit)
        /\ Takes(e) \ {staged[e]} \in SUBSET (1 .. EditLimit)
    BY AccountFacts DEF GuardTypes
  <2>3. witness' \in Histories
    BY <1>7, <2>2, AccountFacts DEF Displace, Activate, ClearName
  <2>4. live' \in [Leaves -> Held] /\ displaced' \in [Leaves -> Held]
    BY <1>7, <2>2 DEF Displace, Activate, ClearName, GuardTypes
  <2> QED
    BY <1>7, <2>1, <2>3, <2>4 DEF Displace, Activate, ClearName, GuardTypes, bundleVars
<1>8. ASSUME NEW e \in Leaves, LookUp(e) \/ NothingToDisplace(e) \/ RestoreFails(e)
      PROVE  GuardTypes'
  <2>1. guard' \in GuardRecords
    BY <1>8, RecoveryStepFacts, MoveFacts
       DEF LookUp, NothingToDisplace, RestoreFails, RaiseFailed, RecoverySteps
  <2>2. faults' \in Nat
    BY <1>8, <1>a DEF LookUp, NothingToDisplace, RestoreFails
  <2> QED
    BY <1>8, <2>1, <2>2
       DEF LookUp, NothingToDisplace, RestoreFails, GuardTypes, sourceVars, bundleVars
<1>9. ASSUME NEW e \in Leaves, VerifyActivated(e) PROVE GuardTypes'
  <2>1. guard' \in GuardRecords
    BY <1>9, RecoveryStepFacts, MoveFacts DEF VerifyActivated, RecoverySteps
  <2>2. witness' \in Histories
    <3>1. {displaced[e]} \in SUBSET Held
      BY DEF GuardTypes
    <3> QED
      BY <1>9, <3>1, AccountFacts DEF VerifyActivated
  <2> QED
    BY <1>9, <2>1, <2>2 DEF VerifyActivated, GuardTypes, sourceVars, bundleVars
<1>10. ASSUME NEW e \in Leaves, DropDisplaced(e) \/ CheckRestored(e) PROVE GuardTypes'
  <2>1. guard' \in GuardRecords
    BY <1>10, RecoveryStepFacts, MoveFacts
       DEF DropDisplaced, CheckRestored, RaiseFailed, RecoverySteps
  <2> QED
    BY <1>10, <2>1 DEF DropDisplaced, CheckRestored, GuardTypes, bundleVars
<1>11. ASSUME NEW e \in Leaves, PutBack(e) PROVE GuardTypes'
  <2>1. guard' \in GuardRecords
    BY <1>11, RecoveryStepFacts, MoveFacts DEF PutBack, RaiseFailed, RecoverySteps
  <2>2. witness' \in Histories
    <3>1. {displaced[e]} \in SUBSET Held
      BY DEF GuardTypes
    <3> QED
      BY <1>11, <3>1, AccountFacts DEF PutBack
  <2> QED
    BY <1>11, <2>1, <2>2 DEF PutBack, GuardTypes, bundleVars
<1>24. ASSUME NEW e \in Leaves, RestoreAborts(e) PROVE GuardTypes'
  <2>1. guard' \in GuardRecords /\ faults' \in Nat
    BY <1>24, <1>a, RecoveryStepFacts, MoveFacts DEF RestoreAborts, RaiseFailed
  <2>2. {displaced[e]} \ {Gone} \subseteq 1 .. EditLimit
    BY DEF GuardTypes
  <2> QED
    BY <1>24, <2>1, <2>2 DEF RestoreAborts, GuardTypes, bundleVars
<1>12. CASE TakeInventory
  <2>1. "inventoried" \in GuardSteps
    BY DEF GuardSteps
  <2> QED
    BY <1>12, <2>1, MoveFacts DEF TakeInventory, GuardTypes, sourceVars
<1>13. CASE OpenBundle
  <2>1. "copying" \in GuardSteps /\ roots' \in SUBSET Leaves
    BY <1>13 DEF GuardSteps, OpenBundle
  <2> QED
    BY <1>13, <2>1, MoveFacts DEF OpenBundle, GuardTypes, sourceVars
<1>14. CASE WriteRecoveryManifest
  <2>1. "guarding" \in GuardSteps
    BY DEF GuardSteps
  <2> QED
    BY <1>14, <2>1, MoveFacts DEF WriteRecoveryManifest, GuardTypes, sourceVars
<1>15. CASE BuildFails
  <2>1. "done" \in GuardSteps /\ faults' \in Nat
    BY <1>15, <1>a DEF GuardSteps, BuildFails
  <2> QED
    BY <1>15, <2>1, MoveFacts DEF BuildFails, GuardTypes, sourceVars
<1>16. CASE StageEnds \/ FinishChanged \/ FinishMetadata
  <2>1. {"finish", "done", "removing"} \subseteq GuardSteps /\ faults' \in Nat
    BY <1>16, <1>a DEF GuardSteps, StageEnds, FinishChanged, FinishMetadata
  <2>2. guard' \in GuardRecords
    BY <1>16, <2>1, MoveFacts DEF StageEnds, FinishChanged, FinishMetadata, RaiseRetained
  <2> QED
    BY <1>16, <2>1, <2>2 DEF StageEnds, FinishChanged, FinishMetadata, GuardTypes, sourceVars,
       bundleVars
<1>17. CASE FinishInventory
  <2> DEFINE news == Changes(baseline, live)
  <2>1. {"metadata", "changed"} \subseteq GuardSteps /\ news \in SUBSET Leaves
    BY DEF GuardSteps, Changes
  <2>2. /\ witness' = [witness EXCEPT !.seen = @ \cup news, !.last = news]
        /\ GuardTo(IF news = {} THEN "metadata" ELSE "changed")
    BY <1>17 DEF FinishInventory
  <2> HIDE DEF news
  <2>3. witness' \in Histories
    BY <1>a, <2>1, <2>2 DEF Histories
  <2>4. guard' \in GuardRecords
    BY <2>1, <2>2, MoveFacts
  <2> QED
    BY <1>17, <2>3, <2>4 DEF FinishInventory, GuardTypes, sourceVars, bundleVars
<1>18. CASE RemoveTemporary
  <2>1. "done" \in GuardSteps
    BY DEF GuardSteps
  <2> QED
    BY <1>18, <2>1, MoveFacts DEF RemoveTemporary, GuardTypes, sourceVars
<1>19. CASE FinishInterrupted \/ FinishFails
  <2>1. {"finish", "done"} \subseteq GuardSteps /\ faults' \in Nat /\ 2 \in {1, 2}
    BY <1>19, <1>a DEF GuardSteps, FinishInterrupted, FinishFails
  <2>2. guard' \in GuardRecords
    BY <1>19, <1>a, <2>1, MoveFacts DEF FinishInterrupted, FinishFails, RaiseRetained
  <2>3. RemovalCut /\ UNCHANGED <<sourceVars, bundleVars, observed, edits>>
    BY <1>19 DEF FinishInterrupted, FinishFails
  <2> QED
    BY <1>b, <2>1, <2>2, <2>3 DEF GuardTypes, sourceVars, bundleVars
<1>20. CASE RestoreStarts
  <2>1. {"restoring", "over"} \subseteq GuardSteps /\ roots \in SUBSET Leaves
    BY DEF GuardSteps, GuardTypes
  <2>2. guard' \in GuardRecords
    BY <1>20, <2>1, MoveFacts DEF RestoreStarts
  <2> QED
    BY <1>20, <2>2 DEF RestoreStarts, GuardTypes, bundleVars
<1>21. CASE RestoreEnds
  <2>1. "over" \in GuardSteps
    BY DEF GuardSteps
  <2> QED
    BY <1>21, <2>1, MoveFacts DEF RestoreEnds, GuardTypes, sourceVars, bundleVars
<1>22. CASE Killed
  <2>1. "dead" \in GuardSteps /\ faults' \in Nat
    BY <1>22, <1>a DEF GuardSteps, Killed
  <2>2. \A e \in Leaves : {displaced[e]} \ {Gone} \subseteq 1 .. EditLimit
    BY DEF GuardTypes
  <2>3. strays' \in [Leaves -> SUBSET (1 .. EditLimit)] /\ displaced' \in [Leaves -> Held]
    BY <1>22, <2>2 DEF Killed, GuardTypes
  <2> QED
    BY <1>22, <1>b, <2>1, <2>3, MoveFacts DEF Killed, GuardTypes, bundleVars
<1>23. CASE UNCHANGED guardVars
  BY <1>23 DEF guardVars, sourceVars, bundleVars, GuardTypes
<1> QED
  BY <1>1, <1>2, <1>3, <1>4, <1>5, <1>6, <1>7, <1>8, <1>9, <1>10, <1>11, <1>12, <1>13, <1>14,
     <1>15, <1>16, <1>17, <1>18, <1>19, <1>20, <1>21, <1>22, <1>23, <1>24, Zenon DEF GuardNext

(*------------------------------ the pre-image ---------------------------*)
(* Steps that leave the bundle, the inventory and the history alone.       *)
LEMMA PreImageMoves ==
  ASSUME PreImageInv, UNCHANGED <<baseline, roots, bundle, manifest, witness>>,
         \/ guard'.pc \in RecoverySteps \cup {"dead", "restoring", "over"}
         \/ guard.pc = "guarding" /\ guard'.pc = "finish"
         \/ guard.pc \in {"metadata"} /\ guard'.pc = "removing"
         \/ guard.pc \in {"finish", "changed", "metadata"} /\ guard'.pc \in {"done", "finish"}
  PROVE  PreImageInv'
BY DEF PreImageInv, Saved, Unhashed, RecoverySteps

(* Every step keeps a pre-image until its inode is verified.               *)
LEMMA PreImageStep ==
  ASSUME GuardTypes, PreImageInv, [GuardNext]_guardVars
  PROVE  PreImageInv'
<1> USE MarkFacts
<1>a. /\ guard \in GuardRecords
      /\ witness \in Histories
      /\ live \in [Leaves -> Held] /\ baseline \in [Leaves -> Held]
      /\ bundle \in [Leaves -> Contents] /\ roots \subseteq Leaves
      /\ manifest \in [durable : BOOLEAN, sha : [Leaves -> Contents]]
      /\ guard.todo \in SUBSET Leaves
  BY DEF GuardTypes, GuardRecords
<1>b. RemovalCut =>
         /\ witness'.racing = witness.racing /\ witness'.last = witness.last
         /\ witness'.cut = (witness.cut \/ guard.pc = "removing")
  BY <1>a DEF RemovalCut, GuardAt, Histories
<1>c. \A pc : GuardTo(pc) => guard'.pc = pc /\ guard'.todo = guard.todo
  BY <1>a DEF GuardTo, GuardRecords
(* The edits of others. *)
<1>1. ASSUME NEW e \in Leaves, NEW c \in Contents, Edit(e, c) PROVE PreImageInv'
  <2>1. /\ guard' = guard /\ UNCHANGED <<baseline, roots, bundle, manifest>>
        /\ live' = [live EXCEPT ![e] = c]
        /\ witness'.last = witness.last /\ witness'.cut = witness.cut
        /\ witness'.racing = IF guard.pc \in {"inventoried", "copying", "hashing"}
                             THEN witness.racing \cup {e} ELSE witness.racing
    BY <1>1, <1>a DEF Edit, bundleVars, Histories
  <2>2. \A x \in Leaves : x # e => live'[x] = live[x]
    BY <1>a, <2>1
  <2>3. CASE guard.pc \in {"inventoried", "copying", "hashing"}
    BY <2>1, <2>2, <2>3 DEF PreImageInv, Saved, Unhashed
  <2>4. CASE guard.pc \notin {"inventoried", "copying", "hashing"}
    BY <2>1, <2>4 DEF PreImageInv, Saved, Unhashed
  <2> QED
    BY <2>3, <2>4
<1>2. ASSUME NEW e \in Leaves, Corrupt(e) PROVE PreImageInv'
  <2>1. guard' = guard /\ guard.pc \in {"done", "dead", "over"} /\ witness'.cut
    BY <1>2, <1>a DEF Corrupt, BundleLeft, GuardAt, Histories
  <2> QED
    BY <2>1 DEF PreImageInv
(* Building the bundle. *)
<1>3. ASSUME NEW e \in Leaves, CopyEntry(e) PROVE PreImageInv'
  <2>1. /\ guard.pc = "copying" /\ e \in guard.todo
        /\ guard'.pc = "hashing" /\ guard'.todo = guard.todo \ {e}
        /\ UNCHANGED <<live, baseline, roots, witness>>
        /\ bundle' = [bundle EXCEPT ![e] = live[e]]
        /\ manifest'.sha = [manifest.sha EXCEPT ![e] = NoHash]
    BY <1>3, <1>a DEF CopyEntry, CopyLeaf, GuardAt, sourceVars, GuardRecords
  <2>2. Unhashed' \subseteq {e}
    BY <1>a, <2>1 DEF PreImageInv, Unhashed
  <2>3. \A x \in (roots \ guard'.todo) \ witness.racing :
            bundle'[x] = baseline[x] /\ manifest'.sha[x] \in {baseline[x], NoHash}
    BY <1>a, <2>1 DEF PreImageInv
  <2> QED
    BY <2>1, <2>2, <2>3 DEF PreImageInv
<1>4. ASSUME NEW e \in Leaves, HashEntry(e) PROVE PreImageInv'
  <2>1. /\ guard.pc = "hashing" /\ e \in Unhashed
        /\ guard'.pc = "copying" /\ guard'.todo = guard.todo
        /\ UNCHANGED <<live, baseline, roots, witness, bundle>>
        /\ manifest'.sha = [manifest.sha EXCEPT ![e] = live[e]]
    BY <1>4, <1>a, <1>c DEF HashEntry, GuardAt, sourceVars, Unhashed
  <2>2. live[e] # NoHash /\ e \in roots \ guard.todo
    BY <1>a, <2>1 DEF Unhashed
  <2>3. Unhashed' = {}
    BY <1>a, <2>1, <2>2 DEF PreImageInv, Unhashed
  <2>4. \A x \in (roots \ guard.todo) \ witness.racing :
            bundle'[x] = baseline[x] /\ manifest'.sha[x] \in {baseline[x], NoHash}
    BY <1>a, <2>1, <2>2 DEF PreImageInv
  <2> QED
    BY <2>1, <2>3, <2>4 DEF PreImageInv
<1>5. CASE TakeInventory
  <2>1. guard.pc = "idle" /\ guard'.pc = "inventoried" /\ baseline' = live /\ live' = live
        /\ witness' = witness
    BY <1>5, <1>c DEF TakeInventory, GuardAt, sourceVars
  <2> QED
    BY <2>1 DEF PreImageInv
<1>6. CASE OpenBundle
  <2>1. /\ guard.pc = "inventoried" /\ guard'.pc = "copying" /\ guard'.todo = roots'
        /\ roots' = {e \in Leaves : live[e] # Gone}
        /\ UNCHANGED <<live, baseline, witness>>
    BY <1>6, <1>a DEF OpenBundle, GuardAt, sourceVars, GuardRecords
  <2>2. Unhashed' = {}
    BY <2>1 DEF Unhashed
  <2> QED
    BY <2>1, <2>2 DEF PreImageInv
<1>7. CASE WriteRecoveryManifest
  <2>1. /\ guard.pc = "copying" /\ guard.todo = {} /\ guard'.pc = "guarding"
        /\ manifest'.durable /\ manifest'.sha = manifest.sha
        /\ UNCHANGED <<baseline, roots, bundle, witness>>
    BY <1>7, <1>a, <1>c DEF WriteRecoveryManifest, GuardAt
  <2>2. \A e \in Leaves \ witness.racing :
           baseline[e] # Gone => bundle[e] = baseline[e] /\ manifest.sha[e] = baseline[e]
    BY <1>a, <2>1 DEF PreImageInv, Unhashed
  <2> QED
    BY <2>1, <2>2 DEF PreImageInv, Saved
<1>8. CASE BuildFails
  <2>1. guard.pc \in {"copying", "hashing"} /\ guard'.pc = "done" /\ witness' = witness
    BY <1>8, <1>c DEF BuildFails
  <2> QED
    BY <2>1 DEF PreImageInv
(* Finishing. *)
<1>9. CASE FinishInventory
  <2> DEFINE news == Changes(baseline, live)
  <2>1. /\ guard.pc = "finish" /\ UNCHANGED <<baseline, roots, bundle, manifest>>
        /\ witness' = [witness EXCEPT !.seen = @ \cup news, !.last = news]
        /\ guard'.pc = IF news = {} THEN "metadata" ELSE "changed"
    BY <1>9, <1>c DEF FinishInventory, GuardAt, bundleVars
  <2> HIDE DEF news
  <2>2. /\ witness'.racing = witness.racing /\ witness'.cut = witness.cut
        /\ witness'.last = news
    BY <1>a, <2>1 DEF Histories
  <2> QED
    BY <2>1, <2>2 DEF PreImageInv, Saved
<1>10. CASE FinishChanged \/ FinishMetadata \/ StageEnds
  <2>1. /\ UNCHANGED <<baseline, roots, bundle, manifest, witness>>
        /\ \/ guard.pc = "changed" /\ guard'.pc = "done"
           \/ guard.pc = "metadata" /\ guard'.pc \in {"removing", "done"}
           \/ guard.pc = "guarding" /\ guard'.pc = "finish"
    BY <1>10, <1>c DEF FinishChanged, FinishMetadata, StageEnds, GuardAt, RaiseRetained,
       bundleVars
  <2> QED
    BY <2>1, PreImageMoves
<1>11. CASE RemoveTemporary \/ (\E e \in Leaves : RemoveCopy(e))
  <2>1. guard.pc = "removing" /\ guard'.pc \in {"removing", "done"} /\ witness' = witness
    BY <1>11, <1>c DEF RemoveTemporary, RemoveCopy, GuardAt
  <2> QED
    BY <2>1 DEF PreImageInv
<1>12. CASE FinishInterrupted \/ FinishFails
  <2>1. /\ guard.pc \in {"finish", "changed", "metadata", "removing"}
        /\ UNCHANGED <<baseline, roots, bundle, manifest>>
        /\ guard'.pc \in {"finish", "done"} /\ RemovalCut
    BY <1>12, <1>a, <1>c DEF GuardRecords, FinishInterrupted, FinishFails, Finishing, RaiseRetained, bundleVars
  <2> QED
    BY <1>b, <2>1 DEF PreImageInv, Saved
(* The recovery. *)
<1>13. CASE \/ RestoreStarts \/ RestoreEnds \/ Killed
            \/ \E e \in Leaves : \/ StageCopy(e) \/ LookUp(e) \/ NothingToDisplace(e)
                                 \/ DropDisplaced(e) \/ CheckRestored(e) \/ RestoreFails(e)
  <2>1. guard'.pc \in RecoverySteps \cup {"dead", "restoring", "over"}
    BY <1>13, <1>a, <1>c DEF RestoreStarts, RestoreEnds, Killed, StageCopy, LookUp, GuardRecords,
       NothingToDisplace, DropDisplaced, CheckRestored, RestoreFails, RaiseFailed, RecoverySteps
  <2> QED
    BY <2>1 DEF PreImageInv, RecoverySteps
<1>14. CASE \E e \in Leaves : \/ Displace(e) \/ Activate(e) \/ VerifyActivated(e)
                              \/ ClearName(e) \/ PutBack(e) \/ RestoreAborts(e)
  <2>1. guard'.pc \in RecoverySteps \cup {"over"}
    BY <1>14, <1>c DEF Displace, Activate, VerifyActivated, ClearName, PutBack, RestoreAborts,
       RaiseFailed, RecoverySteps
  <2> QED
    BY <2>1 DEF PreImageInv, RecoverySteps
<1>15. CASE UNCHANGED guardVars
  BY <1>15 DEF guardVars, sourceVars, bundleVars, PreImageInv, Saved, Unhashed
<1> QED
  BY <1>1, <1>2, <1>3, <1>4, <1>5, <1>6, <1>7, <1>8, <1>9, <1>10, <1>11, <1>12, <1>13, <1>14,
     <1>15, Zenon DEF GuardNext

(*------------------------------ the recovery ----------------------------*)
(* With no entry in hand, what is beside the entries is accounted for.      *)
LEMMA NothingInHand ==
  ASSUME \A e \in Leaves : /\ displaced[e] = Gone
                           /\ witness.owed[e] \subseteq {Gone} \cup strays[e] \cup witness.exposed[e]
                           /\ guard.pc = "restoring" => staged[e] = Gone,
         guard.pc \notin RecoverySteps
  PROVE  RecoveryInv
BY DEF RecoveryInv, LeafInv, Unseen, GuardAt, RecoverySteps

(* Outside of the recovery nothing is beside the entries.                  *)
LEMMA OutsideRecovery ==
  ASSUME GuardTypes, RecoveryInv, guard.pc \notin RecoverySteps
  PROVE  \A e \in Leaves : /\ displaced[e] = Gone /\ ~Unseen(e)
                           /\ witness.owed[e] \subseteq {Gone} \cup strays[e] \cup witness.exposed[e]
                           /\ guard.pc = "restoring" => staged[e] = Gone
BY DEF RecoveryInv, LeafInv, Unseen, GuardAt, RecoverySteps

(* A step on the entry in hand does not disturb the others.                *)
LEMMA EntryMove ==
  ASSUME GuardTypes, RecoveryInv, NEW e \in Leaves, InHand(e), guard.pc \in RecoverySteps,
         UNCHANGED <<staged, roots, strays>>, guard'.todo = guard.todo,
         guard'.pc \in RecoverySteps, witness'.exposed = witness.exposed,
         \A x \in Leaves : x # e => /\ live'[x] = live[x] /\ displaced'[x] = displaced[x]
                                    /\ witness'.owed[x] = witness.owed[x],
         LeafInv(e)'
  PROVE  RecoveryInv'
<1>1. \A x \in Leaves : x # e => staged[x] = Gone /\ ~InHand(x)
  BY DEF RecoveryInv, InHand
<1>2. \A x \in Leaves : x # e => displaced[x] = Gone
  BY <1>1 DEF RecoveryInv, LeafInv
<1>3. ASSUME NEW x \in Leaves, x # e PROVE LeafInv(x)'
  <2>1. ~InHand(x)'
    BY <1>1, <1>3 DEF InHand
  <2>2. witness.owed[x] \subseteq {displaced[x]} \cup strays[x] \cup witness.exposed[x]
    BY DEF RecoveryInv, LeafInv
  <2>3. displaced'[x] = Gone /\ staged'[x] = Gone
    BY <1>1, <1>2, <1>3
  <2>4. ~Unseen(x)'
    BY <2>1 DEF Unseen
  <2> QED
    BY <1>3, <2>1, <2>2, <2>3, <2>4 DEF LeafInv
<1> QED
  BY <1>1, <1>3 DEF RecoveryInv

(* A step that ends the recovery of the entry in hand, and leaves nothing  *)
(* beside it but strays.                                                   *)
LEMMA EntryDone ==
  ASSUME GuardTypes, RecoveryInv, NEW e \in Leaves, InHand(e), guard.pc \in RecoverySteps,
         guard'.pc \in {"over", "restoring"},
         \/ staged' = [staged EXCEPT ![e] = Gone]
         \/ guard'.pc = "over",
         displaced'[e] = Gone, witness'.exposed = witness.exposed,
         \A x \in Leaves : x # e => /\ displaced'[x] = displaced[x] /\ strays'[x] = strays[x]
                                    /\ witness'.owed[x] = witness.owed[x],
         witness'.owed[e] \subseteq {Gone} \cup strays'[e] \cup witness'.exposed[e]
  PROVE  RecoveryInv'
<1>1. \A x \in Leaves : x # e => staged[x] = Gone /\ ~InHand(x)
  BY DEF RecoveryInv, InHand
<1>2. \A x \in Leaves : x # e => displaced[x] = Gone
  BY <1>1 DEF RecoveryInv, LeafInv
<1>3. \A x \in Leaves :
         witness'.owed[x] \subseteq {Gone} \cup strays'[x] \cup witness'.exposed[x]
  BY <1>2 DEF RecoveryInv, LeafInv
<1>4. \A x \in Leaves : displaced'[x] = Gone
  BY <1>2
<1>5. guard'.pc = "restoring" => \A x \in Leaves : staged'[x] = Gone
  BY <1>1 DEF GuardTypes
<1>6. guard'.pc \notin RecoverySteps
  BY DEF RecoverySteps
<1> QED
  BY <1>3, <1>4, <1>5, <1>6 DEF RecoveryInv, LeafInv, Unseen, GuardAt, RecoverySteps

(* An edit: what is written at a name the recovery does not look at is     *)
(* noted.                                                                  *)
LEMMA EditStep ==
  ASSUME GuardTypes, RecoveryInv, NEW e \in Leaves, NEW c \in Contents, Edit(e, c)
  PROVE  RecoveryInv'
<1>1. /\ UNCHANGED <<staged, displaced, strays, roots, guard>>
      /\ live' = [live EXCEPT ![e] = c]
      /\ witness'.owed = witness.owed
      /\ witness'.exposed = [witness.exposed EXCEPT
                                ![e] = IF Unseen(e) THEN @ \cup ({c} \ {Gone}) ELSE @]
  BY DEF Edit, bundleVars, GuardTypes, Histories
<1>2. /\ witness.exposed \in [Leaves -> SUBSET (1 .. EditLimit)] /\ live \in [Leaves -> Held]
  BY DEF GuardTypes, Histories
<1>3. ASSUME NEW x \in Leaves PROVE LeafInv(x)'
  <2>1. LeafInv(x) /\ (InHand(x)' <=> InHand(x)) /\ (Unseen(x)' <=> Unseen(x))
    BY <1>1 DEF RecoveryInv, InHand, Unseen, GuardAt
  <2>2. witness.exposed[x] \subseteq witness'.exposed[x]
    BY <1>1, <1>2
  <2>3. Unseen(x) => \/ live'[x] = live[x]
                     \/ live'[x] \in {Gone} \cup witness'.exposed[x]
    BY <1>1, <1>2
  <2> QED
    BY <1>1, <2>1, <2>2, <2>3 DEF LeafInv
<1> QED
  BY <1>1, <1>3 DEF RecoveryInv

LEMMA RecoveryStep ==
  ASSUME GuardTypes, RecoveryInv, [GuardNext]_guardVars
  PROVE  RecoveryInv'
<1> USE MarkFacts
<1>a. /\ guard \in GuardRecords /\ witness \in Histories
      /\ witness.owed \in [Leaves -> SUBSET (1 .. EditLimit)]
      /\ live \in [Leaves -> Held] /\ displaced \in [Leaves -> Held]
      /\ staged \in [Leaves -> Held] /\ roots \subseteq Leaves
      /\ strays \in [Leaves -> SUBSET (1 .. EditLimit)]
  BY DEF GuardTypes, Histories
<1>b. \A pc : GuardTo(pc) => guard'.pc = pc /\ guard'.todo = guard.todo
  BY <1>a DEF GuardTo, GuardRecords
<1>c. RemovalCut => witness'.owed = witness.owed /\ witness'.exposed = witness.exposed
  BY <1>a DEF RemovalCut, Histories
(* Outside of the recovery nothing is beside the entries. *)
<1>1. ASSUME UNCHANGED <<displaced, strays>>, witness'.owed = witness.owed,
             witness'.exposed = witness.exposed, guard.pc \notin RecoverySteps,
             guard'.pc \notin RecoverySteps \cup {"restoring"}
      PROVE  RecoveryInv'
  BY <1>1, OutsideRecovery DEF RecoveryInv, LeafInv, Unseen, GuardAt, RecoverySteps
<1>2. ASSUME NEW e \in Leaves, NEW c \in Contents, Edit(e, c) PROVE RecoveryInv'
  BY <1>2, EditStep
<1>3. ASSUME NEW e \in Leaves, Corrupt(e) PROVE RecoveryInv'
  <2>1. /\ UNCHANGED <<live, staged, displaced, strays, roots, guard>>
        /\ witness'.owed = witness.owed /\ witness'.exposed = witness.exposed
    BY <1>3, <1>a DEF Corrupt, sourceVars, Histories
  <2> QED
    BY <2>1 DEF RecoveryInv, LeafInv, Unseen, InHand, GuardAt
<1>4. CASE \/ \E e \in Leaves : CopyEntry(e) \/ HashEntry(e) \/ RemoveCopy(e)
           \/ TakeInventory \/ OpenBundle \/ WriteRecoveryManifest \/ BuildFails \/ StageEnds
           \/ FinishChanged \/ FinishMetadata \/ RemoveTemporary \/ RestoreEnds
  <2>1. UNCHANGED <<displaced, strays, witness>>
    BY <1>4 DEF CopyEntry, HashEntry, RemoveCopy, TakeInventory, OpenBundle,
       WriteRecoveryManifest, BuildFails, StageEnds, FinishChanged, FinishMetadata,
       RemoveTemporary, RestoreEnds, RaiseRetained, sourceVars
  <2>2. guard.pc \notin RecoverySteps /\ guard'.pc \notin RecoverySteps \cup {"restoring"}
    <3> USE DEF RecoverySteps, GuardRecords
    <3>1. CASE \E e \in Leaves : CopyEntry(e)
      BY <1>a, <3>1 DEF CopyEntry, GuardAt
    <3>2. CASE \E e \in Leaves : HashEntry(e) \/ RemoveCopy(e)
      BY <1>b, <3>2 DEF HashEntry, RemoveCopy, GuardAt
    <3>3. CASE TakeInventory \/ WriteRecoveryManifest
      BY <1>b, <3>3 DEF TakeInventory, WriteRecoveryManifest, GuardAt
    <3>4. CASE OpenBundle
      BY <1>a, <3>4 DEF OpenBundle, GuardAt
    <3>5. CASE StageEnds \/ FinishChanged \/ FinishMetadata
      BY <1>b, <3>5 DEF StageEnds, FinishChanged, FinishMetadata, GuardAt, RaiseRetained
    <3>6. CASE RemoveTemporary \/ RestoreEnds
      BY <1>b, <3>6 DEF RemoveTemporary, RestoreEnds, GuardAt
    <3>7. CASE BuildFails
      <4>1. guard.pc \in {"copying", "hashing"} /\ guard'.pc = "done"
        BY <1>b, <3>7 DEF BuildFails
      <4> QED
        BY <4>1
    <3> QED
      BY <1>4, <3>1, <3>2, <3>3, <3>4, <3>5, <3>6, <3>7
  <2> QED
    BY <1>1, <2>1, <2>2
<1>5. CASE FinishInventory
  <2>1. /\ UNCHANGED <<displaced, strays>> /\ guard.pc = "finish"
        /\ guard'.pc \in {"metadata", "changed"} /\ witness'.owed = witness.owed
        /\ witness'.exposed = witness.exposed
    BY <1>5, <1>a, <1>b DEF FinishInventory, GuardAt, sourceVars, Histories
  <2> QED
    BY <1>1, <2>1 DEF RecoverySteps
<1>6. CASE FinishInterrupted \/ FinishFails
  <2>1. /\ UNCHANGED <<displaced, strays>>
        /\ guard.pc \in {"finish", "changed", "metadata", "removing"}
        /\ guard'.pc \in {"finish", "done"} /\ witness'.owed = witness.owed
        /\ witness'.exposed = witness.exposed
    BY <1>6, <1>a, <1>b, <1>c DEF FinishInterrupted, FinishFails, Finishing, RaiseRetained,
       sourceVars, GuardRecords
  <2> QED
    BY <1>1, <2>1 DEF RecoverySteps
<1>7. CASE RestoreStarts
  <2>1. /\ UNCHANGED <<displaced, strays, witness>> /\ guard.pc \in {"done", "dead", "over"}
        /\ guard'.pc \in {"restoring", "over"} /\ staged' = [x \in Leaves |-> Gone]
    BY <1>7, <1>a, <1>b DEF RestoreStarts, BundleLeft, GuardAt, GuardRecords
  <2>2. guard.pc \notin RecoverySteps /\ guard'.pc \notin RecoverySteps
    BY <2>1 DEF RecoverySteps
  <2> QED
    BY <2>1, <2>2, OutsideRecovery DEF RecoveryInv, LeafInv, Unseen, GuardAt, RecoverySteps
<1>8. ASSUME NEW e \in Leaves, StageCopy(e) PROVE RecoveryInv'
  <2>1. /\ UNCHANGED <<displaced, strays, witness>> /\ guard.pc = "restoring"
        /\ guard'.pc = "staged" /\ staged' = [staged EXCEPT ![e] = bundle[e]]
    BY <1>8, <1>a DEF StageCopy, CopyLeaf, GuardAt, GuardRecords
  <2>2. \A x \in Leaves : staged'[x] # Gone => x = e
    BY <1>a, <2>1 DEF RecoveryInv, LeafInv
  <2>3. \A x \in Leaves : /\ displaced[x] = Gone
                          /\ witness.owed[x] \subseteq {Gone} \cup strays[x] \cup witness.exposed[x]
    BY <2>1, OutsideRecovery DEF RecoverySteps
  <2>4. \A x \in Leaves : LeafInv(x)'
    BY <2>1, <2>3 DEF LeafInv, Unseen, GuardAt
  <2> QED
    BY <2>2, <2>4 DEF RecoveryInv
<1>9. ASSUME NEW e \in Leaves, LookUp(e) PROVE RecoveryInv'
  <2>1. /\ UNCHANGED <<live, staged, displaced, strays, roots, witness>> /\ guard.pc = "staged"
        /\ InHand(e) /\ guard'.pc = "looked" /\ guard'.todo = guard.todo
        /\ guard'.had = (live[e] # Gone)
    BY <1>9, <1>a DEF LookUp, GuardAt, sourceVars, bundleVars, GuardRecords
  <2>2. LeafInv(e)'
    BY <2>1 DEF RecoveryInv, LeafInv, Unseen, InHand, GuardAt
  <2> QED
    BY <2>1, <2>2, EntryMove DEF RecoverySteps
<1>10. ASSUME NEW e \in Leaves, Displace(e) PROVE RecoveryInv'
  <2>1. /\ UNCHANGED <<staged, strays, roots>> /\ guard.pc = "looked" /\ InHand(e)
        /\ guard'.pc = "displaced" /\ guard'.todo = guard.todo
        /\ displaced' = [displaced EXCEPT ![e] = live[e]]
        /\ live' = [live EXCEPT ![e] = Gone]
        /\ witness'.owed = [witness.owed EXCEPT ![e] = @ \cup Takes(e)]
        /\ witness'.exposed = witness.exposed
    BY <1>10, <1>a, <1>b, AccountFacts DEF Displace, GuardAt, bundleVars
  <2>2. displaced[e] = Gone
    BY <2>1 DEF RecoveryInv, LeafInv
  <2>3. LeafInv(e)'
    BY <1>a, <2>1, <2>2 DEF RecoveryInv, LeafInv, Unseen, InHand, GuardAt, Takes
  <2>4. \A x \in Leaves : x # e => /\ live'[x] = live[x] /\ displaced'[x] = displaced[x]
                                   /\ witness'.owed[x] = witness.owed[x]
    BY <1>a, <2>1
  <2> QED
    BY <2>1, <2>3, <2>4, EntryMove DEF RecoverySteps
<1>11. ASSUME NEW e \in Leaves, NothingToDisplace(e) PROVE RecoveryInv'
  <2>1. /\ UNCHANGED <<live, staged, displaced, strays, roots, witness>> /\ guard.pc = "looked"
        /\ InHand(e) /\ guard'.pc = "displaced" /\ guard'.todo = guard.todo /\ ~guard.had
    BY <1>11, <1>b DEF NothingToDisplace, GuardAt, sourceVars, bundleVars
  <2>2. LeafInv(e)'
    BY <2>1 DEF RecoveryInv, LeafInv, Unseen, InHand, GuardAt
  <2> QED
    BY <2>1, <2>2, EntryMove DEF RecoverySteps
<1>12. ASSUME NEW e \in Leaves, Activate(e) PROVE RecoveryInv'
  <2>1. /\ UNCHANGED <<staged, displaced, strays, roots>> /\ guard.pc = "displaced" /\ InHand(e)
        /\ guard'.pc = "activated" /\ guard'.todo = guard.todo
        /\ live' = [live EXCEPT ![e] = staged[e]]
        /\ witness'.owed = [witness.owed EXCEPT ![e] = @ \cup Takes(e)]
        /\ witness'.exposed = witness.exposed
    BY <1>12, <1>b, AccountFacts DEF Activate, GuardAt, bundleVars
  <2>2. live[e] \in {Gone} \cup witness.exposed[e]
    BY <2>1 DEF RecoveryInv, LeafInv, Unseen
  <2>3. LeafInv(e)'
    BY <1>a, <2>1, <2>2 DEF RecoveryInv, LeafInv, Unseen, InHand, GuardAt, Takes
  <2>4. \A x \in Leaves : x # e => live'[x] = live[x] /\ witness'.owed[x] = witness.owed[x]
    BY <1>a, <2>1
  <2> QED
    BY <2>1, <2>3, <2>4, EntryMove DEF RecoverySteps
<1>13. ASSUME NEW e \in Leaves, VerifyActivated(e) PROVE RecoveryInv'
  <2>1. /\ UNCHANGED <<live, staged, displaced, strays, roots>> /\ guard.pc = "activated"
        /\ InHand(e) /\ guard'.pc = "verified" /\ guard'.todo = guard.todo
        /\ witness'.owed = [witness.owed EXCEPT ![e] = @ \ {displaced[e]}]
        /\ witness'.exposed = witness.exposed
    <3>1. {displaced[e]} \in SUBSET Held
      BY <1>a
    <3> QED
      BY <1>13, <1>b, <3>1, AccountFacts DEF VerifyActivated, GuardAt, sourceVars, bundleVars
  <2>2. LeafInv(e)'
    BY <1>a, <2>1 DEF RecoveryInv, LeafInv, Unseen, InHand, GuardAt
  <2>3. \A x \in Leaves : x # e => witness'.owed[x] = witness.owed[x]
    BY <1>a, <2>1
  <2> QED
    BY <2>1, <2>2, <2>3, EntryMove DEF RecoverySteps
<1>14. ASSUME NEW e \in Leaves, DropDisplaced(e) PROVE RecoveryInv'
  <2>1. /\ UNCHANGED <<live, staged, strays, roots, witness>> /\ guard.pc = "verified"
        /\ InHand(e) /\ guard'.pc = "dropped" /\ guard'.todo = guard.todo
        /\ displaced' = [displaced EXCEPT ![e] = Gone]
    BY <1>14, <1>b DEF DropDisplaced, GuardAt, bundleVars
  <2>2. LeafInv(e)'
    BY <1>a, <2>1 DEF RecoveryInv, LeafInv, Unseen, InHand, GuardAt
  <2>3. \A x \in Leaves : x # e => displaced'[x] = displaced[x]
    BY <1>a, <2>1
  <2> QED
    BY <2>1, <2>2, <2>3, EntryMove DEF RecoverySteps
<1>15. ASSUME NEW e \in Leaves, CheckRestored(e) PROVE RecoveryInv'
  <2>1. /\ UNCHANGED <<displaced, strays, witness>> /\ guard.pc = "dropped" /\ InHand(e)
        /\ guard'.pc \in {"restoring", "over"} /\ staged' = [staged EXCEPT ![e] = Gone]
    BY <1>15, <1>b DEF CheckRestored, RaiseFailed, GuardAt
  <2>2. displaced[e] = Gone /\ witness.owed[e] \subseteq strays[e] \cup witness.exposed[e]
    BY <2>1 DEF RecoveryInv, LeafInv
  <2> QED
    BY <2>1, <2>2, EntryDone DEF RecoverySteps
<1>16. ASSUME NEW e \in Leaves, RestoreFails(e) PROVE RecoveryInv'
  <2>1. /\ UNCHANGED <<live, staged, displaced, strays, roots, witness>>
        /\ guard.pc \in {"looked", "displaced", "activated"} /\ InHand(e)
        /\ guard'.pc = IF displaced[e] = Gone THEN "over" ELSE "undoing"
        /\ guard'.todo = guard.todo
    BY <1>16, <1>b DEF RestoreFails, RaiseFailed, sourceVars, bundleVars
  <2>2. CASE displaced[e] = Gone
    <3>1. witness.owed[e] \subseteq {Gone} \cup strays[e] \cup witness.exposed[e]
      BY <2>2 DEF RecoveryInv, LeafInv
    <3> QED
      BY <2>1, <2>2, <3>1, EntryDone DEF RecoverySteps
  <2>3. CASE displaced[e] # Gone
    <3>1. guard.pc \in {"displaced", "activated"}
      BY <2>1, <2>3 DEF RecoveryInv, LeafInv
    <3>2. LeafInv(e)'
      BY <2>1, <2>3, <3>1 DEF RecoveryInv, LeafInv, Unseen, InHand, GuardAt
    <3> QED
      BY <2>1, <2>3, <3>2, EntryMove DEF RecoverySteps
  <2> QED
    BY <2>2, <2>3
<1>17. ASSUME NEW e \in Leaves, ClearName(e) PROVE RecoveryInv'
  <2>1. /\ UNCHANGED <<staged, displaced, strays, roots>> /\ guard.pc = "undoing" /\ InHand(e)
        /\ guard'.pc = "putting" /\ guard'.todo = guard.todo
        /\ live' = [live EXCEPT ![e] = Gone]
        /\ witness'.owed = [witness.owed EXCEPT ![e] = @ \cup (Takes(e) \ {staged[e]})]
        /\ witness'.exposed = witness.exposed
    <3>1. Takes(e) \ {staged[e]} \in SUBSET (1 .. EditLimit)
      BY AccountFacts
    <3> QED
      BY <1>17, <1>b, <3>1, AccountFacts DEF ClearName, GuardAt, bundleVars
  <2>2. live[e] \in {Gone, staged[e]} \cup witness.exposed[e]
    BY <2>1 DEF RecoveryInv, LeafInv, Unseen
  <2>3. LeafInv(e)'
    BY <1>a, <2>1, <2>2 DEF RecoveryInv, LeafInv, Unseen, InHand, GuardAt, Takes
  <2>4. \A x \in Leaves : x # e => live'[x] = live[x] /\ witness'.owed[x] = witness.owed[x]
    BY <1>a, <2>1
  <2> QED
    BY <2>1, <2>3, <2>4, EntryMove DEF RecoverySteps
<1>18. ASSUME NEW e \in Leaves, PutBack(e) PROVE RecoveryInv'
  <2>1. /\ UNCHANGED strays /\ guard.pc = "putting" /\ InHand(e) /\ guard'.pc = "over"
        /\ displaced' = [displaced EXCEPT ![e] = Gone]
        /\ witness'.owed = [witness.owed EXCEPT ![e] = (@ \cup Takes(e)) \ {displaced[e]}]
        /\ witness'.exposed = witness.exposed
    <3>1. {displaced[e]} \in SUBSET Held /\ Takes(e) \in SUBSET (1 .. EditLimit)
      BY <1>a, AccountFacts
    <3>2. witness' = [witness EXCEPT !.owed[e] = (@ \cup Takes(e)) \ {displaced[e]}]
      BY <1>18 DEF PutBack
    <3>3. /\ witness'.owed = [witness.owed EXCEPT ![e] = (@ \cup Takes(e)) \ {displaced[e]}]
          /\ witness'.exposed = witness.exposed
      BY <3>1, <3>2, AccountFacts
    <3> QED
      BY <1>18, <1>b, <3>3 DEF PutBack, RaiseFailed, GuardAt
  <2>2. live[e] \in {Gone} \cup witness.exposed[e]
    BY <2>1 DEF RecoveryInv, LeafInv, Unseen
  <2>3. witness'.owed[e] \subseteq {Gone} \cup strays[e] \cup witness.exposed[e]
    BY <1>a, <2>1, <2>2 DEF RecoveryInv, LeafInv, Takes
  <2>4. \A x \in Leaves : x # e => /\ displaced'[x] = displaced[x]
                                   /\ witness'.owed[x] = witness.owed[x]
    BY <1>a, <2>1
  <2>5. displaced'[e] = Gone
    BY <1>a, <2>1
  <2> QED
    BY <2>1, <2>3, <2>4, <2>5, EntryDone DEF RecoverySteps
<1>19. ASSUME NEW e \in Leaves, RestoreAborts(e) PROVE RecoveryInv'
  <2>1. /\ UNCHANGED witness /\ guard.pc \in RecoverySteps /\ InHand(e) /\ guard'.pc = "over"
        /\ displaced' = [displaced EXCEPT ![e] = Gone]
        /\ strays' = [strays EXCEPT ![e] = @ \cup ({displaced[e]} \ {Gone})]
    BY <1>19, <1>b DEF RestoreAborts, RaiseFailed, RecoverySteps
  <2>2. witness.owed[e] \subseteq {Gone} \cup strays'[e] \cup witness.exposed[e]
    BY <1>a, <2>1 DEF RecoveryInv, LeafInv
  <2>3. \A x \in Leaves : x # e => displaced'[x] = displaced[x] /\ strays'[x] = strays[x]
    BY <1>a, <2>1
  <2>4. displaced'[e] = Gone
    BY <1>a, <2>1
  <2> QED
    BY <2>1, <2>2, <2>3, <2>4, EntryDone
<1>20. CASE Killed
  <2>1. /\ strays' = [e \in Leaves |-> strays[e] \cup ({displaced[e]} \ {Gone})]
        /\ displaced' = [e \in Leaves |-> Gone] /\ guard'.pc = "dead"
        /\ witness'.owed = witness.owed /\ witness'.exposed = witness.exposed
    BY <1>20, <1>b, <1>c DEF Killed
  <2>2. \A x \in Leaves :
           witness.owed[x] \subseteq {displaced[x]} \cup strays[x] \cup witness.exposed[x]
    BY DEF RecoveryInv, LeafInv
  <2>3. \A x \in Leaves : /\ displaced'[x] = Gone
                          /\ witness'.owed[x] \subseteq
                                {Gone} \cup strays'[x] \cup witness'.exposed[x]
    BY <2>1, <2>2
  <2> QED
    BY <2>1, <2>3 DEF RecoveryInv, LeafInv, Unseen, GuardAt, RecoverySteps
<1>21. CASE UNCHANGED guardVars
  BY <1>21 DEF guardVars, sourceVars, bundleVars, RecoveryInv, LeafInv, Unseen, GuardAt, InHand
<1> QED
  BY <1>2, <1>3, <1>4, <1>5, <1>6, <1>7, <1>8, <1>9, <1>10, <1>11, <1>12, <1>13, <1>14,
     <1>15, <1>16, <1>17, <1>18, <1>19, <1>20, <1>21, Zenon DEF GuardNext

(* The bundle is whole when it is needed, and the recovery loses nothing   *)
(* but what is written at a name it does not look at.                      *)
THEOREM GuardInvariant == GuardSpec => []GuardInv
<1>1. ASSUME GuardInit PROVE GuardInv
  <2>1. GuardTypes
    BY <1>1, MarkFacts, GuardAssumption
       DEF GuardInit, GuardTypes, GuardSteps, GuardRecords, Histories
  <2>2. PreImageInv
    BY <1>1 DEF GuardInit, PreImageInv
  <2>3. RecoveryInv
    BY <1>1 DEF GuardInit, RecoveryInv, LeafInv, Unseen, GuardAt, RecoverySteps
  <2> QED
    BY <2>1, <2>2, <2>3 DEF GuardInv
<1>2. GuardInv /\ [GuardNext]_guardVars => GuardInv'
  BY GuardTypesStep, PreImageStep, RecoveryStep DEF GuardInv
<1> QED
  BY <1>1, <1>2, PTL DEF GuardSpec

(* What a stage was found to have changed can be put back, however finish  *)
(* ended, was interrupted or was retried (ProtectedSourceGuard.finish).    *)
THEOREM PreImages == GuardSpec => []PreImageKept
<1>1. GuardInv => PreImageKept
  BY DEF GuardInv, GuardTypes, Histories, PreImageInv, PreImageKept, Saved
<1> QED
  BY <1>1, GuardInvariant, PTL

(* What the recovery takes away from a name is in its place, beside it or  *)
(* in a stray until its replacement has been compared with the bundle, but *)
(* for what is written there while the recovery does not look              *)
(* (_restore_backup_entry_atomic).                                         *)
THEOREM RecoveryKeeps == GuardSpec => []LiveContentKept
<1>1. GuardInv => LiveContentKept
  BY DEF GuardInv, RecoveryInv, LeafInv, LiveContentKept
<1> QED
  BY <1>1, GuardInvariant, PTL

(*--------------------------- Windows handles ----------------------------*)

(*--------------------------- Windows handles ----------------------------*)
(* The types are kept in every history, those of `torn' included.          *)
LEMMA HandleDomains ==
  ASSUME HandleTypes
  PROVE  /\ opened \in Nat /\ 0 \in 0 .. opened
         /\ Unregistered \in Registrations /\ Unregistered.g = 0 /\ Unregistered.anc = {}
         /\ NoOpen \in [pc : OpenSteps, anc : SUBSET References, hand : Numbers \cup {NoNumber},
                        made : SUBSET Descriptors]
         /\ \A h \in Numbers : /\ allocated[h] \in 0 .. opened /\ handles[h] \in Registrations
                               /\ handles[h].anc \in SUBSET References
                               /\ [h |-> h, g |-> allocated[h]] \in References
         /\ \A d \in Descriptors : /\ descriptors[d] \in Registrations
                                   /\ descriptors[d].anc \in SUBSET References
         /\ \A r \in References : r.h \in Numbers /\ r.g \in 0 .. opened /\ r = [h |-> r.h, g |-> r.g]
         /\ \A x \in Registrations : x.g \in 0 .. opened /\ x.anc \in SUBSET References
                                     /\ x = [g |-> x.g, anc |-> x.anc]
<1>1. opened \in Nat /\ 0 \in 0 .. opened
  BY DEF HandleTypes
<1>2. Unregistered \in Registrations /\ Unregistered.g = 0 /\ Unregistered.anc = {}
  BY <1>1 DEF Unregistered, Registrations
<1>3. NoOpen \in [pc : OpenSteps, anc : SUBSET References, hand : Numbers \cup {NoNumber},
                  made : SUBSET Descriptors]
  BY DEF NoOpen, OpenSteps, NoNumber
<1>4. /\ \A r \in References : r.h \in Numbers /\ r.g \in 0 .. opened /\ r = [h |-> r.h, g |-> r.g]
      /\ \A x \in Registrations : x.g \in 0 .. opened /\ x.anc \in SUBSET References
                                  /\ x = [g |-> x.g, anc |-> x.anc]
  BY DEF References, Registrations
<1>5. \A h \in Numbers : /\ allocated[h] \in 0 .. opened /\ handles[h] \in Registrations
                         /\ [h |-> h, g |-> allocated[h]] \in References
  BY DEF HandleTypes, References
<1>6. \A d \in Descriptors : descriptors[d] \in Registrations
  BY DEF HandleTypes
<1> QED
  BY <1>1, <1>2, <1>3, <1>4, <1>5, <1>6

(* The types that a step of the registry has to keep.                      *)
RegistryTypes ==
  /\ retired' \in SUBSET References /\ ambiguous' \in SUBSET References
  /\ residual' \subseteq ambiguous' /\ handles' \in [Numbers -> Registrations]
  /\ allocated' \in [Numbers -> 0 .. opened] /\ wronged' \in BOOLEAN

LEMMA AttemptTypes ==
  ASSUME HandleTypes, NEW refs, NEW out, CloseAttempts(refs, out)
  PROVE  allocated' \in [Numbers -> 0 .. opened] /\ wronged' \in BOOLEAN
<1>1. allocated \in [Numbers -> 0 .. opened] /\ wronged \in BOOLEAN /\ 0 \in 0 .. opened
  BY HandleDomains DEF HandleTypes
<1> QED
  BY <1>1 DEF CloseAttempts

LEMMA RetireTypes ==
  ASSUME HandleTypes, NEW hs \in [Numbers -> Registrations], NEW rt \in SUBSET References,
         NEW refs \in SUBSET References, NEW extra, NEW out, Retire(hs, rt, refs, extra, out)
  PROVE  RegistryTypes
<1> DEFINE own == {r \in refs : hs[r.h].g \in {0, r.g}}
           tried == own \ ambiguous
           shut == {r \in tried : out[r.h] = "closed"}
           due == {r \in tried : out[r.h] \in {"retryable", "cut"}}
<1>1. /\ retired' = (rt \ refs) \cup due
      /\ ambiguous' = ambiguous \cup (tried \ (shut \cup due))
      /\ residual' = residual \cup (own \ (shut \cup due))
      /\ handles' = [h \in Numbers |-> IF \E r \in shut : r.h = h /\ hs[h].g = r.g
                                       THEN Unregistered ELSE hs[h]]
      /\ CloseAttempts(tried \cup extra, out)
  BY DEF Retire
<1>2. own \subseteq References /\ tried \subseteq own /\ due \subseteq own /\ own \ tried \subseteq ambiguous
  OBVIOUS
<1> HIDE DEF own, tried, shut, due
<1>3. retired' \in SUBSET References /\ ambiguous' \in SUBSET References /\ residual' \subseteq ambiguous'
  BY <1>1, <1>2 DEF HandleTypes
<1>4. handles' \in [Numbers -> Registrations]
  BY <1>1, HandleDomains
<1> QED
  BY <1>1, <1>3, <1>4, AttemptTypes DEF RegistryTypes

LEMMA CurrentTypes ==
  ASSUME HandleTypes, NEW of, NEW n, NEW registered \in Registrations, NEW otherwise \in 0 .. opened
  PROVE  Current(of, n, registered, otherwise) \in Registrations
<1> DEFINE m == CHOOSE m \in Newest(of, n) : TRUE
<1>1. CASE Newest(of, n) # {}
  <2>1. m \in Newest(of, n)
    BY <1>1
  <2>2. m \in pending
    BY <2>1 DEF Newest
  <2> HIDE DEF m
  <2>3. m.gen \in Registrations
    BY <2>2 DEF HandleTypes
  <2> QED
    BY <1>1, <2>3 DEF Current, m
<1>2. CASE Newest(of, n) = {}
  <2>1. [g |-> otherwise, anc |-> {}] \in Registrations
    BY DEF Registrations
  <2> QED
    BY <1>2, <2>1 DEF Current
<1> QED
  BY <1>1, <1>2

LEMMA CurrentHandleTypes ==
  ASSUME HandleTypes, NEW r \in References
  PROVE  CurrentHandle(r) \in Registrations
<1> DEFINE s0 == CHOOSE s \in residual : s.h = r.h
           other == IF \E s \in residual : s.h = r.h THEN s0.g ELSE r.g
<1>1. other \in 0 .. opened
  <2>1. CASE \E s \in residual : s.h = r.h
    <3>1. s0 \in residual
      BY <2>1
    <3> HIDE DEF s0
    <3>2. s0 \in References
      BY <3>1 DEF HandleTypes
    <3> QED
      BY <2>1, <3>2, HandleDomains
  <2>2. CASE ~\E s \in residual : s.h = r.h
    BY <2>2, HandleDomains
  <2> QED
    BY <2>1, <2>2
<1>2. handles[r.h] \in Registrations
  BY HandleDomains
<1>3. CurrentHandle(r) = Current("handle", r.h, handles[r.h], other)
  BY DEF CurrentHandle
<1> HIDE DEF other
<1> QED
  BY <1>1, <1>2, <1>3, CurrentTypes

LEMMA CloseRawTypes ==
  ASSUME HandleTypes, NEW r \in References, NEW doubt \in BOOLEAN, CloseRaw(r, doubt)
  PROVE  RegistryTypes /\ torn' \in BOOLEAN
<1> DEFINE cur == CurrentHandle(r)
           mistaken == \/ cur.g # r.g \/ handles[r.h] \notin {cur, Unregistered}
                       \/ (handles[r.h] = Unregistered /\ cur.anc # {})
           named == [handles EXCEPT ![r.h] = cur]
           gone == [handles EXCEPT ![r.h] = Unregistered]
<1>1. cur \in Registrations
  BY CurrentHandleTypes
<1>2. /\ cur.anc \in SUBSET References /\ [h |-> r.h, g |-> cur.g] \in References
      /\ r.h \in Numbers /\ handles \in [Numbers -> Registrations]
      /\ gone \in [Numbers -> Registrations] /\ named \in [Numbers -> Registrations]
  <2>1. /\ cur.anc \in SUBSET References /\ cur.g \in 0 .. opened /\ r.h \in Numbers
        /\ Unregistered \in Registrations
    BY <1>1, HandleDomains
  <2>2. handles \in [Numbers -> Registrations]
    BY DEF HandleTypes
  <2> HIDE DEF cur
  <2>3. [h |-> r.h, g |-> cur.g] \in References
    BY <2>1 DEF References
  <2> QED
    BY <1>1, <2>1, <2>2, <2>3
<1>3. \/ /\ handles' \in {handles, named} /\ torn' = (torn \/ doubt \/ mistaken)
         /\ UNCHANGED <<allocated, retired, ambiguous, residual, wronged>>
      \/ \E out \in OutcomesOf({r} \cup cur.anc) :
            /\ torn' = (torn \/ doubt \/ mistaken \/ Cut(out))
            /\ \/ Retire(gone, retired \cup cur.anc, cur.anc, {r}, out)
               \/ /\ CloseAttempts({r}, out) /\ handles' = named
                  /\ ambiguous' \in {ambiguous, ambiguous \cup {[h |-> r.h, g |-> cur.g]}}
                  /\ retired' \in {retired, retired \cup cur.anc} /\ UNCHANGED residual
  BY DEF CloseRaw
<1> HIDE DEF cur, named, gone, mistaken
<1>4. /\ retired \in SUBSET References /\ ambiguous \in SUBSET References /\ residual \subseteq ambiguous
      /\ allocated \in [Numbers -> 0 .. opened] /\ wronged \in BOOLEAN /\ torn \in BOOLEAN
  BY DEF HandleTypes
<1>5. mistaken \in BOOLEAN
  BY DEF mistaken
<1>6. torn' \in BOOLEAN
  BY <1>3, <1>4, <1>5 DEF Cut
<1>7. CASE handles' \in {handles, named} /\ UNCHANGED <<allocated, retired, ambiguous, residual, wronged>>
  BY <1>2, <1>4, <1>6, <1>7 DEF RegistryTypes
<1>8. ASSUME NEW out, Retire(gone, retired \cup cur.anc, cur.anc, {r}, out)
      PROVE  RegistryTypes
  <2> DEFINE rt == retired \cup cur.anc
  <2>1. rt \in SUBSET References /\ Retire(gone, rt, cur.anc, {r}, out)
    BY <1>2, <1>4, <1>8
  <2> HIDE DEF rt
  <2> QED
    BY <1>2, <2>1, RetireTypes
<1>9. ASSUME NEW out, CloseAttempts({r}, out), handles' = named,
             ambiguous' \in {ambiguous, ambiguous \cup {[h |-> r.h, g |-> cur.g]}},
             retired' \in {retired, retired \cup cur.anc}, UNCHANGED residual
      PROVE  RegistryTypes
  <2>1. allocated' \in [Numbers -> 0 .. opened] /\ wronged' \in BOOLEAN
    BY <1>9, AttemptTypes
  <2> QED
    BY <1>2, <1>4, <1>9, <2>1 DEF RegistryTypes
<1> QED
  BY <1>3, <1>6, <1>7, <1>8, <1>9

OpeningTypes == [pc : OpenSteps, anc : SUBSET References, hand : Numbers \cup {NoNumber},
                 made : SUBSET Descriptors]
HeldTypes == [numbers : SUBSET References, descriptors : SUBSET [d : Descriptors, g : 0 .. opened]]
LostTypes == [handles : SUBSET (0 .. opened), descriptors : SUBSET Descriptors]
PendingTypes(ms) ==
  \A m \in ms : m.gen \in Registrations /\ m.due \subseteq References /\ m.superseded \subseteq References

(* What a step has to keep when nothing is opened.                         *)
LEMMA TypesFrom ==
  ASSUME HandleTypes, opened' = opened, foreign' = foreign, RegistryTypes,
         crt' \in [Descriptors -> Numbers \cup {NoNumber}],
         descriptors' \in [Descriptors -> Registrations], PendingTypes(pending'),
         opening' \in OpeningTypes, opening'.pc # "none" => opening'.hand \in Numbers,
         held' \in HeldTypes, lost' \in LostTypes, torn' \in BOOLEAN
  PROVE  HandleTypes'
<1>1. References' = References /\ Registrations' = Registrations
  BY DEF References, Registrations
<1> QED
  BY <1>1 DEF HandleTypes, RegistryTypes, PendingTypes, OpeningTypes, HeldTypes, LostTypes, OpenAt

LEMMA TypesNow ==
  ASSUME HandleTypes
  PROVE  /\ crt \in [Descriptors -> Numbers \cup {NoNumber}]
         /\ handles \in [Numbers -> Registrations]
         /\ descriptors \in [Descriptors -> Registrations] /\ PendingTypes(pending)
         /\ opening \in OpeningTypes /\ (opening.pc # "none" => opening.hand \in Numbers)
         /\ held \in HeldTypes /\ lost \in LostTypes /\ torn \in BOOLEAN /\ wronged \in BOOLEAN
         /\ NoOpen \in OpeningTypes /\ NoOpen.pc = "none"
         /\ PendingTypes({})
         /\ retired \in SUBSET References /\ ambiguous \in SUBSET References /\ residual \subseteq ambiguous
         /\ allocated \in [Numbers -> 0 .. opened]
<1>1. NoOpen \in OpeningTypes /\ NoOpen.pc = "none"
  BY DEF NoOpen, OpeningTypes, OpenSteps, NoNumber
<1> QED
  BY <1>1 DEF HandleTypes, PendingTypes, OpeningTypes, HeldTypes, LostTypes, OpenAt

(* The tokens of a claim, and what its transition leaves.                  *)
LEMMA MoveTypes ==
  ASSUME HandleTypes, NEW gen \in Registrations
  PROVE  /\ \A h \in Numbers : PendingTypes({HandleMove(h, gen)})
         /\ \A d \in Descriptors : PendingTypes({DescriptorMove(d, gen)})
         /\ \A ms : PendingTypes(ms) => /\ PendingTypes(pending \cup ms)
                                        /\ Completed(retired, ms) \in SUBSET References
                                        /\ Completed(retired, pending \cup ms) \in SUBSET References
<1>1. \A h \in Numbers : PendingTypes({HandleMove(h, gen)})
  BY HandleDomains, TypesNow DEF PendingTypes, HandleMove
<1>2. \A d \in Descriptors : PendingTypes({DescriptorMove(d, gen)})
  BY HandleDomains, TypesNow DEF PendingTypes, DescriptorMove
<1>3. \A ms : PendingTypes(ms) => Completed(retired, ms) \in SUBSET References
  BY TypesNow DEF PendingTypes, Completed
<1>4. \A ms : PendingTypes(ms) => PendingTypes(pending \cup ms)
  BY TypesNow DEF PendingTypes
<1> QED
  BY <1>1, <1>2, <1>3, <1>4

LEMMA TransitionTypes ==
  ASSUME HandleTypes, NEW move, PendingTypes({move}), Transition(move),
         handles' \in [Numbers -> Registrations]
  PROVE  RegistryTypes /\ PendingTypes(pending') /\ torn' \in BOOLEAN
<1>1. PendingTypes(pending \cup {move}) /\ Completed(retired, {move}) \in SUBSET References
  BY MoveTypes, HandleDomains
<1>2. /\ retired' \in {retired, Completed(retired, {move})}
      /\ pending' \in {pending, pending \cup {move}}
      /\ UNCHANGED <<allocated, ambiguous, residual, wronged, torn>>
  BY DEF Transition
<1> QED
  BY <1>1, <1>2, TypesNow DEF RegistryTypes

(* The two claims of an open.                                              *)
LEMMA ClaimTypes ==
  ASSUME HandleTypes, RetainAncestor \/ ClaimLeaf
  PROVE  HandleTypes'
<1> DEFINE h == opening.hand
           anc == IF OpenAt("leaf") THEN opening.anc ELSE {}
           gen == [g |-> allocated[h], anc |-> anc]
           drop == [opening EXCEPT !.pc = "dropped"]
           kept == IF OpenAt("leaf") THEN [opening EXCEPT !.pc = "claimed"]
                   ELSE [opening EXCEPT !.pc = "retained", !.anc = {[h |-> h, g |-> allocated[h]]}]
           ensured == IF OpenAt("leaf") THEN gen ELSE Unregistered
<1>1. h \in Numbers /\ gen \in Registrations /\ ensured \in Registrations
  <2>1. h \in Numbers
    BY TypesNow DEF RetainAncestor, ClaimLeaf, OpenAt
  <2>2. anc \in SUBSET References
    BY TypesNow DEF OpeningTypes
  <2>3. allocated[h] \in 0 .. opened
    BY <2>1, HandleDomains
  <2> HIDE DEF anc, h
  <2>4. gen \in Registrations
    BY <2>2, <2>3 DEF Registrations
  <2> QED
    BY <2>1, <2>4, HandleDomains
<1>2. kept \in OpeningTypes /\ drop \in OpeningTypes /\ kept.hand = h /\ drop.hand = h
  <2>1. [h |-> h, g |-> allocated[h]] \in References
    BY <1>1, HandleDomains
  <2>2. opening \in OpeningTypes
    BY TypesNow
  <2> QED
    BY <2>1, <2>2 DEF OpeningTypes, OpenSteps
<1>3. /\ ClaimHandle(h, anc, kept, drop) \/ ClaimInterrupted(h, anc, drop) \/ ClaimUnmade(h, ensured, drop)
      /\ UNCHANGED <<foreign, crt, descriptors, held, opened, lost>>
  BY DEF RetainAncestor, ClaimLeaf, OpenAt
<1>4. /\ gen = [g |-> allocated[h], anc |-> anc]
      /\ [handles EXCEPT ![h] = gen] \in [Numbers -> Registrations]
      /\ [handles EXCEPT ![h] = ensured] \in [Numbers -> Registrations]
  BY <1>1, TypesNow
<1> HIDE DEF h, anc, gen, drop, kept, ensured
<1>5. PendingTypes({HandleMove(h, gen)})
  BY <1>1, MoveTypes
<1>6. opening' \in OpeningTypes /\ opening'.hand \in Numbers
  BY <1>1, <1>2, <1>3 DEF ClaimHandle, ClaimInterrupted, ClaimUnmade
<1>7. RegistryTypes /\ PendingTypes(pending') /\ torn' \in BOOLEAN
  <2>1. CASE ClaimHandle(h, anc, kept, drop)
    <3> DEFINE hs == [handles EXCEPT ![h] = gen]
               rt == Completed(retired, pending \cup {HandleMove(h, gen)})
    <3>1. rt \in SUBSET References /\ hs \in [Numbers -> Registrations]
      BY <1>1, <1>4, <1>5, MoveTypes
    <3>2. PICK out : Retire(hs, rt, rt, {}, out) /\ torn' = (torn \/ Cut(out)) /\ pending' = {}
      BY <1>4, <2>1 DEF ClaimHandle
    <3> HIDE DEF hs, rt
    <3>3. RegistryTypes
      BY <3>1, <3>2, RetireTypes
    <3> QED
      BY <3>2, <3>3, TypesNow DEF Cut
  <2>2. CASE ClaimInterrupted(h, anc, drop)
    <3>1. Transition(HandleMove(h, gen)) /\ handles' = [handles EXCEPT ![h] = gen]
      BY <1>4, <2>2 DEF ClaimInterrupted
    <3> QED
      BY <1>4, <1>5, <3>1, TransitionTypes
  <2>3. CASE ClaimUnmade(h, ensured, drop)
    <3>1. /\ handles' \in {handles, [handles EXCEPT ![h] = ensured]}
          /\ torn' = (torn \/ handles[h] # Unregistered)
          /\ UNCHANGED <<allocated, retired, ambiguous, residual, pending, wronged>>
      BY <2>3 DEF ClaimUnmade
    <3> QED
      BY <1>4, <3>1, TypesNow DEF RegistryTypes
  <2> QED
    BY <1>3, <2>1, <2>2, <2>3
<1> QED
  BY <1>3, <1>6, <1>7, TypesNow, TypesFrom

(* A number is closed: of the open, or held by a caller.                   *)
LEMMA CloseTypes ==
  ASSUME HandleTypes, GiveUp \/ \E r \in held.numbers : CloseHeld(r) \/ Unconverted(r)
  PROVE  HandleTypes'
<1>1. CASE GiveUp
  <2> DEFINE r == [h |-> opening.hand, g |-> allocated[opening.hand]]
  <2>1. r \in References
    BY <1>1, TypesNow, HandleDomains DEF GiveUp, OpenAt
  <2>2. /\ CloseRaw(r, FALSE) /\ opening' = NoOpen
        /\ UNCHANGED <<foreign, crt, descriptors, pending, held, opened, lost>>
    BY <1>1 DEF GiveUp
  <2> HIDE DEF r
  <2>3. RegistryTypes /\ torn' \in BOOLEAN
    BY <2>1, <2>2, CloseRawTypes
  <2> QED
    BY <2>2, <2>3, TypesNow, TypesFrom
<1>2. ASSUME NEW r \in held.numbers, CloseHeld(r) \/ Unconverted(r)
      PROVE  HandleTypes'
  <2>1. r \in References
    BY TypesNow DEF HeldTypes
  <2>2. /\ CloseRaw(r, FALSE) /\ UNCHANGED <<foreign, descriptors, pending, opening, opened>>
        /\ held' \in {held, [held EXCEPT !.numbers = @ \ {r}]}
        /\ \/ UNCHANGED <<crt, lost>>
           \/ \E d \in Descriptors : /\ crt' = [crt EXCEPT ![d] = r.h]
                                     /\ lost' = [lost EXCEPT !.descriptors = @ \cup {d}]
    BY <1>2 DEF CloseHeld, Unconverted
  <2>3. RegistryTypes /\ torn' \in BOOLEAN
    BY <2>1, <2>2, CloseRawTypes
  <2>4. held' \in HeldTypes
    BY <2>2, TypesNow DEF HeldTypes
  <2>5. crt' \in [Descriptors -> Numbers \cup {NoNumber}] /\ lost' \in LostTypes
    <3>1. r.h \in Numbers
      BY <2>1, HandleDomains
    <3> QED
      BY <2>2, <3>1, TypesNow DEF LostTypes
  <2> QED
    BY <2>2, <2>3, <2>4, <2>5, TypesNow, TypesFrom
<1> QED
  BY <1>1, <1>2

(* The steps of descriptors.                                               *)
LEMMA ConversionTypes ==
  ASSUME HandleTypes, NEW d \in Descriptors,
         ClaimDescriptor(d) \/ ReleaseHandle(d) \/ \E r \in held.numbers : Convert(r, d)
  PROVE  HandleTypes'
<1>1. ASSUME NEW r \in held.numbers, Convert(r, d)
      PROVE  HandleTypes'
  <2>1. r \in References /\ r.h \in Numbers /\ handles[r.h].anc \in SUBSET References
    BY TypesNow, HandleDomains DEF HeldTypes
  <2>2. opening' \in OpeningTypes /\ opening'.hand \in Numbers
    BY <1>1, <2>1 DEF Convert, OpeningTypes, OpenSteps
  <2>3. held' \in HeldTypes
    BY <1>1, TypesNow DEF Convert, HeldTypes
  <2>4. /\ crt' \in [Descriptors -> Numbers \cup {NoNumber}]
        /\ UNCHANGED <<allocated, foreign, registry, opened, wronged, torn, lost>>
    BY <1>1, <2>1, TypesNow DEF Convert
  <2>5. RegistryTypes
    BY <2>4, TypesNow DEF RegistryTypes, registry
  <2> QED
    BY <2>2, <2>3, <2>4, <2>5, TypesNow, TypesFrom DEF registry
<1>2. CASE ClaimDescriptor(d)
  <2> DEFINE gen == [g |-> allocated[opening.hand], anc |-> opening.anc]
             move == DescriptorMove(d, gen)
             rt == Completed(retired, pending \cup {move})
             made == [descriptors EXCEPT ![d] = gen]
  <2>1. opening.hand \in Numbers
    BY <1>2, TypesNow DEF ClaimDescriptor, OpenAt
  <2>2. gen \in Registrations
    BY <2>1, HandleDomains, TypesNow DEF Registrations, OpeningTypes
  <2>3. PendingTypes({move}) /\ rt \in SUBSET References /\ made \in [Descriptors -> Registrations]
    BY <2>2, MoveTypes, TypesNow
  <2>4. /\ \/ \E out : /\ Retire(handles, rt, rt, {}, out) /\ torn' = (torn \/ Cut(out))
                       /\ pending' = {} /\ descriptors' = made
           \/ Transition(move) /\ descriptors' = made /\ UNCHANGED handles
           \/ /\ descriptors' \in {descriptors, made} /\ torn' = (torn \/ descriptors[d] # Unregistered)
              /\ UNCHANGED <<allocated, handles, retired, ambiguous, residual, pending, wronged>>
        /\ opening' = [opening EXCEPT !.pc = "moved"]
        /\ UNCHANGED <<foreign, crt, held, opened, lost>>
    BY <1>2 DEF ClaimDescriptor
  <2> HIDE DEF gen, move, rt, made
  <2>5. RegistryTypes /\ PendingTypes(pending') /\ torn' \in BOOLEAN
        /\ descriptors' \in [Descriptors -> Registrations]
    <3>1. ASSUME NEW out, Retire(handles, rt, rt, {}, out), torn' = (torn \/ Cut(out)),
                 pending' = {}, descriptors' = made
          PROVE  RegistryTypes /\ PendingTypes(pending') /\ torn' \in BOOLEAN
      <4>1. RegistryTypes
        BY <2>3, <3>1, TypesNow, RetireTypes
      <4> QED
        BY <3>1, <4>1, TypesNow DEF Cut
    <3>2. ASSUME Transition(move), UNCHANGED handles
          PROVE  RegistryTypes /\ PendingTypes(pending') /\ torn' \in BOOLEAN
      BY <2>3, <3>2, TypesNow, TransitionTypes
    <3>3. ASSUME torn' = (torn \/ descriptors[d] # Unregistered),
                 UNCHANGED <<allocated, handles, retired, ambiguous, residual, pending, wronged>>
          PROVE  RegistryTypes /\ PendingTypes(pending') /\ torn' \in BOOLEAN
      <4>1. torn' \in BOOLEAN /\ PendingTypes(pending')
        BY <3>3, TypesNow
      <4>2. RegistryTypes
        BY <3>3, TypesNow DEF RegistryTypes
      <4> QED
        BY <4>1, <4>2
    <3>4. RegistryTypes /\ PendingTypes(pending') /\ torn' \in BOOLEAN
      BY <2>4, <3>1, <3>2, <3>3
    <3>5. descriptors' \in {descriptors, made}
      BY <2>4
    <3>6. descriptors' \in [Descriptors -> Registrations]
      BY <2>3, <3>5, TypesNow
    <3> QED
      BY <3>4, <3>6
  <2>6. opening' \in OpeningTypes /\ opening'.hand \in Numbers
    BY <2>1, <2>4, TypesNow DEF OpeningTypes, OpenSteps
  <2> QED
    BY <2>4, <2>5, <2>6, TypesNow, TypesFrom
<1>3. CASE ReleaseHandle(d)
  <2> DEFINE r == [h |-> opening.hand, g |-> allocated[opening.hand]]
             freed == [handles EXCEPT ![opening.hand] = Unregistered]
             given == [held EXCEPT !.descriptors = @ \cup {[d |-> d, g |-> allocated[opening.hand]]}]
  <2>1. opening.hand \in Numbers /\ allocated[opening.hand] \in 0 .. opened /\ r \in References
    BY <1>3, TypesNow, HandleDomains DEF ReleaseHandle, OpenAt
  <2>2. freed \in [Numbers -> Registrations] /\ given \in HeldTypes
    <3>1. freed \in [Numbers -> Registrations]
      BY <2>1, HandleDomains, TypesNow
    <3> DEFINE set == held.descriptors \cup {[d |-> d, g |-> allocated[opening.hand]]}
    <3>2. held \in HeldTypes
      BY TypesNow
    <3>3. set \in SUBSET [d : Descriptors, g : 0 .. opened]
      BY <2>1, <3>2 DEF HeldTypes
    <3> HIDE DEF set
    <3>4. [held EXCEPT !.descriptors = set] \in HeldTypes
      BY <3>2, <3>3 DEF HeldTypes
    <3> QED
      BY <3>1, <3>4 DEF set
  <2>3. /\ \/ /\ handles' = freed /\ held' = given
              /\ UNCHANGED <<allocated, retired, ambiguous, residual, wronged, torn, lost>>
           \/ /\ CloseRaw(r, TRUE) /\ UNCHANGED held
              /\ lost' = [lost EXCEPT !.descriptors = @ \cup {d}]
        /\ opening' = NoOpen /\ UNCHANGED <<foreign, crt, descriptors, pending, opened>>
    BY <1>3 DEF ReleaseHandle
  <2> HIDE DEF r, freed, given
  <2>4. RegistryTypes /\ torn' \in BOOLEAN
    <3>1. CASE handles' = freed /\ UNCHANGED <<allocated, retired, ambiguous, residual, wronged, torn>>
      BY <2>2, <3>1, TypesNow DEF RegistryTypes
    <3> QED
      BY <2>1, <2>3, <3>1, CloseRawTypes
  <2>5. held' \in HeldTypes
    BY <2>2, <2>3, TypesNow
  <2>6. lost' \in LostTypes
    <3>1. lost' \in {lost, [lost EXCEPT !.descriptors = @ \cup {d}]}
      BY <2>3
    <3> QED
      BY <3>1, TypesNow DEF LostTypes
  <2> QED
    BY <2>3, <2>4, <2>5, <2>6, TypesNow, TypesFrom
<1> QED
  BY <1>1, <1>2, <1>3

LEMMA CloseDescriptorTypes ==
  ASSUME HandleTypes, NEW f \in held.descriptors, CloseDescriptor(f)
  PROVE  HandleTypes'
<1> DEFINE d == f.d
           leaf == [h |-> crt[d], g |-> f.g]
           cur == CurrentDescriptor(f)
           rt == retired \cup cur.anc
           freed == [crt EXCEPT ![d] = NoNumber]
<1>1. d \in Descriptors /\ f.g \in 0 .. opened
  BY TypesNow DEF HeldTypes
<1>2. cur \in Registrations /\ cur.anc \in SUBSET References
  <2>1. cur \in Registrations
    BY <1>1, TypesNow, CurrentTypes DEF CurrentDescriptor
  <2> QED
    BY <2>1, HandleDomains
<1> HIDE DEF cur
<1>3. /\ freed \in [Descriptors -> Numbers \cup {NoNumber}] /\ rt \in SUBSET References
      /\ \A x \in Registrations : [descriptors EXCEPT ![d] = x] \in [Descriptors -> Registrations]
  BY <1>1, <1>2, TypesNow
<1>4. /\ \/ \E out, outs, m : /\ Retire(handles, rt, cur.anc, {leaf}, outs)
                              /\ torn' = (torn \/ cur # descriptors[d] \/ cur.g # f.g \/ Cut(out))
                              /\ crt' = freed /\ descriptors' = [descriptors EXCEPT ![d] = Unregistered]
         \/ /\ \/ crt' = freed /\ CloseAttempts({leaf}, [h \in Numbers |-> "closed"])
               \/ UNCHANGED <<crt, allocated, wronged>>
            /\ torn' = (torn \/ cur # descriptors[d] \/ cur.g # f.g)
            /\ descriptors' = [descriptors EXCEPT ![d] = cur]
            /\ UNCHANGED <<handles, retired, ambiguous, residual>>
      /\ held' = [held EXCEPT !.descriptors = @ \ {f}]
      /\ UNCHANGED <<foreign, pending, opening, opened, lost>>
  BY DEF CloseDescriptor, cur
<1> HIDE DEF d, leaf, rt, freed
<1>5. RegistryTypes
  <2>1. ASSUME NEW outs, Retire(handles, rt, cur.anc, {leaf}, outs)
        PROVE  RegistryTypes
    BY <1>2, <1>3, <2>1, TypesNow, RetireTypes
  <2>2. CASE CloseAttempts({leaf}, [h \in Numbers |-> "closed"]) /\ UNCHANGED <<handles, retired, ambiguous, residual>>
    <3>1. allocated' \in [Numbers -> 0 .. opened] /\ wronged' \in BOOLEAN
      BY <2>2, AttemptTypes
    <3> QED
      BY <2>2, <3>1, TypesNow DEF RegistryTypes
  <2>3. CASE UNCHANGED <<handles, retired, ambiguous, residual, allocated, wronged>>
    BY <2>3, TypesNow DEF RegistryTypes
  <2> QED
    BY <1>4, <2>1, <2>2, <2>3
<1>6. torn' \in BOOLEAN
  BY <1>4, TypesNow DEF Cut
<1>7. descriptors' \in [Descriptors -> Registrations] /\ crt' \in [Descriptors -> Numbers \cup {NoNumber}]
  BY <1>2, <1>3, <1>4, HandleDomains, TypesNow
<1>8. held' \in HeldTypes
  BY <1>4, TypesNow DEF HeldTypes
<1> QED
  BY <1>4, <1>5, <1>6, <1>7, <1>8, TypesNow, TypesFrom

LEMMA ReconcileTypes ==
  ASSUME HandleTypes, Reconcile
  PROVE  HandleTypes'
<1> DEFINE rt == Completed(retired, pending)
<1>1. rt \in SUBSET References
  <2>1. pending \cup {} = pending
    OBVIOUS
  <2> QED
    BY <2>1, MoveTypes, TypesNow, HandleDomains
<1>2. PICK out : Retire(handles, rt, rt, {}, out) /\ torn' = (torn \/ Cut(out))
  BY DEF Reconcile
<1>3. pending' = {} /\ UNCHANGED <<foreign, crt, descriptors, opening, held, opened, lost>>
  BY DEF Reconcile
<1> HIDE DEF rt
<1>4. RegistryTypes
  BY <1>1, <1>2, TypesNow, RetireTypes
<1>5. torn' \in BOOLEAN
  BY <1>2, TypesNow DEF Cut
<1> QED
  BY <1>3, <1>4, <1>5, TypesNow, TypesFrom

(* The steps that leave the registry alone; an open of the system gives a  *)
(* new allocation, which widens the types.                                 *)
LEMMA WiderTypes ==
  ASSUME HandleTypes, opened' \in {opened, opened + 1}
  PROVE  /\ opened' \in Nat /\ 0 .. opened \subseteq 0 .. opened' /\ 1 .. opened \subseteq 1 .. opened'
         /\ References \subseteq References' /\ Registrations \subseteq Registrations'
<1>1. opened' \in Nat /\ opened <= opened' /\ opened \in Nat
  BY DEF HandleTypes
<1>2. 0 .. opened \subseteq 0 .. opened' /\ 1 .. opened \subseteq 1 .. opened'
  BY <1>1
<1>3. References \subseteq References'
  BY <1>2 DEF References
<1>4. Registrations \subseteq Registrations'
  BY <1>2, <1>3 DEF Registrations
<1> QED
  BY <1>1, <1>2, <1>3, <1>4

LEMMA QuietTypes ==
  ASSUME HandleTypes, opened' \in {opened, opened + 1},
         UNCHANGED <<crt, registry, wronged, torn>>,
         allocated' \in [Numbers -> 0 .. opened'], foreign' \subseteq 1 .. opened',
         OpeningTypes \subseteq OpeningTypes' => opening' \in OpeningTypes',
         opening'.pc # "none" => opening'.hand \in Numbers,
         HeldTypes \subseteq HeldTypes' => held' \in HeldTypes',
         LostTypes \subseteq LostTypes' => lost' \in LostTypes'
  PROVE  HandleTypes'
<1>1. /\ opened' \in Nat /\ 0 .. opened \subseteq 0 .. opened'
      /\ References \subseteq References' /\ Registrations \subseteq Registrations'
  BY WiderTypes
<1>2. /\ SUBSET References \subseteq SUBSET References' /\ SUBSET (0 .. opened) \subseteq SUBSET (0 .. opened')
      /\ [d : Descriptors, g : 0 .. opened] \subseteq [d : Descriptors, g : 0 .. opened']
  BY <1>1
<1>3. OpeningTypes \subseteq OpeningTypes' /\ LostTypes \subseteq LostTypes'
  BY <1>2 DEF OpeningTypes, LostTypes
<1>4. HeldTypes \subseteq HeldTypes'
  BY <1>2 DEF HeldTypes
<1>5. opening' \in OpeningTypes' /\ held' \in HeldTypes' /\ lost' \in LostTypes'
  BY <1>3, <1>4
<1>6. handles' \in [Numbers -> Registrations'] /\ descriptors' \in [Descriptors -> Registrations']
  <2>1. handles \in [Numbers -> Registrations] /\ descriptors \in [Descriptors -> Registrations]
    BY TypesNow
  <2> QED
    BY <1>1, <2>1 DEF registry
<1>7. \A m \in pending' : /\ m.gen \in Registrations' /\ m.due \subseteq References'
                          /\ m.superseded \subseteq References'
  BY <1>1 DEF HandleTypes, registry
<1>8. /\ retired' \subseteq References' /\ ambiguous' \subseteq References' /\ residual' \subseteq ambiguous'
      /\ crt' \in [Descriptors -> Numbers \cup {NoNumber}] /\ wronged' \in BOOLEAN /\ torn' \in BOOLEAN
  BY <1>1 DEF HandleTypes, registry
<1> QED
  BY <1>1, <1>5, <1>6, <1>7, <1>8 DEF HandleTypes, OpeningTypes, HeldTypes, LostTypes, OpenAt

LEMMA CreatedTypes ==
  ASSUME HandleTypes, NEW h \in Numbers, CreateAncestor(h) \/ CreateLeaf(h)
  PROVE  HandleTypes'
<1> DEFINE ok == IF OpenAt("none") THEN [NoOpen EXCEPT !.pc = "ancestor", !.hand = h]
                 ELSE [opening EXCEPT !.pc = "leaf", !.hand = h]
           drop == [opening EXCEPT !.pc = "dropped"]
           more == [lost EXCEPT !.handles = @ \cup {opened + 1}]
<1>1. /\ Create(h) /\ UNCHANGED <<foreign, crt, registry, held, wronged, torn>>
      /\ \/ opening' = ok /\ lost' = lost
         \/ opening' = NoOpen /\ lost' = more
         \/ ~OpenAt("none") /\ opening' = drop /\ lost' = more
  BY DEF CreateAncestor, CreateLeaf, Created, OpenAt
<1>2. /\ opened \in Nat /\ foreign \subseteq 1 .. opened /\ opened' = opened + 1
      /\ allocated' = [allocated EXCEPT ![h] = opened + 1]
  BY <1>1 DEF Create, HandleTypes
<1>3. /\ 0 .. opened \subseteq 0 .. opened' /\ 1 .. opened \subseteq 1 .. opened'
      /\ opened' \in 0 .. opened' /\ opened' \in Nat
  BY <1>2
<1>4. allocated' \in [Numbers -> 0 .. opened'] /\ foreign' \subseteq 1 .. opened'
  <2>1. allocated \in [Numbers -> 0 .. opened]
    BY TypesNow
  <2> QED
    BY <1>1, <1>2, <1>3, <2>1
<1>5. /\ ok \in OpeningTypes /\ ok.hand \in Numbers
      /\ ~OpenAt("none") => drop \in OpeningTypes /\ drop.hand \in Numbers
  <2>1. opening \in OpeningTypes /\ NoOpen \in OpeningTypes /\ (opening.pc # "none" => opening.hand \in Numbers)
    BY TypesNow
  <2>2. [NoOpen EXCEPT !.pc = "ancestor", !.hand = h] \in OpeningTypes
    BY DEF OpeningTypes, OpenSteps, NoOpen
  <2>3. [NoOpen EXCEPT !.pc = "ancestor", !.hand = h].hand = h
    BY DEF NoOpen
  <2>4. [opening EXCEPT !.pc = "leaf", !.hand = h] \in OpeningTypes
        /\ [opening EXCEPT !.pc = "leaf", !.hand = h].hand = h
    BY <2>1 DEF OpeningTypes, OpenSteps
  <2>5. ~OpenAt("none") => drop \in OpeningTypes /\ drop.hand \in Numbers
    BY <2>1 DEF OpeningTypes, OpenSteps, OpenAt
  <2> QED
    BY <2>2, <2>3, <2>4, <2>5
<1>6. LostTypes \subseteq LostTypes' => lost' \in LostTypes'
  <2>1. ASSUME LostTypes \subseteq LostTypes'
        PROVE  more \in LostTypes'
    <3>1. lost \in LostTypes'
      BY <2>1, TypesNow
    <3>2. lost \in [handles : SUBSET (0 .. opened'), descriptors : SUBSET Descriptors]
      BY <3>1 DEF LostTypes
    <3>3. lost.handles \cup {opened + 1} \in SUBSET (0 .. opened')
      BY <1>2, <1>3, <3>2
    <3> DEFINE set == lost.handles \cup {opened + 1}
    <3> HIDE DEF set
    <3>4. [lost EXCEPT !.handles = set] \in [handles : SUBSET (0 .. opened'), descriptors : SUBSET Descriptors]
      BY <3>2, <3>3 DEF set
    <3> QED
      BY <3>4 DEF set, LostTypes
  <2> HIDE DEF ok, drop, more
  <2> QED
    BY <1>1, <2>1, TypesNow
<1>7. /\ OpeningTypes \subseteq OpeningTypes' => opening' \in OpeningTypes'
      /\ opening'.pc # "none" => opening'.hand \in Numbers
  <2> HIDE DEF ok, drop, more
  <2> QED
    BY <1>1, <1>5, TypesNow
<1>8. HeldTypes \subseteq HeldTypes' => held' \in HeldTypes'
  BY <1>1, TypesNow
<1> HIDE DEF ok, drop, more
<1> QED
  BY <1>1, <1>2, <1>4, <1>6, <1>7, <1>8, QuietTypes DEF registry

LEMMA DecidedTypes ==
  ASSUME HandleTypes, RefuseEntry \/ Abandon \/ OpenReturns
  PROVE  HandleTypes'
<1> DEFINE drop == [opening EXCEPT !.pc = "dropped"]
           more == [lost EXCEPT !.handles = @ \cup {allocated[opening.hand]}]
           given == [held EXCEPT !.numbers = @ \cup {Ref(opening.hand)}]
<1>1. /\ opening.pc \in {"retained", "claimed", "dropped"}
      /\ UNCHANGED <<allocated, foreign, crt, registry, opened, wronged, torn>>
      /\ opening' \in {drop, NoOpen} /\ lost' \in {lost, more} /\ held' \in {held, given}
  BY DEF RefuseEntry, Abandon, OpenReturns, OpenAt
<1>2. opening \in OpeningTypes /\ NoOpen \in OpeningTypes /\ opening.hand \in Numbers
      /\ NoOpen.pc = "none" /\ held \in HeldTypes /\ lost \in LostTypes
  BY <1>1, TypesNow
<1>3. drop \in OpeningTypes /\ drop.hand \in Numbers
  BY <1>2 DEF OpeningTypes, OpenSteps
<1>4. more \in LostTypes
  <2>1. allocated[opening.hand] \in 0 .. opened
    BY <1>2, HandleDomains
  <2> DEFINE set == lost.handles \cup {allocated[opening.hand]}
  <2>2. set \in SUBSET (0 .. opened)
    BY <1>2, <2>1 DEF LostTypes
  <2> HIDE DEF set
  <2>3. [lost EXCEPT !.handles = set] \in LostTypes
    BY <1>2, <2>2 DEF LostTypes
  <2> QED
    BY <2>3 DEF set
<1>5. given \in HeldTypes
  <2>1. Ref(opening.hand) \in References
    BY <1>2, HandleDomains DEF Ref, References
  <2> DEFINE set == held.numbers \cup {Ref(opening.hand)}
  <2>2. set \in SUBSET References
    BY <1>2, <2>1 DEF HeldTypes
  <2> HIDE DEF set
  <2>3. [held EXCEPT !.numbers = set] \in HeldTypes
    BY <1>2, <2>2 DEF HeldTypes
  <2> QED
    BY <2>3 DEF set
<1> HIDE DEF drop, more, given
<1>6. /\ opening' \in OpeningTypes /\ (opening'.pc # "none" => opening'.hand \in Numbers)
      /\ held' \in HeldTypes /\ lost' \in LostTypes
  BY <1>1, <1>2, <1>3, <1>4, <1>5
<1>7. RegistryTypes
  BY <1>1, TypesNow DEF RegistryTypes, registry
<1>8. UNCHANGED <<foreign, crt, descriptors, pending, opened, torn>>
  BY <1>1 DEF registry
<1> QED
  BY <1>6, <1>7, <1>8, TypesNow, TypesFrom

LEMMA OtherTypes ==
  ASSUME HandleTypes, NEW h \in Numbers, ForeignOpens(h) \/ ForeignCloses(h)
  PROVE  HandleTypes'
<1>1. /\ opened \in Nat /\ foreign \subseteq 1 .. opened /\ opened' \in {opened, opened + 1}
      /\ UNCHANGED <<crt, registry, opening, held, wronged, torn, lost>>
  BY DEF HandleTypes, ForeignOpens, ForeignCloses, Create
<1>2. /\ allocated' \in {[allocated EXCEPT ![h] = opened'], [allocated EXCEPT ![h] = 0]}
      /\ foreign' = foreign \/ (foreign' = foreign \cup {opened'} /\ opened' = opened + 1)
  BY DEF ForeignOpens, ForeignCloses, Create
<1>3. /\ opened' \in Nat /\ 0 .. opened \subseteq 0 .. opened' /\ 1 .. opened \subseteq 1 .. opened'
  BY <1>1, WiderTypes
<1>4. allocated' \in [Numbers -> 0 .. opened'] /\ foreign' \subseteq 1 .. opened'
  <2>1. allocated \in [Numbers -> 0 .. opened]
    BY TypesNow
  <2>2. opened' \in 0 .. opened' /\ 0 \in 0 .. opened'
    BY <1>3
  <2>3. opened' = opened + 1 => opened' \in 1 .. opened'
    BY <1>1
  <2> QED
    BY <1>1, <1>2, <1>3, <2>1, <2>2, <2>3
<1> QED
  BY <1>1, <1>4, TypesNow, QuietTypes

(* Every step keeps the types.                                             *)
LEMMA HandleTypesKept ==
  ASSUME HandleTypes, [HandlesNext]_handleVars
  PROVE  HandleTypes'
<1>1. CASE \E h \in Numbers : CreateAncestor(h) \/ CreateLeaf(h) \/ ForeignOpens(h) \/ ForeignCloses(h)
  BY <1>1, CreatedTypes, OtherTypes
<1>2. CASE RetainAncestor \/ ClaimLeaf
  BY <1>2, ClaimTypes
<1>3. CASE RefuseEntry \/ Abandon \/ OpenReturns
  BY <1>3, DecidedTypes
<1>4. CASE GiveUp \/ \E r \in held.numbers : CloseHeld(r) \/ Unconverted(r)
  BY <1>4, CloseTypes
<1>5. CASE \/ \E d \in Descriptors : ClaimDescriptor(d) \/ ReleaseHandle(d)
           \/ \E r \in held.numbers, d \in Descriptors : Convert(r, d)
  BY <1>5, ConversionTypes
<1>6. CASE \E f \in held.descriptors : CloseDescriptor(f)
  BY <1>6, CloseDescriptorTypes
<1>7. CASE Reconcile
  BY <1>7, ReconcileTypes
<1>8. CASE UNCHANGED handleVars
  BY <1>8 DEF handleVars, registry, HandleTypes, References, Registrations, OpenAt
<1> QED
  BY <1>1, <1>2, <1>3, <1>4, <1>5, <1>6, <1>7, <1>8 DEF HandlesNext

(* A state in which the registry has every number right.                   *)
RegistrySound == HandleTypes /\ Registered

LEMMA RegistryFacts ==
  ASSUME RegistrySound
  PROVE  /\ HandleTypes /\ ~wronged /\ KeptInv /\ PlacesInv /\ OpeningInv
         /\ HeldInv /\ DescriptorsInv /\ AccountInv
BY DEF RegistrySound, Registered

(* What a close attempt leaves of the system's table: a number that is not *)
(* tried keeps its handle, as one whose close failed does.                 *)
Attempted(refs, out) ==
  /\ wronged' = FALSE
  /\ \A h \in Numbers : allocated'[h] \in {0, allocated[h]}
  /\ \A h \in Numbers : (\A r \in refs : r.h # h) => allocated'[h] = allocated[h]
  /\ \A h \in Numbers : out[h] = "retryable" => allocated'[h] = allocated[h]
  /\ \A r \in refs : out[r.h] = "closed" => allocated'[r.h] = 0

LEMMA CloseFacts ==
  ASSUME HandleTypes, ~wronged, NEW refs, NEW out, CloseAttempts(refs, out),
         \A r \in refs : r.h \in Numbers /\ allocated[r.h] \in {0, r.g}
  PROVE  Attempted(refs, out)
<1>1. \A h \in Numbers : allocated'[h] =
         IF \E r \in refs : r.h = h /\ out[h] \in {"closed", "cut", "ambiguous_closed"}
         THEN 0 ELSE allocated[h]
  BY DEF CloseAttempts
<1>2. wronged' = FALSE
  BY DEF CloseAttempts, HandleTypes
<1> QED
  BY <1>1, <1>2 DEF Attempted

(* What closing some references leaves: those that were not closed and are *)
(* due stay, the others are closed or ambiguous, and nothing else is       *)
(* touched.                                                                *)
Settled(hs, refs, extra, due, out) ==
  /\ wronged' = FALSE
  /\ ambiguous \subseteq ambiguous' /\ ambiguous' \subseteq ambiguous \cup (refs \ due)
  /\ \A h \in Numbers : allocated'[h] \in {0, allocated[h]}
  /\ \A h \in Numbers : (\A r \in (refs \ due) \cup extra : r.h # h) =>
        allocated'[h] = allocated[h] /\ handles'[h] = hs[h]
  /\ \A h \in Numbers : handles'[h] # hs[h] =>
        handles'[h] = Unregistered /\ allocated'[h] = 0 /\ \E r \in refs : r.h = h
  /\ \A x \in extra : out[x.h] = "closed" => allocated'[x.h] = 0

(* The references a reconciliation closes are all the module's own.        *)
LEMMA RetireFacts ==
  ASSUME HandleTypes, ~wronged, NEW hs \in [Numbers -> Registrations], NEW rt \in SUBSET References,
         NEW refs \in SUBSET rt, NEW extra \in SUBSET References, NEW out \in [Numbers -> Outcomes],
         \A r \in refs : hs[r.h].g = r.g /\ allocated[r.h] = r.g /\ r \notin ambiguous,
         \A x \in extra : allocated[x.h] = x.g,
         Retire(hs, rt, refs, extra, out), ~Cut(out)
  PROVE  \E due \in SUBSET refs :
            retired' = (rt \ refs) \cup due /\ Settled(hs, refs, extra, due, out)
<1> DEFINE shut == {r \in refs : out[r.h] = "closed"}
           due == {r \in refs : out[r.h] = "retryable"}
<1>1. /\ {r \in refs : hs[r.h].g \in {0, r.g}} \ ambiguous = refs
      /\ \A r \in refs \cup extra : r.h \in Numbers
      /\ {r \in refs : out[r.h] \in {"retryable", "cut"}} = due
  BY DEF References, Cut
<1>2. /\ retired' = (rt \ refs) \cup due
      /\ ambiguous' = ambiguous \cup (refs \ (shut \cup due))
      /\ handles' = [h \in Numbers |-> IF \E r \in shut : r.h = h /\ hs[h].g = r.g
                                       THEN Unregistered ELSE hs[h]]
      /\ CloseAttempts(refs \cup extra, out)
  BY <1>1 DEF Retire
<1>3. /\ ambiguous \subseteq ambiguous' /\ ambiguous' \subseteq ambiguous \cup (refs \ due)
  BY <1>2
<1>4. /\ wronged' = FALSE
      /\ \A h \in Numbers : allocated'[h] \in {0, allocated[h]}
      /\ \A h \in Numbers : (\A r \in refs \cup extra : r.h # h) => allocated'[h] = allocated[h]
      /\ \A h \in Numbers : out[h] = "retryable" => allocated'[h] = allocated[h]
      /\ \A r \in refs \cup extra : out[r.h] = "closed" => allocated'[r.h] = 0
  <2> DEFINE all == refs \cup extra
  <2>1. CloseAttempts(all, out) /\ (\A r \in all : r.h \in Numbers /\ allocated[r.h] \in {0, r.g})
    BY <1>1, <1>2
  <2> HIDE DEF all
  <2>2. Attempted(all, out)
    BY <2>1, CloseFacts
  <2> QED
    BY <2>2 DEF all, Attempted
<1>5. ASSUME NEW h \in Numbers, \A r \in (refs \ due) \cup extra : r.h # h
      PROVE  allocated'[h] = allocated[h] /\ handles'[h] = hs[h]
  <2>1. ~\E r \in shut : r.h = h /\ hs[h].g = r.g
    BY <1>5
  <2>2. handles'[h] = hs[h]
    BY <1>2, <2>1
  <2>3. CASE \E r \in refs : r.h = h
    <3>1. out[h] = "retryable"
      BY <1>5, <2>3
    <3> QED
      BY <1>4, <2>2, <3>1
  <2>4. CASE ~\E r \in refs : r.h = h
    BY <1>4, <1>5, <2>2, <2>4
  <2> QED
    BY <2>3, <2>4
<1>6. ASSUME NEW h \in Numbers, handles'[h] # hs[h]
      PROVE  handles'[h] = Unregistered /\ allocated'[h] = 0 /\ \E r \in refs : r.h = h
  <2>1. PICK r \in shut : r.h = h
    BY <1>2, <1>6
  <2> QED
    BY <1>2, <1>4, <1>6, <2>1
<1> WITNESS due \in SUBSET refs
<1> QED
  BY <1>2, <1>3, <1>4, <1>5, <1>6 DEF Settled

(* A reference that is not closed is still the module's own.               *)
LEMMA SettledKeeps ==
  ASSUME HandleTypes, NEW hs, NEW refs \in SUBSET References, NEW extra \in SUBSET References,
         NEW due \in SUBSET refs, NEW out, Settled(hs, refs, extra, due, out), foreign' = foreign,
         \A r \in refs : allocated[r.h] = r.g,
         NEW r \in References, allocated[r.h] = r.g, hs[r.h].g = r.g, r \notin ambiguous,
         r.g \notin foreign \cup {0}, r \notin refs \ due, \A x \in extra : x.h # r.h
  PROVE  Own(r)' /\ handles'[r.h] = hs[r.h]
<1>1. r.h \in Numbers
  BY DEF References
<1>2. ASSUME NEW q \in refs \ due, q.h = r.h
      PROVE  FALSE
  <2>1. q.g = r.g
    BY <1>2
  <2>2. q = [h |-> q.h, g |-> q.g] /\ r = [h |-> r.h, g |-> r.g]
    BY DEF References
  <2> QED
    BY <1>2, <2>1, <2>2
<1>3. allocated'[r.h] = allocated[r.h] /\ handles'[r.h] = hs[r.h]
  BY <1>1, <1>2 DEF Settled
<1>4. r \notin ambiguous'
  BY DEF Settled
<1> QED
  BY <1>3, <1>4 DEF Own

(* What the invariant says of the references that are owed.                *)
LEMMA OwedFacts ==
  ASSUME RegistrySound
  PROVE  /\ Owed \in SUBSET References
         /\ OpenAncestor \in SUBSET References
         /\ \A n \in Numbers : handles[n].anc \in SUBSET References /\ handles[n].g \in 0 .. opened
         /\ \A d \in Descriptors : descriptors[d].anc \in SUBSET References
         /\ \A m : m.superseded = {} => Completed(retired, pending \cup {m}) = Owed \cup m.due
         /\ Completed(retired, pending) = Owed
         /\ \A r \in References : r.h \in Numbers /\ r = [h |-> r.h, g |-> r.g]
<1>1. HandleTypes /\ \A m \in pending : m.superseded = {}
  BY RegistryFacts DEF KeptInv
<1>2. Owed \in SUBSET References
  BY <1>1 DEF HandleTypes, Owed
<1>3. OpenAncestor \in SUBSET References
  BY <1>1 DEF HandleTypes, OpenAncestor
<1>4. /\ \A n \in Numbers : handles[n].anc \in SUBSET References /\ handles[n].g \in 0 .. opened
      /\ \A d \in Descriptors : descriptors[d].anc \in SUBSET References
      /\ \A r \in References : r.h \in Numbers /\ r = [h |-> r.h, g |-> r.g]
  BY <1>1, HandleDomains
<1>5. ASSUME NEW m, m.superseded = {}
      PROVE  Completed(retired, pending \cup {m}) = Owed \cup m.due
  <2>1. UNION {k.superseded : k \in pending \cup {m}} = {}
    BY <1>1, <1>5
  <2>2. UNION {k.due : k \in pending \cup {m}} = (UNION {k.due : k \in pending}) \cup m.due
    OBVIOUS
  <2> QED
    BY <2>1, <2>2 DEF Completed, Owed
<1>6. Completed(retired, pending) = Owed
  <2>1. UNION {m.superseded : m \in pending} = {}
    BY <1>1
  <2> QED
    BY <2>1 DEF Completed, Owed
<1> QED
  BY <1>2, <1>3, <1>4, <1>5, <1>6

(* What the invariant says of one reference that is kept.                  *)
LEMMA KeptFacts ==
  ASSUME RegistrySound
  PROVE  /\ \A r : Kept(r) => r \in References
         /\ \A r : Kept(r) => /\ allocated[r.h] = r.g /\ handles[r.h].g = r.g /\ r \notin ambiguous
                              /\ r.g \notin foreign \cup {0} /\ handles[r.h].anc = {}
                              /\ r \notin held.numbers /\ Own(r)
                              /\ (~OpenAt("none") => r.h # opening.hand)
         /\ \A r \in Owed \cup OpenAncestor : Kept(r)
         /\ \A n \in Numbers : \A r \in handles[n].anc : Kept(r)
         /\ \A d \in Descriptors : \A r \in descriptors[d].anc : Kept(r)
         /\ \A r, d : Kept(r) /\ d \in Live /\ crt[d] # NoNumber => crt[d] # r.h
         /\ \A r, q : Kept(r) /\ q \in held.numbers => q.h # r.h
<1>1. HandleTypes /\ KeptInv /\ HeldInv /\ DescriptorsInv /\ OpeningInv
  BY RegistryFacts
<1>2. \A r : Kept(r) => r \in References
  BY OwedFacts DEF Kept
<1>3. \A r \in References : r = [h |-> r.h, g |-> r.g]
  BY OwedFacts
<1>4. \A r : Kept(r) => /\ allocated[r.h] = r.g /\ handles[r.h].g = r.g /\ r \notin ambiguous
                        /\ r.g \notin foreign \cup {0} /\ handles[r.h].anc = {}
                        /\ r \notin held.numbers /\ Own(r)
                        /\ (~OpenAt("none") => r.h # opening.hand)
  BY <1>1, <1>2 DEF KeptInv, Own
<1>5. /\ \A r \in Owed \cup OpenAncestor : Kept(r)
      /\ \A n \in Numbers : \A r \in handles[n].anc : Kept(r)
      /\ \A d \in Descriptors : \A r \in descriptors[d].anc : Kept(r)
  BY DEF Kept
<1>6. ASSUME NEW r, NEW d, Kept(r), d \in Live, crt[d] # NoNumber, crt[d] = r.h
      PROVE  FALSE
  <2>1. CASE d \in opening.made
    BY <1>1, <1>4, <1>6, <2>1 DEF OpeningInv, OpenAt
  <2>2. CASE d \notin opening.made
    BY <1>1, <1>4, <1>6, <2>2 DEF DescriptorsInv
  <2> QED
    BY <2>1, <2>2
<1>7. ASSUME NEW r, NEW q, Kept(r), q \in held.numbers, q.h = r.h
      PROVE  FALSE
  <2>1. q \in References
    BY <1>1, <1>7 DEF HandleTypes
  <2>2. q.g = r.g
    BY <1>1, <1>4, <1>7 DEF HeldInv, Own
  <2>3. q = r
    BY <1>2, <1>3, <1>7, <2>1, <2>2
  <2> QED
    BY <1>4, <1>7, <2>3
<1> QED
  BY <1>2, <1>4, <1>5, <1>6, <1>7

(* Steps that leave the registry alone: an open, a close of other code, a  *)
(* decision of the open in progress.                                       *)
RegistryStays ==
  /\ UNCHANGED <<handles, descriptors, retired, ambiguous, pending, crt, wronged>>
  /\ opening'.made = opening.made
  /\ lost'.descriptors = lost.descriptors /\ lost.handles \subseteq lost'.handles
  /\ opened' \in {opened, opened + 1}
  /\ foreign' = foreign \/ (foreign' = foreign \cup {opened + 1} /\ opened' = opened + 1)
  /\ \A h \in Numbers :
        \/ allocated'[h] = allocated[h]
        \/ allocated[h] = 0 /\ opened' = opened + 1 /\ allocated'[h] = opened'
        \/ allocated[h] \in foreign /\ allocated'[h] = 0

(* They change nothing that the module owns.                               *)
LEMMA QuietFacts ==
  ASSUME RegistrySound, RegistryStays
  PROVE  /\ References \subseteq References' /\ Live' = Live /\ ~wronged'
         /\ \A g \in 0 .. opened : g \in foreign' <=> g \in foreign
         /\ \A h \in Numbers : allocated[h] \notin foreign \cup {0} =>
               allocated'[h] = allocated[h] /\ allocated'[h] \notin foreign' \cup {0}
         /\ \A r \in References : Own(r) => Own(r)'
         /\ Owed' = Owed /\ DescriptorsInv'
         /\ OpenAncestor' = OpenAncestor => \A r : Kept(r)' <=> Kept(r)
         /\ OpenAncestor' = OpenAncestor /\ (OpenAt("moved") => opening' = opening) => PlacesInv'
<1>1. HandleTypes /\ opened \in Nat /\ foreign \subseteq 1 .. opened /\ ~wronged /\ PlacesInv
      /\ DescriptorsInv
  BY RegistryFacts DEF HandleTypes
<1>2. References \subseteq References' /\ Live' = Live /\ ~wronged'
  BY <1>1, WiderTypes DEF RegistryStays, Live
<1>3. Owed' = Owed
  BY DEF Owed, RegistryStays
<1>4. OpenAncestor' = OpenAncestor => \A r : Kept(r)' <=> Kept(r)
  BY <1>3 DEF Kept, RegistryStays
<1>5. \A g \in 0 .. opened : g \in foreign' <=> g \in foreign
  <2>1. opened + 1 \notin 0 .. opened
    BY <1>1
  <2> QED
    BY <2>1 DEF RegistryStays
<1>6. ASSUME NEW h \in Numbers, allocated[h] \notin foreign \cup {0}
      PROVE  allocated'[h] = allocated[h] /\ allocated'[h] \notin foreign' \cup {0}
  <2>1. allocated[h] \in 0 .. opened
    BY <1>1, HandleDomains
  <2> QED
    BY <1>5, <1>6, <2>1 DEF RegistryStays
<1>7. ASSUME NEW r \in References, Own(r)
      PROVE  Own(r)'
  <2>1. r.h \in Numbers /\ r.g \in 0 .. opened
    BY <1>1, HandleDomains
  <2>2. allocated'[r.h] = allocated[r.h] /\ allocated'[r.h] \notin foreign' \cup {0}
    BY <1>6, <1>7, <2>1 DEF Own
  <2> QED
    BY <1>7, <2>1, <2>2 DEF Own, RegistryStays
<1>8. OpenAncestor' = OpenAncestor /\ (OpenAt("moved") => opening' = opening) => PlacesInv'
  BY <1>1, <1>3 DEF PlacesInv, RegistryStays, OpenAt
<1>9. DescriptorsInv'
  <2>1. ASSUME NEW d \in Live \ opening.made, crt[d] # NoNumber
        PROVE  /\ allocated'[crt[d]] = descriptors[d].g /\ descriptors[d].g \notin foreign' \cup {0}
               /\ handles[crt[d]].g = 0
               /\ \A e \in Live : crt[e] = crt[d] => e = d
    <3>1. crt[d] \in Numbers
      BY <1>1, <2>1 DEF HandleTypes, Live
    <3>2. /\ allocated[crt[d]] = descriptors[d].g /\ descriptors[d].g \notin foreign \cup {0}
          /\ handles[crt[d]].g = 0
          /\ \A e \in Live : crt[e] = crt[d] => e = d
      BY <1>1, <2>1 DEF DescriptorsInv
    <3> QED
      BY <1>6, <3>1, <3>2
  <2>2. \A d \in lost.descriptors : crt[d] # NoNumber
    BY <1>1 DEF DescriptorsInv
  <2> QED
    BY <1>2, <2>1, <2>2 DEF DescriptorsInv, RegistryStays
<1> QED
  BY <1>2, <1>3, <1>4, <1>5, <1>6, <1>7, <1>8, <1>9

(* Other code opens and closes its own handles.                            *)
LEMMA ForeignSteps ==
  ASSUME RegistrySound, HandleTypes', NEW h \in Numbers, ForeignOpens(h) \/ ForeignCloses(h)
  PROVE  Registered'
<1>1. /\ HandleTypes /\ KeptInv /\ OpeningInv /\ AccountInv /\ HeldInv /\ opened \in Nat
      /\ foreign \subseteq 1 .. opened
  BY RegistryFacts DEF HandleTypes
<1>2. /\ UNCHANGED <<crt, handles, descriptors, retired, ambiguous, residual, pending, opening, held,
                     wronged, lost>>
      /\ opened' \in {opened, opened + 1}
  BY DEF ForeignOpens, ForeignCloses, Create, registry
<1>3. /\ \/ allocated' = [allocated EXCEPT ![h] = opened'] /\ allocated[h] = 0 /\ opened' = opened + 1
            /\ foreign' = foreign \cup {opened'}
         \/ allocated' = [allocated EXCEPT ![h] = 0] /\ allocated[h] \in foreign /\ foreign' = foreign
  BY DEF ForeignOpens, ForeignCloses, Create
<1>4. \A k \in Numbers : k # h => allocated'[k] = allocated[k]
  BY <1>1, <1>3 DEF HandleTypes
<1>5. RegistryStays
  <2>1. allocated \in [Numbers -> 0 .. opened]
    BY <1>1 DEF HandleTypes
  <2> QED
    BY <1>2, <1>3, <1>4, <2>1 DEF RegistryStays
<1>6. OpenAncestor' = OpenAncestor /\ (OpenAt("moved") => opening' = opening)
  BY <1>2 DEF OpenAncestor, OpenAt
<1>7. /\ References \subseteq References' /\ Live' = Live /\ ~wronged'
      /\ \A g \in 0 .. opened : g \in foreign' <=> g \in foreign
      /\ \A k \in Numbers : allocated[k] \notin foreign \cup {0} =>
            allocated'[k] = allocated[k] /\ allocated'[k] \notin foreign' \cup {0}
      /\ \A r \in References : Own(r) => Own(r)'
      /\ DescriptorsInv' /\ PlacesInv' /\ \A r : Kept(r)' <=> Kept(r)
  BY <1>5, <1>6, QuietFacts
<1>8. KeptInv'
  <2>1. \A r : Kept(r) => /\ r \in References /\ Own(r) /\ handles[r.h].anc = {} /\ r \notin held.numbers
                          /\ (~OpenAt("none") => r.h # opening.hand)
    BY KeptFacts
  <2>2. \A m \in pending : m.superseded = {}
    BY <1>1 DEF KeptInv
  <2> QED
    BY <1>2, <1>7, <2>1, <2>2 DEF KeptInv, OpenAt
<1>9. OpeningInv'
  <2>1. ~OpenAt("none") => opening.hand \in Numbers
    BY <1>1 DEF HandleTypes
  <2> QED
    BY <1>1, <1>2, <1>7, <2>1 DEF OpeningInv, OpenAt, Ref
<1>10. HeldInv'
  <2>1. held.numbers \subseteq References
    BY <1>1 DEF HandleTypes
  <2> QED
    BY <1>1, <1>2, <1>7, <2>1 DEF HeldInv
<1>11. AccountInv'
  <2>1. \A k \in Numbers : allocated[k] \in foreign \cup {0} => allocated'[k] \in foreign' \cup {0}
    <3>1. allocated \in [Numbers -> 0 .. opened]
      BY <1>1 DEF HandleTypes
    <3> QED
      BY <1>3, <1>4, <3>1
  <2>2. \A k \in Numbers : allocated[k] \notin foreign \cup {0} => allocated'[k] = allocated[k]
    BY <1>7
  <2> QED
    BY <1>1, <1>2, <1>7, <2>1, <2>2 DEF AccountInv
<1> QED
  BY <1>7, <1>8, <1>9, <1>10, <1>11 DEF Registered

(* Such a step of the open in progress keeps the invariant if the open and *)
(* the account of the handles are right after it.                          *)
LEMMA QuietKeeps ==
  ASSUME RegistrySound, HandleTypes', RegistryStays, OpenAncestor = {}, OpenAncestor' = {}, ~OpenAt("moved"),
         held'.descriptors = held.descriptors,
         \A r \in held'.numbers : r \in held.numbers \/ (r \in References /\ Own(r) /\ ~Kept(r)),
         \A r : Kept(r) /\ ~OpenAt("none")' => r.h # opening'.hand,
         OpeningInv', AccountInv'
  PROVE  Registered'
<1>1. HandleTypes /\ KeptInv /\ HeldInv
  BY RegistryFacts
<1>2. /\ References \subseteq References' /\ Live' = Live /\ ~wronged'
      /\ \A r \in References : Own(r) => Own(r)'
      /\ DescriptorsInv' /\ PlacesInv' /\ \A r : Kept(r)' <=> Kept(r)
  BY QuietFacts
<1>3. \A r \in held'.numbers : ~Kept(r) /\ Own(r)'
  <2>1. held.numbers \subseteq References
    BY <1>1 DEF HandleTypes
  <2> QED
    BY <1>1, <1>2, <2>1, KeptFacts DEF HeldInv
<1>4. KeptInv'
  <2>1. \A r : Kept(r) => r \in References /\ Own(r) /\ handles[r.h].anc = {}
    BY KeptFacts
  <2>2. \A m \in pending : m.superseded = {}
    BY <1>1 DEF KeptInv
  <2> QED
    BY <1>2, <1>3, <2>1, <2>2 DEF KeptInv, RegistryStays
<1>5. HeldInv'
  BY <1>1, <1>2, <1>3 DEF HeldInv, RegistryStays
<1> QED
  BY <1>2, <1>4, <1>5 DEF Registered

(* The number of a new handle is one that nothing names.                   *)
LEMMA CreateFacts ==
  ASSUME RegistrySound, opening.made = {}, NEW h \in Numbers, Create(h),
         UNCHANGED <<foreign, crt, registry, held, wronged>>, opening'.made = {},
         lost' \in {lost, [lost EXCEPT !.handles = @ \cup {opened + 1}]}
  PROVE  /\ RegistryStays
         /\ allocated'[h] = opened' /\ opened' \notin foreign \cup {0} /\ allocated[h] = 0
         /\ [h |-> h, g |-> opened'] \notin ambiguous
         /\ \A k \in Numbers : k # h => allocated'[k] = allocated[k]
         /\ \A d \in Live : crt[d] # h
         /\ \A r : Kept(r) \/ r \in held.numbers => r.h # h
<1>1. /\ HandleTypes /\ HeldInv /\ DescriptorsInv /\ opened \in Nat
      /\ foreign \subseteq 1 .. opened /\ allocated \in [Numbers -> 0 .. opened]
      /\ opened' = opened + 1 /\ allocated[h] = 0
      /\ allocated' = [allocated EXCEPT ![h] = opened + 1]
      /\ lost \in LostTypes
  BY RegistryFacts, TypesNow DEF HandleTypes, Create
<1>2. opened + 1 \notin 0 .. opened /\ opened + 1 \notin 1 .. opened /\ opened + 1 # 0
  BY <1>1
<1>3. RegistryStays
  <2>1. \A k \in Numbers : allocated'[k] = allocated[k] \/ (allocated[k] = 0 /\ allocated'[k] = opened')
    BY <1>1
  <2>2. lost'.descriptors = lost.descriptors /\ lost.handles \subseteq lost'.handles
    BY <1>1 DEF LostTypes
  <2> QED
    BY <1>1, <2>1, <2>2 DEF RegistryStays, registry
<1>4. allocated'[h] = opened' /\ opened' \notin foreign \cup {0}
  BY <1>1, <1>2
<1>5. [h |-> h, g |-> opened'] \notin ambiguous
  BY <1>1, <1>2 DEF HandleTypes, References
<1>6. \A k \in Numbers : k # h => allocated'[k] = allocated[k]
  BY <1>1
<1>7. \A d \in Live : crt[d] # h
  BY <1>1, HandlesAssumption DEF DescriptorsInv, NoNumber
<1>8. \A r : Kept(r) \/ r \in held.numbers => r.h # h
  BY <1>1, KeptFacts DEF HeldInv, Own
<1> QED
  BY <1>1, <1>3, <1>4, <1>5, <1>6, <1>7, <1>8

(* A new handle is the open in progress's, or lost.                        *)
LEMMA CreateAccount ==
  ASSUME RegistrySound, NEW h \in Numbers, RegistryStays, \A k \in Numbers : k # h => allocated'[k] = allocated[k],
         \/ opening'.pc \in {"ancestor", "leaf"} /\ opening'.hand = h
         \/ allocated'[h] \in lost'.handles,
         opening.pc \in {"ancestor", "leaf", "dropped"} => opening.hand = h
  PROVE  AccountInv'
<1>1. \A k \in Numbers :
        \/ allocated[k] \in foreign \cup lost.handles \cup {0}
        \/ handles[k].g = allocated[k]
        \/ \E d \in Live : crt[d] = k
        \/ [h |-> k, g |-> allocated[k]] \in ambiguous
        \/ opening.pc \in {"ancestor", "leaf", "dropped"} /\ opening.hand = k
  BY RegistryFacts DEF AccountInv
<1>2. foreign \subseteq foreign' /\ Live' = Live
  BY QuietFacts DEF RegistryStays
<1>3. \A k \in Numbers : k # h =>
        \/ allocated'[k] \in foreign' \cup lost'.handles \cup {0}
        \/ handles'[k].g = allocated'[k]
        \/ \E d \in Live' : crt'[d] = k
        \/ [h |-> k, g |-> allocated'[k]] \in ambiguous'
  BY <1>1, <1>2 DEF RegistryStays
<1> QED
  BY <1>3 DEF AccountInv

(* The ancestor is opened.                                                 *)
LEMMA CreateAncestorStep ==
  ASSUME RegistrySound, HandleTypes', NEW h \in Numbers, CreateAncestor(h)
  PROVE  Registered'
<1> DEFINE more == [lost EXCEPT !.handles = @ \cup {opened + 1}]
<1>1. /\ OpenAt("none") /\ Create(h)
      /\ UNCHANGED <<foreign, crt, registry, held, wronged>>
      /\ \/ opening' = [NoOpen EXCEPT !.pc = "ancestor", !.hand = h] /\ lost' = lost
         \/ opening' = NoOpen /\ lost' = more
  BY DEF CreateAncestor, Created
<1>2. /\ opening'.made = {} /\ opening.made = {} /\ lost' \in {lost, more}
      /\ \/ opening'.pc = "ancestor" /\ opening'.hand = h /\ lost' = lost
         \/ opening'.pc = "none" /\ lost' = more
  <2> DEFINE ok == [NoOpen EXCEPT !.pc = "ancestor", !.hand = h]
  <2>1. opening.made = {}
    BY <1>1, RegistryFacts DEF OpeningInv, OpenAt
  <2>2. ok.made = {} /\ ok.pc = "ancestor" /\ ok.hand = h
    BY DEF NoOpen
  <2>3. NoOpen.made = {} /\ NoOpen.pc = "none"
    BY DEF NoOpen
  <2>4. (opening' = ok /\ lost' = lost) \/ (opening' = NoOpen /\ lost' = more)
    BY <1>1
  <2> HIDE DEF more, ok
  <2> QED
    BY <2>1, <2>2, <2>3, <2>4
<1>3. /\ RegistryStays
      /\ allocated'[h] = opened' /\ opened' \notin foreign \cup {0} /\ allocated[h] = 0
      /\ [h |-> h, g |-> opened'] \notin ambiguous
      /\ \A k \in Numbers : k # h => allocated'[k] = allocated[k]
      /\ \A d \in Live : crt[d] # h
      /\ \A r : Kept(r) \/ r \in held.numbers => r.h # h
  BY <1>1, <1>2, CreateFacts
<1>4. OpenAncestor = {} /\ OpenAncestor' = {} /\ ~OpenAt("moved")
      /\ (OpenAt("none")' \/ (opening'.hand = h /\ opening'.pc = "ancestor"))
  BY <1>1, <1>2 DEF OpenAncestor, OpenAt
<1>5. OpeningInv'
  <2>1. CASE opening'.pc = "none"
    BY <1>2, <2>1 DEF OpeningInv, OpenAt
  <2>2. CASE opening'.pc = "ancestor"
    <3>1. Live' = Live
      BY <1>3, QuietFacts
    <3> QED
      BY <1>1, <1>2, <1>3, <2>2, <3>1 DEF OpeningInv, OpenAt, registry
  <2> QED
    BY <1>2, <2>1, <2>2
<1>6. AccountInv'
  <2>1. lost' = more => allocated'[h] \in lost'.handles
    <3>1. opened' = opened + 1 /\ lost \in LostTypes
      BY <1>1, RegistryFacts, TypesNow DEF Create
    <3> QED
      BY <1>3, <3>1 DEF LostTypes
  <2> HIDE DEF more
  <2> QED
    BY <1>1, <1>2, <1>3, <2>1, CreateAccount DEF OpenAt
<1> HIDE DEF more
<1>7. held' = held /\ (\A r : Kept(r) /\ ~OpenAt("none")' => r.h # opening'.hand)
  BY <1>1, <1>3, <1>4
<1> QED
  BY <1>3, <1>4, <1>5, <1>6, <1>7, QuietKeeps

(* The leaf is opened, below the ancestor.                                 *)
LEMMA CreateLeafStep ==
  ASSUME RegistrySound, HandleTypes', NEW h \in Numbers, CreateLeaf(h)
  PROVE  Registered'
<1> DEFINE q == Ref(opening.hand)
           n0 == opening.hand
           more == [lost EXCEPT !.handles = @ \cup {opened + 1}]
<1>1. /\ OpenAt("retained") /\ Create(h)
      /\ UNCHANGED <<foreign, crt, registry, held, wronged>>
      /\ \/ opening' = [opening EXCEPT !.pc = "leaf", !.hand = h] /\ lost' = lost
         \/ opening' = [opening EXCEPT !.pc = "dropped"] /\ lost' = more
         \/ opening' = NoOpen /\ lost' = more
  BY DEF CreateLeaf, Created
<1>2. /\ opening.made = {} /\ opening \in OpeningTypes
  BY <1>1, RegistryFacts, TypesNow DEF OpeningInv, OpenAt
<1>3. /\ opening'.made = {} /\ lost' \in {lost, more}
      /\ \/ opening'.pc = "leaf" /\ opening'.hand = h /\ opening'.anc = opening.anc /\ lost' = lost
         \/ opening'.pc = "dropped" /\ opening'.hand = n0 /\ lost' = more
         \/ opening'.pc = "none" /\ lost' = more
  <2>1. NoOpen.made = {} /\ NoOpen.pc = "none"
    BY DEF NoOpen
  <2> HIDE DEF more
  <2> QED
    BY <1>1, <1>2, <2>1 DEF OpeningTypes
<1>4. /\ RegistryStays
      /\ allocated'[h] = opened' /\ opened' \notin foreign \cup {0} /\ allocated[h] = 0
      /\ [h |-> h, g |-> opened'] \notin ambiguous
      /\ \A k \in Numbers : k # h => allocated'[k] = allocated[k]
      /\ \A d \in Live : crt[d] # h
      /\ \A r : Kept(r) \/ r \in held.numbers => r.h # h
  BY <1>1, <1>2, <1>3, CreateFacts
<1>5. /\ n0 \in Numbers /\ allocated[n0] \notin foreign \cup {0}
      /\ opening.anc = {q} /\ q = [h |-> n0, g |-> allocated[n0]]
      /\ q \in References /\ Own(q) /\ handles[n0].anc = {} /\ handles[n0].g = allocated[n0]
      /\ ~Kept(q) /\ q.h = n0 /\ n0 # h
      /\ \A r : Kept(r) \/ r \in held.numbers => r.h # n0
      /\ \A d \in Live : crt[d] # n0
  <2>1. /\ opening.hand \in Numbers
        /\ allocated[opening.hand] \notin foreign \cup {0}
        /\ [h |-> opening.hand, g |-> allocated[opening.hand]] \notin ambiguous
        /\ \A r \in held.numbers : r.h # opening.hand
        /\ handles[opening.hand].g = allocated[opening.hand]
        /\ opening.anc = {Ref(opening.hand)} /\ handles[opening.hand].anc = {}
        /\ \A d \in Live : crt[d] # n0
    BY <1>1, <1>2, RegistryFacts DEF OpeningInv, OpenAt, HandleTypes
  <2>2. q = [h |-> opening.hand, g |-> allocated[opening.hand]]
    BY <2>1 DEF Ref
  <2>3. q \in References
    BY <2>1, <2>2, RegistryFacts, HandleDomains
  <2>4. \A r : Kept(r) => r.h # opening.hand
    BY <1>1, KeptFacts DEF OpenAt
  <2>5. opening.anc = {q}
    BY <2>1
  <2> HIDE DEF q
  <2> QED
    BY <1>4, <2>1, <2>2, <2>3, <2>4, <2>5 DEF Own
<1>6. /\ References \subseteq References' /\ Owed' = Owed /\ Live' = Live /\ ~wronged'
      /\ \A r \in References : Own(r) => Own(r)'
      /\ DescriptorsInv'
  BY <1>4, QuietFacts
<1>7. AccountInv'
  <2>1. lost' = more => allocated'[h] \in lost'.handles
    <3>1. opened' = opened + 1 /\ lost \in LostTypes
      BY <1>1, RegistryFacts, TypesNow DEF Create
    <3> QED
      BY <1>4, <3>1 DEF LostTypes
  <2> HIDE DEF more
  <2> QED
    BY <1>1, <1>3, <1>4, <2>1, CreateAccount DEF OpenAt
<1> HIDE DEF q, n0, more
<1>8. CASE opening'.pc # "leaf"
  <2>1. /\ OpenAncestor = {} /\ OpenAncestor' = {} /\ ~OpenAt("moved") /\ held' = held
        /\ \A r : Kept(r) /\ ~OpenAt("none")' => r.h # opening'.hand
    BY <1>1, <1>3, <1>5, <1>8 DEF OpenAncestor, OpenAt
  <2>2. OpeningInv'
    <3>1. CASE opening'.pc = "none"
      BY <1>3, <3>1 DEF OpeningInv, OpenAt
    <3>2. CASE opening'.pc = "dropped"
      BY <1>1, <1>3, <1>4, <1>5, <1>6, <3>2 DEF OpeningInv, OpenAt, registry, Own
    <3> QED
      BY <1>3, <1>8, <3>1, <3>2
  <2> QED
    BY <1>4, <1>7, <2>1, <2>2, QuietKeeps
<1>9. CASE opening'.pc = "leaf"
  <2>1. OpenAncestor = {} /\ OpenAncestor' = {q} /\ opening'.hand = h /\ held' = held
    BY <1>1, <1>3, <1>5, <1>9 DEF OpenAncestor, OpenAt
  <2>2. \A r : Kept(r)' <=> Kept(r) \/ r = q
    BY <1>1, <1>6, <2>1 DEF Kept, registry
  <2>3. KeptInv'
    <3>1. \A r : Kept(r) => r \in References /\ Own(r) /\ handles[r.h].anc = {} /\ r \notin held.numbers
      BY KeptFacts
    <3>2. \A m \in pending : m.superseded = {}
      BY RegistryFacts DEF KeptInv
    <3> QED
      BY <1>1, <1>4, <1>5, <1>6, <2>1, <2>2, <3>1, <3>2 DEF KeptInv, registry
  <2>4. PlacesInv'
    <3>1. PlacesInv /\ \A n \in Numbers : q \notin handles[n].anc
      BY <1>5, RegistryFacts DEF Kept
    <3>2. q \notin Owed /\ \A d \in Descriptors : q \notin descriptors[d].anc
      BY <1>5 DEF Kept
    <3>3. ~OpenAt("moved")
      BY <1>1 DEF OpenAt
    <3> QED
      BY <1>1, <1>6, <2>1, <3>1, <3>2, <3>3 DEF PlacesInv, registry
  <2>5. OpeningInv'
    BY <1>1, <1>3, <1>4, <1>6, <1>9, <2>1 DEF OpeningInv, OpenAt, registry
  <2>6. HeldInv'
    <3>1. HeldInv /\ held.numbers \subseteq References
      BY RegistryFacts DEF HandleTypes
    <3> QED
      BY <1>1, <1>2, <1>3, <1>6, <3>1 DEF HeldInv, registry
  <2> QED
    BY <1>6, <1>7, <2>3, <2>4, <2>5, <2>6 DEF Registered
<1> QED
  BY <1>8, <1>9

(* An entry is refused, abandoned or handed to the caller.                 *)
LEMMA DecideSteps ==
  ASSUME RegistrySound, HandleTypes', RefuseEntry \/ Abandon \/ OpenReturns
  PROVE  Registered'
<1> DEFINE q == Ref(opening.hand)
           n0 == opening.hand
           more == [lost EXCEPT !.handles = @ \cup {allocated[opening.hand]}]
<1>1. /\ opening.pc \in {"retained", "claimed", "dropped"}
      /\ UNCHANGED <<allocated, foreign, crt, registry, opened, wronged>>
      /\ \/ opening' = [opening EXCEPT !.pc = "dropped"] /\ opening.pc # "dropped" /\ lost' = lost /\ held' = held
         \/ /\ opening' = NoOpen /\ held' = held
            /\ lost' = IF handles[n0].g = allocated[n0] THEN lost ELSE more
         \/ /\ opening' = NoOpen /\ lost' = lost /\ opening.pc = "claimed"
            /\ held' = [held EXCEPT !.numbers = @ \cup {q}]
  BY DEF RefuseEntry, Abandon, OpenReturns, OpenAt
<1>2. /\ opening.made = {} /\ opening \in OpeningTypes /\ lost \in LostTypes /\ held \in HeldTypes
  BY <1>1, RegistryFacts, TypesNow DEF OpeningInv
<1>3. /\ opening'.made = {} /\ (opening'.pc = "none" \/ (opening'.pc = "dropped" /\ opening'.hand = n0))
      /\ opening'.pc = "dropped" => lost' = lost /\ held' = held /\ opening.pc # "dropped"
  <2>1. NoOpen.made = {} /\ NoOpen.pc = "none"
    BY DEF NoOpen
  <2> HIDE DEF more, q
  <2> QED
    BY <1>1, <1>2, <2>1 DEF OpeningTypes
<1>4. /\ lost'.descriptors = lost.descriptors /\ lost.handles \subseteq lost'.handles
      /\ held'.descriptors = held.descriptors
      /\ held'.numbers \subseteq held.numbers \cup {q}
      /\ held' # held => opening.pc = "claimed"
      /\ handles[n0].g = allocated[n0] \/ opening'.pc = "dropped" \/ opening.pc = "claimed"
         \/ allocated[n0] \in lost'.handles
  <2> HIDE DEF q, n0
  <2>1. more.descriptors = lost.descriptors /\ lost.handles \subseteq more.handles
        /\ allocated[n0] \in more.handles
    BY <1>2 DEF LostTypes, n0
  <2> HIDE DEF more
  <2> QED
    BY <1>1, <1>2, <2>1 DEF HeldTypes, OpeningTypes
<1>5. RegistryStays
  BY <1>1, <1>2, <1>3, <1>4 DEF RegistryStays, registry
<1>6. OpenAncestor = {} /\ OpenAncestor' = {} /\ ~OpenAt("moved")
      /\ \A r : Kept(r) /\ ~OpenAt("none")' => r.h # opening'.hand
  BY <1>1, <1>3, KeptFacts DEF OpenAncestor, OpenAt
<1>7. /\ n0 \in Numbers /\ allocated[n0] \notin foreign \cup {0}
      /\ [h |-> n0, g |-> allocated[n0]] \notin ambiguous
      /\ \A d \in Live : crt[d] # n0
      /\ \A r \in held.numbers : r.h # n0
      /\ opening.pc \in {"retained", "claimed"} => handles[n0].g = allocated[n0]
      /\ q = [h |-> n0, g |-> handles[n0].g] /\ q.h = n0
  BY <1>1, <1>2, RegistryFacts DEF OpeningInv, OpenAt, HandleTypes, Ref
<1>8. opening.pc = "claimed" => q \in References /\ Own(q) /\ ~Kept(q)
  <2>1. [h |-> n0, g |-> allocated[n0]] \in References
    BY <1>7, RegistryFacts, HandleDomains
  <2>2. \A r : Kept(r) => r.h # n0
    BY <1>1, KeptFacts DEF OpenAt
  <2> HIDE DEF n0, q
  <2> QED
    BY <1>7, <2>1, <2>2 DEF Own
<1>9. \A r \in held'.numbers : r \in held.numbers \/ (r \in References /\ Own(r) /\ ~Kept(r))
  <2> HIDE DEF q
  <2> QED
    BY <1>4, <1>8
<1>10. OpeningInv'
  <2>1. CASE opening'.pc = "none"
    BY <1>3, <2>1 DEF OpeningInv, OpenAt
  <2>2. CASE opening'.pc = "dropped"
    <3>1. Live' = Live
      BY <1>5, QuietFacts
    <3> QED
      BY <1>1, <1>3, <1>7, <2>2, <3>1 DEF OpeningInv, OpenAt, registry
  <2> QED
    BY <1>3, <2>1, <2>2
<1>11. AccountInv'
  <2>1. Live' = Live
    BY <1>5, QuietFacts
  <2>2. AccountInv
    BY RegistryFacts
  <2> HIDE DEF q, more
  <2>3. \/ allocated[n0] \in lost'.handles \/ handles[n0].g = allocated[n0]
        \/ opening'.pc = "dropped" /\ opening'.hand = n0
    BY <1>3, <1>4, <1>7
  <2>4. ASSUME NEW k \in Numbers
        PROVE  \/ allocated[k] \in foreign \cup lost'.handles \cup {0}
               \/ handles[k].g = allocated[k]
               \/ \E d \in Live : crt[d] = k
               \/ [h |-> k, g |-> allocated[k]] \in ambiguous
               \/ opening'.pc \in {"ancestor", "leaf", "dropped"} /\ opening'.hand = k
    BY <1>4, <2>2, <2>3 DEF AccountInv
  <2> QED
    BY <1>1, <2>1, <2>4 DEF AccountInv, registry
<1> HIDE DEF q, n0, more
<1> QED
  BY <1>4, <1>5, <1>6, <1>9, <1>10, <1>11, QuietKeeps

(* What else such a step does: nothing it keeps, and nothing that callers  *)
(* hold, is among the references it closes.                                *)
KeepsOthers(hs, refs, extra, due) ==
  /\ foreign' = foreign /\ opened' = opened
  /\ \A r \in refs : allocated[r.h] = r.g
  /\ \A m \in pending' : m.superseded = {}
  /\ \A r \in References : Kept(r)' => /\ Kept(r) /\ r \notin refs \ due /\ hs[r.h] = handles[r.h]
                                       /\ \A x \in extra : x.h # r.h
  /\ OpenAt("none")' \/ (~OpenAt("none") /\ opening'.hand = opening.hand)
  /\ held'.numbers \subseteq held.numbers
  /\ \A r \in held'.numbers : /\ r \notin refs \ due /\ hs[r.h].g = handles[r.h].g
                              /\ \A x \in extra : x.h # r.h
  /\ \A f \in held'.descriptors : /\ f.d \in Live' \ opening'.made
                                  /\ crt'[f.d] # NoNumber /\ descriptors'[f.d].g = f.g
  /\ \A h \in Numbers :
        \/ allocated[h] \in foreign \cup lost'.handles \cup {0} \/ allocated'[h] = 0
        \/ hs[h].g = allocated[h]
        \/ \E d \in Live' : crt'[d] = h
        \/ [h |-> h, g |-> allocated[h]] \in ambiguous
  /\ PlacesInv' /\ OpeningInv' /\ DescriptorsInv'

(* A step that closes some references, and does that, keeps the invariant. *)
LEMMA SettledStep ==
  ASSUME RegistrySound, HandleTypes', NEW hs, NEW refs \in SUBSET References, NEW extra \in SUBSET References,
         NEW due \in SUBSET refs, NEW out, Settled(hs, refs, extra, due, out),
         KeepsOthers(hs, refs, extra, due)
  PROVE  Registered'
<1>1. HandleTypes /\ KeptInv /\ HeldInv
  BY RegistryFacts
<1>2. References' = References
  BY DEF References, KeepsOthers
<1>3. ASSUME NEW r \in References, allocated[r.h] = r.g, hs[r.h].g = r.g, r \notin ambiguous,
             r.g \notin foreign \cup {0}, r \notin refs \ due, \A x \in extra : x.h # r.h
      PROVE  Own(r)' /\ handles'[r.h] = hs[r.h]
  BY <1>1, <1>3, SettledKeeps DEF KeepsOthers
<1>4. KeptInv'
  <2>1. SUFFICES ASSUME NEW r \in References, Kept(r)'
        PROVE  /\ Own(r)' /\ handles'[r.h].anc = {} /\ r \notin held'.numbers
               /\ ~OpenAt("none")' => r.h # opening'.hand
    BY <1>2 DEF KeptInv, KeepsOthers
  <2>2. /\ Kept(r) /\ r \notin refs \ due /\ hs[r.h] = handles[r.h]
        /\ \A x \in extra : x.h # r.h
    BY <2>1 DEF KeepsOthers
  <2>3. /\ allocated[r.h] = r.g /\ handles[r.h].g = r.g /\ r \notin ambiguous
        /\ r.g \notin foreign \cup {0} /\ handles[r.h].anc = {} /\ r \notin held.numbers
        /\ (~OpenAt("none") => r.h # opening.hand)
    BY <2>2, KeptFacts
  <2> QED
    BY <1>3, <2>2, <2>3 DEF KeepsOthers
<1>5. HeldInv'
  <2>1. \A r \in held'.numbers : r \in References /\ Own(r)
    BY <1>1 DEF HeldInv, HandleTypes, KeepsOthers
  <2>2. \A r \in held'.numbers : Own(r)'
    BY <1>3, <2>1 DEF Own, KeepsOthers
  <2> QED
    BY <2>2 DEF HeldInv, KeepsOthers
<1>6. AccountInv'
  <2>1. SUFFICES ASSUME NEW h \in Numbers, allocated'[h] \notin foreign' \cup lost'.handles \cup {0}
        PROVE  \/ handles'[h].g = allocated'[h]
               \/ \E d \in Live' : crt'[d] = h
               \/ [h |-> h, g |-> allocated'[h]] \in ambiguous'
    BY DEF AccountInv
  <2>2. allocated'[h] = allocated[h] /\ ambiguous \subseteq ambiguous' /\ handles'[h] = hs[h]
    BY <2>1 DEF Settled
  <2> QED
    BY <2>1, <2>2 DEF KeepsOthers
<1>7. ~wronged'
  BY DEF Settled
<1> QED
  BY <1>4, <1>5, <1>6, <1>7 DEF Registered, KeepsOthers

(* Descriptors keep their handles: those closed are none of theirs.        *)
LEMMA DescriptorsKeep ==
  ASSUME RegistrySound, NEW nums, NEW d \in Live \ opening.made, crt[d] # NoNumber, crt[d] \notin nums,
         \A h \in Numbers : h \notin nums =>
            allocated'[h] = allocated[h] /\ (handles'[h] = handles[h] \/ handles'[h].g = 0)
  PROVE  /\ crt[d] \in Numbers
         /\ allocated'[crt[d]] = descriptors[d].g /\ descriptors[d].g \notin foreign \cup {0}
         /\ handles'[crt[d]].g = 0
         /\ \A e \in Live : crt[e] = crt[d] => e = d
<1>1. crt[d] \in Numbers
  BY RegistryFacts DEF HandleTypes, Live
<1>2. /\ allocated[crt[d]] = descriptors[d].g /\ descriptors[d].g \notin foreign \cup {0}
      /\ handles[crt[d]].g = 0
      /\ \A e \in Live : crt[e] = crt[d] => e = d
  BY RegistryFacts DEF DescriptorsInv
<1> QED
  BY <1>1, <1>2

(* The same for a step that closes references of the registry alone.       *)
LEMMA SettledDescriptors ==
  ASSUME RegistrySound, NEW hs, NEW refs \in SUBSET References, NEW due, NEW out,
         Settled(hs, refs, {}, due, out), \A r \in refs : Kept(r),
         \A h \in Numbers : hs[h] = handles[h] \/ h = opening.hand,
         ~OpenAt("none") \/ hs = handles,
         UNCHANGED <<foreign, crt, lost>>, opening'.made = opening.made,
         \A d \in Live \ opening.made : descriptors'[d] = descriptors[d]
  PROVE  DescriptorsInv'
<1>1. Live' = Live
  BY DEF Live
<1>2. ASSUME NEW d \in Live \ opening.made, crt[d] # NoNumber
      PROVE  /\ allocated'[crt[d]] = descriptors[d].g /\ descriptors[d].g \notin foreign \cup {0}
             /\ handles'[crt[d]].g = 0
             /\ \A e \in Live : crt[e] = crt[d] => e = d
  <2>1. \A r \in refs : r.h # crt[d]
    BY <1>2, KeptFacts
  <2>2. /\ crt[d] \in Numbers
        /\ allocated[crt[d]] = descriptors[d].g /\ descriptors[d].g \notin foreign \cup {0}
        /\ handles[crt[d]].g = 0
        /\ \A e \in Live : crt[e] = crt[d] => e = d
    BY <1>2, RegistryFacts DEF DescriptorsInv, HandleTypes, Live
  <2>3. hs[crt[d]] = handles[crt[d]]
    BY <1>2, <2>2, RegistryFacts DEF OpeningInv
  <2>4. allocated'[crt[d]] = allocated[crt[d]] /\ handles'[crt[d]] = hs[crt[d]]
    BY <2>1, <2>2 DEF Settled
  <2> QED
    BY <2>2, <2>3, <2>4
<1>3. \A d \in lost.descriptors : crt[d] # NoNumber
  BY RegistryFacts DEF DescriptorsInv
<1> QED
  BY <1>1, <1>2, <1>3 DEF DescriptorsInv

(* The reconciliation that metadata recovery asks for.                     *)
LEMMA ReconcileStep ==
  ASSUME RegistrySound, HandleTypes', Reconcile, ~torn'
  PROVE  Registered'
<1>1. HandleTypes /\ PlacesInv /\ HeldInv /\ AccountInv /\ OpeningInv /\ ~wronged
  BY RegistryFacts
<1>2. /\ OpenAt("none") /\ pending' = {} /\ opening.made = {}
      /\ UNCHANGED <<foreign, crt, descriptors, opening, held, opened, lost>>
  BY <1>1 DEF Reconcile, OpeningInv, OpenAt
<1>3. PICK out \in OutcomesOf(Owed) : Retire(handles, Owed, Owed, {}, out) /\ ~Cut(out)
  BY OwedFacts DEF Reconcile
<1>4. PICK due \in SUBSET Owed : /\ retired' = (Owed \ Owed) \cup due
                                 /\ Settled(handles, Owed, {}, due, out)
  <2>1. handles \in [Numbers -> Registrations] /\ Owed \in SUBSET References
    BY <1>1, OwedFacts DEF HandleTypes
  <2>2. \A r \in Owed : handles[r.h].g = r.g /\ allocated[r.h] = r.g /\ r \notin ambiguous
    BY KeptFacts
  <2>3. out \in [Numbers -> Outcomes]
    BY DEF OutcomesOf
  <2> HIDE DEF Owed
  <2> QED
    BY <1>1, <1>3, <2>1, <2>2, <2>3, RetireFacts
<1>5. Owed' = due /\ OpenAncestor' = {} /\ OpenAncestor = {} /\ Live' = Live
  BY <1>2, <1>4 DEF Owed, OpenAncestor, OpenAt, Live
<1>6. \A n \in Numbers : handles'[n].anc \subseteq handles[n].anc
  BY <1>4 DEF Settled, Unregistered
<1>7. Owed \in SUBSET References /\ \A q \in Owed : Kept(q) /\ allocated[q.h] = q.g
  BY OwedFacts, KeptFacts
<1> HIDE DEF Owed
<1>8. \A r \in References : Kept(r)' => Kept(r) /\ r \notin Owed \ due
  BY <1>1, <1>2, <1>5, <1>6 DEF Kept, PlacesInv
<1>9. PlacesInv'
  BY <1>1, <1>2, <1>5, <1>6 DEF PlacesInv, OpenAt
<1>10. OpeningInv'
  BY <1>2 DEF OpeningInv, OpenAt
<1>11. DescriptorsInv'
  BY <1>2, <1>4, <1>7, SettledDescriptors
<1>12. \A r \in held.numbers : r \notin Owed
  BY <1>7, KeptFacts
<1>13. \A h \in Numbers :
         \/ allocated[h] \in foreign \cup lost'.handles \cup {0}
         \/ handles[h].g = allocated[h]
         \/ \E d \in Live' : crt'[d] = h
         \/ [h |-> h, g |-> allocated[h]] \in ambiguous
  BY <1>1, <1>2, <1>5 DEF AccountInv, OpenAt
<1>14. \A f \in held'.descriptors : /\ f.d \in Live' \ opening'.made
                                    /\ crt'[f.d] # NoNumber /\ descriptors'[f.d].g = f.g
  BY <1>1, <1>2, <1>5 DEF HeldInv
<1>15. OpenAt("none")'
  BY <1>2 DEF OpenAt
<1>16. KeepsOthers(handles, Owed, {}, due)
  BY <1>2, <1>7, <1>8, <1>9, <1>10, <1>11, <1>12, <1>13, <1>14, <1>15 DEF KeepsOthers
<1> QED
  BY <1>4, <1>7, <1>16, SettledStep

(* What a claim registers.                                                 *)
ClaimedHandles ==
  [handles EXCEPT ![opening.hand] = [g |-> allocated[opening.hand], anc |-> OpenAncestor]]

(* The handle that a claim registers is the module's own.                  *)
LEMMA ClaimFacts ==
  ASSUME RegistrySound, opening.pc \in {"ancestor", "leaf"}
  PROVE  /\ opening.made = {} /\ ~OpenAt("none") /\ ~OpenAt("moved") /\ opening.hand \in Numbers
         /\ allocated[opening.hand] \notin foreign \cup {0}
         /\ [h |-> opening.hand, g |-> allocated[opening.hand]] \notin ambiguous
         /\ [h |-> opening.hand, g |-> allocated[opening.hand]] \in References
         /\ \A d \in Live : crt[d] # opening.hand
         /\ \A r \in held.numbers : r.h # opening.hand
         /\ \A r : Kept(r) => r.h # opening.hand
         /\ OpenAncestor \in SUBSET References
         /\ ClaimedHandles \in [Numbers -> Registrations]
         /\ ClaimedHandles[opening.hand] = [g |-> allocated[opening.hand], anc |-> OpenAncestor]
         /\ \A n \in Numbers : n # opening.hand => ClaimedHandles[n] = handles[n]
<1> DEFINE n0 == opening.hand
<1>1. HandleTypes /\ OpeningInv /\ opening.made = {} /\ ~OpenAt("none") /\ ~OpenAt("moved") /\ n0 \in Numbers
  BY RegistryFacts DEF OpeningInv, OpenAt, HandleTypes
<1>2. /\ allocated[n0] \notin foreign \cup {0}
      /\ [h |-> n0, g |-> allocated[n0]] \notin ambiguous
      /\ \A d \in Live : crt[d] # n0
      /\ \A r \in held.numbers : r.h # n0
  BY <1>1 DEF OpeningInv
<1>3. [h |-> n0, g |-> allocated[n0]] \in References /\ allocated[n0] \in 0 .. opened
  BY <1>1, HandleDomains
<1>4. \A r : Kept(r) => r.h # n0
  BY <1>1, KeptFacts
<1>5. OpenAncestor \in SUBSET References
  BY OwedFacts
<1>6. [g |-> allocated[n0], anc |-> OpenAncestor] \in Registrations
  BY <1>3, <1>5 DEF Registrations
<1>7. handles \in [Numbers -> Registrations]
  BY <1>1 DEF HandleTypes
<1> QED
  BY <1>1, <1>2, <1>3, <1>4, <1>5, <1>6, <1>7 DEF ClaimedHandles

(* A claim registers the handle just created; what it displaces is closed, *)
(* or stays owed.                                                          *)
LEMMA ClaimSettles ==
  ASSUME RegistrySound, HandleTypes', opening.pc \in {"ancestor", "leaf"}, NEW due, NEW out,
         due \in SUBSET (Owed \cup handles[opening.hand].anc),
         Settled(ClaimedHandles, Owed \cup handles[opening.hand].anc, {}, due, out),
         UNCHANGED <<foreign, opened, crt, descriptors, held, lost>>,
         Owed' = due, \A m \in pending' : m.superseded = {},
         opening'.pc \in {"retained", "claimed", "dropped"}, opening'.hand = opening.hand,
         opening'.made = opening.made,
         opening'.pc = "retained" => /\ OpenAncestor = {}
                                     /\ opening'.anc = {[h |-> opening.hand, g |-> allocated[opening.hand]]}
  PROVE  Registered'
<1> DEFINE n0 == opening.hand
           hs == ClaimedHandles
           rt == Owed \cup handles[n0].anc
<1>1. HandleTypes /\ PlacesInv /\ HeldInv /\ AccountInv
  BY RegistryFacts
<1>2. /\ opening.made = {} /\ ~OpenAt("none") /\ ~OpenAt("moved") /\ n0 \in Numbers
      /\ allocated[n0] \notin foreign \cup {0}
      /\ [h |-> n0, g |-> allocated[n0]] \notin ambiguous
      /\ \A d \in Live : crt[d] # n0
      /\ \A r \in held.numbers : r.h # n0
      /\ \A r : Kept(r) => r.h # n0
  BY ClaimFacts
<1>3. /\ hs[n0].g = allocated[n0] /\ hs[n0].anc = OpenAncestor
      /\ \A n \in Numbers : n # n0 => hs[n] = handles[n]
  BY ClaimFacts
<1>4. rt \in SUBSET References /\ \A r \in rt : Kept(r) /\ r.h # n0 /\ allocated[r.h] = r.g
  BY <1>2, OwedFacts, KeptFacts
<1>5. /\ OpenAncestor' = {} /\ ~OpenAt("none")' /\ ~OpenAt("moved")' /\ Live' = Live /\ opening'.hand = n0
  BY DEF OpenAncestor, OpenAt, Live
<1>6. Settled(hs, rt, {}, due, out) /\ due \in SUBSET rt
      /\ \A r : r \in rt <=> r \in Owed \/ r \in handles[n0].anc
  OBVIOUS
<1> HIDE DEF rt, hs, n0
<1>7. \A n \in Numbers : handles'[n].anc \subseteq hs[n].anc
  <2>1. \A n \in Numbers : handles'[n] = hs[n] \/ handles'[n] = Unregistered
    BY <1>6 DEF Settled
  <2>2. Unregistered.anc = {}
    BY DEF Unregistered
  <2> QED
    BY <2>1, <2>2
<1>8. \A r \in References : Kept(r)' => Kept(r) /\ r \notin rt \ due /\ r.h # n0 /\ hs[r.h] = handles[r.h]
  <2>1. SUFFICES ASSUME NEW r \in References, Kept(r)'
        PROVE  Kept(r) /\ r \notin rt \ due
    BY <1>2, <1>3, OwedFacts
  <2>2. CASE r \in due
    BY <1>4, <1>6, <2>2
  <2>3. CASE \E n \in Numbers : r \in handles'[n].anc
    <3>1. PICK n \in Numbers : r \in handles'[n].anc
      BY <2>3
    <3>2. CASE n = n0
      <4>1. r \in OpenAncestor
        BY <1>3, <1>7, <3>1, <3>2
      <4> QED
        BY <1>1, <1>2, <1>6, <4>1 DEF Kept, PlacesInv
    <3>3. CASE n # n0
      <4>1. r \in handles[n].anc
        BY <1>3, <1>7, <3>1, <3>3
      <4> QED
        BY <1>1, <1>2, <1>6, <3>3, <4>1 DEF Kept, PlacesInv
    <3> QED
      BY <3>2, <3>3
  <2>4. CASE \E d \in Descriptors : r \in descriptors[d].anc
    BY <1>1, <1>2, <1>6, <2>4 DEF Kept, PlacesInv
  <2> QED
    BY <1>5, <2>1, <2>2, <2>3, <2>4 DEF Kept
<1>9. PlacesInv'
  <2>1. /\ \A n \in Numbers : handles'[n].anc \cap due = {}
        /\ \A n, k \in Numbers : n # k => handles'[n].anc \cap handles'[k].anc = {}
        /\ \A n \in Numbers, d \in Descriptors : handles'[n].anc \cap descriptors[d].anc = {}
    <3>1. \A n \in Numbers : hs[n].anc \cap due = {}
      BY <1>1, <1>2, <1>3, <1>6 DEF PlacesInv
    <3>2. \A n, k \in Numbers : n # k => hs[n].anc \cap hs[k].anc = {}
      <4>1. \A n \in Numbers : n # n0 => hs[n].anc = handles[n].anc
        BY <1>3
      <4>2. hs[n0].anc = OpenAncestor
        BY <1>3
      <4>3. /\ \A n \in Numbers : handles[n].anc \cap OpenAncestor = {}
            /\ \A n, k \in Numbers : n # k => handles[n].anc \cap handles[k].anc = {}
        BY <1>1 DEF PlacesInv
      <4> TAKE n \in Numbers, k \in Numbers
      <4>4. CASE n = n0
        BY <4>1, <4>2, <4>3, <4>4
      <4>5. CASE k = n0
        BY <4>1, <4>2, <4>3, <4>5
      <4> QED
        BY <4>1, <4>3, <4>4, <4>5
    <3>3. \A n \in Numbers, d \in Descriptors : hs[n].anc \cap descriptors[d].anc = {}
      BY <1>1, <1>2, <1>3 DEF PlacesInv
    <3> QED
      BY <1>7, <3>1, <3>2, <3>3
  <2>2. /\ \A d \in Descriptors : descriptors[d].anc \cap due = {}
        /\ \A d, e \in Descriptors : d # e => descriptors[d].anc \cap descriptors[e].anc = {}
    BY <1>1, <1>2, <1>6 DEF PlacesInv
  <2> QED
    BY <1>5, <2>1, <2>2 DEF PlacesInv
<1>10. /\ allocated'[n0] = allocated[n0] /\ handles'[n0] = hs[n0]
       /\ [h |-> n0, g |-> allocated[n0]] \notin ambiguous'
  <2>1. \A r \in (rt \ due) \cup {} : r.h # n0
    BY <1>4
  <2>2. [h |-> n0, g |-> allocated[n0]] \notin rt
    BY <1>4
  <2> QED
    BY <1>2, <1>6, <2>1, <2>2 DEF Settled
<1>11. OpeningInv'
  <2>1. /\ opening'.hand = n0 /\ crt' = crt /\ held' = held /\ foreign' = foreign
        /\ handles'[n0].g = allocated'[n0] /\ handles'[n0].anc = OpenAncestor /\ opening'.made = {}
    BY <1>2, <1>3, <1>5, <1>10
  <2>2. opening'.pc = "retained" =>
           opening'.anc = {[h |-> n0, g |-> handles'[n0].g]} /\ OpenAncestor = {}
    BY <1>3, <1>10 DEF n0
  <2> QED
    BY <1>2, <1>5, <1>10, <2>1, <2>2 DEF OpeningInv, OpenAt, Ref
<1>12. DescriptorsInv'
  <2>1. \A h \in Numbers : hs[h] = handles[h] \/ h = opening.hand
    BY <1>3 DEF n0
  <2> QED
    BY <1>2, <1>4, <1>6, <2>1, SettledDescriptors
<1>13. \A r \in held'.numbers : r \notin rt \ due /\ hs[r.h].g = handles[r.h].g
  <2>1. \A r \in held.numbers : r.h \in Numbers /\ r.h # n0 /\ ~Kept(r)
    BY <1>1, <1>2, KeptFacts, OwedFacts DEF HandleTypes
  <2> QED
    BY <1>3, <1>4, <2>1
<1>14. \A h \in Numbers :
            \/ allocated[h] \in foreign \cup lost'.handles \cup {0}
            \/ hs[h].g = allocated[h]
            \/ \E d \in Live' : crt'[d] = h
            \/ [h |-> h, g |-> allocated[h]] \in ambiguous
  <2>1. SUFFICES ASSUME NEW h \in Numbers, h # n0
        PROVE  \/ allocated[h] \in foreign \cup lost.handles \cup {0}
               \/ handles[h].g = allocated[h]
               \/ \E d \in Live : crt[d] = h
               \/ [h |-> h, g |-> allocated[h]] \in ambiguous
    BY <1>3, <1>5
  <2> QED
    BY <1>1, <2>1 DEF AccountInv, n0
<1>15. \A f \in held'.descriptors : /\ f.d \in Live' \ opening'.made
                                    /\ crt'[f.d] # NoNumber /\ descriptors'[f.d].g = f.g
  BY <1>1, <1>5 DEF HeldInv
<1>16. KeepsOthers(hs, rt, {}, due)
  BY <1>2, <1>4, <1>5, <1>8, <1>9, <1>11, <1>12, <1>13, <1>14, <1>15 DEF KeepsOthers, n0
<1>17. {} \in SUBSET References /\ rt \in SUBSET References
  BY <1>4
<1> QED
  BY <1>6, <1>16, <1>17, SettledStep

(* What a transition that displaces nothing else leaves owed.              *)
LEMMA TransitionFacts ==
  ASSUME RegistrySound, NEW move, move.superseded = {}, Transition(move)
  PROVE  /\ Owed' = Owed \cup move.due /\ \A m \in pending' : m.superseded = {}
         /\ UNCHANGED <<allocated, ambiguous, wronged>>
<1>1. /\ \/ retired' = Completed(retired, {move}) /\ pending' = pending
         \/ /\ retired' = retired \/ retired' = Completed(retired, {move})
            /\ pending' = pending \cup {move}
      /\ UNCHANGED <<allocated, ambiguous, wronged>>
  BY DEF Transition
<1>2. Completed(retired, {move}) = retired \cup move.due
  BY DEF Completed
<1>3. \A m \in pending : m.superseded = {}
  BY RegistryFacts DEF KeptInv
<1>4. CASE retired' = retired \cup move.due /\ pending' = pending
  BY <1>1, <1>3, <1>4 DEF Owed
<1>5. CASE (retired' = retired \/ retired' = retired \cup move.due) /\ pending' = pending \cup {move}
  <2>1. UNION {m.due : m \in pending'} = (UNION {m.due : m \in pending}) \cup move.due
    BY <1>5
  <2> QED
    BY <1>1, <1>3, <1>5, <2>1 DEF Owed
<1> QED
  BY <1>1, <1>2, <1>4, <1>5

(* The ancestor is claimed, then the leaf; an interrupt gives the open up. *)
LEMMA ClaimSteps ==
  ASSUME RegistrySound, HandleTypes', RetainAncestor \/ ClaimLeaf, ~torn'
  PROVE  Registered'
<1> DEFINE n0 == opening.hand
           gen == [g |-> allocated[n0], anc |-> OpenAncestor]
           move == HandleMove(n0, gen)
           rt == Owed \cup handles[n0].anc
           kept == IF OpenAt("leaf") THEN [opening EXCEPT !.pc = "claimed"]
                   ELSE [opening EXCEPT !.pc = "retained", !.anc = {[h |-> n0, g |-> allocated[n0]]}]
           drop == [opening EXCEPT !.pc = "dropped"]
           ensured == IF OpenAt("leaf") THEN gen ELSE Unregistered
<1>1. /\ opening.pc \in {"ancestor", "leaf"}
      /\ \/ ClaimHandle(n0, OpenAncestor, kept, drop) \/ ClaimInterrupted(n0, OpenAncestor, drop)
         \/ ClaimUnmade(n0, ensured, drop)
      /\ UNCHANGED <<foreign, opened, crt, descriptors, held, lost>>
  BY DEF RetainAncestor, ClaimLeaf, OpenAt, OpenAncestor
<1>2. /\ opening.made = {} /\ ~OpenAt("none") /\ ~OpenAt("moved") /\ n0 \in Numbers
      /\ allocated[n0] \notin foreign \cup {0}
      /\ [h |-> n0, g |-> allocated[n0]] \notin ambiguous
      /\ \A d \in Live : crt[d] # n0
      /\ \A r \in held.numbers : r.h # n0
      /\ \A r : Kept(r) => r.h # n0
      /\ ClaimedHandles \in [Numbers -> Registrations]
      /\ \A n \in Numbers : n # n0 => ClaimedHandles[n] = handles[n]
      /\ ClaimedHandles = [handles EXCEPT ![n0] = gen]
  BY <1>1, ClaimFacts DEF ClaimedHandles
<1>3. /\ kept.pc \in {"retained", "claimed"} /\ kept.hand = n0 /\ kept.made = {}
      /\ kept.pc = "retained" =>
            OpenAncestor = {} /\ kept.anc = {[h |-> opening.hand, g |-> allocated[opening.hand]]}
      /\ drop.pc = "dropped" /\ drop.hand = n0 /\ drop.made = {}
  <2>1. opening \in OpeningTypes
    BY RegistryFacts, TypesNow
  <2>2. OpenAt("ancestor") => OpenAncestor = {}
    BY DEF OpenAt, OpenAncestor
  <2> QED
    BY <1>1, <1>2, <2>1, <2>2 DEF OpeningTypes, OpenAt
<1>4. rt \in SUBSET References /\ \A r \in rt : Kept(r) /\ r.h # n0
  BY <1>2, OwedFacts, KeptFacts
<1>5. move.due = handles[n0].anc /\ move.superseded = {} /\ Owed \cup move.due = rt
  <2>1. \A r \in retired : r.h # n0
    BY <1>4 DEF Owed
  <2> QED
    BY <2>1 DEF HandleMove
<1>6. Completed(retired, pending \cup {move}) = rt
  BY <1>5, OwedFacts
<1>7. \A n \in Numbers : ClaimedHandles[n].g \in 0 .. opened
  BY <1>2, RegistryFacts, HandleDomains
<1> HIDE DEF kept, drop, ensured
<1>8. CASE ClaimHandle(n0, OpenAncestor, kept, drop)
  <2>1. PICK out \in OutcomesOf(rt) :
          /\ Retire(ClaimedHandles, rt, rt, {}, out) /\ ~Cut(out)
          /\ pending' = {} /\ opening' \in {kept, drop}
    BY <1>2, <1>6, <1>8 DEF ClaimHandle
  <2> HIDE DEF rt, n0, gen, move
  <2>2. out \in [Numbers -> Outcomes]
    BY DEF OutcomesOf
  <2>3. \A r \in rt : ClaimedHandles[r.h].g = r.g /\ allocated[r.h] = r.g /\ r \notin ambiguous
    BY <1>2, <1>4, KeptFacts DEF References
  <2>4. PICK due \in SUBSET rt : /\ retired' = (rt \ rt) \cup due
                                 /\ Settled(ClaimedHandles, rt, {}, due, out)
    <3>1. HandleTypes /\ ~wronged
      BY RegistryFacts
    <3>2. ClaimedHandles \in [Numbers -> Registrations] /\ rt \in SUBSET References
      BY <1>2, <1>4
    <3>3. rt \in SUBSET rt /\ {} \in SUBSET References
      OBVIOUS
    <3>4. Retire(ClaimedHandles, rt, rt, {}, out) /\ ~Cut(out)
      BY <2>1
    <3> QED
      BY <2>2, <2>3, <3>1, <3>2, <3>3, <3>4, RetireFacts
  <2>5. Owed' = due /\ \A m \in pending' : m.superseded = {}
    BY <2>1, <2>4 DEF Owed
  <2>6. /\ opening'.pc \in {"retained", "claimed", "dropped"} /\ opening'.hand = opening.hand
        /\ opening'.made = opening.made
        /\ opening'.pc = "retained" =>
              OpenAncestor = {} /\ opening'.anc = {[h |-> opening.hand, g |-> allocated[opening.hand]]}
    BY <1>2, <1>3, <2>1 DEF n0
  <2> QED
    BY <1>1, <2>4, <2>5, <2>6, ClaimSettles DEF rt, n0
<1>9. CASE ClaimInterrupted(n0, OpenAncestor, drop)
  <2>1. Transition(move) /\ handles' = ClaimedHandles /\ opening' = drop
    BY <1>2, <1>9 DEF ClaimInterrupted
  <2> HIDE DEF rt, n0, gen, move
  <2>2. /\ Owed' = rt /\ \A m \in pending' : m.superseded = {}
        /\ UNCHANGED <<allocated, ambiguous, wronged>>
    BY <1>5, <2>1, TransitionFacts
  <2>3. Settled(ClaimedHandles, rt, {}, rt, {})
    BY <2>1, <2>2, RegistryFacts DEF Settled, HandleTypes
  <2>4. /\ opening'.pc \in {"retained", "claimed", "dropped"} /\ opening'.hand = opening.hand
        /\ opening'.made = opening.made /\ opening'.pc # "retained"
    BY <1>2, <1>3, <2>1 DEF n0
  <2> QED
    BY <1>1, <2>2, <2>3, <2>4, ClaimSettles DEF rt, n0
<1>10. CASE ClaimUnmade(n0, ensured, drop)
  <2>1. /\ handles[n0] = Unregistered /\ handles' = [handles EXCEPT ![n0] = ensured]
        /\ opening' = drop
        /\ UNCHANGED <<allocated, retired, ambiguous, residual, pending, wronged>>
    BY <1>10 DEF ClaimUnmade
  <2>2. handles[n0].anc = {} /\ rt = Owed /\ Owed' = Owed
    BY <2>1 DEF Unregistered, Owed
  <2>3. \A m \in pending' : m.superseded = {}
    BY <2>1, RegistryFacts DEF KeptInv
  <2>4. CASE OpenAt("leaf")
    <3>1. handles' = ClaimedHandles
      BY <1>2, <2>1, <2>4 DEF ensured
    <3>2. Settled(ClaimedHandles, rt, {}, rt, {})
      BY <2>1, <3>1, RegistryFacts DEF Settled, HandleTypes
    <3>3. /\ opening'.pc \in {"retained", "claimed", "dropped"} /\ opening'.hand = opening.hand
          /\ opening'.made = opening.made /\ opening'.pc # "retained"
      BY <1>2, <1>3, <2>1 DEF n0
    <3> HIDE DEF n0
    <3> QED
      BY <1>1, <2>2, <2>3, <3>2, <3>3, ClaimSettles DEF rt, n0
  <2>5. CASE ~OpenAt("leaf")
    <3> HIDE DEF n0
    <3>1. handles' = handles
      BY <1>2, <2>1, <2>5, RegistryFacts, TypesNow DEF ensured
    <3>2. RegistryStays
      BY <1>1, <1>2, <1>3, <2>1, <3>1, RegistryFacts DEF RegistryStays, HandleTypes
    <3>3. OpenAncestor = {} /\ OpenAncestor' = {} /\ opening'.pc = "dropped" /\ opening'.hand = n0
      BY <1>3, <2>1, <2>5 DEF OpenAncestor, OpenAt
    <3>4. OpeningInv'
      BY <1>1, <1>2, <1>3, <2>1, <3>1, <3>3 DEF OpeningInv, OpenAt, Live
    <3>5. AccountInv'
      BY <1>1, <2>1, <3>1, <3>3, RegistryFacts DEF AccountInv, Live, n0
    <3>6. \A r : Kept(r) /\ ~OpenAt("none")' => r.h # opening'.hand
      BY <1>2, <3>3
    <3> QED
      BY <1>1, <1>2, <3>2, <3>3, <3>4, <3>5, <3>6, QuietKeeps
  <2> QED
    BY <2>4, <2>5
<1> QED
  BY <1>1, <1>8, <1>9, <1>10

(* The handle that close_raw is asked to close, of a caller or of the open *)
(* in progress: nothing that is kept has its number.                       *)
Closable(q) ==
  /\ q \in References /\ allocated[q.h] = q.g /\ q.g \notin foreign \cup {0} /\ q \notin ambiguous
  /\ \A r : Kept(r) => r.h # q.h
  /\ \A d \in Live : crt[d] # q.h

(* What close_raw does with the right generation: it closes the handle and *)
(* its ancestors, or leaves the handle registered with them.               *)
ClosedLeaf(q, hs, due, out) ==
  LET anc == handles[q.h].anc IN
  /\ hs = [handles EXCEPT ![q.h] = Unregistered] /\ Settled(hs, anc, {q}, due, out)
  /\ due \subseteq anc /\ retired' = retired \cup due
  /\ handles'[q.h] = Unregistered /\ allocated'[q.h] = 0
LeftLeaf(q, hs, due, out) ==
  /\ hs = [handles EXCEPT ![q.h] = [g |-> q.g, anc |-> handles[q.h].anc]]
  /\ Settled(hs, {q}, {}, due, out) /\ due \subseteq {q} /\ retired' = retired
  /\ q \in due \/ q \in ambiguous'

LEMMA CloseRawFacts ==
  ASSUME RegistrySound, NEW q, Closable(q), CloseRaw(q, FALSE), ~torn'
  PROVE  \E hs, due, out : ClosedLeaf(q, hs, due, out) \/ LeftLeaf(q, hs, due, out)
<1> DEFINE anc == handles[q.h].anc
           cur == CurrentHandle(q)
           ref == [h |-> q.h, g |-> cur.g]
<1>1. /\ HandleTypes /\ ~wronged /\ q \in References /\ q.h \in Numbers /\ q = [h |-> q.h, g |-> q.g]
      /\ handles \in [Numbers -> Registrations] /\ cur \in Registrations
      /\ Unregistered.anc = {} /\ Unregistered \in Registrations
  BY RegistryFacts, OwedFacts, TypesNow, HandleDomains, CurrentHandleTypes DEF Closable
<1>2. cur.g = q.g /\ cur.anc = anc /\ cur = [g |-> q.g, anc |-> anc]
  <2>1. /\ cur.g = q.g /\ handles[q.h] \in {cur, Unregistered}
        /\ handles[q.h] = Unregistered => cur.anc = {}
    <3> HIDE DEF cur
    <3> QED
      BY DEF CloseRaw, cur
  <2>2. cur.anc = anc
    BY <1>1, <2>1
  <2> HIDE DEF cur, anc
  <2>3. cur = [g |-> cur.g, anc |-> cur.anc]
    BY <1>1 DEF Registrations
  <2> QED
    BY <2>1, <2>2, <2>3
<1>3. ref \notin ambiguous /\ ref = q
  BY <1>1, <1>2 DEF Closable
<1>4. anc \in SUBSET References /\ anc \cap retired = {}
  BY <1>1, OwedFacts, RegistryFacts DEF PlacesInv, Owed
<1>5. \A r \in anc : /\ Kept(r) /\ r.h # q.h /\ allocated[r.h] = r.g
                     /\ handles[r.h].g = r.g /\ r \notin ambiguous
  BY <1>1, KeptFacts DEF Closable
<1>6. PICK out \in OutcomesOf({q} \cup cur.anc) :
        /\ ~Cut(out)
        /\ \/ /\ out[q.h] = "closed"
              /\ Retire([handles EXCEPT ![q.h] = Unregistered], retired \cup cur.anc,
                        cur.anc, {q}, out)
           \/ /\ out[q.h] # "closed" /\ CloseAttempts({q}, out)
              /\ handles' = [handles EXCEPT ![q.h] = cur]
              /\ ambiguous' = IF out[q.h] \in {"retryable", "cut"} THEN ambiguous
                              ELSE ambiguous \cup {ref}
              /\ (retired' = retired \/ out[q.h] = "cut")
  <2> HIDE DEF cur
  <2>1. ref \notin ambiguous
    BY <1>3
  <2> QED
    BY <2>1 DEF CloseRaw, ref, cur
<1>7. out \in [Numbers -> Outcomes]
  BY <1>6 DEF OutcomesOf
<1> HIDE DEF cur, ref, anc
<1>8. CASE /\ out[q.h] = "closed"
           /\ Retire([handles EXCEPT ![q.h] = Unregistered], retired \cup anc, anc, {q}, out)
  <2> DEFINE hs == [handles EXCEPT ![q.h] = Unregistered]
  <2>1. hs \in [Numbers -> Registrations]
    BY <1>1
  <2>2. \A r \in anc : hs[r.h].g = r.g /\ allocated[r.h] = r.g /\ r \notin ambiguous
    <3>1. \A r \in anc : r.h \in Numbers
      BY <1>4, OwedFacts
    <3> QED
      BY <1>1, <1>5, <3>1
  <2>3. retired \cup anc \in SUBSET References /\ anc \in SUBSET (retired \cup anc)
        /\ {q} \in SUBSET References
    BY <1>1, <1>4 DEF HandleTypes
  <2>4. \A x \in {q} : allocated[x.h] = x.g
    BY DEF Closable
  <2>5. hs[q.h] = Unregistered
    BY <1>1
  <2>6. Retire(hs, retired \cup anc, anc, {q}, out)
    BY <1>8
  <2> HIDE DEF hs
  <2>7. PICK due \in SUBSET anc :
          retired' = ((retired \cup anc) \ anc) \cup due /\ Settled(hs, anc, {q}, due, out)
    <3>1. HandleTypes /\ ~wronged /\ ~Cut(out)
      BY <1>1, <1>6
    <3> QED
      BY <1>7, <2>1, <2>2, <2>3, <2>4, <2>6, <3>1, RetireFacts
  <2>8. retired' = retired \cup due
    BY <1>4, <2>7
  <2>9. handles'[q.h] = Unregistered /\ allocated'[q.h] = 0
    BY <1>1, <1>8, <2>5, <2>7 DEF Settled
  <2> QED
    BY <2>7, <2>8, <2>9 DEF ClosedLeaf, anc, hs
<1>9. CASE out[q.h] # "closed" /\ CloseAttempts({q}, out)
           /\ handles' = [handles EXCEPT ![q.h] = cur] /\ retired' = retired
           /\ ambiguous' = IF out[q.h] = "retryable" THEN ambiguous ELSE ambiguous \cup {q}
  <2> DEFINE hs == [handles EXCEPT ![q.h] = cur]
             due == IF out[q.h] = "retryable" THEN {q} ELSE {}
  <2>1. Attempted({q}, out)
    BY <1>1, <1>9, CloseFacts DEF Closable
  <2>2. /\ ambiguous \subseteq ambiguous' /\ ambiguous' \subseteq ambiguous \cup ({q} \ due)
        /\ q \in due \/ q \in ambiguous'
    BY <1>9
  <2>3. ASSUME NEW h \in Numbers, \A r \in ({q} \ due) \cup {} : r.h # h
        PROVE  allocated'[h] = allocated[h]
    <3>1. CASE h = q.h
      BY <2>1, <2>3, <3>1 DEF Attempted
    <3>2. CASE h # q.h
      BY <2>1, <2>3, <3>2 DEF Attempted
    <3> QED
      BY <3>1, <3>2
  <2>4. Settled(hs, {q}, {}, due, out)
    BY <1>9, <2>1, <2>2, <2>3 DEF Settled, Attempted
  <2>5. hs = [handles EXCEPT ![q.h] = [g |-> q.g, anc |-> anc]]
    BY <1>2
  <2>6. due \subseteq {q}
    OBVIOUS
  <2> HIDE DEF hs, due
  <2> QED
    BY <1>9, <2>2, <2>4, <2>5, <2>6 DEF LeftLeaf, anc
<1>10. out[q.h] # "cut"
  BY <1>1, <1>6 DEF Cut
<1> QED
  BY <1>2, <1>3, <1>6, <1>8, <1>9, <1>10

(* The rest of such a step: no open is in progress after it, the caller    *)
(* keeps a handle that was not closed or lets it go, and the C runtime may *)
(* keep a descriptor of the handle that the module has lost.               *)
CloseEnds(q) ==
  /\ UNCHANGED <<foreign, descriptors, pending, opened>>
  /\ OpenAt("none") \/ (OpenAt("dropped") /\ opening.hand = q.h)
  /\ opening.made = {} /\ opening'.made = {} /\ opening'.pc = "none"
  /\ held'.numbers \subseteq held.numbers /\ held'.descriptors = held.descriptors
  /\ q \in held'.numbers => q \in held.numbers /\ handles'[q.h].g = q.g /\ q \notin ambiguous'
  /\ lost'.handles = lost.handles /\ lost.descriptors \subseteq lost'.descriptors
  /\ \A d \in Descriptors : crt'[d] = crt[d] \/ (crt[d] = NoNumber /\ crt'[d] = q.h)
  /\ \A d \in Descriptors : crt'[d] = crt[d] \/ d \in lost'.descriptors
  /\ \A d \in lost'.descriptors : d \in lost.descriptors \/ (crt[d] = NoNumber /\ crt'[d] = q.h)

LEMMA CloseEndFacts ==
  ASSUME RegistrySound, HandleTypes', NEW q, Closable(q), CloseEnds(q)
  PROVE  /\ Live' \subseteq Live /\ \A d \in Live' : crt'[d] = crt[d]
         /\ \A d \in Live : crt[d] # NoNumber => d \in Live'
         /\ \A d \in lost'.descriptors : crt'[d] # NoNumber
         /\ \A f \in held'.descriptors : /\ f.d \in Live' \ opening'.made
                                         /\ crt'[f.d] # NoNumber /\ descriptors'[f.d].g = f.g
         /\ \A r \in held'.numbers : r.h = q.h => r = q
         /\ OpeningInv' /\ OpenAncestor' = {} /\ OpenAncestor = {} /\ ~OpenAt("moved")
<1>1. HandleTypes /\ HeldInv /\ DescriptorsInv /\ lost.descriptors \subseteq Descriptors
      /\ lost'.descriptors \subseteq Descriptors /\ held.numbers \subseteq References
  BY RegistryFacts DEF HandleTypes
<1>2. q \in References /\ q.h \in Numbers /\ q.h # NoNumber
  BY OwedFacts, HandlesAssumption DEF Closable, NoNumber
<1>3. /\ Live' \subseteq Live /\ \A d \in Live' : crt'[d] = crt[d]
  BY DEF Live, CloseEnds
<1>4. \A d \in Live : crt[d] # NoNumber => d \in Live'
  BY DEF Live, CloseEnds
<1>5. ASSUME NEW d \in lost'.descriptors PROVE crt'[d] # NoNumber
  <2>1. d \in Descriptors /\ (d \in lost.descriptors => crt[d] # NoNumber)
    BY <1>1 DEF DescriptorsInv
  <2> QED
    BY <1>2, <2>1 DEF CloseEnds
<1>6. ASSUME NEW f \in held'.descriptors
      PROVE  f.d \in Live' \ opening'.made /\ crt'[f.d] # NoNumber /\ descriptors'[f.d].g = f.g
  <2>1. f.d \in Live /\ crt[f.d] # NoNumber /\ descriptors[f.d].g = f.g
    BY <1>1 DEF HeldInv, CloseEnds
  <2>2. f.d \in Live' /\ crt'[f.d] = crt[f.d]
    BY <1>3, <1>4, <2>1
  <2> QED
    BY <2>1, <2>2 DEF CloseEnds
<1>7. ASSUME NEW r \in held'.numbers, r.h = q.h PROVE r = q
  <2>1. r \in References /\ allocated[r.h] = r.g
    BY <1>1 DEF HeldInv, Own, CloseEnds
  <2>2. r = [h |-> r.h, g |-> r.g] /\ q = [h |-> q.h, g |-> q.g]
    BY <1>2, <2>1, OwedFacts
  <2> QED
    BY <1>7, <2>1, <2>2 DEF Closable
<1>8. OpeningInv' /\ OpenAncestor' = {} /\ OpenAncestor = {} /\ ~OpenAt("moved")
  BY DEF CloseEnds, OpeningInv, OpenAncestor, OpenAt
<1> QED
  BY <1>3, <1>4, <1>5, <1>6, <1>7, <1>8

(* The handle is closed.                                                   *)
LEMMA CloseLeafSettles ==
  ASSUME RegistrySound, HandleTypes', NEW q, Closable(q), CloseEnds(q), NEW hs, NEW due, NEW out,
         ClosedLeaf(q, hs, due, out)
  PROVE  Registered'
<1> DEFINE anc == handles[q.h].anc
<1>1. /\ HandleTypes /\ PlacesInv /\ HeldInv /\ AccountInv /\ KeptInv
      /\ q \in References /\ q.h \in Numbers
      /\ handles \in [Numbers -> Registrations] /\ anc \in SUBSET References
  BY RegistryFacts, OwedFacts, TypesNow DEF Closable
<1>2. /\ hs = [handles EXCEPT ![q.h] = Unregistered] /\ Settled(hs, anc, {q}, due, out)
      /\ due \in SUBSET anc /\ retired' = retired \cup due
      /\ handles'[q.h] = Unregistered /\ allocated'[q.h] = 0
      /\ Unregistered.anc = {} /\ Unregistered.g = 0
  BY DEF ClosedLeaf, Unregistered
<1>3. \A n \in Numbers : n # q.h => hs[n] = handles[n]
  BY <1>1, <1>2
<1>4. \A r \in anc : Kept(r) /\ allocated[r.h] = r.g
  BY <1>1, KeptFacts
<1>5. /\ Live' \subseteq Live /\ \A d \in Live' : crt'[d] = crt[d]
      /\ \A d \in Live : crt[d] # NoNumber => d \in Live'
      /\ \A d \in lost'.descriptors : crt'[d] # NoNumber
      /\ \A f \in held'.descriptors : /\ f.d \in Live' \ opening'.made
                                      /\ crt'[f.d] # NoNumber /\ descriptors'[f.d].g = f.g
      /\ \A r \in held'.numbers : r.h = q.h => r = q
      /\ OpeningInv' /\ OpenAncestor' = {} /\ OpenAncestor = {} /\ ~OpenAt("moved")
  BY CloseEndFacts
<1>6. Owed' = Owed \cup due
  BY <1>2 DEF Owed, CloseEnds
<1>7. \A n \in Numbers : /\ handles'[n].anc \subseteq handles[n].anc
                         /\ handles'[n].anc \cap due = {}
  <2> TAKE n \in Numbers
  <2>1. CASE n = q.h
    BY <1>2, <2>1
  <2>2. CASE n # q.h
    <3>1. handles'[n] = handles[n] \/ handles'[n] = Unregistered
      BY <1>2, <1>3, <2>2 DEF Settled
    <3>2. handles[n].anc \cap anc = {}
      BY <1>1, <2>2 DEF PlacesInv
    <3> HIDE DEF anc
    <3> QED
      BY <1>2, <3>1, <3>2
  <2> QED
    BY <2>1, <2>2
<1>8. /\ \A n \in Numbers : n # q.h => handles[n].anc \cap anc = {}
      /\ \A d \in Descriptors : descriptors[d].anc \cap anc = {}
      /\ anc \cap Owed = {}
  BY <1>1, <1>5 DEF PlacesInv
<1>9. Closable(q) /\ descriptors' = descriptors
  BY DEF CloseEnds
<1> HIDE DEF anc
<1>10. \A r \in References : Kept(r)' =>
         Kept(r) /\ r \notin anc \ due /\ hs[r.h] = handles[r.h] /\ q.h # r.h
  <2> SUFFICES ASSUME NEW r \in References, Kept(r)'
      PROVE  Kept(r) /\ r \notin anc \ due
    BY <1>3, <1>9, OwedFacts DEF Closable
  <2>1. CASE r \in Owed'
    BY <1>2, <1>4, <1>6, <1>8, <2>1 DEF Kept
  <2>2. CASE \E n \in Numbers : r \in handles'[n].anc
    <3>1. PICK n \in Numbers : r \in handles'[n].anc
      BY <2>2
    <3>2. n # q.h /\ r \in handles[n].anc
      BY <1>2, <1>7, <3>1
    <3> QED
      BY <1>8, <3>2 DEF Kept
  <2>3. CASE \E d \in Descriptors : r \in descriptors[d].anc
    BY <1>8, <2>3 DEF Kept
  <2> QED
    BY <1>5, <1>9, <2>1, <2>2, <2>3 DEF Kept
<1>11. PlacesInv'
  <2>1. /\ \A n \in Numbers : handles'[n].anc \cap Owed' = {}
        /\ \A n, k \in Numbers : n # k => handles'[n].anc \cap handles'[k].anc = {}
        /\ \A n \in Numbers, d \in Descriptors : handles'[n].anc \cap descriptors[d].anc = {}
    BY <1>1, <1>5, <1>6, <1>7 DEF PlacesInv
  <2>2. /\ \A d \in Descriptors : descriptors[d].anc \cap Owed' = {}
        /\ \A d, e \in Descriptors : d # e => descriptors[d].anc \cap descriptors[e].anc = {}
    BY <1>1, <1>2, <1>6, <1>8 DEF PlacesInv
  <2> QED
    BY <1>5, <1>9, <2>1, <2>2 DEF PlacesInv
<1>12. DescriptorsInv'
  <2> DEFINE nums == {q.h} \cup {r.h : r \in anc}
  <2>1. \A h \in Numbers : h \notin nums =>
          allocated'[h] = allocated[h] /\ (handles'[h] = handles[h] \/ handles'[h].g = 0)
    BY <1>2, <1>3 DEF Settled
  <2>2. ASSUME NEW d \in Live \ opening.made, crt[d] # NoNumber
        PROVE  crt[d] \notin nums
    <3>1. \A r \in anc : crt[d] # r.h
      BY <1>4, <2>2, KeptFacts
    <3>2. crt[d] # q.h
      BY <1>9, <2>2 DEF Closable
    <3> QED
      BY <3>1, <3>2
  <2> HIDE DEF nums
  <2>3. \A d \in Live \ opening.made : crt[d] # NoNumber =>
          /\ allocated'[crt[d]] = descriptors[d].g /\ descriptors[d].g \notin foreign \cup {0}
          /\ handles'[crt[d]].g = 0
          /\ \A e \in Live : crt[e] = crt[d] => e = d
    BY <2>1, <2>2, DescriptorsKeep
  <2> QED
    BY <1>5, <2>3 DEF DescriptorsInv, CloseEnds
<1>13. \A r \in held'.numbers : r \notin anc \ due /\ hs[r.h].g = handles[r.h].g /\ q.h # r.h
  <2> SUFFICES ASSUME NEW r \in held'.numbers
      PROVE  r \notin anc /\ hs[r.h].g = handles[r.h].g /\ q.h # r.h
    OBVIOUS
  <2>1. r \in held.numbers /\ r \in References /\ Own(r)
    BY <1>1 DEF HeldInv, HandleTypes, CloseEnds
  <2>2. q.h # r.h
    <3>1. SUFFICES ASSUME r = q PROVE FALSE
      BY <1>5
    <3>2. handles'[q.h].g = q.g /\ q.g # 0
      BY <3>1 DEF CloseEnds, Closable
    <3> QED
      BY <1>2, <3>2
  <2> QED
    BY <1>3, <1>4, <2>1, <2>2, KeptFacts, OwedFacts
<1>14. \A h \in Numbers :
         \/ allocated[h] \in foreign \cup lost'.handles \cup {0} \/ allocated'[h] = 0
         \/ hs[h].g = allocated[h]
         \/ \E d \in Live' : crt'[d] = h
         \/ [h |-> h, g |-> allocated[h]] \in ambiguous
  <2> SUFFICES ASSUME NEW h \in Numbers, h # q.h
      PROVE  \/ allocated[h] \in foreign \cup lost.handles \cup {0}
             \/ handles[h].g = allocated[h]
             \/ \E d \in Live' : crt'[d] = h
             \/ [h |-> h, g |-> allocated[h]] \in ambiguous
    BY <1>2, <1>3 DEF CloseEnds
  <2>1. (\E d \in Live : crt[d] = h) => \E d \in Live' : crt'[d] = h
    <3>1. h # NoNumber
      BY HandlesAssumption DEF NoNumber
    <3> QED
      BY <1>5, <3>1
  <2> QED
    BY <1>1, <2>1 DEF AccountInv, CloseEnds, OpenAt
<1>15. KeepsOthers(hs, anc, {q}, due)
  <2>1. \A m \in pending' : m.superseded = {}
    BY <1>1 DEF KeptInv, CloseEnds
  <2>2. OpenAt("none")' /\ foreign' = foreign /\ opened' = opened /\ held'.numbers \subseteq held.numbers
    BY DEF CloseEnds, OpenAt
  <2> QED
    BY <1>4, <1>5, <1>10, <1>11, <1>12, <1>13, <1>14, <2>1, <2>2 DEF KeepsOthers
<1> QED
  BY <1>1, <1>2, <1>15, SettledStep

(* The handle could not be closed, or may have been.                       *)
LEMMA LeftLeafSettles ==
  ASSUME RegistrySound, HandleTypes', NEW q, Closable(q), CloseEnds(q), NEW hs, NEW due, NEW out,
         LeftLeaf(q, hs, due, out)
  PROVE  Registered'
<1>1. /\ HandleTypes /\ PlacesInv /\ HeldInv /\ AccountInv /\ KeptInv
      /\ q \in References /\ q.h \in Numbers /\ handles \in [Numbers -> Registrations]
  BY RegistryFacts, OwedFacts, TypesNow DEF Closable
<1>2. /\ Settled(hs, {q}, {}, due, out) /\ due \in SUBSET {q} /\ retired' = retired
      /\ q \in due \/ q \in ambiguous'
  BY DEF LeftLeaf
<1>3. /\ hs[q.h].g = q.g /\ hs[q.h].anc = handles[q.h].anc
      /\ \A n \in Numbers : n # q.h => hs[n] = handles[n]
  BY <1>1 DEF LeftLeaf
<1>4. /\ Live' \subseteq Live /\ \A d \in Live' : crt'[d] = crt[d]
      /\ \A d \in Live : crt[d] # NoNumber => d \in Live'
      /\ \A d \in lost'.descriptors : crt'[d] # NoNumber
      /\ \A f \in held'.descriptors : /\ f.d \in Live' \ opening'.made
                                      /\ crt'[f.d] # NoNumber /\ descriptors'[f.d].g = f.g
      /\ \A r \in held'.numbers : r.h = q.h => r = q
      /\ OpeningInv' /\ OpenAncestor' = {} /\ OpenAncestor = {} /\ ~OpenAt("moved")
  BY CloseEndFacts
<1>5. Owed' = Owed /\ descriptors' = descriptors
  BY <1>2 DEF Owed, CloseEnds
<1>6. \A n \in Numbers : handles'[n].anc \subseteq handles[n].anc
  <2>1. \A n \in Numbers : hs[n].anc = handles[n].anc
    BY <1>3
  <2>2. \A n \in Numbers : handles'[n] = hs[n] \/ handles'[n] = Unregistered
    BY <1>2 DEF Settled
  <2> QED
    BY <2>1, <2>2 DEF Unregistered
<1>7. \A r \in References : Kept(r)' =>
        Kept(r) /\ r \notin {q} \ due /\ hs[r.h] = handles[r.h]
  <2>1. \A r : Kept(r)' => Kept(r)
    BY <1>4, <1>5, <1>6 DEF Kept
  <2>2. \A r \in References : Kept(r) => r.h # q.h /\ r.h \in Numbers
    BY OwedFacts DEF Closable
  <2> QED
    BY <1>3, <2>1, <2>2
<1>8. PlacesInv'
  BY <1>1, <1>4, <1>5, <1>6 DEF PlacesInv
<1>9. DescriptorsInv'
  <2>1. \A h \in Numbers : h \notin {q.h} =>
          allocated'[h] = allocated[h] /\ (handles'[h] = handles[h] \/ handles'[h].g = 0)
    BY <1>2, <1>3 DEF Settled
  <2>2. \A d \in Live : crt[d] \notin {q.h}
    BY DEF Closable
  <2>3. ASSUME NEW nums, nums = {q.h}
        PROVE \A d \in Live \ opening.made : crt[d] # NoNumber =>
          /\ allocated'[crt[d]] = descriptors[d].g /\ descriptors[d].g \notin foreign \cup {0}
          /\ handles'[crt[d]].g = 0
          /\ \A e \in Live : crt[e] = crt[d] => e = d
    <3>1. /\ \A d \in Live \ opening.made : crt[d] \notin nums
          /\ \A h \in Numbers : h \notin nums =>
               allocated'[h] = allocated[h] /\ (handles'[h] = handles[h] \/ handles'[h].g = 0)
      BY <2>1, <2>2, <2>3
    <3> QED
      BY <3>1, DescriptorsKeep
  <2>4. \A d \in Live \ opening.made : crt[d] # NoNumber =>
          /\ allocated'[crt[d]] = descriptors[d].g /\ descriptors[d].g \notin foreign \cup {0}
          /\ handles'[crt[d]].g = 0
          /\ \A e \in Live : crt[e] = crt[d] => e = d
    BY <2>3
  <2> QED
    BY <1>4, <2>4 DEF DescriptorsInv, CloseEnds
<1>10. \A r \in held'.numbers : r \notin {q} \ due /\ hs[r.h].g = handles[r.h].g
  <2> TAKE r \in held'.numbers
  <2>1. r \in held.numbers /\ r.h \in Numbers /\ handles[r.h].g = r.g
    BY <1>1, OwedFacts DEF HeldInv, Own, HandleTypes, CloseEnds
  <2>2. r = q => q \notin ambiguous'
    BY DEF CloseEnds
  <2> QED
    BY <1>2, <1>3, <1>4, <2>1, <2>2
<1>11. \A h \in Numbers :
         \/ allocated[h] \in foreign \cup lost'.handles \cup {0}
         \/ hs[h].g = allocated[h]
         \/ \E d \in Live' : crt'[d] = h
         \/ [h |-> h, g |-> allocated[h]] \in ambiguous
  <2> TAKE h \in Numbers
  <2>1. (\E d \in Live : crt[d] = h) => \E d \in Live' : crt'[d] = h
    <3>1. h # NoNumber
      BY HandlesAssumption DEF NoNumber
    <3> QED
      BY <1>4, <3>1
  <2>2. CASE h = q.h
    BY <1>3, <2>2 DEF Closable
  <2>3. CASE h # q.h
    <3>1. \/ allocated[h] \in foreign \cup lost.handles \cup {0}
          \/ handles[h].g = allocated[h]
          \/ \E d \in Live : crt[d] = h
          \/ [h |-> h, g |-> allocated[h]] \in ambiguous
      BY <1>1, <2>3 DEF AccountInv, CloseEnds, OpenAt
    <3> QED
      BY <1>3, <2>1, <2>3, <3>1 DEF CloseEnds
  <2> QED
    BY <2>2, <2>3
<1>12. KeepsOthers(hs, {q}, {}, due)
  <2>1. \A m \in pending' : m.superseded = {}
    BY <1>1 DEF KeptInv, CloseEnds
  <2>2. OpenAt("none")' /\ foreign' = foreign /\ opened' = opened /\ held'.numbers \subseteq held.numbers
    BY DEF CloseEnds, OpenAt
  <2>3. \A r \in {q} : allocated[r.h] = r.g
    BY DEF Closable
  <2> QED
    BY <1>4, <1>7, <1>8, <1>9, <1>10, <1>11, <2>1, <2>2, <2>3 DEF KeepsOthers
<1>13. {q} \in SUBSET References /\ {} \in SUBSET References
  BY <1>1
<1> QED
  BY <1>2, <1>12, <1>13, SettledStep

(* A caller, or an open that is given up, closes its handle.               *)
LEMMA CloseSteps ==
  ASSUME RegistrySound, HandleTypes', GiveUp \/ (\E r \in held.numbers : CloseHeld(r) \/ Unconverted(r)), ~torn'
  PROVE  Registered'
<1>1. HandleTypes /\ HeldInv /\ OpeningInv /\ DescriptorsInv /\ held \in HeldTypes /\ lost \in LostTypes
  BY RegistryFacts, TypesNow
<1>2. ASSUME NEW q, Closable(q), CloseEnds(q), CloseRaw(q, FALSE)
      PROVE  Registered'
  <2>1. PICK hs, due, out : ClosedLeaf(q, hs, due, out) \/ LeftLeaf(q, hs, due, out)
    BY <1>2, CloseRawFacts
  <2> QED
    BY <1>2, <2>1, CloseLeafSettles, LeftLeafSettles
<1>3. CASE GiveUp
  <2> DEFINE q == [h |-> opening.hand, g |-> allocated[opening.hand]]
  <2>1. /\ OpenAt("dropped") /\ ~OpenAt("none") /\ opening.made = {} /\ opening.hand \in Numbers
        /\ CloseRaw(q, FALSE) /\ opening' = NoOpen
        /\ UNCHANGED <<foreign, crt, descriptors, pending, held, opened, lost>>
    BY <1>1, <1>3 DEF GiveUp, OpenAt, OpeningInv, HandleTypes
  <2>2. q.h = opening.hand /\ q.g = allocated[opening.hand] /\ q \in References
    BY <1>1, <2>1, HandleDomains
  <2>3. NoOpen.made = {} /\ NoOpen.pc = "none"
    BY DEF NoOpen
  <2>4. /\ q.g \notin foreign \cup {0} /\ q \notin ambiguous
        /\ \A d \in Live : crt[d] # q.h
        /\ \A r \in held.numbers : r.h # q.h
    BY <1>1, <2>1 DEF OpeningInv
  <2> HIDE DEF q
  <2>5. Closable(q)
    BY <2>1, <2>2, <2>4, KeptFacts DEF Closable
  <2>6. q \notin held.numbers
    BY <2>4
  <2>7. opening'.made = {} /\ opening'.pc = "none"
    BY <2>1, <2>3
  <2>8. CloseEnds(q)
    BY <2>1, <2>2, <2>6, <2>7 DEF CloseEnds
  <2> QED
    BY <1>2, <2>1, <2>5, <2>8
<1>4. ASSUME NEW q \in held.numbers, CloseHeld(q) \/ Unconverted(q)
      PROVE  Registered'
  <2> DEFINE less == [held EXCEPT !.numbers = @ \ {q}]
  <2>1. /\ OpenAt("none") /\ opening.made = {} /\ CloseRaw(q, FALSE) /\ opening' = opening
        /\ UNCHANGED <<foreign, descriptors, pending, opened>>
    BY <1>1, <1>4 DEF CloseHeld, Unconverted, OpenAt, OpeningInv
  <2>2. q \in References /\ q.h \in Numbers /\ Own(q)
    BY <1>1, OwedFacts DEF HeldInv, HandleTypes
  <2>3. \A d \in Live : crt[d] # q.h
    <3> SUFFICES ASSUME NEW d \in Live, crt[d] = q.h PROVE FALSE
      OBVIOUS
    <3>1. crt[d] # NoNumber
      BY <2>2, HandlesAssumption DEF NoNumber
    <3> QED
      BY <1>1, <2>1, <2>2, <3>1 DEF DescriptorsInv, Own
  <2>4. Closable(q)
    BY <2>2, <2>3, KeptFacts DEF Closable, Own
  <2>5. less.numbers = held.numbers \ {q} /\ less.descriptors = held.descriptors
    BY <1>1 DEF HeldTypes
  <2> HIDE DEF less
  <2>6. /\ held'.numbers \subseteq held.numbers /\ held'.descriptors = held.descriptors
        /\ q \in held'.numbers => handles'[q.h].g = q.g /\ q \notin ambiguous'
    <3>1. \/ held' = less
          \/ held' = held /\ handles'[q.h].g = q.g /\ q \notin ambiguous'
      BY <1>4 DEF CloseHeld, Unconverted, less
    <3> QED
      BY <2>5, <3>1
  <2>7. /\ lost'.handles = lost.handles /\ lost.descriptors \subseteq lost'.descriptors
        /\ \A d \in Descriptors : crt'[d] = crt[d] \/ (crt[d] = NoNumber /\ crt'[d] = q.h)
        /\ \A d \in Descriptors : crt'[d] = crt[d] \/ d \in lost'.descriptors
        /\ \A d \in lost'.descriptors : d \in lost.descriptors \/ (crt[d] = NoNumber /\ crt'[d] = q.h)
    <3>1. CASE UNCHANGED <<crt, lost>>
      BY <3>1
    <3>2. ASSUME NEW d \in Descriptors, crt[d] = NoNumber, crt' = [crt EXCEPT ![d] = q.h],
                 lost' = [lost EXCEPT !.descriptors = @ \cup {d}]
          PROVE  /\ lost'.handles = lost.handles /\ lost.descriptors \subseteq lost'.descriptors
                 /\ \A e \in Descriptors : crt'[e] = crt[e] \/ (crt[e] = NoNumber /\ crt'[e] = q.h)
                 /\ \A e \in Descriptors : crt'[e] = crt[e] \/ e \in lost'.descriptors
                 /\ \A e \in lost'.descriptors :
                       e \in lost.descriptors \/ (crt[e] = NoNumber /\ crt'[e] = q.h)
      <4>1. lost'.handles = lost.handles /\ lost'.descriptors = lost.descriptors \cup {d}
        BY <1>1, <3>2 DEF LostTypes
      <4>2. crt \in [Descriptors -> Numbers \cup {NoNumber}]
        BY <1>1, TypesNow
      <4>3. crt'[d] = q.h /\ \A e \in Descriptors : e # d => crt'[e] = crt[e]
        BY <3>2, <4>2
      <4> QED
        BY <3>2, <4>1, <4>3
    <3>3. UNCHANGED <<crt, lost>> \/ \E d \in Descriptors :
            /\ crt[d] = NoNumber /\ crt' = [crt EXCEPT ![d] = q.h]
            /\ lost' = [lost EXCEPT !.descriptors = @ \cup {d}]
      BY <1>4 DEF CloseHeld, Unconverted
    <3> QED
      BY <3>1, <3>2, <3>3
  <2>8. CloseEnds(q)
    BY <2>1, <2>6, <2>7 DEF CloseEnds, OpenAt
  <2> QED
    BY <1>2, <2>1, <2>4, <2>8
<1> QED
  BY <1>3, <1>4

(* A descriptor is made of a handle; the open is the conversion.           *)
LEMMA ConvertStep ==
  ASSUME RegistrySound, HandleTypes', NEW r \in held.numbers, NEW d \in Descriptors, Convert(r, d)
  PROVE  Registered'
<1> DEFINE less == [held EXCEPT !.numbers = @ \ {r}]
           conv == [pc |-> "converted", anc |-> handles[r.h].anc, hand |-> r.h, made |-> {d}]
<1>1. /\ OpenAt("none") /\ Own(r) /\ crt[d] = NoNumber /\ crt' = [crt EXCEPT ![d] = r.h]
      /\ opening' = conv /\ held' = less
      /\ UNCHANGED <<allocated, foreign, handles, descriptors, retired, ambiguous, residual, pending,
                     opened, wronged, torn, lost>>
  BY DEF Convert, registry
<1>2. /\ HandleTypes /\ ~wronged /\ KeptInv /\ PlacesInv /\ OpeningInv /\ HeldInv /\ DescriptorsInv
      /\ AccountInv /\ opening.made = {} /\ held.numbers \subseteq References
  BY <1>1, RegistryFacts DEF OpeningInv, OpenAt, HandleTypes
<1>3. /\ r \in References /\ r.h \in Numbers /\ r.h # NoNumber /\ r = [h |-> r.h, g |-> r.g]
  BY <1>2, OwedFacts, HandlesAssumption DEF NoNumber
<1>4. /\ opening'.pc = "converted" /\ opening'.anc = handles[r.h].anc /\ opening'.hand = r.h
      /\ opening'.made = {d}
  <2>1. conv.pc = "converted" /\ conv.anc = handles[r.h].anc /\ conv.hand = r.h /\ conv.made = {d}
    OBVIOUS
  <2> HIDE DEF conv
  <2> QED
    BY <1>1, <2>1
<1>5. held'.numbers = held.numbers \ {r} /\ held'.descriptors = held.descriptors
  <2>1. held \in HeldTypes
    BY <1>2, TypesNow
  <2> QED
    BY <1>1, <2>1 DEF HeldTypes
<1> HIDE DEF less, conv
<1>6. /\ crt'[d] = r.h /\ \A e \in Descriptors : e # d => crt'[e] = crt[e]
      /\ d \in Live /\ Live' = Live
  <2>1. crt \in [Descriptors -> Numbers \cup {NoNumber}]
    BY <1>2, TypesNow
  <2>2. d \notin lost.descriptors
    BY <1>1, <1>2 DEF DescriptorsInv
  <2> QED
    BY <1>1, <2>1, <2>2 DEF Live
<1>7. Owed' = Owed /\ OpenAncestor' = {} /\ OpenAncestor = {} /\ \A k : Kept(k)' <=> Kept(k)
  <2>1. Owed' = Owed
    BY <1>1 DEF Owed
  <2>2. OpenAncestor' = {} /\ OpenAncestor = {}
    BY <1>1, <1>4 DEF OpenAncestor, OpenAt
  <2> QED
    BY <1>1, <2>1, <2>2 DEF Kept
<1>8. \A k : Own(k)' <=> Own(k)
  BY <1>1 DEF Own
<1>9. KeptInv'
  <2>1. \A k : Kept(k) => k.h # r.h /\ Own(k) /\ handles[k.h].anc = {} /\ k \notin held.numbers
    BY KeptFacts
  <2>2. \A m \in pending : m.superseded = {}
    BY <1>2 DEF KeptInv
  <2> QED
    BY <1>1, <1>4, <1>5, <1>7, <1>8, <2>1, <2>2 DEF KeptInv
<1>10. PlacesInv'
  BY <1>1, <1>2, <1>4, <1>7 DEF PlacesInv, OpenAt
<1>11. \A e \in Live \ {d} : crt[e] # NoNumber => crt[e] # r.h
  BY <1>1, <1>2 DEF DescriptorsInv, Own
<1>12. OpeningInv'
  <2>1. \A e \in Live' \ {d} : crt'[e] # r.h
    BY <1>3, <1>6, <1>11 DEF Live
  <2>2. \A k \in held'.numbers : k.h # r.h
    <3> SUFFICES ASSUME NEW k \in held'.numbers, k.h = r.h PROVE FALSE
      OBVIOUS
    <3>1. k \in References /\ Own(k) /\ k # r
      BY <1>2, <1>5 DEF HeldInv
    <3>2. k = [h |-> k.h, g |-> k.g]
      BY <3>1, OwedFacts
    <3> QED
      BY <1>1, <1>3, <3>1, <3>2 DEF Own
  <2>3. /\ allocated[r.h] \notin foreign \cup {0} /\ handles[r.h].g = allocated[r.h]
        /\ [h |-> r.h, g |-> allocated[r.h]] \notin ambiguous
    BY <1>1, <1>3 DEF Own
  <2> QED
    BY <1>1, <1>4, <1>6, <2>1, <2>2, <2>3 DEF OpeningInv, OpenAt
<1>13. HeldInv'
  <2>1. \A f \in held.descriptors : /\ f.d \in Live /\ crt[f.d] # NoNumber /\ descriptors[f.d].g = f.g
    BY <1>2 DEF HeldInv
  <2>2. \A f \in held.descriptors : f.d # d /\ crt'[f.d] = crt[f.d]
    BY <1>1, <1>6, <2>1 DEF Live
  <2>3. \A k \in held.numbers : Own(k)
    BY <1>2 DEF HeldInv
  <2> QED
    BY <1>1, <1>4, <1>5, <1>6, <1>8, <2>1, <2>2, <2>3 DEF HeldInv
<1>14. DescriptorsInv'
  <2>1. ASSUME NEW e \in Live \ {d}, crt[e] # NoNumber
        PROVE  /\ crt'[e] = crt[e]
               /\ allocated[crt[e]] = descriptors[e].g /\ descriptors[e].g \notin foreign \cup {0}
               /\ handles[crt[e]].g = 0
               /\ \A k \in Live : crt'[k] = crt[e] => k = e
    <3>1. crt'[e] = crt[e] /\ crt[e] # r.h
      BY <1>6, <1>11, <2>1 DEF Live
    <3>2. /\ allocated[crt[e]] = descriptors[e].g /\ descriptors[e].g \notin foreign \cup {0}
          /\ handles[crt[e]].g = 0
          /\ \A k \in Live : crt[k] = crt[e] => k = e
      BY <1>2, <2>1 DEF DescriptorsInv
    <3>3. ASSUME NEW k \in Live, crt'[k] = crt[e] PROVE k = e
      BY <1>6, <3>1, <3>2, <3>3 DEF Live
    <3> QED
      BY <3>1, <3>2, <3>3
  <2>2. \A e \in lost.descriptors : crt'[e] # NoNumber
    <3>1. lost.descriptors \subseteq Descriptors
      BY <1>2 DEF HandleTypes
    <3> QED
      BY <1>2, <1>3, <1>6, <3>1 DEF DescriptorsInv
  <2>3. \A e \in Live \ {d} : crt'[e] = crt[e]
    BY <1>6 DEF Live
  <2> QED
    BY <1>1, <1>4, <1>6, <2>1, <2>2, <2>3 DEF DescriptorsInv
<1>15. AccountInv'
  <2>1. \A h \in Numbers : (\E e \in Live : crt[e] = h) => \E e \in Live' : crt'[e] = h
    <3>1. \A h \in Numbers : h # NoNumber
      BY HandlesAssumption DEF NoNumber
    <3> QED
      BY <1>1, <1>6, <3>1 DEF Live
  <2>2. ~(opening.pc \in {"ancestor", "leaf", "dropped"})
    BY <1>1 DEF OpenAt
  <2> QED
    BY <1>1, <1>2, <2>1, <2>2 DEF AccountInv
<1> QED
  BY <1>1, <1>2, <1>9, <1>10, <1>12, <1>13, <1>14, <1>15 DEF Registered

(* The descriptor being converted.                                         *)
LEMMA ConversionFacts ==
  ASSUME RegistrySound, opening.pc \in {"converted", "moved"}, NEW d \in opening.made
  PROVE  /\ opening.made = {d} /\ d \in Live /\ d \in Descriptors /\ crt[d] = opening.hand
         /\ opening.hand \in Numbers /\ allocated[opening.hand] \notin foreign \cup {0}
         /\ [h |-> opening.hand, g |-> allocated[opening.hand]] \notin ambiguous
         /\ handles[opening.hand].g = allocated[opening.hand]
         /\ opening.anc = handles[opening.hand].anc
         /\ \A e \in Live \ {d} : crt[e] # opening.hand
         /\ \A r \in held.numbers : r.h # opening.hand
         /\ \A r : Kept(r) => r.h # opening.hand
         /\ ~OpenAt("none") /\ OpenAncestor = {}
         /\ opening.pc = "moved" => descriptors[d].g = allocated[opening.hand]
<1>1. OpeningInv /\ ~OpenAt("none") /\ OpenAncestor = {}
  BY RegistryFacts DEF OpenAt, OpenAncestor
<1>2. opening.made = {d} /\ d \in Live /\ crt[d] = opening.hand
  BY <1>1 DEF OpeningInv
<1>3. opening.hand \in Numbers
  BY <1>1, RegistryFacts DEF HandleTypes
<1>4. \A r : Kept(r) => r.h # opening.hand
  BY <1>1, KeptFacts
<1> QED
  BY <1>1, <1>2, <1>3, <1>4 DEF OpeningInv, OpenAt, Live

(* claim_descriptor gives the descriptor the ancestors of the handle; what *)
(* the descriptor's older registration kept is closed, or stays owed.      *)
LEMMA MoveSettles ==
  ASSUME RegistrySound, HandleTypes', OpenAt("converted"), NEW d \in opening.made, NEW due, NEW out,
         due \in SUBSET (Owed \cup descriptors[d].anc),
         Settled(handles, Owed \cup descriptors[d].anc, {}, due, out),
         descriptors' = [descriptors EXCEPT ![d] = [g |-> allocated[opening.hand], anc |-> opening.anc]],
         opening' = [opening EXCEPT !.pc = "moved"],
         UNCHANGED <<foreign, opened, crt, held, lost>>,
         Owed' = due, \A m \in pending' : m.superseded = {}
  PROVE  Registered'
<1> DEFINE n0 == opening.hand
           rt == Owed \cup descriptors[d].anc
<1>1. /\ HandleTypes /\ PlacesInv /\ HeldInv /\ AccountInv
      /\ descriptors \in [Descriptors -> Registrations] /\ opening \in OpeningTypes
  BY RegistryFacts, TypesNow
<1>2. /\ opening.made = {d} /\ d \in Live /\ d \in Descriptors /\ crt[d] = n0
      /\ n0 \in Numbers /\ allocated[n0] \notin foreign \cup {0}
      /\ [h |-> n0, g |-> allocated[n0]] \notin ambiguous
      /\ handles[n0].g = allocated[n0] /\ opening.anc = handles[n0].anc
      /\ \A e \in Live \ {d} : crt[e] # n0
      /\ \A r \in held.numbers : r.h # n0
      /\ \A r : Kept(r) => r.h # n0
      /\ ~OpenAt("none") /\ OpenAncestor = {} /\ ~OpenAt("moved")
  BY ConversionFacts DEF OpenAt
<1>3. /\ opening'.pc = "moved" /\ opening'.hand = n0 /\ opening'.made = {d} /\ opening'.anc = handles[n0].anc
  BY <1>1, <1>2 DEF OpeningTypes
<1>4. /\ descriptors'[d].g = allocated[n0] /\ descriptors'[d].anc = handles[n0].anc
      /\ \A e \in Descriptors : e # d => descriptors'[e] = descriptors[e]
  BY <1>1, <1>2
<1>5. rt \in SUBSET References /\ \A r \in rt : Kept(r) /\ r.h # n0 /\ allocated[r.h] = r.g
  BY <1>2, OwedFacts, KeptFacts
<1>6. /\ Settled(handles, rt, {}, due, out) /\ due \in SUBSET rt
      /\ \A r : r \in rt <=> r \in Owed \/ r \in descriptors[d].anc
  OBVIOUS
<1>7. OpenAncestor' = {} /\ ~OpenAt("none")' /\ OpenAt("moved")' /\ Live' = Live
  BY <1>3 DEF OpenAncestor, OpenAt, Live
<1> HIDE DEF rt, n0
<1>8. \A n \in Numbers : handles'[n].anc \subseteq handles[n].anc /\ handles[n].anc \cap rt = {}
  <2>1. \A n \in Numbers : handles'[n] = handles[n] \/ handles'[n] = Unregistered
    BY <1>6 DEF Settled
  <2>2. \A n \in Numbers : handles[n].anc \cap rt = {}
    BY <1>1, <1>2, <1>6 DEF PlacesInv
  <2>3. Unregistered.anc = {}
    BY DEF Unregistered
  <2> QED
    BY <2>1, <2>2, <2>3
<1>9. \A e \in Descriptors : e # d => descriptors[e].anc \cap rt = {}
  BY <1>1, <1>2, <1>6 DEF PlacesInv
<1>10. \A r \in References : Kept(r)' => Kept(r) /\ r \notin rt \ due
  <2> SUFFICES ASSUME NEW r \in References, Kept(r)'
      PROVE  Kept(r) /\ r \notin rt \ due
    OBVIOUS
  <2>1. CASE r \in due
    BY <1>5, <1>6, <2>1
  <2>2. CASE \E n \in Numbers : r \in handles'[n].anc
    BY <1>8, <2>2 DEF Kept
  <2>3. CASE \E e \in Descriptors : r \in descriptors'[e].anc
    BY <1>2, <1>4, <1>8, <1>9, <2>3 DEF Kept
  <2> QED
    BY <1>7, <2>1, <2>2, <2>3 DEF Kept
<1>11. PlacesInv'
  <2>1. /\ \A n \in Numbers : handles'[n].anc \cap due = {}
        /\ \A n, k \in Numbers : n # k => handles'[n].anc \cap handles'[k].anc = {}
    BY <1>1, <1>6, <1>8 DEF PlacesInv
  <2>2. \A e \in Descriptors : descriptors'[e].anc \cap due = {}
    BY <1>2, <1>4, <1>6, <1>8, <1>9
  <2>3. \A e, k \in Descriptors : e # k => descriptors'[e].anc \cap descriptors'[k].anc = {}
    <3>1. \A e \in Descriptors : handles[n0].anc \cap descriptors[e].anc = {}
      BY <1>1, <1>2 DEF PlacesInv
    <3>2. \A e, k \in Descriptors : e # k => descriptors[e].anc \cap descriptors[k].anc = {}
      BY <1>1 DEF PlacesInv
    <3> TAKE e \in Descriptors, k \in Descriptors
    <3>3. CASE e = d
      BY <1>4, <3>1, <3>3
    <3>4. CASE k = d
      BY <1>4, <3>1, <3>4
    <3>5. CASE e # d /\ k # d
      BY <1>4, <3>2, <3>5
    <3> QED
      BY <3>3, <3>4, <3>5
  <2>4. \A n \in Numbers, e \in Descriptors : handles'[n].anc \cap descriptors'[e].anc = {} \/ n = n0
    <3>1. \A n \in Numbers : n # n0 => handles[n].anc \cap handles[n0].anc = {}
      BY <1>1, <1>2 DEF PlacesInv
    <3>2. \A n \in Numbers, e \in Descriptors : handles[n].anc \cap descriptors[e].anc = {}
      BY <1>1, <1>2 DEF PlacesInv
    <3> QED
      BY <1>4, <1>8, <3>1, <3>2
  <2> QED
    BY <1>3, <1>7, <2>1, <2>2, <2>3, <2>4 DEF PlacesInv
<1>12. /\ allocated'[n0] = allocated[n0] /\ handles'[n0] = handles[n0]
       /\ [h |-> n0, g |-> allocated[n0]] \notin ambiguous'
  <2>1. \A r \in (rt \ due) \cup {} : r.h # n0
    BY <1>5
  <2>2. [h |-> n0, g |-> allocated[n0]] \notin rt
    BY <1>5
  <2> QED
    BY <1>2, <1>6, <2>1, <2>2 DEF Settled
<1>13. OpeningInv'
  <2>1. crt' = crt /\ held' = held /\ foreign' = foreign
    OBVIOUS
  <2> QED
    BY <1>2, <1>3, <1>4, <1>7, <1>12, <2>1 DEF OpeningInv, OpenAt
<1>14. DescriptorsInv'
  <2>1. \A e \in Live \ opening.made : descriptors'[e] = descriptors[e]
    BY <1>2, <1>4 DEF Live
  <2>2. \A r \in rt : Kept(r)
    BY <1>5
  <2>3. opening'.made = opening.made
    BY <1>2, <1>3
  <2>4. rt \in SUBSET References
    BY <1>5
  <2> QED
    BY <1>6, <2>1, <2>2, <2>3, <2>4, SettledDescriptors
<1>15. \A r \in held'.numbers : r \notin rt \ due
  BY <1>5, KeptFacts
<1>16. \A h \in Numbers :
         \/ allocated[h] \in foreign \cup lost'.handles \cup {0}
         \/ handles[h].g = allocated[h]
         \/ \E e \in Live' : crt'[e] = h
         \/ [h |-> h, g |-> allocated[h]] \in ambiguous
  BY <1>1, <1>7 DEF AccountInv, OpenAt
<1>17. \A f \in held'.descriptors : /\ f.d \in Live' \ opening'.made
                                    /\ crt'[f.d] # NoNumber /\ descriptors'[f.d].g = f.g
  <2>1. \A f \in held.descriptors : /\ f.d \in Live \ {d}
                                    /\ crt[f.d] # NoNumber /\ descriptors[f.d].g = f.g
    BY <1>1, <1>2 DEF HeldInv
  <2> QED
    BY <1>3, <1>4, <1>7, <2>1 DEF Live
<1>18. KeepsOthers(handles, rt, {}, due)
  BY <1>2, <1>3, <1>5, <1>7, <1>10, <1>11, <1>13, <1>14, <1>15, <1>16, <1>17 DEF KeepsOthers, n0
<1>19. {} \in SUBSET References /\ rt \in SUBSET References
  BY <1>5
<1> QED
  BY <1>6, <1>18, <1>19, SettledStep

LEMMA ClaimDescriptorStep ==
  ASSUME RegistrySound, HandleTypes', NEW d \in Descriptors, ClaimDescriptor(d), ~torn'
  PROVE  Registered'
<1> DEFINE n0 == opening.hand
           gen == [g |-> allocated[n0], anc |-> opening.anc]
           move == DescriptorMove(d, gen)
           rt == Owed \cup descriptors[d].anc
<1>1. /\ OpenAt("converted") /\ d \in opening.made /\ opening' = [opening EXCEPT !.pc = "moved"]
      /\ UNCHANGED <<foreign, opened, crt, held, lost>>
  BY DEF ClaimDescriptor
<1>2. /\ HandleTypes /\ ~wronged /\ handles \in [Numbers -> Registrations]
      /\ descriptors \in [Descriptors -> Registrations] /\ \A m \in pending : m.superseded = {}
  BY RegistryFacts, TypesNow DEF KeptInv
<1>3. move.due = descriptors[d].anc /\ move.superseded = {}
  BY DEF DescriptorMove
<1>4. Completed(retired, pending \cup {move}) = rt
  BY <1>3, OwedFacts
<1>5. rt \in SUBSET References /\ \A r \in rt : handles[r.h].g = r.g /\ allocated[r.h] = r.g /\ r \notin ambiguous
  BY OwedFacts, KeptFacts
<1>6. \/ \E out \in OutcomesOf(rt) : /\ Retire(handles, rt, rt, {}, out) /\ ~Cut(out) /\ pending' = {}
                                     /\ descriptors' = [descriptors EXCEPT ![d] = gen]
      \/ Transition(move) /\ descriptors' = [descriptors EXCEPT ![d] = gen] /\ handles' = handles
      \/ /\ descriptors[d] = Unregistered /\ descriptors' = [descriptors EXCEPT ![d] = gen]
         /\ UNCHANGED <<allocated, handles, retired, ambiguous, residual, pending, wronged>>
  BY <1>4 DEF ClaimDescriptor
<1> HIDE DEF rt, gen, move
<1>7. CASE \E out \in OutcomesOf(rt) : /\ Retire(handles, rt, rt, {}, out) /\ ~Cut(out) /\ pending' = {}
                                       /\ descriptors' = [descriptors EXCEPT ![d] = gen]
  <2>1. PICK out \in OutcomesOf(rt) : /\ Retire(handles, rt, rt, {}, out) /\ ~Cut(out) /\ pending' = {}
                                      /\ descriptors' = [descriptors EXCEPT ![d] = gen]
    BY <1>7
  <2>2. out \in [Numbers -> Outcomes]
    BY DEF OutcomesOf
  <2>3. rt \in SUBSET rt /\ {} \in SUBSET References
    OBVIOUS
  <2>4. PICK due \in SUBSET rt : retired' = (rt \ rt) \cup due /\ Settled(handles, rt, {}, due, out)
    BY <1>2, <1>5, <2>1, <2>2, <2>3, RetireFacts
  <2>5. Owed' = due /\ \A m \in pending' : m.superseded = {}
    BY <2>1, <2>4 DEF Owed
  <2> QED
    BY <1>1, <2>1, <2>4, <2>5, MoveSettles DEF rt, gen
<1>8. CASE Transition(move) /\ descriptors' = [descriptors EXCEPT ![d] = gen] /\ handles' = handles
  <2>1. /\ Owed' = rt /\ \A m \in pending' : m.superseded = {}
        /\ UNCHANGED <<allocated, ambiguous, wronged>>
    <3>1. Owed' = Owed \cup move.due /\ (\A m \in pending' : m.superseded = {})
          /\ UNCHANGED <<allocated, ambiguous, wronged>>
      BY <1>3, <1>8, TransitionFacts
    <3> QED
      BY <1>3, <3>1 DEF rt
  <2>2. Settled(handles, rt, {}, rt, {})
    BY <1>2, <1>8, <2>1 DEF Settled, HandleTypes
  <2>3. rt \in SUBSET rt
    OBVIOUS
  <2> QED
    BY <1>1, <1>8, <2>1, <2>2, <2>3, MoveSettles DEF rt, gen
<1>9. CASE /\ descriptors[d] = Unregistered /\ descriptors' = [descriptors EXCEPT ![d] = gen]
           /\ UNCHANGED <<allocated, handles, retired, ambiguous, residual, pending, wronged>>
  <2>1. rt = Owed /\ Owed' = rt
    BY <1>9 DEF rt, Owed, Unregistered
  <2>2. Settled(handles, rt, {}, rt, {})
    BY <1>2, <1>9 DEF Settled, HandleTypes
  <2>3. rt \in SUBSET rt /\ \A m \in pending' : m.superseded = {}
    BY <1>2, <1>9
  <2> QED
    BY <1>1, <1>9, <2>1, <2>2, <2>3, MoveSettles DEF rt, gen
<1> QED
  BY <1>6, <1>7, <1>8, <1>9

(* The registry of handles lets the handle go.                             *)
LEMMA ReleaseStep ==
  ASSUME RegistrySound, HandleTypes', NEW d \in Descriptors, ReleaseHandle(d), ~torn'
  PROVE  Registered'
<1> DEFINE n0 == opening.hand
           f0 == [d |-> d, g |-> allocated[n0]]
           hs == [handles EXCEPT ![n0] = Unregistered]
           given == [held EXCEPT !.descriptors = @ \cup {f0}]
<1>1. ~CloseRaw([h |-> opening.hand, g |-> allocated[opening.hand]], TRUE)
  BY DEF CloseRaw
<1>2. /\ OpenAt("moved") /\ d \in opening.made /\ handles' = hs /\ held' = given /\ opening' = NoOpen
      /\ UNCHANGED <<foreign, crt, descriptors, pending, opened, allocated, retired, ambiguous,
                     residual, failed, wronged, torn, lost>>
  BY <1>1 DEF ReleaseHandle
<1>3. /\ HandleTypes /\ ~wronged /\ PlacesInv /\ HeldInv /\ DescriptorsInv /\ AccountInv
      /\ handles \in [Numbers -> Registrations] /\ held \in HeldTypes
      /\ \A m \in pending : m.superseded = {}
  BY RegistryFacts, TypesNow DEF KeptInv
<1>4. /\ opening.made = {d} /\ d \in Live /\ d \in Descriptors /\ crt[d] = n0
      /\ n0 \in Numbers /\ allocated[n0] \notin foreign \cup {0}
      /\ \A e \in Live \ {d} : crt[e] # n0
      /\ \A r \in held.numbers : r.h # n0
      /\ \A r : Kept(r) => r.h # n0
      /\ ~OpenAt("none") /\ OpenAncestor = {} /\ descriptors[d].g = allocated[n0]
  BY <1>2, ConversionFacts DEF OpenAt
<1>5. /\ opening'.pc = "none" /\ opening'.made = {} /\ OpenAt("none")' /\ ~OpenAt("moved")'
      /\ OpenAncestor' = {} /\ Live' = Live
  <2>1. NoOpen.made = {} /\ NoOpen.pc = "none"
    BY DEF NoOpen
  <2> QED
    BY <1>2, <2>1 DEF OpenAncestor, OpenAt, Live
<1>6. /\ hs[n0] = Unregistered /\ \A n \in Numbers : n # n0 => hs[n] = handles[n]
      /\ Unregistered.anc = {} /\ Unregistered.g = 0
  BY <1>3, <1>4 DEF Unregistered
<1>7. held'.numbers = held.numbers /\ held'.descriptors = held.descriptors \cup {f0}
  BY <1>2, <1>3 DEF HeldTypes
<1>8. f0.d = d /\ f0.g = allocated[n0]
  OBVIOUS
<1> HIDE DEF hs, n0, given, f0
<1>9. Settled(hs, {}, {}, {}, {})
  BY <1>2, <1>3 DEF Settled, HandleTypes
<1>10. Owed' = Owed
  BY <1>2 DEF Owed
<1>11. \A n \in Numbers : handles'[n].anc \subseteq handles[n].anc
  BY <1>2, <1>6
<1>12. \A r \in References : Kept(r)' => Kept(r) /\ hs[r.h] = handles[r.h]
  <2>1. \A r : Kept(r)' => Kept(r)
    BY <1>2, <1>4, <1>5, <1>10, <1>11 DEF Kept
  <2> QED
    BY <1>4, <1>6, <2>1, OwedFacts
<1>13. PlacesInv'
  <2>1. \A n \in Numbers, e \in Descriptors : handles'[n].anc \cap descriptors'[e].anc = {}
    <3>1. \A n \in Numbers, e \in Descriptors : n # n0 => handles[n].anc \cap descriptors[e].anc = {}
      BY <1>3 DEF PlacesInv, n0
    <3> QED
      BY <1>2, <1>6, <3>1
  <2>2. /\ \A n \in Numbers : handles'[n].anc \cap Owed = {}
        /\ \A n, k \in Numbers : n # k => handles'[n].anc \cap handles'[k].anc = {}
        /\ \A e \in Descriptors : descriptors[e].anc \cap Owed = {}
        /\ \A e, k \in Descriptors : e # k => descriptors[e].anc \cap descriptors[k].anc = {}
    BY <1>3, <1>4, <1>11 DEF PlacesInv
  <2> QED
    BY <1>2, <1>5, <1>10, <2>1, <2>2 DEF PlacesInv
<1>14. OpeningInv'
  BY <1>5 DEF OpeningInv, OpenAt
<1>15. DescriptorsInv'
  <2>1. ASSUME NEW e \in Live, crt[e] # NoNumber
        PROVE  /\ allocated[crt[e]] = descriptors[e].g /\ descriptors[e].g \notin foreign \cup {0}
               /\ handles'[crt[e]].g = 0
               /\ \A k \in Live : crt[k] = crt[e] => k = e
    <3>1. CASE e = d
      BY <1>2, <1>4, <1>6, <3>1
    <3>2. CASE e # d
      <4>1. /\ allocated[crt[e]] = descriptors[e].g /\ descriptors[e].g \notin foreign \cup {0}
            /\ handles[crt[e]].g = 0
            /\ \A k \in Live : crt[k] = crt[e] => k = e
        BY <1>3, <1>4, <2>1, <3>2 DEF DescriptorsInv
      <4>2. crt[e] # n0 /\ crt[e] \in Numbers
        BY <1>3, <1>4, <2>1, <3>2 DEF HandleTypes, Live
      <4> QED
        BY <1>2, <1>6, <4>1, <4>2
    <3> QED
      BY <3>1, <3>2
  <2>2. \A e \in lost.descriptors : crt[e] # NoNumber
    BY <1>3 DEF DescriptorsInv
  <2> QED
    BY <1>2, <1>5, <2>1, <2>2 DEF DescriptorsInv
<1>16. \A r \in held'.numbers : hs[r.h].g = handles[r.h].g
  <2>1. \A r \in held.numbers : r.h \in Numbers
    BY <1>3, OwedFacts DEF HandleTypes
  <2> QED
    BY <1>4, <1>6, <1>7, <2>1
<1>17. \A h \in Numbers :
         \/ allocated[h] \in foreign \cup lost'.handles \cup {0}
         \/ hs[h].g = allocated[h]
         \/ \E e \in Live' : crt'[e] = h
         \/ [h |-> h, g |-> allocated[h]] \in ambiguous
  <2> TAKE h \in Numbers
  <2>1. CASE h = n0
    BY <1>2, <1>4, <1>5, <2>1
  <2>2. CASE h # n0
    BY <1>2, <1>3, <1>5, <1>6, <2>2 DEF AccountInv, OpenAt
  <2> QED
    BY <2>1, <2>2
<1>18. \A f \in held'.descriptors : /\ f.d \in Live' \ opening'.made
                                    /\ crt'[f.d] # NoNumber /\ descriptors'[f.d].g = f.g
  <2>1. n0 # NoNumber
    BY <1>4, HandlesAssumption DEF NoNumber
  <2>2. \A f \in held.descriptors : f.d \in Live /\ crt[f.d] # NoNumber /\ descriptors[f.d].g = f.g
    BY <1>3 DEF HeldInv
  <2> QED
    BY <1>2, <1>4, <1>5, <1>7, <1>8, <2>1, <2>2
<1>19. KeepsOthers(hs, {}, {}, {})
  <2>1. /\ \A r \in {} : allocated[r.h] = r.g
        /\ \A m \in pending' : m.superseded = {}
        /\ held'.numbers \subseteq held.numbers
        /\ foreign' = foreign /\ opened' = opened
    BY <1>2, <1>3, <1>7
  <2> QED
    BY <1>5, <1>12, <1>13, <1>14, <1>15, <1>16, <1>17, <1>18, <2>1 DEF KeepsOthers
<1>20. {} \in SUBSET References /\ {} \in SUBSET {}
  OBVIOUS
<1> QED
  BY <1>9, <1>19, <1>20, SettledStep

(* A descriptor that a caller holds, and the handle it owns.               *)
LEMMA HeldDescriptor ==
  ASSUME RegistrySound, OpenAt("none"), NEW f \in held.descriptors
  PROVE  /\ f.d \in Live /\ f.d \in Descriptors /\ crt[f.d] \in Numbers /\ crt[f.d] # NoNumber
         /\ opening.made = {} /\ descriptors[f.d].g = f.g
         /\ [h |-> crt[f.d], g |-> f.g] \in References
         /\ allocated[crt[f.d]] = f.g /\ f.g \notin foreign \cup {0} /\ handles[crt[f.d]].g = 0
         /\ \A e \in Live : crt[e] = crt[f.d] => e = f.d
         /\ \A r : Kept(r) \/ r \in held.numbers => r.h # crt[f.d]
         /\ \A k \in held.descriptors : k.d = f.d => k = f
         /\ OpenAncestor = {}
<1>1. HandleTypes /\ HeldInv /\ DescriptorsInv /\ opening.made = {} /\ OpenAncestor = {}
      /\ held \in HeldTypes
  BY RegistryFacts, TypesNow DEF OpeningInv, OpenAt, OpenAncestor
<1>2. \A k \in held.descriptors : /\ k.d \in Live /\ crt[k.d] # NoNumber /\ descriptors[k.d].g = k.g
                                  /\ k = [d |-> k.d, g |-> k.g]
  BY <1>1 DEF HeldInv, HeldTypes
<1>3. f.d \in Descriptors /\ crt[f.d] \in Numbers
  BY <1>1, <1>2 DEF HandleTypes, Live
<1>4. /\ allocated[crt[f.d]] = f.g /\ f.g \notin foreign \cup {0} /\ handles[crt[f.d]].g = 0
      /\ \A e \in Live : crt[e] = crt[f.d] => e = f.d
  BY <1>1, <1>2 DEF DescriptorsInv
<1>5. \A r : Kept(r) \/ r \in held.numbers => r.h # crt[f.d]
  <2>1. \A r : Kept(r) \/ r \in held.numbers => Own(r)
    BY <1>1, KeptFacts DEF HeldInv
  <2> QED
    BY <1>4, <2>1 DEF Own
<1>6. [h |-> crt[f.d], g |-> f.g] \in References
  BY <1>1, <1>3, <1>4, HandleDomains
<1>7. \A k \in held.descriptors : k.d = f.d => k = f
  BY <1>2
<1> QED
  BY <1>1, <1>2, <1>3, <1>4, <1>5, <1>6, <1>7

(* The descriptor is closed, with some of the ancestors it kept.           *)
LEMMA DescriptorSettles ==
  ASSUME RegistrySound, HandleTypes', OpenAt("none"), NEW f \in held.descriptors,
         NEW refs, refs = {} \/ refs = descriptors[f.d].anc, NEW due \in SUBSET refs, NEW out,
         out[crt[f.d]] = "closed",
         Settled(handles, refs, {[h |-> crt[f.d], g |-> f.g]}, due, out),
         retired' = retired \cup due, crt' = [crt EXCEPT ![f.d] = NoNumber],
         \A e \in Descriptors : e # f.d => descriptors'[e] = descriptors[e],
         descriptors'[f.d].anc \subseteq descriptors[f.d].anc, descriptors'[f.d].anc \cap refs = {},
         held' = [held EXCEPT !.descriptors = @ \ {f}],
         UNCHANGED <<foreign, pending, opening, opened, lost>>
  PROVE  Registered'
<1> DEFINE d == f.d
           n0 == crt[f.d]
           leaf == [h |-> n0, g |-> f.g]
<1>1. /\ HandleTypes /\ PlacesInv /\ HeldInv /\ DescriptorsInv /\ AccountInv /\ held \in HeldTypes
      /\ crt \in [Descriptors -> Numbers \cup {NoNumber}] /\ \A m \in pending : m.superseded = {}
  BY RegistryFacts, TypesNow DEF KeptInv
<1>2. /\ d \in Live /\ d \in Descriptors /\ n0 \in Numbers /\ n0 # NoNumber
      /\ opening.made = {} /\ descriptors[d].g = f.g
      /\ leaf \in References /\ leaf.h = n0
      /\ allocated[n0] = f.g /\ f.g \notin foreign \cup {0} /\ handles[n0].g = 0
      /\ \A e \in Live : crt[e] = n0 => e = d
      /\ \A r : Kept(r) \/ r \in held.numbers => r.h # n0
      /\ \A k \in held.descriptors : k.d = d => k = f
      /\ OpenAncestor = {}
  BY HeldDescriptor
<1>3. /\ Settled(handles, refs, {leaf}, due, out) /\ allocated'[n0] = 0
  BY <1>2 DEF Settled
<1>4. refs \in SUBSET References /\ \A r \in refs : Kept(r) /\ allocated[r.h] = r.g
  BY <1>2, OwedFacts, KeptFacts
<1>5. /\ crt'[d] = NoNumber /\ \A e \in Descriptors : e # d => crt'[e] = crt[e]
      /\ Live' = Live /\ Owed' = Owed \cup due /\ OpenAncestor' = {} /\ opening' = opening
      /\ OpenAt("none")' /\ ~OpenAt("moved") /\ ~OpenAt("moved")'
  BY <1>1, <1>2 DEF Live, Owed, OpenAncestor, OpenAt
<1>6. /\ held'.numbers = held.numbers /\ held'.descriptors = held.descriptors \ {f}
  BY <1>1 DEF HeldTypes
<1>7. /\ \A n \in Numbers : handles[n].anc \cap refs = {}
      /\ \A e \in Descriptors : e # d => descriptors[e].anc \cap refs = {}
      /\ Owed \cap refs = {}
  BY <1>1, <1>2, <1>5 DEF PlacesInv
<1>8. \A e \in Descriptors : /\ descriptors'[e].anc \subseteq descriptors[e].anc
                             /\ descriptors'[e].anc \cap refs = {}
  BY <1>7
<1> HIDE DEF d, n0, leaf
<1>9. \A n \in Numbers : handles'[n].anc \subseteq handles[n].anc
  BY <1>3 DEF Settled, Unregistered
<1>10. \A r \in References : Kept(r)' => Kept(r) /\ r \notin refs \ due /\ r.h # n0
  <2> SUFFICES ASSUME NEW r \in References, Kept(r)'
      PROVE  Kept(r) /\ r \notin refs \ due
    BY <1>2
  <2>1. CASE r \in Owed'
    BY <1>4, <1>5, <1>7, <2>1 DEF Kept
  <2>2. CASE \E n \in Numbers : r \in handles'[n].anc
    BY <1>7, <1>9, <2>2 DEF Kept
  <2>3. CASE \E e \in Descriptors : r \in descriptors'[e].anc
    BY <1>8, <2>3 DEF Kept
  <2> QED
    BY <1>5, <2>1, <2>2, <2>3 DEF Kept
<1>11. PlacesInv'
  <2>1. /\ \A n \in Numbers : handles'[n].anc \cap Owed' = {}
        /\ \A n, k \in Numbers : n # k => handles'[n].anc \cap handles'[k].anc = {}
        /\ \A n \in Numbers, e \in Descriptors : handles'[n].anc \cap descriptors'[e].anc = {}
    BY <1>1, <1>5, <1>7, <1>8, <1>9 DEF PlacesInv
  <2>2. /\ \A e \in Descriptors : descriptors'[e].anc \cap Owed' = {}
        /\ \A e, k \in Descriptors : e # k => descriptors'[e].anc \cap descriptors'[k].anc = {}
    BY <1>1, <1>5, <1>8 DEF PlacesInv
  <2> QED
    BY <1>5, <2>1, <2>2 DEF PlacesInv
<1>12. OpeningInv'
  BY <1>2, <1>5 DEF OpeningInv, OpenAt
<1>13. DescriptorsInv'
  <2> DEFINE nums == {n0} \cup {r.h : r \in refs}
  <2>1. \A h \in Numbers : h \notin nums =>
          allocated'[h] = allocated[h] /\ (handles'[h] = handles[h] \/ handles'[h].g = 0)
    BY <1>2, <1>3 DEF Settled
  <2>2. ASSUME NEW e \in Live \ {d}, crt[e] # NoNumber
        PROVE  crt[e] \notin nums
    <3>1. \A r \in refs : crt[e] # r.h
      BY <1>4, <2>2, KeptFacts
    <3> QED
      BY <1>2, <2>2, <3>1
  <2> HIDE DEF nums
  <2>3. ASSUME NEW e \in Live \ {d}, crt[e] # NoNumber
        PROVE  /\ allocated'[crt[e]] = descriptors[e].g /\ descriptors[e].g \notin foreign \cup {0}
               /\ handles'[crt[e]].g = 0
               /\ \A k \in Live : crt[k] = crt[e] => k = e
    <3>1. e \in Live \ opening.made /\ crt[e] \notin nums
      BY <1>2, <2>2, <2>3
    <3> QED
      BY <2>1, <2>3, <3>1, DescriptorsKeep
  <2>4. ASSUME NEW e \in Live', crt'[e] # NoNumber
        PROVE  /\ allocated'[crt'[e]] = descriptors'[e].g /\ descriptors'[e].g \notin foreign' \cup {0}
               /\ handles'[crt'[e]].g = 0
               /\ \A k \in Live' : crt'[k] = crt'[e] => k = e
    <3>1. e \in Live /\ e \in Descriptors /\ e # d /\ crt'[e] = crt[e]
      BY <1>5, <2>4 DEF Live
    <3>2. descriptors'[e] = descriptors[e]
      BY <3>1 DEF d
    <3>3. \A k \in Live : k \in Descriptors
      BY DEF Live
    <3> QED
      BY <1>5, <2>3, <2>4, <3>1, <3>2, <3>3
  <2>5. ASSUME NEW e \in lost'.descriptors PROVE crt'[e] # NoNumber
    <3>1. e \in lost.descriptors /\ e \in Descriptors /\ e # d
      BY <1>1, <1>2, <2>5 DEF Live, HandleTypes
    <3> QED
      BY <1>1, <1>5, <3>1 DEF DescriptorsInv
  <2> QED
    BY <1>2, <1>5, <2>4, <2>5 DEF DescriptorsInv
<1>14. \A r \in held'.numbers : r \notin refs \ due /\ r.h # n0
  BY <1>2, <1>4, <1>6, KeptFacts
<1>15. \A h \in Numbers :
         \/ allocated[h] \in foreign \cup lost'.handles \cup {0} \/ allocated'[h] = 0
         \/ handles[h].g = allocated[h]
         \/ \E e \in Live' : crt'[e] = h
         \/ [h |-> h, g |-> allocated[h]] \in ambiguous
  <2> TAKE h \in Numbers
  <2>1. CASE h = n0
    BY <1>3, <2>1
  <2>2. CASE h # n0
    <3>1. \A e \in Live : crt[e] = h => crt'[e] = h
      BY <1>5, <2>2 DEF d, n0, Live
    <3> QED
      BY <1>1, <1>5, <3>1 DEF AccountInv, OpenAt
  <2> QED
    BY <2>1, <2>2
<1>16. \A k \in held'.descriptors : /\ k.d \in Live' \ opening'.made
                                    /\ crt'[k.d] # NoNumber /\ descriptors'[k.d].g = k.g
  <2> TAKE k \in held'.descriptors
  <2>1. k \in held.descriptors /\ k.d # d
    BY <1>2, <1>6
  <2>2. k.d \in Live /\ k.d \in Descriptors /\ crt[k.d] # NoNumber /\ descriptors[k.d].g = k.g
    BY <1>1, <2>1 DEF HeldInv, Live
  <2> QED
    BY <1>2, <1>5, <2>1, <2>2 DEF d
<1>17. KeepsOthers(handles, refs, {leaf}, due)
  <2>1. \A m \in pending' : m.superseded = {}
    BY <1>1
  <2> QED
    BY <1>2, <1>4, <1>5, <1>6, <1>10, <1>11, <1>12, <1>13, <1>14, <1>15, <1>16, <2>1 DEF KeepsOthers
<1>18. {leaf} \in SUBSET References
  BY <1>2
<1> QED
  BY <1>3, <1>4, <1>17, <1>18, SettledStep

LEMMA CloseDescriptorStep ==
  ASSUME RegistrySound, HandleTypes', NEW f \in held.descriptors, CloseDescriptor(f), ~torn'
  PROVE  Registered'
<1> DEFINE d == f.d
           leaf == [h |-> crt[d], g |-> f.g]
           anc == descriptors[d].anc
           cur == CurrentDescriptor(f)
<1>1. /\ OpenAt("none") /\ held' = [held EXCEPT !.descriptors = @ \ {f}]
      /\ UNCHANGED <<foreign, pending, opening, opened, lost>>
      /\ \/ \E out \in OutcomesOf(cur.anc) :
               /\ Retire(handles, retired \cup cur.anc, cur.anc, {leaf}, [out EXCEPT ![crt[d]] = "closed"])
               /\ crt' = [crt EXCEPT ![d] = NoNumber]
               /\ descriptors' = [descriptors EXCEPT ![d] = Unregistered] /\ ~Cut(out)
         \/ /\ \/ /\ crt' = [crt EXCEPT ![d] = NoNumber]
                  /\ CloseAttempts({leaf}, [h \in Numbers |-> "closed"])
               \/ UNCHANGED <<crt, allocated, wronged>>
            /\ descriptors' = [descriptors EXCEPT ![d] = cur]
            /\ UNCHANGED <<handles, retired, ambiguous, residual>>
      /\ cur = descriptors[d]
  <2> HIDE DEF cur
  <2> QED
    BY DEF CloseDescriptor, cur
<1>2. /\ HandleTypes /\ ~wronged /\ PlacesInv /\ KeptInv /\ handles \in [Numbers -> Registrations]
      /\ descriptors \in [Descriptors -> Registrations] /\ retired \in SUBSET References
  BY RegistryFacts, TypesNow DEF HandleTypes
<1>3. /\ d \in Live /\ d \in Descriptors /\ crt[d] \in Numbers /\ leaf \in References
      /\ allocated[crt[d]] = f.g /\ OpenAncestor = {} /\ opening.made = {}
  BY <1>1, HeldDescriptor
<1>4. /\ anc \in SUBSET References /\ anc \cap retired = {}
      /\ \A r \in anc : handles[r.h].g = r.g /\ allocated[r.h] = r.g /\ r \notin ambiguous
  BY <1>2, <1>3, OwedFacts, KeptFacts DEF PlacesInv, Owed
<1>5. leaf.h = crt[d] /\ leaf.g = f.g
  OBVIOUS
<1> HIDE DEF cur, anc, leaf
<1>6. ASSUME NEW out \in OutcomesOf(anc), ~Cut(out),
             Retire(handles, retired \cup anc, anc, {leaf}, [out EXCEPT ![crt[d]] = "closed"]),
             crt' = [crt EXCEPT ![d] = NoNumber],
             descriptors' = [descriptors EXCEPT ![d] = Unregistered]
      PROVE  Registered'
  <2> DEFINE outs == [out EXCEPT ![crt[d]] = "closed"]
  <2>1. outs \in [Numbers -> Outcomes] /\ ~Cut(outs) /\ outs[crt[d]] = "closed"
    BY <1>3, <1>6 DEF OutcomesOf, Outcomes, Cut
  <2>2. Retire(handles, retired \cup anc, anc, {leaf}, outs)
    BY <1>6
  <2> HIDE DEF outs
  <2>3. retired \cup anc \in SUBSET References /\ anc \in SUBSET (retired \cup anc)
        /\ {leaf} \in SUBSET References /\ \A x \in {leaf} : allocated[x.h] = x.g
    BY <1>2, <1>3, <1>4, <1>5
  <2>4. PICK due \in SUBSET anc :
          retired' = ((retired \cup anc) \ anc) \cup due /\ Settled(handles, anc, {leaf}, due, outs)
    BY <1>2, <1>4, <2>1, <2>2, <2>3, RetireFacts
  <2>5. retired' = retired \cup due
    BY <1>4, <2>4
  <2>6. /\ \A e \in Descriptors : e # d => descriptors'[e] = descriptors[e]
        /\ descriptors'[d].anc \subseteq anc /\ descriptors'[d].anc \cap anc = {}
    BY <1>2, <1>3, <1>6 DEF Unregistered
  <2> QED
    <3>1. /\ OpenAt("none") /\ held' = [held EXCEPT !.descriptors = @ \ {f}]
          /\ UNCHANGED <<foreign, pending, opening, opened, lost>>
      BY <1>1
    <3>2. anc = descriptors[f.d].anc /\ (anc = {} \/ anc = descriptors[f.d].anc)
      BY DEF anc
    <3>3. Settled(handles, anc, {[h |-> crt[f.d], g |-> f.g]}, due, outs)
      BY <2>4 DEF leaf
    <3> HIDE DEF anc
    <3>4. /\ outs[crt[f.d]] = "closed" /\ crt' = [crt EXCEPT ![f.d] = NoNumber]
          /\ \A e \in Descriptors : e # f.d => descriptors'[e] = descriptors[e]
          /\ descriptors'[f.d].anc \subseteq descriptors[f.d].anc /\ descriptors'[f.d].anc \cap anc = {}
      BY <1>6, <2>1, <2>6, <3>2
    <3> QED
      BY <2>5, <3>1, <3>2, <3>3, <3>4, DescriptorSettles
<1>7. ASSUME crt' = [crt EXCEPT ![d] = NoNumber], CloseAttempts({leaf}, [h \in Numbers |-> "closed"]),
             descriptors' = descriptors, UNCHANGED <<handles, retired, ambiguous, residual>>
      PROVE  Registered'
  <2> DEFINE out == [h \in Numbers |-> "closed"]
  <2>1. \A r \in {leaf} : r.h \in Numbers /\ allocated[r.h] \in {0, r.g}
    BY <1>3, <1>5
  <2>2. out[crt[d]] = "closed" /\ CloseAttempts({leaf}, out)
    BY <1>3, <1>7
  <2> HIDE DEF out
  <2>3. Attempted({leaf}, out)
    BY <1>2, <2>1, <2>2, CloseFacts
  <2>4. Settled(handles, {}, {leaf}, {}, out)
    BY <1>7, <2>3 DEF Settled, Attempted
  <2>5. /\ retired' = retired \cup {} /\ descriptors'[d].anc \cap {} = {} /\ {} \in SUBSET {}
        /\ descriptors'[d].anc \subseteq descriptors[d].anc
        /\ \A e \in Descriptors : e # d => descriptors'[e] = descriptors[e]
    BY <1>7
  <2>6. /\ OpenAt("none") /\ held' = [held EXCEPT !.descriptors = @ \ {f}]
        /\ UNCHANGED <<foreign, pending, opening, opened, lost>>
    BY <1>1
  <2>7. /\ out[crt[d]] = "closed" /\ crt' = [crt EXCEPT ![d] = NoNumber]
    BY <1>7, <2>2
  <2> QED
    BY <2>4, <2>5, <2>6, <2>7, DescriptorSettles DEF leaf
<1>8. ASSUME UNCHANGED <<crt, allocated, wronged>>, descriptors' = descriptors,
             UNCHANGED <<handles, retired, ambiguous, residual>>
      PROVE  Registered'
  <2>1. RegistryStays
    BY <1>1, <1>8, RegistryFacts DEF RegistryStays, HandleTypes
  <2>2. held \in HeldTypes /\ HeldInv
    BY RegistryFacts, TypesNow
  <2>3. held'.numbers = held.numbers /\ held'.descriptors \subseteq held.descriptors
    BY <1>1, <2>2 DEF HeldTypes
  <2>4. OpenAncestor' = OpenAncestor /\ ~OpenAt("moved") /\ OpenAt("none")'
    BY <1>1 DEF OpenAncestor, OpenAt
  <2>5. /\ \A r \in References : Own(r) => Own(r)'
        /\ Live' = Live /\ DescriptorsInv' /\ PlacesInv' /\ ~wronged' /\ \A r : Kept(r)' <=> Kept(r)
    BY <2>1, <2>4, QuietFacts
  <2>6. References' = References
    BY <1>1 DEF References
  <2>7. KeptInv'
    <3>1. \A r : Kept(r) => r \in References /\ Own(r) /\ handles[r.h].anc = {} /\ r \notin held.numbers
      BY KeptFacts
    <3> QED
      BY <1>1, <1>2, <1>8, <2>3, <2>4, <2>5, <2>6, <3>1 DEF KeptInv
  <2>8. OpeningInv'
    BY <1>1, <1>3, <2>4 DEF OpeningInv, OpenAt
  <2>9. HeldInv'
    <3>1. held.numbers \subseteq References
      BY <1>2 DEF HandleTypes
    <3> QED
      BY <1>1, <1>8, <2>2, <2>3, <2>5, <3>1 DEF HeldInv
  <2>10. AccountInv'
    BY <1>1, <1>8, <2>5, RegistryFacts DEF AccountInv
  <2> QED
    BY <2>5, <2>7, <2>8, <2>9, <2>10 DEF Registered
<1>9. [descriptors EXCEPT ![d] = cur] = descriptors
  <2>1. cur = descriptors[d]
    BY <1>1
  <2> QED
    BY <1>2, <1>3, <2>1
<1>10. cur.anc = anc
  BY <1>1 DEF anc
<1>11. CASE \E out \in OutcomesOf(cur.anc) :
               /\ Retire(handles, retired \cup cur.anc, cur.anc, {leaf}, [out EXCEPT ![crt[d]] = "closed"])
               /\ crt' = [crt EXCEPT ![d] = NoNumber]
               /\ descriptors' = [descriptors EXCEPT ![d] = Unregistered] /\ ~Cut(out)
  BY <1>6, <1>10, <1>11
<1> QED
  BY <1>1, <1>7, <1>8, <1>9, <1>11

(* A number that the registry has wrong stays one in the history.          *)
LEMMA TornStays ==
  ASSUME torn, [HandlesNext]_handleVars
  PROVE  torn'
<1>1. ASSUME NEW h \in Numbers, CreateAncestor(h) \/ CreateLeaf(h) \/ ForeignOpens(h) \/ ForeignCloses(h)
      PROVE  torn'
  BY <1>1 DEF CreateAncestor, CreateLeaf, Created, ForeignOpens, ForeignCloses
<1>2. CASE RetainAncestor \/ ClaimLeaf
  <2>1. \A n, anc, ok, bad : ClaimHandle(n, anc, ok, bad) => torn'
    BY DEF ClaimHandle
  <2>2. \A n, anc, bad : ClaimInterrupted(n, anc, bad) => torn'
    BY DEF ClaimInterrupted, Transition
  <2>3. \A n, gen, bad : ClaimUnmade(n, gen, bad) => torn'
    BY DEF ClaimUnmade
  <2> QED
    BY <1>2, <2>1, <2>2, <2>3 DEF RetainAncestor, ClaimLeaf
<1>3. CASE RefuseEntry \/ Abandon \/ OpenReturns
  BY <1>3 DEF RefuseEntry, Abandon, OpenReturns
<1>4. CASE Reconcile
  BY <1>4 DEF Reconcile
<1>5. \A r, doubt : CloseRaw(r, doubt) => torn'
  <2> SUFFICES ASSUME NEW r, NEW doubt, CloseRaw(r, doubt) PROVE torn'
    OBVIOUS
  <2>1. \E b, c : torn' = (torn \/ doubt \/ b \/ c) \/ torn' = (torn \/ doubt \/ b)
    BY DEF CloseRaw
  <2> QED
    BY <2>1
<1>6. CASE GiveUp
  BY <1>5, <1>6 DEF GiveUp
<1>7. ASSUME NEW r \in held.numbers, CloseHeld(r) \/ Unconverted(r) \/ \E d \in Descriptors : Convert(r, d)
      PROVE  torn'
  BY <1>5, <1>7 DEF CloseHeld, Unconverted, Convert
<1>8. ASSUME NEW d \in Descriptors, ClaimDescriptor(d) \/ ReleaseHandle(d)
      PROVE  torn'
  BY <1>5, <1>8 DEF ClaimDescriptor, Transition, ReleaseHandle
<1>9. ASSUME NEW f \in held.descriptors, CloseDescriptor(f)
      PROVE  torn'
  BY <1>9 DEF CloseDescriptor
<1>10. CASE UNCHANGED handleVars
  BY <1>10 DEF handleVars
<1> QED
  BY <1>1, <1>2, <1>3, <1>4, <1>6, <1>7, <1>8, <1>9, <1>10 DEF HandlesNext

(* Every step of this module, of its callers and of other code keeps it.   *)
LEMMA HandlesStep ==
  ASSUME HandlesInv, [HandlesNext]_handleVars
  PROVE  HandlesInv'
<1>1. HandleTypes /\ HandleTypes' /\ (~torn' => ~torn)
  BY HandleTypesKept, TornStays DEF HandlesInv
<1> SUFFICES ASSUME ~torn' PROVE Registered'
  BY <1>1 DEF HandlesInv
<1>2. RegistrySound
  BY <1>1 DEF RegistrySound, HandlesInv
<1>3. CASE \E h \in Numbers : CreateAncestor(h) \/ CreateLeaf(h) \/ ForeignOpens(h) \/ ForeignCloses(h)
  BY <1>1, <1>2, <1>3, CreateAncestorStep, CreateLeafStep, ForeignSteps
<1>4. CASE RetainAncestor \/ ClaimLeaf
  BY <1>1, <1>2, <1>4, ClaimSteps
<1>5. CASE RefuseEntry \/ Abandon \/ OpenReturns
  BY <1>1, <1>2, <1>5, DecideSteps
<1>6. CASE GiveUp \/ \E r \in held.numbers : CloseHeld(r) \/ Unconverted(r)
  BY <1>1, <1>2, <1>6, CloseSteps
<1>7. CASE Reconcile
  BY <1>1, <1>2, <1>7, ReconcileStep
<1>8. ASSUME NEW r \in held.numbers, NEW d \in Descriptors, Convert(r, d)
      PROVE  Registered'
  BY <1>1, <1>2, <1>8, ConvertStep
<1>9. ASSUME NEW d \in Descriptors, ClaimDescriptor(d) \/ ReleaseHandle(d)
      PROVE  Registered'
  BY <1>1, <1>2, <1>9, ClaimDescriptorStep, ReleaseStep
<1>10. ASSUME NEW f \in held.descriptors, CloseDescriptor(f)
       PROVE  Registered'
  BY <1>1, <1>2, <1>10, CloseDescriptorStep
<1>11. CASE UNCHANGED handleVars
  <2>1. Owed' = Owed /\ OpenAncestor' = OpenAncestor /\ Live' = Live /\ \A r : Kept(r)' <=> Kept(r)
    BY <1>11 DEF handleVars, registry, Owed, OpenAncestor, OpenAt, Kept, Live
  <2>2. References' = References
    BY <1>11 DEF handleVars, References
  <2>3. OpeningInv' /\ HeldInv' /\ DescriptorsInv' /\ AccountInv' /\ ~wronged'
    BY <1>2, <1>11, <2>1, RegistryFacts DEF handleVars, registry, OpeningInv, HeldInv,
                      DescriptorsInv, AccountInv, OpenAt, Own, Ref
  <2>4. KeptInv' /\ PlacesInv'
    BY <1>2, <1>11, <2>1, <2>2, RegistryFacts DEF handleVars, registry, KeptInv, PlacesInv, Own, OpenAt
  <2> QED
    BY <2>3, <2>4 DEF Registered
<1> QED
  BY <1>3, <1>4, <1>5, <1>6, <1>7, <1>8, <1>9, <1>10, <1>11 DEF HandlesNext

(* The handle registry's invariant: what is kept, and what callers hold,   *)
(* is open and the module's own, until an interrupt has left the registry  *)
(* with a number wrong (WindowsAuthorityRegistry).                         *)
THEOREM HandlesInvariant == HandlesSpec => []HandlesInv
<1>1. HandlesInit => HandlesInv
  <2> SUFFICES ASSUME HandlesInit
      PROVE  HandlesInv
    OBVIOUS
  <2>1. /\ opened = 0 /\ foreign = {} /\ retired = {} /\ ambiguous = {} /\ residual = {} /\ pending = {}
        /\ wronged = FALSE /\ torn = FALSE /\ opening = NoOpen
        /\ allocated = [h \in Numbers |-> 0] /\ crt = [d \in Descriptors |-> NoNumber]
        /\ handles = [h \in Numbers |-> Unregistered]
        /\ descriptors = [d \in Descriptors |-> Unregistered]
        /\ held = [numbers |-> {}, descriptors |-> {}] /\ lost = [handles |-> {}, descriptors |-> {}]
    BY DEF HandlesInit
  <2>2. OpenAt("none") /\ opening.made = {} /\ NoOpen.pc = "none"
    <3>1. NoOpen.pc = "none" /\ NoOpen.made = {}
      BY DEF NoOpen
    <3> QED
      BY <2>1, <3>1 DEF OpenAt
  <2>3. Owed = {} /\ OpenAncestor = {} /\ \A r : ~Kept(r)
    BY <2>1, <2>2 DEF Owed, OpenAncestor, Kept, Unregistered, OpenAt
  <2>4. HandleTypes
    <3>1. 0 \in 0 .. opened /\ opened \in Nat
      BY <2>1
    <3>2. Unregistered \in Registrations
      BY <3>1 DEF Registrations, Unregistered
    <3>3. NoOpen \in [pc : OpenSteps, anc : SUBSET References, hand : Numbers \cup {NoNumber},
                      made : SUBSET Descriptors]
      BY DEF NoOpen, OpenSteps, NoNumber
    <3>4. /\ held \in [numbers : SUBSET References, descriptors : SUBSET [d : Descriptors, g : 0 .. opened]]
          /\ lost \in [handles : SUBSET (0 .. opened), descriptors : SUBSET Descriptors]
      BY <2>1
    <3>5. foreign \subseteq 1 .. opened
      BY <2>1
    <3> HIDE DEF NoOpen
    <3> QED
      BY <2>1, <2>2, <3>1, <3>2, <3>3, <3>4, <3>5 DEF HandleTypes
  <2>5. held.numbers = {} /\ held.descriptors = {} /\ lost.handles = {} /\ lost.descriptors = {}
    BY <2>1
  <2>6. KeptInv /\ OpeningInv /\ HeldInv
    BY <2>1, <2>2, <2>3, <2>5 DEF KeptInv, OpeningInv, HeldInv, OpenAt
  <2>7. PlacesInv
    BY <2>1, <2>3 DEF PlacesInv, Unregistered
  <2>8. DescriptorsInv /\ AccountInv
    BY <2>1, <2>5 DEF DescriptorsInv, AccountInv, Live
  <2> QED
    BY <2>1, <2>4, <2>6, <2>7, <2>8 DEF HandlesInv, Registered
<1>2. HandlesInv /\ [HandlesNext]_handleVars => HandlesInv'
  BY HandlesStep
<1> QED
  BY <1>1, <1>2, PTL DEF HandlesSpec

(* No close reaches a handle it was not meant for (close_raw,              *)
(* _close_retired_reference), unless the registry has the number wrong.    *)
THEOREM OwnHandlesOnly == HandlesSpec => []OnlyOwnHandlesClosed
<1>1. HandlesInv => OnlyOwnHandlesClosed
  BY DEF HandlesInv, Registered, OnlyOwnHandlesClosed
<1> QED
  BY <1>1, HandlesInvariant, PTL

(* No handle of this module is lost, whatever fails or is interrupted, but *)
(* those that were lost before they were claimed.                          *)
THEOREM HandlesKnown == HandlesSpec => []HandlesAccounted
<1>1. HandlesInv => HandlesAccounted
  <2> SUFFICES ASSUME HandlesInv, OpenAt("none"), ~torn, NEW h \in Numbers,
                      allocated[h] \notin foreign \cup lost.handles \cup {0},
                      [h |-> h, g |-> allocated[h]] \notin ambiguous
      PROVE  \/ \E d \in Descriptors : crt[d] = h /\ descriptors[d].g = allocated[h]
             \/ [h |-> h, g |-> allocated[h]] \in {Ref(n) : n \in Numbers}
    BY DEF HandlesAccounted
  <2>1. OpeningInv /\ DescriptorsInv /\ AccountInv
    BY DEF HandlesInv, Registered
  <2>2. opening.made = {} /\ h # NoNumber
    BY <2>1, HandlesAssumption DEF OpeningInv, OpenAt, NoNumber
  <2>3. handles[h].g = allocated[h] \/ \E d \in Live : crt[d] = h
    BY <2>1 DEF AccountInv, OpenAt
  <2>4. CASE handles[h].g = allocated[h]
    BY <2>4 DEF Ref
  <2>5. CASE \E d \in Live : crt[d] = h
    BY <2>1, <2>2, <2>5 DEF DescriptorsInv, Live
  <2> QED
    BY <2>3, <2>4, <2>5
<1> QED
  BY <1>1, HandlesInvariant, PTL

(*---------------------------- coherent reads ----------------------------*)
(* What an inode can be.                                                   *)
Nodes == [kind : {"file", "directory", "symlink", "free"}, stamp : Nat,
          names : [Names -> {NoInode} \cup Inodes], chunks : [1 .. 2 -> Nat]]

(* The nodes that an author creates.                                       *)
LEMMA NodeFacts ==
  ASSUME NEW s \in Nat
  PROVE  /\ Empty \in [Names -> {NoInode} \cup Inodes]
         /\ File(s) \in Nodes /\ File(s).stamp = s /\ File(s).names = Empty
         /\ File(s).kind = "file"
         /\ Link(s) \in Nodes /\ Link(s).stamp = s /\ Link(s).names = Empty
         /\ Link(s).kind = "symlink"
         /\ \A ns \in [Names -> {NoInode} \cup Inodes] :
               /\ Directory(s, ns) \in Nodes /\ Directory(s, ns).stamp = s
               /\ Directory(s, ns).kind = "directory"
         /\ Free \in Nodes /\ Free.stamp = 0 /\ Free.names = Empty /\ Free.kind = "free"
<1>1. Empty \in [Names -> {NoInode} \cup Inodes]
  BY DEF Empty
<1>2. <<s, s>> \in [1 .. 2 -> Nat] /\ <<0, 0>> \in [1 .. 2 -> Nat]
  OBVIOUS
<1> QED
  BY <1>1, <1>2 DEF File, Link, Directory, Free, Nodes

(* The inodes of the model.                                                *)
LEMMA InodeFacts ==
  /\ Root \in Inodes /\ {Root, 3} \subseteq Inodes /\ Spare \subseteq Inodes
  /\ Root \notin Spare /\ NoInode \notin Inodes
BY DEF Root, Inodes, Spare, NoInode

(* What the invariant says of the tree alone.                              *)
LEMMA InodeTypes ==
  ASSUME ReadInv
  PROVE  /\ changes \in Nat /\ inodes \in [Inodes -> Nodes] /\ Now \in Nat /\ Now = changes + 1
         /\ inodes[Root].kind = "directory"
         /\ \A k \in 1 .. Len(reader.frames) : reader.frames[k] \in OpenDirectories
<1>1. changes \in Nat /\ inodes \in [Inodes -> Nodes] /\ Now = changes + 1
  BY DEF ReadInv, ReadTypes, Nodes, Now
<1>2. inodes[Root].kind = "directory"
  BY DEF ReadInv, InodesInv
<1>3. reader.frames \in Seq(OpenDirectories)
  BY DEF ReadInv, ReadTypes
<1> QED
  BY <1>1, <1>2, <1>3

(* A change touches some inodes, gives them the new stamp and records them. *)
LEMMA AuthorChanges ==
  ASSUME ReadInv, changes' = changes + 1, reader' = reader, result' = result,
         versions \subseteq versions', inodes' \in [Inodes -> Nodes],
         \A i \in Inodes : inodes'[i] # inodes[i] =>
            /\ inodes'[i].stamp = changes + 1
            /\ Version(i, inodes'[i]) \in versions'
            /\ inodes'[i].kind # "directory" => inodes'[i].names = Empty
            /\ i = Root => inodes'[i].kind = "directory"
  PROVE  ReadInv'
<1>1. /\ changes \in Nat /\ inodes \in [Inodes -> Nodes] /\ Root \in Inodes
      /\ \A i \in Inodes : inodes[i].stamp \in Nat /\ inodes'[i].stamp \in Nat
  BY InodeFacts, InodeTypes DEF Nodes
<1>2. ReadTypes'
  <2>1. changes' \in Nat
    BY <1>1
  <2>2. SUBSET versions \subseteq SUBSET versions'
    OBVIOUS
  <2> QED
    BY <2>1, <2>2 DEF ReadInv, ReadTypes, Nodes
<1>3. InodesInv'
  <2>1. \A i \in Inodes : inodes'[i].stamp <= changes'
    BY <1>1 DEF ReadInv, InodesInv
  <2> QED
    BY <1>1, <2>1 DEF ReadInv, InodesInv, Version
<1>4. \A i \in Inodes, s \in Nat :
         s <= inodes[i].stamp => /\ s <= inodes'[i].stamp
                                 /\ inodes'[i].stamp = s => inodes'[i] = inodes[i]
  BY <1>1 DEF ReadInv, InodesInv
<1>5. FramesInv'
  <2> SUFFICES ASSUME NEW k \in 1 .. Len(reader.frames)
               PROVE  LET f == reader.frames[k] IN
                      /\ f.before.ino = f.dir
                      /\ f.before.stamp <= inodes'[f.dir].stamp
                      /\ (/\ reader.mode = "inventory"
                          /\ (reader.pc = "list" => k < Len(reader.frames))
                          /\ inodes'[f.dir].stamp = f.before.stamp)
                             => f.listed = {n \in Names : inodes'[f.dir].names[n] # NoInode}
    BY DEF FramesInv, Listing
  <2> DEFINE f == reader.frames[k]
  <2>1. f.dir \in Inodes /\ f.before.stamp \in Nat
    BY InodeTypes DEF OpenDirectories
  <2>2. /\ f.before.stamp <= inodes'[f.dir].stamp
        /\ inodes'[f.dir].stamp = f.before.stamp => inodes'[f.dir] = inodes[f.dir]
    BY <1>4, <2>1 DEF ReadInv, FramesInv
  <2> QED
    BY <2>1, <2>2 DEF ReadInv, FramesInv, Listing
<1>6. EntryInv'
  <2>1. reader.before.stamp \in Nat
    BY DEF ReadInv, ReadTypes
  <2>2. reader.pc \in {"open", "read", "finish"} =>
          /\ reader.before.ino \in Inodes
          /\ reader.before.stamp <= inodes'[reader.before.ino].stamp
          /\ inodes'[reader.before.ino].stamp = reader.before.stamp =>
                inodes'[reader.before.ino] = inodes[reader.before.ino]
    BY <1>4, <2>1 DEF ReadInv, EntryInv
  <2> QED
    BY <2>1, <2>2 DEF ReadInv, EntryInv, Top
<1> QED
  BY <1>2, <1>3, <1>5, <1>6 DEF ReadInv

(* What an author may change: a link to a fresh inode, or contents.        *)
LEMMA AuthorSteps ==
  ASSUME ReadInv,
         \/ \E i \in 1 .. 7, c \in 1 .. 2 : WriteChunk(i, c)
         \/ \E dir \in {Root, 3}, n \in Names, new \in Spare,
               k \in {"file", "directory", "symlink"} : ReplaceEntry(dir, n, new, k)
         \/ \E dir \in {Root, 3}, n \in Names : RemoveEntry(dir, n)
  PROVE  ReadInv'
<1>1. /\ changes \in Nat /\ inodes \in [Inodes -> Nodes] /\ Now \in Nat /\ Now = changes + 1
      /\ inodes[Root].kind = "directory" /\ {Root, 3} \subseteq Inodes /\ Spare \subseteq Inodes
  BY InodeFacts, InodeTypes
<1>2. ASSUME NEW i \in Inodes, NEW c \in 1 .. 2, WriteChunk(i, c) PROVE ReadInv'
  <2> DEFINE node == [inodes[i] EXCEPT !.stamp = Now, !.chunks[c] = Now]
  <2>1. /\ inodes' = [inodes EXCEPT ![i].stamp = Now, ![i].chunks[c] = Now]
        /\ versions' = versions \cup {Version(j, inodes'[j]) : j \in {i}}
        /\ changes' = changes + 1 /\ reader' = reader /\ result' = result
        /\ inodes[i].kind = "file"
    BY <1>1, <1>2 DEF WriteChunk, Change
  <2>2. inodes' = [inodes EXCEPT ![i] = node]
    BY <1>1, <2>1
  <2>3. node \in Nodes /\ node.stamp = Now /\ node.kind = "file" /\ node.names = inodes[i].names
    BY <1>1, <2>1 DEF Nodes
  <2> HIDE DEF node
  <2>4. inodes[i].names = Empty
    BY <2>1 DEF ReadInv, InodesInv
  <2>5. inodes' \in [Inodes -> Nodes] /\ \A j \in Inodes : inodes'[j] = IF j = i THEN node ELSE inodes[j]
    BY <1>1, <2>2, <2>3
  <2>6. Version(i, inodes'[i]) \in versions' /\ versions \subseteq versions'
    BY <2>1
  <2> QED
    BY <1>1, <2>1, <2>3, <2>4, <2>5, <2>6, AuthorChanges
<1>3. ASSUME NEW dir \in {Root, 3}, NEW n \in Names, NEW new \in Spare,
             NEW k \in {"file", "directory", "symlink"}, ReplaceEntry(dir, n, new, k)
      PROVE  ReadInv'
  <2> DEFINE made == CASE k = "file" -> File(Now)
                       [] k = "symlink" -> Link(Now)
                       [] OTHER -> Directory(Now, Empty)
             node == [inodes[dir] EXCEPT !.names[n] = new, !.stamp = Now]
  <2>1. /\ inodes' = [inodes EXCEPT ![dir].names[n] = new, ![dir].stamp = Now, ![new] = made]
        /\ versions' = versions \cup {Version(j, inodes'[j]) : j \in {dir, new}}
        /\ changes' = changes + 1 /\ reader' = reader /\ result' = result
        /\ inodes[dir].kind = "directory" /\ inodes[new].kind = "free"
    BY <1>1, <1>3 DEF ReplaceEntry, Change
  <2>2. /\ made \in Nodes /\ made.stamp = Now
        /\ made.kind # "directory" => made.names = Empty
    BY <1>1, NodeFacts
  <2>3. dir \in Inodes /\ new \in Inodes /\ dir # new /\ new # Root
    BY <1>1, <2>1
  <2>4. node \in Nodes /\ node.stamp = Now /\ node.kind = "directory"
    BY <1>1, <2>1, <2>3 DEF Nodes
  <2>5. inodes' = [inodes EXCEPT ![dir] = node, ![new] = made]
    BY <1>1, <2>1, <2>3
  <2> HIDE DEF node, made
  <2>6. /\ inodes' \in [Inodes -> Nodes]
        /\ \A j \in Inodes :
              inodes'[j] = IF j = dir THEN node ELSE IF j = new THEN made ELSE inodes[j]
    BY <1>1, <2>2, <2>3, <2>4, <2>5
  <2>7. /\ Version(dir, inodes'[dir]) \in versions' /\ Version(new, inodes'[new]) \in versions'
        /\ versions \subseteq versions'
    BY <2>1
  <2> QED
    BY <1>1, <2>1, <2>2, <2>3, <2>4, <2>6, <2>7, AuthorChanges
<1>4. ASSUME NEW dir \in {Root, 3}, NEW n \in Names, RemoveEntry(dir, n) PROVE ReadInv'
  <2> DEFINE node == [inodes[dir] EXCEPT !.names[n] = NoInode, !.stamp = Now]
  <2>1. /\ inodes' = [inodes EXCEPT ![dir].names[n] = NoInode, ![dir].stamp = Now]
        /\ versions' = versions \cup {Version(j, inodes'[j]) : j \in {dir}}
        /\ changes' = changes + 1 /\ reader' = reader /\ result' = result
        /\ inodes[dir].kind = "directory"
    <3>1. /\ Change([inodes EXCEPT ![dir].names[n] = NoInode, ![dir].stamp = Now], {dir})
          /\ inodes[dir].kind = "directory"
      BY <1>4 DEF RemoveEntry
    <3> QED
      BY <1>1, <3>1 DEF Change
  <2>2. dir \in Inodes
    BY <1>1
  <2>3. node \in Nodes /\ node.stamp = Now /\ node.kind = "directory"
    BY <1>1, <2>1, <2>2 DEF Nodes
  <2>4. inodes' = [inodes EXCEPT ![dir] = node]
    BY <1>1, <2>1, <2>2
  <2> HIDE DEF node
  <2>5. /\ inodes' \in [Inodes -> Nodes]
        /\ \A j \in Inodes : inodes'[j] = IF j = dir THEN node ELSE inodes[j]
    BY <1>1, <2>2, <2>3, <2>4
  <2>6. Version(dir, inodes'[dir]) \in versions' /\ versions \subseteq versions'
    BY <2>1
  <2> QED
    BY <1>1, <2>1, <2>3, <2>5, <2>6, AuthorChanges
<1>5. CASE \E i \in 1 .. 7, c \in 1 .. 2 : WriteChunk(i, c)
  BY <1>2, <1>5 DEF Inodes
<1>6. CASE \E dir \in {Root, 3}, n \in Names, new \in Spare,
               k \in {"file", "directory", "symlink"} : ReplaceEntry(dir, n, new, k)
  BY <1>3, <1>6
<1>7. CASE \E dir \in {Root, 3}, n \in Names : RemoveEntry(dir, n)
  BY <1>4, <1>7
<1> QED
  BY <1>5, <1>6, <1>7, Zenon

(*------------------------------ the reader ------------------------------*)
FrameSeqs == Seq(OpenDirectories)
Looks == [ino : {NoInode} \cup Inodes,
          kind : {"none", "file", "directory", "symlink", "free"}, stamp : Nat]
Chunks == Seq(Nat)
Readers(vs) ==
    [pc : {"idle", "list", "walk", "open", "read", "finish", "over"},
     mode : {"none", "inventory", "contained"}, frames : FrameSeqs, name : Names,
     before : Looks, got : Chunks, rows : SUBSET vs]

(* Nothing is open and nothing was read.                                   *)
LEMMA IdleFacts ==
  /\ Idle \in Readers({}) /\ Idle.frames = <<>> /\ Idle.got = <<>> /\ Idle.mode = "none"
  /\ Idle.pc = "idle" /\ NoStat \in Looks /\ <<>> \in Chunks /\ <<>> \in FrameSeqs
<1>1. NoStat \in Looks
  BY DEF NoStat, Looks, NoInode
<1>2. <<>> \in Chunks /\ <<>> \in FrameSeqs
  BY DEF Chunks, FrameSeqs
<1> QED
  BY <1>1, <1>2 DEF Idle, Readers, Names
Begun(pc, mode, fs) == [Idle EXCEPT !.pc = pc, !.mode = mode, !.frames = fs]

(* A reader that begins knows nothing yet.                                 *)
LEMMA FromIdle ==
  ASSUME NEW pc \in {"idle", "list", "walk", "open", "read", "finish", "over"},
         NEW mode \in {"none", "inventory", "contained"}, NEW fs \in FrameSeqs, NEW vs, NEW r,
         r = Begun(pc, mode, fs)
  PROVE  /\ r \in Readers(vs) /\ r.pc = pc /\ r.mode = mode /\ r.frames = fs /\ r.got = <<>>
BY IdleFacts DEF Readers, Begun

(* A step of the reader has to keep what the reader knows.                 *)
LEMMA ReaderSteps ==
  ASSUME ReadInv, Unread, reader' \in Readers(versions), FramesInv', EntryInv',
         result' \in [kind : {"none", "changed", "ok"}, rows : SUBSET versions]
  PROVE  ReadInv'
<1>1. inodes' = inodes /\ changes' = changes /\ versions' = versions
  BY DEF Unread
<1>2. InodesInv'
  BY <1>1 DEF ReadInv, InodesInv, Version
<1>3. ReadTypes'
  BY <1>1 DEF ReadInv, ReadTypes, Readers, FrameSeqs, Looks, Chunks
<1> QED
  BY <1>2, <1>3 DEF ReadInv

(* What the invariant says of the reader alone.                            *)
LEMMA ReaderTypes ==
  ASSUME ReadInv
  PROVE  /\ reader \in Readers(versions)
         /\ result \in [kind : {"none", "changed", "ok"}, rows : SUBSET versions]
         /\ reader.frames \in Seq(OpenDirectories) /\ reader.got \in Seq(Nat)
         /\ Len(reader.frames) \in Nat /\ reader.rows \subseteq versions
         /\ reader.before.stamp \in Nat
         /\ Len(reader.frames) > 0 => Top \in OpenDirectories
<1>1. /\ reader \in Readers(versions)
      /\ result \in [kind : {"none", "changed", "ok"}, rows : SUBSET versions]
  BY DEF ReadInv, ReadTypes, Readers, FrameSeqs, Looks, Chunks
<1>2. /\ reader.frames \in Seq(OpenDirectories) /\ reader.got \in Seq(Nat)
      /\ reader.rows \subseteq versions /\ reader.before \in Looks
  BY <1>1 DEF Readers, FrameSeqs, Chunks
<1>3. reader.before.stamp \in Nat
  BY <1>2 DEF Looks
<1> QED
  BY <1>1, <1>2, <1>3 DEF Top

(* What a look at an inode, or at a name, shows.                           *)
LEMMA StatFacts ==
  ASSUME ReadInv
  PROVE  /\ \A i \in Inodes :
               /\ Stat(i) \in [ino : Inodes, kind : {"file", "directory", "symlink", "free"},
                               stamp : Nat]
               /\ Stat(i).ino = i /\ Stat(i).stamp = inodes[i].stamp
               /\ Stat(i).kind = inodes[i].kind
         /\ NoStat.kind = "none"
         /\ \A dir \in Inodes, n \in Names :
               \/ LiveStat(dir, n) = NoStat
               \/ \E i \in Inodes : LiveStat(dir, n) = Stat(i)
<1>1. inodes \in [Inodes -> Nodes]
  BY InodeTypes
<1>2. \A i \in Inodes :
         /\ Stat(i) \in [ino : Inodes, kind : {"file", "directory", "symlink", "free"}, stamp : Nat]
         /\ Stat(i).ino = i /\ Stat(i).stamp = inodes[i].stamp /\ Stat(i).kind = inodes[i].kind
  BY <1>1 DEF Stat, Nodes
<1>3. \A dir \in Inodes, n \in Names : inodes[dir].names[n] \in {NoInode} \cup Inodes
  BY <1>1 DEF Nodes
<1> QED
  BY <1>2, <1>3 DEF LiveStat, NoStat

(* A directory that is opened is listed as it stands.                      *)
LEMMA FrameFacts ==
  ASSUME ReadInv, NEW dir \in Inodes, inodes[dir].kind = "directory", NEW n \in Names,
         NEW todo \in SUBSET Names
  PROVE  /\ Frame(dir, n, todo) \in OpenDirectories
         /\ Frame(dir, n, todo).dir = dir /\ Frame(dir, n, todo).before.ino = dir
         /\ Frame(dir, n, todo).before.stamp = inodes[dir].stamp
         /\ Frame(dir, n, todo).todo = todo
BY StatFacts DEF Frame, OpenDirectories, Stat

(* A read that ends knows nothing.                                         *)
LEMMA RaiseStep ==
  ASSUME ReadInv, Unread, Raise
  PROVE  ReadInv'
<1>0. Idle \in Readers(versions)
  BY IdleFacts DEF Readers
<1>1. /\ reader'.pc = "over" /\ reader'.mode = "none" /\ reader'.frames = <<>>
      /\ reader' \in Readers(versions)
  BY <1>0, IdleFacts DEF Raise, Readers
<1>2. FramesInv' /\ EntryInv'
  BY <1>1 DEF FramesInv, EntryInv
<1>3. result' \in [kind : {"none", "changed", "ok"}, rows : SUBSET versions]
  BY DEF Raise, Stop
<1> QED
  BY <1>1, <1>2, <1>3, ReaderSteps

(* Opening the root starts the walk with one frame.                        *)
LEMMA OpenRootStep ==
  ASSUME ReadInv, NEW mode \in {"inventory", "contained"}, OpenRoot(mode)
  PROVE  ReadInv'
<1>1. /\ Root \in Inodes /\ inodes[Root].kind = "directory"
      /\ "a" \in Names /\ "d" \in Names
  BY InodeFacts, InodeTypes DEF Names
<1>2. PICK todo \in SUBSET Names, pc \in {"list", "walk"} :
         /\ reader' = [Idle EXCEPT !.pc = pc, !.mode = mode, !.frames = <<Frame(Root, "a", todo)>>]
         /\ pc = "list" <=> mode = "inventory"
  BY <1>1 DEF OpenRoot
<1> DEFINE f == Frame(Root, "a", todo)
<1>3. f \in OpenDirectories /\ f.dir = Root /\ f.before.ino = Root
      /\ f.before.stamp = inodes[Root].stamp
  BY <1>1, FrameFacts
<1>4. inodes[Root].stamp \in Nat
  BY <1>1, StatFacts
<1> HIDE DEF f
<1>5. /\ reader'.pc = pc /\ reader'.mode = mode /\ reader'.frames = <<f>>
      /\ reader'.got = <<>> /\ reader' \in Readers(versions)
  <2>1. <<f>> \in FrameSeqs /\ reader' = [Idle EXCEPT !.pc = pc, !.mode = mode, !.frames = <<f>>]
    BY <1>2, <1>3 DEF FrameSeqs, f
  <2>2. /\ pc \in {"idle", "list", "walk", "open", "read", "finish", "over"}
        /\ mode \in {"none", "inventory", "contained"}
    BY <1>2
  <2> DEFINE fs == <<f>>
  <2> HIDE DEF fs
  <2>3. fs \in FrameSeqs /\ reader' = Begun(pc, mode, fs)
    BY <2>1 DEF fs, Begun
  <2> QED
    BY <2>2, <2>3, FromIdle DEF fs
<1>6. Len(reader'.frames) = 1 /\ reader'.frames[1] = f
  BY <1>5
<1>7. inodes' = inodes /\ result' = result /\ Unread
  BY DEF OpenRoot, Unread
<1>8. FramesInv'
  BY <1>1, <1>2, <1>3, <1>4, <1>5, <1>6, <1>7 DEF FramesInv, Listing
<1>9. EntryInv'
  BY <1>2, <1>5, <1>6 DEF EntryInv
<1> QED
  BY <1>5, <1>7, <1>8, <1>9, ReaderTypes, ReaderSteps

(* The open directories as they were, with other names to do in the last.  *)
WithTodo(fs, todo) == [fs EXCEPT ![Len(fs)].todo = todo]

(* Taking an entry off the list of the last frame leaves the others.       *)
LEMMA TodoFrames ==
  ASSUME ReadInv, Len(reader.frames) > 0, NEW todo \in SUBSET Names, NEW fs,
         fs = WithTodo(reader.frames, todo)
  PROVE  /\ fs \in Seq(OpenDirectories) /\ Len(fs) = Len(reader.frames)
         /\ fs[Len(fs)].todo = todo
         /\ \A k \in 1 .. Len(fs) :
               /\ fs[k].dir = reader.frames[k].dir /\ fs[k].before = reader.frames[k].before
               /\ fs[k].listed = reader.frames[k].listed
<1> DEFINE L == Len(reader.frames)
           f == [reader.frames[L] EXCEPT !.todo = todo]
<1>1. reader.frames \in Seq(OpenDirectories) /\ L \in 1 .. L
  BY ReaderTypes
<1>2. reader.frames[L] \in OpenDirectories
  BY <1>1
<1>3. /\ f \in OpenDirectories /\ f.todo = todo /\ f.dir = reader.frames[L].dir
      /\ f.before = reader.frames[L].before /\ f.listed = reader.frames[L].listed
  BY <1>2 DEF OpenDirectories
<1>4. fs = [reader.frames EXCEPT ![L] = f]
  BY <1>1 DEF WithTodo
<1> HIDE DEF f
<1>5. fs \in Seq(OpenDirectories) /\ Len(fs) = L
  BY <1>1, <1>3, <1>4
<1>6. \A k \in 1 .. L : fs[k] = IF k = L THEN f ELSE reader.frames[k]
  BY <1>1, <1>4
<1> QED
  BY <1>1, <1>3, <1>5, <1>6

(* As long as the same directories are open, and they are all listed.      *)
LEMMA SameFrames ==
  ASSUME ReadInv, inodes' = inodes, reader.pc # "list" \/ reader'.mode # "inventory",
         Len(reader'.frames) = Len(reader.frames), reader'.mode = reader.mode,
         \A k \in 1 .. Len(reader.frames) :
            /\ reader'.frames[k].dir = reader.frames[k].dir
            /\ reader'.frames[k].before = reader.frames[k].before
            /\ reader'.frames[k].listed = reader.frames[k].listed
  PROVE  FramesInv'
BY DEF ReadInv, FramesInv, Listing

(* Listing a directory.                                                    *)
LEMMA ListStep ==
  ASSUME ReadInv, ListDirectory
  PROVE  ReadInv'
<1> DEFINE L == Len(reader.frames)
           names == Listing(Top.dir)
           f == [Top EXCEPT !.todo = names, !.listed = names]
<1>1. /\ reader.pc = "list" /\ L > 0 /\ reader.mode = "inventory"
      /\ reader' = [reader EXCEPT !.pc = "walk", !.frames[L].todo = names,
                                  !.frames[L].listed = names]
      /\ Unread /\ inodes' = inodes /\ result' = result
  BY DEF ListDirectory, Listing, ReadInv, EntryInv, Unread
<1>2. /\ reader \in Readers(versions) /\ reader.frames \in Seq(OpenDirectories)
      /\ Top \in OpenDirectories /\ L \in 1 .. L /\ Top = reader.frames[L]
  BY <1>1, ReaderTypes DEF Top
<1>3. names \in SUBSET Names
  BY DEF Listing
<1> HIDE DEF names
<1>4. /\ f \in OpenDirectories /\ f.dir = Top.dir /\ f.before = Top.before
      /\ f.listed = names
  BY <1>2, <1>3 DEF OpenDirectories
<1> DEFINE fs == [reader.frames EXCEPT ![L] = f]
<1>5. reader' = [reader EXCEPT !.pc = "walk", !.frames = fs]
  <2>1. fs = [reader.frames EXCEPT ![L].todo = names, ![L].listed = names]
    BY <1>2
  <2> QED
    BY <1>1, <1>2, <2>1 DEF Readers
<1>a. fs \in FrameSeqs
  BY <1>2, <1>4 DEF FrameSeqs
<1> HIDE DEF f, fs
<1>6. /\ reader' \in Readers(versions) /\ reader'.pc = "walk" /\ reader'.mode = "inventory"
      /\ reader'.frames = fs
  BY <1>1, <1>2, <1>5, <1>a DEF Readers
<1>7. /\ Len(reader'.frames) = L
      /\ \A k \in 1 .. L : reader'.frames[k] = IF k = L THEN f ELSE reader.frames[k]
  BY <1>2, <1>4, <1>6 DEF fs
<1>8. FramesInv'
  <2>1. ASSUME NEW k \in 1 .. L
        PROVE  LET g == reader'.frames[k] IN
               /\ g.before.ino = g.dir
               /\ g.before.stamp <= inodes[g.dir].stamp
               /\ inodes[g.dir].stamp = g.before.stamp => g.listed = Listing(g.dir)
    <3>1. CASE k = L
      BY <1>2, <1>4, <1>7, <3>1 DEF ReadInv, FramesInv, names
    <3>2. CASE k # L
      BY <1>1, <1>7, <3>2 DEF ReadInv, FramesInv
    <3> QED
      BY <3>1, <3>2
  <2>2. \A d : Listing(d)' = Listing(d)
    BY <1>1 DEF Listing
  <2> QED
    BY <1>1, <1>7, <2>1, <2>2 DEF FramesInv
<1>9. EntryInv'
  BY <1>1, <1>6, <1>7 DEF EntryInv
<1> QED
  BY <1>1, <1>6, <1>8, <1>9, ReaderTypes, ReaderSteps

(* Looking at an entry.                                                    *)
LEMMA StatStep ==
  ASSUME ReadInv, StatEntry
  PROVE  ReadInv'
<1> DEFINE L == Len(reader.frames)
           n == First(Top.todo)
           s == LiveStat(Top.dir, n)
<1>1. /\ reader.pc = "walk" /\ reader.mode = "inventory" /\ L > 0 /\ Unread /\ inodes' = inodes
      /\ Top.todo # {}
  BY DEF StatEntry, ReadInv, EntryInv, Unread
<1>2. /\ reader \in Readers(versions) /\ reader.frames \in Seq(OpenDirectories)
      /\ Top \in OpenDirectories /\ Top = reader.frames[L]
  BY <1>1, ReaderTypes DEF Top
<1>3. n \in Names /\ Top.dir \in Inodes /\ Top.todo \ {n} \in SUBSET Names
  BY <1>2 DEF First, Names, OpenDirectories
<1>4. CASE Raise
  BY <1>1, <1>4, RaiseStep
<1>5. CASE /\ s # NoStat
           /\ reader' = [reader EXCEPT !.pc = "open", !.name = n, !.before = s, !.got = <<>>,
                             !.frames[Len(reader.frames)].todo = @ \ {n}]
           /\ result' = result
  <2> HIDE DEF n
  <2>1. PICK i \in Inodes : s = Stat(i)
    BY <1>3, <1>5, StatFacts
  <2> HIDE DEF s
  <2>2. s \in Looks /\ s.ino \in Inodes /\ s.stamp = inodes[s.ino].stamp /\ s.stamp \in Nat
    BY <2>1, StatFacts DEF Looks
  <2> DEFINE todo == Top.todo \ {n}
             fs == WithTodo(reader.frames, todo)
  <2>3. reader' = [reader EXCEPT !.pc = "open", !.name = n, !.before = s, !.got = <<>>,
                                 !.frames = fs]
    <3>1. [reader EXCEPT !.pc = "open", !.name = n, !.before = s, !.got = <<>>,
                         !.frames[Len(reader.frames)].todo = @ \ {n}] =
          [reader EXCEPT !.pc = "open", !.name = n, !.before = s, !.got = <<>>,
                         !.frames = [reader.frames EXCEPT ![L].todo = @ \ {n}]]
      BY <1>2 DEF Readers
    <3> QED
      BY <1>2, <1>5, <3>1 DEF n, s, WithTodo
  <2> HIDE DEF todo
  <2>4. /\ fs \in Seq(OpenDirectories) /\ Len(fs) = L
        /\ \A k \in 1 .. Len(fs) :
               /\ fs[k].dir = reader.frames[k].dir /\ fs[k].before = reader.frames[k].before
               /\ fs[k].listed = reader.frames[k].listed
    <3>1. todo \in SUBSET Names
      BY <1>3 DEF todo
    <3> QED
      BY <1>1, <3>1, TodoFrames
  <2> HIDE DEF fs
  <2>5. /\ reader' \in Readers(versions) /\ reader'.pc = "open" /\ reader'.mode = "inventory"
        /\ reader'.frames = fs /\ reader'.got = <<>> /\ reader'.before = s
    BY <1>1, <1>2, <1>3, <2>2, <2>3, <2>4, IdleFacts DEF Readers, FrameSeqs
  <2>6. FramesInv'
    BY <1>1, <2>4, <2>5, SameFrames
  <2>7. EntryInv'
    BY <1>1, <2>2, <2>4, <2>5 DEF EntryInv
  <2> QED
    BY <1>1, <1>5, <2>5, <2>6, <2>7, ReaderTypes, ReaderSteps
<1> QED
  BY <1>4, <1>5 DEF StatEntry

(* Only the last open directory and what was read of an entry may change.  *)
LEMMA EntryStep ==
  ASSUME ReadInv, reader.pc \in {"open", "read"}, OpenEntry \/ ReadChunk
  PROVE  ReadInv'
<1> DEFINE L == Len(reader.frames)
<1>1. /\ L > 0 /\ Unread /\ inodes' = inodes /\ reader \in Readers(versions)
      /\ reader.frames \in Seq(OpenDirectories) /\ Top \in OpenDirectories /\ L \in Nat
      /\ reader.before \in Looks /\ reader.got \in Seq(Nat)
  BY ReaderTypes DEF OpenEntry, ReadChunk, ReadInv, EntryInv, Unread, Readers
<1>2. /\ reader.before.ino \in Inodes /\ reader.name \in Names /\ Top.dir \in Inodes
      /\ reader.before.stamp \in Nat /\ inodes[reader.before.ino].stamp \in Nat
      /\ reader.before.stamp <= inodes[reader.before.ino].stamp
  BY <1>1, StatFacts DEF ReadInv, EntryInv, Readers, OpenDirectories, Looks
(* The entry is opened. *)
<1>3. CASE OpenEntry /\ ~Raise
  <2> DEFINE now == LiveStat(Top.dir, reader.name)
  <2>1. /\ now = reader.before /\ result' = result /\ reader.pc = "open"
        /\ reader.mode = "inventory" /\ reader.got = <<>>
    BY <1>3 DEF OpenEntry, ReadInv, EntryInv
  <2>2. CASE /\ now.kind \in {"file", "symlink"}
             /\ reader' = [reader EXCEPT !.pc = IF now.kind = "file" THEN "read" ELSE "finish"]
    <3> HIDE DEF now
    <3>1. /\ reader' \in Readers(versions) /\ reader'.mode = reader.mode
          /\ reader'.pc = IF reader.before.kind = "file" THEN "read" ELSE "finish"
          /\ reader'.frames = reader.frames /\ reader'.got = <<>>
          /\ reader'.before = reader.before
      BY <1>1, <2>1, <2>2 DEF Readers
    <3>2. FramesInv'
      BY <1>1, <2>1, <3>1, SameFrames
    <3>3. EntryInv'
      BY <1>1, <1>2, <2>1, <2>2, <3>1 DEF EntryInv
    <3> QED
      BY <1>1, <2>1, <3>1, <3>2, <3>3, ReaderTypes, ReaderSteps
  <2>3. CASE /\ now.kind = "directory"
             /\ reader' = [reader EXCEPT !.pc = "list",
                                         !.frames = Append(@, Frame(now.ino, reader.name, {}))]
    <3>1. PICK i \in Inodes : now = Stat(i)
      BY <1>2, <2>3, StatFacts
    <3> DEFINE f == Frame(i, reader.name, {})
    <3>2. now.ino = i /\ inodes[i].kind = "directory"
      BY <2>3, <3>1, StatFacts
    <3>3. /\ f \in OpenDirectories /\ f.dir = i /\ f.before.ino = i
          /\ f.before.stamp = inodes[i].stamp /\ inodes[i].stamp \in Nat
      BY <1>2, <3>2, FrameFacts, StatFacts
    <3> HIDE DEF f
    <3> DEFINE fs == Append(reader.frames, f)
    <3>4. reader' = [reader EXCEPT !.pc = "list", !.frames = fs]
      BY <1>1, <2>3, <3>2 DEF Readers, f
    <3>5. /\ fs \in FrameSeqs /\ Len(fs) = L + 1
          /\ \A k \in 1 .. Len(fs) : fs[k] = IF k = L + 1 THEN f ELSE reader.frames[k]
      BY <1>1, <3>3 DEF FrameSeqs
    <3> HIDE DEF fs, now
    <3>6. /\ reader' \in Readers(versions) /\ reader'.mode = "inventory" /\ reader'.pc = "list"
          /\ reader'.frames = fs
      BY <1>1, <2>1, <3>4, <3>5 DEF Readers
    <3>7. FramesInv'
      <4> SUFFICES ASSUME NEW k \in 1 .. L + 1
                   PROVE  LET g == fs[k] IN
                          /\ g.before.ino = g.dir
                          /\ g.before.stamp <= inodes[g.dir].stamp
                          /\ k < L + 1 /\ inodes[g.dir].stamp = g.before.stamp
                                => g.listed = Listing(g.dir)
        BY <1>1, <3>5, <3>6 DEF FramesInv, Listing
      <4>1. CASE k = L + 1
        BY <3>3, <3>5, <4>1
      <4>2. CASE k # L + 1
        <5>1. k \in 1 .. L /\ fs[k] = reader.frames[k]
          BY <1>1, <3>5, <4>2
        <5> QED
          BY <2>1, <5>1 DEF ReadInv, FramesInv
      <4> QED
        BY <4>1, <4>2
    <3>8. EntryInv'
      BY <1>1, <3>5, <3>6 DEF EntryInv
    <3> QED
      BY <1>1, <2>1, <3>6, <3>7, <3>8, ReaderTypes, ReaderSteps
  <2> QED
    BY <1>3, <2>2, <2>3 DEF OpenEntry
(* One more chunk. *)
<1>4. CASE ReadChunk
  <2> DEFINE i == reader.before.ino
             chunk == inodes[i].chunks[Len(reader.got) + 1]
             got == Append(reader.got, chunk)
             pc == IF Len(reader.got) = 1 THEN "finish" ELSE "read"
  <2>1. /\ reader.pc = "read" /\ reader' = [reader EXCEPT !.got = got, !.pc = pc]
        /\ result' = result /\ reader.before.kind = "file" /\ Len(reader.got) \in {0, 1}
    <3>1. reader.pc = "read" /\ result' = result
      BY <1>4 DEF ReadChunk
    <3>2. reader.before.kind = "file" /\ Len(reader.got) < 2
      BY <3>1 DEF ReadInv, EntryInv
    <3>3. Len(reader.got) \in Nat
      BY <1>1
    <3>4. Len(reader.got) \in {0, 1}
      <4> DEFINE n == Len(reader.got)
      <4> HIDE DEF n
      <4>1. n \in Nat /\ n < 2
        BY <3>2, <3>3 DEF n
      <4>2. n \in {0, 1}
        BY <4>1
      <4> QED
        BY <4>2 DEF n
    <3>5. reader' = [reader EXCEPT !.got = got, !.pc = pc]
      BY <1>1, <1>4 DEF ReadChunk, Readers
    <3> QED
      BY <3>1, <3>2, <3>4, <3>5
  <2>2. Len(reader.got) + 1 \in 1 .. 2
    <3> DEFINE n == Len(reader.got)
    <3>1. n \in {0, 1}
      BY <2>1
    <3> HIDE DEF n
    <3>2. n + 1 \in 1 .. 2
      BY <3>1
    <3> QED
      BY <3>2 DEF n
  <2>3. chunk \in Nat
    BY <1>2, <2>2, InodeTypes DEF Nodes
  <2>4. /\ got \in Chunks /\ Len(got) = Len(reader.got) + 1
        /\ \A c \in 1 .. Len(got) : got[c] = IF c = Len(got) THEN chunk ELSE reader.got[c]
    BY <1>1, <2>3 DEF Chunks
  <2> HIDE DEF got
  <2>5. /\ reader' \in Readers(versions) /\ reader'.mode = reader.mode /\ reader'.got = got
        /\ reader'.pc = pc /\ reader'.frames = reader.frames /\ reader'.before = reader.before
    BY <1>1, <2>1, <2>4 DEF Readers
  <2>6. FramesInv'
    BY <1>1, <2>1, <2>5, SameFrames
  <2>7. reader.before.stamp = inodes[i].stamp =>
           \A c \in 1 .. Len(got) : got[c] = inodes[i].chunks[c]
    BY <2>1, <2>4 DEF ReadInv, EntryInv
  <2>8. EntryInv'
    <3>1. Len(reader'.got) = IF pc = "finish" THEN 2 ELSE 1
      <4> DEFINE n == Len(reader.got)
                 m == Len(reader'.got)
      <4> HIDE DEF n, m
      <4>1. n \in {0, 1} /\ m = n + 1 /\ pc = IF n = 1 THEN "finish" ELSE "read"
        BY <2>1, <2>4, <2>5 DEF n, m
      <4> HIDE DEF pc
      <4>2. m = IF pc = "finish" THEN 2 ELSE 1
        BY <4>1
      <4> QED
        BY <4>2 DEF m
    <3>2. /\ Len(reader'.frames) > 0 /\ (reader'.mode = "contained" => Len(reader'.frames) = 1)
          /\ (reader'.mode = "contained" => Top'.todo = {})
      BY <1>1, <2>1, <2>5 DEF EntryInv, ReadInv, Top
    <3>3. \A c \in 1 .. Len(reader'.got) :
             reader'.before.stamp = inodes'[reader'.before.ino].stamp =>
                reader'.got[c] = inodes'[reader'.before.ino].chunks[c]
      BY <1>1, <2>5, <2>7
    <3>4. /\ reader'.pc \in {"read", "finish"}
          /\ (reader'.pc = "read" => Len(reader'.got) < 2)
          /\ (reader'.pc = "finish" => Len(reader'.got) = 2)
      BY <2>5, <3>1
    <3>5. /\ reader'.before.ino \in Inodes /\ reader'.before.kind = "file"
          /\ reader'.before.stamp <= inodes'[reader'.before.ino].stamp
      BY <1>1, <1>2, <2>1, <2>5
    <3> QED
      BY <3>2, <3>3, <3>4, <3>5 DEF EntryInv
  <2> QED
    BY <1>1, <2>1, <2>5, <2>6, <2>8, ReaderTypes, ReaderSteps
<1> QED
  BY <1>1, <1>3, <1>4, RaiseStep

(* The next directory of a contained path, or the file at its end.         *)
LEMMA ContainedStep ==
  ASSUME ReadInv, OpenContained
  PROVE  ReadInv'
<1> DEFINE n == First(Top.todo)
           now == LiveStat(Top.dir, n)
<1>1. /\ reader.pc = "walk" /\ reader.mode = "contained" /\ Top.todo # {} /\ Unread
      /\ inodes' = inodes /\ Len(reader.frames) = 1 /\ reader.got = <<>>
  BY DEF OpenContained, ReadInv, EntryInv, Unread
<1>2. /\ reader \in Readers(versions) /\ reader.frames \in Seq(OpenDirectories)
      /\ Top \in OpenDirectories /\ Top = reader.frames[1]
  BY <1>1, ReaderTypes DEF Top
<1>3. n \in Names /\ Top.dir \in Inodes /\ "x" \in Names
  BY <1>2 DEF First, Names, OpenDirectories
<1>4. CASE Raise
  BY <1>1, <1>4, RaiseStep
<1>5. CASE /\ now.kind = "directory"
           /\ reader' = [reader EXCEPT !.frames = <<Frame(now.ino, n, {"x"})>>]
           /\ result' = result
  <2>1. PICK i \in Inodes : now = Stat(i)
    BY <1>3, <1>5, StatFacts
  <2> DEFINE f == Frame(i, n, {"x"})
  <2>2. now.ino = i /\ inodes[i].kind = "directory"
    BY <1>5, <2>1, StatFacts
  <2> HIDE DEF n
  <2>3. /\ f \in OpenDirectories /\ f.dir = i /\ f.before.ino = i
        /\ f.before.stamp = inodes[i].stamp /\ inodes[i].stamp \in Nat
    <3>1. {"x"} \in SUBSET Names
      BY <1>3
    <3> QED
      BY <1>3, <2>2, <3>1, FrameFacts, StatFacts
  <2> HIDE DEF f
  <2> DEFINE fs == <<f>>
  <2>4. reader' = [reader EXCEPT !.frames = fs]
    BY <1>5, <2>2 DEF f, n
  <2>5. fs \in FrameSeqs /\ Len(fs) = 1 /\ fs[1] = f
    BY <2>3 DEF FrameSeqs
  <2> HIDE DEF fs
  <2>6. /\ reader' \in Readers(versions) /\ reader'.pc = "walk" /\ reader'.mode = "contained"
        /\ reader'.frames = fs /\ reader'.got = <<>>
    BY <1>1, <1>2, <2>4, <2>5 DEF Readers
  <2>7. FramesInv'
    <3> SUFFICES ASSUME NEW k \in 1 .. Len(fs)
                 PROVE  fs[k].before.ino = fs[k].dir /\ fs[k].before.stamp <= inodes[fs[k].dir].stamp
      BY <1>1, <2>6 DEF FramesInv
    <3>1. fs[k] = f
      BY <2>5
    <3> QED
      BY <2>3, <3>1
  <2>8. EntryInv'
    BY SMTT(60), <2>5, <2>6 DEF EntryInv
  <2> QED
    BY <1>1, <1>5, <2>6, <2>7, <2>8, ReaderTypes, ReaderSteps
<1>6. CASE /\ now.kind = "file"
           /\ reader' = [reader EXCEPT !.pc = "read", !.name = n, !.before = now,
                                       !.frames[1].todo = {}]
           /\ result' = result
  <2>1. PICK i \in Inodes : now = Stat(i)
    BY <1>3, <1>6, StatFacts
  <2>2. /\ now \in Looks /\ now.ino \in Inodes /\ now.stamp = inodes[now.ino].stamp
        /\ now.stamp \in Nat
    BY <2>1, StatFacts DEF Looks
  <2> HIDE DEF n
  <2> DEFINE fs == WithTodo(reader.frames, {})
  <2>3. reader' = [reader EXCEPT !.pc = "read", !.name = n, !.before = now, !.frames = fs]
    <3>1. [reader EXCEPT !.pc = "read", !.name = n, !.before = now, !.frames[1].todo = {}] =
          [reader EXCEPT !.pc = "read", !.name = n, !.before = now,
                         !.frames = [reader.frames EXCEPT ![1].todo = {}]]
      BY <1>2 DEF Readers
    <3> QED
      BY <1>1, <1>6, <3>1 DEF n, WithTodo
  <2>4. /\ fs \in Seq(OpenDirectories) /\ Len(fs) = 1 /\ fs[Len(fs)].todo = {}
        /\ \A k \in 1 .. Len(fs) :
               /\ fs[k].dir = reader.frames[k].dir /\ fs[k].before = reader.frames[k].before
               /\ fs[k].listed = reader.frames[k].listed
    <3>1. {} \in SUBSET Names
      OBVIOUS
    <3> QED
      BY <1>1, <3>1, TodoFrames
  <2> HIDE DEF fs, now
  <2>5. /\ reader' \in Readers(versions) /\ reader'.pc = "read" /\ reader'.mode = "contained"
        /\ reader'.frames = fs /\ reader'.got = <<>> /\ reader'.before = now
    BY <1>1, <1>2, <1>3, <2>2, <2>3, <2>4 DEF Readers, FrameSeqs
  <2>6. FramesInv'
    BY <1>1, <2>4, <2>5, SameFrames
  <2>7. Top'.todo = {}
    BY <2>4, <2>5 DEF Top
  <2>8. EntryInv'
    BY <1>1, <1>6, <2>2, <2>4, <2>5, <2>7 DEF EntryInv
  <2> QED
    BY <1>1, <1>6, <2>5, <2>6, <2>8, ReaderTypes, ReaderSteps
<1> QED
  BY <1>4, <1>5, <1>6 DEF OpenContained

(* An entry that shows no change holds what was read of it.                *)
LEMMA EntryIsVersion ==
  ASSUME ReadInv, reader.pc = "finish", Stat(reader.before.ino) = reader.before
  PROVE  Row(reader.before.ino, reader.before.stamp, {}, reader.got) \in versions
<1> DEFINE i == reader.before.ino
<1>1. i \in Inodes /\ inodes[i] \in Nodes /\ reader.got \in Seq(Nat)
  BY ReaderTypes, InodeTypes DEF ReadInv, EntryInv
<1>2. inodes[i].stamp = reader.before.stamp /\ inodes[i].kind = reader.before.kind
  BY <1>1, StatFacts
<1>3. inodes[i].kind \in {"file", "symlink"}
  BY <1>2 DEF ReadInv, EntryInv
<1>4. Version(i, inodes[i]) \in versions /\ inodes[i].names = Empty
  BY <1>1, <1>3 DEF ReadInv, InodesInv
<1>5. {n \in Names : inodes[i].names[n] # NoInode} = {}
  BY <1>4 DEF Empty
<1>6. reader.got = IF inodes[i].kind = "file" THEN inodes[i].chunks ELSE <<>>
  <2>1. CASE inodes[i].kind = "file"
    <3>1. Len(reader.got) = 2
      BY <1>2, <2>1 DEF ReadInv, EntryInv
    <3>2. \A c \in 1 .. 2 : reader.got[c] = inodes[i].chunks[c]
      BY <1>2, <3>1 DEF ReadInv, EntryInv
    <3>3. inodes[i].chunks \in [1 .. 2 -> Nat]
      BY <1>1 DEF Nodes
    <3>4. reader.got \in [1 .. 2 -> Nat]
      <4>1. reader.got \in [1 .. Len(reader.got) -> Nat]
        BY <1>1
      <4> QED
        BY <3>1, <4>1
    <3> QED
      BY <2>1, <3>2, <3>3, <3>4
  <2>2. CASE inodes[i].kind = "symlink"
    BY <1>2, <2>2 DEF ReadInv, EntryInv
  <2> QED
    BY <1>3, <2>1, <2>2
<1>7. Version(i, inodes[i]) = Row(i, reader.before.stamp, {}, reader.got)
  BY <1>2, <1>5, <1>6 DEF Version
<1> QED
  BY <1>4, <1>7

(* The entry is compared with what was seen before it was opened.          *)
LEMMA FinishStep ==
  ASSUME ReadInv, FinishEntry
  PROVE  ReadInv'
<1>1. /\ reader.pc = "finish" /\ Unread /\ inodes' = inodes /\ reader \in Readers(versions)
      /\ Len(reader.frames) > 0
  BY ReaderTypes DEF FinishEntry, ReadInv, EntryInv, Unread
<1>2. CASE Raise
  BY <1>1, <1>2, RaiseStep
<1>3. CASE ~Raise
  <2> DEFINE row == Row(reader.before.ino, reader.before.stamp, {}, reader.got)
  <2>1. /\ reader' = [reader EXCEPT !.pc = "walk", !.rows = @ \cup {row}]
        /\ Stat(reader.before.ino) = reader.before /\ result' = result
    BY <1>3 DEF FinishEntry
  <2>2. row \in versions
    BY <1>1, <2>1, EntryIsVersion
  <2> HIDE DEF row
  <2>3. /\ reader' \in Readers(versions) /\ reader'.pc = "walk" /\ reader'.mode = reader.mode
        /\ reader'.frames = reader.frames /\ reader'.got = reader.got
    BY <1>1, <2>1, <2>2 DEF Readers
  <2>4. FramesInv'
    BY <1>1, <2>3, SameFrames
  <2>5. EntryInv'
    BY <1>1, <2>3 DEF EntryInv, ReadInv, Top
  <2> QED
    BY <1>1, <2>1, <2>3, <2>4, <2>5, ReaderTypes, ReaderSteps
<1> QED
  BY <1>2, <1>3

(* A directory that shows no change holds what was listed.                 *)
LEMMA DirectoryStep ==
  ASSUME ReadInv, VerifyDirectory
  PROVE  ReadInv'
<1> DEFINE L == Len(reader.frames)
           row == Row(Top.dir, Top.before.stamp, Top.listed, <<>>)
<1>1. /\ reader.pc = "walk" /\ reader.mode = "inventory" /\ L > 0 /\ Unread
      /\ inodes' = inodes /\ reader \in Readers(versions) /\ L \in Nat
      /\ reader.frames \in Seq(OpenDirectories) /\ Top = reader.frames[L]
      /\ Top \in OpenDirectories /\ reader.rows \subseteq versions
  BY ReaderTypes DEF VerifyDirectory, ReadInv, EntryInv, Unread, Top
<1>2. CASE Raise
  BY <1>1, <1>2, RaiseStep
<1>3. CASE ~Raise
  <2>1. /\ Stat(Top.dir) = Top.before
        /\ IF L = 1
           THEN /\ Stop("ok", reader.rows \cup {row})
                /\ reader' = [reader EXCEPT !.pc = "over"]
           ELSE /\ reader' = [reader EXCEPT !.frames = SubSeq(@, 1, L - 1),
                                            !.rows = @ \cup {row}]
                /\ result' = result
    BY <1>3 DEF VerifyDirectory
  <2>2. row \in versions
    <3>1. Top.dir \in Inodes /\ Top.before.kind = "directory" /\ L \in 1 .. L
      BY <1>1 DEF OpenDirectories
    <3>2. inodes[Top.dir].stamp = Top.before.stamp /\ inodes[Top.dir].kind = "directory"
      BY <2>1, <3>1, StatFacts
    <3>3. Top.listed = Listing(Top.dir)
      BY <1>1, <3>1, <3>2 DEF ReadInv, FramesInv
    <3>4. Version(Top.dir, inodes[Top.dir]) \in versions
      BY <3>1, <3>2 DEF ReadInv, InodesInv
    <3> QED
      BY <3>2, <3>3, <3>4 DEF Version, Listing
  <2> HIDE DEF row
  <2>3. CASE L = 1
    <3>1. /\ reader' \in Readers(versions) /\ reader'.pc = "over"
          /\ reader'.mode = "inventory" /\ reader'.frames = reader.frames
      BY <1>1, <2>1, <2>3 DEF Readers
    <3>2. result' \in [kind : {"none", "changed", "ok"}, rows : SUBSET versions]
      BY <1>1, <2>1, <2>2, <2>3 DEF Stop
    <3>3. FramesInv'
      BY <1>1, <3>1, SameFrames
    <3>4. EntryInv'
      BY <3>1 DEF EntryInv
    <3> QED
      BY <1>1, <3>1, <3>2, <3>3, <3>4, ReaderSteps
  <2>4. CASE L # 1
    <3> DEFINE fs == SubSeq(reader.frames, 1, L - 1)
    <3>1. /\ fs \in FrameSeqs /\ Len(fs) > 0 /\ Len(fs) \in Nat
          /\ \A k \in 1 .. Len(fs) : fs[k] = reader.frames[k] /\ k \in 1 .. L
      <4> DEFINE m == L - 1
      <4>1. m \in Nat /\ m > 0 /\ m <= L /\ L \in Nat
        <5> HIDE DEF L
        <5>1. L \in Nat /\ L > 0 /\ L # 1
          BY <1>1, <2>4
        <5> QED
          BY <5>1
      <4> HIDE DEF m
      <4>2. \A k \in 1 .. m : k \in 1 .. L
        BY <4>1
      <4>3. \A k \in 1 .. m : reader.frames[k] \in OpenDirectories
        BY <1>1, <4>2
      <4>4. fs = SubSeq(reader.frames, 1, m)
        BY DEF m
      <4>5. fs = [k \in 1 .. m |-> reader.frames[k]]
        BY <1>1, <4>1, <4>4
      <4>6. fs \in FrameSeqs /\ Len(fs) = m
        BY <1>1, <4>1, <4>3, <4>5 DEF FrameSeqs
      <4> QED
        BY <4>1, <4>2, <4>5, <4>6
    <3>2. reader' = [reader EXCEPT !.frames = fs, !.rows = @ \cup {row}] /\ result' = result
      BY <2>1, <2>4
    <3> HIDE DEF fs
    <3>3. /\ reader' \in Readers(versions) /\ reader'.pc = "walk"
          /\ reader'.mode = "inventory" /\ reader'.frames = fs
      BY <1>1, <2>2, <3>1, <3>2 DEF Readers
    <3>4. FramesInv'
      <4> SUFFICES ASSUME NEW k \in 1 .. Len(fs)
                   PROVE  LET g == fs[k] IN
                          /\ g.before.ino = g.dir
                          /\ g.before.stamp <= inodes[g.dir].stamp
                          /\ inodes[g.dir].stamp = g.before.stamp => g.listed = Listing(g.dir)
        BY <1>1, <3>3 DEF FramesInv, Listing
      <4>1. k \in 1 .. L /\ fs[k] = reader.frames[k]
        BY <3>1
      <4> QED
        BY <1>1, <4>1 DEF ReadInv, FramesInv
    <3>5. EntryInv'
      BY <3>1, <3>3 DEF EntryInv
    <3> QED
      BY <1>1, <3>2, <3>3, <3>4, <3>5, ReaderTypes, ReaderSteps
  <2> QED
    BY <2>3, <2>4
<1> QED
  BY <1>2, <1>3

(* The contained read returns to the directory it came from.               *)
LEMMA ReturnStep ==
  ASSUME ReadInv, ContainedReturns
  PROVE  ReadInv'
<1>1. /\ Unread /\ inodes' = inodes /\ reader \in Readers(versions) /\ reader.pc = "walk"
      /\ reader.rows \subseteq versions /\ reader.mode = "contained"
      /\ reader' = [reader EXCEPT !.pc = "over"] /\ Stop("ok", reader.rows)
  BY ReaderTypes DEF ContainedReturns, Unread
<1>2. /\ reader' \in Readers(versions) /\ reader'.pc = "over" /\ reader'.mode = "contained"
      /\ reader'.frames = reader.frames
  BY <1>1 DEF Readers
<1>3. result' \in [kind : {"none", "changed", "ok"}, rows : SUBSET versions]
  BY <1>1 DEF Stop
<1>4. FramesInv'
  BY <1>1, <1>2, SameFrames
<1>5. EntryInv'
  BY <1>1, <1>2 DEF EntryInv, ReadInv
<1> QED
  BY <1>1, <1>2, <1>3, <1>4, <1>5, ReaderSteps

(* Every step of a reader or an author keeps the invariant.                *)
LEMMA ReadStep == ReadInv /\ [ReadNext]_readVars => ReadInv'
<1> SUFFICES ASSUME ReadInv, [ReadNext]_readVars PROVE ReadInv'
  OBVIOUS
<1>1. CASE UNCHANGED readVars
  <2>1. /\ inodes' = inodes /\ reader' = reader /\ result' = result /\ changes' = changes
        /\ versions' = versions
    BY <1>1 DEF readVars
  <2>2. ReadTypes' /\ InodesInv'
    BY ZenonT(60), <2>1 DEF ReadInv, ReadTypes, InodesInv, Version
  <2>3. FramesInv' /\ EntryInv'
    BY <2>1 DEF ReadInv, FramesInv, EntryInv, Listing, Top
  <2> QED
    BY <2>2, <2>3 DEF ReadInv
<1>2. CASE OpenEntry \/ ReadChunk
  BY <1>2, EntryStep DEF OpenEntry, ReadChunk
<1>3. CASE \/ \E i \in 1 .. 7, c \in 1 .. 2 : WriteChunk(i, c)
           \/ \E dir \in {Root, 3}, n \in Names, new \in Spare,
                 k \in {"file", "directory", "symlink"} : ReplaceEntry(dir, n, new, k)
           \/ \E dir \in {Root, 3}, n \in Names : RemoveEntry(dir, n)
  BY <1>3, AuthorSteps
<1>4. CASE \E mode \in {"inventory", "contained"} : OpenRoot(mode)
  BY <1>4, OpenRootStep
<1> QED
  BY <1>1, <1>2, <1>3, <1>4, ListStep, StatStep, ContainedStep, FinishStep, DirectoryStep,
     ReturnStep, Zenon DEF ReadNext

(* What the reader recorded of an unchanged entry is what it holds.        *)
THEOREM ReadInvariant == ReadSpec => []ReadInv
<1>1. ASSUME ReadInit PROVE ReadInv
  <2> DEFINE top == [Empty EXCEPT !["a"] = 2, !["d"] = 3]
             inner == [Empty EXCEPT !["x"] = 4]
  <2>1. /\ top \in [Names -> {NoInode} \cup Inodes] /\ inner \in [Names -> {NoInode} \cup Inodes]
    BY DEF Empty, Names, Inodes, NoInode
  <2> HIDE DEF top, inner
  <2>2. \A i \in Inodes : inodes[i] = CASE i = Root -> Directory(1, top)
                                       [] i = 2 -> File(1)
                                       [] i = 3 -> Directory(1, inner)
                                       [] i = 4 -> File(1)
                                       [] OTHER -> Free
    BY <1>1 DEF ReadInit, Inodes, top, inner
  <2>3. inodes \in [Inodes -> Nodes] /\ changes = 1
    <3>1. DOMAIN inodes = Inodes /\ inodes = [i \in Inodes |-> inodes[i]] /\ changes = 1
      BY <1>1 DEF ReadInit, Inodes
    <3>2. \A i \in Inodes : inodes[i] \in Nodes
      BY <2>1, <2>2, NodeFacts
    <3> QED
      BY <3>1, <3>2
  <2>4. \A i \in Inodes : /\ inodes[i].stamp <= 1
                          /\ inodes[i].kind # "directory" => inodes[i].names = Empty
                          /\ inodes[i].kind # "free" => i \in 1 .. 4
    BY <2>1, <2>2, NodeFacts DEF Root
  <2>5. inodes[Root].kind = "directory"
    <3>1. inodes[Root] = Directory(1, top)
      BY <2>2, InodeFacts DEF Root
    <3> QED
      BY <2>1, <3>1, NodeFacts
  <2>6. versions = {Version(i, inodes[i]) : i \in 1 .. 4}
    BY <1>1 DEF ReadInit
  <2>7. InodesInv
    BY <2>3, <2>4, <2>5, <2>6 DEF InodesInv
  <2>8. reader = Idle /\ result = [kind |-> "none", rows |-> {}]
    BY <1>1 DEF ReadInit
  <2>9. ReadTypes
    <3>1. reader \in Readers(versions)
      BY <2>8, IdleFacts DEF Readers
    <3>2. result \in [kind : {"none", "changed", "ok"}, rows : SUBSET versions]
      BY <2>8
    <3> QED
      BY <2>3, <3>1, <3>2 DEF ReadTypes, Nodes, Readers, FrameSeqs, Looks, Chunks
  <2>10. FramesInv /\ EntryInv
    BY <2>8, IdleFacts DEF FramesInv, EntryInv
  <2> QED
    BY <2>7, <2>9, <2>10 DEF ReadInv
<1> QED
  BY <1>1, ReadStep, PTL DEF ReadSpec

(* What a successful read returns for an entry is one version of it, never *)
(* a mixture of two saves (_hash_regular, _verify_directory).              *)
THEOREM ReadsAreVersions == ReadSpec => []OneVersion
<1>1. ReadInv => OneVersion
  BY DEF ReadInv, ReadTypes, OneVersion
<1> QED
  BY <1>1, ReadInvariant, PTL
==============================================================================
