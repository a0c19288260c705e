----------------------- MODULE GenerationPublication -----------------------
(***************************************************************************)
(* Publication of generated output by sn-module-gen: `add`, `update` and   *)
(* `validate` of one plugin (feature_cli_operations.py), the generation    *)
(* plan (generation_service.py, generation_plan.py), its executor          *)
(* (generation_execution.py), the operation lock and the validator.        *)
(*                                                                         *)
(* A command may be killed between any two steps, and the author edits     *)
(* sources and generated files while it runs.  Generated files are         *)
(* published one rename at a time; nothing is rolled back.  What protects  *)
(* the project is the order of the writes: an incomplete marker first, the *)
(* integrity manifest (the ownership authority) last, then the marker is   *)
(* removed.                                                                *)
(*                                                                         *)
(* Data.  A leaf stands for the generated files of one owner that are      *)
(* always rendered together: the shared runtime, the required files of a   *)
(* feature, and the two files it has only while it exports JVM symbols.    *)
(* The content of a leaf is the version of the authored tree it was        *)
(* rendered from, and whether it comes from the bootstrap generation that  *)
(* precedes the JVM front end.  An inventory of the authored tree (which   *)
(* holds modification times) is that tree's version.                       *)
(***************************************************************************)
EXTENDS Naturals, FiniteSets

CONSTANTS
    Processes,    \* generator processes that may be started on the plugin
    Features,     \* package names the author may use
    EditLimit,    \* bound: changes of the authored tree
    FaultLimit,   \* bound: killed commands and edits of generated files
    None          \* a value that is none of the above

ASSUME ProcessesAssumption == None \notin Processes /\ IsFiniteSet(Processes)
ASSUME FeaturesAssumption == None \notin Features
ASSUME LimitsAssumption == EditLimit \in Nat /\ FaultLimit \in Nat

VARIABLES
    authored,     \* per feature: is it there, and does it export JVM symbols
    version,      \* the version of the authored tree
    disk,         \* the content of each generated leaf
    touched,      \* leaves somebody else changed since they were published
    marker,       \* is .supernote-module/incomplete.json there
    manifest,     \* .supernote-module/manifest.json, or None
    holder,       \* the process holding the plugin's operation lock, or None
    job,          \* per process: the command it runs
    reported,     \* the result of the last command that ended
    faults        \* killed commands and edits of generated files so far

vars == <<authored, version, disk, touched, marker, manifest, holder, job,
          reported, faults>>

tree == <<authored, version>>
generated == <<disk, touched, marker, manifest>>

-----------------------------------------------------------------------------
(* Generated files *)

RuntimeLeaf == <<"runtime", None>>
FeatureLeaf(f) == <<"feature", f>>
JvmLeaf(f) == <<"jvm", f>>

Leaves == {RuntimeLeaf} \cup {FeatureLeaf(f) : f \in Features}
                        \cup {JvmLeaf(f) : f \in Features}

Stages == {"bootstrap", "final"}
Rendered == [version : 0 .. EditLimit, stage : Stages]
Missing == [version |-> 0, stage |-> "missing"]
Edited == [version |-> 0, stage |-> "edited"]

Present(a) == {f \in Features : a[f] # "absent"}
JvmSources(a) == {f \in Features : a[f] = "jvm"}

(* GenerationService._render_owned: what the plan renders for the features of
   `a' at version `v', given the features `jvm' the JVM front end described and
   the version `analysed' it read.  A plugin without features has no artifact
   but the manifest; the bootstrap plan gives every feature an empty JVM API. *)
RenderedLeaves(a, jvm, stage) ==
    IF Present(a) = {} THEN {}
    ELSE {RuntimeLeaf} \cup {FeatureLeaf(f) : f \in Present(a)}
         \cup {JvmLeaf(f) : f \in {g \in Present(a) \cap jvm : stage = "final"}}

Render(a, v, jvm, analysed, stage) ==
    [l \in Leaves |->
        IF l \in RenderedLeaves(a, jvm, stage)
        THEN [version |-> IF \E f \in Features : l = JvmLeaf(f) THEN analysed ELSE v,
              stage |-> stage]
        ELSE Missing]

(* What a plan or a manifest gives the leaves; Missing where it has none. *)
Contents == [Leaves -> Rendered \cup {Missing}]
NoContents == [l \in Leaves |-> Missing]
Paths(contents) == {l \in Leaves : contents[l] # Missing}

Manifests == [features : SUBSET Features, contents : Contents]
ASSUME NoneAssumption == None \notin Manifests

Owned(m) == IF m = None THEN {} ELSE Paths(m.contents)

(* GenerationService._stale_owned_paths: what the prior manifest owns and the
   new plan does not render. *)
StaleOwned(contents) == Owned(manifest) \ Paths(contents)

(* ProjectModel.detect_existing_generation: generated or authored module state
   without a manifest that owns it. *)
Unmanifested ==
    /\ manifest = None
    /\ disk[RuntimeLeaf] # Missing \/ Present(authored) # {}

-----------------------------------------------------------------------------
(* Commands *)

Idle == [pc |-> "idle", command |-> "none", target |-> None, stage |-> "final",
         before |-> 0, jvm |-> {}, inventory |-> 0, features |-> {},
         contents |-> NoContents, deletes |-> {}, publish |-> {},
         expected |-> NoContents]

Steps == {"idle", "scaffold", "begin", "inventory", "render", "compare", "execute",
          "mark", "delete", "publish", "complete", "record", "clear", "frontend",
          "validate"}

(* GenerationService._load_prior_manifest: for `add' the manifest must know
   every feature but the requested one. *)
PriorManifestMatches(j) ==
    (manifest # None /\ j.command = "add")
        => manifest.features = Present(authored) \ {j.target}

(* discover_semantic_ir: no JVM source without the front end's output. *)
FrontendComplete(j) == JvmSources(authored) \subseteq j.jvm

Init ==
    /\ authored = [f \in Features |-> "absent"]
    /\ version = 0
    /\ disk = [l \in Leaves |-> Missing]
    /\ touched = {}
    /\ marker = FALSE
    /\ manifest = None
    /\ holder = None
    /\ job = [p \in Processes |-> Idle]
    /\ reported = "none"
    /\ faults = 0

Continue(p, update) == job' = [job EXCEPT ![p] = update]

(* The command ends: the lock is released, whatever was published stays. *)
End(p, result) ==
    /\ Continue(p, Idle)
    /\ holder' = None
    /\ reported' = result

(* Mutant: `update' is refused, too, where no manifest owns the project. *)
StartManifested(p, command, target) ==
    /\ holder = None
    /\ job[p].pc = "idle"
    /\ command = "add" => version < EditLimit
    /\ IF Unmanifested
       THEN /\ reported' = "refused"
            /\ UNCHANGED <<holder, job>>
       ELSE /\ holder' = p
            /\ Continue(p, [Idle EXCEPT !.command = command, !.target = target,
                            !.pc = IF command = "add" THEN "scaffold" ELSE "begin"])
            /\ reported' = "none"
    /\ UNCHANGED <<tree, generated, faults>>

(* _run_command: the operation lock is taken without waiting, and
   assert_public_project refuses a plugin whose generated state no manifest
   owns, except for `update`. *)
Start(p, command, target) ==
    /\ holder = None
    /\ job[p].pc = "idle"
    /\ command = "add" => version < EditLimit
    /\ IF Unmanifested /\ command # "update"
       THEN /\ reported' = "refused"
            /\ UNCHANGED <<holder, job>>
       ELSE /\ holder' = p
            /\ Continue(p, [Idle EXCEPT !.command = command, !.target = target,
                            !.pc = IF command = "add" THEN "scaffold" ELSE "begin"])
            /\ reported' = "none"
    /\ UNCHANGED <<tree, generated, faults>>

(* FeatureCliOperationService.add: the authored scaffold appears at once; a
   destination that exists is refused. *)
Scaffold(p, state) ==
    /\ job[p].pc = "scaffold"
    /\ LET f == job[p].target IN
       IF authored[f] # "absent"
       THEN End(p, "refused") /\ UNCHANGED tree
       ELSE /\ authored' = [authored EXCEPT ![f] = state]
            /\ version' = version + 1
            /\ Continue(p, [job[p] EXCEPT !.pc = "begin"])
            /\ UNCHANGED <<holder, reported>>
    /\ UNCHANGED <<generated, faults>>

(* FeatureCliOperationService._plan and .validate: the authored tree is
   inventoried; an `add' or `update' with JVM sources first plans and executes a
   bootstrap generation, for the front end to run on. *)
BeginPlan(p) ==
    /\ job[p].pc = "begin"
    /\ LET jvm == JvmSources(authored)
           bootstrap == jvm # {} /\ job[p].command # "validate"
       IN Continue(p, [job[p] EXCEPT !.before = version, !.jvm = jvm,
                       !.pc = IF bootstrap THEN "inventory" ELSE "frontend",
                       !.stage = IF bootstrap THEN "bootstrap" ELSE "final"])
    /\ UNCHANGED <<tree, generated, holder, reported, faults>>

(* GenerationService.plan, first part: the inventory of the authored tree. *)
TakeInventory(p) ==
    /\ job[p].pc = "inventory"
    /\ Continue(p, [job[p] EXCEPT !.pc = "render", !.inventory = version])
    /\ UNCHANGED <<tree, generated, holder, reported, faults>>

(* GenerationService.plan, second part: the prior manifest is checked and every
   owned artifact rendered from the sources as they are now. *)
RenderOwned(p) ==
    /\ job[p].pc = "render"
    /\ IF PriorManifestMatches(job[p]) /\ FrontendComplete(job[p])
       THEN /\ Continue(p, [job[p] EXCEPT !.pc = "compare", !.features = Present(authored),
                            !.contents = Render(authored, version, job[p].jvm,
                                                job[p].before, job[p].stage)])
            /\ UNCHANGED <<holder, reported>>
       ELSE End(p, "failure")
    /\ UNCHANGED <<tree, generated, faults>>

(* GenerationService.plan, last part: a plan whose sources changed while it was
   rendered is dropped; otherwise the stale leaves are computed and the live
   state of every leaf the plan will touch is captured. *)
ComparePlan(p) ==
    /\ job[p].pc = "compare"
    /\ IF version # job[p].inventory
       THEN End(p, "failure")
       ELSE LET stale == StaleOwned(job[p].contents)
                rendered == Paths(job[p].contents)
            IN /\ Continue(p, [job[p] EXCEPT !.pc = "execute",
                               !.deletes = stale, !.publish = rendered,
                               !.expected = [l \in Leaves |-> IF l \in rendered \cup stale
                                                            THEN disk[l] ELSE Missing]])
               /\ UNCHANGED <<holder, reported>>
    /\ UNCHANGED <<tree, generated, faults>>

(* _validate_path_precondition *)
Unchanged(p, l) == disk[l] = job[p].expected[l]

(* GenerationService.validate_preconditions, before the first visible write. *)
ValidatePreconditions(p) ==
    /\ job[p].pc = "execute"
    /\ IF version = job[p].inventory
          /\ \A l \in job[p].publish \cup job[p].deletes : Unchanged(p, l)
       THEN Continue(p, [job[p] EXCEPT !.pc = "mark"]) /\ UNCHANGED <<holder, reported>>
       ELSE End(p, "failure")
    /\ UNCHANGED <<tree, generated, faults>>

(* Mutant: only a generation that will be finalized is marked. *)
PublishMarkerFinal(p) ==
    /\ job[p].pc = "mark"
    /\ marker' = (marker \/ job[p].stage = "final")
    /\ Continue(p, [job[p] EXCEPT !.pc = "delete"])
    /\ UNCHANGED <<tree, disk, touched, manifest, holder, reported, faults>>

(* GenerationPlanExecutor._publish_incomplete_marker *)
PublishMarker(p) ==
    /\ job[p].pc = "mark"
    /\ marker' = TRUE
    /\ Continue(p, [job[p] EXCEPT !.pc = "delete"])
    /\ UNCHANGED <<tree, disk, touched, manifest, holder, reported, faults>>

(* Mutant: the first deletion ends the loop. *)
DeleteStaleFirst(p, l) ==
    /\ job[p].pc = "delete"
    /\ l \in job[p].deletes
    /\ Continue(p, [job[p] EXCEPT !.deletes = {}])
    /\ disk' = [disk EXCEPT ![l] = Missing]
    /\ touched' = touched \ {l}
    /\ UNCHANGED <<tree, marker, manifest, holder, reported, faults>>

(* GenerationPlanExecutor._delete_stale_output, one path: a path that is gone
   is skipped, one that changed since planning stops the generation. *)
DeleteStale(p, l) ==
    /\ job[p].pc = "delete"
    /\ l \in job[p].deletes
    /\ IF disk[l] # Missing /\ ~Unchanged(p, l)
       THEN End(p, "failure") /\ UNCHANGED generated
       ELSE /\ disk' = [disk EXCEPT ![l] = Missing]
            /\ touched' = touched \ {l}
            /\ Continue(p, [job[p] EXCEPT !.deletes = @ \ {l}])
            /\ UNCHANGED <<marker, manifest, holder, reported>>
    /\ UNCHANGED <<tree, faults>>

StaleDeleted(p) ==
    /\ job[p].pc = "delete"
    /\ job[p].deletes = {}
    /\ Continue(p, [job[p] EXCEPT !.pc = "publish"])
    /\ UNCHANGED <<tree, generated, holder, reported, faults>>

(* GenerationPlanExecutor._publish_output, one leaf: checked, then renamed into
   place. *)
PublishLeaf(p, l) ==
    /\ job[p].pc = "publish"
    /\ l \in job[p].publish
    /\ IF Unchanged(p, l)
       THEN /\ disk' = [disk EXCEPT ![l] = job[p].contents[l]]
            /\ touched' = touched \ {l}
            /\ Continue(p, [job[p] EXCEPT !.publish = @ \ {l}])
            /\ UNCHANGED <<marker, manifest, holder, reported>>
       ELSE End(p, "failure") /\ UNCHANGED generated
    /\ UNCHANGED <<tree, faults>>

(* The bootstrap generation ends here, without a manifest and with its marker
   in place; a final one goes on to record its completion. *)
OutputPublished(p) ==
    /\ job[p].pc = "publish"
    /\ job[p].publish = {}
    /\ Continue(p, [job[p] EXCEPT
                    !.pc = IF job[p].stage = "final" THEN "complete" ELSE "frontend"])
    /\ UNCHANGED <<tree, generated, holder, reported, faults>>

(* JvmFrontendService.manifests runs KSP on the generated analysis project, if
   there are JVM sources; its output is dropped if an authored input changed
   since the command took its first inventory. *)
RunFrontend(p) ==
    /\ job[p].pc = "frontend"
    /\ IF version = job[p].before /\ (job[p].jvm # {} => disk[RuntimeLeaf] # Missing)
       THEN /\ Continue(p, [job[p] EXCEPT !.stage = "final",
                            !.pc = IF job[p].command = "validate"
                                   THEN "validate" ELSE "inventory"])
            /\ UNCHANGED <<holder, reported>>
       ELSE End(p, "failure")
    /\ UNCHANGED <<tree, generated, faults>>

(* GenerationService.validate_completion_preconditions *)
ValidateCompletion(p) ==
    /\ job[p].pc = "complete"
    /\ IF version = job[p].inventory
       THEN Continue(p, [job[p] EXCEPT !.pc = "record"]) /\ UNCHANGED <<holder, reported>>
       ELSE End(p, "failure")
    /\ UNCHANGED <<tree, generated, faults>>

(* The manifest is the last artifact _publish_output renames into place. *)
RecordManifest(p) ==
    /\ job[p].pc = "record"
    /\ manifest' = [features |-> job[p].features, contents |-> job[p].contents]
    /\ Continue(p, [job[p] EXCEPT !.pc = "clear"])
    /\ UNCHANGED <<tree, disk, touched, marker, holder, reported, faults>>

(* GenerationPlanExecutor._clear_incomplete_marker *)
ClearMarker(p) ==
    /\ job[p].pc = "clear"
    /\ marker' = FALSE
    /\ Continue(p, [job[p] EXCEPT !.pc = "validate"])
    /\ UNCHANGED <<tree, disk, touched, manifest, holder, reported, faults>>

(* GeneratedProjectValidator.validate: no marker, the manifest and every
   artifact as a fresh plan renders them, and nothing stale that the manifest
   owns.  The plan uses the JVM descriptions the command already has. *)
Valid(jvm, analysed) ==
    LET contents == Render(authored, version, jvm, analysed, "final") IN
    /\ JvmSources(authored) \subseteq jvm
    /\ ~marker
    /\ manifest = [features |-> Present(authored), contents |-> contents]
    /\ \A l \in Paths(contents) : disk[l] = contents[l]

(* The last step of every command; `add' also looks its feature up again. *)
Validate(p) ==
    /\ job[p].pc = "validate"
    /\ LET j == job[p] IN
       End(p, IF Valid(j.jvm, j.before) /\ (j.command = "add" => authored[j.target] # "absent")
              THEN "success" ELSE "failure")
    /\ UNCHANGED <<tree, generated, faults>>

(* The process is killed, interrupted, or a step of it raises: the operating
   system or the `finally` blocks release the lock, and published output is not
   restored. *)
Stop(p) ==
    /\ job[p].pc # "idle"
    /\ faults < FaultLimit
    /\ End(p, "stopped")
    /\ faults' = faults + 1
    /\ UNCHANGED <<tree, generated>>

-----------------------------------------------------------------------------
(* The author *)

(* The bound on edits leaves room for the scaffold of an `add` under way. *)
Room == version + Cardinality({p \in Processes : job[p].pc = "scaffold"}) < EditLimit

(* A source is edited, or a feature gains or loses its JVM exports. *)
EditSource(f, state) ==
    /\ Room
    /\ authored[f] # "absent"
    /\ authored' = [authored EXCEPT ![f] = state]
    /\ version' = version + 1
    /\ UNCHANGED <<generated, holder, job, reported, faults>>

(* A module directory is deleted, its .supernote-generated directory with it. *)
DeleteFeature(f) ==
    /\ Room
    /\ authored[f] # "absent"
    /\ authored' = [authored EXCEPT ![f] = "absent"]
    /\ version' = version + 1
    /\ disk' = [disk EXCEPT ![FeatureLeaf(f)] = Missing, ![JvmLeaf(f)] = Missing]
    /\ touched' = touched \cup {FeatureLeaf(f), JvmLeaf(f)}
    /\ UNCHANGED <<marker, manifest, holder, job, reported, faults>>

(* A generated file is edited or deleted by hand. *)
EditGenerated(l, content) ==
    /\ faults < FaultLimit
    /\ disk[l] # Missing
    /\ disk' = [disk EXCEPT ![l] = content]
    /\ touched' = touched \cup {l}
    /\ faults' = faults + 1
    /\ UNCHANGED <<tree, marker, manifest, holder, job, reported>>

-----------------------------------------------------------------------------

Commands(p) ==
    \/ \E f \in Features : Start(p, "add", f)
    \/ Start(p, "update", None)
    \/ Start(p, "validate", None)

Step(p) ==
    \/ \E state \in {"native", "jvm"} : Scaffold(p, state)
    \/ BeginPlan(p) \/ TakeInventory(p) \/ RenderOwned(p) \/ ComparePlan(p)
    \/ ValidatePreconditions(p) \/ PublishMarker(p)
    \/ \E l \in Leaves : DeleteStale(p, l) \/ PublishLeaf(p, l)
    \/ StaleDeleted(p) \/ OutputPublished(p) \/ RunFrontend(p)
    \/ ValidateCompletion(p) \/ RecordManifest(p) \/ ClearMarker(p) \/ Validate(p)

Author ==
    \/ \E f \in Features, state \in {"native", "jvm"} : EditSource(f, state)
    \/ \E f \in Features : DeleteFeature(f)
    \/ \E l \in Leaves, content \in {Edited, Missing} : EditGenerated(l, content)

Next ==
    \/ \E p \in Processes : Commands(p) \/ Step(p) \/ Stop(p)
    \/ Author

Spec == Init /\ [][Next]_vars

(* A started command runs on, and the user reruns a plain `update`. *)
FairSpec ==
    /\ Spec
    /\ \A p \in Processes : WF_vars(Step(p))
    /\ SF_vars(\E p \in Processes : Start(p, "update", None))

-----------------------------------------------------------------------------
(* Properties *)

Jobs == [pc : Steps, command : {"none", "add", "update", "validate"},
         target : Features \cup {None}, stage : Stages, before : 0 .. EditLimit,
         jvm : SUBSET Features, inventory : 0 .. EditLimit,
         features : SUBSET Features, contents : Contents,
         deletes : SUBSET Leaves, publish : SUBSET Leaves,
         expected : [Leaves -> Rendered \cup {Missing, Edited}]]

(* Every variable keeps its type. *)
TypeOK ==
    /\ authored \in [Features -> {"absent", "native", "jvm"}]
    /\ version \in 0 .. EditLimit
    /\ disk \in [Leaves -> Rendered \cup {Missing, Edited}]
    /\ touched \in SUBSET Leaves
    /\ marker \in BOOLEAN
    /\ manifest \in Manifests \cup {None}
    /\ holder \in Processes \cup {None}
    /\ job \in [Processes -> Jobs]
    /\ reported \in {"none", "refused", "success", "failure", "stopped"}
    /\ faults \in 0 .. FaultLimit

(* Without an incomplete marker, every leaf the manifest owns has the content
   the manifest records for it, unless somebody else changed it: wherever a
   command was killed, a tree that mixes two generations is marked. *)
MixedIsMarked ==
    (~marker /\ manifest # None)
        => \A l \in Owned(manifest) \ touched : disk[l] = manifest.contents[l]

(* A manifest is recorded only over its own complete generation, and gives up
   the ownership of no leaf that is still on disk: an owned file never becomes
   one that no later update would delete. *)
OwnershipHandedOver ==
    [][manifest' # manifest
        => /\ \A l \in Owned(manifest') \ touched : disk[l] = manifest'.contents[l]
           /\ \A l \in Owned(manifest) \ (Owned(manifest') \cup touched) :
                  disk[l] = Missing]_vars

(* The project is exactly what a generation of the authored tree writes. *)
Canonical ==
    \/ Valid(JvmSources(authored), version)
    \/ ~marker /\ manifest = None /\ Present(authored) = {}

(* However commands were killed and files edited, rerunning a plain update
   brings the project back to a canonical state. *)
RerunRecovers == []<>Canonical

-----------------------------------------------------------------------------
(* The inductive invariant of the safety properties *)

(* A command runs only under the lock, and writes only under the marker. *)
LockInv(p) ==
    /\ job[p].pc # "idle" => holder = p
    /\ job[p].pc \in {"delete", "publish", "complete", "record", "clear"} => marker
    /\ job[p].pc = "scaffold" => version < EditLimit

(* What is not yet to be published is on disk, unless somebody else changed it. *)
PublishInv(p) ==
    /\ job[p].pc \in {"execute", "mark", "delete"}
         => job[p].publish = Paths(job[p].contents)
    /\ job[p].pc \in {"publish", "complete", "record", "clear"}
         => /\ job[p].publish \subseteq Paths(job[p].contents)
            /\ \A l \in Paths(job[p].contents) \ (job[p].publish \cup touched) :
                   disk[l] = job[p].contents[l]
    /\ job[p].pc \in {"complete", "record", "clear"} => job[p].publish = {}

(* What the manifest owns and the plan has not is still to be deleted, or gone. *)
DeleteInv(p) ==
    /\ job[p].pc \in {"execute", "mark", "delete", "publish", "complete", "record"}
         => \A l \in Owned(manifest) \ (Paths(job[p].contents) \cup job[p].deletes
                                          \cup touched) : disk[l] = Missing
    /\ job[p].pc \in {"publish", "complete", "record"} => job[p].deletes = {}

(* Before the marker is removed, the manifest is that of the command. *)
RecordInv(p) ==
    job[p].pc = "clear"
        => manifest = [features |-> job[p].features, contents |-> job[p].contents]

JobInv(p) == LockInv(p) /\ PublishInv(p) /\ DeleteInv(p) /\ RecordInv(p)

PublicationInv == TypeOK /\ MixedIsMarked /\ \A p \in Processes : JobInv(p)
=============================================================================
