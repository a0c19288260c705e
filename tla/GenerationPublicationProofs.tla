--------------------- MODULE GenerationPublicationProofs ---------------------
(***************************************************************************)
(* Theorems about GenerationPublication for any number of processes,       *)
(* features, edits and faults.  PublicationInv is inductive: one lemma per *)
(* step of a command that can disturb it, after lemmas for what all steps  *)
(* share.                                                                  *)
(***************************************************************************)
EXTENDS GenerationPublication, FiniteSetTheorems, TLAPS

(* The idle job is well typed.                                             *)
LEMMA IdleType == Idle \in Jobs /\ Idle.pc = "idle"
<1>1. NoContents \in Contents /\ NoContents \in [Leaves -> Rendered \cup {Missing, Edited}]
  BY DEF NoContents, Contents
<1> QED BY <1>1, LimitsAssumption DEF Idle, Jobs, Steps, Stages

(* A running command has a well-typed job.                               *)
LEMMA JobType ==
  ASSUME PublicationInv, NEW p \in Processes
  PROVE  job[p] \in Jobs /\ version \in 0 .. EditLimit
BY DEF PublicationInv, TypeOK

(* A plan renders well-typed contents.                                     *)
LEMMA RenderType ==
  ASSUME NEW a, NEW v \in 0 .. EditLimit, NEW jvm, NEW analysed \in 0 .. EditLimit,
         NEW stage \in Stages
  PROVE  Render(a, v, jvm, analysed, stage) \in Contents
BY DEF Render, Contents, Rendered

(* Continue replaces one job.                                              *)
LEMMA ContinueJob ==
  ASSUME job \in [Processes -> Jobs], NEW p \in Processes, NEW u \in Jobs, Continue(p, u)
  PROVE  /\ job' \in [Processes -> Jobs]
         /\ job'[p] = u
         /\ \A q \in Processes \ {p} : job'[q] = job[q]
BY DEF Continue

(* While one process runs a command, all others are idle, so a step of it  *)
(* has only its own job to answer for.                                     *)
LEMMA Frame ==
  ASSUME PublicationInv, NEW p \in Processes, job[p].pc # "idle" \/ holder = None,
         \A q \in Processes \ {p} : job'[q] = job[q],
         TypeOK', MixedIsMarked', JobInv(p)'
  PROVE  PublicationInv'
<1>1. ASSUME NEW q \in Processes, q # p PROVE JobInv(q)'
  <2>1. job[q].pc = "idle"
    BY <1>1, ProcessesAssumption DEF PublicationInv, JobInv, LockInv
  <2>2. job'[q].pc = "idle"
    BY <2>1, <1>1
  <2> QED BY <2>2 DEF JobInv, LockInv, PublishInv, DeleteInv, RecordInv
<1> QED BY <1>1 DEF PublicationInv

(* A step that moves one job on and writes nothing.                        *)
LEMMA MoveStep ==
  ASSUME PublicationInv, NEW p \in Processes, job[p].pc # "idle",
         NEW u \in Jobs, Continue(p, u), JobInv(p)',
         UNCHANGED <<tree, generated, holder, reported, faults>>
  PROVE  PublicationInv'
<1>1. /\ job' \in [Processes -> Jobs]
      /\ \A q \in Processes \ {p} : job'[q] = job[q]
  BY ContinueJob DEF PublicationInv, TypeOK
<1>2. TypeOK'
  BY <1>1 DEF PublicationInv, TypeOK, tree, generated
<1>3. MixedIsMarked'
  BY DEF PublicationInv, MixedIsMarked, generated
<1> QED BY <1>1, <1>2, <1>3, Frame

(* A command may end anywhere.                                             *)
LEMMA EndStep ==
  ASSUME PublicationInv, NEW p \in Processes, job[p].pc # "idle",
         NEW r \in {"refused", "success", "failure", "stopped"}, End(p, r),
         UNCHANGED <<tree, generated>>, faults' \in 0 .. FaultLimit
  PROVE  PublicationInv'
<1>1. /\ job' \in [Processes -> Jobs]
      /\ job'[p] = Idle
      /\ \A q \in Processes \ {p} : job'[q] = job[q]
  BY ContinueJob, IdleType DEF PublicationInv, TypeOK, End
<1>2. TypeOK'
  BY <1>1 DEF PublicationInv, TypeOK, tree, generated, End
<1>3. MixedIsMarked'
  BY DEF PublicationInv, MixedIsMarked, generated
<1>4. JobInv(p)'
  BY <1>1, IdleType DEF JobInv, LockInv, PublishInv, DeleteInv, RecordInv
<1> QED BY <1>1, <1>2, <1>3, <1>4, Frame

-----------------------------------------------------------------------------
(* The steps of a command *)

(* A command is refused, or takes the free lock.                         *)
LEMMA StartStep ==
  ASSUME PublicationInv, NEW p \in Processes,
         NEW command \in {"add", "update", "validate"}, NEW target \in Features \cup {None},
         Start(p, command, target)
  PROVE  PublicationInv'
<1>1. CASE UNCHANGED <<holder, job>> /\ reported' = "refused"
  BY <1>1 DEF Start, PublicationInv, TypeOK, MixedIsMarked, JobInv, LockInv, PublishInv,
     DeleteInv, RecordInv, tree, generated
<1>2. CASE /\ holder' = p
           /\ Continue(p, [Idle EXCEPT !.command = command, !.target = target,
                           !.pc = IF command = "add" THEN "scaffold" ELSE "begin"])
           /\ reported' = "none"
  <2> DEFINE u == [Idle EXCEPT !.command = command, !.target = target,
                   !.pc = IF command = "add" THEN "scaffold" ELSE "begin"]
  <2>1. u \in Jobs /\ u.pc \in {"scaffold", "begin"} /\ (u.pc = "scaffold" => command = "add")
    BY IdleType DEF Jobs, Steps
  <2>2. /\ job' \in [Processes -> Jobs]
        /\ job'[p] = u
        /\ \A q \in Processes \ {p} : job'[q] = job[q]
    BY <1>2, <2>1, ContinueJob DEF PublicationInv, TypeOK
  <2> HIDE DEF u
  <2>3. TypeOK'
    BY <1>2, <2>2 DEF Start, PublicationInv, TypeOK, tree, generated
  <2>4. MixedIsMarked'
    BY DEF Start, PublicationInv, MixedIsMarked, generated
  <2>5. JobInv(p)'
    BY <1>2, <2>1, <2>2 DEF Start, JobInv, LockInv, PublishInv, DeleteInv, RecordInv, tree
  <2> QED BY <2>2, <2>3, <2>4, <2>5, Frame DEF Start
<1> QED BY <1>1, <1>2 DEF Start

(* The scaffold of `add' appears, within the bound on edits.             *)
LEMMA ScaffoldStep ==
  ASSUME PublicationInv, NEW p \in Processes, NEW state \in {"native", "jvm"},
         Scaffold(p, state)
  PROVE  PublicationInv'
<1>1. CASE End(p, "refused") /\ UNCHANGED tree
  BY <1>1, EndStep DEF Scaffold, PublicationInv, TypeOK
<1>2. CASE /\ authored' = [authored EXCEPT ![job[p].target] = state]
           /\ version' = version + 1
           /\ Continue(p, [job[p] EXCEPT !.pc = "begin"])
           /\ UNCHANGED <<holder, reported>>
  <2> DEFINE u == [job[p] EXCEPT !.pc = "begin"]
  <2>1. u \in Jobs /\ u.pc = "begin"
    BY DEF PublicationInv, TypeOK, Jobs, Steps
  <2>2. /\ job' \in [Processes -> Jobs]
        /\ job'[p] = u
        /\ \A q \in Processes \ {p} : job'[q] = job[q]
    BY <1>2, <2>1, ContinueJob DEF PublicationInv, TypeOK
  <2> HIDE DEF u
  <2>3. version' \in 0 .. EditLimit
    BY <1>2, LimitsAssumption DEF Scaffold, PublicationInv, TypeOK, JobInv, LockInv
  <2>4. authored' \in [Features -> {"absent", "native", "jvm"}]
    BY <1>2 DEF PublicationInv, TypeOK
  <2>5. TypeOK'
    BY <1>2, <2>2, <2>3, <2>4 DEF Scaffold, PublicationInv, TypeOK, generated
  <2>6. MixedIsMarked'
    BY DEF Scaffold, PublicationInv, MixedIsMarked, generated
  <2>7. JobInv(p)'
    BY <1>2, <2>1, <2>2 DEF Scaffold, PublicationInv, JobInv, LockInv, PublishInv, DeleteInv,
       RecordInv
  <2> QED BY <2>2, <2>5, <2>6, <2>7, Frame DEF Scaffold
<1> QED BY <1>1, <1>2 DEF Scaffold

(* A command looks at its JVM sources.                                   *)
LEMMA BeginPlanStep ==
  ASSUME PublicationInv, NEW p \in Processes, BeginPlan(p)
  PROVE  PublicationInv'
<1>1. PICK u \in Jobs : Continue(p, u) /\ u.pc \in {"inventory", "frontend"}
  <2> DEFINE jvm == JvmSources(authored)
             bootstrap == jvm # {} /\ job[p].command # "validate"
             pc == IF bootstrap THEN "inventory" ELSE "frontend"
             stage == IF bootstrap THEN "bootstrap" ELSE "final"
             u == [job[p] EXCEPT !.before = version, !.jvm = jvm, !.pc = pc, !.stage = stage]
  <2>1. jvm \in SUBSET Features /\ pc \in {"inventory", "frontend"} /\ stage \in Stages
    BY DEF JvmSources, Stages
  <2>2. Continue(p, u)
    BY DEF BeginPlan
  <2> HIDE DEF jvm, pc, stage
  <2>3. u \in Jobs /\ u.pc \in {"inventory", "frontend"}
    BY ZenonT(60), <2>1, JobType DEF Jobs, Steps
  <2> QED BY <2>2, <2>3
<1>2. job'[p] = u
  BY <1>1, ContinueJob DEF PublicationInv, TypeOK
<1>3. JobInv(p)'
  BY <1>1, <1>2 DEF BeginPlan, PublicationInv, JobInv, LockInv, PublishInv, DeleteInv, RecordInv
<1> QED BY <1>1, <1>3, MoveStep DEF BeginPlan

(* The plan takes its inventory.                                         *)
LEMMA TakeInventoryStep ==
  ASSUME PublicationInv, NEW p \in Processes, TakeInventory(p)
  PROVE  PublicationInv'
<1> DEFINE u == [job[p] EXCEPT !.pc = "render", !.inventory = version]
<1>0. u \in Jobs /\ u.pc = "render"
  BY ZenonT(60), JobType DEF Jobs, Steps
<1>1. u \in Jobs /\ u.pc = "render" /\ Continue(p, u)
  BY <1>0 DEF TakeInventory
<1> HIDE DEF u
<1>2. job'[p] = u
  BY <1>1, ContinueJob DEF PublicationInv, TypeOK
<1>3. JobInv(p)'
  BY <1>1, <1>2 DEF TakeInventory, PublicationInv, JobInv, LockInv, PublishInv, DeleteInv,
     RecordInv
<1> QED BY <1>1, <1>3, MoveStep DEF TakeInventory

(* The plan renders well-typed contents, or fails.                       *)
LEMMA RenderOwnedStep ==
  ASSUME PublicationInv, NEW p \in Processes, RenderOwned(p)
  PROVE  PublicationInv'
<1> DEFINE c == Render(authored, version, job[p].jvm, job[p].before, job[p].stage)
           u == [job[p] EXCEPT !.pc = "compare", !.features = Present(authored),
                               !.contents = c]
<1>1. CASE End(p, "failure")
  BY <1>1, EndStep DEF RenderOwned, PublicationInv, TypeOK
<1>2. CASE Continue(p, u) /\ UNCHANGED <<holder, reported>>
  <2>1. c \in Contents
    BY RenderType DEF PublicationInv, TypeOK, Jobs
  <2>2. Present(authored) \in SUBSET Features
    BY DEF Present
  <2> HIDE DEF c
  <2>3. u \in Jobs /\ u.pc = "compare"
    BY ZenonT(60), <2>1, <2>2, JobType DEF Jobs, Steps
  <2> HIDE DEF u
  <2>4. job'[p] = u
    BY <1>2, <2>3, ContinueJob DEF PublicationInv, TypeOK
  <2>5. JobInv(p)'
    BY <1>2, <2>3, <2>4 DEF RenderOwned, PublicationInv, JobInv, LockInv, PublishInv, DeleteInv,
       RecordInv
  <2> QED BY <1>2, <2>3, <2>5, MoveStep DEF RenderOwned
<1> QED BY <1>1, <1>2 DEF RenderOwned

(* Every owned leaf is rendered again or due for deletion.               *)
LEMMA ComparePlanStep ==
  ASSUME PublicationInv, NEW p \in Processes, ComparePlan(p)
  PROVE  PublicationInv'
<1> DEFINE stale == StaleOwned(job[p].contents)
           rendered == Paths(job[p].contents)
           expected == [l \in Leaves |-> IF l \in rendered \cup stale THEN disk[l] ELSE Missing]
           u == [job[p] EXCEPT !.pc = "execute", !.deletes = stale, !.publish = rendered,
                               !.expected = expected]
<1>1. CASE End(p, "failure")
  BY <1>1, EndStep DEF ComparePlan, PublicationInv, TypeOK
<1>2. CASE Continue(p, u) /\ UNCHANGED <<holder, reported>>
  <2>1. stale \in SUBSET Leaves /\ rendered \in SUBSET Leaves
    BY DEF StaleOwned, Owned, Paths
  <2>2. expected \in [Leaves -> Rendered \cup {Missing, Edited}]
    BY DEF PublicationInv, TypeOK
  <2> HIDE DEF expected
  <2>3. \A l \in Owned(manifest) : l \in rendered \cup stale
    BY DEF StaleOwned
  <2> HIDE DEF stale, rendered
  <2>4. /\ u \in Jobs
        /\ u.pc = "execute"
        /\ u.publish = rendered
        /\ u.deletes = stale
        /\ u.contents = job[p].contents
    BY ZenonT(60), <2>1, <2>2, JobType DEF Jobs, Steps
  <2> HIDE DEF u
  <2>5. job'[p] = u
    BY <1>2, <2>4, ContinueJob DEF PublicationInv, TypeOK
  <2>6. LockInv(p)'
    BY <1>2, <2>4, <2>5 DEF ComparePlan, PublicationInv, JobInv, LockInv
  <2>7. PublishInv(p)'
    BY <2>4, <2>5 DEF PublishInv, rendered
  <2>8. DeleteInv(p)'
    BY <2>3, <2>4, <2>5 DEF ComparePlan, DeleteInv, generated, rendered
  <2>9. RecordInv(p)'
    BY <2>4, <2>5 DEF RecordInv
  <2> QED BY <1>2, <2>4, <2>6, <2>7, <2>8, <2>9, MoveStep DEF ComparePlan, JobInv
<1> QED BY <1>1, <1>2 DEF ComparePlan

(* The preconditions hold, or the command ends before its first write.   *)
LEMMA ValidatePreconditionsStep ==
  ASSUME PublicationInv, NEW p \in Processes, ValidatePreconditions(p)
  PROVE  PublicationInv'
<1> DEFINE u == [job[p] EXCEPT !.pc = "mark"]
<1>1. CASE End(p, "failure")
  BY <1>1, EndStep DEF ValidatePreconditions, PublicationInv, TypeOK
<1>2. CASE Continue(p, u) /\ UNCHANGED <<holder, reported>>
  <2>1. /\ u \in Jobs
        /\ u.pc = "mark"
        /\ u.publish = job[p].publish
        /\ u.deletes = job[p].deletes
        /\ u.contents = job[p].contents
    BY JobType DEF Jobs, Steps
  <2> HIDE DEF u
  <2>2. job'[p] = u
    BY <1>2, <2>1, ContinueJob DEF PublicationInv, TypeOK
  <2>3. JobInv(p)'
    BY <1>2, <2>1, <2>2 DEF ValidatePreconditions, PublicationInv, JobInv, LockInv, PublishInv,
       DeleteInv, RecordInv, generated
  <2> QED BY <1>2, <2>1, <2>3, MoveStep DEF ValidatePreconditions
<1> QED BY <1>1, <1>2 DEF ValidatePreconditions

(* The marker appears; nothing it could contradict is written yet.         *)
LEMMA PublishMarkerStep ==
  ASSUME PublicationInv, NEW p \in Processes, PublishMarker(p)
  PROVE  PublicationInv'
<1> DEFINE u == [job[p] EXCEPT !.pc = "delete"]
<1>1. /\ u \in Jobs
      /\ u.pc = "delete"
      /\ u.publish = job[p].publish
      /\ u.deletes = job[p].deletes
      /\ u.contents = job[p].contents
  BY JobType DEF Jobs, Steps
<1>2. /\ job' \in [Processes -> Jobs]
      /\ job'[p] = u
      /\ \A q \in Processes \ {p} : job'[q] = job[q]
  BY <1>1, ContinueJob DEF PublishMarker, PublicationInv, TypeOK
<1> HIDE DEF u
<1>3. TypeOK'
  BY <1>2 DEF PublishMarker, PublicationInv, TypeOK, tree
<1>4. MixedIsMarked'
  BY DEF PublishMarker, MixedIsMarked
<1>5. JobInv(p)'
  BY <1>1, <1>2 DEF PublishMarker, PublicationInv, JobInv, LockInv, PublishInv, DeleteInv,
     RecordInv
<1> QED BY <1>2, <1>3, <1>4, <1>5, Frame DEF PublishMarker

(* A stale leaf goes under the marker.                                   *)
LEMMA DeleteStaleStep ==
  ASSUME PublicationInv, NEW p \in Processes, NEW l \in Leaves, DeleteStale(p, l)
  PROVE  PublicationInv'
<1> DEFINE u == [job[p] EXCEPT !.deletes = @ \ {l}]
<1>1. CASE End(p, "failure") /\ UNCHANGED generated
  BY <1>1, EndStep DEF DeleteStale, PublicationInv, TypeOK
<1>2. CASE /\ disk' = [disk EXCEPT ![l] = Missing]
           /\ touched' = touched \ {l}
           /\ Continue(p, u)
           /\ UNCHANGED <<marker, manifest, holder, reported>>
  <2>1. /\ u \in Jobs
        /\ u.pc = job[p].pc
        /\ u.publish = job[p].publish
        /\ u.deletes = job[p].deletes \ {l}
        /\ u.contents = job[p].contents
    BY JobType DEF Jobs
  <2>2. /\ job' \in [Processes -> Jobs]
        /\ job'[p] = u
        /\ \A q \in Processes \ {p} : job'[q] = job[q]
    BY <1>2, <2>1, ContinueJob DEF PublicationInv, TypeOK
  <2> HIDE DEF u
  <2>3. /\ disk' \in [Leaves -> Rendered \cup {Missing, Edited}]
        /\ disk'[l] = Missing
        /\ \A k \in Leaves \ {l} : disk'[k] = disk[k]
    BY <1>2 DEF PublicationInv, TypeOK
  <2>4. TypeOK'
    BY <1>2, <2>2, <2>3 DEF DeleteStale, PublicationInv, TypeOK, tree
  <2>5. marker /\ marker'
    BY <1>2 DEF DeleteStale, PublicationInv, JobInv, LockInv
  <2>6. MixedIsMarked'
    BY <2>5 DEF MixedIsMarked
  <2>7. LockInv(p)' /\ PublishInv(p)' /\ RecordInv(p)'
    BY <1>2, <2>1, <2>2, <2>5 DEF DeleteStale, PublicationInv, JobInv, LockInv, PublishInv,
       RecordInv
  <2>8. DeleteInv(p)'
    BY <1>2, <2>1, <2>2, <2>3 DEF DeleteStale, PublicationInv, JobInv, DeleteInv, Owned, Paths
  <2> QED BY <2>2, <2>4, <2>6, <2>7, <2>8, Frame DEF DeleteStale, JobInv
<1> QED BY <1>1, <1>2 DEF DeleteStale

(* With nothing stale left, publication begins.                          *)
LEMMA StaleDeletedStep ==
  ASSUME PublicationInv, NEW p \in Processes, StaleDeleted(p)
  PROVE  PublicationInv'
<1> DEFINE u == [job[p] EXCEPT !.pc = "publish"]
<1>1. /\ u \in Jobs
      /\ u.pc = "publish"
      /\ u.publish = job[p].publish
      /\ u.deletes = job[p].deletes
      /\ u.contents = job[p].contents
  BY JobType DEF Jobs, Steps
<1>2. Continue(p, u)
  BY DEF StaleDeleted
<1> HIDE DEF u
<1>3. job'[p] = u
  BY <1>1, <1>2, ContinueJob DEF PublicationInv, TypeOK
<1>4. JobInv(p)'
  BY <1>1, <1>3 DEF StaleDeleted, PublicationInv, JobInv, LockInv, PublishInv, DeleteInv,
     RecordInv, generated
<1> QED BY <1>1, <1>2, <1>4, MoveStep DEF StaleDeleted

(* A leaf is renamed into place under the marker.                        *)
LEMMA PublishLeafStep ==
  ASSUME PublicationInv, NEW p \in Processes, NEW l \in Leaves, PublishLeaf(p, l)
  PROVE  PublicationInv'
<1> DEFINE u == [job[p] EXCEPT !.publish = @ \ {l}]
<1>1. CASE End(p, "failure") /\ UNCHANGED generated
  BY <1>1, EndStep DEF PublishLeaf, PublicationInv, TypeOK
<1>2. CASE /\ disk' = [disk EXCEPT ![l] = job[p].contents[l]]
           /\ touched' = touched \ {l}
           /\ Continue(p, u)
           /\ UNCHANGED <<marker, manifest, holder, reported>>
  <2>1. /\ u \in Jobs
        /\ u.pc = job[p].pc
        /\ u.publish = job[p].publish \ {l}
        /\ u.deletes = job[p].deletes
        /\ u.contents = job[p].contents
    BY JobType DEF Jobs
  <2>2. /\ job' \in [Processes -> Jobs]
        /\ job'[p] = u
        /\ \A q \in Processes \ {p} : job'[q] = job[q]
    BY <1>2, <2>1, ContinueJob DEF PublicationInv, TypeOK
  <2> HIDE DEF u
  <2>3. job[p].contents[l] \in Rendered \cup {Missing, Edited}
    BY JobType DEF Jobs, Contents
  <2>4. /\ disk' \in [Leaves -> Rendered \cup {Missing, Edited}]
        /\ disk'[l] = job[p].contents[l]
        /\ \A k \in Leaves \ {l} : disk'[k] = disk[k]
    BY <1>2, <2>3 DEF PublicationInv, TypeOK
  <2>5. TypeOK'
    BY <1>2, <2>2, <2>4 DEF PublishLeaf, PublicationInv, TypeOK, tree
  <2>6. marker /\ marker'
    BY <1>2 DEF PublishLeaf, PublicationInv, JobInv, LockInv
  <2>7. MixedIsMarked'
    BY <2>6 DEF MixedIsMarked
  <2>8. LockInv(p)' /\ RecordInv(p)'
    BY <1>2, <2>1, <2>2, <2>6 DEF PublishLeaf, PublicationInv, JobInv, LockInv, RecordInv
  <2>9. PublishInv(p)'
    BY <1>2, <2>1, <2>2, <2>4 DEF PublishLeaf, PublicationInv, JobInv, PublishInv, Paths
  <2>10. l \in Paths(job[p].contents)
    BY DEF PublishLeaf, PublicationInv, JobInv, PublishInv
  <2>11. DeleteInv(p)'
    BY <1>2, <2>1, <2>2, <2>4, <2>10 DEF PublishLeaf, PublicationInv, JobInv, DeleteInv, Owned,
       Paths
  <2> QED BY <2>2, <2>5, <2>7, <2>8, <2>9, <2>11, Frame DEF PublishLeaf, JobInv
<1> QED BY <1>1, <1>2 DEF PublishLeaf

(* All leaves are on disk; only a final generation goes on.              *)
LEMMA OutputPublishedStep ==
  ASSUME PublicationInv, NEW p \in Processes, OutputPublished(p)
  PROVE  PublicationInv'
<1> DEFINE pc == IF job[p].stage = "final" THEN "complete" ELSE "frontend"
           u == [job[p] EXCEPT !.pc = pc]
<1>1. pc \in {"complete", "frontend"} /\ Continue(p, u)
  BY DEF OutputPublished
<1> HIDE DEF pc
<1>2. /\ u \in Jobs
      /\ u.pc \in {"complete", "frontend"}
      /\ u.publish = job[p].publish
      /\ u.deletes = job[p].deletes
      /\ u.contents = job[p].contents
  BY <1>1, JobType DEF Jobs, Steps
<1>3. Continue(p, u)
  BY <1>1
<1> HIDE DEF u
<1>4. job'[p] = u
  BY <1>2, <1>3, ContinueJob DEF PublicationInv, TypeOK
<1>5. JobInv(p)'
  BY <1>2, <1>4 DEF OutputPublished, PublicationInv, JobInv, LockInv, PublishInv, DeleteInv,
     RecordInv, generated
<1> QED BY <1>2, <1>3, <1>5, MoveStep DEF OutputPublished

(* The front end reads and writes no managed state.                      *)
LEMMA RunFrontendStep ==
  ASSUME PublicationInv, NEW p \in Processes, RunFrontend(p)
  PROVE  PublicationInv'
<1> DEFINE pc == IF job[p].command = "validate" THEN "validate" ELSE "inventory"
           u == [job[p] EXCEPT !.stage = "final", !.pc = pc]
<1>1. CASE End(p, "failure")
  BY <1>1, EndStep DEF RunFrontend, PublicationInv, TypeOK
<1>2. CASE Continue(p, u) /\ UNCHANGED <<holder, reported>>
  <2>1. pc \in {"validate", "inventory"}
    OBVIOUS
  <2> HIDE DEF pc
  <2>2. u \in Jobs /\ u.pc \in {"validate", "inventory"}
    BY ZenonT(60), <2>1, JobType DEF Jobs, Steps, Stages
  <2> HIDE DEF u
  <2>3. job'[p] = u
    BY <1>2, <2>2, ContinueJob DEF PublicationInv, TypeOK
  <2>4. JobInv(p)'
    BY <1>2, <2>2, <2>3 DEF RunFrontend, PublicationInv, JobInv, LockInv, PublishInv, DeleteInv,
       RecordInv
  <2> QED BY <1>2, <2>2, <2>4, MoveStep DEF RunFrontend
<1> QED BY <1>1, <1>2 DEF RunFrontend

(* The sources are the planned ones, or the command ends under its marker. *)
LEMMA ValidateCompletionStep ==
  ASSUME PublicationInv, NEW p \in Processes, ValidateCompletion(p)
  PROVE  PublicationInv'
<1> DEFINE u == [job[p] EXCEPT !.pc = "record"]
<1>1. CASE End(p, "failure")
  BY <1>1, EndStep DEF ValidateCompletion, PublicationInv, TypeOK
<1>2. CASE Continue(p, u) /\ UNCHANGED <<holder, reported>>
  <2>1. /\ u \in Jobs
        /\ u.pc = "record"
        /\ u.publish = job[p].publish
        /\ u.deletes = job[p].deletes
        /\ u.contents = job[p].contents
    BY JobType DEF Jobs, Steps
  <2> HIDE DEF u
  <2>2. job'[p] = u
    BY <1>2, <2>1, ContinueJob DEF PublicationInv, TypeOK
  <2>3. JobInv(p)'
    BY <1>2, <2>1, <2>2 DEF ValidateCompletion, PublicationInv, JobInv, LockInv, PublishInv,
       DeleteInv, RecordInv, generated
  <2> QED BY <1>2, <2>1, <2>3, MoveStep DEF ValidateCompletion
<1> QED BY <1>1, <1>2 DEF ValidateCompletion

(* The manifest of a command is a manifest.                                *)
LEMMA ManifestType ==
  ASSUME PublicationInv, NEW p \in Processes
  PROVE  LET m == [features |-> job[p].features, contents |-> job[p].contents]
         IN  m \in Manifests /\ m # None /\ Owned(m) = Paths(job[p].contents)
<1> DEFINE m == [features |-> job[p].features, contents |-> job[p].contents]
<1>1. m \in Manifests
  BY JobType DEF Jobs, Manifests
<1>2. m # None
  BY <1>1, NoneAssumption
<1> QED BY <1>1, <1>2 DEF Owned

(* The manifest is recorded over what it describes.                        *)
LEMMA RecordManifestStep ==
  ASSUME PublicationInv, NEW p \in Processes, RecordManifest(p)
  PROVE  PublicationInv'
<1> DEFINE u == [job[p] EXCEPT !.pc = "clear"]
<1>1. /\ u \in Jobs
      /\ u.pc = "clear"
      /\ u.publish = job[p].publish
      /\ u.contents = job[p].contents
      /\ u.features = job[p].features
  BY JobType DEF Jobs, Steps
<1>2. /\ job' \in [Processes -> Jobs]
      /\ job'[p] = u
      /\ \A q \in Processes \ {p} : job'[q] = job[q]
  BY <1>1, ContinueJob DEF RecordManifest, PublicationInv, TypeOK
<1> HIDE DEF u
<1>3. TypeOK'
  BY <1>2, ManifestType DEF RecordManifest, PublicationInv, TypeOK, tree
<1>4. marker /\ marker'
  BY DEF RecordManifest, PublicationInv, JobInv, LockInv
<1>5. MixedIsMarked'
  BY <1>4 DEF MixedIsMarked
<1>6. JobInv(p)'
  BY <1>1, <1>2, <1>4 DEF RecordManifest, PublicationInv, JobInv, LockInv, PublishInv, DeleteInv,
     RecordInv
<1> QED BY <1>2, <1>3, <1>5, <1>6, Frame DEF RecordManifest

(* When the marker goes, the manifest describes the tree.                  *)
LEMMA ClearMarkerStep ==
  ASSUME PublicationInv, NEW p \in Processes, ClearMarker(p)
  PROVE  PublicationInv'
<1> DEFINE u == [job[p] EXCEPT !.pc = "validate"]
<1>1. u \in Jobs /\ u.pc = "validate"
  BY JobType DEF Jobs, Steps
<1>2. /\ job' \in [Processes -> Jobs]
      /\ job'[p] = u
      /\ \A q \in Processes \ {p} : job'[q] = job[q]
  BY <1>1, ContinueJob DEF ClearMarker, PublicationInv, TypeOK
<1> HIDE DEF u
<1>3. TypeOK'
  BY <1>2 DEF ClearMarker, PublicationInv, TypeOK, tree
<1>4. /\ manifest = [features |-> job[p].features, contents |-> job[p].contents]
      /\ \A l \in Paths(job[p].contents) \ touched : disk[l] = job[p].contents[l]
  BY DEF ClearMarker, PublicationInv, JobInv, PublishInv, RecordInv
<1>5. MixedIsMarked'
  BY <1>4, ManifestType DEF ClearMarker, MixedIsMarked
<1>6. JobInv(p)'
  BY <1>1, <1>2 DEF ClearMarker, PublicationInv, JobInv, LockInv, PublishInv, DeleteInv, RecordInv
<1> QED BY <1>2, <1>3, <1>5, <1>6, Frame DEF ClearMarker

(* Validation reads only.                                                *)
LEMMA ValidateStep ==
  ASSUME PublicationInv, NEW p \in Processes, Validate(p)
  PROVE  PublicationInv'
<1>1. PICK r \in {"success", "failure"} : End(p, r)
  BY DEF Validate
<1> QED BY <1>1, EndStep DEF Validate, PublicationInv, TypeOK

(* A killed command leaves what it wrote.                                *)
LEMMA StopStep ==
  ASSUME PublicationInv, NEW p \in Processes, Stop(p)
  PROVE  PublicationInv'
<1>1. faults' \in 0 .. FaultLimit
  BY LimitsAssumption DEF Stop, PublicationInv, TypeOK
<1> QED BY <1>1, EndStep DEF Stop

-----------------------------------------------------------------------------
(* The author *)

(* The bound on edits leaves room for every scaffold under way.            *)
LEMMA RoomLeft ==
  ASSUME PublicationInv, Room
  PROVE  /\ version + 1 \in 0 .. EditLimit
         /\ \A p \in Processes : job[p].pc = "scaffold" => version + 1 < EditLimit
<1> DEFINE S == {p \in Processes : job[p].pc = "scaffold"}
<1>1. IsFiniteSet(S) /\ Cardinality(S) \in Nat
  BY ProcessesAssumption, FS_Subset, FS_CardinalityType
<1>2. ASSUME NEW p \in Processes, job[p].pc = "scaffold" PROVE Cardinality(S) # 0
  <2>1. S # {}
    BY <1>2
  <2> QED BY <1>1, <2>1, FS_EmptySet
<1>3. version \in 0 .. EditLimit /\ version + Cardinality(S) < EditLimit
  BY DEF PublicationInv, TypeOK, Room
<1> HIDE DEF S
<1> QED BY <1>1, <1>2, <1>3, LimitsAssumption

(* Whatever the author does to generated leaves is known to be theirs.     *)
LEMMA AuthorFrame ==
  ASSUME PublicationInv, UNCHANGED <<marker, manifest, holder, job>>,
         touched \subseteq touched', \A l \in Leaves \ touched' : disk'[l] = disk[l],
         \A p \in Processes : job[p].pc = "scaffold" => version' < EditLimit,
         TypeOK'
  PROVE  PublicationInv'
<1>1. MixedIsMarked'
  BY DEF PublicationInv, MixedIsMarked, Owned, Paths
<1>2. ASSUME NEW p \in Processes PROVE JobInv(p)'
  <2>1. LockInv(p)' /\ RecordInv(p)'
    BY DEF PublicationInv, JobInv, LockInv, RecordInv
  <2>2. PublishInv(p)'
    BY DEF PublicationInv, JobInv, PublishInv, Paths
  <2>3. DeleteInv(p)'
    BY DEF PublicationInv, JobInv, DeleteInv, Owned, Paths
  <2> QED BY <2>1, <2>2, <2>3 DEF JobInv
<1> QED BY <1>1, <1>2 DEF PublicationInv

(* Edits by the author keep the invariant.                               *)
LEMMA AuthorStep ==
  ASSUME PublicationInv, Author
  PROVE  PublicationInv'
<1>1. ASSUME NEW f \in Features, NEW state \in {"native", "jvm"}, EditSource(f, state)
      PROVE  PublicationInv'
  <2>1. authored' \in [Features -> {"absent", "native", "jvm"}]
    BY <1>1 DEF EditSource, PublicationInv, TypeOK
  <2>2. TypeOK'
    BY <1>1, <2>1, RoomLeft DEF EditSource, PublicationInv, TypeOK, generated
  <2> QED BY <1>1, <2>2, RoomLeft, AuthorFrame DEF EditSource, generated
<1>2. ASSUME NEW f \in Features, DeleteFeature(f) PROVE PublicationInv'
  <2>1. authored' \in [Features -> {"absent", "native", "jvm"}]
    BY <1>2 DEF DeleteFeature, PublicationInv, TypeOK
  <2>2. /\ FeatureLeaf(f) \in Leaves
        /\ JvmLeaf(f) \in Leaves
    BY DEF Leaves
  <2>3. /\ disk' \in [Leaves -> Rendered \cup {Missing, Edited}]
        /\ \A l \in Leaves \ {FeatureLeaf(f), JvmLeaf(f)} : disk'[l] = disk[l]
    BY <1>2, <2>2 DEF DeleteFeature, PublicationInv, TypeOK
  <2>4. TypeOK'
    BY <1>2, <2>1, <2>2, <2>3, RoomLeft DEF DeleteFeature, PublicationInv, TypeOK
  <2> QED BY <1>2, <2>3, <2>4, RoomLeft, AuthorFrame DEF DeleteFeature
<1>3. ASSUME NEW l \in Leaves, NEW content \in {Edited, Missing}, EditGenerated(l, content)
      PROVE  PublicationInv'
  <2>1. /\ disk' \in [Leaves -> Rendered \cup {Missing, Edited}]
        /\ \A k \in Leaves \ {l} : disk'[k] = disk[k]
    BY <1>3 DEF EditGenerated, PublicationInv, TypeOK
  <2>2. TypeOK'
    BY <1>3, <2>1, LimitsAssumption DEF EditGenerated, PublicationInv, TypeOK, tree
  <2>3. \A p \in Processes : job[p].pc = "scaffold" => version' < EditLimit
    BY <1>3 DEF EditGenerated, PublicationInv, JobInv, LockInv, tree
  <2> QED BY <1>3, <2>1, <2>2, <2>3, AuthorFrame DEF EditGenerated
<1> QED BY <1>1, <1>2, <1>3 DEF Author

-----------------------------------------------------------------------------
(* The theorems *)

(* A first command finds an empty plugin.                                  *)
LEMMA InitStep == Init => PublicationInv
<1> SUFFICES ASSUME Init PROVE PublicationInv
  OBVIOUS
<1>1. TypeOK
  <2>1. job \in [Processes -> Jobs]
    BY IdleType DEF Init
  <2>2. disk \in [Leaves -> Rendered \cup {Missing, Edited}]
    BY DEF Init
  <2>3. version \in 0 .. EditLimit /\ faults \in 0 .. FaultLimit
    BY LimitsAssumption DEF Init
  <2>4. marker \in BOOLEAN
    BY DEF Init
  <2> QED BY <2>1, <2>2, <2>3, <2>4 DEF Init, TypeOK
<1>2. MixedIsMarked
  BY DEF Init, MixedIsMarked
<1>3. \A p \in Processes : JobInv(p)
  BY IdleType DEF Init, JobInv, LockInv, PublishInv, DeleteInv, RecordInv
<1> QED BY <1>1, <1>2, <1>3 DEF PublicationInv

(* Every step of a command, and its death, keeps the invariant.            *)
LEMMA ProcessStep ==
  ASSUME PublicationInv, NEW p \in Processes, Commands(p) \/ Step(p) \/ Stop(p)
  PROVE  PublicationInv'
<1>1. CASE Commands(p)
  BY <1>1, StartStep DEF Commands
<1>2. CASE Step(p)
  BY <1>2, ScaffoldStep, BeginPlanStep, TakeInventoryStep, RenderOwnedStep, ComparePlanStep,
     ValidatePreconditionsStep, PublishMarkerStep, DeleteStaleStep, PublishLeafStep,
     StaleDeletedStep, OutputPublishedStep, RunFrontendStep, ValidateCompletionStep,
     RecordManifestStep, ClearMarkerStep, ValidateStep DEF Step
<1>3. CASE Stop(p)
  BY <1>3, StopStep
<1> QED BY <1>1, <1>2, <1>3

(* PublicationInv holds throughout every behaviour of the generator.       *)
THEOREM PublicationInvariant == Spec => []PublicationInv
<1>1. PublicationInv /\ [Next]_vars => PublicationInv'
  <2> SUFFICES ASSUME PublicationInv, [Next]_vars PROVE PublicationInv'
    OBVIOUS
  <2>1. CASE Next
    BY <2>1, ProcessStep, AuthorStep DEF Next
  <2>2. CASE UNCHANGED vars
    <3>1. TypeOK'
      BY <2>2 DEF vars, PublicationInv, TypeOK
    <3>2. MixedIsMarked'
      BY <2>2 DEF vars, PublicationInv, MixedIsMarked
    <3>3. \A p \in Processes : JobInv(p)'
      BY <2>2 DEF vars, PublicationInv, JobInv, LockInv, PublishInv, DeleteInv, RecordInv
    <3> QED BY <3>1, <3>2, <3>3 DEF PublicationInv
  <2> QED BY <2>1, <2>2
<1> QED BY <1>1, InitStep, PTL DEF Spec

(* The state of the plugin and of every command is well typed.             *)
THEOREM TypeCorrect == Spec => []TypeOK
<1>1. PublicationInv => TypeOK BY DEF PublicationInv
<1> QED BY <1>1, PublicationInvariant, PTL

(* Wherever commands are killed, a tree without a marker is the one its    *)
(* manifest describes, up to what somebody else changed.                   *)
THEOREM MixedTreesMarked == Spec => []MixedIsMarked
<1>1. PublicationInv => MixedIsMarked BY DEF PublicationInv
<1> QED BY <1>1, PublicationInvariant, PTL

(* A manifest is recorded over its own complete generation, and disowns    *)
(* nothing that is still on disk.                                          *)
THEOREM HandedOver == Spec => OwnershipHandedOver
<1>1. PublicationInv /\ [Next]_vars
        => [manifest' # manifest
              => /\ \A l \in Owned(manifest') \ touched : disk[l] = manifest'.contents[l]
                 /\ \A l \in Owned(manifest) \ (Owned(manifest') \cup touched) :
                        disk[l] = Missing]_vars
  <2> SUFFICES ASSUME PublicationInv, Next, manifest' # manifest
               PROVE  /\ \A l \in Owned(manifest') \ touched : disk[l] = manifest'.contents[l]
                      /\ \A l \in Owned(manifest) \ (Owned(manifest') \cup touched) :
                             disk[l] = Missing
    BY DEF vars
  <2>1. PICK p \in Processes : RecordManifest(p)
    BY DEF Next, Commands, Step, Start, Scaffold, BeginPlan, TakeInventory, RenderOwned,
       ComparePlan, ValidatePreconditions, PublishMarker, DeleteStale, PublishLeaf,
       StaleDeleted, OutputPublished, RunFrontend, ValidateCompletion, ClearMarker, Validate,
       Stop, Author, EditSource, DeleteFeature, EditGenerated, generated
  <2>2. /\ Owned(manifest') = Paths(job[p].contents)
        /\ manifest'.contents = job[p].contents
    BY <2>1, ManifestType DEF RecordManifest
  <2>3. /\ job[p].publish = {}
        /\ \A l \in Paths(job[p].contents) \ touched : disk[l] = job[p].contents[l]
    BY <2>1 DEF RecordManifest, PublicationInv, JobInv, PublishInv
  <2>4. \A l \in Owned(manifest) \ (Paths(job[p].contents) \cup touched) : disk[l] = Missing
    BY <2>1 DEF RecordManifest, PublicationInv, JobInv, DeleteInv
  <2> QED BY <2>2, <2>3, <2>4
<1> QED BY <1>1, PublicationInvariant, PTL DEF Spec, OwnershipHandedOver
=============================================================================
