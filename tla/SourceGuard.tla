---------------------------- MODULE SourceGuard ----------------------------
(***************************************************************************)
(* The protected-source guard of filesystem.py and the recovery from its   *)
(* bundle.  A guard takes an inventory of the authored tree, copies every  *)
(* protected entry out of the tree and writes a durable manifest.  At the       *)
(* end it compares the tree with the inventory: unchanged, the bundle is   *)
(* removed; changed, the live bytes win and the bundle is kept.            *)
(* restore_protected_source_backup replays a kept bundle later, one entry  *)
(* at a time.  The author and the guarded tools change entries between any *)
(* two steps, calls fail, Ctrl-C arrives and the process may be killed.    *)
(*                                                                         *)
(* Data.  An entry is one protected leaf; its content is the number of the *)
(* edit that wrote it (0: the entry does not exist).  A hash of an entry   *)
(* is its content.  Directory metadata is one flag per tree: was the last  *)
(* attempt to restore it successful.                                       *)
(***************************************************************************)
EXTENDS Naturals, FiniteSets

CONSTANTS
    Leaves,       \* the protected entries of the tree
    EditLimit,    \* bound: edits by the author and the guarded tools
    FaultLimit    \* bound: failing calls, interrupts and kills

ASSUME GuardAssumption == EditLimit \in Nat \ {0} /\ FaultLimit \in Nat

VARIABLES
    live,         \* the tree: content of every entry
    staged,       \* .sn-module-gen-recover-<token> beside an entry
    displaced,    \* .sn-module-gen-displaced-<token> beside an entry
    strays,       \* displaced entries with the tokens of killed recoveries
    baseline,     \* ProtectedSourceGuard.before
    roots,        \* protected_source_snapshot_roots, taken once by __init__
    bundle,       \* the copies in the temporary directory
    manifest,     \* recovery-manifest.json: sha256 of every entry, once durable
    observed,     \* ProtectedSourceGuard._observed_mutations
    guard,        \* program counter, attempt of finish, entries still to do, and whether the
                  \* recovery found the name of the entry in hand taken
    report,       \* how the guard or the recovery ended
    edits, faults,
    witness       \* history: what happened that no later state shows

sourceVars == <<live, staged, displaced, strays>>
bundleVars == <<baseline, roots, bundle, manifest>>
guardVars == <<sourceVars, bundleVars, observed, guard, report, edits, faults, witness>>

Gone == 0
NoCopy == EditLimit + 1
NoHash == EditLimit + 1
Contents == 0 .. EditLimit + 1
NoReport == [kind |-> "none", mutations |-> {}, remaining |-> {}, verified |-> TRUE]

(* source_tree_changes: entries created, deleted or modified. *)
Changes(before, after) == {e \in Leaves : before[e] # after[e]}

GuardAt(pc) == guard.pc = pc
GuardTo(pc) == guard' = [guard EXCEPT !.pc = pc]

(* No guard and no recovery is at work, and a bundle may have been kept. *)
BundleLeft == \/ guard.pc \in {"done", "dead"}
              \/ GuardAt("over") /\ report.kind = "restore failed"

Fault == /\ faults < FaultLimit
         /\ faults' = faults + 1

GuardInit ==
    /\ live \in [Leaves -> {Gone, 1}]
    /\ strays = [e \in Leaves |-> {}]
    /\ staged = [e \in Leaves |-> Gone]
    /\ displaced = [e \in Leaves |-> Gone]
    /\ baseline = [e \in Leaves |-> Gone]
    /\ roots = {}
    /\ bundle = [e \in Leaves |-> NoCopy]
    /\ manifest = [durable |-> FALSE, sha |-> [e \in Leaves |-> NoHash]]
    /\ observed = {}
    /\ guard = [pc |-> "idle", attempt |-> 1, todo |-> {}, had |-> FALSE]
    /\ report = NoReport
    /\ edits = 1 /\ faults = 0
    /\ witness = [racing |-> {}, seen |-> {}, last |-> {}, cut |-> FALSE,
                  owed |-> [e \in Leaves |-> {}], exposed |-> [e \in Leaves |-> {}]]

(* copy_entry_no_follow, down to the copy of one leaf: a missing source    *)
(* cannot be copied; bytes and mode are those of one version of it.        *)
CopyLeaf(target, e, content) == [target EXCEPT ![e] = content]

(* The entry the recovery is at: it has been staged. *)
InHand(e) == e \in roots \ guard.todo /\ staged[e] # Gone

(* The recovery writes to the name of the entry without looking at it      *)
(* again: the name was free when it looked or has been moved aside, or the *)
(* entry that was moved aside is about to be put back.                     *)
Unseen(e) ==
    /\ InHand(e)
    /\ \/ GuardAt("looked") /\ ~guard.had
       \/ guard.pc \in {"displaced", "undoing", "putting"}
       \/ GuardAt("activated") /\ displaced[e] # Gone

(*-------------------------- the author and the tools --------------------*)
(* An editor or a guarded tool writes a leaf anew, or removes it. *)
Edit(e, c) ==
    /\ edits < EditLimit
    /\ c \in {edits + 1, Gone} /\ c # live[e]
    /\ edits' = edits + 1
    /\ live' = [live EXCEPT ![e] = c]
    /\ witness' = [witness EXCEPT !.racing = IF guard.pc \in {"inventoried", "copying", "hashing"}
                                            THEN @ \cup {e} ELSE @,
                                  !.exposed[e] = IF Unseen(e) THEN @ \cup ({c} \ {Gone}) ELSE @]
    /\ UNCHANGED <<staged, displaced, strays, bundleVars, observed, guard, report, faults>>

(* A cleaner of the temporary directory, or the disk, damages a kept copy. *)
Corrupt(e) ==
    /\ BundleLeft /\ bundle[e] # NoCopy
    /\ Fault
    /\ bundle' = [bundle EXCEPT ![e] = NoCopy]
    /\ witness' = [witness EXCEPT !.cut = TRUE]
    /\ UNCHANGED <<sourceVars, baseline, roots, manifest, observed, guard, report, edits>>

(*----------------------------- __init__ ---------------------------------*)
TakeInventory ==
    /\ GuardAt("idle")
    /\ baseline' = live
    /\ GuardTo("inventoried")
    /\ UNCHANGED <<sourceVars, roots, bundle, manifest, observed, report, edits, faults, witness>>

(* The directory metadata is captured, mkdtemp, and the roots are listed. *)
OpenBundle ==
    /\ GuardAt("inventoried")
    /\ roots' = {e \in Leaves : live[e] # Gone}
    /\ guard' = [guard EXCEPT !.pc = "copying", !.todo = roots']
    /\ UNCHANGED <<sourceVars, baseline, bundle, manifest, observed, report, edits, faults, witness>>

CopyEntry(e) ==
    /\ GuardAt("copying") /\ e \in guard.todo
    /\ live[e] # Gone
    /\ bundle' = CopyLeaf(bundle, e, live[e])
    /\ guard' = [guard EXCEPT !.pc = "hashing", !.todo = guard.todo \ {e}]
    /\ manifest' = [manifest EXCEPT !.sha[e] = NoHash]
    /\ UNCHANGED <<sourceVars, baseline, roots, observed, report, edits, faults, witness>>

(* The hash in the manifest is that of the source, read after its copy. *)
HashEntry(e) ==
    /\ GuardAt("hashing") /\ e \in roots \ guard.todo /\ manifest.sha[e] = NoHash /\ live[e] # Gone
    /\ manifest' = [manifest EXCEPT !.sha[e] = live[e]]
    /\ GuardTo("copying")
    /\ UNCHANGED <<sourceVars, baseline, roots, bundle, observed, report, edits, faults, witness>>

(* Mutant: the manifest is written before the copies it lists. *)
WriteRecoveryManifestFirst ==
    /\ GuardAt("copying")
    /\ manifest' = [manifest EXCEPT !.durable = TRUE]
    /\ GuardTo("guarding")
    /\ UNCHANGED <<sourceVars, baseline, roots, bundle, observed, report, edits, faults, witness>>

WriteRecoveryManifest ==
    /\ GuardAt("copying") /\ guard.todo = {}
    /\ manifest' = [manifest EXCEPT !.durable = TRUE]
    /\ GuardTo("guarding")
    /\ UNCHANGED <<sourceVars, baseline, roots, bundle, observed, report, edits, faults, witness>>

(* A missing entry or any exception, Ctrl-C included, removes the bundle. *)
BuildFails ==
    /\ guard.pc \in {"copying", "hashing"}
    /\ \/ Fault
       \/ /\ \E e \in guard.todo \cup {x \in roots : manifest.sha[x] = NoHash} : live[e] = Gone
          /\ UNCHANGED faults
    /\ bundle' = [e \in Leaves |-> NoCopy]
    /\ report' = [NoReport EXCEPT !.kind = "not guarded"]
    /\ GuardTo("done")
    /\ UNCHANGED <<sourceVars, baseline, roots, manifest, observed, edits, witness>>

(*----------------- finish, finish_protected_source_guard ----------------*)
(* The guarded stage has ended: finish is called for the first time. *)
StageEnds ==
    /\ GuardAt("guarding")
    /\ GuardTo("finish")
    /\ UNCHANGED <<sourceVars, bundleVars, observed, report, edits, faults, witness>>

RaiseRetained(remaining, verified, mutations) ==
    /\ report' = [kind |-> "retained", mutations |-> mutations, remaining |-> remaining,
                  verified |-> verified]
    /\ GuardTo("done")

FinishInventory ==
    /\ GuardAt("finish")
    /\ LET changes == Changes(baseline, live) IN
       /\ witness' = [witness EXCEPT !.seen = @ \cup changes, !.last = changes]
       /\ observed' = observed \cup changes
       /\ GuardTo(IF changes = {} THEN "metadata" ELSE "changed")
    /\ UNCHANGED <<sourceVars, bundleVars, report, edits, faults>>

FinishChanged ==
    /\ GuardAt("changed")
    /\ RaiseRetained(witness.last, TRUE, observed)
    /\ UNCHANGED <<sourceVars, bundleVars, observed, edits, faults, witness>>

(* restore_protected_directory_metadata: drift that is left keeps the bundle. *)
FinishMetadata ==
    /\ GuardAt("metadata")
    /\ \/ GuardTo("removing") /\ UNCHANGED <<report, faults>>
       \/ Fault /\ RaiseRetained({}, TRUE, IF guard.attempt = 1 THEN {} ELSE observed)
    /\ UNCHANGED <<sourceVars, bundleVars, observed, edits, witness>>

RemoveCopy(e) ==
    /\ GuardAt("removing") /\ bundle[e] # NoCopy
    /\ bundle' = [bundle EXCEPT ![e] = NoCopy]
    /\ UNCHANGED <<sourceVars, baseline, roots, manifest, observed, guard, report, edits, faults,
                   witness>>

RemoveTemporary ==
    /\ GuardAt("removing") /\ \A e \in Leaves : bundle[e] = NoCopy
    /\ manifest' = [manifest EXCEPT !.durable = FALSE]
    /\ report' = [NoReport EXCEPT !.kind = "clean", !.mutations = observed]
    /\ GuardTo("done")
    /\ UNCHANGED <<sourceVars, baseline, roots, bundle, observed, edits, faults, witness>>

Finishing == guard.pc \in {"finish", "changed", "metadata", "removing"}

(* An interrupted removal leaves a bundle that is no longer whole. *)
RemovalCut == witness' = [witness EXCEPT !.cut = @ \/ GuardAt("removing")]

(* The first interruption of finish is followed by a second attempt; what  *)
(* ends that one is reported with whatever the tree still differs in.      *)
FinishInterrupted ==
    /\ Finishing /\ Fault
    /\ \/ /\ guard.attempt = 1
          /\ guard' = [guard EXCEPT !.pc = "finish", !.attempt = 2]
          /\ UNCHANGED report
       \/ /\ guard.attempt = 2
          /\ LET rest == Changes(baseline, live) IN RaiseRetained(rest, TRUE, observed \cup rest)
    /\ RemovalCut
    /\ UNCHANGED <<sourceVars, bundleVars, observed, edits>>

(* Any other exception is not retried: it leaves the first attempt raw. *)
FinishFails ==
    /\ Finishing /\ Fault
    /\ \/ /\ guard.attempt = 1
          /\ report' = [NoReport EXCEPT !.kind = "raised", !.mutations = observed]
          /\ GuardTo("done")
       \/ /\ guard.attempt = 2
          /\ LET rest == Changes(baseline, live) IN
             \/ RaiseRetained(rest, TRUE, observed \cup rest)
             \/ RaiseRetained({}, FALSE, observed)
    /\ RemovalCut
    /\ UNCHANGED <<sourceVars, bundleVars, observed, edits>>

(*------------------- restore_protected_source_backup --------------------*)

(* The whole manifest is checked, and every copy against its hash, before *)
(* anything is written.                                                   *)
BundleValidates == \A e \in roots : bundle[e] = manifest.sha[e]

RestoreStarts ==
    /\ BundleLeft /\ manifest.durable
    /\ report.kind # "clean"
    /\ IF BundleValidates
       THEN /\ guard' = [guard EXCEPT !.pc = "restoring", !.todo = roots]
            /\ report' = NoReport
       ELSE /\ report' = [NoReport EXCEPT !.kind = "refused"]
            /\ GuardTo("over")
    /\ staged' = [e \in Leaves |-> Gone]
    /\ UNCHANGED <<live, displaced, strays, bundleVars, observed, edits, faults, witness>>

StageCopy(e) ==
    /\ GuardAt("restoring") /\ e \in guard.todo
    /\ bundle[e] \notin {Gone, NoCopy}
    /\ staged' = CopyLeaf(staged, e, bundle[e])
    /\ guard' = [guard EXCEPT !.pc = "staged", !.todo = (guard.todo \ {e})]
    /\ UNCHANGED <<live, displaced, strays, bundleVars, observed, report, edits, faults, witness>>

(* had_destination: whether the name is taken is looked up once. *)
LookUp(e) ==
    /\ GuardAt("staged") /\ InHand(e)
    /\ guard' = [guard EXCEPT !.pc = "looked", !.had = (live[e] # Gone)]
    /\ UNCHANGED <<sourceVars, bundleVars, observed, report, edits, faults, witness>>

(* What a step of the recovery takes away from the name of the entry.      *)
Takes(e) == {live[e]} \ {Gone}

(* Mutant: the live entry is removed instead of being moved aside. *)
DisplaceByRemoval(e) ==
    /\ GuardAt("looked") /\ InHand(e) /\ guard.had /\ live[e] # Gone
    /\ live' = [live EXCEPT ![e] = Gone]
    /\ witness' = [witness EXCEPT !.owed[e] = @ \cup Takes(e)]
    /\ GuardTo("displaced")
    /\ UNCHANGED <<staged, displaced, strays, bundleVars, observed, report, edits, faults>>

Displace(e) ==
    /\ GuardAt("looked") /\ InHand(e) /\ guard.had /\ live[e] # Gone
    /\ displaced' = [displaced EXCEPT ![e] = live[e]]
    /\ live' = [live EXCEPT ![e] = Gone]
    /\ witness' = [witness EXCEPT !.owed[e] = @ \cup Takes(e)]
    /\ GuardTo("displaced")
    /\ UNCHANGED <<staged, strays, bundleVars, observed, report, edits, faults>>

NothingToDisplace(e) ==
    /\ GuardAt("looked") /\ InHand(e) /\ ~guard.had
    /\ GuardTo("displaced")
    /\ UNCHANGED <<sourceVars, bundleVars, observed, report, edits, faults, witness>>

(* os.replace: what has been written at the name since is overwritten. *)
Activate(e) ==
    /\ GuardAt("displaced") /\ InHand(e)
    /\ live' = [live EXCEPT ![e] = staged[e]]
    /\ witness' = [witness EXCEPT !.owed[e] = @ \cup Takes(e)]
    /\ GuardTo("activated")
    /\ UNCHANGED <<staged, displaced, strays, bundleVars, observed, report, edits, faults>>

(* The entry is compared with its copy; the displaced one is removed after. *)
VerifyActivated(e) ==
    /\ GuardAt("activated") /\ InHand(e) /\ live[e] = bundle[e]
    /\ witness' = [witness EXCEPT !.owed[e] = @ \ {displaced[e]}]
    /\ GuardTo("verified")
    /\ UNCHANGED <<sourceVars, bundleVars, observed, report, edits, faults>>

DropDisplaced(e) ==
    /\ GuardAt("verified") /\ InHand(e)
    /\ displaced' = [displaced EXCEPT ![e] = Gone]
    /\ GuardTo("dropped")
    /\ UNCHANGED <<live, staged, strays, bundleVars, observed, report, edits, faults, witness>>

RaiseFailed ==
    /\ report' = [NoReport EXCEPT !.kind = "restore failed"]
    /\ GuardTo("over")

(* The entry is compared once more, with the manifest: a tool may have      *)
(* written it since.                                                        *)
CheckRestored(e) ==
    /\ GuardAt("dropped") /\ InHand(e)
    /\ IF live[e] = manifest.sha[e] THEN GuardTo("restoring") /\ UNCHANGED report ELSE RaiseFailed
    /\ staged' = [staged EXCEPT ![e] = Gone]
    /\ UNCHANGED <<live, displaced, strays, bundleVars, observed, edits, faults, witness>>

(* An exception, an entry that is gone when it is to be displaced, or a     *)
(* mismatch: the copy is removed, and a displaced entry is put back.        *)
RestoreFails(e) ==
    /\ guard.pc \in {"looked", "displaced", "activated"} /\ InHand(e)
    /\ \/ Fault
       \/ GuardAt("looked") /\ guard.had /\ live[e] = Gone /\ UNCHANGED faults
       \/ GuardAt("activated") /\ live[e] # bundle[e] /\ UNCHANGED faults
    /\ IF displaced[e] = Gone THEN RaiseFailed ELSE GuardTo("undoing") /\ UNCHANGED report
    /\ UNCHANGED <<sourceVars, bundleVars, observed, edits, witness>>

(* Whatever has the name now is removed. *)
ClearName(e) ==
    /\ GuardAt("undoing") /\ InHand(e)
    /\ live' = [live EXCEPT ![e] = Gone]
    /\ witness' = [witness EXCEPT !.owed[e] = @ \cup (Takes(e) \ {staged[e]})]
    /\ GuardTo("putting")
    /\ UNCHANGED <<staged, displaced, strays, bundleVars, observed, report, edits, faults>>

PutBack(e) ==
    /\ GuardAt("putting") /\ InHand(e)
    /\ live' = [live EXCEPT ![e] = displaced[e]]
    /\ displaced' = [displaced EXCEPT ![e] = Gone]
    /\ witness' = [witness EXCEPT !.owed[e] = (@ \cup Takes(e)) \ {displaced[e]}]
    /\ RaiseFailed
    /\ UNCHANGED <<staged, strays, bundleVars, observed, edits, faults>>

(* A call that fails outside the try block, or in its handler: a displaced  *)
(* entry stays where it is.                                                 *)
RestoreAborts(e) ==
    /\ guard.pc \in {"staged", "undoing", "putting", "verified", "dropped"} /\ InHand(e)
    /\ Fault
    /\ strays' = [strays EXCEPT ![e] = @ \cup ({displaced[e]} \ {Gone})]
    /\ displaced' = [displaced EXCEPT ![e] = Gone]
    /\ RaiseFailed
    /\ UNCHANGED <<live, staged, bundleVars, observed, edits, witness>>

RestoreEnds ==
    /\ GuardAt("restoring") /\ guard.todo = {}
    /\ report' = [NoReport EXCEPT !.kind = "restored"]
    /\ GuardTo("over")
    /\ UNCHANGED <<sourceVars, bundleVars, observed, edits, faults, witness>>

(* The process is killed: what is on disk stays as it is. *)
Killed ==
    /\ guard.pc \notin {"idle", "done", "dead", "over"} /\ Fault
    /\ strays' = [e \in Leaves |-> strays[e] \cup ({displaced[e]} \ {Gone})]
    /\ displaced' = [e \in Leaves |-> Gone]
    /\ RemovalCut
    /\ GuardTo("dead")
    /\ UNCHANGED <<live, staged, bundleVars, observed, report, edits>>

GuardNext ==
    \/ \E e \in Leaves : \/ \E c \in Contents : Edit(e, c)
                         \/ Corrupt(e) \/ CopyEntry(e) \/ HashEntry(e) \/ RemoveCopy(e)
                         \/ StageCopy(e) \/ LookUp(e) \/ Displace(e) \/ NothingToDisplace(e)
                         \/ Activate(e) \/ VerifyActivated(e) \/ DropDisplaced(e)
                         \/ CheckRestored(e) \/ RestoreFails(e) \/ ClearName(e) \/ PutBack(e)
                         \/ RestoreAborts(e)
    \/ TakeInventory \/ OpenBundle \/ WriteRecoveryManifest \/ BuildFails
    \/ StageEnds \/ FinishInventory \/ FinishChanged \/ FinishMetadata \/ RemoveTemporary
    \/ FinishInterrupted \/ FinishFails
    \/ RestoreStarts \/ RestoreEnds \/ Killed

GuardSpec == GuardInit /\ [][GuardNext]_guardVars

(*------------------------------ properties ------------------------------*)
(* What an inventory at the end of the stage found changed can be put back: *)
(* its bytes of before the stage are in the bundle and the manifest vouches *)
(* for them, however finish ended, was interrupted or retried.  Entries     *)
(* edited while the guard was being built, and a bundle whose removal was   *)
(* cut short, are excepted (ProtectedSourceGuard.finish).                   *)
PreImageKept ==
    guard.pc = "done" /\ ~witness.cut =>
        \A e \in witness.last \ witness.racing :
            baseline[e] # Gone =>
                /\ manifest.durable
                /\ bundle[e] = baseline[e] /\ manifest.sha[e] = baseline[e]

(* What the author or a tool had at the name of an entry, and the recovery  *)
(* took away, is in its place, beside it or in a stray until its            *)
(* replacement has been compared with the bundle, through failures, kills   *)
(* and repeated recoveries (_restore_backup_entry_atomic).  The exception   *)
(* is what they write at a name while the recovery no longer looks at it:   *)
(* a name that was free when it looked, one it has moved aside and not yet  *)
(* replaced, and one it is about to give back (Unseen).                     *)
LiveContentKept ==
    \A e \in Leaves :
        witness.owed[e] \subseteq {live[e], displaced[e]} \cup strays[e] \cup witness.exposed[e]

(*-------------------------- inductive invariants ------------------------*)
Held == 0 .. EditLimit
GuardSteps == {"idle", "inventoried", "copying", "hashing", "guarding", "finish", "changed",
               "metadata", "removing", "done", "dead", "restoring", "staged", "looked",
               "displaced", "activated", "verified", "dropped", "undoing", "putting", "over"}
RecoverySteps == {"staged", "looked", "displaced", "activated", "verified", "dropped", "undoing",
                  "putting"}
GuardRecords == [pc : GuardSteps, attempt : {1, 2}, todo : SUBSET Leaves, had : BOOLEAN]
Histories == [racing : SUBSET Leaves, seen : SUBSET Leaves, last : SUBSET Leaves, cut : BOOLEAN,
              owed : [Leaves -> SUBSET (1 .. EditLimit)],
              exposed : [Leaves -> SUBSET (1 .. EditLimit)]]
GuardTypes ==
    /\ live \in [Leaves -> Held]
    /\ staged \in [Leaves -> Held]
    /\ displaced \in [Leaves -> Held]
    /\ strays \in [Leaves -> SUBSET (1 .. EditLimit)]
    /\ baseline \in [Leaves -> Held]
    /\ roots \subseteq Leaves
    /\ bundle \in [Leaves -> Contents]
    /\ manifest \in [durable : BOOLEAN, sha : [Leaves -> Contents]]
    /\ guard \in GuardRecords
    /\ edits \in Nat /\ faults \in Nat
    /\ witness \in Histories

(* The bundle holds what the entries were before the stage. *)
Saved ==
    /\ manifest.durable
    /\ \A e \in Leaves \ witness.racing :
          baseline[e] # Gone => bundle[e] = baseline[e] /\ manifest.sha[e] = baseline[e]

(* Copied, and not hashed yet. *)
Unhashed == {e \in roots \ guard.todo : manifest.sha[e] = NoHash}

(* The bundle of an undisturbed entry follows its content of before. *)
PreImageInv ==
    /\ guard.pc \in {"inventoried", "copying", "hashing"} =>
          \A e \in Leaves \ witness.racing : live[e] = baseline[e]
    /\ guard.pc \in {"copying", "hashing"} =>
          /\ \A e \in Leaves \ witness.racing : e \in roots <=> baseline[e] # Gone
          /\ \A e \in (roots \ guard.todo) \ witness.racing :
                bundle[e] = baseline[e] /\ manifest.sha[e] \in {baseline[e], NoHash}
          /\ \A e, f \in Unhashed : e = f
    /\ guard.pc = "copying" => Unhashed = {}
    /\ guard.pc \in {"idle", "inventoried", "copying", "hashing", "metadata", "removing"} =>
          witness.last = {}
    /\ guard.pc \in {"guarding", "finish", "changed", "metadata"} => witness.cut \/ Saved
    /\ guard.pc = "done" => witness.cut \/ witness.last = {} \/ Saved

(* What the recovery took from an entry and has not replaced is beside it, *)
(* and what has a name it does not look at was written there unseen.       *)
LeafInv(e) ==
    /\ witness.owed[e] \subseteq {displaced[e]} \cup strays[e] \cup witness.exposed[e]
    /\ displaced[e] # Gone =>
          /\ guard.pc \in {"displaced", "activated", "verified", "undoing", "putting"}
          /\ InHand(e)
    /\ guard.pc = "restoring" => staged[e] = Gone
    /\ guard.pc \in {"verified", "dropped"} /\ InHand(e) =>
          witness.owed[e] \subseteq strays[e] \cup witness.exposed[e]
    /\ Unseen(e) => live[e] \in {Gone, staged[e]} \cup witness.exposed[e]
    /\ Unseen(e) /\ guard.pc \in {"looked", "displaced", "putting"} =>
          live[e] \in {Gone} \cup witness.exposed[e]

(* One entry at a time is in the recovery's hands. *)
RecoveryInv ==
    /\ \A e \in Leaves : LeafInv(e)
    /\ guard.pc \in RecoverySteps =>
          \A e, f \in Leaves : staged[e] # Gone /\ staged[f] # Gone => e = f

GuardInv == GuardTypes /\ PreImageInv /\ RecoveryInv
=============================================================================
