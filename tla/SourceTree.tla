----------------------------- MODULE SourceTree -----------------------------
(***************************************************************************)
(* Which paths of a plugin the generator protects (filesystem.py).  The    *)
(* inventory walks the tree and skips the canonical build and cache roots; *)
(* the bundle of the source guard copies a set of whole subtrees, so it    *)
(* has to split every directory that may hold such a root.  Both walks     *)
(* must agree on every path, scoped features included.                     *)
(*                                                                         *)
(* Data.  A path is the sequence of its components below the plugin root;  *)
(* a component is one of a few names, those the code tests and one it does *)
(* not.  The model walks one path at a time: what the code decides for a   *)
(* path depends on the path and on the kinds of its ancestors only.        *)
(***************************************************************************)
EXTENDS Naturals, Sequences

CONSTANTS
    Components,   \* names a directory entry may have
    DepthLimit    \* bound: components of a path

VARIABLES
    path,         \* the entry the walk has reached
    kind          \* its kind: "directory", "file" or "symlink"

treeWalk == <<path, kind>>

Kinds == {"directory", "file", "symlink"}
Parts(p, from, to) == SubSeq(p, from, IF to < Len(p) THEN to ELSE Len(p))
Head3(p) == Parts(p, 1, 3)
Prefixes(p) == {SubSeq(p, 1, n) : n \in 1 .. Len(p)}

(* Names excluded at the top of the plugin. *)
TopExcluded == {".git", ".supernote-module", "node_modules", ".idea", "build", ".gradle", ".cxx",
                ".kotlin", ".supernote-module-transaction.json"}
GradleOutputs == {"build", ".gradle", ".cxx", ".kotlin"}
Scoped(name) == name = "@scope"

(* _feature_component_count: components that name a feature; 0 for None. *)
FeatureComponentCount(p) ==
    IF p = <<>> \/ p[1] # "local_modules" THEN 0
    ELSE IF Len(p) >= 3 /\ Scoped(p[2]) THEN 3
    ELSE IF Len(p) >= 2 THEN 2 ELSE 0

(* _is_build_or_cache_path *)
IsBuildOrCachePath(p) ==
    \/ p[1] \in TopExcluded
    \/ Parts(p, 1, 2) \in {<<"android", n>> : n \in GradleOutputs \cup {".supernote-module",
                                                                        "supernote-runtime"}}
    \/ Head3(p) = <<"android", "app", "build">>
    \/ LET f == FeatureComponentCount(p) IN
       /\ f > 0
       /\ \/ Parts(p, f + 1, f + 1) = <<".supernote-generated">>
          \/ Parts(p, f + 1, f + 2) \in {<<"android", n>> : n \in GradleOutputs}

(* Mutant: only the features without a scope have a split android directory. *)
MayContainExclusionUnscoped(p) ==
    \/ p \in {<<"android">>, <<"android", "app">>, <<"local_modules">>}
    \/ Len(p) = 2 /\ p[1] = "local_modules"
    \/ Len(p) = 3 /\ p[1] = "local_modules" /\ (Scoped(p[2]) \/ p[3] = "android")

(* _may_contain_canonical_exclusion: an included directory to be split. *)
MayContainExclusion(p) ==
    \/ p \in {<<"android">>, <<"android", "app">>, <<"local_modules">>}
    \/ p \in {<<"android", ".supernote-module">>,
              <<"android", ".supernote-module", "runtime">>,
              <<"android", ".supernote-module", "runtime", "annotations">>,
              <<"android", ".supernote-module", "runtime", "processor">>}
    \/ LET f == FeatureComponentCount(p) IN
       f > 0 /\ (Len(p) <= f \/ Parts(p, f + 1, Len(p)) = <<"android">>)

(* source_tree_inventory: a directory is entered unless it is excluded. *)
Inventoried(p) == \A q \in Prefixes(p) : ~IsBuildOrCachePath(q)

(* protected_source_snapshot_roots: collect() splits a directory or takes it whole. *)
Split(p, k) == k = "directory" /\ MayContainExclusion(p)
KindOf(q) == IF q = path THEN kind ELSE "directory"
SnapshotRoot(q) ==
    /\ \A a \in Prefixes(q) : ~IsBuildOrCachePath(a)
    /\ \A a \in Prefixes(q) \ {q} : Split(a, "directory")
    /\ ~Split(q, KindOf(q))
Copied(p) == \E q \in Prefixes(p) : SnapshotRoot(q)

TreeInit == path = <<>> /\ kind = "directory"

(* The walk goes on to an entry of the directory it has reached. *)
Descend(name, k) ==
    /\ kind = "directory" /\ Len(path) < DepthLimit
    /\ path' = Append(path, name) /\ kind' = k

TreeNext == \E name \in Components, k \in Kinds : Descend(name, k)
TreeSpec == TreeInit /\ [][TreeNext]_treeWalk

(* The bundle of the guard holds exactly what the inventory compares: an    *)
(* entry is below a snapshot root if and only if it is inventoried, except  *)
(* for the directories that are split, and no entry is below two roots, so  *)
(* that the recovery of one never overwrites the other                      *)
(* (protected_source_snapshot_roots, source_tree_inventory).                *)
RootsCoverInventory ==
    path # <<>> =>
        /\ Copied(path) <=> (Inventoried(path) /\ ~Split(path, kind))
        /\ \A q, r \in Prefixes(path) : SnapshotRoot(q) /\ SnapshotRoot(r) => q = r

(* The walk is at a path of entry names; the plugin root is a directory.    *)
TreeTypes == path \in Seq(Components) /\ kind \in Kinds
TreeInv == TreeTypes /\ (path = <<>> => kind = "directory")
=============================================================================
