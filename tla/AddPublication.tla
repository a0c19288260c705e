--------------------------- MODULE AddPublication ---------------------------
(***************************************************************************)
(* Publication of the authored scaffold of one new feature by `add'        *)
(* (feature_operations.py, feature_generator.py, filesystem.py).           *)
(*                                                                         *)
(* The scaffold is built in a staging directory and renamed to its         *)
(* destination without replacing anything.  Where the filesystem has no    *)
(* such rename, the destination is created, marked as incomplete and       *)
(* filled file by file; the same command, run again, finishes what an      *)
(* earlier one left.  The command may be interrupted or killed between any *)
(* two system calls and inside a write, and the author works in the same   *)
(* tree: between the creation of a file and its first byte, too.  One      *)
(* generator runs at a time (operation_lock.py).                           *)
(*                                                                         *)
(* Data.  The scaffold is one directory, a source file in it, and the      *)
(* feature's metadata file, which feature_scaffold_paths lists last.  A    *)
(* file's content is the configuration it was written for, or "edited"     *)
(* when bytes of the author are in it; a directory is "made" when it has   *)
(* the mode of the scaffold.  Identity (device and inode) tells two        *)
(* directories apart: the one the destination path names ("here") and the  *)
(* one the command holds open after somebody moved it ("away").  Of an     *)
(* entry the command has open, `held' says whether its name still names    *)
(* what was opened.  The author changes, saves anew and adds entries, but  *)
(* deletes none by itself.                                                 *)
(***************************************************************************)
EXTENDS Naturals

CONSTANTS
    Configs,      \* configurations a user may give the same package name
    KillLimit,    \* bound: interrupted and killed commands
    PeerLimit,    \* bound: changes the author makes in the destination
    None          \* a value that is none of the above

ASSUME AddAssumption ==
    /\ {"absent", "partial", "edited", "made"} \cap Configs = {}
    /\ None \notin Configs \cup {"here", "away"}

VARIABLES
    atomic,    \* does the filesystem rename directories without replacing
    staging,   \* the run-owned staging directory: "none", "partial", "full"
    parent,    \* local_modules: "absent", "directory" or "link"
    dirs,      \* the two directories: maker, marker, mode and content
    adding,      \* the running command
    reported,  \* the outcome of the last command that ended
    kills,     \* interrupted and killed commands so far
    peers      \* changes made by the author so far

addVars == <<atomic, staging, parent, dirs, adding, reported, kills, peers>>

Places == {"here", "away"}
Files == {"source", "metadata"}
Entries == {"dir"} \cup Files

Openable == Entries \cup {"marker"}

NoCommand == [pc |-> "idle", config |-> None, target |-> None, have |-> {}, held |-> {}]
Steps == {"idle", "stage", "parents", "rename", "mkdir", "opening", "opened", "reopening",
          "reopened", "mark", "marking", "marked", "open", "fill", "filling", "closing", "mode",
          "identity", "unmark", "verify", "cleanup"}

(* A fresh directory, made by `who'. *)
EmptyDirectory(who) == [by |-> who, marker |-> "absent", mode |-> "private", extra |-> FALSE,
               content |-> [e \in Entries |-> "absent"]]
Bare(d) == d.marker = "absent" /\ ~d.extra /\ \A e \in Entries : d.content[e] = "absent"

(* stage_feature: the complete scaffold of a configuration. *)
Scaffold(c) == [e \in Entries |-> IF e = "dir" THEN "made" ELSE c]

AddInit ==
    /\ atomic \in BOOLEAN
    /\ staging = "none"
    /\ parent \in {"absent", "directory"}
    /\ dirs = [i \in Places |-> EmptyDirectory("nobody")]
    /\ adding = NoCommand
    /\ reported = "none"
    /\ kills = 0
    /\ peers = 0

DestinationFree == dirs["here"].by = "nobody"
D == dirs[adding.target]
Forgotten == [dirs EXCEPT !["away"] = EmptyDirectory("nobody")]

(* Mutant: only a marker that was written completely counts. *)
ResumableWhenWritten == ~DestinationFree /\ dirs["here"].marker \in Configs

(* FeatureOperationService.resumable_incomplete_activation and
   _linux_destination_has_add_marker: a regular marker file is there, whatever
   it says. *)
Resumable == ~DestinationFree /\ dirs["here"].marker # "absent"

(* _canonical_metadata_candidates: the directory counts as a feature. *)
Recognised(i) == dirs[i].marker = "absent" /\ dirs[i].content["metadata"] # "absent"

(* The command ends with an exception: add removes the staging directory. *)
Fail(why) ==
    /\ staging' = "none"
    /\ adding' = NoCommand
    /\ reported' = why
    /\ dirs' = Forgotten

AddTo(pc) == adding' = [adding EXCEPT !.pc = pc]
AddUntouched == UNCHANGED <<atomic, parent, kills, peers>>

-----------------------------------------------------------------------------
(* The command *)

(* _validate_add and FeatureOperationService.add: no staging residue, and a
   destination that is free or carries a marker, seen through no link; then
   mkdtemp. *)
StartAdd(c) ==
    /\ adding.pc = "idle"
    /\ IF staging = "none" /\ parent # "link" /\ (DestinationFree \/ Resumable)
       THEN /\ adding' = [NoCommand EXCEPT !.pc = "stage", !.config = c]
            /\ staging' = "partial"
            /\ UNCHANGED reported
       ELSE /\ reported' = "refused"
            /\ UNCHANGED <<adding, staging>>
    /\ UNCHANGED dirs
    /\ AddUntouched

StageFeature ==
    /\ adding.pc = "stage"
    /\ staging' = "full"
    /\ AddTo("parents")
    /\ UNCHANGED <<dirs, reported>>
    /\ AddUntouched

(* ensure_contained_parent_directories: missing parents are made; one that is a
   link or a file is refused. *)
EnsureParents ==
    /\ adding.pc = "parents"
    /\ IF parent = "link"
       THEN Fail("redirected") /\ UNCHANGED parent
       ELSE /\ parent' = "directory"
            /\ AddTo("rename")
            /\ UNCHANGED <<staging, dirs, reported>>
    /\ UNCHANGED <<atomic, kills, peers>>

(* _posix_rename_directory_no_replace (and its Windows counterpart), with the
   decision of _rename_posix_directory_with_linux_fallback on its error. *)
Rename ==
    /\ adding.pc = "rename"
    /\ \/ /\ atomic /\ DestinationFree
          /\ dirs' = [dirs EXCEPT !["here"] =
                          [EmptyDirectory("add") EXCEPT !.content = Scaffold(adding.config)]]
          /\ adding' = [adding EXCEPT !.pc = "verify", !.target = "here"]
          /\ staging' = "none"
          /\ UNCHANGED reported
       \/ /\ atomic /\ ~DestinationFree /\ ~Resumable
          /\ Fail("exists")
       \/ /\ ~atomic \/ Resumable
          /\ AddTo("mkdir")
          /\ UNCHANGED <<staging, dirs, reported>>
    /\ AddUntouched

(* _publish_linux_add_scaffold: the scaffold is captured; the destination is
   created, or found to exist. *)
MakeDestination ==
    /\ adding.pc = "mkdir"
    /\ IF DestinationFree
       THEN AddTo("opening") /\ dirs' = [dirs EXCEPT !["here"] = EmptyDirectory("add")]
       ELSE AddTo("reopening") /\ UNCHANGED dirs
    /\ UNCHANGED <<staging, reported>>
    /\ AddUntouched

(* Whatever the name names by now is opened (_linux_mkdir_open_directory,
   _open_add_destination). *)
OpenDestination ==
    /\ adding.pc \in {"opening", "reopening"}
    /\ IF DestinationFree
       THEN Fail("exists")
       ELSE /\ adding' = [adding EXCEPT !.target = "here",
                            !.pc = IF adding.pc = "opening" THEN "opened" ELSE "reopened"]
            /\ UNCHANGED <<staging, dirs, reported>>
    /\ AddUntouched

(* The name must still name what was opened.  A directory that was to be new has
   to be empty: one the author put in its place is taken for it when it is. *)
CheckDestination ==
    /\ adding.pc \in {"opened", "reopened"}
    /\ IF adding.target = "here" /\ (adding.pc = "opened" => Bare(D))
       THEN /\ IF adding.pc = "opened"
               THEN AddTo("mark") /\ dirs' = [dirs EXCEPT !["here"].by = "add"]
               ELSE AddTo("open") /\ UNCHANGED dirs
            /\ UNCHANGED <<staging, reported>>
       ELSE Fail("ambiguous")
    /\ AddUntouched

(* _write_add_file_exclusive for the marker: O_EXCL, its bytes, and whether the
   name still names the file. *)
CreateMarker ==
    /\ adding.pc = "mark"
    /\ IF D.marker = "absent"
       THEN /\ dirs' = [dirs EXCEPT ![adding.target].marker = "partial"]
            /\ adding' = [adding EXCEPT !.pc = "marking", !.held = {"marker"}]
            /\ UNCHANGED <<staging, reported>>
       ELSE Fail("exists")
    /\ AddUntouched

(* What a write leaves in a file that reads `old': bytes the author wrote since
   it was created go, but for those past the end of what is written. *)
Overwritten(old) == {adding.config} \cup ({old} \cap {"edited"})

WriteMarker ==
    /\ adding.pc = "marking"
    /\ \/ /\ "marker" \in adding.held
          /\ \E m \in Overwritten(D.marker) : dirs' = [dirs EXCEPT ![adding.target].marker = m]
       \/ "marker" \notin adding.held /\ UNCHANGED dirs
    /\ AddTo("marked")
    /\ UNCHANGED <<staging, reported>>
    /\ AddUntouched

CloseMarker ==
    /\ adding.pc = "marked"
    /\ IF "marker" \in adding.held
       THEN AddTo("open") /\ UNCHANGED <<staging, dirs, reported>>
       ELSE Fail("ambiguous")
    /\ AddUntouched

(* Mutant: the names are compared, the contents are not. *)
ValidNames(complete) ==
    /\ D.marker = adding.config
    /\ D.mode = "private"
    /\ ~D.extra
    /\ \A e \in Entries : complete => D.content[e] # "absent"

(* _validate_add_state: marker, root mode, names, modes and contents; with
   `complete' nothing may be missing. *)
ValidState(complete) ==
    /\ D.marker = adding.config
    /\ D.mode = "private"
    /\ ~D.extra
    /\ \A e \in Entries : D.content[e] \in {Scaffold(adding.config)[e]}
                              \cup (IF complete THEN {} ELSE {"absent"})

OpenIncomplete ==
    /\ adding.pc = "open"
    /\ IF ValidState(FALSE)
       THEN /\ adding' = [adding EXCEPT !.pc = "fill",
                            !.have = {e \in Entries : D.content[e] # "absent"},
                            !.held = {e \in {"dir"} : D.content[e] # "absent"}]
            /\ UNCHANGED <<staging, dirs, reported>>
       ELSE Fail(IF D.marker = "absent" THEN "exists" ELSE "modified")
    /\ AddUntouched

(* _fill_incomplete_add: the next entry that was not there when the directory
   was opened, directories first and the metadata last. *)
Missing == Entries \ adding.have
NextEntry == IF "dir" \in Missing THEN "dir"
             ELSE IF "source" \in Missing THEN "source" ELSE "metadata"

(* Does the command see the entry under the name that shows it?  The source is
   made below the directory it opened. *)
Seen(e) == e = "source" => "dir" \in adding.held

(* Mutant: the file is opened with O_TRUNC in place of O_EXCL. *)
CreateEntryTruncating ==
    /\ adding.pc = "fill"
    /\ Missing # {}
    /\ dirs' = [dirs EXCEPT ![adding.target].content[NextEntry] = "partial"]
    /\ adding' = [adding EXCEPT !.pc = "filling", !.held = @ \cup {NextEntry}]
    /\ UNCHANGED <<staging, reported>>
    /\ AddUntouched

(* mkdir, or open with O_EXCL.  In a directory that is no longer where it was, a
   file may exist that nobody sees. *)
CreateEntry ==
    /\ adding.pc = "fill"
    /\ Missing # {}
    /\ \/ /\ Seen(NextEntry) /\ D.content[NextEntry] = "absent"
          /\ dirs' = [dirs EXCEPT ![adding.target].content[NextEntry] = "partial"]
          /\ adding' = [adding EXCEPT !.pc = "filling",
                                      !.held = @ \cup ({NextEntry} \ {"dir"})]
          /\ UNCHANGED <<staging, reported>>
       \/ /\ ~Seen(NextEntry)
          /\ AddTo("filling")
          /\ UNCHANGED <<staging, dirs, reported>>
       \/ /\ Seen(NextEntry) => D.content[NextEntry] # "absent"
          /\ Fail("exists")
    /\ AddUntouched

(* The bytes go to the file that was created, whatever the name names by now; a
   directory is opened by its name. *)
WriteEntry ==
    /\ adding.pc = "filling"
    /\ \/ /\ NextEntry \in adding.held
          /\ \E v \in Overwritten(D.content[NextEntry]) :
                dirs' = [dirs EXCEPT ![adding.target].content[NextEntry] = v]
       \/ NextEntry \notin adding.held /\ UNCHANGED dirs
    /\ adding' = [adding EXCEPT !.pc = "closing", !.held = @ \cup ({NextEntry} \cap {"dir"})]
    /\ UNCHANGED <<staging, reported>>
    /\ AddUntouched

(* The name must still name the entry, and a new directory be empty; then fchmod
   gives the directory its mode. *)
CloseEntry ==
    /\ adding.pc = "closing"
    /\ IF /\ Seen(NextEntry) => NextEntry \in adding.held
          /\ NextEntry = "dir" => D.content["source"] = "absent"
       THEN /\ dirs' = IF NextEntry = "dir"
                       THEN [dirs EXCEPT ![adding.target].content["dir"] = "made"]
                       ELSE dirs
            /\ adding' = [adding EXCEPT !.pc = "fill", !.have = @ \cup {NextEntry}]
            /\ UNCHANGED <<staging, reported>>
       ELSE Fail("ambiguous")
    /\ AddUntouched

(* _require_complete_add; the directory must be the one that was opened. *)
RequireComplete ==
    /\ adding.pc = "fill"
    /\ Missing = {}
    /\ IF ValidState(TRUE) /\ "dir" \in adding.held
       THEN AddTo("mode") /\ UNCHANGED <<staging, dirs, reported>>
       ELSE Fail("modified")
    /\ AddUntouched

(* fchmod of the destination to the mode of the staging directory, which mkdtemp
   made private. *)
SetMode ==
    /\ adding.pc = "mode"
    /\ dirs' = [dirs EXCEPT ![adding.target].mode = "private"]
    /\ AddTo("identity")
    /\ UNCHANGED <<staging, reported>>
    /\ AddUntouched

(* _verify_current_contained_identity, before the marker goes. *)
VerifyIdentity ==
    /\ adding.pc = "identity"
    /\ IF adding.target = "here" /\ parent = "directory"
       THEN AddTo("unmark") /\ UNCHANGED <<staging, dirs, reported>>
       ELSE Fail("ambiguous")
    /\ AddUntouched

Unmark ==
    /\ adding.pc = "unmark"
    /\ dirs' = [dirs EXCEPT ![adding.target].marker = "absent"]
    /\ AddTo("verify")
    /\ UNCHANGED <<staging, reported>>
    /\ AddUntouched

(* _verify_posix_published_identity and _verify_current_contained_identity. *)
VerifyPublished ==
    /\ adding.pc = "verify"
    /\ IF adding.target = "here" /\ parent = "directory"
       THEN AddTo("cleanup") /\ UNCHANGED <<staging, dirs, reported>>
       ELSE Fail("ambiguous")
    /\ AddUntouched

RemoveStaged ==
    /\ adding.pc = "cleanup"
    /\ Fail("published")
    /\ AddUntouched

(* An exception from outside (Ctrl-C, an I/O error) or a killed process; only
   the first removes the staging directory. *)
Interrupt ==
    /\ adding.pc # "idle"
    /\ kills < KillLimit
    /\ kills' = kills + 1
    /\ Fail("interrupted")
    /\ UNCHANGED <<atomic, parent, peers>>

Kill ==
    /\ adding.pc # "idle"
    /\ kills < KillLimit
    /\ kills' = kills + 1
    /\ adding' = NoCommand
    /\ reported' = "killed"
    /\ dirs' = Forgotten
    /\ UNCHANGED <<atomic, parent, staging, peers>>

-----------------------------------------------------------------------------
(* The author *)

(* The destination looks like `new' now; the names of `lost' in it no longer
   name what a command opened. *)
Author(new, lost) ==
    /\ ~DestinationFree
    /\ peers < PeerLimit
    /\ peers' = peers + 1
    /\ dirs' = [dirs EXCEPT !["here"] = new]
    /\ adding' = IF adding.target = "here" THEN [adding EXCEPT !.held = @ \ lost] ELSE adding
    /\ UNCHANGED <<atomic, parent, staging, reported, kills>>

Here == dirs["here"]
Edits(e) == IF e = "dir" THEN {"made", "edited"} ELSE {"edited"}

(* Writes into a file of the scaffold or creates it; makes the directory or
   changes its mode. *)
EditEntry(e) ==
    /\ e = "source" => Here.content["dir"] # "absent"
    /\ \E v \in Edits(e) : Author([Here EXCEPT !.content[e] = v], {})

(* Saves a file as editors do, with another file renamed over it. *)
SaveFile(f) ==
    /\ Here.content[f] # "absent"
    /\ Author([Here EXCEPT !.content[f] = "edited"], {f})

(* Puts a directory of their own in the place of the scaffold's, with a source in
   it where one was. *)
ReplaceDirectory ==
    /\ Here.content["dir"] # "absent"
    /\ \E v \in Edits("dir"), s \in {"absent", "edited"} :
          /\ s = "absent" => Here.content["source"] = "absent"
          /\ Author([Here EXCEPT !.content["dir"] = v, !.content["source"] = s],
                    {"dir", "source"})

EditMarker ==
    /\ Here.marker # "absent"
    /\ \E lost \in {{}, {"marker"}} : Author([Here EXCEPT !.marker = "edited"], lost)

AddExtra == Author([Here EXCEPT !.extra = TRUE], {})
ChangeMode == Author([Here EXCEPT !.mode = "changed"], {})

(* Moves the destination away or puts a directory of their own in its place.  A
   command that holds the directory open keeps it. *)
DisplaceDestination(new) ==
    /\ parent = "directory"
    /\ peers < PeerLimit
    /\ peers' = peers + 1
    /\ dirs' = [dirs EXCEPT !["here"] = new,
                            !["away"] = IF adding.target = "here" THEN Here ELSE @]
    /\ adding' = IF adding.target = "here" THEN [adding EXCEPT !.target = "away"] ELSE adding
    /\ UNCHANGED <<atomic, parent, staging, reported, kills>>

RemoveDestination == ~DestinationFree /\ DisplaceDestination(EmptyDirectory("nobody"))
Replace == \E m \in {"private", "changed"} :
              DisplaceDestination([EmptyDirectory("author") EXCEPT !.mode = m])

(* Moves local_modules with all it holds elsewhere, leaves a link, and puts it
   back. *)
Redirect ==
    /\ peers < PeerLimit
    /\ peers' = peers + 1
    /\ parent = "directory"
    /\ parent' = "link"
    /\ UNCHANGED <<atomic, staging, dirs, adding, reported, kills>>

RepairParent ==
    /\ parent = "link"
    /\ parent' = "directory"
    /\ UNCHANGED <<atomic, staging, dirs, adding, reported, kills, peers>>

(* What the messages of a refused command ask for: remove the listed staging
   paths; remove an incomplete scaffold whose contents were modified.  A kill
   between mkdir and the marker leaves a bare directory, which add only calls
   existing; the user is taken to remove that, too. *)
RemoveStaging ==
    /\ adding.pc = "idle" /\ staging # "none"
    /\ staging' = "none"
    /\ UNCHANGED <<atomic, parent, dirs, adding, reported, kills, peers>>

RemoveIncomplete ==
    /\ adding.pc = "idle"
    /\ \/ reported = "modified" /\ Here.marker # "absent"
       \/ reported \in {"refused", "exists"} /\ Here.marker = "absent"
    /\ Here.by = "add" /\ ~Recognised("here")
    /\ dirs' = [dirs EXCEPT !["here"] = EmptyDirectory("nobody")]
    /\ UNCHANGED <<atomic, parent, staging, adding, reported, kills, peers>>

Command ==
    \/ StageFeature \/ EnsureParents \/ Rename
    \/ MakeDestination \/ OpenDestination \/ CheckDestination
    \/ CreateMarker \/ WriteMarker \/ CloseMarker
    \/ OpenIncomplete \/ CreateEntry \/ WriteEntry \/ CloseEntry \/ RequireComplete
    \/ SetMode \/ VerifyIdentity \/ Unmark \/ VerifyPublished \/ RemoveStaged

AddNext ==
    \/ \E c \in Configs : StartAdd(c)
    \/ Command
    \/ Interrupt \/ Kill
    \/ \E e \in Entries : EditEntry(e)
    \/ \E f \in Files : SaveFile(f)
    \/ ReplaceDirectory \/ EditMarker \/ AddExtra \/ ChangeMode \/ RemoveDestination \/ Replace \/ Redirect
    \/ RemoveStaging \/ RemoveIncomplete \/ RepairParent

AddSpec == AddInit /\ [][AddNext]_addVars

(* A started command runs on.  The user reruns the command and does what its
   messages ask for. *)
AddFairness ==
    /\ WF_addVars(Command)
    /\ \A c \in Configs : SF_addVars(StartAdd(c))
    /\ WF_addVars(RemoveStaging)
    /\ WF_addVars(RepairParent)
    /\ SF_addVars(RemoveIncomplete)

AddFairSpec == AddSpec /\ AddFairness

-----------------------------------------------------------------------------
(* Properties *)

(* A directory that the other commands take for a feature (no marker,
   metadata that `add' wrote) holds the whole scaffold, however often
   publication was interrupted, killed or resumed: _publish_linux_add_scaffold
   removes the marker only after _require_complete_add.  This is what lets
   GenerationPublication treat the scaffold as appearing at once. *)
FeatureIsWhole ==
    \A i \in Places :
        (/\ dirs[i].by = "add" /\ Recognised(i)
         /\ dirs[i].content["metadata"] # "edited")
            => \A e \in Entries : dirs[i].content[e] \notin {"absent", "partial"}

(* What the command may write over: the entry it created itself, in this run,
   and has open under its name. *)
Written == IF adding.pc \in {"filling", "closing"} THEN {NextEntry} \cap adding.held ELSE {}

(* No step of the command changes an entry the author wrote or a directory the
   author put at the destination, but for two moments that the code leaves open.
   Bytes written in place into a file between its exclusive creation and the
   command's write are written over (_write_add_file_exclusive), like the mode of
   a directory just made; whoever saves by renaming keeps what they saved.  And an
   empty directory put in the place of one just made is taken for it
   (_linux_mkdir_open_directory); one that holds anything is not. *)
KeepsAuthorWork ==
    Command =>
        \A i \in {"here", adding'.target} \ {None} :
            /\ dirs[i].by = "author" =>
                  dirs'[i] \in {dirs[i]}
                              \cup (IF Bare(dirs[i]) THEN {[dirs[i] EXCEPT !.by = "add"]} ELSE {})
            /\ \A e \in Entries : dirs[i].content[e] = "edited" =>
                  dirs'[i].content[e] = "edited" \/ (i = adding.target /\ e \in Written)
AuthorWorkKept == [][KeepsAuthorWork]_addVars

(* A user who reruns `add', and removes what a refused command names, gets the
   feature in the end, unless a directory of their own stands in its place:
   no sequence of kills leaves a state that refuses every later command. *)
FeatureAppears == <>(Here.by = "author" \/ Recognised("here"))

(*-------------------------- inductive invariant -------------------------*)
Directories ==
    [by : {"nobody", "add", "author"}, marker : {"absent", "partial", "edited"} \cup Configs,
     mode : {"private", "changed"}, extra : BOOLEAN,
     content : [Entries -> {"absent", "partial", "edited", "made"} \cup Configs]]
AddTypes ==
    /\ adding \in [pc : Steps, config : Configs \cup {None}, target : Places \cup {None},
                   have : SUBSET Entries, held : SUBSET Openable]
    /\ dirs \in [Places -> Directories]

(* What the running command knows of its target. *)
AddingInv ==
    /\ adding.pc # "idle" => adding.config \in Configs
    /\ adding.pc \in {"opened", "reopened", "mark", "marking", "marked", "open", "fill",
                      "filling", "closing", "mode", "identity", "unmark"} =>
          adding.target \in Places
    /\ adding.pc \in {"mark", "marking", "marked"} => D.by = "add"
    /\ adding.pc \in {"fill", "filling", "closing", "mode", "identity", "unmark"} =>
          D.marker # "absent"
    /\ adding.pc \in {"mode", "identity", "unmark"} =>
          \A e \in Entries : D.content[e] \notin {"absent", "partial"}

(* Only add writes markers, and a free name shows nothing. *)
DirectoriesInv ==
    \A i \in Places :
        /\ dirs[i].by # "add" => dirs[i].marker = "absent"
        /\ dirs[i].by = "nobody" => dirs[i] = EmptyDirectory("nobody")

AddInv == AddTypes /\ AddingInv /\ DirectoriesInv /\ FeatureIsWhole
=============================================================================
