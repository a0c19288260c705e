---------------------------- MODULE CoherentRead ----------------------------
(***************************************************************************)
(* How the generator reads authored files (filesystem.py and               *)
(* filesystem_inventory.py) while an editor, a version control tool or a   *)
(* build works in the same tree.  Every entry is identified before, after  *)
(* and through its name: opened without following a link, read in chunks,  *)
(* compared with what its name shows now.  A difference ends the whole     *)
(* read with ConcurrentSourceMutation.                                     *)
(*                                                                         *)
(* Data.  The tree is a file `a', a directory `d' and a file `x' in it;    *)
(* where a link leads is left out, no call follows one.  An inode has a    *)
(* kind, a modification stamp and its content: two chunks of a file, the   *)
(* names of a directory.  Every change gives its inode a new stamp: two    *)
(* writes in one tick of a coarse clock are out of scope, as they are for  *)
(* the code.                                                               *)
(***************************************************************************)
EXTENDS Naturals, Sequences

CONSTANTS
    ChangeLimit   \* bound: changes made while the reader works

VARIABLES
    inodes,       \* the file system
    reader,       \* the read in progress
    result,       \* its outcome
    changes,      \* stamps given out so far
    versions      \* history: what every inode held under every stamp

readVars == <<inodes, reader, result, changes, versions>>

Names == {"a", "d", "x"}
Root == 1
NoInode == 0
Spare == 5 .. 7                      \* inodes a change may bring into use
Empty == [n \in Names |-> NoInode]
File(s) == [kind |-> "file", stamp |-> s, names |-> Empty, chunks |-> <<s, s>>]
Directory(s, ns) == [kind |-> "directory", stamp |-> s, names |-> ns, chunks |-> <<0, 0>>]
Free == [kind |-> "free", stamp |-> 0, names |-> Empty, chunks |-> <<0, 0>>]
Link(s) == [kind |-> "symlink", stamp |-> s, names |-> Empty, chunks |-> <<0, 0>>]

(* lstat: the fields _same_observed_entry compares. *)
Stat(i) == [ino |-> i, kind |-> inodes[i].kind, stamp |-> inodes[i].stamp]
NoStat == [ino |-> 0, kind |-> "none", stamp |-> 0]
LiveStat(dir, n) == IF inodes[dir].names[n] = NoInode THEN NoStat ELSE Stat(inodes[dir].names[n])

Idle == [pc |-> "idle", mode |-> "none", frames |-> <<>>, name |-> "a", before |-> NoStat,
         got |-> <<>>, rows |-> {}]
Top == reader.frames[Len(reader.frames)]
(* What a reader can learn of an inode: its chunks or its names. *)
Row(i, stamp, names, chunks) == [ino |-> i, stamp |-> stamp, names |-> names, chunks |-> chunks]
Version(i, node) == Row(i, node.stamp, {n \in Names : node.names[n] # NoInode},
                        IF node.kind = "file" THEN node.chunks ELSE <<>>)

ReadInit ==
    /\ inodes = [i \in 1 .. 7 |->
          CASE i = Root -> Directory(1, [Empty EXCEPT !["a"] = 2, !["d"] = 3])
            [] i = 2 -> File(1)
            [] i = 3 -> Directory(1, [Empty EXCEPT !["x"] = 4])
            [] i = 4 -> File(1)
            [] OTHER -> Free]
    /\ reader = Idle
    /\ result = [kind |-> "none", rows |-> {}]
    /\ changes = 1
    /\ versions = {Version(i, inodes[i]) : i \in 1 .. 4}

(*------------------------------ the author ------------------------------*)
Now == changes + 1
Change(new, touched) ==
    /\ changes < ChangeLimit /\ reader.pc \notin {"idle", "over"}
    /\ changes' = Now
    /\ inodes' = new
    /\ versions' = versions \cup {Version(i, new[i]) : i \in touched}
    /\ UNCHANGED <<reader, result>>

(* A file is written in place, one chunk at a time. *)
WriteChunk(i, c) ==
    /\ inodes[i].kind = "file"
    /\ Change([inodes EXCEPT ![i].stamp = Now, ![i].chunks[c] = Now], {i})

(* A new entry is renamed over a name: an editor's save, or a link. *)
ReplaceEntry(dir, n, new, kind) ==
    /\ inodes[dir].kind = "directory"
    /\ inodes[new].kind = "free" /\ \A i \in Spare : i < new => inodes[i].kind # "free"
    /\ n = "d" => kind \in {"symlink", "directory"}
    /\ n # "d" => kind \in {"symlink", "file"}
    /\ Change([inodes EXCEPT ![dir].names[n] = new, ![dir].stamp = Now,
                             ![new] = CASE kind = "file" -> File(Now)
                                        [] kind = "symlink" -> Link(Now)
                                        [] OTHER -> Directory(Now, Empty)], {dir, new})

RemoveEntry(dir, n) ==
    /\ inodes[dir].kind = "directory" /\ inodes[dir].names[n] # NoInode
    /\ Change([inodes EXCEPT ![dir].names[n] = NoInode, ![dir].stamp = Now], {dir})

(*------------------------------ the reader ------------------------------*)
Stop(kind, rows) == result' = [kind |-> kind, rows |-> rows]
Raise == /\ Stop("changed", {})
         /\ reader' = [Idle EXCEPT !.pc = "over"]
Unread == UNCHANGED <<inodes, changes, versions>>

Frame(dir, name, todo) == [dir |-> dir, before |-> Stat(dir), name |-> name, todo |-> todo,
                           listed |-> {}]

(* inventory_posix_tree, or a read of one contained path, opens the root. *)
OpenRoot(mode) ==
    /\ reader.pc = "idle"
    /\ \/ /\ mode = "inventory"
          /\ reader' = [Idle EXCEPT !.pc = "list", !.mode = mode,
                                    !.frames = <<Frame(Root, "a", {})>>]
       \/ /\ mode = "contained"
          /\ reader' = [Idle EXCEPT !.pc = "walk", !.mode = mode,
                                    !.frames = <<Frame(Root, "a", {"d"})>>]
    /\ UNCHANGED result /\ Unread

(* os.listdir of the open directory, after its fstat. *)
ListDirectory ==
    /\ reader.pc = "list"
    /\ LET names == {n \in Names : inodes[Top.dir].names[n] # NoInode} IN
       reader' = [reader EXCEPT !.pc = "walk", !.frames[Len(reader.frames)].todo = names,
                                !.frames[Len(reader.frames)].listed = names]
    /\ UNCHANGED result /\ Unread

First(names) == IF "a" \in names THEN "a" ELSE IF "d" \in names THEN "d" ELSE "x"

(* _walk: the next name in order is looked at without following it. *)
StatEntry ==
    /\ reader.pc = "walk" /\ reader.mode = "inventory" /\ Top.todo # {}
    /\ LET n == First(Top.todo)
           s == LiveStat(Top.dir, n) IN
       \/ s = NoStat /\ Raise
       \/ /\ s # NoStat
          /\ reader' = [reader EXCEPT !.pc = "open", !.name = n, !.before = s, !.got = <<>>,
                            !.frames[Len(reader.frames)].todo = @ \ {n}]
          /\ UNCHANGED result
    /\ Unread

(* _open_read_descriptor with O_NOFOLLOW, and fstat against the look before *)
(* it (_hash_regular, _walk_directory, _read_symlink).                      *)
OpenEntry ==
    /\ reader.pc = "open"
    /\ LET now == LiveStat(Top.dir, reader.name) IN
       \/ now # reader.before /\ Raise
       \/ /\ now = reader.before
          /\ \/ now.kind = "file" /\ reader' = [reader EXCEPT !.pc = "read"]
             \/ now.kind = "symlink" /\ reader' = [reader EXCEPT !.pc = "finish"]
             \/ /\ now.kind = "directory"
                /\ reader' = [reader EXCEPT !.pc = "list",
                                            !.frames = Append(@, Frame(now.ino, reader.name, {}))]
          /\ UNCHANGED result
    /\ Unread

(* read_contained_regular_bytes_no_follow opens d, then x in it, each below *)
(* the descriptor of its parent; a link or a missing entry is refused, and  *)
(* the first look at the file is the fstat of its descriptor.               *)
OpenContained ==
    /\ reader.pc = "walk" /\ reader.mode = "contained" /\ Top.todo # {}
    /\ LET n == First(Top.todo)
           now == LiveStat(Top.dir, n) IN
       \/ now.kind \in {"none", "symlink"} /\ Raise
       \/ /\ now.kind = "directory" /\ n = "d"
          /\ reader' = [reader EXCEPT !.frames = <<Frame(now.ino, n, {"x"})>>]
          /\ UNCHANGED result
       \/ /\ now.kind = "file" /\ n = "x"
          /\ reader' = [reader EXCEPT !.pc = "read", !.name = n, !.before = now,
                                      !.frames[1].todo = {}]
          /\ UNCHANGED result
    /\ Unread

ReadChunk ==
    /\ reader.pc = "read"
    /\ reader' = [reader EXCEPT !.got = Append(@, inodes[reader.before.ino].chunks[Len(@) + 1]),
                                !.pc = IF Len(reader.got) = 1 THEN "finish" ELSE "read"]
    /\ UNCHANGED result /\ Unread

(* Mutant: only the name is compared at the end, not the open file. *)
FinishEntryByName ==
    /\ reader.pc = "finish"
    /\ IF LiveStat(Top.dir, reader.name).ino # reader.before.ino
       THEN Raise
       ELSE /\ reader' = [reader EXCEPT !.pc = "walk",
                              !.rows = @ \cup {Row(reader.before.ino, reader.before.stamp, {},
                                                    reader.got)}]
            /\ UNCHANGED result
    /\ Unread

(* fstat of the descriptor and lstat of the name must both show the entry  *)
(* that was opened (_finish_observed_atime_value, _hash_regular).          *)
FinishEntry ==
    /\ reader.pc = "finish"
    /\ IF Stat(reader.before.ino) # reader.before \/ LiveStat(Top.dir, reader.name) # reader.before
       THEN Raise
       ELSE /\ reader' = [reader EXCEPT !.pc = "walk",
                              !.rows = @ \cup {Row(reader.before.ino, reader.before.stamp, {},
                                                    reader.got)}]
            /\ UNCHANGED result
    /\ Unread

(* _verify_directory: the directory and its name are as they were listed. *)
VerifyDirectory ==
    /\ reader.pc = "walk" /\ reader.mode = "inventory" /\ Top.todo = {}
    /\ LET depth == Len(reader.frames)
           live == IF depth = 1 THEN Stat(Root)
                   ELSE LiveStat(reader.frames[depth - 1].dir, Top.name)
           row == Row(Top.dir, Top.before.stamp, Top.listed, <<>>) IN
       \/ (Stat(Top.dir) # Top.before \/ live # Top.before) /\ Raise
       \/ /\ Stat(Top.dir) = Top.before /\ live = Top.before
          /\ IF depth = 1
             THEN /\ Stop("ok", reader.rows \cup {row})
                  /\ reader' = [reader EXCEPT !.pc = "over"]
             ELSE /\ reader' = [reader EXCEPT !.frames = SubSeq(@, 1, depth - 1),
                                              !.rows = @ \cup {row}]
                  /\ UNCHANGED result
    /\ Unread

ContainedReturns ==
    /\ reader.pc = "walk" /\ reader.mode = "contained" /\ Top.todo = {}
    /\ Stop("ok", reader.rows)
    /\ reader' = [reader EXCEPT !.pc = "over"]
    /\ Unread

ReadNext ==
    \/ \E i \in 1 .. 7, c \in 1 .. 2 : WriteChunk(i, c)
    \/ \E dir \in {Root, 3}, n \in Names, new \in Spare, k \in {"file", "directory", "symlink"} :
          ReplaceEntry(dir, n, new, k)
    \/ \E dir \in {Root, 3}, n \in Names : RemoveEntry(dir, n)
    \/ \E mode \in {"inventory", "contained"} : OpenRoot(mode)
    \/ ListDirectory \/ StatEntry \/ OpenEntry \/ OpenContained \/ ReadChunk \/ FinishEntry
    \/ VerifyDirectory \/ ContainedReturns

ReadSpec == ReadInit /\ [][ReadNext]_readVars

(* What a successful read returns for an entry is one version of it: the   *)
(* bytes of a file, or the names of a directory, are those it held when it *)
(* had the recorded stamp, never a mixture of two saves, whatever is       *)
(* written, renamed or removed between the calls (_walk, _hash_regular,    *)
(* read_contained_regular_bytes_no_follow).                                *)
OneVersion == result.kind = "ok" => result.rows \subseteq versions

(*-------------------------- inductive invariant -------------------------*)
Inodes == 1 .. 7
OpenDirectories ==
    [dir : Inodes, before : [ino : Inodes, kind : {"directory"}, stamp : Nat],
     name : Names, todo : SUBSET Names, listed : SUBSET Names]
ReadTypes ==
    /\ changes \in Nat
    /\ inodes \in [Inodes -> [kind : {"file", "directory", "symlink", "free"}, stamp : Nat,
                              names : [Names -> {NoInode} \cup Inodes], chunks : [1 .. 2 -> Nat]]]
    /\ reader \in
          [pc : {"idle", "list", "walk", "open", "read", "finish", "over"},
           mode : {"none", "inventory", "contained"}, frames : Seq(OpenDirectories), name : Names,
           before : [ino : {NoInode} \cup Inodes,
                     kind : {"none", "file", "directory", "symlink", "free"}, stamp : Nat],
           got : Seq(Nat), rows : SUBSET versions]
    /\ result \in [kind : {"none", "changed", "ok"}, rows : SUBSET versions]

Listing(i) == {n \in Names : inodes[i].names[n] # NoInode}

(* What an inode holds is a version of it; its stamp is its last change. *)
InodesInv ==
    /\ \A i \in Inodes :
          /\ inodes[i].stamp <= changes
          /\ inodes[i].kind # "free" => Version(i, inodes[i]) \in versions
          /\ inodes[i].kind # "directory" => inodes[i].names = Empty
    /\ inodes[Root].kind = "directory"

(* A directory that was not changed since it was opened holds what was listed. *)
FramesInv ==
    \A k \in 1 .. Len(reader.frames) :
        LET f == reader.frames[k] IN
        /\ f.before.ino = f.dir
        /\ f.before.stamp <= inodes[f.dir].stamp
        /\ (/\ reader.mode = "inventory" /\ (reader.pc = "list" => k < Len(reader.frames))
            /\ inodes[f.dir].stamp = f.before.stamp)
               => f.listed = Listing(f.dir)

(* An entry that was not changed since the first look holds what was read. *)
EntryInv ==
    /\ reader.pc \notin {"idle", "over"} => Len(reader.frames) > 0
    /\ reader.pc \in {"list", "open"} => reader.mode = "inventory"
    /\ reader.mode = "contained" => Len(reader.frames) = 1
    /\ reader.mode = "contained" /\ reader.pc = "walk" /\ Top.todo # {} => reader.got = <<>>
    /\ reader.mode = "contained" /\ reader.pc \in {"read", "finish"} => Top.todo = {}
    /\ reader.pc = "open" => reader.got = <<>>
    /\ reader.pc \in {"open", "read", "finish"} =>
          /\ reader.before.ino \in Inodes
          /\ reader.before.stamp <= inodes[reader.before.ino].stamp
    /\ reader.pc = "read" => reader.before.kind = "file" /\ Len(reader.got) < 2
    /\ reader.pc = "finish" =>
          \/ reader.before.kind = "symlink" /\ reader.got = <<>>
          \/ reader.before.kind = "file" /\ Len(reader.got) = 2
    /\ reader.pc \in {"read", "finish"}
       /\ reader.before.stamp = inodes[reader.before.ino].stamp =>
          \A c \in 1 .. Len(reader.got) : reader.got[c] = inodes[reader.before.ino].chunks[c]

ReadInv == ReadTypes /\ InodesInv /\ FramesInv /\ EntryInv
=============================================================================
