----------------------------- MODULE Namespace -----------------------------
(***************************************************************************)
(* The directory tree of the writable file system: the handlers lookup,    *)
(* readdir, create, mkdir, unlink and rmdir of                             *)
(* crates/vfs/src/fuse_writable.rs over                                    *)
(*                                                                         *)
(*  - the inode table built from the manifest (inode/manager.rs): inodes   *)
(*    by id, an index by path, and the children of each directory;         *)
(*  - the directories made and removed since (write/dirty_dir.rs);         *)
(*  - the files made and removed since (write/dirty.rs), here with their   *)
(*    path, parent and state only: their contents are in DirtyFile.        *)
(*                                                                         *)
(* What a user sees is an overlay of the three, computed by every lookup   *)
(* and listing; what is to be exported is computed from the last two.  The *)
(* properties say that the views agree.                                    *)
(*                                                                         *)
(* A FUSE session runs one handler at a time, so a handler is one step.    *)
(* The kernel walks paths with lookup before it calls a handler: the       *)
(* parent is a directory that is there, and a name is created only where   *)
(* lookup found nothing.                                                   *)
(***************************************************************************)
EXTENDS Naturals, Sequences, FiniteSets, Functions, SequencesExt

CONSTANTS
  Names,         \* names of directory entries
  Manifest,      \* the inodes built from the manifest: id -> [path, kind, parent]
  original_dirs, \* the paths the manifest lists as directories
  MaxNew,        \* bound: directories and files made
  MaxDepth       \* bound: components of a path

Root == 1
Kinds == {"dir", "file", "symlink"}
Paths == UNION {[1 .. n -> Names] : n \in 0 .. MaxDepth}
Nothing == 0     \* no inode

\* Ids of new files start at 0x8000_0000, far above those of the inode table.
FirstFileId == 1000
FileIds == {FirstFileId + n : n \in 1 .. MaxNew}
FirstNewId == Cardinality(DOMAIN Manifest) + 2
DirIds == FirstNewId .. FirstNewId + MaxNew
TableIds == {Root} \cup DOMAIN Manifest \cup DirIds

Entries == [path : Paths, kind : Kinds, parent : TableIds]

ASSUME BoundsAssumption == MaxNew \in Nat /\ MaxDepth \in Nat

\* A tree of fewer inodes than there are ids below those of new files.
ASSUME ManifestAssumption ==
  /\ IsFiniteSet(DOMAIN Manifest) /\ FirstNewId + MaxNew <= FirstFileId
  /\ DOMAIN Manifest = 2 .. FirstNewId - 1
  /\ \A i \in DOMAIN Manifest :
       /\ Manifest[i] \in [path : Paths \ {<<>>}, kind : Kinds, parent : TableIds]
       /\ LET p == Manifest[i].parent
          IN IF p = Root THEN Len(Manifest[i].path) = 1
             ELSE /\ p \in DOMAIN Manifest /\ Manifest[p].kind = "dir"
                  /\ Manifest[p].path = Front(Manifest[i].path)
       /\ \A j \in DOMAIN Manifest \ {i} : Manifest[i].path # Manifest[j].path
  /\ original_dirs \subseteq {Manifest[i].path : i \in {j \in DOMAIN Manifest : Manifest[j].kind = "dir"}}

VARIABLES
  inodes,        \* the inode table: id -> [path, kind, parent]
  path_index,    \* path -> id
  children,      \* of each directory: name -> id
  dirty_dirs,    \* id -> [path, state], state "New" or "Deleted"
  dirty_files,   \* id -> [path, parent, state], state "New", "Modified" or "Deleted"
  next_id,       \* next id of the inode table
  next_file,     \* next id of a new file
  last           \* the last call: [op, path, answer]

table == <<inodes, path_index, children, next_id>>
vars == <<inodes, path_index, children, dirty_dirs, dirty_files, next_id, next_file, last>>

PartialMaps(D, R) == UNION {[S -> R] : S \in SUBSET D}

TypeOK ==
  /\ DOMAIN inodes \subseteq TableIds /\ \A i \in DOMAIN inodes : inodes[i] \in Entries
  /\ DOMAIN path_index \subseteq Paths /\ \A p \in DOMAIN path_index : path_index[p] \in TableIds
  /\ DOMAIN children \subseteq TableIds
  /\ \A i \in DOMAIN children : DOMAIN children[i] \subseteq Names /\ IsInjective(children[i])
  /\ \A i \in DOMAIN dirty_dirs :
       i \in TableIds /\ dirty_dirs[i] \in [path : Paths, state : {"New", "Deleted"}]
  /\ \A i \in DOMAIN dirty_files :
       dirty_files[i] \in [path : Paths, parent : TableIds, state : {"New", "Modified", "Deleted"}]
  /\ next_id \in DirIds /\ next_file \in Nat

RootEntry == [path |-> <<>>, kind |-> "dir", parent |-> Root]

ChildrenIn(t, d) == {i \in DOMAIN t \ {Root} : t[i].parent = d}

\* The table that the builder makes of the manifest.
BuildFromManifest ==
  /\ inodes = [i \in {Root} \cup DOMAIN Manifest |-> IF i = Root THEN RootEntry ELSE Manifest[i]]
  /\ path_index = [p \in {inodes[i].path : i \in DOMAIN inodes} |->
                     CHOOSE i \in DOMAIN inodes : inodes[i].path = p]
  /\ children = [d \in {i \in DOMAIN inodes : inodes[i].kind = "dir"} |->
                   [n \in {Last(inodes[i].path) : i \in ChildrenIn(inodes, d)} |->
                      CHOOSE i \in ChildrenIn(inodes, d) : Last(inodes[i].path) = n]]

\* WritableVfs::new: nothing is changed yet.
Init ==
  /\ BuildFromManifest
  /\ dirty_dirs = <<>> /\ dirty_files = <<>>
  /\ next_id = FirstNewId
  /\ next_file = 1
  /\ last = [op |-> "none", path |-> <<>>, answer |-> "ok"]

Without(f, x) == Restrict(f, DOMAIN f \ {x})
With(f, x, v) == [y \in DOMAIN f \cup {x} |-> IF y = x THEN v ELSE f[y]]

-----------------------------------------------------------------------------
\* Looking things up.

GetByPath(p) ==
  IF p \in DOMAIN path_index /\ path_index[p] \in DOMAIN inodes
    THEN path_index[p] ELSE Nothing

FileIs(i, state) == i \in DOMAIN dirty_files /\ dirty_files[i].state = state
DirIs(i, state) == i \in DOMAIN dirty_dirs /\ dirty_dirs[i].state = state

\* get_new_files_in_dir, lookup_new_file
NewFiles(d) ==
  {<<Last(dirty_files[i].path), i>> :
     i \in {j \in DOMAIN dirty_files : FileIs(j, "New") /\ dirty_files[j].parent = d}}

\* get_new_dirs_in_parent, lookup_new_dir
NewDirs(d) ==
  {<<Last(inodes[i].path), i>> :
     i \in {j \in DOMAIN dirty_dirs \cap DOMAIN inodes :
              DirIs(j, "New") /\ inodes[j].parent = d}}

Named(S, name) == {e[2] : e \in {x \in S : x[1] = name}}

\* The path of a parent is taken from the table, or from the new directories.
ParentPath(d) == IF d \in DOMAIN inodes THEN inodes[d].path ELSE dirty_dirs[d].path

\* What lookup answers: the inodes it may find, none for ENOENT.
Lookup(d, name) ==
  LET child == GetByPath(Append(ParentPath(d), name))
  IN IF child # Nothing
       THEN IF FileIs(child, "Deleted") \/ DirIs(child, "Deleted") THEN {} ELSE {child}
       ELSE IF Named(NewFiles(d), name) # {} THEN Named(NewFiles(d), name)
       ELSE Named(NewDirs(d), name)

\* The children of a directory that readdir takes from the table.
TableEntries(d) ==
  {<<n, children[d][n]>> :
     n \in {m \in DOMAIN children[d] :
              LET c == children[d][m]
              IN c \in DOMAIN inodes /\ ~FileIs(c, "Deleted") /\ c \notin DOMAIN dirty_dirs}}

\* The entries readdir lists, as name and inode, beside "." and "..".
Listing(d) == TableEntries(d) \cup NewFiles(d) \cup NewDirs(d)

IsDir(i) == i \in DOMAIN inodes /\ inodes[i].kind = "dir"

\* The kernel's walk from the root: what each path leads to.
Walk ==
  LET walk[p \in Paths] ==
        IF p = <<>> THEN {Root}
        ELSE UNION {Lookup(d, Last(p)) : d \in {e \in walk[Front(p)] : IsDir(e)}}
  IN walk

KindOf(i) == IF i \in DOMAIN inodes THEN inodes[i].kind ELSE "file"

\* The tree the user sees.
Tree == UNION {{<<p, KindOf(i)>> : i \in Walk[p]} : p \in Paths}

-----------------------------------------------------------------------------
\* The handlers.  Each is called with the parent d at path p and a name.

Answer(op, p, a) == last' = [op |-> op, path |-> p, answer |-> a]

\* create: only the inode table is asked whether the name is taken.
Create(p, d, name) ==
  LET new == Append(p, name) IN
  /\ Lookup(d, name) = {}
  /\ \/ /\ GetByPath(new) # Nothing
        /\ Answer("create", new, "EEXIST")
        /\ UNCHANGED <<dirty_files, next_file>>
     \/ /\ GetByPath(new) = Nothing
        /\ next_file <= MaxNew
        /\ next_file' = next_file + 1
        /\ dirty_files' = With(dirty_files, FirstFileId + next_file,
                               [path |-> Append(ParentPath(d), name), parent |-> d, state |-> "New"])
        /\ Answer("create", new, "ok")
  /\ UNCHANGED <<table, dirty_dirs>>

\* add_directory, with a parent that exists.
AddDirectory(new, d) ==
  /\ inodes' = With(inodes, next_id, [path |-> new, kind |-> "dir", parent |-> d])
  /\ path_index' = With(path_index, new, next_id)
  /\ children' = With([children EXCEPT ![d] = With(@, Last(new), next_id)], next_id, <<>>)
  /\ next_id' = next_id + 1

\* Mutation: a directory made again keeps the mark of its removal.
TrackCreated_KeepDeleted(new, id) ==
  dirty_dirs' = IF new \in original_dirs THEN dirty_dirs
                ELSE With(dirty_dirs, id, [path |-> new, state |-> "New"])

\* A directory made again loses the mark of its removal; one that the manifest
\* does not list is new.
TrackCreated(new, id) ==
  LET deleted == {i \in DOMAIN dirty_dirs : DirIs(i, "Deleted") /\ dirty_dirs[i].path = new}
  IN IF deleted # {}
       THEN \E i \in deleted : dirty_dirs' = Without(dirty_dirs, i)
       ELSE dirty_dirs' = IF new \in original_dirs THEN dirty_dirs
                          ELSE With(dirty_dirs, id, [path |-> new, state |-> "New"])

\* mkdir: create_dir.
MkDir(p, d, name) ==
  LET new == Append(p, name) IN
  /\ Lookup(d, name) = {}
  /\ \/ /\ GetByPath(new) # Nothing
        /\ Answer("mkdir", new, "EEXIST")
        /\ UNCHANGED <<table, dirty_dirs>>
     \/ /\ GetByPath(new) = Nothing
        /\ next_id < FirstNewId + MaxNew
        /\ AddDirectory(new, d)
        /\ TrackCreated(new, next_id)
        /\ Answer("mkdir", new, "ok")
  /\ UNCHANGED <<dirty_files, next_file>>

\* unlink: the table's inode first, else the new file; delete_file forgets a new
\* file and marks one of the manifest, and refuses anything else.  An error of
\* the flush that follows the mark is answered, and the mark stays.
Unlink(p, d, name) ==
  LET path == Append(p, name)
      found == IF GetByPath(path) # Nothing THEN {GetByPath(path)} ELSE Named(NewFiles(d), name)
  IN
  /\ \E i \in Lookup(d, name) : KindOf(i) # "dir"
  /\ \E i \in found :
       \/ /\ FileIs(i, "New")
          /\ dirty_files' = Without(dirty_files, i)
          /\ Answer("unlink", path, "ok")
       \/ /\ ~FileIs(i, "New") /\ KindOf(i) = "file"
          /\ dirty_files' = With(dirty_files, i,
                                 [path |-> path, parent |-> inodes[i].parent, state |-> "Deleted"])
          /\ \E a \in {"ok", "EIO"} : Answer("unlink", path, a)
       \/ /\ ~FileIs(i, "New") /\ KindOf(i) # "file"
          /\ Answer("unlink", path, "EIO")
          /\ UNCHANGED dirty_files
  /\ UNCHANGED <<table, dirty_dirs, next_file>>

\* Mutation: the new files of a directory outlive it.
WithoutNewFilesUnder_All(dir) == dirty_files

\* remove_new_files_under_path
WithoutNewFilesUnder(dir) ==
  Restrict(dirty_files, {i \in DOMAIN dirty_files :
                           ~(FileIs(i, "New") /\ IsPrefix(dir, dirty_files[i].path))})

\* remove_child and remove_inode
RemoveDirectory(d, i) ==
  /\ inodes' = Without(inodes, i)
  /\ path_index' = Without(path_index, inodes[i].path)
  /\ children' = Without([children EXCEPT ![d] = Without(@, Last(inodes[i].path))], i)
  /\ UNCHANGED next_id

TrackDeleted(i) ==
  dirty_dirs' = IF DirIs(i, "New") THEN Without(dirty_dirs, i)
                ELSE IF inodes[i].path \in original_dirs
                  THEN With(dirty_dirs, i, [path |-> inodes[i].path, state |-> "Deleted"])
                ELSE dirty_dirs

\* rmdir: the new files go first, then delete_dir decides by the table's children.
RmDir(p, d, name) ==
  LET path == Append(p, name) IN
  /\ \E i \in Lookup(d, name) : IsDir(i)
  /\ dirty_files' = WithoutNewFilesUnder(path)
  /\ name \in DOMAIN children[d]
  /\ LET i == children[d][name]
     IN \/ /\ DOMAIN children[i] # {}
           /\ Answer("rmdir", path, "ENOTEMPTY")
           /\ UNCHANGED <<table, dirty_dirs>>
        \/ /\ DOMAIN children[i] = {}
           /\ TrackDeleted(i)
           /\ RemoveDirectory(d, i)
           /\ Answer("rmdir", path, "ok")
  /\ UNCHANGED next_file

Next ==
  \E p \in Paths, name \in Names :
    /\ Len(p) < MaxDepth
    /\ \E d \in Walk[p] :
         /\ IsDir(d)
         /\ Create(p, d, name) \/ MkDir(p, d, name) \/ Unlink(p, d, name) \/ RmDir(p, d, name)

Spec == Init /\ [][Next]_vars

-----------------------------------------------------------------------------
(* Properties *)

\* The three maps of the inode table, updated under separate locks by several
\* functions, describe one tree: every inode but the root is found under its
\* path and as a child of its parent, and nothing else is.
TableIsATree ==
  /\ \A i \in DOMAIN inodes \ {Root} :
       LET e == inodes[i] IN
       /\ GetByPath(e.path) = i
       /\ IsDir(e.parent) /\ inodes[e.parent].path = Front(e.path)
       /\ Last(e.path) \in DOMAIN children[e.parent]
       /\ children[e.parent][Last(e.path)] = i
  /\ {path_index[p] : p \in DOMAIN path_index} = DOMAIN inodes
  /\ DOMAIN children = {i \in DOMAIN inodes : IsDir(i)}
  /\ \A d \in DOMAIN children : Range(children[d]) \subseteq DOMAIN inodes

\* Listing a directory and looking its names up, which combine the layers in
\* different orders, agree: the same names, each once, with the same inode.
ListingMatchesLookup ==
  \A p \in Paths : \A d \in Walk[p] : IsDir(d) =>
    \A n \in Names : /\ Named(Listing(d), n) = Lookup(d, n)
                     /\ Cardinality(Lookup(d, n)) <= 1

\* What would be exported (the new and the deleted files and directories,
\* applied to the manifest) is the tree the user sees.  A directory that the
\* manifest does not list, but only implies by an entry in it, is the exception:
\* its removal is not recorded, and an export without entries in it has no such
\* directory anyway.
DiffDescribesTree ==
  LET original == {<<<<>>, "dir">>} \cup {<<Manifest[i].path, Manifest[i].kind>> : i \in DOMAIN Manifest}
      implied == {<<Manifest[i].path, "dir">> :
                    i \in {j \in DOMAIN Manifest :
                            Manifest[j].kind = "dir" /\ Manifest[j].path \notin original_dirs}}
      files(state) == {<<dirty_files[i].path, "file">> :
                         i \in {j \in DOMAIN dirty_files : FileIs(j, state)}}
      dirs(state) == {<<dirty_dirs[i].path, "dir">> :
                         i \in {j \in DOMAIN dirty_dirs : DirIs(j, state)}}
      exported == (original \ (files("Deleted") \cup dirs("Deleted"))) \cup files("New") \cup dirs("New")
  IN Tree \subseteq exported /\ exported \ Tree \subseteq implied

\* A new file, or a new directory, can be reached: its parent is still there
\* under the path that is part of its own.
NothingStranded ==
  /\ \A i \in DOMAIN dirty_files : FileIs(i, "New") =>
       IsDir(dirty_files[i].parent) /\ inodes[dirty_files[i].parent].path = Front(dirty_files[i].path)
  /\ \A i \in DOMAIN dirty_dirs : DirIs(i, "New") =>
       IsDir(i) /\ inodes[i].path = dirty_dirs[i].path

\* The three maps of the inode table, the listings, the lookups and the files that
\* were made describe one tree.
TreeIsSound == TypeOK /\ TableIsATree /\ ListingMatchesLookup /\ NothingStranded

\* A call that was answered with success has done what it says.
DoneAsAnswered ==
  last.answer = "ok" =>
    CASE last.op = "create" -> <<last.path, "file">> \in Tree
      [] last.op = "mkdir" -> <<last.path, "dir">> \in Tree
      [] last.op \in {"unlink", "rmdir"} -> Walk[last.path] = {}
      [] OTHER -> TRUE

\* Statements that do not hold, and are not in the runs.

\* A name that is not there can be used again (README, section Divergences).
FreeNamesAreUsable == last.op \in {"create", "mkdir"} => last.answer # "EEXIST"

\* A refused rmdir leaves the tree as it was.
RefusedRmdirKeepsFiles ==
  [][last'.op = "rmdir" /\ last'.answer = "ENOTEMPTY" => Tree' = Tree]_vars

=============================================================================
