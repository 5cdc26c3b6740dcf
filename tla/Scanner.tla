------------------------------- MODULE Scanner -------------------------------
(***************************************************************************)
(* Snapshots of a directory and its comparison with a snapshot             *)
(* (filesystem/src/scanner.rs, diff.rs, stat_cache.rs), as the bindings    *)
(* use them, while somebody works in the directory.                        *)
(***************************************************************************)
EXTENDS ManifestOps

CONSTANTS
  Paths,       \* with the parent of each of them
  SizeOf,      \* content -> size
  ChunkSize,
  Filters,     \* sets of the paths a GlobFilter matches
  MaxEdits     \* bound: changes of the directory

Contents == DOMAIN SizeOf
Nothing  == [kind |-> "none"]
Folder   == [kind |-> "dir"]
Unknown  == [kind |-> "unknown"]

VARIABLES
  disk,      \* path -> what is there
  clock,     \* the next modification time; two apart, the comparison allows for one
  stats,     \* the StatCache of the scanner or engine in use
  edited,    \* history: the directory was changed since that cache was empty
  base,      \* the snapshot the next comparison starts from
  prev,      \* history: the one before it
  scan,      \* the call in progress
  edits

scanVars == <<disk, clock, stats, edited, base, prev, scan, edits>>

Children(d) == {p \in Paths : Len(p) = Len(d) + 1 /\ IsPrefix(d, p) /\ disk[p].kind # "none"}
Listing(d)  == {<<p, disk[p].kind = "dir">> : p \in Children(d)}

Empty == Snapshot({}, << >>)
Idle  == [at |-> "idle"]

ScannerInit(trees) ==
  /\ disk \in trees
  /\ clock = 3
  /\ stats = [p \in Paths |-> Unknown]
  /\ edited = FALSE
  /\ base = Empty /\ prev = Empty
  /\ scan = Idle
  /\ edits = 0

-----------------------------------------------------------------------------
(* The calls *)

\* manifest_snapshot, without and with a manifest to compare with, fast or by hash, or
\* a snapshot of a list of files; with a new scanner or engine, or again with one
\* that was used before.
Begin(purpose, filter) ==
  /\ scan.at \in {"idle", "done", "failed"}
  /\ \/ /\ stats' = [p \in Paths |-> Unknown]
        /\ edited' = FALSE
     \/ /\ scan.at # "idle" /\ scan.purpose \in {purpose} \cap {"snapshot", "listed"}
        /\ UNCHANGED <<stats, edited>>
  /\ scan' = [at |-> "walk", purpose |-> purpose, filter |-> filter,
              todo |-> IF purpose = "listed" THEN {<<p, FALSE>> : p \in filter} ELSE Listing(<< >>),
              dirs |-> {}, found |-> << >>, hashed |-> << >>, written |-> << >>, none |-> FALSE]
  /\ UNCHANGED <<disk, clock, base, prev, edits>>

Stat(p) == IF stats[p] # Unknown THEN stats[p] ELSE disk[p]

Fail == scan' = [scan EXCEPT !.at = "failed"]

\* Mutation: what is below a directory that does not match is not looked at.
Descends_Matching(entry) == entry[2] /\ entry[1] \in scan.filter

Descends(entry) == entry[2]

Matches(p) == p \in scan.filter

\* A link is kept if what it leads to lies below the root.
StaysInside(st) == st.content # "out"

\* The engine passes links over.
EngineRecords(s, p, st) ==
  CASE st.kind = "dir"  -> [s EXCEPT !.dirs = @ \cup {p}]
    [] st.kind = "file" -> [s EXCEPT !.found = @ @@ (p :> st)]
    [] OTHER            -> s

\* Of a list, files and links are taken; directories and what is missing are not.
ListedRecords(s, p, st) ==
  IF st.kind = "file" \/ (st.kind = "link" /\ StaysInside(st))
    THEN [s EXCEPT !.found = @ @@ (p :> st)] ELSE s

ScannerRecords(s, p, st) ==
  IF st.kind = "link" /\ StaysInside(st) THEN [s EXCEPT !.found = @ @@ (p :> st)]
  ELSE EngineRecords(s, p, st)

\* One entry of the walk.  WalkDir opens what was a directory when it was listed.
Visit(entry) ==
  LET p  == entry[1]
      st == Stat(p)
      more == [scan EXCEPT !.todo = (@ \ {entry}) \cup IF Descends(entry) THEN Listing(p) ELSE {}] IN
  /\ scan.at = "walk" /\ entry \in scan.todo
  /\ stats' = IF Matches(p) THEN [stats EXCEPT ![p] = st] ELSE stats
  /\ IF entry[2] /\ disk[p].kind # "dir" THEN Fail
     ELSE scan' = IF ~Matches(p) THEN more
                  ELSE IF scan.purpose = "listed" THEN ListedRecords(more, p, st)
                  ELSE IF scan.purpose = "snapshot" THEN ScannerRecords(more, p, st)
                  ELSE EngineRecords(more, p, st)
  /\ UNCHANGED <<disk, clock, edited, base, prev, edits>>

IsSnapshot == scan.purpose \in {"snapshot", "listed"}

EndWalk ==
  /\ scan.at = "walk" /\ scan.todo = {}
  /\ scan' = [scan EXCEPT !.at = IF IsSnapshot THEN "hash" ELSE "compare"]
  /\ UNCHANGED <<disk, clock, stats, edited, base, prev, edits>>

\* hash_file and compute_chunk_hashes read the file as it is now; how many chunks,
\* and what the entry says of the file, was decided by the stat.
WholeHash(content)     == <<<<content, 0>>>>
ChunkHashes(content, n) == [k \in 1 .. n |-> <<content, k>>]

Entry(st, hashes, chunked) ==
  [kind |-> "file", size |-> SizeOf[st.content], mtime |-> st.mtime, runnable |-> st.runnable,
   hashes |-> hashes, chunked |-> chunked]

LinkEntry(st) == [kind |-> "link", target |-> st.content]

IsChunked(st) == SizeOf[st.content] > ChunkSize

Hashed(st, now) ==
  IF IsChunked(st)
    THEN Entry(st, ChunkHashes(now, (SizeOf[st.content] + ChunkSize - 1) \div ChunkSize), TRUE)
    ELSE Entry(st, WholeHash(now), FALSE)

\* build_v2025_manifest, one file after the other.
Hash(p) ==
  /\ scan.at = "hash" /\ p \in DOMAIN scan.found \ DOMAIN scan.hashed
  /\ LET st == scan.found[p] IN
     IF st.kind = "link" THEN scan' = [scan EXCEPT !.hashed = @ @@ (p :> LinkEntry(st))]
     ELSE IF disk[p].kind # "file" THEN Fail
     ELSE scan' = [scan EXCEPT !.hashed = @ @@ (p :> Hashed(st, disk[p].content))]
  /\ UNCHANGED <<disk, clock, stats, edited, base, prev, edits>>

\* Without any file the bindings write no manifest.
NothingFound == scan.purpose = "snapshot" /\ DOMAIN scan.found = {}

EndSnapshot ==
  /\ scan.at = "hash" /\ DOMAIN scan.hashed = DOMAIN scan.found
  /\ scan' = [scan EXCEPT !.at = "done", !.none = NothingFound]
  /\ IF NothingFound THEN UNCHANGED <<base, prev>>
     ELSE base' = Snapshot(scan.dirs, scan.hashed) /\ prev' = base
  /\ UNCHANGED <<disk, clock, stats, edited, edits>>

-----------------------------------------------------------------------------
(* The engine *)

\* Entries that are links, or were removed, are not compared.
Known == {p \in DOMAIN base.files \cap scan.filter : base.files[p].kind = "file"}

\* is_modified_fast, is_modified_hash; a chunked file has no hash of its own.
Modified(p) ==
  \/ SizeOf[scan.found[p].content] # base.files[p].size
  \/ IF scan.purpose = "by hash" THEN WholeHash(disk[p].content) # base.files[p].hashes
     ELSE ~Near(scan.found[p].mtime, base.files[p].mtime)

ReadToCompare(p) ==
  scan.purpose = "by hash" /\ SizeOf[scan.found[p].content] = base.files[p].size

\* diff: what to write, what is gone.  hash_file fails for a file that is gone.
Compare ==
  LET both == DOMAIN scan.found \cap Known IN
  /\ scan.at = "compare"
  /\ IF \E p \in both : ReadToCompare(p) /\ disk[p].kind # "file" THEN Fail
     ELSE scan' = [scan EXCEPT !.at = "create",
                     !.hashed = [p \in (DOMAIN scan.found \ Known) \cup {p \in both : Modified(p)} |->
                                   scan.found[p]]]
  /\ UNCHANGED <<disk, clock, stats, edited, base, prev, edits>>

GoneFiles == Known \ DOMAIN scan.found

GoneDirs == (base.dirs \cap scan.filter) \ scan.dirs

\* create_diff_manifest, if any file is written or gone; it is applied to its parent.
CreateDiff ==
  LET written == DOMAIN scan.hashed
      files   == [p \in written \cup GoneFiles |->
                    IF p \in written THEN Entry(scan.hashed[p], WholeHash(disk[p].content), FALSE)
                    ELSE Deleted]
      made    == Diff(scan.dirs \ base.dirs, GoneDirs, files) IN
  /\ scan.at = "create"
  /\ IF written \cup GoneFiles = {}
       THEN scan' = [scan EXCEPT !.at = "done", !.none = TRUE] /\ UNCHANGED <<base, prev>>
     ELSE IF \E p \in written : disk[p].kind # "file" THEN Fail /\ UNCHANGED <<base, prev>>
     ELSE /\ scan' = [scan EXCEPT !.at = "done", !.written = made]
          /\ base' = ApplyDiffs(base, <<made>>) /\ prev' = base
  /\ UNCHANGED <<disk, clock, stats, edited, edits>>

-----------------------------------------------------------------------------
(* The directory: files and folders appear, replace what was there, disappear *)

\* Changes before the first call would be another initial tree.
Put(p, node) ==
  /\ scan.at # "idle" /\ edits < MaxEdits
  /\ edits' = edits + 1
  /\ edited' = TRUE
  /\ clock' = clock + 2
  /\ disk' = [q \in Paths |-> IF q = p THEN node ELSE IF IsBelow(q, p) THEN Nothing ELSE disk[q]]
  /\ UNCHANGED <<stats, base, prev, scan>>

InFolder(p) == Len(p) > 1 => disk[Front(p)].kind = "dir"

EditFile(p, content) ==
  /\ InFolder(p)
  /\ disk[p].kind = "file" => disk[p].content # content
  /\ Put(p, [kind |-> "file", content |-> content, mtime |-> clock, runnable |-> FALSE])

MakeFolder(p) == InFolder(p) /\ disk[p].kind # "dir" /\ Put(p, Folder)

RemoveTree(p) == disk[p].kind # "none" /\ Put(p, Nothing)

Chmod(p) == disk[p].kind = "file" /\ ~disk[p].runnable /\ Put(p, [disk[p] EXCEPT !.runnable = TRUE])

ScannerNext ==
  \/ \E purpose \in {"snapshot", "listed", "fast", "by hash"}, filter \in Filters : Begin(purpose, filter)
  \/ scan.at = "walk" /\ \E entry \in scan.todo : Visit(entry)
  \/ EndWalk
  \/ \E p \in Paths : Hash(p)
  \/ EndSnapshot \/ Compare \/ CreateDiff
  \/ \E p \in Paths : MakeFolder(p) \/ RemoveTree(p) \/ Chmod(p) \/ \E c \in Contents : EditFile(p, c)

-----------------------------------------------------------------------------
(* Properties *)

\* States have their type, and nothing in a snapshot is marked as deleted.
ScannerTypeOK ==
  /\ \A p \in Paths : disk[p].kind \in {"none", "dir", "file", "link"}
  /\ scan.at \in {"idle", "walk", "hash", "compare", "create", "done", "failed"}
  /\ base.dirs \subseteq Paths /\ DOMAIN base.files \subseteq Paths
  /\ \A p \in DOMAIN base.files : base.files[p].kind \in {"file", "link"}

\* The tree, as a snapshot of it should be.
Tree(filter) ==
  Snapshot({p \in filter : disk[p].kind = "dir"},
           [p \in {q \in filter : disk[q].kind = "file" \/ (disk[q].kind = "link" /\ disk[q].content # "out")} |->
              IF disk[p].kind = "link" THEN LinkEntry(disk[p]) ELSE Hashed(disk[p], disk[p].content)])

Undisturbed == scan.at = "done" /\ ~edited /\ ~scan.none

\* A snapshot lists every file, link and directory that matches, wherever it lies,
\* with its own content, if nobody changes the directory meanwhile.
SnapshotIsTree ==
  Undisturbed /\ IsSnapshot =>
    base = [Tree(scan.filter) EXCEPT !.dirs = IF scan.purpose = "listed" THEN {} ELSE @]

IsLink(p) ==
  disk[p].kind = "link" \/ \E s \in {prev, base} : p \in DOMAIN s.files /\ s.files[p].kind = "link"

\* A comparison, applied to the snapshot it was made against, gives the tree that is
\* there, whatever was replaced by a directory or the reverse, except for links,
\* execute bits, and how large files are hashed; no result means the same files.
DiffMakesTree ==
  scan.at = "done" /\ ~edited /\ ~IsSnapshot =>
    LET tree == Tree(scan.filter) IN
    /\ ~scan.none => base.dirs \cap scan.filter = tree.dirs
    /\ \A p \in scan.filter : ~IsLink(p) =>
         /\ p \in DOMAIN base.files <=> p \in DOMAIN tree.files
         /\ p \in DOMAIN tree.files => /\ base.files[p].size = tree.files[p].size
                                       /\ base.files[p].hashes[1][1] = disk[p].content

ParentsListed(s) == \A p \in s.dirs \cup DOMAIN s.files : Len(p) > 1 => Front(p) \in s.dirs

\* The diff of two snapshots leads from the one to the other, but for directories
\* that should be gone, if the later one lists every parent.
DiffLeadsOver ==
  ParentsListed(base) =>
  LET there == ApplyDiffs(prev, <<ComputeDiff(prev, base, FALSE, FALSE)>>) IN
  there.files = base.files /\ base.dirs \subseteq there.dirs

\* What is written to a file or to S3 is what is read back, also when a name looks
\* like a reference, as long as every directory is listed.
EncodingKeeps ==
  ParentsListed(base) =>
    LET back == Decode(Encode(ListOf(base.dirs), base.files)) IN
    /\ {d.path : d \in ToSet(back.dirs)} = base.dirs
    /\ back.files = [p \in DOMAIN base.files |-> Spelled(base.files[p])]

\* Merging and composing snapshots are one thing: the last of equal paths wins.
MergeIsCompose == Merge(<<prev, base>>) = Compose(prev, base)

\* A snapshot under a root is found again by its root: no file is lost by detecting
\* the root, cutting it off and putting it on again.
PartitionKeepsFiles ==
  LET absolute == Join(base, <<"r">>)
      parts    == Partition(absolute) IN
  DOMAIN base.files # {} =>
    /\ Subtree(absolute, <<"r">>) = base
    /\ ToRelative(ToAbsolute(base, <<"r">>), <<"r">>) = base
    /\ Join(parts[1].part, parts[1].root).files = absolute.files

\* What the scanner writes is valid, but for links at the top that lead up and back.
BuiltIsValid ==
  (\A p \in DOMAIN base.files : base.files[p].kind = "link" => base.files[p].target # "up") =>
    ValidSnapshot(base, ChunkSize)

\* Statements that do not hold (README, section Divergences).

\* A scanner that was used before sees the directory as it is.
ReuseSeesChanges == scan.at = "done" /\ scan.purpose = "snapshot" /\ ~scan.none /\
                    scan.filter = Paths => base.dirs = Tree(Paths).dirs

\* The size in an entry is that of the content its hash is of.
SizeFitsHash ==
  \A p \in DOMAIN base.files : base.files[p].kind = "file" =>
    base.files[p].size = SizeOf[base.files[p].hashes[1][1]]

\* No result means that nothing has changed.
NoneIsNoChange == scan.at = "done" /\ ~edited /\ scan.none /\ ~IsSnapshot =>
                    base.dirs \cap scan.filter = Tree(scan.filter).dirs

\* A comparison sees what became executable.
DiffSeesChmod ==
  Undisturbed => \A p \in scan.filter : disk[p].kind = "file" =>
                   base.files[p].runnable = disk[p].runnable

\* A comparison sees links.
DiffSeesLinks == Undisturbed => DOMAIN base.files \cap scan.filter = DOMAIN Tree(scan.filter).files

\* Directories that are gone from the second snapshot are gone from the result.
DiffDropsDirs == ApplyDiffs(prev, <<ComputeDiff(prev, base, FALSE, FALSE)>>).dirs = base.dirs

\* Any manifest is read back as it was written.
AnyEncodingKeeps ==
  Decode(Encode(ListOf(base.dirs), base.files)).files = [p \in DOMAIN base.files |-> Spelled(base.files[p])]

\* Filtering keeps no directory without files.
FilterKeepsParents ==
  \A p \in DOMAIN base.files : \A d \in Filter(base, {p}).dirs : IsBelow(p, d)

\* What composing two snapshots gives is a tree.
ComposedIsTree == LET both == Compose(prev, base) IN both.dirs \cap DOMAIN both.files = {}

\* All that the scanner writes is valid.
AllBuiltIsValid == ValidSnapshot(base, ChunkSize)
=============================================================================
