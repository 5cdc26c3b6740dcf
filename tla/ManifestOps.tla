------------------------------ MODULE ManifestOps ------------------------------
(***************************************************************************)
(* Manifests and the operations on them (crates/model).  A path is a       *)
(* sequence of names; what the operations do with the text of a path is    *)
(* told by BeginsWith and Dollar.                                          *)
(***************************************************************************)
EXTENDS Naturals, Sequences, SequencesExt, FiniteSets, FiniteSetsExt, Functions

CONSTANTS
  BeginsWith,   \* pairs of names: the text of the first begins that of the second
  Dollar,       \* names of the form $N, in the order of N
  Targets       \* what a link's target is named by -> the text of it, as a path

Deleted    == [kind |-> "deleted"]
NoManifest == [dirs |-> << >>, files |-> << >>]
BadPath    == <<"bad reference">>

\* A snapshot has a set of directories; a diff a list of those it adds and removes.
Snapshot(dirs, files) == [dirs |-> dirs, files |-> files]
Diff(added, removed, files) ==
  [dirs  |-> SetToSeq({[path |-> d, deleted |-> FALSE] : d \in added})
               \o SetToSeq({[path |-> d, deleted |-> TRUE] : d \in removed}),
   files |-> files]

Restricted(f, S) == [p \in DOMAIN f \cap S |-> f[p]]
IsBelow(p, d) == IsStrictPrefix(d, p)

\* The text of d begins that of p, and is shorter: d/x, but also the sibling dd.
TextIsBelow(p, d) ==
  \/ IsBelow(p, d)
  \/ /\ d # << >> /\ Len(p) >= Len(d)
     /\ Front(d) = SubSeq(p, 1, Len(d) - 1)
     /\ <<Last(d), p[Len(d)]>> \in BeginsWith

-----------------------------------------------------------------------------
(* compose.rs *)

\* Later manifests override earlier ones.
Compose(older, newer) == Snapshot(older.dirs \cup newer.dirs, newer.files @@ older.files)

\* delete_dir: the node goes, with everything below it, and a file of that name.
DeleteDir(s, d) ==
  Snapshot({p \in s.dirs : ~IsPrefix(d, p)},
           Restricted(s.files, {p \in DOMAIN s.files : ~IsPrefix(d, p)}))

\* Mutation: the files first.
ApplyDiff_FilesFirst(s, d) ==
  LET files == d.files @@ s.files IN
  FoldLeft(LAMBDA u, e : IF e.deleted THEN DeleteDir(u, e.path)
                         ELSE Snapshot(u.dirs \cup {e.path}, u.files),
           Snapshot(s.dirs, Restricted(files, {p \in DOMAIN files : files[p] # Deleted})), d.dirs)

\* Directories in the order of the list; then files.
ApplyDiff(s, d) ==
  LET t     == FoldLeft(LAMBDA u, e : IF e.deleted THEN DeleteDir(u, e.path)
                                      ELSE Snapshot(u.dirs \cup {e.path}, u.files), s, d.dirs)
      files == d.files @@ t.files IN
  Snapshot(t.dirs, Restricted(files, {p \in DOMAIN files : files[p] # Deleted}))

ApplyDiffs(s, diffs) == FoldLeft(ApplyDiff, s, diffs)

-----------------------------------------------------------------------------
(* diff.rs of the model: from snapshot to snapshot *)

Near(a, b) == a <= b + 1 /\ b <= a + 1

EntriesDiffer(p, c, ignoreHashes, preserveRunnable) ==
  \/ p.kind # c.kind
  \/ p.kind = "link" /\ p.target # c.target
  \/ p.kind = "file" /\ \/ p.size # c.size
                        \/ ~Near(p.mtime, c.mtime)
                        \/ ~ignoreHashes /\ p.hashes # c.hashes
                        \/ ~preserveRunnable /\ p.runnable # c.runnable

\* A directory is removed unless the text of its name begins that of a file.
ComputeDiff(parent, current, ignoreHashes, preserveRunnable) ==
  LET pf == parent.files
      cf == current.files
      changed == {p \in DOMAIN cf : p \in DOMAIN pf =>
                    EntriesDiffer(pf[p], cf[p], ignoreHashes, preserveRunnable)} IN
  Diff(current.dirs \ parent.dirs,
       {d \in parent.dirs \ current.dirs : ~\E p \in DOMAIN cf : TextIsBelow(p, d)},
       [p \in changed \cup (DOMAIN pf \ DOMAIN cf) |-> IF p \in changed THEN cf[p] ELSE Deleted])

-----------------------------------------------------------------------------
(* merge.rs: the last of equal paths *)

MergeFiles(newer, older) == newer @@ older

Merge(manifests) ==
  FoldLeft(LAMBDA m, n : Snapshot(m.dirs \cup n.dirs, MergeFiles(n.files, m.files)),
           Head(manifests), Tail(manifests))

\* Mutation: in the order given.
MergeChronologically_AsListed(stamped) == Merge([i \in DOMAIN stamped |-> stamped[i][1]])

\* stamped: sequence of <<manifest, seconds>>; a stable sort.
MergeChronologically(stamped) ==
  LET order == SetToSortSeq(DOMAIN stamped, LAMBDA i, j :
                 \/ stamped[i][2] < stamped[j][2]
                 \/ stamped[i][2] = stamped[j][2] /\ i < j) IN
  Merge([i \in DOMAIN order |-> stamped[order[i]][1]])

-----------------------------------------------------------------------------
(* filter.rs, subtree.rs, join.rs, partition.rs *)

\* Directories stay whose name begins that of a file that stays.
Filter(s, kept) ==
  LET files == Restricted(s.files, kept) IN
  Snapshot({d \in s.dirs : \E p \in DOMAIN files : TextIsBelow(p, d)}, files)

\* The entries of DOMAIN to, each under the path `to` gives it.
Rebased(s, to) ==
  LET inside == DOMAIN s.files \cap DOMAIN to IN
  Snapshot({to[d] : d \in s.dirs \cap DOMAIN to},
           [q \in {to[p] : p \in inside} |-> s.files[CHOOSE p \in inside : to[p] = q]])

Entries(s) == s.dirs \cup DOMAIN s.files

Subtree(s, prefix) ==
  Rebased(s, [p \in {q \in Entries(s) : IsBelow(q, prefix)} |-> SubSeq(p, Len(prefix) + 1, Len(p))])

Join(s, prefix) == Rebased(s, [p \in Entries(s) |-> prefix \o p])

\* The typed manifests: to_absolute, and to_relative, which leaves what lies elsewhere.
ToAbsolute(s, root) == Rebased(s, [p \in Entries(s) |-> root \o p])
ToRelative(s, root) ==
  Rebased(s, [p \in Entries(s) |->
                IF IsBelow(p, root) THEN SubSeq(p, Len(root) + 1, Len(p)) ELSE p])

\* Mutation: the text of a single file is its own root.
DetectRoot_Whole(files) ==
  LET first == CHOOSE p \in files : TRUE
      n     == Max({k \in 0 .. Len(first) :
                 \A p \in files : Len(p) >= k /\ SubSeq(p, 1, k) = SubSeq(first, 1, k)}) IN
  SubSeq(first, 1, n)

\* The longest common prefix of the files' texts, cut at its last slash.
DetectRoot(files) ==
  LET first == CHOOSE p \in files : TRUE
      n     == Max({k \in 0 .. Len(first) - 1 :
                 \A p \in files : Len(p) > k /\ SubSeq(p, 1, k) = SubSeq(first, 1, k)}) IN
  SubSeq(first, 1, n)

ExtractPartition(s, root) == Subtree(s, root)

\* One partition when there are files, none otherwise; directories outside are lost.
Partition(s) ==
  IF DOMAIN s.files = {} THEN << >>
  ELSE LET root == DetectRoot(DOMAIN s.files) IN <<[root |-> root, part |-> ExtractPartition(s, root)]>>

-----------------------------------------------------------------------------
(* encode.rs, decode.rs: a path whose directory is listed is written as $N/name *)

\* Sorted, so that a directory follows its parent.
Sorted(dirs) == SetToSortSeq(dirs, LAMBDA d, e : Len(d.path) < Len(e.path))
ListOf(dirs) == {[path |-> d, deleted |-> FALSE] : d \in dirs}

EncodePath(p, order) ==
  IF Len(p) > 1 /\ \E i \in DOMAIN order : order[i].path = Front(p)
    THEN <<Dollar[CHOOSE i \in DOMAIN order : order[i].path = Front(p)], Last(p)>> ELSE p

\* Of an entry only a link's target is a path; relative to the link or not, it is
\* encoded as the paths below the root are.
Spelled(f) == IF f.kind = "link" THEN [f EXCEPT !.target = Targets[@]] ELSE f
EncodeEntry(f, order) ==
  IF f.kind = "link" THEN [f EXCEPT !.target = EncodePath(Targets[@], order)] ELSE f

Encode(dirs, files) ==
  LET order == Sorted(dirs) IN
  [dirs  |-> [i \in DOMAIN order |-> [order[i] EXCEPT !.path = EncodePath(@, order)]],
   files |-> {<<EncodePath(p, order), EncodeEntry(files[p], order)>> : p \in DOMAIN files}]

\* Any path that begins with $N/ is taken for a reference.
DecodePath(p, order) ==
  IF Len(p) > 1 /\ p[1] \in ToSet(Dollar)
    THEN LET i == CHOOSE j \in DOMAIN Dollar : Dollar[j] = p[1] IN
         IF i \in DOMAIN order THEN order[i] \o Tail(p) ELSE BadPath
    ELSE p

DecodeEntry(f, order) ==
  IF f.kind = "link" THEN [f EXCEPT !.target = DecodePath(@, order)] ELSE f

DirIndex(dirs) == FoldLeft(LAMBDA index, d : Append(index, DecodePath(d.path, index)), << >>, dirs)

\* What the text stands for; one bad reference spoils all.
Decode(text) ==
  LET index == DirIndex(text.dirs)
      files == [p \in {DecodePath(f[1], index) : f \in text.files} |->
                  LET f == CHOOSE g \in text.files : DecodePath(g[1], index) = p IN DecodeEntry(f[2], index)] IN
  IF \/ BadPath \in ToSet(index) \cup DOMAIN files
     \/ \E p \in DOMAIN files : files[p].kind = "link" /\ files[p].target = BadPath THEN NoManifest
  ELSE [dirs |-> [i \in DOMAIN index |-> [text.dirs[i] EXCEPT !.path = index[i]]], files |-> files]

-----------------------------------------------------------------------------
(* v2025_12.rs: validate *)

\* Chunked exactly when it is large, with as many chunks as its size asks for; a
\* link at the top must not begin with "..".
ValidEntry(p, f, ChunkSize) ==
  /\ f.kind = "link" => ~(Len(p) = 1 /\ f.target = "up")
  /\ f.kind = "file" /\ f.chunked =>
       f.size > ChunkSize /\ Len(f.hashes) = (f.size + ChunkSize - 1) \div ChunkSize

ValidSnapshot(s, ChunkSize) ==
  \A p \in DOMAIN s.files : s.files[p] # Deleted /\ ValidEntry(p, s.files[p], ChunkSize)
=============================================================================
