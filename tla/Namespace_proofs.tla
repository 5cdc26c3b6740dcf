-------------------------- MODULE Namespace_proofs --------------------------
(***************************************************************************)
(* Proofs about Namespace, for every set of names, every manifest, every   *)
(* depth and every number of new files and directories:                    *)
(*                                                                         *)
(*  - TreeCorrect: the three maps of the inode table, the listings, the    *)
(*    lookups and the files that were made describe one tree;              *)
(*  - RecordsCorrect: the recorded changes lead from the manifest to that  *)
(*    tree, and what was answered ok has been done.                        *)
(*                                                                         *)
(* The invariant TreeInv says how the layers fit together, one part per    *)
(* layer.  It does not mention the walk of a path, which the handlers'     *)
(* guards and the properties are about: At says, without recursion, what a *)
(* path leads to, and WalkIsAt that the walk leads there.  That is proved  *)
(* by induction over paths, which comes down to the fact that finite sets  *)
(* are well ordered by inclusion.                                          *)
(***************************************************************************)
EXTENDS Namespace, FiniteSetTheorems, SequenceTheorems, WellFoundedInduction, TLAPS

\* The table: every inode but the root is in a directory, under its own name.
TableInv ==
  /\ next_id \in DirIds /\ next_file \in Nat \ {0}
  /\ Root \in DOMAIN inodes /\ inodes[Root] = RootEntry
  /\ \A i \in DOMAIN inodes : i \in TableIds /\ i < next_id /\ inodes[i] \in Entries
  /\ \A i \in DOMAIN inodes \ {Root} :
       /\ inodes[i].path # <<>>
       /\ IsDir(inodes[i].parent) /\ inodes[inodes[i].parent].path = Front(inodes[i].path)

\* The index by path leads to every inode, and to nothing else.
IndexInv ==
  /\ \A i \in DOMAIN inodes : inodes[i].path \in DOMAIN path_index /\ path_index[inodes[i].path] = i
  /\ \A p \in DOMAIN path_index : path_index[p] \in DOMAIN inodes /\ inodes[path_index[p]].path = p

\* So do the children of the directories.
ChildInv ==
  /\ DOMAIN children = {i \in DOMAIN inodes : IsDir(i)}
  /\ \A d \in DOMAIN children : \A n \in DOMAIN children[d] :
       /\ n \in Names /\ children[d][n] \in DOMAIN inodes \ {Root}
       /\ inodes[children[d][n]].parent = d /\ Last(inodes[children[d][n]].path) = n
  /\ \A i \in DOMAIN inodes \ {Root} :
       LET d == inodes[i].parent
           n == Last(inodes[i].path)
       IN n \in DOMAIN children[d] /\ children[d][n] = i

\* New directories are in the table; deleted ones are not, and their paths are free.
DirtyDirInv ==
  /\ Root \notin DOMAIN dirty_dirs
  /\ \A i \in DOMAIN dirty_dirs :
       i \in TableIds /\ i < next_id /\ dirty_dirs[i] \in [path : Paths, state : {"New", "Deleted"}]
  /\ \A i \in DOMAIN dirty_dirs :
       DirIs(i, "New") => IsDir(i) /\ inodes[i].path = dirty_dirs[i].path
  /\ \A i \in DOMAIN dirty_dirs :
       DirIs(i, "Deleted") => i \notin DOMAIN inodes /\ dirty_dirs[i].path \notin DOMAIN path_index
  /\ \A i, j \in DOMAIN dirty_dirs :
       DirIs(i, "Deleted") /\ DirIs(j, "Deleted") /\ dirty_dirs[i].path = dirty_dirs[j].path => i = j

\* New files are in a directory, under a path that is free and that no other has;
\* deleted files are those of the manifest, and stay in the table.
NewFile(i) ==
  /\ \E n \in Nat \ {0} : n < next_file /\ i = FirstFileId + n
  /\ dirty_files[i].path # <<>> /\ dirty_files[i].path \notin DOMAIN path_index
  /\ IsDir(dirty_files[i].parent)
  /\ inodes[dirty_files[i].parent].path = Front(dirty_files[i].path)

DirtyFileInv ==
  /\ \A i \in DOMAIN dirty_files :
       /\ dirty_files[i] \in [path : Paths, parent : TableIds, state : {"New", "Deleted"}]
       /\ FileIs(i, "New") => NewFile(i)
       /\ FileIs(i, "Deleted") =>
            i \in DOMAIN inodes /\ inodes[i].kind = "file" /\ dirty_files[i].path = inodes[i].path
  /\ \A i, j \in DOMAIN dirty_files :
       FileIs(i, "New") /\ FileIs(j, "New") /\ dirty_files[i].path = dirty_files[j].path => i = j

TreeInv == TableInv /\ IndexInv /\ ChildInv /\ DirtyDirInv /\ DirtyFileInv

-----------------------------------------------------------------------------
(* Induction, and paths *)

\* A set of numbers that is not empty has a least one.
LEMMA LeastNumber ==
  ASSUME NEW T, T \subseteq Nat, T # {}
  PROVE  \E n \in T : \A m \in T : n <= m
<1> DEFINE F == {1 .. n : n \in T}
<1>1. IsWellFoundedOn(StrictSubsetOrdering(Nat), FiniteSubsetsOf(Nat))
  BY FS_StrictSubsetOrderingWellFounded
<1>2. F \subseteq FiniteSubsetsOf(Nat) /\ F # {}
  <2>1. \A n \in Nat : IsFiniteSet(1 .. n) /\ 1 .. n \subseteq Nat
    BY FS_Interval
  <2> QED
    BY <2>1 DEF FiniteSubsetsOf
<1>3. PICK x \in F : \A y \in F : ~(<<y, x>> \in StrictSubsetOrdering(Nat))
  BY <1>1, <1>2, WFMin
<1>4. PICK n \in T : x = 1 .. n
  OBVIOUS
<1>5. ASSUME NEW m \in T, m < n PROVE FALSE
  <2>1. 1 .. m \in F /\ 1 .. m \subseteq 1 .. n /\ n \in 1 .. n /\ n \notin 1 .. m
    BY <1>5
  <2>2. 1 .. m \in SUBSET Nat /\ 1 .. n \in SUBSET Nat /\ 1 .. m # 1 .. n
    BY <2>1
  <2>3. <<1 .. m, 1 .. n>> \in StrictSubsetOrdering(Nat)
    BY <2>1, <2>2 DEF StrictSubsetOrdering
  <2> QED
    BY <1>3, <1>4, <2>1, <2>3
<1> QED
  BY <1>4, <1>5

\* Paths are sequences of names that are not too long.
LEMMA PathsAreSequences ==
  /\ \A p \in Paths : p \in Seq(Names) /\ Len(p) \in 0 .. MaxDepth
  /\ \A p \in Seq(Names) : Len(p) <= MaxDepth => p \in Paths
<1>1. ASSUME NEW p \in Paths PROVE p \in Seq(Names) /\ Len(p) \in 0 .. MaxDepth
  <2>1. PICK n \in 0 .. MaxDepth : p \in [1 .. n -> Names]
    BY DEF Paths
  <2>2. n \in Nat
    BY BoundsAssumption
  <2>3. p \in Seq(Names) /\ Len(p) = n
    BY <2>1, <2>2
  <2> QED
    BY <2>3
<1>2. ASSUME NEW p \in Seq(Names), Len(p) <= MaxDepth PROVE p \in Paths
  <2>1. Len(p) \in Nat /\ p \in [1 .. Len(p) -> Names]
    OBVIOUS
  <2>2. Len(p) \in 0 .. MaxDepth
    BY <1>2, <2>1, BoundsAssumption
  <2> QED
    BY <2>1, <2>2 DEF Paths
<1> QED
  BY <1>1, <1>2

\* A path and a name make a longer path.
LEMMA Longer ==
  ASSUME NEW p \in Paths, NEW name \in Names
  PROVE  /\ Append(p, name) # <<>>
         /\ Len(p) < MaxDepth => Append(p, name) \in Paths
         /\ Front(Append(p, name)) = p /\ Last(Append(p, name)) = name
<1>1. p \in Seq(Names) /\ Len(p) \in Nat
  BY PathsAreSequences
<1>2. /\ Append(p, name) \in Seq(Names) /\ Len(Append(p, name)) = Len(p) + 1
      /\ Append(p, name)[Len(p) + 1] = name /\ \A i \in 1 .. Len(p) : Append(p, name)[i] = p[i]
  BY <1>1
<1>3. ASSUME Len(p) < MaxDepth PROVE Append(p, name) \in Paths
  <2>1. Len(Append(p, name)) <= MaxDepth
    BY <1>1, <1>2, <1>3, BoundsAssumption
  <2> QED
    BY <1>2, <2>1, PathsAreSequences
<1>4. Append(p, name) # <<>>
  BY <1>1, <1>2
<1>5. SubSeq(Append(p, name), 1, Len(p)) = p
  <2>1. \A i \in 1 .. Len(p) : Append(p, name)[i] \in Names
    BY <1>1, <1>2
  <2>2. /\ SubSeq(Append(p, name), 1, Len(p)) \in Seq(Names)
        /\ Len(SubSeq(Append(p, name), 1, Len(p))) = Len(p)
        /\ \A i \in 1 .. Len(p) : SubSeq(Append(p, name), 1, Len(p))[i] = p[i]
    BY <1>1, <1>2, <2>1, SubSeqProperties
  <2> QED
    BY <1>1, <2>2, SeqEqual
<1> QED
  BY <1>1, <1>2, <1>3, <1>4, <1>5 DEF Front, Last

\* A path that is not the root's is one of a parent and a name.
LEMMA Shorter ==
  ASSUME NEW p \in Paths, p # <<>>
  PROVE  /\ Front(p) \in Paths /\ Last(p) \in Names /\ Append(Front(p), Last(p)) = p
         /\ Len(p) \in Nat /\ Len(Front(p)) = Len(p) - 1 /\ Len(Front(p)) < MaxDepth
<1>1. p \in Seq(Names) /\ Len(p) \in 0 .. MaxDepth
  BY PathsAreSequences
<1>2. Len(p) \in Nat \ {0}
  BY <1>1, BoundsAssumption
<1>3. /\ SubSeq(p, 1, Len(p) - 1) \in Seq(Names) /\ Len(SubSeq(p, 1, Len(p) - 1)) = Len(p) - 1
      /\ p[Len(p)] \in Names /\ \A i \in 1 .. Len(p) - 1 : SubSeq(p, 1, Len(p) - 1)[i] = p[i]
  <2>1. p[Len(p)] \in Names /\ \A i \in 1 .. Len(p) - 1 : p[i] \in Names
    BY <1>1, <1>2
  <2> QED
    <3>1. Len(p) - 1 \in Int /\ 1 \in Int /\ (1 <= Len(p) - 1 \/ Len(p) - 1 = 0)
      BY <1>2
    <3>2. /\ SubSeq(p, 1, Len(p) - 1) \in Seq(Names)
          /\ Len(SubSeq(p, 1, Len(p) - 1)) = IF 1 <= Len(p) - 1 THEN Len(p) - 1 - 1 + 1 ELSE 0
          /\ \A i \in 1 .. Len(p) - 1 - 1 + 1 : SubSeq(p, 1, Len(p) - 1)[i] = p[1 + i - 1]
      BY <2>1, <3>1, SubSeqProperties
    <3> QED
      BY <1>2, <2>1, <3>1, <3>2
<1>4. Append(SubSeq(p, 1, Len(p) - 1), p[Len(p)]) = p
  <2> DEFINE f == SubSeq(p, 1, Len(p) - 1)
  <2>1. f \in Seq(Names) /\ Len(f) = Len(p) - 1 /\ p[Len(p)] \in Names
    BY <1>3
  <2>2. /\ Append(f, p[Len(p)]) \in Seq(Names) /\ Len(Append(f, p[Len(p)])) = Len(p)
        /\ Append(f, p[Len(p)])[Len(p)] = p[Len(p)]
        /\ \A i \in 1 .. Len(p) - 1 : Append(f, p[Len(p)])[i] = f[i]
    <3> HIDE DEF f
    <3> QED
      BY <1>2, <2>1, AppendProperties
  <2>3. \A i \in 1 .. Len(p) : Append(f, p[Len(p)])[i] = p[i]
    BY <1>2, <1>3, <2>2
  <2> QED
    BY <1>1, <2>2, <2>3, SeqEqual
<1>5. Front(p) \in Paths
  <2>1. Front(p) \in Seq(Names) /\ Len(Front(p)) <= MaxDepth
    BY <1>1, <1>2, <1>3, BoundsAssumption DEF Front
  <2> QED
    BY <2>1, PathsAreSequences
<1> QED
  BY <1>1, <1>2, <1>3, <1>4, <1>5, BoundsAssumption DEF Front, Last

\* The parent's path is a prefix.
LEMMA ParentIsPrefix ==
  ASSUME NEW p \in Paths, p # <<>>
  PROVE  IsPrefix(Front(p), p)
<1>1. p \in Seq(Names) /\ Len(p) \in Nat \ {0} /\ Len(Front(p)) = Len(p) - 1
  BY PathsAreSequences, Shorter
<1>2. /\ Front(p) = SubSeq(p, 1, Len(p) - 1)
      /\ SubSeq(Front(p), 1, Len(p) - 1) = SubSeq(p, 1, Len(p) - 1)
  BY <1>1 DEF Front
<1> QED
  BY <1>1, <1>2 DEF IsPrefix

\* Induction over paths: what holds of the root, and of a path when it holds of
\* its parent's, holds of all.
LEMMA PathInduction ==
  ASSUME NEW S, <<>> \in S, \A p \in Paths : p # <<>> /\ Front(p) \in S => p \in S
  PROVE  Paths \subseteq S
<1> SUFFICES ASSUME NEW q \in Paths, q \notin S PROVE FALSE
  OBVIOUS
<1> DEFINE T == {Len(p) : p \in Paths \ S}
<1>1. T \subseteq Nat /\ T # {}
  BY PathsAreSequences
<1>2. PICK n \in T : \A m \in T : n <= m
  BY <1>1, LeastNumber
<1>3. PICK p \in Paths \ S : Len(p) = n
  OBVIOUS
<1>4. p # <<>>
  BY <1>3
<1>5. Front(p) \in Paths /\ Len(p) \in Nat /\ Len(Front(p)) = Len(p) - 1
  BY <1>4, Shorter
<1>6. Front(p) \in Paths \ S
  BY <1>3, <1>4, <1>5
<1>7. Len(Front(p)) \in T
  BY <1>6
<1> QED
  BY <1>2, <1>3, <1>5, <1>7

-----------------------------------------------------------------------------
(* What paths lead to *)

\* The inode, or the new file, of a path.
At(p) ==
  IF p \in DOMAIN path_index
    THEN IF FileIs(path_index[p], "Deleted") THEN {} ELSE {path_index[p]}
    ELSE {i \in DOMAIN dirty_files : FileIs(i, "New") /\ dirty_files[i].path = p}

\* Ids of the table and of new files are not the same.
LEMMA IdsAreApart ==
  /\ FirstNewId \in Nat /\ FirstNewId >= 2
  /\ \A i \in TableIds : i \in Nat \ {0} /\ i <= FirstFileId
  /\ \A n \in Nat \ {0} : FirstFileId + n \notin TableIds
<1>1. FirstNewId \in Nat /\ FirstNewId >= 2
  BY FS_CardinalityType, ManifestAssumption DEF FirstNewId
<1>2. FirstNewId + MaxNew <= FirstFileId /\ DOMAIN Manifest = 2 .. FirstNewId - 1
  BY ManifestAssumption
<1> QED
  BY <1>1, <1>2, BoundsAssumption DEF TableIds, DirIds, Root, FirstFileId

\* get_by_path answers what the index says.
LEMMA IndexFinds ==
  ASSUME TreeInv, NEW p
  PROVE  GetByPath(p) = IF p \in DOMAIN path_index THEN path_index[p] ELSE Nothing
BY DEF TreeInv, IndexInv, GetByPath

\* What the index leads to is an inode, and no path leads to Nothing.
LEMMA InodesAreSomething ==
  ASSUME TreeInv
  PROVE  \A p \in DOMAIN path_index : path_index[p] # Nothing /\ path_index[p] \in DOMAIN inodes
BY IdsAreApart DEF TreeInv, IndexInv, TableInv, Nothing

\* A new file is not in the table.
LEMMA NewFileIds ==
  ASSUME TreeInv, NEW i, NewFile(i)
  PROVE  i \notin TableIds
<1>1. PICK n \in Nat \ {0} : i = FirstFileId + n
  BY DEF NewFile
<1> QED
  BY <1>1, IdsAreApart

\* The new files, and the new directories, of a name in a directory.
LEMMA NamedFiles ==
  ASSUME NEW d, NEW n
  PROVE  Named(NewFiles(d), n) =
           {i \in DOMAIN dirty_files :
              FileIs(i, "New") /\ dirty_files[i].parent = d /\ Last(dirty_files[i].path) = n}
<1>1. ASSUME NEW i \in DOMAIN dirty_files, FileIs(i, "New"), dirty_files[i].parent = d,
             Last(dirty_files[i].path) = n
      PROVE  i \in Named(NewFiles(d), n)
  <2>1. <<Last(dirty_files[i].path), i>> \in NewFiles(d)
    BY <1>1 DEF NewFiles
  <2> QED
    BY <1>1, <2>1 DEF Named
<1>2. ASSUME NEW i \in Named(NewFiles(d), n)
      PROVE  /\ i \in DOMAIN dirty_files /\ FileIs(i, "New")
             /\ dirty_files[i].parent = d /\ Last(dirty_files[i].path) = n
  <2>1. PICK e \in NewFiles(d) : e[1] = n /\ i = e[2]
    BY <1>2 DEF Named
  <2> QED
    BY <2>1 DEF NewFiles
<1> QED
  BY <1>1, <1>2

\* So it is with the new directories.
LEMMA NamedDirs ==
  ASSUME NEW d, NEW n
  PROVE  Named(NewDirs(d), n) =
           {i \in DOMAIN dirty_dirs \cap DOMAIN inodes :
              DirIs(i, "New") /\ inodes[i].parent = d /\ Last(inodes[i].path) = n}
<1>1. ASSUME NEW i \in DOMAIN dirty_dirs \cap DOMAIN inodes, DirIs(i, "New"),
             inodes[i].parent = d, Last(inodes[i].path) = n
      PROVE  i \in Named(NewDirs(d), n)
  <2>1. <<Last(inodes[i].path), i>> \in NewDirs(d)
    BY <1>1 DEF NewDirs
  <2> QED
    BY <1>1, <2>1 DEF Named
<1>2. ASSUME NEW i \in Named(NewDirs(d), n)
      PROVE  /\ i \in DOMAIN dirty_dirs \cap DOMAIN inodes /\ DirIs(i, "New")
             /\ inodes[i].parent = d /\ Last(inodes[i].path) = n
  <2>1. PICK e \in NewDirs(d) : e[1] = n /\ i = e[2]
    BY <1>2 DEF Named
  <2> QED
    BY <2>1 DEF NewDirs
<1> QED
  BY <1>1, <1>2

\* A lookup in a directory finds what is at the path.
LEMMA LookupFinds ==
  ASSUME TreeInv, NEW d, IsDir(d), NEW n \in Names
  PROVE  Lookup(d, n) = At(Append(inodes[d].path, n))
<1> DEFINE p == Append(inodes[d].path, n)
<1>1. /\ inodes[d].path \in Paths /\ d \in DOMAIN inodes
      /\ p # <<>> /\ Front(p) = inodes[d].path /\ Last(p) = n
  BY Longer DEF TreeInv, TableInv, IsDir, Entries
<1> HIDE DEF p
<1>2. Lookup(d, n) =
        IF GetByPath(p) # Nothing
          THEN IF FileIs(GetByPath(p), "Deleted") \/ DirIs(GetByPath(p), "Deleted")
               THEN {} ELSE {GetByPath(p)}
          ELSE IF Named(NewFiles(d), n) # {} THEN Named(NewFiles(d), n) ELSE Named(NewDirs(d), n)
  BY <1>1 DEF Lookup, ParentPath, p
<1>3. CASE p \in DOMAIN path_index
  <2>1. GetByPath(p) = path_index[p] /\ path_index[p] # Nothing /\ path_index[p] \in DOMAIN inodes
    BY <1>3, IndexFinds, InodesAreSomething
  <2>2. ~DirIs(path_index[p], "Deleted")
    BY <2>1 DEF TreeInv, DirtyDirInv, DirIs
  <2> QED
    BY <1>2, <1>3, <2>1, <2>2 DEF At, p
<1>4. CASE p \notin DOMAIN path_index
  <2>1. GetByPath(p) = Nothing
    BY <1>4, IndexFinds
  <2>2. Named(NewDirs(d), n) = {}
    <3> SUFFICES ASSUME NEW i \in DOMAIN dirty_dirs \cap DOMAIN inodes,
                        inodes[i].parent = d, Last(inodes[i].path) = n, DirIs(i, "New")
                 PROVE  FALSE
      BY NamedDirs
    <3>1. i \in DOMAIN inodes \ {Root}
      BY DEF TreeInv, DirtyDirInv
    <3>2. /\ inodes[i].path # <<>> /\ inodes[i].path \in Paths
          /\ Front(inodes[i].path) = inodes[d].path
      BY <3>1 DEF TreeInv, TableInv, Entries
    <3>3. inodes[i].path = p
      BY <3>2, Shorter DEF p
    <3> QED
      BY <1>4, <3>1, <3>3 DEF TreeInv, IndexInv
  <2>3. Named(NewFiles(d), n) =
          {i \in DOMAIN dirty_files : FileIs(i, "New") /\ dirty_files[i].path = p}
    <3>1. ASSUME NEW i \in DOMAIN dirty_files, FileIs(i, "New")
          PROVE  dirty_files[i].parent = d /\ Last(dirty_files[i].path) = n <=> dirty_files[i].path = p
      <4>1. NewFile(i) /\ dirty_files[i].path \in Paths
        BY <3>1 DEF TreeInv, DirtyFileInv
      <4>2. /\ dirty_files[i].path # <<>> /\ dirty_files[i].parent \in DOMAIN inodes
            /\ inodes[dirty_files[i].parent].path = Front(dirty_files[i].path)
        BY <4>1 DEF NewFile, IsDir
      <4>3. CASE dirty_files[i].parent = d /\ Last(dirty_files[i].path) = n
        <5>1. Append(Front(dirty_files[i].path), Last(dirty_files[i].path)) = dirty_files[i].path
          BY <4>1, <4>2, Shorter
        <5> QED
          BY <4>2, <4>3, <5>1 DEF p
      <4>4. CASE dirty_files[i].path = p
        <5>1. inodes[dirty_files[i].parent].path = inodes[d].path
          BY <1>1, <4>2, <4>4
        <5>2. dirty_files[i].parent = d
          BY <1>1, <4>2, <5>1 DEF TreeInv, IndexInv
        <5> QED
          BY <1>1, <4>4, <5>2
      <4> QED
        BY <4>3, <4>4
    <3> QED
      BY <3>1, NamedFiles
  <2> QED
    BY <1>2, <1>4, <2>1, <2>2, <2>3 DEF At, p
<1> QED
  BY <1>3, <1>4

-----------------------------------------------------------------------------
(* The walk *)

\* What the root leads to.
LEMMA AtRoot ==
  ASSUME TreeInv
  PROVE  At(<<>>) = {Root} /\ <<>> \in Paths
<1>1. <<>> \in DOMAIN path_index /\ path_index[<<>>] = Root
  BY DEF TreeInv, TableInv, IndexInv, RootEntry
<1>2. ~FileIs(Root, "Deleted")
  BY DEF TreeInv, TableInv, DirtyFileInv, RootEntry, FileIs
<1>3. <<>> \in Paths
  <2>1. <<>> \in Seq(Names) /\ Len(<<>>) = 0 /\ 0 <= MaxDepth
    BY EmptySeq, BoundsAssumption
  <2> QED
    BY <2>1, PathsAreSequences
<1> QED
  BY <1>1, <1>2, <1>3 DEF At

\* What a path leads to has that path, and its parent is what the parent's path
\* leads to.
LEMMA AtPath ==
  ASSUME TreeInv, NEW p \in Paths, NEW i \in At(p)
  PROVE  /\ i \in DOMAIN inodes => inodes[i].path = p
         /\ p # <<>> => \E d \in At(Front(p)) : IsDir(d)
<1>1. CASE p \in DOMAIN path_index
  <2>1. i \in DOMAIN inodes /\ inodes[i].path = p
    BY <1>1 DEF At, TreeInv, IndexInv
  <2>2. ASSUME p # <<>> PROVE \E d \in At(Front(p)) : IsDir(d)
    <3> DEFINE d == inodes[i].parent
    <3>1. i # Root
      BY <2>1, <2>2 DEF TreeInv, TableInv, RootEntry
    <3>2. IsDir(d) /\ inodes[d].path = Front(p)
      BY <2>1, <3>1 DEF TreeInv, TableInv
    <3>3. Front(p) \in DOMAIN path_index /\ path_index[Front(p)] = d
      BY <3>2 DEF TreeInv, IndexInv, IsDir
    <3>4. ~FileIs(d, "Deleted")
      BY <3>2 DEF TreeInv, DirtyFileInv, IsDir, FileIs
    <3> QED
      BY <3>2, <3>3, <3>4 DEF At
  <2> QED
    BY <2>1, <2>2
<1>2. CASE p \notin DOMAIN path_index
  <2>1. /\ i \in DOMAIN dirty_files /\ FileIs(i, "New") /\ dirty_files[i].path = p
        /\ NewFile(i)
    BY <1>2 DEF At, TreeInv, DirtyFileInv
  <2>2. i \notin DOMAIN inodes
    BY <2>1, NewFileIds DEF TreeInv, TableInv
  <2> DEFINE d == dirty_files[i].parent
  <2>3. IsDir(d) /\ inodes[d].path = Front(p)
    BY <2>1 DEF NewFile
  <2>4. Front(p) \in DOMAIN path_index /\ path_index[Front(p)] = d
    BY <2>3 DEF TreeInv, IndexInv, IsDir
  <2>5. ~FileIs(d, "Deleted")
    BY <2>3 DEF TreeInv, DirtyFileInv, IsDir, FileIs
  <2> QED
    BY <2>2, <2>3, <2>4, <2>5 DEF At
<1> QED
  BY <1>1, <1>2

\* At solves the equation of the walk.
LEMMA AtIsAWalk ==
  ASSUME TreeInv, NEW p \in Paths, p # <<>>
  PROVE  At(p) = UNION {Lookup(d, Last(p)) : d \in {e \in At(Front(p)) : IsDir(e)}}
<1>0. /\ Front(p) \in Paths /\ Last(p) \in Names /\ Append(Front(p), Last(p)) = p
      /\ Len(Front(p)) < MaxDepth
  BY Shorter
<1>1. ASSUME NEW d \in At(Front(p)), IsDir(d) PROVE Lookup(d, Last(p)) = At(p)
  <2>1. inodes[d].path = Front(p)
    BY <1>0, <1>1, AtPath DEF IsDir
  <2> QED
    BY <1>0, <1>1, <2>1, LookupFinds
<1>2. \A i \in At(p) : \E d \in At(Front(p)) : IsDir(d)
  BY AtPath
<1> QED
  BY <1>1, <1>2

\* The equation of the walk has one solution, so the walk of a path leads where
\* the layers say.
LEMMA WalkIsAt ==
  ASSUME TreeInv
  PROVE  \A p \in Paths : Walk[p] = At(p)
<1> DEFINE Step(w, p) ==
             IF p = <<>> THEN {Root}
             ELSE UNION {Lookup(d, Last(p)) : d \in {e \in w[Front(p)] : IsDir(e)}}
           solution == [p \in Paths |-> At(p)]
           IsWalk(w) == w = [p \in Paths |-> Step(w, p)]
<1>1. Walk = CHOOSE w : IsWalk(w)
  BY DEF Walk
<1>2. IsWalk(solution)
  <2>1. ASSUME NEW p \in Paths PROVE At(p) = Step(solution, p)
    <3>1. CASE p = <<>>
      BY <3>1, AtRoot
    <3>2. CASE p # <<>>
      <4>1. solution[Front(p)] = At(Front(p))
        BY <3>2, Shorter
      <4> QED
        BY <3>2, <4>1, AtIsAWalk
    <3> QED
      BY <3>1, <3>2
  <2> QED
    BY <2>1
<1>3. IsWalk(Walk)
  <2> HIDE DEF IsWalk
  <2> QED
    BY <1>1, <1>2
<1>4. \A p \in Paths : Walk[p] = Step(Walk, p)
  BY <1>3
<1> DEFINE same == {p \in Paths : Walk[p] = At(p)}
<1>5. <<>> \in same
  BY <1>4, AtRoot
<1>6. ASSUME NEW p \in Paths, p # <<>>, Front(p) \in same PROVE p \in same
  <2>1. Walk[p] = Step(Walk, p) /\ Walk[Front(p)] = At(Front(p))
    BY <1>4, <1>6
  <2> QED
    BY <1>6, <2>1, AtIsAWalk
<1>7. Paths \subseteq same
  <2> HIDE DEF same
  <2> QED
    BY <1>5, <1>6, PathInduction
<1> QED
  BY <1>7

-----------------------------------------------------------------------------
(* The handlers *)

\* A map with one more entry.
LEMMA WithIs ==
  ASSUME NEW f, NEW x, NEW v
  PROVE  /\ DOMAIN With(f, x, v) = DOMAIN f \cup {x} /\ With(f, x, v)[x] = v
         /\ \A y \in DOMAIN f \ {x} : With(f, x, v)[y] = f[y]
BY DEF With

\* A map without one entry.
LEMMA WithoutIs ==
  ASSUME NEW f, NEW x
  PROVE  /\ DOMAIN Without(f, x) = DOMAIN f \ {x}
         /\ \A y \in DOMAIN f \ {x} : Without(f, x)[y] = f[y]
BY DEF Without, Restrict

\* Where a handler is called: with the directory that a path leads to.
LEMMA Called ==
  ASSUME TreeInv, NEW p \in Paths, NEW name \in Names, Len(p) < MaxDepth,
         NEW d \in Walk[p], IsDir(d)
  PROVE  /\ d \in DOMAIN inodes /\ d \in TableIds /\ d < next_id /\ d \in DOMAIN children
         /\ inodes[d].path = p /\ ParentPath(d) = p
         /\ Append(p, name) \in Paths /\ Append(p, name) # <<>>
         /\ Front(Append(p, name)) = p /\ Last(Append(p, name)) = name
         /\ Lookup(d, name) = At(Append(p, name))
<1>1. d \in At(p) /\ d \in DOMAIN inodes
  BY WalkIsAt DEF IsDir
<1>2. inodes[d].path = p
  BY <1>1, AtPath
<1>3. d \in TableIds /\ d < next_id /\ d \in DOMAIN children
  BY <1>1 DEF TreeInv, TableInv, ChildInv
<1>4. Lookup(d, name) = At(Append(p, name))
  BY <1>2, LookupFinds
<1> QED
  BY <1>1, <1>2, <1>3, <1>4, Longer DEF ParentPath

\* create keeps the invariant: the new file has an id and a path of its own.
LEMMA CreateKeeps ==
  ASSUME TreeInv, NEW p \in Paths, NEW name \in Names, Len(p) < MaxDepth,
         NEW d \in Walk[p], IsDir(d), Create(p, d, name)
  PROVE  TreeInv'
<1> PICK new, id, f : /\ new = Append(p, name) /\ id = FirstFileId + next_file
                     /\ f = [path |-> new, parent |-> d, state |-> "New"]
  OBVIOUS
<1>0. /\ d \in DOMAIN inodes /\ d \in TableIds /\ inodes[d].path = p /\ ParentPath(d) = p
      /\ new \in Paths /\ new # <<>> /\ Front(new) = p /\ Lookup(d, name) = At(new)
  BY Called
<1>1. UNCHANGED <<inodes, path_index, children, next_id, dirty_dirs>>
  BY DEF Create, table
<1>2. CASE UNCHANGED <<dirty_files, next_file>>
  BY <1>1, <1>2 DEF TreeInv, TableInv, IndexInv, ChildInv, DirtyDirInv, DirtyFileInv, NewFile,
    IsDir, DirIs, FileIs
<1>3. CASE /\ GetByPath(new) = Nothing /\ next_file' = next_file + 1
           /\ dirty_files' = With(dirty_files, id, f)
  <2>0. next_file \in Nat \ {0}
    BY DEF TreeInv, TableInv
  <2>1. /\ DOMAIN dirty_files' = DOMAIN dirty_files \cup {id} /\ dirty_files'[id] = f
        /\ \A i \in DOMAIN dirty_files \ {id} : dirty_files'[i] = dirty_files[i]
    BY <1>3 DEF With
  <2>2. new \notin DOMAIN path_index
    BY <1>3, IndexFinds, InodesAreSomething
  <2>3. \A i \in DOMAIN dirty_files : FileIs(i, "New") => dirty_files[i].path # new
    BY <1>0, <2>2 DEF At, Create
  <2>4. f.path = new /\ f.parent = d /\ f.state = "New"
      /\ f \in [path : Paths, parent : TableIds, state : {"New", "Deleted"}]
    BY <1>0
  <2>5. NewFile(id)'
    <3>1. next_file < next_file'
      BY <1>3, <2>0
    <3> QED
      BY <1>0, <1>1, <2>0, <2>1, <2>2, <2>4, <3>1 DEF NewFile, IsDir
  <2>6. ASSUME NEW i \in DOMAIN dirty_files', i # id
        PROVE  /\ i \in DOMAIN dirty_files /\ dirty_files'[i] = dirty_files[i]
               /\ \A s : FileIs(i, s)' <=> FileIs(i, s)
               /\ NewFile(i) => NewFile(i)'
    <3>1. i \in DOMAIN dirty_files /\ dirty_files'[i] = dirty_files[i]
      BY <2>1, <2>6
    <3>2. \A n \in Nat : n < next_file => n < next_file'
      BY <1>3, <2>0
    <3> QED
      BY <1>1, <2>1, <3>1, <3>2 DEF NewFile, IsDir, FileIs
  <2>7. DirtyFileInv'
    <3>1. ASSUME NEW i \in DOMAIN dirty_files'
          PROVE  /\ dirty_files'[i] \in [path : Paths, parent : TableIds, state : {"New", "Deleted"}]
                 /\ FileIs(i, "New")' => NewFile(i)'
                 /\ FileIs(i, "Deleted")' =>
                      /\ i \in DOMAIN inodes' /\ inodes'[i].kind = "file"
                      /\ dirty_files'[i].path = inodes'[i].path
      <4>1. CASE i = id
        BY <2>1, <2>4, <2>5, <4>1 DEF FileIs
      <4>2. CASE i # id
        BY <1>1, <2>6, <4>2 DEF TreeInv, DirtyFileInv
      <4> QED
        BY <4>1, <4>2
    <3>2. ASSUME NEW i \in DOMAIN dirty_files', NEW j \in DOMAIN dirty_files',
                 FileIs(i, "New")', FileIs(j, "New")', dirty_files'[i].path = dirty_files'[j].path
          PROVE  i = j
      <4>1. \A k \in DOMAIN dirty_files' : k # id /\ FileIs(k, "New")' => dirty_files'[k].path # new
        BY <2>3, <2>6
      <4> QED
        BY <2>1, <2>6, <3>2, <4>1 DEF TreeInv, DirtyFileInv
    <3> QED
      BY <3>1, <3>2 DEF DirtyFileInv
  <2>8. TableInv' /\ IndexInv' /\ ChildInv' /\ DirtyDirInv'
    BY <1>1, <1>3, <2>0 DEF TreeInv, TableInv, IndexInv, ChildInv, DirtyDirInv, IsDir, DirIs
  <2> QED
    BY <2>7, <2>8 DEF TreeInv
<1> QED
  BY <1>0, <1>2, <1>3 DEF Create

\* A directory added to the table: the three maps go on to describe one tree.
LEMMA AddDirectoryKeeps ==
  ASSUME TreeInv, NEW d \in DOMAIN inodes, IsDir(d), NEW new \in Paths \ {<<>>},
         Front(new) = inodes[d].path, new \notin DOMAIN path_index,
         next_id < FirstNewId + MaxNew, next_file' = next_file, AddDirectory(new, d)
  PROVE  /\ TableInv' /\ IndexInv' /\ ChildInv'
         /\ next_id \notin DOMAIN inodes /\ next_id \in TableIds /\ next_id < next_id'
         /\ DOMAIN inodes' = DOMAIN inodes \cup {next_id}
         /\ inodes'[next_id] = [path |-> new, kind |-> "dir", parent |-> d]
         /\ \A i \in DOMAIN inodes : inodes'[i] = inodes[i]
         /\ DOMAIN path_index' = DOMAIN path_index \cup {new}
<1> PICK id, e, n : /\ id = next_id /\ e = [path |-> new, kind |-> "dir", parent |-> d]
                    /\ n = Last(new)
  OBVIOUS
<1>1. /\ id \in TableIds /\ id \in Nat /\ id # Root /\ id \notin DOMAIN inodes
      /\ next_id' = id + 1 /\ next_id' \in DirIds
  BY IdsAreApart, BoundsAssumption DEF TreeInv, TableInv, AddDirectory, DirIds, TableIds, Root
<1>2. /\ DOMAIN inodes' = DOMAIN inodes \cup {id} /\ inodes'[id] = e
      /\ \A i \in DOMAIN inodes : inodes'[i] = inodes[i]
  BY <1>1 DEF AddDirectory, With
<1>3. /\ DOMAIN path_index' = DOMAIN path_index \cup {new} /\ path_index'[new] = id
      /\ \A p \in DOMAIN path_index : path_index'[p] = path_index[p]
  BY DEF AddDirectory, With
<1>4. e.path = new /\ e.kind = "dir" /\ e.parent = d /\ e \in Entries
  <2>1. d \in TableIds
    BY DEF TreeInv, TableInv
  <2> QED
    BY <2>1 DEF Entries, Kinds
<1>5. \A i \in DOMAIN inodes : IsDir(i)' <=> IsDir(i)
  BY <1>1, <1>2 DEF IsDir
<1>6. IsDir(id)'
  BY <1>2, <1>4 DEF IsDir
<1>7. TableInv'
  <2>1. Root \in DOMAIN inodes' /\ inodes'[Root] = RootEntry
    BY <1>2 DEF TreeInv, TableInv
  <2>2. ASSUME NEW i \in DOMAIN inodes'
        PROVE  i \in TableIds /\ i < next_id' /\ inodes'[i] \in Entries
    <3>1. \A j \in DOMAIN inodes : j \in TableIds /\ j < id /\ inodes[j] \in Entries
      BY DEF TreeInv, TableInv
    <3>2. CASE i = id
      BY <1>1, <1>2, <1>4, <3>2
    <3>3. CASE i # id
      <4>1. i \in DOMAIN inodes /\ inodes'[i] = inodes[i]
        BY <1>2, <3>3
      <4>2. i \in Nat /\ i < id
        BY <3>1, <4>1, IdsAreApart
      <4> QED
        BY <1>1, <3>1, <4>1, <4>2
    <3> QED
      BY <3>2, <3>3
  <2>3. ASSUME NEW i \in DOMAIN inodes' \ {Root}
        PROVE  /\ inodes'[i].path # <<>>
               /\ inodes'[i].parent \in DOMAIN inodes /\ IsDir(inodes'[i].parent)
               /\ inodes[inodes'[i].parent].path = Front(inodes'[i].path)
    <3>1. CASE i = id
      BY <1>2, <1>4, <3>1
    <3>2. CASE i # id
      BY <1>2, <3>2 DEF TreeInv, TableInv, IsDir
    <3> QED
      BY <3>1, <3>2
  <2>4. next_id' \in DirIds /\ next_file' \in Nat \ {0}
    BY <1>1 DEF TreeInv, TableInv
  <2> QED
    BY <1>2, <1>5, <2>1, <2>2, <2>3, <2>4 DEF TableInv, IsDir
<1>8. IndexInv'
  BY <1>1, <1>2, <1>3, <1>4 DEF TreeInv, IndexInv
<1>9. n \notin DOMAIN children[d]
  <2> SUFFICES ASSUME n \in DOMAIN children[d] PROVE FALSE
    OBVIOUS
  <2> PICK i : i = children[d][n]
    OBVIOUS
  <2>1. d \in DOMAIN children
    BY DEF TreeInv, ChildInv
  <2>2. i \in DOMAIN inodes \ {Root} /\ inodes[i].parent = d /\ Last(inodes[i].path) = n
    BY <2>1 DEF TreeInv, ChildInv
  <2>3. inodes[i].path \in Paths \ {<<>>} /\ Front(inodes[i].path) = inodes[d].path
    BY <2>2 DEF TreeInv, TableInv, Entries
  <2>4. inodes[i].path = new
    BY <2>2, <2>3, Shorter
  <2> QED
    BY <2>2, <2>4 DEF TreeInv, IndexInv
<1>10. /\ DOMAIN children' = DOMAIN children \cup {id} /\ DOMAIN children'[id] = {}
       /\ DOMAIN children'[d] = DOMAIN children[d] \cup {n} /\ children'[d][n] = id
       /\ \A m \in DOMAIN children[d] : children'[d][m] = children[d][m]
       /\ \A c \in DOMAIN children \ {d} : children'[c] = children[c]
  <2>1. d \in DOMAIN children /\ id \notin DOMAIN children
    BY <1>1 DEF TreeInv, ChildInv
  <2> PICK ch, own : own = With(children[d], n, id) /\ ch = [children EXCEPT ![d] = own]
    OBVIOUS
  <2>2. children' = With(ch, id, <<>>)
    BY DEF AddDirectory
  <2>3. /\ DOMAIN ch = DOMAIN children /\ ch[d] = own
        /\ \A c \in DOMAIN children \ {d} : ch[c] = children[c]
    BY <2>1
  <2>4. /\ DOMAIN children' = DOMAIN children \cup {id} /\ children'[id] = <<>>
        /\ \A c \in DOMAIN children : children'[c] = ch[c]
    BY <2>1, <2>2, <2>3 DEF With
  <2>5. /\ DOMAIN own = DOMAIN children[d] \cup {n} /\ own[n] = id
        /\ \A m \in DOMAIN children[d] : own[m] = children[d][m]
    BY <1>9 DEF With
  <2>6. DOMAIN <<>> = {}
    OBVIOUS
  <2> QED
    BY <2>1, <2>3, <2>4, <2>5, <2>6
<1>11. n \in Names
  BY Shorter
<1>12. ChildInv'
  <2>1. DOMAIN children' = {i \in DOMAIN inodes' : IsDir(i)'}
    BY <1>2, <1>5, <1>6, <1>10 DEF TreeInv, ChildInv
  <2>2. ASSUME NEW c \in DOMAIN children', NEW m \in DOMAIN children'[c]
        PROVE  /\ m \in Names /\ children'[c][m] \in DOMAIN inodes' \ {Root}
               /\ inodes'[children'[c][m]].parent = c /\ Last(inodes'[children'[c][m]].path) = m
    <3>1. CASE c = d /\ m = n
      BY <1>1, <1>2, <1>4, <1>10, <1>11, <3>1
    <3>2. CASE ~(c = d /\ m = n)
      <4>1. c \in DOMAIN children /\ m \in DOMAIN children[c] /\ children'[c][m] = children[c][m]
        BY <1>10, <2>2, <3>2
      <4>2. /\ m \in Names /\ children[c][m] \in DOMAIN inodes \ {Root}
            /\ inodes[children[c][m]].parent = c /\ Last(inodes[children[c][m]].path) = m
        BY <4>1 DEF TreeInv, ChildInv
      <4> QED
        BY <1>2, <4>1, <4>2
    <3> QED
      BY <3>1, <3>2
  <2>3. ASSUME NEW i \in DOMAIN inodes' \ {Root}
        PROVE  /\ Last(inodes'[i].path) \in DOMAIN children'[inodes'[i].parent]
               /\ children'[inodes'[i].parent][Last(inodes'[i].path)] = i
    <3>1. CASE i = id
      BY <1>2, <1>4, <1>10, <3>1
    <3>2. CASE i # id
      <4>1. i \in DOMAIN inodes \ {Root} /\ inodes'[i] = inodes[i]
        BY <1>2, <3>2
      <4> PICK c, m : c = inodes[i].parent /\ m = Last(inodes[i].path)
        OBVIOUS
      <4>2. c \in DOMAIN children /\ m \in DOMAIN children[c] /\ children[c][m] = i
        BY <4>1 DEF TreeInv, ChildInv, TableInv, IsDir
      <4>3. m \in DOMAIN children'[c] /\ children'[c][m] = i
        BY <1>10, <4>2
      <4> QED
        BY <4>1, <4>3
    <3> QED
      BY <3>1, <3>2
  <2> QED
    BY <2>1, <2>2, <2>3 DEF ChildInv
<1> QED
  BY <1>1, <1>2, <1>3, <1>7, <1>8, <1>12

\* mkdir keeps it: the mark of a removal goes when the path is taken again.
LEMMA MkDirKeeps ==
  ASSUME TreeInv, NEW p \in Paths, NEW name \in Names, Len(p) < MaxDepth,
         NEW d \in Walk[p], IsDir(d), MkDir(p, d, name)
  PROVE  TreeInv'
<1> PICK new : new = Append(p, name)
  OBVIOUS
<1>0. /\ d \in DOMAIN inodes /\ inodes[d].path = p
      /\ new \in Paths \ {<<>>} /\ Front(new) = p /\ At(new) = {}
  BY Called DEF MkDir
<1>1. UNCHANGED <<dirty_files, next_file>>
  BY DEF MkDir
<1>2. CASE UNCHANGED <<table, dirty_dirs>>
  BY <1>1, <1>2 DEF table, TreeInv, TableInv, IndexInv, ChildInv, DirtyDirInv, DirtyFileInv, NewFile,
    IsDir, DirIs, FileIs
<1>3. CASE /\ GetByPath(new) = Nothing /\ next_id < FirstNewId + MaxNew
           /\ AddDirectory(new, d) /\ TrackCreated(new, next_id)
  <2>1. new \notin DOMAIN path_index
    BY <1>3, IndexFinds, InodesAreSomething
  <2>2. /\ TableInv' /\ IndexInv' /\ ChildInv'
        /\ next_id \notin DOMAIN inodes /\ next_id \in TableIds /\ next_id < next_id'
        /\ DOMAIN inodes' = DOMAIN inodes \cup {next_id}
        /\ inodes'[next_id] = [path |-> new, kind |-> "dir", parent |-> d]
        /\ \A i \in DOMAIN inodes : inodes'[i] = inodes[i]
        /\ DOMAIN path_index' = DOMAIN path_index \cup {new}
    BY <1>0, <1>1, <1>3, <2>1, AddDirectoryKeeps
  <2>3. \A i : IsDir(i) => IsDir(i)' /\ inodes'[i].path = inodes[i].path
    BY <2>2 DEF IsDir
  <2>4. DirtyFileInv'
    <3>1. ASSUME NEW i \in DOMAIN dirty_files, FileIs(i, "New") PROVE NewFile(i)'
      <4>1. NewFile(i) /\ dirty_files[i].path # new
        BY <1>0, <2>1, <3>1 DEF At, TreeInv, DirtyFileInv
      <4> QED
        BY <1>1, <2>2, <2>3, <4>1 DEF NewFile
    <3>2. \A i, s : FileIs(i, s)' <=> FileIs(i, s)
      BY <1>1 DEF FileIs
    <3> QED
      BY <1>1, <2>2, <3>1, <3>2 DEF TreeInv, DirtyFileInv
  <2>5. DirtyDirInv'
    <3>1. \A i \in DOMAIN dirty_dirs : i # next_id /\ i < next_id'
      BY <2>2, IdsAreApart DEF TreeInv, DirtyDirInv, TableInv, DirIds
    <3>2. ASSUME NEW j \in DOMAIN dirty_dirs, DirIs(j, "Deleted"), dirty_dirs[j].path = new,
                 dirty_dirs' = Without(dirty_dirs, j)
          PROVE  DirtyDirInv'
      <4>1. /\ DOMAIN dirty_dirs' = DOMAIN dirty_dirs \ {j}
            /\ \A i \in DOMAIN dirty_dirs \ {j} : dirty_dirs'[i] = dirty_dirs[i]
        BY <3>2 DEF Without, Restrict
      <4>2. \A i \in DOMAIN dirty_dirs \ {j} : DirIs(i, "Deleted") => dirty_dirs[i].path # new
        BY <3>2 DEF TreeInv, DirtyDirInv
      <4>3. \A s : \A i \in DOMAIN dirty_dirs' : DirIs(i, s)' <=> DirIs(i, s)
        BY <4>1 DEF DirIs
      <4> QED
        BY <2>2, <2>3, <3>1, <4>1, <4>2, <4>3 DEF TreeInv, DirtyDirInv
    <3>3. ASSUME \A i \in DOMAIN dirty_dirs : DirIs(i, "Deleted") => dirty_dirs[i].path # new,
                 UNCHANGED dirty_dirs
          PROVE  DirtyDirInv'
      <4>1. \A i, s : DirIs(i, s)' <=> DirIs(i, s)
        BY <3>3 DEF DirIs
      <4> QED
        BY <2>2, <2>3, <3>1, <3>3, <4>1 DEF TreeInv, DirtyDirInv
    <3>4. ASSUME \A i \in DOMAIN dirty_dirs : DirIs(i, "Deleted") => dirty_dirs[i].path # new,
                 dirty_dirs' = With(dirty_dirs, next_id, [path |-> new, state |-> "New"])
          PROVE  DirtyDirInv'
      <4> PICK id, f : id = next_id /\ f = [path |-> new, state |-> "New"]
        OBVIOUS
      <4>0. f.path = new /\ f.state = "New" /\ f \in [path : Paths, state : {"New", "Deleted"}]
        BY <1>0
      <4>1. /\ DOMAIN dirty_dirs' = DOMAIN dirty_dirs \cup {id} /\ dirty_dirs'[id] = f
            /\ \A i \in DOMAIN dirty_dirs : dirty_dirs'[i] = dirty_dirs[i]
        BY <3>1, <3>4 DEF With
      <4>2. \A i \in DOMAIN dirty_dirs : \A s : DirIs(i, s)' <=> DirIs(i, s)
        BY <4>1 DEF DirIs
      <4>3. ~DirIs(id, "Deleted")'
        BY <4>0, <4>1 DEF DirIs
      <4>4. IsDir(id)' /\ inodes'[id].path = new
        BY <2>2 DEF IsDir
      <4>5. id # Root
        BY <2>2 DEF TreeInv, TableInv
      <4>6. \A i \in DOMAIN dirty_dirs' :
               /\ i \in TableIds /\ i < next_id'
               /\ dirty_dirs'[i] \in [path : Paths, state : {"New", "Deleted"}]
        <5>1. \A i \in DOMAIN dirty_dirs :
               /\ i \in TableIds /\ i < next_id'
               /\ dirty_dirs[i] \in [path : Paths, state : {"New", "Deleted"}]
          BY <3>1 DEF TreeInv, DirtyDirInv
        <5> QED
          BY <2>2, <4>0, <4>1, <5>1
      <4>7. \A i \in DOMAIN dirty_dirs' : DirIs(i, "New")' =>
               IsDir(i)' /\ inodes'[i].path = dirty_dirs'[i].path
        <5>1. \A i \in DOMAIN dirty_dirs : DirIs(i, "New") =>
                IsDir(i)' /\ inodes'[i].path = dirty_dirs[i].path
          BY <2>3 DEF TreeInv, DirtyDirInv
        <5> QED
          BY <4>0, <4>1, <4>2, <4>4, <5>1
      <4>8. \A i \in DOMAIN dirty_dirs' : DirIs(i, "Deleted")' =>
               /\ i \in DOMAIN dirty_dirs /\ i \notin DOMAIN inodes'
               /\ dirty_dirs'[i] = dirty_dirs[i] /\ dirty_dirs'[i].path \notin DOMAIN path_index'
               /\ DirIs(i, "Deleted")
        <5>1. \A i \in DOMAIN dirty_dirs : DirIs(i, "Deleted") =>
                i \notin DOMAIN inodes' /\ dirty_dirs[i].path \notin DOMAIN path_index'
          BY <2>2, <3>1, <3>4 DEF TreeInv, DirtyDirInv
        <5> QED
          BY <4>1, <4>2, <4>3, <5>1
      <4>9. Root \notin DOMAIN dirty_dirs
        BY DEF TreeInv, DirtyDirInv
      <4>10. ASSUME NEW i \in DOMAIN dirty_dirs', NEW j \in DOMAIN dirty_dirs', DirIs(i, "Deleted")',
                    DirIs(j, "Deleted")', dirty_dirs'[i].path = dirty_dirs'[j].path
             PROVE  i = j
        BY <4>8, <4>10 DEF TreeInv, DirtyDirInv
      <4> QED
        BY <4>1, <4>5, <4>6, <4>7, <4>8, <4>9, <4>10 DEF DirtyDirInv
    <3> QED
      BY <1>3, <3>2, <3>3, <3>4 DEF TrackCreated
  <2> QED
    BY <2>2, <2>4, <2>5 DEF TreeInv
<1> QED
  BY <1>2, <1>3 DEF MkDir

\* unlink keeps it: a new file goes, one of the manifest is marked.
LEMMA UnlinkKeeps ==
  ASSUME TreeInv, NEW p \in Paths, NEW name \in Names, Len(p) < MaxDepth,
         NEW d \in Walk[p], IsDir(d), Unlink(p, d, name)
  PROVE  TreeInv'
<1> PICK new : new = Append(p, name)
  OBVIOUS
<1>0. /\ d \in DOMAIN inodes /\ inodes[d].path = p /\ new \in Paths
      /\ UNCHANGED <<inodes, path_index, children, next_id, dirty_dirs, next_file>>
  BY Called DEF Unlink, table
<1>1. TableInv' /\ IndexInv' /\ ChildInv' /\ DirtyDirInv'
  BY <1>0 DEF TreeInv, TableInv, IndexInv, ChildInv, DirtyDirInv, IsDir, DirIs
<1>2. \A i : (dirty_files'[i] = dirty_files[i] /\ NewFile(i)) => NewFile(i)'
  BY <1>0 DEF NewFile, IsDir
<1>3. ASSUME NEW i, dirty_files' = Without(dirty_files, i)
      PROVE  DirtyFileInv'
  <2>1. /\ DOMAIN dirty_files' = DOMAIN dirty_files \ {i}
        /\ \A j \in DOMAIN dirty_files \ {i} : dirty_files'[j] = dirty_files[j]
    BY <1>3 DEF Without, Restrict
  <2>2. \A s : \A j \in DOMAIN dirty_files' : FileIs(j, s)' <=> FileIs(j, s)
    BY <2>1 DEF FileIs
  <2> QED
    BY <1>0, <1>2, <2>1, <2>2 DEF TreeInv, DirtyFileInv
<1>4. ASSUME NEW i \in DOMAIN inodes, inodes[i].kind = "file", inodes[i].path = new,
             dirty_files' = With(dirty_files, i,
                                 [path |-> new, parent |-> inodes[i].parent, state |-> "Deleted"])
      PROVE  DirtyFileInv'
  <2>1. /\ DOMAIN dirty_files' = DOMAIN dirty_files \cup {i}
        /\ dirty_files'[i] = [path |-> new, parent |-> inodes[i].parent, state |-> "Deleted"]
        /\ \A j \in DOMAIN dirty_files \ {i} : dirty_files'[j] = dirty_files[j]
    BY <1>4 DEF With
  <2>2. \A j \in DOMAIN dirty_files' \ {i} : \A s : FileIs(j, s)' <=> FileIs(j, s)
    BY <2>1 DEF FileIs
  <2>3. FileIs(i, "Deleted")' /\ ~FileIs(i, "New")'
    BY <2>1 DEF FileIs
  <2>4. dirty_files'[i] \in [path : Paths, parent : TableIds, state : {"New", "Deleted"}]
    BY <1>0, <2>1 DEF TreeInv, TableInv, Entries
  <2>5. ASSUME NEW j \in DOMAIN dirty_files'
        PROVE  /\ dirty_files'[j] \in [path : Paths, parent : TableIds, state : {"New", "Deleted"}]
               /\ FileIs(j, "New")' => NewFile(j)'
               /\ FileIs(j, "Deleted")' =>
                    /\ j \in DOMAIN inodes' /\ inodes'[j].kind = "file"
                    /\ dirty_files'[j].path = inodes'[j].path
    <3>1. CASE j = i
      BY <1>0, <1>4, <2>1, <2>3, <2>4, <3>1
    <3>2. CASE j # i
      BY <1>0, <1>2, <2>1, <2>2, <3>2 DEF TreeInv, DirtyFileInv
    <3> QED
      BY <3>1, <3>2
  <2>6. ASSUME NEW j \in DOMAIN dirty_files', NEW k \in DOMAIN dirty_files',
               FileIs(j, "New")', FileIs(k, "New")', dirty_files'[j].path = dirty_files'[k].path
        PROVE  j = k
    BY <2>1, <2>2, <2>3, <2>6 DEF TreeInv, DirtyFileInv
  <2> QED
    BY <2>5, <2>6 DEF DirtyFileInv
<1>5. ASSUME UNCHANGED dirty_files PROVE DirtyFileInv'
  <2>1. \A j \in DOMAIN dirty_files' : \A s : FileIs(j, s)' <=> FileIs(j, s)
    BY <1>5 DEF FileIs
  <2> QED
    BY <1>0, <1>2, <1>5, <2>1 DEF TreeInv, DirtyFileInv
<1>6. PICK i : /\ i \in IF GetByPath(new) # Nothing THEN {GetByPath(new)} ELSE Named(NewFiles(d), name)
               /\ \/ FileIs(i, "New") /\ dirty_files' = Without(dirty_files, i)
                  \/ /\ ~FileIs(i, "New") /\ KindOf(i) = "file"
                     /\ dirty_files' = With(dirty_files, i,
                                            [path |-> new, parent |-> inodes[i].parent, state |-> "Deleted"])
                  \/ UNCHANGED dirty_files
  BY DEF Unlink
<1>7. ASSUME ~FileIs(i, "New"), KindOf(i) = "file"
      PROVE  i \in DOMAIN inodes /\ inodes[i].kind = "file" /\ inodes[i].path = new
  <2>1. GetByPath(new) # Nothing
    BY <1>6, <1>7, NamedFiles
  <2>2. new \in DOMAIN path_index /\ i = path_index[new]
    BY <1>6, <2>1, IndexFinds
  <2> QED
    BY <1>7, <2>2 DEF TreeInv, IndexInv, KindOf
<1> QED
  BY <1>1, <1>3, <1>4, <1>5, <1>6, <1>7 DEF TreeInv

\* A directory without children taken out of the table.
LEMMA RemoveDirectoryKeeps ==
  ASSUME TreeInv, NEW d \in DOMAIN children, NEW name \in DOMAIN children[d], NEW i,
         i = children[d][name], i \in DOMAIN children, DOMAIN children[i] = {},
         next_file' = next_file, RemoveDirectory(d, i)
  PROVE  /\ TableInv' /\ IndexInv' /\ ChildInv' /\ next_id' = next_id
         /\ DOMAIN inodes' = DOMAIN inodes \ {i} /\ \A j \in DOMAIN inodes' : inodes'[j] = inodes[j]
         /\ DOMAIN path_index' = DOMAIN path_index \ {inodes[i].path}
<1>0. /\ i \in DOMAIN inodes \ {Root} /\ inodes[i].parent = d /\ Last(inodes[i].path) = name
      /\ d \in DOMAIN inodes /\ IsDir(d) /\ IsDir(i) /\ inodes[i].path # <<>>
  BY DEF TreeInv, ChildInv, TableInv
<1>1. /\ DOMAIN inodes' = DOMAIN inodes \ {i} /\ \A j \in DOMAIN inodes' : inodes'[j] = inodes[j]
      /\ DOMAIN path_index' = DOMAIN path_index \ {inodes[i].path}
      /\ \A p \in DOMAIN path_index' : path_index'[p] = path_index[p]
      /\ next_id' = next_id
  BY DEF RemoveDirectory, Without, Restrict
<1>2. \A j \in DOMAIN inodes \ {Root} : inodes[j].parent # i
  BY DEF TreeInv, ChildInv
<1>3. \A j \in DOMAIN inodes \ {i} : IsDir(j)' <=> IsDir(j)
  BY <1>1 DEF IsDir
<1>4. TableInv'
  <2>1. ASSUME NEW j \in DOMAIN inodes' \ {Root}
        PROVE  /\ inodes'[j].path # <<>> /\ IsDir(inodes[j].parent)'
               /\ inodes'[inodes'[j].parent].path = Front(inodes'[j].path)
    <3>1. /\ inodes[j].path # <<>> /\ IsDir(inodes[j].parent) /\ inodes[j].parent # i
          /\ inodes[inodes[j].parent].path = Front(inodes[j].path) /\ inodes'[j] = inodes[j]
      BY <1>1, <1>2, <2>1 DEF TreeInv, TableInv
    <3> PICK c : c = inodes[j].parent
      OBVIOUS
    <3>2. c \in DOMAIN inodes \ {i} /\ IsDir(c)
      BY <3>1 DEF IsDir
    <3>3. IsDir(c)' /\ inodes'[c] = inodes[c]
      BY <1>1, <1>3, <3>2
    <3> QED
      BY <3>1, <3>3
  <2>2. /\ Root \in DOMAIN inodes' /\ inodes'[Root] = RootEntry /\ next_id' \in DirIds
        /\ next_file' \in Nat \ {0}
        /\ \A j \in DOMAIN inodes' : j \in TableIds /\ j < next_id' /\ inodes'[j] \in Entries
    BY <1>0, <1>1 DEF TreeInv, TableInv
  <2> QED
    BY <2>1, <2>2 DEF TableInv
<1>5. IndexInv'
  BY <1>0, <1>1 DEF TreeInv, IndexInv
<1>6. /\ DOMAIN children' = DOMAIN children \ {i} /\ i # d
      /\ DOMAIN children'[d] = DOMAIN children[d] \ {name}
      /\ \A m \in DOMAIN children'[d] : children'[d][m] = children[d][m]
      /\ \A c \in DOMAIN children' \ {d} : children'[c] = children[c]
  <2>1. i # d
    BY <1>0, <1>2
  <2> PICK ch, own : own = Without(children[d], name) /\ ch = [children EXCEPT ![d] = own]
    OBVIOUS
  <2>2. children' = Without(ch, i)
    BY <1>0 DEF RemoveDirectory
  <2>3. /\ DOMAIN ch = DOMAIN children /\ ch[d] = own
        /\ \A c \in DOMAIN children \ {d} : ch[c] = children[c]
    OBVIOUS
  <2>4. /\ DOMAIN children' = DOMAIN children \ {i}
        /\ \A c \in DOMAIN children' : children'[c] = ch[c]
    BY <2>2, <2>3 DEF Without, Restrict
  <2>5. /\ DOMAIN own = DOMAIN children[d] \ {name}
        /\ \A m \in DOMAIN own : own[m] = children[d][m]
    BY DEF Without, Restrict
  <2> QED
    BY <2>1, <2>3, <2>4, <2>5
<1>7. ChildInv'
  <2>1. DOMAIN children' = {j \in DOMAIN inodes' : IsDir(j)'}
    BY <1>1, <1>3, <1>6 DEF TreeInv, ChildInv
  <2>2. ASSUME NEW c \in DOMAIN children', NEW m \in DOMAIN children'[c]
        PROVE  /\ m \in Names /\ children'[c][m] \in DOMAIN inodes' \ {Root}
               /\ inodes'[children'[c][m]].parent = c /\ Last(inodes'[children'[c][m]].path) = m
    <3>1. c \in DOMAIN children /\ m \in DOMAIN children[c] /\ children'[c][m] = children[c][m]
      BY <1>6
    <3>2. /\ m \in Names /\ children[c][m] \in DOMAIN inodes \ {Root}
          /\ inodes[children[c][m]].parent = c /\ Last(inodes[children[c][m]].path) = m
      BY <3>1 DEF TreeInv, ChildInv
    <3>3. children[c][m] # i
      BY <1>0, <1>6, <3>2
    <3> QED
      BY <1>1, <3>1, <3>2, <3>3
  <2>3. ASSUME NEW j \in DOMAIN inodes' \ {Root}
        PROVE  /\ Last(inodes'[j].path) \in DOMAIN children'[inodes'[j].parent]
               /\ children'[inodes'[j].parent][Last(inodes'[j].path)] = j
    <3>1. j \in DOMAIN inodes \ {Root} /\ inodes'[j] = inodes[j] /\ j # i
      BY <1>1
    <3> PICK c, m : c = inodes[j].parent /\ m = Last(inodes[j].path)
      OBVIOUS
    <3>2. c \in DOMAIN children /\ m \in DOMAIN children[c] /\ children[c][m] = j /\ c # i
      BY <1>2, <3>1 DEF TreeInv, ChildInv, TableInv, IsDir
    <3>3. m \in DOMAIN children'[c] /\ children'[c][m] = j
      BY <1>6, <3>1, <3>2
    <3> QED
      BY <3>1, <3>3
  <2> QED
    BY <2>1, <2>2, <2>3 DEF ChildInv
<1> QED
  BY <1>1, <1>4, <1>5, <1>7

\* rmdir keeps it: the new files below the directory have gone before it does.
LEMMA RmDirKeeps ==
  ASSUME TreeInv, NEW p \in Paths, NEW name \in Names, Len(p) < MaxDepth,
         NEW d \in Walk[p], IsDir(d), RmDir(p, d, name)
  PROVE  TreeInv'
<1> PICK new, i : new = Append(p, name) /\ i = children[d][name]
  OBVIOUS
<1>0. /\ d \in DOMAIN inodes /\ inodes[d].path = p /\ d \in DOMAIN children
      /\ new \in Paths \ {<<>>} /\ Front(new) = p /\ Last(new) = name /\ Lookup(d, name) = At(new)
  BY Called
<1>1. /\ next_file' = next_file /\ dirty_files' = WithoutNewFilesUnder(new)
      /\ name \in DOMAIN children[d]
  BY DEF RmDir
<1>2. /\ DOMAIN dirty_files' = {j \in DOMAIN dirty_files :
                                 ~(FileIs(j, "New") /\ IsPrefix(new, dirty_files[j].path))}
      /\ \A j \in DOMAIN dirty_files' : dirty_files'[j] = dirty_files[j]
  BY <1>1 DEF WithoutNewFilesUnder, Restrict
<1>3. \A j \in DOMAIN dirty_files' : \A s : FileIs(j, s)' <=> FileIs(j, s)
  BY <1>2 DEF FileIs
<1>4. i \in DOMAIN inodes \ {Root} /\ inodes[i].path = new
  <2>1. i \in DOMAIN inodes \ {Root} /\ inodes[i].parent = d /\ Last(inodes[i].path) = name
    BY <1>0, <1>1 DEF TreeInv, ChildInv
  <2>2. inodes[i].path \in Paths \ {<<>>} /\ Front(inodes[i].path) = p
    BY <1>0, <2>1 DEF TreeInv, TableInv, Entries
  <2> QED
    BY <1>0, <2>1, <2>2, Shorter
<1>5. IsDir(i)
  <2>1. PICK j \in At(new) : IsDir(j)
    BY <1>0 DEF RmDir
  <2>2. new \in DOMAIN path_index /\ path_index[new] = i
    BY <1>4 DEF TreeInv, IndexInv
  <2> QED
    BY <2>1, <2>2 DEF At
<1>6. CASE UNCHANGED <<table, dirty_dirs>>
  <2>1. UNCHANGED <<inodes, path_index, children, next_id, dirty_dirs>>
    BY <1>6 DEF table
  <2>2. TableInv' /\ IndexInv' /\ ChildInv' /\ DirtyDirInv'
    BY <1>1, <2>1 DEF TreeInv, TableInv, IndexInv, ChildInv, DirtyDirInv, IsDir, DirIs
  <2>3. \A j \in DOMAIN dirty_files' : NewFile(j) => NewFile(j)'
    BY <1>1, <1>2, <2>1 DEF NewFile, IsDir
  <2>4. DirtyFileInv'
    BY <1>2, <1>3, <2>1, <2>3 DEF TreeInv, DirtyFileInv
  <2> QED
    BY <2>2, <2>4 DEF TreeInv
<1>7. CASE DOMAIN children[i] = {} /\ TrackDeleted(i) /\ RemoveDirectory(d, i)
  <2>1. i \in DOMAIN children
    BY <1>4, <1>5 DEF TreeInv, ChildInv
  <2>2. /\ TableInv' /\ IndexInv' /\ ChildInv' /\ next_id' = next_id
        /\ DOMAIN inodes' = DOMAIN inodes \ {i} /\ \A j \in DOMAIN inodes' : inodes'[j] = inodes[j]
        /\ DOMAIN path_index' = DOMAIN path_index \ {new}
    <3>1. /\ d \in DOMAIN children /\ name \in DOMAIN children[d] /\ i = children[d][name]
          /\ DOMAIN children[i] = {} /\ next_file' = next_file /\ RemoveDirectory(d, i)
      BY <1>0, <1>1, <1>7
    <3>2. /\ TableInv' /\ IndexInv' /\ ChildInv' /\ next_id' = next_id
          /\ DOMAIN inodes' = DOMAIN inodes \ {i} /\ \A j \in DOMAIN inodes' : inodes'[j] = inodes[j]
          /\ DOMAIN path_index' = DOMAIN path_index \ {inodes[i].path}
      BY <2>1, <3>1, RemoveDirectoryKeeps
    <3> QED
      BY <1>4, <3>2
  <2>3. \A j : j # i => (IsDir(j)' <=> IsDir(j))
    BY <2>2 DEF IsDir
  <2>4. DirtyFileInv'
    <3>1. ASSUME NEW j \in DOMAIN dirty_files', FileIs(j, "New") PROVE NewFile(j)'
      <4>1. NewFile(j) /\ dirty_files[j].path \in Paths \ {<<>>}
        BY <1>2, <3>1 DEF TreeInv, DirtyFileInv, NewFile
      <4>2. dirty_files[j].parent # i
        BY <1>2, <1>4, <3>1, <4>1, ParentIsPrefix DEF NewFile
      <4>3. IsDir(dirty_files[j].parent) /\ dirty_files[j].parent \in DOMAIN inodes'
        BY <2>2, <4>1, <4>2 DEF NewFile, IsDir
      <4> QED
        BY <1>1, <1>2, <2>2, <2>3, <4>1, <4>2, <4>3 DEF NewFile
    <3>2. ASSUME NEW j \in DOMAIN dirty_files', FileIs(j, "Deleted")
          PROVE  /\ j \in DOMAIN inodes' /\ inodes'[j].kind = "file"
                 /\ dirty_files'[j].path = inodes'[j].path
      <4>1. /\ j \in DOMAIN inodes /\ inodes[j].kind = "file" /\ dirty_files[j].path = inodes[j].path
        BY <1>2, <3>2 DEF TreeInv, DirtyFileInv
      <4>2. j # i
        BY <1>5, <4>1 DEF IsDir
      <4> QED
        BY <1>2, <2>2, <4>1, <4>2
    <3> QED
      BY <1>2, <1>3, <3>1, <3>2 DEF TreeInv, DirtyFileInv
  <2>5. DirtyDirInv'
    <3>1. i \in TableIds /\ i < next_id /\ i # Root
      BY <1>4 DEF TreeInv, TableInv
    <3>2. \A j \in DOMAIN dirty_dirs : DirIs(j, "New") /\ j # i =>
             IsDir(j)' /\ inodes'[j].path = dirty_dirs[j].path
      BY <2>2, <2>3 DEF TreeInv, DirtyDirInv, IsDir
    <3>3. \A j \in DOMAIN dirty_dirs : DirIs(j, "Deleted") =>
             /\ j # i /\ j \notin DOMAIN inodes' /\ dirty_dirs[j].path \notin DOMAIN path_index'
             /\ dirty_dirs[j].path # new
      <4>1. new \in DOMAIN path_index
        BY <1>4 DEF TreeInv, IndexInv
      <4>2. \A j \in DOMAIN dirty_dirs : DirIs(j, "Deleted") =>
               j \notin DOMAIN inodes /\ dirty_dirs[j].path \notin DOMAIN path_index
        BY DEF TreeInv, DirtyDirInv
      <4> QED
        BY <1>4, <2>2, <4>1, <4>2
    <3>4. CASE DirIs(i, "New") /\ dirty_dirs' = Without(dirty_dirs, i)
      <4>1. /\ DOMAIN dirty_dirs' = DOMAIN dirty_dirs \ {i}
            /\ \A j \in DOMAIN dirty_dirs' : dirty_dirs'[j] = dirty_dirs[j]
        BY <3>4 DEF Without, Restrict
      <4>2. \A j \in DOMAIN dirty_dirs' : \A s : DirIs(j, s)' <=> DirIs(j, s)
        BY <4>1 DEF DirIs
      <4> QED
        BY <2>2, <3>2, <3>3, <4>1, <4>2 DEF TreeInv, DirtyDirInv
    <3>5. CASE /\ ~DirIs(i, "New")
               /\ dirty_dirs' = With(dirty_dirs, i, [path |-> inodes[i].path, state |-> "Deleted"])
      <4> PICK f : f = [path |-> new, state |-> "Deleted"]
        OBVIOUS
      <4>0. f.path = new /\ f.state = "Deleted" /\ f \in [path : Paths, state : {"New", "Deleted"}]
        BY <1>0
      <4>1. /\ DOMAIN dirty_dirs' = DOMAIN dirty_dirs \cup {i} /\ dirty_dirs'[i] = f
            /\ \A j \in DOMAIN dirty_dirs \ {i} : dirty_dirs'[j] = dirty_dirs[j]
        BY <1>4, <3>5 DEF With
      <4>2. \A j \in DOMAIN dirty_dirs \ {i} : \A s : DirIs(j, s)' <=> DirIs(j, s)
        BY <4>1 DEF DirIs
      <4>3. ~DirIs(i, "New")'
        BY <4>0, <4>1 DEF DirIs
      <4>4. \A j \in DOMAIN dirty_dirs' :
               /\ j \in TableIds /\ j < next_id'
               /\ dirty_dirs'[j] \in [path : Paths, state : {"New", "Deleted"}]
        <5>1. \A j \in DOMAIN dirty_dirs :
               /\ j \in TableIds /\ j < next_id
               /\ dirty_dirs[j] \in [path : Paths, state : {"New", "Deleted"}]
          BY DEF TreeInv, DirtyDirInv
        <5> QED
          BY <2>2, <3>1, <4>0, <4>1, <5>1
      <4>5. \A j \in DOMAIN dirty_dirs' : DirIs(j, "New")' =>
               IsDir(j)' /\ inodes'[j].path = dirty_dirs'[j].path
        BY <3>2, <4>1, <4>2, <4>3
      <4>6. \A j \in DOMAIN dirty_dirs' : DirIs(j, "Deleted")' =>
               j \notin DOMAIN inodes' /\ dirty_dirs'[j].path \notin DOMAIN path_index'
        BY <2>2, <3>3, <4>0, <4>1, <4>2
      <4>7. ASSUME NEW j \in DOMAIN dirty_dirs', NEW k \in DOMAIN dirty_dirs', DirIs(j, "Deleted")',
                   DirIs(k, "Deleted")', dirty_dirs'[j].path = dirty_dirs'[k].path
            PROVE  j = k
        <5>1. CASE j = i \/ k = i
          BY <3>3, <4>0, <4>1, <4>2, <4>7, <5>1
        <5>2. CASE j # i /\ k # i
          <6>1. j \in DOMAIN dirty_dirs /\ k \in DOMAIN dirty_dirs
            BY <4>1, <5>2
          <6>2. DirIs(j, "Deleted") /\ DirIs(k, "Deleted") /\ dirty_dirs[j].path = dirty_dirs[k].path
            BY <4>1, <4>2, <4>7, <5>2, <6>1
          <6> QED
            BY <6>1, <6>2 DEF TreeInv, DirtyDirInv
        <5> QED
          BY <5>1, <5>2
      <4>8. Root \notin DOMAIN dirty_dirs'
        BY <3>1, <4>1 DEF TreeInv, DirtyDirInv
      <4> QED
        BY <4>4, <4>5, <4>6, <4>7, <4>8 DEF DirtyDirInv
    <3>6. CASE ~DirIs(i, "New") /\ dirty_dirs' = dirty_dirs
      <4>1. \A j : \A s : DirIs(j, s)' <=> DirIs(j, s)
        BY <3>6 DEF DirIs
      <4> QED
        BY <2>2, <3>2, <3>3, <3>6, <4>1 DEF TreeInv, DirtyDirInv
    <3> QED
      BY <1>7, <3>4, <3>5, <3>6 DEF TrackDeleted
  <2> QED
    BY <2>2, <2>4, <2>5 DEF TreeInv
<1> QED
  BY <1>6, <1>7 DEF RmDir

-----------------------------------------------------------------------------
(* The table of the manifest *)

\* What the manifest says of one inode.
LEMMA ManifestEntry ==
  ASSUME NEW i \in DOMAIN Manifest
  PROVE  /\ i # Root /\ i \in TableIds /\ i < FirstNewId
         /\ Manifest[i] \in Entries /\ Manifest[i].path # <<>>
         /\ \/ Manifest[i].parent = Root /\ Front(Manifest[i].path) = <<>>
            \/ /\ Manifest[i].parent \in DOMAIN Manifest
               /\ Manifest[Manifest[i].parent].kind = "dir"
               /\ Manifest[Manifest[i].parent].path = Front(Manifest[i].path)
<1>1. /\ Manifest[i] \in [path : Paths \ {<<>>}, kind : Kinds, parent : TableIds]
      /\ Manifest[i].parent = Root => Len(Manifest[i].path) = 1
      /\ Manifest[i].parent # Root =>
           /\ Manifest[i].parent \in DOMAIN Manifest
           /\ Manifest[Manifest[i].parent].kind = "dir"
           /\ Manifest[Manifest[i].parent].path = Front(Manifest[i].path)
  BY ManifestAssumption
<1>2. i # Root /\ i \in TableIds /\ i < FirstNewId
  BY ManifestAssumption, IdsAreApart DEF Root, TableIds
<1>3. Manifest[i].path \in Paths \ {<<>>} /\ Manifest[i] \in Entries
  BY <1>1 DEF Entries
<1>4. ASSUME Len(Manifest[i].path) = 1 PROVE Front(Manifest[i].path) = <<>>
  <2>1. Front(Manifest[i].path) \in Seq(Names) /\ Len(Front(Manifest[i].path)) = 0
    BY <1>3, <1>4, Shorter, PathsAreSequences
  <2> QED
    BY <2>1, EmptySeq
<1> QED
  BY <1>1, <1>2, <1>3, <1>4

\* No two inodes of the manifest have the same path.
LEMMA ManifestPaths ==
  ASSUME NEW i \in DOMAIN Manifest, NEW j \in DOMAIN Manifest, Manifest[i].path = Manifest[j].path
  PROVE  i = j
BY ManifestAssumption

\* The table of the manifest is a tree.
LEMMA InitTreeInv ==
  ASSUME Init
  PROVE  TreeInv
<1>1. /\ DOMAIN inodes = {Root} \cup DOMAIN Manifest /\ inodes[Root] = RootEntry
      /\ \A i \in DOMAIN Manifest : inodes[i] = Manifest[i] /\ i # Root
  BY ManifestEntry DEF Init, BuildFromManifest
<1>2. next_id = FirstNewId /\ next_file = 1 /\ DOMAIN dirty_dirs = {} /\ DOMAIN dirty_files = {}
  BY DEF Init
<1>3. Root \in TableIds /\ Root < FirstNewId /\ FirstNewId \in DirIds /\ Root \in Nat
  BY IdsAreApart, BoundsAssumption DEF TableIds, Root, DirIds
<1>4. TableInv
  <2>1. RootEntry \in Entries
    <3>1. <<>> \in Seq(Names) /\ Len(<<>>) <= MaxDepth
      BY EmptySeq, BoundsAssumption
    <3>2. <<>> \in Paths
      BY <3>1, PathsAreSequences
    <3> QED
      BY <1>3, <3>2 DEF RootEntry, Entries, Kinds
  <2>2. ASSUME NEW i \in DOMAIN inodes \ {Root}
        PROVE  /\ inodes[i].path # <<>> /\ IsDir(inodes[i].parent)
               /\ inodes[inodes[i].parent].path = Front(inodes[i].path)
    <3>1. i \in DOMAIN Manifest /\ inodes[i] = Manifest[i]
      BY <1>1
    <3>2. CASE Manifest[i].parent = Root /\ Front(Manifest[i].path) = <<>>
      BY <1>1, <3>1, <3>2, ManifestEntry DEF IsDir, RootEntry
    <3>3. CASE /\ Manifest[i].parent \in DOMAIN Manifest
               /\ Manifest[Manifest[i].parent].kind = "dir"
               /\ Manifest[Manifest[i].parent].path = Front(Manifest[i].path)
      BY <1>1, <3>1, <3>3, ManifestEntry DEF IsDir
    <3> QED
      BY <3>2, <3>3, <3>1, ManifestEntry
  <2> QED
    BY <1>1, <1>2, <1>3, <2>1, <2>2, ManifestEntry DEF TableInv
<1>5. \A i, j \in DOMAIN inodes : inodes[i].path = inodes[j].path => i = j
  BY <1>1, ManifestEntry, ManifestPaths DEF RootEntry
<1>6. IndexInv
  <2>1. path_index = [p \in {inodes[i].path : i \in DOMAIN inodes} |->
                        CHOOSE i \in DOMAIN inodes : inodes[i].path = p]
    BY DEF Init, BuildFromManifest
  <2>2. \A i \in DOMAIN inodes : inodes[i].path \in DOMAIN path_index /\ path_index[inodes[i].path] = i
    BY <1>5, <2>1
  <2>3. \A p \in DOMAIN path_index : path_index[p] \in DOMAIN inodes /\ inodes[path_index[p]].path = p
    BY <2>1
  <2> QED
    BY <2>2, <2>3 DEF IndexInv
<1>7. ChildInv
  <2> DEFINE Own(d) == ChildrenIn(inodes, d)
  <2>1. /\ DOMAIN children = {i \in DOMAIN inodes : inodes[i].kind = "dir"}
        /\ \A d \in DOMAIN children : children[d] =
             [n \in {Last(inodes[i].path) : i \in Own(d)} |->
                CHOOSE i \in Own(d) : Last(inodes[i].path) = n]
    BY DEF Init, BuildFromManifest
  <2>2. \A d, i : i \in Own(d) <=> i \in DOMAIN inodes \ {Root} /\ inodes[i].parent = d
    BY DEF ChildrenIn
  <2>3. ASSUME NEW d, NEW i \in Own(d), NEW j \in Own(d), Last(inodes[i].path) = Last(inodes[j].path)
        PROVE  i = j
    <3>1. /\ inodes[i].path \in Paths \ {<<>>} /\ inodes[j].path \in Paths \ {<<>>}
          /\ Front(inodes[i].path) = Front(inodes[j].path)
      BY <1>4, <2>2 DEF TableInv, Entries
    <3>2. inodes[i].path = inodes[j].path
      BY <2>3, <3>1, Shorter
    <3> QED
      BY <1>5, <2>2, <3>2
  <2> HIDE DEF Own
  <2>4. ASSUME NEW d \in DOMAIN children, NEW n \in DOMAIN children[d]
        PROVE  /\ children[d][n] \in Own(d) /\ Last(inodes[children[d][n]].path) = n
    <3>1. /\ DOMAIN children[d] = {Last(inodes[i].path) : i \in Own(d)}
          /\ children[d][n] = CHOOSE i \in Own(d) : Last(inodes[i].path) = n
      BY <2>1, <2>4
    <3>2. \E i \in Own(d) : Last(inodes[i].path) = n
      BY <2>4, <3>1
    <3> QED
      BY <3>1, <3>2
  <2>5. ASSUME NEW d \in DOMAIN children, NEW i \in Own(d)
        PROVE  /\ Last(inodes[i].path) \in DOMAIN children[d]
               /\ children[d][Last(inodes[i].path)] = i
    <3> PICK n : n = Last(inodes[i].path)
      OBVIOUS
    <3>1. n \in {Last(inodes[j].path) : j \in Own(d)}
      BY <2>5
    <3>2. n \in DOMAIN children[d]
      BY <2>1, <2>5, <3>1
    <3>3. children[d][n] \in Own(d) /\ Last(inodes[children[d][n]].path) = n
      BY <2>4, <3>2
    <3> QED
      BY <2>3, <2>5, <3>2, <3>3
  <2>6. ASSUME NEW i \in DOMAIN inodes \ {Root}
        PROVE  Last(inodes[i].path) \in Names /\ inodes[i].parent \in DOMAIN children
    BY <1>4, <2>1, Shorter DEF TableInv, Entries, IsDir
  <2> QED
    BY <2>1, <2>2, <2>4, <2>5, <2>6 DEF ChildInv, IsDir
<1> QED
  BY <1>2, <1>4, <1>6, <1>7 DEF TreeInv, DirtyDirInv, DirtyFileInv

\* TreeInv is an invariant.
LEMMA TreeInvHolds == Spec => []TreeInv
<1>1. Init => TreeInv
  BY InitTreeInv
<1>2. TreeInv /\ [Next]_vars => TreeInv'
  <2> SUFFICES ASSUME TreeInv, [Next]_vars PROVE TreeInv'
    OBVIOUS
  <2>1. CASE Next
    BY <2>1, CreateKeeps, MkDirKeeps, UnlinkKeeps, RmDirKeeps DEF Next
  <2>2. CASE UNCHANGED vars
    <3>1. UNCHANGED <<inodes, path_index, children, dirty_dirs, dirty_files, next_id, next_file>>
      BY <2>2 DEF vars
    <3>2. TableInv' /\ IndexInv' /\ ChildInv'
      BY <3>1 DEF TreeInv, TableInv, IndexInv, ChildInv, IsDir
    <3>3. DirtyDirInv'
      BY <3>1 DEF TreeInv, DirtyDirInv, IsDir, DirIs
    <3>4. DirtyFileInv'
      BY <3>1 DEF TreeInv, DirtyFileInv, NewFile, IsDir, FileIs
    <3> QED
      BY <3>2, <3>3, <3>4 DEF TreeInv
  <2> QED
    BY <2>1, <2>2
<1> QED
  BY <1>1, <1>2, PTL DEF Spec

-----------------------------------------------------------------------------
(* What the user sees *)

\* The path of a name in a directory, and there is no other.
IsPathOf(q, d, n) ==
  /\ q # <<>> /\ Front(q) = inodes[d].path /\ Last(q) = n
  /\ \A p \in Paths \ {<<>>} : Front(p) = inodes[d].path /\ Last(p) = n => p = q

\* The entries of a name in a listing are what is at its path.
LEMMA ListingFindsPath ==
  ASSUME TreeInv, NEW d, IsDir(d), NEW n \in Names, NEW q, IsPathOf(q, d, n)
  PROVE  Named(Listing(d), n) = At(q)
<1>0. /\ q # <<>> /\ Front(q) = inodes[d].path /\ Last(q) = n
      /\ \A p \in Paths \ {<<>>} : Front(p) = inodes[d].path /\ Last(p) = n => p = q
  BY DEF IsPathOf
<1>1. inodes[d].path \in Paths /\ d \in DOMAIN inodes /\ d \in DOMAIN children
  BY DEF TreeInv, TableInv, ChildInv, IsDir, Entries
<1>2. Named(Listing(d), n) =
        Named(TableEntries(d), n) \cup Named(NewFiles(d), n) \cup Named(NewDirs(d), n)
  BY DEF Listing, Named
<1>3. \A i : i \in Named(TableEntries(d), n) <=>
               /\ n \in DOMAIN children[d] /\ i = children[d][n] /\ i \in DOMAIN inodes
               /\ ~FileIs(i, "Deleted") /\ i \notin DOMAIN dirty_dirs
  <2>1. ASSUME NEW i \in Named(TableEntries(d), n)
        PROVE  /\ n \in DOMAIN children[d] /\ i = children[d][n] /\ i \in DOMAIN inodes
               /\ ~FileIs(i, "Deleted") /\ i \notin DOMAIN dirty_dirs
    <3>1. PICK e \in TableEntries(d) : e[1] = n /\ e[2] = i
      BY <2>1 DEF Named
    <3> QED
      BY <3>1 DEF TableEntries
  <2>2. ASSUME n \in DOMAIN children[d], children[d][n] \in DOMAIN inodes,
               ~FileIs(children[d][n], "Deleted"), children[d][n] \notin DOMAIN dirty_dirs
        PROVE  children[d][n] \in Named(TableEntries(d), n)
    <3>1. <<n, children[d][n]>> \in TableEntries(d)
      BY <2>2 DEF TableEntries
    <3> QED
      BY <3>1 DEF Named
  <2> QED
    BY <2>1, <2>2
<1>4. \A i \in DOMAIN inodes \ {Root} :
        inodes[i].parent = d /\ Last(inodes[i].path) = n => inodes[i].path = q
  BY <1>0 DEF TreeInv, TableInv, Entries
<1>5. \A i \in DOMAIN dirty_files :
        FileIs(i, "New") /\ dirty_files[i].parent = d /\ Last(dirty_files[i].path) = n
          => dirty_files[i].path = q
  BY <1>0 DEF TreeInv, DirtyFileInv, NewFile
<1>6. \A i \in Named(NewDirs(d), n) : /\ DirIs(i, "New") /\ i \in DOMAIN dirty_dirs
                                      /\ i \in DOMAIN inodes /\ inodes[i].path = q
  BY <1>4, NamedDirs DEF TreeInv, DirtyDirInv
<1>7. CASE q \in DOMAIN path_index
  <2> PICK c : c = path_index[q]
    OBVIOUS
  <2>1. c \in DOMAIN inodes \ {Root} /\ inodes[c].path = q
    BY <1>0, <1>1, <1>7 DEF TreeInv, IndexInv, TableInv, RootEntry
  <2>2. inodes[c].parent = d
    BY <1>0, <1>1, <2>1 DEF TreeInv, IndexInv, TableInv, IsDir
  <2>3. n \in DOMAIN children[d] /\ children[d][n] = c
    BY <1>0, <1>1, <2>1, <2>2 DEF TreeInv, ChildInv
  <2>4. Named(NewFiles(d), n) = {}
    BY <1>5, <1>7, NamedFiles DEF TreeInv, DirtyFileInv, NewFile
  <2>5. Named(NewDirs(d), n) = IF DirIs(c, "New") THEN {c} ELSE {}
    <3>1. Named(NewDirs(d), n) \subseteq {c}
      BY <1>6, <1>7 DEF TreeInv, IndexInv
    <3>2. DirIs(c, "New") => c \in Named(NewDirs(d), n)
      BY <1>0, <1>1, <2>1, <2>2, NamedDirs DEF DirIs
    <3> QED
      BY <1>6, <3>1, <3>2
  <2>6. c \in DOMAIN dirty_dirs <=> DirIs(c, "New")
    BY <2>1 DEF TreeInv, DirtyDirInv, DirIs
  <2>7. ~(DirIs(c, "New") /\ FileIs(c, "Deleted"))
    BY <2>1 DEF TreeInv, DirtyDirInv, DirtyFileInv, DirIs, FileIs, IsDir
  <2>8. Named(TableEntries(d), n) = IF FileIs(c, "Deleted") \/ DirIs(c, "New") THEN {} ELSE {c}
    BY <1>3, <2>1, <2>3, <2>6
  <2> QED
    BY <1>2, <1>7, <2>4, <2>5, <2>7, <2>8 DEF At
<1>8. CASE q \notin DOMAIN path_index
  <2>1. Named(TableEntries(d), n) = {}
    <3>1. ASSUME n \in DOMAIN children[d] PROVE FALSE
      <4>1. children[d][n] \in DOMAIN inodes \ {Root} /\ inodes[children[d][n]].path = q
        BY <1>1, <1>4, <3>1 DEF TreeInv, ChildInv
      <4> QED
        BY <1>8, <4>1 DEF TreeInv, IndexInv
    <3> QED
      BY <1>3, <3>1
  <2>2. Named(NewDirs(d), n) = {}
    BY <1>6, <1>8 DEF TreeInv, IndexInv
  <2>3. Named(NewFiles(d), n) = {i \in DOMAIN dirty_files : FileIs(i, "New") /\ dirty_files[i].path = q}
    <3>1. ASSUME NEW i \in DOMAIN dirty_files, FileIs(i, "New"), dirty_files[i].path = q
          PROVE  dirty_files[i].parent = d
      BY <1>0, <1>1, <3>1 DEF TreeInv, DirtyFileInv, NewFile, IndexInv, IsDir
    <3> QED
      BY <1>0, <1>1, <1>5, <3>1, NamedFiles
  <2> QED
    BY <1>2, <1>8, <2>1, <2>2, <2>3 DEF At
<1> QED
  BY <1>7, <1>8

\* A listing has what is at the path of a name, and nothing else of that name.
LEMMA ListingFinds ==
  ASSUME TreeInv, NEW d, IsDir(d), NEW n \in Names
  PROVE  Named(Listing(d), n) = At(Append(inodes[d].path, n))
<1>1. inodes[d].path \in Paths
  BY DEF TreeInv, TableInv, IsDir, Entries
<1> PICK q : q = Append(inodes[d].path, n)
  OBVIOUS
<1>2. q # <<>> /\ Front(q) = inodes[d].path /\ Last(q) = n
  BY <1>1, Longer
<1>3. \A p \in Paths \ {<<>>} : Front(p) = inodes[d].path /\ Last(p) = n => p = q
  BY Shorter
<1>4. IsPathOf(q, d, n)
  BY <1>2, <1>3 DEF IsPathOf
<1>5. Named(Listing(d), n) = At(q)
  BY <1>4, ListingFindsPath
<1> QED
  BY <1>5

\* A path leads to one thing at most.
LEMMA AtMostOne ==
  ASSUME TreeInv, NEW p
  PROVE  Cardinality(At(p)) <= 1
<1>1. At(p) = {} \/ \E i : At(p) = {i}
  <2>1. CASE p \in DOMAIN path_index
    BY <2>1 DEF At
  <2>2. CASE p \notin DOMAIN path_index
    <3>1. \A i, j \in At(p) : i = j
      BY <2>2 DEF At, TreeInv, DirtyFileInv
    <3> PICK S : S = At(p)
      OBVIOUS
    <3>2. S = {} \/ \E i : S = {i}
      BY <3>1
    <3> QED
      BY <3>2
  <2> QED
    BY <2>1, <2>2
<1>2. CASE At(p) = {}
  BY <1>2, FS_EmptySet
<1>3. CASE \E i : At(p) = {i}
  <2>1. PICK i : At(p) = {i}
    BY <1>3
  <2>2. Cardinality({i}) = 1
    BY FS_Singleton
  <2> QED
    BY <2>1, <2>2
<1> QED
  BY <1>1, <1>2, <1>3

\* What the invariant is for.
LEMMA TreeInvMeans ==
  ASSUME TreeInv
  PROVE  TypeOK /\ TableIsATree /\ ListingMatchesLookup /\ NothingStranded
<1>1. TypeOK
  <2>1. /\ DOMAIN inodes \subseteq TableIds /\ \A i \in DOMAIN inodes : inodes[i] \in Entries
        /\ next_id \in DirIds /\ next_file \in Nat
    BY DEF TreeInv, TableInv
  <2>2. DOMAIN path_index \subseteq Paths /\ \A p \in DOMAIN path_index : path_index[p] \in TableIds
    BY <2>1 DEF TreeInv, IndexInv, Entries
  <2>3. /\ DOMAIN children \subseteq TableIds
        /\ \A i \in DOMAIN children : DOMAIN children[i] \subseteq Names /\ IsInjective(children[i])
    BY <2>1 DEF TreeInv, ChildInv, IsInjective
  <2> QED
    BY <2>1, <2>2, <2>3 DEF TypeOK, TreeInv, DirtyDirInv, DirtyFileInv
<1>2. TableIsATree
  <2>1. \A i \in DOMAIN inodes : GetByPath(inodes[i].path) = i
    BY IndexFinds DEF TreeInv, IndexInv
  <2>2. {path_index[p] : p \in DOMAIN path_index} = DOMAIN inodes
    BY DEF TreeInv, IndexInv
  <2>3. \A d \in DOMAIN children : Range(children[d]) \subseteq DOMAIN inodes
    BY DEF TreeInv, ChildInv, Range
  <2> QED
    BY <2>1, <2>2, <2>3 DEF TableIsATree, TreeInv, TableInv, ChildInv
<1>3. ListingMatchesLookup
  <2> SUFFICES ASSUME NEW p \in Paths, NEW d \in Walk[p], IsDir(d), NEW n \in Names
               PROVE  Named(Listing(d), n) = Lookup(d, n) /\ Cardinality(Lookup(d, n)) <= 1
    BY DEF ListingMatchesLookup
  <2> QED
    BY LookupFinds, ListingFinds, AtMostOne
<1>4. NothingStranded
  BY DEF NothingStranded, TreeInv, DirtyFileInv, DirtyDirInv, NewFile
<1> QED
  BY <1>1, <1>2, <1>3, <1>4

\* In every reachable state the three maps of the inode table, the listings, the
\* lookups and the files that were made describe one tree.
THEOREM TreeCorrect == Spec => []TreeIsSound
<1>1. TreeInv => TreeIsSound
  BY TreeInvMeans DEF TreeIsSound
<1> QED
  BY <1>1, TreeInvHolds, PTL

-----------------------------------------------------------------------------
(* What is recorded *)

\* An inode of the table is one of the manifest, as it was, or a directory that
\* is recorded as new unless the manifest lists its path.  A directory of the
\* manifest that is gone, and listed, is recorded as deleted or has been made
\* again.
DiffInv ==
  /\ \A i \in DOMAIN inodes \ {Root} :
       \/ i \in DOMAIN Manifest /\ inodes[i] = Manifest[i]
       \/ /\ i \notin DOMAIN Manifest /\ inodes[i].kind = "dir"
          /\ DirIs(i, "New") \/ inodes[i].path \in original_dirs
  /\ \A i \in DOMAIN dirty_dirs : dirty_dirs[i].path \in original_dirs <=> DirIs(i, "Deleted")
  /\ \A i \in DOMAIN Manifest \ DOMAIN inodes :
       /\ Manifest[i].kind = "dir"
       /\ Manifest[i].path \in original_dirs =>
            \/ Manifest[i].path \in DOMAIN path_index
            \/ \E j \in DOMAIN dirty_dirs : DirIs(j, "Deleted") /\ dirty_dirs[j].path = Manifest[i].path

\* The layers are as the last call has answered.
AnswerInv ==
  /\ last.path \in Paths
  /\ last.answer = "ok" =>
       /\ last.op = "create" =>
            \E i \in DOMAIN dirty_files : FileIs(i, "New") /\ dirty_files[i].path = last.path
       /\ last.op = "mkdir" => last.path \in DOMAIN path_index /\ IsDir(path_index[last.path])
       /\ last.op \in {"unlink", "rmdir"} => At(last.path) = {}

\* The entries of the tree are what the paths lead to.
LEMMA TreeIs ==
  ASSUME TreeInv, NEW p, NEW k
  PROVE  <<p, k>> \in Tree <=> p \in Paths /\ \E i \in At(p) : k = KindOf(i)
<1>1. ASSUME p \in Paths, NEW i \in At(p), k = KindOf(i) PROVE <<p, k>> \in Tree
  BY <1>1, WalkIsAt DEF Tree
<1>2. ASSUME <<p, k>> \in Tree PROVE p \in Paths /\ \E i \in At(p) : k = KindOf(i)
  <2>1. PICK q \in Paths : <<p, k>> \in {<<q, KindOf(i)>> : i \in Walk[q]}
    BY <1>2 DEF Tree
  <2> QED
    BY <2>1, WalkIsAt
<1> QED
  BY <1>1, <1>2

\* A directory of the table is in the tree; so is an inode that is not deleted.
LEMMA TableInTree ==
  ASSUME TreeInv, NEW i \in DOMAIN inodes, ~FileIs(i, "Deleted")
  PROVE  <<inodes[i].path, inodes[i].kind>> \in Tree
<1>1. /\ inodes[i].path \in Paths /\ inodes[i].path \in DOMAIN path_index
      /\ path_index[inodes[i].path] = i
  BY DEF TreeInv, TableInv, IndexInv, Entries
<1>2. i \in At(inodes[i].path) /\ KindOf(i) = inodes[i].kind
  BY <1>1 DEF At, KindOf
<1> QED
  BY <1>1, <1>2, TreeIs

\* Directories of the table are not marked as deleted files.
LEMMA DirsAreThere ==
  ASSUME TreeInv, NEW i, IsDir(i)
  PROVE  i \in DOMAIN inodes /\ ~FileIs(i, "Deleted") /\ inodes[i].kind = "dir"
BY DEF TreeInv, DirtyFileInv, IsDir, FileIs

\* New files are in the tree.
LEMMA NewFilesInTree ==
  ASSUME TreeInv, NEW i \in DOMAIN dirty_files, FileIs(i, "New")
  PROVE  <<dirty_files[i].path, "file">> \in Tree
<1>1. NewFile(i) /\ dirty_files[i].path \in Paths
  BY DEF TreeInv, DirtyFileInv
<1>2. i \in At(dirty_files[i].path)
  BY <1>1 DEF At, NewFile
<1>3. KindOf(i) = "file"
  BY <1>1, NewFileIds DEF TreeInv, TableInv, KindOf
<1> QED
  BY <1>1, <1>2, <1>3, TreeIs

\* The manifest lists directories of its own.
LEMMA ListedDirs ==
  ASSUME NEW p \in original_dirs
  PROVE  \E i \in DOMAIN Manifest : Manifest[i].kind = "dir" /\ Manifest[i].path = p
<1>1. original_dirs \subseteq
        {Manifest[i].path : i \in {j \in DOMAIN Manifest : Manifest[j].kind = "dir"}}
  BY ManifestAssumption
<1> QED
  BY <1>1

\* An export by the records is the tree.
LEMMA DiffInvMeans ==
  ASSUME TreeInv, DiffInv
  PROVE  DiffDescribesTree
<1> DEFINE original == {<<<<>>, "dir">>} \cup {<<Manifest[i].path, Manifest[i].kind>> : i \in DOMAIN Manifest}
           implied == {<<Manifest[i].path, "dir">> :
                         i \in {j \in DOMAIN Manifest :
                                 Manifest[j].kind = "dir" /\ Manifest[j].path \notin original_dirs}}
           files(state) == {<<dirty_files[i].path, "file">> :
                              i \in {j \in DOMAIN dirty_files : FileIs(j, state)}}
           dirs(state) == {<<dirty_dirs[i].path, "dir">> :
                              i \in {j \in DOMAIN dirty_dirs : DirIs(j, state)}}
           exported == (original \ (files("Deleted") \cup dirs("Deleted"))) \cup files("New") \cup dirs("New")
<1>1. ASSUME NEW i \in DOMAIN inodes, ~FileIs(i, "Deleted")
      PROVE  <<inodes[i].path, inodes[i].kind>> \notin files("Deleted") \cup dirs("Deleted")
  <2>1. ASSUME NEW j \in DOMAIN dirty_files, FileIs(j, "Deleted"),
               dirty_files[j].path = inodes[i].path
        PROVE  FALSE
    <3>1. j \in DOMAIN inodes /\ inodes[j].path = inodes[i].path
      BY <2>1 DEF TreeInv, DirtyFileInv
    <3>2. j = i
      BY <3>1 DEF TreeInv, IndexInv
    <3> QED
      BY <1>1, <2>1, <3>2
  <2>2. ASSUME NEW j \in DOMAIN dirty_dirs, DirIs(j, "Deleted"),
               dirty_dirs[j].path = inodes[i].path
        PROVE  FALSE
    BY <2>2 DEF TreeInv, DirtyDirInv, IndexInv
  <2> QED
    BY <2>1, <2>2
<1>2. ASSUME NEW i \in DOMAIN inodes, ~FileIs(i, "Deleted")
      PROVE  <<inodes[i].path, inodes[i].kind>> \in exported
  <2>1. CASE i = Root
    <3>1. <<inodes[i].path, inodes[i].kind>> \in original
      BY <2>1 DEF TreeInv, TableInv, RootEntry
    <3> QED
      BY <1>1, <1>2, <3>1
  <2>2. CASE i \in DOMAIN Manifest /\ inodes[i] = Manifest[i]
    <3>1. <<inodes[i].path, inodes[i].kind>> \in original
      BY <2>2
    <3> QED
      BY <1>1, <1>2, <3>1
  <2>3. CASE inodes[i].kind = "dir" /\ DirIs(i, "New")
    <3>1. i \in DOMAIN dirty_dirs /\ dirty_dirs[i].path = inodes[i].path
      BY <2>3 DEF TreeInv, DirtyDirInv, DirIs
    <3>2. <<inodes[i].path, inodes[i].kind>> \in dirs("New")
      BY <2>3, <3>1
    <3> QED
      BY <3>2
  <2>4. CASE inodes[i].kind = "dir" /\ inodes[i].path \in original_dirs
    <3>1. <<inodes[i].path, inodes[i].kind>> \in original
      BY <2>4, ListedDirs
    <3> QED
      BY <1>1, <1>2, <3>1
  <2> QED
    BY <2>1, <2>2, <2>3, <2>4 DEF DiffInv
<1>3. ASSUME NEW x \in Tree PROVE x \in exported
  <2>1. PICK p \in Paths : \E i \in Walk[p] : x = <<p, KindOf(i)>>
    BY DEF Tree
  <2>2. PICK i \in At(p) : x = <<p, KindOf(i)>>
    BY <2>1, WalkIsAt
  <2>3. CASE p \in DOMAIN path_index
    <3>1. i \in DOMAIN inodes /\ inodes[i].path = p /\ ~FileIs(i, "Deleted")
      BY <2>3 DEF At, TreeInv, IndexInv
    <3> QED
      BY <1>2, <2>2, <3>1 DEF KindOf
  <2>4. CASE p \notin DOMAIN path_index
    <3>1. i \in DOMAIN dirty_files /\ FileIs(i, "New") /\ dirty_files[i].path = p
      BY <2>4 DEF At
    <3>2. NewFile(i)
      BY <3>1 DEF TreeInv, DirtyFileInv
    <3>3. KindOf(i) = "file"
      BY <3>2, NewFileIds DEF TreeInv, TableInv, KindOf
    <3>4. x \in files("New")
      BY <2>2, <3>1, <3>3
    <3> QED
      BY <3>4
  <2> QED
    BY <2>3, <2>4
<1>4. ASSUME NEW x \in exported, x \notin implied PROVE x \in Tree
  <2>1. CASE x \in files("New")
    BY <2>1, NewFilesInTree
  <2>2. CASE x \in dirs("New")
    <3>1. PICK i \in DOMAIN dirty_dirs : DirIs(i, "New") /\ x = <<dirty_dirs[i].path, "dir">>
      BY <2>2
    <3>2. IsDir(i) /\ inodes[i].path = dirty_dirs[i].path
      BY <3>1 DEF TreeInv, DirtyDirInv
    <3> QED
      BY <3>1, <3>2, DirsAreThere, TableInTree
  <2>3. CASE x = <<<<>>, "dir">>
    <3>1. IsDir(Root) /\ inodes[Root].path = <<>>
      BY DEF TreeInv, TableInv, RootEntry, IsDir
    <3> QED
      BY <2>3, <3>1, DirsAreThere, TableInTree
  <2>4. ASSUME NEW i \in DOMAIN Manifest, x = <<Manifest[i].path, Manifest[i].kind>>,
               x \notin files("Deleted") \cup dirs("Deleted")
        PROVE  x \in Tree
    <3>1. CASE i \in DOMAIN inodes
      <4>1. inodes[i] = Manifest[i]
        BY <3>1, ManifestEntry DEF DiffInv
      <4>2. ~FileIs(i, "Deleted")
        <5>1. ASSUME FileIs(i, "Deleted") PROVE FALSE
          <6>1. /\ i \in DOMAIN dirty_files /\ inodes[i].kind = "file"
                /\ dirty_files[i].path = inodes[i].path
            BY <5>1 DEF TreeInv, DirtyFileInv, FileIs
          <6>2. x \in files("Deleted")
            BY <2>4, <4>1, <5>1, <6>1
          <6> QED
            BY <2>4, <6>2
        <5> QED
          BY <5>1
      <4> QED
        BY <2>4, <3>1, <4>1, <4>2, TableInTree
    <3>2. CASE i \notin DOMAIN inodes
      <4>1. Manifest[i].kind = "dir" /\ Manifest[i].path # <<>>
        BY <3>2, ManifestEntry DEF DiffInv
      <4>2. Manifest[i].path \in original_dirs
        <5>1. Manifest[i].path \notin original_dirs => x \in implied
          BY <2>4, <4>1
        <5> QED
          BY <1>4, <5>1
      <4>3. \A j \in DOMAIN dirty_dirs :
              DirIs(j, "Deleted") => dirty_dirs[j].path # Manifest[i].path
        BY <2>4, <4>1
      <4>4. Manifest[i].path \in DOMAIN path_index
        BY <3>2, <4>2, <4>3 DEF DiffInv
      <4> PICK j : j = path_index[Manifest[i].path]
        OBVIOUS
      <4>5. j \in DOMAIN inodes /\ inodes[j].path = Manifest[i].path
        BY <4>4 DEF TreeInv, IndexInv
      <4>6. j # Root
        BY <4>1, <4>5 DEF TreeInv, TableInv, RootEntry
      <4>7. inodes[j].kind = "dir"
        BY <3>2, <4>5, <4>6, ManifestPaths DEF DiffInv
      <4> QED
        BY <2>4, <4>1, <4>5, <4>7, DirsAreThere, TableInTree DEF IsDir
    <3> QED
      BY <3>1, <3>2
  <2> QED
    BY <1>4, <2>1, <2>2, <2>3, <2>4
<1> QED
  BY <1>3, <1>4 DEF DiffDescribesTree

\* What was answered ok is so in the tree.
LEMMA AnswerInvMeans ==
  ASSUME TreeInv, AnswerInv
  PROVE  DoneAsAnswered
<1>1. last.op = "create" /\ last.answer = "ok" => <<last.path, "file">> \in Tree
  BY NewFilesInTree DEF AnswerInv
<1>2. last.op = "mkdir" /\ last.answer = "ok" => <<last.path, "dir">> \in Tree
  <2> SUFFICES ASSUME last.op = "mkdir", last.answer = "ok" PROVE <<last.path, "dir">> \in Tree
    OBVIOUS
  <2>1. last.path \in DOMAIN path_index /\ IsDir(path_index[last.path])
    BY DEF AnswerInv
  <2>2. inodes[path_index[last.path]].path = last.path
    BY <2>1 DEF TreeInv, IndexInv
  <2> QED
    BY <2>1, <2>2, DirsAreThere, TableInTree
<1>3. last.op \in {"unlink", "rmdir"} /\ last.answer = "ok" => Walk[last.path] = {}
  BY WalkIsAt DEF AnswerInv
<1> QED
  BY <1>1, <1>2, <1>3 DEF DoneAsAnswered

\* Nothing is recorded at first, and nothing has changed.
LEMMA InitRecords ==
  ASSUME Init
  PROVE  DiffInv /\ AnswerInv
<1>1. /\ DOMAIN inodes = {Root} \cup DOMAIN Manifest
      /\ \A i \in DOMAIN Manifest : inodes[i] = Manifest[i] /\ i # Root
  BY ManifestEntry DEF Init, BuildFromManifest
<1>2. DiffInv
  BY <1>1 DEF Init, DiffInv
<1>3. AnswerInv
  BY InitTreeInv, AtRoot DEF Init, AnswerInv
<1> QED
  BY <1>2, <1>3

\* A call that leaves the table and the directories' records alone keeps them.
LEMMA SameRecords ==
  ASSUME DiffInv, UNCHANGED <<inodes, path_index, dirty_dirs>>
  PROVE  DiffInv'
BY DEF DiffInv, DirIs

\* create answers ok when the new file is there.
LEMMA CreateRecords ==
  ASSUME TreeInv, DiffInv, NEW p \in Paths, NEW name \in Names, Len(p) < MaxDepth,
         NEW d \in Walk[p], IsDir(d), Create(p, d, name)
  PROVE  DiffInv' /\ AnswerInv'
<1> PICK new, id, f : /\ new = Append(p, name) /\ id = FirstFileId + next_file
                     /\ f = [path |-> new, parent |-> d, state |-> "New"]
  OBVIOUS
<1>0. ParentPath(d) = p /\ new \in Paths
  BY Called
<1>1. DiffInv'
  BY SameRecords DEF Create, table
<1>2. CASE last' = [op |-> "create", path |-> new, answer |-> "EEXIST"]
  <2>1. last'.path = new /\ last'.answer # "ok"
    BY <1>2
  <2> QED
    BY <1>0, <1>1, <2>1 DEF AnswerInv
<1>3. CASE dirty_files' = With(dirty_files, id, f) /\ Answer("create", new, "ok")
  <2>1. id \in DOMAIN dirty_files' /\ dirty_files'[id] = f
    BY <1>3 DEF With
  <2>2. FileIs(id, "New")' /\ dirty_files'[id].path = new
    BY <2>1 DEF FileIs
  <2>3. last'.path = new /\ last'.op = "create"
    BY <1>3 DEF Answer
  <2> QED
    BY <1>0, <1>1, <2>1, <2>2, <2>3 DEF AnswerInv
<1> QED
  BY <1>0, <1>1, <1>2, <1>3 DEF Create, Answer

\* mkdir records a directory that the manifest does not list, and takes back the
\* record of a removal.
LEMMA MkDirRecords ==
  ASSUME TreeInv, DiffInv, NEW p \in Paths, NEW name \in Names, Len(p) < MaxDepth,
         NEW d \in Walk[p], IsDir(d), MkDir(p, d, name)
  PROVE  DiffInv' /\ AnswerInv'
<1> PICK new, id, e : /\ new = Append(p, name) /\ id = next_id
                     /\ e = [path |-> new, kind |-> "dir", parent |-> d]
  OBVIOUS
<1>0. /\ d \in DOMAIN inodes /\ inodes[d].path = p /\ new \in Paths \ {<<>>} /\ Front(new) = p
      /\ next_file' = next_file
  BY Called DEF MkDir
<1>1. CASE UNCHANGED <<table, dirty_dirs>> /\ Answer("mkdir", new, "EEXIST")
  BY <1>0, <1>1, SameRecords DEF table, Answer, AnswerInv
<1>2. CASE /\ GetByPath(new) = Nothing /\ next_id < FirstNewId + MaxNew
           /\ AddDirectory(new, d) /\ TrackCreated(new, next_id) /\ Answer("mkdir", new, "ok")
  <2>1. new \notin DOMAIN path_index
    BY <1>2, IndexFinds, InodesAreSomething
  <2>2. /\ IndexInv' /\ id \notin DOMAIN inodes /\ id \in TableIds
        /\ DOMAIN inodes' = DOMAIN inodes \cup {id} /\ inodes'[id] = e
        /\ \A i \in DOMAIN inodes : inodes'[i] = inodes[i]
        /\ DOMAIN path_index' = DOMAIN path_index \cup {new}
    BY <1>0, <1>2, <2>1, AddDirectoryKeeps
  <2>3. id \notin DOMAIN Manifest /\ id \notin DOMAIN dirty_dirs
    <3>1. id \in FirstNewId .. FirstNewId + MaxNew
      BY DEF TreeInv, TableInv, DirIds
    <3>2. \A i \in DOMAIN dirty_dirs : i \in Nat /\ i < id
      BY IdsAreApart DEF TreeInv, DirtyDirInv
    <3> QED
      BY <3>1, <3>2, ManifestEntry, IdsAreApart, BoundsAssumption
  <2>4. AnswerInv'
    <3>1. IsDir(id)' /\ inodes'[id].path = new
      BY <2>2 DEF IsDir
    <3>2. new \in DOMAIN path_index' /\ path_index'[new] = id
      BY <2>2, <3>1 DEF IndexInv, IsDir
    <3> QED
      BY <1>0, <1>2, <3>1, <3>2 DEF Answer, AnswerInv
  <2>5. ASSUME NEW i \in DOMAIN Manifest \ DOMAIN inodes'
        PROVE  /\ Manifest[i].kind = "dir"
               /\ Manifest[i].path \in original_dirs /\ Manifest[i].path \notin DOMAIN path_index' =>
                    /\ Manifest[i].path # new
                    /\ \E j \in DOMAIN dirty_dirs :
                         DirIs(j, "Deleted") /\ dirty_dirs[j].path = Manifest[i].path
    BY <2>2 DEF DiffInv
  <2>6. ASSUME \A j \in DOMAIN inodes : DirIs(j, "New") => DirIs(j, "New")',
               DirIs(id, "New")' \/ new \in original_dirs,
               NEW i \in DOMAIN inodes' \ {Root}
        PROVE  \/ i \in DOMAIN Manifest /\ inodes'[i] = Manifest[i]
               \/ /\ i \notin DOMAIN Manifest /\ inodes'[i].kind = "dir"
                  /\ DirIs(i, "New")' \/ inodes'[i].path \in original_dirs
    <3>1. CASE i = id
      <4>1. inodes'[i].kind = "dir" /\ inodes'[i].path = new /\ i \notin DOMAIN Manifest
        BY <2>2, <2>3, <3>1
      <4>2. DirIs(i, "New")' \/ new \in original_dirs
        BY <2>6, <3>1
      <4> QED
        BY <4>1, <4>2
    <3>2. CASE i # id
      <4>1. i \in DOMAIN inodes \ {Root} /\ inodes'[i] = inodes[i]
        BY <2>2, <3>2
      <4> QED
        BY <2>6, <4>1 DEF DiffInv
    <3> QED
      BY <3>1, <3>2
  <2>7. ASSUME NEW j \in DOMAIN dirty_dirs, DirIs(j, "Deleted"), dirty_dirs[j].path = new,
               dirty_dirs' = Without(dirty_dirs, j)
        PROVE  DiffInv'
    <3>1. /\ DOMAIN dirty_dirs' = DOMAIN dirty_dirs \ {j}
          /\ \A i \in DOMAIN dirty_dirs' : dirty_dirs'[i] = dirty_dirs[i]
      BY <2>7, WithoutIs
    <3>2. \A i \in DOMAIN dirty_dirs' : \A s : DirIs(i, s)' <=> DirIs(i, s)
      BY <3>1 DEF DirIs
    <3>3. \A i \in DOMAIN inodes : DirIs(i, "New") => DirIs(i, "New")'
      BY <2>7, <3>1 DEF DirIs
    <3>4. new \in original_dirs
      BY <2>7 DEF DiffInv
    <3>5. ASSUME NEW i \in DOMAIN Manifest \ DOMAIN inodes', Manifest[i].path \in original_dirs,
                 Manifest[i].path \notin DOMAIN path_index'
          PROVE  \E k \in DOMAIN dirty_dirs' :
                   DirIs(k, "Deleted")' /\ dirty_dirs'[k].path = Manifest[i].path
      <4>1. PICK k \in DOMAIN dirty_dirs :
                   /\ DirIs(k, "Deleted") /\ dirty_dirs[k].path = Manifest[i].path
                   /\ Manifest[i].path # new
        BY <2>5, <3>5
      <4>2. k \in DOMAIN dirty_dirs'
        BY <2>7, <3>1, <4>1
      <4> QED
        BY <3>1, <3>2, <4>1, <4>2
    <3>6. \A i \in DOMAIN dirty_dirs' : dirty_dirs'[i].path \in original_dirs <=> DirIs(i, "Deleted")'
      BY <3>1, <3>2 DEF DiffInv
    <3> QED
      BY <2>5, <2>6, <3>3, <3>4, <3>5, <3>6 DEF DiffInv
  <2>8. ASSUME new \in original_dirs, dirty_dirs' = dirty_dirs
        PROVE  DiffInv'
    <3>1. \A i, s : DirIs(i, s)' <=> DirIs(i, s)
      BY <2>8 DEF DirIs
    <3>2. \A i \in DOMAIN dirty_dirs' : dirty_dirs'[i].path \in original_dirs <=> DirIs(i, "Deleted")'
      BY <2>8, <3>1 DEF DiffInv
    <3> QED
      BY <2>5, <2>6, <2>8, <3>1, <3>2 DEF DiffInv
  <2>9. ASSUME new \notin original_dirs,
               dirty_dirs' = With(dirty_dirs, id, [path |-> new, state |-> "New"])
        PROVE  DiffInv'
    <3> PICK f : f = [path |-> new, state |-> "New"]
      OBVIOUS
    <3>1. /\ DOMAIN dirty_dirs' = DOMAIN dirty_dirs \cup {id} /\ dirty_dirs'[id] = f
          /\ \A i \in DOMAIN dirty_dirs : dirty_dirs'[i] = dirty_dirs[i]
      BY <2>3, <2>9 DEF With
    <3>2. \A i \in DOMAIN dirty_dirs : \A s : DirIs(i, s)' <=> DirIs(i, s)
      BY <3>1 DEF DirIs
    <3>3. DirIs(id, "New")' /\ ~DirIs(id, "Deleted")' /\ dirty_dirs'[id].path = new
      BY <3>1 DEF DirIs
    <3>4. \A i \in DOMAIN inodes : DirIs(i, "New") => DirIs(i, "New")'
      BY <3>2 DEF DirIs
    <3>5. \A i \in DOMAIN dirty_dirs' : dirty_dirs'[i].path \in original_dirs <=> DirIs(i, "Deleted")'
      BY <2>9, <3>1, <3>2, <3>3 DEF DiffInv
    <3>6. ASSUME NEW i \in DOMAIN Manifest \ DOMAIN inodes', Manifest[i].path \in original_dirs,
                 Manifest[i].path \notin DOMAIN path_index'
          PROVE  \E k \in DOMAIN dirty_dirs' :
                   DirIs(k, "Deleted")' /\ dirty_dirs'[k].path = Manifest[i].path
      BY <2>5, <3>1, <3>2, <3>6
    <3> QED
      BY <2>5, <2>6, <3>3, <3>4, <3>5, <3>6 DEF DiffInv
  <2> QED
    BY <1>2, <2>4, <2>7, <2>8, <2>9 DEF TrackCreated
<1> QED
  BY <1>1, <1>2 DEF MkDir

\* unlink leaves nothing at the path when it answers ok.
LEMMA UnlinkRecords ==
  ASSUME TreeInv, DiffInv, NEW p \in Paths, NEW name \in Names, Len(p) < MaxDepth,
         NEW d \in Walk[p], IsDir(d), Unlink(p, d, name)
  PROVE  DiffInv' /\ AnswerInv'
<1> PICK new, found : /\ new = Append(p, name)
                      /\ found = IF GetByPath(new) # Nothing THEN {GetByPath(new)}
                                 ELSE Named(NewFiles(d), name)
  OBVIOUS
<1>0. /\ new \in Paths /\ d \in DOMAIN inodes /\ inodes[d].path = p
      /\ UNCHANGED <<inodes, path_index, dirty_dirs>>
  BY Called DEF Unlink, table
<1>1. DiffInv'
  BY <1>0, SameRecords
<1>2. PICK i \in found :
        \/ /\ FileIs(i, "New") /\ dirty_files' = Without(dirty_files, i)
           /\ Answer("unlink", new, "ok")
        \/ /\ ~FileIs(i, "New") /\ KindOf(i) = "file"
           /\ dirty_files' = With(dirty_files, i,
                                  [path |-> new, parent |-> inodes[i].parent, state |-> "Deleted"])
           /\ \E a \in {"ok", "EIO"} : Answer("unlink", new, a)
        \/ Answer("unlink", new, "EIO")
  BY DEF Unlink
<1>3. last'.path = new /\ last'.op = "unlink"
  BY <1>2 DEF Answer
<1>4. ASSUME last'.answer = "ok" PROVE At(new)' = {}
  <2>1. CASE FileIs(i, "New") /\ dirty_files' = Without(dirty_files, i)
    <3>1. /\ DOMAIN dirty_files' = DOMAIN dirty_files \ {i}
          /\ \A j \in DOMAIN dirty_files' : dirty_files'[j] = dirty_files[j]
      BY <2>1, WithoutIs
    <3>2. NewFile(i) /\ i \in DOMAIN dirty_files /\ dirty_files[i].path \in Paths
      BY <2>1 DEF TreeInv, DirtyFileInv, FileIs
    <3>3. new \notin DOMAIN path_index
      <4>1. ASSUME new \in DOMAIN path_index PROVE FALSE
        <5>1. GetByPath(new) = path_index[new] /\ path_index[new] # Nothing
              /\ path_index[new] \in DOMAIN inodes
          BY <4>1, IndexFinds, InodesAreSomething
        <5>2. i \in TableIds
          BY <5>1 DEF TreeInv, TableInv
        <5> QED
          BY <3>2, <5>2, NewFileIds
      <4> QED
        BY <4>1
    <3>4. GetByPath(new) = Nothing
      BY <3>3, IndexFinds
    <3>5. dirty_files[i].parent = d /\ Last(dirty_files[i].path) = name
      BY <3>4, NamedFiles
    <3>6. dirty_files[i].path = new
      <4>1. dirty_files[i].path # <<>> /\ Front(dirty_files[i].path) = p
        BY <1>0, <3>2, <3>5 DEF NewFile
      <4> QED
        BY <3>2, <3>5, <4>1, Shorter
    <3>7. \A j \in DOMAIN dirty_files' : ~(FileIs(j, "New")' /\ dirty_files'[j].path = new)
      BY <2>1, <3>1, <3>2, <3>6 DEF TreeInv, DirtyFileInv, FileIs
    <3> QED
      BY <1>0, <3>3, <3>7 DEF At
  <2>2. CASE /\ ~FileIs(i, "New") /\ KindOf(i) = "file"
             /\ dirty_files' = With(dirty_files, i,
                                    [path |-> new, parent |-> inodes[i].parent, state |-> "Deleted"])
    <3>1. GetByPath(new) # Nothing
      BY <2>2, NamedFiles
    <3>2. new \in DOMAIN path_index /\ i = path_index[new]
      BY <3>1, IndexFinds
    <3>3. FileIs(i, "Deleted")'
      BY <2>2 DEF With, FileIs
    <3> QED
      BY <1>0, <3>2, <3>3 DEF At
  <2>3. CASE Answer("unlink", new, "EIO")
    BY <1>4, <2>3 DEF Answer
  <2> QED
    BY <1>2, <2>1, <2>2, <2>3
<1> QED
  BY <1>0, <1>1, <1>3, <1>4 DEF AnswerInv

\* rmdir records the removal of a directory that the manifest lists, by its path.
LEMMA RmDirRecords ==
  ASSUME TreeInv, DiffInv, NEW p \in Paths, NEW name \in Names, Len(p) < MaxDepth,
         NEW d \in Walk[p], IsDir(d), RmDir(p, d, name)
  PROVE  DiffInv' /\ AnswerInv'
<1> PICK new, i : new = Append(p, name) /\ i = children[d][name]
  OBVIOUS
<1>0. /\ d \in DOMAIN inodes /\ inodes[d].path = p /\ d \in DOMAIN children
      /\ new \in Paths \ {<<>>} /\ Front(new) = p /\ Last(new) = name /\ Lookup(d, name) = At(new)
  BY Called
<1>1. /\ next_file' = next_file /\ dirty_files' = WithoutNewFilesUnder(new)
      /\ name \in DOMAIN children[d]
  BY DEF RmDir
<1>2. CASE UNCHANGED <<table, dirty_dirs>> /\ Answer("rmdir", new, "ENOTEMPTY")
  <2>1. last'.path = new /\ last'.answer # "ok"
    BY <1>2 DEF Answer
  <2>2. DiffInv'
    BY <1>2, SameRecords DEF table
  <2> QED
    BY <1>0, <2>1, <2>2 DEF AnswerInv
<1>3. CASE /\ DOMAIN children[i] = {} /\ TrackDeleted(i) /\ RemoveDirectory(d, i)
           /\ Answer("rmdir", new, "ok")
  <2>1. i \in DOMAIN inodes \ {Root} /\ inodes[i].path = new
    <3>1. i \in DOMAIN inodes \ {Root} /\ inodes[i].parent = d /\ Last(inodes[i].path) = name
      BY <1>0, <1>1 DEF TreeInv, ChildInv
    <3>2. inodes[i].path \in Paths \ {<<>>} /\ Front(inodes[i].path) = p
      BY <1>0, <3>1 DEF TreeInv, TableInv, Entries
    <3> QED
      BY <1>0, <3>1, <3>2, Shorter
  <2>2. IsDir(i) /\ i \in DOMAIN children
    <3>1. PICK j \in At(new) : IsDir(j)
      BY <1>0 DEF RmDir
    <3>2. new \in DOMAIN path_index /\ path_index[new] = i
      BY <2>1 DEF TreeInv, IndexInv
    <3>3. IsDir(i)
      BY <3>1, <3>2 DEF At
    <3> QED
      BY <2>1, <3>3 DEF TreeInv, ChildInv
  <2>3. /\ DOMAIN inodes' = DOMAIN inodes \ {i} /\ \A j \in DOMAIN inodes' : inodes'[j] = inodes[j]
        /\ DOMAIN path_index' = DOMAIN path_index \ {new}
    <3>1. /\ d \in DOMAIN children /\ name \in DOMAIN children[d] /\ i = children[d][name]
          /\ DOMAIN children[i] = {} /\ next_file' = next_file /\ RemoveDirectory(d, i)
      BY <1>0, <1>1, <1>3
    <3>2. i \in DOMAIN children
      BY <2>2
    <3>3. /\ TableInv' /\ IndexInv' /\ ChildInv' /\ next_id' = next_id
          /\ DOMAIN inodes' = DOMAIN inodes \ {i} /\ \A j \in DOMAIN inodes' : inodes'[j] = inodes[j]
          /\ DOMAIN path_index' = DOMAIN path_index \ {inodes[i].path}
      BY <3>1, <3>2, RemoveDirectoryKeeps
    <3> QED
      BY <2>1, <3>3
  <2>4. At(new)' = {}
    <3>1. ASSUME NEW j \in DOMAIN dirty_files', FileIs(j, "New")' PROVE dirty_files'[j].path # new
      <4>1. j \in DOMAIN dirty_files /\ dirty_files'[j] = dirty_files[j]
        BY <1>1, <3>1 DEF WithoutNewFilesUnder, Restrict
      <4>2. NewFile(j)
        BY <3>1, <4>1 DEF FileIs, TreeInv, DirtyFileInv
      <4>3. new \in DOMAIN path_index
        BY <2>1 DEF TreeInv, IndexInv
      <4> QED
        BY <4>1, <4>2, <4>3 DEF NewFile
    <3> QED
      BY <2>3, <3>1 DEF At
  <2>5. AnswerInv'
    <3>1. last'.path = new /\ last'.op = "rmdir"
      BY <1>3 DEF Answer
    <3> QED
      BY <1>0, <2>4, <3>1 DEF AnswerInv
  <2>6. \A j \in DOMAIN Manifest : j # i /\ j \in DOMAIN inodes => j \in DOMAIN inodes'
    BY <2>3
  <2>7. i \in DOMAIN Manifest => Manifest[i].kind = "dir" /\ Manifest[i].path = new
    <3>1. i \in DOMAIN Manifest => inodes[i] = Manifest[i]
      BY <2>1 DEF DiffInv
    <3> QED
      BY <2>1, <2>2, <3>1 DEF IsDir
  <2>8. CASE DirIs(i, "New") /\ dirty_dirs' = Without(dirty_dirs, i)
    <3>1. /\ DOMAIN dirty_dirs' = DOMAIN dirty_dirs \ {i}
          /\ \A j \in DOMAIN dirty_dirs' : dirty_dirs'[j] = dirty_dirs[j]
      BY <2>8 DEF Without, Restrict
    <3>2. \A j \in DOMAIN dirty_dirs' : \A s : DirIs(j, s)' <=> DirIs(j, s)
      BY <3>1 DEF DirIs
    <3>3. new \notin original_dirs
      <4>1. i \in DOMAIN dirty_dirs /\ dirty_dirs[i].path = new /\ ~DirIs(i, "Deleted")
        BY <2>1, <2>8 DEF TreeInv, DirtyDirInv, DirIs
      <4> QED
        BY <4>1 DEF DiffInv
    <3>4. ~DirIs(i, "Deleted")
      BY <2>8 DEF DirIs
    <3>5. ASSUME NEW j \in DOMAIN inodes' \ {Root}
          PROVE  \/ j \in DOMAIN Manifest /\ inodes'[j] = Manifest[j]
                 \/ /\ j \notin DOMAIN Manifest /\ inodes'[j].kind = "dir"
                    /\ DirIs(j, "New")' \/ inodes'[j].path \in original_dirs
      <4>1. j \in DOMAIN inodes \ {Root} /\ j # i /\ inodes'[j] = inodes[j]
        BY <2>3
      <4>2. DirIs(j, "New") => DirIs(j, "New")'
        BY <3>1, <4>1 DEF DirIs
      <4> QED
        BY <4>1, <4>2 DEF DiffInv
    <3>6. ASSUME NEW j \in DOMAIN Manifest \ DOMAIN inodes'
          PROVE  /\ Manifest[j].kind = "dir"
                 /\ Manifest[j].path \in original_dirs =>
                      \/ Manifest[j].path \in DOMAIN path_index'
                      \/ \E k \in DOMAIN dirty_dirs' :
                           DirIs(k, "Deleted")' /\ dirty_dirs'[k].path = Manifest[j].path
      <4>1. CASE j = i
        BY <2>7, <3>3, <4>1
      <4>2. CASE j # i
        <5>1. j \notin DOMAIN inodes
          BY <2>6, <4>2
        <5>2. \A k \in DOMAIN dirty_dirs : DirIs(k, "Deleted") => k \in DOMAIN dirty_dirs'
          BY <3>1, <3>4
        <5> QED
          BY <2>3, <3>1, <3>2, <3>3, <5>1, <5>2 DEF DiffInv
      <4> QED
        BY <4>1, <4>2
    <3>7. \A j \in DOMAIN dirty_dirs' : dirty_dirs'[j].path \in original_dirs <=> DirIs(j, "Deleted")'
      BY <3>1, <3>2 DEF DiffInv
    <3> QED
      BY <2>5, <3>5, <3>6, <3>7 DEF DiffInv
  <2>9. CASE /\ ~DirIs(i, "New") /\ new \in original_dirs
             /\ dirty_dirs' = With(dirty_dirs, i, [path |-> new, state |-> "Deleted"])
    <3> PICK f : f = [path |-> new, state |-> "Deleted"]
      OBVIOUS
    <3>1. /\ DOMAIN dirty_dirs' = DOMAIN dirty_dirs \cup {i} /\ dirty_dirs'[i] = f
          /\ \A j \in DOMAIN dirty_dirs \ {i} : dirty_dirs'[j] = dirty_dirs[j]
      BY <2>9 DEF With
    <3>2. \A j \in DOMAIN dirty_dirs \ {i} : \A s : DirIs(j, s)' <=> DirIs(j, s)
      BY <3>1 DEF DirIs
    <3>3. DirIs(i, "Deleted")' /\ dirty_dirs'[i].path = new
      BY <3>1 DEF DirIs
    <3>4. i \notin DOMAIN dirty_dirs
      BY <2>1, <2>9 DEF TreeInv, DirtyDirInv, DirIs
    <3>5. ASSUME NEW j \in DOMAIN inodes' \ {Root}
          PROVE  \/ j \in DOMAIN Manifest /\ inodes'[j] = Manifest[j]
                 \/ /\ j \notin DOMAIN Manifest /\ inodes'[j].kind = "dir"
                    /\ DirIs(j, "New")' \/ inodes'[j].path \in original_dirs
      <4>1. j \in DOMAIN inodes \ {Root} /\ j # i /\ inodes'[j] = inodes[j]
        BY <2>3
      <4>2. DirIs(j, "New") => DirIs(j, "New")'
        BY <3>1, <4>1 DEF DirIs
      <4> QED
        BY <4>1, <4>2 DEF DiffInv
    <3>6. ASSUME NEW j \in DOMAIN Manifest \ DOMAIN inodes'
          PROVE  /\ Manifest[j].kind = "dir"
                 /\ Manifest[j].path \in original_dirs =>
                      \/ Manifest[j].path \in DOMAIN path_index'
                      \/ \E k \in DOMAIN dirty_dirs' :
                           DirIs(k, "Deleted")' /\ dirty_dirs'[k].path = Manifest[j].path
      <4>1. CASE Manifest[j].path = new
        <5>1. Manifest[j].kind = "dir"
          <6>1. j = i \/ j \notin DOMAIN inodes
            BY <2>6
          <6> QED
            BY <2>7, <6>1 DEF DiffInv
        <5> QED
          BY <3>1, <3>3, <4>1, <5>1
      <4>2. CASE Manifest[j].path # new
        <5>1. j \notin DOMAIN inodes
          BY <2>6, <2>7, <4>2
        <5>2. /\ Manifest[j].kind = "dir"
              /\ Manifest[j].path \in original_dirs =>
                   \/ Manifest[j].path \in DOMAIN path_index
                   \/ \E k \in DOMAIN dirty_dirs :
                        DirIs(k, "Deleted") /\ dirty_dirs[k].path = Manifest[j].path
          BY <5>1 DEF DiffInv
        <5>3. CASE Manifest[j].path \in DOMAIN path_index
          BY <2>3, <4>2, <5>2, <5>3
        <5>4. CASE \E k \in DOMAIN dirty_dirs :
                     DirIs(k, "Deleted") /\ dirty_dirs[k].path = Manifest[j].path
          <6>1. PICK k \in DOMAIN dirty_dirs :
                     DirIs(k, "Deleted") /\ dirty_dirs[k].path = Manifest[j].path
            BY <5>4
          <6>2. k \in DOMAIN dirty_dirs' /\ DirIs(k, "Deleted")' /\ dirty_dirs'[k].path = Manifest[j].path
            BY <3>1, <3>4, <6>1 DEF DirIs
          <6> QED
            BY <5>2, <6>2
        <5> QED
          BY <5>2, <5>3, <5>4
      <4> QED
        BY <4>1, <4>2
    <3>7. \A j \in DOMAIN dirty_dirs' : dirty_dirs'[j].path \in original_dirs <=> DirIs(j, "Deleted")'
      <4>1. \A j \in DOMAIN dirty_dirs : dirty_dirs[j].path \in original_dirs <=> DirIs(j, "Deleted")
        BY DEF DiffInv
      <4>2. \A j \in DOMAIN dirty_dirs : dirty_dirs'[j] = dirty_dirs[j] /\ j \in DOMAIN dirty_dirs'
        BY <3>1, <3>4
      <4>3. dirty_dirs'[i].path \in original_dirs /\ DirIs(i, "Deleted")'
        BY <2>9, <3>3
      <4>4. \A j \in DOMAIN dirty_dirs : dirty_dirs'[j].path \in original_dirs <=> DirIs(j, "Deleted")'
        BY <4>1, <4>2 DEF DirIs
      <4> QED
        BY <3>1, <4>3, <4>4
    <3> QED
      BY <2>5, <3>5, <3>6, <3>7 DEF DiffInv
  <2>10. CASE ~DirIs(i, "New") /\ new \notin original_dirs /\ dirty_dirs' = dirty_dirs
    <3>1. \A j : \A s : DirIs(j, s)' <=> DirIs(j, s)
      BY <2>10 DEF DirIs
    <3>2. ASSUME NEW j \in DOMAIN inodes' \ {Root}
          PROVE  \/ j \in DOMAIN Manifest /\ inodes'[j] = Manifest[j]
                 \/ /\ j \notin DOMAIN Manifest /\ inodes'[j].kind = "dir"
                    /\ DirIs(j, "New")' \/ inodes'[j].path \in original_dirs
      BY <2>3, <3>1 DEF DiffInv
    <3>3. ASSUME NEW j \in DOMAIN Manifest \ DOMAIN inodes'
          PROVE  /\ Manifest[j].kind = "dir"
                 /\ Manifest[j].path \in original_dirs =>
                      \/ Manifest[j].path \in DOMAIN path_index'
                      \/ \E k \in DOMAIN dirty_dirs' :
                           DirIs(k, "Deleted")' /\ dirty_dirs'[k].path = Manifest[j].path
      <4>1. CASE j = i
        BY <2>7, <2>10, <4>1
      <4>2. CASE j # i
        <5>1. j \notin DOMAIN inodes
          BY <2>6, <4>2
        <5>2. /\ Manifest[j].kind = "dir"
              /\ Manifest[j].path \in original_dirs =>
                   \/ Manifest[j].path \in DOMAIN path_index
                   \/ \E k \in DOMAIN dirty_dirs :
                        DirIs(k, "Deleted") /\ dirty_dirs[k].path = Manifest[j].path
          BY <5>1 DEF DiffInv
        <5> QED
          BY <2>3, <2>10, <3>1, <5>2
      <4> QED
        BY <4>1, <4>2
    <3>4. \A j \in DOMAIN dirty_dirs' : dirty_dirs'[j].path \in original_dirs <=> DirIs(j, "Deleted")'
      BY <2>10, <3>1 DEF DiffInv
    <3> QED
      BY <2>5, <3>2, <3>3, <3>4 DEF DiffInv
  <2> QED
    BY <1>3, <2>1, <2>8, <2>9, <2>10 DEF TrackDeleted
<1> QED
  BY <1>2, <1>3 DEF RmDir

\* In every reachable state, what would be exported is the tree that the user
\* sees, and what was answered ok has been done.
THEOREM RecordsCorrect == Spec => [](DiffDescribesTree /\ DoneAsAnswered)
<1> DEFINE Records == DiffInv /\ AnswerInv
<1>1. Init => Records
  BY InitRecords
<1>2. TreeInv /\ Records /\ [Next]_vars => Records'
  <2> SUFFICES ASSUME TreeInv, Records, [Next]_vars PROVE Records'
    OBVIOUS
  <2>1. CASE Next
    BY <2>1, CreateRecords, MkDirRecords, UnlinkRecords, RmDirRecords DEF Next
  <2>2. CASE UNCHANGED vars
    <3>1. DiffInv'
      BY <2>2, SameRecords DEF vars
    <3>2. AnswerInv'
      BY <2>2 DEF vars, AnswerInv, At, FileIs, IsDir
    <3> QED
      BY <3>1, <3>2
  <2> QED
    BY <2>1, <2>2
<1>3. TreeInv /\ Records => DiffDescribesTree /\ DoneAsAnswered
  BY DiffInvMeans, AnswerInvMeans
<1> HIDE DEF Records
<1> QED
  BY <1>1, <1>2, <1>3, TreeInvHolds, PTL DEF Spec
=============================================================================
