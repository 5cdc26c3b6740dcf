------------------------------- MODULE Grouping -------------------------------
(***************************************************************************)
(* Asset roots: how input files, output directories and referenced paths   *)
(* are grouped under common roots (profiles/src/grouping.rs, types.rs).    *)
(* A path is the sequence of its names, the root directory is << >>.       *)
(* `disk` has the paths that are there and, of them, those of files.       *)
(***************************************************************************)
EXTENDS Naturals, Sequences, SequencesExt, FiniteSets, FiniteSetsExt

\* A profile has the roots of its LOCAL and of its SHARED locations.
Profile(local, shared) == [local |-> local, shared |-> shared]

IsUnderShared(p, profile) == \E s \in profile.shared : IsPrefix(s, p)

\* The innermost LOCAL location around a path, or the top of the file system.
FindRoot(p, profile) ==
  LET around == {l \in profile.local : IsPrefix(l, p)} IN
  IF around = {} THEN << >> ELSE CHOOSE l \in around : \A k \in around : Len(k) <= Len(l)

\* Mutation: the common path of the first and the last.
CommonPath_Pair(paths) ==
  LET p == CHOOSE q \in paths : \A r \in paths : Len(q) <= Len(r)
      o == CHOOSE q \in paths : \A r \in paths : Len(q) >= Len(r)
      n == Max({k \in 0 .. Len(p) : SubSeq(p, 1, k) = SubSeq(o, 1, k)}) IN
  SubSeq(p, 1, n)

\* The longest path all of them begin with; of a single path, the path.
CommonPath(paths) ==
  LET p == CHOOSE q \in paths : TRUE
      n == Max({k \in 0 .. Len(p) : \A q \in paths : Len(q) >= k /\ SubSeq(q, 1, k) = SubSeq(p, 1, k)}) IN
  SubSeq(p, 1, n)

\* The directory of it, if it is a file.
RootPath(paths, disk) ==
  LET common == CommonPath(paths) IN IF common \in disk.files THEN Front(common) ELSE common

\* group_asset_paths
Groups(inputs, outputs, references, profile, disk) ==
  LET Under(S, key) == {p \in S : ~IsUnderShared(p, profile) /\ FindRoot(p, profile) = key}
      all  == inputs \cup outputs \cup references
      keys == {FindRoot(p, profile) : p \in {q \in all : ~IsUnderShared(q, profile)}} IN
  {[root       |-> RootPath(Under(all, key), disk),
    location   |-> key,
    inputs     |-> Under(inputs, key),
    outputs    |-> Under(outputs, key),
    references |-> Under(references, key)] : key \in keys}

\* group_asset_paths_validated: inputs that are missing become references, and
\* directories are left out, unless the paths must exist.
GroupsValidated(inputs, outputs, references, profile, strict, disk) ==
  LET mine    == {p \in inputs : ~IsUnderShared(p, profile)}
      missing == {p \in mine : p \notin disk.there}
      valid   == mine \cap disk.files IN
  IF strict /\ valid # mine THEN [error |-> TRUE, groups |-> {}]
  ELSE [error |-> FALSE, groups |-> Groups(valid, outputs, references \cup missing, profile, disk)]
=============================================================================
