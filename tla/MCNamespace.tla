---------------------------- MODULE MCNamespace ----------------------------
(* An instance of FsKit for TLC, of the Namespace it extends, and of ReadPaths: *)
(* the manifest has a directory with a file, an empty directory that it lists,  *)
(* and a symbolic link.  A behaviour is one of the writable FUSE session, whose *)
(* handlers are the steps of Namespace, one of the FSKit bridge, or one of the  *)
(* front ends that read a manifest: reads through handles, or listings.         *)
EXTENDS FsKit, TLC

CONSTANTS
  MaxKitNew,    \* bound: directories and files made by the bridge
  ReadLengths,  \* ReadPaths' Lengths and PageSize
  ReadPage,
  ChunkSize, MaxHandles, Damaged

VARIABLES frontEnd, mount, pool, disk, open_files, next_open, listing, answer

readVars == <<mount, pool, disk, open_files, next_open, listing, answer>>

MCDir(p, n) == [type |-> "dir", parent |-> p, name |-> n, size |-> 0, kind |-> "none", hashes |-> <<>>]
MCFile(p, n, size, kind, hashes) ==
  [type |-> "file", parent |-> p, name |-> n, size |-> size, kind |-> kind, hashes |-> hashes]

\* A directory with a file of one object and one of three chunks, the second of
\* which is the first one's object; a file not yet hashed, an empty file, a link.
ReadInodes ==
  <<MCDir(1, "/"), MCDir(1, "a"), MCFile(2, "a", 2, "single", <<"x">>),
    MCFile(2, "b", 5, "chunked", <<"y", "x", "z">>),
    MCFile(1, "c", 4, "relaxed", <<>>), MCFile(1, "d", 0, "single", <<"e">>),
    [MCDir(1, "e") EXCEPT !.type = "symlink"]>>

Stored == [x |-> <<1, 2>>, y |-> <<3, 4>>, z |-> <<5>>, e |-> <<>>]

Away == {{}, {"x"}, {"y", "z"}}

RP == INSTANCE ReadPaths WITH
  Inodes <- ReadInodes, Objects <- Stored, Whole <- Stored, Outages <- Away,
  Lengths <- ReadLengths, PageSize <- ReadPage, handles <- open_files,
  next_handle <- next_open, reply <- answer

ASSUME ReadPathsAssumption == RP!ReadAssumption

SmallManifest ==
  2 :> [path |-> <<"a">>, kind |-> "dir", parent |-> Root] @@
  3 :> [path |-> <<"a", "b">>, kind |-> "dir", parent |-> 2] @@
  4 :> [path |-> <<"a", "a">>, kind |-> "file", parent |-> 2] @@
  5 :> [path |-> <<"b">>, kind |-> "symlink", parent |-> Root]

ListedDirs == {<<"a", "b">>}

ThreadSymmetry == Permutations(Threads)

MCInit ==
  /\ KitInit /\ RP!Init
  /\ frontEnd \in {"fuse", "fskit", "reads", "listings"}
  /\ frontEnd # "fskit" => order = CHOOSE o \in Orders(children, DOMAIN children) : TRUE
  /\ frontEnd \in {"fuse", "fskit"} => mount = "fuse"
  /\ frontEnd = "listings" => mount = "fuse"

MCNext ==
  /\ UNCHANGED frontEnd
  /\ \/ frontEnd = "fuse" /\ Next /\ UNCHANGED <<kitVars, readVars>>
     \/ /\ frontEnd = "fskit" /\ KitNext /\ UNCHANGED readVars
        /\ next_id' <= FirstNewId + MaxKitNew /\ next_file' <= 1 + MaxKitNew
     \/ /\ frontEnd \in {"reads", "listings"} /\ RP!Next /\ UNCHANGED allVars
        /\ IF frontEnd = "reads" THEN listing' = RP!NoListing
             /\ answer'.what \notin {"entry", "target", "ENOENT", "ENOTDIR", "EINVAL"}
           ELSE UNCHANGED <<pool, open_files>>

MCSpec == MCInit /\ [][MCNext]_<<allVars, readVars, frontEnd>>

\* The properties of ReadPaths, of this instance.
ReadsAreSlices       == RP!ReadsAreSlices
NeverPanics          == RP!NeverPanics
CachesHoldObjects    == RP!CachesHoldObjects
PagesAddUp           == RP!PagesAddUp
CachedReadsSucceed   == RP!CachedReadsSucceed

\* What is recorded for the export leads from the manifest to that tree, which is
\* the one that the answers of the calls describe.
ChangesDescribeTree == DiffIsTree /\ DoneAsAnswered

\* Of the FSKit bridge: item ids lead where paths lead, an enumeration by pages
\* misses nothing that was there all the time, and synchronisation leaves no
\* file behind.
BridgeIsComplete ==
  /\ frontEnd = "fskit" => KitTypeOK
  /\ IdsAgreeWithPaths /\ EnumerationIsComplete /\ SyncIsComplete

\* Of the mounts that read: bytes, caches and listings are those of the manifest.
ReadsAreRight == RP!TypeOK /\ ReadsAreSlices /\ NeverPanics /\ CachesHoldObjects /\ PagesAddUp

=============================================================================
