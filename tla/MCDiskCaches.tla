---------------------------- MODULE MCDiskCaches ----------------------------
(* The caches on disk, which share nothing, one at a time: see focus. *)
EXTENDS ReadCache, LookupCaches, TLC

CONSTANTS c1, c2, h1, h2, Writers, w1, w2, MaxWrites, MaxStops

VARIABLES
  focus,  \* bound: "read", "write", "hash" or "object"
  entry, content, tombstone, writer, writes, stops, memory, expected

\* x.txt, x.part0 and x.tmp have one temporary name, which is the name of the
\* third one; y has a temporary name of its own.
Paths  == {"x.txt", "x.part0", "x.tmp", "y"}
Temp   == [p \in Paths |-> IF p = "y" THEN "y.tmp" ELSE "x.tmp"]
Hidden == {"x.part0", "x.tmp", "y.tmp"}
Parts  == {"x.part0"}

Written == INSTANCE WriteCache

ASSUME WrittenAssumption == Written!WriteCacheAssumption
ASSUME TablesAssumption  == LookupAssumption /\ ~EditsKeepStat

Lengths == [h \in Hashes |-> IF h = h1 THEN 1 ELSE 2]

writtenVars == <<entry, content, tombstone, writer, writes, stops, memory, expected>>
vars == <<cacheVars, writtenVars, lookupVars, focus>>

Init ==
  /\ ReadCacheInit /\ Written!WriteCacheInit /\ LookupInit
  /\ focus \in {"read", "write", "hash", "object"}

Next ==
  /\ UNCHANGED focus
  /\ \/ focus = "read"   /\ ReadCacheNext /\ UNCHANGED <<writtenVars, lookupVars>>
     \/ focus = "write"  /\ Written!WriteCacheNext /\ UNCHANGED <<cacheVars, lookupVars>>
     \/ focus = "hash"   /\ HashNext /\ UNCHANGED <<cacheVars, writtenVars>>
     \/ focus = "object" /\ ObjectNext /\ UNCHANGED <<cacheVars, writtenVars>>

Spec == Init /\ [][Next]_vars

CachesTypeOK       == ReadCacheTypeOK /\ Written!WriteCacheTypeOK /\ LookupTypeOK
CallsLast          == Written!CallsLast
ListedWasWritten   == Written!ListedWasWritten

\* Of the files of the two caches: an object is stored whole, the size covers the
\* files, no call fails for another one's, and what is listed was written.
DiskFilesAreSound ==
  CachesTypeOK /\ WholeUnlessShared /\ SizeCoversFiles /\ CallsLast /\ ListedWasWritten

=============================================================================
