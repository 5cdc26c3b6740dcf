------------------------------ MODULE MCSerial ------------------------------
(***************************************************************************)
(* What long sequences of calls do, for TLC: one caller on the copy-on-    *)
(* write files, one on the block pool, which is how a FUSE session drives  *)
(* them, and two on the first pool, whose calls its mutex puts in a row.   *)
(* A run is about one of the three.                                        *)
(***************************************************************************)
EXTENDS MCDirtyFile

CONSTANTS Callers, HashIds, InodeIds, OldInodes, NoKey

VARIABLES part,
          key_index, blocks, obj, pending, fetch, lru_order, current_size,
          next_id, next_fetch, ppc, ploc, hold, pcalls,
          lblocks, lobj, lkey_index, lpending, lfetch, llru_order,
          lcurrent_size, lnext_id, lth, lcalls, levicted

pvars == <<key_index, blocks, obj, pending, fetch, lru_order, current_size,
           next_id, next_fetch, ppc, ploc, hold, pcalls>>
lvars == <<lblocks, lobj, lkey_index, lpending, lfetch, llru_order,
           lcurrent_size, lnext_id, lth, lcalls, levicted>>
svars == <<mcvars, part, pvars, lvars>>

PoolBlocks == 5

Pool == INSTANCE MCMemoryPool WITH
  Chunks <- {0, 1}, MaxSize <- 2, ChunkSize <- 1, DirtySizes <- {0, 2},
  Ops <- {"acquire", "invalidate", "clear", "get", "insert", "modify",
          "mark_flushed", "mark_needs_flush", "remove_inode"},
  MaxCalls <- 5, MaxBlocks <- PoolBlocks, MaxFetches <- PoolBlocks,
  pc <- ppc, loc <- ploc, calls <- pcalls

First == INSTANCE LegacyPool WITH
  Threads <- Callers, Hashes <- HashIds, Inodes <- OldInodes, Chunks <- {0},
  MaxSize <- 2, FetchSize <- 1, DirtySizes <- {1, 2}, Width <- 64,
  Cancels <- FALSE, ClearsAnyTime <- FALSE, MaxCalls <- 3, MaxBlocks <- PoolBlocks,
  blocks <- lblocks, obj <- lobj, key_index <- lkey_index, pending <- lpending,
  fetch <- lfetch, lru_order <- llru_order, current_size <- lcurrent_size,
  next_id <- lnext_id, th <- lth, calls <- lcalls, evicted <- levicted

ASSUME OneCallerAssumption == OneCaller

ASSUME FirstPoolAssumption == First!LegacyAssumption

CallerSymmetry == Permutations(Callers) \cup Permutations(OldInodes)

AllInit ==
  /\ Init /\ Pool!Init /\ First!Init
  /\ \/ part = "files" /\ focus \in Files
     \/ part \in {"pool", "first"} /\ focus = f1

\* The callers of the first pool have used up their calls or its block ids.
FirstIdle ==
  /\ (\A t \in Callers : lcalls[t] = 3) \/ lnext_id > PoolBlocks
  /\ UNCHANGED lvars

AllNext ==
  /\ UNCHANGED part
  /\ \/ part = "files" /\ FocusNext /\ UNCHANGED <<pvars, lvars>>
     \/ part = "pool" /\ Pool!Next /\ UNCHANGED <<mcvars, lvars>>
     \/ part = "first" /\ (First!Next \/ FirstIdle) /\ UNCHANGED <<mcvars, pvars>>

AllSpec == AllInit /\ [][AllNext]_svars

PoolOneBlockPerKey  == Pool!OneBlockPerKey
PoolBooksBalance    == Pool!BooksBalance
PoolDirtyNotEvicted == Pool!DirtyNotEvicted

FirstTypeOK           == First!TypeOK
FirstTablesAgree      == First!TablesAgree
FirstChargeIsOwed     == First!ChargeIsOwed
FirstHandlesAreCounted == First!HandlesAreCounted
FirstFetchesAreShared == First!FetchesAreShared
FirstEvictionLosesNothing == First!EvictionLosesNothing
FirstRoomIsMade       == First!RoomIsMade

\* Of either pool: its tables name the same blocks, one for a key, its charge is
\* what they weigh and its counts are its handles, after any sequence of calls.
PoolsAreConsistent ==
  /\ PoolOneBlockPerKey /\ PoolBooksBalance
  /\ FirstTypeOK /\ FirstTablesAgree /\ FirstChargeIsOwed
  /\ FirstHandlesAreCounted /\ FirstFetchesAreShared

\* Neither pool evicts what has not been flushed, and the first one makes room.
EvictionsLoseNothing == PoolDirtyNotEvicted /\ FirstEvictionLosesNothing /\ FirstRoomIsMade

=============================================================================
