----------------------------- MODULE LegacyPool -----------------------------
(***************************************************************************)
(* The first block pool, still a public module of the crate                *)
(* (crates/vfs/src/memory_pool.rs): one mutex around every table, so that  *)
(* a critical section is one step here.  What is left to interleave is     *)
(* what the code does between two sections: a fetch, the wait for          *)
(* another caller's fetch, the two halves of a modification in place.      *)
(*                                                                         *)
(* A block's bytes are its length and a version that each modification     *)
(* raises; `saved` is the version its owner has declared flushed.          *)
(***************************************************************************)
EXTENDS Integers, Sequences, FiniteSets

LOCAL INSTANCE FiniteSetsExt
LOCAL INSTANCE SequencesExt
LOCAL INSTANCE Functions

CONSTANTS
  Threads,       \* callers of the pool
  Hashes,        \* ContentId::Hash
  Inodes,        \* ContentId::Inode
  Chunks,        \* chunk indexes
  MaxSize,       \* MemoryPoolConfig::max_size
  FetchSize,     \* length of a fetched chunk
  DirtySizes,    \* lengths a written chunk can have
  Width,         \* 2^64 in the code: sizes are unsigned
  Cancels,       \* callers may drop the future of a call
  ClearsAnyTime, \* clear may come between the halves of a modification
  MaxCalls,      \* bound: calls per thread
  MaxBlocks      \* bound: block ids, fetches and versions

LegacyAssumption ==
  /\ Hashes \cap Inodes = {}
  /\ MaxSize \in Nat /\ FetchSize \in Nat \ {0} /\ DirtySizes \subseteq Nat
  /\ Width > MaxSize
  /\ Cancels \in BOOLEAN /\ ClearsAnyTime \in BOOLEAN
  /\ MaxCalls \in Nat /\ MaxBlocks \in Nat

HashKeys  == Hashes \X Chunks
InodeKeys == Inodes \X Chunks
Keys      == HashKeys \cup InodeKeys
Ids       == 1 .. MaxBlocks
None      == 0

VARIABLES
  blocks,        \* ids in MemoryPoolInner::blocks
  obj,           \* the PoolBlock objects, in the pool or held by a handle
  key_index,     \* key -> id, None when absent
  pending,       \* pending_fetches: key -> shared future, None when absent
  fetch,         \* outcome of each shared future
  lru_order,     \* front is the oldest
  current_size,  \* bytes charged
  next_id,       \* the next id, of blocks and of futures
  th,            \* what each thread is doing
  calls,         \* calls made (bound only)
  evicted        \* ids that eviction has taken so far

vars == <<blocks, obj, key_index, pending, fetch, lru_order, current_size,
          next_id, th, calls, evicted>>

Idle == [pc |-> "idle", key |-> <<>>, id |-> None, by |-> 0]
NoObject == [key |-> <<>>, size |-> 0, ref_count |-> 0, needs_flush |-> FALSE,
             version |-> 0, saved |-> 0]

Init ==
  /\ blocks = {}
  /\ obj = [b \in Ids |-> NoObject]
  /\ key_index = [k \in Keys |-> None]
  /\ pending = [k \in Keys |-> None]
  /\ fetch = [f \in Ids |-> "unused"]
  /\ lru_order = <<>>
  /\ current_size = 0
  /\ next_id = 1
  /\ th = [t \in Threads |-> Idle]
  /\ calls = [t \in Threads |-> 0]
  /\ evicted = {}

TypeOK ==
  /\ blocks \subseteq Ids /\ evicted \subseteq Ids
  /\ obj \in [Ids -> [key : Keys \cup {<<>>}, size : Nat, ref_count : 0 .. Cardinality(Threads),
                      needs_flush : BOOLEAN, version : Nat, saved : Nat]]
  /\ key_index \in [Keys -> Ids \cup {None}]
  /\ pending \in [Keys -> Ids \cup {None}]
  /\ fetch \in [Ids -> {"unused", "running", "ok", "error"}]
  /\ lru_order \in Seq(Ids)
  /\ current_size \in 0 .. Width - 1
  /\ next_id \in 1 .. MaxBlocks + 1
  /\ th \in [Threads -> [pc : {"idle", "start", "fetching", "complete", "waiting",
                               "holding", "modified"},
                         key : Keys \cup {<<>>}, id : Ids \cup {None}, by : Int]]
  /\ calls \in [Threads -> 0 .. MaxCalls]

-----------------------------------------------------------------------------
(* The tables, under the mutex *)

Tables == <<blocks, key_index, lru_order, current_size, next_id, evicted>>
Fetches == <<pending, fetch>>

Call(t) ==
  /\ th[t].pc = "idle"
  /\ calls[t] < MaxCalls
  /\ calls' = [calls EXCEPT ![t] = @ + 1]

Go(t, r) == th' = [th EXCEPT ![t] = r]
Return(t) == Go(t, Idle)
Hold(t, b) == Go(t, [Idle EXCEPT !.pc = "holding", !.id = b])

\* touch_lru
Touch(b) == lru_order' = Append(SelectSeq(lru_order, LAMBDA x : x # b), b)

\* can_evict_without_flush
IsClean(b) == obj[b].ref_count = 0 /\ ~obj[b].needs_flush

SizeOf(B) == MapThenSumSet(LAMBDA b : obj[b].size, B)

\* The pool has to make room: `size` bytes are charged, B is in the pool.
Evicts(B, size, needed) == (size + needed) % Width > MaxSize

\* The blocks that may be evicted, oldest first.
CleanIn(B) == SelectSeq(lru_order, LAMBDA b : b \in B /\ IsClean(b))

\* evict_for_space: out of the blocks B, with `size` bytes charged, the oldest
\* clean ones go until `needed` bytes fit; what went stays gone when that is not
\* enough.  An empty pool takes a block of any length.
EvictForSpace(B, size, needed) ==
  LET clean == CleanIn(B)
      First(n) == {clean[i] : i \in 1 .. n}
      Full(n) == Evicts(B \ First(n), size - SizeOf(First(n)), needed)
      n == Min({i \in 0 .. Len(clean) : ~Full(i)} \cup {Len(clean)})
  IN  [gone |-> First(n), ok |-> ~Full(n) \/ First(n) = B]

\* Mutation: the bytes of the blocks stay charged.
Uncharge_Nothing(size, B) == size

\* remove_block: the length a block has when it goes is discounted.
Uncharge(size, B) == (size - SizeOf(B)) % Width

\* The blocks B leave the pool, and nothing enters it.
RemoveBlocks(B) ==
  /\ blocks' = blocks \ B
  /\ key_index' = [k \in Keys |-> IF key_index[k] \in B THEN None ELSE key_index[k]]
  /\ lru_order' = SelectSeq(lru_order, LAMBDA b : b \notin B)
  /\ current_size' = Uncharge(current_size, B)

\* insert and insert_mutable: a block for k enters, `gone` having left.  The
\* caller's handle counts one reference.
InsertBlock(k, size, needs_flush, gone) ==
  LET b == next_id
  IN  /\ blocks' = (blocks \ gone) \cup {b}
      /\ key_index' = [[x \in Keys |-> IF key_index[x] \in gone THEN None ELSE key_index[x]]
                       EXCEPT ![k] = b]
      /\ lru_order' = Append(SelectSeq(lru_order, LAMBDA x : x \notin gone), b)
      /\ current_size' = (Uncharge(current_size, gone) + size) % Width
      /\ next_id' = next_id + 1
      /\ obj' = [obj EXCEPT ![b] = [NoObject EXCEPT !.key = k, !.size = size, !.ref_count = 1,
                                      !.needs_flush = needs_flush,
                                      !.version = IF needs_flush THEN 1 ELSE 0]]

\* PoolBlock::acquire
AddRef(b) == obj' = [obj EXCEPT ![b].ref_count = @ + 1]

\* lookup with a hit: the block is the newest, and the caller has a handle.
Hit(t, k) ==
  /\ key_index[k] # None
  /\ Touch(key_index[k])
  /\ AddRef(key_index[k])
  /\ Hold(t, key_index[k])
  /\ UNCHANGED <<blocks, key_index, current_size, next_id, evicted>>

-----------------------------------------------------------------------------
(* Read-only blocks *)

\* acquire, first section: a hit, a fetch to wait for, or one to start.
Acquire(t, k) ==
  /\ Call(t)
  /\ UNCHANGED Fetches
  /\ \/ Hit(t, k)
     \/ /\ key_index[k] = None
        /\ Go(t, [Idle EXCEPT !.pc = IF pending[k] # None THEN "waiting" ELSE "start",
                              !.key = k, !.id = pending[k]])
        /\ UNCHANGED <<obj, Tables>>

Running(k) == pending[k] # None

\* start_fetch up to the fetch: everything is looked up again.
StartFetch(t) ==
  LET k == th[t].key
  IN  /\ th[t].pc = "start"
      /\ UNCHANGED calls
      /\ \/ Hit(t, k) /\ UNCHANGED Fetches
         \/ /\ key_index[k] = None /\ Running(k)
            /\ Go(t, [Idle EXCEPT !.pc = "waiting", !.key = k, !.id = pending[k]])
            /\ UNCHANGED <<obj, Tables, Fetches>>
         \/ /\ key_index[k] = None /\ ~Running(k)
            /\ next_id <= MaxBlocks
            /\ pending' = [pending EXCEPT ![k] = next_id]
            /\ fetch' = [fetch EXCEPT ![next_id] = "running"]
            /\ next_id' = next_id + 1
            /\ Go(t, [Idle EXCEPT !.pc = "fetching", !.key = k, !.id = next_id])
            /\ UNCHANGED <<blocks, obj, key_index, lru_order, current_size, evicted>>

\* The fetch ends and its outcome is sent to the waiters, before the block is in
\* the pool.
FetchEnds(t, outcome) ==
  /\ th[t].pc = "fetching"
  /\ outcome \in {"ok", "error"}
  /\ fetch' = [fetch EXCEPT ![th[t].id] = outcome]
  /\ Go(t, [th[t] EXCEPT !.pc = "complete"])
  /\ UNCHANGED <<obj, Tables, pending, calls>>

\* pending_fetches.remove
Forget(k, f) == [pending EXCEPT ![k] = None]

\* complete_fetch
CompleteFetch(t) ==
  LET k == th[t].key
      room == EvictForSpace(blocks, current_size, FetchSize)
  IN  /\ th[t].pc = "complete"
      /\ pending' = Forget(k, th[t].id)
      /\ UNCHANGED <<fetch, calls>>
      /\ \/ /\ fetch[th[t].id] = "error"
            /\ Return(t)
            /\ UNCHANGED <<obj, Tables>>
         \/ fetch[th[t].id] = "ok" /\ Hit(t, k)
         \/ /\ fetch[th[t].id] = "ok" /\ key_index[k] = None /\ room.ok
            /\ next_id <= MaxBlocks
            /\ evicted' = evicted \cup room.gone
            /\ InsertBlock(k, FetchSize, FALSE, room.gone)
            /\ Hold(t, next_id)
         \/ /\ fetch[th[t].id] = "ok" /\ key_index[k] = None /\ ~room.ok
            /\ evicted' = evicted \cup room.gone
            /\ RemoveBlocks(room.gone)
            /\ Return(t)
            /\ UNCHANGED <<obj, next_id>>

\* handle_fetch_result: the waiter looks the block up, and makes do with a block
\* of its own when the pool does not have it.
WaitEnds(t) ==
  LET k == th[t].key
  IN  /\ th[t].pc = "waiting"
      /\ fetch[th[t].id] # "running"
      /\ UNCHANGED <<Fetches, calls>>
      /\ \/ /\ fetch[th[t].id] = "error"
            /\ Return(t)
            /\ UNCHANGED <<obj, Tables>>
         \/ fetch[th[t].id] = "ok" /\ Hit(t, k)
         \/ /\ fetch[th[t].id] = "ok" /\ key_index[k] = None
            /\ Hold(t, None)
            /\ UNCHANGED <<obj, Tables>>

\* The caller drops the future of acquire.  A fetch that is dropped answers its
\* waiters with an error and leaves its entry in the table.
Cancel(t) ==
  /\ Cancels
  /\ th[t].pc \in {"fetching", "waiting"}
  /\ fetch' = IF th[t].pc = "fetching" THEN [fetch EXCEPT ![th[t].id] = "error"] ELSE fetch
  /\ Return(t)
  /\ UNCHANGED <<obj, Tables, pending, calls>>

\* try_get
TryGet(t, k) ==
  /\ Call(t)
  /\ Hit(t, k)
  /\ UNCHANGED Fetches

\* Drop of BlockHandle and MutableBlockHandle
Release(t) ==
  /\ th[t].pc = "holding"
  /\ obj' = IF th[t].id = None THEN obj ELSE [obj EXCEPT ![th[t].id].ref_count = @ - 1]
  /\ Return(t)
  /\ UNCHANGED <<Tables, Fetches, calls>>

\* invalidate_hash: the blocks of the hash that no handle uses.
InvalidateHash(t, h) ==
  /\ Call(t)
  /\ RemoveBlocks({b \in blocks : obj[b].key[1] = h /\ obj[b].ref_count = 0})
  /\ UNCHANGED <<obj, next_id, evicted, Fetches, th>>

\* clear: refused while a handle is out; dirty blocks go with the rest.
Clear(t) ==
  /\ Call(t)
  /\ \A b \in blocks : obj[b].ref_count = 0
  /\ ClearsAnyTime \/ \A u \in Threads : th[u].pc # "modified"
  /\ blocks' = {}
  /\ key_index' = [k \in Keys |-> None]
  /\ lru_order' = <<>>
  /\ current_size' = 0
  /\ UNCHANGED <<obj, next_id, evicted, Fetches, th>>

-----------------------------------------------------------------------------
(* Dirty blocks *)

\* The block that an insertion for k replaces.
Replaced(k) == {key_index[k]} \ {None}

\* insert_dirty, insert_dirty_with_capacity and update_dirty: the old block goes
\* first, whether or not there is room for the new one.
InsertDirty(t, k, size) ==
  LET old == Replaced(k)
      room == EvictForSpace(blocks \ old, Uncharge(current_size, old), size)
  IN  /\ Call(t)
      /\ k \in InodeKeys
      /\ evicted' = evicted \cup room.gone
      /\ UNCHANGED Fetches
      /\ \/ /\ room.ok
            /\ next_id <= MaxBlocks
            /\ InsertBlock(k, size, TRUE, old \cup room.gone)
            /\ Hold(t, next_id)
         \/ /\ ~room.ok
            /\ RemoveBlocks(old \cup room.gone)
            /\ UNCHANGED <<obj, next_id, th>>

\* modify_dirty_in_place, first section: the bytes change.
ModifyBytes(t, k, size) ==
  LET b == key_index[k]
  IN  /\ Call(t)
      /\ k \in InodeKeys /\ b # None
      /\ obj[b].version < MaxBlocks
      /\ obj' = [obj EXCEPT ![b].size = size, ![b].version = @ + 1]
      /\ Go(t, [Idle EXCEPT !.pc = "modified", !.id = b, !.by = size - obj[b].size])
      /\ UNCHANGED <<Tables, Fetches>>

\* The difference is added or subtracted, unsigned.
Adjust(size, by) == (size + by) % Width

\* modify_dirty_in_place, second section: the length is charged and the block is
\* marked, when it is still in the pool.
ModifyEnds(t) ==
  LET b == th[t].id
  IN  /\ th[t].pc = "modified"
      /\ current_size' = Adjust(current_size, th[t].by)
      /\ obj' = IF b \in blocks THEN [obj EXCEPT ![b].needs_flush = TRUE] ELSE obj
      /\ Return(t)
      /\ UNCHANGED <<blocks, key_index, lru_order, next_id, evicted, Fetches, calls>>

\* mark_flushed: what the block holds is flushed, says its owner.
MarkFlushed(t, k) ==
  LET b == key_index[k]
  IN  /\ Call(t)
      /\ k \in InodeKeys /\ b # None
      /\ obj' = [obj EXCEPT ![b].needs_flush = FALSE, ![b].saved = obj[b].version]
      /\ UNCHANGED <<Tables, Fetches, th>>

\* mark_needs_flush
MarkNeedsFlush(t, k) ==
  LET b == key_index[k]
  IN  /\ Call(t)
      /\ k \in InodeKeys /\ b # None
      /\ obj' = [obj EXCEPT ![b].needs_flush = TRUE]
      /\ UNCHANGED <<Tables, Fetches, th>>

\* get_dirty
GetDirty(t, k) ==
  /\ Call(t)
  /\ k \in InodeKeys
  /\ Hit(t, k)
  /\ UNCHANGED Fetches

\* remove_inode_blocks: in use or not.
RemoveInode(t, i) ==
  /\ Call(t)
  /\ RemoveBlocks({b \in blocks : obj[b].key[1] = i})
  /\ UNCHANGED <<obj, next_id, evicted, Fetches, th>>

Step(t) ==
  \/ StartFetch(t)
  \/ \E o \in {"ok", "error"} : FetchEnds(t, o)
  \/ CompleteFetch(t)
  \/ WaitEnds(t)
  \/ ModifyEnds(t)
  \/ Release(t)

Begin(t) ==
  \/ \E k \in HashKeys : Acquire(t, k) \/ TryGet(t, k)
  \/ \E h \in Hashes : InvalidateHash(t, h)
  \/ \E k \in InodeKeys :
       \/ \E n \in DirtySizes : InsertDirty(t, k, n) \/ ModifyBytes(t, k, n)
       \/ MarkFlushed(t, k)
       \/ MarkNeedsFlush(t, k)
       \/ GetDirty(t, k)
  \/ \E i \in Inodes : RemoveInode(t, i)
  \/ Clear(t)

Next == \E t \in Threads : Begin(t) \/ Step(t) \/ Cancel(t)

Spec == Init /\ [][Next]_vars

-----------------------------------------------------------------------------
(* Properties *)

\* The index, the map and the queue hold the same blocks, each once: nothing is
\* in the pool that no key finds and no eviction reaches.
TablesAgree ==
  /\ {key_index[k] : k \in Keys} \ {None} = blocks
  /\ ToSet(lru_order) = blocks
  /\ Len(lru_order) = Cardinality(blocks)
  /\ \A k \in Keys : key_index[k] # None => obj[key_index[k]].key = k

\* The bytes charged are the lengths of the blocks, apart from what modifications
\* that are half way will still add, although a block may be replaced or evicted
\* between the halves.
ChargeIsOwed ==
  (current_size + MapThenSumSet(LAMBDA t : th[t].by, Threads)) % Width
    = SizeOf(blocks) % Width

\* A block has as many references as there are handles on it.
HandlesAreCounted ==
  \A b \in 1 .. next_id - 1 :
    obj[b].ref_count = Cardinality({t \in Threads : th[t].pc = "holding" /\ th[t].id = b})

\* One fetch of a key at a time; and a key that is being fetched has a caller
\* who will end the fetch, so that the next caller does not inherit its failure.
\* For callers that do not drop their futures.
FetchesAreShared ==
  \A k \in Keys :
    LET fetchers == {t \in Threads : th[t].pc \in {"fetching", "complete"} /\ th[t].key = k}
    IN  /\ Cardinality(fetchers) <= 1
        /\ pending[k] # None => \E t \in fetchers : th[t].id = pending[k]

\* Eviction takes no block that a handle uses and no bytes that were not flushed.
\* The window the code leaves is spelled out: a modification that has changed the
\* bytes of a flushed block and not yet marked it.
EvictionLosesNothing ==
  [][\A b \in evicted' \ evicted :
       /\ obj[b].ref_count = 0
       /\ \/ obj[b].saved = obj[b].version
          \/ \E t \in Threads : th[t].pc = "modified" /\ th[t].id = b]_vars

\* When a block enters, the bytes of the pool are within its limit, beyond what
\* half-way modifications have grown, or it is alone in the pool.
RoomIsMade ==
  [][\A b \in blocks' \ blocks :
       \/ blocks' = {b}
       \/ MapThenSumSet(LAMBDA x : obj'[x].size, blocks')
            <= MaxSize + MapThenSumSet(LAMBDA t : th[t].by, Threads)]_vars

\* Not held by the code: a modification marks the block in a second critical
\* section, so that eviction may take bytes that nobody flushed.
WritesAreKept ==
  [][\A b \in evicted' \ evicted : obj[b].saved = obj[b].version]_vars

\* Not held by the code: insert_dirty has removed the old block when it finds no
\* room for the new one.
FailedInsertKeeps ==
  [][\A t \in Threads, k \in InodeKeys, n \in DirtySizes :
       InsertDirty(t, k, n) /\ th'[t] = Idle => key_index'[k] = key_index[k]]_vars

\* Not held by the code: the discount of a block that has grown and is not yet
\* charged goes below zero.
ChargeDoesNotWrap == current_size <= SizeOf(blocks) + MaxBlocks

=============================================================================
