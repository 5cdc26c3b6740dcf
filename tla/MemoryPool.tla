----------------------------- MODULE MemoryPool -----------------------------
(***************************************************************************)
(* The block pool shared by every file-system front end                    *)
(* (crates/vfs/src/memory_pool_v2.rs): three concurrent maps, one mutex    *)
(* around the LRU bookkeeping, an atomic reference count and an atomic     *)
(* needs_flush flag per block.                                             *)
(*                                                                         *)
(* There is no lock around a whole operation, so a step of this module is  *)
(* one access to a concurrent map, one critical section of the LRU mutex   *)
(* or one atomic operation; a chain of map accesses under guards that are  *)
(* still held is one step.  Threads are tokio tasks or callback threads.   *)
(***************************************************************************)
EXTENDS Integers, Sequences, FiniteSets

CONSTANTS
  Threads,     \* callers of the pool
  HashIds,     \* content ids of read-only content: ContentId::Hash
  InodeIds,    \* content ids of modified files: ContentId::Inode
  Chunks,      \* chunk indexes
  NoKey,       \* stands for "no key" in a thread's locals
  MaxSize,     \* MemoryPoolConfig::max_size
  ChunkSize,   \* length of every fetched chunk
  DirtySizes,  \* lengths a written chunk can have
  Ops,         \* the operations the callers use
  MaxCalls,    \* bound: calls per thread
  MaxBlocks,   \* bound: block ids
  MaxFetches   \* bound: fetches

OpNames == {"acquire", "get", "insert", "modify", "mark_flushed",
            "mark_needs_flush", "remove_inode", "invalidate", "clear", "cancel"}

ASSUME PoolAssumption ==
  /\ IsFiniteSet(Threads)
  /\ HashIds \cap InodeIds = {}
  /\ NoKey \notin (HashIds \cup InodeIds) \X Chunks
  /\ MaxSize \in Nat /\ ChunkSize \in Nat \ {0}
  /\ DirtySizes \subseteq Nat
  /\ Ops \subseteq OpNames
  /\ MaxCalls \in Nat /\ MaxBlocks \in Nat /\ MaxFetches \in Nat

Keys      == (HashIds \cup InodeIds) \X Chunks
HashKeys  == HashIds \X Chunks
InodeKeys == InodeIds \X Chunks
IsHash(k) == k[1] \in HashIds

Ids       == 1 .. MaxBlocks
FetchIds  == 1 .. MaxFetches
NoBlock   == 0      \* no entry in key_index, no block in a local
NoFetch   == 0
Detached  == -1     \* a handle on data that is in no block of the pool

VARIABLES
  key_index,     \* key -> block id, NoBlock when the map has no entry
  blocks,        \* ids in the `blocks` map
  obj,           \* the PoolBlock objects; an Arc keeps one alive after removal
  pending,       \* pending_fetches: key -> shared future, NoFetch when absent
  fetch,         \* outcome of each shared future
  lru_order,     \* LruState: front is the oldest
  current_size,  \* LruState: bytes charged to the pool
  next_id,       \* LruState: next block id
  next_fetch,    \* name of the next shared future
  pc,            \* where each thread is
  loc,           \* each thread's local variables
  hold,          \* block whose reference the thread has counted
  calls          \* calls each thread has made (bound only)

lru     == <<lru_order, current_size, next_id>>
maps    == <<key_index, blocks>>
fetches == <<pending, fetch, next_fetch>>
thread  == <<pc, loc, hold, calls>>
vars    == <<key_index, blocks, obj, pending, fetch, lru_order, current_size,
             next_id, next_fetch, pc, loc, hold, calls>>

NoLocals == [key |-> NoKey, id |-> NoBlock, size |-> 0, old |-> 0,
             fut |-> NoFetch, todo |-> {}, bulk |-> FALSE]
NoObject == [key |-> NoKey, size |-> 0, ref_count |-> 0, needs_flush |-> FALSE]

Init ==
  /\ key_index = [k \in Keys |-> NoBlock]
  /\ blocks = {}
  /\ obj = [b \in Ids |-> NoObject]
  /\ pending = [k \in Keys |-> NoFetch]
  /\ fetch = [f \in FetchIds |-> "unused"]
  /\ lru_order = << >>
  /\ current_size = 0
  /\ next_id = 1
  /\ next_fetch = 1
  /\ pc = [t \in Threads |-> "idle"]
  /\ loc = [t \in Threads |-> NoLocals]
  /\ hold = [t \in Threads |-> NoBlock]
  /\ calls = [t \in Threads |-> 0]

-----------------------------------------------------------------------------
(* Threads *)

\* A thread moves from one program point to another, keeping its locals.
Goto(t, from, to) ==
  /\ pc[t] = from
  /\ pc' = [pc EXCEPT ![t] = to]

\* A caller that is between calls makes the next one.
Call(t, op) ==
  /\ op \in Ops
  /\ pc[t] = "idle"
  /\ calls[t] < MaxCalls
  /\ calls' = [calls EXCEPT ![t] = @ + 1]

\* The call is over and returns no handle: an error, a miss or a count.
Return(t) ==
  /\ pc' = [pc EXCEPT ![t] = "idle"]
  /\ loc' = [loc EXCEPT ![t] = NoLocals]
  /\ UNCHANGED hold

\* The call returns a handle: the reference on b has been counted.
ReturnHandle(t, b) ==
  /\ pc' = [pc EXCEPT ![t] = "holding"]
  /\ loc' = [loc EXCEPT ![t] = NoLocals]
  /\ hold' = [hold EXCEPT ![t] = b]

SetLocal(t, to, l) ==
  /\ pc' = [pc EXCEPT ![t] = to]
  /\ loc' = [loc EXCEPT ![t] = l]

-----------------------------------------------------------------------------
(* LruState and PoolBlock *)

\* retain(|id| id != b).  An id is at most once in the queue.
Retain(s, b) ==
  IF \E i \in 1 .. Len(s) : s[i] = b
  THEN LET i == CHOOSE i \in 1 .. Len(s) : s[i] = b
       IN  [j \in 1 .. Len(s) - 1 |-> IF j < i THEN s[j] ELSE s[j + 1]]
  ELSE s

\* Mutation: the id is taken out of the queue and not pushed back.
Touch_NoPush(b) == lru_order' = Retain(lru_order, b)

Touch(b) == lru_order' = Append(Retain(lru_order, b), b)

\* Mutation: a plain subtraction.
SaturatingSub_Plain(a, b) == a - b

SaturatingSub(a, b) == IF a > b THEN a - b ELSE 0

\* Mutation: the bytes about to be added are forgotten.
NeedsEviction_IgnoresSize(size) == current_size > MaxSize

NeedsEviction(size) == current_size + size > MaxSize

\* PoolBlock::acquire: count one more reference.
AddRef(b) == obj' = [obj EXCEPT ![b].ref_count = @ + 1]

CanEvict(b) == obj[b].ref_count = 0

\* Mutation: the flag is not looked at.
CanEvictWithoutFlush_AnyFlag(b) == CanEvict(b)

CanEvictWithoutFlush(b) == CanEvict(b) /\ ~obj[b].needs_flush

\* Both lookups succeed: an index entry and the block it names.
Cached(k) == key_index[k] \in blocks

-----------------------------------------------------------------------------
(* acquire: read-only content, fetched when it is not cached *)

\* Fast path.  The guards of both maps are held over the reference count and
\* the touch, so no removal of this block can come in between.
AcquireHit(t, k) ==
  /\ Call(t, "acquire")
  /\ Cached(k)
  /\ AddRef(key_index[k])
  /\ Touch(key_index[k])
  /\ ReturnHandle(t, key_index[k])
  /\ UNCHANGED <<maps, fetches, current_size, next_id>>

AcquireMiss(t, k) ==
  /\ Call(t, "acquire")
  /\ ~Cached(k)
  /\ SetLocal(t, "acquire_pending", [NoLocals EXCEPT !.key = k])
  /\ UNCHANGED <<maps, obj, fetches, lru, hold>>

\* A future is registered for the key: clone it and await it.
\* Used twice, in acquire and again in start_fetch.
AwaitOther(t, from) ==
  /\ pc[t] = from
  /\ pending[loc[t].key] # NoFetch
  /\ SetLocal(t, "waiting", [loc[t] EXCEPT !.fut = pending[loc[t].key]])
  /\ UNCHANGED <<maps, obj, fetches, lru, hold, calls>>

AcquireNoPending(t) ==
  /\ Goto(t, "acquire_pending", "start_lookup")
  /\ pending[loc[t].key] = NoFetch
  /\ UNCHANGED <<maps, obj, fetches, lru, loc, hold, calls>>

\* Mutation: the handle is returned without a reference.
LookupHit_NoRef(t, from) ==
  /\ pc[t] = from
  /\ Cached(loc[t].key)
  /\ ReturnHandle(t, key_index[loc[t].key])
  /\ UNCHANGED <<maps, obj, fetches, lru, calls>>

\* The second look into the cache (start_fetch) and the third
\* (complete_fetch): a hit counts a reference and does not touch the LRU.
LookupHit(t, from) ==
  /\ pc[t] = from
  /\ Cached(loc[t].key)
  /\ AddRef(key_index[loc[t].key])
  /\ ReturnHandle(t, key_index[loc[t].key])
  /\ UNCHANGED <<maps, fetches, lru, calls>>

StartLookupMiss(t) ==
  /\ Goto(t, "start_lookup", "start_pending")
  /\ ~Cached(loc[t].key)
  /\ UNCHANGED <<maps, obj, fetches, lru, loc, hold, calls>>

StartNoPending(t) ==
  /\ Goto(t, "start_pending", "register")
  /\ pending[loc[t].key] = NoFetch
  /\ UNCHANGED <<maps, obj, fetches, lru, loc, hold, calls>>

\* pending_fetches.insert: it replaces whatever another thread registered
\* since this one looked.
Register(t) ==
  /\ pc[t] = "register"
  /\ next_fetch \in FetchIds
  /\ pending' = [pending EXCEPT ![loc[t].key] = next_fetch]
  /\ fetch' = [fetch EXCEPT ![next_fetch] = "running"]
  /\ next_fetch' = next_fetch + 1
  /\ SetLocal(t, "fetching", [loc[t] EXCEPT !.fut = next_fetch])
  /\ UNCHANGED <<maps, obj, lru, hold, calls>>

\* The fetch future returns, and its result is sent to the waiters.
FetchReturn(t, result) ==
  /\ Goto(t, "fetching", "complete")
  /\ fetch' = [fetch EXCEPT ![loc[t].fut] = result]
  /\ UNCHANGED <<maps, obj, pending, next_fetch, lru, loc, hold, calls>>

\* Mutation: the sender outlives the cancelled fetcher.
Cancel_KeepSender(t) ==
  /\ "cancel" \in Ops
  /\ pc[t] \in {"fetching", "waiting"}
  /\ Return(t)
  /\ UNCHANGED <<maps, obj, fetches, lru, calls>>

\* The caller's future is dropped at one of its two await points: the
\* executor's timeout fired or its token was cancelled.  Dropping the fetcher
\* drops the sender, and every waiter reads "Fetch cancelled".
Cancel(t) ==
  /\ "cancel" \in Ops
  /\ pc[t] \in {"fetching", "waiting"}
  /\ fetch' = IF pc[t] = "fetching"
              THEN [fetch EXCEPT ![loc[t].fut] = "err"] ELSE fetch
  /\ Return(t)
  /\ UNCHANGED <<maps, obj, pending, next_fetch, lru, calls>>

\* complete_fetch removes the entry of the key, whoever registered it.
CompleteRemovePending(t) ==
  /\ pc[t] = "complete"
  /\ pending' = [pending EXCEPT ![loc[t].key] = NoFetch]
  /\ \/ /\ fetch[loc[t].fut] = "err"
        /\ Return(t)
     \/ /\ fetch[loc[t].fut] = "ok"
        /\ Goto(t, "complete", "complete_lookup")
        /\ UNCHANGED <<loc, hold>>
  /\ UNCHANGED <<maps, obj, fetch, next_fetch, lru, calls>>

CompleteLookupMiss(t) ==
  /\ pc[t] = "complete_lookup"
  /\ ~Cached(loc[t].key)
  /\ SetLocal(t, "evict_check", [loc[t] EXCEPT !.size = ChunkSize])
  /\ UNCHANGED <<maps, obj, fetches, lru, hold, calls>>

\* handle_fetch_result: an error is returned; data is taken from the cache,
\* and wrapped in a block of its own when the cache does not have it.
WaiterError(t) ==
  /\ pc[t] = "waiting"
  /\ fetch[loc[t].fut] = "err"
  /\ Return(t)
  /\ UNCHANGED <<maps, obj, fetches, lru, calls>>

WaiterHit(t) ==
  /\ pc[t] = "waiting"
  /\ fetch[loc[t].fut] = "ok"
  /\ LookupHit(t, "waiting")

WaiterMiss(t) ==
  /\ pc[t] = "waiting"
  /\ fetch[loc[t].fut] = "ok"
  /\ ~Cached(loc[t].key)
  /\ ReturnHandle(t, Detached)
  /\ UNCHANGED <<maps, obj, fetches, lru, calls>>

-----------------------------------------------------------------------------
(* evict_for_space, and the insertion that follows it *)

EvictNotNeeded(t) ==
  /\ Goto(t, "evict_check", "allocate")
  /\ ~NeedsEviction(loc[t].size)
  /\ UNCHANGED <<maps, obj, fetches, lru, loc, hold, calls>>

EvictNeeded(t) ==
  /\ Goto(t, "evict_check", "evict_scan")
  /\ NeedsEviction(loc[t].size)
  /\ UNCHANGED <<maps, obj, fetches, lru, loc, hold, calls>>

Evictable(b) == b \in blocks /\ CanEvictWithoutFlush(b)

\* evict_one_clean picks the oldest evictable block under the LRU mutex.  The
\* mutex is released before the block is removed, and nothing is rechecked.
EvictPick(t) ==
  /\ pc[t] = "evict_scan"
  /\ \E i \in 1 .. Len(lru_order) :
       /\ Evictable(lru_order[i])
       /\ \A j \in 1 .. i - 1 : ~Evictable(lru_order[j])
       /\ SetLocal(t, "remove", [loc[t] EXCEPT !.id = lru_order[i]])
  /\ UNCHANGED <<maps, obj, fetches, lru, hold, calls>>

EvictNone(t) ==
  /\ Goto(t, "evict_scan", "evict_none")
  /\ \A i \in 1 .. Len(lru_order) : ~Evictable(lru_order[i])
  /\ UNCHANGED <<maps, obj, fetches, lru, loc, hold, calls>>

\* Nothing to evict: an empty pool takes the block, another one is exhausted.
EvictEmptyPool(t) ==
  /\ Goto(t, "evict_none", "allocate")
  /\ blocks = {}
  /\ UNCHANGED <<maps, obj, fetches, lru, loc, hold, calls>>

EvictExhausted(t) ==
  /\ pc[t] = "evict_none"
  /\ blocks # {}
  /\ Return(t)
  /\ UNCHANGED <<maps, obj, fetches, lru, calls>>

\* remove_block, first map: only the thread that finds the id goes on.
\* An eviction removes its pick, a bulk removal the next id it collected.
RemoveFromBlocks(t, b) ==
  /\ \/ /\ pc[t] = "remove"
        /\ b = loc[t].id
        /\ loc' = loc
     \/ /\ pc[t] = "bulk"
        /\ b \in loc[t].todo
        /\ loc' = [loc EXCEPT ![t].id = b, ![t].todo = @ \ {b}]
  /\ blocks' = blocks \ {b}
  /\ pc' = [pc EXCEPT ![t] = IF b \in blocks THEN "remove_index"
                            ELSE IF loc[t].bulk THEN "bulk" ELSE "evict_check"]
  /\ UNCHANGED <<key_index, obj, fetches, lru, hold, calls>>

\* Mutation: the index entry stays.
RemoveFromIndex_Keep(t) ==
  /\ Goto(t, "remove_index", "remove_lru")
  /\ UNCHANGED <<maps, obj, fetches, lru, loc, hold, calls>>

\* Second map: the entry of the block's key goes, whichever id it names.
RemoveFromIndex(t) ==
  /\ Goto(t, "remove_index", "remove_lru")
  /\ key_index' = [key_index EXCEPT ![obj[loc[t].id].key] = NoBlock]
  /\ UNCHANGED <<blocks, obj, fetches, lru, loc, hold, calls>>

\* Third: the queue entry and the bytes, as many as the block has now.
RemoveFromLru(t) ==
  /\ Goto(t, "remove_lru", IF loc[t].bulk THEN "bulk" ELSE "evict_check")
  /\ lru_order' = Retain(lru_order, loc[t].id)
  /\ current_size' = SaturatingSub(current_size, obj[loc[t].id].size)
  /\ UNCHANGED <<maps, obj, fetches, next_id, loc, hold, calls>>

\* allocate_block under the mutex, and the new PoolBlock with the caller's
\* reference, which nobody else can see yet.
Allocate(t) ==
  /\ pc[t] = "allocate"
  /\ next_id \in Ids
  /\ next_id' = next_id + 1
  /\ current_size' = current_size + loc[t].size
  /\ lru_order' = Append(lru_order, next_id)
  /\ obj' = [obj EXCEPT ![next_id] =
              [key |-> loc[t].key, size |-> loc[t].size, ref_count |-> 1,
               needs_flush |-> ~IsHash(loc[t].key)]]
  /\ hold' = [hold EXCEPT ![t] = next_id]
  /\ SetLocal(t, "insert_block", [loc[t] EXCEPT !.id = next_id])
  /\ UNCHANGED <<maps, fetches, calls>>

InsertBlock(t) ==
  /\ Goto(t, "insert_block", "insert_index")
  /\ blocks' = blocks \cup {loc[t].id}
  /\ UNCHANGED <<key_index, obj, fetches, lru, loc, hold, calls>>

InsertIndex(t) ==
  /\ pc[t] = "insert_index"
  /\ key_index' = [key_index EXCEPT ![loc[t].key] = loc[t].id]
  /\ ReturnHandle(t, loc[t].id)
  /\ UNCHANGED <<blocks, obj, fetches, lru, calls>>

-----------------------------------------------------------------------------
(* Blocks of modified files *)

\* insert_dirty takes the old index entry away, then the old block, then its
\* bytes, and only then looks for space.
Insert(t, k, n) ==
  /\ Call(t, "insert")
  /\ key_index' = [key_index EXCEPT ![k] = NoBlock]
  /\ SetLocal(t, IF key_index[k] = NoBlock THEN "evict_check" ELSE "replace",
              [NoLocals EXCEPT !.key = k, !.size = n, !.id = key_index[k]])
  /\ UNCHANGED <<blocks, obj, fetches, lru, hold>>

ReplaceBlock(t) ==
  /\ Goto(t, "replace", IF loc[t].id \in blocks THEN "remove_lru" ELSE "evict_check")
  /\ blocks' = blocks \ {loc[t].id}
  /\ UNCHANGED <<key_index, obj, fetches, lru, loc, hold, calls>>

\* modify_dirty_in_place and modify_dirty_in_place_with_slice: find the id,
\* clone the Arc, write, adjust the bytes charged, raise the flag.
\* A block that is not found is an error and changes nothing.
Modify(t, k) ==
  /\ Call(t, "modify")
  /\ key_index[k] # NoBlock
  /\ SetLocal(t, "modify_get", [NoLocals EXCEPT !.key = k, !.id = key_index[k]])
  /\ UNCHANGED <<maps, obj, fetches, lru, hold>>

ModifyGet(t) ==
  /\ pc[t] = "modify_get"
  /\ IF loc[t].id \in blocks
     THEN Goto(t, "modify_get", "modify_write") /\ UNCHANGED <<loc, hold>>
     ELSE Return(t)
  /\ UNCHANGED <<maps, obj, fetches, lru, calls>>

ModifyWrite(t, n) ==
  /\ pc[t] = "modify_write"
  /\ obj' = [obj EXCEPT ![loc[t].id].size = n]
  /\ SetLocal(t, IF n = obj[loc[t].id].size THEN "modify_flag" ELSE "modify_size",
              [loc[t] EXCEPT !.old = obj[loc[t].id].size, !.size = n])
  /\ UNCHANGED <<maps, fetches, lru, hold, calls>>

ModifySize(t) ==
  /\ Goto(t, "modify_size", "modify_flag")
  /\ current_size' = IF loc[t].size > loc[t].old
                     THEN current_size + (loc[t].size - loc[t].old)
                     ELSE SaturatingSub(current_size, loc[t].old - loc[t].size)
  /\ UNCHANGED <<maps, obj, fetches, lru_order, next_id, loc, hold, calls>>

ModifyFlag(t) ==
  /\ pc[t] = "modify_flag"
  /\ obj' = [obj EXCEPT ![loc[t].id].needs_flush = TRUE]
  /\ Return(t)
  /\ UNCHANGED <<maps, fetches, lru, calls>>

\* mark_flushed and mark_needs_flush keep both guards over the store.
SetFlush(t, op, k, flag) ==
  /\ Call(t, op)
  /\ Cached(k)
  /\ obj' = [obj EXCEPT ![key_index[k]].needs_flush = flag]
  /\ UNCHANGED <<maps, fetches, lru, pc, loc, hold>>

MarkFlushed(t, k)    == SetFlush(t, "mark_flushed", k, FALSE)
MarkNeedsFlush(t, k) == SetFlush(t, "mark_needs_flush", k, TRUE)

-----------------------------------------------------------------------------
(* get_dirty (an inode key) and try_get (a hash key): the guards are dropped *)
(* between the id, the block, the reference count and the touch.             *)

Get(t, k) ==
  /\ Call(t, "get")
  /\ key_index[k] # NoBlock
  /\ SetLocal(t, "get_block", [NoLocals EXCEPT !.key = k, !.id = key_index[k]])
  /\ UNCHANGED <<maps, obj, fetches, lru, hold>>

GetBlock(t) ==
  /\ pc[t] = "get_block"
  /\ IF loc[t].id \in blocks
     THEN Goto(t, "get_block", "get_acquire") /\ UNCHANGED <<loc, hold>>
     ELSE Return(t)
  /\ UNCHANGED <<maps, obj, fetches, lru, calls>>

GetAcquire(t) ==
  /\ Goto(t, "get_acquire", "get_touch")
  /\ AddRef(loc[t].id)
  /\ hold' = [hold EXCEPT ![t] = loc[t].id]
  /\ UNCHANGED <<maps, fetches, lru, loc, calls>>

GetTouch(t) ==
  /\ pc[t] = "get_touch"
  /\ Touch(loc[t].id)
  /\ ReturnHandle(t, loc[t].id)
  /\ UNCHANGED <<maps, obj, fetches, current_size, next_id, calls>>

-----------------------------------------------------------------------------
(* Bulk removal *)

\* remove_inode_blocks: every indexed block of the inode, in use or not.
RemoveInode(t, i) ==
  /\ Call(t, "remove_inode")
  /\ SetLocal(t, "bulk", [NoLocals EXCEPT !.bulk = TRUE,
                !.todo = {key_index[<<i, c>>] : c \in Chunks} \ {NoBlock}])
  /\ UNCHANGED <<maps, obj, fetches, lru, hold>>

\* invalidate_hash: every indexed block of the hash that has no reference.
InvalidateHash(t, h) ==
  /\ Call(t, "invalidate")
  /\ SetLocal(t, "bulk", [NoLocals EXCEPT !.bulk = TRUE,
                !.todo = {b \in {key_index[<<h, c>>] : c \in Chunks} :
                            b \in blocks /\ CanEvict(b)}])
  /\ UNCHANGED <<maps, obj, fetches, lru, hold>>

BulkDone(t) ==
  /\ pc[t] = "bulk"
  /\ loc[t].todo = {}
  /\ Return(t)
  /\ UNCHANGED <<maps, obj, fetches, lru, calls>>

\* clear: refused while a block is in use, otherwise one structure at a time.
Clear(t) ==
  /\ Call(t, "clear")
  /\ \A b \in blocks : CanEvict(b)
  /\ SetLocal(t, "clear_blocks", NoLocals)
  /\ UNCHANGED <<maps, obj, fetches, lru, hold>>

ClearBlocks(t) ==
  /\ Goto(t, "clear_blocks", "clear_index")
  /\ blocks' = {}
  /\ UNCHANGED <<key_index, obj, fetches, lru, loc, hold, calls>>

ClearIndex(t) ==
  /\ Goto(t, "clear_index", "clear_lru")
  /\ key_index' = [k \in Keys |-> NoBlock]
  /\ UNCHANGED <<blocks, obj, fetches, lru, loc, hold, calls>>

ClearLru(t) ==
  /\ pc[t] = "clear_lru"
  /\ lru_order' = << >>
  /\ current_size' = 0
  /\ Return(t)
  /\ UNCHANGED <<maps, obj, fetches, next_id, calls>>

\* The handle goes out of scope.
Drop(t) ==
  /\ pc[t] = "holding"
  /\ obj' = IF hold[t] \in Ids
            THEN [obj EXCEPT ![hold[t]].ref_count = @ - 1] ELSE obj
  /\ pc' = [pc EXCEPT ![t] = "idle"]
  /\ hold' = [hold EXCEPT ![t] = NoBlock]
  /\ UNCHANGED <<maps, fetches, lru, loc, calls>>

-----------------------------------------------------------------------------
(* The specification *)

AcquireStep(t) ==
  \/ AwaitOther(t, "acquire_pending")
  \/ AcquireNoPending(t)
  \/ LookupHit(t, "start_lookup")
  \/ StartLookupMiss(t)
  \/ AwaitOther(t, "start_pending")
  \/ StartNoPending(t)
  \/ Register(t)
  \/ FetchReturn(t, "ok")
  \/ FetchReturn(t, "err")
  \/ CompleteRemovePending(t)
  \/ LookupHit(t, "complete_lookup")
  \/ CompleteLookupMiss(t)
  \/ WaiterError(t)
  \/ WaiterHit(t)
  \/ WaiterMiss(t)

EvictStep(t) ==
  \/ EvictNotNeeded(t)
  \/ EvictNeeded(t)
  \/ EvictPick(t)
  \/ EvictNone(t)
  \/ EvictEmptyPool(t)
  \/ EvictExhausted(t)

RemoveStep(t) ==
  \/ \E b \in Ids : RemoveFromBlocks(t, b)
  \/ RemoveFromIndex(t)
  \/ RemoveFromLru(t)
  \/ BulkDone(t)

InsertStep(t) ==
  \/ ReplaceBlock(t)
  \/ Allocate(t)
  \/ InsertBlock(t)
  \/ InsertIndex(t)

DirtyStep(t) ==
  \/ ModifyGet(t)
  \/ \E n \in DirtySizes : ModifyWrite(t, n)
  \/ ModifySize(t)
  \/ ModifyFlag(t)
  \/ GetBlock(t)
  \/ GetAcquire(t)
  \/ GetTouch(t)

ClearStep(t) == ClearBlocks(t) \/ ClearIndex(t) \/ ClearLru(t)

\* What a thread inside a call does next, and the end of a handle's life.
Step(t) ==
  \/ AcquireStep(t)
  \/ EvictStep(t)
  \/ RemoveStep(t)
  \/ InsertStep(t)
  \/ DirtyStep(t)
  \/ ClearStep(t)
  \/ Drop(t)

\* What a caller may begin.
Begin(t) ==
  \/ \E k \in HashKeys : AcquireHit(t, k) \/ AcquireMiss(t, k)
  \/ \E k \in InodeKeys : \/ \E n \in DirtySizes : Insert(t, k, n)
                          \/ Modify(t, k)
                          \/ MarkFlushed(t, k)
                          \/ MarkNeedsFlush(t, k)
  \/ \E k \in Keys : Get(t, k)
  \/ \E i \in InodeIds : RemoveInode(t, i)
  \/ \E h \in HashIds : InvalidateHash(t, h)
  \/ Clear(t)

\* Nobody is inside a call.  A caller may stay away for ever, and a call whose
\* key or block is not there returns at once and changes nothing.
AllIdle ==
  /\ \A t \in Threads : pc[t] = "idle"
  /\ UNCHANGED vars

Next ==
  \/ \E t \in Threads : Begin(t) \/ Step(t) \/ Cancel(t)
  \/ AllIdle

Spec == Init /\ [][Next]_vars

\* The runtime keeps polling every task, the store answers every fetch with
\* data or an error, and a caller lets go of its handle.
Fairness == \A t \in Threads : WF_vars(Step(t))
FairSpec == Spec /\ Fairness

-----------------------------------------------------------------------------
(* Properties *)

ProgramPoints ==
  {"idle", "holding", "acquire_pending", "start_lookup", "start_pending",
   "register", "fetching", "complete", "complete_lookup", "waiting",
   "evict_check", "evict_scan", "evict_none", "remove", "remove_index",
   "remove_lru", "bulk", "allocate", "insert_block", "insert_index", "replace",
   "modify_get", "modify_write", "modify_size", "modify_flag",
   "get_block", "get_acquire", "get_touch",
   "clear_blocks", "clear_index", "clear_lru"}

Locals  == [key : Keys \cup {NoKey}, id : {NoBlock} \cup Ids, size : Nat, old : Nat,
            fut : {NoFetch} \cup FetchIds, todo : SUBSET Ids, bulk : BOOLEAN]
Objects == [key : Keys \cup {NoKey}, size : Nat, ref_count : Int,
            needs_flush : BOOLEAN]

\* Every variable has its type.
TypeOK ==
  /\ key_index \in [Keys -> {NoBlock} \cup Ids]
  /\ blocks \subseteq Ids
  /\ obj \in [Ids -> Objects]
  /\ pending \in [Keys -> {NoFetch} \cup FetchIds]
  /\ fetch \in [FetchIds -> {"unused", "running", "ok", "err"}]
  /\ lru_order \in Seq(Ids)
  /\ current_size \in Nat
  /\ next_id \in Nat \ {0}
  /\ next_fetch \in Nat \ {0}
  /\ pc \in [Threads -> ProgramPoints]
  /\ loc \in [Threads -> Locals]
  /\ hold \in [Threads -> {NoBlock, Detached} \cup Ids]
  /\ calls \in [Threads -> Nat]

Holders(b) == {t \in Threads : hold[t] = b}

\* The atomic counter of a block is the number of live references to it, on
\* every path that takes or drops one (acquire's four hits, get_dirty, a new
\* block, Drop); in particular fetch_sub never wraps below zero.
RefsCountHandles == \A b \in Ids : obj[b].ref_count = Cardinality(Holders(b))

\* An index entry whose block is gone is about to be removed.  A dangling
\* entry would stay for ever: has_dirty would answer TRUE for a chunk that
\* get_dirty cannot find.
NoDanglingIndex ==
  \A k \in Keys :
    key_index[k] \notin blocks \cup {NoBlock} =>
      \E t \in Threads : pc[t] = "remove_index" /\ obj[loc[t].id].key = k

\* A block in the pool is in the LRU queue.  Eviction walks the queue only: a
\* block outside it would keep its memory for ever.
BlocksAreQueued == \A b \in blocks : \E i \in 1 .. Len(lru_order) : lru_order[i] = b

\* The check for space and the allocation are two critical sections, so the
\* pool may grow past max_size, by at most a chunk for each other thread.
OvershootBounded ==
  current_size <= MaxSize + (Cardinality(Threads) - 1) * ChunkSize

\* A registered fetch has a thread that will take it out again: a key never
\* keeps a future that nobody completes, which every later acquire would await.
PendingHasFetcher ==
  \A k \in Keys : pending[k] # NoFetch =>
    \E t \in Threads : /\ pc[t] \in {"fetching", "complete"}
                       /\ loc[t].fut = pending[k]
                       /\ loc[t].key = k

\* Between calls every block is the one its key names and every index entry
\* names a block: no orphan that lookups, flushes and deletes cannot reach.
OneBlockPerKey ==
  (\A t \in Threads : pc[t] \in {"idle", "holding"}) =>
    /\ \A b \in blocks : key_index[obj[b].key] = b
    /\ \A k \in Keys : key_index[k] \in blocks \cup {NoBlock}

\* A block leaves the pool by eviction in this step.
Evicts(t, b) == pc[t] = "remove" /\ loc[t].id = b /\ b \in blocks \ blocks'

\* design/vfs.md: blocks with ref_count > 0 cannot be evicted.
InUseNotEvicted ==
  [][\A t \in Threads, b \in Ids : Evicts(t, b) => obj[b].ref_count = 0]_vars

\* design/vfs/runtime.md:64: dirty blocks are protected until mark_flushed.  With
\* two callers they are not (README, section Divergences), with one they are.
DirtyNotEvicted ==
  [][\A t \in Threads, b \in Ids : Evicts(t, b) => ~obj[b].needs_flush]_vars

\* Only one request per key is in flight (pending_fetches' comment).
OneFetchPerKey ==
  \A t, u \in Threads :
    pc[t] = "fetching" /\ pc[u] = "fetching" /\ loc[t].key = loc[u].key => t = u

\* design/vfs/runtime.md: hash-based blocks can always be re-fetched.  A key
\* whose registered future has failed, with nobody left to take it out, cannot.
AlwaysRefetchable ==
  \A k \in HashKeys : pending[k] # NoFetch /\ fetch[pending[k]] = "err" =>
    \E t \in Threads : pc[t] = "complete" /\ loc[t].key = k

\* Every call comes back: no waiter sleeps for ever and no eviction loop spins.
CallsReturn ==
  \A t \in Threads :
    pc[t] \notin {"idle", "holding"} ~> pc[t] \in {"idle", "holding"}

=============================================================================
