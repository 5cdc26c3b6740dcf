-------------------------- MODULE MemoryPool_proofs --------------------------
(***************************************************************************)
(* Proofs about MemoryPool and its uses in MCPools, for every set of       *)
(* threads, every set of keys and every bound: types, reference counts,    *)
(* and, as long as nobody calls clear, that the three structures of the    *)
(* pool agree; then that the bytes charged to it are those of its blocks   *)
(* (ChargedExactly), that they exceed its limit by what the other callers  *)
(* allocate at most (OvershootBounded), and that every key that is pending *)
(* has a caller that fetches it (PendingHasFetcher).                       *)
(*                                                                         *)
(* The sum of the blocks' lengths is a fold.  It is treated as a number of *)
(* elements: a block of length n has the n units <<b, 1>> .. <<b, n>>, and *)
(* SizeIsTotal shows that the fold counts the units of all blocks.         *)
(***************************************************************************)
EXTENDS MCPools, FiniteSetTheorems, WellFoundedInduction, TLAPS

-----------------------------------------------------------------------------
(* The LRU queue *)

\* Taking an id out of the queue leaves a queue.
LEMMA RetainType ==
  ASSUME NEW S, NEW s \in Seq(S), NEW b
  PROVE  Retain(s, b) \in Seq(S)
<1>1. CASE ~ \E i \in 1 .. Len(s) : s[i] = b
  BY <1>1 DEF Retain
<1>2. CASE \E i \in 1 .. Len(s) : s[i] = b
  <2> DEFINE i == CHOOSE i \in 1 .. Len(s) : s[i] = b
             r == [j \in 1 .. Len(s) - 1 |-> IF j < i THEN s[j] ELSE s[j + 1]]
  <2>1. i \in 1 .. Len(s)
    BY <1>2
  <2>2. Retain(s, b) = r
    BY <1>2 DEF Retain
  <2>3. \A j \in 1 .. Len(s) - 1 : r[j] \in S
    BY <2>1
  <2> HIDE DEF i
  <2>4. Len(s) - 1 \in Nat
    BY <2>1
  <2>5. r \in [1 .. Len(s) - 1 -> S]
    BY <2>3
  <2>6. r \in Seq(S)
    BY <2>4, <2>5
  <2> QED BY <2>2, <2>6
<1> QED BY <1>1, <1>2

InQueue(s, b) == \E i \in 1 .. Len(s) : s[i] = b

\* Taking one id out keeps every other id.
LEMMA RetainKeeps ==
  ASSUME NEW s, Len(s) \in Nat, NEW b, NEW c, c # b, InQueue(s, c)
  PROVE  InQueue(Retain(s, b), c)
<1> SUFFICES \E j \in 1 .. Len(Retain(s, b)) : Retain(s, b)[j] = c
  BY DEF InQueue
<1>0. \E i \in 1 .. Len(s) : s[i] = c
  BY DEF InQueue
<1>1. CASE ~ \E i \in 1 .. Len(s) : s[i] = b
  BY <1>0, <1>1 DEF Retain
<1>2. CASE \E i \in 1 .. Len(s) : s[i] = b
  <2> DEFINE i == CHOOSE i \in 1 .. Len(s) : s[i] = b
             r == [j \in 1 .. Len(s) - 1 |-> IF j < i THEN s[j] ELSE s[j + 1]]
  <2>1. i \in 1 .. Len(s) /\ s[i] = b
    BY <1>2
  <2>2. Retain(s, b) = r
    BY <1>2 DEF Retain
  <2> HIDE DEF i
  <2>3. Len(r) = Len(s) - 1
    BY <2>1
  <2>4. PICK n \in 1 .. Len(s) : s[n] = c
    BY <1>0
  <2>5. CASE n < i
    BY <2>1, <2>3, <2>4, <2>5, <2>2
  <2>6. CASE n > i
    <3>1. n - 1 \in 1 .. Len(s) - 1 /\ r[n - 1] = c
      BY <2>1, <2>4, <2>6
    <3> QED BY <3>1, <2>2, <2>3
  <2> QED BY <2>1, <2>4, <2>5, <2>6
<1> QED BY <1>1, <1>2

-----------------------------------------------------------------------------
(* Types *)

\* Points at which the local id names a block object.
IdPoints ==
  {"remove", "remove_index", "remove_lru", "insert_block", "insert_index",
   "replace", "modify_get", "modify_write", "modify_size", "modify_flag",
   "get_block", "get_acquire", "get_touch"}

\* Points at which the local key names a block of the pool.
KeyPoints ==
  {"acquire_pending", "start_lookup", "start_pending", "register", "fetching",
   "complete", "complete_lookup", "waiting", "evict_check", "evict_scan",
   "evict_none", "remove", "allocate", "insert_block", "insert_index", "replace"}

\* What the locals of a thread at this point are known to be.  A removal that
\* is not a bulk removal goes back to make room for the block of its key.
Knows(point, l) ==
  /\ point \in IdPoints => l.id \in Ids
  /\ point \in KeyPoints => l.key \in Keys
  /\ point \in {"remove_index", "remove_lru", "bulk"} => l.bulk \/ l.key \in Keys

LocalsKnown == \A t \in Threads : Knows(pc[t], loc[t])

ThreadTypes ==
  /\ pc \in [Threads -> ProgramPoints]
  /\ loc \in [Threads -> Locals]
  /\ hold \in [Threads -> {NoBlock, Detached} \cup Ids]
  /\ calls \in [Threads -> Nat]
  /\ LocalsKnown

PoolTypes ==
  /\ key_index \in [Keys -> {NoBlock} \cup Ids]
  /\ blocks \subseteq Ids
  /\ obj \in [Ids -> Objects]
  /\ pending \in [Keys -> {NoFetch} \cup FetchIds]
  /\ fetch \in [FetchIds -> {"unused", "running", "ok", "err"}]
  /\ lru_order \in Seq(Ids)
  /\ current_size \in Nat
  /\ next_id \in Nat \ {0}
  /\ next_fetch \in Nat \ {0}

TypeInv == ThreadTypes /\ PoolTypes

LEMMA TypeInvIsTypeOK == TypeInv <=> TypeOK /\ LocalsKnown
BY DEF TypeInv, ThreadTypes, PoolTypes, TypeOK

LEMMA NoLocalsType == NoLocals \in Locals
BY PoolAssumption DEF NoLocals, Locals, NoFetch, NoBlock

LEMMA TypeInit == Init => TypeInv
<1> SUFFICES ASSUME Init PROVE TypeInv
  OBVIOUS
<1> USE PoolAssumption DEF Init
<1>1. NoObject \in Objects
  BY DEF NoObject, Objects
<1>2. ThreadTypes
  BY NoLocalsType DEF ThreadTypes, ProgramPoints, NoBlock, LocalsKnown, Knows, IdPoints, KeyPoints
<1>3. PoolTypes
  BY <1>1 DEF PoolTypes, NoBlock, NoFetch
<1> QED BY <1>2, <1>3 DEF TypeInv

\* What the ways of moving a thread do to the types of its state.
LEMMA SetLocalTypes ==
  ASSUME ThreadTypes, NEW t \in Threads, NEW to \in ProgramPoints, NEW l \in Locals,
         Knows(to, l),
         SetLocal(t, to, l), hold' \in [Threads -> {NoBlock, Detached} \cup Ids],
         calls' \in [Threads -> Nat]
  PROVE  ThreadTypes'
BY DEF ThreadTypes, SetLocal, LocalsKnown

LEMMA GotoTypes ==
  ASSUME ThreadTypes, NEW t \in Threads, NEW from, NEW to \in ProgramPoints,
         Knows(to, loc[t]),
         Goto(t, from, to), UNCHANGED <<loc, calls>>,
         hold' \in [Threads -> {NoBlock, Detached} \cup Ids]
  PROVE  ThreadTypes'
BY DEF ThreadTypes, Goto, LocalsKnown

LEMMA ReturnTypes ==
  ASSUME ThreadTypes, NEW t \in Threads, Return(t), UNCHANGED calls
  PROVE  ThreadTypes'
BY NoLocalsType DEF ThreadTypes, Return, LocalsKnown, Knows, IdPoints, KeyPoints, ProgramPoints

LEMMA ReturnHandleTypes ==
  ASSUME ThreadTypes, NEW t \in Threads, NEW b \in {Detached} \cup Ids,
         ReturnHandle(t, b), calls' \in [Threads -> Nat]
  PROVE  ThreadTypes'
BY NoLocalsType DEF ThreadTypes, ReturnHandle, LocalsKnown, Knows, IdPoints, KeyPoints, ProgramPoints

LEMMA CallTypes ==
  ASSUME ThreadTypes, NEW t \in Threads, NEW op, Call(t, op)
  PROVE  calls' \in [Threads -> Nat]
BY DEF ThreadTypes, Call

LEMMA AddRefTypes ==
  ASSUME obj \in [Ids -> Objects], NEW b, AddRef(b)
  PROVE  obj' \in [Ids -> Objects]
<1>1. CASE b \in Ids
  <2>1. [obj[b] EXCEPT !.ref_count = @ + 1] \in Objects
    BY <1>1 DEF Objects
  <2> QED BY <1>1, <2>1 DEF AddRef
<1>2. CASE b \notin Ids
  BY <1>2 DEF AddRef
<1> QED BY <1>1, <1>2

LEMMA SaturatingSubType ==
  ASSUME NEW a \in Nat, NEW b \in Nat
  PROVE  SaturatingSub(a, b) \in Nat
BY DEF SaturatingSub

LEMMA TouchTypes ==
  ASSUME lru_order \in Seq(Ids), NEW b \in Ids, Touch(b)
  PROVE  lru_order' \in Seq(Ids)
BY RetainType DEF Touch

\* Fields of a thread's locals and of a block.
LEMMA FieldTypes ==
  ASSUME TypeInv
  PROVE  /\ \A t \in Threads : /\ loc[t] \in Locals
                               /\ loc[t].size \in Nat /\ loc[t].old \in Nat
                               /\ loc[t].todo \subseteq Ids
                               /\ loc[t].fut \in {NoFetch} \cup FetchIds
                               /\ loc[t].key \in Keys \cup {NoKey}
         /\ \A b \in Ids : /\ obj[b].size \in Nat
                           /\ obj[b].ref_count \in Int
                           /\ obj[b].key \in Keys \cup {NoKey}
BY DEF TypeInv, ThreadTypes, PoolTypes, Locals, Objects

\* A thread that only moves on, within the points at which its key is known.
LEMMA KeyGoto ==
  ASSUME ThreadTypes, NEW t \in Threads,
         NEW from \in KeyPoints, NEW to \in KeyPoints \ IdPoints,
         Goto(t, from, to), UNCHANGED <<loc, calls, hold>>
  PROVE  ThreadTypes'
<1>1. Knows(to, loc[t])
  BY DEF ThreadTypes, LocalsKnown, Knows, Goto, KeyPoints
<1>2. to \in ProgramPoints
  BY DEF KeyPoints, ProgramPoints
<1> QED BY <1>1, <1>2, GotoTypes DEF ThreadTypes

LEMMA KeySetLocal ==
  ASSUME ThreadTypes, NEW t \in Threads,
         NEW to \in KeyPoints \ IdPoints, NEW l \in Locals, l.key \in Keys,
         SetLocal(t, to, l), UNCHANGED hold, calls' \in [Threads -> Nat]
  PROVE  ThreadTypes'
<1>1. Knows(to, l)
  BY DEF Knows, KeyPoints
<1>2. to \in ProgramPoints
  BY DEF KeyPoints, ProgramPoints
<1> QED BY <1>1, <1>2, SetLocalTypes DEF ThreadTypes

LEMMA KeyKnown ==
  ASSUME ThreadTypes, NEW t \in Threads, pc[t] \in KeyPoints
  PROVE  loc[t].key \in Keys
BY DEF ThreadTypes, LocalsKnown, Knows

LEMMA KeyPointsAre ==
  /\ {"acquire_pending", "start_lookup", "start_pending", "register", "fetching",
      "complete", "complete_lookup", "waiting", "evict_check", "evict_scan",
      "evict_none", "allocate"} \subseteq KeyPoints \ IdPoints
  /\ IdPoints \cup KeyPoints \subseteq ProgramPoints
BY DEF KeyPoints, IdPoints, ProgramPoints

LEMMA PoolFrame ==
  ASSUME PoolTypes, UNCHANGED <<maps, obj, fetches, lru>>
  PROVE  PoolTypes'
BY DEF PoolTypes, maps, fetches, lru

\* Acquiring and fetching.
LEMMA TypeAcquire ==
  ASSUME TypeInv, NEW t \in Threads,
         \/ \E k \in HashKeys : AcquireHit(t, k) \/ AcquireMiss(t, k)
         \/ AcquireStep(t)
         \/ Cancel(t)
  PROVE  TypeInv'
<1> USE DEF TypeInv
<1>1. ASSUME NEW k \in HashKeys, AcquireHit(t, k) PROVE TypeInv'
  BY <1>1, CallTypes, AddRefTypes, TouchTypes, ReturnHandleTypes
  DEF AcquireHit, Cached, PoolTypes, lru, maps, fetches
<1>2. ASSUME NEW k \in HashKeys, AcquireMiss(t, k) PROVE TypeInv'
  <2> DEFINE l == [NoLocals EXCEPT !.key = k]
  <2>1. l \in Locals /\ l.key \in Keys
    BY NoLocalsType DEF Locals, HashKeys, Keys
  <2>2. ThreadTypes'
    BY <1>2, <2>1, CallTypes, KeySetLocal, KeyPointsAre DEF AcquireMiss
  <2> QED BY <1>2, <2>2, PoolFrame DEF AcquireMiss
<1>3. ASSUME NEW from \in {"acquire_pending", "start_pending"}, AwaitOther(t, from)
      PROVE  TypeInv'
  <2> DEFINE l == [loc[t] EXCEPT !.fut = pending[loc[t].key]]
  <2>1. loc[t].key \in Keys
    BY <1>3, KeyKnown, KeyPointsAre DEF AwaitOther
  <2>2. l \in Locals /\ l.key = loc[t].key
    BY <2>1 DEF Locals, ThreadTypes, PoolTypes
  <2>3. ThreadTypes'
    BY <1>3, <2>1, <2>2, KeySetLocal, KeyPointsAre DEF AwaitOther, ThreadTypes
  <2> QED BY <1>3, <2>3, PoolFrame DEF AwaitOther
<1>4. CASE AcquireNoPending(t)
  BY <1>4, KeyGoto, KeyPointsAre, PoolFrame DEF AcquireNoPending
<1>5. ASSUME NEW from, LookupHit(t, from) PROVE TypeInv'
  BY <1>5, AddRefTypes, ReturnHandleTypes
  DEF LookupHit, Cached, ThreadTypes, PoolTypes, lru, maps, fetches
<1>6. CASE StartLookupMiss(t)
  BY <1>6, KeyGoto, KeyPointsAre, PoolFrame DEF StartLookupMiss
<1>7. CASE StartNoPending(t)
  BY <1>7, KeyGoto, KeyPointsAre, PoolFrame DEF StartNoPending
<1>8. CASE Register(t)
  <2> DEFINE l == [loc[t] EXCEPT !.fut = next_fetch]
  <2>1. l \in Locals /\ l.key = loc[t].key
    BY <1>8 DEF Locals, Register, ThreadTypes
  <2>2. loc[t].key \in Keys
    BY <1>8, KeyKnown, KeyPointsAre DEF Register
  <2>3. ThreadTypes'
    BY <1>8, <2>1, <2>2, KeySetLocal, KeyPointsAre DEF Register, ThreadTypes
  <2>4. PoolTypes'
    <3>1. /\ next_fetch \in FetchIds /\ next_fetch' = next_fetch + 1
          /\ pending' = [pending EXCEPT ![loc[t].key] = next_fetch]
          /\ fetch' = [fetch EXCEPT ![next_fetch] = "running"]
          /\ UNCHANGED <<maps, obj, lru>>
      BY <1>8 DEF Register
    <3>2. next_fetch' \in Nat \ {0}
      BY <3>1 DEF PoolTypes
    <3> QED BY <3>1, <3>2 DEF PoolTypes, maps, lru
  <2> QED BY <2>3, <2>4
<1>9. ASSUME NEW result \in {"ok", "err"}, FetchReturn(t, result) PROVE TypeInv'
  <2>1. ThreadTypes'
    BY <1>9, KeyGoto, KeyPointsAre DEF FetchReturn
  <2>2. PoolTypes'
    BY <1>9 DEF FetchReturn, PoolTypes, maps, lru
  <2> QED BY <2>1, <2>2
<1>10. CASE CompleteRemovePending(t)
  <2>1. PoolTypes'
    <3>1. UNCHANGED <<maps, obj, fetch, next_fetch, lru>>
      BY <1>10 DEF CompleteRemovePending
    <3>2. pending' = [pending EXCEPT ![loc[t].key] = NoFetch]
      BY <1>10 DEF CompleteRemovePending
    <3> QED BY <3>1, <3>2 DEF PoolTypes, maps, lru
  <2>2. ThreadTypes'
    BY <1>10, KeyGoto, KeyPointsAre, ReturnTypes DEF CompleteRemovePending
  <2> QED BY <2>1, <2>2
<1>11. CASE CompleteLookupMiss(t)
  <2> DEFINE l == [loc[t] EXCEPT !.size = ChunkSize]
  <2>1. l \in Locals /\ l.key = loc[t].key
    BY PoolAssumption DEF Locals, ThreadTypes
  <2>2. loc[t].key \in Keys
    BY <1>11, KeyKnown, KeyPointsAre DEF CompleteLookupMiss
  <2>3. ThreadTypes'
    BY <1>11, <2>1, <2>2, KeySetLocal, KeyPointsAre DEF CompleteLookupMiss, ThreadTypes
  <2> QED BY <1>11, <2>3, PoolFrame DEF CompleteLookupMiss
<1>12. CASE WaiterError(t)
  BY <1>12, ReturnTypes, PoolFrame DEF WaiterError
<1>13. CASE WaiterHit(t)
  BY <1>13, <1>5 DEF WaiterHit
<1>14. CASE WaiterMiss(t)
  BY <1>14, ReturnHandleTypes, PoolFrame DEF WaiterMiss, ThreadTypes
<1>15. CASE Cancel(t)
  <2>1. PoolTypes'
    BY <1>15 DEF Cancel, PoolTypes, maps, lru
  <2> QED BY <1>15, <2>1, ReturnTypes DEF Cancel
<1> QED BY <1>1, <1>2, <1>3, <1>4, <1>5, <1>6, <1>7, <1>8, <1>9, <1>10, <1>11,
           <1>12, <1>13, <1>14, <1>15 DEF AcquireStep

\* Making room and inserting.
LEMMA TypeEvict ==
  ASSUME TypeInv, NEW t \in Threads, EvictStep(t)
  PROVE  TypeInv'
<1> USE DEF TypeInv
<1>1. CASE EvictNotNeeded(t)
  BY <1>1, KeyGoto, KeyPointsAre, PoolFrame DEF EvictNotNeeded
<1>2. CASE EvictNeeded(t)
  BY <1>2, KeyGoto, KeyPointsAre, PoolFrame DEF EvictNeeded
<1>3. CASE EvictPick(t)
  <2>1. PICK i \in 1 .. Len(lru_order) :
          SetLocal(t, "remove", [loc[t] EXCEPT !.id = lru_order[i]])
    BY <1>3 DEF EvictPick
  <2>2. lru_order[i] \in Ids
    BY DEF PoolTypes
  <2> DEFINE l == [loc[t] EXCEPT !.id = lru_order[i]]
  <2>3. l \in Locals /\ l.key = loc[t].key /\ l.id = lru_order[i]
    BY <2>2 DEF Locals, ThreadTypes
  <2>4. loc[t].key \in Keys
    BY <1>3, KeyKnown, KeyPointsAre DEF EvictPick
  <2>5. Knows("remove", l)
    BY <2>2, <2>3, <2>4 DEF Knows
  <2>6. ThreadTypes'
    BY <1>3, <2>1, <2>3, <2>5, SetLocalTypes DEF EvictPick, ThreadTypes, ProgramPoints
  <2> QED BY <1>3, <2>6, PoolFrame DEF EvictPick
<1>4. CASE EvictNone(t)
  BY <1>4, KeyGoto, KeyPointsAre, PoolFrame DEF EvictNone
<1>5. CASE EvictEmptyPool(t)
  BY <1>5, KeyGoto, KeyPointsAre, PoolFrame DEF EvictEmptyPool
<1>6. CASE EvictExhausted(t)
  BY <1>6, ReturnTypes, PoolFrame DEF EvictExhausted
<1> QED BY <1>1, <1>2, <1>3, <1>4, <1>5, <1>6 DEF EvictStep

LEMMA TypeRemove ==
  ASSUME TypeInv, NEW t \in Threads, RemoveStep(t)
  PROVE  TypeInv'
<1> USE DEF TypeInv
<1>1. ASSUME NEW b \in Ids, RemoveFromBlocks(t, b) PROVE TypeInv'
  <2>1. PoolTypes'
    BY <1>1 DEF RemoveFromBlocks, PoolTypes, fetches, lru
  <2>2. \A u \in Threads : u # t => pc'[u] = pc[u] /\ loc'[u] = loc[u]
    BY <1>1 DEF RemoveFromBlocks, ThreadTypes
  <2>3. pc'[t] \in {"remove_index", "bulk", "evict_check"}
    BY <1>1 DEF RemoveFromBlocks, ThreadTypes
  <2>4. /\ loc' \in [Threads -> Locals]
        /\ loc'[t].id = b /\ loc'[t].key = loc[t].key /\ loc'[t].bulk = loc[t].bulk
    <3>1. CASE b = loc[t].id /\ loc' = loc
      BY <3>1 DEF ThreadTypes
    <3>2. CASE loc' = [loc EXCEPT ![t].id = b, ![t].todo = @ \ {b}]
      <4>1. [loc[t] EXCEPT !.id = b, !.todo = @ \ {b}] \in Locals
        BY DEF ThreadTypes, Locals
      <4> QED BY <3>2, <4>1 DEF ThreadTypes, Locals
    <3> QED BY <1>1, <3>1, <3>2 DEF RemoveFromBlocks
  <2>5. pc[t] \in {"remove", "bulk"} /\ (pc'[t] = "evict_check" => ~loc[t].bulk)
    BY <1>1 DEF RemoveFromBlocks, ThreadTypes
  <2>6. Knows(pc'[t], loc'[t])
    BY <2>3, <2>4, <2>5 DEF ThreadTypes, LocalsKnown, Knows, IdPoints, KeyPoints
  <2>7. pc' \in [Threads -> ProgramPoints]
    BY <1>1, <2>3 DEF RemoveFromBlocks, ThreadTypes, ProgramPoints
  <2> QED BY <1>1, <2>1, <2>2, <2>4, <2>6, <2>7
          DEF RemoveFromBlocks, ThreadTypes, LocalsKnown
<1>2. CASE RemoveFromIndex(t)
  <2>1. Knows("remove_lru", loc[t])
    BY <1>2 DEF RemoveFromIndex, Goto, ThreadTypes, LocalsKnown, Knows, IdPoints, KeyPoints
  <2>2. ThreadTypes'
    BY <1>2, <2>1, GotoTypes DEF RemoveFromIndex, ThreadTypes, ProgramPoints
  <2>3. PoolTypes'
    BY <1>2 DEF RemoveFromIndex, PoolTypes, fetches, lru, NoBlock
  <2> QED BY <2>2, <2>3
<1>3. CASE RemoveFromLru(t)
  <2> DEFINE to == IF loc[t].bulk THEN "bulk" ELSE "evict_check"
  <2>1. Knows(to, loc[t])
    BY <1>3 DEF RemoveFromLru, Goto, ThreadTypes, LocalsKnown, Knows, IdPoints, KeyPoints
  <2>2. ThreadTypes'
    BY <1>3, <2>1, GotoTypes DEF RemoveFromLru, ThreadTypes, ProgramPoints
  <2>3. loc[t].id \in Ids
    BY <1>3 DEF RemoveFromLru, Goto, ThreadTypes, LocalsKnown, Knows, IdPoints
  <2>4. current_size' \in Nat
    BY <1>3, <2>3, SaturatingSubType, FieldTypes DEF RemoveFromLru, PoolTypes
  <2>5. lru_order' \in Seq(Ids)
    BY <1>3, RetainType DEF RemoveFromLru, PoolTypes
  <2>6. PoolTypes'
    BY <1>3, <2>4, <2>5 DEF RemoveFromLru, PoolTypes, maps, fetches
  <2> QED BY <2>2, <2>6
<1>4. CASE BulkDone(t)
  BY <1>4, ReturnTypes, PoolFrame DEF BulkDone
<1> QED BY <1>1, <1>2, <1>3, <1>4 DEF RemoveStep

LEMMA TypeInsert ==
  ASSUME TypeInv, NEW t \in Threads, InsertStep(t)
  PROVE  TypeInv'
<1> USE DEF TypeInv
<1>1. CASE ReplaceBlock(t)
  <2> DEFINE to == IF loc[t].id \in blocks THEN "remove_lru" ELSE "evict_check"
  <2>1. Knows(to, loc[t])
    BY <1>1 DEF ReplaceBlock, Goto, ThreadTypes, LocalsKnown, Knows, IdPoints, KeyPoints
  <2>2. ThreadTypes'
    BY <1>1, <2>1, GotoTypes DEF ReplaceBlock, ThreadTypes, ProgramPoints
  <2>3. PoolTypes'
    BY <1>1 DEF ReplaceBlock, PoolTypes, fetches, lru
  <2> QED BY <2>2, <2>3
<1>2. CASE Allocate(t)
  <2> DEFINE l == [loc[t] EXCEPT !.id = next_id]
             o == [key |-> loc[t].key, size |-> loc[t].size, ref_count |-> 1,
                   needs_flush |-> ~IsHash(loc[t].key)]
  <2>1. next_id \in Ids
    BY <1>2 DEF Allocate
  <2>2. l \in Locals /\ l.key = loc[t].key /\ l.id = next_id
    BY <2>1 DEF Locals, ThreadTypes
  <2>3. loc[t].key \in Keys
    BY <1>2, KeyKnown, KeyPointsAre DEF Allocate
  <2>4. Knows("insert_block", l)
    BY <2>1, <2>2, <2>3 DEF Knows
  <2>5. hold' \in [Threads -> {NoBlock, Detached} \cup Ids]
    BY <1>2, <2>1 DEF Allocate, ThreadTypes
  <2>6. ThreadTypes'
    BY <1>2, <2>2, <2>4, <2>5, SetLocalTypes DEF Allocate, ThreadTypes, ProgramPoints
  <2>7. IsHash(loc[t].key) \in BOOLEAN
    BY DEF IsHash
  <2>8. o \in Objects
    BY <2>3, <2>7, FieldTypes DEF Objects
  <2>9. current_size' \in Nat /\ next_id' \in Nat \ {0} /\ lru_order' \in Seq(Ids)
    BY <1>2, <2>1, FieldTypes DEF Allocate, PoolTypes
  <2>10. obj' \in [Ids -> Objects]
    BY <1>2, <2>1, <2>8 DEF Allocate, PoolTypes
  <2>11. PoolTypes'
    BY <1>2, <2>9, <2>10 DEF Allocate, PoolTypes, maps, fetches
  <2> QED BY <2>6, <2>11
<1>3. CASE InsertBlock(t)
  <2>1. Knows("insert_index", loc[t]) /\ loc[t].id \in Ids
    BY <1>3 DEF InsertBlock, Goto, ThreadTypes, LocalsKnown, Knows, IdPoints, KeyPoints
  <2>2. ThreadTypes'
    BY <1>3, <2>1, GotoTypes DEF InsertBlock, ThreadTypes, ProgramPoints
  <2>3. PoolTypes'
    BY <1>3, <2>1 DEF InsertBlock, PoolTypes, fetches, lru
  <2> QED BY <2>2, <2>3
<1>4. CASE InsertIndex(t)
  <2>1. loc[t].id \in Ids
    BY <1>4 DEF InsertIndex, ThreadTypes, LocalsKnown, Knows, IdPoints
  <2>2. ThreadTypes'
    BY <1>4, <2>1, ReturnHandleTypes DEF InsertIndex, ThreadTypes
  <2>3. PoolTypes'
    BY <1>4, <2>1 DEF InsertIndex, PoolTypes, fetches, lru
  <2> QED BY <2>2, <2>3
<1> QED BY <1>1, <1>2, <1>3, <1>4 DEF InsertStep

\* Blocks of modified files, the looser lookups, clear and the end of a handle.
LEMMA TypeDirty ==
  ASSUME TypeInv, NEW t \in Threads, DirtyStep(t)
  PROVE  TypeInv'
<1> USE DEF TypeInv
<1>1. CASE ModifyGet(t)
  <2>1. pc[t] = "modify_get" => Knows("modify_write", loc[t])
    BY DEF ThreadTypes, LocalsKnown, Knows, IdPoints, KeyPoints
  <2>2. ThreadTypes'
    BY <1>1, <2>1, GotoTypes, ReturnTypes DEF ModifyGet, ThreadTypes, ProgramPoints
  <2> QED BY <1>1, <2>2, PoolFrame DEF ModifyGet
<1>2. ASSUME NEW n \in DirtySizes, ModifyWrite(t, n) PROVE TypeInv'
  <2> DEFINE l == [loc[t] EXCEPT !.old = obj[loc[t].id].size, !.size = n]
             to == IF n = obj[loc[t].id].size THEN "modify_flag" ELSE "modify_size"
  <2>1. loc[t].id \in Ids
    BY <1>2 DEF ModifyWrite, ThreadTypes, LocalsKnown, Knows, IdPoints
  <2>2. n \in Nat
    BY PoolAssumption
  <2>3. l \in Locals /\ l.id = loc[t].id
    BY <2>1, <2>2, FieldTypes DEF Locals
  <2>4. Knows(to, l)
    BY <2>1, <2>3 DEF Knows, KeyPoints
  <2>5. ThreadTypes'
    BY <1>2, <2>3, <2>4, SetLocalTypes DEF ModifyWrite, ThreadTypes, ProgramPoints
  <2>6. [obj[loc[t].id] EXCEPT !.size = n] \in Objects
    BY <2>1, <2>2 DEF PoolTypes, Objects
  <2>7. PoolTypes'
    BY <1>2, <2>6 DEF ModifyWrite, PoolTypes, maps, fetches, lru
  <2> QED BY <2>5, <2>7
<1>3. CASE ModifySize(t)
  <2>1. Knows("modify_flag", loc[t])
    BY <1>3 DEF ModifySize, Goto, ThreadTypes, LocalsKnown, Knows, IdPoints, KeyPoints
  <2>2. ThreadTypes'
    BY <1>3, <2>1, GotoTypes DEF ModifySize, ThreadTypes, ProgramPoints
  <2>3. current_size' \in Nat
    <3>1. loc[t].size \in Nat /\ loc[t].old \in Nat /\ current_size \in Nat
      BY FieldTypes DEF PoolTypes
    <3>2. CASE loc[t].size > loc[t].old
      BY <1>3, <3>1, <3>2 DEF ModifySize
    <3>3. CASE ~ (loc[t].size > loc[t].old)
      <4>1. loc[t].old - loc[t].size \in Nat
        BY <3>1, <3>3
      <4> QED BY <1>3, <3>1, <3>3, <4>1, SaturatingSubType DEF ModifySize
    <3> QED BY <3>2, <3>3
  <2>4. PoolTypes'
    BY <1>3, <2>3 DEF ModifySize, PoolTypes, maps, fetches
  <2> QED BY <2>2, <2>4
<1>4. CASE ModifyFlag(t)
  <2>1. loc[t].id \in Ids
    BY <1>4 DEF ModifyFlag, ThreadTypes, LocalsKnown, Knows, IdPoints
  <2>2. [obj[loc[t].id] EXCEPT !.needs_flush = TRUE] \in Objects
    BY <2>1 DEF PoolTypes, Objects
  <2>3. PoolTypes'
    BY <1>4, <2>2 DEF ModifyFlag, PoolTypes, maps, fetches, lru
  <2> QED BY <1>4, <2>3, ReturnTypes DEF ModifyFlag
<1>5. CASE GetBlock(t)
  <2>1. pc[t] = "get_block" => Knows("get_acquire", loc[t])
    BY DEF ThreadTypes, LocalsKnown, Knows, IdPoints, KeyPoints
  <2>2. ThreadTypes'
    BY <1>5, <2>1, GotoTypes, ReturnTypes DEF GetBlock, ThreadTypes, ProgramPoints
  <2> QED BY <1>5, <2>2, PoolFrame DEF GetBlock
<1>6. CASE GetAcquire(t)
  <2>1. Knows("get_touch", loc[t]) /\ loc[t].id \in Ids
    BY <1>6 DEF GetAcquire, Goto, ThreadTypes, LocalsKnown, Knows, IdPoints, KeyPoints
  <2>2. hold' \in [Threads -> {NoBlock, Detached} \cup Ids]
    BY <1>6, <2>1 DEF GetAcquire, ThreadTypes
  <2>3. ThreadTypes'
    BY <1>6, <2>1, <2>2, GotoTypes DEF GetAcquire, ProgramPoints
  <2>4. obj' \in [Ids -> Objects]
    BY <1>6, AddRefTypes DEF GetAcquire, PoolTypes
  <2>5. PoolTypes'
    BY <1>6, <2>4 DEF GetAcquire, PoolTypes, maps, fetches, lru
  <2> QED BY <2>3, <2>5
<1>7. CASE GetTouch(t)
  <2>1. loc[t].id \in Ids
    BY <1>7 DEF GetTouch, ThreadTypes, LocalsKnown, Knows, IdPoints
  <2>2. ThreadTypes'
    BY <1>7, <2>1, ReturnHandleTypes DEF GetTouch, ThreadTypes
  <2>3. lru_order' \in Seq(Ids)
    BY <1>7, <2>1, TouchTypes DEF GetTouch, PoolTypes
  <2>4. PoolTypes'
    BY <1>7, <2>3 DEF GetTouch, PoolTypes, maps, fetches
  <2> QED BY <2>2, <2>4
<1> QED BY <1>1, <1>2, <1>3, <1>4, <1>5, <1>6, <1>7 DEF DirtyStep

LEMMA TypeClearDrop ==
  ASSUME TypeInv, NEW t \in Threads, ClearStep(t) \/ Drop(t)
  PROVE  TypeInv'
<1> USE DEF TypeInv
<1>1. CASE ClearBlocks(t)
  <2>1. Knows("clear_index", loc[t])
    BY DEF Knows, IdPoints, KeyPoints
  <2>2. ThreadTypes'
    BY <1>1, <2>1, GotoTypes DEF ClearBlocks, ThreadTypes, ProgramPoints
  <2>3. PoolTypes'
    BY <1>1 DEF ClearBlocks, PoolTypes, fetches, lru
  <2> QED BY <2>2, <2>3
<1>2. CASE ClearIndex(t)
  <2>1. Knows("clear_lru", loc[t])
    BY DEF Knows, IdPoints, KeyPoints
  <2>2. ThreadTypes'
    BY <1>2, <2>1, GotoTypes DEF ClearIndex, ThreadTypes, ProgramPoints
  <2>3. PoolTypes'
    BY <1>2 DEF ClearIndex, PoolTypes, fetches, lru
  <2> QED BY <2>2, <2>3
<1>3. CASE ClearLru(t)
  <2>1. PoolTypes'
    BY <1>3 DEF ClearLru, PoolTypes, maps, fetches
  <2> QED BY <1>3, <2>1, ReturnTypes DEF ClearLru
<1>4. CASE Drop(t)
  <2>1. ThreadTypes'
    <3>1. Knows("idle", loc[t])
      BY DEF Knows, IdPoints, KeyPoints
    <3>2. pc' = [pc EXCEPT ![t] = "idle"] /\ hold' = [hold EXCEPT ![t] = NoBlock]
          /\ UNCHANGED <<loc, calls>>
      BY <1>4 DEF Drop
    <3> QED BY <3>1, <3>2 DEF ThreadTypes, LocalsKnown, ProgramPoints
  <2>2. obj' \in [Ids -> Objects]
    <3>1. CASE hold[t] \in Ids
      <4>1. obj[hold[t]].ref_count - 1 \in Int
        BY <3>1, FieldTypes
      <4>2. [obj[hold[t]] EXCEPT !.ref_count = @ - 1] \in Objects
        BY <3>1, <4>1 DEF PoolTypes, Objects
      <4>3. obj' = [obj EXCEPT ![hold[t]] = [obj[hold[t]] EXCEPT !.ref_count = @ - 1]]
        BY <1>4, <3>1 DEF Drop
      <4> QED BY <4>2, <4>3 DEF PoolTypes
    <3>2. CASE hold[t] \notin Ids
      BY <1>4, <3>2 DEF Drop, PoolTypes
    <3> QED BY <3>1, <3>2
  <2>3. PoolTypes'
    BY <1>4, <2>2 DEF Drop, PoolTypes, maps, fetches, lru
  <2> QED BY <2>1, <2>3
<1> QED BY <1>1, <1>2, <1>3, <1>4 DEF ClearStep

\* The beginnings of the other calls.
LEMMA TypeBegin ==
  ASSUME TypeInv, NEW t \in Threads, Begin(t)
  PROVE  TypeInv'
<1> USE DEF TypeInv
<1>1. ASSUME NEW k \in InodeKeys, NEW n \in DirtySizes, Insert(t, k, n) PROVE TypeInv'
  <2> DEFINE l == [NoLocals EXCEPT !.key = k, !.size = n, !.id = key_index[k]]
             to == IF key_index[k] = NoBlock THEN "evict_check" ELSE "replace"
  <2>1. k \in Keys /\ n \in Nat
    BY PoolAssumption DEF InodeKeys, Keys
  <2>2. l \in Locals /\ l.key = k /\ l.id = key_index[k]
    BY <2>1, NoLocalsType DEF Locals, PoolTypes
  <2>3. Knows(to, l)
    BY <2>1, <2>2 DEF PoolTypes, Knows, IdPoints, KeyPoints
  <2>4. ThreadTypes'
    BY <1>1, <2>2, <2>3, CallTypes, SetLocalTypes DEF Insert, ThreadTypes, ProgramPoints
  <2>5. PoolTypes'
    BY <1>1 DEF Insert, PoolTypes, fetches, lru, NoBlock
  <2> QED BY <2>4, <2>5
<1>2. ASSUME NEW k \in Keys, Modify(t, k) \/ Get(t, k) PROVE TypeInv'
  <2> DEFINE l == [NoLocals EXCEPT !.key = k, !.id = key_index[k]]
  <2>1. l \in Locals /\ l.key = k /\ l.id = key_index[k]
    BY NoLocalsType DEF Locals, PoolTypes
  <2>2. key_index[k] \in Ids
    BY <1>2 DEF Modify, Get, PoolTypes
  <2>3. Knows("modify_get", l) /\ Knows("get_block", l)
    BY <2>1, <2>2 DEF Knows, KeyPoints
  <2>4. ThreadTypes'
    BY <1>2, <2>1, <2>3, CallTypes, SetLocalTypes
    DEF Modify, Get, ThreadTypes, ProgramPoints
  <2> QED BY <1>2, <2>4, PoolFrame DEF Modify, Get
<1>3. ASSUME NEW op, NEW k, NEW flag \in BOOLEAN, SetFlush(t, op, k, flag) PROVE TypeInv'
  <2>1. key_index[k] \in Ids
    BY <1>3 DEF SetFlush, Cached, PoolTypes
  <2>2. [obj[key_index[k]] EXCEPT !.needs_flush = flag] \in Objects
    BY <2>1 DEF PoolTypes, Objects
  <2>3. PoolTypes'
    BY <1>3, <2>2 DEF SetFlush, PoolTypes, maps, fetches, lru
  <2>4. ThreadTypes'
    BY <1>3, CallTypes DEF SetFlush, ThreadTypes, LocalsKnown
  <2> QED BY <2>3, <2>4
<1>4. ASSUME NEW c \in InodeIds \cup HashIds, RemoveInode(t, c) \/ InvalidateHash(t, c)
      PROVE  TypeInv'
  <2>1. PICK todo \in SUBSET Ids :
          SetLocal(t, "bulk", [NoLocals EXCEPT !.bulk = TRUE, !.todo = todo])
    <3>1. \A d \in Chunks : <<c, d>> \in Keys
      BY <1>4 DEF Keys
    <3>2. {key_index[<<c, d>>] : d \in Chunks} \ {NoBlock} \subseteq Ids
      BY <3>1 DEF PoolTypes
    <3>3. {b \in {key_index[<<c, d>>] : d \in Chunks} : b \in blocks /\ CanEvict(b)}
             \subseteq Ids
      BY DEF PoolTypes
    <3> QED BY <1>4, <3>2, <3>3 DEF RemoveInode, InvalidateHash
  <2> DEFINE l == [NoLocals EXCEPT !.bulk = TRUE, !.todo = todo]
  <2>2. l \in Locals /\ l.bulk
    BY NoLocalsType DEF Locals, NoLocals
  <2>3. Knows("bulk", l)
    BY <2>2 DEF Knows, IdPoints, KeyPoints
  <2>4. ThreadTypes'
    BY <1>4, <2>1, <2>2, <2>3, CallTypes, SetLocalTypes
    DEF RemoveInode, InvalidateHash, ThreadTypes, ProgramPoints
  <2> QED BY <1>4, <2>4, PoolFrame DEF RemoveInode, InvalidateHash
<1>5. CASE Clear(t)
  <2>1. Knows("clear_blocks", NoLocals)
    BY DEF Knows, IdPoints, KeyPoints
  <2>2. ThreadTypes'
    BY <1>5, <2>1, NoLocalsType, CallTypes, SetLocalTypes
    DEF Clear, ThreadTypes, ProgramPoints
  <2> QED BY <1>5, <2>2, PoolFrame DEF Clear
<1>6. InodeKeys \subseteq Keys
  BY DEF InodeKeys, Keys
<1> QED BY <1>1, <1>2, <1>3, <1>4, <1>5, <1>6, TypeAcquire
        DEF Begin, MarkFlushed, MarkNeedsFlush

LEMMA TypeNext == TypeInv /\ [Next]_vars => TypeInv'
<1> SUFFICES ASSUME TypeInv, [Next]_vars PROVE TypeInv'
  OBVIOUS
<1>1. CASE UNCHANGED vars
  BY <1>1 DEF TypeInv, ThreadTypes, PoolTypes, LocalsKnown, vars
<1>2. ASSUME NEW t \in Threads, Begin(t) \/ Step(t) \/ Cancel(t) PROVE TypeInv'
  BY <1>2, TypeAcquire, TypeEvict, TypeRemove, TypeInsert, TypeDirty,
     TypeClearDrop, TypeBegin DEF Step
<1> QED BY <1>1, <1>2 DEF Next, AllIdle

\* Every variable has its type, whatever the callers do.
THEOREM TypeCorrect == Spec => []TypeOK
<1>1. TypeInv => TypeOK
  BY TypeInvIsTypeOK
<1> QED BY <1>1, TypeInit, TypeNext, PTL DEF Spec

-----------------------------------------------------------------------------
(***************************************************************************)
(* The reference count of a block is the number of live references to it:  *)
(* RefsCountHandles.                                                       *)
(*                                                                         *)
(* The count is not inductive by itself.  A new block must have no holder  *)
(* yet, so every id a thread or a map knows is below next_id; and a thread *)
(* must not take a second reference while it has one, so where a thread    *)
(* can have a reference is part of the invariant.                          *)
(***************************************************************************)

\* Points at which a thread has a counted reference.
HoldPoints == {"holding", "insert_block", "insert_index", "get_touch"}

\* Ids that exist.
Below(l) == l.id < next_id /\ \A b \in l.todo : b < next_id

IdsAllocated ==
  /\ \A k \in Keys : key_index[k] < next_id
  /\ \A b \in blocks : b < next_id
  /\ \A t \in Threads : Below(loc[t]) /\ hold[t] < next_id

HoldsKnown ==
  \A t \in Threads :
    /\ hold[t] # NoBlock => pc[t] \in HoldPoints
    /\ pc[t] \in HoldPoints \ {"holding"} => hold[t] = loc[t].id

RefsInv == TypeInv /\ IdsAllocated /\ HoldsKnown /\ RefsCountHandles

-----------------------------------------------------------------------------
(* Threads that hold a block *)

LEMMA HoldersFinite ==
  ASSUME NEW b
  PROVE  IsFiniteSet(Holders(b)) /\ Cardinality(Holders(b)) \in Nat
<1>1. Holders(b) \subseteq Threads
  BY DEF Holders
<1>2. IsFiniteSet(Holders(b))
  BY <1>1, FS_Subset, PoolAssumption
<1> QED BY <1>2, FS_CardinalityType

\* A thread with no reference takes one.
LEMMA HoldersGain ==
  ASSUME TypeInv, NEW t \in Threads, NEW b \in Ids, hold[t] \notin Ids,
         hold' = [hold EXCEPT ![t] = b]
  PROVE  /\ Cardinality(Holders(b)') = Cardinality(Holders(b)) + 1
         /\ \A c \in Ids \ {b} : Holders(c)' = Holders(c)
<1>1. Holders(b)' = Holders(b) \cup {t} /\ t \notin Holders(b)
  BY DEF Holders, TypeInv, ThreadTypes
<1>2. Cardinality(Holders(b) \cup {t}) = Cardinality(Holders(b)) + 1
  BY <1>1, HoldersFinite, FS_AddElement
<1>3. \A c \in Ids \ {b} : Holders(c)' = Holders(c)
  BY DEF Holders, TypeInv, ThreadTypes
<1> QED BY <1>1, <1>2, <1>3

\* A thread lets go of its reference.
LEMMA HoldersLoss ==
  ASSUME TypeInv, NEW t \in Threads, NEW b \in Ids, hold[t] = b,
         hold' = [hold EXCEPT ![t] = NoBlock]
  PROVE  /\ Cardinality(Holders(b)') = Cardinality(Holders(b)) - 1
         /\ \A c \in Ids \ {b} : Holders(c)' = Holders(c)
<1>1. Holders(b)' = Holders(b) \ {t} /\ t \in Holders(b)
  BY DEF Holders, TypeInv, ThreadTypes, Ids, NoBlock
<1>2. Cardinality(Holders(b) \ {t}) = Cardinality(Holders(b)) - 1
  BY <1>1, HoldersFinite, FS_RemoveElement
<1>3. \A c \in Ids \ {b} : Holders(c)' = Holders(c)
  BY DEF Holders, TypeInv, ThreadTypes, Ids, NoBlock
<1> QED BY <1>1, <1>2, <1>3

-----------------------------------------------------------------------------
(* The shapes of a step *)

LEMMA GotoIsSetLocal ==
  ASSUME ThreadTypes, NEW t \in Threads, NEW from, NEW to,
         Goto(t, from, to), UNCHANGED loc
  PROVE  SetLocal(t, to, loc[t])
BY DEF Goto, SetLocal, ThreadTypes

LEMMA NoLocalsBelow ==
  ASSUME TypeInv
  PROVE  Below(NoLocals)
BY DEF Below, NoLocals, NoBlock, TypeInv, PoolTypes

\* No count changes.
SameCounts == \A b \in Ids : obj'[b].ref_count = obj[b].ref_count

\* No map gets an id that does not exist.
MapsBelow ==
  /\ next_id' = next_id
  /\ \A k \in Keys : key_index'[k] < next_id
  /\ \A b \in blocks' : b < next_id

\* A thread without a reference moves on and takes none.
LEMMA RefsQuiet ==
  ASSUME RefsInv, TypeInv', NEW t \in Threads, NEW to, NEW l,
         SetLocal(t, to, l), UNCHANGED hold, SameCounts, MapsBelow, Below(l),
         pc[t] \notin HoldPoints, to \notin HoldPoints
  PROVE  RefsInv'
<1> USE DEF RefsInv
<1>1. IdsAllocated'
  BY DEF IdsAllocated, MapsBelow, Below, SetLocal, TypeInv, ThreadTypes
<1>2. HoldsKnown'
  BY DEF HoldsKnown, SetLocal, TypeInv, ThreadTypes
<1>3. RefsCountHandles'
  BY DEF RefsCountHandles, SameCounts, Holders
<1> QED BY <1>1, <1>2, <1>3

\* A thread takes a reference on a block it found.
LEMMA RefsGain ==
  ASSUME RefsInv, TypeInv', NEW t \in Threads, NEW b \in Ids, NEW to, NEW l,
         SetLocal(t, to, l), Below(l), b < next_id,
         pc[t] \notin HoldPoints, to = "holding" \/ (to = "get_touch" /\ l.id = b),
         obj' = [obj EXCEPT ![b].ref_count = @ + 1], hold' = [hold EXCEPT ![t] = b],
         UNCHANGED <<key_index, blocks, next_id>>
  PROVE  RefsInv'
<1> USE DEF RefsInv
<1>1. IdsAllocated'
  BY DEF IdsAllocated, Below, SetLocal, TypeInv, ThreadTypes
<1>2. HoldsKnown'
  BY DEF HoldsKnown, SetLocal, TypeInv, ThreadTypes, HoldPoints
<1>3. hold[t] \notin Ids
  BY DEF HoldsKnown, Ids, NoBlock
<1>4. /\ obj'[b].ref_count = obj[b].ref_count + 1
      /\ \A c \in Ids \ {b} : obj'[c] = obj[c]
  BY DEF TypeInv, PoolTypes, Objects
<1>5. RefsCountHandles'
  <2> SUFFICES ASSUME NEW c \in Ids
               PROVE  obj'[c].ref_count = Cardinality(Holders(c)')
    BY DEF RefsCountHandles
  <2>1. obj[c].ref_count = Cardinality(Holders(c))
    BY DEF RefsCountHandles
  <2>2. CASE c = b
    BY <1>3, <1>4, <2>1, <2>2, HoldersGain
  <2>3. CASE c # b
    BY <1>3, <1>4, <2>1, <2>3, HoldersGain
  <2> QED BY <2>2, <2>3
<1> QED BY <1>1, <1>2, <1>5

\* A thread that has a reference moves on with it.
LEMMA RefsKeep ==
  ASSUME RefsInv, TypeInv', NEW t \in Threads, NEW to \in HoldPoints, NEW l,
         SetLocal(t, to, l), Below(l), UNCHANGED hold, SameCounts, MapsBelow,
         to = "holding" \/ hold[t] = l.id
  PROVE  RefsInv'
<1> USE DEF RefsInv
<1>1. IdsAllocated'
  BY DEF IdsAllocated, MapsBelow, Below, SetLocal, TypeInv, ThreadTypes
<1>2. HoldsKnown'
  BY DEF HoldsKnown, SetLocal, TypeInv, ThreadTypes
<1>3. RefsCountHandles'
  BY DEF RefsCountHandles, SameCounts, Holders
<1> QED BY <1>1, <1>2, <1>3

-----------------------------------------------------------------------------
(* The steps *)

LEMMA RefsInit == Init => RefsInv
<1> SUFFICES ASSUME Init PROVE RefsInv
  OBVIOUS
<1>1. TypeInv
  BY TypeInit
<1>2. IdsAllocated
  BY DEF Init, IdsAllocated, Below, NoLocals, NoBlock
<1>3. HoldsKnown
  BY DEF Init, HoldsKnown, HoldPoints
<1>4. RefsCountHandles
  <2> SUFFICES ASSUME NEW b \in Ids PROVE obj[b].ref_count = Cardinality(Holders(b))
    BY DEF RefsCountHandles
  <2>1. Holders(b) = {}
    BY DEF Holders, Init, Ids, NoBlock
  <2> QED BY <2>1, FS_EmptySet DEF Init, NoObject
<1> QED BY <1>1, <1>2, <1>3, <1>4 DEF RefsInv

\* What RefsInv says of thread t and of the maps.
LEMMA RefsFacts ==
  ASSUME RefsInv, NEW t \in Threads
  PROVE  /\ TypeInv /\ ThreadTypes
         /\ Below(loc[t]) /\ Below(NoLocals)
         /\ \A k \in Keys : key_index[k] < next_id
         /\ \A b \in blocks : b < next_id /\ b \in Ids
         /\ UNCHANGED <<key_index, blocks, next_id>> => MapsBelow
         /\ UNCHANGED obj => SameCounts
BY NoLocalsBelow
DEF RefsInv, IdsAllocated, TypeInv, PoolTypes, MapsBelow, SameCounts

\* Threads that look, wait, fetch, evict and give up.
LEMMA RefsAcquire ==
  ASSUME RefsInv, NEW t \in Threads,
         \/ \E k \in HashKeys : AcquireHit(t, k) \/ AcquireMiss(t, k)
         \/ AcquireStep(t)
         \/ Cancel(t)
  PROVE  RefsInv'
<1> USE RefsFacts DEF HoldPoints
<1>0. TypeInv'
  BY TypeAcquire
<1>1. ASSUME NEW k \in HashKeys, AcquireHit(t, k) PROVE RefsInv'
  <2>1. PICK b \in Ids : /\ b < next_id /\ obj' = [obj EXCEPT ![b].ref_count = @ + 1]
                         /\ hold' = [hold EXCEPT ![t] = b]
                         /\ UNCHANGED <<key_index, blocks, next_id>>
    BY <1>1 DEF AcquireHit, Cached, AddRef, ReturnHandle, maps
  <2>2. SetLocal(t, "holding", NoLocals) /\ pc[t] = "idle"
    BY <1>1 DEF AcquireHit, ReturnHandle, SetLocal, Call
  <2> QED BY <1>0, <2>1, <2>2, RefsGain
<1>2. ASSUME NEW k \in HashKeys, AcquireMiss(t, k) PROVE RefsInv'
  <2>1. Below([NoLocals EXCEPT !.key = k])
    BY DEF Below, NoLocals
  <2> QED BY <1>0, <1>2, <2>1, RefsQuiet DEF AcquireMiss, Call, maps, lru
<1>3. ASSUME NEW from \in {"acquire_pending", "start_pending"}, AwaitOther(t, from)
      PROVE  RefsInv'
  <2>1. Below([loc[t] EXCEPT !.fut = pending[loc[t].key]])
    BY DEF Below, ThreadTypes, Locals
  <2> QED BY <1>0, <1>3, <2>1, RefsQuiet DEF AwaitOther, maps, lru
<1>4. ASSUME NEW from, NEW to, Goto(t, from, to), UNCHANGED <<maps, obj, lru, loc, hold>>,
             from \notin HoldPoints, to \notin HoldPoints
      PROVE  RefsInv'
  <2>1. SetLocal(t, to, loc[t]) /\ pc[t] = from
    BY <1>4, GotoIsSetLocal DEF Goto
  <2> QED BY <1>0, <1>4, <2>1, RefsQuiet DEF maps, lru
<1>5. ASSUME NEW from, from \notin HoldPoints, LookupHit(t, from) PROVE RefsInv'
  <2>1. PICK b \in Ids : /\ b < next_id /\ obj' = [obj EXCEPT ![b].ref_count = @ + 1]
                         /\ hold' = [hold EXCEPT ![t] = b]
                         /\ UNCHANGED <<key_index, blocks, next_id>>
    BY <1>5 DEF LookupHit, Cached, AddRef, ReturnHandle, maps, lru
  <2>2. SetLocal(t, "holding", NoLocals) /\ pc[t] = from
    BY <1>5 DEF LookupHit, ReturnHandle, SetLocal
  <2> QED BY <1>0, <1>5, <2>1, <2>2, RefsGain
<1>6. CASE Register(t)
  <2>1. Below([loc[t] EXCEPT !.fut = next_fetch])
    BY DEF Below, ThreadTypes, Locals
  <2> QED BY <1>0, <1>6, <2>1, RefsQuiet DEF Register, maps, lru
<1>7. ASSUME Return(t), UNCHANGED <<maps, obj, lru>>, pc[t] \notin HoldPoints
      PROVE  RefsInv'
  <2>1. SetLocal(t, "idle", NoLocals)
    BY <1>7 DEF Return, SetLocal
  <2> QED BY <1>0, <1>7, <2>1, RefsQuiet DEF Return, maps, lru
<1>8. CASE CompleteLookupMiss(t)
  <2>1. Below([loc[t] EXCEPT !.size = ChunkSize])
    BY DEF Below, ThreadTypes, Locals
  <2> QED BY <1>0, <1>8, <2>1, RefsQuiet DEF CompleteLookupMiss, maps, lru
<1>9. CASE WaiterMiss(t)
  <2>1. pc[t] = "waiting" /\ SetLocal(t, "holding", NoLocals)
        /\ hold' = [hold EXCEPT ![t] = Detached] /\ UNCHANGED <<maps, obj, lru>>
    BY <1>9 DEF WaiterMiss, ReturnHandle, SetLocal
  <2>2. IdsAllocated'
    BY <2>1 DEF RefsInv, IdsAllocated, SetLocal, Below, NoLocals, NoBlock, Detached,
                PoolTypes, TypeInv, ThreadTypes, maps, lru
  <2>3. HoldsKnown'
    BY <2>1 DEF RefsInv, HoldsKnown, SetLocal, TypeInv, ThreadTypes
  <2>4. hold[t] = NoBlock
    BY <2>1 DEF RefsInv, HoldsKnown
  <2>5. \A b \in Ids : Holders(b)' = Holders(b)
    BY <2>1, <2>4 DEF Holders, ThreadTypes, Ids, NoBlock, Detached
  <2>6. RefsCountHandles'
    BY <2>1, <2>5 DEF RefsInv, RefsCountHandles
  <2> QED BY <1>0, <2>2, <2>3, <2>6 DEF RefsInv
<1>10. CASE AcquireNoPending(t) \/ StartLookupMiss(t) \/ StartNoPending(t)
  BY <1>10, <1>4 DEF AcquireNoPending, StartLookupMiss, StartNoPending
<1>11. ASSUME NEW result, FetchReturn(t, result) PROVE RefsInv'
  BY <1>11, <1>4 DEF FetchReturn
<1>12. CASE CompleteRemovePending(t)
  BY <1>12, <1>4, <1>7 DEF CompleteRemovePending
<1>13. CASE WaiterError(t) \/ Cancel(t)
  BY <1>13, <1>7 DEF WaiterError, Cancel
<1> QED BY <1>1, <1>2, <1>3, <1>5, <1>6, <1>8, <1>9, <1>10, <1>11, <1>12, <1>13
        DEF AcquireStep, WaiterHit

\* The same two shapes, for the other steps.
LEMMA RefsGoto ==
  ASSUME RefsInv, TypeInv', NEW t \in Threads, NEW from, NEW to, Goto(t, from, to),
         UNCHANGED <<loc, hold>>, SameCounts, MapsBelow,
         from \notin HoldPoints, to \notin HoldPoints
  PROVE  RefsInv'
<1>1. SetLocal(t, to, loc[t]) /\ pc[t] = from
  BY GotoIsSetLocal, RefsFacts DEF Goto
<1> QED BY <1>1, RefsFacts, RefsQuiet

LEMMA RefsReturn ==
  ASSUME RefsInv, TypeInv', NEW t \in Threads, Return(t), pc[t] \notin HoldPoints,
         SameCounts, MapsBelow
  PROVE  RefsInv'
<1>1. SetLocal(t, "idle", NoLocals) /\ UNCHANGED hold
  BY DEF Return, SetLocal
<1> QED BY <1>1, RefsFacts, RefsQuiet DEF HoldPoints

\* Threads that make room and remove blocks.
LEMMA RefsRemove ==
  ASSUME RefsInv, NEW t \in Threads, EvictStep(t) \/ RemoveStep(t)
  PROVE  RefsInv'
<1> USE RefsFacts DEF HoldPoints
<1>0. TypeInv'
  BY TypeEvict, TypeRemove
<1>1. CASE EvictNotNeeded(t) \/ EvictNeeded(t) \/ EvictNone(t) \/ EvictEmptyPool(t)
  BY <1>0, <1>1, RefsGoto
  DEF EvictNotNeeded, EvictNeeded, EvictNone, EvictEmptyPool, maps, lru
<1>2. CASE EvictPick(t)
  <2>1. PICK i \in 1 .. Len(lru_order) :
          /\ lru_order[i] \in blocks
          /\ SetLocal(t, "remove", [loc[t] EXCEPT !.id = lru_order[i]])
    BY <1>2 DEF EvictPick, Evictable
  <2>2. Below([loc[t] EXCEPT !.id = lru_order[i]])
    BY <2>1 DEF Below, ThreadTypes, Locals
  <2> QED BY <1>0, <1>2, <2>1, <2>2, RefsQuiet DEF EvictPick, maps, lru
<1>3. CASE EvictExhausted(t) \/ BulkDone(t)
  BY <1>0, <1>3, RefsReturn DEF EvictExhausted, BulkDone, maps, lru
<1>4. ASSUME NEW b \in Ids, RemoveFromBlocks(t, b) PROVE RefsInv'
  <2>1. /\ UNCHANGED <<key_index, obj, next_id, hold>> /\ blocks' \subseteq blocks
        /\ pc[t] \in {"remove", "bulk"}
    BY <1>4 DEF RemoveFromBlocks, lru
  <2>2. PICK to \in {"remove_index", "bulk", "evict_check"} : pc' = [pc EXCEPT ![t] = to]
    BY <1>4 DEF RemoveFromBlocks
  <2>3. PICK l : loc' = [loc EXCEPT ![t] = l] /\ Below(l)
    <3>1. CASE loc' = loc
      <4>1. loc' = [loc EXCEPT ![t] = loc[t]]
        BY <3>1 DEF ThreadTypes
      <4> QED BY <4>1
    <3>2. CASE b \in loc[t].todo /\ loc' = [loc EXCEPT ![t].id = b, ![t].todo = @ \ {b}]
      <4> DEFINE l == [loc[t] EXCEPT !.id = b, !.todo = @ \ {b}]
      <4>1. loc' = [loc EXCEPT ![t] = l]
        BY <3>2 DEF ThreadTypes
      <4>2. Below(l)
        BY <3>2 DEF Below, ThreadTypes, Locals
      <4> QED BY <4>1, <4>2
    <3> QED BY <1>4, <3>1, <3>2 DEF RemoveFromBlocks
  <2>4. SetLocal(t, to, l) /\ MapsBelow
    BY <2>1, <2>2, <2>3 DEF SetLocal, MapsBelow
  <2> QED BY <1>0, <2>1, <2>3, <2>4, RefsQuiet
<1>5. CASE RemoveFromIndex(t)
  <2>1. MapsBelow
    BY <1>5 DEF RemoveFromIndex, MapsBelow, lru, TypeInv, PoolTypes, NoBlock
  <2> QED BY <1>0, <1>5, <2>1, RefsGoto DEF RemoveFromIndex
<1>6. CASE RemoveFromLru(t)
  BY <1>0, <1>6, RefsGoto DEF RemoveFromLru, maps
<1> QED BY <1>1, <1>2, <1>3, <1>4, <1>5, <1>6 DEF EvictStep, RemoveStep

\* Threads that insert.
LEMMA RefsInsert ==
  ASSUME RefsInv, NEW t \in Threads, InsertStep(t)
  PROVE  RefsInv'
<1> USE RefsFacts DEF HoldPoints
<1>0. TypeInv'
  BY TypeInsert
<1>1. CASE ReplaceBlock(t)
  <2>1. MapsBelow
    BY <1>1 DEF ReplaceBlock, MapsBelow, lru
  <2> QED BY <1>0, <1>1, <2>1, RefsGoto DEF ReplaceBlock
<1>2. CASE Allocate(t)
  <2> DEFINE b == next_id
             l == [loc[t] EXCEPT !.id = b]
  <2>1. /\ pc[t] = "allocate" /\ b \in Ids /\ next_id' = b + 1
        /\ UNCHANGED <<key_index, blocks>> /\ hold' = [hold EXCEPT ![t] = b]
        /\ SetLocal(t, "insert_block", l)
    BY <1>2 DEF Allocate, maps
  <2>2. obj'[b].ref_count = 1 /\ \A c \in Ids \ {b} : obj'[c] = obj[c]
    BY <1>2, <2>1 DEF Allocate, TypeInv, PoolTypes
  <2>3. l.id = b /\ l.todo = loc[t].todo /\ l \in Locals
    BY <2>1 DEF ThreadTypes, Locals
  <2>4. hold[t] = NoBlock
    BY <2>1 DEF RefsInv, HoldsKnown
  <2>5. IdsAllocated'
    <3>1. \A n \in Int : n < b => n < next_id'
      BY <2>1 DEF Ids
    <3>2. \A u \in Threads : loc'[u] = IF u = t THEN l ELSE loc[u]
      BY <2>1 DEF SetLocal, ThreadTypes
    <3>3. \A u \in Threads : hold'[u] = IF u = t THEN b ELSE hold[u]
      BY <2>1 DEF ThreadTypes
    <3>4. \A u \in Threads : loc[u].id \in Int /\ loc[u].todo \subseteq Int /\ hold[u] \in Int
      BY DEF ThreadTypes, Locals, Ids, NoBlock, Detached
    <3>5. (\A k \in Keys : key_index[k] \in Int) /\ blocks \subseteq Int /\ b < next_id'
      BY <2>1 DEF TypeInv, PoolTypes, Ids, NoBlock
    <3> QED BY <2>1, <2>3, <3>1, <3>2, <3>3, <3>4, <3>5 DEF RefsInv, IdsAllocated, Below
  <2>6. HoldsKnown'
    BY <2>1, <2>3 DEF RefsInv, HoldsKnown, SetLocal, ThreadTypes
  <2>7. hold[t] \notin Ids
    BY <2>4 DEF Ids, NoBlock
  <2>8. PICK n \in Ids : n = next_id
    BY <2>1
  <2>9. Holders(n) = {}
    BY <2>8 DEF RefsInv, IdsAllocated, Holders, TypeInv, PoolTypes
  <2>10. Cardinality(Holders(n)) = 0
    BY <2>9, FS_EmptySet
  <2>11. /\ Cardinality(Holders(n)') = 1
         /\ \A c \in Ids \ {n} : Holders(c)' = Holders(c)
    <3>1. hold' = [hold EXCEPT ![t] = n]
      BY <2>1, <2>8
    <3>2. /\ Cardinality(Holders(n)') = Cardinality(Holders(n)) + 1
          /\ \A c \in Ids \ {n} : Holders(c)' = Holders(c)
      BY <3>1, <2>7, HoldersGain
    <3> QED BY <3>2, <2>10
  <2>12. RefsCountHandles'
    BY <2>2, <2>8, <2>11 DEF RefsInv, RefsCountHandles
  <2> QED BY <1>0, <2>5, <2>6, <2>12 DEF RefsInv
<1>3. CASE InsertBlock(t)
  <2>1. SetLocal(t, "insert_index", loc[t]) /\ pc[t] = "insert_block"
    BY <1>3, GotoIsSetLocal DEF InsertBlock, Goto
  <2>2. hold[t] = loc[t].id
    BY <2>1 DEF RefsInv, HoldsKnown
  <2>3. MapsBelow
    BY <1>3 DEF InsertBlock, MapsBelow, lru, Below
  <2> QED BY <1>0, <1>3, <2>1, <2>2, <2>3, RefsKeep DEF InsertBlock
<1>4. CASE InsertIndex(t)
  <2>1. SetLocal(t, "holding", NoLocals) /\ pc[t] = "insert_index"
    BY <1>4 DEF InsertIndex, ReturnHandle, SetLocal
  <2>2. hold[t] = loc[t].id
    BY <2>1 DEF RefsInv, HoldsKnown
  <2>3. UNCHANGED hold
    BY <1>4, <2>2 DEF InsertIndex, ReturnHandle, ThreadTypes
  <2>4. MapsBelow
    BY <1>4 DEF InsertIndex, MapsBelow, lru, Below, TypeInv, PoolTypes
  <2> QED BY <1>0, <1>4, <2>1, <2>3, <2>4, RefsKeep DEF InsertIndex
<1> QED BY <1>1, <1>2, <1>3, <1>4 DEF InsertStep

\* Threads that write, look up, clear and drop their handle.
LEMMA RefsDirty ==
  ASSUME RefsInv, NEW t \in Threads, DirtyStep(t)
  PROVE  RefsInv'
<1> USE RefsFacts DEF HoldPoints
<1>0. TypeInv'
  BY TypeDirty
<1>1. CASE ModifyGet(t) \/ GetBlock(t)
  <2>1. UNCHANGED <<obj, key_index, blocks, next_id>> /\ pc[t] \in {"modify_get", "get_block"}
    BY <1>1 DEF ModifyGet, GetBlock, maps, lru
  <2>2. \/ Return(t)
        \/ /\ UNCHANGED <<loc, hold>>
           /\ Goto(t, "modify_get", "modify_write") \/ Goto(t, "get_block", "get_acquire")
    BY <1>1 DEF ModifyGet, GetBlock
  <2> QED BY <1>0, <2>1, <2>2, RefsGoto, RefsReturn
<1>2. ASSUME NEW n \in DirtySizes, ModifyWrite(t, n) PROVE RefsInv'
  <2> DEFINE l == [loc[t] EXCEPT !.old = obj[loc[t].id].size, !.size = n]
             to == IF n = obj[loc[t].id].size THEN "modify_flag" ELSE "modify_size"
  <2>1. /\ pc[t] = "modify_write" /\ SetLocal(t, to, l)
        /\ UNCHANGED <<hold, key_index, blocks, next_id>>
        /\ obj' = [obj EXCEPT ![loc[t].id].size = n]
    BY <1>2 DEF ModifyWrite, maps, lru
  <2>2. SameCounts
    BY <2>1 DEF SameCounts, TypeInv, PoolTypes, Objects
  <2>3. Below(l)
    BY DEF Below, ThreadTypes, Locals
  <2> QED BY <1>0, <2>1, <2>2, <2>3, RefsQuiet
<1>3. CASE ModifySize(t)
  BY <1>0, <1>3, RefsGoto DEF ModifySize, maps
<1>4. CASE ModifyFlag(t)
  <2>1. SameCounts
    BY <1>4 DEF ModifyFlag, SameCounts, TypeInv, PoolTypes, Objects
  <2> QED BY <1>0, <1>4, <2>1, RefsReturn DEF ModifyFlag, maps, lru
<1>5. CASE GetAcquire(t)
  <2>1. pc[t] = "get_acquire" /\ SetLocal(t, "get_touch", loc[t])
    BY <1>5, GotoIsSetLocal DEF GetAcquire, Goto
  <2>2. loc[t].id \in Ids
    BY <2>1 DEF ThreadTypes, LocalsKnown, Knows, IdPoints
  <2>3. PICK b \in Ids : /\ b = loc[t].id /\ obj' = [obj EXCEPT ![b].ref_count = @ + 1]
                         /\ hold' = [hold EXCEPT ![t] = b] /\ b < next_id
                         /\ UNCHANGED <<key_index, blocks, next_id>>
    BY <1>5, <2>2 DEF GetAcquire, AddRef, maps, lru, Below
  <2> QED BY <1>0, <2>1, <2>3, RefsGain
<1>6. CASE GetTouch(t)
  <2>1. SetLocal(t, "holding", NoLocals) /\ pc[t] = "get_touch"
    BY <1>6 DEF GetTouch, ReturnHandle, SetLocal
  <2>2. hold[t] = loc[t].id
    BY <2>1 DEF RefsInv, HoldsKnown
  <2>3. UNCHANGED hold
    BY <1>6, <2>2 DEF GetTouch, ReturnHandle, ThreadTypes
  <2> QED BY <1>0, <1>6, <2>1, <2>3, RefsKeep DEF GetTouch, maps
<1> QED BY <1>1, <1>2, <1>3, <1>4, <1>5, <1>6 DEF DirtyStep

LEMMA RefsClearDrop ==
  ASSUME RefsInv, NEW t \in Threads, ClearStep(t) \/ Drop(t)
  PROVE  RefsInv'
<1> USE RefsFacts DEF HoldPoints
<1>0. TypeInv'
  BY TypeClearDrop
<1>1. CASE ClearBlocks(t)
  <2>1. MapsBelow
    BY <1>1 DEF ClearBlocks, MapsBelow, lru
  <2> QED BY <1>0, <1>1, <2>1, RefsGoto DEF ClearBlocks
<1>2. CASE ClearIndex(t)
  <2>1. MapsBelow
    BY <1>2 DEF ClearIndex, MapsBelow, lru, TypeInv, PoolTypes, NoBlock
  <2> QED BY <1>0, <1>2, <2>1, RefsGoto DEF ClearIndex
<1>3. CASE ClearLru(t)
  BY <1>0, <1>3, RefsReturn DEF ClearLru, maps
<1>4. CASE Drop(t)
  <2>1. /\ pc[t] = "holding" /\ SetLocal(t, "idle", loc[t])
        /\ hold' = [hold EXCEPT ![t] = NoBlock]
        /\ UNCHANGED <<key_index, blocks, next_id>>
    BY <1>4 DEF Drop, SetLocal, ThreadTypes, maps, lru
  <2>2. IdsAllocated'
    BY <2>1 DEF RefsInv, IdsAllocated, Below, SetLocal, ThreadTypes, TypeInv, PoolTypes, NoBlock
  <2>3. HoldsKnown'
    BY <2>1 DEF RefsInv, HoldsKnown, SetLocal, ThreadTypes
  <2>4. RefsCountHandles'
    <3>1. CASE hold[t] \in Ids
      <4>1. PICK b \in Ids : b = hold[t]
        BY <3>1
      <4>2. /\ obj'[b].ref_count = obj[b].ref_count - 1
            /\ \A c \in Ids \ {b} : obj'[c] = obj[c]
        BY <1>4, <4>1 DEF Drop, TypeInv, PoolTypes, Objects
      <4>3. /\ Cardinality(Holders(b)') = Cardinality(Holders(b)) - 1
            /\ \A c \in Ids \ {b} : Holders(c)' = Holders(c)
        BY <2>1, <4>1, HoldersLoss
      <4> QED BY <4>2, <4>3 DEF RefsInv, RefsCountHandles
    <3>2. CASE hold[t] \notin Ids
      <4>1. \A c \in Ids : Holders(c)' = Holders(c)
        BY <2>1, <3>2 DEF Holders, ThreadTypes, Ids, NoBlock
      <4>2. obj' = obj
        BY <1>4, <3>2 DEF Drop
      <4> QED BY <4>1, <4>2 DEF RefsInv, RefsCountHandles
    <3> QED BY <3>1, <3>2
  <2> QED BY <1>0, <2>2, <2>3, <2>4 DEF RefsInv
<1> QED BY <1>1, <1>2, <1>3, <1>4 DEF ClearStep

LEMMA RefsBegin ==
  ASSUME RefsInv, NEW t \in Threads, Begin(t)
  PROVE  RefsInv'
<1> USE RefsFacts DEF HoldPoints
<1>0. TypeInv'
  BY TypeBegin
<1>1. ASSUME NEW k \in InodeKeys, NEW n \in DirtySizes, Insert(t, k, n) PROVE RefsInv'
  <2> DEFINE l == [NoLocals EXCEPT !.key = k, !.size = n, !.id = key_index[k]]
             to == IF key_index[k] = NoBlock THEN "evict_check" ELSE "replace"
  <2>1. pc[t] = "idle" /\ SetLocal(t, to, l) /\ UNCHANGED <<hold, obj>>
    BY <1>1 DEF Insert, Call
  <2>2. Below(l)
    BY DEF Below, NoLocals, InodeKeys, Keys
  <2>3. MapsBelow
    BY <1>1 DEF Insert, MapsBelow, lru, TypeInv, PoolTypes, NoBlock
  <2> QED BY <1>0, <2>1, <2>2, <2>3, RefsQuiet
<1>2. ASSUME NEW k \in Keys, Modify(t, k) \/ Get(t, k) PROVE RefsInv'
  <2>1. Below([NoLocals EXCEPT !.key = k, !.id = key_index[k]])
    BY DEF Below, NoLocals
  <2> QED BY <1>0, <1>2, <2>1, RefsQuiet DEF Modify, Get, Call, maps, lru
<1>3. ASSUME NEW op, NEW k, NEW flag, SetFlush(t, op, k, flag) PROVE RefsInv'
  <2>1. SameCounts
    BY <1>3 DEF SetFlush, SameCounts, TypeInv, PoolTypes, Objects
  <2>2. pc[t] = "idle" /\ SetLocal(t, "idle", loc[t]) /\ UNCHANGED <<hold, maps, lru>>
    BY <1>3 DEF SetFlush, Call, SetLocal, ThreadTypes
  <2> QED BY <1>0, <2>1, <2>2, RefsQuiet DEF maps, lru
<1>4. ASSUME NEW c \in InodeIds \cup HashIds, RemoveInode(t, c) \/ InvalidateHash(t, c)
      PROVE  RefsInv'
  <2>1. \A d \in Chunks : <<c, d>> \in Keys
    BY <1>4 DEF Keys
  <2>2. PICK todo : /\ SetLocal(t, "bulk", [NoLocals EXCEPT !.bulk = TRUE, !.todo = todo])
                    /\ todo \subseteq {key_index[<<c, d>>] : d \in Chunks}
    <3>1. CASE RemoveInode(t, c)
      BY <3>1 DEF RemoveInode
    <3>2. CASE InvalidateHash(t, c)
      BY <3>2 DEF InvalidateHash
    <3> QED BY <1>4, <3>1, <3>2
  <2>3. \A b \in todo : b < next_id
    BY <2>1, <2>2
  <2>4. Below([NoLocals EXCEPT !.bulk = TRUE, !.todo = todo])
    BY <2>3 DEF Below, NoLocals
  <2> QED BY <1>0, <1>4, <2>2, <2>4, RefsQuiet
          DEF RemoveInode, InvalidateHash, Call, maps, lru
<1>5. CASE Clear(t)
  BY <1>0, <1>5, RefsQuiet DEF Clear, Call, maps, lru
<1>6. InodeKeys \subseteq Keys
  BY DEF InodeKeys, Keys
<1> QED BY <1>1, <1>2, <1>3, <1>4, <1>5, <1>6, RefsAcquire
        DEF Begin, MarkFlushed, MarkNeedsFlush

LEMMA RefsNext == RefsInv /\ [Next]_vars => RefsInv'
<1> SUFFICES ASSUME RefsInv, [Next]_vars PROVE RefsInv'
  OBVIOUS
<1>1. CASE UNCHANGED vars
  <2>1. TypeInv'
    BY <1>1, TypeNext DEF RefsInv
  <2> QED BY <1>1, <2>1
          DEF RefsInv, IdsAllocated, Below, HoldsKnown, RefsCountHandles, Holders, vars
<1>2. ASSUME NEW t \in Threads, Begin(t) \/ Step(t) \/ Cancel(t) PROVE RefsInv'
  BY <1>2, RefsAcquire, RefsRemove, RefsInsert, RefsDirty, RefsClearDrop, RefsBegin
  DEF Step
<1> QED BY <1>1, <1>2 DEF Next, AllIdle

\* The atomic counter of a block is the number of live references to it, for
\* any number of callers in any interleaving, with cancellation and clear.
THEOREM RefsCorrect == Spec => []RefsCountHandles
<1>1. RefsInv => RefsCountHandles
  BY DEF RefsInv
<1> QED BY <1>1, RefsInit, RefsNext, PTL DEF Spec

-----------------------------------------------------------------------------
(* An index entry whose block is gone is about to be removed               *)
(* (NoDanglingIndex), and every block is in the eviction queue             *)
(* (BlocksAreQueued).                                                      *)
(*                                                                         *)
(* A removal goes blocks, key_index, LRU and an insertion LRU, blocks,     *)
(* key_index, so between two of their steps the structures disagree.  What *)
(* makes the invariant inductive is who knows an id: the id of a block     *)
(* being inserted is known to its thread only.  It is new when allocated,  *)
(* eviction passes over it because its inserter holds a reference, and the *)
(* index does not name it yet.                                             *)

InsertPoints == {"insert_block", "insert_index"}
ClearPoints  == {"clear_blocks", "clear_index", "clear_lru"}

Queued(b) == InQueue(lru_order, b)

NotClearing == \A t \in Threads : pc[t] \notin ClearPoints

\* An index entry names a block of its key.
IndexKeys == \A k \in Keys : key_index[k] # NoBlock => obj[key_index[k]].key = k

\* No thread but t and no index entry knows the id that t inserts.
Private(t) ==
  /\ \A k \in Keys : key_index[k] # loc[t].id
  /\ \A u \in Threads \ {t} : loc[u].id # loc[t].id /\ loc[t].id \notin loc[u].todo

Inserting ==
  \A t \in Threads : pc[t] \in InsertPoints =>
    /\ obj[loc[t].id].key = loc[t].key
    /\ pc[t] = "insert_index" => loc[t].id \in blocks
    /\ Queued(loc[t].id)
    /\ Private(t)

Removed == \A t \in Threads : pc[t] \in {"remove_index", "remove_lru"} =>
                                loc[t].id \notin blocks

Replaced == \A t \in Threads : pc[t] = "replace" =>
                                 \A k \in Keys : key_index[k] # loc[t].id

IndexInv ==
  /\ RefsInv
  /\ NotClearing
  /\ IndexKeys
  /\ Inserting
  /\ Removed
  /\ Replaced
  /\ NoDanglingIndex
  /\ BlocksAreQueued

-----------------------------------------------------------------------------
(* The shapes of a step *)

LEMMA IndexInit == Init => IndexInv
<1> SUFFICES ASSUME Init PROVE IndexInv
  OBVIOUS
<1> QED BY RefsInit
    DEF Init, IndexInv, NotClearing, ClearPoints, IndexKeys, Inserting, InsertPoints,
        Removed, Replaced, NoDanglingIndex, BlocksAreQueued

\* The locals l that thread t is about to have leave the others' ids private.
Harmless(t, l) ==
  \A u \in Threads \ {t} : pc[u] \in InsertPoints =>
                             loc[u].id # l.id /\ loc[u].id \notin l.todo

LEMMA HarmlessLocals ==
  ASSUME IndexInv, NEW t \in Threads, NEW l,
         \/ l.id \in {loc[t].id, NoBlock} \cup loc[t].todo
         \/ \E k \in Keys : l.id = key_index[k],
         \A b \in l.todo : b \in loc[t].todo \/ \E k \in Keys : b = key_index[k]
  PROVE  Harmless(t, l)
<1> SUFFICES ASSUME NEW u \in Threads \ {t}, pc[u] \in InsertPoints
             PROVE  loc[u].id # l.id /\ loc[u].id \notin l.todo
  BY DEF Harmless
<1>1. Private(u)
  BY DEF IndexInv, Inserting
<1>2. loc[u].id # NoBlock
  BY DEF IndexInv, RefsInv, TypeInv, ThreadTypes, LocalsKnown, Knows, InsertPoints,
         IdPoints, Ids, NoBlock
<1> QED BY <1>1, <1>2 DEF Private

\* No key of a block object changes.
SameKeys == \A b \in Ids : obj'[b].key = obj[b].key

\* An id that is in the pool, or on its way there, stays in the queue.
LEMMA QueueFrame ==
  ASSUME IndexInv, UNCHANGED <<lru_order>>
  PROVE  /\ \A b \in blocks : Queued(b)'
         /\ \A u \in Threads : pc[u] \in InsertPoints =>
              \E i \in 1 .. Len(lru_order') : lru_order'[i] = loc[u].id
BY DEF IndexInv, BlocksAreQueued, Inserting, Queued, InQueue

\* Thread t moves on; the maps stay.
LEMMA IndexQuiet ==
  ASSUME IndexInv, RefsInv', NEW t \in Threads, NEW to, NEW l, SetLocal(t, to, l),
         UNCHANGED <<key_index, blocks>>, SameKeys,
         \A b \in blocks : Queued(b)',
         \A u \in Threads \ {t} : pc[u] \in InsertPoints =>
           \E i \in 1 .. Len(lru_order') : lru_order'[i] = loc[u].id,
         pc[t] # "remove_index", Harmless(t, l),
         to \notin InsertPoints \cup ClearPoints \cup {"remove_index", "remove_lru", "replace"}
  PROVE  IndexInv'
<1>1. /\ \A u \in Threads \ {t} : pc'[u] = pc[u] /\ loc'[u] = loc[u]
      /\ pc'[t] = to /\ loc'[t] = l
  BY DEF SetLocal, IndexInv, RefsInv, TypeInv, ThreadTypes
<1>2. NotClearing'
  BY <1>1 DEF IndexInv, NotClearing
<1>3. \A k \in Keys : key_index[k] # NoBlock => key_index[k] \in Ids
  BY DEF IndexInv, RefsInv, TypeInv, PoolTypes
<1>4. IndexKeys'
  BY <1>3 DEF IndexInv, IndexKeys, SameKeys
<1>5. Inserting'
  <2> SUFFICES ASSUME NEW u \in Threads, pc'[u] \in InsertPoints
               PROVE  /\ obj'[loc'[u].id].key = loc'[u].key
                      /\ pc'[u] = "insert_index" => loc'[u].id \in blocks'
                      /\ Queued(loc[u].id)'
                      /\ Private(u)'
    BY DEF Inserting
  <2>1. u # t /\ pc[u] \in InsertPoints /\ pc'[u] = pc[u] /\ loc'[u] = loc[u]
    BY <1>1
  <2>2. loc[u].id \in Ids
    BY <2>1 DEF IndexInv, RefsInv, TypeInv, ThreadTypes, LocalsKnown, Knows, InsertPoints,
                IdPoints
  <2>3. Private(u)'
    BY <1>1, <2>1 DEF Private, Harmless, IndexInv, Inserting
  <2>4. Queued(loc[u].id)'
    BY <2>1 DEF Queued, InQueue
  <2> QED BY <2>1, <2>2, <2>3, <2>4 DEF IndexInv, Inserting, SameKeys
<1>6. Removed'
  BY <1>1 DEF IndexInv, Removed
<1>7. Replaced'
  BY <1>1 DEF IndexInv, Replaced
<1>8. NoDanglingIndex'
  <2> SUFFICES ASSUME NEW k \in Keys, key_index'[k] \notin blocks' \cup {NoBlock}
               PROVE  \E u \in Threads : pc'[u] = "remove_index" /\ obj'[loc'[u].id].key = k
    BY DEF NoDanglingIndex
  <2>1. PICK u \in Threads : pc[u] = "remove_index" /\ obj[loc[u].id].key = k
    BY DEF IndexInv, NoDanglingIndex
  <2>2. loc[u].id \in Ids
    BY <2>1 DEF IndexInv, RefsInv, TypeInv, ThreadTypes, LocalsKnown, Knows, IdPoints
  <2> QED BY <1>1, <2>1, <2>2 DEF SameKeys
<1>9. BlocksAreQueued'
  BY DEF BlocksAreQueued, Queued, InQueue
<1> QED BY <1>2, <1>4, <1>5, <1>6, <1>7, <1>8, <1>9 DEF IndexInv

QuietPoints ==
  ProgramPoints \ (InsertPoints \cup ClearPoints
                     \cup {"remove_index", "remove_lru", "replace"})

\* Thread t moves on and the three structures stay.
LEMMA IndexStill ==
  ASSUME IndexInv, RefsInv', NEW t \in Threads, NEW to \in QuietPoints, NEW l,
         SetLocal(t, to, l), UNCHANGED <<key_index, blocks, lru_order>>, SameKeys,
         pc[t] # "remove_index",
         \/ l.id \in {loc[t].id, NoBlock} \cup loc[t].todo
         \/ \E k \in Keys : l.id = key_index[k],
         \A b \in l.todo : b \in loc[t].todo \/ \E k \in Keys : b = key_index[k]
  PROVE  IndexInv'
BY HarmlessLocals, QueueFrame, IndexQuiet DEF QuietPoints

\* The shapes of IndexStill that keep or forget all locals.
LEMMA IndexGoto ==
  ASSUME IndexInv, RefsInv', NEW t \in Threads, NEW from, NEW to \in QuietPoints,
         Goto(t, from, to), from # "remove_index",
         UNCHANGED <<loc, key_index, blocks, lru_order>>, SameKeys
  PROVE  IndexInv'
<1>1. SetLocal(t, to, loc[t]) /\ pc[t] = from
  BY GotoIsSetLocal DEF Goto, IndexInv, RefsInv, TypeInv
<1> QED BY <1>1, IndexStill

LEMMA IndexForget ==
  ASSUME IndexInv, RefsInv', NEW t \in Threads, NEW to \in {"idle", "holding"},
         SetLocal(t, to, NoLocals), pc[t] # "remove_index",
         UNCHANGED <<key_index, blocks, lru_order>>, SameKeys
  PROVE  IndexInv'
<1>1. NoLocals.id = NoBlock /\ NoLocals.todo = {}
  BY DEF NoLocals
<1>2. to \in QuietPoints
  BY DEF QuietPoints, ProgramPoints, InsertPoints, ClearPoints
<1> QED BY <1>1, <1>2, IndexStill

\* What a touch does to the queue.
LEMMA TouchQueue ==
  ASSUME TypeInv, NEW b \in Ids, Touch(b)
  PROVE  \A c \in Ids : Queued(c) => Queued(c)'
<1> SUFFICES ASSUME NEW c \in Ids, InQueue(lru_order, c) PROVE InQueue(lru_order', c)
  BY DEF Queued
<1> DEFINE s == Retain(lru_order, b)
<1>1. s \in Seq(Ids) /\ lru_order \in Seq(Ids)
  BY RetainType DEF TypeInv, PoolTypes
<1>2. lru_order' = Append(s, b)
  BY DEF Touch
<1>3. Len(lru_order') = Len(s) + 1
  BY <1>1, <1>2
<1>4. CASE c = b
  BY <1>1, <1>2, <1>3, <1>4 DEF InQueue
<1>5. CASE c # b
  <2>1. Len(lru_order) \in Nat
    BY <1>1
  <2>2. InQueue(s, c)
    BY <1>5, <2>1, RetainKeeps
  <2> HIDE DEF s
  <2>3. PICK j \in 1 .. Len(s) : s[j] = c
    BY <2>2 DEF InQueue
  <2>4. j \in 1 .. Len(lru_order') /\ lru_order'[j] = c
    BY <1>1, <1>2, <1>3, <2>3
  <2> QED BY <2>4 DEF InQueue
<1> QED BY <1>4, <1>5

\* The counts change, the keys do not.
LEMMA AddRefKeys ==
  ASSUME TypeInv, NEW b, AddRef(b)
  PROVE  SameKeys
BY DEF AddRef, SameKeys, TypeInv, PoolTypes, Objects

LEMMA InsertIdKnown ==
  ASSUME IndexInv, NEW t \in Threads, pc[t] \in IdPoints
  PROVE  loc[t].id \in Ids
BY DEF IndexInv, RefsInv, TypeInv, ThreadTypes, LocalsKnown, Knows

-----------------------------------------------------------------------------
(* The steps *)

LEMMA IndexAcquire ==
  ASSUME IndexInv, NEW t \in Threads,
         \/ \E k \in HashKeys : AcquireHit(t, k) \/ AcquireMiss(t, k)
         \/ AcquireStep(t)
         \/ Cancel(t)
  PROVE  IndexInv'
<1>0. RefsInv' /\ RefsInv /\ TypeInv /\ ThreadTypes
  BY RefsAcquire DEF IndexInv, RefsInv, TypeInv
<1>00. {"acquire_pending", "start_lookup", "start_pending", "register", "fetching",
        "complete", "complete_lookup", "waiting", "evict_check"} \subseteq QuietPoints
  BY DEF QuietPoints, ProgramPoints, InsertPoints, ClearPoints
<1>01. UNCHANGED obj => SameKeys
  BY DEF SameKeys
<1> USE <1>0, <1>00, <1>01
<1>1. ASSUME NEW k \in HashKeys, AcquireHit(t, k) PROVE IndexInv'
  <2>1. PICK b \in Ids : AddRef(b) /\ Touch(b)
    BY <1>1 DEF AcquireHit, Cached, AddRef, Touch, PoolTypes, TypeInv
  <2>2. /\ pc[t] = "idle" /\ SetLocal(t, "holding", NoLocals)
        /\ UNCHANGED <<key_index, blocks>>
    BY <1>1 DEF AcquireHit, ReturnHandle, SetLocal, Call, maps
  <2>3. SameKeys
    BY <2>1, AddRefKeys
  <2>4. \A c \in Ids : Queued(c) => Queued(c)'
    BY <2>1, TouchQueue
  <2>5. \A c \in blocks : Queued(c)'
    BY <2>4 DEF IndexInv, BlocksAreQueued, Queued, InQueue, TypeInv, PoolTypes
  <2>6. \A u \in Threads : pc[u] \in InsertPoints =>
          \E i \in 1 .. Len(lru_order') : lru_order'[i] = loc[u].id
    BY <2>4, InsertIdKnown DEF IndexInv, Inserting, Queued, InQueue, InsertPoints, IdPoints
  <2>7. Harmless(t, NoLocals)
    <3>1. NoLocals.id = NoBlock /\ NoLocals.todo = {}
      BY DEF NoLocals
    <3> QED BY <3>1, HarmlessLocals
  <2>8. "holding" \notin InsertPoints \cup ClearPoints
                           \cup {"remove_index", "remove_lru", "replace"}
    BY DEF InsertPoints, ClearPoints
  <2> QED BY <2>2, <2>3, <2>5, <2>6, <2>7, <2>8, IndexQuiet
<1>2. ASSUME NEW k \in HashKeys, AcquireMiss(t, k) PROVE IndexInv'
  <2> DEFINE l == [NoLocals EXCEPT !.key = k]
  <2>1. l.id = NoBlock /\ l.todo = {}
    BY DEF NoLocals
  <2> QED BY <1>2, <2>1, IndexStill DEF AcquireMiss, Call, maps, lru
<1>3. ASSUME NEW from \in {"acquire_pending", "start_pending"}, AwaitOther(t, from)
      PROVE  IndexInv'
  <2> DEFINE l == [loc[t] EXCEPT !.fut = pending[loc[t].key]]
  <2>1. l.id = loc[t].id /\ l.todo = loc[t].todo
    BY DEF ThreadTypes, Locals
  <2> QED BY <1>3, <2>1, IndexStill DEF AwaitOther, maps, lru
<1>4. ASSUME NEW from, from # "remove_index", LookupHit(t, from) PROVE IndexInv'
  <2>1. SetLocal(t, "holding", NoLocals) /\ pc[t] = from
    BY <1>4 DEF LookupHit, ReturnHandle, SetLocal
  <2>2. SameKeys
    BY <1>4 DEF LookupHit, AddRef, SameKeys, TypeInv, PoolTypes, Objects
  <2> QED BY <1>4, <2>1, <2>2, IndexForget DEF LookupHit, maps, lru
<1>5. CASE Register(t)
  <2> DEFINE l == [loc[t] EXCEPT !.fut = next_fetch]
  <2>1. l.id = loc[t].id /\ l.todo = loc[t].todo
    BY DEF ThreadTypes, Locals
  <2> QED BY <1>5, <2>1, IndexStill DEF Register, maps, lru
<1>6. CASE CompleteLookupMiss(t)
  <2> DEFINE l == [loc[t] EXCEPT !.size = ChunkSize]
  <2>1. l.id = loc[t].id /\ l.todo = loc[t].todo
    BY DEF ThreadTypes, Locals
  <2> QED BY <1>6, <2>1, IndexStill DEF CompleteLookupMiss, maps, lru
<1>7. CASE WaiterMiss(t)
  <2>1. SetLocal(t, "holding", NoLocals) /\ pc[t] = "waiting"
    BY <1>7 DEF WaiterMiss, ReturnHandle, SetLocal
  <2> QED BY <1>7, <2>1, IndexForget DEF WaiterMiss, maps, lru
<1>8. ASSUME Return(t), UNCHANGED <<maps, obj, lru>>, pc[t] # "remove_index"
      PROVE  IndexInv'
  <2>1. SetLocal(t, "idle", NoLocals)
    BY <1>8 DEF Return, SetLocal
  <2> QED BY <1>8, <2>1, IndexForget DEF maps, lru
<1>9. CASE AcquireNoPending(t) \/ StartLookupMiss(t) \/ StartNoPending(t)
  BY <1>9, IndexGoto DEF AcquireNoPending, StartLookupMiss, StartNoPending, maps, lru
<1>10. ASSUME NEW result, FetchReturn(t, result) PROVE IndexInv'
  BY <1>10, IndexGoto DEF FetchReturn, maps, lru
<1>11. CASE CompleteRemovePending(t)
  BY <1>11, <1>8, IndexGoto DEF CompleteRemovePending, maps, lru
<1>12. CASE WaiterError(t) \/ Cancel(t)
  BY <1>12, <1>8 DEF WaiterError, Cancel
<1> QED BY <1>1, <1>2, <1>3, <1>4, <1>5, <1>6, <1>7, <1>9, <1>10, <1>11, <1>12
        DEF AcquireStep, WaiterHit

\* The block of a thread that is inserting is in use.
LEMMA InserterHolds ==
  ASSUME RefsInv, NEW u \in Threads, pc[u] \in InsertPoints, loc[u].id \in Ids
  PROVE  obj[loc[u].id].ref_count # 0
<1>1. u \in Holders(loc[u].id)
  BY DEF RefsInv, HoldsKnown, Holders, HoldPoints, InsertPoints
<1>2. Cardinality(Holders(loc[u].id)) # 0
  BY <1>1, HoldersFinite, FS_EmptySet
<1> QED BY <1>2 DEF RefsInv, RefsCountHandles

\* Eviction passes over a block that is being inserted.
LEMMA IndexEvict ==
  ASSUME IndexInv, NEW t \in Threads, EvictStep(t)
  PROVE  IndexInv'
<1>0. RefsInv' /\ RefsInv /\ TypeInv /\ ThreadTypes
  BY RefsRemove DEF IndexInv, RefsInv, TypeInv
<1>00. {"evict_scan", "evict_none", "allocate", "remove"} \subseteq QuietPoints
  BY DEF QuietPoints, ProgramPoints, InsertPoints, ClearPoints
<1>01. UNCHANGED obj => SameKeys
  BY DEF SameKeys
<1> USE <1>0, <1>00, <1>01
<1>1. CASE EvictNotNeeded(t) \/ EvictNeeded(t) \/ EvictNone(t) \/ EvictEmptyPool(t)
  BY <1>1, IndexGoto
  DEF EvictNotNeeded, EvictNeeded, EvictNone, EvictEmptyPool, maps, lru
<1>2. CASE EvictPick(t)
  <2>1. PICK i \in 1 .. Len(lru_order) :
          /\ Evictable(lru_order[i])
          /\ SetLocal(t, "remove", [loc[t] EXCEPT !.id = lru_order[i]])
    BY <1>2 DEF EvictPick
  <2> DEFINE l == [loc[t] EXCEPT !.id = lru_order[i]]
  <2>2. l.id = lru_order[i] /\ l.todo = loc[t].todo
    BY DEF ThreadTypes, Locals
  <2>3. Harmless(t, l)
    <3> SUFFICES ASSUME NEW u \in Threads \ {t}, pc[u] \in InsertPoints
                 PROVE  loc[u].id # l.id /\ loc[u].id \notin l.todo
      BY DEF Harmless
    <3>1. loc[u].id \in Ids
      BY InsertIdKnown DEF InsertPoints, IdPoints
    <3>2. loc[u].id # lru_order[i]
      BY <2>1, <3>1, InserterHolds DEF Evictable, CanEvictWithoutFlush, CanEvict
    <3>3. loc[u].id \notin loc[t].todo
      BY DEF IndexInv, Inserting, Private
    <3> QED BY <2>2, <3>2, <3>3
  <2>4. pc[t] = "evict_scan" /\ UNCHANGED <<key_index, blocks, lru_order, obj>>
    BY <1>2 DEF EvictPick, maps, lru
  <2>5. "remove" \notin InsertPoints \cup ClearPoints
                          \cup {"remove_index", "remove_lru", "replace"}
    BY DEF InsertPoints, ClearPoints
  <2> HIDE DEF l
  <2> QED BY <2>1, <2>3, <2>4, <2>5, QueueFrame, IndexQuiet DEF l
<1>3. CASE EvictExhausted(t)
  <2>1. SetLocal(t, "idle", NoLocals) /\ pc[t] = "evict_none"
    BY <1>3 DEF EvictExhausted, Return, SetLocal
  <2> QED BY <1>3, <2>1, IndexForget DEF EvictExhausted, maps, lru
<1> QED BY <1>1, <1>2, <1>3 DEF EvictStep

\* Taking a block's id out of the queue keeps the ids that matter.
LEMMA RetainQueue ==
  ASSUME IndexInv, NEW b, lru_order' = Retain(lru_order, b), b \notin blocks,
         \A u \in Threads : pc[u] \in InsertPoints => loc[u].id # b
  PROVE  /\ \A c \in blocks : Queued(c)'
         /\ \A u \in Threads : pc[u] \in InsertPoints => InQueue(lru_order', loc[u].id)
<1>1. Len(lru_order) \in Nat
  BY DEF IndexInv, RefsInv, TypeInv, PoolTypes
<1>2. \A c : c # b /\ InQueue(lru_order, c) => InQueue(Retain(lru_order, b), c)
  BY <1>1, RetainKeeps
<1> QED BY <1>2 DEF IndexInv, BlocksAreQueued, Inserting, Queued, InQueue

LEMMA IndexRemoveLru ==
  ASSUME IndexInv, RefsInv', NEW t \in Threads, RemoveFromLru(t)
  PROVE  IndexInv'
<1> DEFINE to == IF loc[t].bulk THEN "bulk" ELSE "evict_check"
<1>1. /\ pc[t] = "remove_lru" /\ SetLocal(t, to, loc[t])
      /\ lru_order' = Retain(lru_order, loc[t].id)
      /\ UNCHANGED <<key_index, blocks, obj>>
  BY GotoIsSetLocal DEF RemoveFromLru, Goto, maps, IndexInv, RefsInv, TypeInv
<1>2. loc[t].id \notin blocks
  BY <1>1 DEF IndexInv, Removed
<1>3. \A u \in Threads : pc[u] \in InsertPoints => loc[u].id # loc[t].id
  BY <1>1 DEF IndexInv, Inserting, Private, InsertPoints
<1>4. /\ \A c \in blocks : Queued(c)'
      /\ \A u \in Threads : pc[u] \in InsertPoints =>
           \E i \in 1 .. Len(lru_order') : lru_order'[i] = loc[u].id
  BY <1>1, <1>2, <1>3, RetainQueue DEF InQueue
<1>5. Harmless(t, loc[t])
  BY HarmlessLocals
<1>6. SameKeys
  BY <1>1 DEF SameKeys
<1>7. to \notin InsertPoints \cup ClearPoints \cup {"remove_index", "remove_lru", "replace"}
  BY DEF InsertPoints, ClearPoints
<1> HIDE DEF to
<1> QED BY <1>1, <1>4, <1>5, <1>6, <1>7, IndexQuiet

\* The second step of a removal: the witness of a dangling entry moves on, and
\* the entry goes.
LEMMA IndexRemoveIndex ==
  ASSUME IndexInv, RefsInv', NEW t \in Threads, RemoveFromIndex(t)
  PROVE  IndexInv'
<1> DEFINE key == obj[loc[t].id].key
<1>0. TypeInv /\ ThreadTypes /\ PoolTypes
  BY DEF IndexInv, RefsInv, TypeInv
<1>1. /\ pc[t] = "remove_index" /\ pc' = [pc EXCEPT ![t] = "remove_lru"]
      /\ key_index' = [key_index EXCEPT ![key] = NoBlock]
      /\ UNCHANGED <<blocks, obj, loc, lru_order>>
  BY DEF RemoveFromIndex, Goto, lru
<1>2. \A u \in Threads : pc'[u] = IF u = t THEN "remove_lru" ELSE pc[u]
  BY <1>0, <1>1 DEF ThreadTypes
<1>3. \A k \in Keys : key_index'[k] = IF k = key THEN NoBlock ELSE key_index[k]
  BY <1>0, <1>1 DEF PoolTypes
<1>4. NotClearing'
  BY <1>2 DEF IndexInv, NotClearing, ClearPoints
<1>5. IndexKeys'
  BY <1>1, <1>3 DEF IndexInv, IndexKeys
<1>6. Inserting'
  <2> SUFFICES ASSUME NEW u \in Threads, pc'[u] \in InsertPoints
               PROVE  /\ obj'[loc'[u].id].key = loc'[u].key
                      /\ pc'[u] = "insert_index" => loc'[u].id \in blocks'
                      /\ Queued(loc[u].id)'
                      /\ Private(u)'
    BY <1>1 DEF Inserting
  <2>1. u # t /\ pc[u] \in InsertPoints /\ pc'[u] = pc[u]
    BY <1>2 DEF InsertPoints
  <2>2. loc[u].id # NoBlock
    BY <2>1, InsertIdKnown DEF InsertPoints, IdPoints, Ids, NoBlock
  <2>3. Private(u)'
    BY <1>1, <1>3, <2>1, <2>2 DEF IndexInv, Inserting, Private
  <2> QED BY <1>1, <2>1, <2>3 DEF IndexInv, Inserting, Queued
<1>7. Removed'
  BY <1>1, <1>2 DEF IndexInv, Removed
<1>8. Replaced'
  <2> SUFFICES ASSUME NEW u \in Threads, pc[u] = "replace", NEW k \in Keys
               PROVE  key_index'[k] # loc[u].id
    BY <1>1, <1>2 DEF Replaced
  <2>1. loc[u].id # NoBlock
    BY InsertIdKnown DEF IdPoints, Ids, NoBlock
  <2> QED BY <1>3, <2>1 DEF IndexInv, Replaced
<1>9. NoDanglingIndex'
  <2> SUFFICES ASSUME NEW k \in Keys, key_index'[k] \notin blocks \cup {NoBlock}
               PROVE  \E u \in Threads : pc'[u] = "remove_index" /\ obj[loc[u].id].key = k
    BY <1>1 DEF NoDanglingIndex
  <2>1. k # key /\ key_index'[k] = key_index[k]
    BY <1>3
  <2>2. PICK u \in Threads : pc[u] = "remove_index" /\ obj[loc[u].id].key = k
    BY <2>1 DEF IndexInv, NoDanglingIndex
  <2>3. u # t
    BY <2>1, <2>2
  <2> QED BY <1>2, <2>2, <2>3
<1>10. BlocksAreQueued'
  BY <1>1 DEF IndexInv, BlocksAreQueued
<1> QED BY <1>4, <1>5, <1>6, <1>7, <1>8, <1>9, <1>10 DEF IndexInv

\* A block leaves the first map, by eviction, bulk removal or replacement: what
\* the other conjuncts need is that no thread is inserting it.
LEMMA BlockGoes ==
  ASSUME IndexInv, RefsInv', NEW t \in Threads, NEW b \in blocks, NEW to, NEW l,
         SetLocal(t, to, l), blocks' = blocks \ {b}, l.id = b, Harmless(t, l),
         UNCHANGED <<key_index, obj, lru_order>>,
         pc[t] \notin {"remove_index"} \cup InsertPoints,
         \/ to = "remove_index"
         \/ to = "remove_lru" /\ \A k \in Keys : key_index[k] # b
  PROVE  IndexInv'
<1>1. /\ \A u \in Threads : pc'[u] = IF u = t THEN to ELSE pc[u]
      /\ \A u \in Threads : loc'[u] = IF u = t THEN l ELSE loc[u]
  BY DEF SetLocal, IndexInv, RefsInv, TypeInv, ThreadTypes
<1>2. NotClearing'
  BY <1>1 DEF IndexInv, NotClearing, ClearPoints
<1>3. IndexKeys'
  BY DEF IndexInv, IndexKeys
<1>4. Inserting'
  <2> SUFFICES ASSUME NEW u \in Threads, pc'[u] \in InsertPoints
               PROVE  /\ obj'[loc'[u].id].key = loc'[u].key
                      /\ pc'[u] = "insert_index" => loc'[u].id \in blocks'
                      /\ InQueue(lru_order', loc'[u].id)
                      /\ Private(u)'
    BY DEF Inserting, Queued
  <2>1. u # t /\ pc[u] \in InsertPoints /\ pc'[u] = pc[u] /\ loc'[u] = loc[u]
    BY <1>1 DEF InsertPoints
  <2>2. loc[u].id # b
    BY <2>1 DEF Harmless
  <2>3. Private(u)'
    BY <1>1, <2>1 DEF Private, Harmless, IndexInv, Inserting
  <2> QED BY <2>1, <2>2, <2>3 DEF IndexInv, Inserting, Queued
<1>5. Removed'
  BY <1>1 DEF IndexInv, Removed
<1>6. Replaced'
  BY <1>1 DEF IndexInv, Replaced
<1>7. NoDanglingIndex'
  <2> SUFFICES ASSUME NEW k \in Keys, key_index[k] \notin (blocks \ {b}) \cup {NoBlock}
               PROVE  \E u \in Threads : pc'[u] = "remove_index" /\ obj[loc'[u].id].key = k
    BY DEF NoDanglingIndex
  <2>1. CASE key_index[k] = b
    <3>1. obj[b].key = k /\ to = "remove_index"
      BY <2>1 DEF IndexInv, IndexKeys
    <3> QED BY <1>1, <3>1
  <2>2. CASE key_index[k] # b
    <3>1. PICK u \in Threads : pc[u] = "remove_index" /\ obj[loc[u].id].key = k
      BY <2>2 DEF IndexInv, NoDanglingIndex
    <3>2. u # t
      BY <3>1
    <3> QED BY <1>1, <3>1, <3>2
  <2> QED BY <2>1, <2>2
<1>8. BlocksAreQueued'
  BY DEF IndexInv, BlocksAreQueued
<1> QED BY <1>2, <1>3, <1>4, <1>5, <1>6, <1>7, <1>8 DEF IndexInv

LEMMA IndexRemove ==
  ASSUME IndexInv, NEW t \in Threads, RemoveStep(t)
  PROVE  IndexInv'
<1>0. RefsInv' /\ RefsInv /\ TypeInv /\ ThreadTypes
  BY RefsRemove DEF IndexInv, RefsInv, TypeInv
<1>1. ASSUME NEW b \in Ids, RemoveFromBlocks(t, b) PROVE IndexInv'
  <2>1. /\ UNCHANGED <<key_index, obj, lru_order>> /\ blocks' = blocks \ {b}
        /\ pc[t] \in {"remove", "bulk"}
    BY <1>1 DEF RemoveFromBlocks, lru
  <2>2. PICK to : /\ pc' = [pc EXCEPT ![t] = to]
                  /\ b \in blocks => to = "remove_index"
                  /\ b \notin blocks => to \in {"bulk", "evict_check"}
    BY <1>1 DEF RemoveFromBlocks
  <2>3. PICK l : /\ loc' = [loc EXCEPT ![t] = l]
                 /\ l.id = b /\ l.id \in {loc[t].id} \cup loc[t].todo
                 /\ l.todo \subseteq loc[t].todo
    <3>1. CASE b = loc[t].id /\ loc' = loc
      <4>1. loc' = [loc EXCEPT ![t] = loc[t]]
        BY <1>0, <3>1 DEF ThreadTypes
      <4> QED BY <3>1, <4>1
    <3>2. CASE b \in loc[t].todo /\ loc' = [loc EXCEPT ![t].id = b, ![t].todo = @ \ {b}]
      <4> DEFINE l == [loc[t] EXCEPT !.id = b, !.todo = @ \ {b}]
      <4>1. loc' = [loc EXCEPT ![t] = l]
        BY <1>0, <3>2 DEF ThreadTypes
      <4>2. l.id = b /\ l.todo = loc[t].todo \ {b}
        BY <1>0 DEF ThreadTypes, Locals
      <4> QED BY <3>2, <4>1, <4>2
    <3> QED BY <1>1, <3>1, <3>2 DEF RemoveFromBlocks
  <2>4. SetLocal(t, to, l)
    BY <2>2, <2>3 DEF SetLocal
  <2>5. Harmless(t, l)
    BY <2>3, HarmlessLocals
  <2>6. CASE b \in blocks
    BY <1>0, <2>1, <2>2, <2>3, <2>4, <2>5, <2>6, BlockGoes DEF InsertPoints
  <2>7. CASE b \notin blocks
    <3>1. UNCHANGED blocks
      BY <2>1, <2>7
    <3>2. to \in QuietPoints
      BY <2>2, <2>7 DEF QuietPoints, ProgramPoints, InsertPoints, ClearPoints
    <3>3. SameKeys
      BY <2>1 DEF SameKeys
    <3> QED BY <1>0, <2>1, <2>3, <2>4, <3>1, <3>2, <3>3, IndexStill
  <2> QED BY <2>6, <2>7
<1>2. CASE BulkDone(t)
  <2>1. /\ SetLocal(t, "idle", NoLocals) /\ pc[t] = "bulk"
        /\ UNCHANGED <<key_index, blocks, lru_order, obj>>
    BY <1>2 DEF BulkDone, Return, SetLocal, maps, lru
  <2>2. SameKeys
    BY <2>1 DEF SameKeys
  <2> QED BY <1>0, <2>1, <2>2, IndexForget
<1> QED BY <1>0, <1>1, <1>2, IndexRemoveIndex, IndexRemoveLru DEF RemoveStep

-----------------------------------------------------------------------------
(* Insertion *)

\* A new id is nobody's.
LEMMA IndexAllocate ==
  ASSUME IndexInv, RefsInv', NEW t \in Threads, Allocate(t)
  PROVE  IndexInv'
<1> DEFINE l == [loc[t] EXCEPT !.id = next_id]
<1>0. RefsInv /\ TypeInv /\ ThreadTypes /\ PoolTypes
  BY DEF IndexInv, RefsInv, TypeInv
<1>1. /\ pc[t] = "allocate" /\ next_id \in Ids /\ SetLocal(t, "insert_block", l)
      /\ UNCHANGED <<key_index, blocks>> /\ lru_order' = Append(lru_order, next_id)
  BY DEF Allocate, maps
<1>2. obj'[next_id].key = loc[t].key /\ \A c \in Ids \ {next_id} : obj'[c] = obj[c]
  BY <1>0, <1>1 DEF Allocate, PoolTypes
<1>3. l.id = next_id /\ l.key = loc[t].key /\ l.todo = loc[t].todo
  BY <1>0 DEF ThreadTypes, Locals
<1> HIDE DEF l
<1>4. /\ \A u \in Threads : pc'[u] = IF u = t THEN "insert_block" ELSE pc[u]
      /\ \A u \in Threads : loc'[u] = IF u = t THEN l ELSE loc[u]
  BY <1>0, <1>1 DEF SetLocal, ThreadTypes
<1>5. /\ \A k \in Keys : key_index[k] # next_id
      /\ \A u \in Threads : loc[u].id # next_id /\ next_id \notin loc[u].todo
      /\ next_id \notin blocks
  <2>1. ~ (next_id < next_id)
    BY <1>0 DEF PoolTypes
  <2> QED BY <1>0, <2>1 DEF RefsInv, IdsAllocated, Below
<1>6. \A c : InQueue(lru_order, c) => InQueue(lru_order', c)
  BY <1>0, <1>1 DEF InQueue, PoolTypes
<1>7. InQueue(lru_order', next_id)
  <2>1. Len(lru_order') \in 1 .. Len(lru_order') /\ lru_order'[Len(lru_order')] = next_id
    BY <1>0, <1>1 DEF PoolTypes
  <2> QED BY <2>1 DEF InQueue
<1>8. NotClearing'
  BY <1>4 DEF IndexInv, NotClearing, ClearPoints
<1>9. IndexKeys'
  <2>1. \A k \in Keys : key_index[k] # NoBlock => key_index[k] \in Ids \ {next_id}
    BY <1>0, <1>5 DEF PoolTypes
  <2> QED BY <1>1, <1>2, <2>1 DEF IndexInv, IndexKeys
<1>10. Inserting'
  <2> SUFFICES ASSUME NEW u \in Threads, pc'[u] \in InsertPoints
               PROVE  /\ obj'[loc'[u].id].key = loc'[u].key
                      /\ pc'[u] = "insert_index" => loc'[u].id \in blocks
                      /\ InQueue(lru_order', loc'[u].id)
                      /\ Private(u)'
    BY <1>1 DEF Inserting, Queued
  <2>1. CASE u = t
    <3>1. loc'[u] = l /\ pc'[u] = "insert_block"
      BY <1>4, <2>1
    <3>2. Private(u)'
      BY <1>1, <1>3, <1>4, <1>5, <2>1 DEF Private
    <3> QED BY <1>2, <1>3, <1>7, <3>1, <3>2
  <2>2. CASE u # t
    <3>1. pc[u] \in InsertPoints /\ pc'[u] = pc[u] /\ loc'[u] = loc[u]
      BY <1>4, <2>2
    <3>2. loc[u].id \in Ids \ {next_id}
      BY <1>5, <3>1, InsertIdKnown DEF InsertPoints, IdPoints
    <3>3. Private(u)'
      <4>1. Private(u)
        BY <3>1 DEF IndexInv, Inserting
      <4>2. loc[u].id \notin loc[t].todo
        BY <2>2, <4>1 DEF Private
      <4> QED BY <1>1, <1>3, <1>4, <2>2, <3>2, <4>1, <4>2 DEF Private
    <3> QED BY <1>2, <1>6, <3>1, <3>2, <3>3 DEF IndexInv, Inserting, Queued
  <2> QED BY <2>1, <2>2
<1>11. Removed'
  BY <1>1, <1>4 DEF IndexInv, Removed
<1>12. Replaced'
  BY <1>1, <1>4 DEF IndexInv, Replaced
<1>13. NoDanglingIndex'
  <2> SUFFICES ASSUME NEW k \in Keys, key_index[k] \notin blocks \cup {NoBlock}
               PROVE  \E u \in Threads : pc'[u] = "remove_index" /\ obj'[loc'[u].id].key = k
    BY <1>1 DEF NoDanglingIndex
  <2>1. PICK u \in Threads : pc[u] = "remove_index" /\ obj[loc[u].id].key = k
    BY DEF IndexInv, NoDanglingIndex
  <2>2. u # t /\ loc[u].id \in Ids \ {next_id}
    BY <1>1, <1>5, <2>1, InsertIdKnown DEF IdPoints
  <2> QED BY <1>2, <1>4, <2>1, <2>2
<1>14. BlocksAreQueued'
  BY <1>1, <1>6 DEF IndexInv, BlocksAreQueued, InQueue
<1> QED BY <1>8, <1>9, <1>10, <1>11, <1>12, <1>13, <1>14 DEF IndexInv

\* The block appears in the first map: it is queued, and nobody removes it.
LEMMA IndexInsertBlock ==
  ASSUME IndexInv, RefsInv', NEW t \in Threads, InsertBlock(t)
  PROVE  IndexInv'
<1>0. RefsInv /\ TypeInv /\ ThreadTypes
  BY DEF IndexInv, RefsInv, TypeInv
<1>1. /\ pc[t] = "insert_block" /\ pc' = [pc EXCEPT ![t] = "insert_index"]
      /\ blocks' = blocks \cup {loc[t].id}
      /\ UNCHANGED <<key_index, obj, lru_order, loc>>
  BY DEF InsertBlock, Goto, lru
<1>2. \A u \in Threads : pc'[u] = IF u = t THEN "insert_index" ELSE pc[u]
  BY <1>0, <1>1 DEF ThreadTypes
<1>3. Private(t) /\ Queued(loc[t].id)
  BY <1>1 DEF IndexInv, Inserting, InsertPoints
<1>4. NotClearing'
  BY <1>2 DEF IndexInv, NotClearing, ClearPoints
<1>5. IndexKeys'
  BY <1>1 DEF IndexInv, IndexKeys
<1>6. Inserting'
  <2> SUFFICES ASSUME NEW u \in Threads, pc'[u] \in InsertPoints
               PROVE  /\ obj[loc[u].id].key = loc[u].key
                      /\ pc'[u] = "insert_index" => loc[u].id \in blocks'
                      /\ InQueue(lru_order, loc[u].id)
                      /\ Private(u)'
    BY <1>1 DEF Inserting, Queued
  <2>1. pc[u] \in InsertPoints /\ (u = t \/ pc'[u] = pc[u])
    BY <1>1, <1>2 DEF InsertPoints
  <2>2. Private(u)'
    BY <1>1, <2>1 DEF IndexInv, Inserting, Private
  <2> QED BY <1>1, <2>1, <2>2 DEF IndexInv, Inserting, Queued
<1>7. Removed'
  <2> SUFFICES ASSUME NEW u \in Threads, pc'[u] \in {"remove_index", "remove_lru"}
               PROVE  loc[u].id \notin blocks'
    BY <1>1 DEF Removed
  <2>1. u # t /\ pc[u] \in {"remove_index", "remove_lru"}
    BY <1>2
  <2> QED BY <1>1, <1>3, <2>1 DEF IndexInv, Removed, Private
<1>8. Replaced'
  BY <1>1, <1>2 DEF IndexInv, Replaced
<1>9. NoDanglingIndex'
  <2> SUFFICES ASSUME NEW k \in Keys, key_index[k] \notin blocks \cup {NoBlock}
               PROVE  \E u \in Threads : pc'[u] = "remove_index" /\ obj[loc[u].id].key = k
    BY <1>1 DEF NoDanglingIndex
  <2>1. PICK u \in Threads : pc[u] = "remove_index" /\ obj[loc[u].id].key = k
    BY DEF IndexInv, NoDanglingIndex
  <2> QED BY <1>1, <1>2, <2>1
<1>10. BlocksAreQueued'
  BY <1>1, <1>3 DEF IndexInv, BlocksAreQueued, Queued, InQueue
<1> QED BY <1>4, <1>5, <1>6, <1>7, <1>8, <1>9, <1>10 DEF IndexInv

\* The index names the block, which is in the pool: nobody has removed it.
LEMMA IndexInsertIndex ==
  ASSUME IndexInv, RefsInv', NEW t \in Threads, InsertIndex(t)
  PROVE  IndexInv'
<1> DEFINE key == loc[t].key
           b == loc[t].id
<1>0. RefsInv /\ TypeInv /\ ThreadTypes /\ PoolTypes
  BY DEF IndexInv, RefsInv, TypeInv
<1>1. /\ pc[t] = "insert_index" /\ SetLocal(t, "holding", NoLocals)
      /\ key_index' = [key_index EXCEPT ![key] = b]
      /\ UNCHANGED <<blocks, obj, lru_order>>
  BY DEF InsertIndex, ReturnHandle, SetLocal, lru
<1>2. /\ \A u \in Threads : pc'[u] = IF u = t THEN "holding" ELSE pc[u]
      /\ \A u \in Threads : loc'[u] = IF u = t THEN NoLocals ELSE loc[u]
  BY <1>0, <1>1 DEF SetLocal, ThreadTypes
<1>3. /\ key \in Keys /\ b \in blocks /\ obj[b].key = key /\ Private(t)
  BY <1>0, <1>1 DEF IndexInv, Inserting, InsertPoints, ThreadTypes, LocalsKnown, Knows,
                    KeyPoints
<1>4. \A k \in Keys : key_index'[k] = IF k = key THEN b ELSE key_index[k]
  BY <1>0, <1>1 DEF PoolTypes
<1>5. NoLocals.id = NoBlock /\ NoLocals.todo = {}
  BY DEF NoLocals
<1>6. \A u \in Threads \ {t} : loc[u].id # b
  BY <1>3 DEF Private
<1> HIDE DEF key, b
<1>7. NotClearing'
  BY <1>2 DEF IndexInv, NotClearing, ClearPoints
<1>8. IndexKeys'
  BY <1>1, <1>3, <1>4 DEF IndexInv, IndexKeys
<1>9. Inserting'
  <2> SUFFICES ASSUME NEW u \in Threads, pc'[u] \in InsertPoints
               PROVE  /\ obj[loc'[u].id].key = loc'[u].key
                      /\ pc'[u] = "insert_index" => loc'[u].id \in blocks
                      /\ InQueue(lru_order, loc'[u].id)
                      /\ Private(u)'
    BY <1>1 DEF Inserting, Queued
  <2>1. u # t /\ pc[u] \in InsertPoints /\ pc'[u] = pc[u] /\ loc'[u] = loc[u]
    BY <1>2 DEF InsertPoints
  <2>2. loc[u].id # NoBlock
    BY <2>1, InsertIdKnown DEF InsertPoints, IdPoints, Ids, NoBlock
  <2>3. Private(u)
    BY <2>1 DEF IndexInv, Inserting
  <2>4. Private(u)'
    BY <1>2, <1>4, <1>5, <1>6, <2>1, <2>2, <2>3 DEF Private
  <2> QED BY <2>1, <2>4 DEF IndexInv, Inserting, Queued
<1>10. Removed'
  BY <1>1, <1>2 DEF IndexInv, Removed
<1>11. Replaced'
  <2> SUFFICES ASSUME NEW u \in Threads, pc'[u] = "replace", NEW k \in Keys
               PROVE  key_index'[k] # loc'[u].id
    BY DEF Replaced
  <2>1. u # t /\ pc[u] = "replace" /\ loc'[u] = loc[u]
    BY <1>2
  <2> QED BY <1>4, <1>6, <2>1 DEF IndexInv, Replaced
<1>12. NoDanglingIndex'
  <2> SUFFICES ASSUME NEW k \in Keys, key_index'[k] \notin blocks \cup {NoBlock}
               PROVE  \E u \in Threads : pc'[u] = "remove_index" /\ obj[loc'[u].id].key = k
    BY <1>1 DEF NoDanglingIndex
  <2>1. key_index'[k] = key_index[k]
    BY <1>3, <1>4
  <2>2. PICK u \in Threads : pc[u] = "remove_index" /\ obj[loc[u].id].key = k
    BY <2>1 DEF IndexInv, NoDanglingIndex
  <2>3. u # t
    BY <1>1, <2>2
  <2> QED BY <1>2, <2>2, <2>3
<1>13. BlocksAreQueued'
  BY <1>1 DEF IndexInv, BlocksAreQueued
<1> QED BY <1>7, <1>8, <1>9, <1>10, <1>11, <1>12, <1>13 DEF IndexInv

\* insert_dirty took the index entry of the block it replaces.
LEMMA IndexReplace ==
  ASSUME IndexInv, RefsInv', NEW t \in Threads, ReplaceBlock(t)
  PROVE  IndexInv'
<1> DEFINE to == IF loc[t].id \in blocks THEN "remove_lru" ELSE "evict_check"
<1>0. RefsInv /\ TypeInv /\ ThreadTypes
  BY DEF IndexInv, RefsInv, TypeInv
<1>1. /\ pc[t] = "replace" /\ SetLocal(t, to, loc[t]) /\ blocks' = blocks \ {loc[t].id}
      /\ UNCHANGED <<key_index, obj, lru_order>>
  BY <1>0, GotoIsSetLocal DEF ReplaceBlock, Goto, lru
<1>2. \A k \in Keys : key_index[k] # loc[t].id
  BY <1>1 DEF IndexInv, Replaced
<1>3. CASE loc[t].id \in blocks
  <2>1. Harmless(t, loc[t])
    BY HarmlessLocals
  <2>2. PICK b \in blocks : b = loc[t].id
    BY <1>3
  <2> QED BY <1>1, <1>2, <1>3, <2>1, <2>2, BlockGoes DEF InsertPoints
<1>4. CASE loc[t].id \notin blocks
  <2>1. SetLocal(t, "evict_check", loc[t]) /\ UNCHANGED blocks
    BY <1>1, <1>4
  <2>2. "evict_check" \in QuietPoints
    BY DEF QuietPoints, ProgramPoints, InsertPoints, ClearPoints
  <2>3. SameKeys
    BY <1>1 DEF SameKeys
  <2> QED BY <1>1, <2>1, <2>2, <2>3, IndexStill
<1> QED BY <1>3, <1>4

\* insert_dirty takes the index entry away before it takes the block away.
LEMMA IndexInsertCall ==
  ASSUME IndexInv, RefsInv', NEW t \in Threads, NEW k \in InodeKeys, NEW n,
         Insert(t, k, n)
  PROVE  IndexInv'
<1> DEFINE l == [NoLocals EXCEPT !.key = k, !.size = n, !.id = key_index[k]]
           to == IF key_index[k] = NoBlock THEN "evict_check" ELSE "replace"
<1>0. RefsInv /\ TypeInv /\ ThreadTypes /\ PoolTypes /\ k \in Keys
  BY DEF IndexInv, RefsInv, TypeInv, InodeKeys, Keys
<1>1. /\ pc[t] = "idle" /\ SetLocal(t, to, l)
      /\ key_index' = [key_index EXCEPT ![k] = NoBlock]
      /\ UNCHANGED <<blocks, obj, lru_order>>
  BY DEF Insert, Call, lru
<1>2. l.id = key_index[k] /\ l.todo = {}
  BY DEF NoLocals
<1>3. Harmless(t, l)
  BY <1>0, <1>2, HarmlessLocals
<1>4. to \in {"evict_check", "replace"} /\ (to = "replace" => key_index[k] # NoBlock)
  OBVIOUS
<1> HIDE DEF l, to
<1>5. /\ \A u \in Threads : pc'[u] = IF u = t THEN to ELSE pc[u]
      /\ \A u \in Threads : loc'[u] = IF u = t THEN l ELSE loc[u]
  BY <1>0, <1>1 DEF SetLocal, ThreadTypes
<1>6. \A j \in Keys : key_index'[j] = IF j = k THEN NoBlock ELSE key_index[j]
  BY <1>0, <1>1 DEF PoolTypes
<1>7. NotClearing'
  BY <1>4, <1>5 DEF IndexInv, NotClearing, ClearPoints
<1>8. IndexKeys'
  BY <1>1, <1>6 DEF IndexInv, IndexKeys
<1>9. Inserting'
  <2> SUFFICES ASSUME NEW u \in Threads, pc'[u] \in InsertPoints
               PROVE  /\ obj[loc'[u].id].key = loc'[u].key
                      /\ pc'[u] = "insert_index" => loc'[u].id \in blocks
                      /\ InQueue(lru_order, loc'[u].id)
                      /\ Private(u)'
    BY <1>1 DEF Inserting, Queued
  <2>1. u # t /\ pc[u] \in InsertPoints /\ pc'[u] = pc[u] /\ loc'[u] = loc[u]
    BY <1>4, <1>5 DEF InsertPoints
  <2>2. loc[u].id # NoBlock
    BY <2>1, InsertIdKnown DEF InsertPoints, IdPoints, Ids, NoBlock
  <2>3. Private(u)
    BY <2>1 DEF IndexInv, Inserting
  <2>4. Private(u)'
    BY <1>2, <1>3, <1>5, <1>6, <2>1, <2>2, <2>3 DEF Private, Harmless
  <2> QED BY <2>1, <2>4 DEF IndexInv, Inserting, Queued
<1>10. Removed'
  BY <1>1, <1>4, <1>5 DEF IndexInv, Removed
<1>11. Replaced'
  <2> SUFFICES ASSUME NEW u \in Threads, pc'[u] = "replace", NEW j \in Keys
               PROVE  key_index'[j] # loc'[u].id
    BY DEF Replaced
  <2>1. CASE u = t
    <3>1. loc'[u].id = key_index[k] /\ key_index[k] # NoBlock
      BY <1>2, <1>4, <1>5, <2>1
    <3>2. obj[key_index[k]].key = k
      BY <1>0, <3>1 DEF IndexInv, IndexKeys
    <3>3. j # k => key_index[j] # key_index[k]
      BY <3>1, <3>2 DEF IndexInv, IndexKeys
    <3> QED BY <1>6, <3>1, <3>3
  <2>2. CASE u # t
    <3>1. pc[u] = "replace" /\ loc'[u] = loc[u] /\ loc[u].id # NoBlock
      BY <1>5, <2>2, InsertIdKnown DEF IdPoints, Ids, NoBlock
    <3> QED BY <1>6, <3>1 DEF IndexInv, Replaced
  <2> QED BY <2>1, <2>2
<1>12. NoDanglingIndex'
  <2> SUFFICES ASSUME NEW j \in Keys, key_index'[j] \notin blocks \cup {NoBlock}
               PROVE  \E u \in Threads : pc'[u] = "remove_index" /\ obj[loc'[u].id].key = j
    BY <1>1 DEF NoDanglingIndex
  <2>1. key_index'[j] = key_index[j]
    BY <1>6
  <2>2. PICK u \in Threads : pc[u] = "remove_index" /\ obj[loc[u].id].key = j
    BY <2>1 DEF IndexInv, NoDanglingIndex
  <2>3. u # t
    BY <1>1, <2>2
  <2> QED BY <1>5, <2>2, <2>3
<1>13. BlocksAreQueued'
  BY <1>1 DEF IndexInv, BlocksAreQueued
<1> QED BY <1>7, <1>8, <1>9, <1>10, <1>11, <1>12, <1>13 DEF IndexInv

LEMMA IndexInsert ==
  ASSUME IndexInv, NEW t \in Threads, InsertStep(t)
  PROVE  IndexInv'
<1>1. RefsInv'
  BY RefsInsert DEF IndexInv
<1> QED BY <1>1, IndexReplace, IndexAllocate, IndexInsertBlock, IndexInsertIndex
        DEF InsertStep

-----------------------------------------------------------------------------
(* The other steps leave the maps alone *)

LEMMA IndexDirty ==
  ASSUME IndexInv, NEW t \in Threads, DirtyStep(t) \/ Drop(t)
  PROVE  IndexInv'
<1>0. RefsInv' /\ RefsInv /\ TypeInv /\ ThreadTypes /\ PoolTypes
  BY RefsDirty, RefsClearDrop DEF IndexInv, RefsInv, TypeInv
<1>00. {"modify_write", "modify_size", "modify_flag", "get_acquire", "get_touch", "idle"}
         \subseteq QuietPoints
  BY DEF QuietPoints, ProgramPoints, InsertPoints, ClearPoints
<1>01. UNCHANGED obj => SameKeys
  BY DEF SameKeys
<1> USE <1>0, <1>00, <1>01
<1>1. ASSUME Return(t), UNCHANGED <<key_index, blocks, lru_order>>, SameKeys,
             pc[t] # "remove_index"
      PROVE  IndexInv'
  <2>1. SetLocal(t, "idle", NoLocals)
    BY <1>1 DEF Return, SetLocal
  <2> QED BY <1>1, <2>1, IndexForget
<1>2. CASE ModifyGet(t) \/ GetBlock(t)
  <2>1. UNCHANGED <<obj, key_index, blocks, lru_order>> /\ pc[t] \in {"modify_get", "get_block"}
    BY <1>2 DEF ModifyGet, GetBlock, maps, lru
  <2>2. \/ Return(t)
        \/ /\ UNCHANGED loc
           /\ Goto(t, "modify_get", "modify_write") \/ Goto(t, "get_block", "get_acquire")
    BY <1>2 DEF ModifyGet, GetBlock
  <2> QED BY <1>1, <2>1, <2>2, IndexGoto
<1>3. ASSUME NEW n \in DirtySizes, ModifyWrite(t, n) PROVE IndexInv'
  <2> DEFINE l == [loc[t] EXCEPT !.old = obj[loc[t].id].size, !.size = n]
             to == IF n = obj[loc[t].id].size THEN "modify_flag" ELSE "modify_size"
  <2>1. /\ pc[t] = "modify_write" /\ SetLocal(t, to, l)
        /\ UNCHANGED <<key_index, blocks, lru_order>>
    BY <1>3 DEF ModifyWrite, maps, lru
  <2>2. SameKeys
    BY <1>3 DEF ModifyWrite, SameKeys, PoolTypes, Objects
  <2>3. l.id = loc[t].id /\ l.todo = loc[t].todo
    BY DEF ThreadTypes, Locals
  <2>4. to \in QuietPoints
    OBVIOUS
  <2> HIDE DEF l, to
  <2> QED BY <2>1, <2>2, <2>3, <2>4, IndexStill
<1>4. CASE ModifySize(t)
  BY <1>4, IndexGoto DEF ModifySize, maps
<1>5. CASE ModifyFlag(t)
  <2>1. SameKeys
    BY <1>5 DEF ModifyFlag, SameKeys, PoolTypes, Objects
  <2> QED BY <1>5, <1>1, <2>1 DEF ModifyFlag, maps, lru
<1>6. CASE GetAcquire(t)
  <2>1. SameKeys
    BY <1>6, AddRefKeys DEF GetAcquire
  <2> QED BY <1>6, <2>1, IndexGoto DEF GetAcquire, maps, lru
<1>7. CASE GetTouch(t)
  <2>1. SetLocal(t, "holding", NoLocals) /\ pc[t] = "get_touch"
        /\ UNCHANGED <<key_index, blocks, obj>>
    BY <1>7 DEF GetTouch, ReturnHandle, SetLocal, maps
  <2>2. loc[t].id \in Ids
    BY <2>1, InsertIdKnown DEF IdPoints
  <2>3. \A c \in Ids : Queued(c) => Queued(c)'
    BY <1>7, <2>2, TouchQueue DEF GetTouch, Touch
  <2>4. \A c \in blocks : Queued(c)'
    BY <2>3 DEF IndexInv, BlocksAreQueued, Queued, InQueue, PoolTypes
  <2>5. \A u \in Threads : pc[u] \in InsertPoints =>
          \E i \in 1 .. Len(lru_order') : lru_order'[i] = loc[u].id
    BY <2>3, InsertIdKnown DEF IndexInv, Inserting, Queued, InQueue, InsertPoints, IdPoints
  <2>6. Harmless(t, NoLocals)
    <3>1. NoLocals.id = NoBlock /\ NoLocals.todo = {}
      BY DEF NoLocals
    <3> QED BY <3>1, HarmlessLocals
  <2>7. "holding" \notin InsertPoints \cup ClearPoints
                           \cup {"remove_index", "remove_lru", "replace"}
    BY DEF InsertPoints, ClearPoints
  <2> QED BY <2>1, <2>4, <2>5, <2>6, <2>7, IndexQuiet
<1>8. CASE Drop(t)
  <2>1. /\ pc[t] = "holding" /\ SetLocal(t, "idle", loc[t])
        /\ UNCHANGED <<key_index, blocks, lru_order>>
    BY <1>8 DEF Drop, SetLocal, ThreadTypes, maps, lru
  <2>2. SameKeys
    BY <1>8 DEF Drop, SameKeys, PoolTypes, Objects
  <2> QED BY <2>1, <2>2, IndexStill
<1> QED BY <1>2, <1>3, <1>4, <1>5, <1>6, <1>7, <1>8 DEF DirtyStep

LEMMA IndexBegin ==
  ASSUME IndexInv, NEW t \in Threads, Begin(t), ~Clear(t)
  PROVE  IndexInv'
<1>0. RefsInv' /\ RefsInv /\ TypeInv /\ ThreadTypes /\ PoolTypes
  BY RefsBegin DEF IndexInv, RefsInv, TypeInv
<1>00. {"modify_get", "get_block", "bulk", "idle"} \subseteq QuietPoints
  BY DEF QuietPoints, ProgramPoints, InsertPoints, ClearPoints
<1>01. UNCHANGED obj => SameKeys
  BY DEF SameKeys
<1>02. InodeKeys \subseteq Keys
  BY DEF InodeKeys, Keys
<1>1. ASSUME NEW k \in Keys, Modify(t, k) \/ Get(t, k) PROVE IndexInv'
  <2> DEFINE l == [NoLocals EXCEPT !.key = k, !.id = key_index[k]]
  <2>1. l.id = key_index[k] /\ l.todo = {}
    BY DEF NoLocals
  <2>2. PICK to \in {"modify_get", "get_block"} : SetLocal(t, to, l)
    BY <1>1 DEF Modify, Get
  <2>3. pc[t] = "idle" /\ UNCHANGED <<key_index, blocks, obj, lru_order>>
    BY <1>1 DEF Modify, Get, Call, maps, lru
  <2> HIDE DEF l
  <2> QED BY <1>0, <1>00, <1>01, <2>1, <2>2, <2>3, IndexStill
<1>2. ASSUME NEW op, NEW k, NEW flag, SetFlush(t, op, k, flag) PROVE IndexInv'
  <2>1. SameKeys
    BY <1>0, <1>2 DEF SetFlush, SameKeys, PoolTypes, Objects
  <2>2. /\ pc[t] = "idle" /\ SetLocal(t, "idle", loc[t])
        /\ UNCHANGED <<key_index, blocks, lru_order>>
    BY <1>0, <1>2 DEF SetFlush, Call, SetLocal, ThreadTypes, maps, lru
  <2> QED BY <1>0, <1>00, <2>1, <2>2, IndexStill
<1>3. ASSUME NEW c \in InodeIds \cup HashIds, RemoveInode(t, c) \/ InvalidateHash(t, c)
      PROVE  IndexInv'
  <2>1. \A d \in Chunks : <<c, d>> \in Keys
    BY <1>3 DEF Keys
  <2>2. PICK todo : /\ SetLocal(t, "bulk", [NoLocals EXCEPT !.bulk = TRUE, !.todo = todo])
                    /\ todo \subseteq {key_index[<<c, d>>] : d \in Chunks}
    <3>1. CASE RemoveInode(t, c)
      BY <3>1 DEF RemoveInode
    <3>2. CASE InvalidateHash(t, c)
      BY <3>2 DEF InvalidateHash
    <3> QED BY <1>3, <3>1, <3>2
  <2> DEFINE l == [NoLocals EXCEPT !.bulk = TRUE, !.todo = todo]
  <2>3. l.id = NoBlock /\ l.todo = todo
    BY DEF NoLocals
  <2>4. \A b \in todo : \E k \in Keys : b = key_index[k]
    BY <2>1, <2>2
  <2>5. pc[t] = "idle" /\ UNCHANGED <<key_index, blocks, obj, lru_order>>
    BY <1>3 DEF RemoveInode, InvalidateHash, Call, maps, lru
  <2>6. SetLocal(t, "bulk", l)
    BY <2>2
  <2> HIDE DEF l
  <2> QED BY <1>0, <1>00, <1>01, <2>3, <2>4, <2>5, <2>6, IndexStill
<1> QED BY <1>0, <1>02, <1>1, <1>2, <1>3, IndexAcquire, IndexInsertCall
        DEF Begin, MarkFlushed, MarkNeedsFlush

\* A step of a thread that does not call clear.
LEMMA IndexStep ==
  ASSUME IndexInv, NEW t \in Threads, Begin(t) \/ Step(t) \/ Cancel(t), ~Clear(t)
  PROVE  IndexInv'
<1>1. ~ClearStep(t)
  BY DEF ClearStep, ClearBlocks, ClearIndex, ClearLru, Goto, IndexInv, NotClearing,
         ClearPoints
<1> QED BY <1>1, IndexAcquire, IndexEvict, IndexRemove, IndexInsert, IndexDirty,
           IndexBegin DEF Step

LEMMA IndexStutter == IndexInv /\ UNCHANGED vars => IndexInv'
<1> SUFFICES ASSUME IndexInv, UNCHANGED vars PROVE IndexInv'
  OBVIOUS
<1>1. RefsInv'
  BY RefsNext DEF IndexInv
<1> QED BY <1>1
        DEF IndexInv, NotClearing, IndexKeys, Inserting, Private, Queued, Removed,
            Replaced, NoDanglingIndex, BlocksAreQueued, vars

LEMMA IndexNext == "clear" \notin Ops /\ IndexInv /\ [Next]_vars => IndexInv'
<1> SUFFICES ASSUME "clear" \notin Ops, IndexInv, [Next]_vars PROVE IndexInv'
  OBVIOUS
<1>1. \A t \in Threads : ~Clear(t)
  BY DEF Clear, Call
<1> QED BY <1>1, IndexStep, IndexStutter DEF Next, AllIdle

\* An index entry whose block is gone is about to be removed, for any number
\* of callers, if none of them calls clear (only the repository's tests do).
THEOREM IndexCorrect ==
  ASSUME "clear" \notin Ops
  PROVE  Spec => []NoDanglingIndex
<1>1. IndexInv => NoDanglingIndex
  BY DEF IndexInv
<1>2. IndexInv /\ [Next]_vars => IndexInv'
  BY IndexNext
<1> QED BY <1>1, <1>2, IndexInit, PTL DEF Spec

\* Every block of the pool can be reached by eviction, under the same condition.
THEOREM QueueCorrect ==
  ASSUME "clear" \notin Ops
  PROVE  Spec => []BlocksAreQueued
<1>1. IndexInv => BlocksAreQueued
  BY DEF IndexInv
<1>2. IndexInv /\ [Next]_vars => IndexInv'
  BY IndexNext
<1> QED BY <1>1, <1>2, IndexInit, PTL DEF Spec

-----------------------------------------------------------------------------
(* Sums of lengths *)

\* The bytes of some blocks, one by one: their number is the blocks' length.
Units(o, B) == {u \in B \X Nat : u[2] \in 1 .. o[u[1]].size}
Total(o, B) == Cardinality(Units(o, B))

\* The ids are finitely many.
LEMMA BlocksFinite ==
  ASSUME NEW B \in SUBSET Ids
  PROVE  IsFiniteSet(B)
<1>1. IsFiniteSet(1 .. MaxBlocks)
  BY PoolAssumption, FS_Interval
<1> QED
  BY <1>1, FS_Subset DEF Ids

\* The bytes of one block.
LEMMA OwnUnits ==
  ASSUME NEW b, NEW n \in Nat
  PROVE  IsFiniteSet({b} \X (1 .. n)) /\ Cardinality({b} \X (1 .. n)) = n
<1>1. IsFiniteSet(1 .. n) /\ Cardinality(1 .. n) = n
  BY FS_Interval
<1>2. IsFiniteSet({b}) /\ Cardinality({b}) = 1
  BY FS_Singleton
<1> QED
  BY <1>1, <1>2, FS_Product

\* The units of some blocks are finitely many.
LEMMA UnitsFinite ==
  ASSUME NEW o \in [Ids -> Objects], NEW B \in SUBSET Ids
  PROVE  IsFiniteSet(Units(o, B)) /\ Total(o, B) \in Nat
<1> DEFINE unit == [b \in B |-> {b} \X (1 .. o[b].size)]
           all == {unit[b] : b \in B}
<1>1. IsFiniteSet(B)
  BY BlocksFinite
<1>2. unit \in Surjection(B, all)
  BY DEF Surjection
<1>3. IsFiniteSet(all)
  BY <1>1, <1>2, FS_Surjection
<1>4. \A T \in all : IsFiniteSet(T)
  <2> SUFFICES ASSUME NEW b \in B PROVE IsFiniteSet({b} \X (1 .. o[b].size))
    OBVIOUS
  <2>1. o[b].size \in Nat
    BY DEF Objects
  <2> QED
    BY <2>1, OwnUnits
<1>5. IsFiniteSet(UNION all)
  <2> HIDE DEF all
  <2> QED
    BY <1>3, <1>4, FS_UNION
<1>6. Units(o, B) \subseteq UNION all
  BY DEF Units
<1>7. IsFiniteSet(Units(o, B))
  <2> HIDE DEF all
  <2> QED
    BY <1>5, <1>6, FS_Subset
<1> QED
  BY <1>7, FS_CardinalityType DEF Total

\* No blocks have no units.
LEMMA TotalEmpty ==
  ASSUME NEW o
  PROVE  Total(o, {}) = 0
<1>1. Units(o, {}) = {}
  BY DEF Units
<1> QED
  BY <1>1, FS_EmptySet DEF Total

\* One block less is its length less.
LEMMA TotalTake ==
  ASSUME NEW o \in [Ids -> Objects], NEW B \in SUBSET Ids, NEW b \in B
  PROVE  Total(o, B) = Total(o, B \ {b}) + o[b].size
<1> DEFINE own == {b} \X (1 .. o[b].size)
<1>1. o[b].size \in Nat
  BY DEF Objects
<1>2. IsFiniteSet(own) /\ Cardinality(own) = o[b].size
  BY <1>1, OwnUnits
<1>3. Units(o, B) = Units(o, B \ {b}) \cup own
  BY <1>1 DEF Units
<1>4. Units(o, B \ {b}) \cap own = {}
  BY DEF Units
<1>5. IsFiniteSet(Units(o, B \ {b})) /\ Cardinality(Units(o, B \ {b})) \in Nat
  BY UnitsFinite DEF Total
<1> HIDE DEF own
<1>6. Cardinality(Units(o, B \ {b}) \cup own)
        = Cardinality(Units(o, B \ {b})) + Cardinality(own) - Cardinality(Units(o, B \ {b}) \cap own)
  BY <1>2, <1>5, FS_Union
<1>7. Cardinality(Units(o, B \ {b}) \cup own) = Cardinality(Units(o, B \ {b})) + Cardinality(own)
  <2>1. Cardinality(Units(o, B \ {b}) \cap own) = 0
    BY <1>4, FS_EmptySet
  <2> QED
    BY <1>1, <1>2, <1>5, <1>6, <2>1
<1> QED
  BY <1>1, <1>2, <1>3, <1>5, <1>7 DEF Total

\* The total depends on the lengths of the blocks alone.
LEMMA TotalSame ==
  ASSUME NEW o, NEW p, NEW B, \A b \in B : o[b].size = p[b].size
  PROVE  Total(o, B) = Total(p, B)
BY DEF Total, Units

\* What the fold over the blocks computes.
LEMMA SizeIsTotal ==
  ASSUME TypeInv, NEW B \in SUBSET Ids
  PROVE  SizeOf(B) = Total(obj, B)
<1> DEFINE pick(s) == CHOOSE x \in s : TRUE
           NextSum(g, s) == IF s = {} THEN 0 ELSE obj[pick(s)].size + g[s \ {pick(s)}]
           IsSum(g) == g = [s \in SUBSET B |-> NextSum(g, s)]
           sum == CHOOSE g : IsSum(g)
           solution == [s \in SUBSET B |-> Total(obj, s)]
<1>1. SizeOf(B) = sum[B]
  BY DEF SizeOf, MapThenSumSet, MapThenFoldSet
<1>2. ASSUME NEW s \in SUBSET B, s # {}
      PROVE  pick(s) \in s /\ Total(obj, s) = obj[pick(s)].size + Total(obj, s \ {pick(s)})
  <2>1. PICK b : b = pick(s)
    OBVIOUS
  <2>2. b \in s
    BY <1>2, <2>1
  <2> HIDE DEF pick
  <2>3. obj \in [Ids -> Objects] /\ s \in SUBSET Ids /\ s \ {b} \in SUBSET Ids /\ b \in Ids
    BY <2>2 DEF TypeInv, PoolTypes
  <2>4. Total(obj, s) = Total(obj, s \ {b}) + obj[b].size
    BY <2>2, <2>3, TotalTake
  <2>5. obj[b].size \in Nat /\ Total(obj, s \ {b}) \in Nat
    BY <2>3, UnitsFinite DEF Objects
  <2>6. Total(obj, s) = obj[b].size + Total(obj, s \ {b})
    BY <2>4, <2>5
  <2> QED
    BY <2>1, <2>2, <2>6, Zenon
<1>3. IsSum(solution)
  <2>1. ASSUME NEW s \in SUBSET B PROVE Total(obj, s) = NextSum(solution, s)
    <3>1. CASE s = {}
      BY <3>1, TotalEmpty
    <3>2. CASE s # {}
      <4>1. s \ {pick(s)} \in SUBSET B
        OBVIOUS
      <4>2. solution[s \ {pick(s)}] = Total(obj, s \ {pick(s)})
        BY <4>1
      <4> QED
        BY <1>2, <3>2, <4>2
    <3> QED
      BY <3>1, <3>2
  <2> QED
    BY <2>1
<1>4. IsSum(sum)
  <2> HIDE DEF IsSum
  <2> QED
    BY <1>3
<1>5. \A s \in SUBSET B : sum[s] = NextSum(sum, s)
  <2> HIDE DEF sum
  <2> QED
    BY <1>4
<1> HIDE DEF sum
<1> DEFINE bad == {s \in SUBSET B : sum[s] # Total(obj, s)}
<1>6. ASSUME bad # {} PROVE FALSE
  <2>1. IsFiniteSet(B)
    BY BlocksFinite
  <2>2. FiniteSubsetsOf(B) = SUBSET B
    BY <2>1, FS_FiniteSubsetsOfFinite
  <2>3. IsWellFoundedOn(StrictSubsetOrdering(B), SUBSET B)
    BY <2>2, FS_StrictSubsetOrderingWellFounded
  <2>4. PICK s \in bad : \A r \in bad : ~(<<r, s>> \in StrictSubsetOrdering(B))
    <3>1. bad \subseteq SUBSET B
      OBVIOUS
    <3> HIDE DEF bad
    <3> QED
      BY <1>6, <2>3, <3>1, WFMin
  <2>5. s # {}
    BY <1>5, TotalEmpty
  <2> DEFINE rest == s \ {pick(s)}
  <2>6. pick(s) \in s /\ Total(obj, s) = obj[pick(s)].size + Total(obj, rest)
    BY <1>2, <2>5
  <2>7. rest \notin bad
    <3>1. rest \in SUBSET B /\ rest \subseteq s /\ rest # s
      BY <2>6
    <3>2. <<rest, s>> \in StrictSubsetOrdering(B)
      BY <3>1 DEF StrictSubsetOrdering
    <3> QED
      BY <2>4, <3>2
  <2>8. sum[s] = obj[pick(s)].size + sum[rest]
    BY <1>5, <2>5
  <2>9. sum[rest] = Total(obj, rest)
    BY <2>7
  <2> QED
    BY <2>6, <2>8, <2>9
<1>7. B \notin bad
  BY <1>6
<1> QED
  BY <1>1, <1>7

-----------------------------------------------------------------------------
(* What is charged *)

OwedPoints   == {"insert_block", "remove_index", "remove_lru"}
ModifyPoints == {"modify_get", "modify_write", "modify_size", "modify_flag"}

\* The blocks whose lengths are charged.
Charged == blocks \cup At(OwedPoints)

\* A block that is allocated and not inserted, or removed and not discounted, is
\* one thread's, and not in the pool.
OwedApart ==
  /\ \A t \in Threads : pc[t] \in OwedPoints => loc[t].id \notin blocks
  /\ \A t \in Threads : \A u \in Threads \ {t} :
       pc[t] \in OwedPoints /\ pc[u] \in OwedPoints => loc[t].id # loc[u].id

NobodyModifies == \A t \in Threads : pc[t] \notin ModifyPoints

ChargeInv ==
  /\ IndexInv
  /\ NobodyModifies
  /\ OwedApart
  /\ current_size = Total(obj, Charged)

\* Types that the lemmas below need.
LEMMA ChargeFacts ==
  ASSUME IndexInv
  PROVE  /\ TypeInv /\ obj \in [Ids -> Objects] /\ Charged \in SUBSET Ids
         /\ \A b \in Ids : obj[b].size \in Nat
         /\ \A t \in Threads : pc[t] \in OwedPoints => loc[t].id \in Ids
<1>1. TypeInv /\ obj \in [Ids -> Objects] /\ blocks \subseteq Ids
  BY DEF IndexInv, RefsInv, TypeInv, PoolTypes
<1>2. \A t \in Threads : pc[t] \in OwedPoints => loc[t].id \in Ids
  BY <1>1 DEF TypeInv, ThreadTypes, LocalsKnown, Knows, OwedPoints, IdPoints
<1>3. \A b \in Ids : obj[b].size \in Nat
  BY <1>1 DEF Objects
<1> QED
  BY <1>1, <1>2, <1>3 DEF Charged, At

\* The units of the charged blocks are the sum of ChargedExactly.
LEMMA ChargeMeans ==
  ASSUME ChargeInv
  PROVE  ChargedExactly
<1>1. TypeInv /\ Charged \in SUBSET Ids
  BY ChargeFacts DEF ChargeInv
<1> QED
  BY <1>1, SizeIsTotal DEF ChargeInv, ChargedExactly, Charged, OwedPoints

\* The locals of the threads but t stay.
OthersStay(t) == \A u \in Threads \ {t} : pc'[u] = pc[u] /\ loc'[u] = loc[u]

SameSizes == \A b \in Ids : obj'[b].size = obj[b].size

\* A step of thread t that charges nothing.
Eases(t) ==
  OthersStay(t) /\ SameSizes /\ Charged' \subseteq Charged /\ current_size' <= current_size

\* A step that leaves the charged blocks and their lengths alone.
LEMMA ChargeSame ==
  ASSUME ChargeInv, IndexInv', NobodyModifies', OwedApart', NEW t, OthersStay(t),
         Charged' = Charged, SameSizes, current_size' = current_size
  PROVE  ChargeInv' /\ Eases(t)
<1>1. Charged \in SUBSET Ids
  BY ChargeFacts DEF ChargeInv
<1>2. Total(obj', Charged) = Total(obj, Charged)
  BY <1>1, TotalSame DEF SameSizes
<1>3. current_size' = Total(obj', Charged')
  BY <1>2 DEF ChargeInv
<1>4. current_size \in Nat
  BY DEF ChargeInv, IndexInv, RefsInv, TypeInv, PoolTypes
<1> QED
  BY <1>3, <1>4 DEF ChargeInv, Eases

\* A step of a thread that neither owes nor comes to owe anything.
LEMMA ChargeStill ==
  ASSUME ChargeInv, IndexInv', NEW t \in Threads, OthersStay(t),
         pc[t] \notin OwedPoints, pc'[t] \notin OwedPoints \cup ModifyPoints,
         blocks' = blocks, current_size' = current_size, SameSizes
  PROVE  ChargeInv' /\ Eases(t)
<1>1. Charged' = Charged
  BY DEF Charged, At, OthersStay
<1>2. NobodyModifies'
  BY DEF ChargeInv, NobodyModifies, OthersStay
<1>3. OwedApart'
  BY DEF ChargeInv, OwedApart, OthersStay
<1> QED
  BY <1>1, <1>2, <1>3, ChargeSame

\* A thread that makes its next step with the locals l.
LEMMA ChargeMoves ==
  ASSUME ChargeInv, IndexInv', NEW t \in Threads, NEW to, NEW l, SetLocal(t, to, l),
         pc[t] \notin OwedPoints, to \notin OwedPoints \cup ModifyPoints,
         blocks' = blocks, current_size' = current_size, SameSizes
  PROVE  ChargeInv' /\ Eases(t)
<1>1. OthersStay(t) /\ pc'[t] = to
  BY DEF SetLocal, OthersStay, ChargeInv, IndexInv, RefsInv, TypeInv, ThreadTypes
<1> QED
  BY <1>1, ChargeStill

\* A thread that moves on with its locals.
LEMMA ChargeGoto ==
  ASSUME ChargeInv, IndexInv', NEW t \in Threads, NEW from, NEW to, Goto(t, from, to),
         UNCHANGED loc,
         from \notin OwedPoints, to \notin OwedPoints \cup ModifyPoints,
         blocks' = blocks, current_size' = current_size, SameSizes
  PROVE  ChargeInv' /\ Eases(t)
<1>1. OthersStay(t) /\ pc'[t] = to /\ pc[t] = from
  BY DEF Goto, OthersStay, ChargeInv, IndexInv, RefsInv, TypeInv, ThreadTypes
<1> QED
  BY <1>1, ChargeStill

\* A thread that returns.
LEMMA ChargeReturn ==
  ASSUME ChargeInv, IndexInv', NEW t \in Threads,
         Return(t) \/ \E b : ReturnHandle(t, b), pc[t] \notin OwedPoints,
         blocks' = blocks, current_size' = current_size, SameSizes
  PROVE  ChargeInv' /\ Eases(t)
<1>1. OthersStay(t) /\ pc'[t] \in {"idle", "holding"}
  BY DEF Return, ReturnHandle, OthersStay, ChargeInv, IndexInv, RefsInv, TypeInv, ThreadTypes
<1> QED
  BY <1>1, ChargeStill DEF OwedPoints, ModifyPoints

\* Counting a reference changes no length.
LEMMA AddRefSizes ==
  ASSUME IndexInv, NEW b, AddRef(b)
  PROVE  SameSizes
BY ChargeFacts DEF AddRef, SameSizes, Objects

\* acquire, up to the search for space, and its cancellation.
LEMMA ChargeAcquire ==
  ASSUME ChargeInv, IndexInv', NEW t \in Threads,
         \/ \E k \in HashKeys : AcquireHit(t, k) \/ AcquireMiss(t, k)
         \/ AcquireStep(t)
         \/ Cancel(t)
  PROVE  ChargeInv' /\ Eases(t)
<1> USE DEF OwedPoints, ModifyPoints, maps, lru
<1>0. UNCHANGED obj => SameSizes
  BY DEF SameSizes
<1>1. ASSUME NEW k \in HashKeys, AcquireHit(t, k) PROVE ChargeInv' /\ Eases(t)
  BY <1>1, AddRefSizes, ChargeReturn DEF AcquireHit, Call, ChargeInv
<1>2. ASSUME NEW k \in HashKeys, AcquireMiss(t, k) PROVE ChargeInv' /\ Eases(t)
  BY <1>0, <1>2, ChargeMoves DEF AcquireMiss, Call, ChargeInv
<1>3. ASSUME NEW from \in {"acquire_pending", "start_pending"}, AwaitOther(t, from)
      PROVE  ChargeInv' /\ Eases(t)
  BY <1>0, <1>3, ChargeMoves DEF AwaitOther, ChargeInv
<1>4. CASE AcquireNoPending(t) \/ StartLookupMiss(t) \/ StartNoPending(t)
  BY <1>0, <1>4, ChargeGoto DEF AcquireNoPending, StartLookupMiss, StartNoPending, ChargeInv
<1>5. ASSUME NEW from, from \notin OwedPoints, LookupHit(t, from) PROVE ChargeInv' /\ Eases(t)
  BY <1>5, AddRefSizes, ChargeReturn DEF LookupHit, ChargeInv
<1>6. CASE Register(t)
  BY <1>0, <1>6, ChargeMoves DEF Register, ChargeInv
<1>7. ASSUME NEW result, FetchReturn(t, result) PROVE ChargeInv' /\ Eases(t)
  BY <1>0, <1>7, ChargeGoto DEF FetchReturn, ChargeInv
<1>8. CASE CompleteRemovePending(t)
  BY <1>0, <1>8, ChargeGoto, ChargeReturn DEF CompleteRemovePending, ChargeInv
<1>9. CASE CompleteLookupMiss(t)
  BY <1>0, <1>9, ChargeMoves DEF CompleteLookupMiss, ChargeInv
<1>10. CASE WaiterError(t) \/ WaiterMiss(t) \/ Cancel(t)
  BY <1>0, <1>10, ChargeReturn DEF WaiterError, WaiterMiss, Cancel, ChargeInv
<1> QED
  BY <1>1, <1>2, <1>3, <1>4, <1>5, <1>6, <1>7, <1>8, <1>9, <1>10 DEF AcquireStep, WaiterHit

\* The search for space.
LEMMA ChargeEvict ==
  ASSUME ChargeInv, IndexInv', NEW t \in Threads, EvictStep(t)
  PROVE  ChargeInv' /\ Eases(t)
<1> USE DEF OwedPoints, ModifyPoints, maps, lru
<1>0. UNCHANGED obj => SameSizes
  BY DEF SameSizes
<1>1. CASE EvictNotNeeded(t) \/ EvictNeeded(t) \/ EvictNone(t) \/ EvictEmptyPool(t)
  BY <1>0, <1>1, ChargeGoto
  DEF EvictNotNeeded, EvictNeeded, EvictNone, EvictEmptyPool, ChargeInv
<1>2. CASE EvictPick(t)
  BY <1>0, <1>2, ChargeMoves DEF EvictPick, ChargeInv
<1>3. CASE EvictExhausted(t)
  BY <1>0, <1>3, ChargeReturn DEF EvictExhausted, ChargeInv
<1> QED
  BY <1>1, <1>2, <1>3 DEF EvictStep

\* The id of a block on its way in or out is known to be such.
LEMMA OwedIds ==
  ASSUME ChargeInv, NEW t \in Threads, pc[t] \in OwedPoints
  PROVE  /\ loc[t].id \in Ids \ blocks /\ loc[t].id \in Charged
         /\ \A u \in Threads \ {t} : pc[u] \in OwedPoints => loc[u].id # loc[t].id
BY ChargeFacts DEF ChargeInv, OwedApart, Charged, At

\* A thread takes a block out of the pool, and owes its length.
LEMMA ChargeLeaves ==
  ASSUME ChargeInv, IndexInv', NEW t \in Threads, NEW b \in blocks, OthersStay(t),
         pc[t] \notin OwedPoints, pc'[t] \in {"remove_index", "remove_lru"}, loc'[t].id = b,
         blocks' = blocks \ {b}, UNCHANGED <<obj, current_size>>
  PROVE  ChargeInv' /\ Eases(t)
<1>1. \A u \in Threads : pc[u] \in OwedPoints => loc[u].id \notin blocks
  BY DEF ChargeInv, OwedApart
<1>2. Charged' = Charged
  BY DEF Charged, At, OthersStay, OwedPoints
<1>3. NobodyModifies'
  BY DEF ChargeInv, NobodyModifies, OthersStay, ModifyPoints
<1>4. OwedApart'
  BY <1>1 DEF ChargeInv, OwedApart, OthersStay
<1> QED
  BY <1>2, <1>3, <1>4, ChargeSame DEF SameSizes

\* A block on its way in or out moves on.
LEMMA ChargeGoesOn ==
  ASSUME ChargeInv, IndexInv', NEW t \in Threads, OthersStay(t),
         pc[t] \in OwedPoints, pc'[t] \in OwedPoints, loc'[t].id = loc[t].id,
         blocks' = blocks, UNCHANGED <<obj, current_size>>
  PROVE  ChargeInv' /\ Eases(t)
<1>1. \A u \in Threads : pc'[u] \in OwedPoints <=> pc[u] \in OwedPoints
  BY DEF OthersStay
<1>2. \A u \in Threads : pc[u] \in OwedPoints => loc'[u].id = loc[u].id
  BY DEF OthersStay
<1>3. At(OwedPoints)' = At(OwedPoints)
  BY <1>1, <1>2 DEF At
<1>4. Charged' = Charged
  BY <1>3 DEF Charged
<1>5. NobodyModifies'
  BY DEF ChargeInv, NobodyModifies, OthersStay, ModifyPoints, OwedPoints
<1>6. OwedApart'
  BY <1>1, <1>2 DEF ChargeInv, OwedApart
<1> QED
  BY <1>4, <1>5, <1>6, ChargeSame DEF SameSizes

\* The length of a block that is gone is discounted.
LEMMA ChargeDiscounted ==
  ASSUME ChargeInv, IndexInv', NEW t \in Threads, OthersStay(t),
         pc[t] \in OwedPoints, pc'[t] \notin OwedPoints \cup ModifyPoints,
         blocks' = blocks, UNCHANGED obj,
         current_size' = SaturatingSub(current_size, obj[loc[t].id].size)
  PROVE  ChargeInv' /\ Eases(t)
<1> PICK b : b = loc[t].id
  OBVIOUS
<1>1. b \in Ids \ blocks /\ b \in Charged
      /\ \A u \in Threads \ {t} : pc[u] \in OwedPoints => loc[u].id # b
  BY OwedIds
<1>2. Charged' = Charged \ {b}
  <2>1. ASSUME NEW c \in Charged', c \notin Charged \ {b} PROVE FALSE
    BY <1>1, <2>1 DEF Charged, At, OthersStay
  <2>2. ASSUME NEW c \in Charged \ {b} PROVE c \in Charged'
    <3>1. CASE c \in blocks
      BY <3>1 DEF Charged
    <3>2. CASE c \notin blocks
      <4>1. PICK u \in Threads : pc[u] \in OwedPoints /\ c = loc[u].id
        BY <3>2 DEF Charged, At
      <4>2. u # t
        BY <4>1
      <4> QED
        BY <4>1, <4>2 DEF Charged, At, OthersStay
    <3> QED
      BY <3>1, <3>2
  <2> QED
    BY <2>1, <2>2
<1>3. /\ Charged \in SUBSET Ids /\ obj \in [Ids -> Objects] /\ obj[b].size \in Nat
      /\ current_size = Total(obj, Charged)
  BY <1>1, ChargeFacts DEF ChargeInv
<1>4. Charged \ {b} \in SUBSET Ids
  BY <1>3
<1>5. Total(obj, Charged) = Total(obj, Charged \ {b}) + obj[b].size
  BY <1>1, <1>3, TotalTake
<1>6. Total(obj, Charged \ {b}) \in Nat
  BY <1>3, <1>4, UnitsFinite
<1>7. current_size' = Total(obj, Charged \ {b})
  BY <1>3, <1>5, <1>6 DEF SaturatingSub
<1>8. current_size' = Total(obj', Charged')
  BY <1>2, <1>7
<1>9. NobodyModifies'
  BY DEF ChargeInv, NobodyModifies, OthersStay
<1>10. OwedApart'
  BY DEF ChargeInv, OwedApart, OthersStay
<1>11. Eases(t)
  BY <1>2, <1>3, <1>5, <1>6, <1>7 DEF Eases, SameSizes
<1> QED
  BY <1>8, <1>9, <1>10, <1>11 DEF ChargeInv

\* The removal of a block, step by step.
LEMMA ChargeRemove ==
  ASSUME ChargeInv, IndexInv', NEW t \in Threads, RemoveStep(t)
  PROVE  ChargeInv' /\ Eases(t)
<1> USE DEF OwedPoints, ModifyPoints, maps, lru
<1>0. /\ pc \in [Threads -> ProgramPoints] /\ loc \in [Threads -> Locals]
      /\ UNCHANGED obj => SameSizes
  BY DEF SameSizes, ChargeInv, IndexInv, RefsInv, TypeInv, ThreadTypes
<1>1. ASSUME NEW b \in Ids, RemoveFromBlocks(t, b) PROVE ChargeInv' /\ Eases(t)
  <2>1. /\ OthersStay(t) /\ pc[t] \notin OwedPoints /\ loc'[t].id = b
        /\ blocks' = blocks \ {b} /\ UNCHANGED <<obj, current_size>>
        /\ pc'[t] = IF b \in blocks THEN "remove_index"
                    ELSE IF loc[t].bulk THEN "bulk" ELSE "evict_check"
    BY <1>0, <1>1 DEF RemoveFromBlocks, OthersStay, Locals
  <2>2. CASE b \in blocks
    BY <2>1, <2>2, ChargeLeaves
  <2>3. CASE b \notin blocks
    <3>1. blocks' = blocks
      BY <2>1, <2>3
    <3> QED
      BY <1>0, <2>1, <2>3, <3>1, ChargeStill
  <2> QED
    BY <2>2, <2>3
<1>2. CASE RemoveFromIndex(t)
  BY <1>0, <1>2, ChargeGoesOn DEF RemoveFromIndex, Goto, OthersStay
<1>3. CASE RemoveFromLru(t)
  BY <1>0, <1>3, ChargeDiscounted DEF RemoveFromLru, Goto, OthersStay
<1>4. CASE BulkDone(t)
  BY <1>0, <1>4, ChargeReturn DEF BulkDone
<1> QED
  BY <1>1, <1>2, <1>3, <1>4 DEF RemoveStep

\* A block is allocated, and its length charged.
LEMMA ChargeAllocate ==
  ASSUME ChargeInv, IndexInv', NEW t \in Threads, Allocate(t)
  PROVE  ChargeInv'
<1> PICK b : b = next_id
  OBVIOUS
<1> PICK n : n = loc[t].size
  OBVIOUS
<1>1. /\ pc \in [Threads -> ProgramPoints] /\ loc \in [Threads -> Locals] /\ n \in Nat
      /\ obj \in [Ids -> Objects] /\ obj' \in [Ids -> Objects] /\ Charged \in SUBSET Ids
  BY ChargeFacts, FieldTypes
  DEF ChargeInv, IndexInv, RefsInv, TypeInv, ThreadTypes, PoolTypes
<1>2. /\ b \in Ids /\ pc[t] = "allocate" /\ pc'[t] = "insert_block" /\ loc'[t].id = b
      /\ OthersStay(t) /\ blocks' = blocks /\ current_size' = current_size + n
      /\ obj'[b].size = n /\ \A c \in Ids \ {b} : obj'[c] = obj[c]
  BY <1>1 DEF Allocate, SetLocal, OthersStay, Locals, maps, Objects
<1>3. /\ b \notin blocks
      /\ \A u \in Threads : loc[u].id # b
  <2>1. IdsAllocated /\ next_id \in Nat
    BY DEF ChargeInv, IndexInv, RefsInv, TypeInv, PoolTypes
  <2> QED
    BY <2>1 DEF IdsAllocated, Below
<1>4. b \notin Charged
  BY <1>3 DEF Charged, At
<1>5. Charged' = Charged \cup {b}
  <2>1. ASSUME NEW c \in Charged', c # b PROVE c \in Charged
    BY <1>2, <2>1 DEF Charged, At, OthersStay
  <2>2. ASSUME NEW c \in Charged PROVE c \in Charged'
    <3>1. CASE c \in blocks
      BY <1>2, <3>1 DEF Charged
    <3>2. CASE c \notin blocks
      <4>1. PICK u \in Threads : pc[u] \in OwedPoints /\ c = loc[u].id
        BY <3>2 DEF Charged, At
      <4>2. u # t
        BY <1>2, <4>1 DEF OwedPoints
      <4> QED
        BY <1>2, <4>1, <4>2 DEF Charged, At, OthersStay
    <3> QED
      BY <3>1, <3>2
  <2>3. b \in Charged'
    BY <1>2 DEF Charged, At, OwedPoints
  <2> QED
    BY <2>1, <2>2, <2>3
<1>6. Total(obj', Charged') = Total(obj', Charged) + n
  <2>1. Charged' \in SUBSET Ids /\ b \in Charged' /\ Charged' \ {b} = Charged
    BY <1>1, <1>2, <1>4, <1>5
  <2>2. Total(obj', Charged') = Total(obj', Charged' \ {b}) + obj'[b].size
    BY <1>1, <2>1, TotalTake
  <2> QED
    BY <1>2, <2>1, <2>2
<1>7. Total(obj', Charged) = Total(obj, Charged)
  <2>1. \A c \in Charged : obj'[c].size = obj[c].size
    BY <1>1, <1>2, <1>4
  <2> QED
    BY <2>1, TotalSame
<1>8. current_size' = Total(obj', Charged')
  BY <1>2, <1>6, <1>7 DEF ChargeInv
<1>9. NobodyModifies'
  BY <1>2 DEF ChargeInv, NobodyModifies, OthersStay, ModifyPoints
<1>10. OwedApart'
  <2>1. \A u \in Threads : pc'[u] \in OwedPoints => loc'[u].id \notin blocks'
    BY <1>2, <1>3 DEF ChargeInv, OwedApart, OthersStay
  <2>2. ASSUME NEW u \in Threads, NEW v \in Threads \ {u},
               pc'[u] \in OwedPoints, pc'[v] \in OwedPoints
        PROVE  loc'[u].id # loc'[v].id
    <3>1. CASE u = t
      BY <1>2, <1>3, <2>2, <3>1 DEF OthersStay
    <3>2. CASE v = t
      BY <1>2, <1>3, <2>2, <3>2 DEF OthersStay
    <3>3. CASE u # t /\ v # t
      BY <1>2, <2>2, <3>3 DEF OthersStay, ChargeInv, OwedApart
    <3> QED
      BY <3>1, <3>2, <3>3
  <2> QED
    BY <2>1, <2>2 DEF OwedApart
<1> QED
  BY <1>8, <1>9, <1>10 DEF ChargeInv

\* The insertion of a block, step by step.
LEMMA ChargeInsert ==
  ASSUME ChargeInv, IndexInv', NEW t \in Threads, InsertStep(t)
  PROVE  ChargeInv' /\ (Eases(t) \/ Allocate(t))
<1> USE DEF maps, lru
<1>0. /\ pc \in [Threads -> ProgramPoints] /\ loc \in [Threads -> Locals]
      /\ UNCHANGED obj => SameSizes
  BY DEF SameSizes, ChargeInv, IndexInv, RefsInv, TypeInv, ThreadTypes
<1>1. CASE ReplaceBlock(t)
  <2>1. /\ OthersStay(t) /\ pc[t] = "replace" /\ loc' = loc
        /\ blocks' = blocks \ {loc[t].id} /\ UNCHANGED <<obj, current_size>>
        /\ pc'[t] = IF loc[t].id \in blocks THEN "remove_lru" ELSE "evict_check"
    BY <1>0, <1>1 DEF ReplaceBlock, Goto, OthersStay
  <2>2. CASE loc[t].id \in blocks
    BY <2>1, <2>2, ChargeLeaves DEF OwedPoints
  <2>3. CASE loc[t].id \notin blocks
    <3>1. blocks' = blocks
      BY <2>1, <2>3
    <3> QED
      BY <1>0, <2>1, <2>3, <3>1, ChargeStill DEF OwedPoints, ModifyPoints
  <2> QED
    BY <2>2, <2>3
<1>2. CASE Allocate(t)
  BY <1>2, ChargeAllocate
<1>3. CASE InsertBlock(t)
  <2>1. /\ OthersStay(t) /\ pc[t] = "insert_block" /\ pc'[t] = "insert_index" /\ loc' = loc
        /\ blocks' = blocks \cup {loc[t].id} /\ UNCHANGED <<obj, current_size>>
    BY <1>0, <1>3 DEF InsertBlock, Goto, OthersStay
  <2>2. /\ loc[t].id \notin blocks
        /\ \A u \in Threads \ {t} : pc[u] \in OwedPoints => loc[u].id # loc[t].id
    BY <2>1, OwedIds DEF OwedPoints
  <2>3. Charged' = Charged
    <3>1. ASSUME NEW c \in Charged' PROVE c \in Charged
      BY <2>1, <3>1 DEF Charged, At, OthersStay, OwedPoints
    <3>2. ASSUME NEW c \in Charged PROVE c \in Charged'
      BY <2>1, <3>2 DEF Charged, At, OthersStay, OwedPoints
    <3> QED
      BY <3>1, <3>2
  <2>4. NobodyModifies'
    BY <2>1 DEF ChargeInv, NobodyModifies, OthersStay, ModifyPoints
  <2>5. OwedApart'
    BY <2>1, <2>2 DEF ChargeInv, OwedApart, OthersStay, OwedPoints
  <2> QED
    BY <1>0, <2>1, <2>3, <2>4, <2>5, ChargeSame
<1>4. CASE InsertIndex(t)
  BY <1>0, <1>4, ChargeReturn DEF InsertIndex, OwedPoints
<1> QED
  BY <1>1, <1>2, <1>3, <1>4 DEF InsertStep

\* get_dirty, try_get and the drop of a handle; nobody modifies.
LEMMA ChargeDirty ==
  ASSUME ChargeInv, IndexInv', NEW t \in Threads, DirtyStep(t) \/ Drop(t)
  PROVE  ChargeInv' /\ Eases(t)
<1> USE DEF maps, lru, OwedPoints
<1>0. /\ pc \in [Threads -> ProgramPoints] /\ loc \in [Threads -> Locals]
      /\ IndexInv
      /\ UNCHANGED obj => SameSizes
  BY DEF SameSizes, ChargeInv, IndexInv, RefsInv, TypeInv, ThreadTypes
<1>1. ~(ModifyGet(t) \/ (\E n \in DirtySizes : ModifyWrite(t, n)) \/ ModifySize(t) \/ ModifyFlag(t))
  BY DEF ModifyGet, ModifyWrite, ModifySize, ModifyFlag, Goto, ChargeInv, NobodyModifies,
         ModifyPoints
<1>2. CASE GetBlock(t)
  BY <1>0, <1>2, ChargeGoto, ChargeReturn DEF GetBlock, ModifyPoints
<1>3. CASE GetAcquire(t)
  BY <1>0, <1>3, AddRefSizes, ChargeGoto DEF GetAcquire, ModifyPoints, Goto
<1>4. CASE GetTouch(t)
  BY <1>0, <1>4, ChargeReturn DEF GetTouch
<1>5. CASE Drop(t)
  <2>1. SameSizes
    BY <1>5, ChargeFacts DEF Drop, SameSizes, Objects, ChargeInv
  <2>2. OthersStay(t) /\ pc[t] = "holding" /\ pc'[t] = "idle"
        /\ UNCHANGED <<blocks, current_size>>
    BY <1>0, <1>5 DEF Drop, OthersStay
  <2> QED
    BY <2>1, <2>2, ChargeStill DEF ModifyPoints
<1> QED
  BY <1>1, <1>2, <1>3, <1>4, <1>5 DEF DirtyStep

\* What a caller begins, but a modification.
LEMMA ChargeBegin ==
  ASSUME ChargeInv, IndexInv', NEW t \in Threads, Begin(t), \A k \in InodeKeys : ~Modify(t, k)
  PROVE  ChargeInv' /\ Eases(t)
<1> USE DEF maps, lru, OwedPoints, ModifyPoints
<1>0. /\ pc \in [Threads -> ProgramPoints] /\ loc \in [Threads -> Locals]
      /\ IndexInv
      /\ UNCHANGED obj => SameSizes
  BY DEF SameSizes, ChargeInv, IndexInv, RefsInv, TypeInv, ThreadTypes
<1>1. ASSUME NEW k, NEW n, Insert(t, k, n) PROVE ChargeInv' /\ Eases(t)
  <2>1. PICK to \in {"evict_check", "replace"} :
          SetLocal(t, to, [NoLocals EXCEPT !.key = k, !.size = n, !.id = key_index[k]])
    BY <1>1 DEF Insert
  <2>2. pc[t] = "idle" /\ UNCHANGED <<blocks, obj, current_size>>
    BY <1>1 DEF Insert, Call
  <2> QED
    BY <1>0, <2>1, <2>2, ChargeMoves
<1>2. ASSUME NEW op, NEW k, NEW flag, SetFlush(t, op, k, flag) PROVE ChargeInv' /\ Eases(t)
  <2>1. SameSizes
    BY <1>2, ChargeFacts DEF SetFlush, SameSizes, Objects, ChargeInv
  <2>2. OthersStay(t) /\ pc[t] = "idle" /\ pc'[t] = "idle" /\ UNCHANGED <<blocks, current_size>>
    BY <1>0, <1>2 DEF SetFlush, Call, OthersStay
  <2> QED
    BY <2>1, <2>2, ChargeStill
<1>3. ASSUME NEW k, Get(t, k) PROVE ChargeInv' /\ Eases(t)
  BY <1>0, <1>3, ChargeMoves DEF Get, Call
<1>4. ASSUME NEW c, RemoveInode(t, c) PROVE ChargeInv' /\ Eases(t)
  BY <1>0, <1>4, ChargeMoves DEF RemoveInode, Call
<1>5. ASSUME NEW c, InvalidateHash(t, c) PROVE ChargeInv' /\ Eases(t)
  BY <1>0, <1>5, ChargeMoves DEF InvalidateHash, Call
<1>6. ~Clear(t)
  BY <1>0 DEF Clear, SetLocal, IndexInv, NotClearing, ClearPoints
<1> QED
  BY <1>1, <1>2, <1>3, <1>4, <1>5, <1>6, ChargeAcquire DEF Begin, MarkFlushed, MarkNeedsFlush

-----------------------------------------------------------------------------
(* How far the pool outgrows its limit *)

RoomPoints == {"evict_check", "evict_scan", "evict_none", "remove", "allocate", "replace"}

\* A thread that makes room makes it for a chunk.  A removal that is not a bulk
\* removal goes back to make room.
SizeKnown(point, l) ==
  /\ point \in RoomPoints => l.size = ChunkSize
  /\ point \in {"remove_index", "remove_lru", "bulk"} => l.bulk \/ l.size = ChunkSize

Allocators == {t \in Threads : pc[t] = "allocate"}

\* Room for the chunks that are about to be allocated has been made, but for a
\* chunk of each other thread.
RoomMade ==
  current_size + Cardinality(Allocators) * ChunkSize
    <= MaxSize + (Cardinality(Threads) - 1) * ChunkSize

RoomInv ==
  /\ ChargeInv
  /\ \A t \in Threads : SizeKnown(pc[t], loc[t])
  /\ \A b \in Charged : obj[b].size = ChunkSize
  /\ RoomMade

\* What readers of hash keys begin.
ReadBegin(t) ==
  \/ \E k \in HashKeys : AcquireHit(t, k) \/ AcquireMiss(t, k) \/ Get(t, k)
  \/ \E h \in HashIds : InvalidateHash(t, h)

\* What a step of a reader does to its size, and to the allocators.
SizeStep(t) ==
  /\ SizeKnown(pc'[t], loc'[t])
  /\ pc'[t] = "allocate" => EvictNotNeeded(t) \/ EvictEmptyPool(t)
  /\ pc[t] = "allocate" => Allocate(t)

\* The chunks of no more threads than there are.
LEMMA AsManyChunks ==
  ASSUME NEW m \in Nat, NEW n \in Nat, m <= n
  PROVE  /\ m * ChunkSize \in Nat /\ m * ChunkSize <= n * ChunkSize
         /\ (m + 1) * ChunkSize = m * ChunkSize + ChunkSize
         /\ (n - 1) * ChunkSize = n * ChunkSize - ChunkSize
<1>0. ChunkSize \in Nat
  BY PoolAssumption
<1> PICK d \in Nat : n = m + d
  OBVIOUS
<1>1. m * ChunkSize \in Nat /\ d * ChunkSize \in Nat
  BY <1>0
<1>2. (m + d) * ChunkSize = m * ChunkSize + d * ChunkSize
  BY <1>0
<1> QED
  BY <1>0, <1>1, <1>2

\* Blocks of one length.
LEMMA TotalOfChunks ==
  ASSUME NEW o, NEW B \in SUBSET Ids, \A b \in B : o[b].size = ChunkSize
  PROVE  Total(o, B) = Cardinality(B) * ChunkSize
<1>1. ChunkSize \in Nat /\ IsFiniteSet(B)
  BY PoolAssumption, BlocksFinite
<1>2. IsFiniteSet(1 .. ChunkSize) /\ Cardinality(1 .. ChunkSize) = ChunkSize
  BY <1>1, FS_Interval
<1>3. Units(o, B) = B \X (1 .. ChunkSize)
  BY <1>1 DEF Units
<1>4. Cardinality(B \X (1 .. ChunkSize)) = Cardinality(B) * Cardinality(1 .. ChunkSize)
  BY <1>1, <1>2, FS_Product
<1> QED
  BY <1>2, <1>3, <1>4 DEF Total

\* Readers make room for chunks and nothing else.
LEMMA SizesOfSteps ==
  ASSUME ChargeInv, NEW t \in Threads, SizeKnown(pc[t], loc[t]),
         ReadBegin(t) \/ Step(t) \/ Cancel(t)
  PROVE  SizeStep(t)
<1>0. /\ pc \in [Threads -> ProgramPoints] /\ loc \in [Threads -> Locals]
      /\ loc[t] \in Locals
      /\ pc[t] \notin ModifyPoints /\ pc[t] \notin ClearPoints
  BY DEF ChargeInv, IndexInv, RefsInv, TypeInv, ThreadTypes, NobodyModifies, NotClearing
<1> USE <1>0 DEF SizeStep, SizeKnown, RoomPoints
<1>1. ASSUME ReadBegin(t) PROVE SizeStep(t)
  <2>1. NoLocals.bulk = FALSE /\ pc[t] = "idle"
    BY <1>1 DEF NoLocals, ReadBegin, AcquireHit, AcquireMiss, Get, InvalidateHash, Call
  <2>2. \/ pc'[t] \in {"holding", "acquire_pending", "get_block"}
        \/ pc'[t] = "bulk" /\ loc'[t].bulk
    BY <1>1 DEF ReadBegin, AcquireHit, AcquireMiss, Get, InvalidateHash, ReturnHandle, SetLocal, NoLocals
  <2> QED
    BY <2>1, <2>2
<1>2. ASSUME Cancel(t) PROVE SizeStep(t)
  BY <1>2 DEF Cancel, Return
<1>3. ASSUME AcquireStep(t) PROVE SizeStep(t)
  <2>1. pc[t] \notin RoomPoints \cup {"remove_index", "remove_lru", "bulk"}
    BY <1>3 DEF AcquireStep, AwaitOther, AcquireNoPending, LookupHit, StartLookupMiss,
                StartNoPending, Register, FetchReturn, CompleteRemovePending,
                CompleteLookupMiss, WaiterError, WaiterHit, WaiterMiss, Goto
  <2>2. CASE CompleteLookupMiss(t)
    BY <2>1, <2>2 DEF CompleteLookupMiss, SetLocal, Locals
  <2>3. CASE ~CompleteLookupMiss(t)
    <3>1. pc'[t] \notin RoomPoints \cup {"remove_index", "remove_lru", "bulk"}
      BY <1>3, <2>3 DEF AcquireStep, AwaitOther, AcquireNoPending, LookupHit, StartLookupMiss,
                  StartNoPending, Register, FetchReturn, CompleteRemovePending,
                  WaiterError, WaiterHit, WaiterMiss, Goto, SetLocal, Return, ReturnHandle
    <3> QED
      BY <2>1, <3>1
  <2> QED
    BY <2>2, <2>3
<1>4. ASSUME EvictStep(t) PROVE SizeStep(t)
  BY <1>4 DEF EvictStep, EvictNotNeeded, EvictNeeded, EvictPick, EvictNone, EvictEmptyPool,
              EvictExhausted, Goto, SetLocal, Return, Locals
<1>5. ASSUME RemoveStep(t) PROVE SizeStep(t)
  <2>1. ASSUME NEW b \in Ids, RemoveFromBlocks(t, b) PROVE SizeStep(t)
    <3>1. /\ loc'[t].size = loc[t].size /\ loc'[t].bulk = loc[t].bulk
          /\ pc[t] \in {"remove", "bulk"}
          /\ pc'[t] = IF b \in blocks THEN "remove_index"
                      ELSE IF loc[t].bulk THEN "bulk" ELSE "evict_check"
      BY <2>1 DEF RemoveFromBlocks, Locals
    <3> QED
      BY <3>1
  <2>2. CASE RemoveFromIndex(t) \/ RemoveFromLru(t)
    BY <2>2 DEF RemoveFromIndex, RemoveFromLru, Goto
  <2>3. CASE BulkDone(t)
    BY <2>3 DEF BulkDone, Return
  <2> QED
    BY <1>5, <2>1, <2>2, <2>3 DEF RemoveStep
<1>6. ASSUME InsertStep(t) PROVE SizeStep(t)
  <2>1. CASE Allocate(t)
    <3>1. pc'[t] = "insert_block"
      BY <2>1 DEF Allocate, SetLocal
    <3> QED
      BY <2>1, <3>1
  <2>2. CASE ReplaceBlock(t) \/ InsertBlock(t) \/ InsertIndex(t)
    BY <2>2 DEF ReplaceBlock, InsertBlock, InsertIndex, Goto, SetLocal, ReturnHandle, Locals
  <2> QED
    BY <1>6, <2>1, <2>2 DEF InsertStep
<1>7. ASSUME DirtyStep(t) \/ Drop(t) PROVE SizeStep(t)
  BY <1>7 DEF DirtyStep, ModifyGet, ModifyWrite, ModifySize, ModifyFlag, GetBlock, GetAcquire,
              GetTouch, Drop, Goto, SetLocal, Return, ReturnHandle, ModifyPoints
<1>8. ~ClearStep(t)
  BY DEF ClearStep, ClearBlocks, ClearIndex, ClearLru, Goto, ClearPoints
<1> QED
  BY <1>1, <1>2, <1>3, <1>4, <1>5, <1>6, <1>7, <1>8 DEF Step

\* An empty pool has charged no more than a chunk of each thread that owes one.
LEMMA EmptyPoolCharged ==
  ASSUME RoomInv, blocks = {}
  PROVE  \E n \in Nat : /\ n <= Cardinality({t \in Threads : pc[t] \in OwedPoints})
                        /\ current_size = n * ChunkSize
<1> DEFINE owing == {t \in Threads : pc[t] \in OwedPoints}
           id == [t \in owing |-> loc[t].id]
<1>1. IsFiniteSet(owing)
  BY PoolAssumption, FS_Subset
<1>2. Charged = {loc[t].id : t \in owing}
  BY DEF Charged, At
<1>3. id \in Surjection(owing, Charged)
  BY <1>2 DEF Surjection
<1>4. IsFiniteSet(Charged) /\ Cardinality(Charged) <= Cardinality(owing)
  <2> HIDE DEF owing, id
  <2> QED
    BY <1>1, <1>3, FS_Surjection
<1>5. Cardinality(Charged) \in Nat
  BY <1>4, FS_CardinalityType
<1>6. current_size = Cardinality(Charged) * ChunkSize
  BY TotalOfChunks, ChargeFacts DEF RoomInv, ChargeInv
<1> QED
  BY <1>4, <1>5, <1>6

\* The threads that are about to allocate are at most all of them.
LEMMA AllocatorsFinite ==
  /\ IsFiniteSet(Threads) /\ Cardinality(Threads) \in Nat
  /\ \A T \in SUBSET Threads : /\ IsFiniteSet(T) /\ Cardinality(T) \in Nat
                               /\ Cardinality(T) <= Cardinality(Threads)
<1>1. IsFiniteSet(Threads)
  BY PoolAssumption
<1> QED
  BY <1>1, FS_Subset, FS_CardinalityType

\* A thread has made room.
LEMMA RoomIsMade ==
  ASSUME RoomInv, ChunkSize <= MaxSize, NEW t \in Threads, OthersStay(t),
         EvictNotNeeded(t) \/ EvictEmptyPool(t)
  PROVE  RoomMade'
<1>1. /\ pc \in [Threads -> ProgramPoints] /\ SizeKnown(pc[t], loc[t])
      /\ current_size \in Nat /\ ChunkSize \in Nat /\ MaxSize \in Nat
  BY PoolAssumption
  DEF RoomInv, ChargeInv, IndexInv, RefsInv, TypeInv, ThreadTypes, PoolTypes
<1>2. /\ pc[t] \in {"evict_check", "evict_none"} /\ pc'[t] = "allocate"
      /\ current_size' = current_size
  BY <1>1 DEF EvictNotNeeded, EvictEmptyPool, Goto, lru
<1>3. Allocators' = Allocators \cup {t} /\ t \notin Allocators
  BY <1>2 DEF Allocators, OthersStay
<1> PICK N : N = Cardinality(Threads)
  OBVIOUS
<1> PICK m : m = Cardinality(Allocators')
  OBVIOUS
<1>4. m \in Nat /\ N \in Nat /\ m <= N
  <2>1. Allocators' \in SUBSET Threads
    BY DEF Allocators
  <2> QED
    BY <2>1, AllocatorsFinite
<1>5. /\ m * ChunkSize \in Nat /\ m * ChunkSize <= N * ChunkSize
      /\ (N - 1) * ChunkSize = N * ChunkSize - ChunkSize
  BY <1>4, AsManyChunks
<1>6. CASE EvictNotNeeded(t)
  <2>1. current_size + ChunkSize <= MaxSize
    BY <1>1, <1>2, <1>6 DEF EvictNotNeeded, NeedsEviction, Goto, SizeKnown, RoomPoints
  <2>2. current_size + m * ChunkSize <= MaxSize + (N - 1) * ChunkSize
    BY <1>1, <1>4, <1>5, <2>1
  <2> QED
    BY <1>2, <2>2 DEF RoomMade
<1>7. CASE EvictEmptyPool(t)
  <2> DEFINE owing == {u \in Threads : pc[u] \in OwedPoints}
  <2>1. PICK n \in Nat : n <= Cardinality(owing) /\ current_size = n * ChunkSize
    BY <1>7, EmptyPoolCharged DEF EvictEmptyPool
  <2>2. owing \in SUBSET Threads /\ Allocators' \in SUBSET Threads /\ owing \cap Allocators' = {}
    BY <1>2, <1>3 DEF Allocators, OwedPoints
  <2>3. IsFiniteSet(owing) /\ Cardinality(owing) \in Nat /\ IsFiniteSet(Allocators')
    BY <2>2, AllocatorsFinite
  <2> HIDE DEF owing
  <2>4. Cardinality(owing \cup Allocators') = Cardinality(owing) + m
    <3>1. Cardinality(owing \cap Allocators') = 0
      BY <2>2, FS_EmptySet
    <3>2. Cardinality(owing \cup Allocators')
            = Cardinality(owing) + Cardinality(Allocators') - Cardinality(owing \cap Allocators')
      BY <2>3, FS_Union
    <3> QED
      BY <1>4, <2>3, <3>1, <3>2
  <2>5. owing \cup Allocators' \in SUBSET Threads
    BY <2>2
  <2>6. n + m <= N
    BY <1>4, <2>1, <2>3, <2>4, <2>5, AllocatorsFinite
  <2>7. (n + m) * ChunkSize = n * ChunkSize + m * ChunkSize
    BY <1>1, <1>4
  <2>8. (n + m) * ChunkSize <= N * ChunkSize /\ n * ChunkSize \in Nat
    <3>1. n + m \in Nat /\ n <= N
      BY <1>4, <2>6
    <3> QED
      BY <1>4, <2>6, <3>1, AsManyChunks
  <2>9. current_size + m * ChunkSize <= MaxSize + (N - 1) * ChunkSize
    BY <1>1, <1>4, <1>5, <2>1, <2>7, <2>8
  <2> QED
    BY <1>2, <2>9 DEF RoomMade
<1> QED
  BY <1>6, <1>7

\* A thread allocates a chunk, for which room has been made.
LEMMA RoomIsTaken ==
  ASSUME RoomInv, NEW t \in Threads, Allocate(t)
  PROVE  RoomMade'
<1>1. /\ pc \in [Threads -> ProgramPoints] /\ SizeKnown(pc[t], loc[t])
      /\ current_size \in Nat /\ ChunkSize \in Nat
  BY PoolAssumption
  DEF RoomInv, ChargeInv, IndexInv, RefsInv, TypeInv, ThreadTypes, PoolTypes
<1>2. /\ pc[t] = "allocate" /\ pc' = [pc EXCEPT ![t] = "insert_block"]
      /\ current_size' = current_size + ChunkSize
  BY <1>1 DEF Allocate, SetLocal, SizeKnown, RoomPoints
<1>3. Allocators' = Allocators \ {t} /\ t \in Allocators
  BY <1>1, <1>2 DEF Allocators
<1>4. Allocators \in SUBSET Threads
  BY DEF Allocators
<1> PICK m : m = Cardinality(Allocators')
  OBVIOUS
<1>5. m = Cardinality(Allocators) - 1 /\ Cardinality(Allocators) \in Nat /\ m \in Nat
  <2>1. IsFiniteSet(Allocators) /\ Cardinality(Allocators) \in Nat
    BY <1>4, AllocatorsFinite
  <2>2. Cardinality(Allocators \ {t}) = Cardinality(Allocators) - 1
    BY <1>3, <2>1, FS_RemoveElement
  <2>3. IsFiniteSet(Allocators') /\ Allocators' \in SUBSET Threads
    BY <1>3, <1>4, AllocatorsFinite
  <2> QED
    BY <1>3, <2>1, <2>2, <2>3, AllocatorsFinite
<1>6. (m + 1) * ChunkSize = m * ChunkSize + ChunkSize /\ m * ChunkSize \in Nat
  BY <1>5, AsManyChunks
<1>7. Cardinality(Allocators) = m + 1
  BY <1>5
<1>8. current_size + (m + 1) * ChunkSize <= MaxSize + (Cardinality(Threads) - 1) * ChunkSize
  BY <1>7 DEF RoomInv, RoomMade
<1>9. current_size' + m * ChunkSize <= MaxSize + (Cardinality(Threads) - 1) * ChunkSize
  BY <1>1, <1>2, <1>6, <1>8
<1> QED
  BY <1>9 DEF RoomMade

\* Less and the same is less.
LEMMA LesserSum ==
  ASSUME NEW a \in Nat, NEW b \in Nat, NEW m \in Nat, NEW r \in Int, b <= a, a + m <= r
  PROVE  b + m <= r
OBVIOUS

\* A step of a reader.
LEMMA RoomStep ==
  ASSUME RoomInv, ChunkSize <= MaxSize, ChargeInv', NEW t \in Threads, SizeStep(t),
         Eases(t) \/ Allocate(t)
  PROVE  RoomInv'
<1>0. /\ pc \in [Threads -> ProgramPoints] /\ loc \in [Threads -> Locals]
      /\ SizeKnown(pc[t], loc[t]) /\ current_size \in Nat /\ current_size' \in Nat
      /\ ChunkSize \in Nat /\ Charged \in SUBSET Ids
      /\ obj \in [Ids -> Objects]
  BY PoolAssumption, ChargeFacts
  DEF RoomInv, ChargeInv, IndexInv, RefsInv, TypeInv, ThreadTypes, PoolTypes
<1>1. OthersStay(t)
  BY <1>0 DEF Eases, Allocate, SetLocal, OthersStay
<1>2. \A u \in Threads : SizeKnown(pc'[u], loc'[u])
  BY <1>1 DEF RoomInv, OthersStay, SizeStep
<1>3. \A b \in Charged' : obj'[b].size = ChunkSize
  <2>1. CASE Eases(t)
    BY <1>0, <2>1 DEF Eases, SameSizes, RoomInv
  <2>2. CASE Allocate(t)
    <3>1. pc[t] = "allocate" /\ loc[t].size = ChunkSize /\ next_id \in Ids
      BY <1>0, <2>2 DEF Allocate, SizeKnown, RoomPoints
    <3>2. obj'[next_id].size = ChunkSize /\ \A b \in Ids \ {next_id} : obj'[b] = obj[b]
      BY <1>0, <2>2, <3>1 DEF Allocate
    <3>3. Charged' \subseteq Charged \cup {next_id}
      BY <1>0, <1>1, <2>2 DEF Allocate, SetLocal, Charged, At, OthersStay, maps, Locals
    <3> QED
      BY <1>0, <3>2, <3>3 DEF RoomInv
  <2> QED
    BY <2>1, <2>2
<1>4. RoomMade'
  <2>1. CASE Allocate(t)
    BY <2>1, RoomIsTaken
  <2>2. CASE EvictNotNeeded(t) \/ EvictEmptyPool(t)
    BY <1>1, <2>2, RoomIsMade
  <2>3. CASE Eases(t) /\ pc[t] # "allocate" /\ pc'[t] # "allocate"
    <3>1. Allocators' = Allocators
      BY <2>3 DEF Allocators, Eases, OthersStay
    <3>2. current_size' <= current_size
      BY <2>3 DEF Eases
    <3>3. PICK m : m = Cardinality(Allocators) * ChunkSize
      OBVIOUS
    <3>4. PICK r : r = MaxSize + (Cardinality(Threads) - 1) * ChunkSize
      OBVIOUS
    <3>5. m \in Nat /\ r \in Int
      <4>1. Cardinality(Allocators) \in Nat /\ Cardinality(Threads) \in Nat /\ MaxSize \in Nat
        BY AllocatorsFinite, PoolAssumption DEF Allocators
      <4> QED
        BY <1>0, <3>3, <3>4, <4>1
    <3>6. current_size + m <= r
      BY <3>3, <3>4 DEF RoomInv, RoomMade
    <3>7. current_size' + m <= r
      <4>1. current_size \in Nat /\ current_size' \in Nat
        BY <1>0
      <4> QED
        BY <3>2, <3>5, <3>6, <4>1, LesserSum
    <3>8. Cardinality(Allocators') = Cardinality(Allocators)
      BY <3>1, Zenon
    <3> QED
      BY <3>3, <3>4, <3>7, <3>8 DEF RoomMade
  <2> QED
    BY <2>1, <2>2, <2>3 DEF SizeStep
<1> QED
  BY <1>2, <1>3, <1>4 DEF RoomInv

\* What has been charged, without what is about to be.
LEMMA RoomMeans ==
  ASSUME RoomInv
  PROVE  OvershootBounded
<1>1. /\ Cardinality(Allocators) \in Nat /\ Cardinality(Threads) \in Nat
      /\ ChunkSize \in Nat /\ MaxSize \in Nat /\ current_size \in Nat
  BY AllocatorsFinite, PoolAssumption
  DEF Allocators, RoomInv, ChargeInv, IndexInv, RefsInv, TypeInv, PoolTypes
<1>2. Cardinality(Allocators) * ChunkSize \in Nat /\ (Cardinality(Threads) - 1) * ChunkSize \in Int
  BY <1>1
<1> QED
  BY <1>1, <1>2 DEF RoomInv, RoomMade, OvershootBounded

-----------------------------------------------------------------------------
(* Fetches *)

\* A key that is pending is one that a thread fetches, or is about to complete.
FetchInv == TypeInv /\ PendingHasFetcher

Fetches(t, k) ==
  pc[t] \in {"fetching", "complete"} /\ loc[t].fut = pending[k] /\ loc[t].key = k

\* A step that leaves the futures alone, of a thread that has none.
LEMMA FetchKept ==
  ASSUME FetchInv, TypeInv', NEW t \in Threads, OthersStay(t), pending' = pending,
         pc[t] \notin {"fetching", "complete"}
  PROVE  FetchInv'
<1> SUFFICES ASSUME NEW k \in Keys, pending[k] # NoFetch
             PROVE  \E u \in Threads : /\ pc'[u] \in {"fetching", "complete"}
                                       /\ loc'[u].fut = pending'[k]
                                       /\ loc'[u].key = k
  BY DEF FetchInv, PendingHasFetcher
<1>1. PICK u \in Threads : Fetches(u, k)
  BY DEF FetchInv, PendingHasFetcher, Fetches
<1> QED
  BY <1>1 DEF Fetches, OthersStay

\* A step of any thread; a fetch that ends keeps its thread until it is taken out.
LEMMA FetchStep ==
  ASSUME FetchInv, TypeInv', NEW t \in Threads, Begin(t) \/ Step(t)
  PROVE  FetchInv'
<1>0. /\ pc \in [Threads -> ProgramPoints] /\ loc \in [Threads -> Locals]
      /\ loc[t] \in Locals /\ pending \in [Keys -> {NoFetch} \cup FetchIds]
  BY DEF FetchInv, TypeInv, ThreadTypes, PoolTypes
<1>1. CASE Begin(t)
  <2>1. /\ OthersStay(t) /\ pending' = pending /\ pc[t] = "idle"
    BY <1>0, <1>1
    DEF Begin, AcquireHit, AcquireMiss, Insert, Modify, MarkFlushed, MarkNeedsFlush,
        SetFlush, Get, RemoveInode, InvalidateHash, Clear, Call, SetLocal, ReturnHandle,
        OthersStay, fetches
  <2> QED
    BY <2>1, FetchKept
<1>2. CASE EvictStep(t) \/ InsertStep(t)
  <2>1. OthersStay(t) /\ pending' = pending /\ pc[t] \notin {"fetching", "complete"}
    BY <1>0, <1>2
    DEF EvictStep, EvictNotNeeded, EvictNeeded, EvictPick, EvictNone, EvictEmptyPool,
        EvictExhausted, InsertStep, ReplaceBlock, Allocate, InsertBlock, InsertIndex,
        Goto, SetLocal, Return, ReturnHandle, OthersStay, fetches
  <2> QED
    BY <2>1, FetchKept
<1>3. CASE DirtyStep(t)
  <2>1. OthersStay(t) /\ pending' = pending /\ pc[t] \notin {"fetching", "complete"}
    BY <1>0, <1>3
    DEF DirtyStep, ModifyGet, ModifyWrite, ModifySize, ModifyFlag, GetBlock, GetAcquire,
        GetTouch, Goto, SetLocal, Return, ReturnHandle, OthersStay, fetches
  <2> QED
    BY <2>1, FetchKept
<1>4. CASE ClearStep(t) \/ Drop(t)
  <2>1. OthersStay(t) /\ pending' = pending /\ pc[t] \notin {"fetching", "complete"}
    BY <1>0, <1>4
    DEF ClearStep, ClearBlocks, ClearIndex, ClearLru, Drop, Goto, SetLocal, Return,
        OthersStay, fetches
  <2> QED
    BY <2>1, FetchKept
<1>5. CASE RemoveStep(t)
  <2>1. OthersStay(t) /\ pending' = pending /\ pc[t] \notin {"fetching", "complete"}
    BY <1>0, <1>5
    DEF RemoveStep, RemoveFromBlocks, RemoveFromIndex, RemoveFromLru, BulkDone, Goto,
        Return, OthersStay, fetches
  <2> QED
    BY <2>1, FetchKept
<1>6. CASE Register(t)
  <2> SUFFICES ASSUME NEW k \in Keys, pending'[k] # NoFetch
               PROVE  \E u \in Threads : /\ pc'[u] \in {"fetching", "complete"}
                                         /\ loc'[u].fut = pending'[k]
                                         /\ loc'[u].key = k
    BY DEF FetchInv, PendingHasFetcher
  <2>1. /\ pc' = [pc EXCEPT ![t] = "fetching"]
        /\ loc' = [loc EXCEPT ![t] = [loc[t] EXCEPT !.fut = next_fetch]]
        /\ pending' = [pending EXCEPT ![loc[t].key] = next_fetch]
        /\ pc[t] = "register"
    BY <1>6 DEF Register, SetLocal
  <2>2. CASE k = loc[t].key
    <3>1. pending'[k] = next_fetch
      BY <1>0, <2>1, <2>2
    <3>2. pc'[t] = "fetching" /\ loc'[t].fut = next_fetch /\ loc'[t].key = k
      BY <1>0, <2>1, <2>2 DEF Locals
    <3> QED
      BY <3>1, <3>2
  <2>3. CASE k # loc[t].key
    <3>1. pending'[k] = pending[k]
      BY <1>0, <2>1, <2>3
    <3>2. PICK u \in Threads : Fetches(u, k)
      BY <3>1 DEF FetchInv, PendingHasFetcher, Fetches
    <3>3. u # t
      BY <2>1, <3>2 DEF Fetches
    <3>4. pc'[u] = pc[u] /\ loc'[u] = loc[u]
      BY <1>0, <2>1, <3>3
    <3> QED
      BY <3>1, <3>2, <3>4 DEF Fetches
  <2> QED
    BY <2>2, <2>3
<1>7. ASSUME NEW result, FetchReturn(t, result) PROVE FetchInv'
  <2> SUFFICES ASSUME NEW k \in Keys, pending'[k] # NoFetch
               PROVE  \E u \in Threads : /\ pc'[u] \in {"fetching", "complete"}
                                         /\ loc'[u].fut = pending'[k]
                                         /\ loc'[u].key = k
    BY DEF FetchInv, PendingHasFetcher
  <2>1. pending' = pending /\ loc' = loc /\ pc' = [pc EXCEPT ![t] = "complete"]
    BY <1>7 DEF FetchReturn, Goto
  <2>2. PICK u \in Threads : Fetches(u, k)
    BY <2>1 DEF FetchInv, PendingHasFetcher, Fetches
  <2> QED
    BY <1>0, <2>1, <2>2 DEF Fetches
<1>8. CASE CompleteRemovePending(t)
  <2> SUFFICES ASSUME NEW k \in Keys, pending'[k] # NoFetch
               PROVE  \E u \in Threads : /\ pc'[u] \in {"fetching", "complete"}
                                         /\ loc'[u].fut = pending'[k]
                                         /\ loc'[u].key = k
    BY DEF FetchInv, PendingHasFetcher
  <2>1. pending' = [pending EXCEPT ![loc[t].key] = NoFetch] /\ OthersStay(t)
    BY <1>0, <1>8 DEF CompleteRemovePending, Return, Goto, OthersStay
  <2>2. k # loc[t].key /\ pending'[k] = pending[k]
    BY <1>0, <2>1
  <2>3. PICK u \in Threads : Fetches(u, k)
    BY <2>2 DEF FetchInv, PendingHasFetcher, Fetches
  <2>4. u # t
    BY <2>2, <2>3 DEF Fetches
  <2> QED
    BY <2>1, <2>2, <2>3, <2>4 DEF Fetches, OthersStay
<1>9. CASE AcquireStep(t) /\ ~Register(t) /\ ~CompleteRemovePending(t)
           /\ ~FetchReturn(t, "ok") /\ ~FetchReturn(t, "err")
  <2>1. OthersStay(t) /\ pending' = pending /\ pc[t] \notin {"fetching", "complete"}
    BY <1>0, <1>9
    DEF AcquireStep, AwaitOther, AcquireNoPending, LookupHit, StartLookupMiss,
        StartNoPending, CompleteLookupMiss, WaiterError, WaiterHit, WaiterMiss,
        Goto, SetLocal, Return, ReturnHandle, OthersStay, fetches
  <2> QED
    BY <2>1, FetchKept
<1> QED
  BY <1>1, <1>2, <1>3, <1>4, <1>5, <1>6, <1>7, <1>8, <1>9 DEF Step, AcquireStep

-----------------------------------------------------------------------------
(* The two uses of the pool *)

\* An empty pool has nothing charged.
LEMMA ChargeInit == Init => ChargeInv
<1> SUFFICES ASSUME Init PROVE ChargeInv
  OBVIOUS
<1>1. IndexInv
  BY IndexInit
<1>2. \A t \in Threads : pc[t] = "idle"
  BY DEF Init
<1>3. Charged = {} /\ OwedApart /\ NobodyModifies
  BY <1>2 DEF Init, Charged, At, OwedApart, OwedPoints, NobodyModifies, ModifyPoints
<1>4. Total(obj, {}) = 0 /\ current_size = 0
  BY TotalEmpty DEF Init
<1>5. current_size = Total(obj, Charged)
  BY <1>3, <1>4, Zenon
<1> QED
  BY <1>1, <1>3, <1>5 DEF ChargeInv

\* A step of a caller that neither modifies nor clears.
LEMMA ChargeStep ==
  ASSUME ChargeInv, NEW t \in Threads, Begin(t) \/ Step(t) \/ Cancel(t), ~Clear(t),
         \A k \in InodeKeys : ~Modify(t, k)
  PROVE  /\ ChargeInv'
         /\ Eases(t) \/ Allocate(t)
<1>1. IndexInv'
  BY IndexStep DEF ChargeInv
<1>2. ~ClearStep(t)
  BY DEF ClearStep, ClearBlocks, ClearIndex, ClearLru, Goto, ChargeInv, IndexInv,
         NotClearing, ClearPoints
<1> QED
  BY <1>1, <1>2, ChargeBegin, ChargeAcquire, ChargeEvict, ChargeRemove, ChargeInsert,
     ChargeDirty DEF Step

\* The invariant is about the variables of the pool.
LEMMA ChargeStutter == ChargeInv /\ UNCHANGED vars => ChargeInv'
<1> SUFFICES ASSUME ChargeInv, UNCHANGED vars PROVE ChargeInv'
  OBVIOUS
<1>1. IndexInv'
  BY IndexStutter DEF ChargeInv
<1>2. blocks' = blocks /\ obj' = obj /\ pc' = pc /\ loc' = loc /\ current_size' = current_size
  BY DEF vars
<1>3. NobodyModifies' /\ OwedApart'
  BY <1>2 DEF ChargeInv, NobodyModifies, OwedApart
<1>4. current_size' = Total(obj, Charged)'
  BY <1>2 DEF ChargeInv, Total, Units, Charged, At
<1> QED
  BY <1>1, <1>3, <1>4 DEF ChargeInv

\* An empty pool has room for a chunk.
LEMMA RoomInit ==
  ASSUME Init, ChunkSize <= MaxSize
  PROVE  RoomInv
<1>1. ChargeInv
  BY ChargeInit
<1>2. \A t \in Threads : SizeKnown(pc[t], loc[t])
  BY DEF Init, SizeKnown, RoomPoints
<1>3. Charged = {}
  BY DEF Init, Charged, At, OwedPoints
<1>4. RoomMade
  <2>1. Allocators = {} /\ current_size = 0
    BY DEF Init, Allocators
  <2>2. Cardinality(Allocators) = 0
    BY <2>1, FS_EmptySet, Zenon
  <2>3. ChunkSize \in Nat /\ MaxSize \in Nat
    BY PoolAssumption
  <2> PICK N : N = Cardinality(Threads)
    OBVIOUS
  <2>4. N \in Nat /\ 0 <= N /\ 0 * ChunkSize = 0
    BY <2>3, AllocatorsFinite
  <2>5. (N - 1) * ChunkSize = N * ChunkSize - ChunkSize /\ N * ChunkSize \in Nat
    <3>1. 0 \in Nat
      OBVIOUS
    <3> QED
      BY <2>3, <2>4, <3>1, AsManyChunks
  <2>6. 0 <= MaxSize + (N - 1) * ChunkSize
    BY <2>3, <2>5
  <2> QED
    BY <2>1, <2>2, <2>4, <2>6 DEF RoomMade
<1> QED
  BY <1>1, <1>2, <1>3, <1>4 DEF RoomInv

\* A thread between calls can only begin one.
LEMMA StepIsInside ==
  ASSUME NEW t \in Threads, Step(t) \/ Cancel(t)
  PROVE  pc[t] # "idle"
<1>1. CASE AcquireStep(t)
  BY <1>1
  DEF AcquireStep, AwaitOther, AcquireNoPending, LookupHit, StartLookupMiss, StartNoPending,
      Register, FetchReturn, CompleteRemovePending, CompleteLookupMiss, WaiterError, WaiterHit,
      WaiterMiss, Goto
<1>2. CASE EvictStep(t)
  BY <1>2
  DEF EvictStep, EvictNotNeeded, EvictNeeded, EvictPick, EvictNone, EvictEmptyPool,
      EvictExhausted, Goto
<1>3. CASE RemoveStep(t)
  BY <1>3 DEF RemoveStep, RemoveFromBlocks, RemoveFromIndex, RemoveFromLru, BulkDone, Goto
<1>4. CASE InsertStep(t)
  BY <1>4 DEF InsertStep, ReplaceBlock, Allocate, InsertBlock, InsertIndex, Goto
<1>5. CASE DirtyStep(t)
  BY <1>5
  DEF DirtyStep, ModifyGet, ModifyWrite, ModifySize, ModifyFlag, GetBlock, GetAcquire,
      GetTouch, Goto
<1>6. CASE ClearStep(t) \/ Drop(t) \/ Cancel(t)
  BY <1>6 DEF ClearStep, ClearBlocks, ClearIndex, ClearLru, Drop, Cancel, Goto
<1> QED
  BY <1>1, <1>2, <1>3, <1>4, <1>5, <1>6 DEF Step

\* What callers begin in the two uses: never clear, and readers change nothing.
LEMMA UsesBegin ==
  ASSUME NEW t \in Threads, TypeInv, MCBegin(t)
  PROVE  /\ Begin(t) /\ ~Clear(t)
         /\ focus = "readers" => ReadBegin(t) /\ \A k \in InodeKeys : ~Modify(t, k)
<1>1. HashKeys \cap InodeKeys = {}
  BY PoolAssumption DEF HashKeys, InodeKeys
<1>2. /\ Begin(t)
      /\ focus = "readers" => ReadBegin(t)
  BY <1>1 DEF MCBegin, Begin, ReadBegin, Used
<1>3. pc \in [Threads -> ProgramPoints]
  BY DEF TypeInv, ThreadTypes
<1>4. ASSUME ReadBegin(t) PROVE pc'[t] \notin {"modify_get", "clear_blocks"}
  BY <1>3, <1>4
  DEF ReadBegin, AcquireHit, AcquireMiss, Get, InvalidateHash, ReturnHandle, SetLocal
<1>5. pc'[t] # "clear_blocks"
  <2>1. CASE \E k \in HashKeys : AcquireHit(t, k) \/ AcquireMiss(t, k)
    BY <1>4, <2>1 DEF ReadBegin
  <2>2. ASSUME NEW k, \/ \E n \in DirtySizes : Insert(t, k, n)
                      \/ Modify(t, k) \/ Get(t, k)
        PROVE  pc'[t] # "clear_blocks"
    BY <1>3, <2>2 DEF Insert, Modify, Get, SetLocal
  <2>3. ASSUME NEW k, MarkFlushed(t, k) \/ MarkNeedsFlush(t, k)
        PROVE  pc'[t] # "clear_blocks"
    BY <1>3, <2>3 DEF MarkFlushed, MarkNeedsFlush, SetFlush, Call
  <2>4. ASSUME NEW c, RemoveInode(t, c) \/ InvalidateHash(t, c)
        PROVE  pc'[t] # "clear_blocks"
    BY <1>3, <2>4 DEF RemoveInode, InvalidateHash, SetLocal
  <2> QED
    BY <2>1, <2>2, <2>3, <2>4 DEF MCBegin
<1>6. Clear(t) => pc'[t] = "clear_blocks"
  BY <1>3 DEF Clear, SetLocal
<1>7. \A k \in InodeKeys : Modify(t, k) => pc'[t] = "modify_get"
  BY <1>3 DEF Modify, SetLocal
<1> QED
  BY <1>2, <1>4, <1>5, <1>6, <1>7

\* What holds in each of the two uses.
MCInv ==
  /\ IndexInv
  /\ focus = "readers" => RoomInv
  /\ focus = "mixed" => FetchInv

\* A step of either use keeps its invariant.
LEMMA MCStep == ChunkSize <= MaxSize /\ MCInv /\ [MCNext]_mcvars => MCInv'
<1> SUFFICES ASSUME ChunkSize <= MaxSize, MCInv, [MCNext]_mcvars PROVE MCInv'
  OBVIOUS
<1>0. TypeInv
  BY DEF MCInv, IndexInv, RefsInv
<1>1. focus' = focus
  BY DEF MCNext, mcvars
<1>2. CASE UNCHANGED vars
  <2>1. IndexInv'
    BY <1>2, IndexStutter DEF MCInv
  <2>2. ASSUME focus = "readers" PROVE RoomInv'
    <3>1. ChargeInv'
      BY <1>2, <2>2, ChargeStutter DEF MCInv, RoomInv
    <3>2. /\ blocks' = blocks /\ obj' = obj /\ pc' = pc /\ loc' = loc
          /\ current_size' = current_size
      BY <1>2 DEF vars
    <3> QED
      BY <2>2, <3>1, <3>2 DEF MCInv, RoomInv, Charged, At, RoomMade, Allocators
  <2>3. ASSUME focus = "mixed" PROVE FetchInv'
    <3>1. TypeInv'
      BY <1>0, <1>2, TypeNext
    <3> QED
      BY <1>2, <2>3, <3>1 DEF MCInv, FetchInv, PendingHasFetcher, vars
  <2> QED
    BY <1>1, <2>1, <2>2, <2>3 DEF MCInv
<1>3. ASSUME NEW t \in Threads,
             MCBegin(t) \/ Step(t) \/ (focus = "readers" /\ Cancel(t))
      PROVE  MCInv'
  <2>1. /\ Begin(t) \/ Step(t) \/ Cancel(t)
        /\ ~Clear(t)
    BY <1>0, <1>3, UsesBegin, StepIsInside DEF Clear, Call
  <2>2. IndexInv'
    BY <2>1, IndexStep DEF MCInv
  <2>3. ASSUME focus = "readers" PROVE RoomInv'
    <3>1. /\ ReadBegin(t) \/ Step(t) \/ Cancel(t)
          /\ \A k \in InodeKeys : ~Modify(t, k)
      BY <1>0, <1>3, <2>3, UsesBegin, StepIsInside DEF Modify, Call
    <3>2. RoomInv /\ ChargeInv /\ SizeKnown(pc[t], loc[t])
      BY <2>3 DEF MCInv, RoomInv
    <3>3. ChargeInv' /\ (Eases(t) \/ Allocate(t))
      BY <2>1, <3>1, <3>2, ChargeStep
    <3>4. SizeStep(t)
      BY <3>1, <3>2, SizesOfSteps
    <3> QED
      BY <3>2, <3>3, <3>4, RoomStep
  <2>4. ASSUME focus = "mixed" PROVE FetchInv'
    <3>1. Begin(t) \/ Step(t)
      BY <1>0, <1>3, <2>4, UsesBegin
    <3>2. TypeInv'
      BY <2>2 DEF IndexInv, RefsInv
    <3> QED
      BY <2>4, <3>1, <3>2, FetchStep DEF MCInv
  <2> QED
    BY <1>1, <2>2, <2>3, <2>4 DEF MCInv
<1> QED
  BY <1>2, <1>3 DEF MCNext, AllIdle, mcvars

\* The bytes charged are those of the blocks in the pool or on their way, and exceed
\* the limit by a chunk for each other caller at most; a key that is pending has a
\* caller that fetches it.
THEOREM ChargesCorrect ==
  ASSUME ChunkSize <= MaxSize
  PROVE  MCSpec => []ChargesAndFetchesAreOwed
<1>1. MCInit => MCInv
  <2> SUFFICES ASSUME MCInit PROVE MCInv
    OBVIOUS
  <2>1. IndexInv /\ RoomInv
    BY IndexInit, RoomInit DEF MCInit
  <2>2. FetchInv
    BY <2>1 DEF MCInit, Init, FetchInv, PendingHasFetcher, IndexInv, RefsInv
  <2> QED
    BY <2>1, <2>2 DEF MCInv
<1>2. MCInv /\ [MCNext]_mcvars => MCInv'
  BY MCStep
<1>3. MCInv => ChargesAndFetchesAreOwed
  <2> SUFFICES ASSUME MCInv PROVE ChargesAndFetchesAreOwed
    OBVIOUS
  <2>1. ASSUME focus = "readers" PROVE ChargedExactly /\ OvershootBounded
    BY <2>1, ChargeMeans, RoomMeans DEF MCInv, RoomInv
  <2>2. ASSUME focus = "mixed" PROVE PendingHasFetcher
    BY <2>2 DEF MCInv, FetchInv
  <2> QED
    BY <2>1, <2>2
    DEF ChargesAndFetchesAreOwed, ReadersChargedExactly, ReadersOvershootBounded,
        MixedPendingHasFetcher
<1> QED
  BY <1>1, <1>2, <1>3, PTL DEF MCSpec

\* The same of the bytes for every use of the pool in which no block changes its
\* length and nobody calls clear.
THEOREM BytesCorrect ==
  ASSUME Ops \cap {"modify", "clear"} = {}
  PROVE  Spec => []ChargedExactly
<1>1. ChargeInv /\ [Next]_vars => ChargeInv'
  <2> SUFFICES ASSUME ChargeInv, [Next]_vars PROVE ChargeInv'
    OBVIOUS
  <2>1. \A t \in Threads : ~Clear(t) /\ \A k \in InodeKeys : ~Modify(t, k)
    BY DEF Clear, Modify, Call
  <2> QED
    BY <2>1, ChargeStep, ChargeStutter DEF Next, AllIdle
<1> QED
  BY <1>1, ChargeInit, ChargeMeans, PTL DEF Spec

\* The same of the fetches for every use of the pool without cancellation.
THEOREM FetchesCorrect ==
  ASSUME "cancel" \notin Ops
  PROVE  Spec => []PendingHasFetcher
<1>1. Init => FetchInv
  BY TypeInit DEF Init, FetchInv, PendingHasFetcher
<1>2. FetchInv /\ [Next]_vars => FetchInv'
  <2> SUFFICES ASSUME FetchInv, [Next]_vars PROVE FetchInv'
    OBVIOUS
  <2>1. TypeInv'
    BY TypeNext DEF FetchInv
  <2>2. CASE UNCHANGED vars
    BY <2>1, <2>2 DEF FetchInv, PendingHasFetcher, vars
  <2>3. \A t \in Threads : ~Cancel(t)
    BY DEF Cancel
  <2> QED
    BY <2>1, <2>2, <2>3, FetchStep DEF Next, AllIdle
<1>3. FetchInv => PendingHasFetcher
  BY DEF FetchInv
<1> QED
  BY <1>1, <1>2, <1>3, PTL DEF Spec

=============================================================================
