----------------------------- MODULE DirtyFile -----------------------------
(***************************************************************************)
(* The copy-on-write layer of a writable mount                             *)
(* (crates/vfs/src/write/dirty.rs): metadata about modified files, their   *)
(* chunks in the block pool, and whole files in the write cache on disk.   *)
(*                                                                         *)
(* A step is one critical section of the metadata lock, one call of the    *)
(* pool or one call of the write cache.  A metadata snapshot and the pool  *)
(* look-ups that follow it without an await are one step.  The pool's      *)
(* calls are atomic here; MemoryPool has their own interleavings.          *)
(***************************************************************************)
EXTENDS Integers, Sequences, FiniteSets

CONSTANTS
  Threads,     \* callers: one for FUSE's `&mut self` handlers, several for FSKit
  Files,       \* inodes
  Original,    \* file -> its bytes in the manifest, NoContent when it is not in it
  NoContent,
  ChunkSize,   \* CHUNK_SIZE_V2
  MaxSize,     \* bound: length of a file
  Ops,         \* the calls the callers make
  WriteSpans, ReadSpans,  \* <<offset, length>> of the writes and of the reads
  TruncSizes,  \* sizes the callers truncate to
  Gaps,        \* writes may start past the end of the file, truncates may extend it
  Evictions,   \* when the pool evicts clean blocks: "never", "between" calls, "any" time
  Faults,      \* which calls may fail: of the object "store", of the write "cache",
               \* of the pool for want of "room" for a chunk that is loaded or "cut"
  MaxCalls     \* bound: calls of all threads together

ASSUME DirtyAssumption ==
  /\ ChunkSize \in Nat \ {0}
  /\ MaxSize \in Nat /\ MaxCalls \in Nat
  /\ NoContent \notin Seq(Nat)
  /\ \A f \in Files : Original[f] # NoContent =>
       Original[f] \in Seq(Nat) /\ Len(Original[f]) <= MaxSize
  /\ WriteSpans \subseteq Nat \X (Nat \ {0}) /\ ReadSpans \subseteq Nat \X (Nat \ {0})
  /\ \A s \in WriteSpans : s[1] + s[2] <= MaxSize
  /\ TruncSizes \subseteq 0 .. MaxSize
  /\ Ops \subseteq {"create", "read", "write", "truncate", "flush", "delete",
               "remove_new", "clear"}
  /\ Gaps \in BOOLEAN /\ Faults \subseteq {"store", "cache", "room", "cut"}
  /\ Evictions \in {"never", "between", "any"}

InManifest(f) == Original[f] # NoContent
ChunksOf(n)   == IF n = 0 THEN 1 ELSE (n - 1) \div ChunkSize + 1
Chunks        == 0 .. ChunksOf(MaxSize) - 1

VARIABLES
  meta,    \* dirty_metadata: a map from inodes to DirtyFileMetadata
  pool,    \* ContentId::Inode blocks: a map from <<inode, chunk>>
  disk,    \* the write cache: a map from files (their paths) to bytes
  pc, loc, \* where each thread is, and its locals
  calls,   \* number of calls made; a write's bytes are made from its number
  reply,   \* what the last finished call returned
  before   \* history: the files as they were when the running call began

shared == <<meta, pool, disk>>
vars   == <<meta, pool, disk, pc, loc, calls, reply, before>>

NoLocals == [op |-> "none", f |-> NoContent, off |-> 0, len |-> 0, val |-> 0,
             c |-> 0, first |-> 0, last |-> 0, size |-> 0, single |-> FALSE,
             sync |-> FALSE, sent |-> 0, dirty |-> {}, buf |-> << >>, data |-> << >>]

Done   == [status |-> "done", bytes |-> << >>]
Failed == [status |-> "failed", bytes |-> << >>]
Got(b) == [status |-> "got", bytes |-> b]

Put(m, k, v) == [x \in DOMAIN m \cup {k} |-> IF x = k THEN v ELSE m[x]]
Drop(m, K)   == [x \in DOMAIN m \ K |-> m[x]]
Smaller(a, b) == IF a < b THEN a ELSE b
Larger(a, b)  == IF a < b THEN b ELSE a

-----------------------------------------------------------------------------
(* DirtyFileMetadata and chunks *)

OriginalChunk(f, c) ==
  SubSeq(Original[f], c * ChunkSize + 1, Smaller((c + 1) * ChunkSize, Len(Original[f])))

HasOriginal(f, c) == InManifest(f) /\ c < ChunksOf(Len(Original[f]))

\* Mutation: the copy starts without the original's length.
FromCow_Empty(f) == [state |-> "Modified", size |-> 0, chunk_count |-> 1, dirty |-> {}]

FromCow(f) ==
  [state |-> "Modified", size |-> Len(Original[f]),
   chunk_count |-> ChunksOf(Len(Original[f])), dirty |-> {}]

NewFile == [state |-> "New", size |-> 0, chunk_count |-> 1, dirty |-> {}]

SetSize(m, n) == [m EXCEPT !.size = n, !.chunk_count = ChunksOf(n)]

MarkDeleted(m) ==
  [m EXCEPT !.state = "Deleted", !.size = 0, !.chunk_count = 0, !.dirty = {}]

Grown(m, end) == IF end > m.size THEN SetSize(m, end) ELSE m

InPool(f, c) == <<f, c>> \in DOMAIN pool

\* The byte the v-th call writes at place i of a file, counted from 1.
Byte(v, i) == 100 * v + i

\* Mutation: the bytes go to the start of the chunk.
Splice_Start(data, from, bytes) ==
  [i \in 1 .. Larger(Len(bytes), Len(data)) |-> IF i <= Len(bytes) THEN bytes[i] ELSE data[i]]

\* modify_dirty_in_place_with_slice: resize with zeros up to the end of the
\* range, then copy.
Splice(data, from, bytes) ==
  LET until == from + Len(bytes) IN
  [i \in 1 .. Larger(until, Len(data)) |->
     IF i \in from + 1 .. until THEN bytes[i - from]
     ELSE IF i <= Len(data) THEN data[i] ELSE 0]

Flushed(b) == [b EXCEPT !.needs_flush = FALSE]

\* mark_flushed does nothing when the block is not there.
MarkFlushed(f, c) ==
  pool' = IF InPool(f, c) THEN [pool EXCEPT ![<<f, c>>] = Flushed(@)] ELSE pool

\* What the layer holds for a file: chunk by chunk what is in the pool, else
\* what the manifest says, and zeros up to the length.
View(f) ==
  IF f \notin DOMAIN meta THEN Original[f]
  ELSE IF meta[f].state = "Deleted" THEN NoContent
  ELSE [i \in 1 .. meta[f].size |->
          LET c == (i - 1) \div ChunkSize
              j == i - c * ChunkSize
              data == IF InPool(f, c) THEN pool[<<f, c>>].data
                      ELSE IF HasOriginal(f, c) THEN OriginalChunk(f, c) ELSE << >>
          IN  IF j <= Len(data) THEN data[j] ELSE 0]

DiskCopy(f) == IF f \in DOMAIN disk THEN disk[f] ELSE NoContent

Snapshot == [content |-> [f \in Files |-> View(f)], durable |-> [f \in Files |-> DiskCopy(f)]]

Init ==
  /\ meta = << >> /\ pool = << >> /\ disk = << >>
  /\ pc = [t \in Threads |-> "idle"]
  /\ loc = [t \in Threads |-> NoLocals]
  /\ calls = 0
  /\ reply = Done
  /\ before = Snapshot

-----------------------------------------------------------------------------
(* Calls *)

\* The kernel has looked the file up: it exists and is not deleted.
Visible(f) == IF f \in DOMAIN meta THEN meta[f].state # "Deleted" ELSE InManifest(f)

Begin(t, op) ==
  /\ op \in Ops
  /\ pc[t] = "idle"
  /\ calls < MaxCalls
  /\ calls' = calls + 1
  /\ before' = Snapshot

Goto(t, point) == pc' = [pc EXCEPT ![t] = point]

Enter(t, point, l) == Goto(t, point) /\ loc' = [loc EXCEPT ![t] = l]

Step(t, from) == pc[t] = from /\ UNCHANGED <<calls, before>>

Continue(t, point, l) == Enter(t, point, l) /\ UNCHANGED reply

Finish(t, r) == Enter(t, "idle", NoLocals) /\ reply' = r

\* An error is returned to the caller; what was done so far stays.
Fail(t) == Finish(t, Failed)

Args(op, f, off, n) == [NoLocals EXCEPT !.op = op, !.f = f, !.off = off, !.len = n]

CallCreate(t, f) ==
  /\ Begin(t, "create")
  /\ ~InManifest(f) /\ f \notin DOMAIN meta
  /\ \A u \in Threads : loc[u].f # f   \* a new file has a new inode
  /\ meta' = Put(meta, f, NewFile)
  /\ Finish(t, Done)
  /\ UNCHANGED <<pool, disk>>

CallWrite(t, f, s) ==
  /\ Begin(t, "write")
  /\ Visible(f)
  /\ Gaps \/ s[1] <= Len(View(f))
  /\ Continue(t, IF f \in DOMAIN meta THEN "write_plan" ELSE "cow",
              [Args("write", f, s[1], s[2]) EXCEPT !.val = calls + 1])
  /\ UNCHANGED shared

CallTruncate(t, f, n) ==
  /\ Begin(t, "truncate")
  /\ Visible(f)
  /\ Gaps \/ n <= Len(View(f))
  /\ Continue(t, IF f \in DOMAIN meta THEN "trunc_plan" ELSE "cow", Args("truncate", f, 0, n))
  /\ UNCHANGED shared

CallRead(t, f, s) ==
  /\ Begin(t, "read")
  /\ f \in DOMAIN meta /\ Visible(f)
  /\ Continue(t, "read_plan", Args("read", f, s[1], s[2]))
  /\ UNCHANGED shared

\* What the FUSE handler returns of an unmodified file: it concatenates the
\* chunks the range touches and takes the bytes at the file's offset in them.
CleanBytes(f, off, n) ==
  LET size  == Len(Original[f])
      first == off \div ChunkSize
      past  == Smaller((Larger(Smaller(off + n, size) - 1, 0) \div ChunkSize + 1) * ChunkSize, size)
      data  == SubSeq(Original[f], first * ChunkSize + 1, past)
  IN  SubSeq(data, off + 1, Smaller(off + n, Len(data)))

CallCleanRead(t, f, s) ==
  /\ Begin(t, "read")
  /\ f \notin DOMAIN meta /\ Visible(f)
  /\ Finish(t, Got(CleanBytes(f, s[1], s[2])))
  /\ UNCHANGED shared

\* fsync does not ask whether the file is dirty: a clean one fails.
CallFlush(t, f) ==
  /\ Begin(t, "flush")
  /\ f \in DOMAIN meta \/ Visible(f)
  /\ Continue(t, "flush", Args("flush", f, 0, 0))
  /\ UNCHANGED shared

CallDelete(t, f) ==
  /\ Begin(t, "delete")
  /\ Visible(f)
  /\ Continue(t, IF f \notin DOMAIN meta THEN "del_insert"
                 ELSE IF meta[f].state = "New" THEN "del_new_blocks" ELSE "del_mark",
              Args("delete", f, 0, 0))
  /\ UNCHANGED shared

Blocks(F) == {k \in DOMAIN pool : k[1] \in F}

\* rmdir removes the new files under the directory before anything else.
CallRemoveNew(t, D) ==
  LET gone == {f \in D \cap DOMAIN meta : meta[f].state = "New"} IN
  /\ Begin(t, "remove_new")
  /\ meta' = Drop(meta, gone)
  /\ pool' = Drop(pool, Blocks(gone))
  /\ Finish(t, Done)
  /\ UNCHANGED disk

CallClear(t) ==
  /\ Begin(t, "clear")
  /\ pool' = Drop(pool, Blocks(DOMAIN meta))
  /\ Continue(t, "clear_meta", Args("clear", NoContent, 0, 0))
  /\ UNCHANGED <<meta, disk>>

ClearMeta(t) ==
  /\ Step(t, "clear_meta")
  /\ meta' = << >>
  /\ Finish(t, Done)
  /\ UNCHANGED <<pool, disk>>

\* The entry was missing when the call began; it is inserted all the same.
\* (Read-only blocks of the original hashes are invalidated first: MemoryPool.)
Cow(t) ==
  LET l == loc[t] IN
  /\ Step(t, "cow")
  /\ meta' = Put(meta, l.f, FromCow(l.f))
  /\ Continue(t, IF l.op = "write" THEN "write_plan" ELSE "trunc_plan", l)
  /\ UNCHANGED <<pool, disk>>

\* The metadata went away while the call was running.
EntryGone(t) ==
  /\ pc[t] \in {"write_plan", "trunc_plan", "read_plan", "flush"}
  /\ Step(t, pc[t])
  /\ loc[t].f \notin DOMAIN meta
  /\ Fail(t)
  /\ UNCHANGED shared

-----------------------------------------------------------------------------
(* Loading a chunk: ensure_chunk_in_pool *)

\* The chunks a call goes through, and whether it may skip loading them.
Walk(l, m, first, last) ==
  [l EXCEPT !.single = m, !.c = first, !.first = first, !.last = last,
            !.sync = \A c \in first .. last : InPool(l.f, c)]

EnsureHit(t) ==
  /\ Step(t, "ensure")
  /\ loc[t].sync \/ InPool(loc[t].f, loc[t].c)
  /\ Continue(t, "use", loc[t])
  /\ UNCHANGED shared

\* The original chunk is fetched, or the chunk starts empty.
EnsureMiss(t) ==
  LET l == loc[t] IN
  /\ Step(t, "ensure")
  /\ ~l.sync /\ ~InPool(l.f, l.c)
  /\ l.f \in DOMAIN meta
  /\ LET data == IF HasOriginal(l.f, l.c) THEN OriginalChunk(l.f, l.c) ELSE << >>
     IN  Continue(t, "load", [l EXCEPT !.data = data])
  /\ UNCHANGED shared

EnsureFails(t) ==
  LET l == loc[t] IN
  /\ Step(t, "ensure")
  /\ ~l.sync /\ ~InPool(l.f, l.c)
  /\ l.f \notin DOMAIN meta \/ ("store" \in Faults /\ HasOriginal(l.f, l.c))
  /\ Fail(t)
  /\ UNCHANGED shared

\* insert_dirty replaces whatever block the chunk has.
InsertDirty(f, c, data) == pool' = Put(pool, <<f, c>>, [data |-> data, needs_flush |-> TRUE])

Load(t) ==
  LET l == loc[t] IN
  /\ Step(t, "load")
  /\ InsertDirty(l.f, l.c, l.data)
  /\ Continue(t, "load_mark", [l EXCEPT !.data = << >>])
  /\ UNCHANGED <<meta, disk>>

\* The block that was there is removed before the search for room fails.
Exhausted(t) ==
  /\ \/ pc[t] = "load" /\ "room" \in Faults
     \/ pc[t] = "trunc_chunk" /\ "cut" \in Faults
  /\ Step(t, pc[t])
  /\ pool' = Drop(pool, {<<loc[t].f, loc[t].c>>})
  /\ Fail(t)
  /\ UNCHANGED <<meta, disk>>

\* Just loaded, not modified.
LoadMark(t) ==
  LET l == loc[t] IN
  /\ Step(t, "load_mark")
  /\ MarkFlushed(l.f, l.c)
  /\ Continue(t, "use", l)
  /\ UNCHANGED <<meta, disk>>

-----------------------------------------------------------------------------
(* Writes *)

WritePlan(t) ==
  LET l == loc[t]
      single == meta[l.f].chunk_count <= 1 /\ l.off + l.len <= ChunkSize
  IN
  /\ Step(t, "write_plan")
  /\ l.f \in DOMAIN meta
  /\ Continue(t, "ensure",
       Walk(l, single, l.off \div ChunkSize, (l.off + l.len - 1) \div ChunkSize))
  /\ UNCHANGED shared

\* Mutation: every chunk is written up to the end of the call.
Until_End(l)  == l.off + l.len - l.c * ChunkSize

From(l)  == IF l.c = l.first THEN l.off - l.c * ChunkSize ELSE 0
Until(l) == IF l.c = l.last THEN l.off + l.len - l.c * ChunkSize ELSE ChunkSize

\* Mutation: every chunk gets the call's first bytes.
Part_Restart(l) == [i \in 1 .. Until(l) - From(l) |-> Byte(l.val, l.off + i)]

\* The bytes that go into the chunk the call is at, after those already sent.
Part(l) == [i \in 1 .. Until(l) - From(l) |-> Byte(l.val, l.off + l.sent + i)]

Modify(t) ==
  LET l == loc[t] IN
  /\ l.op = "write"
  /\ Step(t, "use")
  /\ InPool(l.f, l.c)
  /\ pool' = [pool EXCEPT ![<<l.f, l.c>>] =
                [data |-> Splice(@.data, From(l), Part(l)),
                 needs_flush |-> TRUE]]
  /\ Continue(t, "mark", l)
  /\ UNCHANGED <<meta, disk>>

\* The block was evicted after it was loaded: BlockNotFound.
ModifyFails(t) ==
  /\ loc[t].op = "write"
  /\ Step(t, "use")
  /\ ~InPool(loc[t].f, loc[t].c)
  /\ Fail(t)
  /\ UNCHANGED shared

\* Nothing happens when the entry has gone.
UpdateMeta(f, m) == meta' = IF f \in DOMAIN meta THEN [meta EXCEPT ![f] = m] ELSE meta

\* A write inside chunk 0 updates the length in the same critical section.
MarkDirty(t) ==
  LET l == loc[t]
      marked == [meta[l.f] EXCEPT !.dirty = @ \cup {l.c}]
  IN
  /\ Step(t, "mark")
  /\ UpdateMeta(l.f, IF l.single THEN Grown(marked, l.off + l.len) ELSE marked)
  /\ IF l.single THEN Finish(t, Done)
     ELSE IF l.c < l.last
          THEN Continue(t, "ensure", [l EXCEPT !.c = @ + 1, !.sent = @ + Len(Part(l))])
          ELSE Continue(t, "grow", l)
  /\ UNCHANGED <<pool, disk>>

Grow(t) ==
  LET l == loc[t] IN
  /\ Step(t, "grow")
  /\ UpdateMeta(l.f, Grown(meta[l.f], l.off + l.len))
  /\ Finish(t, Done)
  /\ UNCHANGED <<pool, disk>>

-----------------------------------------------------------------------------
(* Reads *)

ReadPlan(t) ==
  LET l == loc[t]
      m == meta[l.f]
      end == Smaller(l.off + l.len, m.size)
      single == m.chunk_count <= 1
  IN
  /\ Step(t, "read_plan")
  /\ l.f \in DOMAIN meta
  /\ IF l.off >= m.size THEN Finish(t, Got(<< >>))
     ELSE Continue(t, "ensure",
            Walk([l EXCEPT !.len = end - l.off], single,
                 IF single THEN 0 ELSE l.off \div ChunkSize,
                 IF single THEN 0 ELSE (end - 1) \div ChunkSize))
  /\ UNCHANGED shared

PoolData(f, c) == IF InPool(f, c) THEN pool[<<f, c>>].data ELSE << >>

\* One chunk: what the chunk does not have reads as zeros.
ReadSingle(t) ==
  LET l == loc[t]
      data == PoolData(l.f, 0)
  IN
  /\ l.op = "read" /\ l.single
  /\ Step(t, "use")
  /\ l.sync => InPool(l.f, 0)
  /\ Finish(t, Got([i \in 1 .. l.len |->
                     IF l.off + i <= Len(data) THEN data[l.off + i] ELSE 0]))
  /\ UNCHANGED shared

\* read_sync finds the block gone and leaves the call to the other path.
ReadRetry(t) ==
  LET l == loc[t] IN
  /\ l.op = "read" /\ l.single /\ l.sync
  /\ Step(t, "use")
  /\ ~InPool(l.f, 0)
  /\ Continue(t, "read_plan", l)
  /\ UNCHANGED shared

\* Several chunks: the bytes the chunk has in the range, and no others.
ReadChunk(t) ==
  LET l == loc[t]
      data == PoolData(l.f, l.c)
      got == l.buf \o SubSeq(data, From(l) + 1,
               Smaller(IF l.c = l.last THEN Until(l) ELSE Len(data), Len(data)))
  IN
  /\ l.op = "read" /\ ~l.single
  /\ Step(t, "use")
  /\ IF l.c < l.last THEN Continue(t, "ensure", [l EXCEPT !.c = @ + 1, !.buf = got])
     ELSE Finish(t, Got(got))
  /\ UNCHANGED shared

-----------------------------------------------------------------------------
(* Truncation *)

TruncPlan(t) ==
  LET l == loc[t]
      n == l.len
      c == ChunksOf(n) - 1
      keep == n - c * ChunkSize
  IN
  /\ Step(t, "trunc_plan")
  /\ l.f \in DOMAIN meta
  /\ IF n < meta[l.f].size /\ n > 0 /\ keep < Len(PoolData(l.f, c))
     THEN Continue(t, "trunc_chunk",
            [l EXCEPT !.c = c, !.data = SubSeq(PoolData(l.f, c), 1, keep)])
     ELSE Continue(t, "trunc_size", l)
  /\ UNCHANGED shared

\* The last chunk kept is cut, when it is in the pool and longer.
TruncChunk(t) ==
  LET l == loc[t] IN
  /\ Step(t, "trunc_chunk")
  /\ InsertDirty(l.f, l.c, l.data)
  /\ Continue(t, "trunc_size", [l EXCEPT !.data = << >>])
  /\ UNCHANGED <<meta, disk>>

\* The chunks past the new end stay in the pool.
TruncSize(t) ==
  LET l == loc[t] IN
  /\ Step(t, "trunc_size")
  /\ UpdateMeta(l.f, SetSize(meta[l.f], l.len))
  /\ Continue(t, "flush", l)
  /\ UNCHANGED <<pool, disk>>

-----------------------------------------------------------------------------
(* Deletion *)

\* Mutation: the blocks stay.
DelNewBlocks_Keep(t) ==
  /\ Step(t, "del_new_blocks")
  /\ Continue(t, "del_new_meta", loc[t])
  /\ UNCHANGED shared

DelNewBlocks(t) ==
  /\ Step(t, "del_new_blocks")
  /\ pool' = Drop(pool, Blocks({loc[t].f}))
  /\ Continue(t, "del_new_meta", loc[t])
  /\ UNCHANGED <<meta, disk>>

DelNewMeta(t) ==
  /\ Step(t, "del_new_meta")
  /\ meta' = Drop(meta, {loc[t].f})
  /\ Continue(t, "del_new_disk", loc[t])
  /\ UNCHANGED <<pool, disk>>

\* A failure of the write cache is ignored.
DelNewDisk(t) ==
  /\ Step(t, "del_new_disk")
  /\ disk' = Drop(disk, {loc[t].f}) \/ ("cache" \in Faults /\ UNCHANGED disk)
  /\ Finish(t, Done)
  /\ UNCHANGED <<meta, pool>>

DelInsert(t) ==
  /\ Step(t, "del_insert")
  /\ meta' = Put(meta, loc[t].f, MarkDeleted(FromCow(loc[t].f)))
  /\ Continue(t, "del_blocks", loc[t])
  /\ UNCHANGED <<pool, disk>>

DelMark(t) ==
  /\ Step(t, "del_mark")
  /\ UpdateMeta(loc[t].f, MarkDeleted(meta[loc[t].f]))
  /\ Continue(t, "del_blocks", loc[t])
  /\ UNCHANGED <<pool, disk>>

DelBlocks(t) ==
  /\ Step(t, "del_blocks")
  /\ pool' = Drop(pool, Blocks({loc[t].f}))
  /\ Continue(t, "flush", loc[t])
  /\ UNCHANGED <<meta, disk>>

-----------------------------------------------------------------------------
(* flush_to_disk *)

FlushSnapshot(t) ==
  LET l == loc[t]
      m == meta[l.f]
  IN
  /\ Step(t, "flush")
  /\ l.f \in DOMAIN meta
  /\ IF m.state = "Deleted" THEN Continue(t, "disk_delete", l)
     ELSE Continue(t, "assemble",
            [l EXCEPT !.size = m.size, !.last = m.chunk_count - 1, !.dirty = m.dirty,
                      !.c = 0, !.buf = << >>])
  /\ UNCHANGED shared

DiskDelete(t) ==
  /\ Step(t, "disk_delete")
  /\ \/ disk' = Drop(disk, {loc[t].f}) /\ Finish(t, Done)
     \/ "cache" \in Faults /\ UNCHANGED disk /\ Fail(t)
  /\ UNCHANGED <<meta, pool>>

\* The chunks in the pool are put one after the other; one that is not loaded
\* is left out, unless it is dirty.
Assemble(t) ==
  LET l == loc[t] IN
  /\ Step(t, "assemble")
  /\ InPool(l.f, l.c) \/ l.c \notin l.dirty
  /\ LET next == [l EXCEPT !.buf = @ \o PoolData(l.f, l.c), !.c = @ + 1]
     IN  IF l.c < l.last THEN Continue(t, "assemble", next)
         ELSE Continue(t, "disk_write",
                [next EXCEPT !.buf = SubSeq(@, 1, Smaller(Len(@), l.size))])
  /\ UNCHANGED shared

ChunkNotLoaded(t) ==
  LET l == loc[t] IN
  /\ Step(t, "assemble")
  /\ ~InPool(l.f, l.c) /\ l.c \in l.dirty
  /\ Fail(t)
  /\ UNCHANGED shared

\* Nothing is written when no chunk is loaded.
DiskWrite(t) ==
  LET l == loc[t] IN
  /\ Step(t, "disk_write")
  /\ disk' = IF l.buf # << >> \/ l.size = 0 THEN Put(disk, l.f, l.buf) ELSE disk
  /\ Continue(t, "flush_mark", [l EXCEPT !.c = 0, !.buf = << >>])
  /\ UNCHANGED <<meta, pool>>

DiskFails(t) ==
  /\ "cache" \in Faults
  /\ Step(t, "disk_write")
  /\ Fail(t)
  /\ UNCHANGED shared

FlushMark(t) ==
  LET l == loc[t] IN
  /\ Step(t, "flush_mark")
  /\ MarkFlushed(l.f, l.c)
  /\ IF l.c < l.last THEN Continue(t, "flush_mark", [l EXCEPT !.c = @ + 1])
     ELSE Continue(t, "flush_done", l)
  /\ UNCHANGED <<meta, disk>>

FlushDone(t) ==
  /\ Step(t, "flush_done")
  /\ UpdateMeta(loc[t].f, [meta[loc[t].f] EXCEPT !.dirty = {}])
  /\ Finish(t, Done)
  /\ UNCHANGED <<pool, disk>>

-----------------------------------------------------------------------------
(* The pool, and the system *)

\* Another user of the pool needs room: a clean block goes.
Evict ==
  /\ Evictions # "never"
  /\ Evictions = "any" \/ \A t \in Threads : pc[t] = "idle"
  /\ \E k \in DOMAIN pool : ~pool[k].needs_flush /\ pool' = Drop(pool, {k})
  /\ UNCHANGED <<meta, disk, pc, loc, calls, reply, before>>

Calls(t) ==
  \/ \E f \in Files :
       \/ CallCreate(t, f) \/ CallFlush(t, f) \/ CallDelete(t, f)
       \/ \E s \in WriteSpans : CallWrite(t, f, s)
       \/ \E s \in ReadSpans : CallRead(t, f, s) \/ CallCleanRead(t, f, s)
       \/ \E n \in TruncSizes : CallTruncate(t, f, n)
  \/ \E D \in SUBSET Files : CallRemoveNew(t, D)
  \/ CallClear(t)

Run(t) ==
  \/ Cow(t) \/ EntryGone(t)
  \/ EnsureHit(t) \/ EnsureMiss(t) \/ EnsureFails(t) \/ Load(t) \/ LoadMark(t) \/ Exhausted(t)
  \/ WritePlan(t) \/ Modify(t) \/ ModifyFails(t) \/ MarkDirty(t) \/ Grow(t)
  \/ ReadPlan(t) \/ ReadSingle(t) \/ ReadRetry(t) \/ ReadChunk(t)
  \/ TruncPlan(t) \/ TruncChunk(t) \/ TruncSize(t)
  \/ DelNewBlocks(t) \/ DelNewMeta(t) \/ DelNewDisk(t)
  \/ DelInsert(t) \/ DelMark(t) \/ DelBlocks(t)
  \/ FlushSnapshot(t) \/ DiskDelete(t) \/ Assemble(t) \/ ChunkNotLoaded(t)
  \/ DiskWrite(t) \/ DiskFails(t) \/ FlushMark(t) \/ FlushDone(t)
  \/ ClearMeta(t)

\* The bound on the calls has been used up.
AllIdle ==
  /\ calls = MaxCalls
  /\ \A t \in Threads : pc[t] = "idle"
  /\ UNCHANGED vars

Next == Evict \/ AllIdle \/ \E t \in Threads : Calls(t) \/ Run(t)

Spec == Init /\ [][Next]_vars

-----------------------------------------------------------------------------
(* Types *)

Points == {"idle", "cow", "write_plan", "trunc_plan", "read_plan", "ensure", "load",
           "load_mark", "use", "mark", "grow", "trunc_chunk", "trunc_size", "flush",
           "assemble", "disk_write", "disk_delete", "flush_mark", "flush_done",
           "del_new_blocks", "del_new_meta", "del_new_disk", "del_insert", "del_mark",
           "del_blocks", "clear_meta"}

Metadata == [state : {"New", "Modified", "Deleted"}, size : Nat, chunk_count : Nat,
             dirty : SUBSET Nat]

\* Types; no file, chunk or copy is longer than it may be.
TypeOK ==
  /\ DOMAIN meta \subseteq Files
  /\ \A f \in DOMAIN meta :
       /\ meta[f] \in Metadata
       /\ meta[f].size <= MaxSize
       /\ meta[f].dirty \subseteq Chunks
       /\ meta[f].state # "New" => InManifest(f)
  /\ DOMAIN pool \subseteq Files \X Chunks
  /\ \A k \in DOMAIN pool :
       /\ pool[k].needs_flush \in BOOLEAN
       /\ pool[k].data \in Seq(Nat) /\ Len(pool[k].data) <= ChunkSize
  /\ DOMAIN disk \subseteq Files
  /\ \A f \in DOMAIN disk : disk[f] \in Seq(Nat) /\ Len(disk[f]) <= MaxSize
  /\ pc \in [Threads -> Points]
  /\ calls \in 0 .. MaxCalls

\* What may stand at place i of a file after n calls: what the manifest has there,
\* a zero, or what one of the calls has written to this place.
BytesFor(f, i, n) ==
  {0} \cup {Byte(v, i) : v \in 1 .. n}
      \cup IF InManifest(f) /\ i \in 1 .. Len(Original[f]) THEN {Original[f][i]} ELSE {}

\* A byte is where it was written: no chunk's bytes end up in another place of
\* the file, whatever calls run side by side.
BytesKeepTheirPlace ==
  \A f \in Files : View(f) # NoContent =>
    \A i \in DOMAIN View(f) : View(f)[i] \in BytesFor(f, i, calls)

\* No byte of two callers ends up at another place, and no file, chunk or copy
\* outgrows its bounds.
BytesStayInPlace == TypeOK /\ BytesKeepTheirPlace

=============================================================================
