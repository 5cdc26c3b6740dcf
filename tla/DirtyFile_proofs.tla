-------------------------- MODULE DirtyFile_proofs --------------------------
(***************************************************************************)
(* Proofs about the copy-on-write layer, for every set of files, every     *)
(* original content and every chunk size, in two parts.                    *)
(*                                                                         *)
(* Any number of callers, in every interleaving and with every fault       *)
(* (DirtyFile): each byte of a file in the layer is a zero, the manifest's *)
(* byte of that place, or what a call has written to that place; and       *)
(* lengths, chunks and dirty sets stay within their bounds.  A call        *)
(* carries bytes from one critical section to the next: a chunk it has     *)
(* fetched, the rest of a chunk it cuts, the file it assembles; and a      *)
(* write of several chunks carries how much it has sent.  LocalsAreSound   *)
(* says what these locals are at each point; it does not depend on what    *)
(* other callers do meanwhile.                                             *)
(*                                                                         *)
(* One caller (SerialFile): the layer implements FileStore (FilesAreFlat), *)
(* and what its pool holds and no disk has is pinned and belongs to a file *)
(* (BlocksStayWithFiles).  The invariant SerialInv says where the bytes of *)
(* the files are.  Between two calls a file shows what its chunks hold     *)
(* (Untouched); in a call, the other files do, and CallInv says of each    *)
(* point of the call how much of the file it is about has its new bytes.   *)
(* A lemma for each action then shows that the step keeps SerialInv and    *)
(* that it is a step of FileStore when it ends a call, and none before.    *)
(***************************************************************************)
EXTENDS SerialFile, TLAPS


Names == {"none", "read", "write", "truncate", "flush", "delete", "clear"}

Locals == [op : Names, f : Files \cup {NoContent}, off : Nat, len : Nat, val : Nat,
           c : Nat, first : Nat, last : Nat, size : Nat, single : BOOLEAN,
           sync : BOOLEAN, sent : Nat, dirty : SUBSET Nat, buf : Seq(Nat), data : Seq(Nat)]

\* The data of chunk c of a file after n calls.
ChunkIsSound(f, c, data, n) ==
  /\ data \in Seq(Nat) /\ Len(data) <= ChunkSize
  /\ \A j \in 1 .. Len(data) : data[j] \in BytesFor(f, c * ChunkSize + j, n)

\* A write's range, and the number its bytes are made from.
WriteIsSound(l, n) ==
  l.off + l.len <= MaxSize /\ l.val \in 1 .. n

\* The chunks a read or a write goes through, and how much a write has sent.
WalkIsSound(l) ==
  /\ l.first <= l.c /\ l.c <= l.last /\ l.last \in Chunks
  /\ l.first * ChunkSize <= l.off
  /\ l.op = "write" =>
       /\ l.off < (l.first + 1) * ChunkSize
       /\ l.last * ChunkSize < l.off + l.len /\ l.off + l.len <= (l.last + 1) * ChunkSize
       /\ l.c = l.first => l.sent = 0
       /\ l.c # l.first => l.off + l.sent = l.c * ChunkSize

Walking == {"ensure", "load", "load_mark", "use", "mark"}

LocalsAreSound(point, l, n) ==
  /\ l \in Locals
  /\ point \notin {"idle", "clear_meta"} => l.f \in Files
  /\ point \in {"cow", "del_insert", "del_mark"} => InManifest(l.f)
  /\ point = "cow" => l.op \in {"write", "truncate"}
  /\ point \in {"cow", "write_plan"} => l.sent = 0
  /\ point \in {"write_plan", "mark", "grow"} => l.op = "write"
  /\ point \in {"trunc_plan", "trunc_chunk", "trunc_size"} => l.op = "truncate"
  /\ point = "read_plan" => l.op = "read"
  /\ point \in Walking => l.op \in {"read", "write"} /\ WalkIsSound(l)
  /\ point \in Walking \cup {"cow", "write_plan", "read_plan", "grow"} /\ l.op # "truncate" =>
       l.len > 0 /\ (l.op = "write" => WriteIsSound(l, n))
  /\ point \in {"cow", "trunc_plan", "trunc_chunk", "trunc_size"} /\ l.op = "truncate" =>
       l.len <= MaxSize
  /\ point \in {"load", "trunc_chunk"} => l.c \in Chunks /\ ChunkIsSound(l.f, l.c, l.data, n)
  /\ point \in {"assemble", "disk_write"} => l.size <= MaxSize
  /\ point = "disk_write" => Len(l.buf) <= l.size

EntryIsSound(f, m) ==
  /\ m \in Metadata
  /\ m.size <= MaxSize
  /\ m.dirty \subseteq Chunks
  /\ m.state # "New" => InManifest(f)
  /\ m.chunk_count <= ChunksOf(MaxSize)
  /\ m.state # "Deleted" => m.chunk_count > 0

MetaInv == DOMAIN meta \subseteq Files /\ \A f \in DOMAIN meta : EntryIsSound(f, meta[f])

PoolInv ==
  /\ DOMAIN pool \subseteq Files \X Chunks
  /\ \A k \in DOMAIN pool :
       /\ pool[k] \in [data : Seq(Nat), needs_flush : BOOLEAN]
       /\ ChunkIsSound(k[1], k[2], pool[k].data, calls)

DiskInv ==
  /\ DOMAIN disk \subseteq Files
  /\ \A f \in DOMAIN disk : disk[f] \in Seq(Nat) /\ Len(disk[f]) <= MaxSize

CallsInv ==
  /\ calls \in 0 .. MaxCalls
  /\ pc \in [Threads -> Points]
  /\ DOMAIN loc = Threads
  /\ \A t \in Threads : LocalsAreSound(pc[t], loc[t], calls)

DirtyInv == MetaInv /\ PoolInv /\ DiskInv /\ CallsInv

-----------------------------------------------------------------------------
(* Chunks of a file *)

\* Multiplication by the chunk size.
LEMMA Times ==
  ASSUME NEW x \in Nat, NEW y \in Nat
  PROVE  /\ x * ChunkSize \in Nat
         /\ (x + 1) * ChunkSize = x * ChunkSize + ChunkSize
         /\ x <= y => x * ChunkSize <= y * ChunkSize
         /\ x * ChunkSize < y * ChunkSize => x < y
<1>1. ChunkSize \in Nat \ {0}
  BY DirtyAssumption
<1>2. x * ChunkSize \in Nat /\ (x + 1) * ChunkSize = x * ChunkSize + ChunkSize
  BY <1>1
<1>3. \A a, b \in Nat : a <= b => a * ChunkSize <= b * ChunkSize
  <2> SUFFICES ASSUME NEW a \in Nat, NEW b \in Nat, a <= b PROVE a * ChunkSize <= b * ChunkSize
    OBVIOUS
  <2>1. b * ChunkSize = a * ChunkSize + (b - a) * ChunkSize
    BY <1>1
  <2>2. b - a \in Nat
    OBVIOUS
  <2>3. (b - a) * ChunkSize \in Nat /\ a * ChunkSize \in Nat
    BY <1>1, <2>2
  <2> QED
    BY <2>1, <2>3
<1>4. y * ChunkSize \in Nat
  BY <1>1
<1>5. x * ChunkSize < y * ChunkSize => x < y
  BY <1>2, <1>3, <1>4
<1> QED
  BY <1>2, <1>3, <1>5

\* The chunk that a place is in.
LEMMA Division ==
  ASSUME NEW n \in Nat
  PROVE  /\ n \div ChunkSize \in Nat
         /\ (n \div ChunkSize) * ChunkSize <= n
         /\ n < (n \div ChunkSize + 1) * ChunkSize
<1>1. ChunkSize \in Nat /\ ChunkSize > 0
  BY DirtyAssumption
<1>2. \A d \in Nat : d > 0 => n \div d \in Nat /\ (n \div d) * d <= n /\ n < (n \div d) * d + d
  OBVIOUS
<1>3. n \div ChunkSize \in Nat
  BY <1>1, <1>2
<1>4. (n \div ChunkSize + 1) * ChunkSize = (n \div ChunkSize) * ChunkSize + ChunkSize
  BY <1>3, Times
<1> QED
  BY <1>1, <1>2, <1>3, <1>4

\* A place of a file is in one of the chunks that a file may have.
LEMMA ChunkInRange ==
  ASSUME NEW c \in Nat, NEW n \in Nat, c * ChunkSize < n, n <= MaxSize
  PROVE  c \in Chunks
<1>1. MaxSize \in Nat \ {0} /\ c * ChunkSize \in Nat
  BY Times, DirtyAssumption
<1> DEFINE last == (MaxSize - 1) \div ChunkSize
<1>2. last \in Nat /\ MaxSize - 1 < (last + 1) * ChunkSize
  BY <1>1, Division
<1>3. (last + 1) * ChunkSize \in Nat
  BY <1>2, Times
<1>4. c * ChunkSize < (last + 1) * ChunkSize
  BY <1>1, <1>2, <1>3, DirtyAssumption
<1>5. c < last + 1
  BY <1>2, <1>4, Times
<1>6. Chunks = 0 .. last
  BY <1>1, <1>2 DEF Chunks, ChunksOf
<1> HIDE DEF last
<1> QED
  BY <1>2, <1>5, <1>6

\* A file has at least one chunk, and the last one reaches its end.
LEMMA LastChunk ==
  ASSUME NEW n \in 0 .. MaxSize
  PROVE  /\ ChunksOf(n) \in 1 .. ChunksOf(MaxSize) /\ ChunksOf(MaxSize) \in Nat
         /\ ChunksOf(n) - 1 \in Chunks
         /\ (ChunksOf(n) - 1) * ChunkSize <= n
         /\ n - (ChunksOf(n) - 1) * ChunkSize <= ChunkSize
         /\ 0 \in Chunks /\ Chunks \subseteq Nat
<1>1. MaxSize \in Nat /\ n \in Nat /\ ChunkSize \in Nat \ {0}
  BY DirtyAssumption
<1>2. ChunksOf(MaxSize) \in Nat \ {0}
  BY <1>1, Division DEF ChunksOf
<1>3. 0 \in Chunks /\ Chunks \subseteq Nat /\ Chunks = 0 .. ChunksOf(MaxSize) - 1
  BY <1>2 DEF Chunks
<1>4. CASE n = 0
  <2>1. ChunksOf(n) = 1 /\ ChunksOf(n) - 1 = 0
    BY <1>4 DEF ChunksOf
  <2>2. (ChunksOf(n) - 1) * ChunkSize = 0
    BY <1>1, <2>1
  <2> QED
    BY <1>1, <1>2, <1>3, <1>4, <2>1, <2>2
<1>5. CASE n # 0
  <2> DEFINE c == (n - 1) \div ChunkSize
  <2>1. c \in Nat /\ c * ChunkSize <= n - 1 /\ n - 1 < (c + 1) * ChunkSize
    BY <1>1, <1>5, Division
  <2>2. ChunksOf(n) = c + 1
    BY <1>5 DEF ChunksOf
  <2>3. c * ChunkSize \in Nat /\ (c + 1) * ChunkSize = c * ChunkSize + ChunkSize
    BY <2>1, Times
  <2>4. c * ChunkSize < n
    BY <1>1, <2>1, <2>3
  <2>5. c \in Chunks
    BY <1>1, <2>1, <2>4, ChunkInRange
  <2> HIDE DEF c
  <2>6. ChunksOf(n) - 1 = c
    BY <2>1, <2>2
  <2> QED
    BY <1>1, <1>2, <1>3, <2>1, <2>2, <2>3, <2>5, <2>6
<1> QED
  BY <1>4, <1>5

\* A chunk before one that a file may have.
LEMMA ChunkBelow ==
  ASSUME NEW c \in Nat, NEW d \in Chunks, c <= d
  PROVE  c \in Chunks
BY LastChunk, DirtyAssumption DEF Chunks

-----------------------------------------------------------------------------
(* Data of a chunk *)

\* A part of a sequence.
LEMMA PartOfSequence ==
  ASSUME NEW s \in Seq(Nat), NEW a \in Nat \ {0}, NEW b \in Int, b <= Len(s)
  PROVE  /\ SubSeq(s, a, b) \in Seq(Nat)
         /\ Len(SubSeq(s, a, b)) = IF a <= b THEN b - a + 1 ELSE 0
         /\ \A j \in 1 .. Len(SubSeq(s, a, b)) : SubSeq(s, a, b)[j] = s[a + j - 1]
<1>1. Len(s) \in Nat /\ DOMAIN s = 1 .. Len(s) /\ \A j \in 1 .. Len(s) : s[j] \in Nat
  OBVIOUS
<1>2. SubSeq(s, a, b) \in Seq(Nat)
  BY <1>1
<1>3. Len(SubSeq(s, a, b)) = IF a <= b THEN b - a + 1 ELSE 0
  BY <1>1
<1>4. \A j \in 1 .. Len(SubSeq(s, a, b)) : SubSeq(s, a, b)[j] = s[a + j - 1]
  BY <1>1, <1>3
<1> QED
  BY <1>2, <1>3, <1>4

\* What may stand at a place stays allowed when more calls are made.
LEMMA LaterIsSound ==
  ASSUME NEW f, NEW c, NEW data, NEW n \in Nat, NEW m \in Nat, n <= m, ChunkIsSound(f, c, data, n)
  PROVE  ChunkIsSound(f, c, data, m)
<1>1. \A i : BytesFor(f, i, n) \subseteq BytesFor(f, i, m)
  BY DEF BytesFor
<1> QED
  BY <1>1 DEF ChunkIsSound

\* A chunk that starts empty.
LEMMA EmptyIsSound ==
  ASSUME NEW f, NEW c, NEW n
  PROVE  ChunkIsSound(f, c, << >>, n)
BY DirtyAssumption DEF ChunkIsSound

\* OriginalChunk takes a chunk's bytes from the file of the manifest.
LEMMA OriginalIsSound ==
  ASSUME NEW f \in Files, NEW c \in Nat, HasOriginal(f, c), NEW n
  PROVE  ChunkIsSound(f, c, OriginalChunk(f, c), n)
<1> DEFINE s == Original[f]
           a == c * ChunkSize + 1
           b == Smaller((c + 1) * ChunkSize, Len(s))
           data == SubSeq(s, a, b)
<1>1. s \in Seq(Nat) /\ Len(s) \in 0 .. MaxSize /\ InManifest(f)
  BY DirtyAssumption DEF HasOriginal, InManifest
<1>2. /\ c * ChunkSize \in Nat /\ (c + 1) * ChunkSize \in Nat
      /\ (c + 1) * ChunkSize = c * ChunkSize + ChunkSize /\ ChunkSize \in Nat
  BY Times, DirtyAssumption
<1>3. a \in Nat \ {0} /\ b \in Int /\ b <= Len(s) /\ b <= c * ChunkSize + ChunkSize
  BY <1>1, <1>2 DEF Smaller
<1>4. /\ data \in Seq(Nat)
      /\ Len(data) = IF a <= b THEN b - a + 1 ELSE 0
      /\ \A j \in 1 .. Len(data) : data[j] = s[a + j - 1]
  <2> HIDE DEF a, b, s
  <2> QED
    BY <1>1, <1>3, PartOfSequence
<1> HIDE DEF data
<1>5. Len(data) \in Nat /\ Len(data) <= ChunkSize
  BY <1>2, <1>3, <1>4
<1>6. ASSUME NEW j \in 1 .. Len(data)
      PROVE  data[j] \in BytesFor(f, c * ChunkSize + j, n)
  <2>1. c * ChunkSize + j \in 1 .. Len(s)
    BY <1>1, <1>2, <1>3, <1>4
  <2>2. a + j - 1 = c * ChunkSize + j
    BY <1>2, <1>4
  <2>3. data[j] = s[c * ChunkSize + j]
    BY <1>4, <2>2
  <2> QED
    BY <1>1, <2>1, <2>3 DEF BytesFor
<1>7. OriginalChunk(f, c) = data
  BY DEF data, OriginalChunk
<1> QED
  BY <1>4, <1>5, <1>6, <1>7 DEF ChunkIsSound

\* A chunk that is cut.
LEMMA CutIsSound ==
  ASSUME NEW f, NEW c, NEW data, NEW n, ChunkIsSound(f, c, data, n), NEW k \in Nat, k <= Len(data)
  PROVE  ChunkIsSound(f, c, SubSeq(data, 1, k), n)
<1>1. /\ data \in Seq(Nat) /\ Len(data) <= ChunkSize /\ ChunkSize \in Nat /\ Len(data) \in Nat
      /\ \A j \in 1 .. Len(data) : data[j] \in BytesFor(f, c * ChunkSize + j, n)
  BY DirtyAssumption DEF ChunkIsSound
<1>2. /\ SubSeq(data, 1, k) \in Seq(Nat) /\ Len(SubSeq(data, 1, k)) = k
      /\ \A j \in 1 .. k : SubSeq(data, 1, k)[j] = data[j]
  BY <1>1, PartOfSequence
<1>3. k <= ChunkSize
  BY <1>1
<1> DEFINE cut == SubSeq(data, 1, k)
<1> HIDE DEF cut
<1>4. cut \in Seq(Nat) /\ Len(cut) = k /\ \A j \in 1 .. k : cut[j] \in BytesFor(f, c * ChunkSize + j, n)
  BY <1>1, <1>2 DEF cut
<1>5. ChunkIsSound(f, c, cut, n)
  BY <1>3, <1>4 DEF ChunkIsSound
<1> QED
  BY <1>5 DEF cut

\* Splice puts a write's bytes where they belong: the k-th one at place from + k.
LEMMA SpliceIsSound ==
  ASSUME NEW f, NEW c \in Nat, NEW data, NEW n \in Nat, ChunkIsSound(f, c, data, n),
         NEW from \in Nat, NEW bytes \in Seq(Nat), from + Len(bytes) <= ChunkSize,
         NEW v \in 1 .. n,
         \A k \in 1 .. Len(bytes) : bytes[k] = Byte(v, c * ChunkSize + from + k)
  PROVE  ChunkIsSound(f, c, Splice(data, from, bytes), n)
<1> DEFINE until == from + Len(bytes)
           len == Larger(until, Len(data))
           r == Splice(data, from, bytes)
<1>1. data \in Seq(Nat) /\ Len(data) <= ChunkSize /\ ChunkSize \in Nat /\ Len(data) \in Nat
  BY DirtyAssumption DEF ChunkIsSound
<1>2. Len(bytes) \in Nat /\ until \in Nat
  OBVIOUS
<1>3. len \in Nat /\ len <= ChunkSize
  BY <1>1, <1>2 DEF Larger
<1>4. r = [i \in 1 .. len |-> IF i \in from + 1 .. until THEN bytes[i - from]
                               ELSE IF i <= Len(data) THEN data[i] ELSE 0]
  BY DEF Splice
<1> HIDE DEF len, r
<1>5. \A i \in 1 .. len : r[i] \in Nat /\ r[i] \in BytesFor(f, c * ChunkSize + i, n)
  <2> SUFFICES ASSUME NEW i \in 1 .. len
               PROVE  r[i] \in Nat /\ r[i] \in BytesFor(f, c * ChunkSize + i, n)
    OBVIOUS
  <2>1. CASE i \in from + 1 .. until
    <3>1. r[i] = bytes[i - from] /\ i - from \in 1 .. Len(bytes)
      BY <1>2, <1>3, <1>4, <2>1
    <3>2. c * ChunkSize \in Nat
      BY Times
    <3>3. bytes[i - from] = Byte(v, c * ChunkSize + from + (i - from))
      BY <3>1
    <3>4. c * ChunkSize + from + (i - from) = c * ChunkSize + i
      BY <1>3, <3>2
    <3>5. bytes[i - from] \in Nat
      BY <3>1
    <3> QED
      BY <3>1, <3>3, <3>4, <3>5 DEF BytesFor
  <2>2. CASE ~(i \in from + 1 .. until) /\ i <= Len(data)
    <3>1. r[i] = data[i] /\ i \in 1 .. Len(data)
      BY <1>1, <1>3, <1>4, <2>2
    <3> QED
      BY <1>1, <3>1 DEF ChunkIsSound
  <2>3. CASE ~(i \in from + 1 .. until) /\ ~(i <= Len(data))
    <3>1. r[i] = 0
      BY <1>4, <2>3
    <3> QED
      BY <3>1 DEF BytesFor
  <2> QED
    BY <2>1, <2>2, <2>3
<1>6. r \in Seq(Nat) /\ Len(r) = len
  BY <1>3, <1>4, <1>5
<1> QED
  BY <1>3, <1>5, <1>6 DEF ChunkIsSound, r

-----------------------------------------------------------------------------
(* What the steps do to the four parts of the state *)

\* An entry of the metadata is inserted or replaced.
LEMMA MetaInserts ==
  ASSUME MetaInv, NEW f \in Files, NEW m, EntryIsSound(f, m), meta' = Put(meta, f, m)
  PROVE  MetaInv'
<1>1. DOMAIN meta' = DOMAIN meta \cup {f}
      /\ \A x \in DOMAIN meta \cup {f} : meta'[x] = IF x = f THEN m ELSE meta[x]
  BY DEF Put
<1> QED
  BY <1>1 DEF MetaInv

\* An entry that is there is updated.
LEMMA MetaUpdates ==
  ASSUME MetaInv, NEW f, NEW m, f \in DOMAIN meta => EntryIsSound(f, m), UpdateMeta(f, m)
  PROVE  MetaInv'
<1>1. CASE f \in DOMAIN meta
  <2>1. meta' = [meta EXCEPT ![f] = m]
    BY <1>1 DEF UpdateMeta
  <2>2. DOMAIN meta' = DOMAIN meta /\ \A x \in DOMAIN meta : meta'[x] = IF x = f THEN m ELSE meta[x]
    BY <2>1
  <2> QED
    BY <1>1, <2>2 DEF MetaInv
<1>2. CASE f \notin DOMAIN meta
  BY <1>2 DEF UpdateMeta, MetaInv
<1> QED
  BY <1>1, <1>2

\* Entries go.
LEMMA MetaShrinks ==
  ASSUME MetaInv, NEW K, meta' = Drop(meta, K) \/ meta' = << >>
  PROVE  MetaInv'
<1>1. CASE meta' = Drop(meta, K)
  <2>1. DOMAIN meta' = DOMAIN meta \ K /\ \A x \in DOMAIN meta \ K : meta'[x] = meta[x]
    BY <1>1 DEF Put, Drop
  <2> QED
    BY <2>1 DEF MetaInv
<1>2. CASE meta' = << >>
  BY <1>2 DEF MetaInv
<1> QED
  BY <1>1, <1>2

\* More calls, and no other blocks than before.
LEMMA PoolShrinks ==
  ASSUME PoolInv, calls \in Nat, calls' \in Nat, calls <= calls', NEW K,
         pool' = Drop(pool, K) \/ pool' = pool
  PROVE  PoolInv'
<1>1. DOMAIN pool' \subseteq DOMAIN pool /\ \A k \in DOMAIN pool' : pool'[k] = pool[k]
  BY DEF Drop
<1>2. ASSUME NEW k \in DOMAIN pool' PROVE ChunkIsSound(k[1], k[2], pool'[k].data, calls')
  BY <1>1, LaterIsSound DEF PoolInv
<1> QED
  BY <1>1, <1>2 DEF PoolInv

\* insert_dirty of sound data.
LEMMA PoolInserts ==
  ASSUME PoolInv, calls' = calls, NEW f \in Files, NEW c \in Chunks, NEW data,
         ChunkIsSound(f, c, data, calls), InsertDirty(f, c, data)
  PROVE  PoolInv'
<1> DEFINE b == [data |-> data, needs_flush |-> TRUE]
<1>1. DOMAIN pool' = DOMAIN pool \cup {<<f, c>>}
      /\ \A x \in DOMAIN pool \cup {<<f, c>>} : pool'[x] = IF x = <<f, c>> THEN b ELSE pool[x]
  BY DEF InsertDirty, Put
<1>2. b \in [data : Seq(Nat), needs_flush : BOOLEAN] /\ b.data = data
  BY DEF ChunkIsSound
<1>3. <<f, c>> \in Files \X Chunks /\ <<f, c>>[1] = f /\ <<f, c>>[2] = c
  OBVIOUS
<1> HIDE DEF b
<1> QED
  BY <1>1, <1>2, <1>3 DEF PoolInv

\* A block that is there gets other sound data.
LEMMA PoolModifies ==
  ASSUME PoolInv, calls' = calls, NEW f, NEW c, InPool(f, c), NEW b,
         b \in [data : Seq(Nat), needs_flush : BOOLEAN], ChunkIsSound(f, c, b.data, calls),
         pool' = [pool EXCEPT ![<<f, c>>] = b]
  PROVE  PoolInv'
<1>1. DOMAIN pool' = DOMAIN pool
      /\ \A x \in DOMAIN pool : pool'[x] = IF x = <<f, c>> THEN b ELSE pool[x]
  OBVIOUS
<1>2. <<f, c>>[1] = f /\ <<f, c>>[2] = c
  OBVIOUS
<1> QED
  BY <1>1, <1>2 DEF PoolInv

\* mark_flushed changes no data.
LEMMA PoolMarks ==
  ASSUME PoolInv, calls' = calls, NEW f, NEW c, MarkFlushed(f, c)
  PROVE  PoolInv'
<1>1. CASE InPool(f, c)
  <2> DEFINE old == pool[<<f, c>>]
             b == [old EXCEPT !.needs_flush = FALSE]
  <2>1. pool' = [pool EXCEPT ![<<f, c>>] = b]
    BY <1>1 DEF MarkFlushed, Flushed
  <2>2. old \in [data : Seq(Nat), needs_flush : BOOLEAN]
        /\ ChunkIsSound(<<f, c>>[1], <<f, c>>[2], old.data, calls)
    BY <1>1 DEF PoolInv, InPool
  <2>3. b \in [data : Seq(Nat), needs_flush : BOOLEAN] /\ b.data = old.data
    BY <2>2
  <2>4. <<f, c>>[1] = f /\ <<f, c>>[2] = c
    OBVIOUS
  <2> HIDE DEF b, old
  <2> QED
    BY <1>1, <2>1, <2>2, <2>3, <2>4, PoolModifies
<1>2. CASE ~InPool(f, c)
  BY <1>2 DEF MarkFlushed, PoolInv
<1> QED
  BY <1>1, <1>2

\* A copy in the write cache is written or deleted.
LEMMA DiskChanges ==
  ASSUME DiskInv, NEW f \in Files, NEW bytes,
         \/ disk' = Put(disk, f, bytes) /\ bytes \in Seq(Nat) /\ Len(bytes) <= MaxSize
         \/ disk' = Drop(disk, {f})
         \/ disk' = disk
  PROVE  DiskInv'
<1>1. CASE disk' = Put(disk, f, bytes) /\ bytes \in Seq(Nat) /\ Len(bytes) <= MaxSize
  <2>1. DOMAIN disk' = DOMAIN disk \cup {f}
        /\ \A x \in DOMAIN disk \cup {f} : disk'[x] = IF x = f THEN bytes ELSE disk[x]
    BY <1>1 DEF Put, Drop
  <2> QED
    BY <1>1, <2>1 DEF DiskInv
<1>2. CASE disk' = Drop(disk, {f}) \/ disk' = disk
  <2>1. DOMAIN disk' \subseteq DOMAIN disk /\ \A x \in DOMAIN disk' : disk'[x] = disk[x]
    BY <1>2 DEF Drop
  <2> QED
    BY <2>1 DEF DiskInv
<1> QED
  BY <1>1, <1>2

\* A thread goes to a point with locals that are sound there.
LEMMA CallsMove ==
  ASSUME CallsInv, NEW t \in Threads, NEW point \in Points, NEW l, Enter(t, point, l),
         calls' \in 0 .. MaxCalls, calls <= calls', LocalsAreSound(point, l, calls')
  PROVE  CallsInv'
<1>1. pc' = [pc EXCEPT ![t] = point] /\ loc' = [loc EXCEPT ![t] = l]
  BY DEF Enter, Goto
<1>2. pc' \in [Threads -> Points] /\ DOMAIN loc' = Threads
      /\ \A u \in Threads : pc'[u] = (IF u = t THEN point ELSE pc[u])
                         /\ loc'[u] = (IF u = t THEN l ELSE loc[u])
  BY <1>1 DEF CallsInv
<1>3. calls \in Nat /\ calls' \in Nat
  BY DirtyAssumption DEF CallsInv
<1>4. ASSUME NEW u \in Threads PROVE LocalsAreSound(pc[u], loc[u], calls')
  <2>1. LocalsAreSound(pc[u], loc[u], calls)
    BY DEF CallsInv
  <2>2. WriteIsSound(loc[u], calls) => WriteIsSound(loc[u], calls')
    BY <1>3 DEF WriteIsSound
  <2>3. ChunkIsSound(loc[u].f, loc[u].c, loc[u].data, calls)
        => ChunkIsSound(loc[u].f, loc[u].c, loc[u].data, calls')
    BY <1>3, LaterIsSound
  <2> QED
    BY <2>1, <2>2, <2>3 DEF LocalsAreSound
<1> QED
  BY <1>2, <1>4 DEF CallsInv

-----------------------------------------------------------------------------
(* Calls *)

\* The locals of a thread without a call.
LEMMA NoLocalsIsSound == NoLocals \in Locals
BY DEF NoLocals, Locals, Names

\* The locals of a thread that begins a call.
LEMMA FirstLocals ==
  ASSUME NEW op \in Names, NEW f \in Files \cup {NoContent}, NEW off \in Nat, NEW n \in Nat
  PROVE  /\ Args(op, f, off, n) \in Locals
         /\ Args(op, f, off, n).op = op /\ Args(op, f, off, n).f = f
         /\ Args(op, f, off, n).off = off /\ Args(op, f, off, n).len = n
         /\ Args(op, f, off, n).sent = 0
BY NoLocalsIsSound DEF Args, Locals, NoLocals

\* At these points nothing is asked of the locals.
LEMMA Finishes ==
  ASSUME CallsInv, NEW t \in Threads, NEW l, l \in Locals, NEW point \in {"idle", "clear_meta"},
         Enter(t, point, l), calls' \in 0 .. MaxCalls, calls <= calls'
  PROVE  CallsInv'
<1>1. LocalsAreSound(point, l, calls')
  BY DEF LocalsAreSound, Walking
<1>2. point \in Points
  BY DEF Points
<1> QED
  BY <1>1, <1>2, CallsMove

\* A step that leaves metadata, pool and write cache alone.
LEMMA SharedStays ==
  ASSUME DirtyInv, UNCHANGED shared, calls' \in Nat, calls <= calls'
  PROVE  MetaInv' /\ PoolInv' /\ DiskInv'
<1>1. MetaInv /\ PoolInv /\ DiskInv /\ calls \in Nat /\ UNCHANGED <<meta, pool, disk>>
  BY DirtyAssumption DEF DirtyInv, CallsInv, shared
<1>2. MetaInv' /\ DiskInv'
  BY <1>1 DEF MetaInv, DiskInv
<1>3. PoolInv'
  BY <1>1, PoolShrinks
<1> QED
  BY <1>2, <1>3

\* Begin counts the call; a step within a call does not.
LEMMA CallsCount ==
  ASSUME DirtyInv
  PROVE  /\ CallsInv /\ MetaInv /\ PoolInv /\ DiskInv
         /\ calls \in 0 .. MaxCalls /\ calls \in Nat /\ MaxSize \in Nat /\ MaxCalls \in Nat
         /\ \A t, op : Begin(t, op) =>
              calls' = calls + 1 /\ calls' \in 0 .. MaxCalls /\ calls <= calls' /\ calls' \in Nat
         /\ \A t, from : Step(t, from) =>
              calls' = calls /\ calls' \in 0 .. MaxCalls /\ calls <= calls' /\ calls' \in Nat
BY DirtyAssumption DEF DirtyInv, CallsInv, Begin, Step

\* A call that only changes its thread's locals.
LEMMA LocalStep ==
  ASSUME DirtyInv, NEW t \in Threads, NEW point \in Points, NEW l, Enter(t, point, l),
         UNCHANGED shared, calls' \in 0 .. MaxCalls, calls <= calls',
         LocalsAreSound(point, l, calls')
  PROVE  DirtyInv'
<1>1. calls' \in Nat
  BY DirtyAssumption
<1> QED
  BY <1>1, SharedStays, CallsCount, CallsMove DEF DirtyInv

\* A call or a step that ends, or fails, without a change.
LEMMA FinishingStep ==
  ASSUME DirtyInv, NEW t \in Threads, NEW r, Finish(t, r), UNCHANGED shared,
         calls' \in 0 .. MaxCalls, calls <= calls'
  PROVE  DirtyInv'
<1>1. calls' \in Nat
  BY DirtyAssumption
<1> QED
  BY <1>1, SharedStays, CallsCount, Finishes, NoLocalsIsSound DEF DirtyInv, Finish

\* One lemma for each call.
LEMMA CreateKeepsInv ==
  ASSUME DirtyInv, NEW t \in Threads, NEW f \in Files, CallCreate(t, f) PROVE DirtyInv'
<1>1. /\ MetaInv /\ PoolInv /\ DiskInv /\ CallsInv /\ calls \in Nat
      /\ calls' \in 0 .. MaxCalls /\ calls <= calls' /\ calls' \in Nat
  BY CallsCount DEF CallCreate
<1>2. meta' = Put(meta, f, NewFile) /\ Finish(t, Done) /\ UNCHANGED <<pool, disk>>
  BY DEF CallCreate
<1>3. EntryIsSound(f, NewFile)
  BY LastChunk, DirtyAssumption DEF EntryIsSound, NewFile, Metadata
<1>4. MetaInv'
  BY <1>1, <1>2, <1>3, MetaInserts
<1>5. PoolInv' /\ DiskInv' /\ CallsInv'
  BY <1>1, <1>2, PoolShrinks, DiskChanges, Finishes, NoLocalsIsSound DEF Finish
<1> QED
  BY <1>4, <1>5 DEF DirtyInv

\* A visible file without metadata is one of the manifest.
LEMMA VisibleIsKnown ==
  ASSUME NEW f, Visible(f), f \notin DOMAIN meta
  PROVE  InManifest(f)
BY DEF Visible

LEMMA WriteKeepsInv ==
  ASSUME DirtyInv, NEW t \in Threads, NEW f \in Files, NEW s \in WriteSpans, CallWrite(t, f, s)
  PROVE  DirtyInv'
<1> DEFINE a == Args("write", f, s[1], s[2])
           l == [a EXCEPT !.val = calls + 1]
           point == IF f \in DOMAIN meta THEN "write_plan" ELSE "cow"
<1>1. /\ calls \in Nat /\ calls' = calls + 1 /\ calls' \in Nat
      /\ calls' \in 0 .. MaxCalls /\ calls <= calls'
  BY CallsCount DEF CallWrite
<1>2. s[1] \in Nat /\ s[2] \in Nat \ {0} /\ s[1] + s[2] <= MaxSize
  BY DirtyAssumption
<1>3. a \in Locals /\ a.op = "write" /\ a.f = f /\ a.off = s[1] /\ a.len = s[2]
      /\ a.sent = 0
  BY <1>2, FirstLocals DEF Names
<1>4. Visible(f) /\ Enter(t, point, l) /\ UNCHANGED shared
  BY DEF CallWrite, Continue
<1> HIDE DEF a
<1>5. /\ l \in Locals /\ l.op = "write" /\ l.f = f /\ l.off = s[1] /\ l.len = s[2]
      /\ l.val = calls + 1 /\ l.sent = 0
  BY <1>1, <1>3 DEF Locals
<1> HIDE DEF l
<1>6. point \in {"write_plan", "cow"} /\ (point = "cow" => InManifest(f)) /\ point \in Points
  BY <1>4, VisibleIsKnown DEF Points
<1> HIDE DEF point
<1>7. LocalsAreSound(point, l, calls')
  BY <1>1, <1>2, <1>5, <1>6 DEF LocalsAreSound, WriteIsSound, Walking
<1> QED
  BY <1>1, <1>4, <1>6, <1>7, LocalStep

LEMMA TruncateKeepsInv ==
  ASSUME DirtyInv, NEW t \in Threads, NEW f \in Files, NEW n \in TruncSizes, CallTruncate(t, f, n)
  PROVE  DirtyInv'
<1> DEFINE l == Args("truncate", f, 0, n)
           point == IF f \in DOMAIN meta THEN "trunc_plan" ELSE "cow"
<1>1. calls' \in Nat /\ calls' \in 0 .. MaxCalls /\ calls <= calls'
  BY CallsCount DEF CallTruncate
<1>2. n \in Nat /\ n <= MaxSize
  BY DirtyAssumption
<1>3. l \in Locals /\ l.op = "truncate" /\ l.f = f /\ l.len = n /\ l.sent = 0
  BY <1>2, FirstLocals DEF Names
<1>4. Visible(f) /\ Enter(t, point, l) /\ UNCHANGED shared
  BY DEF CallTruncate, Continue
<1> HIDE DEF l
<1>5. point \in {"trunc_plan", "cow"} /\ (point = "cow" => InManifest(f)) /\ point \in Points
  BY <1>4, VisibleIsKnown DEF Points
<1> HIDE DEF point
<1>6. LocalsAreSound(point, l, calls')
  BY <1>2, <1>3, <1>5 DEF LocalsAreSound, Walking
<1> QED
  BY <1>1, <1>4, <1>5, <1>6, LocalStep

LEMMA ReadKeepsInv ==
  ASSUME DirtyInv, NEW t \in Threads, NEW f \in Files, NEW s \in ReadSpans,
         CallRead(t, f, s) \/ CallCleanRead(t, f, s)
  PROVE  DirtyInv'
<1>1. calls' \in Nat /\ calls' \in 0 .. MaxCalls /\ calls <= calls'
  BY CallsCount DEF CallRead, CallCleanRead
<1>2. CASE CallRead(t, f, s)
  <2> DEFINE l == Args("read", f, s[1], s[2])
  <2>1. s[1] \in Nat /\ s[2] \in Nat \ {0}
    BY DirtyAssumption
  <2>2. l \in Locals /\ l.op = "read" /\ l.f = f /\ l.len = s[2]
    BY <2>1, FirstLocals DEF Names
  <2>3. Enter(t, "read_plan", l) /\ UNCHANGED shared
    BY <1>2 DEF CallRead, Continue
  <2> HIDE DEF l
  <2>4. LocalsAreSound("read_plan", l, calls')
    BY <2>1, <2>2 DEF LocalsAreSound, Walking
  <2> QED
    BY <1>1, <2>3, <2>4, LocalStep DEF Points
<1>3. CASE CallCleanRead(t, f, s)
  BY <1>1, <1>3, FinishingStep DEF CallCleanRead
<1> QED
  BY <1>2, <1>3

LEMMA FlushKeepsInv ==
  ASSUME DirtyInv, NEW t \in Threads, NEW f \in Files, CallFlush(t, f) PROVE DirtyInv'
<1> DEFINE l == Args("flush", f, 0, 0)
<1>1. calls' \in Nat /\ calls' \in 0 .. MaxCalls /\ calls <= calls'
  BY CallsCount DEF CallFlush
<1>2. l \in Locals /\ l.op = "flush" /\ l.f = f
  BY FirstLocals DEF Names
<1>3. Enter(t, "flush", l) /\ UNCHANGED shared
  BY DEF CallFlush, Continue
<1> HIDE DEF l
<1>4. LocalsAreSound("flush", l, calls')
  BY <1>2 DEF LocalsAreSound, Walking
<1> QED
  BY <1>1, <1>3, <1>4, LocalStep DEF Points

LEMMA DeleteKeepsInv ==
  ASSUME DirtyInv, NEW t \in Threads, NEW f \in Files, CallDelete(t, f) PROVE DirtyInv'
<1> DEFINE l == Args("delete", f, 0, 0)
           point == IF f \notin DOMAIN meta THEN "del_insert"
                    ELSE IF meta[f].state = "New" THEN "del_new_blocks" ELSE "del_mark"
<1>1. calls' \in Nat /\ calls' \in 0 .. MaxCalls /\ calls <= calls' /\ MetaInv
  BY CallsCount DEF CallDelete
<1>2. l \in Locals /\ l.op = "delete" /\ l.f = f
  BY FirstLocals DEF Names
<1>3. Visible(f) /\ Enter(t, point, l) /\ UNCHANGED shared
  BY DEF CallDelete, Continue
<1>4. f \in DOMAIN meta => EntryIsSound(f, meta[f])
  BY <1>1 DEF MetaInv
<1>5. /\ point \in {"del_insert", "del_new_blocks", "del_mark"} /\ point \in Points
      /\ point \in {"del_insert", "del_mark"} => InManifest(f)
  BY <1>3, <1>4, VisibleIsKnown DEF Points, EntryIsSound
<1> HIDE DEF l, point
<1>6. LocalsAreSound(point, l, calls')
  BY <1>2, <1>5 DEF LocalsAreSound, Walking
<1> QED
  BY <1>1, <1>3, <1>5, <1>6, LocalStep

LEMMA RemoveNewKeepsInv ==
  ASSUME DirtyInv, NEW t \in Threads, NEW D, CallRemoveNew(t, D) PROVE DirtyInv'
<1> DEFINE gone == {f \in D \cap DOMAIN meta : meta[f].state = "New"}
<1>1. /\ MetaInv /\ PoolInv /\ DiskInv /\ CallsInv /\ calls \in Nat
      /\ calls' \in 0 .. MaxCalls /\ calls <= calls' /\ calls' \in Nat
  BY CallsCount DEF CallRemoveNew
<1>2. /\ meta' = Drop(meta, gone) /\ pool' = Drop(pool, Blocks(gone))
      /\ Finish(t, Done) /\ disk' = disk
  BY DEF CallRemoveNew
<1> HIDE DEF gone
<1>3. MetaInv' /\ PoolInv'
  BY <1>1, <1>2, MetaShrinks, PoolShrinks
<1>4. DiskInv' /\ CallsInv'
  BY <1>1, <1>2, Finishes, NoLocalsIsSound DEF Finish, DiskInv
<1> QED
  BY <1>3, <1>4 DEF DirtyInv

LEMMA ClearKeepsInv ==
  ASSUME DirtyInv, NEW t \in Threads, CallClear(t) PROVE DirtyInv'
<1> DEFINE l == Args("clear", NoContent, 0, 0)
<1>1. /\ MetaInv /\ PoolInv /\ DiskInv /\ CallsInv /\ calls \in Nat
      /\ calls' \in 0 .. MaxCalls /\ calls <= calls' /\ calls' \in Nat
  BY CallsCount DEF CallClear
<1>2. /\ pool' = Drop(pool, Blocks(DOMAIN meta)) /\ Enter(t, "clear_meta", l)
      /\ UNCHANGED <<meta, disk>>
  BY DEF CallClear, Continue
<1>3. l \in Locals
  BY FirstLocals DEF Names
<1> HIDE DEF l
<1>4. PoolInv' /\ MetaInv' /\ DiskInv'
  BY <1>1, <1>2, PoolShrinks DEF MetaInv, DiskInv
<1>5. CallsInv'
  BY <1>1, <1>2, <1>3, Finishes
<1> QED
  BY <1>4, <1>5 DEF DirtyInv

LEMMA ClearMetaKeepsInv ==
  ASSUME DirtyInv, NEW t \in Threads, ClearMeta(t) PROVE DirtyInv'
<1>1. /\ MetaInv /\ PoolInv /\ DiskInv /\ CallsInv /\ calls \in Nat
      /\ calls' \in 0 .. MaxCalls /\ calls <= calls' /\ calls' \in Nat
  BY CallsCount DEF ClearMeta
<1>2. meta' = << >> /\ Finish(t, Done) /\ UNCHANGED <<pool, disk>>
  BY DEF ClearMeta
<1>3. MetaInv' /\ PoolInv' /\ DiskInv'
  BY <1>1, <1>2, MetaShrinks, PoolShrinks DEF DiskInv
<1>4. CallsInv'
  BY <1>1, <1>2, Finishes, NoLocalsIsSound DEF Finish
<1> QED
  BY <1>3, <1>4 DEF DirtyInv

-----------------------------------------------------------------------------
(* Steps of a call *)

\* What a step of a call may rely on.
LEMMA InACall ==
  ASSUME DirtyInv, NEW t \in Threads, NEW from, Step(t, from)
  PROVE  /\ CallsInv /\ MetaInv /\ PoolInv /\ DiskInv
         /\ LocalsAreSound(from, loc[t], calls) /\ loc[t] \in Locals
         /\ calls' = calls /\ calls \in Nat /\ calls' \in 0 .. MaxCalls /\ calls <= calls'
BY CallsCount DEF CallsInv, Step, LocalsAreSound

\* The metadata changes, and the thread goes on.
LEMMA MetaStep ==
  ASSUME DirtyInv, MetaInv', UNCHANGED <<pool, disk>>, calls' = calls,
         NEW t \in Threads, NEW point \in Points, NEW l, Enter(t, point, l),
         LocalsAreSound(point, l, calls)
  PROVE  DirtyInv'
<1>1. PoolInv /\ DiskInv /\ CallsInv /\ calls \in 0 .. MaxCalls /\ calls \in Nat
  BY CallsCount
<1>2. PoolInv' /\ DiskInv'
  BY <1>1, PoolShrinks DEF DiskInv
<1>3. CallsInv'
  BY <1>1, CallsMove
<1> QED
  BY <1>2, <1>3 DEF DirtyInv

\* The pool changes, and the thread goes on.
LEMMA PoolStep ==
  ASSUME DirtyInv, PoolInv', UNCHANGED <<meta, disk>>, calls' = calls,
         NEW t \in Threads, NEW point \in Points, NEW l, Enter(t, point, l),
         LocalsAreSound(point, l, calls)
  PROVE  DirtyInv'
<1>1. MetaInv /\ DiskInv /\ CallsInv /\ calls \in 0 .. MaxCalls /\ calls \in Nat
  BY CallsCount
<1>2. MetaInv' /\ DiskInv'
  BY <1>1 DEF MetaInv, DiskInv
<1>3. CallsInv'
  BY <1>1, CallsMove
<1> QED
  BY <1>2, <1>3 DEF DirtyInv

\* A thread without a call.
LEMMA IdleIsSound ==
  ASSUME NEW n
  PROVE  LocalsAreSound("idle", NoLocals, n) /\ "idle" \in Points
BY NoLocalsIsSound DEF LocalsAreSound, Walking, Points

\* The first entry of a file of the manifest, modified or deleted.
LEMMA CowIsSound ==
  ASSUME NEW f \in Files, InManifest(f)
  PROVE  EntryIsSound(f, FromCow(f)) /\ EntryIsSound(f, MarkDeleted(FromCow(f)))
<1>1. Len(Original[f]) \in 0 .. MaxSize /\ MaxSize \in Nat
  BY DirtyAssumption DEF InManifest
<1>2. ChunksOf(Len(Original[f])) \in 1 .. ChunksOf(MaxSize) /\ ChunksOf(MaxSize) \in Nat
  BY <1>1, LastChunk
<1> DEFINE m == FromCow(f)
<1>3. /\ m \in Metadata /\ m.size <= MaxSize /\ m.dirty = {} /\ m.state = "Modified"
      /\ m.chunk_count <= ChunksOf(MaxSize) /\ m.chunk_count > 0
  BY <1>1, <1>2 DEF FromCow, Metadata
<1>4. EntryIsSound(f, m)
  BY <1>3 DEF EntryIsSound
<1> HIDE DEF m
<1> DEFINE d == MarkDeleted(m)
<1>5. /\ d \in Metadata /\ d.size = 0 /\ d.chunk_count = 0 /\ d.dirty = {}
      /\ d.state = "Deleted"
  BY <1>3 DEF MarkDeleted, Metadata
<1> HIDE DEF d
<1>6. EntryIsSound(f, d)
  BY <1>1, <1>2, <1>5 DEF EntryIsSound
<1> QED
  BY <1>4, <1>6 DEF m, d

\* One lemma for each step, and one for all that only fail.
LEMMA CowKeepsInv == ASSUME DirtyInv, NEW t \in Threads, Cow(t) PROVE DirtyInv'
<1> DEFINE l == loc[t]
           point == IF l.op = "write" THEN "write_plan" ELSE "trunc_plan"
<1>1. MetaInv /\ LocalsAreSound("cow", l, calls) /\ calls' = calls
  BY InACall DEF Cow
<1>2. meta' = Put(meta, l.f, FromCow(l.f)) /\ Enter(t, point, l) /\ UNCHANGED <<pool, disk>>
  BY DEF Cow, Continue
<1> HIDE DEF l
<1>3. l.f \in Files /\ InManifest(l.f)
  BY <1>1 DEF LocalsAreSound
<1>4. MetaInv'
  BY <1>1, <1>2, <1>3, CowIsSound, MetaInserts
<1>5. point \in Points /\ LocalsAreSound(point, l, calls)
  BY <1>1 DEF LocalsAreSound, Points, Walking
<1> HIDE DEF point
<1> QED
  BY <1>1, <1>2, <1>4, <1>5, MetaStep

\* The steps after which a call has failed, without another change.
LEMMA FailuresKeepInv ==
  ASSUME DirtyInv, NEW t \in Threads,
         EntryGone(t) \/ EnsureFails(t) \/ ModifyFails(t) \/ ChunkNotLoaded(t) \/ DiskFails(t)
  PROVE  DirtyInv'
<1>1. \E from : Step(t, from)
  BY DEF EntryGone, EnsureFails, ModifyFails, ChunkNotLoaded, DiskFails
<1>2. Finish(t, Failed) /\ UNCHANGED shared
  BY DEF EntryGone, EnsureFails, ModifyFails, ChunkNotLoaded, DiskFails, Fail
<1> QED
  BY <1>1, <1>2, InACall, FinishingStep

LEMMA EnsureHitKeepsInv == ASSUME DirtyInv, NEW t \in Threads, EnsureHit(t) PROVE DirtyInv'
<1> DEFINE l == loc[t]
<1>1. /\ LocalsAreSound("ensure", l, calls) /\ calls' = calls
      /\ calls' \in 0 .. MaxCalls /\ calls <= calls'
  BY InACall DEF EnsureHit
<1>2. Enter(t, "use", l) /\ UNCHANGED shared
  BY DEF EnsureHit, Continue
<1> HIDE DEF l
<1>3. LocalsAreSound("use", l, calls')
  BY <1>1 DEF LocalsAreSound, Walking
<1> QED
  BY <1>1, <1>2, <1>3, LocalStep DEF Points

LEMMA EnsureMissKeepsInv == ASSUME DirtyInv, NEW t \in Threads, EnsureMiss(t) PROVE DirtyInv'
<1> DEFINE l == loc[t]
           data == IF HasOriginal(l.f, l.c) THEN OriginalChunk(l.f, l.c) ELSE << >>
           r == [l EXCEPT !.data = data]
<1>1. /\ LocalsAreSound("ensure", l, calls) /\ calls' = calls /\ l \in Locals
      /\ calls' \in 0 .. MaxCalls /\ calls <= calls'
  BY InACall DEF EnsureMiss
<1>2. Enter(t, "load", r) /\ UNCHANGED shared
  BY DEF EnsureMiss, Continue
<1>3. l.f \in Files /\ l.c \in Nat /\ WalkIsSound(l)
  BY <1>1 DEF LocalsAreSound, Walking, Locals
<1>4. ChunkIsSound(l.f, l.c, data, calls)
  BY <1>3, OriginalIsSound, EmptyIsSound
<1>5. data \in Seq(Nat)
  BY <1>4 DEF ChunkIsSound
<1>6. l.c \in Chunks
  <2>1. l.last \in Chunks /\ l.c <= l.last
    BY <1>3 DEF WalkIsSound
  <2> QED
    BY <1>3, <2>1, ChunkBelow
<1> HIDE DEF l, data
<1>7. /\ r \in Locals /\ r.data = data /\ r.f = l.f /\ r.c = l.c /\ r.op = l.op /\ r.off = l.off
      /\ r.len = l.len /\ r.val = l.val /\ r.first = l.first /\ r.last = l.last /\ r.sent = l.sent
  BY <1>1, <1>5 DEF Locals
<1> HIDE DEF r
<1>8. LocalsAreSound("load", r, calls')
  BY <1>1, <1>4, <1>6, <1>7 DEF LocalsAreSound, Walking, WalkIsSound, WriteIsSound
<1> QED
  BY <1>1, <1>2, <1>8, LocalStep DEF Points

LEMMA LoadKeepsInv == ASSUME DirtyInv, NEW t \in Threads, Load(t) PROVE DirtyInv'
<1> DEFINE l == loc[t]
           none == << >>
           r == [l EXCEPT !.data = none]
<1>1. /\ LocalsAreSound("load", l, calls) /\ calls' = calls /\ l \in Locals /\ PoolInv
      /\ none \in Seq(Nat)
  BY InACall DEF Load
<1>2. InsertDirty(l.f, l.c, l.data) /\ Enter(t, "load_mark", r) /\ UNCHANGED <<meta, disk>>
  BY DEF Load, Continue
<1> HIDE DEF l, none
<1>3. PoolInv'
  BY <1>1, <1>2, PoolInserts DEF LocalsAreSound
<1>4. /\ r \in Locals /\ r.f = l.f /\ r.c = l.c /\ r.op = l.op /\ r.off = l.off
      /\ r.len = l.len /\ r.val = l.val /\ r.first = l.first /\ r.last = l.last /\ r.sent = l.sent
  BY <1>1 DEF Locals
<1> HIDE DEF r
<1>5. LocalsAreSound("load_mark", r, calls)
  BY <1>1, <1>4 DEF LocalsAreSound, Walking, WalkIsSound, WriteIsSound
<1> QED
  BY <1>1, <1>2, <1>3, <1>5, PoolStep DEF Points

\* The block is gone and the call fails.
LEMMA ExhaustedKeepsInv == ASSUME DirtyInv, NEW t \in Threads, Exhausted(t) PROVE DirtyInv'
<1>1. calls' = calls /\ PoolInv /\ calls \in Nat /\ calls' \in Nat /\ calls <= calls'
  BY InACall DEF Exhausted
<1>2. /\ pool' = Drop(pool, {<<loc[t].f, loc[t].c>>}) /\ Enter(t, "idle", NoLocals)
      /\ UNCHANGED <<meta, disk>>
  BY DEF Exhausted, Fail, Finish
<1>3. PoolInv'
  BY <1>1, <1>2, PoolShrinks
<1> QED
  BY <1>1, <1>2, <1>3, IdleIsSound, PoolStep

LEMMA LoadMarkKeepsInv == ASSUME DirtyInv, NEW t \in Threads, LoadMark(t) PROVE DirtyInv'
<1> DEFINE l == loc[t]
<1>1. LocalsAreSound("load_mark", l, calls) /\ calls' = calls /\ PoolInv
  BY InACall DEF LoadMark
<1>2. MarkFlushed(l.f, l.c) /\ Enter(t, "use", l) /\ UNCHANGED <<meta, disk>>
  BY DEF LoadMark, Continue
<1> HIDE DEF l
<1>3. PoolInv'
  BY <1>1, <1>2, PoolMarks
<1>4. LocalsAreSound("use", l, calls)
  BY <1>1 DEF LocalsAreSound, Walking
<1> QED
  BY <1>1, <1>2, <1>3, <1>4, PoolStep DEF Points

-----------------------------------------------------------------------------
(* Writes *)

\* The chunks of a range.
LEMMA WalkStarts ==
  ASSUME NEW l \in Locals, NEW single \in BOOLEAN, NEW first \in Nat, NEW last \in Nat
  PROVE  LET r == Walk(l, single, first, last) IN
         /\ r \in Locals /\ r.c = first /\ r.first = first /\ r.last = last
         /\ r.f = l.f /\ r.op = l.op /\ r.off = l.off /\ r.len = l.len /\ r.val = l.val
         /\ r.sent = l.sent
<1> DEFINE sync == \A c \in first .. last : InPool(l.f, c)
           r == [l EXCEPT !.single = single, !.c = first, !.first = first, !.last = last,
                          !.sync = sync]
<1>1. sync \in BOOLEAN
  OBVIOUS
<1> HIDE DEF sync
<1>2. /\ r \in Locals /\ r.c = first /\ r.first = first /\ r.last = last
      /\ r.f = l.f /\ r.op = l.op /\ r.off = l.off /\ r.len = l.len /\ r.val = l.val
      /\ r.sent = l.sent
  BY <1>1 DEF Locals
<1> QED
  BY <1>2 DEF Walk, sync

LEMMA WritePlanKeepsInv == ASSUME DirtyInv, NEW t \in Threads, WritePlan(t) PROVE DirtyInv'
<1> DEFINE l == loc[t]
           single == meta[l.f].chunk_count <= 1 /\ l.off + l.len <= ChunkSize
           first == l.off \div ChunkSize
           last == (l.off + l.len - 1) \div ChunkSize
           r == Walk(l, single, first, last)
<1>1. /\ LocalsAreSound("write_plan", l, calls) /\ calls' = calls /\ l \in Locals
      /\ calls' \in 0 .. MaxCalls /\ calls <= calls'
  BY InACall DEF WritePlan
<1>2. Enter(t, "ensure", r) /\ UNCHANGED shared
  BY DEF WritePlan, Continue
<1> HIDE DEF l
<1>3. /\ l.op = "write" /\ l.off \in Nat /\ l.len \in Nat /\ l.len > 0 /\ l.sent = 0
      /\ l.off + l.len <= MaxSize /\ l.f \in Files /\ WriteIsSound(l, calls)
  BY <1>1 DEF LocalsAreSound, WriteIsSound, Locals
<1>4. single \in BOOLEAN
  OBVIOUS
<1>5. first \in Nat /\ first * ChunkSize <= l.off /\ l.off < (first + 1) * ChunkSize
  BY <1>3, Division
<1>6. l.off + l.len - 1 \in Nat
  BY <1>3
<1>7. /\ last \in Nat /\ last * ChunkSize <= l.off + l.len - 1
      /\ l.off + l.len - 1 < (last + 1) * ChunkSize
  BY <1>6, Division
<1> HIDE DEF single, first, last
<1>8. /\ r \in Locals /\ r.c = first /\ r.first = first /\ r.last = last
      /\ r.f = l.f /\ r.op = l.op /\ r.off = l.off /\ r.len = l.len /\ r.val = l.val
      /\ r.sent = l.sent
  BY <1>1, <1>4, <1>5, <1>7, WalkStarts
<1> HIDE DEF r
<1>9. /\ first * ChunkSize \in Nat /\ last * ChunkSize \in Nat /\ (last + 1) * ChunkSize \in Nat
      /\ MaxSize \in Nat /\ last + 1 \in Nat
  BY <1>5, <1>7, Times, DirtyAssumption
<1>10. last * ChunkSize < l.off + l.len /\ l.off + l.len <= (last + 1) * ChunkSize
  BY <1>3, <1>7, <1>9
<1>11. first <= last
  <2>1. first * ChunkSize < (last + 1) * ChunkSize
    BY <1>3, <1>5, <1>9, <1>10
  <2>2. first < last + 1
    BY <1>5, <1>9, <2>1, Times
  <2> QED
    BY <1>5, <1>7, <2>2
<1>12. last \in Chunks
  BY <1>3, <1>6, <1>7, <1>9, <1>10, ChunkInRange
<1>13. WalkIsSound(r)
  BY <1>3, <1>5, <1>8, <1>10, <1>11, <1>12 DEF WalkIsSound
<1>14. LocalsAreSound("ensure", r, calls')
  BY <1>1, <1>3, <1>8, <1>13 DEF LocalsAreSound, Walking, WriteIsSound
<1> QED
  BY <1>1, <1>2, <1>14, LocalStep DEF Points

\* Of a write at one of its chunks: the bytes that go there fit in, and are those of
\* its place; and how many they are.
LEMMA PartFits ==
  ASSUME NEW l \in Locals, NEW n \in Nat, WalkIsSound(l), WriteIsSound(l, n), l.op = "write",
         l.len > 0
  PROVE  /\ l.c \in Chunks /\ l.c \in Nat /\ From(l) \in Nat
         /\ Part(l) \in Seq(Nat) /\ Len(Part(l)) = Until(l) - From(l) /\ Len(Part(l)) \in Nat
         /\ From(l) + Len(Part(l)) <= ChunkSize
         /\ \A k \in 1 .. Len(Part(l)) : Part(l)[k] = Byte(l.val, l.c * ChunkSize + From(l) + k)
         /\ l.c < l.last => l.off + l.sent + Len(Part(l)) = (l.c + 1) * ChunkSize
<1> DEFINE C == l.c * ChunkSize
<1>1. /\ l.off \in Nat /\ l.len \in Nat /\ l.c \in Nat /\ l.first \in Nat /\ l.last \in Nat
      /\ l.sent \in Nat /\ l.val \in Nat
  BY DEF Locals
<1>2. /\ l.first <= l.c /\ l.c <= l.last /\ l.last \in Chunks
      /\ l.first * ChunkSize <= l.off /\ l.off < (l.first + 1) * ChunkSize
      /\ l.last * ChunkSize < l.off + l.len /\ l.off + l.len <= (l.last + 1) * ChunkSize
      /\ l.c = l.first => l.sent = 0
      /\ l.c # l.first => l.off + l.sent = C
  BY DEF WalkIsSound
<1>3. /\ C \in Nat /\ (l.c + 1) * ChunkSize = C + ChunkSize /\ ChunkSize \in Nat /\ ChunkSize > 0
      /\ l.first * ChunkSize <= C /\ C <= l.last * ChunkSize
      /\ l.first * ChunkSize \in Nat /\ l.last * ChunkSize \in Nat
      /\ (l.last + 1) * ChunkSize = l.last * ChunkSize + ChunkSize
      /\ (l.first + 1) * ChunkSize = l.first * ChunkSize + ChunkSize
  <2>1. ChunkSize \in Nat /\ ChunkSize > 0
    BY DirtyAssumption
  <2>2. C \in Nat /\ (l.c + 1) * ChunkSize = C + ChunkSize /\ C <= l.last * ChunkSize
    BY <1>1, <1>2, Times
  <2>3. /\ l.first * ChunkSize \in Nat /\ l.first * ChunkSize <= C
        /\ (l.first + 1) * ChunkSize = l.first * ChunkSize + ChunkSize
    BY <1>1, <1>2, Times
  <2>4. /\ l.last * ChunkSize \in Nat
        /\ (l.last + 1) * ChunkSize = l.last * ChunkSize + ChunkSize
    BY <1>1, Times
  <2> QED
    BY <2>1, <2>2, <2>3, <2>4
<1> HIDE DEF C
<1> DEFINE from == IF l.c = l.first THEN l.off - C ELSE 0
           until == IF l.c = l.last THEN l.off + l.len - C ELSE ChunkSize
<1>4. From(l) = from /\ Until(l) = until
  BY DEF From, Until, C
<1>5. from \in Nat /\ from < ChunkSize
  <2>1. l.c = l.first => C = l.first * ChunkSize
    BY DEF C
  <2> QED
    BY <1>1, <1>2, <1>3, <2>1
<1>6. until \in Nat /\ until <= ChunkSize /\ from <= until
  <2>1. CASE l.c = l.last
    <3>1. C = l.last * ChunkSize
      BY <2>1 DEF C
    <3> QED
      BY <1>1, <1>2, <1>3, <1>5, <2>1, <3>1
  <2>2. CASE l.c # l.last
    BY <1>3, <1>5, <2>2
  <2> QED
    BY <2>1, <2>2
<1>7. l.off + l.sent = C + from
  BY <1>1, <1>2, <1>3
<1> HIDE DEF from, until
<1> DEFINE p == [i \in 1 .. until - from |-> Byte(l.val, l.off + l.sent + i)]
<1>8. Part(l) = p
  BY <1>4 DEF Part
<1>9. until - from \in Nat
  BY <1>5, <1>6
<1>10. \A i \in 1 .. until - from : Byte(l.val, l.off + l.sent + i) \in Nat
  BY <1>1, <1>9 DEF Byte
<1>11. p \in Seq(Nat) /\ Len(p) = until - from
  BY <1>9, <1>10
<1>12. \A k \in 1 .. Len(p) : p[k] = Byte(l.val, C + from + k)
  BY <1>7, <1>11
<1> HIDE DEF p
<1>13. l.c < l.last => l.off + l.sent + Len(p) = (l.c + 1) * ChunkSize
  <2> SUFFICES ASSUME l.c < l.last PROVE l.off + l.sent + Len(p) = (l.c + 1) * ChunkSize
    OBVIOUS
  <2>1. until = ChunkSize
    BY <1>1 DEF until
  <2> QED
    BY <1>1, <1>3, <1>5, <1>7, <1>11, <2>1
<1>14. from + Len(p) <= ChunkSize
  BY <1>5, <1>6, <1>11
<1>15. l.c \in Chunks
  BY <1>1, <1>2, ChunkBelow
<1> QED
  BY <1>1, <1>4, <1>5, <1>8, <1>9, <1>11, <1>12, <1>13, <1>14, <1>15 DEF C

\* What a write has in hand at one of its chunks.
LEMMA WritingIsSound ==
  ASSUME NEW n, NEW l, NEW point \in {"use", "mark", "grow"}, LocalsAreSound(point, l, n),
         l.op = "write"
  PROVE  l \in Locals /\ l.f \in Files /\ l.len > 0 /\ WriteIsSound(l, n)
         /\ (point # "grow" => WalkIsSound(l))
BY DEF LocalsAreSound, Walking

LEMMA ModifyKeepsInv == ASSUME DirtyInv, NEW t \in Threads, Modify(t) PROVE DirtyInv'
<1> DEFINE l == loc[t]
           old == pool[<<l.f, l.c>>]
           b == [data |-> Splice(old.data, From(l), Part(l)), needs_flush |-> TRUE]
<1>1. /\ LocalsAreSound("use", l, calls) /\ calls' = calls /\ PoolInv /\ l.op = "write"
      /\ calls \in Nat /\ InPool(l.f, l.c)
  BY InACall DEF Modify
<1>2. pool' = [pool EXCEPT ![<<l.f, l.c>>] = b] /\ Enter(t, "mark", l) /\ UNCHANGED <<meta, disk>>
  BY DEF Modify, Continue
<1> HIDE DEF l
<1>3. l \in Locals /\ l.f \in Files /\ l.len > 0 /\ WriteIsSound(l, calls) /\ WalkIsSound(l)
  BY <1>1, WritingIsSound
<1>4. /\ l.c \in Nat /\ From(l) \in Nat /\ Part(l) \in Seq(Nat)
      /\ From(l) + Len(Part(l)) <= ChunkSize
      /\ \A k \in 1 .. Len(Part(l)) : Part(l)[k] = Byte(l.val, l.c * ChunkSize + From(l) + k)
  BY <1>1, <1>3, PartFits
<1>5. ChunkIsSound(l.f, l.c, old.data, calls)
  <2>1. <<l.f, l.c>>[1] = l.f /\ <<l.f, l.c>>[2] = l.c
    OBVIOUS
  <2> QED
    BY <1>1, <2>1 DEF PoolInv, InPool
<1>6. ChunkIsSound(l.f, l.c, Splice(old.data, From(l), Part(l)), calls)
  BY <1>1, <1>3, <1>4, <1>5, SpliceIsSound DEF WriteIsSound
<1>7. b \in [data : Seq(Nat), needs_flush : BOOLEAN] /\ ChunkIsSound(l.f, l.c, b.data, calls)
  BY <1>6 DEF ChunkIsSound
<1> HIDE DEF b
<1>8. PoolInv'
  BY <1>1, <1>2, <1>7, PoolModifies
<1>9. LocalsAreSound("mark", l, calls)
  BY <1>1 DEF LocalsAreSound, Walking
<1> QED
  BY <1>1, <1>2, <1>8, <1>9, PoolStep DEF Points

\* A length is set: the number of chunks follows it.
LEMMA SetSizeIsSound ==
  ASSUME NEW f, NEW m, EntryIsSound(f, m), NEW n \in 0 .. MaxSize
  PROVE  EntryIsSound(f, SetSize(m, n))
<1> DEFINE count == ChunksOf(n)
           r == [m EXCEPT !.size = n, !.chunk_count = count]
<1>1. count \in 1 .. ChunksOf(MaxSize) /\ ChunksOf(MaxSize) \in Nat /\ MaxSize \in Nat
  BY LastChunk, DirtyAssumption
<1>2. m \in Metadata /\ n \in Nat /\ count \in Nat
  BY <1>1 DEF EntryIsSound
<1> HIDE DEF count
<1>3. /\ r \in Metadata /\ r.size = n /\ r.chunk_count = count /\ r.state = m.state
      /\ r.dirty = m.dirty
  BY <1>2 DEF Metadata
<1> HIDE DEF r
<1>4. EntryIsSound(f, r)
  BY <1>1, <1>2, <1>3 DEF EntryIsSound
<1> QED
  BY <1>4 DEF SetSize, r, count

\* A length that only grows.
LEMMA GrownIsSound ==
  ASSUME NEW f, NEW m, EntryIsSound(f, m), NEW n \in 0 .. MaxSize
  PROVE  EntryIsSound(f, Grown(m, n))
BY SetSizeIsSound DEF Grown

LEMMA MarkDirtyKeepsInv == ASSUME DirtyInv, NEW t \in Threads, MarkDirty(t) PROVE DirtyInv'
<1> DEFINE l == loc[t]
           old == meta[l.f]
           dirty == old.dirty \cup {l.c}
           marked == [old EXCEPT !.dirty = dirty]
           new == IF l.single THEN Grown(marked, l.off + l.len) ELSE marked
           c == l.c + 1
           sent == l.sent + Len(Part(l))
           next == [l EXCEPT !.c = c, !.sent = sent]
<1>1. /\ LocalsAreSound("mark", l, calls) /\ calls' = calls /\ MetaInv /\ calls \in Nat
      /\ calls' \in 0 .. MaxCalls /\ calls <= calls'
  BY InACall DEF MarkDirty
<1>2. /\ UpdateMeta(l.f, new) /\ UNCHANGED <<pool, disk>>
      /\ IF l.single THEN Enter(t, "idle", NoLocals)
         ELSE IF l.c < l.last THEN Enter(t, "ensure", next) ELSE Enter(t, "grow", l)
  BY DEF MarkDirty, Continue, Finish
<1> HIDE DEF l
<1>3. /\ l \in Locals /\ l.op = "write" /\ l.f \in Files /\ l.len > 0
      /\ WriteIsSound(l, calls) /\ WalkIsSound(l)
  BY <1>1, WritingIsSound DEF LocalsAreSound
<1>4. /\ l.c \in Chunks /\ l.c \in Nat /\ Len(Part(l)) \in Nat
      /\ l.c < l.last => l.off + l.sent + Len(Part(l)) = (l.c + 1) * ChunkSize
  BY <1>1, <1>3, PartFits
<1>5. l.off \in Nat /\ l.len \in Nat /\ l.off + l.len \in 0 .. MaxSize /\ MaxSize \in Nat
  BY <1>3, DirtyAssumption DEF Locals, WriteIsSound
<1>6. l.f \in DOMAIN meta => EntryIsSound(l.f, new)
  <2> SUFFICES ASSUME EntryIsSound(l.f, old) PROVE EntryIsSound(l.f, new)
    BY <1>1 DEF MetaInv
  <2>1. dirty \subseteq Chunks /\ dirty \in SUBSET Nat
    BY <1>4 DEF EntryIsSound, Metadata
  <2> HIDE DEF dirty, old
  <2>2. /\ marked \in Metadata /\ marked.dirty = dirty /\ marked.size = old.size
        /\ marked.state = old.state /\ marked.chunk_count = old.chunk_count
    BY <2>1 DEF EntryIsSound, Metadata
  <2> HIDE DEF marked
  <2>3. EntryIsSound(l.f, marked)
    BY <2>1, <2>2 DEF EntryIsSound
  <2> QED
    BY <1>5, <2>3, GrownIsSound
<1> HIDE DEF new
<1>7. MetaInv'
  BY <1>1, <1>2, <1>6, MetaUpdates
<1>8. CASE l.single
  BY <1>1, <1>2, <1>7, <1>8, IdleIsSound, MetaStep
<1>9. CASE ~l.single /\ l.c < l.last
  <2>1. Enter(t, "ensure", next)
    BY <1>2, <1>9
  <2>2. /\ next \in Locals /\ next.c = l.c + 1 /\ next.sent = l.sent + Len(Part(l))
        /\ next.f = l.f /\ next.op = l.op /\ next.off = l.off /\ next.len = l.len
        /\ next.val = l.val /\ next.first = l.first /\ next.last = l.last
    <3>1. c \in Nat /\ sent \in Nat
      BY <1>3, <1>4 DEF Locals
    <3> HIDE DEF c, sent
    <3>2. /\ next \in Locals /\ next.c = c /\ next.sent = sent
          /\ next.f = l.f /\ next.op = l.op /\ next.off = l.off /\ next.len = l.len
          /\ next.val = l.val /\ next.first = l.first /\ next.last = l.last
      BY <1>3, <3>1 DEF Locals
    <3> QED
      BY <3>2 DEF c, sent
  <2> HIDE DEF next
  <2>3. WalkIsSound(next)
    <3>1. l.first \in Nat /\ l.last \in Nat /\ l.sent \in Nat /\ l.first <= l.c
      BY <1>3 DEF Locals, WalkIsSound
    <3>2. next.c # next.first /\ next.first <= next.c /\ next.c <= next.last
      BY <1>4, <1>9, <2>2, <3>1
    <3>3. next.off + next.sent = next.c * ChunkSize
      BY <1>4, <1>5, <1>9, <2>2, <3>1
    <3> QED
      BY <1>3, <2>2, <3>2, <3>3 DEF WalkIsSound
  <2>4. LocalsAreSound("ensure", next, calls)
    BY <1>3, <2>2, <2>3 DEF LocalsAreSound, Walking, WriteIsSound
  <2> QED
    BY <1>1, <1>2, <1>7, <2>1, <2>4, MetaStep DEF Points
<1>10. CASE ~l.single /\ ~(l.c < l.last)
  <2>1. Enter(t, "grow", l)
    BY <1>2, <1>10
  <2>2. LocalsAreSound("grow", l, calls)
    BY <1>3 DEF LocalsAreSound, Walking
  <2> QED
    BY <1>1, <1>2, <1>7, <2>1, <2>2, MetaStep DEF Points
<1> QED
  BY <1>8, <1>9, <1>10

LEMMA GrowKeepsInv == ASSUME DirtyInv, NEW t \in Threads, Grow(t) PROVE DirtyInv'
<1> DEFINE l == loc[t]
           new == Grown(meta[l.f], l.off + l.len)
<1>1. LocalsAreSound("grow", l, calls) /\ calls' = calls /\ MetaInv
  BY InACall DEF Grow
<1>2. UpdateMeta(l.f, new) /\ Enter(t, "idle", NoLocals) /\ UNCHANGED <<pool, disk>>
  BY DEF Grow, Finish
<1> HIDE DEF l
<1>3. l \in Locals /\ l.f \in Files /\ WriteIsSound(l, calls)
  BY <1>1, WritingIsSound DEF LocalsAreSound
<1>4. l.off + l.len \in 0 .. MaxSize
  BY <1>3, DirtyAssumption DEF Locals, WriteIsSound
<1>5. l.f \in DOMAIN meta => EntryIsSound(l.f, new)
  BY <1>1, <1>4, GrownIsSound DEF MetaInv
<1> HIDE DEF new
<1>6. MetaInv'
  BY <1>1, <1>2, <1>3, <1>5, MetaUpdates
<1> QED
  BY <1>1, <1>2, <1>6, IdleIsSound, MetaStep

-----------------------------------------------------------------------------
(* Reads *)

LEMMA ReadPlanKeepsInv == ASSUME DirtyInv, NEW t \in Threads, ReadPlan(t) PROVE DirtyInv'
<1> DEFINE l == loc[t]
           m == meta[l.f]
           end == Smaller(l.off + l.len, m.size)
           single == m.chunk_count <= 1
           first == IF single THEN 0 ELSE l.off \div ChunkSize
           last == IF single THEN 0 ELSE (end - 1) \div ChunkSize
           len == end - l.off
           some == [l EXCEPT !.len = len]
           r == Walk(some, single, first, last)
<1>1. /\ LocalsAreSound("read_plan", l, calls) /\ calls' = calls /\ l \in Locals
      /\ calls' \in 0 .. MaxCalls /\ calls <= calls' /\ MetaInv
  BY InACall DEF ReadPlan
<1>2. /\ UNCHANGED shared /\ l.f \in DOMAIN meta
      /\ l.off >= m.size => Finish(t, Got(<< >>))
      /\ ~(l.off >= m.size) => Enter(t, "ensure", r)
  BY DEF ReadPlan, Continue
<1>3. CASE l.off >= m.size
  BY <1>1, <1>2, <1>3, FinishingStep
<1>4. CASE ~(l.off >= m.size)
  <2>1. EntryIsSound(l.f, m)
    BY <1>1, <1>2 DEF MetaInv
  <2> HIDE DEF l, m
  <2>2. /\ l.op = "read" /\ l.off \in Nat /\ l.len \in Nat /\ l.len > 0 /\ l.f \in Files
    BY <1>1 DEF LocalsAreSound, Locals, Walking
  <2>3. m.size \in Nat /\ m.size <= MaxSize /\ MaxSize \in Nat
    BY <2>1, DirtyAssumption DEF EntryIsSound, Metadata
  <2>4. end \in Nat /\ l.off < end /\ end <= MaxSize
    BY <1>4, <2>2, <2>3 DEF Smaller
  <2> HIDE DEF end
  <2>5. len \in Nat /\ len > 0 /\ end - 1 \in Nat
    BY <2>2, <2>4
  <2>6. first \in Nat /\ first * ChunkSize <= l.off
    <3>1. CASE single
      <4>1. first = 0 /\ first * ChunkSize = 0
        BY <3>1, DirtyAssumption
      <4> QED
        BY <2>2, <4>1
    <3>2. CASE ~single
      BY <2>2, <3>2, Division
    <3> QED
      BY <3>1, <3>2
  <2>7. last \in Chunks /\ first <= last /\ last \in Nat
    <3>1. CASE single
      <4>1. first = 0 /\ last = 0
        BY <3>1
      <4> QED
        BY <4>1, <2>3, LastChunk
    <3>2. CASE ~single
      <4> DEFINE q == (end - 1) \div ChunkSize
      <4>1. q \in Nat /\ q * ChunkSize <= end - 1 /\ end - 1 < (q + 1) * ChunkSize
        BY <2>5, Division
      <4>2. q = last
        BY <3>2
      <4> HIDE DEF q, first, last
      <4>3. q * ChunkSize \in Nat /\ (q + 1) * ChunkSize \in Nat /\ q + 1 \in Nat
            /\ first * ChunkSize \in Nat
        BY <2>6, <4>1, Times
      <4>4. q * ChunkSize < end
        BY <2>4, <4>1, <4>3
      <4>5. first * ChunkSize < (q + 1) * ChunkSize
        BY <2>2, <2>4, <2>6, <4>1, <4>3
      <4>6. first < q + 1
        BY <2>6, <4>3, <4>5, Times
      <4>7. q \in Chunks
        BY <2>4, <4>1, <4>4, ChunkInRange
      <4> QED
        BY <2>6, <4>1, <4>2, <4>6, <4>7
    <3> QED
      BY <3>1, <3>2
  <2>8. single \in BOOLEAN
    OBVIOUS
  <2> HIDE DEF single, first, last, len
  <2>9. some \in Locals /\ some.f = l.f /\ some.op = l.op /\ some.off = l.off /\ some.len = len
    BY <1>1, <2>5 DEF Locals
  <2> HIDE DEF some
  <2>10. /\ r \in Locals /\ r.c = first /\ r.first = first /\ r.last = last
         /\ r.f = l.f /\ r.op = l.op /\ r.off = l.off /\ r.len = len
    BY <2>6, <2>7, <2>8, <2>9, WalkStarts
  <2> HIDE DEF r
  <2>11. LocalsAreSound("ensure", r, calls')
    BY <2>2, <2>5, <2>6, <2>7, <2>10 DEF LocalsAreSound, Walking, WalkIsSound
  <2> QED
    BY <1>1, <1>2, <1>4, <2>11, LocalStep DEF Points
<1> QED
  BY <1>3, <1>4

\* A read that ends, or that goes back to its plan.
LEMMA ReadSingleKeepsInv ==
  ASSUME DirtyInv, NEW t \in Threads, ReadSingle(t) \/ ReadRetry(t) PROVE DirtyInv'
<1> DEFINE l == loc[t]
<1>1. /\ LocalsAreSound("use", l, calls) /\ calls' = calls
      /\ calls' \in 0 .. MaxCalls /\ calls <= calls'
  BY InACall DEF ReadSingle, ReadRetry
<1>2. CASE ReadSingle(t)
  <2>1. (\E r : Finish(t, r)) /\ UNCHANGED shared
    BY <1>2 DEF ReadSingle
  <2> QED
    BY <1>1, <2>1, FinishingStep
<1>3. CASE ReadRetry(t)
  <2>1. l.op = "read" /\ Enter(t, "read_plan", l) /\ UNCHANGED shared
    BY <1>3 DEF ReadRetry, Continue
  <2> HIDE DEF l
  <2>2. LocalsAreSound("read_plan", l, calls')
    BY <1>1, <2>1 DEF LocalsAreSound, Walking
  <2> QED
    BY <1>1, <2>1, <2>2, LocalStep DEF Points
<1> QED
  BY <1>2, <1>3

\* What the pool has of a chunk: sound data, which is none at all when the block is gone.
LEMMA PoolDataIsSound ==
  ASSUME PoolInv, NEW f, NEW c
  PROVE  ChunkIsSound(f, c, PoolData(f, c), calls)
<1>1. <<f, c>>[1] = f /\ <<f, c>>[2] = c
  OBVIOUS
<1> QED
  BY <1>1, EmptyIsSound DEF PoolData, PoolInv, InPool

LEMMA ReadChunkKeepsInv == ASSUME DirtyInv, NEW t \in Threads, ReadChunk(t) PROVE DirtyInv'
<1> DEFINE l == loc[t]
           data == PoolData(l.f, l.c)
           a == From(l) + 1
           b == Smaller(IF l.c = l.last THEN Until(l) ELSE Len(data), Len(data))
           got == l.buf \o SubSeq(data, a, b)
           c == l.c + 1
           r == [l EXCEPT !.c = c, !.buf = got]
<1>1. /\ LocalsAreSound("use", l, calls) /\ calls' = calls /\ l \in Locals /\ PoolInv
      /\ calls' \in 0 .. MaxCalls /\ calls <= calls'
  BY InACall DEF ReadChunk
<1>2. /\ l.op = "read" /\ UNCHANGED shared
      /\ l.c < l.last => Enter(t, "ensure", r)
      /\ ~(l.c < l.last) => Finish(t, Got(got))
  BY DEF ReadChunk, Continue
<1>3. CASE ~(l.c < l.last)
  BY <1>1, <1>2, <1>3, FinishingStep
<1>4. CASE l.c < l.last
  <2>1. data \in Seq(Nat)
    BY <1>1, PoolDataIsSound DEF ChunkIsSound
  <2> HIDE DEF l, data
  <2>2. /\ l.buf \in Seq(Nat) /\ l.c \in Nat /\ l.first \in Nat /\ l.last \in Nat /\ l.off \in Nat
        /\ l.len > 0 /\ l.f \in Files /\ WalkIsSound(l)
    BY <1>1, <1>2 DEF Locals, LocalsAreSound, Walking
  <2>3. b = Len(data) /\ b \in Nat
    BY <1>4, <2>1, <2>2 DEF Smaller
  <2>4. a \in Nat \ {0}
    <3>1. From(l) \in Nat
      <4>1. CASE l.c = l.first
        <5>1. l.first * ChunkSize \in Nat /\ l.first * ChunkSize <= l.off
          BY <2>2, Times DEF WalkIsSound
        <5> QED
          BY <2>2, <4>1, <5>1 DEF From
      <4>2. CASE l.c # l.first
        BY <4>2 DEF From
      <4> QED
        BY <4>1, <4>2
    <3> QED
      BY <3>1
  <2> HIDE DEF a, b
  <2>5. SubSeq(data, a, b) \in Seq(Nat)
    BY <2>1, <2>3, <2>4, PartOfSequence
  <2>6. got \in Seq(Nat)
    BY <2>2, <2>5
  <2>7. c \in Nat
    BY <2>2
  <2> HIDE DEF got
  <2>8. /\ r \in Locals /\ r.c = c /\ r.first = l.first /\ r.last = l.last
        /\ r.f = l.f /\ r.op = l.op /\ r.off = l.off /\ r.len = l.len
    BY <1>1, <2>6, <2>7 DEF Locals
  <2> HIDE DEF r
  <2>9. WalkIsSound(r)
    BY <1>2, <1>4, <2>2, <2>8 DEF WalkIsSound
  <2>10. LocalsAreSound("ensure", r, calls')
    BY <1>2, <2>2, <2>8, <2>9 DEF LocalsAreSound, Walking
  <2> QED
    BY <1>1, <1>2, <1>4, <2>10, LocalStep DEF Points
<1> QED
  BY <1>3, <1>4

-----------------------------------------------------------------------------
(* Truncation *)

LEMMA TruncPlanKeepsInv == ASSUME DirtyInv, NEW t \in Threads, TruncPlan(t) PROVE DirtyInv'
<1> DEFINE l == loc[t]
           c == ChunksOf(l.len) - 1
           keep == l.len - c * ChunkSize
           data == PoolData(l.f, c)
           cut == SubSeq(data, 1, keep)
           r == [l EXCEPT !.c = c, !.data = cut]
<1>1. /\ LocalsAreSound("trunc_plan", l, calls) /\ calls' = calls /\ l \in Locals /\ PoolInv
      /\ calls' \in 0 .. MaxCalls /\ calls <= calls'
  BY InACall DEF TruncPlan
<1>2. /\ UNCHANGED shared
      /\ Enter(t, "trunc_size", l) \/ (keep < Len(data) /\ Enter(t, "trunc_chunk", r))
  BY DEF TruncPlan, Continue
<1>3. ChunkIsSound(l.f, c, data, calls)
  BY <1>1, PoolDataIsSound
<1> HIDE DEF l
<1>4. l.op = "truncate" /\ l.f \in Files /\ l.len \in 0 .. MaxSize
  BY <1>1, DirtyAssumption DEF LocalsAreSound, Locals
<1>5. CASE Enter(t, "trunc_size", l)
  <2>1. LocalsAreSound("trunc_size", l, calls')
    BY <1>1, <1>4 DEF LocalsAreSound, Walking
  <2> QED
    BY <1>1, <1>2, <1>5, <2>1, LocalStep DEF Points
<1>6. CASE keep < Len(data) /\ Enter(t, "trunc_chunk", r)
  <2>1. c \in Chunks /\ c \in Nat /\ c * ChunkSize <= l.len
    BY <1>4, LastChunk
  <2>2. c * ChunkSize \in Nat
    BY <2>1, Times
  <2>3. keep \in Nat
    BY <1>4, <2>1, <2>2
  <2> HIDE DEF c, keep, data
  <2>4. Len(data) \in Nat
    BY <1>3 DEF ChunkIsSound
  <2>5. ChunkIsSound(l.f, c, cut, calls)
    BY <1>3, <1>6, <2>3, <2>4, CutIsSound
  <2>6. cut \in Seq(Nat)
    BY <2>5 DEF ChunkIsSound
  <2> HIDE DEF cut
  <2>7. /\ r \in Locals /\ r.c = c /\ r.data = cut /\ r.f = l.f /\ r.op = l.op /\ r.len = l.len
    BY <1>1, <2>1, <2>6 DEF Locals
  <2> HIDE DEF r
  <2>8. LocalsAreSound("trunc_chunk", r, calls')
    BY <1>1, <1>4, <2>1, <2>5, <2>7 DEF LocalsAreSound, Walking
  <2> QED
    BY <1>1, <1>2, <1>6, <2>8, LocalStep DEF Points
<1> QED
  BY <1>2, <1>5, <1>6

LEMMA TruncChunkKeepsInv == ASSUME DirtyInv, NEW t \in Threads, TruncChunk(t) PROVE DirtyInv'
<1> DEFINE l == loc[t]
           none == << >>
           r == [l EXCEPT !.data = none]
<1>1. /\ LocalsAreSound("trunc_chunk", l, calls) /\ calls' = calls /\ l \in Locals /\ PoolInv
      /\ none \in Seq(Nat)
  BY InACall DEF TruncChunk
<1>2. InsertDirty(l.f, l.c, l.data) /\ Enter(t, "trunc_size", r) /\ UNCHANGED <<meta, disk>>
  BY DEF TruncChunk, Continue
<1> HIDE DEF l, none
<1>3. PoolInv'
  BY <1>1, <1>2, PoolInserts DEF LocalsAreSound
<1>4. r \in Locals /\ r.f = l.f /\ r.op = l.op /\ r.len = l.len
  BY <1>1 DEF Locals
<1> HIDE DEF r
<1>5. LocalsAreSound("trunc_size", r, calls)
  BY <1>1, <1>4 DEF LocalsAreSound, Walking
<1> QED
  BY <1>1, <1>2, <1>3, <1>5, PoolStep DEF Points

LEMMA TruncSizeKeepsInv == ASSUME DirtyInv, NEW t \in Threads, TruncSize(t) PROVE DirtyInv'
<1> DEFINE l == loc[t]
           new == SetSize(meta[l.f], l.len)
<1>1. LocalsAreSound("trunc_size", l, calls) /\ calls' = calls /\ MetaInv
  BY InACall DEF TruncSize
<1>2. UpdateMeta(l.f, new) /\ Enter(t, "flush", l) /\ UNCHANGED <<pool, disk>>
  BY DEF TruncSize, Continue
<1> HIDE DEF l
<1>3. l \in Locals /\ l.f \in Files /\ l.len \in 0 .. MaxSize /\ l.op = "truncate"
  BY <1>1, DirtyAssumption DEF LocalsAreSound, Locals
<1>4. l.f \in DOMAIN meta => EntryIsSound(l.f, new)
  BY <1>1, <1>3, SetSizeIsSound DEF MetaInv
<1> HIDE DEF new
<1>5. MetaInv'
  BY <1>1, <1>2, <1>4, MetaUpdates
<1>6. LocalsAreSound("flush", l, calls)
  BY <1>3 DEF LocalsAreSound, Walking
<1> QED
  BY <1>1, <1>2, <1>5, <1>6, MetaStep DEF Points

-----------------------------------------------------------------------------
(* Deletion *)

\* Both drop the blocks of one file.
LEMMA DelNewBlocksKeepsInv ==
  ASSUME DirtyInv, NEW t \in Threads, DelNewBlocks(t) \/ DelBlocks(t) PROVE DirtyInv'
<1> DEFINE l == loc[t]
<1>1. CASE DelNewBlocks(t)
  <2>1. /\ LocalsAreSound("del_new_blocks", l, calls) /\ calls' = calls /\ PoolInv
        /\ calls' \in Nat /\ calls \in Nat /\ calls <= calls'
    BY <1>1, InACall DEF DelNewBlocks
  <2>2. /\ pool' = Drop(pool, Blocks({l.f})) /\ Enter(t, "del_new_meta", l)
        /\ UNCHANGED <<meta, disk>>
    BY <1>1 DEF DelNewBlocks, Continue
  <2> HIDE DEF l
  <2>3. LocalsAreSound("del_new_meta", l, calls)
    BY <2>1 DEF LocalsAreSound, Walking
  <2> QED
    BY <2>1, <2>2, <2>3, PoolShrinks, PoolStep DEF Points
<1>2. CASE DelBlocks(t)
  <2>1. /\ LocalsAreSound("del_blocks", l, calls) /\ calls' = calls /\ PoolInv
        /\ calls' \in Nat /\ calls \in Nat /\ calls <= calls'
    BY <1>2, InACall DEF DelBlocks
  <2>2. /\ pool' = Drop(pool, Blocks({l.f})) /\ Enter(t, "flush", l)
        /\ UNCHANGED <<meta, disk>>
    BY <1>2 DEF DelBlocks, Continue
  <2> HIDE DEF l
  <2>3. LocalsAreSound("flush", l, calls)
    BY <2>1 DEF LocalsAreSound, Walking
  <2> QED
    BY <2>1, <2>2, <2>3, PoolShrinks, PoolStep DEF Points
<1> QED
  BY <1>1, <1>2

LEMMA DelNewMetaKeepsInv == ASSUME DirtyInv, NEW t \in Threads, DelNewMeta(t) PROVE DirtyInv'
<1> DEFINE l == loc[t]
<1>1. LocalsAreSound("del_new_meta", l, calls) /\ calls' = calls /\ MetaInv
  BY InACall DEF DelNewMeta
<1>2. meta' = Drop(meta, {l.f}) /\ Enter(t, "del_new_disk", l) /\ UNCHANGED <<pool, disk>>
  BY DEF DelNewMeta, Continue
<1> HIDE DEF l
<1>3. LocalsAreSound("del_new_disk", l, calls)
  BY <1>1 DEF LocalsAreSound, Walking
<1> QED
  BY <1>1, <1>2, <1>3, MetaShrinks, MetaStep DEF Points

LEMMA DelInsertKeepsInv == ASSUME DirtyInv, NEW t \in Threads, DelInsert(t) PROVE DirtyInv'
<1> DEFINE l == loc[t]
           new == MarkDeleted(FromCow(l.f))
<1>1. LocalsAreSound("del_insert", l, calls) /\ calls' = calls /\ MetaInv
  BY InACall DEF DelInsert
<1>2. meta' = Put(meta, l.f, new) /\ Enter(t, "del_blocks", l) /\ UNCHANGED <<pool, disk>>
  BY DEF DelInsert, Continue
<1> HIDE DEF l
<1>3. l.f \in Files /\ InManifest(l.f) /\ LocalsAreSound("del_blocks", l, calls)
  BY <1>1 DEF LocalsAreSound, Walking
<1>4. EntryIsSound(l.f, new)
  BY <1>3, CowIsSound
<1> HIDE DEF new
<1>5. MetaInv'
  BY <1>1, <1>2, <1>3, <1>4, MetaInserts
<1> QED
  BY <1>1, <1>2, <1>3, <1>5, MetaStep DEF Points

LEMMA DelMarkKeepsInv == ASSUME DirtyInv, NEW t \in Threads, DelMark(t) PROVE DirtyInv'
<1> DEFINE l == loc[t]
           old == meta[l.f]
           new == MarkDeleted(old)
<1>1. LocalsAreSound("del_mark", l, calls) /\ calls' = calls /\ MetaInv
  BY InACall DEF DelMark
<1>2. UpdateMeta(l.f, new) /\ Enter(t, "del_blocks", l) /\ UNCHANGED <<pool, disk>>
  BY DEF DelMark, Continue
<1> HIDE DEF l
<1>3. l.f \in Files /\ InManifest(l.f) /\ LocalsAreSound("del_blocks", l, calls)
  BY <1>1 DEF LocalsAreSound, Walking
<1>4. l.f \in DOMAIN meta => EntryIsSound(l.f, new)
  <2> SUFFICES ASSUME EntryIsSound(l.f, old) PROVE EntryIsSound(l.f, new)
    BY <1>1 DEF MetaInv
  <2> HIDE DEF old
  <2>1. /\ new \in Metadata /\ new.size = 0 /\ new.chunk_count = 0 /\ new.dirty = {}
        /\ new.state = "Deleted"
    BY DEF EntryIsSound, MarkDeleted, Metadata
  <2>2. MaxSize \in Nat /\ ChunksOf(MaxSize) \in Nat
    BY LastChunk, DirtyAssumption
  <2> HIDE DEF new
  <2> QED
    BY <1>3, <2>1, <2>2 DEF EntryIsSound
<1> HIDE DEF new
<1>5. MetaInv'
  BY <1>1, <1>2, <1>4, MetaUpdates
<1> QED
  BY <1>1, <1>2, <1>3, <1>5, MetaStep DEF Points

-----------------------------------------------------------------------------
(* Flush *)

\* The write cache changes, and the thread goes on.
LEMMA DiskStep ==
  ASSUME DirtyInv, DiskInv', UNCHANGED <<meta, pool>>, calls' = calls,
         NEW t \in Threads, NEW point \in Points, NEW l, Enter(t, point, l),
         LocalsAreSound(point, l, calls)
  PROVE  DirtyInv'
<1>1. PoolInv /\ MetaInv /\ CallsInv /\ calls \in 0 .. MaxCalls /\ calls \in Nat
  BY CallsCount
<1>2. PoolInv' /\ MetaInv'
  BY <1>1, PoolShrinks DEF MetaInv
<1>3. CallsInv'
  BY <1>1, CallsMove
<1> QED
  BY <1>2, <1>3 DEF DirtyInv

\* The copy in the write cache is deleted, or stays when the cache fails.
LEMMA DiskDeleteKeepsInv ==
  ASSUME DirtyInv, NEW t \in Threads, DelNewDisk(t) \/ DiskDelete(t) PROVE DirtyInv'
<1> DEFINE f == loc[t].f
<1>1. calls' = calls /\ DiskInv /\ f \in Files
  BY InACall DEF DelNewDisk, DiskDelete, LocalsAreSound
<1>2. /\ disk' = Drop(disk, {f}) \/ disk' = disk
      /\ Enter(t, "idle", NoLocals) /\ UNCHANGED <<meta, pool>>
  BY DEF DelNewDisk, DiskDelete, Finish, Fail
<1> HIDE DEF f
<1>3. DiskInv'
  BY <1>1, <1>2, DiskChanges
<1> QED
  BY <1>1, <1>2, <1>3, IdleIsSound, DiskStep

LEMMA FlushSnapshotKeepsInv ==
  ASSUME DirtyInv, NEW t \in Threads, FlushSnapshot(t) PROVE DirtyInv'
<1> DEFINE l == loc[t]
           m == meta[l.f]
           size == m.size
           last == m.chunk_count - 1
           dirty == m.dirty
           none == << >>
           r == [l EXCEPT !.size = size, !.last = last, !.dirty = dirty, !.c = 0, !.buf = none]
<1>1. /\ LocalsAreSound("flush", l, calls) /\ calls' = calls /\ l \in Locals /\ MetaInv
      /\ calls' \in 0 .. MaxCalls /\ calls <= calls' /\ none \in Seq(Nat)
  BY InACall DEF FlushSnapshot
<1>2. /\ UNCHANGED shared /\ l.f \in DOMAIN meta
      /\ m.state = "Deleted" => Enter(t, "disk_delete", l)
      /\ m.state # "Deleted" => Enter(t, "assemble", r)
  BY DEF FlushSnapshot, Continue
<1>3. EntryIsSound(l.f, m)
  BY <1>1, <1>2 DEF MetaInv
<1> HIDE DEF l, m
<1>4. CASE m.state = "Deleted"
  <2>1. LocalsAreSound("disk_delete", l, calls')
    BY <1>1 DEF LocalsAreSound, Walking
  <2> QED
    BY <1>1, <1>2, <1>4, <2>1, LocalStep DEF Points
<1>5. CASE m.state # "Deleted"
  <2>1. size \in Nat /\ size <= MaxSize /\ last \in Nat /\ dirty \in SUBSET Nat
    BY <1>3, <1>5 DEF EntryIsSound, Metadata
  <2> HIDE DEF size, last, dirty, none
  <2>2. r \in Locals /\ r.f = l.f /\ r.size = size
    BY <1>1, <2>1 DEF Locals
  <2> HIDE DEF r
  <2>3. LocalsAreSound("assemble", r, calls')
    BY <1>1, <2>1, <2>2 DEF LocalsAreSound, Walking
  <2> QED
    BY <1>1, <1>2, <1>5, <2>3, LocalStep DEF Points
<1> QED
  BY <1>4, <1>5

LEMMA AssembleKeepsInv == ASSUME DirtyInv, NEW t \in Threads, Assemble(t) PROVE DirtyInv'
<1> DEFINE l == loc[t]
           got == l.buf \o PoolData(l.f, l.c)
           c == l.c + 1
           next == [l EXCEPT !.buf = got, !.c = c]
           cut == SubSeq(next.buf, 1, Smaller(Len(next.buf), l.size))
           last == [next EXCEPT !.buf = cut]
<1>1. /\ LocalsAreSound("assemble", l, calls) /\ calls' = calls /\ l \in Locals /\ PoolInv
      /\ calls' \in 0 .. MaxCalls /\ calls <= calls'
  BY InACall DEF Assemble
<1>2. UNCHANGED shared /\ (Enter(t, "assemble", next) \/ Enter(t, "disk_write", last))
  BY DEF Assemble, Continue
<1>3. PoolData(l.f, l.c) \in Seq(Nat)
  BY <1>1, PoolDataIsSound DEF ChunkIsSound
<1> HIDE DEF l
<1>4. l.f \in Files /\ l.size \in Nat /\ l.size <= MaxSize
  BY <1>1 DEF LocalsAreSound, Locals
<1>5. got \in Seq(Nat) /\ c \in Nat
  BY <1>1, <1>3 DEF Locals
<1> HIDE DEF got, c
<1>6. next \in Locals /\ next.buf = got /\ next.f = l.f /\ next.size = l.size
  BY <1>1, <1>5 DEF Locals
<1> HIDE DEF next
<1>7. CASE Enter(t, "assemble", next)
  <2>1. LocalsAreSound("assemble", next, calls')
    BY <1>4, <1>6 DEF LocalsAreSound, Walking
  <2> QED
    BY <1>1, <1>2, <1>7, <2>1, LocalStep DEF Points
<1>8. CASE Enter(t, "disk_write", last)
  <2> DEFINE k == Smaller(Len(got), l.size)
  <2>1. k \in Nat /\ k <= Len(got) /\ k <= l.size /\ Len(got) \in Nat
    BY <1>4, <1>5 DEF Smaller
  <2>2. cut = SubSeq(got, 1, k)
    BY <1>6
  <2> HIDE DEF k, cut
  <2>3. cut \in Seq(Nat) /\ Len(cut) = IF 1 <= k THEN k - 1 + 1 ELSE 0
    BY <1>5, <2>1, <2>2, PartOfSequence
  <2>4. Len(cut) <= l.size
    BY <1>4, <2>1, <2>3
  <2>5. last \in Locals /\ last.buf = cut /\ last.f = l.f /\ last.size = l.size
    BY <1>6, <2>3 DEF Locals
  <2> HIDE DEF last
  <2>6. LocalsAreSound("disk_write", last, calls')
    BY <1>4, <2>4, <2>5 DEF LocalsAreSound, Walking
  <2> QED
    BY <1>1, <1>2, <1>8, <2>6, LocalStep DEF Points
<1> QED
  BY <1>2, <1>7, <1>8

LEMMA DiskWriteKeepsInv == ASSUME DirtyInv, NEW t \in Threads, DiskWrite(t) PROVE DirtyInv'
<1> DEFINE l == loc[t]
           none == << >>
           r == [l EXCEPT !.c = 0, !.buf = none]
<1>1. /\ LocalsAreSound("disk_write", l, calls) /\ calls' = calls /\ l \in Locals /\ DiskInv
      /\ none \in Seq(Nat)
  BY InACall DEF DiskWrite
<1>2. /\ disk' = Put(disk, l.f, l.buf) \/ disk' = disk
      /\ Enter(t, "flush_mark", r) /\ UNCHANGED <<meta, pool>>
  BY DEF DiskWrite, Continue
<1> HIDE DEF l, none
<1>3. /\ l.f \in Files /\ l.buf \in Seq(Nat) /\ Len(l.buf) <= l.size /\ l.size <= MaxSize
      /\ l.size \in Nat /\ Len(l.buf) \in Nat /\ MaxSize \in Nat
  <2>1. /\ l.f \in Files /\ l.buf \in Seq(Nat) /\ Len(l.buf) <= l.size /\ l.size <= MaxSize
        /\ l.size \in Nat
    BY <1>1 DEF LocalsAreSound, Locals
  <2> QED
    BY <2>1, DirtyAssumption
<1>4. DiskInv'
  <2>1. Len(l.buf) <= MaxSize
    BY <1>3
  <2> QED
    BY <1>1, <1>2, <1>3, <2>1, DiskChanges
<1>5. r \in Locals /\ r.f = l.f
  BY <1>1 DEF Locals
<1> HIDE DEF r
<1>6. LocalsAreSound("flush_mark", r, calls)
  BY <1>3, <1>5 DEF LocalsAreSound, Walking
<1> QED
  BY <1>1, <1>2, <1>4, <1>6, DiskStep DEF Points

LEMMA FlushMarkKeepsInv == ASSUME DirtyInv, NEW t \in Threads, FlushMark(t) PROVE DirtyInv'
<1> DEFINE l == loc[t]
           c == l.c + 1
           r == [l EXCEPT !.c = c]
<1>1. LocalsAreSound("flush_mark", l, calls) /\ calls' = calls /\ l \in Locals /\ PoolInv
  BY InACall DEF FlushMark
<1>2. /\ MarkFlushed(l.f, l.c) /\ UNCHANGED <<meta, disk>>
      /\ Enter(t, "flush_mark", r) \/ Enter(t, "flush_done", l)
  BY DEF FlushMark, Continue
<1> HIDE DEF l
<1>3. PoolInv'
  BY <1>1, <1>2, PoolMarks
<1>4. c \in Nat
  BY <1>1 DEF Locals
<1> HIDE DEF c
<1>5. r \in Locals /\ r.f = l.f
  BY <1>1, <1>4 DEF Locals
<1> HIDE DEF r
<1>6. LocalsAreSound("flush_mark", r, calls) /\ LocalsAreSound("flush_done", l, calls)
  BY <1>1, <1>5 DEF LocalsAreSound, Walking
<1> QED
  BY <1>1, <1>2, <1>3, <1>6, PoolStep DEF Points

LEMMA FlushDoneKeepsInv == ASSUME DirtyInv, NEW t \in Threads, FlushDone(t) PROVE DirtyInv'
<1> DEFINE f == loc[t].f
           old == meta[f]
           new == [old EXCEPT !.dirty = {}]
<1>1. calls' = calls /\ MetaInv
  BY InACall DEF FlushDone
<1>2. UpdateMeta(f, new) /\ Enter(t, "idle", NoLocals) /\ UNCHANGED <<pool, disk>>
  BY DEF FlushDone, Finish
<1> HIDE DEF f
<1>3. f \in DOMAIN meta => EntryIsSound(f, new)
  <2> SUFFICES ASSUME EntryIsSound(f, old) PROVE EntryIsSound(f, new)
    BY <1>1 DEF MetaInv
  <2> HIDE DEF old
  <2>1. /\ new \in Metadata /\ new.size = old.size /\ new.chunk_count = old.chunk_count
        /\ new.dirty = {} /\ new.state = old.state
    BY DEF EntryIsSound, Metadata
  <2> HIDE DEF new
  <2> QED
    BY <2>1 DEF EntryIsSound
<1> HIDE DEF new
<1>4. MetaInv'
  BY <1>1, <1>2, <1>3, MetaUpdates
<1> QED
  BY <1>1, <1>2, <1>4, IdleIsSound, MetaStep

-----------------------------------------------------------------------------
(* The invariant *)

\* Eviction takes data away; the manifest's bytes show again, or zeros.
LEMMA EvictKeepsInv == ASSUME DirtyInv, Evict PROVE DirtyInv'
<1>1. PICK k : pool' = Drop(pool, {k})
  BY DEF Evict
<1>2. UNCHANGED <<meta, disk, pc, loc, calls>>
  BY DEF Evict
<1>3. PoolInv /\ calls \in Nat
  BY CallsCount
<1>4. PoolInv'
  BY <1>1, <1>2, <1>3, PoolShrinks
<1>5. MetaInv' /\ DiskInv' /\ CallsInv'
  BY <1>2 DEF DirtyInv, MetaInv, DiskInv, CallsInv
<1> QED
  BY <1>4, <1>5 DEF DirtyInv

LEMMA InitIsSound == Init => DirtyInv
<1> SUFFICES ASSUME Init PROVE DirtyInv
  OBVIOUS
<1>1. meta = << >> /\ pool = << >> /\ disk = << >> /\ DOMAIN << >> = {}
  BY DEF Init
<1>2. MetaInv /\ PoolInv /\ DiskInv
  BY <1>1 DEF MetaInv, PoolInv, DiskInv
<1>3. CallsInv
  BY IdleIsSound, DirtyAssumption DEF Init, CallsInv
<1> QED
  BY <1>2, <1>3 DEF DirtyInv

\* Any call, and any step of one.
LEMMA CallKeepsInv == ASSUME DirtyInv, NEW t \in Threads, Calls(t) PROVE DirtyInv'
BY CreateKeepsInv, FlushKeepsInv, DeleteKeepsInv, WriteKeepsInv, ReadKeepsInv, TruncateKeepsInv,
   RemoveNewKeepsInv, ClearKeepsInv DEF Calls

LEMMA RunKeepsInv == ASSUME DirtyInv, NEW t \in Threads, Run(t) PROVE DirtyInv'
<1>1. CASE Cow(t) \/ EntryGone(t) \/ ClearMeta(t)
  BY <1>1, CowKeepsInv, FailuresKeepInv, ClearMetaKeepsInv
<1>2. CASE EnsureHit(t) \/ EnsureMiss(t) \/ EnsureFails(t) \/ Load(t) \/ LoadMark(t) \/ Exhausted(t)
  BY <1>2, EnsureHitKeepsInv, EnsureMissKeepsInv, FailuresKeepInv, LoadKeepsInv, LoadMarkKeepsInv,
     ExhaustedKeepsInv
<1>3. CASE WritePlan(t) \/ Modify(t) \/ ModifyFails(t) \/ MarkDirty(t) \/ Grow(t)
  BY <1>3, WritePlanKeepsInv, ModifyKeepsInv, FailuresKeepInv, MarkDirtyKeepsInv, GrowKeepsInv
<1>4. CASE ReadPlan(t) \/ ReadSingle(t) \/ ReadRetry(t) \/ ReadChunk(t)
  BY <1>4, ReadPlanKeepsInv, ReadSingleKeepsInv, ReadChunkKeepsInv
<1>5. CASE TruncPlan(t) \/ TruncChunk(t) \/ TruncSize(t)
  BY <1>5, TruncPlanKeepsInv, TruncChunkKeepsInv, TruncSizeKeepsInv
<1>6. CASE \/ DelNewBlocks(t) \/ DelNewMeta(t) \/ DelNewDisk(t)
           \/ DelInsert(t) \/ DelMark(t) \/ DelBlocks(t)
  BY <1>6, DelNewBlocksKeepsInv, DelNewMetaKeepsInv, DiskDeleteKeepsInv, DelInsertKeepsInv,
     DelMarkKeepsInv
<1>7. CASE \/ FlushSnapshot(t) \/ DiskDelete(t) \/ Assemble(t) \/ ChunkNotLoaded(t)
           \/ DiskWrite(t) \/ DiskFails(t) \/ FlushMark(t) \/ FlushDone(t)
  BY <1>7, FlushSnapshotKeepsInv, DiskDeleteKeepsInv, AssembleKeepsInv, FailuresKeepInv,
     DiskWriteKeepsInv, FlushMarkKeepsInv, FlushDoneKeepsInv
<1> QED
  BY <1>1, <1>2, <1>3, <1>4, <1>5, <1>6, <1>7 DEF Run

\* DirtyInv is inductive.
LEMMA StepKeepsInv == DirtyInv /\ [Next]_vars => DirtyInv'
<1> SUFFICES ASSUME DirtyInv, [Next]_vars PROVE DirtyInv'
  OBVIOUS
<1>1. CASE UNCHANGED vars
  BY <1>1 DEF vars, DirtyInv, MetaInv, PoolInv, DiskInv, CallsInv
<1>2. CASE Evict
  BY <1>2, EvictKeepsInv
<1>3. CASE \E t \in Threads : Calls(t) \/ Run(t)
  BY <1>3, CallKeepsInv, RunKeepsInv
<1> QED
  BY <1>1, <1>2, <1>3 DEF Next, AllIdle

-----------------------------------------------------------------------------
(* What a file is made of *)

\* The byte at place i of a file, read from the data of the chunk it is in.
LEMMA ByteOfChunk ==
  ASSUME NEW f, NEW n, NEW i \in Nat \ {0}, NEW c, c = (i - 1) \div ChunkSize,
         NEW data, ChunkIsSound(f, c, data, n), NEW j, j = i - c * ChunkSize
  PROVE  (IF j <= Len(data) THEN data[j] ELSE 0) \in BytesFor(f, i, n)
<1>1. c \in Nat /\ c * ChunkSize <= i - 1
  BY Division
<1>2. c * ChunkSize \in Nat
  BY <1>1, Times
<1>3. j \in Nat \ {0} /\ c * ChunkSize + j = i
  BY <1>1, <1>2
<1>4. Len(data) \in Nat /\ \A k \in 1 .. Len(data) : data[k] \in BytesFor(f, c * ChunkSize + k, n)
  BY DEF ChunkIsSound
<1>5. CASE j <= Len(data)
  <2>1. j \in 1 .. Len(data)
    BY <1>3, <1>4, <1>5
  <2>2. data[j] \in BytesFor(f, c * ChunkSize + j, n)
    BY <1>4, <2>1
  <2> QED
    BY <1>3, <1>5, <2>2
<1>6. CASE ~(j <= Len(data))
  BY <1>6 DEF BytesFor
<1> QED
  BY <1>5, <1>6

\* A file's bytes keep their place when the chunks in the pool are sound.
LEMMA SoundChunksMakeFiles ==
  ASSUME DirtyInv PROVE BytesKeepTheirPlace
<1>1. MetaInv /\ PoolInv
  BY DEF DirtyInv
<1> SUFFICES ASSUME NEW f \in Files, View(f) # NoContent, NEW i \in DOMAIN View(f)
             PROVE  View(f)[i] \in BytesFor(f, i, calls)
  BY DEF BytesKeepTheirPlace
<1>2. CASE f \notin DOMAIN meta
  <2>1. View(f) = Original[f]
    BY <1>2 DEF View
  <2>2. InManifest(f) /\ Original[f] \in Seq(Nat)
    BY <2>1, DirtyAssumption DEF InManifest
  <2>3. DOMAIN Original[f] = 1 .. Len(Original[f])
    BY <2>2
  <2> QED
    BY <2>1, <2>2, <2>3 DEF BytesFor
<1>3. CASE f \in DOMAIN meta
  <2> DEFINE size == meta[f].size
             Data(c) == IF InPool(f, c) THEN pool[<<f, c>>].data
                        ELSE IF HasOriginal(f, c) THEN OriginalChunk(f, c) ELSE << >>
             c0 == (i - 1) \div ChunkSize
             j0 == i - c0 * ChunkSize
             data == Data(c0)
  <2>1. meta[f].state # "Deleted"
    BY <1>3 DEF View
  <2>2. i \in 1 .. size /\ View(f)[i] = IF j0 <= Len(data) THEN data[j0] ELSE 0
    BY <1>3, <2>1 DEF View
  <2>3. size \in Nat
    BY <1>1, <1>3 DEF MetaInv, EntryIsSound, Metadata
  <2>4. \A c \in Nat : ChunkIsSound(f, c, Data(c), calls)
    <3> SUFFICES ASSUME NEW c \in Nat PROVE ChunkIsSound(f, c, Data(c), calls)
      OBVIOUS
    <3>1. CASE InPool(f, c)
      <4>1. ChunkIsSound(f, c, PoolData(f, c), calls)
        BY <1>1, PoolDataIsSound
      <4> QED
        BY <3>1, <4>1 DEF PoolData
    <3>2. CASE ~InPool(f, c)
      BY <3>2, OriginalIsSound, EmptyIsSound
    <3> QED
      BY <3>1, <3>2
  <2>5. i \in Nat \ {0} /\ c0 \in Nat
    <3>1. i \in Nat \ {0} /\ i - 1 \in Nat
      BY <2>2, <2>3
    <3> QED
      BY <3>1, Division
  <2>6. ChunkIsSound(f, c0, data, calls)
    BY <2>4, <2>5
  <2> HIDE DEF size, Data, data
  <2>7. (IF j0 <= Len(data) THEN data[j0] ELSE 0) \in BytesFor(f, i, calls)
    BY <2>5, <2>6, ByteOfChunk
  <2> QED
    BY <2>2, <2>7
<1> QED
  BY <1>2, <1>3

\* The sizes and the sets of the invariant are those of the types.
LEMMA SoundIsTyped == ASSUME DirtyInv PROVE TypeOK
<1>1. MetaInv /\ PoolInv /\ DiskInv /\ CallsInv
  BY DEF DirtyInv
<1>2. \A k \in DOMAIN pool :
        pool[k].needs_flush \in BOOLEAN /\ pool[k].data \in Seq(Nat) /\ Len(pool[k].data) <= ChunkSize
  BY <1>1 DEF PoolInv, ChunkIsSound
<1>3. \A f \in DOMAIN meta :
        /\ meta[f] \in Metadata /\ meta[f].size <= MaxSize /\ meta[f].dirty \subseteq Chunks
        /\ meta[f].state # "New" => InManifest(f)
  BY <1>1 DEF MetaInv, EntryIsSound
<1> QED
  BY <1>1, <1>2, <1>3 DEF MetaInv, PoolInv, DiskInv, CallsInv, TypeOK

\* Whatever calls run side by side, fail or are evicted under: every byte of a file in the
\* layer is the manifest's byte of its place, a zero, or one that a call wrote to this very
\* place; and no length, chunk, dirty set or copy on disk outgrows its bound.
THEOREM FilesCorrect == Spec => []BytesStayInPlace
<1>1. DirtyInv => BytesStayInPlace
  BY SoundChunksMakeFiles, SoundIsTyped DEF BytesStayInPlace
<1> QED
  BY <1>1, InitIsSound, StepKeepsInv, PTL DEF Spec

-----------------------------------------------------------------------------
(* One caller: where the bytes of the files are *)

\* The bytes of a chunk: what is in the pool, else what loading it would give.
DataIn(p, f, c) == IF <<f, c>> \in DOMAIN p THEN p[<<f, c>>].data ELSE Fetched(f, c)

\* The chunks of a file hold every byte of s.
Holds(p, f, s) ==
  \A c \in Chunks, j \in 1 .. ChunkSize :
    c * ChunkSize + j <= Len(s) =>
      j <= Len(DataIn(p, f, c)) /\ DataIn(p, f, c)[j] = s[c * ChunkSize + j]

\* A file is b.
Shows(f, b, m, p) ==
  IF f \notin DOMAIN m THEN b = Original[f]
  ELSE IF m[f].state = "Deleted" THEN b = NoContent
  ELSE b \in Seq(Nat) /\ Len(b) = m[f].size /\ Holds(p, f, b)

\* The block of a chunk that is marked dirty is in the pool and cannot go.
Pinned(f, m, p) ==
  f \in DOMAIN m /\ m[f].state # "Deleted" =>
    \A c \in m[f].dirty : <<f, c>> \in DOMAIN p /\ p[<<f, c>>].needs_flush

\* The copy of a file on disk.
Copy(d, f) == IF f \in DOMAIN d THEN d[f] ELSE NoContent

\* A file is as w has it.
Untouched(f, m, p, d, w) ==
  Shows(f, w.content[f], m, p) /\ Pinned(f, m, p) /\ Copy(d, f) = w.durable[f]

\* An entry is New for the files that are not in the manifest, and counts its
\* chunks.
EntryShape(f, e) ==
  /\ e.state = "New" <=> ~InManifest(f)
  /\ e.state # "Deleted" => e.chunk_count = ChunksOf(e.size)

\* A block of a file of the manifest that may go holds what loading would give.
BlockShape(k, e) ==
  InManifest(k[1]) /\ ~e.needs_flush => e.data = Fetched(k[1], k[2])

\* Every entry and every block has its shape, and every block has an entry.
ShapesInv(m, p) ==
  /\ \A f \in DOMAIN m : EntryShape(f, m[f])
  /\ \A k \in DOMAIN p : k[1] \in DOMAIN m /\ BlockShape(k, p[k])

\* The file b once k bytes of a write are in it.
Written(b, off, v, k) ==
  [i \in 1 .. Larger(Len(b), off + k) |->
     IF off < i /\ i <= off + k THEN Byte(v, i) ELSE b[i]]

\* How many bytes a write has sent.
Sent(point, l) ==
  IF point = "mark" THEN l.sent + Until(l) - From(l)
  ELSE IF point = "grow" THEN l.len ELSE l.sent

\* The file is there and in the table.
Open(f, m) == f \in DOMAIN m /\ m[f].state # "Deleted"

\* The points of a write that has its plan.
WritePoints == Walking \cup {"grow"}

\* A write: the chunks hold the file with the bytes sent so far, while the length
\* in the table is still the old one.
WriteInv(point, l, m, p, b) ==
  /\ Open(l.f, m)
  /\ b \in Seq(Nat) /\ m[l.f].size = Len(b) /\ l.off <= Len(b)
  /\ Holds(p, l.f, Written(b, l.off, l.val, Sent(point, l)))
  /\ Pinned(l.f, m, p)
  /\ point # "grow" /\ l.single => l.last = l.first

\* A read: what it has gathered is the file from its offset on.
ReadInv(l, m, p, b) ==
  /\ Open(l.f, m)
  /\ Shows(l.f, b, m, p) /\ Pinned(l.f, m, p)
  /\ l.off + l.len <= Len(b)
  /\ l.single => l.last = 0 /\ Len(b) <= ChunkSize
  /\ ~l.single =>
       /\ l.off < (l.first + 1) * ChunkSize
       /\ l.last * ChunkSize < l.off + l.len /\ l.off + l.len <= (l.last + 1) * ChunkSize
       /\ l.c = l.first => l.buf = << >>
       /\ l.c # l.first => Len(l.buf) = l.c * ChunkSize - l.off
       /\ \A i \in 1 .. Len(l.buf) : l.buf[i] = b[l.off + i]

\* A walk over the chunks of a range, common to reads and writes.
WalkInv(point, l, m, p) ==
  LET k == <<l.f, l.c>> IN
  /\ l.sync => \A c \in l.first .. l.last : <<l.f, c>> \in DOMAIN p
  /\ point = "load" => k \notin DOMAIN p /\ l.data = Fetched(l.f, l.c)
  /\ point = "load_mark" =>
       k \in DOMAIN p /\ p[k].data = Fetched(l.f, l.c) /\ l.c \notin m[l.f].dirty
  /\ point = "use" => k \in DOMAIN p
  /\ point = "mark" => k \in DOMAIN p /\ p[k].needs_flush

\* What a flush is to write.
Cut(b, l) == IF l.op = "truncate" THEN SubSeq(b, 1, l.len) ELSE b

\* A flush, also at the end of a truncation: what it has put together is the file
\* so far, and after the write the copy on disk is the file.
FlushInv(point, l, m, p, d, w) ==
  LET b == w.content[l.f]
      v == Cut(b, l)
  IN
  /\ ~InManifest(l.f) /\ l.op \in {"flush", "truncate"}
  /\ Open(l.f, m) /\ Shows(l.f, v, m, p)
  /\ b \in Seq(Nat) /\ (l.op = "truncate" => l.len <= Len(b))
  /\ point \in {"flush", "assemble", "disk_write"} =>
       Pinned(l.f, m, p) /\ Copy(d, l.f) = w.durable[l.f]
  /\ point \in {"assemble", "disk_write"} => l.size = Len(v)
  /\ point = "assemble" =>
       /\ l.last = ChunksOf(Len(v)) - 1 /\ l.c \in 0 .. l.last /\ l.dirty = m[l.f].dirty
       /\ Len(l.buf) = l.c * ChunkSize
       /\ \A i \in 1 .. Len(l.buf) : l.buf[i] = v[i]
  /\ point = "disk_write" => l.buf = v
  /\ point \in {"flush_mark", "flush_done"} => Copy(d, l.f) = v

\* A truncation: the chunks hold the part that stays.
TruncInv(point, l, m, p, b) ==
  /\ ~InManifest(l.f) /\ Open(l.f, m) /\ Pinned(l.f, m, p)
  /\ b \in Seq(Nat) /\ l.len <= Len(b)
  /\ point # "trunc_size" => Shows(l.f, b, m, p)
  /\ point = "trunc_chunk" =>
       /\ l.c * ChunkSize + Len(l.data) = l.len /\ Len(l.data) <= ChunkSize
       /\ \A j \in 1 .. Len(l.data) : l.data[j] = b[l.c * ChunkSize + j]
  /\ point = "trunc_size" => Holds(p, l.f, SubSeq(b, 1, l.len))

\* A deletion: until its file is marked or taken out, the file is as it was.
DeleteInv(point, l, m, p, d, w) ==
  LET f == l.f IN
  /\ l.op = "delete"
  /\ point \in {"del_insert", "del_mark", "del_new_blocks"} => Untouched(f, m, p, d, w)
  /\ Copy(d, f) = w.durable[f]
  /\ point = "del_insert" => f \notin DOMAIN m
  /\ point = "del_mark" => f \in DOMAIN m
  /\ point \in {"del_new_blocks", "del_new_meta", "del_new_disk"} => ~InManifest(f)
  /\ point \in {"del_new_blocks", "del_new_meta"} => f \in DOMAIN m
  /\ point = "del_new_meta" => \A k \in DOMAIN p : k[1] # f
  /\ point = "del_new_disk" => f \notin DOMAIN m
  /\ point \in {"del_blocks", "flush", "disk_delete"} => f \in DOMAIN m /\ m[f].state = "Deleted"

\* The points of a deletion but the shared one.
DeletePoints == {"del_insert", "del_mark", "del_blocks", "del_new_blocks", "del_new_meta",
                 "del_new_disk", "disk_delete"}

\* The points of a flush but the shared one.
FlushPoints == {"assemble", "disk_write", "flush_mark", "flush_done"}

\* What the running call has done of its work, w being the files before it.
CallInv(point, l, m, p, d, w) ==
  /\ point # "clear_meta" => \A g \in Files \ {l.f} : Untouched(g, m, p, d, w)
  /\ point = "clear_meta" => DOMAIN p = {} /\ \A g \in Files : Copy(d, g) = w.durable[g]
  /\ point = "cow" =>
       /\ l.op = "write" /\ l.f \notin DOMAIN m /\ l.off <= Len(w.content[l.f])
       /\ Untouched(l.f, m, p, d, w)
  /\ point \in {"read_plan", "write_plan"} =>
       /\ Open(l.f, m) /\ Untouched(l.f, m, p, d, w)
       /\ point = "read_plan" => l.buf = << >>
       /\ point = "write_plan" => l.off <= Len(w.content[l.f])
  /\ point \in WritePoints /\ l.op = "write" => WriteInv(point, l, m, p, w.content[l.f])
  /\ point \in Walking =>
       /\ WalkInv(point, l, m, p)
       /\ l.op = "read" => ReadInv(l, m, p, w.content[l.f])
  /\ point \in WritePoints => Copy(d, l.f) = w.durable[l.f]
  /\ point \in {"trunc_plan", "trunc_chunk", "trunc_size"} =>
       TruncInv(point, l, m, p, w.content[l.f]) /\ Copy(d, l.f) = w.durable[l.f]
  /\ point \in DeletePoints => DeleteInv(point, l, m, p, d, w)
  /\ point \in FlushPoints => FlushInv(point, l, m, p, d, w)
  /\ point = "flush" => \/ DeleteInv(point, l, m, p, d, w) 
                        \/ FlushInv(point, l, m, p, d, w)

\* A record of all files.
IsSeen(w) == w = [content |-> [f \in Files |-> w.content[f]], durable |-> [f \in Files |-> w.durable[f]]]

\* Between two calls every file is as its chunks, its entry and its copy show it;
\* during a call the other files are, and its own is as far as CallInv says.
SerialInv ==
  /\ DirtyInv
  /\ ShapesInv(meta, pool)
  /\ IsSeen(before)
  /\ Idle => \A f \in Files : Untouched(f, meta, pool, disk, Snapshot)
  /\ \A t \in Threads : pc[t] # "idle" => CallInv(pc[t], loc[t], meta, pool, disk, before)

\* The blocks are chunks of files.
PoolTyped(p) ==
  /\ DOMAIN p \subseteq Files \X Chunks
  /\ \A k \in DOMAIN p : p[k].data \in Seq(Nat) /\ Len(p[k].data) <= ChunkSize

-----------------------------------------------------------------------------
(* Places and chunks *)

\* Every place of a file is in one chunk.
LEMMA PlaceInChunk ==
  ASSUME NEW i \in 1 .. MaxSize
  PROVE  LET c == (i - 1) \div ChunkSize
             j == i - c * ChunkSize
         IN  c \in Chunks /\ j \in 1 .. ChunkSize /\ c * ChunkSize + j = i
<1> DEFINE c == (i - 1) \div ChunkSize
           j == i - c * ChunkSize
<1>1. i \in Nat /\ i - 1 \in Nat /\ i <= MaxSize /\ MaxSize \in Nat /\ ChunkSize \in Nat
  BY DirtyAssumption
<1>2. c \in Nat /\ c * ChunkSize <= i - 1 /\ i - 1 < (c + 1) * ChunkSize
  BY <1>1, Division
<1>3. c * ChunkSize \in Nat /\ (c + 1) * ChunkSize = c * ChunkSize + ChunkSize
  BY <1>2, Times
<1>4. c * ChunkSize < i
  BY <1>1, <1>2, <1>3
<1>5. c \in Chunks
  BY <1>1, <1>2, <1>4, ChunkInRange
<1> HIDE DEF c
<1> QED
  BY <1>1, <1>2, <1>3, <1>5 DEF c

\* The places of an earlier chunk come before those of a later one.
LEMMA ChunksInOrder ==
  ASSUME NEW c \in Nat, NEW d \in Nat, c < d
  PROVE  /\ c * ChunkSize \in Nat /\ d * ChunkSize \in Nat
         /\ c * ChunkSize + ChunkSize <= d * ChunkSize
<1>1. c + 1 \in Nat /\ c + 1 <= d
  OBVIOUS
<1>2. (c + 1) * ChunkSize <= d * ChunkSize /\ (c + 1) * ChunkSize = c * ChunkSize + ChunkSize
  BY <1>1, Times
<1>3. c * ChunkSize \in Nat /\ d * ChunkSize \in Nat
  BY Times
<1> QED
  BY <1>2, <1>3

\* What loading a chunk gives is a chunk's data.
LEMMA FetchedIsTyped ==
  ASSUME NEW f \in Files, NEW c \in Chunks
  PROVE  Fetched(f, c) \in Seq(Nat) /\ Len(Fetched(f, c)) <= ChunkSize
<1>1. c \in Nat
  BY LastChunk, DirtyAssumption
<1>2. ChunkIsSound(f, c, Fetched(f, c), 0)
  BY <1>1, OriginalIsSound, EmptyIsSound DEF Fetched
<1> QED
  BY <1>2 DEF ChunkIsSound

\* What is read of a chunk is a sequence of bytes, no longer than a chunk.
LEMMA DataIsTyped ==
  ASSUME NEW p, PoolTyped(p), NEW f \in Files, NEW c \in Chunks
  PROVE  /\ DataIn(p, f, c) \in Seq(Nat) /\ Len(DataIn(p, f, c)) \in Nat
         /\ Len(DataIn(p, f, c)) <= ChunkSize
<1>1. DataIn(p, f, c) \in Seq(Nat) /\ Len(DataIn(p, f, c)) <= ChunkSize
  BY FetchedIsTyped DEF PoolTyped, DataIn
<1> QED
  BY <1>1

\* A chunk fetched from the manifest has the manifest's bytes.
LEMMA FetchedHasBytes ==
  ASSUME NEW f \in Files, InManifest(f), NEW c \in Chunks, NEW j \in 1 .. ChunkSize,
         c * ChunkSize + j <= Len(Original[f])
  PROVE  j <= Len(Fetched(f, c)) /\ Fetched(f, c)[j] = Original[f][c * ChunkSize + j]
<1> DEFINE s == Original[f]
           a == c * ChunkSize + 1
           b == Smaller((c + 1) * ChunkSize, Len(s))
<1>1. s \in Seq(Nat) /\ Len(s) \in 0 .. MaxSize /\ Len(s) \in Nat /\ c \in Nat /\ ChunkSize \in Nat
  BY LastChunk, DirtyAssumption DEF InManifest
<1>2. c * ChunkSize \in Nat /\ (c + 1) * ChunkSize = c * ChunkSize + ChunkSize
  BY <1>1, Times
<1>3. Len(s) # 0 /\ Len(s) - 1 \in Nat
  BY <1>1, <1>2
<1>4. c < ChunksOf(Len(s))
  <2> DEFINE d == (Len(s) - 1) \div ChunkSize
  <2>1. d \in Nat /\ Len(s) - 1 < (d + 1) * ChunkSize /\ (d + 1) * ChunkSize \in Nat
    <3>1. d \in Nat /\ Len(s) - 1 < (d + 1) * ChunkSize
      BY <1>3, Division
    <3> QED
      BY <3>1, Times
  <2>2. ChunksOf(Len(s)) = d + 1
    BY <1>3 DEF ChunksOf
  <2> HIDE DEF d
  <2>3. c * ChunkSize < (d + 1) * ChunkSize
    <3>1. \A x, y, z, n \in Nat : z >= 1 /\ x + z <= n /\ n - 1 < y => x < y
      OBVIOUS
    <3>2. j \in Nat /\ j >= 1
      BY <1>1
    <3> QED
      BY <1>1, <1>2, <2>1, <3>1, <3>2 DEF s
  <2>4. d + 1 \in Nat
    BY <2>1
  <2> QED
    BY <1>1, <2>2, <2>3, <2>4, Times
<1>5. Fetched(f, c) = SubSeq(s, a, b)
  BY <1>4 DEF Fetched, HasOriginal, OriginalChunk
<1>6. a \in Nat \ {0} /\ b \in Nat /\ b <= Len(s) /\ j <= b - a + 1
  BY <1>1, <1>2 DEF Smaller
<1> HIDE DEF a, b, s
<1>7. /\ Len(SubSeq(s, a, b)) = IF a <= b THEN b - a + 1 ELSE 0
      /\ \A i \in 1 .. Len(SubSeq(s, a, b)) : SubSeq(s, a, b)[i] = s[a + i - 1]
  BY <1>1, <1>6, PartOfSequence
<1>8. a <= b /\ j \in 1 .. Len(SubSeq(s, a, b))
  BY <1>1, <1>6, <1>7
<1>9. a + j - 1 = c * ChunkSize + j
  BY <1>1, <1>2 DEF a
<1> QED
  BY <1>1, <1>5, <1>6, <1>7, <1>8, <1>9 DEF s

\* The file of the manifest, when none of its chunks is in the pool.
LEMMA OriginalHolds ==
  ASSUME NEW f \in Files, InManifest(f), NEW p, \A k \in DOMAIN p : k[1] # f
  PROVE  Original[f] \in Seq(Nat) /\ Holds(p, f, Original[f])
<1>1. \A c : <<f, c>> \notin DOMAIN p
  <2>1. \A c : <<f, c>>[1] = f
    OBVIOUS
  <2> QED
    BY <2>1
<1>2. Original[f] \in Seq(Nat)
  BY DirtyAssumption DEF InManifest
<1> QED
  BY <1>1, <1>2, FetchedHasBytes DEF Holds, DataIn

-----------------------------------------------------------------------------
(* What a file shows *)

\* View, of the metadata m and the pool p.
FileIn(m, p, f) ==
  IF f \notin DOMAIN m THEN Original[f]
  ELSE IF m[f].state = "Deleted" THEN NoContent
  ELSE [i \in 1 .. m[f].size |->
          LET c == (i - 1) \div ChunkSize
              j == i - c * ChunkSize
          IN  IF j <= Len(DataIn(p, f, c)) THEN DataIn(p, f, c)[j] ELSE 0]

\* The snapshot the model takes is what the chunks and the disk show.
LEMMA ViewIsFile ==
  /\ Snapshot = [content |-> [f \in Files |-> FileIn(meta, pool, f)],
                 durable |-> [f \in Files |-> Copy(disk, f)]]
  /\ Snapshot' = [content |-> [f \in Files |-> FileIn(meta', pool', f)],
                  durable |-> [f \in Files |-> Copy(disk', f)]]
BY DEF Snapshot, View, FileIn, InPool, DataIn, Fetched, DiskCopy, Copy

\* A file that shows b is b.
LEMMA ShownIsFile ==
  ASSUME NEW m, NEW p, NEW f \in Files, NEW b, Shows(f, b, m, p),
         f \in DOMAIN m => m[f].size \in 0 .. MaxSize
  PROVE  FileIn(m, p, f) = b
<1>1. CASE f \notin DOMAIN m \/ m[f].state = "Deleted"
  BY <1>1 DEF Shows, FileIn
<1>2. CASE f \in DOMAIN m /\ m[f].state # "Deleted"
  <2>1. b \in Seq(Nat) /\ Len(b) = m[f].size /\ Holds(p, f, b) /\ Len(b) \in 0 .. MaxSize
    BY <1>2 DEF Shows
  <2> DEFINE byte(i) == LET c == (i - 1) \div ChunkSize
                            j == i - c * ChunkSize
                        IN  IF j <= Len(DataIn(p, f, c)) THEN DataIn(p, f, c)[j] ELSE 0
  <2>2. ASSUME NEW i \in 1 .. Len(b) PROVE byte(i) = b[i]
    <3>1. i \in 1 .. MaxSize
      BY <2>1, DirtyAssumption
    <3>2. PICK c, j : /\ c = (i - 1) \div ChunkSize /\ j = i - c * ChunkSize
                      /\ c \in Chunks /\ j \in 1 .. ChunkSize /\ c * ChunkSize + j = i
      BY <3>1, PlaceInChunk
    <3>3. j <= Len(DataIn(p, f, c)) /\ DataIn(p, f, c)[j] = b[i]
      <4>1. c * ChunkSize + j <= Len(b)
        BY <2>1, <3>2
      <4> QED
        BY <2>1, <3>2, <4>1 DEF Holds
    <3> QED
      BY <3>2, <3>3
  <2>3. b = [i \in 1 .. Len(b) |-> b[i]]
    BY <2>1
  <2>4. FileIn(m, p, f) = [i \in 1 .. Len(b) |-> byte(i)]
    BY <1>2, <2>1 DEF FileIn
  <2> HIDE DEF byte
  <2> QED
    BY <2>2, <2>3, <2>4
<1> QED
  BY <1>1, <1>2

\* The blocks of a file are the same in two pools.
SameBlocks(f, p, q) ==
  \A c : /\ <<f, c>> \in DOMAIN q <=> <<f, c>> \in DOMAIN p
         /\ <<f, c>> \in DOMAIN p => q[<<f, c>>] = p[<<f, c>>]

\* The entry of a file is the same in two tables.
SameEntry(f, m, n) ==
  (f \in DOMAIN n <=> f \in DOMAIN m) /\ (f \in DOMAIN m => n[f] = m[f])

\* A file none of whose parts changes.
LEMMA UntouchedStays ==
  ASSUME NEW f, NEW m, NEW n, NEW p, NEW q, NEW d, NEW e, NEW w,
         SameEntry(f, m, n), SameBlocks(f, p, q), Copy(e, f) = Copy(d, f),
         Untouched(f, m, p, d, w)
  PROVE  Untouched(f, n, q, e, w)
<1>1. \A c : DataIn(q, f, c) = DataIn(p, f, c)
  BY DEF DataIn, SameBlocks
<1>2. \A b : Holds(p, f, b) => Holds(q, f, b)
  BY <1>1 DEF Holds
<1>3. Shows(f, w.content[f], n, q)
  BY <1>2 DEF Shows, SameEntry, Untouched
<1>4. Pinned(f, n, q)
  BY DEF Pinned, SameEntry, SameBlocks, Untouched
<1> QED
  BY <1>3, <1>4 DEF Untouched

\* Changes of one entry or one block leave the others alone.
LEMMA PutFacts ==
  ASSUME NEW m, NEW k, NEW v
  PROVE  /\ \A x : x \in DOMAIN Put(m, k, v) <=> x \in DOMAIN m \/ x = k
         /\ Put(m, k, v)[k] = v
         /\ \A x \in DOMAIN m : x # k => Put(m, k, v)[x] = m[x]
BY DEF Put

\* Drop takes out the given keys and leaves the rest.
LEMMA DropFacts ==
  ASSUME NEW m, NEW K
  PROVE  /\ \A x : x \in DOMAIN Drop(m, K) <=> x \in DOMAIN m /\ x \notin K
         /\ \A x \in DOMAIN m : x \notin K => Drop(m, K)[x] = m[x]
BY DEF Drop

\* An update of the entry or the blocks of a file leaves those of the others.
LEMMA OthersStay ==
  ASSUME NEW m, NEW f, NEW g, g # f
  PROVE  /\ \A v : SameEntry(g, m, Put(m, f, v)) /\ SameEntry(g, m, [m EXCEPT ![f] = v])
         /\ SameEntry(g, m, Drop(m, {f})) /\ SameEntry(g, m, m)
         /\ \A v, c : SameBlocks(g, m, Put(m, <<f, c>>, v))
                      /\ SameBlocks(g, m, [m EXCEPT ![<<f, c>>] = v])
         /\ \A K : (\A k \in K : k[1] = f) => SameBlocks(g, m, Drop(m, K))
         /\ SameBlocks(g, m, m)
         /\ \A v : Copy(Put(m, f, v), g) = Copy(m, g)
         /\ Copy(Drop(m, {f}), g) = Copy(m, g)
<1>1. \A c, e : <<g, c>> # <<f, e>> /\ <<g, c>>[1] = g
  OBVIOUS
<1>2. ASSUME NEW v PROVE SameEntry(g, m, Put(m, f, v))
  BY DEF SameEntry, Put
<1>3. ASSUME NEW v PROVE SameEntry(g, m, [m EXCEPT ![f] = v])
  BY DEF SameEntry
<1>4. SameEntry(g, m, Drop(m, {f})) /\ SameEntry(g, m, m)
  BY DEF SameEntry, Drop
<1>5. ASSUME NEW v, NEW c PROVE SameBlocks(g, m, Put(m, <<f, c>>, v))
  BY <1>1 DEF SameBlocks, Put
<1>6. ASSUME NEW v, NEW c PROVE SameBlocks(g, m, [m EXCEPT ![<<f, c>>] = v])
  BY <1>1 DEF SameBlocks
<1>7. ASSUME NEW K, \A k \in K : k[1] = f PROVE SameBlocks(g, m, Drop(m, K))
  BY <1>1, <1>7 DEF SameBlocks, Drop
<1>8. SameBlocks(g, m, m)
  BY DEF SameBlocks
<1>9. ASSUME NEW v PROVE Copy(Put(m, f, v), g) = Copy(m, g)
  BY DEF Put, Copy
<1>10. Copy(Drop(m, {f}), g) = Copy(m, g)
  BY DEF Drop, Copy
<1> QED
  BY <1>2, <1>3, <1>4, <1>5, <1>6, <1>7, <1>8, <1>9, <1>10

-----------------------------------------------------------------------------
(* Steps of the one caller *)

\* What the invariant says of a thread.
LEMMA OneThread ==
  ASSUME OneCaller, NEW t \in Threads
  PROVE  /\ \A u \in Threads : u = t
         /\ Idle <=> pc[t] = "idle"
         /\ Idle' <=> pc'[t] = "idle"
BY DEF OneCaller, Idle

\* A snapshot has an entry for every file.
LEMMA SeenIsTyped == IsSeen(Snapshot)
BY DEF Snapshot, IsSeen

\* A step within a call, seen from outside.
LEMMA StepInside ==
  ASSUME OneCaller, SerialInv, DirtyInv', NEW t \in Threads, NEW from, from # "idle",
         Step(t, from), NEW point, point # "idle", NEW l, Continue(t, point, l),
         ShapesInv(meta', pool'), CallInv(point, l, meta', pool', disk', before)
  PROVE  SerialInv' /\ UNCHANGED Store!storeVars
<1>1. /\ pc[t] = from /\ before' = before /\ reply' = reply
      /\ pc' = [pc EXCEPT ![t] = point] /\ loc' = [loc EXCEPT ![t] = l]
  BY DEF Step, Continue, Enter, Goto
<1>2. t \in DOMAIN pc /\ t \in DOMAIN loc
  BY DEF SerialInv, DirtyInv, CallsInv
<1>3. pc'[t] = point /\ loc'[t] = l
  BY <1>1, <1>2
<1>4. ~Idle /\ ~Idle'
  BY <1>1, <1>3, OneThread
<1>5. CallInv(pc'[t], loc'[t], meta', pool', disk', before')
  BY <1>1, <1>3
<1>6. IsSeen(before')
  BY <1>1 DEF SerialInv
<1>7. SerialInv'
  BY <1>4, <1>5, <1>6, OneThread DEF SerialInv
<1>8. Seen' = Seen
  BY <1>1, <1>4 DEF Seen
<1> QED
  BY <1>1, <1>7, <1>8 DEF Store!storeVars

\* The step that begins a call that goes on.
LEMMA CallInside ==
  ASSUME OneCaller, SerialInv, DirtyInv', NEW t \in Threads, NEW op, Begin(t, op),
         NEW point, point # "idle", NEW l, Continue(t, point, l),
         ShapesInv(meta', pool'), CallInv(point, l, meta', pool', disk', Snapshot)
  PROVE  SerialInv' /\ UNCHANGED Store!storeVars
<1>1. /\ pc[t] = "idle" /\ before' = Snapshot /\ reply' = reply
      /\ pc' = [pc EXCEPT ![t] = point] /\ loc' = [loc EXCEPT ![t] = l]
  BY DEF Begin, Continue, Enter, Goto
<1>2. t \in DOMAIN pc /\ t \in DOMAIN loc
  BY DEF SerialInv, DirtyInv, CallsInv
<1>3. pc'[t] = point /\ loc'[t] = l
  BY <1>1, <1>2
<1>4. Idle /\ ~Idle'
  BY <1>1, <1>3, OneThread
<1>5. CallInv(pc'[t], loc'[t], meta', pool', disk', before')
  BY <1>1, <1>3
<1>6. IsSeen(before')
  BY <1>1, SeenIsTyped
<1>7. SerialInv'
  BY <1>4, <1>5, <1>6, OneThread DEF SerialInv
<1>8. Seen' = Seen
  BY <1>1, <1>4 DEF Seen
<1> QED
  BY <1>1, <1>7, <1>8 DEF Store!storeVars

\* A function on the files.
IsFiles(x) == x = [f \in Files |-> x[f]]

\* The files are c, and their copies d.
AllShown(c, d, m, p, dd) ==
  \A f \in Files : Shows(f, c[f], m, p) /\ Pinned(f, m, p) /\ Copy(dd, f) = d[f]

\* What the layer shows is what an application sees between two calls.
LEMMA ShownIsSnapshot ==
  ASSUME NEW c, NEW d, IsFiles(c), IsFiles(d),
         MetaInv', AllShown(c, d, meta', pool', disk')
  PROVE  /\ Snapshot' = [content |-> c, durable |-> d]
         /\ \A f \in Files : Untouched(f, meta', pool', disk', Snapshot')
<1>1. \A f \in Files : f \in DOMAIN meta' => meta'[f].size \in 0 .. MaxSize
  BY DirtyAssumption DEF MetaInv, EntryIsSound, Metadata
<1>2. \A f \in Files : FileIn(meta', pool', f) = c[f] /\ Copy(disk', f) = d[f]
  BY <1>1, ShownIsFile DEF AllShown
<1>3. [f \in Files |-> FileIn(meta', pool', f)] = [f \in Files |-> c[f]]
      /\ [f \in Files |-> Copy(disk', f)] = [f \in Files |-> d[f]]
  BY <1>2
<1>4. Snapshot' = [content |-> c, durable |-> d]
  BY <1>3, ViewIsFile DEF IsFiles
<1>5. Snapshot'.content = c /\ Snapshot'.durable = d
  BY <1>4
<1>6. \A f \in Files : Untouched(f, meta', pool', disk', Snapshot')
  BY <1>5 DEF AllShown, Untouched
<1> QED
  BY <1>4, <1>6

\* The end of a call.
LEMMA CallEnds ==
  ASSUME OneCaller, DirtyInv', IsSeen(before'), NEW t \in Threads, SerialInv,
         NEW r, Finish(t, r), ShapesInv(meta', pool'),
         NEW c, NEW d, IsFiles(c), IsFiles(d), AllShown(c, d, meta', pool', disk')
  PROVE  SerialInv' /\ reply' = r /\ Seen'.content = c /\ Seen'.durable = d
<1>1. reply' = r /\ pc' = [pc EXCEPT ![t] = "idle"]
  BY DEF Finish, Enter, Goto
<1>2. t \in DOMAIN pc
  BY DEF SerialInv, DirtyInv, CallsInv
<1>3. pc'[t] = "idle"
  BY <1>1, <1>2
<1>4. Idle'
  BY <1>3, OneThread
<1>5. MetaInv'
  BY DEF DirtyInv
<1>6. /\ Snapshot' = [content |-> c, durable |-> d]
      /\ \A f \in Files : Untouched(f, meta', pool', disk', Snapshot')
  BY <1>5, ShownIsSnapshot
<1>7. SerialInv'
  BY <1>3, <1>4, <1>6, OneThread DEF SerialInv
<1>8. Seen' = [content |-> c, durable |-> d]
  BY <1>4, <1>6 DEF Seen
<1> QED
  BY <1>1, <1>7, <1>8

\* What is seen before the last step of a call, and what may have changed of one file.
LEMMA CallEndsWith ==
  ASSUME OneCaller, SerialInv, DirtyInv', NEW t \in Threads, NEW from, from # "idle",
         Step(t, from), NEW r, Finish(t, r), ShapesInv(meta', pool'),
         NEW f \in Files,
         \A g \in Files \ {f} : Untouched(g, meta', pool', disk', before),
         NEW b, NEW x, Shows(f, b, meta', pool'), Pinned(f, meta', pool'), Copy(disk', f) = x
  PROVE  /\ SerialInv' /\ reply' = r /\ Seen = before
         /\ Seen'.content = [Seen.content EXCEPT ![f] = b]
         /\ Seen'.durable = [Seen.durable EXCEPT ![f] = x]
<1>1. pc[t] = from /\ before' = before
  BY DEF Step
<1>2. ~Idle
  BY <1>1, OneThread
<1>3. Seen = before
  BY <1>2 DEF Seen
<1>4. before = [content |-> [g \in Files |-> before.content[g]],
                durable |-> [g \in Files |-> before.durable[g]]]
  BY DEF SerialInv, IsSeen
<1>5. DOMAIN before.content = Files /\ DOMAIN before.durable = Files
  BY <1>4
<1> DEFINE c == [before.content EXCEPT ![f] = b]
           d == [before.durable EXCEPT ![f] = x]
<1>6. IsFiles(c) /\ IsFiles(d)
  BY <1>4, <1>5 DEF IsFiles
<1>7. c[f] = b /\ d[f] = x
      /\ \A g \in Files \ {f} : c[g] = before.content[g] /\ d[g] = before.durable[g]
  BY <1>5
<1> HIDE DEF c, d
<1>8. AllShown(c, d, meta', pool', disk')
  BY <1>7 DEF AllShown, Untouched
<1>9. IsSeen(before')
  BY <1>1 DEF SerialInv
<1>10. SerialInv' /\ reply' = r /\ Seen'.content = c /\ Seen'.durable = d
  BY <1>6, <1>8, <1>9, CallEnds
<1> QED
  BY <1>3, <1>10 DEF c, d

-----------------------------------------------------------------------------
(* Steps of the abstract store *)

\* Putting back what was there changes nothing.
LEMMA ExceptSame ==
  ASSUME NEW c, IsFiles(c), NEW f \in Files, NEW b, b = c[f]
  PROVE  [c EXCEPT ![f] = b] = c
BY DEF IsFiles

\* Layer and store answer in the same words.
LEMMA StoreReplies ==
  /\ Store!Done = Done /\ Store!Failed = Failed /\ \A b : Store!Got(b) = Got(b)
BY DEF Store!Done, Store!Failed, Store!Got, Done, Failed, Got

\* A failed call that leaves the files is a step of the store.
LEMMA StoreFails ==
  ASSUME Seen'.content = Seen.content, Seen'.durable = Seen.durable, reply' = Failed
  PROVE  Store!StoreNext
BY StoreReplies DEF Store!StoreNext, Store!Fail

\* A clear is a step of the store.
LEMMA StoreResets ==
  ASSUME Seen'.content = [f \in Files |-> Original[f]], Seen'.durable = Seen.durable,
         reply' = Done
  PROVE  Store!StoreNext
BY StoreReplies DEF Store!StoreNext, Store!Reset

\* A create is a step of the store.
LEMMA StoreCreates ==
  ASSUME NEW f \in Files, Seen.content[f] = NoContent,
         Seen'.content = [Seen.content EXCEPT ![f] = << >>], Seen'.durable = Seen.durable,
         reply' = Done
  PROVE  Store!StoreNext
<1>1. Store!Create(f)
  BY StoreReplies DEF Store!Create, Store!Exists
<1> QED
  BY <1>1 DEF Store!StoreNext

\* A read of a slice is a step of the store.
LEMMA StoreReads ==
  ASSUME NEW f \in Files, Seen.content[f] # NoContent,
         Seen'.content = Seen.content, Seen'.durable = Seen.durable,
         NEW off \in 0 .. MaxSize, NEW n \in 0 .. MaxSize,
         reply' = Got(Store!Slice(Seen.content[f], off, n))
  PROVE  Store!StoreNext
<1>1. Store!Read(f, off, n)
  BY StoreReplies DEF Store!Read, Store!Exists
<1> QED
  BY <1>1 DEF Store!StoreNext

\* A write of a range is a step of the store.
LEMMA StoreWrites ==
  ASSUME NEW f \in Files, NEW b, Seen.content[f] = b, b # NoContent,
         NEW off \in 0 .. MaxSize, NEW n \in 1 .. MaxSize, NEW v \in 1 .. MaxCalls,
         NEW s, s = Store!Overlay(b, off, Store!Bytes(v, off, n)),
         Seen'.content = [Seen.content EXCEPT ![f] = s], Seen'.durable = Seen.durable,
         reply' = Done
  PROVE  Store!StoreNext
<1>1. Store!Write(f, off, Store!Bytes(v, off, n))
  BY StoreReplies DEF Store!Write, Store!Exists
<1> QED
  BY <1>1 DEF Store!StoreNext

\* A write that stops in the middle is a step of the store.
LEMMA StoreTearsWrite ==
  ASSUME NEW f \in Files, NEW b, Seen.content[f] = b, b # NoContent,
         NEW off \in 0 .. MaxSize, NEW n \in 1 .. MaxSize, NEW v \in 1 .. MaxCalls,
         NEW s, s = Store!Overlay(b, off, Store!Bytes(v, off, n)),
         NEW r, r = Store!Resize(s, Len(b)),
         Seen'.content = [Seen.content EXCEPT ![f] = r], Seen'.durable = Seen.durable,
         reply' = Failed
  PROVE  Store!StoreNext
<1>1. Store!TornWrite(f, off, Store!Bytes(v, off, n))
  BY StoreReplies DEF Store!TornWrite, Store!Exists
<1> QED
  BY <1>1 DEF Store!StoreNext

\* A truncation is a step of the store.
LEMMA StoreTruncates ==
  ASSUME NEW f \in Files, Seen.content[f] # NoContent, NEW n \in 0 .. MaxSize,
         NEW s, s = Store!Resize(Seen.content[f], n),
         Seen'.content = [Seen.content EXCEPT ![f] = s],
         \/ reply' = Done /\ Seen'.durable = [Seen.durable EXCEPT ![f] = s]
         \/ reply' = Failed /\ Seen'.durable = Seen.durable
  PROVE  Store!StoreNext
<1>1. Store!Truncate(f, n)
  BY StoreReplies DEF Store!Truncate, Store!Exists
<1> QED
  BY <1>1 DEF Store!StoreNext

\* A flush is a step of the store.
LEMMA StoreFlushes ==
  ASSUME NEW f \in Files, Seen.content[f] # NoContent,
         Seen'.content = Seen.content, reply' = Done,
         Seen'.durable = [Seen.durable EXCEPT ![f] = Seen.content[f]]
  PROVE  Store!StoreNext
<1>1. Store!Flush(f)
  BY StoreReplies DEF Store!Flush, Store!Exists
<1> QED
  BY <1>1 DEF Store!StoreNext

\* A deletion is a step of the store.
LEMMA StoreDeletes ==
  ASSUME NEW f \in Files,
         Seen'.content = [Seen.content EXCEPT ![f] = NoContent],
         Seen'.durable \in {Seen.durable, [Seen.durable EXCEPT ![f] = NoContent]},
         reply' = Done \/ (reply' = Failed /\ Seen'.durable = Seen.durable)
  PROVE  Store!StoreNext
<1>1. Store!Delete(f)
  BY StoreReplies DEF Store!Delete
<1> QED
  BY <1>1 DEF Store!StoreNext

\* A deletion of new files is a step of the store.
LEMMA StoreDeletesNew ==
  ASSUME NEW D \in SUBSET Files,
         Seen'.content = [f \in Files |-> IF f \in D /\ Original[f] = NoContent
                                         THEN NoContent ELSE Seen.content[f]],
         Seen'.durable = Seen.durable, reply' = Done
  PROVE  Store!StoreNext
<1>1. Store!DeleteNew(D)
  BY StoreReplies DEF Store!DeleteNew
<1> QED
  BY <1>1 DEF Store!StoreNext

-----------------------------------------------------------------------------
(* Calls *)

\* The invariant holds after the step, and the step is one of the store's or none.
Kept == SerialInv' /\ [Store!StoreNext]_(Store!storeVars)

\* Between two calls.
LEMMA CallStarts ==
  ASSUME OneCaller, SerialInv, NEW t \in Threads, NEW op, Begin(t, op)
  PROVE  /\ \A f \in Files : Untouched(f, meta, pool, disk, Snapshot)
         /\ Idle /\ Seen = Snapshot /\ before' = Snapshot /\ ShapesInv(meta, pool) /\ MetaInv /\ PoolInv
         /\ \A f \in Files : Snapshot.content[f] = View(f) /\ Snapshot.durable[f] = Copy(disk, f)
         /\ IsFiles(Snapshot.content) /\ IsFiles(Snapshot.durable)
<1>1. pc[t] = "idle" /\ before' = Snapshot
  BY DEF Begin
<1>2. Idle
  BY <1>1, OneThread
<1>3. /\ \A f \in Files : Snapshot.content[f] = View(f) /\ Snapshot.durable[f] = Copy(disk, f)
      /\ IsFiles(Snapshot.content) /\ IsFiles(Snapshot.durable)
  BY DEF Snapshot, DiskCopy, Copy, IsFiles
<1> QED
  BY <1>1, <1>2, <1>3 DEF SerialInv, DirtyInv, Seen

\* A visible file has bytes, and an entry unless it is the manifest's.
LEMMA VisibleIsOpen ==
  ASSUME NEW f \in Files, Visible(f), ShapesInv(meta, pool), MetaInv,
         Untouched(f, meta, pool, disk, Snapshot)
  PROVE  /\ f \in DOMAIN meta => Open(f, meta)
         /\ f \notin DOMAIN meta => InManifest(f)
         /\ Snapshot.content[f] \in Seq(Nat) /\ Snapshot.content[f] # NoContent
<1>1. /\ f \in DOMAIN meta => Open(f, meta)
      /\ f \notin DOMAIN meta => InManifest(f)
  BY DEF Visible, Open
<1>2. Snapshot.content[f] \in Seq(Nat)
  BY <1>1, DirtyAssumption DEF Untouched, Shows, Open, InManifest
<1> QED
  BY <1>1, <1>2, DirtyAssumption

\* A write of a file that is there begins.
LEMMA WriteBegins ==
  ASSUME OneCaller, SerialInv, DirtyInv', NEW t \in Threads, NEW f \in Files,
         NEW s \in WriteSpans, CallWrite(t, f, s)
  PROVE  Kept
<1> DEFINE point == IF f \in DOMAIN meta THEN "write_plan" ELSE "cow"
           l == [Args("write", f, s[1], s[2]) EXCEPT !.val = calls + 1]
<1>1. /\ Begin(t, "write") /\ Visible(f) /\ s[1] <= Len(View(f)) /\ Continue(t, point, l)
      /\ meta' = meta /\ pool' = pool /\ disk' = disk
  BY DEF CallWrite, OneCaller, shared
<1>2. /\ \A g \in Files : Untouched(g, meta, pool, disk, Snapshot)
      /\ ShapesInv(meta, pool) /\ MetaInv /\ Snapshot.content[f] = View(f)
  BY <1>1, CallStarts
<1>3. f \in DOMAIN meta => Open(f, meta)
  BY <1>1, <1>2, VisibleIsOpen
<1>4. l.f = f /\ l.off = s[1] /\ l.op = "write" /\ l.buf = << >>
  BY DEF Args, NoLocals
<1>5. point \in {"write_plan", "cow"} /\ (point = "cow" <=> f \notin DOMAIN meta)
  OBVIOUS
<1> HIDE DEF point, l
<1>6. CallInv(point, l, meta, pool, disk, Snapshot)
  BY <1>1, <1>2, <1>3, <1>4, <1>5
  DEF CallInv, WritePoints, Walking, DeletePoints, FlushPoints
<1> QED
  BY <1>1, <1>2, <1>5, <1>6, CallInside DEF Kept

\* A read of a file in the table begins.
LEMMA ReadBegins ==
  ASSUME OneCaller, SerialInv, DirtyInv', NEW t \in Threads, NEW f \in Files,
         NEW s \in ReadSpans, CallRead(t, f, s)
  PROVE  Kept
<1> DEFINE l == Args("read", f, s[1], s[2])
<1>1. /\ Begin(t, "read") /\ Visible(f) /\ f \in DOMAIN meta /\ Continue(t, "read_plan", l)
      /\ meta' = meta /\ pool' = pool /\ disk' = disk
  BY DEF CallRead, shared
<1>2. /\ \A g \in Files : Untouched(g, meta, pool, disk, Snapshot)
      /\ ShapesInv(meta, pool) /\ MetaInv
  BY <1>1, CallStarts
<1>3. Open(f, meta)
  BY <1>1, <1>2, VisibleIsOpen
<1>4. l.f = f /\ l.op = "read" /\ l.buf = << >>
  BY DEF Args, NoLocals
<1> HIDE DEF l
<1>5. CallInv("read_plan", l, meta, pool, disk, Snapshot)
  BY <1>1, <1>2, <1>3, <1>4
  DEF CallInv, WritePoints, Walking, DeletePoints, FlushPoints
<1> QED
  BY <1>1, <1>2, <1>5, CallInside DEF Kept

\* A truncation of a new file begins.
LEMMA TruncateBegins ==
  ASSUME OneCaller, SerialInv, DirtyInv', NEW t \in Threads, NEW f \in Files, ~InManifest(f),
         NEW n \in TruncSizes, CallTruncate(t, f, n)
  PROVE  Kept
<1> DEFINE l == Args("truncate", f, 0, n)
<1>1. /\ Begin(t, "truncate") /\ Visible(f) /\ n <= Len(View(f))
      /\ Continue(t, IF f \in DOMAIN meta THEN "trunc_plan" ELSE "cow", l)
      /\ meta' = meta /\ pool' = pool /\ disk' = disk
  BY DEF CallTruncate, OneCaller, shared
<1>2. /\ \A g \in Files : Untouched(g, meta, pool, disk, Snapshot)
      /\ ShapesInv(meta, pool) /\ MetaInv /\ Snapshot.content[f] = View(f)
  BY <1>1, CallStarts
<1>3. Open(f, meta) /\ f \in DOMAIN meta /\ Snapshot.content[f] \in Seq(Nat)
  BY <1>1, <1>2, VisibleIsOpen
<1>4. l.f = f /\ l.len = n
  BY DEF Args, NoLocals
<1>5. Continue(t, "trunc_plan", l)
  BY <1>1, <1>3
<1> HIDE DEF l
<1>6. TruncInv("trunc_plan", l, meta, pool, Snapshot.content[f])
  BY <1>1, <1>2, <1>3, <1>4 DEF TruncInv, Untouched
<1>7. CallInv("trunc_plan", l, meta, pool, disk, Snapshot)
  BY <1>2, <1>4, <1>6
  DEF CallInv, WritePoints, Walking, DeletePoints, FlushPoints, Untouched
<1> QED
  BY <1>1, <1>2, <1>5, <1>7, CallInside DEF Kept

\* A flush of a new file begins.
LEMMA FlushBegins ==
  ASSUME OneCaller, SerialInv, DirtyInv', NEW t \in Threads, NEW f \in Files, ~InManifest(f),
         CallFlush(t, f)
  PROVE  Kept
<1> DEFINE l == Args("flush", f, 0, 0)
<1>1. Begin(t, "flush") /\ (f \in DOMAIN meta \/ Visible(f)) /\ Continue(t, "flush", l)
  BY DEF CallFlush
<1>2. /\ \A g \in Files : Untouched(g, meta, pool, disk, Snapshot)
      /\ ShapesInv(meta, pool) /\ MetaInv
  BY <1>1, CallStarts
<1>3. Open(f, meta)
  BY <1>1, <1>2 DEF Visible, Open, ShapesInv, EntryShape
<1>4. Snapshot.content[f] \in Seq(Nat)
  BY <1>2, <1>3 DEF Untouched, Shows, Open
<1>5. l.f = f /\ l.op = "flush"
  BY DEF Args, NoLocals
<1> HIDE DEF l
<1>6. FlushInv("flush", l, meta, pool, disk, Snapshot)
  BY <1>2, <1>3, <1>4, <1>5 DEF FlushInv, Cut, Untouched
<1>7. CallInv("flush", l, meta, pool, disk, Snapshot)
  BY <1>2, <1>5, <1>6
  DEF CallInv, WritePoints, Walking, DeletePoints, FlushPoints
<1>8. meta' = meta /\ pool' = pool /\ disk' = disk
  BY DEF CallFlush, shared
<1> QED
  BY <1>1, <1>2, <1>7, <1>8, CallInside DEF Kept

\* A deletion begins.
LEMMA DeleteBegins ==
  ASSUME OneCaller, SerialInv, DirtyInv', NEW t \in Threads, NEW f \in Files, CallDelete(t, f)
  PROVE  Kept
<1> DEFINE l == Args("delete", f, 0, 0)
           point == IF f \notin DOMAIN meta THEN "del_insert"
                    ELSE IF meta[f].state = "New" THEN "del_new_blocks" ELSE "del_mark"
<1>1. /\ Begin(t, "delete") /\ Visible(f) /\ Continue(t, point, l)
      /\ meta' = meta /\ pool' = pool /\ disk' = disk
  BY DEF CallDelete, shared
<1>2. /\ \A g \in Files : Untouched(g, meta, pool, disk, Snapshot)
      /\ ShapesInv(meta, pool) /\ MetaInv
  BY <1>1, CallStarts
<1>3. /\ point \in {"del_insert", "del_new_blocks", "del_mark"}
      /\ point = "del_insert" <=> f \notin DOMAIN meta
      /\ point = "del_new_blocks" => ~InManifest(f)
  BY <1>2 DEF ShapesInv, EntryShape
<1>4. l.f = f /\ l.op = "delete"
  BY DEF Args, NoLocals
<1> HIDE DEF l, point
<1>5. DeleteInv(point, l, meta, pool, disk, Snapshot)
  BY <1>2, <1>3, <1>4 DEF DeleteInv, Untouched
<1>6. CallInv(point, l, meta, pool, disk, Snapshot)
  BY <1>2, <1>3, <1>4, <1>5
  DEF CallInv, WritePoints, Walking, DeletePoints, FlushPoints
<1> QED
  BY <1>1, <1>2, <1>3, <1>6, CallInside DEF Kept

\* Changes that keep the shapes of entries and blocks.
LEMMA ShapesStay ==
  ASSUME NEW m, NEW p, ShapesInv(m, p), NEW f
  PROVE  /\ \A e : EntryShape(f, e) =>
              ShapesInv(Put(m, f, e), p) /\ ShapesInv([m EXCEPT ![f] = e], p)
         /\ \A c, e : f \in DOMAIN m /\ BlockShape(<<f, c>>, e) =>
              ShapesInv(m, Put(p, <<f, c>>, e)) /\ ShapesInv(m, [p EXCEPT ![<<f, c>>] = e])
         /\ \A K : ShapesInv(m, Drop(p, K))
         /\ (\A k \in DOMAIN p : k[1] # f) => ShapesInv(Drop(m, {f}), p)
<1>1. /\ \A g \in DOMAIN m : EntryShape(g, m[g])
      /\ \A k \in DOMAIN p : k[1] \in DOMAIN m /\ BlockShape(k, p[k])
  BY DEF ShapesInv
<1>2. ASSUME NEW e, EntryShape(f, e)
      PROVE  ShapesInv(Put(m, f, e), p) /\ ShapesInv([m EXCEPT ![f] = e], p)
  <2>1. ShapesInv(Put(m, f, e), p)
    <3>1. \A g \in DOMAIN Put(m, f, e) : EntryShape(g, Put(m, f, e)[g])
      BY <1>1, <1>2 DEF Put
    <3>2. \A k \in DOMAIN p : k[1] \in DOMAIN Put(m, f, e)
      BY <1>1, PutFacts
    <3> QED
      BY <1>1, <3>1, <3>2 DEF ShapesInv
  <2>2. ShapesInv([m EXCEPT ![f] = e], p)
    BY <1>1, <1>2 DEF ShapesInv
  <2> QED
    BY <2>1, <2>2
<1>3. ASSUME NEW c, NEW e, f \in DOMAIN m, BlockShape(<<f, c>>, e)
      PROVE  ShapesInv(m, Put(p, <<f, c>>, e)) /\ ShapesInv(m, [p EXCEPT ![<<f, c>>] = e])
  <2> DEFINE k0 == <<f, c>>
  <2>1. k0[1] = f /\ BlockShape(k0, e)
    BY <1>3
  <2> HIDE DEF k0
  <2>2. ShapesInv(m, Put(p, k0, e))
    <3>1. \A k \in DOMAIN Put(p, k0, e) : BlockShape(k, Put(p, k0, e)[k]) /\ k[1] \in DOMAIN m
      BY <1>1, <1>3, <2>1 DEF Put
    <3> QED
      BY <1>1, <3>1 DEF ShapesInv
  <2>3. ShapesInv(m, [p EXCEPT ![k0] = e])
    BY <1>1, <1>3, <2>1 DEF ShapesInv
  <2> QED
    BY <2>2, <2>3 DEF k0
<1>4. ASSUME NEW K PROVE ShapesInv(m, Drop(p, K))
  BY <1>1 DEF ShapesInv, Drop
<1>5. (\A k \in DOMAIN p : k[1] # f) => ShapesInv(Drop(m, {f}), p)
  BY <1>1 DEF ShapesInv, Drop
<1> QED
  BY <1>2, <1>3, <1>4, <1>5

\* What is not changed of the files when a call returns at once.
LEMMA CallReturns ==
  ASSUME OneCaller, SerialInv, DirtyInv', NEW t \in Threads, NEW op, Begin(t, op),
         NEW r, Finish(t, r), ShapesInv(meta', pool'), NEW c, IsFiles(c), disk' = disk,
         \A f \in Files : Shows(f, c[f], meta', pool') /\ Pinned(f, meta', pool')
  PROVE  SerialInv' /\ reply' = r /\ Seen'.content = c /\ Seen'.durable = Seen.durable
<1>1. /\ before' = Snapshot /\ IsFiles(Snapshot.durable) /\ Seen = Snapshot
      /\ \A f \in Files : Snapshot.durable[f] = Copy(disk, f)
  BY CallStarts
<1>2. IsSeen(before')
  BY <1>1, SeenIsTyped
<1>3. AllShown(c, Snapshot.durable, meta', pool', disk')
  BY <1>1 DEF AllShown
<1> QED
  BY <1>1, <1>2, <1>3, CallEnds

\* No byte at all.
LEMMA EmptyHolds ==
  ASSUME NEW p, NEW f
  PROVE  << >> \in Seq(Nat) /\ Len(<< >>) = 0 /\ Holds(p, f, << >>)
<1>1. Chunks \subseteq Nat /\ ChunkSize \in Nat
  BY LastChunk, DirtyAssumption
<1>2. \A c \in Chunks, j \in 1 .. ChunkSize : ~(c * ChunkSize + j <= 0)
  <2> SUFFICES ASSUME NEW c \in Chunks, NEW j \in 1 .. ChunkSize PROVE ~(c * ChunkSize + j <= 0)
    OBVIOUS
  <2>1. c * ChunkSize \in Nat /\ j \in Nat /\ j >= 1
    BY <1>1, Times
  <2> QED
    BY <2>1
<1> QED
  BY <1>2 DEF Holds

\* A create puts an empty file in the table, in one step.
LEMMA CreateReturns ==
  ASSUME OneCaller, SerialInv, DirtyInv', NEW t \in Threads, NEW f \in Files, CallCreate(t, f)
  PROVE  Kept
<1>1. /\ Begin(t, "create") /\ ~InManifest(f) /\ f \notin DOMAIN meta
      /\ meta' = Put(meta, f, NewFile) /\ Finish(t, Done) /\ pool' = pool /\ disk' = disk
  BY DEF CallCreate
<1>2. /\ \A g \in Files : Untouched(g, meta, pool, disk, Snapshot)
      /\ ShapesInv(meta, pool) /\ MetaInv /\ Seen = Snapshot
      /\ IsFiles(Snapshot.content)
  BY <1>1, CallStarts
<1> DEFINE c == [Snapshot.content EXCEPT ![f] = << >>]
<1>3. /\ IsFiles(c) /\ c[f] = << >> /\ \A g \in Files \ {f} : c[g] = Snapshot.content[g]
  BY <1>2 DEF IsFiles
<1> HIDE DEF c
<1>4. NewFile.size = 0 /\ NewFile.state = "New" /\ NewFile.chunk_count = 1 /\ NewFile.dirty = {}
  BY DEF NewFile
<1>5. EntryShape(f, NewFile)
  BY <1>1, <1>4 DEF EntryShape, ChunksOf
<1>6. ShapesInv(meta', pool')
  BY <1>1, <1>2, <1>5, ShapesStay
<1>7. ASSUME NEW g \in Files \ {f}
      PROVE  Shows(g, c[g], meta', pool') /\ Pinned(g, meta', pool')
  <2>1. SameEntry(g, meta, meta') /\ SameBlocks(g, pool, pool') /\ Copy(disk', g) = Copy(disk, g)
    BY <1>1, OthersStay
  <2>2. Untouched(g, meta', pool', disk', Snapshot)
    BY <1>2, <2>1, UntouchedStays
  <2> QED
    BY <1>3, <2>2 DEF Untouched
<1>8. f \in DOMAIN meta' /\ meta'[f] = NewFile
  BY <1>1, PutFacts
<1>9. Shows(f, c[f], meta', pool') /\ Pinned(f, meta', pool')
  BY <1>3, <1>4, <1>8, EmptyHolds DEF Shows, Pinned
<1>10. /\ SerialInv' /\ reply' = Done /\ Seen'.content = c /\ Seen'.durable = Seen.durable
  BY <1>1, <1>3, <1>6, <1>7, <1>9, CallReturns
<1>11. Seen.content[f] = NoContent
  BY <1>1, <1>2 DEF Untouched, Shows, InManifest
<1>12. Store!StoreNext
  BY <1>2, <1>10, <1>11, StoreCreates DEF c
<1> QED
  BY <1>10, <1>12 DEF Kept

\* An rmdir takes the new files below it out, in one step.
LEMMA RemoveNewReturns ==
  ASSUME OneCaller, SerialInv, DirtyInv', NEW t \in Threads, NEW D \in SUBSET Files,
         CallRemoveNew(t, D)
  PROVE  Kept
<1> DEFINE gone == {f \in D \cap DOMAIN meta : meta[f].state = "New"}
<1>1. /\ Begin(t, "remove_new") /\ meta' = Drop(meta, gone) /\ pool' = Drop(pool, Blocks(gone))
      /\ Finish(t, Done) /\ disk' = disk
  BY DEF CallRemoveNew
<1>2. /\ \A g \in Files : Untouched(g, meta, pool, disk, Snapshot)
      /\ ShapesInv(meta, pool) /\ MetaInv /\ Seen = Snapshot /\ PoolInv
  BY <1>1, CallStarts
<1> DEFINE c == [f \in Files |-> IF f \in D /\ Original[f] = NoContent
                                 THEN NoContent ELSE Snapshot.content[f]]
<1>3. IsFiles(c)
  BY DEF IsFiles
<1>4. \A f \in DOMAIN meta : EntryShape(f, meta[f])
  BY <1>2 DEF ShapesInv
<1>5. \A f \in gone : f \in D /\ f \in DOMAIN meta /\ Original[f] = NoContent
  BY <1>4 DEF EntryShape, InManifest
<1>6. \A f \in D \cap DOMAIN meta : Original[f] = NoContent /\ meta[f].state # "Deleted" => f \in gone
  BY <1>2, <1>4 DEF EntryShape, InManifest
<1>7. \A f : f \in DOMAIN meta /\ f \notin gone => f \in DOMAIN meta' /\ meta'[f] = meta[f]
  BY <1>1, DropFacts
<1>8. \A f : f \in DOMAIN meta' <=> f \in DOMAIN meta /\ f \notin gone
  BY <1>1, DropFacts
<1>9. /\ \A k : k \in DOMAIN pool' <=> k \in DOMAIN pool /\ k[1] \notin gone
      /\ \A k \in DOMAIN pool' : pool'[k] = pool[k]
  BY <1>1, DropFacts DEF Blocks
<1>10. ShapesInv(meta', pool')
  BY <1>2, <1>7, <1>8, <1>9 DEF ShapesInv
<1>11. ASSUME NEW g \in Files
       PROVE  Shows(g, c[g], meta', pool') /\ Pinned(g, meta', pool')
  <2>1. CASE g \in gone
    <3>1. g \notin DOMAIN meta' /\ c[g] = NoContent /\ Original[g] = NoContent
      BY <1>5, <1>8, <2>1
    <3> QED
      BY <3>1 DEF Shows, Pinned
  <2>2. CASE g \notin gone
    <3>1. SameEntry(g, meta, meta')
      BY <1>7, <1>8, <2>2 DEF SameEntry
    <3>2. SameBlocks(g, pool, pool')
      BY <1>9, <2>2 DEF SameBlocks
    <3>3. Untouched(g, meta', pool', disk', Snapshot)
      BY <1>1, <1>2, <3>1, <3>2, UntouchedStays
    <3>4. c[g] = Snapshot.content[g]
      <4>1. CASE g \in D /\ Original[g] = NoContent
        <5>1. Snapshot.content[g] = NoContent
          BY <1>2, <1>6, <2>2, <4>1 DEF Untouched, Shows
        <5> QED
          BY <4>1, <5>1
      <4>2. CASE ~(g \in D /\ Original[g] = NoContent)
        BY <4>2
      <4> QED
        BY <4>1, <4>2
    <3> HIDE DEF c, gone
    <3> QED
      BY <3>3, <3>4 DEF Untouched
  <2> QED
    BY <2>1, <2>2
<1> HIDE DEF gone, c
<1>12. SerialInv' /\ reply' = Done /\ Seen'.content = c /\ Seen'.durable = Seen.durable
  BY <1>1, <1>3, <1>10, <1>11, CallReturns
<1>13. Store!StoreNext
  BY <1>2, <1>12, StoreDeletesNew DEF c
<1> QED
  BY <1>12, <1>13 DEF Kept

-----------------------------------------------------------------------------
(* Sequences *)

\* Sequences of one length with the same elements are the same.
LEMMA SameSequence ==
  ASSUME NEW s \in Seq(Nat), NEW r \in Seq(Nat), Len(s) = Len(r),
         \A i \in 1 .. Len(s) : s[i] = r[i]
  PROVE  s = r
<1>1. s = [i \in 1 .. Len(s) |-> s[i]] /\ r = [i \in 1 .. Len(s) |-> r[i]]
  OBVIOUS
<1> QED
  BY <1>1

\* The bytes up to b of the first c ones.
LEMMA PartOfPrefix ==
  ASSUME NEW s \in Seq(Nat), NEW a \in Nat \ {0}, NEW b \in Nat, NEW c \in Nat,
         b <= c, c <= Len(s)
  PROVE  SubSeq(SubSeq(s, 1, c), a, b) = SubSeq(s, a, b) /\ Len(SubSeq(s, 1, c)) = c
<1> DEFINE p == SubSeq(s, 1, c)
           r == SubSeq(p, a, b)
           q == SubSeq(s, a, b)
<1>1. p \in Seq(Nat) /\ Len(p) = c /\ \A j \in 1 .. c : p[j] = s[j]
  <2>1. /\ p \in Seq(Nat) /\ Len(p) = IF 1 <= c THEN c - 1 + 1 ELSE 0
        /\ \A j \in 1 .. Len(p) : p[j] = s[1 + j - 1]
    BY PartOfSequence
  <2>2. Len(p) = c
    BY <2>1
  <2>3. \A j \in 1 .. c : 1 + j - 1 = j
    OBVIOUS
  <2> QED
    BY <2>1, <2>2, <2>3
<1> HIDE DEF p
<1>2. /\ r \in Seq(Nat) /\ Len(r) = IF a <= b THEN b - a + 1 ELSE 0
      /\ \A j \in 1 .. Len(r) : r[j] = p[a + j - 1]
  BY <1>1, PartOfSequence
<1>3. /\ q \in Seq(Nat) /\ Len(q) = IF a <= b THEN b - a + 1 ELSE 0
      /\ \A j \in 1 .. Len(q) : q[j] = s[a + j - 1]
  <2>1. b <= Len(s)
    OBVIOUS
  <2> QED
    BY <2>1, PartOfSequence
<1> HIDE DEF r, q
<1>4. ASSUME NEW j \in 1 .. Len(r) PROVE r[j] = q[j]
  <2>1. a + j - 1 \in 1 .. c
    BY <1>2
  <2> QED
    BY <1>1, <1>2, <1>3, <2>1
<1>5. r = q
  BY <1>2, <1>3, <1>4, SameSequence
<1> QED
  BY <1>1, <1>5 DEF p, r, q

\* A part of a file is a slice of it.
LEMMA PartIsSlice ==
  ASSUME NEW s \in Seq(Nat), Len(s) <= MaxSize, NEW off \in Nat, NEW e \in Nat, e <= Len(s)
  PROVE  \E a, n \in 0 .. MaxSize : SubSeq(s, off + 1, e) = Store!Slice(s, a, n)
<1>1. MaxSize \in Nat /\ Len(s) \in Nat
  BY DirtyAssumption
<1>2. CASE off < e
  <2>1. off \in 0 .. MaxSize /\ e - off \in 0 .. MaxSize /\ off + (e - off) = e
    BY <1>1, <1>2
  <2>2. (IF e < Len(s) THEN e ELSE Len(s)) = e
    BY <1>1
  <2>3. SubSeq(s, off + 1, e) = Store!Slice(s, off, e - off)
    BY <2>1, <2>2 DEF Store!Slice
  <2> QED
    BY <2>1, <2>3
<1>3. CASE ~(off < e)
  <2>1. (IF 0 + 0 < Len(s) THEN 0 + 0 ELSE Len(s)) = 0
    BY <1>1
  <2>2. Store!Slice(s, 0, 0) = SubSeq(s, 1, 0)
    BY <2>1 DEF Store!Slice
  <2>3. SubSeq(s, 1, 0) \in Seq(Nat) /\ Len(SubSeq(s, 1, 0)) = 0
    BY <1>1, PartOfSequence
  <2>4. SubSeq(s, off + 1, e) \in Seq(Nat) /\ Len(SubSeq(s, off + 1, e)) = 0
    BY <1>1, <1>3, PartOfSequence
  <2>5. SubSeq(s, off + 1, e) = SubSeq(s, 1, 0)
    BY <2>3, <2>4, SameSequence
  <2>6. 0 \in 0 .. MaxSize /\ SubSeq(s, off + 1, e) = Store!Slice(s, 0, 0)
    BY <1>1, <2>2, <2>5
  <2> QED
    BY <2>6, Zenon
<1> QED
  BY <1>2, <1>3

\* Of a range that starts in the first chunk the handler returns the right bytes.
LEMMA CleanBytesAreRight ==
  ASSUME NEW f \in Files, InManifest(f), NEW off \in Nat, off < ChunkSize, NEW n \in Nat \ {0}
  PROVE  \E e \in Nat : e <= Len(Original[f]) /\ CleanBytes(f, off, n) = SubSeq(Original[f], off + 1, e)
<1> DEFINE s == Original[f]
           size == Len(s)
           first == off \div ChunkSize
           e == Smaller(off + n, size)
           x == Larger(e - 1, 0)
           q == x \div ChunkSize
           past == Smaller((q + 1) * ChunkSize, size)
           data == SubSeq(s, first * ChunkSize + 1, past)
<1>1. s \in Seq(Nat) /\ size \in Nat /\ ChunkSize \in Nat /\ ChunkSize > 0
  BY DirtyAssumption DEF InManifest
<1> HIDE DEF s, size
<1>2. first = 0
  <2>1. first \in Nat /\ first * ChunkSize <= off
    BY Division
  <2>2. first * ChunkSize < 1 * ChunkSize
    BY <1>1, <2>1, Times
  <2> HIDE DEF first
  <2>3. first < 1
    BY <2>1, <2>2, Times
  <2> QED
    BY <2>1, <2>3
<1>3. e \in Nat /\ e <= size /\ e <= off + n /\ (e = off + n \/ e = size)
  BY <1>1 DEF Smaller
<1> HIDE DEF e
<1>4. x \in Nat /\ x >= e - 1
  BY <1>3 DEF Larger
<1> HIDE DEF x
<1>5. q \in Nat /\ x < (q + 1) * ChunkSize /\ (q + 1) * ChunkSize \in Nat
  <2>1. q \in Nat /\ x < (q + 1) * ChunkSize
    BY <1>4, Division
  <2> QED
    BY <2>1, Times
<1> HIDE DEF q
<1> DEFINE y == (q + 1) * ChunkSize
<1>6. y \in Nat /\ x < y
  BY <1>5
<1> HIDE DEF y
<1>7. past \in Nat /\ e <= past /\ past <= size
  BY <1>1, <1>3, <1>4, <1>6 DEF Smaller, y
<1>8. Smaller(off + n, past) = e
  BY <1>1, <1>3, <1>7 DEF Smaller
<1> HIDE DEF past
<1>9. first * ChunkSize + 1 = 1
  BY <1>1, <1>2
<1>10. data = SubSeq(s, 1, past)
  BY <1>9
<1>11. off + 1 \in Nat \ {0} /\ past <= Len(s)
  BY <1>7 DEF size
<1> HIDE DEF first, data
<1>12. Len(data) = past /\ SubSeq(data, off + 1, e) = SubSeq(s, off + 1, e)
  <2>1. /\ SubSeq(SubSeq(s, 1, past), off + 1, e) = SubSeq(s, off + 1, e)
        /\ Len(SubSeq(s, 1, past)) = past
    BY <1>1, <1>3, <1>7, <1>11, PartOfPrefix
  <2> QED
    BY <1>10, <2>1
<1>13. CleanBytes(f, off, n) = SubSeq(data, off + 1, Smaller(off + n, Len(data)))
  BY DEF CleanBytes, data, past, q, x, e, first, size, s
<1> HIDE DEF data
<1>14. CleanBytes(f, off, n) = SubSeq(s, off + 1, e)
  BY <1>8, <1>12, <1>13
<1> QED
  BY <1>3, <1>14 DEF s, size

\* A read of an unmodified file, from its first chunk, answers its bytes.
LEMMA CleanReadReturns ==
  ASSUME OneCaller, SerialInv, DirtyInv', NEW t \in Threads, NEW f \in Files,
         NEW s \in ReadSpans, s[1] < ChunkSize, CallCleanRead(t, f, s)
  PROVE  Kept
<1>1. /\ Begin(t, "read") /\ f \notin DOMAIN meta /\ Visible(f)
      /\ Finish(t, Got(CleanBytes(f, s[1], s[2])))
      /\ meta' = meta /\ pool' = pool /\ disk' = disk
  BY DEF CallCleanRead, shared
<1>2. /\ \A g \in Files : Untouched(g, meta, pool, disk, Snapshot)
      /\ ShapesInv(meta, pool) /\ MetaInv /\ Seen = Snapshot
      /\ IsFiles(Snapshot.content)
  BY <1>1, CallStarts
<1>3. InManifest(f) /\ Snapshot.content[f] = Original[f]
      /\ Snapshot.content[f] \in Seq(Nat) /\ Snapshot.content[f] # NoContent
  BY <1>1, <1>2, VisibleIsOpen DEF Untouched, Shows
<1>4. s[1] \in Nat /\ s[2] \in Nat \ {0}
  BY DirtyAssumption
<1>5. Len(Original[f]) <= MaxSize
  BY <1>3, DirtyAssumption DEF InManifest
<1>6. PICK e \in Nat : e <= Len(Original[f])
                       /\ CleanBytes(f, s[1], s[2]) = SubSeq(Original[f], s[1] + 1, e)
  BY <1>3, <1>4, CleanBytesAreRight
<1>7. PICK a \in 0 .. MaxSize, n \in 0 .. MaxSize :
        SubSeq(Original[f], s[1] + 1, e) = Store!Slice(Original[f], a, n)
  BY <1>3, <1>4, <1>5, <1>6, PartIsSlice
<1>8. /\ SerialInv' /\ reply' = Got(CleanBytes(f, s[1], s[2]))
      /\ Seen'.content = Snapshot.content /\ Seen'.durable = Seen.durable
  BY <1>1, <1>2, CallReturns DEF Untouched
<1>9. reply' = Got(Store!Slice(Seen.content[f], a, n))
  BY <1>2, <1>3, <1>6, <1>7, <1>8
<1>10. Store!StoreNext
  BY <1>2, <1>3, <1>8, <1>9, StoreReads
<1> QED
  BY <1>8, <1>10 DEF Kept

-----------------------------------------------------------------------------
(* Clearing, evictions, and the first state *)

\* A clear takes the blocks of all files out of the pool.
LEMMA ClearBegins ==
  ASSUME OneCaller, SerialInv, DirtyInv', NEW t \in Threads, CallClear(t)
  PROVE  Kept
<1> DEFINE l == Args("clear", NoContent, 0, 0)
<1>1. /\ Begin(t, "clear") /\ pool' = Drop(pool, Blocks(DOMAIN meta))
      /\ Continue(t, "clear_meta", l) /\ meta' = meta /\ disk' = disk
  BY DEF CallClear
<1>2. /\ ShapesInv(meta, pool) /\ \A g \in Files : Snapshot.durable[g] = Copy(disk, g)
  BY <1>1, CallStarts
<1>3. DOMAIN pool' = {}
  <2>1. \A k \in DOMAIN pool : k \in Blocks(DOMAIN meta)
    BY <1>2 DEF ShapesInv, Blocks
  <2> QED
    <3>1. \A x : x \in DOMAIN Drop(pool, Blocks(DOMAIN meta))
                 <=> x \in DOMAIN pool /\ x \notin Blocks(DOMAIN meta)
      BY DropFacts
    <3> QED
      BY <1>1, <2>1, <3>1
<1>4. ShapesInv(meta', pool')
  BY <1>1, <1>2, ShapesStay
<1> HIDE DEF l
<1>5. CallInv("clear_meta", l, meta', pool', disk', Snapshot)
  BY <1>1, <1>2, <1>3
  DEF CallInv, WritePoints, Walking, DeletePoints, FlushPoints
<1> QED
  BY <1>1, <1>4, <1>5, CallInside DEF Kept

\* A step at a point, and what the invariant says there.
LEMMA StepStarts ==
  ASSUME OneCaller, SerialInv, NEW t \in Threads, NEW from, from # "idle", Step(t, from)
  PROVE  /\ CallInv(from, loc[t], meta, pool, disk, before) /\ ShapesInv(meta, pool)
         /\ MetaInv /\ PoolInv /\ DiskInv /\ LocalsAreSound(from, loc[t], calls) /\ loc[t] \in Locals
         /\ calls \in Nat /\ calls <= MaxCalls /\ MaxCalls \in Nat
         /\ Seen = before /\ before' = before /\ IsSeen(before)
         /\ IsFiles(before.content) /\ IsFiles(before.durable)
<1>1. pc[t] = from /\ before' = before
  BY DEF Step
<1>2. CallInv(from, loc[t], meta, pool, disk, before) /\ ShapesInv(meta, pool) /\ DirtyInv
      /\ IsSeen(before)
  BY <1>1 DEF SerialInv
<1>3. MetaInv /\ PoolInv /\ DiskInv /\ LocalsAreSound(from, loc[t], calls) /\ loc[t] \in Locals
  BY <1>2, InACall
<1>4. Seen = before
  BY <1>1, OneThread DEF Seen
<1>5. calls \in Nat /\ calls <= MaxCalls /\ MaxCalls \in Nat
  BY <1>2, CallsCount
<1>6. IsFiles(before.content) /\ IsFiles(before.durable)
  BY <1>2 DEF IsSeen, IsFiles
<1> QED
  BY <1>1, <1>2, <1>3, <1>4, <1>5, <1>6

\* A clear ends when it has emptied the table: the files are as at first.
LEMMA ClearMetaEnds ==
  ASSUME OneCaller, SerialInv, DirtyInv', NEW t \in Threads, ClearMeta(t)
  PROVE  Kept
<1>1. Step(t, "clear_meta") /\ meta' = << >> /\ Finish(t, Done) /\ pool' = pool /\ disk' = disk
  BY DEF ClearMeta
<1>2. /\ CallInv("clear_meta", loc[t], meta, pool, disk, before)
      /\ Seen = before /\ before' = before /\ IsSeen(before) /\ IsFiles(before.durable)
  BY <1>1, StepStarts
<1>3. DOMAIN pool = {} /\ \A g \in Files : Copy(disk, g) = before.durable[g]
  BY <1>2 DEF CallInv
<1>4. DOMAIN meta' = {}
  BY <1>1
<1>5. ShapesInv(meta', pool')
  BY <1>1, <1>3, <1>4 DEF ShapesInv
<1> DEFINE c == [f \in Files |-> Original[f]]
<1>6. IsFiles(c) /\ \A f \in Files : c[f] = Original[f]
  BY DEF IsFiles
<1> HIDE DEF c
<1>7. AllShown(c, before.durable, meta', pool', disk')
  BY <1>1, <1>3, <1>4, <1>6 DEF AllShown, Shows, Pinned
<1>8. SerialInv' /\ reply' = Done /\ Seen'.content = c /\ Seen'.durable = before.durable
  BY <1>1, <1>2, <1>5, <1>6, <1>7, CallEnds
<1>9. Store!StoreNext
  BY <1>2, <1>8, StoreResets DEF c
<1> QED
  BY <1>8, <1>9 DEF Kept

\* An eviction between calls takes a block that holds what loading would give.
LEMMA EvictKeeps ==
  ASSUME OneCaller, SerialInv, DirtyInv', SerialEvict
  PROVE  Kept
<1>1. PICK k \in DOMAIN pool : ~pool[k].needs_flush /\ pool' = Drop(pool, {k})
  BY DEF SerialEvict, Evict
<1>2. /\ meta' = meta /\ disk' = disk /\ pc' = pc /\ before' = before /\ reply' = reply
      /\ Idle
  BY DEF SerialEvict, Evict
<1>3. Idle'
  BY <1>2 DEF Idle
<1>4. InManifest(k[1])
  BY <1>1, DropFacts DEF SerialEvict
<1>5. ShapesInv(meta, pool) /\ MetaInv' /\ \A f \in Files : Untouched(f, meta, pool, disk, Snapshot)
  BY <1>2 DEF SerialInv, DirtyInv
<1>6. pool[k].data = Fetched(k[1], k[2])
  BY <1>1, <1>4, <1>5 DEF ShapesInv, BlockShape
<1>7. ASSUME NEW f, NEW c PROVE DataIn(pool', f, c) = DataIn(pool, f, c)
  <2>1. CASE k = <<f, c>>
    BY <1>1, <1>6, <2>1 DEF DataIn, Drop
  <2>2. CASE k # <<f, c>>
    BY <1>1, <2>2 DEF DataIn, Drop
  <2> QED
    BY <2>1, <2>2
<1>8. \A f, b : Holds(pool, f, b) => Holds(pool', f, b)
  BY <1>7 DEF Holds
<1>9. IsFiles(Snapshot.content) /\ IsFiles(Snapshot.durable)
  BY DEF Snapshot, IsFiles
<1>10. ASSUME NEW f \in Files
       PROVE  /\ Shows(f, Snapshot.content[f], meta', pool') /\ Pinned(f, meta', pool')
              /\ Copy(disk', f) = Snapshot.durable[f]
  <2>1. /\ Shows(f, Snapshot.content[f], meta, pool) /\ Pinned(f, meta, pool)
        /\ Copy(disk, f) = Snapshot.durable[f]
    BY <1>5 DEF Untouched
  <2>2. Shows(f, Snapshot.content[f], meta', pool')
    BY <1>2, <1>8, <2>1 DEF Shows
  <2>3. Pinned(f, meta', pool')
    BY <1>1, <1>2, <2>1 DEF Pinned, Drop
  <2> QED
    BY <1>2, <2>1, <2>2, <2>3
<1>11. AllShown(Snapshot.content, Snapshot.durable, meta', pool', disk')
  BY <1>10 DEF AllShown
<1>12. /\ Snapshot' = [content |-> Snapshot.content, durable |-> Snapshot.durable]
       /\ \A f \in Files : Untouched(f, meta', pool', disk', Snapshot')
  BY <1>5, <1>9, <1>11, ShownIsSnapshot
<1>13. ShapesInv(meta', pool')
  BY <1>1, <1>2, <1>5, ShapesStay
<1>14. SerialInv'
  <2>1. \A t \in Threads : pc'[t] = "idle"
    BY <1>2 DEF Idle
  <2>2. IsSeen(before')
    BY <1>2 DEF SerialInv
  <2> QED
    BY <1>12, <1>13, <2>1, <2>2 DEF SerialInv
<1>15. Seen'.content = Seen.content /\ Seen'.durable = Seen.durable
  BY <1>2, <1>3, <1>12 DEF Seen
<1> QED
  BY <1>2, <1>14, <1>15 DEF Kept, Store!storeVars

\* A step that changes nothing is a stuttering step of the store.
LEMMA StutterKeeps ==
  ASSUME SerialInv, DirtyInv', UNCHANGED vars
  PROVE  Kept
<1>1. /\ meta' = meta /\ pool' = pool /\ disk' = disk /\ pc' = pc /\ loc' = loc
      /\ before' = before /\ reply' = reply
  BY DEF vars
<1>2. Snapshot' = Snapshot
  BY <1>1, ViewIsFile
<1>3. Idle' <=> Idle
  BY <1>1 DEF Idle
<1>4. Seen' = Seen
  BY <1>1, <1>2, <1>3 DEF Seen
<1>5. SerialInv'
  <2>1. ShapesInv(meta', pool') /\ IsSeen(before')
    BY <1>1 DEF SerialInv
  <2>2. Idle' => \A f \in Files : Untouched(f, meta', pool', disk', Snapshot')
    BY <1>1, <1>2, <1>3 DEF SerialInv
  <2>3. \A t \in Threads : pc'[t] # "idle" => CallInv(pc'[t], loc'[t], meta', pool', disk', before')
    BY <1>1 DEF SerialInv
  <2> QED
    BY <2>1, <2>2, <2>3 DEF SerialInv
<1> QED
  BY <1>1, <1>4, <1>5 DEF Kept, Store!storeVars

\* The layer begins as the store does.
LEMMA FirstState == Init => SerialInv /\ Store!StoreInit
<1> SUFFICES ASSUME Init PROVE SerialInv /\ Store!StoreInit
  OBVIOUS
<1>1. /\ meta = << >> /\ pool = << >> /\ disk = << >> /\ reply = Done /\ before = Snapshot
      /\ \A t \in Threads : pc[t] = "idle"
  BY DEF Init
<1>2. DOMAIN meta = {} /\ DOMAIN pool = {} /\ DOMAIN disk = {}
  BY <1>1
<1>3. DirtyInv
  BY InitIsSound
<1>4. ShapesInv(meta, pool)
  BY <1>2 DEF ShapesInv
<1>5. \A f \in Files : /\ Snapshot.content[f] = Original[f] /\ Snapshot.durable[f] = NoContent
                       /\ Copy(disk, f) = NoContent
  BY <1>2 DEF Snapshot, View, DiskCopy, Copy
<1>6. \A f \in Files : Untouched(f, meta, pool, disk, Snapshot)
  BY <1>2, <1>5 DEF Untouched, Shows, Pinned
<1>7. IsSeen(before)
  BY <1>1, SeenIsTyped
<1>8. SerialInv
  BY <1>1, <1>3, <1>4, <1>6, <1>7 DEF SerialInv
<1>9. Seen = Snapshot
  BY <1>1 DEF Seen
<1>10. /\ Seen.content = [f \in Files |-> Original[f]]
       /\ Seen.durable = [f \in Files |-> NoContent]
  BY <1>2, <1>9 DEF Snapshot, View, DiskCopy
<1> QED
  BY <1>1, <1>8, <1>10, StoreReplies DEF Store!StoreInit

-----------------------------------------------------------------------------
(* What a write has written *)

\* A file that is partly written is a sequence of bytes, byte by byte known.
LEMMA WrittenIsTyped ==
  ASSUME NEW b \in Seq(Nat), NEW off \in Nat, NEW v \in Nat, NEW k \in Nat, off <= Len(b)
  PROVE  LET w == Written(b, off, v, k) IN
         /\ w \in Seq(Nat) /\ Len(w) = Larger(Len(b), off + k) /\ Len(w) \in Nat /\ Len(b) <= Len(w)
         /\ \A i \in 1 .. Len(w) :
              w[i] = IF off < i /\ i <= off + k THEN Byte(v, i) ELSE b[i]
<1> DEFINE n == Larger(Len(b), off + k)
           w == [i \in 1 .. n |-> IF off < i /\ i <= off + k THEN Byte(v, i) ELSE b[i]]
<1>1. n \in Nat /\ Len(b) \in Nat /\ off + k \in Nat /\ Len(b) <= n
      /\ (n = Len(b) \/ n = off + k)
  BY DEF Larger
<1> HIDE DEF n
<1>2. ASSUME NEW i \in 1 .. n
      PROVE  (IF off < i /\ i <= off + k THEN Byte(v, i) ELSE b[i]) \in Nat
  <2>1. CASE off < i /\ i <= off + k
    BY <2>1, <1>1 DEF Byte
  <2>2. CASE ~(off < i /\ i <= off + k)
    <3>1. i \in 1 .. Len(b)
      BY <1>1, <2>2
    <3> QED
      BY <2>2, <3>1
  <2> QED
    BY <2>1, <2>2
<1>3. w \in Seq(Nat) /\ Len(w) = n
  BY <1>1, <1>2
<1>4. \A i \in 1 .. Len(w) :
        w[i] = IF off < i /\ i <= off + k THEN Byte(v, i) ELSE b[i]
  BY <1>1, <1>3
<1>5. Written(b, off, v, k) = w
  BY DEF Written, n, w
<1> HIDE DEF w
<1> QED
  BY <1>1, <1>3, <1>4, <1>5 DEF n

\* Before the first byte is sent, the file is as it was.
LEMMA NothingWritten ==
  ASSUME NEW b \in Seq(Nat), NEW off \in Nat, NEW v \in Nat, off <= Len(b)
  PROVE  Written(b, off, v, 0) = b
<1> DEFINE w == Written(b, off, v, 0)
<1>1. /\ w \in Seq(Nat) /\ Len(w) = Larger(Len(b), off + 0)
      /\ \A i \in 1 .. Len(w) : w[i] = IF off < i /\ i <= off + 0 THEN Byte(v, i) ELSE b[i]
  BY WrittenIsTyped
<1> HIDE DEF w
<1>2. Len(w) = Len(b) /\ Len(b) \in Nat
  BY <1>1 DEF Larger
<1>3. \A i \in 1 .. Len(w) : w[i] = b[i]
  BY <1>1, <1>2
<1> QED
  BY <1>1, <1>2, <1>3, SameSequence DEF w

\* It is the abstract store's overlay; cut to the old length, a torn write's.
LEMMA WrittenIsOverlay ==
  ASSUME NEW b \in Seq(Nat), NEW off \in Nat, NEW v \in Nat, NEW k \in Nat, off <= Len(b)
  PROVE  Written(b, off, v, k) = Store!Overlay(b, off, Store!Bytes(v, off, k))
<1> DEFINE r == [i \in 1 .. k |-> Byte(v, off + i)]
<1>1. r \in Seq(Nat) /\ Len(r) = k /\ \A i \in 1 .. k : r[i] = Byte(v, off + i)
  BY DEF Byte
<1>2. Store!Bytes(v, off, k) = r
  BY DEF Store!Bytes
<1> HIDE DEF r
<1> DEFINE n == Larger(Len(b), off + k)
           o == [i \in 1 .. n |-> IF i \in off + 1 .. off + k THEN r[i - off]
                                  ELSE IF i <= Len(b) THEN b[i] ELSE 0]
<1>3. n \in Nat /\ Len(b) \in Nat /\ (n = Len(b) \/ n = off + k)
      /\ n = IF off + k > Len(b) THEN off + k ELSE Len(b)
  BY DEF Larger
<1>4. Store!Overlay(b, off, r) = o
  BY <1>1, <1>3 DEF Store!Overlay
<1> HIDE DEF n
<1>5. ASSUME NEW i \in 1 .. n
      PROVE  (IF i \in off + 1 .. off + k THEN r[i - off] ELSE IF i <= Len(b) THEN b[i] ELSE 0)
             = IF off < i /\ i <= off + k THEN Byte(v, i) ELSE b[i]
  <2>1. CASE off < i /\ i <= off + k
    <3>1. i - off \in 1 .. k /\ off + (i - off) = i /\ i \in off + 1 .. off + k
      BY <1>3, <2>1
    <3>2. r[i - off] = Byte(v, i)
      BY <1>1, <3>1
    <3> QED
      BY <2>1, <3>1, <3>2
  <2>2. CASE ~(off < i /\ i <= off + k)
    <3>1. i <= Len(b) /\ i \notin off + 1 .. off + k
      BY <1>3, <2>2
    <3> QED
      BY <2>2, <3>1
  <2> QED
    BY <2>1, <2>2
<1>6. o = [i \in 1 .. n |-> IF off < i /\ i <= off + k THEN Byte(v, i) ELSE b[i]]
  BY <1>5
<1>7. Written(b, off, v, k) = o
  BY <1>6 DEF Written, n
<1> QED
  BY <1>2, <1>4, <1>7

\* The first n bytes of a sequence that is long enough.
LEMMA ResizedIsPart ==
  ASSUME NEW s \in Seq(Nat), NEW n \in Nat, n <= Len(s)
  PROVE  /\ Store!Resize(s, n) \in Seq(Nat) /\ Len(Store!Resize(s, n)) = n
         /\ \A i \in 1 .. n : Store!Resize(s, n)[i] = s[i]
         /\ Store!Resize(s, n) = SubSeq(s, 1, n)
<1> DEFINE r == [i \in 1 .. n |-> IF i <= Len(s) THEN s[i] ELSE 0]
           q == SubSeq(s, 1, n)
<1>1. \A i \in 1 .. n : i <= Len(s) /\ s[i] \in Nat
  OBVIOUS
<1>2. r \in Seq(Nat) /\ Len(r) = n /\ \A i \in 1 .. n : r[i] = s[i]
  BY <1>1
<1>3. Store!Resize(s, n) = r
  BY DEF Store!Resize
<1>4. /\ q \in Seq(Nat) /\ Len(q) = IF 1 <= n THEN n - 1 + 1 ELSE 0
      /\ \A j \in 1 .. Len(q) : q[j] = s[1 + j - 1]
  BY PartOfSequence
<1> HIDE DEF q, r
<1>5. Len(q) = n
  BY <1>4
<1>6. \A j \in 1 .. n : q[j] = s[j]
  <2>1. \A j \in 1 .. n : 1 + j - 1 = j
    OBVIOUS
  <2> QED
    BY <1>4, <1>5, <2>1
<1>7. r = q
  BY <1>2, <1>4, <1>5, <1>6, SameSequence
<1> QED
  BY <1>2, <1>3, <1>7 DEF q

\* A file holds less of what it holds.
LEMMA PrefixHolds ==
  ASSUME NEW p, NEW f, NEW s \in Seq(Nat), NEW r \in Seq(Nat), Len(r) <= Len(s),
         \A i \in 1 .. Len(r) : r[i] = s[i], Holds(p, f, s)
  PROVE  Holds(p, f, r)
<1> SUFFICES ASSUME NEW c \in Chunks, NEW j \in 1 .. ChunkSize, c * ChunkSize + j <= Len(r)
             PROVE  j <= Len(DataIn(p, f, c)) /\ DataIn(p, f, c)[j] = r[c * ChunkSize + j]
  BY DEF Holds
<1>1. c \in Nat /\ ChunkSize \in Nat /\ Len(r) \in Nat /\ Len(s) \in Nat
  BY LastChunk, DirtyAssumption
<1>2. c * ChunkSize \in Nat
  BY <1>1, Times
<1>3. c * ChunkSize + j \in 1 .. Len(r) /\ c * ChunkSize + j <= Len(s)
  BY <1>1, <1>2
<1> QED
  BY <1>3 DEF Holds

\* The bytes of a part go to their places in one chunk, and no other byte moves.
LEMMA PartHolds ==
  ASSUME NEW p, NEW q, PoolTyped(p), NEW f \in Files, NEW b \in Seq(Nat),
         NEW off \in Nat, NEW v \in Nat, NEW k \in Nat, off <= Len(b),
         NEW c \in Chunks, NEW from \in Nat, NEW part \in Seq(Nat),
         from + Len(part) <= ChunkSize, off + k = c * ChunkSize + from,
         \A i \in 1 .. Len(part) : part[i] = Byte(v, c * ChunkSize + from + i),
         DataIn(q, f, c) = Splice(DataIn(p, f, c), from, part),
         \A d \in Chunks : d # c => DataIn(q, f, d) = DataIn(p, f, d),
         Holds(p, f, Written(b, off, v, k))
  PROVE  Holds(q, f, Written(b, off, v, k + Len(part)))
<1> DEFINE s == Written(b, off, v, k)
           n == Len(part)
           r == Written(b, off, v, k + n)
           C == c * ChunkSize
<1>1. c \in Nat /\ ChunkSize \in Nat /\ n \in Nat /\ Len(b) \in Nat /\ k + n \in Nat
  BY LastChunk, DirtyAssumption
<1>2. C \in Nat
  BY <1>1, Times
<1>3. /\ Len(s) = Larger(Len(b), off + k) /\ Len(s) \in Nat
      /\ \A i \in 1 .. Len(s) : s[i] = IF off < i /\ i <= off + k THEN Byte(v, i) ELSE b[i]
  BY WrittenIsTyped
<1>4. /\ Len(r) = Larger(Len(b), off + (k + n)) /\ Len(r) \in Nat
      /\ \A i \in 1 .. Len(r) : r[i] = IF off < i /\ i <= off + (k + n) THEN Byte(v, i) ELSE b[i]
  BY <1>1, WrittenIsTyped, SMTT(30)
<1>5. off + (k + n) = C + from + n /\ off + k = C + from
  <2>1. off + k = C + from
    OBVIOUS
  <2> HIDE DEF C, n
  <2> QED
    BY <1>1, <1>2, <2>1
<1> DEFINE data == DataIn(p, f, c)
           more == DataIn(q, f, c)
<1>6. data \in Seq(Nat) /\ Len(data) \in Nat
  BY DataIsTyped
<1>7. /\ Len(more) = Larger(from + n, Len(data)) /\ Len(more) \in Nat
      /\ \A i \in 1 .. Len(more) :
           more[i] = IF i \in from + 1 .. from + n THEN part[i - from]
                     ELSE IF i <= Len(data) THEN data[i] ELSE 0
  <2> DEFINE len == Larger(from + n, Len(data))
             x == [i \in 1 .. len |-> IF i \in from + 1 .. from + n THEN part[i - from]
                                      ELSE IF i <= Len(data) THEN data[i] ELSE 0]
  <2>1. more = x
    BY DEF Splice
  <2>2. len \in Nat
    BY <1>1, <1>6 DEF Larger
  <2> HIDE DEF len, data, more
  <2>3. Len(x) = len /\ \A i \in 1 .. len : x[i] = IF i \in from + 1 .. from + n THEN part[i - from]
                                      ELSE IF i <= Len(data) THEN data[i] ELSE 0
    BY <2>2
  <2> HIDE DEF x
  <2> QED
    BY <2>1, <2>2, <2>3 DEF len
<1> HIDE DEF s, r, data, more, n
<1> SUFFICES ASSUME NEW d \in Chunks, NEW j \in 1 .. ChunkSize, d * ChunkSize + j <= Len(r)
             PROVE  j <= Len(DataIn(q, f, d)) /\ DataIn(q, f, d)[j] = r[d * ChunkSize + j]
  BY DEF Holds, r, n
<1>8. ASSUME d * ChunkSize + j <= Len(s)
      PROVE  j <= Len(DataIn(p, f, d)) /\ DataIn(p, f, d)[j] = s[d * ChunkSize + j]
  BY <1>8 DEF Holds, s
<1>9. d \in Nat /\ j \in Nat /\ j >= 1 /\ j <= ChunkSize
  BY <1>1, LastChunk, DirtyAssumption
<1> DEFINE D == d * ChunkSize
<1>10. D \in Nat
  BY <1>9, Times
<1>14. D + j <= Len(r)
  OBVIOUS
<1>15. D + j <= Len(s) => j <= Len(DataIn(p, f, d)) /\ DataIn(p, f, d)[j] = s[D + j]
  BY <1>8
<1> SUFFICES j <= Len(DataIn(q, f, d)) /\ DataIn(q, f, d)[j] = r[D + j]
  OBVIOUS
<1>16. d < c => D + ChunkSize <= C
  BY <1>1, <1>9, ChunksInOrder
<1>17. d > c => C + ChunkSize <= D
  BY <1>1, <1>9, ChunksInOrder
<1>18. d = c => D = C
  OBVIOUS
<1>19. \A i \in 1 .. n : part[i] = Byte(v, C + from + i)
  BY DEF n
<1>20. from + n <= ChunkSize
  BY DEF n
<1> HIDE DEF C, D
<1>11. CASE d < c
  <2>1. D + ChunkSize <= C
    BY <1>11, <1>16
  <2>2. D + j <= off + k /\ D + j <= off + (k + n)
    BY <1>1, <1>2, <1>5, <1>9, <1>10, <2>1
  <2>3. D + j \in 1 .. Len(s) /\ D + j \in 1 .. Len(r)
    BY <1>1, <1>3, <1>4, <1>9, <1>10, <1>14, <2>2 DEF Larger
  <2>4. r[D + j] = s[D + j]
    BY <1>3, <1>4, <2>2, <2>3
  <2> QED
    <3>1. d # c
      BY <1>1, <1>9, <1>11
    <3>2. DataIn(q, f, d) = DataIn(p, f, d)
      BY <3>1
    <3>3. D + j <= Len(s)
      BY <1>3, <2>3
    <3> QED
      BY <1>15, <2>4, <3>2, <3>3
<1>12. CASE d > c
  <2>1. C + ChunkSize <= D
    BY <1>12, <1>17
  <2>2. ~(D + j <= off + k) /\ ~(D + j <= off + (k + n))
    BY <1>1, <1>2, <1>5, <1>9, <1>10, <1>20, <2>1
  <2>3. D + j \in 1 .. Len(s) /\ D + j \in 1 .. Len(r)
    BY <1>1, <1>3, <1>4, <1>9, <1>10, <1>14, <2>2, SMTT(30) DEF Larger
  <2>4. r[D + j] = s[D + j]
    BY <1>3, <1>4, <2>2, <2>3
  <2> QED
    <3>1. d # c
      BY <1>1, <1>9, <1>12
    <3>2. DataIn(q, f, d) = DataIn(p, f, d)
      BY <3>1
    <3>3. D + j <= Len(s)
      BY <1>3, <2>3
    <3> QED
      BY <1>15, <2>4, <3>2, <3>3
<1>13. CASE d = c
  <2>1. D = C
    BY <1>13, <1>18
  <2>2. DataIn(p, f, d) = data /\ DataIn(q, f, d) = more
    BY <1>13 DEF data, more
  <2>3. D + j \in 1 .. Len(r)
    BY <1>4, <1>9, <1>10, <1>14
  <2>4. r[D + j] = IF off < D + j /\ D + j <= off + (k + n) THEN Byte(v, D + j) ELSE b[D + j]
    BY <1>4, <2>3
  <2>5. CASE j \in from + 1 .. from + n
    <3>1. j - from \in 1 .. n /\ from + (j - from) = j
      BY <1>1, <1>9, <2>5
    <3>2. j \in 1 .. Len(more)
      BY <1>1, <1>6, <1>7, <1>9, <2>5 DEF Larger
    <3>3. more[j] = part[j - from]
      BY <1>7, <2>5, <3>2
    <3>4. part[j - from] = Byte(v, C + from + (j - from))
      BY <1>19, <3>1
    <3>5. C + from + (j - from) = D + j
      BY <1>2, <1>9, <2>1
    <3>6. off < D + j /\ D + j <= off + (k + n)
      BY <1>1, <1>2, <1>5, <1>9, <2>1, <2>5
    <3> QED
      BY <2>2, <2>4, <3>2, <3>3, <3>4, <3>5, <3>6, <1>7, <1>9
  <2>6. CASE j \notin from + 1 .. from + n
    <3>1. D + j <= off + k \/ D + j > off + (k + n)
      BY <1>1, <1>2, <1>5, <1>9, <2>1, <2>6
    <3>2. D + j \in 1 .. Len(s)
      BY <1>1, <1>3, <1>4, <1>9, <1>10, <2>3, <3>1, SMTT(30) DEF Larger
    <3>3. s[D + j] = r[D + j]
      <4>1. s[D + j] = IF off < D + j /\ D + j <= off + k THEN Byte(v, D + j) ELSE b[D + j]
        BY <1>3, <3>2
      <4>2. (off < D + j /\ D + j <= off + k) <=> (off < D + j /\ D + j <= off + (k + n))
        BY <1>1, <1>10, <3>1
      <4> QED
        BY <2>4, <4>1, <4>2
    <3>4. j <= Len(data) /\ data[j] = s[D + j]
      BY <1>15, <2>2, <3>2
    <3>5. j \in 1 .. Len(more)
      BY <1>1, <1>6, <1>7, <1>9, <3>4 DEF Larger
    <3>6. more[j] = data[j]
      BY <1>7, <2>6, <3>4, <3>5
    <3> QED
      BY <2>2, <3>3, <3>4, <3>5, <3>6, <1>7
  <2> QED
    BY <2>5, <2>6
<1> QED
  BY <1>1, <1>9, <1>11, <1>12, <1>13

-----------------------------------------------------------------------------
(* Loading *)

\* The invariant of the pool gives the type of its blocks.
LEMMA PoolIsTyped == PoolInv => PoolTyped(pool)
BY DEF PoolInv, PoolTyped, ChunkIsSound

\* All other files are left alone.
Aside(f, m, n, p, q, d, e) ==
  \A g : g # f => SameEntry(g, m, n) /\ SameBlocks(g, p, q) /\ Copy(e, g) = Copy(d, g)

\* A step aside from the other files leaves them as they were.
LEMMA OthersUntouched ==
  ASSUME NEW f, NEW m, NEW n, NEW p, NEW q, NEW d, NEW e, NEW w, Aside(f, m, n, p, q, d, e),
         \A g \in Files \ {f} : Untouched(g, m, p, d, w)
  PROVE  \A g \in Files \ {f} : Untouched(g, n, q, e, w)
BY UntouchedStays DEF Aside

\* The updates the calls make are aside from the files they are not about.
LEMMA AsideFacts ==
  ASSUME NEW f, NEW m, NEW p, NEW d
  PROVE  /\ Aside(f, m, m, p, p, d, d)
         /\ \A v : Aside(f, m, Put(m, f, v), p, p, d, d) /\ Aside(f, m, [m EXCEPT ![f] = v], p, p, d, d)
         /\ Aside(f, m, Drop(m, {f}), p, p, d, d)
         /\ \A v, c : Aside(f, m, m, p, Put(p, <<f, c>>, v), d, d)
                      /\ Aside(f, m, m, p, [p EXCEPT ![<<f, c>>] = v], d, d)
         /\ \A K : (\A k \in K : k[1] = f) => Aside(f, m, m, p, Drop(p, K), d, d)
         /\ \A v : Aside(f, m, m, p, p, d, Put(d, f, v))
         /\ Aside(f, m, m, p, p, d, Drop(d, {f}))
<1>1. \A x, g : g # f => SameEntry(g, x, x) /\ SameBlocks(g, x, x)
  BY OthersStay
<1>2. Aside(f, m, m, p, p, d, d)
  BY <1>1 DEF Aside
<1>3. ASSUME NEW v
      PROVE  Aside(f, m, Put(m, f, v), p, p, d, d) /\ Aside(f, m, [m EXCEPT ![f] = v], p, p, d, d)
  <2>1. \A g : g # f => SameEntry(g, m, Put(m, f, v)) /\ SameEntry(g, m, [m EXCEPT ![f] = v])
    BY OthersStay
  <2> QED
    BY <1>1, <2>1 DEF Aside
<1>4. Aside(f, m, Drop(m, {f}), p, p, d, d)
  <2>1. \A g : g # f => SameEntry(g, m, Drop(m, {f}))
    BY OthersStay
  <2> QED
    BY <1>1, <2>1 DEF Aside
<1>5. ASSUME NEW v, NEW c
      PROVE  /\ Aside(f, m, m, p, Put(p, <<f, c>>, v), d, d)
             /\ Aside(f, m, m, p, [p EXCEPT ![<<f, c>>] = v], d, d)
  <2>1. \A g : g # f => /\ SameBlocks(g, p, Put(p, <<f, c>>, v))
                        /\ SameBlocks(g, p, [p EXCEPT ![<<f, c>>] = v])
    BY OthersStay
  <2> QED
    BY <1>1, <2>1 DEF Aside
<1>6. ASSUME NEW K, \A k \in K : k[1] = f PROVE Aside(f, m, m, p, Drop(p, K), d, d)
  <2>1. \A g : g # f => SameBlocks(g, p, Drop(p, K))
    BY <1>6, OthersStay
  <2> QED
    BY <1>1, <2>1 DEF Aside
<1>7. ASSUME NEW v PROVE Aside(f, m, m, p, p, d, Put(d, f, v))
  <2>1. \A g : g # f => Copy(Put(d, f, v), g) = Copy(d, g)
    BY DEF Put, Copy
  <2> QED
    BY <1>1, <2>1 DEF Aside
<1>8. Aside(f, m, m, p, p, d, Drop(d, {f}))
  <2>1. \A g : g # f => Copy(Drop(d, {f}), g) = Copy(d, g)
    BY DEF Drop, Copy
  <2> QED
    BY <1>1, <2>1 DEF Aside
<1> QED
  BY <1>2, <1>3, <1>4, <1>5, <1>6, <1>7, <1>8

\* A file shows what it did when its chunks hold the same bytes.
LEMMA SameData ==
  ASSUME NEW p, NEW q, NEW f, \A c \in Chunks : DataIn(q, f, c) = DataIn(p, f, c)
  PROVE  /\ \A s : Holds(p, f, s) => Holds(q, f, s)
         /\ \A m, b : Shows(f, b, m, p) => Shows(f, b, m, q)
<1>1. \A s : Holds(p, f, s) => Holds(q, f, s)
  BY DEF Holds
<1> QED
  BY <1>1 DEF Shows

\* What the invariant says of a walk depends on these locals only.
SameWalk(l, r) ==
  /\ r.f = l.f /\ r.op = l.op /\ r.off = l.off /\ r.len = l.len /\ r.val = l.val
  /\ r.c = l.c /\ r.first = l.first /\ r.last = l.last /\ r.single = l.single
  /\ r.sync = l.sync /\ r.sent = l.sent /\ r.buf = l.buf

\* A step of a walk that does not change a byte.
LEMMA WalkMoves ==
  ASSUME NEW from \in {"ensure", "load", "load_mark"}, NEW to \in {"ensure", "load", "load_mark", "use"},
         NEW l, NEW r, SameWalk(l, r), NEW m, NEW p, NEW q, NEW d, NEW w,
         CallInv(from, l, m, p, d, w), Aside(l.f, m, m, p, q, d, d),
         \A c \in Chunks : DataIn(q, l.f, c) = DataIn(p, l.f, c),
         Pinned(l.f, m, q), WalkInv(to, r, m, q), l.op \in {"read", "write"}
  PROVE  CallInv(to, r, m, q, d, w)
<1> DEFINE b == w.content[l.f]
<1>1. /\ r.f = l.f /\ r.op = l.op /\ r.off = l.off /\ r.len = l.len /\ r.val = l.val
      /\ r.c = l.c /\ r.first = l.first /\ r.last = l.last /\ r.single = l.single
      /\ r.sent = l.sent /\ r.buf = l.buf
  BY DEF SameWalk
<1>2. \A g \in Files \ {l.f} : Untouched(g, m, p, d, w)
  BY DEF CallInv
<1>3. \A g \in Files \ {r.f} : Untouched(g, m, q, d, w)
  BY <1>1, <1>2, OthersUntouched
<1>4. Copy(d, r.f) = w.durable[r.f]
  BY <1>1 DEF CallInv, WritePoints, Walking
<1>5. r.op = "write" => WriteInv(to, r, m, q, b)
  <2> SUFFICES ASSUME r.op = "write" PROVE WriteInv(to, r, m, q, b)
    OBVIOUS
  <2>1. WriteInv(from, l, m, p, b)
    BY <1>1 DEF CallInv, WritePoints, Walking
  <2>2. Sent(from, l) = l.sent /\ Sent(to, r) = l.sent
    BY <1>1 DEF Sent
  <2>3. Holds(q, l.f, Written(b, l.off, l.val, l.sent))
    BY <2>1, <2>2, SameData DEF WriteInv
  <2> HIDE DEF b
  <2> QED
    BY <1>1, <2>1, <2>2, <2>3 DEF WriteInv
<1>6. r.op = "read" => ReadInv(r, m, q, b)
  <2> SUFFICES ASSUME r.op = "read" PROVE ReadInv(r, m, q, b)
    OBVIOUS
  <2>1. ReadInv(l, m, p, b)
    BY <1>1 DEF CallInv, WritePoints, Walking
  <2>2. Shows(l.f, b, m, q)
    BY <2>1, SameData DEF ReadInv
  <2> HIDE DEF b
  <2> QED
    BY <1>1, <2>1, <2>2 DEF ReadInv
<1> QED
  BY <1>1, <1>3, <1>4, <1>5, <1>6
  DEF CallInv, WritePoints, Walking, DeletePoints, FlushPoints

\* What a walk's invariant says of the locals, at any of its points.
LEMMA WalkFacts ==
  ASSUME NEW point \in Walking, NEW l, NEW n, LocalsAreSound(point, l, n),
         NEW m, NEW p, NEW d, NEW w, CallInv(point, l, m, p, d, w)
  PROVE  /\ l \in Locals /\ l.f \in Files /\ l.op \in {"read", "write"}
         /\ l.c \in l.first .. l.last /\ l.c \in Chunks /\ l.c \in Nat
         /\ WalkInv(point, l, m, p) /\ Open(l.f, m) /\ Pinned(l.f, m, p)
         /\ l.op = "write" => WriteInv(point, l, m, p, w.content[l.f])
         /\ l.op = "read" => ReadInv(l, m, p, w.content[l.f])
         /\ Copy(d, l.f) = w.durable[l.f]
         /\ \A g \in Files \ {l.f} : Untouched(g, m, p, d, w)
<1>1. l \in Locals /\ l.f \in Files /\ l.op \in {"read", "write"} /\ WalkIsSound(l)
  BY DEF LocalsAreSound, Walking
<1>2. l.c \in Nat /\ l.first \in Nat /\ l.last \in Nat
  BY <1>1 DEF Locals
<1>3. l.c \in l.first .. l.last /\ l.c \in Chunks
  BY <1>1, <1>2, ChunkBelow DEF WalkIsSound
<1>4. /\ WalkInv(point, l, m, p)
      /\ l.op = "write" => WriteInv(point, l, m, p, w.content[l.f])
      /\ l.op = "read" => ReadInv(l, m, p, w.content[l.f])
      /\ Copy(d, l.f) = w.durable[l.f]
      /\ \A g \in Files \ {l.f} : Untouched(g, m, p, d, w)
  BY DEF CallInv, WritePoints, Walking
<1>5. Open(l.f, m) /\ Pinned(l.f, m, p)
  BY <1>1, <1>4 DEF WriteInv, ReadInv
<1> QED
  BY <1>1, <1>2, <1>3, <1>4, <1>5

\* The walk finds a chunk in the pool.
LEMMA EnsureHitKeeps ==
  ASSUME OneCaller, SerialInv, DirtyInv', NEW t \in Threads, EnsureHit(t)
  PROVE  Kept
<1> DEFINE l == loc[t]
<1>2. (l.sync \/ InPool(l.f, l.c)) /\ Continue(t, "use", l)
  BY DEF EnsureHit
<1>3. Step(t, "ensure") /\ meta' = meta /\ pool' = pool /\ disk' = disk
  BY DEF EnsureHit, shared
<1>4. /\ CallInv("ensure", l, meta, pool, disk, before) /\ ShapesInv(meta, pool)
      /\ LocalsAreSound("ensure", l, calls)
  BY <1>3, StepStarts
<1>5. l.c \in l.first .. l.last /\ WalkInv("ensure", l, meta, pool) /\ Pinned(l.f, meta, pool)
      /\ l.op \in {"read", "write"}
  BY <1>4, WalkFacts DEF Walking
<1> HIDE DEF l
<1>6. WalkInv("use", l, meta, pool)
  BY <1>2, <1>5 DEF WalkInv, InPool
<1>7. CallInv("use", l, meta, pool, disk, before)
  BY <1>4, <1>5, <1>6, WalkMoves, AsideFacts DEF SameWalk
<1> QED
  BY <1>2, <1>3, <1>4, <1>7, StepInside DEF Kept

\* The walk does not find a chunk, and gets what loading it gives.
LEMMA EnsureMissKeeps ==
  ASSUME OneCaller, SerialInv, DirtyInv', NEW t \in Threads, EnsureMiss(t)
  PROVE  Kept
<1> DEFINE l == loc[t]
           r == [l EXCEPT !.data = Fetched(l.f, l.c)]
<1>1. /\ Step(t, "ensure") /\ ~l.sync /\ ~InPool(l.f, l.c) /\ Continue(t, "load", r)
      /\ meta' = meta /\ pool' = pool /\ disk' = disk
  BY DEF EnsureMiss, shared, Fetched
<1>2. /\ CallInv("ensure", l, meta, pool, disk, before) /\ ShapesInv(meta, pool)
      /\ LocalsAreSound("ensure", l, calls)
  BY <1>1, StepStarts
<1>3. /\ WalkInv("ensure", l, meta, pool) /\ Pinned(l.f, meta, pool)
      /\ l.op \in {"read", "write"} /\ l \in Locals
  BY <1>2, WalkFacts DEF Walking
<1> HIDE DEF l
<1>4. SameWalk(l, r) /\ r.data = Fetched(l.f, l.c)
  BY <1>3 DEF SameWalk, Locals
<1> HIDE DEF r
<1>5. WalkInv("load", r, meta, pool)
  BY <1>1, <1>3, <1>4 DEF WalkInv, InPool, SameWalk
<1>6. CallInv("load", r, meta, pool, disk, before)
  BY <1>2, <1>3, <1>4, <1>5, WalkMoves, AsideFacts
<1> QED
  BY <1>1, <1>2, <1>6, StepInside DEF Kept

\* A loaded chunk is put in the pool: the file shows the same bytes.
LEMMA LoadKeeps ==
  ASSUME OneCaller, SerialInv, DirtyInv', NEW t \in Threads, Load(t)
  PROVE  Kept
<1> DEFINE l == loc[t]
           r == [l EXCEPT !.data = << >>]
           k == <<l.f, l.c>>
           new == [data |-> l.data, needs_flush |-> TRUE]
<1>1. /\ Step(t, "load") /\ pool' = Put(pool, k, new) /\ Continue(t, "load_mark", r)
      /\ meta' = meta /\ disk' = disk
  BY DEF Load, InsertDirty
<1>2. /\ CallInv("load", l, meta, pool, disk, before) /\ ShapesInv(meta, pool)
      /\ LocalsAreSound("load", l, calls)
  BY <1>1, StepStarts
<1>3. /\ WalkInv("load", l, meta, pool) /\ Pinned(l.f, meta, pool) /\ Open(l.f, meta)
      /\ l.op \in {"read", "write"} /\ l \in Locals
  BY <1>2, WalkFacts DEF Walking
<1> HIDE DEF l
<1>4. SameWalk(l, r)
  BY <1>3 DEF SameWalk, Locals
<1>5. k \notin DOMAIN pool /\ new.data = Fetched(l.f, l.c) /\ new.needs_flush = TRUE
  BY <1>3 DEF WalkInv
<1>6. l.c \notin meta[l.f].dirty
  BY <1>3, <1>5 DEF Pinned, Open
<1>7. /\ \A x : x \in DOMAIN pool' <=> x \in DOMAIN pool \/ x = k
      /\ pool'[k] = new /\ \A x \in DOMAIN pool : x # k => pool'[x] = pool[x]
  BY <1>1, PutFacts
<1> HIDE DEF r, new
<1>8. \A c \in Chunks : DataIn(pool', l.f, c) = DataIn(pool, l.f, c)
  BY <1>5, <1>7 DEF DataIn
<1>9. Pinned(l.f, meta, pool')
  BY <1>3, <1>5, <1>7 DEF Pinned
<1>10. WalkInv("load_mark", r, meta, pool')
  BY <1>3, <1>4, <1>5, <1>6, <1>7 DEF WalkInv, SameWalk
<1>11. CallInv("load_mark", r, meta, pool', disk, before)
  <2>1. Aside(l.f, meta, meta, pool, pool', disk, disk)
    BY <1>1, AsideFacts
  <2> QED
    BY <1>2, <1>3, <1>4, <1>8, <1>9, <1>10, <2>1, WalkMoves
<1>12. BlockShape(<<l.f, l.c>>, new)
  BY <1>5 DEF BlockShape
<1>13. ShapesInv(meta, pool')
  BY <1>1, <1>2, <1>3, <1>12, ShapesStay DEF Open
<1> QED
  BY <1>1, <1>11, <1>13, StepInside DEF Kept

\* A loaded chunk is marked as flushed: it may go again.
LEMMA LoadMarkKeeps ==
  ASSUME OneCaller, SerialInv, DirtyInv', NEW t \in Threads, LoadMark(t)
  PROVE  Kept
<1> DEFINE l == loc[t]
           k == <<l.f, l.c>>
           new == Flushed(pool[k])
<1>1. /\ Step(t, "load_mark") /\ MarkFlushed(l.f, l.c) /\ Continue(t, "use", l)
      /\ meta' = meta /\ disk' = disk
  BY DEF LoadMark
<1>2. /\ CallInv("load_mark", l, meta, pool, disk, before) /\ ShapesInv(meta, pool)
      /\ LocalsAreSound("load_mark", l, calls) /\ PoolInv
  BY <1>1, StepStarts
<1>3. /\ WalkInv("load_mark", l, meta, pool) /\ Pinned(l.f, meta, pool) /\ Open(l.f, meta)
      /\ l.op \in {"read", "write"} /\ l \in Locals
  BY <1>2, WalkFacts DEF Walking
<1> HIDE DEF l
<1>4. k \in DOMAIN pool /\ pool[k].data = Fetched(l.f, l.c) /\ l.c \notin meta[l.f].dirty
  BY <1>3 DEF WalkInv
<1>5. pool' = [pool EXCEPT ![k] = new]
  BY <1>1, <1>4 DEF MarkFlushed, InPool
<1>6. new.data = Fetched(l.f, l.c)
  BY <1>2, <1>4 DEF Flushed, PoolInv
<1> HIDE DEF new
<1>7. /\ \A x : x \in DOMAIN pool' <=> x \in DOMAIN pool
      /\ pool'[k] = new /\ \A x \in DOMAIN pool : x # k => pool'[x] = pool[x]
  BY <1>4, <1>5
<1>8. \A c \in Chunks : DataIn(pool', l.f, c) = DataIn(pool, l.f, c)
  BY <1>4, <1>6, <1>7 DEF DataIn
<1>9. Pinned(l.f, meta, pool')
  BY <1>3, <1>4, <1>7 DEF Pinned
<1>10. WalkInv("use", l, meta, pool')
  BY <1>3, <1>4, <1>7 DEF WalkInv
<1>11. CallInv("use", l, meta, pool', disk, before)
  <2>1. Aside(l.f, meta, meta, pool, pool', disk, disk)
    <3>1. Aside(l.f, meta, meta, pool, [pool EXCEPT ![<<l.f, l.c>>] = new], disk, disk)
      BY AsideFacts
    <3> QED
      BY <1>5, <3>1
  <2>2. SameWalk(l, l)
    BY DEF SameWalk
  <2> QED
    BY <1>2, <1>3, <1>8, <1>9, <1>10, <2>1, <2>2, WalkMoves
<1>12. BlockShape(<<l.f, l.c>>, new)
  BY <1>6 DEF BlockShape
<1>13. ShapesInv(meta, pool')
  BY <1>2, <1>3, <1>5, <1>12, ShapesStay DEF Open
<1> QED
  BY <1>1, <1>11, <1>13, StepInside DEF Kept

-----------------------------------------------------------------------------
(* Writes *)

\* The first write of a file of the manifest makes its entry.
LEMMA CowKeeps ==
  ASSUME OneCaller, SerialInv, DirtyInv', NEW t \in Threads, Cow(t)
  PROVE  Kept
<1> DEFINE l == loc[t]
           f == l.f
           new == FromCow(f)
           b == Original[f]
<1>1. /\ Step(t, "cow") /\ meta' = Put(meta, f, new) /\ pool' = pool /\ disk' = disk
      /\ Continue(t, IF l.op = "write" THEN "write_plan" ELSE "trunc_plan", l)
  BY DEF Cow
<1>2. /\ CallInv("cow", l, meta, pool, disk, before) /\ ShapesInv(meta, pool)
      /\ LocalsAreSound("cow", l, calls)
  BY <1>1, StepStarts
<1>3. /\ l.op = "write" /\ f \notin DOMAIN meta /\ l.off <= Len(before.content[f])
      /\ Untouched(f, meta, pool, disk, before)
      /\ \A g \in Files \ {f} : Untouched(g, meta, pool, disk, before)
  BY <1>2 DEF CallInv
<1>4. f \in Files /\ InManifest(f)
  BY <1>2 DEF LocalsAreSound
<1> HIDE DEF l, f
<1>5. before.content[f] = b /\ Copy(disk, f) = before.durable[f]
  BY <1>3 DEF Untouched, Shows
<1>6. b \in Seq(Nat) /\ Holds(pool, f, b)
  BY <1>2, <1>3, <1>4, OriginalHolds DEF ShapesInv
<1>7. /\ new.state = "Modified" /\ new.size = Len(b) /\ new.dirty = {}
      /\ new.chunk_count = ChunksOf(new.size)
  BY DEF FromCow
<1>8. EntryShape(f, new)
  BY <1>4, <1>7 DEF EntryShape
<1> HIDE DEF new, b
<1>9. ShapesInv(meta', pool')
  BY <1>1, <1>2, <1>8, ShapesStay
<1>10. f \in DOMAIN meta' /\ meta'[f] = new
  BY <1>1, PutFacts
<1>11. Open(f, meta') /\ Untouched(f, meta', pool', disk', before)
  BY <1>1, <1>5, <1>6, <1>7, <1>10 DEF Open, Untouched, Shows, Pinned
<1>12. Aside(f, meta, meta', pool, pool', disk, disk')
  BY <1>1, AsideFacts
<1>13. \A g \in Files \ {f} : Untouched(g, meta', pool', disk', before)
  BY <1>3, <1>12, OthersUntouched
<1>14. CallInv("write_plan", l, meta', pool', disk', before)
  BY <1>3, <1>11, <1>13 DEF CallInv, WritePoints, Walking, DeletePoints, FlushPoints, f
<1> QED
  BY <1>1, <1>3, <1>9, <1>14, StepInside DEF Kept

\* A write finds out the chunks it is about, and has sent nothing.
LEMMA WritePlanKeeps ==
  ASSUME OneCaller, SerialInv, DirtyInv', NEW t \in Threads, WritePlan(t)
  PROVE  Kept
<1> DEFINE l == loc[t]
           b == before.content[l.f]
           single == meta[l.f].chunk_count <= 1 /\ l.off + l.len <= ChunkSize
           first == l.off \div ChunkSize
           last == (l.off + l.len - 1) \div ChunkSize
           r == Walk(l, single, first, last)
<1>1. /\ Step(t, "write_plan") /\ Continue(t, "ensure", r)
      /\ meta' = meta /\ pool' = pool /\ disk' = disk
  BY DEF WritePlan, shared
<1>2. /\ CallInv("write_plan", l, meta, pool, disk, before) /\ ShapesInv(meta, pool)
      /\ LocalsAreSound("write_plan", l, calls) /\ l \in Locals
  BY <1>1, StepStarts
<1>3. /\ Open(l.f, meta) /\ Untouched(l.f, meta, pool, disk, before) /\ l.off <= Len(b)
      /\ \A g \in Files \ {l.f} : Untouched(g, meta, pool, disk, before)
  BY <1>2 DEF CallInv
<1>4. /\ l.op = "write" /\ l.sent = 0 /\ l.len > 0 /\ l.off \in Nat /\ l.len \in Nat
      /\ l.val \in Nat
  BY <1>2 DEF LocalsAreSound, Locals
<1>5. b \in Seq(Nat) /\ Len(b) = meta[l.f].size /\ Holds(pool, l.f, b)
      /\ Pinned(l.f, meta, pool) /\ Copy(disk, l.f) = before.durable[l.f]
  BY <1>3 DEF Untouched, Shows, Open
<1> HIDE DEF l, b
<1>6. Written(b, l.off, l.val, 0) = b
  BY <1>3, <1>4, <1>5, NothingWritten
<1>7. /\ r.f = l.f /\ r.op = l.op /\ r.off = l.off /\ r.len = l.len /\ r.val = l.val
      /\ r.sent = l.sent /\ r.single = single /\ r.first = first /\ r.last = last /\ r.c = first
      /\ r.sync = \A c \in first .. last : InPool(l.f, c)
  BY <1>2 DEF Walk, Locals
<1>8. single => first = last
  <2> SUFFICES ASSUME single PROVE first = last
    OBVIOUS
  <2>1. ChunkSize \in Nat /\ ChunkSize > 0 /\ l.off + l.len - 1 \in Nat
    BY <1>4, DirtyAssumption
  <2>2. ASSUME NEW n \in Nat, n < ChunkSize PROVE n \div ChunkSize = 0
    <3>1. n \div ChunkSize \in Nat /\ (n \div ChunkSize) * ChunkSize <= n
      BY Division
    <3> DEFINE d == n \div ChunkSize
    <3>2. d * ChunkSize < 1 * ChunkSize /\ d * ChunkSize \in Nat
      BY <2>1, <2>2, <3>1, Times
    <3> HIDE DEF d
    <3>3. d < 1
      BY <3>1, <3>2, Times DEF d
    <3> QED
      BY <3>1, <3>3 DEF d
  <2>3. l.off < ChunkSize /\ l.off + l.len - 1 < ChunkSize
    BY <1>4, <2>1
  <2> QED
    BY <1>4, <2>1, <2>2, <2>3
<1> HIDE DEF single, first, last, r
<1>9. WriteInv("ensure", r, meta, pool, b)
  BY <1>3, <1>4, <1>5, <1>6, <1>7, <1>8 DEF WriteInv, Sent
<1>10. WalkInv("ensure", r, meta, pool)
  BY <1>7 DEF WalkInv, InPool
<1>11. CallInv("ensure", r, meta, pool, disk, before)
  BY <1>3, <1>4, <1>5, <1>7, <1>9, <1>10
  DEF CallInv, WritePoints, Walking, DeletePoints, FlushPoints, b
<1> QED
  BY <1>1, <1>2, <1>11, StepInside DEF Kept

\* Of a write at one of its chunks: how much it has sent, and sends now.
LEMMA SentFits ==
  ASSUME NEW l \in Locals, NEW n \in Nat, n <= MaxCalls, WriteIsSound(l, n), l.op = "write", l.len > 0
  PROVE  /\ l.off \in 0 .. MaxSize /\ l.len \in 1 .. MaxSize /\ l.val \in 1 .. MaxCalls
         /\ l.off \in Nat /\ l.len \in Nat /\ l.val \in Nat /\ l.sent \in Nat
         /\ WalkIsSound(l) =>
              /\ l.sent \in 0 .. MaxSize
              /\ l.off + l.sent = l.c * ChunkSize + From(l)
              /\ l.c = l.last => l.sent + Until(l) - From(l) = l.len
<1>1. /\ l.off \in Nat /\ l.len \in Nat /\ l.c \in Nat /\ l.first \in Nat /\ l.last \in Nat
      /\ l.sent \in Nat /\ l.val \in Nat /\ MaxSize \in Nat /\ MaxCalls \in Nat
  BY DirtyAssumption DEF Locals
<1>2. l.off + l.len <= MaxSize /\ l.val \in 1 .. n
  BY DEF WriteIsSound
<1>3. ASSUME WalkIsSound(l)
      PROVE  /\ l.sent \in 0 .. MaxSize
             /\ l.off + l.sent = l.c * ChunkSize + From(l)
             /\ l.c = l.last => l.sent + Until(l) - From(l) = l.len
  <2>1. /\ l.first <= l.c /\ l.c <= l.last /\ l.last * ChunkSize < l.off + l.len
        /\ l.c = l.first => l.sent = 0
        /\ l.c # l.first => l.off + l.sent = l.c * ChunkSize
    BY <1>3 DEF WalkIsSound
  <2>2. l.c * ChunkSize \in Nat /\ l.last * ChunkSize \in Nat /\ l.c * ChunkSize <= l.last * ChunkSize
    BY <1>1, <2>1, Times
  <2> DEFINE C == l.c * ChunkSize
  <2>3. /\ From(l) = IF l.c = l.first THEN l.off - C ELSE 0
        /\ l.c = l.last => Until(l) = l.off + l.len - C
    BY DEF From, Until
  <2>4. C \in Nat /\ (l.c # l.first => l.off + l.sent = C /\ C < l.off + l.len)
    BY <1>1, <2>1, <2>2
  <2> HIDE DEF C
  <2>5. l.off + l.sent = C + From(l)
    BY <1>1, <2>1, <2>3, <2>4
  <2>6. l.sent \in 0 .. MaxSize
    BY <1>1, <1>2, <2>1, <2>4
  <2>7. l.c = l.last => l.sent + Until(l) - From(l) = l.len
    BY <1>1, <2>1, <2>3, <2>4
  <2> QED
    BY <2>5, <2>6, <2>7 DEF C
<1> QED
  BY <1>1, <1>2, <1>3

\* The write has returned: the file has its bytes, and the length they give it.
LEMMA WriteEnds ==
  ASSUME OneCaller, SerialInv, DirtyInv', NEW t \in Threads, NEW from, from # "idle",
         Step(t, from), Finish(t, Done), ShapesInv(meta', pool'), disk' = disk,
         NEW l \in Locals, l.f \in Files, l.op = "write", l.len > 0, WriteIsSound(l, calls),
         NEW b, b = before.content[l.f], b \in Seq(Nat), l.off <= Len(b),
         Open(l.f, meta'), meta'[l.f].size = Larger(Len(b), l.off + l.len),
         Holds(pool', l.f, Written(b, l.off, l.val, l.len)), Pinned(l.f, meta', pool'),
         \A g \in Files \ {l.f} : Untouched(g, meta', pool', disk', before),
         Copy(disk', l.f) = before.durable[l.f]
  PROVE  Kept
<1> DEFINE f == l.f
           s == Written(b, l.off, l.val, l.len)
<1>1. /\ calls \in Nat /\ calls <= MaxCalls /\ Seen = before
      /\ IsFiles(before.durable)
  BY StepStarts
<1>2. /\ l.off \in 0 .. MaxSize /\ l.len \in 1 .. MaxSize /\ l.val \in 1 .. MaxCalls
      /\ l.off \in Nat /\ l.len \in Nat /\ l.val \in Nat
  BY <1>1, SentFits
<1>3. s \in Seq(Nat) /\ Len(s) = Larger(Len(b), l.off + l.len)
  BY <1>2, WrittenIsTyped
<1>4. s = Store!Overlay(b, l.off, Store!Bytes(l.val, l.off, l.len))
  BY <1>2, WrittenIsOverlay
<1> HIDE DEF s
<1>5. Shows(f, s, meta', pool')
  BY <1>3 DEF Shows, Open, s
<1>6. /\ SerialInv' /\ reply' = Done
      /\ Seen'.content = [Seen.content EXCEPT ![f] = s]
      /\ Seen'.durable = [Seen.durable EXCEPT ![f] = before.durable[f]]
  BY <1>5, CallEndsWith
<1>7. Seen'.durable = Seen.durable
  BY <1>1, <1>6, ExceptSame
<1>8. b # NoContent
  BY DirtyAssumption
<1>9. Store!StoreNext
  BY <1>1, <1>2, <1>4, <1>6, <1>7, <1>8, StoreWrites, SMTT(30)
<1> QED
  BY <1>6, <1>9 DEF Kept

\* A read or a write fails while it loads a chunk: of a write, what was sent before stays,
\* up to the old length.
LEMMA WalkFails ==
  ASSUME OneCaller, SerialInv, DirtyInv', NEW t \in Threads, NEW from \in {"ensure", "load"},
         Step(t, from), Finish(t, Failed), meta' = meta, disk' = disk, ShapesInv(meta', pool'),
         Aside(loc[t].f, meta, meta, pool, pool', disk, disk),
         \A c \in Chunks : DataIn(pool', loc[t].f, c) = DataIn(pool, loc[t].f, c),
         Pinned(loc[t].f, meta, pool')
  PROVE  Kept
<1> DEFINE l == loc[t]
           f == l.f
           b == before.content[f]
           s == Written(b, l.off, l.val, l.sent)
           r == Store!Resize(s, Len(b))
<1>1. /\ CallInv(from, l, meta, pool, disk, before) /\ LocalsAreSound(from, l, calls)
      /\ Seen = before /\ calls \in Nat /\ calls <= MaxCalls
      /\ IsFiles(before.content) /\ IsFiles(before.durable)
  BY StepStarts
<1>2. /\ l \in Locals /\ f \in Files /\ l.op \in {"read", "write"}
      /\ l.op = "write" => WriteInv(from, l, meta, pool, b)
      /\ l.op = "read" => ReadInv(l, meta, pool, b)
      /\ Copy(disk, f) = before.durable[f] /\ Open(f, meta)
      /\ \A g \in Files \ {f} : Untouched(g, meta, pool, disk, before)
  BY <1>1, WalkFacts DEF Walking
<1>3. WalkIsSound(l) /\ (l.op = "write" => l.len > 0 /\ WriteIsSound(l, calls))
  BY <1>1 DEF LocalsAreSound, Walking
<1>4. \A g \in Files \ {f} : Untouched(g, meta', pool', disk', before)
  BY <1>2, OthersUntouched
<1>5. /\ \A x : Holds(pool, f, x) => Holds(pool', f, x)
      /\ \A m, x : Shows(f, x, m, pool) => Shows(f, x, m, pool')
  BY SameData
<1>6. Pinned(f, meta', pool') /\ Copy(disk', f) = before.durable[f] /\ Open(f, meta')
  BY <1>2
<1> HIDE DEF l, f, b
<1>7. ASSUME Shows(f, b, meta', pool') PROVE Kept
  <2>1. /\ SerialInv' /\ reply' = Failed
        /\ Seen'.content = [Seen.content EXCEPT ![f] = b]
        /\ Seen'.durable = [Seen.durable EXCEPT ![f] = before.durable[f]]
    BY <1>2, <1>4, <1>6, <1>7, CallEndsWith
  <2>2. Seen'.content = Seen.content /\ Seen'.durable = Seen.durable
    BY <1>1, <1>2, <2>1, ExceptSame DEF b
  <2>3. Store!StoreNext
    BY <2>1, <2>2, StoreFails
  <2> QED
    BY <2>1, <2>3 DEF Kept
<1>8. CASE l.op = "read"
  <2>1. Shows(f, b, meta', pool')
    BY <1>2, <1>5, <1>8 DEF ReadInv, f
  <2> QED
    BY <1>7, <2>1
<1>9. CASE l.op = "write"
  <2>1. /\ b \in Seq(Nat) /\ meta[f].size = Len(b) /\ l.off <= Len(b)
        /\ Holds(pool, f, s)
    BY <1>1, <1>2, <1>9 DEF WriteInv, Sent, f
  <2>2. /\ l.off \in 0 .. MaxSize /\ l.val \in 1 .. MaxCalls /\ l.sent \in 0 .. MaxSize
        /\ l.off \in Nat /\ l.sent \in Nat /\ l.val \in Nat /\ MaxSize \in Nat
    BY <1>1, <1>2, <1>3, <1>9, SentFits, DirtyAssumption
  <2>3. CASE l.sent = 0
    <3>1. s = b
      BY <2>1, <2>2, <2>3, NothingWritten
    <3>2. Shows(f, b, meta', pool')
      BY <1>5, <1>6, <2>1, <3>1 DEF Shows, Open
    <3> QED
      BY <1>7, <3>2
  <2>4. CASE l.sent # 0
    <3>1. s \in Seq(Nat) /\ Len(s) \in Nat /\ Len(b) <= Len(s) /\ Len(b) \in Nat
      BY <2>1, <2>2, WrittenIsTyped
    <3>2. s = Store!Overlay(b, l.off, Store!Bytes(l.val, l.off, l.sent))
      BY <2>1, <2>2, WrittenIsOverlay
    <3> HIDE DEF s
    <3>3. r \in Seq(Nat) /\ Len(r) = Len(b) /\ \A i \in 1 .. Len(r) : r[i] = s[i]
      BY <3>1, ResizedIsPart
    <3> HIDE DEF r
    <3>4. Holds(pool', f, r)
      BY <1>5, <2>1, <3>1, <3>3, PrefixHolds
    <3>5. Shows(f, r, meta', pool')
      BY <1>6, <2>1, <3>3, <3>4 DEF Shows, Open
    <3>6. /\ SerialInv' /\ reply' = Failed
          /\ Seen'.content = [Seen.content EXCEPT ![f] = r]
          /\ Seen'.durable = [Seen.durable EXCEPT ![f] = before.durable[f]]
      BY <1>2, <1>4, <1>6, <3>5, CallEndsWith
    <3>7. Seen'.durable = Seen.durable
      BY <1>1, <1>2, <3>6, ExceptSame
    <3>8. b # NoContent /\ Seen.content[f] = b /\ l.sent \in 1 .. MaxSize
      BY <1>1, <2>1, <2>2, <2>4, DirtyAssumption DEF b
    <3>9. Store!StoreNext
      BY <1>2, <2>2, <3>2, <3>6, <3>7, <3>8, StoreTearsWrite DEF r
    <3> QED
      BY <3>6, <3>9 DEF Kept
  <2> QED
    BY <2>3, <2>4
<1> QED
  BY <1>2, <1>8, <1>9

\* The content store fails: the call ends, a write where it stands.
LEMMA EnsureFailsKeeps ==
  ASSUME OneCaller, SerialInv, DirtyInv', NEW t \in Threads, EnsureFails(t)
  PROVE  Kept
<1>1. /\ Step(t, "ensure") /\ Finish(t, Failed) /\ meta' = meta /\ pool' = pool /\ disk' = disk
  BY DEF EnsureFails, Fail, shared
<1>2. /\ CallInv("ensure", loc[t], meta, pool, disk, before) /\ ShapesInv(meta, pool)
      /\ LocalsAreSound("ensure", loc[t], calls)
  BY <1>1, StepStarts
<1>3. Pinned(loc[t].f, meta, pool)
  BY <1>2, WalkFacts DEF Walking
<1> QED
  BY <1>1, <1>2, <1>3, AsideFacts, WalkFails

\* The pool has no room: the call ends, a write where it stands.
LEMMA ExhaustedKeeps ==
  ASSUME OneCaller, SerialInv, DirtyInv', NEW t \in Threads, Exhausted(t)
  PROVE  Kept
<1> DEFINE k == <<loc[t].f, loc[t].c>>
<1>1. /\ Step(t, "load") /\ Finish(t, Failed) /\ pool' = Drop(pool, {k})
      /\ meta' = meta /\ disk' = disk
  BY DEF Exhausted, Fail, OneCaller
<1>2. /\ CallInv("load", loc[t], meta, pool, disk, before) /\ ShapesInv(meta, pool)
      /\ LocalsAreSound("load", loc[t], calls)
  BY <1>1, StepStarts
<1>3. Pinned(loc[t].f, meta, pool) /\ k \notin DOMAIN pool
  BY <1>2, WalkFacts DEF Walking, WalkInv
<1>4. /\ \A x : x \in DOMAIN pool' <=> x \in DOMAIN pool
      /\ \A x \in DOMAIN pool : pool'[x] = pool[x]
  BY <1>1, <1>3, DropFacts
<1>5. /\ \A c \in Chunks : DataIn(pool', loc[t].f, c) = DataIn(pool, loc[t].f, c)
      /\ Pinned(loc[t].f, meta, pool')
  BY <1>3, <1>4 DEF DataIn, Pinned
<1>6. ShapesInv(meta', pool')
  BY <1>1, <1>2, ShapesStay
<1>7. Aside(loc[t].f, meta, meta, pool, pool', disk, disk)
  <2>1. k[1] = loc[t].f
    OBVIOUS
  <2> QED
    BY <1>1, <2>1, AsideFacts
<1> QED
  BY <1>1, <1>5, <1>6, <1>7, WalkFails

\* These steps are never enabled with one caller.
LEMMA NeverEnabled ==
  ASSUME OneCaller, SerialInv, NEW t \in Threads
  PROVE  ~ModifyFails(t) /\ ~ReadRetry(t) /\ ~EntryGone(t) /\ ~ChunkNotLoaded(t)
<1> DEFINE l == loc[t]
<1>1. ASSUME ModifyFails(t) \/ ReadRetry(t) PROVE FALSE
  <2>1. Step(t, "use") /\ (ModifyFails(t) => ~InPool(l.f, l.c))
        /\ (ReadRetry(t) => ~InPool(l.f, 0) /\ l.single /\ l.op = "read")
    BY <1>1 DEF ModifyFails, ReadRetry
  <2>2. CallInv("use", l, meta, pool, disk, before) /\ LocalsAreSound("use", l, calls)
    BY <2>1, StepStarts
  <2>3. /\ WalkInv("use", l, meta, pool) /\ l.c \in l.first .. l.last /\ l \in Locals
        /\ l.op = "read" => ReadInv(l, meta, pool, before.content[l.f])
    BY <2>2, WalkFacts DEF Walking
  <2> HIDE DEF l
  <2>4. l.single /\ l.op = "read" => l.c = 0
    BY <2>3 DEF ReadInv, Locals
  <2> QED
    BY <1>1, <2>1, <2>3, <2>4 DEF WalkInv, InPool
<1>2. ASSUME EntryGone(t) PROVE FALSE
  <2>1. /\ pc[t] \in {"write_plan", "trunc_plan", "read_plan", "flush"} /\ Step(t, pc[t])
        /\ l.f \notin DOMAIN meta
    BY <1>2 DEF EntryGone
  <2>2. CallInv(pc[t], l, meta, pool, disk, before)
    BY <2>1, StepStarts
  <2> HIDE DEF l
  <2> QED
    BY <2>1, <2>2 DEF CallInv, TruncInv, DeleteInv, FlushInv, Open
<1>3. ASSUME ChunkNotLoaded(t) PROVE FALSE
  <2>1. Step(t, "assemble") /\ ~InPool(l.f, l.c) /\ l.c \in l.dirty
    BY <1>3 DEF ChunkNotLoaded
  <2>2. CallInv("assemble", l, meta, pool, disk, before)
    BY <2>1, StepStarts
  <2> HIDE DEF l
  <2>3. FlushInv("assemble", l, meta, pool, disk, before)
    BY <2>2 DEF CallInv, FlushPoints
  <2> QED
    BY <2>1, <2>3 DEF FlushInv, Pinned, Open, InPool
<1> QED
  BY <1>1, <1>2, <1>3

\* A write sends a chunk its bytes.
LEMMA ModifyKeeps ==
  ASSUME OneCaller, SerialInv, DirtyInv', NEW t \in Threads, Modify(t)
  PROVE  Kept
<1> DEFINE l == loc[t]
           b == before.content[l.f]
           k == <<l.f, l.c>>
           new == [data |-> Splice(pool[k].data, From(l), Part(l)), needs_flush |-> TRUE]
<1>1. /\ Step(t, "use") /\ l.op = "write" /\ InPool(l.f, l.c) /\ Continue(t, "mark", l)
      /\ pool' = [pool EXCEPT ![k] = new] /\ meta' = meta /\ disk' = disk
  BY DEF Modify
<1>2. /\ CallInv("use", l, meta, pool, disk, before) /\ ShapesInv(meta, pool)
      /\ LocalsAreSound("use", l, calls) /\ PoolInv /\ calls \in Nat /\ calls <= MaxCalls
  BY <1>1, StepStarts
<1>3. /\ l \in Locals /\ l.f \in Files /\ l.c \in Chunks /\ Open(l.f, meta)
      /\ WalkInv("use", l, meta, pool) /\ Pinned(l.f, meta, pool)
      /\ l.op = "write" => WriteInv("use", l, meta, pool, b)
      /\ Copy(disk, l.f) = before.durable[l.f]
      /\ \A g \in Files \ {l.f} : Untouched(g, meta, pool, disk, before)
  BY <1>2, WalkFacts DEF Walking
<1>4. l.len > 0 /\ WriteIsSound(l, calls) /\ WalkIsSound(l)
  BY <1>1, <1>2, WritingIsSound
<1> HIDE DEF l
<1>5. /\ From(l) \in Nat /\ Part(l) \in Seq(Nat) /\ Len(Part(l)) = Until(l) - From(l)
      /\ Len(Part(l)) \in Nat /\ From(l) + Len(Part(l)) <= ChunkSize
      /\ \A i \in 1 .. Len(Part(l)) : Part(l)[i] = Byte(l.val, l.c * ChunkSize + From(l) + i)
  BY <1>1, <1>2, <1>3, <1>4, PartFits
<1>6. /\ l.off \in Nat /\ l.val \in Nat /\ l.sent \in Nat
      /\ l.off + l.sent = l.c * ChunkSize + From(l)
  BY <1>1, <1>2, <1>3, <1>4, SentFits
<1>7. /\ b \in Seq(Nat) /\ l.off <= Len(b) /\ meta[l.f].size = Len(b)
      /\ Holds(pool, l.f, Written(b, l.off, l.val, l.sent))
      /\ l.single => l.last = l.first
  BY <1>1, <1>3 DEF WriteInv, Sent
<1>8. k \in DOMAIN pool /\ new.needs_flush = TRUE
      /\ new.data = Splice(pool[k].data, From(l), Part(l))
  BY <1>1 DEF InPool
<1> HIDE DEF new, b
<1>9. /\ \A x : x \in DOMAIN pool' <=> x \in DOMAIN pool
      /\ pool'[k] = new /\ \A x \in DOMAIN pool : x # k => pool'[x] = pool[x]
  BY <1>1, <1>8
<1>10. /\ DataIn(pool', l.f, l.c) = Splice(DataIn(pool, l.f, l.c), From(l), Part(l))
       /\ \A d \in Chunks : d # l.c => DataIn(pool', l.f, d) = DataIn(pool, l.f, d)
  <2>1. \A d : d # l.c => <<l.f, d>> # k
    OBVIOUS
  <2> QED
    BY <1>8, <1>9, <2>1 DEF DataIn
<1>11. PoolTyped(pool)
  BY <1>2, PoolIsTyped
<1>12. Holds(pool', l.f, Written(b, l.off, l.val, l.sent + Len(Part(l))))
  <2> DEFINE part == Part(l)
             from == From(l)
             f == l.f
             c == l.c
             off == l.off
             v == l.val
             sent == l.sent
  <2>1. /\ PoolTyped(pool) /\ f \in Files /\ b \in Seq(Nat) /\ off \in Nat /\ v \in Nat
        /\ sent \in Nat /\ off <= Len(b) /\ c \in Chunks /\ from \in Nat /\ part \in Seq(Nat)
        /\ from + Len(part) <= ChunkSize /\ off + sent = c * ChunkSize + from
    BY <1>3, <1>5, <1>6, <1>7, <1>11
  <2>2. \A i \in 1 .. Len(part) : part[i] = Byte(v, c * ChunkSize + from + i)
    BY <1>5
  <2>3. /\ DataIn(pool', f, c) = Splice(DataIn(pool, f, c), from, part)
        /\ \A d \in Chunks : d # c => DataIn(pool', f, d) = DataIn(pool, f, d)
    BY <1>10
  <2>4. Holds(pool, f, Written(b, off, v, sent))
    BY <1>7
  <2> HIDE DEF part, from, f, c, off, v, sent
  <2>5. Holds(pool', f, Written(b, off, v, sent + Len(part)))
    BY <2>1, <2>2, <2>3, <2>4, PartHolds
  <2> QED
    BY <2>5 DEF part, f, off, v, sent
<1>13. Sent("mark", l) = l.sent + Len(Part(l))
  <2>1. Until(l) - From(l) \in Nat /\ Sent("mark", l) = l.sent + Until(l) - From(l)
    BY <1>5 DEF Sent
  <2>2. l.c \in Nat /\ l.len \in Nat /\ l.c * ChunkSize \in Nat /\ ChunkSize \in Nat
    BY <1>3, Times, DirtyAssumption DEF Locals
  <2> DEFINE C == l.c * ChunkSize
  <2>3. Until(l) = IF l.c = l.last THEN l.off + l.len - C ELSE ChunkSize
    BY DEF Until
  <2>4. C \in Nat
    BY <2>2
  <2> HIDE DEF C
  <2>5. Until(l) \in Int
    BY <1>6, <2>2, <2>3, <2>4
  <2> QED
    BY <1>5, <1>6, <2>1, <2>5
<1>14. Pinned(l.f, meta, pool')
  BY <1>3, <1>8, <1>9 DEF Pinned
<1>15. WriteInv("mark", l, meta, pool', b)
  BY <1>3, <1>7, <1>12, <1>13, <1>14 DEF WriteInv
<1>16. WalkInv("mark", l, meta, pool')
  BY <1>3, <1>8, <1>9 DEF WalkInv
<1>17. \A g \in Files \ {l.f} : Untouched(g, meta', pool', disk', before)
  <2>1. Aside(l.f, meta, meta', pool, pool', disk, disk')
    BY <1>1, AsideFacts
  <2> QED
    BY <1>3, <2>1, OthersUntouched
<1>18. CallInv("mark", l, meta', pool', disk', before)
  BY <1>1, <1>3, <1>15, <1>16, <1>17
  DEF CallInv, WritePoints, Walking, DeletePoints, FlushPoints, b
<1>19. ShapesInv(meta', pool')
  <2>1. BlockShape(<<l.f, l.c>>, new)
    BY <1>8 DEF BlockShape
  <2> QED
    BY <1>1, <1>2, <1>3, <2>1, ShapesStay DEF Open
<1> QED
  BY <1>1, <1>18, <1>19, StepInside DEF Kept

\* Growing an entry changes its length and its number of chunks.
LEMMA GrownFacts ==
  ASSUME NEW m \in Metadata, NEW end \in Nat, m.chunk_count = ChunksOf(m.size)
  PROVE  LET e == Grown(m, end) IN
         /\ e \in [state : {"New", "Modified", "Deleted"}, size : Nat, chunk_count : {ChunksOf(e.size)},
                   dirty : SUBSET Nat]
         /\ e.state = m.state /\ e.dirty = m.dirty /\ e.size = Larger(m.size, end)
         /\ e.chunk_count = ChunksOf(e.size)
<1>1. m.size \in Nat /\ (end > m.size <=> m.size < end)
  BY DEF Metadata
<1>2. CASE end > m.size
  BY <1>1, <1>2 DEF Metadata, Grown, SetSize, Larger
<1>3. CASE ~(end > m.size)
  BY <1>1, <1>3 DEF Metadata, Grown, Larger
<1> QED
  BY <1>2, <1>3

\* A write marks a chunk it has changed, and goes on to the next or to the length.
LEMMA MarkDirtyKeeps ==
  ASSUME OneCaller, SerialInv, DirtyInv', NEW t \in Threads, MarkDirty(t)
  PROVE  Kept
<1> DEFINE l == loc[t]
           f == l.f
           b == before.content[f]
           old == meta[f]
           marked == [old EXCEPT !.dirty = @ \cup {l.c}]
           new == IF l.single THEN Grown(marked, l.off + l.len) ELSE marked
           next == [l EXCEPT !.c = @ + 1, !.sent = @ + Len(Part(l))]
<1>1. /\ Step(t, "mark") /\ UpdateMeta(f, new) /\ pool' = pool /\ disk' = disk
      /\ IF l.single THEN Finish(t, Done)
         ELSE IF l.c < l.last THEN Continue(t, "ensure", next) ELSE Continue(t, "grow", l)
  BY DEF MarkDirty
<1>2. /\ CallInv("mark", l, meta, pool, disk, before) /\ ShapesInv(meta, pool)
      /\ LocalsAreSound("mark", l, calls) /\ MetaInv /\ calls \in Nat /\ calls <= MaxCalls
  BY <1>1, StepStarts
<1>3. l.op = "write"
  BY <1>2 DEF LocalsAreSound
<1>4. /\ l \in Locals /\ f \in Files /\ l.c \in Chunks /\ l.c \in Nat /\ Open(f, meta)
      /\ WalkInv("mark", l, meta, pool) /\ Pinned(f, meta, pool)
      /\ l.op = "write" => WriteInv("mark", l, meta, pool, b)
      /\ Copy(disk, f) = before.durable[f]
      /\ \A g \in Files \ {f} : Untouched(g, meta, pool, disk, before)
  BY <1>2, WalkFacts DEF Walking
<1>5. l.len > 0 /\ WriteIsSound(l, calls) /\ WalkIsSound(l)
  BY <1>2, <1>3, WritingIsSound
<1> HIDE DEF l
<1>6. /\ Len(Part(l)) = Until(l) - From(l) /\ Len(Part(l)) \in Nat
  BY <1>2, <1>3, <1>4, <1>5, PartFits
<1>7. /\ l.off \in Nat /\ l.val \in Nat /\ l.sent \in Nat /\ l.len \in Nat
      /\ l.c = l.last => l.sent + Until(l) - From(l) = l.len
  BY <1>2, <1>3, <1>4, <1>5, SentFits
<1>8. /\ b \in Seq(Nat) /\ l.off <= Len(b) /\ old.size = Len(b)
      /\ Holds(pool, f, Written(b, l.off, l.val, Sent("mark", l)))
      /\ l.single => l.last = l.first
  BY <1>3, <1>4 DEF WriteInv
<1>9. l.first <= l.c /\ l.c <= l.last /\ l.first \in Nat /\ l.last \in Nat
  BY <1>4, <1>5 DEF WalkIsSound, Locals
<1>10. Sent("mark", l) = l.sent + Until(l) - From(l)
  BY DEF Sent
<1>11. /\ f \in DOMAIN meta /\ old.state # "Deleted" /\ old \in Metadata
       /\ EntryShape(f, old)
  BY <1>2, <1>4 DEF Open, MetaInv, EntryIsSound, ShapesInv
<1>12. meta' = [meta EXCEPT ![f] = new]
  BY <1>1, <1>11 DEF UpdateMeta
<1> HIDE DEF old
<1>13. /\ marked \in Metadata /\ marked.state = old.state /\ marked.size = old.size
       /\ marked.chunk_count = old.chunk_count /\ marked.dirty = old.dirty \cup {l.c}
  BY <1>4, <1>11 DEF Metadata
<1> HIDE DEF marked
<1>14. /\ new.state = old.state /\ new.dirty = old.dirty \cup {l.c}
       /\ new.size = IF l.single THEN Larger(Len(b), l.off + l.len) ELSE Len(b)
       /\ new.chunk_count = ChunksOf(new.size)
  <2>1. marked.chunk_count = ChunksOf(marked.size)
    BY <1>11, <1>13 DEF EntryShape
  <2>2. l.off + l.len \in Nat
    BY <1>7
  <2>3. CASE l.single
    BY <1>8, <1>13, <2>1, <2>2, <2>3, GrownFacts
  <2>4. CASE ~l.single
    BY <1>8, <1>13, <2>1, <2>4
  <2> QED
    BY <2>3, <2>4
<1> HIDE DEF new
<1>15. f \in DOMAIN meta' /\ meta'[f] = new
  BY <1>11, <1>12
<1>16. ShapesInv(meta', pool')
  <2>1. EntryShape(f, new)
    BY <1>11, <1>14 DEF EntryShape
  <2> QED
    BY <1>1, <1>2, <1>12, <2>1, ShapesStay
<1>17. Open(f, meta') /\ Pinned(f, meta', pool')
  <2>1. /\ \A c \in old.dirty : <<f, c>> \in DOMAIN pool /\ pool[<<f, c>>].needs_flush
        /\ <<f, l.c>> \in DOMAIN pool /\ pool[<<f, l.c>>].needs_flush
    BY <1>4, <1>11 DEF Pinned, WalkInv, old
  <2> QED
    BY <1>1, <1>11, <1>14, <1>15, <2>1 DEF Open, Pinned
<1>18. \A g \in Files \ {f} : Untouched(g, meta', pool', disk', before)
  <2>1. Aside(f, meta, meta', pool, pool', disk, disk')
    BY <1>1, <1>12, AsideFacts
  <2> QED
    BY <1>4, <2>1, OthersUntouched
<1>19. CASE l.single
  <2>1. Sent("mark", l) = l.len
    BY <1>4, <1>7, <1>8, <1>9, <1>10, <1>19
  <2>2. Holds(pool', f, Written(b, l.off, l.val, l.len))
    BY <1>1, <1>8, <2>1
  <2> QED
    BY <1>1, <1>3, <1>4, <1>5, <1>8, <1>14, <1>15, <1>16, <1>17, <1>18, <1>19, <2>2, WriteEnds
<1>20. CASE ~l.single /\ l.c < l.last
  <2>1. /\ next.f = l.f /\ next.op = l.op /\ next.off = l.off /\ next.len = l.len
        /\ next.val = l.val /\ next.single = l.single /\ next.first = l.first
        /\ next.last = l.last /\ next.sync = l.sync /\ next.sent = l.sent + Len(Part(l))
    BY <1>4 DEF Locals
  <2> HIDE DEF next
  <2>2. Sent("ensure", next) = Sent("mark", l)
    <3>1. Until(l) \in Int
      <4>1. ChunkSize \in Nat /\ l.c * ChunkSize \in Nat
        BY <1>4, Times, DirtyAssumption
      <4> QED
        BY <1>7, <4>1 DEF Until
    <3>2. From(l) \in Int
      <4>1. l.c * ChunkSize \in Nat
        BY <1>4, Times
      <4> QED
        BY <1>7, <4>1 DEF From
    <3> QED
      BY <1>6, <1>7, <1>10, <2>1, <3>1, <3>2 DEF Sent
  <2>3. WriteInv("ensure", next, meta', pool', b)
    BY <1>1, <1>8, <1>14, <1>15, <1>17, <1>20, <2>1, <2>2 DEF WriteInv
  <2>4. WalkInv("ensure", next, meta', pool')
    BY <1>1, <1>4, <2>1 DEF WalkInv
  <2>5. CallInv("ensure", next, meta', pool', disk', before)
    BY <1>1, <1>3, <1>4, <1>18, <2>1, <2>3, <2>4
    DEF CallInv, WritePoints, Walking, DeletePoints, FlushPoints
  <2> QED
    BY <1>1, <1>16, <1>20, <2>5, StepInside DEF Kept
<1>21. CASE ~l.single /\ ~(l.c < l.last)
  <2>1. l.c = l.last
    BY <1>4, <1>9, <1>21
  <2>2. Sent("grow", l) = l.len /\ Sent("mark", l) = l.len
    BY <1>7, <1>10, <2>1 DEF Sent
  <2>3. WriteInv("grow", l, meta', pool', b)
    BY <1>1, <1>8, <1>14, <1>15, <1>17, <1>21, <2>2 DEF WriteInv
  <2>4. CallInv("grow", l, meta', pool', disk', before)
    BY <1>1, <1>3, <1>4, <1>18, <2>3
    DEF CallInv, WritePoints, Walking, DeletePoints, FlushPoints
  <2> QED
    BY <1>1, <1>16, <1>21, <2>4, StepInside DEF Kept
<1> QED
  BY <1>19, <1>20, <1>21

\* A write sets the length and ends: the file has all its bytes.
LEMMA GrowKeeps ==
  ASSUME OneCaller, SerialInv, DirtyInv', NEW t \in Threads, Grow(t)
  PROVE  Kept
<1> DEFINE l == loc[t]
           f == l.f
           b == before.content[f]
           old == meta[f]
           new == Grown(old, l.off + l.len)
<1>1. /\ Step(t, "grow") /\ UpdateMeta(f, new) /\ pool' = pool /\ disk' = disk
      /\ Finish(t, Done)
  BY DEF Grow
<1>2. /\ CallInv("grow", l, meta, pool, disk, before) /\ ShapesInv(meta, pool)
      /\ LocalsAreSound("grow", l, calls) /\ MetaInv /\ calls \in Nat
  BY <1>1, StepStarts
<1>3. l.op = "write" /\ l \in Locals /\ f \in Files /\ l.len > 0 /\ WriteIsSound(l, calls)
  BY <1>2, WritingIsSound DEF LocalsAreSound
<1>4. /\ WriteInv("grow", l, meta, pool, b) /\ Copy(disk, f) = before.durable[f]
      /\ \A g \in Files \ {f} : Untouched(g, meta, pool, disk, before)
  BY <1>2, <1>3 DEF CallInv, WritePoints
<1> HIDE DEF l
<1>5. /\ b \in Seq(Nat) /\ l.off <= Len(b) /\ old.size = Len(b) /\ Open(f, meta)
      /\ Holds(pool, f, Written(b, l.off, l.val, l.len)) /\ Pinned(f, meta, pool)
  BY <1>4 DEF WriteInv, Sent
<1>6. f \in DOMAIN meta /\ old.state # "Deleted" /\ old \in Metadata /\ EntryShape(f, old)
  BY <1>2, <1>5 DEF Open, MetaInv, EntryIsSound, ShapesInv
<1>7. meta' = [meta EXCEPT ![f] = new]
  BY <1>1, <1>6 DEF UpdateMeta
<1>8. /\ new.state = old.state /\ new.dirty = old.dirty
      /\ new.size = Larger(Len(b), l.off + l.len) /\ new.chunk_count = ChunksOf(new.size)
  <2>1. l.off + l.len \in Nat /\ old.chunk_count = ChunksOf(old.size)
    BY <1>3, <1>6 DEF Locals, EntryShape
  <2> HIDE DEF old
  <2> QED
    BY <1>5, <1>6, <2>1, GrownFacts
<1> HIDE DEF new
<1>9. f \in DOMAIN meta' /\ meta'[f] = new
  BY <1>6, <1>7
<1>10. ShapesInv(meta', pool')
  <2>1. EntryShape(f, new)
    BY <1>6, <1>8 DEF EntryShape
  <2> QED
    BY <1>1, <1>2, <1>7, <2>1, ShapesStay
<1>11. Open(f, meta') /\ Pinned(f, meta', pool')
  BY <1>1, <1>5, <1>6, <1>8, <1>9 DEF Open, Pinned
<1>12. \A g \in Files \ {f} : Untouched(g, meta', pool', disk', before)
  <2>1. Aside(f, meta, meta', pool, pool', disk, disk')
    BY <1>1, <1>7, AsideFacts
  <2> QED
    BY <1>4, <2>1, OthersUntouched
<1> QED
  BY <1>1, <1>3, <1>4, <1>5, <1>8, <1>9, <1>10, <1>11, <1>12, WriteEnds

-----------------------------------------------------------------------------
(* Reads *)

\* A read has returned some bytes of the file.
LEMMA ReadEnds ==
  ASSUME OneCaller, SerialInv, DirtyInv', NEW t \in Threads, NEW from, from # "idle",
         Step(t, from), NEW r, Finish(t, Got(r)), meta' = meta, pool' = pool, disk' = disk,
         NEW f \in Files, Open(f, meta), Shows(f, before.content[f], meta, pool),
         Pinned(f, meta, pool), Copy(disk, f) = before.durable[f],
         \A g \in Files \ {f} : Untouched(g, meta, pool, disk, before),
         NEW off \in Nat, NEW e \in Nat, e <= Len(before.content[f]),
         r = SubSeq(before.content[f], off + 1, e)
  PROVE  Kept
<1> DEFINE b == before.content[f]
<1>1. /\ Seen = before /\ IsFiles(before.content) /\ IsFiles(before.durable) /\ MetaInv
      /\ ShapesInv(meta, pool)
  BY StepStarts
<1>2. b \in Seq(Nat) /\ Len(b) <= MaxSize /\ b # NoContent
  BY <1>1, DirtyAssumption DEF Shows, Open, MetaInv, EntryIsSound
<1>3. PICK a \in 0 .. MaxSize, n \in 0 .. MaxSize : r = Store!Slice(b, a, n)
  <2> HIDE DEF b
  <2>1. e <= Len(b) /\ r = SubSeq(b, off + 1, e)
    BY DEF b
  <2> QED
    <3>1. \E a, n \in 0 .. MaxSize : SubSeq(b, off + 1, e) = Store!Slice(b, a, n)
      BY <1>2, <2>1, PartIsSlice
    <3> QED
      BY <2>1, <3>1
<1>4. /\ SerialInv' /\ reply' = Got(r)
      /\ Seen'.content = [Seen.content EXCEPT ![f] = b]
      /\ Seen'.durable = [Seen.durable EXCEPT ![f] = before.durable[f]]
  <2>1. /\ ShapesInv(meta', pool') /\ Shows(f, b, meta', pool') /\ Pinned(f, meta', pool')
        /\ Copy(disk', f) = before.durable[f]
    BY <1>1
  <2>2. \A g \in Files \ {f} : Untouched(g, meta', pool', disk', before)
    OBVIOUS
  <2> HIDE DEF b
  <2>3. PICK x : x = before.durable[f]
    OBVIOUS
  <2>4. Copy(disk', f) = x
    BY <2>1, <2>3
  <2>5. /\ SerialInv' /\ reply' = Got(r)
        /\ Seen'.content = [Seen.content EXCEPT ![f] = b]
        /\ Seen'.durable = [Seen.durable EXCEPT ![f] = x]
    BY <2>1, <2>2, <2>4, CallEndsWith, SMTT(30)
  <2> QED
    BY <2>3, <2>5
<1>5. Seen'.content = Seen.content /\ Seen'.durable = Seen.durable
  BY <1>1, <1>4, ExceptSame
<1>6. reply' = Got(Store!Slice(Seen.content[f], a, n)) /\ Seen.content[f] # NoContent
  BY <1>1, <1>2, <1>3, <1>4
<1>7. Store!StoreNext
  BY <1>5, <1>6, StoreReads
<1> QED
  BY <1>4, <1>7 DEF Kept

\* The bytes of s are those of b after the first k.
StandsAt(s, b, k) == \A i \in 1 .. Len(s) : s[i] = b[k + i]

\* Bytes of a file, followed by the next ones.
LEMMA JoinIsPart ==
  ASSUME NEW s \in Seq(Nat), NEW r \in Seq(Nat), NEW b, NEW off \in Nat,
         StandsAt(s, b, off), StandsAt(r, b, off + Len(s)), NEW q, q = s \o r
  PROVE  q \in Seq(Nat) /\ Len(q) = Len(s) + Len(r) /\ StandsAt(q, b, off)
<1> USE DEF StandsAt
<1>1. /\ q \in Seq(Nat) /\ Len(q) = Len(s) + Len(r) /\ Len(s) \in Nat /\ Len(r) \in Nat
      /\ \A i \in 1 .. Len(s) + Len(r) : q[i] = IF i <= Len(s) THEN s[i] ELSE r[i - Len(s)]
  OBVIOUS
<1>2. ASSUME NEW i \in 1 .. Len(q) PROVE q[i] = b[off + i]
  <2>1. CASE i <= Len(s)
    <3>1. i \in 1 .. Len(s) /\ i \in 1 .. Len(s) + Len(r)
      BY <1>1, <2>1
    <3>2. q[i] = s[i]
      BY <1>1, <2>1, <3>1
    <3> QED
      BY <3>1, <3>2
  <2>2. CASE ~(i <= Len(s))
    <3>1. i - Len(s) \in 1 .. Len(r) /\ off + Len(s) + (i - Len(s)) = off + i
      BY <1>1, <2>2
    <3> QED
      BY <1>1, <2>2, <3>1
  <2> QED
    BY <2>1, <2>2
<1> QED
  BY <1>1, <1>2

\* Bytes that stand at consecutive places are a part.
LEMMA BytesArePart ==
  ASSUME NEW s \in Seq(Nat), NEW b \in Seq(Nat), NEW off \in Nat, off + Len(s) <= Len(b),
         \A i \in 1 .. Len(s) : s[i] = b[off + i]
  PROVE  s = SubSeq(b, off + 1, off + Len(s))
<1> DEFINE e == off + Len(s)
           r == SubSeq(b, off + 1, e)
<1>1. off + 1 \in Nat \ {0} /\ e \in Int /\ e <= Len(b) /\ Len(s) \in Nat
  OBVIOUS
<1>2. /\ r \in Seq(Nat) /\ Len(r) = IF off + 1 <= e THEN e - (off + 1) + 1 ELSE 0
      /\ \A j \in 1 .. Len(r) : r[j] = b[off + 1 + j - 1]
  <2> HIDE DEF e
  <2> QED
    BY <1>1, PartOfSequence
<1> HIDE DEF r
<1>3. Len(r) = Len(s)
  BY <1>1, <1>2
<1>4. \A j \in 1 .. Len(s) : s[j] = r[j]
  <2>1. \A j \in 1 .. Len(s) : off + 1 + j - 1 = off + j
    BY <1>1
  <2> QED
    BY <1>2, <1>3, <2>1
<1>5. s = r
  BY <1>2, <1>3, <1>4, SameSequence
<1> QED
  BY <1>5 DEF r

\* A read finds out the chunks it is about.
LEMMA ReadPlanKeeps ==
  ASSUME OneCaller, SerialInv, DirtyInv', NEW t \in Threads, ReadPlan(t)
  PROVE  Kept
<1> DEFINE l == loc[t]
           f == l.f
           b == before.content[f]
           m == meta[f]
           end == Smaller(l.off + l.len, m.size)
           single == m.chunk_count <= 1
           first == IF single THEN 0 ELSE l.off \div ChunkSize
           last == IF single THEN 0 ELSE (end - 1) \div ChunkSize
           cut == [l EXCEPT !.len = end - l.off]
           r == Walk(cut, single, first, last)
<1>1. /\ Step(t, "read_plan") /\ meta' = meta /\ pool' = pool /\ disk' = disk
      /\ IF l.off >= m.size THEN Finish(t, Got(<< >>)) ELSE Continue(t, "ensure", r)
  BY DEF ReadPlan, shared
<1>2. /\ CallInv("read_plan", l, meta, pool, disk, before) /\ ShapesInv(meta, pool)
      /\ LocalsAreSound("read_plan", l, calls) /\ l \in Locals /\ MetaInv
  BY <1>1, StepStarts
<1>3. /\ Open(f, meta) /\ Untouched(f, meta, pool, disk, before) /\ l.buf = << >>
      /\ \A g \in Files \ {f} : Untouched(g, meta, pool, disk, before)
  BY <1>2 DEF CallInv
<1>4. /\ l.op = "read" /\ l.off \in Nat /\ l.len \in Nat /\ l.len > 0 /\ f \in Files
  BY <1>2 DEF LocalsAreSound, Locals
<1>5. /\ Shows(f, b, meta, pool) /\ Pinned(f, meta, pool) /\ Copy(disk, f) = before.durable[f]
      /\ b \in Seq(Nat) /\ Len(b) = m.size
  BY <1>3 DEF Untouched, Shows, Open
<1>6. m.size \in 0 .. MaxSize /\ m.size \in Nat /\ m.chunk_count = ChunksOf(m.size)
  <2>1. m.size \in Nat /\ m.size <= MaxSize /\ MaxSize \in Nat
    BY <1>2, <1>3, DirtyAssumption DEF MetaInv, EntryIsSound, Metadata, Open
  <2>2. m.chunk_count = ChunksOf(m.size)
    BY <1>2, <1>3 DEF ShapesInv, EntryShape, Open
  <2> QED
    BY <2>1, <2>2
<1> HIDE DEF l, f, b
<1>7. CASE l.off >= m.size
  <2>1. /\ SubSeq(b, l.off + 1, 0) \in Seq(Nat) /\ Len(SubSeq(b, l.off + 1, 0)) = 0
    BY <1>4, <1>5, PartOfSequence
  <2>2. << >> = SubSeq(b, l.off + 1, 0)
    BY <2>1
  <2>3. 0 <= Len(b) /\ 0 \in Nat
    BY <1>5
  <2> QED
    BY <1>1, <1>3, <1>4, <1>5, <1>7, <2>2, <2>3, ReadEnds DEF b
<1>8. CASE ~(l.off >= m.size)
  <2>1. /\ end \in Nat /\ end > l.off /\ end <= Len(b) /\ end - l.off \in Nat /\ end - 1 \in Nat
    BY <1>4, <1>5, <1>6, <1>8, SMTT(30) DEF Smaller
  <2> HIDE DEF m, end
  <2>2. /\ cut.f = f /\ cut.op = "read" /\ cut.off = l.off /\ cut.len = end - l.off
        /\ cut.buf = << >> /\ cut \in Locals
    BY <1>2, <1>3, <1>4, <2>1 DEF Locals, f
  <2> HIDE DEF cut
  <2>3. /\ r.f = f /\ r.op = "read" /\ r.off = l.off /\ r.len = end - l.off /\ r.buf = << >>
        /\ r.single = single /\ r.first = first /\ r.last = last /\ r.c = first
        /\ r.sync = \A c \in first .. last : InPool(f, c)
    BY <2>2 DEF Walk, Locals
  <2>4. single => Len(b) <= ChunkSize
    <3>1. /\ ChunksOf(m.size) \in 1 .. ChunksOf(MaxSize) /\ ChunksOf(MaxSize) \in Nat
          /\ m.size - (ChunksOf(m.size) - 1) * ChunkSize <= ChunkSize
      BY <1>6, LastChunk
    <3>2. single => ChunksOf(m.size) - 1 = 0
      BY <1>6, <3>1
    <3>3. ChunkSize \in Nat /\ m.size \in Nat
      BY <1>6, DirtyAssumption
    <3> QED
      BY <1>5, <3>1, <3>2, <3>3, SMTT(30) DEF m
  <2> HIDE DEF single
  <2>5. ~single =>
          /\ l.off < (first + 1) * ChunkSize
          /\ last * ChunkSize < end /\ end <= (last + 1) * ChunkSize
    <3> SUFFICES ASSUME ~single
                 PROVE  /\ l.off < (first + 1) * ChunkSize
                        /\ last * ChunkSize < end /\ end <= (last + 1) * ChunkSize
      OBVIOUS
    <3>1. l.off < (first + 1) * ChunkSize
      BY <1>4, Division
    <3>2. last \in Nat /\ last * ChunkSize <= end - 1 /\ end - 1 < (last + 1) * ChunkSize
      BY <2>1, Division
    <3> HIDE DEF last
    <3>3. last * ChunkSize \in Nat /\ (last + 1) * ChunkSize \in Nat
      BY <3>2, Times
    <3> QED
      BY <2>1, <3>1, <3>2, <3>3
  <2>6. single => last = 0
    OBVIOUS
  <2>7. l.off + (end - l.off) = end
    BY <1>4, <2>1
  <2> HIDE DEF first, last, r
  <2>8. Len(r.buf) = 0 /\ \A i \in 1 .. Len(r.buf) : FALSE
    BY <2>3
  <2>9. ReadInv(r, meta, pool, b)
    BY <1>3, <1>5, <2>1, <2>3, <2>4, <2>5, <2>6, <2>7, <2>8 DEF ReadInv
  <2>10. WalkInv("ensure", r, meta, pool)
    BY <2>3 DEF WalkInv, InPool
  <2>11. CallInv("ensure", r, meta, pool, disk, before)
    BY <1>3, <1>5, <2>3, <2>9, <2>10
    DEF CallInv, WritePoints, Walking, DeletePoints, FlushPoints, b
  <2> QED
    BY <1>1, <1>2, <1>8, <2>11, StepInside DEF Kept, m
<1> QED
  BY <1>7, <1>8

\* A read of a file of one chunk answers its bytes.
LEMMA ReadSingleKeeps ==
  ASSUME OneCaller, SerialInv, DirtyInv', NEW t \in Threads, ReadSingle(t)
  PROVE  Kept
<1> DEFINE l == loc[t]
           f == l.f
           b == before.content[f]
           data == PoolData(f, 0)
           r == [i \in 1 .. l.len |-> IF l.off + i <= Len(data) THEN data[l.off + i] ELSE 0]
<1>1. /\ Step(t, "use") /\ l.op = "read" /\ l.single /\ Finish(t, Got(r))
      /\ meta' = meta /\ pool' = pool /\ disk' = disk
  BY DEF ReadSingle, shared
<1>2. /\ CallInv("use", l, meta, pool, disk, before) /\ ShapesInv(meta, pool)
      /\ LocalsAreSound("use", l, calls) /\ PoolInv
  BY <1>1, StepStarts
<1>3. /\ l \in Locals /\ f \in Files /\ l.c \in l.first .. l.last
      /\ WalkInv("use", l, meta, pool)
      /\ l.op = "read" => ReadInv(l, meta, pool, b)
      /\ Copy(disk, f) = before.durable[f]
      /\ \A g \in Files \ {f} : Untouched(g, meta, pool, disk, before)
  BY <1>2, WalkFacts DEF Walking
<1> HIDE DEF l, f, b
<1>4. /\ Open(f, meta) /\ Shows(f, b, meta, pool) /\ Pinned(f, meta, pool)
      /\ l.off + l.len <= Len(b) /\ l.last = 0 /\ Len(b) <= ChunkSize
  BY <1>1, <1>3 DEF ReadInv, f
<1>5. l.off \in Nat /\ l.len \in Nat /\ l.c = 0
  BY <1>3, <1>4 DEF Locals
<1>6. b \in Seq(Nat) /\ Holds(pool, f, b) /\ 0 \in Chunks /\ ChunkSize \in Nat /\ Len(b) \in Nat
  BY <1>4, LastChunk, DirtyAssumption DEF Shows, Open
<1>7. data = DataIn(pool, f, 0)
  BY <1>3, <1>5 DEF WalkInv, PoolData, InPool, DataIn, f
<1> HIDE DEF data
<1>8. ASSUME NEW j \in 1 .. Len(b) PROVE j <= Len(data) /\ data[j] = b[j]
  <2>1. j \in 1 .. ChunkSize /\ 0 * ChunkSize + j = j /\ 0 * ChunkSize + j <= Len(b)
    BY <1>4, <1>6
  <2> QED
    BY <1>6, <1>7, <2>1 DEF Holds
<1>9. \A i \in 1 .. l.len : l.off + i \in 1 .. Len(b) /\ b[l.off + i] \in Nat
  BY <1>4, <1>5, <1>6, SMTT(30)
<1>10. r \in Seq(Nat) /\ Len(r) = l.len /\ \A i \in 1 .. l.len : r[i] = b[l.off + i]
  BY <1>5, <1>8, <1>9, SMTT(30)
<1> HIDE DEF r
<1>11. r = SubSeq(b, l.off + 1, l.off + l.len)
  <2>1. l.off + Len(r) <= Len(b) /\ \A i \in 1 .. Len(r) : r[i] = b[l.off + i]
    BY <1>4, <1>10
  <2>2. r = SubSeq(b, l.off + 1, l.off + Len(r))
    BY <1>5, <1>6, <1>10, <2>1, BytesArePart
  <2> QED
    BY <1>10, <2>2
<1>12. l.off + l.len \in Nat
  BY <1>5
<1> QED
  BY <1>1, <1>3, <1>4, <1>5, <1>11, <1>12, ReadEnds DEF b

\* Where the bytes of a range stand in the chunk at C, when u is where its first chunk starts
\* and v where its last one does.
LEMMA PlacesInChunk ==
  ASSUME NEW x \in Nat, NEW y \in Nat, NEW C \in Nat, NEW u \in Nat, NEW v \in Nat,
         NEW n \in Nat, NEW z \in Nat, z > 0, NEW b \in Nat,
         x + y <= b, x < u + z, v < x + y, x + y <= v + z, u <= x,
         NEW isFirst \in BOOLEAN, NEW isLast \in BOOLEAN,
         ~isLast => C + z <= v, isLast => C = v, isFirst => C = u /\ n = 0,
         ~isFirst => n = C - x /\ u + z <= C,
         NEW from, from = IF isFirst THEN x - C ELSE 0,
         NEW until, until = IF isLast THEN x + y - C ELSE z
  PROVE  /\ from \in Nat /\ until \in Nat /\ from <= until /\ until <= z /\ until > 0
         /\ C + until <= b /\ n + x = C + from
<1>1. CASE isFirst /\ isLast
  BY <1>1
<1>2. CASE isFirst /\ ~isLast
  BY <1>2
<1>3. CASE ~isFirst /\ isLast
  BY <1>3
<1>4. CASE ~isFirst /\ ~isLast
  BY <1>4
<1> QED
  BY <1>1, <1>2, <1>3, <1>4

\* A read takes its bytes of a chunk, and answers after the last.
LEMMA ReadChunkKeeps ==
  ASSUME OneCaller, SerialInv, DirtyInv', NEW t \in Threads, ReadChunk(t)
  PROVE  Kept
<1> DEFINE l == loc[t]
           f == l.f
           b == before.content[f]
           data == PoolData(f, l.c)
           to == Smaller(IF l.c = l.last THEN Until(l) ELSE Len(data), Len(data))
           part == SubSeq(data, From(l) + 1, to)
           got == l.buf \o part
           next == [l EXCEPT !.c = @ + 1, !.buf = got]
           C == l.c * ChunkSize
<1>1. /\ Step(t, "use") /\ l.op = "read" /\ ~l.single
      /\ meta' = meta /\ pool' = pool /\ disk' = disk
      /\ IF l.c < l.last THEN Continue(t, "ensure", next) ELSE Finish(t, Got(got))
  BY DEF ReadChunk, shared
<1>2. /\ CallInv("use", l, meta, pool, disk, before) /\ ShapesInv(meta, pool)
      /\ LocalsAreSound("use", l, calls) /\ PoolInv
  BY <1>1, StepStarts
<1>3. /\ l \in Locals /\ f \in Files /\ l.c \in Chunks /\ l.c \in Nat
      /\ WalkInv("use", l, meta, pool)
      /\ l.op = "read" => ReadInv(l, meta, pool, b)
      /\ Copy(disk, f) = before.durable[f]
      /\ \A g \in Files \ {f} : Untouched(g, meta, pool, disk, before)
  BY <1>2, WalkFacts DEF Walking
<1>4. WalkIsSound(l)
  BY <1>2 DEF LocalsAreSound, Walking
<1> HIDE DEF l, f, b
<1>5. /\ Open(f, meta) /\ Shows(f, b, meta, pool) /\ Pinned(f, meta, pool)
      /\ l.off + l.len <= Len(b)
      /\ l.off < (l.first + 1) * ChunkSize
      /\ l.last * ChunkSize < l.off + l.len /\ l.off + l.len <= (l.last + 1) * ChunkSize
      /\ l.c = l.first => l.buf = << >>
      /\ l.c # l.first => Len(l.buf) = C - l.off
      /\ \A i \in 1 .. Len(l.buf) : l.buf[i] = b[l.off + i]
  BY <1>1, <1>3 DEF ReadInv, f
<1>6. b \in Seq(Nat) /\ Holds(pool, f, b) /\ ChunkSize \in Nat /\ ChunkSize > 0 /\ Len(b) \in Nat
  BY <1>5, DirtyAssumption DEF Shows, Open
<1>7. /\ l.off \in Nat /\ l.len \in Nat /\ l.first \in Nat /\ l.last \in Nat /\ l.buf \in Seq(Nat)
      /\ l.first <= l.c /\ l.c <= l.last /\ l.first * ChunkSize <= l.off
  BY <1>3, <1>4 DEF Locals, WalkIsSound
<1>8. /\ C \in Nat /\ l.first * ChunkSize \in Nat /\ l.last * ChunkSize \in Nat
      /\ (l.c + 1) * ChunkSize = C + ChunkSize
      /\ (l.last + 1) * ChunkSize = l.last * ChunkSize + ChunkSize
      /\ (l.first + 1) * ChunkSize = l.first * ChunkSize + ChunkSize
      /\ l.c < l.last => C + ChunkSize <= l.last * ChunkSize
      /\ l.c = l.last => C = l.last * ChunkSize
      /\ l.c = l.first => C = l.first * ChunkSize
  BY <1>3, <1>7, Times, ChunksInOrder
<1>9. data = DataIn(pool, f, l.c)
  BY <1>3 DEF WalkInv, PoolData, InPool, DataIn, f
<1>10. data \in Seq(Nat) /\ Len(data) \in Nat /\ Len(data) <= ChunkSize
  BY <1>2, <1>3, <1>9, PoolIsTyped, DataIsTyped
<1>11. ASSUME NEW j \in 1 .. ChunkSize, C + j <= Len(b)
       PROVE  j <= Len(data) /\ data[j] = b[C + j]
  BY <1>3, <1>6, <1>9, <1>11 DEF Holds
<1> DEFINE from == IF l.c = l.first THEN l.off - C ELSE 0
           until == IF l.c = l.last THEN l.off + l.len - C ELSE ChunkSize
<1>12. From(l) = from /\ (l.c = l.last => Until(l) = until)
  BY DEF From, Until
<1> HIDE DEF C, data
<1>13. /\ from \in Nat /\ until \in Nat /\ from <= until /\ until <= ChunkSize /\ until > 0
      /\ C + until <= Len(b) /\ Len(l.buf) + l.off = C + from
  <2>1. PICK x \in Nat, y \in Nat, u \in Nat, v \in Nat, n \in Nat :
          x = l.off /\ y = l.len /\ u = l.first * ChunkSize /\ v = l.last * ChunkSize /\ n = Len(l.buf)
    <3>1. Len(l.buf) \in Nat
      BY <1>7
    <3> QED
      BY <1>7, <1>8, <3>1
  <2>2. x + y <= Len(b) /\ x < u + ChunkSize /\ v < x + y /\ x + y <= v + ChunkSize /\ u <= x
    BY <1>5, <1>7, <1>8, <2>1
  <2>3. /\ l.c # l.last => C + ChunkSize <= v
        /\ l.c = l.last => C = v
        /\ l.c = l.first => C = u /\ n = 0
        /\ l.c # l.first => n = C - x
    <3>1. l.c # l.last => l.c < l.last
      BY <1>3, <1>7
    <3>2. l.c = l.first => n = 0
      BY <1>5, <2>1
    <3> QED
      BY <1>5, <1>8, <2>1, <3>1, <3>2
  <2>4. l.c # l.first => u + ChunkSize <= C
    <3>1. l.c # l.first => l.first < l.c
      BY <1>3, <1>7
    <3> QED
      BY <1>3, <1>7, <2>1, <3>1, ChunksInOrder DEF C
  <2>5. from \in Nat /\ until \in Nat /\ from <= until /\ until <= ChunkSize /\ until > 0
        /\ C + until <= Len(b) /\ n + x = C + from
    <3>1. /\ from = IF l.c = l.first THEN x - C ELSE 0
          /\ until = IF l.c = l.last THEN x + y - C ELSE ChunkSize
      BY <2>1
    <3> HIDE DEF from, until
    <3> QED
      <4>1. PICK isFirst \in BOOLEAN, isLast \in BOOLEAN :
              (isFirst <=> l.c = l.first) /\ (isLast <=> l.c = l.last)
        <5>1. (l.c = l.first) \in BOOLEAN /\ (l.c = l.last) \in BOOLEAN
          OBVIOUS
        <5> QED
          BY <5>1
      <4> QED
        BY <1>6, <1>8, <2>2, <2>3, <2>4, <3>1, <4>1, PlacesInChunk, SMTT(30)
  <2> HIDE DEF from, until
  <2> QED
    BY <2>1, <2>5
<1>14. to = until
  <2>1. until \in 1 .. ChunkSize
    BY <1>6, <1>13
  <2>2. until <= Len(data)
    BY <1>11, <1>13, <2>1
  <2> QED
    BY <1>6, <1>10, <1>12, <1>13, <2>2 DEF Smaller
<1> HIDE DEF to
<1>15. until <= Len(data)
  <2>1. until \in 1 .. ChunkSize
    BY <1>6, <1>13
  <2> QED
    BY <1>11, <1>13, <2>1
<1>16. part = SubSeq(data, from + 1, until)
  BY <1>12, <1>14
<1> HIDE DEF from, until, part
<1>17. /\ part \in Seq(Nat) /\ Len(part) = until - from
       /\ \A j \in 1 .. Len(part) : part[j] = data[from + 1 + j - 1]
  <2>1. from + 1 \in Nat \ {0} /\ until \in Int
    BY <1>13
  <2>2. /\ part \in Seq(Nat) /\ Len(part) = IF from + 1 <= until THEN until - (from + 1) + 1 ELSE 0
        /\ \A j \in 1 .. Len(part) : part[j] = data[from + 1 + j - 1]
    BY <1>10, <1>15, <1>16, <2>1, PartOfSequence, SMTT(30)
  <2> QED
    BY <1>13, <2>2
<1>18. ASSUME NEW j \in 1 .. Len(part) PROVE part[j] = b[l.off + Len(l.buf) + j]
  <2> DEFINE n == Len(l.buf)
             off == l.off
  <2>1. from + j \in 1 .. ChunkSize /\ C + (from + j) <= Len(b) /\ from + 1 + j - 1 = from + j
        /\ C + (from + j) = l.off + Len(l.buf) + j
    <3>1. /\ C \in Nat /\ from \in Nat /\ until \in Nat /\ n \in Nat /\ off \in Nat
          /\ ChunkSize \in Nat /\ until <= ChunkSize /\ Len(b) \in Nat
          /\ C + until <= Len(b) /\ n + off = C + from
      BY <1>6, <1>7, <1>8, <1>13
    <3>2. j \in Nat /\ j >= 1 /\ j <= until - from
      BY <1>17
    <3> HIDE DEF n, off
    <3>3. from + j \in 1 .. ChunkSize /\ C + (from + j) <= Len(b) /\ from + 1 + j - 1 = from + j
          /\ C + (from + j) = off + n + j
      BY <3>1, <3>2
    <3> QED
      BY <3>3 DEF n, off
  <2>2. data[from + j] = b[C + (from + j)]
    BY <1>11, <2>1
  <2> QED
    BY <1>17, <2>1, <2>2
<1>19. /\ got \in Seq(Nat) /\ Len(got) = Len(l.buf) + Len(part)
       /\ \A i \in 1 .. Len(got) : got[i] = b[l.off + i]
  <2> DEFINE buf == l.buf
             off == l.off
  <2>1. buf \in Seq(Nat) /\ off \in Nat /\ StandsAt(buf, b, off)
    BY <1>5, <1>7 DEF StandsAt
  <2>2. StandsAt(part, b, off + Len(buf))
    BY <1>18 DEF StandsAt
  <2> HIDE DEF buf, off
  <2>3. got = buf \o part
    BY DEF buf
  <2> HIDE DEF got
  <2>4. got \in Seq(Nat) /\ Len(got) = Len(buf) + Len(part) /\ StandsAt(got, b, off)
    BY <1>17, <2>1, <2>2, <2>3, JoinIsPart
  <2> QED
    BY <2>4 DEF buf, off, StandsAt
<1> HIDE DEF got
<1>20. l.off + Len(got) = C + until /\ Len(got) \in Nat
  <2> DEFINE n == Len(l.buf)
             off == l.off
             g == Len(got)
  <2>1. /\ C \in Nat /\ from \in Nat /\ until \in Nat /\ n \in Nat /\ off \in Nat /\ from <= until
        /\ n + off = C + from /\ g = n + (until - from)
    BY <1>7, <1>8, <1>13, <1>17, <1>19
  <2> HIDE DEF n, off, g
  <2>2. off + g = C + until /\ g \in Nat
    BY <2>1
  <2> QED
    BY <2>2 DEF off, g
<1>21. CASE l.c < l.last
  <2>1. /\ next.f = f /\ next.op = l.op /\ next.off = l.off /\ next.len = l.len
        /\ next.c = l.c + 1 /\ next.buf = got /\ next.single = l.single
        /\ next.first = l.first /\ next.last = l.last /\ next.sync = l.sync
    BY <1>3 DEF Locals, f
  <2>2. next.c # next.first /\ Len(got) = (l.c + 1) * ChunkSize - l.off
    BY <1>3, <1>7, <1>8, <1>20, <1>21, <2>1, SMTT(30) DEF until
  <2> HIDE DEF next
  <2>3. ReadInv(next, meta, pool, b)
    BY <1>1, <1>5, <1>19, <2>1, <2>2 DEF ReadInv
  <2>4. WalkInv("ensure", next, meta, pool)
    BY <1>3, <2>1 DEF WalkInv, f
  <2>5. CallInv("ensure", next, meta, pool, disk, before)
    BY <1>1, <1>3, <2>1, <2>3, <2>4
    DEF CallInv, WritePoints, Walking, DeletePoints, FlushPoints, b
  <2> QED
    BY <1>1, <1>2, <1>21, <2>5, StepInside DEF Kept
<1>22. CASE ~(l.c < l.last)
  <2>1. l.c = l.last
    BY <1>3, <1>7, <1>22
  <2>2. l.off + Len(got) = l.off + l.len /\ l.off + Len(got) \in Nat
    BY <1>7, <1>8, <1>20, <2>1 DEF until
  <2>3. got = SubSeq(b, l.off + 1, l.off + Len(got))
    BY <1>5, <1>6, <1>7, <1>19, <2>2, BytesArePart
  <2> QED
    BY <1>1, <1>3, <1>5, <1>7, <1>22, <2>2, <2>3, ReadEnds DEF b
<1> QED
  BY <1>21, <1>22

-----------------------------------------------------------------------------
(* Deletion *)

\* The last step of a delete: the file is gone, and its copy may be.
LEMMA DeleteEnds ==
  ASSUME OneCaller, SerialInv, DirtyInv', NEW t \in Threads, NEW from, from # "idle",
         Step(t, from), NEW r, Finish(t, r), r = Done \/ (r = Failed /\ disk' = disk),
         meta' = meta, pool' = pool, NEW f \in Files, disk' = disk \/ disk' = Drop(disk, {f}),
         Copy(disk, f) = before.durable[f], Shows(f, NoContent, meta, pool),
         f \in DOMAIN meta => meta[f].state = "Deleted",
         \A g \in Files \ {f} : Untouched(g, meta, pool, disk, before)
  PROVE  Kept
<1>1. /\ Seen = before /\ IsFiles(before.content) /\ IsFiles(before.durable)
      /\ ShapesInv(meta, pool)
  BY StepStarts
<1>2. \A g \in Files \ {f} : Untouched(g, meta', pool', disk', before)
  <2>1. Aside(f, meta, meta', pool, pool', disk, disk')
    BY AsideFacts
  <2> QED
    BY <2>1, OthersUntouched
<1>3. PICK x : Copy(disk', f) = x
  OBVIOUS
<1>4. x = before.durable[f] \/ (x = NoContent /\ disk' # disk)
  BY <1>3, DropFacts DEF Copy
<1>5. /\ ShapesInv(meta', pool') /\ Shows(f, NoContent, meta', pool') /\ Pinned(f, meta', pool')
  BY <1>1 DEF Pinned
<1>6. /\ SerialInv' /\ reply' = r
      /\ Seen'.content = [Seen.content EXCEPT ![f] = NoContent]
      /\ Seen'.durable = [Seen.durable EXCEPT ![f] = x]
  BY <1>2, <1>3, <1>5, CallEndsWith
<1>7. x = before.durable[f] => Seen'.durable = Seen.durable
  BY <1>1, <1>6, ExceptSame
<1>8. Seen'.durable \in {Seen.durable, [Seen.durable EXCEPT ![f] = NoContent]}
      /\ (reply' = Done \/ (reply' = Failed /\ Seen'.durable = Seen.durable))
  BY <1>4, <1>6, <1>7
<1>9. Store!StoreNext
  BY <1>6, <1>8, StoreDeletes
<1> QED
  BY <1>6, <1>9 DEF Kept

\* What the invariant says of a delete under way.
LEMMA DeleteFacts ==
  ASSUME OneCaller, SerialInv, NEW t \in Threads, NEW from \in DeletePoints, Step(t, from)
  PROVE  /\ DeleteInv(from, loc[t], meta, pool, disk, before) /\ loc[t].f \in Files
         /\ ShapesInv(meta, pool) /\ LocalsAreSound(from, loc[t], calls) /\ MetaInv
         /\ \A g \in Files \ {loc[t].f} : Untouched(g, meta, pool, disk, before)
<1>1. from # "idle" /\ from # "clear_meta"
  BY DEF DeletePoints
<1>2. /\ CallInv(from, loc[t], meta, pool, disk, before) /\ ShapesInv(meta, pool)
      /\ LocalsAreSound(from, loc[t], calls) /\ MetaInv
  BY <1>1, StepStarts
<1> QED
  BY <1>1, <1>2 DEF CallInv, LocalsAreSound

\* The copy of a deleted new file is taken from the disk, or the disk fails: the
\* deletion succeeds either way.
LEMMA DelNewDiskKeeps ==
  ASSUME OneCaller, SerialInv, DirtyInv', NEW t \in Threads, DelNewDisk(t)
  PROVE  Kept
<1> DEFINE l == loc[t]
<1>1. /\ Step(t, "del_new_disk") /\ Finish(t, Done) /\ meta' = meta /\ pool' = pool
      /\ disk' = disk \/ disk' = Drop(disk, {l.f})
  BY DEF DelNewDisk
<1>2. /\ DeleteInv("del_new_disk", l, meta, pool, disk, before) /\ l.f \in Files
      /\ \A g \in Files \ {l.f} : Untouched(g, meta, pool, disk, before)
  BY <1>1, DeleteFacts DEF DeletePoints
<1> HIDE DEF l
<1>3. /\ Copy(disk, l.f) = before.durable[l.f] /\ l.f \notin DOMAIN meta
      /\ Shows(l.f, NoContent, meta, pool)
  BY <1>2 DEF DeleteInv, Shows, InManifest
<1> QED
  BY <1>1, <1>2, <1>3, DeleteEnds

\* The copy of a file that was marked is taken from the disk, or the disk fails.
LEMMA DiskDeleteKeeps ==
  ASSUME OneCaller, SerialInv, DirtyInv', NEW t \in Threads, DiskDelete(t)
  PROVE  Kept
<1> DEFINE l == loc[t]
<1>1. /\ Step(t, "disk_delete") /\ meta' = meta /\ pool' = pool
  BY DEF DiskDelete
<1>2. /\ DeleteInv("disk_delete", l, meta, pool, disk, before) /\ l.f \in Files
      /\ \A g \in Files \ {l.f} : Untouched(g, meta, pool, disk, before)
  BY <1>1, DeleteFacts DEF DeletePoints
<1>3. \/ Finish(t, Done) /\ disk' = Drop(disk, {l.f})
      \/ Finish(t, Failed) /\ disk' = disk
  BY DEF DiskDelete, Fail
<1> HIDE DEF l
<1>4. /\ Copy(disk, l.f) = before.durable[l.f] /\ meta[l.f].state = "Deleted"
      /\ Shows(l.f, NoContent, meta, pool)
  BY <1>2 DEF DeleteInv, Shows, InManifest
<1>5. CASE Finish(t, Done) /\ disk' = Drop(disk, {l.f})
  BY <1>1, <1>2, <1>4, <1>5, DeleteEnds
<1>6. CASE Finish(t, Failed) /\ disk' = disk
  BY <1>1, <1>2, <1>4, <1>6, DeleteEnds
<1> QED
  BY <1>3, <1>5, <1>6

\* Both drop the blocks of the file.
LEMMA DelBlocksKeeps ==
  ASSUME OneCaller, SerialInv, DirtyInv', NEW t \in Threads, DelNewBlocks(t) \/ DelBlocks(t)
  PROVE  Kept
<1> DEFINE l == loc[t]
           K == Blocks({l.f})
<1>1. PICK from, to :
        /\ \/ from = "del_new_blocks" /\ to = "del_new_meta"
           \/ from = "del_blocks" /\ to = "flush"
        /\ Step(t, from) /\ Continue(t, to, l)
  <2>1. CASE DelNewBlocks(t)
    <3>1. Step(t, "del_new_blocks") /\ Continue(t, "del_new_meta", l)
      BY <2>1 DEF DelNewBlocks
    <3> QED
      BY <3>1, Zenon
  <2>2. CASE DelBlocks(t)
    <3>1. Step(t, "del_blocks") /\ Continue(t, "flush", l)
      BY <2>2 DEF DelBlocks
    <3> QED
      BY <3>1, Zenon
  <2> QED
    BY <2>1, <2>2
<1>2. pool' = Drop(pool, K) /\ meta' = meta /\ disk' = disk
  BY DEF DelNewBlocks, DelBlocks
<1>3. /\ DeleteInv(from, l, meta, pool, disk, before) /\ l.f \in Files
      /\ ShapesInv(meta, pool)
      /\ \A g \in Files \ {l.f} : Untouched(g, meta, pool, disk, before)
  BY <1>1, DeleteFacts DEF DeletePoints
<1> HIDE DEF l
<1>4. (\A k \in K : k[1] = l.f) /\ \A k \in DOMAIN pool' : k[1] # l.f
  BY <1>2, DropFacts DEF Blocks
<1> HIDE DEF K
<1>5. \A g \in Files \ {l.f} : Untouched(g, meta', pool', disk', before)
  <2>1. Aside(l.f, meta, meta', pool, pool', disk, disk')
    BY <1>2, <1>4, AsideFacts
  <2> QED
    BY <1>3, <2>1, OthersUntouched
<1>6. ShapesInv(meta', pool')
  BY <1>2, <1>3, ShapesStay
<1>7. DeleteInv(to, l, meta', pool', disk', before)
  BY <1>1, <1>2, <1>3, <1>4 DEF DeleteInv
<1>8. CallInv(to, l, meta', pool', disk', before)
  BY <1>1, <1>5, <1>7 DEF CallInv, WritePoints, Walking, DeletePoints, FlushPoints
<1> QED
  BY <1>1, <1>6, <1>8, StepInside DEF Kept

\* The entry of a deleted new file is taken out.
LEMMA DelNewMetaKeeps ==
  ASSUME OneCaller, SerialInv, DirtyInv', NEW t \in Threads, DelNewMeta(t)
  PROVE  Kept
<1> DEFINE l == loc[t]
<1>1. /\ Step(t, "del_new_meta") /\ Continue(t, "del_new_disk", l)
      /\ meta' = Drop(meta, {l.f}) /\ pool' = pool /\ disk' = disk
  BY DEF DelNewMeta
<1>2. /\ DeleteInv("del_new_meta", l, meta, pool, disk, before) /\ l.f \in Files
      /\ ShapesInv(meta, pool)
      /\ \A g \in Files \ {l.f} : Untouched(g, meta, pool, disk, before)
  BY <1>1, DeleteFacts DEF DeletePoints
<1> HIDE DEF l
<1>3. l.f \notin DOMAIN meta' /\ \A k \in DOMAIN pool : k[1] # l.f
  BY <1>1, <1>2, DropFacts DEF DeleteInv
<1>4. \A g \in Files \ {l.f} : Untouched(g, meta', pool', disk', before)
  <2>1. Aside(l.f, meta, meta', pool, pool', disk, disk')
    BY <1>1, AsideFacts
  <2> QED
    BY <1>2, <2>1, OthersUntouched
<1>5. ShapesInv(meta', pool')
  BY <1>1, <1>2, <1>3, ShapesStay
<1>6. DeleteInv("del_new_disk", l, meta', pool', disk', before)
  BY <1>1, <1>2, <1>3 DEF DeleteInv
<1>7. CallInv("del_new_disk", l, meta', pool', disk', before)
  BY <1>4, <1>6 DEF CallInv, WritePoints, Walking, DeletePoints, FlushPoints
<1> QED
  BY <1>1, <1>5, <1>7, StepInside DEF Kept

\* Both mark the file deleted.
LEMMA DelMarkKeeps ==
  ASSUME OneCaller, SerialInv, DirtyInv', NEW t \in Threads, DelInsert(t) \/ DelMark(t)
  PROVE  Kept
<1> DEFINE l == loc[t]
           f == l.f
<1>1. PICK from \in {"del_insert", "del_mark"} :
        /\ Step(t, from) /\ Continue(t, "del_blocks", l)
        /\ from = "del_insert" <=> DelInsert(t)
        /\ from = "del_mark" => DelMark(t)
  <2>1. Step(t, "del_insert") => ~DelMark(t)
    BY DEF DelMark, Step
  <2> QED
    BY <2>1 DEF DelInsert, DelMark
<1>2. /\ DeleteInv(from, l, meta, pool, disk, before) /\ f \in Files
      /\ ShapesInv(meta, pool) /\ LocalsAreSound(from, l, calls) /\ MetaInv
      /\ \A g \in Files \ {f} : Untouched(g, meta, pool, disk, before)
  BY <1>1, DeleteFacts DEF DeletePoints
<1>3. pool' = pool /\ disk' = disk
  BY <1>1 DEF DelInsert, DelMark
<1>4. InManifest(f)
  BY <1>2 DEF LocalsAreSound
<1>5. PICK e : /\ EntryShape(f, e) /\ e.state = "Deleted"
               /\ meta' = Put(meta, f, e) \/ (f \in DOMAIN meta /\ meta' = [meta EXCEPT ![f] = e])
  <2>1. CASE from = "del_insert"
    <3> DEFINE e == MarkDeleted(FromCow(f))
    <3>1. e.state = "Deleted" /\ EntryShape(f, e)
      BY <1>4 DEF MarkDeleted, FromCow, EntryShape
    <3>2. meta' = Put(meta, f, e)
      BY <1>1, <2>1 DEF DelInsert
    <3> HIDE DEF e
    <3> QED
      BY <3>1, <3>2
  <2>2. CASE from = "del_mark"
    <3> DEFINE e == MarkDeleted(meta[f])
    <3>1. f \in DOMAIN meta /\ meta[f] \in Metadata
      BY <1>2, <2>2 DEF DeleteInv, MetaInv, EntryIsSound
    <3>2. e.state = "Deleted"
      BY <3>1 DEF MarkDeleted, Metadata
    <3>3. EntryShape(f, e)
      BY <1>4, <3>2 DEF EntryShape
    <3>4. meta' = [meta EXCEPT ![f] = e]
      BY <1>1, <2>2, <3>1 DEF DelMark, UpdateMeta
    <3> HIDE DEF e
    <3> QED
      BY <3>1, <3>2, <3>3, <3>4
  <2> QED
    BY <2>1, <2>2
<1> HIDE DEF l
<1>6. f \in DOMAIN meta' /\ meta'[f].state = "Deleted"
  BY <1>5, PutFacts
<1>7. \A g \in Files \ {f} : Untouched(g, meta', pool', disk', before)
  <2>1. Aside(f, meta, meta', pool, pool', disk, disk')
    <3>1. CASE meta' = Put(meta, f, e)
      BY <1>3, <3>1, AsideFacts
    <3>2. CASE meta' = [meta EXCEPT ![f] = e]
      BY <1>3, <3>2, AsideFacts
    <3> QED
      BY <1>5, <3>1, <3>2
  <2> QED
    BY <1>2, <2>1, OthersUntouched
<1>8. ShapesInv(meta', pool')
  <2>1. CASE meta' = Put(meta, f, e)
    BY <1>2, <1>3, <1>5, <2>1, ShapesStay
  <2>2. CASE meta' = [meta EXCEPT ![f] = e]
    BY <1>2, <1>3, <1>5, <2>2, ShapesStay
  <2> QED
    BY <1>5, <2>1, <2>2
<1>9. DeleteInv("del_blocks", l, meta', pool', disk', before)
  BY <1>2, <1>3, <1>6 DEF DeleteInv
<1>10. CallInv("del_blocks", l, meta', pool', disk', before)
  BY <1>7, <1>9 DEF CallInv, WritePoints, Walking, DeletePoints, FlushPoints
<1> QED
  BY <1>1, <1>8, <1>10, StepInside DEF Kept

-----------------------------------------------------------------------------
(* Truncation *)

\* What the invariant says of a truncate under way.
LEMMA TruncFacts ==
  ASSUME OneCaller, SerialInv, NEW t \in Threads,
         NEW from \in {"trunc_plan", "trunc_chunk", "trunc_size"}, Step(t, from)
  PROVE  LET l == loc[t]
             b == before.content[l.f]
         IN  /\ TruncInv(from, l, meta, pool, b) /\ Copy(disk, l.f) = before.durable[l.f]
             /\ l \in Locals /\ l.f \in Files /\ l.len \in 0 .. MaxSize /\ l.op = "truncate"
             /\ l.f \in DOMAIN meta /\ Len(b) \in Nat
             /\ ShapesInv(meta, pool) /\ LocalsAreSound(from, l, calls) /\ MetaInv /\ PoolInv
             /\ \A g \in Files \ {l.f} : Untouched(g, meta, pool, disk, before)
             /\ \A c : PoolData(l.f, c) = DataIn(pool, l.f, c)
<1>1. from # "idle" /\ from # "clear_meta"
  OBVIOUS
<1> DEFINE l == loc[t]
           b == before.content[l.f]
<1>2. /\ CallInv(from, l, meta, pool, disk, before) /\ ShapesInv(meta, pool) /\ l \in Locals
      /\ LocalsAreSound(from, l, calls) /\ MetaInv /\ PoolInv
  BY <1>1, StepStarts
<1> HIDE DEF l
<1>3. /\ TruncInv(from, l, meta, pool, before.content[l.f]) /\ Copy(disk, l.f) = before.durable[l.f]
      /\ \A g \in Files \ {l.f} : Untouched(g, meta, pool, disk, before)
  BY <1>1, <1>2 DEF CallInv
<1>4. l.f \in Files /\ l.len \in 0 .. MaxSize /\ l.op = "truncate"
  BY <1>2, DirtyAssumption DEF LocalsAreSound, Locals
<1>5. l.f \in DOMAIN meta /\ ~InManifest(l.f) /\ before.content[l.f] \in Seq(Nat)
  BY <1>3 DEF TruncInv, Open
<1>6. \A c : PoolData(l.f, c) = DataIn(pool, l.f, c)
  BY <1>5 DEF PoolData, DataIn, InPool, Fetched, HasOriginal
<1>7. Len(before.content[l.f]) \in Nat
  BY <1>5
<1> QED
  BY <1>2, <1>3, <1>4, <1>5, <1>6, <1>7 DEF l

\* The first n bytes of a file.
LEMMA PrefixFacts ==
  ASSUME NEW b \in Seq(Nat), NEW n \in 0 .. MaxSize, n <= Len(b), NEW s, s = SubSeq(b, 1, n)
  PROVE  s \in Seq(Nat) /\ Len(s) = n /\ \A i \in 1 .. n : s[i] = b[i]
<1>1. n \in Nat
  BY DirtyAssumption
<1> QED
  BY <1>1, ResizedIsPart

\* A truncation finds out whether it has to cut a chunk.
LEMMA TruncPlanKeeps ==
  ASSUME OneCaller, SerialInv, DirtyInv', NEW t \in Threads, TruncPlan(t)
  PROVE  Kept
<1> DEFINE l == loc[t]
           f == l.f
           n == l.len
           b == before.content[f]
           c == ChunksOf(n) - 1
           keep == n - c * ChunkSize
           data == PoolData(f, c)
           cut == SubSeq(data, 1, keep)
           r == [l EXCEPT !.c = c, !.data = cut]
<1>1. /\ Step(t, "trunc_plan") /\ meta' = meta /\ pool' = pool /\ disk' = disk
      /\ \/ n > 0 /\ keep < Len(data) /\ Continue(t, "trunc_chunk", r)
         \/ Continue(t, "trunc_size", l)
  BY DEF TruncPlan, shared
<1>2. /\ TruncInv("trunc_plan", l, meta, pool, b) /\ Copy(disk, f) = before.durable[f]
      /\ l \in Locals /\ f \in Files /\ n \in 0 .. MaxSize /\ f \in DOMAIN meta
      /\ ShapesInv(meta, pool) /\ PoolInv /\ Len(b) \in Nat
      /\ \A g \in Files \ {f} : Untouched(g, meta, pool, disk, before)
      /\ data = DataIn(pool, f, c)
  BY <1>1, TruncFacts
<1> HIDE DEF l, f
<1>3. /\ ~InManifest(f) /\ Open(f, meta) /\ Pinned(f, meta, pool) /\ b \in Seq(Nat)
      /\ n <= Len(b) /\ Shows(f, b, meta, pool)
  BY <1>2 DEF TruncInv, f
<1>4. Holds(pool, f, b)
  BY <1>3 DEF Shows, Open
<1>5. CASE n > 0 /\ keep < Len(data) /\ Continue(t, "trunc_chunk", r)
  <2> DEFINE C == c * ChunkSize
  <2>1. /\ c \in Chunks /\ c \in Nat /\ C <= n /\ n - C <= ChunkSize
        /\ ChunkSize \in Nat /\ n \in Nat
    <3>1. c \in Chunks /\ C <= n /\ n - C <= ChunkSize /\ Chunks \subseteq Nat
      BY <1>2, LastChunk
    <3>2. ChunkSize \in Nat /\ n \in Nat
      BY <1>2, DirtyAssumption
    <3> QED
      BY <3>1, <3>2
  <2>2. C \in Nat
    BY <2>1, Times
  <2>3. keep = n - C
    OBVIOUS
  <2> HIDE DEF C, keep
  <2>4. keep \in Nat /\ keep <= ChunkSize /\ C + keep = n
    BY <2>1, <2>2, <2>3
  <2>5. ASSUME NEW j \in 1 .. keep PROVE data[j] = b[C + j]
    <3>1. j \in 1 .. ChunkSize /\ C + j <= Len(b)
      BY <1>2, <1>3, <2>1, <2>2, <2>4
    <3> QED
      BY <1>2, <1>4, <2>1, <3>1 DEF Holds, C
  <2>6. data \in Seq(Nat) /\ Len(data) \in Nat
    BY <1>2, <2>1, PoolIsTyped, DataIsTyped
  <2> HIDE DEF data
  <2>7. cut \in Seq(Nat) /\ Len(cut) = keep /\ \A j \in 1 .. keep : cut[j] = data[j]
    <3>1. /\ cut \in Seq(Nat) /\ Len(cut) = IF 1 <= keep THEN keep - 1 + 1 ELSE 0
          /\ \A j \in 1 .. Len(cut) : cut[j] = data[1 + j - 1]
      BY <1>5, <2>4, <2>6, PartOfSequence, SMTT(30)
    <3>2. Len(cut) = keep
      BY <2>4, <3>1
    <3>3. \A j \in 1 .. keep : 1 + j - 1 = j
      BY <2>4
    <3> QED
      BY <3>1, <3>2, <3>3
  <2> HIDE DEF cut
  <2>8. r.f = f /\ r.c = c /\ r.data = cut /\ r.len = n
    BY <1>2 DEF Locals, f
  <2> HIDE DEF r, c
  <2>9. r.c * ChunkSize = C
    BY <2>8 DEF C
  <2>10. TruncInv("trunc_chunk", r, meta, pool, b)
    BY <1>3, <2>4, <2>5, <2>7, <2>8, <2>9 DEF TruncInv
  <2>11. CallInv("trunc_chunk", r, meta, pool, disk, before)
    BY <1>2, <2>8, <2>10 DEF CallInv, WritePoints, Walking, DeletePoints, FlushPoints, b
  <2> QED
    BY <1>1, <1>2, <1>5, <2>11, StepInside DEF Kept
<1>6. CASE Continue(t, "trunc_size", l)
  <2> DEFINE s == SubSeq(b, 1, n)
  <2>1. s \in Seq(Nat) /\ Len(s) = n /\ \A i \in 1 .. n : s[i] = b[i]
    BY <1>2, <1>3, PrefixFacts
  <2> HIDE DEF s, b
  <2>2. Holds(pool, f, s)
    BY <1>2, <1>3, <1>4, <2>1, PrefixHolds
  <2>3. TruncInv("trunc_size", l, meta, pool, b)
    BY <1>3, <2>2 DEF TruncInv, s, f
  <2>4. CallInv("trunc_size", l, meta, pool, disk, before)
    BY <1>2, <2>3 DEF CallInv, WritePoints, Walking, DeletePoints, FlushPoints, b, f
  <2> QED
    BY <1>1, <1>2, <1>6, <2>4, StepInside DEF Kept
<1> QED
  BY <1>1, <1>5, <1>6

\* A truncation puts the chunk it has cut back in the pool.
LEMMA TruncChunkKeeps ==
  ASSUME OneCaller, SerialInv, DirtyInv', NEW t \in Threads, TruncChunk(t)
  PROVE  Kept
<1> DEFINE l == loc[t]
           f == l.f
           b == before.content[f]
           s == SubSeq(b, 1, l.len)
           k == <<f, l.c>>
           new == [data |-> l.data, needs_flush |-> TRUE]
           none == << >>
           r == [l EXCEPT !.data = none]
<1>1. /\ Step(t, "trunc_chunk") /\ pool' = Put(pool, k, new) /\ Continue(t, "trunc_size", r)
      /\ meta' = meta /\ disk' = disk
  BY DEF TruncChunk, InsertDirty
<1>2. /\ TruncInv("trunc_chunk", l, meta, pool, b) /\ Copy(disk, f) = before.durable[f]
      /\ l \in Locals /\ f \in Files /\ l.len \in 0 .. MaxSize /\ f \in DOMAIN meta
      /\ ShapesInv(meta, pool) /\ LocalsAreSound("trunc_chunk", l, calls) /\ Len(b) \in Nat
      /\ \A g \in Files \ {f} : Untouched(g, meta, pool, disk, before)
  BY <1>1, TruncFacts
<1> HIDE DEF l, f, b, none
<1>3. /\ ~InManifest(f) /\ Open(f, meta) /\ Pinned(f, meta, pool) /\ b \in Seq(Nat)
      /\ l.len <= Len(b) /\ Shows(f, b, meta, pool)
      /\ l.c * ChunkSize + Len(l.data) = l.len
      /\ \A j \in 1 .. Len(l.data) : l.data[j] = b[l.c * ChunkSize + j]
  BY <1>2 DEF TruncInv, f
<1>4. Holds(pool, f, b)
  BY <1>3 DEF Shows, Open
<1>5. l.c \in Chunks /\ Chunks \subseteq Nat /\ l.data \in Seq(Nat)
  BY <1>2, LastChunk DEF LocalsAreSound, ChunkIsSound
<1>6. s \in Seq(Nat) /\ Len(s) = l.len /\ \A i \in 1 .. l.len : s[i] = b[i]
  BY <1>2, <1>3, PrefixFacts
<1>7. new.data = l.data /\ new.needs_flush = TRUE
  OBVIOUS
<1>8. /\ \A x : x \in DOMAIN pool' <=> x \in DOMAIN pool \/ x = k
      /\ pool'[k] = new /\ \A x \in DOMAIN pool : x # k => pool'[x] = pool[x]
  BY <1>1, PutFacts
<1> HIDE DEF s, new
<1>9. /\ DataIn(pool', f, l.c) = l.data
      /\ \A c \in Chunks : c # l.c => DataIn(pool', f, c) = DataIn(pool, f, c)
  BY <1>7, <1>8 DEF DataIn
<1>10. Holds(pool', f, s)
  <2> SUFFICES ASSUME NEW c \in Chunks, NEW j \in 1 .. ChunkSize, c * ChunkSize + j <= Len(s)
               PROVE  /\ j <= Len(DataIn(pool', f, c))
                      /\ DataIn(pool', f, c)[j] = s[c * ChunkSize + j]
    BY DEF Holds
  <2> DEFINE C == c * ChunkSize
             len == l.len
  <2>1. C \in Nat /\ ChunkSize \in Nat /\ len \in Nat /\ len <= Len(b) /\ Len(b) \in Nat
    BY <1>2, <1>3, <1>5, Times, DirtyAssumption
  <2>2. C + j <= len
    BY <1>6
  <2> HIDE DEF C, len
  <2>3. C + j \in 1 .. len /\ C + j <= Len(b)
    BY <2>1, <2>2
  <2>4. s[C + j] = b[C + j]
    BY <1>6, <2>3 DEF len
  <2>5. CASE c # l.c
    <3>1. j <= Len(DataIn(pool, f, c)) /\ DataIn(pool, f, c)[j] = b[C + j]
      BY <1>4, <2>3 DEF Holds, C
    <3> QED
      BY <1>9, <2>4, <2>5, <3>1 DEF C
  <2>6. CASE c = l.c
    <3>1. C + Len(l.data) = len /\ Len(l.data) \in Nat
      BY <1>3, <1>5, <2>6 DEF C, len
    <3>2. j \in 1 .. Len(l.data)
      BY <2>1, <2>2, <3>1
    <3>3. l.data[j] = b[C + j]
      BY <1>3, <2>6, <3>2 DEF C
    <3> QED
      BY <1>9, <2>4, <2>6, <3>2, <3>3 DEF C
  <2> QED
    BY <2>5, <2>6
<1>11. Pinned(f, meta', pool')
  BY <1>1, <1>3, <1>7, <1>8 DEF Pinned
<1>12. \A g \in Files \ {f} : Untouched(g, meta', pool', disk', before)
  <2>1. Aside(f, meta, meta', pool, pool', disk, disk')
    BY <1>1, AsideFacts
  <2> QED
    BY <1>2, <2>1, OthersUntouched
<1>13. ShapesInv(meta', pool')
  <2>1. BlockShape(<<f, l.c>>, new)
    BY <1>3 DEF BlockShape
  <2> QED
    BY <1>1, <1>2, <2>1, ShapesStay
<1>14. r.f = f /\ r.len = l.len
  BY <1>2 DEF Locals, f
<1> HIDE DEF r
<1>15. TruncInv("trunc_size", r, meta', pool', b)
  BY <1>1, <1>3, <1>10, <1>11, <1>14 DEF TruncInv, s
<1>16. CallInv("trunc_size", r, meta', pool', disk', before)
  BY <1>1, <1>2, <1>12, <1>14, <1>15
  DEF CallInv, WritePoints, Walking, DeletePoints, FlushPoints, b
<1> QED
  BY <1>1, <1>13, <1>16, StepInside DEF Kept

\* A truncation sets the length, and goes on to flush the file.
LEMMA TruncSizeKeeps ==
  ASSUME OneCaller, SerialInv, DirtyInv', NEW t \in Threads, TruncSize(t)
  PROVE  Kept
<1> DEFINE l == loc[t]
           f == l.f
           b == before.content[f]
           s == SubSeq(b, 1, l.len)
           old == meta[f]
           new == SetSize(old, l.len)
<1>1. /\ Step(t, "trunc_size") /\ UpdateMeta(f, new) /\ Continue(t, "flush", l)
      /\ pool' = pool /\ disk' = disk
  BY DEF TruncSize
<1>2. /\ TruncInv("trunc_size", l, meta, pool, b) /\ Copy(disk, f) = before.durable[f]
      /\ f \in Files /\ l.len \in 0 .. MaxSize /\ f \in DOMAIN meta /\ l.op = "truncate"
      /\ ShapesInv(meta, pool) /\ Len(b) \in Nat /\ MetaInv
      /\ \A g \in Files \ {f} : Untouched(g, meta, pool, disk, before)
  BY <1>1, TruncFacts
<1> HIDE DEF l, f, b
<1>3. /\ ~InManifest(f) /\ Open(f, meta) /\ Pinned(f, meta, pool) /\ b \in Seq(Nat)
      /\ l.len <= Len(b) /\ Holds(pool, f, s)
  BY <1>2 DEF TruncInv, f
<1>4. old \in Metadata /\ EntryShape(f, old) /\ old.state # "Deleted"
  BY <1>2, <1>3 DEF MetaInv, EntryIsSound, ShapesInv, Open
<1>5. meta' = [meta EXCEPT ![f] = new]
  BY <1>1, <1>2 DEF UpdateMeta
<1> HIDE DEF old
<1>6. /\ new.size = l.len /\ new.chunk_count = ChunksOf(new.size)
      /\ new.state = old.state /\ new.dirty = old.dirty
  BY <1>4 DEF SetSize, Metadata
<1> HIDE DEF new
<1>7. f \in DOMAIN meta' /\ meta'[f] = new
  BY <1>2, <1>5
<1>8. ShapesInv(meta', pool')
  <2>1. EntryShape(f, new)
    BY <1>4, <1>6 DEF EntryShape
  <2> QED
    BY <1>1, <1>2, <1>5, <2>1, ShapesStay
<1>9. s \in Seq(Nat) /\ Len(s) = l.len
  BY <1>2, <1>3, PrefixFacts
<1> HIDE DEF s
<1>10. Open(f, meta') /\ Shows(f, s, meta', pool') /\ Pinned(f, meta', pool')
  BY <1>1, <1>3, <1>4, <1>6, <1>7, <1>9 DEF Open, Shows, Pinned, old
<1>11. \A g \in Files \ {f} : Untouched(g, meta', pool', disk', before)
  <2>1. Aside(f, meta, meta', pool, pool', disk, disk')
    BY <1>1, <1>5, AsideFacts
  <2> QED
    BY <1>2, <2>1, OthersUntouched
<1>12. FlushInv("flush", l, meta', pool', disk', before)
  <2>1. Cut(b, l) = s
    BY <1>2 DEF Cut, s
  <2> QED
    BY <1>1, <1>2, <1>3, <1>10, <2>1 DEF FlushInv, f, b
<1>13. CallInv("flush", l, meta', pool', disk', before)
  BY <1>11, <1>12 DEF CallInv, WritePoints, Walking, DeletePoints, FlushPoints, f
<1> QED
  BY <1>1, <1>8, <1>13, StepInside DEF Kept

-----------------------------------------------------------------------------
(* Flushing *)

\* What the invariant says of a flush under way.
LEMMA FlushFacts ==
  ASSUME OneCaller, SerialInv, NEW t \in Threads, NEW from \in FlushPoints, Step(t, from)
  PROVE  LET l == loc[t]
             v == Cut(before.content[l.f], l)
         IN  /\ FlushInv(from, l, meta, pool, disk, before) /\ l \in Locals /\ l.f \in Files
             /\ v \in Seq(Nat) /\ Len(v) = meta[l.f].size /\ Len(v) \in 0 .. MaxSize
             /\ Holds(pool, l.f, v) /\ l.f \in DOMAIN meta
             /\ ShapesInv(meta, pool) /\ MetaInv /\ PoolInv
             /\ \A g \in Files \ {l.f} : Untouched(g, meta, pool, disk, before)
             /\ \A c : PoolData(l.f, c) = DataIn(pool, l.f, c)
<1>1. from # "idle" /\ from # "clear_meta"
  BY DEF FlushPoints
<1> DEFINE l == loc[t]
           v == Cut(before.content[l.f], l)
<1>2. /\ CallInv(from, l, meta, pool, disk, before) /\ ShapesInv(meta, pool) /\ l \in Locals
      /\ LocalsAreSound(from, l, calls) /\ MetaInv /\ PoolInv
  BY <1>1, StepStarts
<1> HIDE DEF l
<1>3. /\ FlushInv(from, l, meta, pool, disk, before)
      /\ \A g \in Files \ {l.f} : Untouched(g, meta, pool, disk, before)
  BY <1>1, <1>2 DEF CallInv
<1>4. l.f \in Files
  BY <1>1, <1>2 DEF LocalsAreSound
<1>5. Open(l.f, meta) /\ ~InManifest(l.f) /\ Shows(l.f, v, meta, pool)
  BY <1>3 DEF FlushInv
<1>6. \A c : PoolData(l.f, c) = DataIn(pool, l.f, c)
  BY <1>5 DEF PoolData, DataIn, InPool, Fetched, HasOriginal
<1> HIDE DEF v
<1>7. v \in Seq(Nat) /\ Len(v) = meta[l.f].size /\ Holds(pool, l.f, v) /\ l.f \in DOMAIN meta
  BY <1>5 DEF Shows, Open
<1>8. Len(v) \in 0 .. MaxSize
  BY <1>2, <1>7, DirtyAssumption DEF MetaInv, EntryIsSound
<1> QED
  BY <1>2, <1>3, <1>4, <1>6, <1>7, <1>8 DEF l, v

\* A flush takes the length and the dirty chunks of the file.
LEMMA FlushSnapshotKeeps ==
  ASSUME OneCaller, SerialInv, DirtyInv', NEW t \in Threads, FlushSnapshot(t)
  PROVE  Kept
<1> DEFINE l == loc[t]
           f == l.f
           m == meta[f]
           b == before.content[f]
           none == << >>
           r == [l EXCEPT !.size = m.size, !.last = m.chunk_count - 1, !.dirty = m.dirty,
                          !.c = 0, !.buf = none]
<1>1. /\ Step(t, "flush") /\ f \in DOMAIN meta
      /\ meta' = meta /\ pool' = pool /\ disk' = disk
      /\ IF m.state = "Deleted" THEN Continue(t, "disk_delete", l) ELSE Continue(t, "assemble", r)
  BY DEF FlushSnapshot, shared
<1>2. /\ CallInv("flush", l, meta, pool, disk, before) /\ ShapesInv(meta, pool) /\ l \in Locals
      /\ LocalsAreSound("flush", l, calls) /\ MetaInv
  BY <1>1, StepStarts
<1> HIDE DEF l
<1>3. /\ \A g \in Files \ {f} : Untouched(g, meta, pool, disk, before)
      /\ \/ DeleteInv("flush", l, meta, pool, disk, before)
         \/ FlushInv("flush", l, meta, pool, disk, before)
  BY <1>2 DEF CallInv
<1>4. CASE m.state = "Deleted"
  <2>1. DeleteInv("flush", l, meta, pool, disk, before)
    BY <1>3, <1>4 DEF FlushInv, Open
  <2>2. DeleteInv("disk_delete", l, meta, pool, disk, before)
    BY <2>1 DEF DeleteInv
  <2>3. CallInv("disk_delete", l, meta, pool, disk, before)
    BY <1>3, <2>2 DEF CallInv, WritePoints, Walking, DeletePoints, FlushPoints
  <2> QED
    BY <1>1, <1>2, <1>4, <2>3, StepInside DEF Kept
<1>5. CASE m.state # "Deleted"
  <2>1. FlushInv("flush", l, meta, pool, disk, before)
    BY <1>3, <1>5 DEF DeleteInv
  <2> DEFINE v == Cut(b, l)
  <2>2. /\ ~InManifest(f) /\ l.op \in {"flush", "truncate"} /\ Open(f, meta)
        /\ Shows(f, v, meta, pool) /\ b \in Seq(Nat) /\ (l.op = "truncate" => l.len <= Len(b))
        /\ Pinned(f, meta, pool) /\ Copy(disk, f) = before.durable[f]
    BY <2>1 DEF FlushInv
  <2>3. v \in Seq(Nat) /\ Len(v) = m.size
    BY <2>2 DEF Shows, Open
  <2>4. m \in Metadata /\ m.size \in 0 .. MaxSize /\ m.chunk_count = ChunksOf(m.size)
    BY <1>1, <1>2, <1>5, DirtyAssumption DEF MetaInv, EntryIsSound, ShapesInv, EntryShape, Metadata
  <2>5. ChunksOf(m.size) - 1 \in Nat /\ 0 \in 0 .. ChunksOf(m.size) - 1 /\ 0 * ChunkSize = 0
    <3>1. ChunksOf(m.size) \in 1 .. ChunksOf(MaxSize) /\ ChunksOf(MaxSize) \in Nat
      BY <2>4, LastChunk
    <3> QED
      BY <3>1, DirtyAssumption
  <2>6. /\ r.f = f /\ r.op = l.op /\ r.len = l.len /\ r.size = m.size
        /\ r.last = m.chunk_count - 1 /\ r.dirty = m.dirty /\ r.c = 0 /\ r.buf = none
    BY <1>2 DEF Locals
  <2>7. Cut(b, r) = v
    BY <2>6 DEF Cut
  <2> HIDE DEF v, r, b
  <2>8. Len(r.buf) = 0 /\ \A i \in 1 .. Len(r.buf) : FALSE
    BY <2>6
  <2>9. FlushInv("assemble", r, meta, pool, disk, before)
    <3> DEFINE x == before.content[r.f]
    <3>1. x = b /\ Cut(x, r) = v
      BY <2>6, <2>7 DEF b
    <3>2. r.c \in 0 .. r.last /\ r.last = ChunksOf(Len(v)) - 1 /\ Len(r.buf) = r.c * ChunkSize
      BY <2>3, <2>4, <2>5, <2>6, <2>8
    <3>3. /\ ~InManifest(r.f) /\ r.op \in {"flush", "truncate"} /\ Open(r.f, meta)
          /\ Shows(r.f, v, meta, pool) /\ b \in Seq(Nat) /\ (r.op = "truncate" => r.len <= Len(b))
          /\ Pinned(r.f, meta, pool) /\ Copy(disk, r.f) = before.durable[r.f]
          /\ r.size = Len(v) /\ r.dirty = meta[r.f].dirty
      BY <2>2, <2>3, <2>6 DEF b
    <3> HIDE DEF x
    <3> QED
      BY <2>8, <3>1, <3>2, <3>3 DEF FlushInv, x
  <2>10. CallInv("assemble", r, meta, pool, disk, before)
    BY <1>3, <2>6, <2>9 DEF CallInv, WritePoints, Walking, DeletePoints, FlushPoints
  <2> QED
    BY <1>1, <1>2, <1>5, <2>10, StepInside DEF Kept
<1> QED
  BY <1>4, <1>5

\* The first n bytes of s are those of v after the first k.
Matches(s, v, k, n) == \A j \in 1 .. n : s[j] = v[k + j]

\* A sequence is put together of two.
Joined(q, s, r) == q = s \o r

\* What a joined sequence is made of.
LEMMA JoinFacts ==
  ASSUME NEW s \in Seq(Nat), NEW r \in Seq(Nat), NEW q, q = s \o r
  PROVE  /\ q \in Seq(Nat) /\ Len(q) = Len(s) + Len(r) /\ Len(s) \in Nat /\ Len(r) \in Nat
         /\ \A i \in 1 .. Len(s) + Len(r) : q[i] = IF i <= Len(s) THEN s[i] ELSE r[i - Len(s)]
OBVIOUS

\* What is assembled so far, and the data of the next chunk.
LEMMA NextIsPart ==
  ASSUME NEW v \in Seq(Nat), NEW buf \in Seq(Nat), NEW data \in Seq(Nat), NEW C \in Nat,
         Len(buf) = C, Matches(buf, v, 0, C),
         NEW n \in Nat, n <= Len(data), Matches(data, v, C, n), NEW q, Joined(q, buf, data)
  PROVE  /\ q \in Seq(Nat) /\ Len(q) = C + Len(data) /\ Len(q) \in Nat
         /\ Matches(q, v, 0, C + n)
<1>1. /\ q \in Seq(Nat) /\ Len(q) = C + Len(data) /\ Len(data) \in Nat
      /\ \A i \in 1 .. C + Len(data) : q[i] = IF i <= C THEN buf[i] ELSE data[i - C]
  BY JoinFacts DEF Joined
<1>2. ASSUME NEW i \in 1 .. C + n PROVE q[i] = v[0 + i]
  <2>1. i \in 1 .. C + Len(data)
    BY <1>1
  <2>2. CASE i <= C
    <3>1. i \in 1 .. C
      BY <2>1, <2>2
    <3>2. buf[i] = v[0 + i]
      BY <3>1 DEF Matches
    <3> QED
      BY <1>1, <2>1, <2>2, <3>2
  <2>3. CASE ~(i <= C)
    <3>1. i - C \in 1 .. n /\ C + (i - C) = 0 + i
      BY <2>3
    <3>2. data[i - C] = v[0 + i]
      BY <3>1 DEF Matches
    <3> QED
      BY <1>1, <2>1, <2>3, <3>2
  <2> QED
    BY <2>2, <2>3
<1>3. Matches(q, v, 0, C + n)
  BY <1>2 DEF Matches
<1> QED
  BY <1>1, <1>3

\* A flush adds a chunk to what it will write.
LEMMA AssembleKeeps ==
  ASSUME OneCaller, SerialInv, DirtyInv', NEW t \in Threads, Assemble(t)
  PROVE  Kept
<1> DEFINE l == loc[t]
           f == l.f
           b == before.content[f]
           v == Cut(b, l)
           data == PoolData(f, l.c)
           got == l.buf \o data
           next == [l EXCEPT !.buf = got, !.c = @ + 1]
           file == SubSeq(got, 1, Smaller(Len(got), l.size))
           r == [next EXCEPT !.buf = file]
           C == l.c * ChunkSize
<1>1. /\ Step(t, "assemble") /\ meta' = meta /\ pool' = pool /\ disk' = disk
      /\ IF l.c < l.last THEN Continue(t, "assemble", next)
         ELSE Continue(t, "disk_write", [next EXCEPT !.buf = SubSeq(@, 1, Smaller(Len(@), l.size))])
  BY DEF Assemble, shared
<1>2. /\ FlushInv("assemble", l, meta, pool, disk, before) /\ l \in Locals /\ f \in Files
      /\ v \in Seq(Nat) /\ Len(v) \in 0 .. MaxSize /\ Holds(pool, f, v)
      /\ ShapesInv(meta, pool) /\ PoolInv /\ data = DataIn(pool, f, l.c)
      /\ \A g \in Files \ {f} : Untouched(g, meta, pool, disk, before)
  BY <1>1, FlushFacts DEF FlushPoints
<1> HIDE DEF l
<1>3. /\ ~InManifest(f) /\ l.op \in {"flush", "truncate"} /\ Open(f, meta)
      /\ Shows(f, v, meta, pool) /\ b \in Seq(Nat) /\ (l.op = "truncate" => l.len <= Len(b))
      /\ Pinned(f, meta, pool) /\ Copy(disk, f) = before.durable[f]
      /\ l.size = Len(v) /\ l.last = ChunksOf(Len(v)) - 1 /\ l.c \in 0 .. l.last
      /\ l.dirty = meta[f].dirty /\ Len(l.buf) = C /\ \A i \in 1 .. Len(l.buf) : l.buf[i] = v[i]
  BY <1>2 DEF FlushInv
<1> HIDE DEF v, b, f
<1>4. /\ l.last \in Chunks /\ l.last * ChunkSize <= Len(v) /\ Len(v) - l.last * ChunkSize <= ChunkSize
      /\ l.last \in Nat /\ ChunkSize \in Nat /\ Len(v) \in Nat
  <2>1. /\ l.last \in Chunks /\ l.last * ChunkSize <= Len(v) /\ Chunks \subseteq Nat
        /\ Len(v) - l.last * ChunkSize <= ChunkSize
    BY <1>2, <1>3, LastChunk
  <2>2. ChunkSize \in Nat /\ Len(v) \in Nat
    BY <1>2, DirtyAssumption
  <2> QED
    BY <2>1, <2>2
<1>5. l.c \in Nat /\ l.c <= l.last /\ l.c \in Chunks /\ l.buf \in Seq(Nat)
  BY <1>2, <1>3, <1>4, ChunkBelow DEF Locals
<1>6. C \in Nat /\ l.last * ChunkSize \in Nat
  BY <1>4, <1>5, Times
<1>7. data \in Seq(Nat) /\ Len(data) \in Nat /\ Len(data) <= ChunkSize
  BY <1>2, <1>5, PoolIsTyped, DataIsTyped
<1>8. ASSUME NEW j \in 1 .. ChunkSize, C + j <= Len(v)
      PROVE  j <= Len(data) /\ data[j] = v[C + j]
  BY <1>2, <1>5, <1>8 DEF Holds
<1> HIDE DEF data
<1>9. PICK buf : buf = l.buf
  OBVIOUS
<1>10. buf \in Seq(Nat) /\ Joined(got, buf, data) /\ Len(buf) = C /\ Matches(buf, v, 0, C)
  <2>1. \A i \in 1 .. C : buf[i] = v[i] /\ 0 + i = i
    BY <1>3, <1>6, <1>9
  <2> QED
    BY <1>3, <1>5, <1>9, <2>1 DEF Matches, Joined
<1> HIDE DEF got
<1>11. CASE l.c < l.last
  <2>1. C + ChunkSize <= l.last * ChunkSize /\ (l.c + 1) * ChunkSize = C + ChunkSize
    BY <1>4, <1>5, <1>11, ChunksInOrder, Times
  <2>2. l.c + 1 \in 0 .. l.last /\ l.c + 1 \in Nat
    BY <1>4, <1>5, <1>11
  <2> HIDE DEF C
  <2>3. C + ChunkSize <= Len(v)
    BY <1>4, <1>6, <2>1
  <2>4. ChunkSize > 0
    BY DirtyAssumption
  <2>5. Len(data) = ChunkSize /\ \A j \in 1 .. ChunkSize : data[j] = v[C + j]
    <3>1. ChunkSize \in 1 .. ChunkSize
      BY <1>4, <2>4
    <3>2. ChunkSize <= Len(data)
      BY <1>8, <2>3, <3>1
    <3>3. \A j \in 1 .. ChunkSize : C + j <= Len(v)
      BY <1>4, <1>6, <2>3
    <3> QED
      BY <1>4, <1>7, <1>8, <3>2, <3>3
  <2>6. /\ got \in Seq(Nat) /\ Len(got) = C + ChunkSize
        /\ \A i \in 1 .. C + ChunkSize : got[i] = v[i]
    <3>1. Matches(data, v, C, ChunkSize) /\ ChunkSize <= Len(data)
      BY <1>4, <2>5 DEF Matches
    <3>2. got \in Seq(Nat) /\ Len(got) = C + Len(data) /\ Matches(got, v, 0, C + ChunkSize)
      <4>1. v \in Seq(Nat) /\ C \in Nat /\ ChunkSize \in Nat
        BY <1>2, <1>4, <1>6
      <4> QED
        BY <1>7, <1>10, <3>1, <4>1, NextIsPart
    <3>3. \A i \in 1 .. C + ChunkSize : 0 + i = i
      BY <1>4, <1>6
    <3> QED
      BY <2>5, <3>2, <3>3 DEF Matches
  <2>7. /\ next.f = f /\ next.op = l.op /\ next.len = l.len /\ next.size = l.size
        /\ next.last = l.last /\ next.dirty = l.dirty /\ next.c = l.c + 1 /\ next.buf = got
    BY <1>2 DEF Locals, f
  <2>8. Cut(b, next) = v
    BY <2>7 DEF Cut, v
  <2> HIDE DEF next
  <2>9. FlushInv("assemble", next, meta, pool, disk, before)
    <3> DEFINE x == before.content[next.f]
    <3>1. x = b /\ Cut(x, next) = v
      BY <2>7, <2>8 DEF b
    <3>2. /\ next.c \in 0 .. next.last /\ next.last = ChunksOf(Len(v)) - 1
          /\ Len(next.buf) = next.c * ChunkSize /\ \A i \in 1 .. Len(next.buf) : next.buf[i] = v[i]
      BY <1>3, <2>1, <2>2, <2>6, <2>7
    <3>3. /\ ~InManifest(next.f) /\ next.op \in {"flush", "truncate"} /\ Open(next.f, meta)
          /\ Shows(next.f, v, meta, pool) /\ b \in Seq(Nat)
          /\ (next.op = "truncate" => next.len <= Len(b))
          /\ Pinned(next.f, meta, pool) /\ Copy(disk, next.f) = before.durable[next.f]
          /\ next.size = Len(v) /\ next.dirty = meta[next.f].dirty
      BY <1>3, <2>7
    <3> HIDE DEF x
    <3> QED
      BY <3>1, <3>2, <3>3 DEF FlushInv, x
  <2>10. CallInv("assemble", next, meta, pool, disk, before)
    BY <1>2, <2>7, <2>9 DEF CallInv, WritePoints, Walking, DeletePoints, FlushPoints
  <2> QED
    BY <1>1, <1>2, <1>11, <2>10, StepInside DEF Kept
<1>12. CASE ~(l.c < l.last)
  <2>1. C <= Len(v) /\ Len(v) - C <= ChunkSize
    <3>1. l.c = l.last
      BY <1>4, <1>5, <1>12
    <3> QED
      BY <1>4, <3>1
  <2> HIDE DEF C
  <2>2. PICK n \in Nat : n = Len(v) - C
    <3>1. Len(v) - C \in Nat
      BY <1>4, <1>6, <2>1
    <3> QED
      BY <3>1
  <2>3. n <= Len(data) /\ \A j \in 1 .. n : data[j] = v[C + j]
    <3>1. \A j \in 1 .. n : j \in 1 .. ChunkSize /\ C + j <= Len(v)
      BY <1>4, <1>6, <2>1, <2>2
    <3>2. n = 0 \/ n \in 1 .. n
      BY <2>2
    <3>3. n <= Len(data)
      BY <1>7, <1>8, <3>1, <3>2
    <3> QED
      BY <1>8, <3>1, <3>3
  <2>4. C + n = Len(v)
    BY <1>4, <1>6, <2>2
  <2>5. /\ got \in Seq(Nat) /\ Len(got) = C + Len(data) /\ Len(got) \in Nat
        /\ \A i \in 1 .. Len(v) : got[i] = v[i]
    <3>1. Matches(data, v, C, n)
      BY <2>3 DEF Matches
    <3>2. /\ got \in Seq(Nat) /\ Len(got) = C + Len(data) /\ Len(got) \in Nat
          /\ Matches(got, v, 0, C + n)
      <4>1. v \in Seq(Nat) /\ C \in Nat /\ n \in Nat /\ n <= Len(data)
        BY <1>2, <1>6, <2>3
      <4> QED
        BY <1>7, <1>10, <3>1, <4>1, NextIsPart
    <3>3. \A i \in 1 .. Len(v) : 0 + i = i
      BY <1>4
    <3> QED
      BY <2>4, <3>2, <3>3 DEF Matches
  <2>6. file = SubSeq(got, 1, Len(v)) /\ Len(v) <= Len(got)
    <3>1. Len(v) <= Len(got)
      <4>1. n <= Len(data) /\ Len(data) \in Nat /\ n \in Nat
        BY <1>7, <2>3
      <4>2. Len(got) = C + Len(data)
        BY <2>5
      <4>3. C \in Nat
        BY <1>6
      <4> QED
        BY <2>4, <4>1, <4>2, <4>3
    <3>2. l.size = Len(v) /\ Len(v) \in Nat
      BY <1>2, <1>3, <1>4
    <3>3. Smaller(Len(got), l.size) = Len(v)
      BY <2>5, <3>1, <3>2 DEF Smaller
    <3> QED
      BY <3>1, <3>3
  <2> HIDE DEF file
  <2>7. file = v
    <3>1. file \in Seq(Nat) /\ Len(file) = Len(v) /\ \A i \in 1 .. Len(v) : file[i] = got[i]
      BY <1>2, <2>5, <2>6, PrefixFacts
    <3> QED
      BY <1>2, <2>5, <3>1, SameSequence
  <2>8. /\ r.f = f /\ r.op = l.op /\ r.len = l.len /\ r.size = l.size /\ r.buf = file
    BY <1>2 DEF Locals, f
  <2>9. Continue(t, "disk_write", r)
    <3>1. next.buf = got
      BY <1>2 DEF Locals
    <3>2. [next EXCEPT !.buf = SubSeq(@, 1, Smaller(Len(@), l.size))] = r
      BY <3>1 DEF file
    <3> QED
      BY <1>1, <1>12, <3>2
  <2>10. Cut(b, r) = v
    BY <2>8 DEF Cut, v
  <2> HIDE DEF r
  <2>11. FlushInv("disk_write", r, meta, pool, disk, before)
    <3> DEFINE x == before.content[r.f]
    <3>1. x = b /\ Cut(x, r) = v
      BY <2>8, <2>10 DEF b
    <3>2. /\ ~InManifest(r.f) /\ r.op \in {"flush", "truncate"} /\ Open(r.f, meta)
          /\ Shows(r.f, v, meta, pool) /\ b \in Seq(Nat)
          /\ (r.op = "truncate" => r.len <= Len(b))
          /\ Pinned(r.f, meta, pool) /\ Copy(disk, r.f) = before.durable[r.f]
          /\ r.size = Len(v) /\ r.buf = v
      BY <1>3, <2>7, <2>8
    <3> HIDE DEF x
    <3> QED
      BY <3>1, <3>2 DEF FlushInv, x
  <2>12. CallInv("disk_write", r, meta, pool, disk, before)
    BY <1>2, <2>8, <2>11 DEF CallInv, WritePoints, Walking, DeletePoints, FlushPoints
  <2> QED
    BY <1>1, <1>2, <2>9, <2>12, StepInside DEF Kept
<1> QED
  BY <1>11, <1>12

\* A flush writes the file to the disk.
LEMMA DiskWriteKeeps ==
  ASSUME OneCaller, SerialInv, DirtyInv', NEW t \in Threads, DiskWrite(t)
  PROVE  Kept
<1> DEFINE l == loc[t]
           f == l.f
           b == before.content[f]
           v == Cut(b, l)
           none == << >>
           r == [l EXCEPT !.c = 0, !.buf = none]
<1>1. /\ Step(t, "disk_write") /\ Continue(t, "flush_mark", r) /\ meta' = meta /\ pool' = pool
      /\ disk' = IF l.buf # << >> \/ l.size = 0 THEN Put(disk, f, l.buf) ELSE disk
  BY DEF DiskWrite
<1>2. /\ FlushInv("disk_write", l, meta, pool, disk, before) /\ l \in Locals /\ f \in Files
      /\ v \in Seq(Nat) /\ ShapesInv(meta, pool)
      /\ \A g \in Files \ {f} : Untouched(g, meta, pool, disk, before)
  BY <1>1, FlushFacts DEF FlushPoints
<1> HIDE DEF l
<1>3. /\ ~InManifest(f) /\ l.op \in {"flush", "truncate"} /\ Open(f, meta)
      /\ Shows(f, v, meta, pool) /\ b \in Seq(Nat) /\ (l.op = "truncate" => l.len <= Len(b))
      /\ l.size = Len(v) /\ l.buf = v
  BY <1>2 DEF FlushInv
<1>4. r.f = f /\ r.op = l.op /\ r.len = l.len
  BY <1>2 DEF Locals
<1>5. Cut(b, r) = v
  BY <1>4 DEF Cut
<1> HIDE DEF v, b, f, r
<1>6. v = << >> => Len(v) = 0
  OBVIOUS
<1>7. disk' = Put(disk, f, v)
  BY <1>1, <1>3, <1>6
<1>8. Copy(disk', f) = v
  BY <1>7 DEF Put, Copy
<1>9. \A g \in Files \ {f} : Untouched(g, meta', pool', disk', before)
  <2>1. Aside(f, meta, meta', pool, pool', disk, disk')
    BY <1>1, <1>7, AsideFacts
  <2> QED
    BY <1>2, <2>1, OthersUntouched
<1>10. FlushInv("flush_mark", r, meta', pool', disk', before)
  <2> DEFINE x == before.content[r.f]
  <2>1. x = b /\ Cut(x, r) = v
    BY <1>4, <1>5 DEF b
  <2> HIDE DEF x
  <2> QED
    BY <1>1, <1>3, <1>4, <1>8, <2>1 DEF FlushInv, x
<1>11. CallInv("flush_mark", r, meta', pool', disk', before)
  BY <1>4, <1>9, <1>10 DEF CallInv, WritePoints, Walking, DeletePoints, FlushPoints
<1>12. ShapesInv(meta', pool')
  BY <1>1, <1>2
<1> QED
  BY <1>1, <1>11, <1>12, StepInside DEF Kept

\* A flush marks a chunk as flushed.
LEMMA FlushMarkKeeps ==
  ASSUME OneCaller, SerialInv, DirtyInv', NEW t \in Threads, FlushMark(t)
  PROVE  Kept
<1> DEFINE l == loc[t]
           f == l.f
           b == before.content[f]
           v == Cut(b, l)
           k == <<f, l.c>>
           next == [l EXCEPT !.c = @ + 1]
<1>1. /\ Step(t, "flush_mark") /\ MarkFlushed(f, l.c) /\ meta' = meta /\ disk' = disk
      /\ IF l.c < l.last THEN Continue(t, "flush_mark", next) ELSE Continue(t, "flush_done", l)
  BY DEF FlushMark
<1>2. /\ FlushInv("flush_mark", l, meta, pool, disk, before) /\ l \in Locals /\ f \in Files
      /\ ShapesInv(meta, pool) /\ PoolInv
      /\ \A g \in Files \ {f} : Untouched(g, meta, pool, disk, before)
  BY <1>1, FlushFacts DEF FlushPoints
<1> HIDE DEF l
<1>3. /\ ~InManifest(f) /\ l.op \in {"flush", "truncate"} /\ Open(f, meta)
      /\ Shows(f, v, meta, pool) /\ b \in Seq(Nat) /\ (l.op = "truncate" => l.len <= Len(b))
      /\ Copy(disk, f) = v
  BY <1>2 DEF FlushInv
<1>4. next.f = f /\ next.op = l.op /\ next.len = l.len
  BY <1>2 DEF Locals
<1>5. Cut(b, next) = v
  BY <1>4 DEF Cut
<1> HIDE DEF v, b, f, next
<1> DEFINE new == Flushed(pool[k])
<1>6. /\ k \in DOMAIN pool => pool' = [pool EXCEPT ![k] = new] /\ new.data = pool[k].data
      /\ k \notin DOMAIN pool => pool' = pool
  BY <1>1, <1>2 DEF MarkFlushed, InPool, Flushed, PoolInv
<1> HIDE DEF new
<1>7. \A c \in Chunks : DataIn(pool', f, c) = DataIn(pool, f, c)
  <2>1. CASE k \notin DOMAIN pool
    BY <1>6, <2>1
  <2>2. CASE k \in DOMAIN pool
    <3>1. /\ \A x : x \in DOMAIN pool' <=> x \in DOMAIN pool
          /\ pool'[k] = new /\ \A x \in DOMAIN pool : x # k => pool'[x] = pool[x]
      BY <1>6, <2>2
    <3> QED
      BY <1>6, <2>2, <3>1 DEF DataIn
  <2> QED
    BY <2>1, <2>2
<1>8. Shows(f, v, meta', pool')
  BY <1>1, <1>3, <1>7, SameData
<1>9. \A g \in Files \ {f} : Untouched(g, meta', pool', disk', before)
  <2>1. Aside(f, meta, meta', pool, pool', disk, disk')
    <3>1. CASE k \notin DOMAIN pool
      BY <1>1, <1>6, <3>1, AsideFacts
    <3>2. CASE k \in DOMAIN pool
      BY <1>1, <1>6, <3>2, AsideFacts
    <3> QED
      BY <3>1, <3>2
  <2> QED
    BY <1>2, <2>1, OthersUntouched
<1>10. ShapesInv(meta', pool')
  <2>1. BlockShape(<<f, l.c>>, new)
    BY <1>3 DEF BlockShape
  <2>2. f \in DOMAIN meta
    BY <1>3 DEF Open
  <2>3. CASE k \notin DOMAIN pool
    BY <1>1, <1>2, <1>6, <2>3
  <2>4. CASE k \in DOMAIN pool
    <3>1. pool' = [pool EXCEPT ![<<f, l.c>>] = new]
      BY <1>6, <2>4
    <3>2. ShapesInv(meta, [pool EXCEPT ![<<f, l.c>>] = new])
      BY <1>2, <2>1, <2>2, ShapesStay
    <3> QED
      BY <1>1, <3>1, <3>2
  <2> QED
    BY <2>3, <2>4
<1>11. ASSUME NEW r, r.f = f, r.op = l.op, r.len = l.len, Cut(b, r) = v,
              NEW to \in {"flush_mark", "flush_done"}
       PROVE  CallInv(to, r, meta', pool', disk', before)
  <2> DEFINE x == before.content[r.f]
  <2>1. x = b /\ Cut(x, r) = v
    BY <1>11 DEF b
  <2> HIDE DEF x
  <2>2. FlushInv(to, r, meta', pool', disk', before)
    BY <1>1, <1>3, <1>8, <1>11, <2>1 DEF FlushInv, x
  <2> QED
    BY <1>9, <1>11, <2>2 DEF CallInv, WritePoints, Walking, DeletePoints, FlushPoints
<1>12. CASE Continue(t, "flush_mark", next)
  <2>1. CallInv("flush_mark", next, meta', pool', disk', before)
    BY <1>4, <1>5, <1>11
  <2> QED
    BY <1>1, <1>10, <1>12, <2>1, StepInside DEF Kept
<1>13. CASE Continue(t, "flush_done", l)
  <2>1. CallInv("flush_done", l, meta', pool', disk', before)
    BY <1>11 DEF v, f
  <2> QED
    BY <1>1, <1>10, <1>13, <2>1, StepInside DEF Kept
<1> QED
  BY <1>1, <1>12, <1>13

\* The write cache fails: the file on disk stays as it was.
LEMMA DiskFailsKeeps ==
  ASSUME OneCaller, SerialInv, DirtyInv', NEW t \in Threads, DiskFails(t)
  PROVE  Kept
<1> DEFINE l == loc[t]
           f == l.f
           b == before.content[f]
           v == Cut(b, l)
<1>1. /\ Step(t, "disk_write") /\ Finish(t, Failed)
      /\ meta' = meta /\ pool' = pool /\ disk' = disk
  BY DEF DiskFails, Fail, shared
<1>2. /\ FlushInv("disk_write", l, meta, pool, disk, before) /\ l \in Locals /\ f \in Files
      /\ ShapesInv(meta, pool) /\ Len(v) \in 0 .. MaxSize
      /\ \A g \in Files \ {f} : Untouched(g, meta, pool, disk, before)
  BY <1>1, FlushFacts DEF FlushPoints
<1>3. Seen = before /\ IsFiles(before.content) /\ IsFiles(before.durable)
  BY <1>1, StepStarts
<1> HIDE DEF l
<1>4. /\ l.op \in {"flush", "truncate"} /\ Shows(f, v, meta, pool) /\ b \in Seq(Nat)
      /\ (l.op = "truncate" => l.len <= Len(b))
      /\ Pinned(f, meta, pool) /\ Copy(disk, f) = before.durable[f]
  BY <1>2 DEF FlushInv
<1> HIDE DEF v, f, b
<1>5. /\ SerialInv' /\ reply' = Failed
      /\ Seen'.content = [Seen.content EXCEPT ![f] = v]
      /\ Seen'.durable = [Seen.durable EXCEPT ![f] = before.durable[f]]
  <2>1. /\ ShapesInv(meta', pool') /\ Shows(f, v, meta', pool') /\ Pinned(f, meta', pool')
        /\ Copy(disk', f) = before.durable[f]
    BY <1>1, <1>2, <1>4
  <2>2. \A g \in Files \ {f} : Untouched(g, meta', pool', disk', before)
    BY <1>1, <1>2
  <2> QED
    BY <1>1, <1>2, <2>1, <2>2, CallEndsWith
<1>6. Seen'.durable = Seen.durable
  BY <1>2, <1>3, <1>5, ExceptSame
<1>7. Store!StoreNext
  <2>1. CASE l.op = "flush"
    <3>1. v = before.content[f]
      BY <2>1 DEF v, b, Cut
    <3>2. Seen'.content = Seen.content
      BY <1>2, <1>3, <1>5, <3>1, ExceptSame
    <3> QED
      BY <1>5, <1>6, <3>2, StoreFails
  <2>2. CASE l.op = "truncate"
    <3>1. PICK n : n = l.len
      OBVIOUS
    <3>2. n \in Nat /\ n <= Len(b) /\ v = SubSeq(b, 1, n)
      BY <1>2, <1>4, <2>2, <3>1 DEF v, Cut, Locals
    <3>3. v = Store!Resize(b, n) /\ Len(v) = n
      BY <1>4, <3>2, ResizedIsPart
    <3>4. v = Store!Resize(Seen.content[f], n) /\ Seen.content[f] # NoContent /\ n \in 0 .. MaxSize
      BY <1>2, <1>3, <1>4, <3>3, DirtyAssumption DEF b
    <3> QED
      BY <1>2, <1>5, <1>6, <3>4, StoreTruncates
  <2> QED
    BY <1>4, <2>1, <2>2
<1> QED
  BY <1>5, <1>7 DEF Kept

\* A flush clears the set of dirty chunks and ends.
LEMMA FlushDoneKeeps ==
  ASSUME OneCaller, SerialInv, DirtyInv', NEW t \in Threads, FlushDone(t)
  PROVE  Kept
<1> DEFINE l == loc[t]
           f == l.f
           b == before.content[f]
           v == Cut(b, l)
           old == meta[f]
           new == [old EXCEPT !.dirty = {}]
<1>1. /\ Step(t, "flush_done") /\ Finish(t, Done) /\ UpdateMeta(f, new)
      /\ pool' = pool /\ disk' = disk
  BY DEF FlushDone
<1>2. /\ FlushInv("flush_done", l, meta, pool, disk, before) /\ l \in Locals /\ f \in Files
      /\ ShapesInv(meta, pool) /\ MetaInv /\ f \in DOMAIN meta /\ Len(v) \in 0 .. MaxSize
      /\ \A g \in Files \ {f} : Untouched(g, meta, pool, disk, before)
  BY <1>1, FlushFacts DEF FlushPoints
<1>3. Seen = before /\ IsFiles(before.content) /\ IsFiles(before.durable)
  BY <1>1, StepStarts
<1> HIDE DEF l
<1>4. /\ l.op \in {"flush", "truncate"} /\ Shows(f, v, meta, pool) /\ b \in Seq(Nat)
      /\ (l.op = "truncate" => l.len <= Len(b)) /\ Copy(disk, f) = v /\ Open(f, meta)
  BY <1>2 DEF FlushInv
<1> HIDE DEF v, f, b
<1>5. old \in Metadata /\ EntryShape(f, old) /\ old.state # "Deleted"
  BY <1>2, <1>4 DEF MetaInv, EntryIsSound, ShapesInv, Open
<1>6. meta' = [meta EXCEPT ![f] = new]
  BY <1>1, <1>2 DEF UpdateMeta
<1> HIDE DEF old
<1>7. /\ new.size = old.size /\ new.chunk_count = old.chunk_count
      /\ new.state = old.state /\ new.dirty = {}
  BY <1>5 DEF Metadata
<1> HIDE DEF new
<1>8. f \in DOMAIN meta' /\ meta'[f] = new
  BY <1>2, <1>6
<1>9. ShapesInv(meta', pool')
  <2>1. EntryShape(f, new)
    BY <1>5, <1>7 DEF EntryShape
  <2> QED
    BY <1>1, <1>2, <1>6, <2>1, ShapesStay
<1>10. Shows(f, v, meta', pool') /\ Pinned(f, meta', pool') /\ Copy(disk', f) = v
  BY <1>1, <1>2, <1>4, <1>5, <1>7, <1>8 DEF Shows, Pinned, old
<1>11. \A g \in Files \ {f} : Untouched(g, meta', pool', disk', before)
  <2>1. Aside(f, meta, meta', pool, pool', disk, disk')
    BY <1>1, <1>6, AsideFacts
  <2> QED
    BY <1>2, <2>1, OthersUntouched
<1>12. /\ SerialInv' /\ reply' = Done
       /\ Seen'.content = [Seen.content EXCEPT ![f] = v]
       /\ Seen'.durable = [Seen.durable EXCEPT ![f] = v]
  BY <1>1, <1>2, <1>9, <1>10, <1>11, CallEndsWith
<1>13. Seen.content[f] # NoContent
  BY <1>3, <1>4, DirtyAssumption DEF b
<1>14. Store!StoreNext
  <2>1. CASE l.op = "flush"
    <3>1. v = Seen.content[f]
      BY <1>3, <2>1 DEF v, b, Cut
    <3>2. Seen'.content = Seen.content
      BY <1>2, <1>3, <1>12, <3>1, ExceptSame
    <3>3. Seen'.durable = [Seen.durable EXCEPT ![f] = Seen.content[f]]
      BY <1>12, <3>1
    <3> QED
      BY <1>2, <1>12, <1>13, <3>2, <3>3, StoreFlushes
  <2>2. CASE l.op = "truncate"
    <3>1. PICK n : n = l.len
      OBVIOUS
    <3>2. n \in Nat /\ n <= Len(b) /\ v = SubSeq(b, 1, n)
      BY <1>2, <1>4, <2>2, <3>1 DEF v, Cut, Locals
    <3>3. v = Store!Resize(b, n) /\ Len(v) = n
      BY <1>4, <3>2, ResizedIsPart
    <3>4. v = Store!Resize(Seen.content[f], n) /\ n \in 0 .. MaxSize
      BY <1>2, <1>3, <1>4, <3>3 DEF b
    <3> QED
      BY <1>2, <1>12, <1>13, <3>4, StoreTruncates
  <2> QED
    BY <1>4, <2>1, <2>2
<1> QED
  BY <1>12, <1>14 DEF Kept

-----------------------------------------------------------------------------
(* The layer implements the store *)

\* The steps of one caller are steps of the layer.
LEMMA SerialIsNext ==
  ASSUME [SerialNext]_vars
  PROVE  [Next]_vars
<1>1. \A t \in Threads, F \in SUBSET Files : SerialCalls(t, F) => Calls(t)
  <2> SUFFICES ASSUME NEW t \in Threads, NEW F \in SUBSET Files, SerialCalls(t, F) PROVE Calls(t)
    OBVIOUS
  <2>1. \A D \in SUBSET F : D \in SUBSET Files
    OBVIOUS
  <2> QED
    BY <2>1 DEF SerialCalls, Calls
<1>2. SerialEvict => Evict
  BY DEF SerialEvict
<1> QED
  BY <1>1, <1>2 DEF SerialNext, Next

\* A call begins, or is over in a step.
LEMMA CallKeeps ==
  ASSUME OneCaller, SerialInv, DirtyInv', NEW t \in Threads, SerialCalls(t, Files)
  PROVE  Kept
<1>1. ASSUME NEW f \in Files, NEW s \in ReadSpans, s[1] < ChunkSize, CallCleanRead(t, f, s)
      PROVE  Kept
  BY <1>1, CleanReadReturns
<1>2. ASSUME NEW f \in Files, ~InManifest(f),
             CallCreate(t, f) \/ CallFlush(t, f) \/ \E n \in TruncSizes : CallTruncate(t, f, n)
      PROVE  Kept
  BY <1>2, CreateReturns, FlushBegins, TruncateBegins
<1>3. ASSUME NEW f \in Files,
             \/ CallDelete(t, f)
             \/ \E s \in WriteSpans : CallWrite(t, f, s)
             \/ \E s \in ReadSpans : CallRead(t, f, s)
      PROVE  Kept
  BY <1>3, DeleteBegins, WriteBegins, ReadBegins
<1>4. ASSUME CallClear(t) \/ \E D \in SUBSET Files : CallRemoveNew(t, D)
      PROVE  Kept
  BY <1>4, ClearBegins, RemoveNewReturns
<1> QED
  BY <1>1, <1>2, <1>3, <1>4 DEF SerialCalls

\* A call goes on.
LEMMA RunKeeps ==
  ASSUME OneCaller, SerialInv, DirtyInv', NEW t \in Threads, Run(t)
  PROVE  Kept
<1>1. CASE \/ Cow(t) \/ EnsureHit(t) \/ EnsureMiss(t) \/ EnsureFails(t) \/ Load(t) \/ LoadMark(t)
           \/ Exhausted(t)
  BY <1>1, CowKeeps, EnsureHitKeeps, EnsureMissKeeps, EnsureFailsKeeps, LoadKeeps,
     LoadMarkKeeps, ExhaustedKeeps
<1>2. CASE WritePlan(t) \/ Modify(t) \/ MarkDirty(t) \/ Grow(t)
  BY <1>2, WritePlanKeeps, ModifyKeeps, MarkDirtyKeeps, GrowKeeps
<1>3. CASE ReadPlan(t) \/ ReadSingle(t) \/ ReadChunk(t)
  BY <1>3, ReadPlanKeeps, ReadSingleKeeps, ReadChunkKeeps
<1>4. CASE TruncPlan(t) \/ TruncChunk(t) \/ TruncSize(t)
  BY <1>4, TruncPlanKeeps, TruncChunkKeeps, TruncSizeKeeps
<1>5. CASE \/ DelNewBlocks(t) \/ DelNewMeta(t) \/ DelNewDisk(t)
           \/ DelInsert(t) \/ DelMark(t) \/ DelBlocks(t) \/ DiskDelete(t)
  BY <1>5, DelBlocksKeeps, DelNewMetaKeeps, DelNewDiskKeeps, DelMarkKeeps, DiskDeleteKeeps
<1>6. CASE FlushSnapshot(t) \/ Assemble(t) \/ DiskWrite(t) \/ DiskFails(t) \/ FlushMark(t) \/ FlushDone(t)
  BY <1>6, FlushSnapshotKeeps, AssembleKeeps, DiskWriteKeeps, DiskFailsKeeps, FlushMarkKeeps,
     FlushDoneKeeps
<1>7. CASE ClearMeta(t)
  BY <1>7, ClearMetaEnds
<1>8. ~ModifyFails(t) /\ ~ReadRetry(t) /\ ~EntryGone(t) /\ ~ChunkNotLoaded(t)
  BY NeverEnabled
<1> QED
  BY <1>1, <1>2, <1>3, <1>4, <1>5, <1>6, <1>7, <1>8 DEF Run

\* Every step keeps the invariant and is a step of the store, or none.
LEMMA SerialStep ==
  ASSUME OneCaller, SerialInv, [SerialNext]_vars
  PROVE  Kept
<1>1. DirtyInv'
  BY SerialIsNext, StepKeepsInv DEF SerialInv
<1>2. CASE UNCHANGED vars
  BY <1>1, <1>2, StutterKeeps
<1>3. CASE SerialNext
  <2>1. CASE SerialEvict
    BY <1>1, <2>1, EvictKeeps
  <2>2. CASE AllIdle
    BY <1>1, <2>2, StutterKeeps DEF AllIdle
  <2>3. ASSUME NEW t \in Threads, SerialCalls(t, Files) PROVE Kept
    BY <1>1, <2>3, CallKeeps
  <2>4. ASSUME NEW t \in Threads, Run(t) PROVE Kept
    BY <1>1, <2>4, RunKeeps
  <2> QED
    BY <1>3, <2>1, <2>2, <2>3, <2>4 DEF SerialNext
<1> QED
  BY <1>2, <1>3

\* With one caller the chunks in the pool, the manifest's chunks, the length in the metadata
\* and the write cache are at every moment the flat files of FileStore: a call that has not
\* finished has changed nothing, and one that has has done exactly what it promises.
THEOREM FilesAreFlat == OneCaller => (SerialSpec => ImplementsFileStore)
<1> SUFFICES ASSUME OneCaller PROVE SerialSpec => ImplementsFileStore
  OBVIOUS
<1>1. Init => SerialInv /\ Store!StoreInit
  BY FirstState
<1>2. SerialInv /\ [SerialNext]_vars => SerialInv' /\ [Store!StoreNext]_(Store!storeVars)
  BY SerialStep DEF Kept
<1> QED
  BY <1>1, <1>2, PTL DEF SerialSpec, ImplementsFileStore, Store!StoreSpec

\* The invariant says of the blocks what BlocksBelongToFiles does.
LEMMA InvBelongs ==
  ASSUME SerialInv
  PROVE  BlocksBelongToFiles
<1>1. ASSUME Idle PROVE \A f \in Files : Untouched(f, meta, pool, disk, Snapshot)
  BY <1>1 DEF SerialInv
<1>2. DirtyInv /\ ShapesInv(meta, pool)
  BY DEF SerialInv
<1>3. DOMAIN meta \subseteq Files
  BY <1>2 DEF DirtyInv, MetaInv
<1>4. UnflushedIsPinned
  BY <1>1, <1>3 DEF UnflushedIsPinned, Present, Untouched, Pinned, InPool
<1>5. NoOrphanBlocks
  BY <1>2 DEF NoOrphanBlocks, ShapesInv
<1>6. UnflushedEvictionLosesNothing
  <2> SUFFICES ASSUME NEW f \in Present, InManifest(f), NEW c \in Chunks, InPool(f, c),
                      ~pool[<<f, c>>].needs_flush
               PROVE  pool[<<f, c>>].data = Fetched(f, c)
    BY DEF UnflushedEvictionLosesNothing, EvictionLosesNothingOf
  <2>1. \A x, y : <<x, y>>[1] = x /\ <<x, y>>[2] = y
    OBVIOUS
  <2> QED
    BY <1>2, <2>1 DEF ShapesInv, BlockShape, InPool
<1> QED
  BY <1>4, <1>5, <1>6 DEF BlocksBelongToFiles

\* Between two calls of one caller every chunk that is marked dirty is in the pool and pinned
\* until a flush has written it, every block is of a file the layer knows, and a block of a
\* manifest's file that may be evicted has only bytes the manifest has.
THEOREM BlocksStayWithFiles == OneCaller => (SerialSpec => []BlocksBelongToFiles)
<1> SUFFICES ASSUME OneCaller PROVE SerialSpec => []BlocksBelongToFiles
  OBVIOUS
<1>1. Init => SerialInv
  BY FirstState
<1>2. SerialInv /\ [SerialNext]_vars => SerialInv'
  BY SerialStep DEF Kept
<1>3. SerialInv => BlocksBelongToFiles
  BY InvBelongs
<1> QED
  BY <1>1, <1>2, <1>3, PTL DEF SerialSpec

=============================================================================
