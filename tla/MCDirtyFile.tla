---------------------------- MODULE MCDirtyFile ----------------------------
(* Instances of DirtyFile for TLC, and what is claimed of its files. *)
EXTENDS SerialFile, TLC

CONSTANTS t1, t2, f1, n1

VARIABLE focus   \* the file the callers work on, chosen at the start

mcvars == <<vars, focus>>

\* f1 is in the manifest, with one and a half chunks; n1 is not.
LargeOriginal == [f \in Files |-> IF f = f1 THEN <<1, 2, 3>> ELSE NoContent]

Symmetry == Permutations(Threads)

\* Ranges inside a chunk, across two, and of more than one chunk.
Spans == {<<0, 1>>, <<1, 2>>, <<0, 3>>, <<2, 2>>}

SmallSpans    == {<<0, 1>>, <<1, 1>>}
CrossingSpans == {<<1, 2>>, <<0, 1>>}
WholeSpan     == {<<0, 3>>}
ThreadSpans   == SmallSpans \cup CrossingSpans \cup WholeSpan

Reads(t, f, S)  == \E s \in S : CallRead(t, f, s) \/ CallCleanRead(t, f, s)
Writes(t, f, S) == \E s \in S : CallWrite(t, f, s)

\* Two callers side by side.
ThreadCalls(t) ==
  \/ /\ focus = n1
     /\ \/ CallCreate(t, n1) \/ CallFlush(t, n1) \/ CallDelete(t, n1)
        \/ Writes(t, n1, SmallSpans) \/ Reads(t, n1, SmallSpans)
        \/ \E D \in SUBSET {n1} : CallRemoveNew(t, D)
  \/ /\ focus = f1 /\ calls < MaxCalls - 1
     /\ \/ CallFlush(t, f1) \/ CallDelete(t, f1)
        \/ Writes(t, f1, CrossingSpans) \/ Reads(t, f1, WholeSpan)
        \/ \E n \in TruncSizes : CallTruncate(t, f1, n)

MCInit == Init /\ focus \in Files

\* One caller on one file; the file of the manifest takes one call less.
FocusNext ==
  /\ UNCHANGED focus
  /\ \/ focus = f1 /\ SerialEvict
     \/ calls = MaxCalls - 1 /\ focus = f1 /\ Idle /\ UNCHANGED vars
     \/ AllIdle
     \/ \E t \in Threads :
          Run(t) \/ ((focus = n1 \/ calls < MaxCalls - 1) /\ SerialCalls(t, {focus}))

ThreadNext ==
  /\ UNCHANGED focus
  /\ \/ Evict
     \/ calls = MaxCalls - 1 /\ focus = f1 /\ Idle /\ UNCHANGED vars
     \/ AllIdle
     \/ \E t \in Threads : ThreadCalls(t) \/ Run(t)

ThreadSpec == MCInit /\ [][ThreadNext]_mcvars

\* One caller, with every call of the configuration.
FlushSpec == MCInit /\ [][Next /\ UNCHANGED focus]_mcvars

\* A block the pool may evict holds nothing that loading the chunk again would
\* not bring back.
EvictionLosesNothing == Idle => \A f \in Present : EvictionLosesNothingOf(f)

\* The copy on disk has every byte at its place.
DiskBytesKeepTheirPlace ==
  \A f \in DOMAIN disk, i \in 1 .. MaxSize :
    i <= Len(disk[f]) => disk[f][i] = 0 \/ disk[f][i] % 100 = i

\* The same of a small new file: there it holds whatever calls run side by side.
SmallDiskBytesKeepTheirPlace == focus = n1 => DiskBytesKeepTheirPlace

\* design/vfs/runtime.md: a flush writes the assembled file to the disk cache.
\* With nothing left to flush, the copy on disk is the file.
FlushedCopyIsComplete ==
  Idle => \A f \in Present \cap DOMAIN disk : meta[f].dirty = {} => disk[f] = View(f)

\* design/vfs-writes.md: shrinking to zero removes all chunks from the pool.
NoChunkPastTheEnd == Idle => \A k \in DOMAIN pool : k[2] * ChunkSize <= meta[k[1]].size

\* design/vfs-writes.md: the last write wins at the byte level.  A byte that was
\* written is not undone by another caller's write.
WrittenBytesStay ==
  [][\A f \in Present : \A i \in 1 .. Len(View(f)) :
       View(f)[i] > 100 => (View(f)[i] > 100)']_vars

\* design/vfs-writes.md: shrinking within a chunk cuts the chunk.  What was cut
\* off does not come back when the file is extended: it reads as zeros.
ExtensionReadsZeros ==
  [][\A t \in Threads : TruncSize(t) =>
       LET f == loc[t].f IN
       \A i \in Len(View(f)) + 1 .. loc[t].len : (View(f)[i])' = 0]_vars

\* design/vfs-writes.md: a read of a clean chunked file across a boundary works.
CleanReadsAreRight ==
  [][\A t \in Threads, f \in Files, s \in ReadSpans : CallCleanRead(t, f, s) =>
       reply'.bytes = Store!Slice(Original[f], s[1], s[2])]_vars

\* test_manager_extend: a read of the whole file has the file's length, whether
\* the bytes were written or skipped.
ReadsHaveFullLength ==
  [][\A t \in Threads : (ReadSingle(t) \/ ReadChunk(t)) /\ pc'[t] = "idle" =>
       Len(reply'.bytes) = loc[t].len]_vars

\* A comment in read_single_chunk: zeros are for a new file with no content.
ZerosOnlyForNewFiles ==
  [][\A t \in Threads : ReadSingle(t) /\ ~InPool(loc[t].f, 0) =>
       ~InManifest(loc[t].f)]_vars

=============================================================================
