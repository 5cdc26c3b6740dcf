----------------------------- MODULE SerialFile -----------------------------
(***************************************************************************)
(* One caller on the copy-on-write files, which is how a FUSE session      *)
(* drives them: its handlers take the file system by `&mut self`.          *)
(*                                                                         *)
(* The calls leave out what is known to lose bytes (README, section        *)
(* Divergences): a file of the manifest is neither flushed nor truncated   *)
(* and is read unmodified from its first chunk only; a block of a new file *)
(* is not evicted; writes leave no gap and truncates do not extend         *)
(* (OneCaller).  Then the layer implements FileStore.                      *)
(***************************************************************************)
EXTENDS DirtyFile

\* What the constants are for one caller.
OneCaller ==
  /\ \A t, u \in Threads : t = u
  /\ ~Gaps
  /\ "cut" \notin Faults

Idle == \A t \in Threads : pc[t] = "idle"

\* The calls on the files of F.
SerialCalls(t, F) ==
  \/ \E f \in F :
       \/ CallDelete(t, f)
       \/ \E s \in WriteSpans : CallWrite(t, f, s)
       \/ \E s \in ReadSpans : CallRead(t, f, s) \/ (s[1] < ChunkSize /\ CallCleanRead(t, f, s))
       \/ /\ ~InManifest(f)
          /\ CallCreate(t, f) \/ CallFlush(t, f) \/ \E n \in TruncSizes : CallTruncate(t, f, n)
  \/ \E D \in SUBSET F : CallRemoveNew(t, D)
  \/ CallClear(t)

\* A block of a file of the manifest is evicted between two calls.
SerialEvict ==
  /\ Idle
  /\ Evict
  /\ \A k \in DOMAIN pool \ DOMAIN pool' : InManifest(k[1])

SerialNext == SerialEvict \/ AllIdle \/ \E t \in Threads : SerialCalls(t, Files) \/ Run(t)

SerialSpec == Init /\ [][SerialNext]_vars

\* The files as an application sees them: while a call runs, as they were when
\* it began.
Seen == IF Idle THEN Snapshot ELSE before

Store == INSTANCE FileStore WITH
  content <- Seen.content, durable <- Seen.durable,
  Initial <- Original, Values <- 1 .. MaxCalls, MaxLen <- MaxSize

\* With one caller every call does to the files, as View shows them, what
\* FileStore says: between two calls the chunks in the pool, the manifest's
\* chunks and the length in the metadata add up to the bytes last written.
ImplementsFileStore == Store!StoreSpec

-----------------------------------------------------------------------------
(* Blocks *)

Present == {f \in DOMAIN meta : meta[f].state # "Deleted"}

\* The block of a chunk that is marked dirty is in the pool and cannot be
\* evicted, so a flush never answers ChunkNotLoaded.
UnflushedIsPinned ==
  Idle => \A f \in Present : \A c \in meta[f].dirty :
            InPool(f, c) /\ pool[<<f, c>>].needs_flush

\* What loading a chunk gives.
Fetched(f, c) == IF HasOriginal(f, c) THEN OriginalChunk(f, c) ELSE << >>

\* A block the pool may evict holds nothing that loading the chunk again would
\* not bring back.
EvictionLosesNothingOf(f) ==
  \A c \in Chunks :
    InPool(f, c) /\ ~pool[<<f, c>>].needs_flush =>
      LET held == pool[<<f, c>>].data
          kept == Smaller(ChunkSize, meta[f].size - c * ChunkSize)
      IN  \A j \in 1 .. kept :
            (IF j <= Len(held) THEN held[j] ELSE 0)
              = (IF j <= Len(Fetched(f, c)) THEN Fetched(f, c)[j] ELSE 0)

\* A file that is never flushed: the block of a chunk that was only read may go
\* at any time, and that of a chunk that was written may not.
UnflushedEvictionLosesNothing ==
  Idle => \A f \in Present : InManifest(f) => EvictionLosesNothingOf(f)

\* Every block belongs to a file the layer knows: no memory that no delete, no
\* flush and, when it needs a flush, no eviction can give back.
NoOrphanBlocks == Idle => \A k \in DOMAIN pool : k[1] \in DOMAIN meta

\* A block of the pool that holds what no disk has belongs to a file, is pinned
\* until it is flushed, and is all that an eviction could lose.
BlocksBelongToFiles == UnflushedIsPinned /\ NoOrphanBlocks /\ UnflushedEvictionLosesNothing

=============================================================================
