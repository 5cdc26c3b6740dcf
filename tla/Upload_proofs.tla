---------------------------- MODULE Upload_proofs ----------------------------
(***************************************************************************)
(* Proofs about transfers, for every manifest, every number of tasks and   *)
(* every number of faults and repetitions.                                 *)
(*                                                                         *)
(* An upload that reports success has left every object of its manifest,   *)
(* and the check cache has seen only what is there (UploadsCorrect): an    *)
(* entry is Covered up to the chunk its task has been told of.             *)
(*                                                                         *)
(* A download after it keeps the files that are to stay, and leaves the    *)
(* others whole (DownloadsCorrect): each task is in order by itself        *)
(* (TaskOk), writes to its own file only, and a chunk once written stays   *)
(* while the later ones are (FileOk).                                      *)
(***************************************************************************)
EXTENDS Download, FiniteSetTheorems, TLAPS

OnTheWay == {"look", "put", "mark"}

\* The chunks of an entry that its task has been told are in the bucket.
Covered(e, k) ==
  \/ up[e].at = "done"
  \/ up[e].at \in OnTheWay /\ k < up[e].chunk
  \/ up[e].at = "mark" /\ k = up[e].chunk

Untouched == \A e \in Entries : source[Path[e]] = Hashes[e]

\* A file is as it was hashed, or cut off, or gone.
SourceInv ==
  /\ UploadTypeOK
  /\ deleted \in BOOLEAN
  /\ \A e \in Entries : source[Path[e]] \in {Hashes[e], NoFile, <<Short>>}

\* A task stands at a chunk that there is.
PlaceInv == \A e \in Entries :
  /\ up[e].chunk >= 1
  /\ up[e].at = "queued" => up[e].chunk = 1
  /\ up[e].at \in OnTheWay => up[e].chunk <= Chunks(e)

\* The batch of large files starts when the small ones are done.
BatchInv ==
  /\ batch = "large" => \A e \in Entries \ Large : up[e].at = "done"
  /\ batch = "done" => \A e \in Entries : up[e].at = "done"

\* Unless objects were deleted, what was seen or covered has an object.
StoredInv == ~deleted =>
  /\ \A h \in seen : bucket[h] # Missing
  /\ \A e \in Entries : \A k \in 1 .. Chunks(e) : Covered(e, k) => bucket[Hashes[e][k]] # Missing

\* Unless files were changed, every object is the content of its hash or what was
\* found of another length, and not the latter where a task or the check cache
\* relies on it.
ContentInv == Untouched =>
  /\ \A h \in Content : bucket[h] \in {h, Short, Missing}
  /\ \A h \in seen : bucket[h] # Short
  /\ \A e \in Entries : \A k \in 1 .. Chunks(e) : Covered(e, k) => bucket[Hashes[e][k]] # Short

UploadInv == SourceInv /\ PlaceInv /\ BatchInv /\ StoredInv /\ ContentInv

-----------------------------------------------------------------------------
\* Sequences over a set are sequences over a larger one.
LEMMA WiderSeq ==
  ASSUME NEW S, NEW T, S \subseteq T, NEW s \in Seq(S)
  PROVE  s \in Seq(T)
<1>1. Len(s) \in Nat /\ \A k \in 1 .. Len(s) : s[k] \in T
  OBVIOUS
<1>2. s = [k \in 1 .. Len(s) |-> s[k]]
  OBVIOUS
<1> QED
  BY <1>1, <1>2

\* The first element of a sequence that has one.
LEMMA FirstIsInSet ==
  ASSUME NEW S, NEW s \in Seq(S), Len(s) = 1
  PROVE  s[1] \in S
OBVIOUS

\* A file of one content.
LEMMA OneContent ==
  ASSUME NEW x
  PROVE  Len(<<x>>) = 1 /\ <<x>>[1] = x /\ \A S : x \in S => <<x>> \in Seq(S)
OBVIOUS

\* What a file was when it was hashed is neither empty nor no file.
LEMMA HashedIsAFile ==
  ASSUME NEW e \in Entries
  PROVE  Hashes[e] # NoFile /\ Hashes[e] # <<Short>>
<1> SUFFICES ASSUME NEW x \in {Short, "no file"}, Hashes[e] = <<x>> PROVE FALSE
  BY DEF NoFile
<1>1. Hashes[e] \in Seq(Content) /\ Content \cap {Short, Missing, "no file"} = {}
  BY UploadAssumption
<1>2. Len(Hashes[e]) = 1 /\ Hashes[e][1] = x
  BY OneContent
<1>3. Hashes[e][1] \in Content
  BY <1>1, <1>2, FirstIsInSet
<1> QED
  BY <1>1, <1>2, <1>3

\* Every chunk that is sent has a hash.
LEMMA ChunksHaveHashes ==
  ASSUME NEW e \in Entries
  PROVE  /\ Hashes[e] \in Seq(Content) /\ Len(Hashes[e]) \in Nat
         /\ Chunks(e) \in Nat /\ Chunks(e) <= Len(Hashes[e])
         /\ \A k \in 1 .. Chunks(e) : Hashes[e][k] \in Content
<1>1. Hashes[e] \in Seq(Content) /\ Size[e] \in Nat
  BY UploadAssumption
<1>2. Len(Hashes[e]) \in Nat /\ \A k \in 1 .. Len(Hashes[e]) : Hashes[e][k] \in Content
  BY <1>1
<1>3. Chunks(e) \in Nat /\ Chunks(e) <= Len(Hashes[e])
  BY <1>1, <1>2 DEF Chunks
<1> QED
  BY <1>1, <1>2, <1>3

\* A task on its way stands at one of them.
LEMMA AtAChunk ==
  ASSUME SourceInv, PlaceInv, NEW e \in Entries, up[e].at \in OnTheWay
  PROVE  /\ up[e].chunk \in 1 .. Chunks(e)
         /\ Hash(e) = Hashes[e][up[e].chunk] /\ Hash(e) \in Content
         /\ Hash(e) \notin {Short, Missing}
<1>1. up[e].chunk \in Nat
  BY DEF SourceInv, UploadTypeOK
<1>2. up[e].chunk \in 1 .. Chunks(e)
  BY <1>1, ChunksHaveHashes DEF PlaceInv
<1> QED
  BY <1>2, ChunksHaveHashes, UploadAssumption DEF Hash

\* What it means that a task goes to another place.
LEMMA TaskMoves ==
  ASSUME SourceInv, NEW e \in Entries, NEW place \in OnTheWay \cup {"done", "failed"}, At(e, place)
  PROVE  /\ up' \in [Entries -> [at : {"queued", "look", "put", "mark", "done", "failed"}, chunk : Nat]]
         /\ up'[e].at = place /\ up'[e].chunk = up[e].chunk
         /\ \A f \in Entries \ {e} : up'[f] = up[f]
<1> DEFINE r == [up[e] EXCEPT !.at = place]
<1>1. up[e] \in [at : {"queued", "look", "put", "mark", "done", "failed"}, chunk : Nat]
  BY DEF SourceInv, UploadTypeOK
<1>2. r \in [at : {"queued", "look", "put", "mark", "done", "failed"}, chunk : Nat]
      /\ r.at = place /\ r.chunk = up[e].chunk
  BY <1>1 DEF OnTheWay
<1>3. up' = [up EXCEPT ![e] = r] /\ DOMAIN up = Entries
  BY DEF At, SourceInv, UploadTypeOK
<1> HIDE DEF r
<1> QED
  BY <1>2, <1>3 DEF SourceInv, UploadTypeOK

\* A task whose chunk is in the bucket goes to the next one, or is done: it has been
\* told of no chunk but those before and this one.
LEMMA TaskAdvances ==
  ASSUME SourceInv, PlaceInv, NEW e \in Entries, up[e].at \in OnTheWay, NextChunk(e)
  PROVE  /\ up' \in [Entries -> [at : {"queued", "look", "put", "mark", "done", "failed"}, chunk : Nat]]
         /\ \A f \in Entries \ {e} : up'[f] = up[f]
         /\ up'[e].chunk >= 1
         /\ up'[e].at = "done" \/ (up'[e].at = "look" /\ up'[e].chunk <= Chunks(e))
         /\ \A k \in 1 .. Chunks(e) : Covered(e, k)' => Covered(e, k) \/ k = up[e].chunk
<1> DEFINE Tasks == [at : {"queued", "look", "put", "mark", "done", "failed"}, chunk : Nat]
           next == [at |-> "look", chunk |-> up[e].chunk + 1]
           last == [up[e] EXCEPT !.at = "done"]
<1>1. up \in [Entries -> Tasks] /\ up[e] \in Tasks /\ up[e].chunk \in Nat
  BY DEF SourceInv, UploadTypeOK
<1>2. next \in Tasks /\ next.at = "look" /\ next.chunk = up[e].chunk + 1
  BY <1>1
<1>3. last \in Tasks /\ last.at = "done" /\ last.chunk = up[e].chunk
  BY <1>1
<1>4. up[e].chunk \in 1 .. Chunks(e) /\ Chunks(e) \in Nat
  BY AtAChunk, ChunksHaveHashes
<1>5. up' = [up EXCEPT ![e] = IF up[e].chunk < Chunks(e) THEN next ELSE last]
  BY DEF NextChunk
<1> HIDE DEF next, last, Tasks
<1>6. CASE up[e].chunk < Chunks(e)
  <2>1. up' = [up EXCEPT ![e] = next]
    BY <1>5, <1>6
  <2>2. up' \in [Entries -> Tasks] /\ up'[e] = next /\ \A f \in Entries \ {e} : up'[f] = up[f]
    BY <1>1, <1>2, <2>1
  <2>3. \A k \in 1 .. Chunks(e) : Covered(e, k)' => Covered(e, k) \/ k = up[e].chunk
    BY <1>1, <1>2, <1>4, <2>2 DEF Covered, OnTheWay
  <2> QED
    BY <1>1, <1>2, <1>4, <1>6, <2>2, <2>3 DEF Tasks
<1>7. CASE ~(up[e].chunk < Chunks(e))
  <2>1. up' = [up EXCEPT ![e] = last]
    BY <1>5, <1>7
  <2>2. up' \in [Entries -> Tasks] /\ up'[e] = last /\ \A f \in Entries \ {e} : up'[f] = up[f]
    BY <1>1, <1>3, <2>1
  <2>3. up[e].chunk = Chunks(e)
    BY <1>1, <1>4, <1>7
  <2>4. \A k \in 1 .. Chunks(e) : Covered(e, k) \/ k = up[e].chunk
    BY <1>4, <2>3 DEF Covered
  <2> QED
    BY <1>1, <1>3, <1>4, <2>2, <2>4 DEF Tasks
<1> QED
  BY <1>6, <1>7

-----------------------------------------------------------------------------
\* The initial state: nothing is seen, and every task is queued.
LEMMA InitUploadInv ==
  ASSUME NEW objects \in BucketsFound, UploadInit(objects)
  PROVE  UploadInv
<1>1. \A e \in Entries : source[Path[e]] = Hashes[e]
  <2> SUFFICES ASSUME NEW e \in Entries PROVE source[Path[e]] = Hashes[e]
    OBVIOUS
  <2> DEFINE f == CHOOSE f \in Entries : Path[f] = Path[e]
  <2>1. f \in Entries /\ Path[f] = Path[e]
    OBVIOUS
  <2>2. f = e
    BY <2>1, UploadAssumption
  <2> QED
    BY <2>2 DEF UploadInit, Paths
<1>2. source \in [Paths -> Seq(Content \cup {Short, "no file"})]
  <2>1. DOMAIN source = Paths /\ source = [p \in Paths |-> source[p]]
    BY DEF UploadInit
  <2>2. ASSUME NEW p \in Paths PROVE source[p] \in Seq(Content \cup {Short, "no file"})
    <3>1. PICK e \in Entries : p = Path[e]
      BY DEF Paths
    <3>2. source[p] = Hashes[e] /\ Hashes[e] \in Seq(Content)
      BY <1>1, <3>1, UploadAssumption
    <3> QED
      BY <3>2, WiderSeq
  <2> QED
    BY <2>1, <2>2
<1>3. /\ bucket = objects /\ seen = {} /\ up = [e \in Entries |-> Queued]
      /\ batch = "small" /\ deleted = FALSE
  BY DEF UploadInit
<1>4. SourceInv
  BY <1>1, <1>2, <1>3 DEF SourceInv, UploadTypeOK, BucketsFound, Queued
<1>5. PlaceInv /\ BatchInv
  BY <1>3 DEF PlaceInv, BatchInv, Queued, OnTheWay
<1>6. StoredInv /\ ContentInv
  BY <1>3 DEF StoredInv, ContentInv, Covered, Queued, OnTheWay, BucketsFound
<1> QED
  BY <1>4, <1>5, <1>6 DEF UploadInv

-----------------------------------------------------------------------------
\* buffer_unordered starts a task: it knows nothing of the bucket.
LEMMA StartKeepsInv == ASSUME UploadInv, NEW e \in Entries, Start(e) PROVE UploadInv'
<1>1. PICK place \in {"failed", "done", "look"} :
        At(e, place) /\ (place = "done" => Chunks(e) = 0) /\ (place = "look" => Chunks(e) # 0)
  <2>1. PICK goes_on \in BOOLEAN :
          At(e, IF cancelled \/ ~goes_on \/ (e \in Chunked /\ source[Path[e]] = NoFile)
                THEN "failed" ELSE IF Chunks(e) = 0 THEN "done" ELSE "look")
    BY DEF Start
  <2> QED
    BY <2>1
<1>2. /\ up[e].at = "queued" /\ InBatch(e) /\ batch \in {"small", "large"}
      /\ UNCHANGED <<source, bucket, seen, batch, deleted>>
  BY DEF Start
<1>3. SourceInv /\ PlaceInv /\ BatchInv /\ StoredInv /\ ContentInv
  BY DEF UploadInv
<1>4. /\ up' \in [Entries -> [at : {"queued", "look", "put", "mark", "done", "failed"}, chunk : Nat]]
      /\ up'[e].at = place /\ up'[e].chunk = up[e].chunk
      /\ \A f \in Entries \ {e} : up'[f] = up[f]
  BY <1>1, <1>3, TaskMoves DEF OnTheWay
<1>5. up[e].chunk = 1 /\ Chunks(e) \in Nat /\ place \in {"failed", "done", "look"}
  BY <1>1, <1>2, <1>3, ChunksHaveHashes DEF PlaceInv
<1>6. SourceInv'
  BY <1>2, <1>3, <1>4 DEF SourceInv, UploadTypeOK
<1>7. PlaceInv'
  <2> SUFFICES ASSUME NEW f \in Entries
               PROVE  /\ up'[f].chunk >= 1
                      /\ up'[f].at = "queued" => up'[f].chunk = 1
                      /\ up'[f].at \in OnTheWay => up'[f].chunk <= Chunks(f)
    BY DEF PlaceInv, Chunks
  <2>1. CASE f = e
    BY <1>1, <1>4, <1>5, <2>1 DEF OnTheWay
  <2>2. CASE f # e
    BY <1>3, <1>4, <2>2 DEF PlaceInv
  <2> QED
    BY <2>1, <2>2
<1>8. BatchInv'
  <2>1. ~(up[e].at = "done")
    BY <1>2
  <2> QED
    BY <1>2, <1>3, <1>4, <2>1 DEF BatchInv, InBatch
<1>9. \A f \in Entries : \A k \in 1 .. Chunks(f) : Covered(f, k)' => Covered(f, k)
  <2> SUFFICES ASSUME NEW f \in Entries, NEW k \in 1 .. Chunks(f), Covered(f, k)'
               PROVE  Covered(f, k)
    OBVIOUS
  <2>1. CASE f = e
    BY <1>1, <1>4, <1>5, <2>1 DEF Covered, OnTheWay
  <2>2. CASE f # e
    BY <1>4, <2>2 DEF Covered
  <2> QED
    BY <2>1, <2>2
<1>10. StoredInv' /\ ContentInv'
  BY <1>2, <1>3, <1>9 DEF StoredInv, ContentInv, Untouched, Chunks
<1> QED
  BY <1>6, <1>7, <1>8, <1>10 DEF UploadInv

\* A task that is told that its chunk is there goes on to the next one.
LEMMA AdvanceKeepsInv ==
  ASSUME UploadInv, NEW e \in Entries, up[e].at \in {"look", "mark"}, NextChunk(e),
         seen' = seen \/ seen' = seen \cup {Hash(e)},
         UNCHANGED <<source, bucket, batch, deleted>>,
         ~deleted => bucket[Hash(e)] # Missing,
         Untouched => bucket[Hash(e)] # Short
  PROVE  UploadInv'
<1>1. SourceInv /\ PlaceInv /\ BatchInv /\ StoredInv /\ ContentInv /\ up[e].at \in OnTheWay
  BY DEF UploadInv, OnTheWay
<1>2. /\ up' \in [Entries -> [at : {"queued", "look", "put", "mark", "done", "failed"}, chunk : Nat]]
      /\ \A f \in Entries \ {e} : up'[f] = up[f]
      /\ up'[e].chunk >= 1
      /\ up'[e].at = "done" \/ (up'[e].at = "look" /\ up'[e].chunk <= Chunks(e))
      /\ \A k \in 1 .. Chunks(e) : Covered(e, k)' => Covered(e, k) \/ k = up[e].chunk
  BY <1>1, TaskAdvances
<1>3. Hash(e) = Hashes[e][up[e].chunk] /\ Hash(e) \in Content
  BY <1>1, AtAChunk
<1>4. SourceInv'
  BY <1>1, <1>2, <1>3 DEF SourceInv, UploadTypeOK
<1>5. PlaceInv'
  <2> SUFFICES ASSUME NEW f \in Entries
               PROVE  /\ up'[f].chunk >= 1
                      /\ up'[f].at = "queued" => up'[f].chunk = 1
                      /\ up'[f].at \in OnTheWay => up'[f].chunk <= Chunks(f)
    BY DEF PlaceInv, Chunks
  <2>1. CASE f = e
    BY <1>2, <2>1 DEF OnTheWay
  <2>2. CASE f # e
    BY <1>1, <1>2, <2>2 DEF PlaceInv
  <2> QED
    BY <2>1, <2>2
<1>6. BatchInv'
  <2>1. \A f \in Entries : up[f].at = "done" => up'[f].at = "done"
    BY <1>2
  <2> QED
    BY <1>1, <2>1 DEF BatchInv
<1>7. StoredInv'
  <2> SUFFICES ASSUME ~deleted
               PROVE  /\ \A h \in seen' : bucket[h] # Missing
                      /\ \A f \in Entries : \A k \in 1 .. Chunks(f) :
                           Covered(f, k)' => bucket[Hashes[f][k]] # Missing
    BY DEF StoredInv, Chunks
  <2>1. \A h \in seen' : bucket[h] # Missing
    BY <1>1 DEF StoredInv
  <2>2. ASSUME NEW f \in Entries, NEW k \in 1 .. Chunks(f), Covered(f, k)'
        PROVE  bucket[Hashes[f][k]] # Missing
    <3>1. CASE f = e
      BY <1>1, <1>2, <1>3, <2>2, <3>1 DEF StoredInv
    <3>2. CASE f # e
      <4>1. Covered(f, k)
        BY <1>2, <2>2, <3>2 DEF Covered
      <4> QED
        BY <1>1, <4>1 DEF StoredInv
    <3> QED
      BY <3>1, <3>2
  <2> QED
    BY <2>1, <2>2
<1>8. ContentInv'
  <2> SUFFICES ASSUME Untouched
               PROVE  /\ \A h \in Content : bucket[h] \in {h, Short, Missing}
                      /\ \A h \in seen' : bucket[h] # Short
                      /\ \A f \in Entries : \A k \in 1 .. Chunks(f) :
                           Covered(f, k)' => bucket[Hashes[f][k]] # Short
    BY DEF ContentInv, Chunks, Untouched
  <2>1. /\ \A h \in Content : bucket[h] \in {h, Short, Missing}
        /\ \A h \in seen' : bucket[h] # Short
    BY <1>1 DEF ContentInv
  <2>2. ASSUME NEW f \in Entries, NEW k \in 1 .. Chunks(f), Covered(f, k)'
        PROVE  bucket[Hashes[f][k]] # Short
    <3>1. CASE f = e
      BY <1>1, <1>2, <1>3, <2>2, <3>1 DEF ContentInv
    <3>2. CASE f # e
      <4>1. Covered(f, k)
        BY <1>2, <2>2, <3>2 DEF Covered
      <4> QED
        BY <1>1, <4>1 DEF ContentInv
    <3> QED
      BY <3>1, <3>2
  <2> QED
    BY <2>1, <2>2
<1> QED
  BY <1>4, <1>5, <1>6, <1>7, <1>8 DEF UploadInv

\* A task that goes to another place of its chunk, or fails.
LEMMA StepKeepsInv ==
  ASSUME UploadInv, NEW e \in Entries, up[e].at \in {"look", "put"},
         NEW place \in {"put", "failed"}, At(e, place),
         UNCHANGED <<source, bucket, seen, batch, deleted>>
  PROVE  UploadInv'
<1>1. SourceInv /\ PlaceInv /\ BatchInv /\ StoredInv /\ ContentInv
  BY DEF UploadInv
<1>2. /\ up' \in [Entries -> [at : {"queued", "look", "put", "mark", "done", "failed"}, chunk : Nat]]
      /\ up'[e].at = place /\ up'[e].chunk = up[e].chunk
      /\ \A f \in Entries \ {e} : up'[f] = up[f]
  BY <1>1, TaskMoves DEF OnTheWay
<1>3. SourceInv'
  BY <1>1, <1>2 DEF SourceInv, UploadTypeOK
<1>4. PlaceInv'
  BY <1>1, <1>2 DEF PlaceInv, OnTheWay, Chunks
<1>5. BatchInv'
  BY <1>1, <1>2 DEF BatchInv
<1>6. \A f \in Entries : \A k \in 1 .. Chunks(f) : Covered(f, k)' => Covered(f, k)
  BY <1>2 DEF Covered, OnTheWay
<1>7. StoredInv' /\ ContentInv'
  BY <1>1, <1>6 DEF StoredInv, ContentInv, Untouched, Chunks
<1> QED
  BY <1>3, <1>4, <1>5, <1>7 DEF UploadInv

\* The check cache, then S3: what it answers is there.
LEMMA LookKeepsInv == ASSUME UploadInv, NEW e \in Entries, Look(e) PROVE UploadInv'
<1>1. SourceInv /\ PlaceInv /\ StoredInv /\ ContentInv /\ up[e].at = "look" /\ up[e].at \in OnTheWay
  BY DEF UploadInv, Look, OnTheWay
<1>2. UNCHANGED <<source, bucket, batch, deleted>>
  BY DEF Look
<1>3. Hash(e) \in Content /\ Hash(e) \notin {Short, Missing}
  BY <1>1, AtAChunk
<1>4. CASE Hash(e) \in seen
  <2>1. NextChunk(e) /\ seen' = seen
    BY <1>4 DEF Look
  <2>2. ~deleted => bucket[Hash(e)] # Missing
    BY <1>1, <1>4 DEF StoredInv
  <2>3. Untouched => bucket[Hash(e)] # Short
    BY <1>1, <1>4 DEF ContentInv
  <2> QED
    BY <1>1, <1>2, <2>1, <2>2, <2>3, AdvanceKeepsInv
<1>5. CASE Hash(e) \notin seen /\ ExistsInBucket(Hash(e))
  <2>1. NextChunk(e) /\ seen' = seen \cup {Hash(e)}
    BY <1>5 DEF Look
  <2>2. bucket[Hash(e)] # Missing /\ bucket[Hash(e)] # Short
    BY <1>5 DEF ExistsInBucket, LengthOf
  <2> QED
    BY <1>1, <1>2, <2>1, <2>2, AdvanceKeepsInv
<1>6. CASE Hash(e) \notin seen /\ ~ExistsInBucket(Hash(e))
  <2>1. At(e, "put") /\ seen' = seen
    BY <1>6 DEF Look
  <2> QED
    BY <1>1, <1>2, <2>1, StepKeepsInv
<1> QED
  BY <1>4, <1>5, <1>6

\* mark_uploaded, after the task's own put.
LEMMA MarkKeepsInv == ASSUME UploadInv, NEW e \in Entries, Mark(e) PROVE UploadInv'
<1>1. SourceInv /\ PlaceInv /\ StoredInv /\ ContentInv /\ up[e].at = "mark" /\ up[e].at \in OnTheWay
  BY DEF UploadInv, Mark, OnTheWay
<1>2. UNCHANGED <<source, bucket, batch, deleted>> /\ NextChunk(e) /\ seen' = seen \cup {Hash(e)}
  BY DEF Mark
<1>3. up[e].chunk \in 1 .. Chunks(e) /\ Hash(e) = Hashes[e][up[e].chunk]
  BY <1>1, AtAChunk
<1>4. ~deleted => bucket[Hash(e)] # Missing
  BY <1>1, <1>3 DEF StoredInv, Covered
<1>5. Untouched => bucket[Hash(e)] # Short
  BY <1>1, <1>3 DEF ContentInv, Covered
<1> QED
  BY <1>1, <1>2, <1>4, <1>5, AdvanceKeepsInv

\* What is sent for a chunk: the content of its hash, as long as the file is as it
\* was hashed; nothing, or an empty file, otherwise.
LEMMA SentIsHashed ==
  ASSUME SourceInv, PlaceInv, NEW e \in Entries, up[e].at = "put", NEW sent,
         sent = (IF source[Path[e]] = NoFile THEN Missing
                 ELSE IF e \in Chunked THEN ChunkOf(source[Path[e]], up[e].chunk)
                 ELSE Whole(source[Path[e]]))
  PROVE  sent \in {Hash(e), Short, Missing} /\ (Untouched => sent = Hash(e))
<1> DEFINE file == source[Path[e]]
<1>1. /\ up[e].chunk \in 1 .. Chunks(e) /\ Hash(e) = Hashes[e][up[e].chunk]
      /\ Chunks(e) \in Nat /\ Chunks(e) <= Len(Hashes[e]) /\ Len(Hashes[e]) \in Nat
      /\ Hashes[e] \in Seq(Content)
  BY AtAChunk, ChunksHaveHashes DEF OnTheWay
<1>3. Hashes[e] # NoFile /\ Hashes[e] # <<Short>>
  BY HashedIsAFile
<1>4. file \in {Hashes[e], NoFile, <<Short>>} /\ (Untouched => file = Hashes[e])
  BY DEF SourceInv, Untouched
<1>5. CASE file = NoFile
  BY <1>3, <1>4, <1>5
<1>6. CASE file # NoFile /\ e \in Chunked
  <2>1. sent = ChunkOf(file, up[e].chunk)
    BY <1>6
  <2>2. CASE file = <<Short>>
    BY <1>3, <1>4, <2>1, <2>2 DEF ChunkOf
  <2>3. CASE file = Hashes[e]
    <3>1. ~(up[e].chunk > Len(file) \/ file = <<Short>>)
      BY <1>1, <1>3, <2>3
    <3> QED
      BY <1>1, <2>1, <2>3, <3>1 DEF ChunkOf
  <2> QED
    BY <1>4, <1>6, <2>2, <2>3
<1>7. CASE file # NoFile /\ e \notin Chunked
  <2>1. sent = Whole(file)
    BY <1>7
  <2>2. CASE file = <<Short>>
    BY <1>3, <1>4, <2>1, <2>2 DEF Whole
  <2>3. CASE file = Hashes[e]
    <3>1. Len(Hashes[e]) = 1
      BY <1>7, UploadAssumption
    <3>2. up[e].chunk = 1
      BY <1>1, <3>1
    <3>3. Head(Hashes[e]) = Hashes[e][1]
      BY <1>1, <3>1
    <3> QED
      BY <1>1, <1>3, <2>1, <2>3, <3>2, <3>3 DEF Whole
  <2> QED
    BY <1>4, <1>7, <2>2, <2>3
<1> QED
  BY <1>5, <1>6, <1>7

\* put_object_from_file and its range: no object is missing after a put.
LEMMA PutKeepsInv == ASSUME UploadInv, NEW e \in Entries, Put(e) PROVE UploadInv'
<1> DEFINE sent == IF source[Path[e]] = NoFile THEN Missing
                   ELSE IF e \in Chunked THEN ChunkOf(source[Path[e]], up[e].chunk)
                   ELSE Whole(source[Path[e]])
<1>1. /\ SourceInv /\ PlaceInv /\ BatchInv /\ StoredInv /\ ContentInv
      /\ up[e].at = "put" /\ up[e].at \in OnTheWay
  BY DEF UploadInv, Put, OnTheWay
<1>2. UNCHANGED <<source, seen, batch, deleted>>
  BY DEF Put
<1>3. sent \in {Hash(e), Short, Missing} /\ (Untouched => sent = Hash(e))
  BY <1>1, SentIsHashed
<1>4. IF sent = Missing THEN At(e, "failed") /\ UNCHANGED bucket
      ELSE bucket' = [bucket EXCEPT ![Hash(e)] = sent] /\ At(e, "mark")
  BY DEF Put
<1>5. Hash(e) \in Content /\ Hash(e) = Hashes[e][up[e].chunk] /\ up[e].chunk \in 1 .. Chunks(e)
  BY <1>1, AtAChunk
<1> HIDE DEF sent
<1>6. CASE sent = Missing
  BY <1>1, <1>2, <1>4, <1>6, StepKeepsInv
<1>7. CASE sent # Missing
  <2>1. bucket' = [bucket EXCEPT ![Hash(e)] = sent] /\ At(e, "mark")
    BY <1>4, <1>7
  <2>2. /\ up' \in [Entries -> [at : {"queued", "look", "put", "mark", "done", "failed"}, chunk : Nat]]
        /\ up'[e].at = "mark" /\ up'[e].chunk = up[e].chunk
        /\ \A f \in Entries \ {e} : up'[f] = up[f]
    BY <1>1, <2>1, TaskMoves DEF OnTheWay
  <2>3. bucket \in [Content -> Content \cup {Missing, Short}]
    BY <1>1 DEF SourceInv, UploadTypeOK
  <2>4. /\ bucket' \in [Content -> Content \cup {Missing, Short}]
        /\ \A h \in Content : bucket'[h] = IF h = Hash(e) THEN sent ELSE bucket[h]
    BY <1>3, <1>5, <2>1, <2>3
  <2>5. SourceInv'
    BY <1>1, <1>2, <2>2, <2>4 DEF SourceInv, UploadTypeOK
  <2>6. PlaceInv'
    BY <1>1, <2>2 DEF PlaceInv, OnTheWay, Chunks
  <2>7. BatchInv'
    BY <1>1, <1>2, <2>2 DEF BatchInv
  <2>8. \A h \in Content : bucket[h] # Missing => bucket'[h] # Missing
    BY <1>7, <2>4
  <2>9. seen \subseteq Content
    BY <1>1 DEF SourceInv, UploadTypeOK
  <2>10. StoredInv'
    <3> SUFFICES ASSUME ~deleted
                 PROVE  /\ \A h \in seen : bucket'[h] # Missing
                        /\ \A f \in Entries : \A k \in 1 .. Chunks(f) :
                             Covered(f, k)' => bucket'[Hashes[f][k]] # Missing
      BY <1>2 DEF StoredInv, Chunks
    <3>1. \A h \in seen : bucket'[h] # Missing
      BY <1>1, <2>8, <2>9 DEF StoredInv
    <3>2. ASSUME NEW f \in Entries, NEW k \in 1 .. Chunks(f), Covered(f, k)'
          PROVE  bucket'[Hashes[f][k]] # Missing
      <4>1. Hashes[f][k] \in Content
        BY ChunksHaveHashes
      <4>2. CASE Covered(f, k)
        BY <1>1, <2>8, <4>1, <4>2 DEF StoredInv
      <4>3. CASE ~Covered(f, k)
        <5>1. f = e /\ k = up[e].chunk
          BY <1>1, <2>2, <3>2, <4>3 DEF Covered, OnTheWay
        <5> QED
          BY <1>5, <1>7, <2>4, <5>1
      <4> QED
        BY <4>2, <4>3
    <3> QED
      BY <3>1, <3>2
  <2>11. ContentInv'
    <3> SUFFICES ASSUME Untouched
                 PROVE  /\ \A h \in Content : bucket'[h] \in {h, Short, Missing}
                        /\ \A h \in seen : bucket'[h] # Short
                        /\ \A f \in Entries : \A k \in 1 .. Chunks(f) :
                             Covered(f, k)' => bucket'[Hashes[f][k]] # Short
      BY <1>2 DEF ContentInv, Untouched, Chunks
    <3>1. sent = Hash(e) /\ Hash(e) # Short
      BY <1>1, <1>3, AtAChunk
    <3>2. \A h \in Content : bucket'[h] \in {h, Short, Missing}
      BY <1>1, <2>4, <3>1 DEF ContentInv
    <3>3. \A h \in seen : bucket'[h] # Short
      BY <1>1, <2>4, <2>9, <3>1 DEF ContentInv
    <3>4. ASSUME NEW f \in Entries, NEW k \in 1 .. Chunks(f), Covered(f, k)'
          PROVE  bucket'[Hashes[f][k]] # Short
      <4>1. Hashes[f][k] \in Content
        BY ChunksHaveHashes
      <4>2. CASE Covered(f, k)
        BY <1>1, <2>4, <3>1, <4>1, <4>2 DEF ContentInv
      <4>3. CASE ~Covered(f, k)
        <5>1. f = e /\ k = up[e].chunk
          BY <1>1, <2>2, <3>4, <4>3 DEF Covered, OnTheWay
        <5> QED
          BY <1>5, <2>4, <3>1, <5>1
      <4> QED
        BY <4>2, <4>3
    <3> QED
      BY <3>2, <3>3, <3>4
  <2> QED
    BY <2>5, <2>6, <2>7, <2>10, <2>11 DEF UploadInv
<1> QED
  BY <1>6, <1>7

LEMMA UploadRequestFailsKeepsInv ==
  ASSUME UploadInv, NEW e \in Entries, UploadRequestFails(e) PROVE UploadInv'
BY StepKeepsInv DEF UploadRequestFails

-----------------------------------------------------------------------------
\* The end of a batch without a failed task: all of its tasks are done.
LEMMA EndBatchKeepsInv == ASSUME UploadInv, EndBatch PROVE UploadInv'
<1>1. UNCHANGED <<source, bucket, seen, up, deleted>>
  BY DEF EndBatch
<1>2. SourceInv /\ PlaceInv /\ BatchInv /\ StoredInv /\ ContentInv
  BY DEF UploadInv
<1>3. /\ batch \in {"small", "large"} /\ batch' = BatchResult
      /\ \A e \in Entries : InBatch(e) => up[e].at \in {"done", "failed"}
  BY DEF EndBatch
<1>4. batch' \in {"failed", "large", "done"}
  BY <1>3 DEF BatchResult
<1>5. BatchInv'
  <2>1. batch' # "failed" => \A e \in Entries : InBatch(e) => up[e].at = "done"
    BY <1>3 DEF BatchResult
  <2>2. batch' = "large" => batch = "small"
    BY <1>3 DEF BatchResult
  <2>3. batch' = "done" => batch = "large"
    BY <1>3 DEF BatchResult
  <2>4. batch' = "large" => \A e \in Entries \ Large : up'[e].at = "done"
    BY <1>1, <2>1, <2>2 DEF InBatch
  <2>5. batch' = "done" => \A e \in Entries : up'[e].at = "done"
    BY <1>1, <1>2, <2>1, <2>3 DEF InBatch, BatchInv
  <2> QED
    BY <2>4, <2>5 DEF BatchInv
<1>6. SourceInv'
  BY <1>1, <1>2, <1>4 DEF SourceInv, UploadTypeOK
<1>7. PlaceInv'
  BY <1>1, <1>2 DEF PlaceInv, Chunks
<1>8. StoredInv' /\ ContentInv'
  BY <1>1, <1>2 DEF StoredInv, ContentInv, Covered, Chunks, Untouched, Hash
<1> QED
  BY <1>5, <1>6, <1>7, <1>8 DEF UploadInv

\* A new call knows only what the check cache has kept.
LEMMA UploadAgainKeepsInv == ASSUME UploadInv, UploadAgain PROVE UploadInv'
<1>1. /\ UNCHANGED <<source, bucket, seen, deleted>>
      /\ up' = [e \in Entries |-> Queued] /\ batch' = "small"
  BY DEF UploadAgain
<1>2. SourceInv /\ StoredInv /\ ContentInv
  BY DEF UploadInv
<1>3. \A e \in Entries : up'[e].at = "queued" /\ up'[e].chunk = 1
  BY <1>1 DEF Queued
<1>4. SourceInv'
  BY <1>1, <1>2 DEF SourceInv, UploadTypeOK, Queued
<1>5. PlaceInv' /\ BatchInv'
  BY <1>1, <1>3 DEF PlaceInv, BatchInv, OnTheWay
<1>6. \A e \in Entries : \A k \in 1 .. Chunks(e) : ~Covered(e, k)'
  BY <1>3 DEF Covered, OnTheWay
<1>7. StoredInv' /\ ContentInv'
  BY <1>1, <1>2, <1>3, <1>6 DEF StoredInv, ContentInv, Untouched, Chunks
<1> QED
  BY <1>4, <1>5, <1>7 DEF UploadInv

LEMMA ForgetKeepsInv == ASSUME UploadInv, Forget PROVE UploadInv'
<1>1. UNCHANGED <<source, bucket, up, batch, deleted>> /\ seen' \subseteq seen
  BY DEF Forget
<1>2. SourceInv /\ PlaceInv /\ BatchInv /\ StoredInv /\ ContentInv
  BY DEF UploadInv
<1>3. SourceInv'
  BY <1>1, <1>2 DEF SourceInv, UploadTypeOK
<1>4. PlaceInv' /\ BatchInv'
  BY <1>1, <1>2 DEF PlaceInv, BatchInv, Chunks
<1>5. StoredInv'
  BY <1>1, <1>2 DEF StoredInv, Covered, Chunks
<1>6. ContentInv'
  <2>1. (Untouched' <=> Untouched) /\ \A e, k : Covered(e, k)' <=> Covered(e, k)
    BY <1>1 DEF Untouched, Covered
  <2> QED
    BY <1>1, <1>2, <2>1 DEF ContentInv, Chunks
<1> QED
  BY <1>3, <1>4, <1>5, <1>6 DEF UploadInv

\* A file that was changed is not as it was hashed, and never becomes so again.
LEMMA EditSourceKeepsInv == ASSUME UploadInv, NEW p \in Paths, EditSource(p) PROVE UploadInv'
<1>1. UNCHANGED <<bucket, seen, up, batch, deleted>>
  BY DEF EditSource
<1>2. PICK content \in {NoFile, <<Short>>} : source' = [source EXCEPT ![p] = content]
  BY DEF EditSource
<1>3. SourceInv /\ PlaceInv /\ BatchInv /\ StoredInv /\ ContentInv
  BY DEF UploadInv
<1>4. source \in [Paths -> Seq(Content \cup {Short, "no file"})]
  BY <1>3 DEF SourceInv, UploadTypeOK
<1>5. content \in Seq(Content \cup {Short, "no file"})
  <2>1. PICK x \in {Short, "no file"} : content = <<x>>
    BY DEF NoFile
  <2> QED
    BY <2>1, OneContent
<1>6. /\ source' \in [Paths -> Seq(Content \cup {Short, "no file"})]
      /\ \A q \in Paths : source'[q] = IF q = p THEN content ELSE source[q]
  BY <1>2, <1>4, <1>5
<1>7. \A e \in Entries : Path[e] \in Paths
  BY DEF Paths
<1>8. SourceInv'
  BY <1>1, <1>3, <1>6, <1>7 DEF SourceInv, UploadTypeOK
<1>9. \A e \in Entries : Hashes[e] \notin {NoFile, <<Short>>}
  BY HashedIsAFile
<1>10. ~Untouched'
  <2>1. PICK e \in Entries : Path[e] = p
    BY DEF Paths
  <2>2. source'[Path[e]] = content
    BY <1>6, <2>1
  <2> QED
    BY <1>9, <2>2 DEF Untouched
<1>11. PlaceInv' /\ BatchInv' /\ StoredInv'
  BY <1>1, <1>3 DEF PlaceInv, BatchInv, StoredInv, Covered, Chunks
<1>12. ContentInv'
  BY <1>10 DEF ContentInv
<1> QED
  BY <1>8, <1>11, <1>12 DEF UploadInv

\* An object that is gone is neither there nor short.
LEMMA DeleteObjectKeepsInv ==
  ASSUME UploadInv, NEW h \in Content, DeleteObject(h) PROVE UploadInv'
<1>1. /\ UNCHANGED <<source, seen, up, batch>> /\ deleted' = TRUE
      /\ bucket' = [bucket EXCEPT ![h] = Missing]
  BY DEF DeleteObject
<1>2. /\ bucket' \in [Content -> Content \cup {Missing, Short}]
      /\ \A g \in Content : bucket'[g] = IF g = h THEN Missing ELSE bucket[g]
  BY <1>1 DEF UploadInv, SourceInv, UploadTypeOK
<1>3. SourceInv' /\ PlaceInv' /\ BatchInv' /\ StoredInv'
  BY <1>1, <1>2 DEF UploadInv, SourceInv, UploadTypeOK, PlaceInv, BatchInv, StoredInv, Chunks
<1>4. ContentInv'
  <2> SUFFICES ASSUME Untouched
               PROVE  /\ \A g \in Content : bucket'[g] \in {g, Short, Missing}
                      /\ \A g \in seen : bucket'[g] # Short
                      /\ \A f \in Entries : \A k \in 1 .. Chunks(f) :
                           Covered(f, k) => bucket'[Hashes[f][k]] # Short
    BY <1>1 DEF ContentInv, Untouched, Chunks, Covered
  <2>1. seen \subseteq Content /\ Missing # Short
    BY DEF UploadInv, SourceInv, UploadTypeOK, Missing, Short
  <2> QED
    BY <1>2, <2>1, ChunksHaveHashes DEF UploadInv, ContentInv
<1> QED
  BY <1>3, <1>4 DEF UploadInv

-----------------------------------------------------------------------------
\* Every step of an upload keeps the invariant.
LEMMA UploadInvKept ==
  ASSUME UploadInv, [UploadNext]_uploadVars
  PROVE  UploadInv'
<1>1. ASSUME NEW e \in Entries, Upload(e) PROVE UploadInv'
  BY <1>1, StartKeepsInv, LookKeepsInv, PutKeepsInv, MarkKeepsInv, UploadRequestFailsKeepsInv
  DEF Upload
<1>2. CASE EndBatch
  BY <1>2, EndBatchKeepsInv
<1>3. CASE UploadAgain
  BY <1>3, UploadAgainKeepsInv
<1>4. CASE Forget
  BY <1>4, ForgetKeepsInv
<1>5. ASSUME NEW p \in Paths, EditSource(p) PROVE UploadInv'
  BY <1>5, EditSourceKeepsInv
<1>6. ASSUME NEW h \in Content, DeleteObject(h) PROVE UploadInv'
  BY <1>6, DeleteObjectKeepsInv
<1>7. CASE UNCHANGED uploadVars
  <2>1. UNCHANGED <<source, bucket, seen, up, batch, cancelled, faults, deleted>>
    BY <1>7 DEF uploadVars
  <2>2. SourceInv'
    BY <2>1 DEF UploadInv, SourceInv, UploadTypeOK
  <2>3. PlaceInv' /\ BatchInv'
    BY <2>1 DEF UploadInv, PlaceInv, BatchInv
  <2>4. StoredInv'
    BY <2>1 DEF UploadInv, StoredInv, Covered
  <2>5. ContentInv'
    BY <2>1 DEF UploadInv, ContentInv, Untouched, Covered, Chunks
  <2> QED
    BY <2>2, <2>3, <2>4, <2>5 DEF UploadInv
<1> QED
  BY <1>1, <1>2, <1>3, <1>4, <1>5, <1>6, <1>7 DEF UploadNext

\* It holds in every state of every upload.
LEMMA UploadInvHolds == UploadSpec => []UploadInv
<1>1. (\E objects \in BucketsFound : UploadInit(objects)) => UploadInv
  BY InitUploadInv
<1>2. UploadInv /\ [UploadNext]_uploadVars => UploadInv'
  BY UploadInvKept
<1> QED
  BY <1>1, <1>2, PTL DEF UploadSpec

\* An upload that reports success has left an object under every hash of the manifest,
\* and what the check cache has seen is there in full: for every manifest, every number
\* of tasks, however often it fails, is cancelled or is cut off, and whatever others have
\* left in the bucket before.
THEOREM UploadsCorrect == UploadSpec => []UploadsAreThere
<1>1. UploadInv => UploadsAreThere
  <2> SUFFICES ASSUME UploadInv PROVE UploadsAreThere
    OBVIOUS
  <2>1. UploadTypeOK
    BY DEF UploadInv, SourceInv
  <2>2. UploadedIsThere
    BY DEF UploadInv, BatchInv, StoredInv, Covered, UploadedIsThere
  <2>3. SeenIsThere
    BY DEF UploadInv, SourceInv, UploadTypeOK, StoredInv, ContentInv, Untouched, SeenIsThere
  <2> QED
    BY <2>1, <2>2, <2>3 DEF UploadsAreThere
<1> QED
  BY <1>1, UploadInvHolds, PTL

-----------------------------------------------------------------------------
(* The download *)

Moving == {"request", "open", "fill", "verify"}

Tasks == [at : {"queued", "request", "open", "fill", "verify", "done", "failed"}, chunk : Nat,
          file : Destinations \cup {"none"}, got : Content \cup {Short, Missing}]

Tallies == [processed : Nat, transferred : Nat, skipped : Nat, completed : Nat]

Ended == {e \in Entries : down[e].at = "done"}

DownShape ==
  /\ dest \in [Destinations -> Seq(Local)] /\ before \in [Destinations -> Seq(Local)]
  /\ down \in [Entries -> Tasks] /\ tally \in Tallies
  /\ mode \in {"skip", "overwrite", "copy"} /\ client \in {"crt", "tm"}
  /\ stage \in {"idle", "small", "large", "done", "failed"}

\* A transfer writes to no link, and to no file that is to stay; in its hands it
\* has the object of the chunk it is at.
TaskOk(e) == down[e].at \in Moving =>
  /\ down[e].file \in Destinations \ Links
  /\ mode \in {"skip", "copy"} => before[down[e].file] = NoFile
  /\ mode = "overwrite" => down[e].file = Path[e]
  /\ down[e].chunk \in 1 .. Size[e]
  /\ down[e].at = "fill" \/ (down[e].at = "open" /\ client = "crt") =>
       down[e].got = bucket[Wanted(e)] /\ down[e].got # Missing

\* The chunk has been written.
Came(e, k) ==
  \/ down[e].at \in {"verify", "done"}
  \/ down[e].at \in Moving /\ k < down[e].chunk

\* There is a file to write to.
Opened(e) ==
  \/ down[e].at \in {"fill", "verify", "done"}
  \/ down[e].at = "request" /\ client = "tm"
  \/ down[e].at \in Moving /\ down[e].chunk > 1

HasChunk(file, k, content) == k <= Len(file) /\ file[k] = content /\ content # Missing

\* A file that is overwritten has the chunks that have been written, but for
\* objects of another length; the rest may be another file's.
FileOk(e) == mode = "overwrite" /\ down[e].at \in Moving \cup {"done"} =>
  /\ \A k \in 1 .. Size[e] : Came(e, k) /\ bucket[Hashes[e][k]] # Short =>
       HasChunk(dest[Path[e]], k, bucket[Hashes[e][k]])
  /\ Opened(e) => dest[Path[e]] # NoFile
  /\ down[e].at = "done" => Len(dest[Path[e]]) = Size[e]

LinksInv == stage \in {"small", "large"} => \A p \in Links : dest[p] = Link

StageInv ==
  /\ batch # "done" => stage = "idle"
  /\ stage = "idle" => \A e \in Entries : down[e].at = "queued"
  /\ stage = "large" => \A e \in Entries \ Large : down[e].at = "done"
  /\ stage = "done" => \A e \in Entries : down[e].at = "done"

CountInv == stage \in {"small", "large", "done"} =>
  /\ tally.processed = Cardinality(Links) + Cardinality(Ended)
  /\ tally.transferred + tally.skipped = Cardinality(Ended)

DownInv ==
  /\ DownShape /\ ExistingIsKept /\ LinksInv /\ StageInv /\ CountInv
  /\ \A e \in Entries : TaskOk(e) /\ FileOk(e)

\* What the manifest says of a file.
LEMMA FilesOfManifest ==
  ASSUME NEW e \in Entries
  PROVE  /\ Size[e] \in Nat \ {0} /\ Len(Hashes[e]) = Size[e] /\ Chunks(e) = Size[e]
         /\ Path[e] \in Destinations \ Links
         /\ \A k \in 1 .. Size[e] : Hashes[e][k] \in Content
<1>1. Size[e] \in Nat \ {0} /\ Len(Hashes[e]) = Size[e]
  BY UploadAssumption, DownloadAssumption
<1>2. Chunks(e) = Size[e]
  BY <1>1 DEF Chunks
<1>3. Path[e] \in Paths /\ Path[e] \in Destinations \ Links
  BY DownloadAssumption DEF Paths, Destinations
<1> QED
  BY <1>1, <1>2, <1>3, ChunksHaveHashes

\* Contents are not what stands for no content.
LEMMA ContentsAreContents ==
  /\ \A h \in Content : h \notin {Short, Missing, "no file"}
  /\ Content \subseteq Local /\ Short \in Local /\ Zero \in Local /\ Missing # Short
BY UploadAssumption DEF Local, Missing, Short

\* What a chunk leaves of the file it is written to.
LEMMA WrittenFacts ==
  ASSUME NEW file \in Seq(Local), NEW k \in Nat \ {0}, NEW content \in Content \cup {Short}
  PROVE  LET w == Written(file, k, content) IN
         /\ w \in Seq(Local)
         /\ file # NoFile => w # NoFile
         /\ content # Short => k <= Len(w) /\ w[k] = content
         /\ \A j \in 1 .. Len(file) : j # k => j <= Len(w) /\ w[j] = file[j]
<1>1. CASE content = Short
  BY <1>1 DEF Written
<1>2. CASE content # Short
  <2> DEFINE n == IF k > Len(file) THEN k ELSE Len(file)
             x(i) == IF i = k THEN content ELSE IF i <= Len(file) THEN file[i] ELSE Zero
  <2>1. Written(file, k, content) = [i \in 1 .. n |-> x(i)]
    BY <1>2 DEF Written
  <2>2. n \in Nat /\ k <= n /\ Len(file) <= n /\ Len(file) \in Nat
    OBVIOUS
  <2>3. \A i \in 1 .. n : x(i) \in Local
    <3>1. \A i \in 1 .. Len(file) : file[i] \in Local
      OBVIOUS
    <3>2. content \in Local /\ Zero \in Local
      BY ContentsAreContents
    <3> QED
      BY <2>2, <3>1, <3>2
  <2>4. x(k) = content /\ \A j \in 1 .. Len(file) : j # k => x(j) = file[j]
    BY <2>2
  <2> HIDE DEF n, x
  <2> DEFINE w == [i \in 1 .. n |-> x(i)]
  <2>5. w \in Seq(Local) /\ Len(w) = n /\ \A i \in 1 .. n : w[i] = x(i)
    BY <2>2, <2>3
  <2> HIDE DEF w
  <2>6. w # NoFile
    <3> SUFFICES ASSUME w = NoFile PROVE FALSE
      OBVIOUS
    <3>1. Len(w) = 1 /\ w[1] = "no file"
      BY OneContent DEF NoFile
    <3>2. Len(w) = n /\ w[k] = content
      BY <2>2, <2>4, <2>5
    <3>3. k = 1
      <4>1. n = 1
        BY <3>1, <3>2
      <4>2. k \in Nat /\ k # 0 /\ k <= n
        BY <2>2
      <4> HIDE DEF n
      <4> QED
        BY <4>1, <4>2
    <3>4. content = "no file" /\ content \in Content
      BY <1>2, <3>1, <3>2, <3>3
    <3> QED
      BY <3>4, ContentsAreContents
  <2>7. k <= Len(w) /\ w[k] = content
    BY <2>2, <2>4, <2>5
  <2>8. \A j \in 1 .. Len(file) : j # k => j <= Len(w) /\ w[j] = file[j]
    BY <2>2, <2>4, <2>5
  <2>9. Written(file, k, content) = w
    BY <2>1 DEF w
  <2> QED
    BY <2>5, <2>6, <2>7, <2>8, <2>9
<1> QED
  BY <1>1, <1>2

\* One more entry is done.
LEMMA OneMoreEnds ==
  ASSUME DownShape, NEW e \in Entries, down[e].at # "done", NEW r, down' = [down EXCEPT ![e] = r]
  PROVE  /\ r.at # "done" => Ended' = Ended
         /\ r.at = "done" => Cardinality(Ended') = Cardinality(Ended) + 1
         /\ Cardinality(Ended) \in Nat
<1>1. \A f \in Entries : down'[f] = IF f = e THEN r ELSE down[f]
  BY DEF DownShape
<1>2. IsFiniteSet(Ended)
  BY DownloadAssumption, FS_Subset DEF Ended
<1>3. r.at # "done" => Ended' = Ended
  BY <1>1 DEF Ended
<1>4. r.at = "done" => Ended' = Ended \cup {e}
  BY <1>1 DEF Ended
<1>5. e \notin Ended
  BY DEF Ended
<1> QED
  BY <1>2, <1>3, <1>4, <1>5, FS_AddElement, FS_CardinalityType

\* A step of one transfer: it has to be in order itself, and may write to its own
\* file only.
LEMMA TransferMoves ==
  ASSUME DownInv, NEW e \in Entries, NEW r \in Tasks, down' = [down EXCEPT ![e] = r],
         UNCHANGED <<mode, client, before, stage, bucket, batch>>,
         dest' \in [Destinations -> Seq(Local)],
         \A p \in Destinations : dest'[p] = dest[p] \/ (down[e].at \in Moving /\ p = down[e].file),
         down[e].at \in Moving \/ (down[e].at = "queued" /\ stage \in {"small", "large"} /\ InStage(e)),
         r.at # "queued",
         r.at # "done" => tally' = tally,
         r.at = "done" => tally' \in {Skipped(tally), Transferred(tally)},
         TaskOk(e)', FileOk(e)'
  PROVE  DownInv'
<1>1. DownShape /\ ExistingIsKept /\ LinksInv /\ StageInv /\ CountInv
      /\ \A f \in Entries : TaskOk(f) /\ FileOk(f)
  BY DEF DownInv
<1>2. down' \in [Entries -> Tasks] /\ \A f \in Entries : down'[f] = IF f = e THEN r ELSE down[f]
  BY <1>1 DEF DownShape
<1>3. down[e].at # "done" /\ stage \notin {"idle", "done"}
  BY <1>1 DEF StageInv, Moving
<1>4. /\ tally \in Tallies
      /\ tally' \in Tallies
      /\ r.at = "done" => /\ tally'.processed = tally.processed + 1
                          /\ tally'.transferred + tally'.skipped = tally.transferred + tally.skipped + 1
  <2>1. /\ tally \in Tallies
        /\ tally.processed \in Nat /\ tally.transferred \in Nat
        /\ tally.skipped \in Nat /\ tally.completed \in Nat
    BY <1>1 DEF DownShape, Tallies
  <2>2. CASE tally' = tally /\ r.at # "done"
    BY <2>1, <2>2
  <2>3. CASE tally' = Skipped(tally)
    BY <2>1, <2>3 DEF Tallies, Skipped
  <2>4. CASE tally' = Transferred(tally)
    BY <2>1, <2>4 DEF Tallies, Transferred
  <2> QED
    BY <2>2, <2>3, <2>4
<1>5. DownShape'
  BY <1>1, <1>2, <1>4 DEF DownShape
<1>6. \A p \in Destinations : p \in Links \/ (mode \in {"skip", "copy"} /\ before[p] # NoFile) =>
        dest'[p] = dest[p]
  BY <1>1 DEF TaskOk
<1>7. ExistingIsKept'
  BY <1>1, <1>6 DEF ExistingIsKept
<1>8. LinksInv'
  <2>1. Links \subseteq Destinations
    BY DEF Destinations
  <2> QED
    BY <1>1, <1>6, <2>1 DEF LinksInv
<1>9. StageInv'
  BY <1>1, <1>2, <1>3 DEF StageInv, InStage
<1>10. CountInv'
  <2>1. Cardinality(Links) \in Nat
    BY DownloadAssumption, FS_CardinalityType
  <2>2. /\ r.at # "done" => Ended' = Ended
        /\ r.at = "done" => Cardinality(Ended') = Cardinality(Ended) + 1
        /\ Cardinality(Ended) \in Nat
    BY <1>1, <1>3, OneMoreEnds
  <2>3. CASE r.at = "done"
    <3>1. tally.processed \in Nat /\ tally.transferred \in Nat /\ tally.skipped \in Nat
      BY <1>4 DEF Tallies
    <3> QED
      BY <1>1, <1>4, <2>1, <2>2, <2>3, <3>1 DEF CountInv
  <2>4. CASE r.at # "done"
    BY <1>1, <2>2, <2>4 DEF CountInv
  <2> QED
    BY <2>3, <2>4
<1>11. ASSUME NEW f \in Entries PROVE TaskOk(f)' /\ FileOk(f)'
  <2>1. CASE f = e
    BY <2>1
  <2>2. CASE f # e
    <3>1. down'[f] = down[f] /\ TaskOk(f) /\ FileOk(f) /\ TaskOk(e)
      BY <1>1, <1>2, <2>2
    <3>2. mode = "overwrite" => dest'[Path[f]] = dest[Path[f]]
      <4>1. Path[f] \in Destinations /\ Path[f] # Path[e]
        BY <2>2, FilesOfManifest, UploadAssumption
      <4>2. mode = "overwrite" /\ down[e].at \in Moving => down[e].file = Path[e]
        BY <3>1 DEF TaskOk
      <4> QED
        BY <4>1, <4>2
    <3>3. TaskOk(f)'
      BY <3>1 DEF TaskOk, Wanted
    <3>4. FileOk(f)'
      BY <3>1, <3>2 DEF FileOk, Came, Opened, HasChunk
    <3> QED
      BY <3>3, <3>4
  <2> QED
    BY <2>1, <2>2
<1> QED
  BY <1>5, <1>7, <1>8, <1>9, <1>10, <1>11 DEF DownInv

\* A task of the download.
LEMMA ATask ==
  ASSUME DownShape, NEW e \in Entries
  PROVE  /\ down[e] \in Tasks /\ down[e].file \in Destinations \cup {"none"}
         /\ down[e].chunk \in Nat /\ down[e].got \in Content \cup {Short, Missing}
BY DEF DownShape, Tasks

\* Tasks that only come to another place.
LEMMA GotoIsAStep ==
  ASSUME DownShape, NEW e \in Entries, NEW place \in {"done", "failed", "fill", "request"},
         Goto(e, place)
  PROVE  \E r \in Tasks : /\ down' = [down EXCEPT ![e] = r] /\ down'[e] = r
                          /\ r.at = place /\ r.chunk = down[e].chunk
                          /\ r.file = down[e].file /\ r.got = down[e].got
<1> DEFINE r == [down[e] EXCEPT !.at = place]
<1>1. down[e] \in Tasks
  BY ATask
<1>2. /\ r \in Tasks /\ r.at = place /\ r.chunk = down[e].chunk
      /\ r.file = down[e].file /\ r.got = down[e].got
  BY <1>1 DEF Tasks
<1>3. down' = [down EXCEPT ![e] = r] /\ DOMAIN down = Entries
  BY DEF Goto, DownShape
<1> HIDE DEF r
<1> QED
  BY <1>2, <1>3

\* The others.
LEMMA NowIsAStep ==
  ASSUME DownShape, NEW e \in Entries,
         NEW place \in {"request", "open", "fill", "verify", "failed"}, NEW k \in Nat,
         NEW file \in Destinations \cup {"none"}, NEW content \in Content \cup {Short, Missing},
         Now(e, place, k, file, content)
  PROVE  \E r \in Tasks : /\ down' = [down EXCEPT ![e] = r] /\ down'[e] = r
                          /\ r.at = place /\ r.chunk = k /\ r.file = file /\ r.got = content
<1> DEFINE r == [at |-> place, chunk |-> k, file |-> file, got |-> content]
<1>1. r \in Tasks /\ r.at = place /\ r.chunk = k /\ r.file = file /\ r.got = content
  BY DEF Tasks
<1>2. down' = [down EXCEPT ![e] = r] /\ DOMAIN down = Entries
  BY DEF Now, DownShape
<1> HIDE DEF r
<1> QED
  BY <1>1, <1>2

\* A transfer begins: the file it will write to is nobody's.
LEMMA ChooseKeeps ==
  ASSUME DownInv, NEW e \in Entries, Choose(e), UNCHANGED <<bucket, batch>>
  PROVE  DownInv'
<1> DEFINE p == Path[e]
<1>1. DownShape /\ ExistingIsKept /\ LinksInv
  BY DEF DownInv
<1>2. /\ UNCHANGED <<mode, client, dest, before, stage>>
      /\ stage \in {"small", "large"} /\ InStage(e) /\ down[e].at = "queued"
  BY DEF Choose
<1>3. dest' \in [Destinations -> Seq(Local)] /\ \A q \in Destinations : dest'[q] = dest[q]
  BY <1>1, <1>2 DEF DownShape
<1>4. CASE dest[p] # NoFile /\ mode = "skip"
  <2>1. Goto(e, "done") /\ tally' = Skipped(tally)
    BY <1>4 DEF Choose
  <2>2. PICK r \in Tasks : down' = [down EXCEPT ![e] = r] /\ down'[e] = r /\ r.at = "done"
    BY <1>1, <2>1, GotoIsAStep
  <2>3. TaskOk(e)' /\ FileOk(e)'
    BY <1>2, <1>4, <2>2 DEF TaskOk, FileOk, Moving
  <2> QED
    BY <1>2, <1>3, <2>1, <2>2, <2>3, TransferMoves
<1>5. CASE ~(dest[p] # NoFile /\ mode = "skip")
  <2>1. PICK target \in Destinations \cup {"none"} :
          /\ IF dest[p] # NoFile /\ mode = "copy" THEN IsCopyName(p, target) ELSE target = p
          /\ Now(e, IF target = "none" THEN "failed" ELSE FirstStep, 1, target, Missing)
    BY <1>5 DEF Choose
  <2>2. tally' = tally
    BY <1>5 DEF Choose
  <2>3. PICK r \in Tasks : /\ down' = [down EXCEPT ![e] = r] /\ down'[e] = r /\ r.chunk = 1
                           /\ r.at = (IF target = "none" THEN "failed" ELSE FirstStep) /\ r.file = target
    BY <1>1, <2>1, NowIsAStep DEF FirstStep
  <2>4. p \in Destinations \ Links /\ 1 \in 1 .. Size[e]
    BY FilesOfManifest
  <2>5. ASSUME target # "none"
        PROVE  /\ target \in Destinations \ Links
               /\ mode \in {"skip", "copy"} => before[target] = NoFile
               /\ mode = "overwrite" => target = p
    <3>1. mode \in {"skip", "copy"} => dest[target] = NoFile
      BY <1>1, <1>5, <2>1, <2>5 DEF IsCopyName
    <3>2. target \notin Links
      <4>1. target = p \/ dest[target] = NoFile
        BY <2>1, <2>5 DEF IsCopyName
      <4>2. Link # NoFile
        BY OneContent DEF Link, NoFile
      <4> QED
        BY <1>1, <1>2, <2>4, <4>1, <4>2 DEF LinksInv
    <3>3. target \in Destinations
      BY <2>5
    <3>4. mode = "overwrite" => target = p
      BY <2>1
    <3> QED
      BY <1>1, <3>1, <3>2, <3>3, <3>4 DEF ExistingIsKept
  <2>6. TaskOk(e)' /\ FileOk(e)'
    <3>1. r.at \in {"failed", "request", "open"} /\ (r.at = "request" => client = "crt")
          /\ (r.at = "open" => client # "crt") /\ (r.at # "failed" => target # "none")
      BY <1>1, <2>3 DEF FirstStep, DownShape
    <3>2. TaskOk(e)'
      BY <1>2, <2>3, <2>4, <2>5, <3>1 DEF TaskOk, Moving
    <3>3. FileOk(e)'
      BY <1>2, <2>3, <3>1 DEF FileOk, Came, Opened, Moving
    <3> QED
      BY <3>2, <3>3
  <2>7. r.at \notin {"queued", "done"}
    BY <2>3 DEF FirstStep
  <2> QED
    BY <1>2, <1>3, <2>2, <2>3, <2>6, <2>7, TransferMoves
<1> QED
  BY <1>4, <1>5

\* GET: the object is in its hands.
LEMMA RequestKeeps ==
  ASSUME UploadTypeOK, DownInv, NEW e \in Entries, Request(e), UNCHANGED <<bucket, batch>>
  PROVE  DownInv'
<1>1. DownShape /\ TaskOk(e) /\ FileOk(e)
  BY DEF DownInv
<1>2. /\ UNCHANGED <<mode, client, dest, before, stage, tally>>
      /\ down[e].at = "request" /\ down[e].at \in Moving
  BY DEF Request, Moving
<1>3. dest' \in [Destinations -> Seq(Local)] /\ \A q \in Destinations : dest'[q] = dest[q]
  BY <1>1, <1>2 DEF DownShape
<1>4. bucket[Wanted(e)] \in Content \cup {Short, Missing}
  BY <1>1, <1>2, FilesOfManifest DEF UploadTypeOK, Wanted, TaskOk
<1>5. PICK r \in Tasks : /\ down' = [down EXCEPT ![e] = r] /\ down'[e] = r
                         /\ r.at = (IF bucket[Wanted(e)] = Missing THEN "failed"
                                    ELSE IF client = "crt" THEN "open" ELSE "fill")
                         /\ r.chunk = down[e].chunk /\ r.file = down[e].file /\ r.got = bucket[Wanted(e)]
  <2>1. down[e].chunk \in Nat /\ down[e].file \in Destinations \cup {"none"}
    BY <1>1, ATask
  <2> DEFINE place == IF bucket[Wanted(e)] = Missing THEN "failed"
                      ELSE IF client = "crt" THEN "open" ELSE "fill"
  <2>2. place \in {"request", "open", "fill", "verify", "failed"}
    OBVIOUS
  <2>3. Now(e, place, down[e].chunk, down[e].file, bucket[Wanted(e)])
    BY DEF Request
  <2> HIDE DEF place
  <2>4. \E r \in Tasks : /\ down' = [down EXCEPT ![e] = r] /\ down'[e] = r
                         /\ r.at = place /\ r.chunk = down[e].chunk /\ r.file = down[e].file
                         /\ r.got = bucket[Wanted(e)]
    BY <1>1, <1>4, <2>1, <2>2, <2>3, NowIsAStep
  <2> QED
    BY <2>4 DEF place
<1>6. TaskOk(e)'
  BY <1>1, <1>2, <1>5 DEF TaskOk, Wanted
<1>7. FileOk(e)'
  <2>1. r.at \in {"failed", "open", "fill"} /\ (r.at = "fill" => client = "tm")
    BY <1>1, <1>5 DEF DownShape
  <2> QED
    BY <1>1, <1>2, <1>5, <2>1 DEF FileOk, Came, Opened, Moving
<1>8. r.at \notin {"queued", "done"}
  BY <1>5
<1> QED
  BY <1>2, <1>3, <1>5, <1>6, <1>7, <1>8, TransferMoves

\* The file is opened: what its chunks have left stays.
LEMMA OpenKeeps ==
  ASSUME DownInv, NEW e \in Entries, Open(e), UNCHANGED <<bucket, batch>>
  PROVE  DownInv'
<1> DEFINE p == down[e].file
           place == IF client = "crt" THEN "fill" ELSE "request"
<1>1. DownShape /\ TaskOk(e) /\ FileOk(e)
  BY DEF DownInv
<1>2. /\ UNCHANGED <<mode, client, before, stage, tally>> /\ Goto(e, place)
      /\ down[e].at = "open" /\ down[e].at \in Moving
      /\ dest' = [dest EXCEPT ![p] = IF dest[p] = NoFile \/ e \notin Chunked THEN << >> ELSE dest[p]]
  BY DEF Open, Moving
<1>3. PICK r \in Tasks : /\ down' = [down EXCEPT ![e] = r] /\ down'[e] = r
                         /\ r.at = place /\ r.chunk = down[e].chunk
                         /\ r.file = p /\ r.got = down[e].got
  BY <1>1, <1>2, GotoIsAStep
<1>4. p \in Destinations /\ dest \in [Destinations -> Seq(Local)]
  BY <1>1, <1>2 DEF TaskOk, DownShape
<1>5. /\ dest' \in [Destinations -> Seq(Local)]
      /\ dest'[p] = IF dest[p] = NoFile \/ e \notin Chunked THEN << >> ELSE dest[p]
      /\ \A q \in Destinations : q # p => dest'[q] = dest[q]
  BY <1>2, <1>4
<1>6. dest'[p] # NoFile
  <2>1. << >> # NoFile
    BY OneContent DEF NoFile
  <2> QED
    BY <1>5, <2>1
<1>7. TaskOk(e)'
  BY <1>1, <1>2, <1>3 DEF TaskOk, Wanted
<1>8. FileOk(e)'
  <2> SUFFICES ASSUME mode = "overwrite"
               PROVE  FileOk(e)'
    BY <1>2 DEF FileOk
  <2>1. p = Path[e] /\ down[e].chunk \in 1 .. Size[e]
    BY <1>1, <1>2 DEF TaskOk
  <2>2. e \notin Chunked => down[e].chunk = 1
    <3>1. e \notin Chunked => Size[e] = 1
      BY UploadAssumption
    <3> QED
      BY <2>1, <3>1
  <2>3. dest[p] = NoFile => down[e].chunk = 1
    BY <1>1, <1>2, <2>1 DEF FileOk, Opened
  <2>4. down[e].chunk = 1 \/ dest'[p] = dest[p]
    BY <1>5, <2>2, <2>3
  <2>5. r.at \in {"fill", "request"}
    BY <1>3
  <2>6. ASSUME NEW k \in 1 .. Size[e], Came(e, k)', bucket[Hashes[e][k]] # Short
        PROVE  HasChunk(dest'[Path[e]], k, bucket[Hashes[e][k]])
    <3>1. k < down[e].chunk
      BY <1>3, <2>5, <2>6 DEF Came
    <3>2. dest'[p] = dest[p] /\ Came(e, k)
      BY <1>2, <2>1, <2>4, <3>1 DEF Came
    <3> QED
      BY <1>1, <1>2, <2>1, <2>6, <3>2 DEF FileOk
  <2> QED
    BY <1>2, <1>3, <1>6, <2>1, <2>5, <2>6 DEF FileOk, HasChunk
<1>9. r.at \notin {"queued", "done"}
  BY <1>3
<1> QED
  BY <1>2, <1>3, <1>5, <1>7, <1>8, <1>9, TransferMoves

\* The body is written: the chunk is in the file, and the chunks before it still are.
LEMMA FillKeeps ==
  ASSUME DownInv, NEW e \in Entries, Fill(e), UNCHANGED <<bucket, batch>>
  PROVE  DownInv'
<1> DEFINE p == down[e].file
           c == down[e].chunk
           n == Size[e]
           w == Written(dest[p], c, down[e].got)
<1>1. DownShape /\ TaskOk(e) /\ FileOk(e)
  BY DEF DownInv
<1>2. /\ UNCHANGED <<mode, client, before, stage, tally>>
      /\ down[e].at = "fill" /\ down[e].at \in Moving
      /\ dest' = [dest EXCEPT ![p] = w]
  BY DEF Fill, Moving
<1>3. /\ p \in Destinations \ Links
      /\ c \in Nat \ {0} /\ n \in Nat \ {0} /\ c <= n /\ Chunks(e) = n
      /\ down[e].got = bucket[Hashes[e][c]] /\ down[e].got \in Content \cup {Short}
      /\ Path[e] \in Destinations
  BY <1>1, <1>2, ATask, FilesOfManifest DEF TaskOk, Wanted
<1>4. /\ dest \in [Destinations -> Seq(Local)]
      /\ dest[p] \in Seq(Local)
  BY <1>1, <1>3 DEF DownShape
<1>5. /\ w \in Seq(Local)
      /\ dest[p] # NoFile => w # NoFile
      /\ down[e].got # Short => c <= Len(w) /\ w[c] = down[e].got
      /\ \A j \in 1 .. Len(dest[p]) : j # c => j <= Len(w) /\ w[j] = dest[p][j]
  <2>1. dest[p] \in Seq(Local) /\ c \in Nat \ {0} /\ down[e].got \in Content \cup {Short}
    BY <1>3, <1>4
  <2> QED
    BY ONLY <2>1, WrittenFacts
<1> HIDE DEF w
<1>6. /\ dest' \in [Destinations -> Seq(Local)]
      /\ \A q \in Destinations : dest'[q] = IF q = p THEN w ELSE dest[q]
  BY <1>2, <1>3, <1>4, <1>5
<1>7. PICK r \in Tasks : /\ down' = [down EXCEPT ![e] = r] /\ down'[e] = r
                         /\ r.at = (IF c < n THEN FirstStep ELSE "verify")
                         /\ r.chunk = (IF c < n THEN c + 1 ELSE c)
                         /\ r.file = p /\ r.got = down[e].got
  <2> DEFINE place == IF c < n THEN FirstStep ELSE "verify"
             k == IF c < n THEN c + 1 ELSE c
  <2>1. Now(e, place, k, p, down[e].got)
    BY <1>3 DEF Fill, AfterChunk
  <2>2. place \in {"request", "open", "fill", "verify", "failed"} /\ k \in Nat
    BY <1>3 DEF FirstStep
  <2>3. p \in Destinations \cup {"none"} /\ down[e].got \in Content \cup {Short, Missing}
    BY <1>3
  <2> HIDE DEF place, k
  <2>4. \E r \in Tasks : /\ down' = [down EXCEPT ![e] = r] /\ down'[e] = r
                         /\ r.at = place /\ r.chunk = k
                         /\ r.file = p /\ r.got = down[e].got
    BY <1>1, <2>1, <2>2, <2>3, NowIsAStep
  <2> QED
    BY <2>4 DEF place, k
<1>8. /\ r.at \in {"request", "open", "verify"} /\ (r.at = "open" => client # "crt")
      /\ r.at = "verify" => c = n
      /\ r.at # "verify" => r.chunk = c + 1
      /\ r.chunk \in 1 .. n
  BY <1>3, <1>7 DEF FirstStep
<1>9. TaskOk(e)'
  BY <1>1, <1>2, <1>3, <1>7, <1>8 DEF TaskOk
<1>10. FileOk(e)'
  <2> SUFFICES ASSUME mode = "overwrite" PROVE FileOk(e)'
    BY <1>2 DEF FileOk
  <2>1. p = Path[e] /\ dest'[Path[e]] = w /\ Opened(e)
    BY <1>1, <1>2, <1>3, <1>6 DEF TaskOk, Opened
  <2>2. w # NoFile
    BY <1>1, <1>2, <1>5, <2>1 DEF FileOk
  <2>3. ASSUME NEW k \in 1 .. n, Came(e, k)', bucket[Hashes[e][k]] # Short
        PROVE  HasChunk(w, k, bucket[Hashes[e][k]])
    <3>1. k = c \/ k < c
      <4>1. k <= n /\ (r.at = "verify" \/ k < r.chunk)
        BY <1>7, <1>8, <2>3 DEF Came
      <4> QED
        BY <1>3, <1>8, <4>1
    <3>2. CASE k = c
      BY <1>1, <1>2, <1>3, <1>5, <2>3, <3>2 DEF HasChunk, TaskOk
    <3>3. CASE k < c
      <4>1. HasChunk(dest[p], k, bucket[Hashes[e][k]])
        BY <1>1, <1>2, <2>1, <2>3, <3>3 DEF FileOk, Came
      <4>2. k \in 1 .. Len(dest[p]) /\ k # c
        BY <1>3, <1>4, <3>3, <4>1 DEF HasChunk
      <4> QED
        BY <1>5, <4>1, <4>2 DEF HasChunk
    <3> QED
      BY <3>1, <3>2, <3>3
  <2> QED
    BY <1>2, <1>7, <1>8, <2>1, <2>2, <2>3 DEF FileOk
<1>11. /\ \A q \in Destinations : dest'[q] = dest[q] \/ (down[e].at \in Moving /\ q = down[e].file)
       /\ r.at \notin {"queued", "done"}
  BY <1>2, <1>6, <1>8
<1> QED
  BY <1>2, <1>6, <1>7, <1>9, <1>10, <1>11, TransferMoves

\* The size is verified: the file has as many chunks as the manifest says.
LEMMA VerifyKeeps ==
  ASSUME DownInv, NEW e \in Entries, Verify(e), UNCHANGED <<bucket, batch>>
  PROVE  DownInv'
<1>1. DownShape /\ TaskOk(e) /\ FileOk(e)
  BY DEF DownInv
<1>2. /\ UNCHANGED <<mode, client, dest, before, stage>>
      /\ down[e].at = "verify" /\ down[e].at \in Moving
  BY DEF Verify, Moving
<1>3. dest' \in [Destinations -> Seq(Local)] /\ \A q \in Destinations : dest'[q] = dest[q]
  BY <1>1, <1>2 DEF DownShape
<1>4. CASE SizeFits(e)
  <2>1. Goto(e, "done") /\ tally' = Transferred(tally)
    BY <1>4 DEF Verify
  <2>2. PICK r \in Tasks : down' = [down EXCEPT ![e] = r] /\ down'[e] = r /\ r.at = "done"
    BY <1>1, <2>1, GotoIsAStep
  <2>3. TaskOk(e)'
    BY <2>2 DEF TaskOk, Moving
  <2>4. FileOk(e)'
    BY <1>1, <1>2, <1>4, <2>2 DEF FileOk, TaskOk, Came, Opened, SizeFits
  <2> QED
    BY <1>2, <1>3, <2>1, <2>2, <2>3, <2>4, TransferMoves
<1>5. CASE ~SizeFits(e)
  <2>1. Goto(e, "failed") /\ tally' = tally
    BY <1>5 DEF Verify
  <2>2. PICK r \in Tasks : down' = [down EXCEPT ![e] = r] /\ down'[e] = r /\ r.at = "failed"
    BY <1>1, <2>1, GotoIsAStep
  <2>3. TaskOk(e)' /\ FileOk(e)'
    BY <2>2 DEF TaskOk, FileOk, Moving
  <2> QED
    BY <1>2, <1>3, <2>1, <2>2, <2>3, TransferMoves
<1> QED
  BY <1>4, <1>5

\* The connection breaks.
LEMMA DownloadRequestFailsKeeps ==
  ASSUME DownInv, NEW e \in Entries, DownloadRequestFails(e), UNCHANGED <<bucket, batch>>
  PROVE  DownInv'
<1>1. DownShape
  BY DEF DownInv
<1>2. /\ UNCHANGED <<mode, client, dest, before, stage, tally>> /\ Goto(e, "failed")
      /\ down[e].at \in Moving
  BY DEF DownloadRequestFails, Moving
<1>3. dest' \in [Destinations -> Seq(Local)] /\ \A q \in Destinations : dest'[q] = dest[q]
  BY <1>1, <1>2 DEF DownShape
<1>4. PICK r \in Tasks : down' = [down EXCEPT ![e] = r] /\ down'[e] = r /\ r.at = "failed"
  BY <1>1, <1>2, GotoIsAStep
<1>5. TaskOk(e)' /\ FileOk(e)'
  BY <1>4 DEF TaskOk, FileOk, Moving
<1> QED
  BY <1>2, <1>3, <1>4, <1>5, TransferMoves

\* A download that does not go on has nothing in its hands.
LEMMA IdleTasks ==
  ASSUME NEW e \in Entries, down'[e].at = "queued"
  PROVE  TaskOk(e)' /\ FileOk(e)'
BY DEF TaskOk, FileOk, Moving

\* The links are made; files that are no links stay.
LEMMA BeginKeeps ==
  ASSUME DownInv, Begin, batch = "done", UNCHANGED <<bucket, batch>>
  PROVE  DownInv'
<1>1. DownShape /\ ExistingIsKept /\ StageInv
  BY DEF DownInv
<1>2. UNCHANGED <<mode, client, before, down>> /\ stage = "idle" /\ \A e \in Entries : down[e].at = "queued"
  BY <1>1 DEF Begin, StageInv
<1>3. Link \in Seq(Local) /\ Links \subseteq Destinations /\ Cardinality(Links) \in Nat
  BY OneContent, DownloadAssumption, FS_CardinalityType DEF Link, Local, Destinations
<1>4. /\ stage' \in {"small", "failed"} /\ tally' \in Tallies
      /\ stage' = "small" => /\ tally'.processed = Cardinality(Links) /\ tally'.transferred = 0
                             /\ tally'.skipped = 0 /\ \A p \in Links : dest'[p] = Link
      /\ dest' \in [Destinations -> Seq(Local)]
      /\ \A p \in Destinations \ Links : dest'[p] = dest[p]
  <2>1. CASE \E p \in Links : LinkBlocked(p)
    <3>1. PICK made \in SUBSET {p \in Links : ~LinkBlocked(p)} :
            dest' = [p \in Destinations |-> IF p \in made THEN Link ELSE dest[p]]
      BY <2>1 DEF Begin
    <3>2. stage' = "failed" /\ tally' = NoTally
      BY <2>1 DEF Begin
    <3>3. tally' \in Tallies
      BY <3>2 DEF Tallies, NoTally
    <3> QED
      BY <1>1, <1>3, <3>1, <3>2, <3>3 DEF DownShape
  <2>2. CASE ~ \E p \in Links : LinkBlocked(p)
    <3>1. /\ stage' = "small"
          /\ dest' = [p \in Destinations |-> IF p \in Links THEN Link ELSE dest[p]]
          /\ tally' = [processed |-> Cardinality(Links), transferred |-> 0,
                       skipped |-> 0, completed |-> Cardinality(Links)]
      BY <2>2 DEF Begin
    <3>2. tally' \in Tallies
      BY <1>3, <3>1 DEF Tallies
    <3> QED
      BY <1>1, <1>3, <3>1, <3>2 DEF DownShape
  <2> QED
    BY <2>1, <2>2
<1>5. DownShape'
  BY <1>1, <1>2, <1>4 DEF DownShape
<1>6. ExistingIsKept'
  BY <1>1, <1>2, <1>4 DEF ExistingIsKept
<1>7. LinksInv'
  BY <1>4 DEF LinksInv
<1>8. StageInv'
  BY <1>4 DEF StageInv
<1>9. CountInv'
  <2>1. Ended' = {}
    BY <1>2 DEF Ended
  <2>2. Cardinality(Ended') = 0
    BY <2>1, FS_EmptySet
  <2> QED
    BY <1>3, <1>4, <2>2 DEF CountInv
<1>10. \A e \in Entries : TaskOk(e)' /\ FileOk(e)'
  BY <1>2, IdleTasks
<1> QED
  BY <1>5, <1>6, <1>7, <1>8, <1>9, <1>10 DEF DownInv

\* A batch ends when all its transfers have.
LEMMA EndStageKeeps ==
  ASSUME DownInv, EndStage, UNCHANGED <<bucket, batch>>
  PROVE  DownInv'
<1>1. DownShape /\ ExistingIsKept /\ LinksInv /\ StageInv /\ CountInv
      /\ \A e \in Entries : TaskOk(e) /\ FileOk(e)
  BY DEF DownInv
<1>2. /\ UNCHANGED <<mode, client, dest, before, down>>
      /\ stage \in {"small", "large"} /\ batch = "done"
      /\ \A e \in Entries : InStage(e) => down[e].at \in {"done", "failed"}
      /\ stage' = IF \E e \in Entries : InStage(e) /\ down[e].at = "failed" THEN "failed"
                  ELSE IF stage = "small" THEN "large" ELSE "done"
  BY <1>1 DEF EndStage, StageInv
<1>3. /\ tally' \in Tallies
      /\ tally'.processed = tally.processed
      /\ tally'.transferred = tally.transferred /\ tally'.skipped = tally.skipped
  <2>1. tally \in Tallies /\ tally.processed + tally.skipped \in Nat
    BY <1>1 DEF DownShape, Tallies
  <2>2. tally' = [tally EXCEPT !.completed = tally.processed + tally.skipped]
    BY DEF EndStage
  <2> QED
    BY <2>1, <2>2 DEF Tallies
<1>4. DownShape'
  BY <1>1, <1>2, <1>3 DEF DownShape
<1>5. ExistingIsKept' /\ LinksInv'
  BY <1>1, <1>2 DEF ExistingIsKept, LinksInv
<1>6. StageInv'
  <2>1. CASE stage = "small"
    BY <1>2, <2>1 DEF StageInv, InStage
  <2>2. CASE stage = "large"
    BY <1>1, <1>2, <2>2 DEF StageInv, InStage
  <2> QED
    BY <1>2, <2>1, <2>2
<1>7. CountInv'
  <2>1. Ended' = Ended
    BY <1>2 DEF Ended
  <2> QED
    BY <1>1, <1>2, <1>3, <2>1 DEF CountInv
<1>8. ASSUME NEW e \in Entries PROVE TaskOk(e)' /\ FileOk(e)'
  <2>1. TaskOk(e) /\ FileOk(e) /\ UNCHANGED <<mode, client, dest, before, down, bucket>>
    BY <1>1, <1>2
  <2>2. TaskOk(e)'
    BY <2>1 DEF TaskOk, Wanted
  <2>3. FileOk(e)'
    BY <2>1 DEF FileOk, Came, Opened, HasChunk
  <2> QED
    BY <2>2, <2>3
<1> QED
  BY <1>4, <1>5, <1>6, <1>7, <1>8 DEF DownInv

\* A new call finds what the one before has left.
LEMMA DownloadAgainKeeps ==
  ASSUME DownInv, DownloadAgain, UNCHANGED <<bucket, batch>>
  PROVE  DownInv'
<1>1. DownShape
  BY DEF DownInv
<1>2. /\ UNCHANGED <<client, dest, tally>> /\ stage' = "idle" /\ before' = dest
      /\ mode' \in {"skip", "overwrite", "copy"}
      /\ down' = [e \in Entries |-> Waiting]
  BY DEF DownloadAgain
<1>3. Waiting \in Tasks /\ Waiting.at = "queued"
  BY DEF Waiting, Tasks
<1>4. down' \in [Entries -> Tasks] /\ \A e \in Entries : down'[e].at = "queued"
  BY <1>2, <1>3
<1>5. DownShape'
  BY <1>1, <1>2, <1>4 DEF DownShape
<1>6. ExistingIsKept' /\ LinksInv' /\ StageInv' /\ CountInv'
  BY <1>2, <1>4 DEF ExistingIsKept, LinksInv, StageInv, CountInv
<1>7. \A e \in Entries : TaskOk(e)' /\ FileOk(e)'
  BY <1>4, IdleTasks
<1> QED
  BY <1>5, <1>6, <1>7 DEF DownInv

\* Every step of a download keeps the invariant.
LEMMA DownloadKeeps ==
  ASSUME UploadTypeOK, DownInv, DownloadNext, batch = "done", UNCHANGED <<bucket, batch>>
  PROVE  DownInv'
<1>1. CASE Begin
  BY <1>1, BeginKeeps
<1>2. CASE EndStage
  BY <1>2, EndStageKeeps
<1>3. CASE DownloadAgain
  BY <1>3, DownloadAgainKeeps
<1>4. ASSUME NEW e \in Entries, Transfer(e) PROVE DownInv'
  BY <1>4, ChooseKeeps, RequestKeeps, OpenKeeps, FillKeeps, VerifyKeeps, DownloadRequestFailsKeeps
  DEF Transfer
<1> QED
  BY <1>1, <1>2, <1>3, <1>4 DEF DownloadNext

\* An upload that is done takes no step.
LEMMA DoneIsDone == ASSUME UploadInv, UploadNext PROVE batch # "done"
<1> SUFFICES ASSUME batch = "done" PROVE FALSE
  OBVIOUS
<1>1. \A e \in Entries : up[e].at = "done"
  BY DEF UploadInv, BatchInv
<1>2. ASSUME NEW e \in Entries, Upload(e) PROVE FALSE
  BY <1>1, <1>2 DEF Upload, Start, Look, Put, Mark, UploadRequestFails
<1> QED
  BY <1>2 DEF UploadNext, EndBatch, UploadAgain, Forget, EditSource, DeleteObject

\* The download waits for the upload.
LEMMA WaitingKeeps ==
  ASSUME DownInv, UNCHANGED downloadVars, batch # "done" \/ UNCHANGED <<bucket, batch>>
  PROVE  DownInv'
<1>1. DownShape /\ ExistingIsKept /\ LinksInv /\ StageInv /\ CountInv
      /\ \A e \in Entries : TaskOk(e) /\ FileOk(e)
  BY DEF DownInv
<1>2. UNCHANGED <<mode, client, dest, before, down, stage, tally>>
  BY DEF downloadVars
<1>3. batch # "done" => stage = "idle" /\ \A e \in Entries : down[e].at = "queued"
  BY <1>1 DEF StageInv
<1>4. DownShape'
  BY <1>1, <1>2 DEF DownShape
<1>5. ExistingIsKept' /\ LinksInv'
  BY <1>1, <1>2 DEF ExistingIsKept, LinksInv
<1>6. StageInv'
  BY <1>1, <1>2, <1>3 DEF StageInv
<1>7. CountInv'
  BY <1>1, <1>2 DEF CountInv, Ended
<1>8. ASSUME NEW e \in Entries PROVE TaskOk(e)' /\ FileOk(e)'
  <2>1. CASE batch # "done"
    BY <1>2, <1>3, <2>1, IdleTasks
  <2>2. CASE UNCHANGED <<bucket, batch>>
    <3>1. TaskOk(e)'
      BY <1>1, <1>2, <2>2 DEF TaskOk, Wanted
    <3>2. FileOk(e)'
      BY <1>1, <1>2, <2>2 DEF FileOk, Came, Opened, HasChunk
    <3> QED
      BY <3>1, <3>2
  <2> QED
    BY <2>1, <2>2
<1> QED
  BY <1>4, <1>5, <1>6, <1>7, <1>8 DEF DownInv

\* What the invariants say when the download reports success.
LEMMA DownloadIsRight ==
  ASSUME UploadInv, DownInv
  PROVE  DownloadsAreRight
<1>1. DownShape /\ ExistingIsKept /\ StageInv /\ CountInv /\ \A e \in Entries : FileOk(e)
  BY DEF DownInv
<1>2. DownloadTypeOK
  BY <1>1 DEF DownShape, DownloadTypeOK, Tasks
<1>3. \A e \in Entries :
        /\ Size[e] \in Nat \ {0} /\ Len(Hashes[e]) = Size[e] /\ Chunks(e) = Size[e]
        /\ Path[e] \in Destinations
        /\ \A k \in 1 .. Size[e] : Hashes[e][k] \in Content
  BY FilesOfManifest
<1>4. stage = "done" => batch = "done" /\ \A e \in Entries : down[e].at = "done" /\ up[e].at = "done"
  BY <1>1 DEF StageInv, UploadInv, BatchInv
<1>5. ASSUME stage = "done", mode = "overwrite", NEW e \in Entries
      PROVE  /\ dest[Path[e]] \in Seq(Local) /\ Len(dest[Path[e]]) = Size[e]
             /\ \A k \in 1 .. Size[e] : bucket[Hashes[e][k]] # Short =>
                  dest[Path[e]][k] = bucket[Hashes[e][k]] /\ bucket[Hashes[e][k]] # Missing
  <2>1. dest[Path[e]] \in Seq(Local)
    BY <1>1, <1>3 DEF DownShape
  <2>2. down[e].at = "done" /\ FileOk(e)
    BY <1>1, <1>4, <1>5
  <2> QED
    BY <1>5, <2>1, <2>2 DEF FileOk, Came, HasChunk
<1>6. OverwriteCompletes
  <2> SUFFICES ASSUME stage = "done", mode = "overwrite", \A h \in Content : bucket[h] # Short,
                      NEW e \in Entries
               PROVE  dest[Path[e]] = [k \in 1 .. Size[e] |-> bucket[Hashes[e][k]]]
    BY DEF OverwriteCompletes
  <2> DEFINE s == dest[Path[e]]
  <2>1. s \in Seq(Local) /\ Len(s) = Size[e] /\ \A k \in 1 .. Size[e] : s[k] = bucket[Hashes[e][k]]
    BY <1>3, <1>5
  <2>2. s = [k \in 1 .. Len(s) |-> s[k]]
    BY <2>1
  <2> HIDE DEF s
  <2>3. [k \in 1 .. Len(s) |-> s[k]] = [k \in 1 .. Size[e] |-> bucket[Hashes[e][k]]]
    BY <2>1
  <2> QED
    BY <2>2, <2>3 DEF s
<1>7. EntriesAreCounted
  <2> SUFFICES ASSUME stage = "done"
               PROVE  /\ tally.processed = Cardinality(Entries) + Cardinality(Links)
                      /\ tally.transferred + tally.skipped = Cardinality(Entries)
    BY DEF EntriesAreCounted
  <2>1. Ended = Entries
    BY <1>4 DEF Ended
  <2>2. Cardinality(Entries) \in Nat /\ Cardinality(Links) \in Nat
    BY DownloadAssumption, FS_CardinalityType
  <2> QED
    BY <1>1, <2>1, <2>2 DEF CountInv
<1>8. RoundTrip
  <2> SUFFICES ASSUME stage = "done", mode = "overwrite", Untouched, NEW e \in Entries
               PROVE  dest[Path[e]] = source[Path[e]]
    BY DEF RoundTrip, Untouched
  <2> DEFINE s == dest[Path[e]]
             h == Hashes[e]
  <2>1. source[Path[e]] = h /\ h \in Seq(Content) /\ Len(h) = Size[e]
    BY <1>3, UploadAssumption DEF Untouched
  <2>2. ASSUME NEW k \in 1 .. Size[e] PROVE bucket[h[k]] = h[k] /\ bucket[h[k]] # Short
    <3>1. h[k] \in Content /\ k \in 1 .. Chunks(e)
      BY <1>3
    <3>2. Covered(e, k)
      BY <1>4 DEF Covered
    <3>3. bucket[h[k]] # Short /\ bucket[h[k]] \in {h[k], Short, Missing}
      BY <3>1, <3>2 DEF UploadInv, ContentInv
    <3>4. bucket[h[k]] # Missing
      BY <1>5, <3>3
    <3> QED
      BY <3>3, <3>4
  <2>3. s \in Seq(Local) /\ Len(s) = Len(h) /\ \A k \in 1 .. Len(h) : s[k] = h[k]
    BY <1>5, <2>1, <2>2
  <2> HIDE DEF s, h
  <2>4. s = [k \in 1 .. Len(s) |-> s[k]] /\ h = [k \in 1 .. Len(h) |-> h[k]]
    BY <2>1, <2>3
  <2>5. s = h
    BY <2>3, <2>4
  <2> QED
    BY <2>1, <2>5 DEF s
<1> QED
  BY <1>1, <1>2, <1>6, <1>7, <1>8 DEF DownloadsAreRight

\* Before the first call nothing has been done.
LEMMA InitDownInv == ASSUME TransferInit PROVE UploadInv /\ DownInv
<1>1. UploadInv
  BY InitUploadInv DEF TransferInit
<1>2. /\ dest \in [Destinations -> Seq(Local)] /\ before = dest
      /\ mode \in {"skip", "overwrite", "copy"} /\ client \in {"crt", "tm"}
      /\ down = [e \in Entries |-> Waiting] /\ stage = "idle" /\ tally = NoTally
      /\ batch = "small"
  BY DownloadAssumption DEF TransferInit, DownloadInit, UploadInit
<1>3. Waiting \in Tasks /\ Waiting.at = "queued" /\ NoTally \in Tallies
  BY DEF Waiting, Tasks, NoTally, Tallies
<1>4. DownShape /\ \A e \in Entries : down[e].at = "queued"
  BY <1>2, <1>3 DEF DownShape
<1>5. ExistingIsKept /\ LinksInv /\ StageInv /\ CountInv
  BY <1>2, <1>4 DEF ExistingIsKept, LinksInv, StageInv, CountInv
<1>6. \A e \in Entries : TaskOk(e) /\ FileOk(e)
  BY <1>4 DEF TaskOk, FileOk, Moving
<1> QED
  BY <1>1, <1>4, <1>5, <1>6 DEF DownInv

\* Files that are to stay stay, a download that overwrites and reports success has
\* left every file whole, counts every entry once, and what was uploaded comes back as
\* it was: for every manifest, every destination, every number of tasks, and however
\* often the upload and the download fail, are cut off and are called again.
THEOREM DownloadsCorrect == TransferSpec => []DownloadsAreRight
<1> DEFINE IInv == UploadInv /\ DownInv
<1>1. TransferInit => IInv
  BY InitDownInv
<1>2. IInv /\ [TransferNext]_transferVars => IInv'
  <2> SUFFICES ASSUME UploadInv, DownInv, [TransferNext]_transferVars PROVE UploadInv' /\ DownInv'
    OBVIOUS
  <2>1. CASE UploadNext /\ UNCHANGED downloadVars
    BY <2>1, UploadInvKept, DoneIsDone, WaitingKeeps
  <2>2. CASE batch = "done" /\ DownloadNext /\ UNCHANGED uploadVars
    <3>1. UploadTypeOK /\ UNCHANGED <<bucket, batch>>
      BY <2>2 DEF UploadInv, SourceInv, uploadVars
    <3> QED
      BY <2>2, <3>1, UploadInvKept, DownloadKeeps
  <2>3. CASE UNCHANGED transferVars
    <3>1. UNCHANGED uploadVars /\ UNCHANGED downloadVars /\ UNCHANGED <<bucket, batch>>
      BY <2>3 DEF transferVars, uploadVars
    <3> QED
      BY <3>1, UploadInvKept, WaitingKeeps
  <2> QED
    BY <2>1, <2>2, <2>3 DEF TransferNext
<1>3. IInv => DownloadsAreRight
  BY DownloadIsRight
<1> QED
  BY <1>1, <1>2, <1>3, PTL DEF TransferSpec

=============================================================================
