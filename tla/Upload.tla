------------------------------- MODULE Upload -------------------------------
(***************************************************************************)
(* Uploading what a manifest names to the content-addressed store          *)
(* (storage/src/upload.rs), over the S3 clients of storage-crt, with the   *)
(* check cache (storage/src/s3_check_cache) that saves existence checks.   *)
(*                                                                         *)
(* A step is a request to S3 or what a task does between two awaits.       *)
(* Every content that a hash stands for has length 1, except short.        *)
(***************************************************************************)
EXTENDS Naturals, Sequences, FiniteSets

CONSTANTS
  Entries,         \* entries of the manifest that are files
  Path,            \* entry -> path
  Hashes,          \* entry -> its hash, or its chunk hashes, as a sequence
  Size,            \* entry -> size
  Large,           \* entries from small_file_threshold on
  Chunked,         \* entries with chunkhashes
  MaxConcurrency,
  MaxFaults        \* bound: failed requests, stops, edits and deletions

Short   == "short"  \* a content of length 0, which no hash of the manifest stands for
Missing == "missing"
NoFile  == <<"no file">>
Content == UNION {{Hashes[e][k] : k \in 1 .. Len(Hashes[e])} : e \in Entries}
Paths   == {Path[e] : e \in Entries}

\* A manifest lists a path once; no hash of it stands for an empty object, no object
\* or no file.
ASSUME UploadAssumption ==
  /\ \A e, f \in Entries : Path[e] = Path[f] => e = f
  /\ \A e \in Entries : Size[e] \in Nat \ {0} /\ Hashes[e] \in Seq(Content)
  /\ Content \cap {Short, Missing, "no file"} = {}
  /\ Large \subseteq Entries /\ Chunked \subseteq Entries
  /\ \A e \in Entries \ Chunked : Size[e] = 1 /\ Len(Hashes[e]) = 1
  /\ MaxConcurrency \in Nat /\ MaxFaults \in Nat

VARIABLES
  source,   \* path -> what is in the file, as a sequence of contents, or NoFile
  bucket,   \* hash -> the content of the object, or Missing
  seen,     \* the check cache: hashes with an entry that has not expired
  up,       \* entry -> where its task is, and the chunk
  batch,    \* "small", "large", "done", "failed"
  cancelled,
  faults,
  deleted   \* history: an object has been deleted

uploadVars == <<source, bucket, seen, up, batch, cancelled, faults, deleted>>

Queued == [at |-> "queued", chunk |-> 1]

UploadInit(objects) ==
  /\ source = [p \in Paths |-> LET e == CHOOSE e \in Entries : Path[e] = p IN Hashes[e]]
  /\ bucket = objects
  /\ seen = {}
  /\ up = [e \in Entries |-> Queued]
  /\ batch = "small"
  /\ cancelled = FALSE /\ faults = 0 /\ deleted = FALSE

\* generate_chunks and zip: a chunk without a hash, or a hash without a chunk, is
\* left out.
Chunks(e) == IF Size[e] < Len(Hashes[e]) THEN Size[e] ELSE Len(Hashes[e])

InBatch(e) == (e \in Large) = (batch = "large")
Active == {e \in Entries : up[e].at \notin {"queued", "done", "failed"}}

At(e, place) == up' = [up EXCEPT ![e].at = place]

\* buffer_unordered starts the next task, which asks the progress callback; a
\* chunked file must be there.
Start(e) ==
  /\ batch \in {"small", "large"} /\ InBatch(e)
  /\ up[e].at = "queued" /\ Cardinality(Active) < MaxConcurrency
  /\ \E goes_on \in BOOLEAN :
       /\ goes_on \/ faults < MaxFaults
       /\ cancelled' = (cancelled \/ ~goes_on)
       /\ faults' = IF goes_on THEN faults ELSE faults + 1
       /\ At(e, IF cancelled \/ ~goes_on \/ (e \in Chunked /\ source[Path[e]] = NoFile)
                THEN "failed" ELSE IF Chunks(e) = 0 THEN "done" ELSE "look")
  /\ UNCHANGED <<source, bucket, seen, batch, deleted>>

Hash(e) == Hashes[e][up[e].chunk]

NextChunk(e) == up' = [up EXCEPT ![e] =
  IF @.chunk < Chunks(e) THEN [at |-> "look", chunk |-> @.chunk + 1] ELSE [@ EXCEPT !.at = "done"]]

LengthOf(content) == IF content = Short THEN 0 ELSE 1

\* Mutation: an object of whatever length will do.
ExistsInBucket_AnySize(h) == bucket[h] # Missing

ExistsInBucket(h) == bucket[h] # Missing /\ LengthOf(bucket[h]) = 1

\* cas_object_exists: the check cache, then a HEAD request.
Look(e) ==
  /\ up[e].at = "look"
  /\ IF Hash(e) \in seen THEN NextChunk(e) /\ UNCHANGED seen
     ELSE IF ExistsInBucket(Hash(e)) THEN NextChunk(e) /\ seen' = seen \cup {Hash(e)}
     ELSE At(e, "put") /\ UNCHANGED seen
  /\ UNCHANGED <<source, bucket, batch, cancelled, faults, deleted>>

\* put_object_from_file sends what the file holds now; put_object_from_file_range
\* the bytes of a chunk, or fails when the file is too short.
Whole(file) == IF file = <<Short>> THEN Short ELSE Head(file)

ChunkOf(file, k) == IF k > Len(file) \/ file = <<Short>> THEN Missing ELSE file[k]

Put(e) ==
  LET file == source[Path[e]]
      sent == IF file = NoFile THEN Missing
              ELSE IF e \in Chunked THEN ChunkOf(file, up[e].chunk) ELSE Whole(file) IN
  /\ up[e].at = "put"
  /\ IF sent = Missing
       THEN At(e, "failed") /\ UNCHANGED bucket
       ELSE bucket' = [bucket EXCEPT ![Hash(e)] = sent] /\ At(e, "mark")
  /\ UNCHANGED <<source, seen, batch, cancelled, faults, deleted>>

\* mark_uploaded; what else was seen before stays.
Mark(e) ==
  /\ up[e].at = "mark"
  /\ seen' = seen \cup {Hash(e)}
  /\ NextChunk(e)
  /\ UNCHANGED <<source, bucket, batch, cancelled, faults, deleted>>

UploadRequestFails(e) ==
  /\ up[e].at \in {"look", "put"} /\ faults < MaxFaults
  /\ faults' = faults + 1
  /\ At(e, "failed")
  /\ UNCHANGED <<source, bucket, seen, batch, cancelled, deleted>>

BatchResult ==
  IF \E e \in Entries : InBatch(e) /\ up[e].at = "failed" THEN "failed"
  ELSE IF batch = "small" THEN "large" ELSE "done"

\* All tasks of a batch run to their end, also after an error.
EndBatch ==
  /\ batch \in {"small", "large"}
  /\ \A e \in Entries : InBatch(e) => up[e].at \in {"done", "failed"}
  /\ batch' = BatchResult
  /\ UNCHANGED <<source, bucket, seen, up, cancelled, faults, deleted>>

\* A new call after a failed one, or after the process has stopped; the check cache
\* is a database file.
UploadAgain ==
  /\ batch = "failed" \/ (batch \in {"small", "large"} /\ Active # {} /\ faults < MaxFaults)
  /\ faults' = IF batch = "failed" THEN faults ELSE faults + 1
  /\ up' = [e \in Entries |-> Queued]
  /\ batch' = "small" /\ cancelled' = FALSE
  /\ UNCHANGED <<source, bucket, seen, deleted>>

\* Entries of the check cache expire, or are reset.
Forget ==
  /\ seen # {} /\ batch = "failed"
  /\ \E kept \in SUBSET seen : seen' = kept
  /\ UNCHANGED <<source, bucket, up, batch, cancelled, faults, deleted>>

\* Somebody changes or removes a file after it was hashed.
EditSource(p) ==
  /\ faults < MaxFaults /\ batch \in {"small", "large"}
  /\ faults' = faults + 1
  /\ \E content \in {NoFile, <<Short>>} : source' = [source EXCEPT ![p] = content]
  /\ UNCHANGED <<bucket, seen, up, batch, cancelled, deleted>>

DeleteObject(h) ==
  /\ faults < MaxFaults /\ bucket[h] # Missing /\ batch # "done"
  /\ faults' = faults + 1
  /\ bucket' = [bucket EXCEPT ![h] = Missing]
  /\ deleted' = TRUE
  /\ UNCHANGED <<source, seen, up, batch, cancelled>>

Upload(e) ==
  Start(e) \/ Look(e) \/ Put(e) \/ Mark(e) \/ UploadRequestFails(e)

UploadNext ==
  \/ \E e \in Entries : Upload(e)
  \/ EndBatch \/ UploadAgain \/ Forget
  \/ \E p \in Paths : EditSource(p)
  \/ \E h \in Content : DeleteObject(h)

\* What other uploads have left: each object is whole, of another length, or missing.
BucketsFound ==
  {objects \in [Content -> Content \cup {Short, Missing}] :
     \A h \in Content : objects[h] \in {h, Short, Missing}}

UploadSpec ==
  (\E objects \in BucketsFound : UploadInit(objects)) /\ [][UploadNext]_uploadVars

-----------------------------------------------------------------------------
(* Properties *)

UploadTypeOK ==
  /\ source \in [Paths -> Seq(Content \cup {Short, "no file"})]
  /\ bucket \in [Content -> Content \cup {Missing, Short}]
  /\ seen \subseteq Content
  /\ up \in [Entries -> [at : {"queued", "look", "put", "mark", "done", "failed"}, chunk : Nat]]
  /\ batch \in {"small", "large", "done", "failed"}

\* An upload that reports success has left an object under every hash of the
\* manifest, however often it was tried, cut off or cancelled before, and whoever
\* else uploads the same content, unless somebody has deleted objects.
UploadedIsThere ==
  batch = "done" /\ ~deleted =>
    \A e \in Entries : \A k \in 1 .. Chunks(e) : bucket[Hashes[e][k]] # Missing

\* What the check cache has seen is in the bucket, in its full length, as long as
\* nobody deletes objects or changes the files that are being uploaded.
SeenIsThere ==
  ~deleted /\ (\A e \in Entries : source[Path[e]] = Hashes[e]) =>
    \A h \in seen : bucket[h] = h

\* What an upload or a lookup reports to be in the bucket is there.
UploadsAreThere == UploadTypeOK /\ UploadedIsThere /\ SeenIsThere

\* Statements that do not hold (README, section Divergences).

\* The check cache tells what the bucket holds.
SeenIsCurrent == \A h \in seen : bucket[h] # Missing

\* What is stored under a hash has that hash.
UploadedMatches == batch = "done" => \A h \in Content : bucket[h] = h
=============================================================================
