------------------------------ MODULE Download ------------------------------
(***************************************************************************)
(* Downloading what a manifest names (storage/src/download.rs), over one   *)
(* of the S3 clients of storage-crt: client.rs opens the local file when   *)
(* the object is there, transfer_manager.rs before it asks.  The files of  *)
(* the manifest are uploaded first (Upload), and downloaded elsewhere.     *)
(***************************************************************************)
EXTENDS Upload, SequencesExt

CONSTANTS
  Links,           \* paths that are symbolic links in the manifest
  Copies,          \* path -> the names generate_unique_copy_path tries
  Found,           \* what the destination may hold before
  MaxErrors        \* bound: failed requests and stops

Zero    == "zero"  \* what the file system puts where nothing was written
Mine    == "mine"  \* what no manifest describes
Link    == <<"link">>
OldLink == <<"old link">>

Destinations == Paths \cup Links \cup UNION {ToSet(Copies[p]) : p \in Paths}
Local == Content \cup {Short, Zero, Mine, "link", "old link", "no file"}

\* A manifest lists a path once, and a hash for every chunk of a file.
ASSUME DownloadAssumption ==
  /\ IsFiniteSet(Entries) /\ IsFiniteSet(Links)
  /\ Links \cap Paths = {}
  /\ \A e \in Entries : Len(Hashes[e]) = Size[e]
  /\ Found \subseteq [Destinations -> Seq(Local)]
  /\ MaxErrors \in Nat

VARIABLES
  mode,     \* ConflictResolution: "skip", "overwrite", "copy"
  client,   \* "crt", "tm"
  dest,     \* path -> what is in the file, Link, or NoFile
  before,   \* history: dest at the beginning of the call
  down,     \* entry -> where its task is, the chunk, the file it writes, what it got
  stage,    \* "idle", "small", "large", "done", "failed"
  tally,    \* TransferStatistics, and the totals of the finished batch
  errors

downloadVars == <<mode, client, dest, before, down, stage, tally, errors>>

Waiting   == [at |-> "queued", chunk |-> 1, file |-> "none", got |-> Missing]
NoTally   == [processed |-> 0, transferred |-> 0, skipped |-> 0, completed |-> 0]

DownloadInit ==
  /\ dest \in Found /\ before = dest
  /\ mode \in {"skip", "overwrite", "copy"}
  /\ client \in {"crt", "tm"}
  /\ down = [e \in Entries |-> Waiting]
  /\ stage = "idle"
  /\ tally = NoTally
  /\ errors = 0

Skipped(t) == [processed |-> t.processed + 1, transferred |-> t.transferred,
               skipped |-> t.skipped + 1, completed |-> t.completed + 1]

Transferred(t) == [processed |-> t.processed + 1, transferred |-> t.transferred + 1,
                   skipped |-> t.skipped, completed |-> t.completed + 1]

\* create_symlink replaces a link; a file in its place is an error.
LinkBlocked(p) == dest[p] \notin {NoFile, Link, OldLink}

\* download_manifest_contents, up to its first await: the links.  Links before a
\* blocked one have been made; their order is that of the manifest.
Begin ==
  /\ stage = "idle"
  /\ IF \E p \in Links : LinkBlocked(p)
       THEN /\ stage' = "failed" /\ tally' = NoTally
            /\ \E made \in SUBSET {p \in Links : ~LinkBlocked(p)} :
                 dest' = [p \in Destinations |-> IF p \in made THEN Link ELSE dest[p]]
       ELSE /\ stage' = "small"
            /\ dest' = [p \in Destinations |-> IF p \in Links THEN Link ELSE dest[p]]
            /\ tally' = [processed |-> Cardinality(Links), transferred |-> 0,
                         skipped |-> 0, completed |-> Cardinality(Links)]
  /\ UNCHANGED <<mode, client, before, down, errors>>

InStage(e) == (e \in Large) = (stage = "large")
Busy == {e \in Entries : down[e].at \notin {"queued", "done", "failed"}}

Goto(e, place) == down' = [down EXCEPT ![e].at = place]

\* Its task has come to the place, in the file and with the content.
Now(e, place, k, file, content) ==
  down' = [down EXCEPT ![e] = [at |-> place, chunk |-> k, file |-> file, got |-> content]]

\* generate_unique_copy_path: q is the first name that is free, or none.
IsCopyName(p, q) ==
  LET free == {i \in DOMAIN Copies[p] : dest[Copies[p][i]] = NoFile} IN
  \/ free = {} /\ q = "none"
  \/ \E i \in free : q = Copies[p][i] /\ \A j \in free : i <= j

FirstStep == IF client = "crt" THEN "request" ELSE "open"

\* download_entry, up to its first await.
Choose(e) ==
  LET p == Path[e] IN
  /\ stage \in {"small", "large"} /\ InStage(e)
  /\ down[e].at = "queued" /\ Cardinality(Busy) < MaxConcurrency
  /\ IF dest[p] # NoFile /\ mode = "skip"
       THEN Goto(e, "done") /\ tally' = Skipped(tally)
       ELSE /\ \E target \in Destinations \cup {"none"} :
                 /\ IF dest[p] # NoFile /\ mode = "copy" THEN IsCopyName(p, target) ELSE target = p
                 /\ Now(e, IF target = "none" THEN "failed" ELSE FirstStep, 1, target, Missing)
            /\ UNCHANGED tally
  /\ UNCHANGED <<mode, client, dest, before, stage, errors>>

Wanted(e) == Hashes[e][down[e].chunk]

\* GET; an object that is not there is an error.
Request(e) ==
  /\ down[e].at = "request"
  /\ Now(e, IF bucket[Wanted(e)] = Missing THEN "failed" ELSE IF client = "crt" THEN "open" ELSE "fill",
         down[e].chunk, down[e].file, bucket[Wanted(e)])
  /\ UNCHANGED <<mode, client, dest, before, stage, tally, errors>>

\* A whole object truncates the file, a chunk does not.
Open(e) ==
  LET p == down[e].file IN
  /\ down[e].at = "open"
  /\ dest' = [dest EXCEPT ![p] = IF @ = NoFile \/ e \notin Chunked THEN << >> ELSE @]
  /\ Goto(e, IF client = "crt" THEN "fill" ELSE "request")
  /\ UNCHANGED <<mode, client, before, stage, tally, errors>>

\* Content of length 0 leaves nothing.
Written(file, k, content) ==
  IF content = Short THEN file
  ELSE [i \in 1 .. (IF k > Len(file) THEN k ELSE Len(file)) |->
          IF i = k THEN content ELSE IF i <= Len(file) THEN file[i] ELSE Zero]

AfterChunk(e) == IF down[e].chunk < Chunks(e) THEN FirstStep ELSE "verify"

Fill(e) ==
  /\ down[e].at = "fill"
  /\ dest' = [dest EXCEPT ![down[e].file] = Written(@, down[e].chunk, down[e].got)]
  /\ Now(e, AfterChunk(e), IF down[e].chunk < Chunks(e) THEN down[e].chunk + 1 ELSE down[e].chunk,
         down[e].file, down[e].got)
  /\ UNCHANGED <<mode, client, before, stage, tally, errors>>

\* Mutation: the size is not verified.
SizeFits_Any(e) == TRUE

SizeFits(e) == Len(dest[down[e].file]) = Size[e]

\* apply_post_download_options; the modification time and the mode are not modelled.
Verify(e) ==
  /\ down[e].at = "verify"
  /\ IF SizeFits(e)
       THEN /\ Goto(e, "done")
            /\ tally' = Transferred(tally)
       ELSE Goto(e, "failed") /\ UNCHANGED tally
  /\ UNCHANGED <<mode, client, dest, before, stage, errors>>

\* The connection breaks, before or in the middle of the body.
DownloadRequestFails(e) ==
  /\ down[e].at \in {"request", "fill"} /\ errors < MaxErrors
  /\ errors' = errors + 1
  /\ Goto(e, "failed")
  /\ UNCHANGED <<mode, client, dest, before, stage, tally>>

\* Mutation: only a batch without errors ends.
EndStage_AllDone ==
  /\ stage \in {"small", "large"}
  /\ \A e \in Entries : InStage(e) => down[e].at = "done"
  /\ stage' = IF stage = "small" THEN "large" ELSE "done"
  /\ UNCHANGED <<mode, client, dest, before, down, tally, errors>>

\* The counter of the next batch starts with files_processed + files_skipped.
EndStage ==
  /\ stage \in {"small", "large"}
  /\ \A e \in Entries : InStage(e) => down[e].at \in {"done", "failed"}
  /\ stage' = IF \E e \in Entries : InStage(e) /\ down[e].at = "failed" THEN "failed"
              ELSE IF stage = "small" THEN "large" ELSE "done"
  /\ tally' = [tally EXCEPT !.completed = tally.processed + tally.skipped]
  /\ UNCHANGED <<mode, client, dest, before, down, errors>>

\* A new call, perhaps with another mode, after a failed one or one that was cut off.
DownloadAgain ==
  /\ stage = "failed" \/ (stage \in {"small", "large"} /\ Busy # {})
  /\ errors < MaxErrors
  /\ errors' = errors + 1
  /\ stage' = "idle"
  /\ mode' \in {"skip", "overwrite", "copy"}
  /\ before' = dest
  /\ down' = [e \in Entries |-> Waiting]
  /\ UNCHANGED <<client, dest, tally>>

Transfer(e) ==
  Choose(e) \/ Request(e) \/ Open(e) \/ Fill(e) \/ Verify(e) \/ DownloadRequestFails(e)

DownloadNext == Begin \/ EndStage \/ DownloadAgain \/ \E e \in Entries : Transfer(e)

-----------------------------------------------------------------------------
\* The upload, and then the download.

transferVars == <<uploadVars, downloadVars>>

TransferInit == (\E objects \in BucketsFound : UploadInit(objects)) /\ DownloadInit

TransferNext ==
  \/ UploadNext /\ UNCHANGED downloadVars
  \/ batch = "done" /\ DownloadNext /\ UNCHANGED uploadVars

TransferSpec == TransferInit /\ [][TransferNext]_transferVars

\* The tasks of a batch are polled until all have ended.
TransferFairness ==
  /\ \A e \in Entries : WF_transferVars(Transfer(e) /\ UNCHANGED uploadVars)
  /\ WF_transferVars(EndStage /\ UNCHANGED uploadVars)

-----------------------------------------------------------------------------
(* Properties *)

DownloadTypeOK ==
  /\ dest \in [Destinations -> Seq(Local)]
  /\ down \in [Entries -> [at : {"queued", "request", "open", "fill", "verify", "done", "failed"},
                           chunk : Nat, file : Destinations \cup {"none"},
                           got : Content \cup {Short, Missing}]]
  /\ stage \in {"idle", "small", "large", "done", "failed"}

\* Files that were there before keep their content when conflicts are skipped or
\* copied, whatever fails and however the transfers interleave.
ExistingIsKept ==
  mode \in {"skip", "copy"} =>
    \A p \in Destinations \ Links : before[p] # NoFile => dest[p] = before[p]

\* A download that overwrites and reports success has left every file as the
\* manifest describes it, also over what a call that was cut off has left, and over
\* longer files.
OverwriteCompletes ==
  stage = "done" /\ mode = "overwrite" /\ (\A h \in Content : bucket[h] # Short) =>
    \A e \in Entries : dest[Path[e]] = [k \in 1 .. Size[e] |-> bucket[Hashes[e][k]]]

\* The statistics count every entry once, as transferred or as skipped, except links.
EntriesAreCounted ==
  stage = "done" => /\ tally.processed = Cardinality(Entries) + Cardinality(Links)
                    /\ tally.transferred + tally.skipped = Cardinality(Entries)

\* What was uploaded and not changed meanwhile comes back as it was, although both
\* ways were cut off, retried and mixed with other uploads and older files.
RoundTrip ==
  stage = "done" /\ mode = "overwrite" /\ (\A e \in Entries : source[Path[e]] = Hashes[e]) =>
    \A e \in Entries : dest[Path[e]] = source[Path[e]]

\* Of downloads: files that are to stay stay, the others come whole, every entry
\* is counted once, and what was uploaded comes back.
DownloadsAreRight ==
  DownloadTypeOK /\ ExistingIsKept /\ OverwriteCompletes /\ EntriesAreCounted /\ RoundTrip

\* A call that was begun ends, with success or with an error.
DownloadEnds == stage \in {"small", "large"} ~> stage \notin {"small", "large"}

\* Statements that do not hold (README, section Divergences).

\* A download that reports success has left every file, new or a copy, whole.
DownloadCompletes ==
  stage = "done" =>
    \A e \in Entries : \E p \in {Path[e], down[e].file} \cap Destinations :
      dest[p] = [k \in 1 .. Size[e] |-> bucket[Hashes[e][k]]]

\* Links that were there before are kept when conflicts are skipped or copied.
LinksAreKept == mode \in {"skip", "copy"} => \A p \in Links : before[p] = OldLink => dest[p] = OldLink

\* No more entries are reported as completed than there are.
ProgressIsWithinTotal == tally.completed <= Cardinality(Entries) + Cardinality(Links)
=============================================================================
