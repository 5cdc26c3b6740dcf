----------------------------- MODULE ManifestStore -----------------------------
(***************************************************************************)
(* Manifests in S3: workers upload one per root for every attempt at a     *)
(* task; callers list them, take the latest attempt of each task, fetch    *)
(* and merge them (storage/src/manifest_storage.rs, python/src/lib.rs).    *)
(* A root is a sequence of letters, as path mapping works on text; the     *)
(* hash in a key is modelled by the text it is the hash of.                *)
(***************************************************************************)
EXTENDS Naturals, Sequences, SequencesExt, FiniteSets, FiniteSetsExt, Functions

CONSTANTS
  Tasks,        \* ids of tasks
  StepLevel,    \* in place of a task, for the chunks of a step
  Callers,
  JobRoots,     \* sequence of [root, location] of the job's attachments
  ActionIds,    \* ids of the session actions, as text, in the order they start
  RootDirs,     \* root_dirs of attachment_upload
  Inputs,       \* number of manifests it is given
  Rules,        \* path mapping: sequence of [source, destination]
  Files,
  Written,      \* bound: what an attempt writes below each root
  max_concurrency, \* of a parallel download
  MaxTime,      \* bound: seconds
  MaxCalls      \* bound: calls of all callers

VARIABLES
  bucket,       \* key -> [manifest, root, time]; what list, get and head tell
  attempt,      \* task -> the attempt running: [action, todo], or NoAttempt
  begun,        \* session actions begun
  clock,        \* seconds
  call,         \* caller -> what it is doing
  number,       \* NEXT_HANDLE
  handles,      \* MANIFEST_HANDLE_MAP
  issued,       \* history: the handles returned
  taken,        \* history: the handles that were good for a download
  results,      \* history: what was merged and written, and of what
  calls         \* number of calls begun

storeVars == <<bucket, attempt, begun, clock, call, number, handles, issued, taken, results, calls>>

Model == INSTANCE ManifestOps WITH BeginsWith <- {}, Dollar <- << >>, Targets <- << >>

NoAttempt == [action |-> 0, todo |-> {}]
Idle      == [mode |-> "idle", todo |-> << >>, got |-> << >>, roots |-> {}, handle |-> 0]
Indices   == DOMAIN JobRoots

StoreInit(buckets, actions, before) ==
  /\ bucket \in buckets
  /\ attempt = [t \in Tasks \cup {StepLevel} |-> NoAttempt]
  /\ begun = actions /\ clock = 0
  /\ call = [c \in Callers |-> Idle]
  /\ number = 1 /\ handles = << >>
  /\ issued = << >> /\ taken = << >> /\ results = {} /\ calls = before

-----------------------------------------------------------------------------
(* Keys and what is found by them *)

\* compute_root_path_hash: no separator between the two.
RootHash(location, root) == location \o root

\* .../{task}/{timestamp}_{session action}/{hash}_output; actions are numbered in
\* the order of their timestamps.
OutputKey(task, action, job) ==
  [task |-> task, action |-> action, hash |-> RootHash(job.location, job.root)]

\* .../Inputs/{guid}/{hash}_input
InputKey(guid, root) == [task |-> "input", action |-> guid, hash |-> RootHash(<< >>, root)]

Outputs(task) == {k \in DOMAIN bucket : k.task = task}

\* Mutation: the first of those that are as late.
Latest_First(keys) == Min({k.action : k \in {j \in keys : \A l \in keys : bucket[l].time <= bucket[j].time}})

\* The session folder of the key modified last: of the last of them in the order of keys.
Latest(keys) == Max({k.action : k \in {j \in keys : \A l \in keys : bucket[l].time <= bucket[j].time}})

\* select_latest_manifests_per_task, for one task
Selected(task) ==
  IF task = StepLevel \/ Outputs(task) = {} THEN Outputs(task)
  ELSE {k \in Outputs(task) : k.action = Latest(Outputs(task))}

HashRank(h) == CHOOSE i \in Indices : RootHash(JobRoots[i].location, JobRoots[i].root) = h
InKeyOrder(keys) ==
  SetToSortSeq(keys, LAMBDA j, k : \/ j.action < k.action
                                   \/ j.action = k.action /\ HashRank(j.hash) < HashRank(k.hash))

\* discover_output_manifest_keys, with the tasks in the order of a hash map.
Discovered(order) == FlattenSeq([i \in DOMAIN order |-> InKeyOrder(Selected(order[i]))])

\* One task, or all there is in an order of the hash map.
Scopes == {<<t>> : t \in Tasks}
            \cup {s \in [1 .. Cardinality(Tasks) + 1 -> Tasks \cup {StepLevel}] : IsInjective(s)}

\* The pattern of find_manifests_by_session_action_id: the id anywhere in the key.
IsNamed(k, action) ==
  \E i, j \in DOMAIN ActionIds[k.action] : SubSeq(ActionIds[k.action], i, j) = ActionIds[action]

\* find_manifests_by_session_action_id
FindByAction(task, action) ==
  LET own == {k \in Outputs(task) : IsNamed(k, action)} IN
  IF own # {} THEN own ELSE {k \in UNION {Outputs(t) : t \in Tasks \cup {StepLevel}} : IsNamed(k, action)}

\* match_manifests_to_roots: the first root of that hash, or none.
MatchedRoot(key) ==
  LET same == {i \in Indices : RootHash(JobRoots[i].location, JobRoots[i].root) = key.hash} IN
  IF same = {} THEN 0 ELSE Min(same)

\* apply_path_mapping: the first rule whose source begins the text of the root.
Mapped(root) ==
  LET fits == {i \in DOMAIN Rules : IsPrefix(Rules[i].source, root)} IN
  IF fits = {} THEN root
  ELSE Rules[Min(fits)].destination \o SubSeq(root, Len(Rules[Min(fits)].source) + 1, Len(root))

-----------------------------------------------------------------------------
(* Workers *)

Tick ==
  /\ clock < MaxTime
  /\ clock' = clock + 1
  /\ UNCHANGED <<bucket, attempt, begun, call, number, handles, issued, taken, results, calls>>

\* A task is tried again only after its last attempt ended.
BeginAttempt(t) ==
  /\ attempt[t] = NoAttempt /\ begun < Len(ActionIds)
  /\ begun' = begun + 1
  /\ attempt' = [attempt EXCEPT ![t] = [action |-> begun + 1, todo |-> Indices]]
  /\ UNCHANGED <<bucket, clock, call, number, handles, issued, taken, results, calls>>

\* The root goes into the metadata; the time is the bucket's.
PutObject(key, manifest, root) ==
  bucket' = (key :> [manifest |-> manifest, root |-> root, time |-> clock]) @@ bucket

\* upload_task_output_manifest, upload_step_output_manifest
UploadOutput(t, i) ==
  /\ i \in attempt[t].todo
  /\ PutObject(OutputKey(t, attempt[t].action, JobRoots[i]),
               Model!Snapshot({}, [f \in Written[i] |-> attempt[t].action]), JobRoots[i].root)
  /\ attempt' = [attempt EXCEPT ![t].todo = @ \ {i}]
  /\ UNCHANGED <<begun, clock, call, number, handles, issued, taken, results, calls>>

\* The attempt is done, failed, or its worker died between two uploads.
EndAttempt(t) ==
  /\ attempt[t] # NoAttempt
  /\ attempt' = [attempt EXCEPT ![t] = NoAttempt]
  /\ UNCHANGED <<bucket, begun, clock, call, number, handles, issued, taken, results, calls>>

\* attachment_upload: a manifest without a root directory gets ".".
UploadInput(i) ==
  LET root == IF i <= Len(RootDirs) THEN Mapped(RootDirs[i]) ELSE <<".">> IN
  /\ \A k \in DOMAIN bucket : k.task = "input" => k.action < i
  /\ i = 1 \/ \E k \in DOMAIN bucket : k.task = "input" /\ k.action = i - 1
  /\ PutObject(InputKey(i, root), Model!Snapshot({}, [f \in Files |-> 0]), root)
  /\ UNCHANGED <<attempt, begun, clock, call, number, handles, issued, taken, results, calls>>

-----------------------------------------------------------------------------
(* Callers *)

Begin(c, mode, todo) ==
  /\ call[c] = Idle /\ calls < MaxCalls
  /\ mode = "discover" \/ todo # << >>
  /\ calls' = calls + 1
  /\ call' = [call EXCEPT ![c] = [Idle EXCEPT !.mode = mode, !.todo = todo]]
  /\ UNCHANGED <<bucket, attempt, begun, clock, number, handles, issued, taken, results>>

\* discover_output_manifests
Discover(c, order) == Begin(c, "discover", Discovered(order))

\* manifest_download: input manifests, then those of the outputs.
DownloadManifests(c, order) ==
  Begin(c, "manifests", SetToSortSeq(Outputs("input"), LAMBDA j, k : j.action < k.action) \o Discovered(order))

\* incremental_download: manifests the caller lists, in any order.
Incremental(c, keys) == Begin(c, "sync", keys)

\* download_output_manifests_by_asset_root; the caller merges what it gets by the times.
DownloadByRoot(c, order) == Begin(c, "parallel", Discovered(order))

\* A request fails, for S3 or for the disk.
CallFails(c) ==
  /\ call[c] # Idle
  /\ call' = [call EXCEPT ![c] = Idle]
  /\ UNCHANGED <<bucket, attempt, begun, clock, number, handles, issued, taken, results, calls>>

\* by_root.entry(root).or_default().push
Grouped(got, root) == SelectSeq(got, LAMBDA g : g.root = root)

\* The keys that are being downloaded: buffer_unordered begins them in their order and
\* has at most so many under way; one after the other elsewhere.
UnderWay(c) ==
  DOMAIN call[c].todo \cap 1 .. IF call[c].mode = "parallel" THEN max_concurrency ELSE 1

\* HEAD: the root in the metadata, and the time.
Metadata(key) == [root |-> bucket[key].root, time |-> bucket[key].time]

\* download_manifest
Downloaded(key, mode) ==
  [root |-> IF mode = "sync" THEN Mapped(Metadata(key).root) ELSE Metadata(key).root,
   manifest |-> bucket[key].manifest, time |-> Metadata(key).time, key |-> key]

\* A download under way ends, in whatever order.
Fetch(c) ==
  \E i \in UnderWay(c) :
    LET new == Downloaded(call[c].todo[i], call[c].mode) IN
    /\ call' = [call EXCEPT ![c].todo = RemoveAt(@, i), ![c].got = Append(@, new),
                            ![c].roots = IF call[c].mode = "discover" THEN {} ELSE @ \cup {new.root}]
    /\ UNCHANGED <<bucket, attempt, begun, clock, number, handles, issued, taken, results, calls>>

\* store_manifests takes a number ...
TakeNumber(c) ==
  /\ call[c].mode = "discover" /\ call[c].todo = << >> /\ call[c].handle = 0
  /\ call' = [call EXCEPT ![c].handle = number]
  /\ number' = number + 1
  /\ UNCHANGED <<bucket, attempt, begun, clock, handles, issued, taken, results, calls>>

\* ... and then the lock.
Insert(c) ==
  /\ call[c].mode = "discover" /\ call[c].handle # 0
  /\ handles' = (call[c].handle :> call[c].got) @@ handles
  /\ issued' = Append(issued, call[c].handle)
  /\ call' = [call EXCEPT ![c] = Idle]
  /\ UNCHANGED <<bucket, attempt, begun, clock, number, taken, results, calls>>

\* download_output_files: a handle is good for one call.
DownloadOutput(c, h) ==
  /\ call[c] = Idle /\ calls < MaxCalls
  /\ calls' = calls + 1
  /\ IF h \in DOMAIN handles
     THEN /\ call' = [call EXCEPT ![c] = IF handles[h] = << >> THEN Idle ELSE [Idle EXCEPT !.mode = "download", !.got = handles[h], !.handle = h,
                                            !.roots = {g.root : g \in Range(handles[h])}]]
          /\ handles' = Model!Restricted(handles, DOMAIN handles \ {h})
          /\ taken' = Append(taken, h)
     ELSE UNCHANGED <<call, handles, taken>>
  /\ UNCHANGED <<bucket, attempt, begun, clock, number, issued, results>>

\* The roots come in the order of a hash map.
WriteRoot(c, root) ==
  LET group  == Grouped(call[c].got, root)
      merged == IF call[c].mode \in {"sync", "parallel"}
                THEN Model!MergeChronologically([i \in DOMAIN group |-> <<group[i].manifest, group[i].time>>])
                ELSE Model!Merge([i \in DOMAIN group |-> group[i].manifest]) IN
  /\ call[c].mode # "discover" /\ call[c].todo = << >> /\ root \in call[c].roots
  /\ results' = results \cup {[mode |-> call[c].mode, root |-> root, files |-> merged.files, of |-> Range(call[c].got)]}
  /\ call' = [call EXCEPT ![c] = IF @.roots = {root} THEN Idle ELSE [@ EXCEPT !.roots = @ \ {root}]]
  /\ UNCHANGED <<bucket, attempt, begun, clock, number, handles, issued, taken, calls>>

StoreNext ==
  \/ Tick
  \/ \E t \in Tasks \cup {StepLevel} :
       \/ BeginAttempt(t) \/ EndAttempt(t)
       \/ \E i \in attempt[t].todo : UploadOutput(t, i)
  \/ \E i \in 1 .. Inputs : UploadInput(i)
  \/ \E c \in Callers :
       \/ \E order \in Scopes : 
            Discover(c, order) \/ DownloadManifests(c, order) \/ DownloadByRoot(c, order)
       \/ LET keys == InKeyOrder(UNION {Outputs(t) : t \in Tasks \cup {StepLevel}}) IN
            Incremental(c, keys) \/ Incremental(c, Reverse(keys))
       \/ CallFails(c) \/ Fetch(c) \/ TakeNumber(c) \/ Insert(c)
       \/ \E h \in Range(issued) : DownloadOutput(c, h)
       \/ \E root \in call[c].roots : WriteRoot(c, root)

-----------------------------------------------------------------------------
(* Properties *)

Modes == {"idle", "discover", "download", "manifests", "sync", "parallel"}

StoreTypeOK ==
  /\ \A c \in Callers : call[c].mode \in Modes /\ Range(call[c].todo) \subseteq DOMAIN bucket
  /\ DOMAIN handles \subseteq Range(issued)
  /\ \A h \in Range(issued) : h < number

\* Of each task a call gets the manifests of one attempt, and it is the last that uploaded
\* any, also when two attempts uploaded in the same second; of a step it gets them all.
RetryWins ==
  [][\A c \in Callers : call[c] = Idle /\ call'[c].mode \in {"discover", "manifests", "parallel"} =>
       \A t \in Tasks \cup {StepLevel} :
         LET got == {k \in Range(call'[c].todo) : k.task = t} IN
         got # {} => got = {k \in Outputs(t) : t = StepLevel \/ \A j \in Outputs(t) : j.action <= k.action}]_storeVars

\* No two discoveries return the same handle, and no handle is good for two downloads,
\* whatever the callers do at the same time.
HandlesAreUnique == IsInjective(issued) /\ IsInjective(taken)

\* What is written for a root has every file that some manifest of the root has, as one of
\* them says it is.
WrittenIsWhole ==
  \A r \in results :
    LET group == {g \in r.of : g.root = r.root} IN
    /\ DOMAIN r.files = UNION {DOMAIN g.manifest.files : g \in group}
    /\ \A f \in DOMAIN r.files : \E g \in group : f \in DOMAIN g.manifest.files /\ r.files[f] = g.manifest.files[f]

\* An incremental download keeps of each file what was uploaded last, in whatever order the
\* caller lists the manifests, also for roots that are mapped onto one; and so does a
\* caller that merges what was downloaded in parallel, whichever download ended first.
LaterWins ==
  \A r \in results : r.mode \in {"sync", "parallel"} =>
    \A f \in DOMAIN r.files :
      LET group == {g \in r.of : g.root = r.root /\ f \in DOMAIN g.manifest.files} IN
      \E g \in group : r.files[f] = g.manifest.files[f] /\ \A h \in group : h.time <= g.time

\* In merged manifests the outputs of a job take the place of its inputs.
OutputsWin ==
  \A r \in results : r.mode = "manifests" =>
    \A g \in r.of : g.root = r.root /\ g.key.task # "input" =>
      \A f \in DOMAIN g.manifest.files : r.files[f] # 0

\* Every output manifest is matched to the root it was uploaded for.
MatchedToOwnRoot ==
  \A t \in Tasks \cup {StepLevel} : \A k \in Outputs(t) :
    MatchedRoot(k) # 0 /\ JobRoots[MatchedRoot(k)].root = bucket[k].root

\* Looking for a session action finds all it uploaded, also when it ran a chunk of a step,
\* as long as its id is not part of another's.
FindsTheAction ==
  \A a \in 1 .. begun, t \in Tasks :
    LET own == {k \in Outputs(t) \cup Outputs(StepLevel) : k.action = a} IN
    (\A k \in Outputs(t) : IsNamed(k, a) => k.action = a) => own \subseteq FindByAction(t, a)

\* Statements that do not hold (README, section Divergences).

\* What a download or merged manifests have of a file is what was uploaded last.
LaterWinsEverywhere ==
  \A r \in results :
    \A f \in DOMAIN r.files :
      LET group == {g \in r.of : g.root = r.root /\ f \in DOMAIN g.manifest.files} IN
      \E g \in group : r.files[f] = g.manifest.files[f] /\ \A h \in group : h.time <= g.time

\* Looking for a session action finds nothing of another.
FindsOnlyTheAction ==
  \A a \in 1 .. begun, t \in Tasks : \A k \in FindByAction(t, a) : k.action = a

\* An input manifest is stored for the directory its files are in.
InputsHaveRoots == \A k \in Outputs("input") : bucket[k].root # <<".">>
=============================================================================
