# Verification of rusty-attachments

TLA+ models of [rusty-attachments](../src/README.md), a Rust implementation of
Deadline Cloud job attachments: files of a job are described by *manifests*
(paths, sizes, content hashes), their contents live in an object store under
their hashes (chunked when large), and a worker sees them either as downloaded
files or through a virtual file system that loads content when it is read and
keeps modified files aside. The models cover the virtual file system (block pools,
copy-on-write files, namespace, executor, disk caches, relaxed consistency, and the
FUSE, FSKit and ProjFS front ends) and what is around it (uploads, downloads, lookup
caches, the algebra of manifests, scanning, grouping, submission, and the manifests
of a job in S3).

Paths below are relative to `src/crates/` unless they begin with `design/` or
`utils/`, which are directories of `src/`.

- [Inventory](#inventory): the system's components
- [Modules](#modules): what is modelled, and how it corresponds to the code
- [Runs](#runs): what TLC checks, with which bounds
- [Fairness](#fairness)
- [Proofs](#proofs): what TLAPS proves
- [Divergences](#divergences): where the code does not do what is said of it
- [Limits](#limits): what is only model-checked, what is not modelled
- [Plan](#plan)

To repeat a result, in this directory: `tlc -config MCPools.cfg MCPools`
(each run of the table below names its cfg and module), `tlapm Executor_proofs.tla`.

## Inventory

Interactions first. A file-system callback (FUSE, FSKit, ProjFS) arrives on a
thread of the operating system. The front end resolves the inode in the
**namespace**, and reads or writes through the **copy-on-write layer** (writable
mounts) or straight from the **block pool** (read-only mounts). Both need content
that may have to be fetched, so the callback wraps the work into a future and
hands it to the **executor**, which blocks the callback until the future ends,
times out or is cancelled. The pool fetches a missing block through a
`FileStore` (**object store adapters**, in front of them the **disk caches**);
flushing writes assembled files into the **write cache**. **Relaxed consistency**
may hand out placeholders for content that is not uploaded yet. Outside a mount,
the **scanner** builds manifests from a tree, the **manifest model** composes,
diffs and merges them, **transfers** upload and download their contents with the
help of **hash and check caches**, **manifest storage** keeps and finds manifests,
and **job submission** and the **upload agent** tie these together.

| component | state it keeps | operations | what is hard | correct when |
|---|---|---|---|---|
| block pool `vfs/src/memory_pool_v2.rs` | key index, blocks, pending fetches (three concurrent maps), LRU queue and byte count under a mutex, a reference count and a flush flag per block | acquire, try_get, get_dirty, insert_dirty, modify_dirty, mark_flushed, mark_needs_flush, remove_inode_blocks, invalidate_hash, clear, handle drop | no lock spans an operation; fetches are shared; a caller's future may be dropped at an await; eviction races with use | maps agree, bytes are charged exactly, references count handles, unflushed data stays, every call returns |
| copy-on-write files `vfs/src/write/dirty.rs` and the data handlers of `vfs/src/fuse_writable.rs` | metadata of modified files, their chunks in the pool, whole files in the write cache | cow_copy, create, read, write, truncate, flush, delete, remove new files, clear | a call is many steps; chunk boundaries; blocks evicted between calls; failures in the middle | files read as a flat sequence of bytes, a flush makes the copy on disk that sequence, nothing written is lost before it |
| executor `vfs/src/executor.rs` | token, running flag, bounded queue, runtime with tasks, a oneshot per call | block_on, block_on_timeout, block_on_cancellable, block_on_cancellable_timeout, cancel_all, drop | races of cancellation, timeouts, panics and shutdown with sends and polls; a full queue | every call that can return does, truthfully, and leaves nothing running |
| namespace `vfs/src/inode/manager.rs`, `write/dirty_dir.rs`, `builder.rs`, handlers of `fuse_writable.rs` | inode table (three maps), new and deleted directories, new and deleted files | lookup, readdir, create, mkdir, unlink, rmdir | three layers that every view overlays anew; names reused; operations refused half-way | lookups, listings, table and recorded changes describe one tree |
| FUSE read-only front end `vfs/src/fuse.rs` | open handles, the kernel's enumeration | open, read, readdir, release | three ways of cutting a request into chunks; caches that hold some of them while the store is away | reads are slices of the content, listings add up |
| disk caches `vfs/src/diskcache/` | files under hash names, size counter; materialized files, tombstones, metadata | put, get, write_file, delete_file, recovery at start | shared temporary names, crash between two file operations, counter against files | a file found is complete; a tombstone and a file never contradict each other for good |
| relaxed consistency `vfs/src/relaxed/` | pending keys with a Notify each, placeholders | register, resolve, wait, poll | register and resolve race; lost wake-ups | a waiter of a resolved key wakes |
| export and statistics `vfs/src/write/export.rs`, `stats.rs` | counters | - | - | export_diff_manifest is not implemented in the code |
| object store adapters `vfs/src/content/` | none | fetch | - | stateless |
| legacy block pool `vfs/src/memory_pool.rs` | as the pool, under one mutex | as the pool | fetches and modifications in place span two critical sections | as the pool; only its tests use it |
| FSKit front end `vfs-fskit/src/fskit.rs` | the namespace's, verifiers of directories, unflushed files | lookup, create, remove, enumerate, synchronize | no `&mut self`: handlers interleave, pages are built anew | as namespace, enumerations complete, answered changes told |
| Windows projection `vfs-projfs/src/` | background queue, modified paths, path registry, enumeration sessions | ProjFS callbacks, start, stop, drop | callbacks from many threads, notifications that do not come, lost wake-up | the summary has what ProjFS tells of; listings agree with lookups; shutdown ends |
| transfers `storage/src/upload.rs`, `download.rs`, `cas.rs`, `data_cache.rs` | objects, local files | upload and download of manifests | parallel entries, stale caches, files that change, partial failure | a complete transfer leaves complete objects and files |
| hash and check caches `storage/src/hash_cache/`, `s3_check_cache/` | entries with times | get, put, expire | stale answers | an answer is true of the file or object |
| manifest storage `storage/src/manifest_storage.rs`, the handles of `python/src/lib.rs` | manifests in a bucket, a table of handles | upload, list, choose the latest, fetch, merge, take | attempts within a second, cut short, retried; listing order; callers side by side | one attempt's manifests, the last one's; later content wins |
| S3 clients `storage-crt/src/` | the vendor's client | I/O | - | wrappers |
| manifest model `model/src/` | values | compose, diff, filter, join, partition, subtree, merge, encode, decode | deletions, directories, order | compose(base, diff(base, new)) is new |
| scanner and diff `filesystem/src/` | stat cache | scan, diff, expand | links, a tree that changes | the manifest is the tree |
| path grouping `profiles/src/` | none | group paths under roots | boundaries of prefixes | every path in one group, below its root |
| job submission `ja-deadline-utils/src/bundle_submit.rs` | the request in work | expand, group, hash, upload, describe | files that change between the steps; roots that coincide | a success names only what is there, each input once |
| common helpers `common/src/` | none | path normalisation, hashing | - | data of the other parts |
| upload agent `utils/upload_agent.py` | queue messages, markers | receive, upload, mark, delete | redelivery, crashes between steps | nothing lost, nothing overwritten by an older one |
| front ends and bindings `cli`, `python`, `wasm`, `example` | handles of manifests (`python`) | arguments | - | wrappers |

The behaviours that are hard to test are listed one by one, with their lines and
the properties that watch them, under `hazards` in `PROJECT.json`.

## Modules

| module | stands for | extends |
|---|---|---|
| `MemoryPool` | the block pool, one step per atomic access | |
| `MCMemoryPool` | the properties of the pool that add sizes up | `MemoryPool` |
| `MCPools` | instance: two callers on one pool | `MCMemoryPool` |
| `MemoryPool_proofs` | proofs | `MCPools` |
| `FileStore` | abstract: what an application may expect of the files | |
| `DirtyFile` | the copy-on-write layer | |
| `SerialFile` | one caller on the layer, and the refinement to `FileStore` | `DirtyFile`; an instance of `FileStore` |
| `MCDirtyFile` | instances, and the properties of several callers | `SerialFile` |
| `DirtyFile_proofs` | proofs, for several callers and for one | `SerialFile` |
| `LegacyPool` | the first block pool, one step per critical section | |
| `MCSerial` | instance: one caller on files or pool, two on the first pool | `MCDirtyFile`; instances of the pools |
| `Executor`, `MCExecutor`, `Executor_proofs` | the executor, its instances, its proofs | |
| `Namespace` | the directory tree under a FUSE session | |
| `Namespace_proofs` | proofs | `Namespace` |
| `FsKit` | the handlers of the FSKit volume, side by side | `Namespace` |
| `ReadPaths` | how three front ends cut and serve reads; listings by pages | |
| `MCNamespace` | instance of the three | `FsKit`; an instance of `ReadPaths` |
| `PendingTracker`, `UploadAgent` | the readers' and the uploader's side of relaxed consistency | |
| `Relaxed` | the two composed, with who sends and who polls | `UploadAgent`; an instance of `PendingTracker` |
| `MCRelaxed` | instance | `Relaxed` |
| `Relaxed_proofs` | proofs | `Relaxed` |
| `ProjFs` | changes that call back and that do not, queue, summary and life of the Windows projection | |
| `Projection` | the projected tree and an enumeration of it | |
| `MCProjFs` | instance of the two | `ProjFs`; an instance of `Projection` |
| `ProjFs_proofs` | proofs | `ProjFs` |
| `ReadCache`, `WriteCache` | the caches on disk, one step per call of the file system | |
| `LookupCaches` | hash cache, check cache, data cache | |
| `LookupCaches_proofs` | proofs | `LookupCaches` |
| `MCDiskCaches` | instance of the three | `ReadCache`, `LookupCaches`; an instance of `WriteCache` |
| `Upload` | the way up of a transfer | |
| `Download` | the way down, of what `Upload` has sent | `Upload` |
| `MCTransfer` | instance: a manifest uploaded, then downloaded | `Download` |
| `Upload_proofs` | proofs, of both directions | `Download` |
| `ManifestOps` | the algebra of manifests, as functions | |
| `Scanner` | snapshots and comparisons of a directory that changes | `ManifestOps` |
| `MCSnapshots` | instance | `Scanner` |
| `Grouping` | roots of groups of paths, as functions | |
| `Submission` | a submission of a bundle | `Grouping` |
| `ManifestStore` | the manifests of a job in S3, and the table of handles | an instance of `ManifestOps` |
| `MCJobs` | instance of the two | `Submission`; an instance of `ManifestStore` |

Operators whose comment begins with *Mutation* (`Name_What`) are plausible bugs of
the definition that follows; `PROJECT.json` says which property notices which.

Modules that share a run are explored one at a time: a variable `focus` (`part`,
`frontEnd`) chosen in the initial state says which of them moves. Where components
really interact (`Relaxed`, `Download` over `Upload`, `FsKit` over `Namespace`, `Submission` over
`Grouping`, `Scanner` over `ManifestOps`) their steps are composed.

### MemoryPool

The pool has no lock around an operation: three `DashMap`s, a mutex around
`LruState`, atomics in each `PoolBlock`. A step is therefore one access to a map,
one critical section of the mutex, or one atomic operation. A chain of accesses
whose guards are still held (an entry API call, a `get` whose `Ref` lives on) is one
step.

| TLA+ | code |
|---|---|
| `key_index`, `blocks`, `pending` | the fields `key_index`, `blocks`, `pending_fetches` |
| `obj` | the `PoolBlock` objects; they outlive their removal through `Arc` |
| `lru_order`, `current_size`, `next_id` | `LruState` |
| `fetch`, `next_fetch` | the shared futures, by identity |
| `pc`, `loc`, `hold` | a caller: where it is, its locals, the handle it got |
| `calls` | bound on calls |

A call begins with an action named after it (`AcquireHit`/`AcquireMiss`, `Insert`,
`Modify`, `Get`, `MarkFlushed`, `MarkNeedsFlush`, `RemoveInode`, `InvalidateHash`,
`Clear`) and walks through named points: `acquire_pending` → `start_lookup` →
`start_pending` → `register` → `fetching` → `complete` → `complete_lookup` for the
caller that fetches, `waiting` for those that found a future, then the space check
(`evict_check`, `evict_scan`, `evict_none`), the removal of a victim (`remove` →
`remove_index` → `remove_lru`) and the insertion (`allocate` → `insert_block` →
`insert_index`). `Cancel` drops a caller's future at its await, as a timeout or
cancellation of the executor does. `Drop` ends a handle's life.

### DirtyFile, SerialFile, FileStore

A step is one critical section of the metadata lock, one call of the pool or one
call of the write cache. The pool's calls are atomic here; their interleavings are
in `MemoryPool`. `meta`, `pool` and `disk` are `dirty_metadata`, the inode blocks
of the pool, and the write cache. A byte is `100 * call + place`, so that a byte
tells which write it is from and where in the file it belongs.

The handlers of `fuse_writable.rs` make the calls: `CallWrite` checks and makes the
copy-on-write entry (`Cow`), loads the chunks the write touches (`EnsureHit`,
`EnsureMiss`, `Load`, `LoadMark`), splits the bytes at chunk boundaries (`WritePlan`,
`Part`, `Modify`), marks chunks (`MarkDirty`) and grows the file (`Grow`). Reads have
the single-chunk path (`ReadSingle`) and the one over several chunks (`ReadChunk`);
`CallCleanRead` is the handler's own path for files that are not modified. Truncate,
flush (`FlushSnapshot` → `Assemble` → `DiskWrite` → `FlushMark` → `FlushDone`), delete,
removal of the new files below a directory, and clear follow their functions. `Evict`
is the pool's eviction of a block that needs no flush, `Faults` says which calls may
fail.

`SerialFile` is the layer as a FUSE session drives it: its handlers take the file system
by `&mut self`, so there is one caller (`OneCaller`). `SerialCalls` are the calls that lose
no bytes even so; what they leave out is a divergence each.

`FileStore` is the promise: `content` and `durable` are one sequence of bytes per
file, calls take effect at once, and a read of no bytes of a file that is there answers with
none. `ImplementsFileStore` is `Store!StoreSpec` with
`content` and `durable` read off the chunks, the manifest and the metadata (`View`)
between calls, and the values before the call while one runs (`Seen`; `before` is a history
variable for that). Of a write that fails half-way `FileStore` allows `TornWrite`:
some of its bytes are there, the length is not changed. `Initial`, what the files hold before
the first call, is a function from files to contents: the refinement gives it the manifest's.

### Executor

`cancelled`, `running`, `loop`, `queue` are the token, the flag, the thread and the
bounded channel; `task[c]` is where the future of caller `c` is (`wrapped` in its item,
`queued`, `ready` or `polled` on the runtime), `chan[c]` its oneshot. A call is a record
`[timed, cancellable, fate]`: which of the four `block_on` variants it is, and whether
its future ends, hangs or panics when nothing stops it. `PollCancelled` and `Elapsed`
are the branches of the biased select and of the timeout; a task is dropped
(`DropTask`) only between two polls, when the loop has been left. `CancelCommand`,
`Stop` and `Drop` are what the Windows virtualizer and the last owner do with the
executor; `Join` is the thread join in `drop`.

Of tokio the model takes: a dropped receiver refuses sends and drops what is
queued; a dropped sender answers the oneshot with an error; dropping a runtime
waits for the polls under way; a biased select looks at its branches in order. These
are facts about a library outside this repository.

### Namespace

`inodes`, `path_index`, `children` are the maps of the inode table, `dirty_dirs` the
directory tracker, `dirty_files` the path, parent and state of tracked files. A FUSE
session runs one handler at a time (`&mut self`), so a handler is one step:
`Create`, `MkDir`, `Unlink`, `RmDir`; `Lookup` and `Listing` are the two ways of
overlaying the layers, written as in `lookup` and `readdir`. The kernel walks a path
by `lookup` first (`Walk`), so a handler is called for a parent that is there, and
`create` and `mkdir` for a name that lookup did not find. `Tree` is what a user sees.

`clear_dirty` and manifests that list deleted directories are left out; the export that
both belong to is not implemented in the code.

### LegacyPool

`vfs/src/memory_pool.rs` has one mutex around all its tables, so a step is one critical
section. `key_index`, `blocks`, `lru_order`, `current_size`, `pending` are fields of the
state under it; `th[t]` is a caller between two sections: a fetch (`StartFetch` →
`FetchEnds` → `CompleteFetch`), the wait for another caller's (`WaitEnds`), the two halves of
`modify_dirty_in_place` (`ModifyBytes`, `ModifyEnds`). Sizes are taken modulo `Width`, as
`current_size` wraps in release builds. The module is public and tested, and nothing
calls it; its hash cache is left out.

### FsKit

The bridge clones one volume for every call. A handler is therefore a sequence of steps, one
per map it goes to: `StartCreate` → `CreateCheck` → `CreateInsert` → `Bump` for a file,
`MkDirCheck` → `MkDirAdd` → `MkDirTrack` for a directory, `RemoveKind` → `RemoveFile` or
`RemoveFilesUnder` → `RemoveCheck` → `RemoveTrack` → `RemoveDetach`, `EnumVerify` →
`EnumPage` → `EnumEnd`, `SyncFlush` → `SyncEnd`. `Page` builds a listing anew for each
cookie, in the order in which the map happens to iterate (`order`). `verifiers` are the
directories' change counters. `Serialised` keeps apart calls that change one directory, or
the tree below a directory that is being removed, which is what a kernel's directory locks
do; without it most properties of the tree fail (Divergences).

### ReadPaths

One call is one step. `Inodes` is the tree, `Objects` what the store holds under a hash,
`Whole` what was hashed. `pool` and `disk` are the memory pool and the disk cache by hash
and chunk; between calls the pool evicts, the disk cache loses files, and each call finds
the store without some hashes. The three front ends are `mount`: `fuse.rs`
(`read`, `read_single_hash`, `read_chunked`), the volume's read of unmodified files in
`fskit.rs`, and the hydration in `vfs_callbacks.rs` with the loop of `callbacks.rs` around
it. `listing` is the kernel's enumeration by offsets.

### PendingTracker, UploadAgent

`pending` and `new_keys` are the tracker's map and queue, `notified` the handles that were
signalled; `Look` and `Insert` are the two accesses of `register`, `Remove` and
`NotifyWaiters` those of `resolve`, `Drain` a pop of `drain_new_keys`. A step of an agent is
one call of SQS or S3, or one access to the local file, in the order of `process_message`:
`Receive` → `CheckMarker` → `LookAtFile` → `Hash` → `HeadCas` → `Upload` → `WriteCompletion`
→ `Delete`. `Reappear` is the end of a visibility timeout, `Crash` the end of a process,
which an exception is too; the agent starts again. Who sends requests and polls for markers
is not in the code: `Relaxed` does what the comments of the tracker and of the memory store
ask for.

### ProjFs, Projection

ProjFS calls back after a change on the thread that made it, if the type of notification is
registered. `start` builds the mappings of its options, with deletions, renames and
modifications, but `start_virtualizing` passes none (`vfs-projfs/src/virtualizer/projfs.rs:468-475`);
ProjFS then sends its default notifications, of which `notification_cb` acts on that of a new
file or directory. So `Create` is a change with a callback - `LookUp`, `Allocate`, `Insert`,
`InsertBack` in the path registry, `Enqueue` of a task - and `Delete` and `Rename` change
the files and nothing else (Divergences); a modification changes nothing of the model. `made` is a
history of what was created. `WorkerLook`, `WorkerWait`, `Handle` are the background thread with
its condition variable; `created_files`, ... are the sets of `ModifiedPathsDatabase`. `Start`,
`StartVirtualizing`, `Stop`, `FreeContext`, `SetFlag`, `NotifyAll`, `Join` are the life of the
virtualizer, which may be started again, and of the runner. A registration that fails leaves its
callback context behind. `Projection` has
`FromManifest`, lookups without regard to case, and one session (`StartDirEnum`,
`GetDirEnum`, `EndDirEnum`): a call may restart the scan, and has room for any number of
entries.

### ReadCache, WriteCache, LookupCaches

A step of the first two is one call of the file system (create, write, rename, length,
remove), and a stop may come between any two; then the next start scans the directory.
`temp` and `Temp` are the temporary names that callers share. In `WriteCache`, `memory`
says which of the two implementations runs; `expected` is a history of what calls left.
In `LookupCaches` a step is one statement of the database or one access to the file; several
processes have the tables open, days pass, objects expire in the bucket.

### Upload, Download

`TransferSpec` is an upload until it reports success and then a download elsewhere, each as
often as it takes. A step is one request, or what a task does between two awaits. `up` and
`down` say where the task of each entry is, `batch` and `stage` which of the two batches
(small, large) runs, at most `MaxConcurrency` tasks at a time. Contents are values of which
a chunk has one and an entry has the sequence. `UploadAgain` and `DownloadAgain` repeat a
call after a failure or a stop. `Found` is what the destination may hold before, `Copies`
the names that `generate_unique_copy_path` tries for a path. The options are the default
ones: sizes are verified. `client` chooses between the two S3 clients, which open the local
file at different moments.

### ManifestOps, Scanner, Grouping

Functions on trees: a manifest has `dirs` and `files` (a function from paths to entries). A
path is a sequence of names; what the code does on the text of a path (prefixes that do not
end at a separator, names of the form `$N`) comes in through `BeginsWith`, `Dollar` and
`Targets`. `Encode` and `Decode` are the directory references of version 2025-12. `Scanner`
walks a directory one `stat` or one listing at a time with the `StatCache`, while
`EditFile`, `MakeFolder`, `RemoveTree` and `Chmod` change it, and keeps the last two
results, on which the functions of `ManifestOps` are checked: no manifest is made up.
`Grouping` computes roots from storage profile locations, inputs, outputs and references.

### Submission, ManifestStore

`Submission` goes `Expand` → `Group` (with `AttachOutputs` for the roots that have outputs only) →
for each group `ScanGroup`, `UploadFile`, `PutManifest` → `Finish`, and `Touch` changes or removes
files in between. `ManifestStore` has attempts at tasks that
upload one manifest per root (`BeginAttempt`, `UploadOutput`, `EndAttempt`), in seconds of a clock, and
callers that list, choose (`Latest`, `Selected`), fetch one after another or in parallel, merge,
map paths and take manifests by handle. A key's hash is modelled by the text it is the
hash of.

## Runs

| run | module, cfg | what it asks | size |
|---|---|---|---|
| `pool_concurrent` | `MCPools` | races of all operations of the pool, with cancelled fetches on read-only keys, with liveness | 428 302, 1:48 |
| `serial` | `MCSerial` | long sequences on files, pool and first pool: does the layer implement `FileStore`, do the books balance? | 965 490, 2:30 |
| `dirty_threads` | `MCDirtyFile`, `MCDirtyThreads.cfg` | two callers on one file, evictions at any time: does every byte keep its place? | 861 598, 0:35 |
| `dirty_flush_evict` | `MCDirtyFile`, `MCDirtyFlushEvict.cfg` | violated: flushed bytes are lost by eviction | |
| `executor` | `MCExecutor` | two callers, all kinds of calls, cancellation and shutdown at any moment | 21 797, 1:14 |
| `namespace` | `MCNamespace` | one tree under FUSE and FSKit; reads and listings of three front ends | 100 543, 1:11 |
| `relaxed` | `MCRelaxed` | readers, tracker, queues and agents: is every request answered? | 761 214, 2:40 |
| `projfs` | `MCProjFs` | does the summary have every creation, a listing what is in the folder? | 725 457, 1:35 |
| `disk_caches` | `MCDiskCaches` | files, tables and stops: is an answer of a cache true? | 2 304 826, 1:42 |
| `transfer` | `MCTransfer` | up and down again, cut off and retried | 1 160 546, 2:35 |
| `snapshots` | `MCSnapshots` | scans and diffs of a changing directory; the algebra on what they give | 1 102 409, 1:11 |
| `jobs` | `MCJobs` | every small submission; attempts and callers on the manifests of a job | 2 943 571, 3:11 |

Sizes are distinct states, times are of two workers; the cfg has the module's name where
none is given. What each property says, and of which code, is in the comment above its
definition. Properties that are asked of the same states are conjunctions of named parts:

| property | parts |
|---|---|
| `ChargesAndFetchesAreOwed` | `ChargedExactly`, `OvershootBounded` for read-only keys; `PendingHasFetcher` where nobody is cancelled |
| `BlocksBelongToFiles` | `UnflushedIsPinned`, `NoOrphanBlocks`, `UnflushedEvictionLosesNothing` |
| `PoolsAreConsistent` | `OneBlockPerKey`, `BooksBalance` of the pool; `TypeOK`, `TablesAgree`, `ChargeIsOwed`, `HandlesAreCounted`, `FetchesAreShared` of the first one |
| `EvictionsLoseNothing` | `DirtyNotEvicted` of the pool; `EvictionLosesNothing`, `RoomIsMade` of the first one |
| `BytesStayInPlace` | `TypeOK`, `BytesKeepTheirPlace` |
| `CallsEnd` | `CallsReturn`, `CancelEndsAll` |
| `TreeIsSound` | `TypeOK` of `Namespace`, `TableIsATree`, `ListingMatchesLookup`, `NothingStranded` |
| `ChangesDescribeTree` | `DiffIsTree`, `DoneAsAnswered` |
| `BridgeIsComplete` | `KitTypeOK` of the bridge, `IdsAgreeWithPaths`, `EnumerationIsComplete`, `SyncIsComplete` |
| `ReadsAreRight` | `TypeOK` of `ReadPaths`, `ReadsAreSlices`, `NeverPanics`, `CachesHoldObjects`, `PagesAddUp` |
| `RequestsAreAccounted` | `AgentTypeOK`, `MarkersHaveObjects`, `RequestsAreKept` |
| `CreationsAreKept` | `ProjTypeOK`, `InodesAreUnique`, `RegistryFindsBack`, `ContextIsAlive`, `NothingIsDropped`, `CreationsAreListed` |
| `ListingsAgree` | `ListingIsExact`, `ListedIsFound` |
| `DiskFilesAreSound` | types, `WholeUnlessShared`, `SizeCoversFiles`, `CallsLast`, `ListedWasWritten` |
| `AnswersWereTrue` | `CachedHashIsOfFile`, `KnownWasThere` |
| `UploadsAreThere` | types, `UploadedIsThere`, `SeenIsThere` |
| `DownloadsAreRight` | types, `ExistingIsKept`, `OverwriteCompletes`, `EntriesAreCounted`, `RoundTrip` |
| `SnapshotsAreTrees` | `ScannerTypeOK`, `SnapshotIsTree`, `BuiltIsValid` |
| `DiffsLeadOver` | `DiffMakesTree`, `DiffLeadsOver` |
| `OperationsKeepFiles` | `EncodingKeeps`, `MergeIsCompose`, `PartitionKeepsFiles` |
| `SubmissionsAreComplete` | types, `InputsAreAttached`, `AttachedIsUploaded`, `RootsDiffer`, `OutputsAreListed` |
| `ResultsAreWhole` | `HandlesAreUnique`, `WrittenIsWhole`, `LaterWins`, `OutputsWin`, `MatchedToOwnRoot`, `FindsTheAction` |

**pool_concurrent.** Two callers make two calls each, in a pool with room for one block, so
that a second key always evicts the first or finds it in use. With `focus` "readers" there
are two hash keys, and a caller may be cancelled at its await; with "mixed" one hash key and
one inode key, writes of length 0 and 1, flush marks, deletes and invalidations reach every
pair of operations in every interleaving. A block's reference count is the number of
handles, `current_size` is what is in the pool or on its way in or out, the pool exceeds
`max_size` by at most a chunk per other caller (the space check and the allocation are two
critical sections), a dangling index entry always has a thread about to remove it, a
registered fetch has a fetcher that will complete it, and every call returns: no waiter is
left on a future, no eviction loop spins. `clear` is left out: it empties the maps one by
one and a concurrent insertion leaves a block outside the queue (Divergences).

**serial.** One caller at a time is how a FUSE session drives files and pool. `part` "files":
six calls on a new file of up to two chunks of two bytes (lengths 0 to 4 give every case:
inside a chunk, across, at the end, beyond), five on a manifest file of one and a half
chunks, evicted from between calls. Loads, flushes and the search for room may fail. Every
call does what `FileStore` says, an unflushed chunk is in the pool and pinned, no block is
left for a file the layer has forgotten. Writes leave no gap, truncates do not extend, and
the manifest file is never flushed: each of these restrictions excludes a divergence below.
They are `SerialFile`'s, and `OneCallerAssumption` says that the constants of the instance are
as its theorems assume them; the run adds that calls go to one file of the two at a time
(`FocusNext`).
"pool": five calls, two chunks, lengths 0 to 2 in a pool of two bytes: a block that
grows beyond the limit, eviction of flushed blocks, `PoolExhausted`, and `clear` are all
reached. "first": two callers of the first pool with three calls each; one hash and
two inodes of which either evicts the other. Nobody drops a future there and `clear` comes
while nothing is half-way (Divergences).

**dirty_threads.** Two callers, which FSKit and ProjFS have, reach all interleavings of the
steps of three calls on the manifest file, or of four on a small new one. Bytes can be lost
(Divergences), but none turns up at another place of the file, or of the new file's copy on disk.

**executor.** Queue of one item, one worker, two callers: the smallest instance where a
send waits for the queue, a task waits for the worker, and the other caller's hanging
future occupies it. More callers add no new kind of waiting.

**namespace.** The manifest has a file in a directory, an empty directory that it
lists, and a symbolic link at the top; two names, paths of up to three components.
`frontEnd` "fuse": up to three new files and three new directories, enough to make, remove
and make again a name as the other kind, at every depth, with and without an entry of the
manifest. "fskit": three calls by two callers at a time, one new file and one new directory,
pages of three entries, any order of iteration. "reads": a file of one object, one of
three chunks that shares an object with it, one not yet hashed, an empty one and a link;
reads of three lengths at every offset and beyond, at most two handles, some of the
objects away. "listings": pages of two entries.

**relaxed.** Two readers register one file, two agents serve both queues, a request and an
unusable message, with redelivery at any time and one crash or one change of the file. A
second agent is what overlaps with a redelivery; a second file would be independent.

**projfs.** Two threads have a file each and share one, with a file of the manifest and a
directory; six changes. Both threads may create the shared file again and again, with
deletions and renames of it in between, so that callbacks for one path overlap with each
other and with the queue. Start, stop and drop come at any time. "listings": 24 manifests,
every spelling of folders of one level, any room up to two entries per call.

**disk_caches.** One content of length 1 and one of length 2, two callers, five calls, one
stop; four paths, three of which share a temporary name, two writers, four calls, one stop.
The tables: two workers on two machines, or two keys of one bucket, three days with
lifetimes of one day, three lookups, two edits. An edit changes size or time of its file
(`EditsKeepStat` FALSE; otherwise see Divergences).

**transfer.** Three files: two small ones, of which one is named like the other's copy, and one
of the large batch in two chunks, the first with the content of a small one. Two tasks at a time; the
bucket empty or with a short object; one fault in the upload and two in the download; five states of the
destination with older, longer and linked files; three conflict resolutions, two clients.

**snapshots.** Three directories: a nested file, a sibling whose name begins alike, names
that look like references, links inward, outward and up; one change at any moment of two
calls. A second change in the same call shows nothing that one does not.

**jobs.** "submission": all requests of up to two inputs, one output directory, one
reference, under three storage profiles, strict or not, with a file changed or removed
meanwhile. "store": three attempts at a task or a chunk within two seconds, each with one or
two manifests and cut short anywhere, two roots of which one is mapped onto the other, and a
call after every such course. "handles": two callers, three calls, when the workers are
done.

Deadlock checking is on where the system never stops by itself: `AllIdle` (pool, files) and
`Done` (executor) are the stuttering of a system that nobody calls any more, and the
agents poll for ever. It is off in `namespace`, `projfs`, `disk_caches`, `transfer`, `snapshots`
and `jobs`, which end when their bounded calls are used up; there, that something comes to
its end is a property (`CreationsAreRecorded`, `DownloadEnds`) or part of one. In `projfs` the join
of the shutdown may wait for ever, which is a divergence (`ShutdownEnds`).

## Fairness

Only the runs with liveness properties have any.

- `MemoryPool`: weak fairness of `Step(t)` for each caller. The runtime keeps polling
  every task, the store answers every fetch with data or an error, and a caller
  lets go of its handle. Nobody is obliged to begin a call or to cancel one.
- `Executor`: weak fairness of the thread and of the join; for each caller strong
  fairness of sending or receiving (the queue's semaphore is first in, first out, so a
  sender gets a place that is freed again and again), of being polled (the run queue is
  first in, first out), and of finishing: a future that ends or panics, and a timer, do
  so after finitely many polls. A future that hangs is only obliged to return from each
  poll. The last point is an assumption on the code that runs in the futures: one that
  blocks its worker in a system call is outside it, and then neither a timeout
  nor cancellation takes effect (a hazard below without a property).
- `UploadAgent`: weak fairness of each agent, which is a loop that is started again when it
  stops; weak fairness of the end of a visibility timeout; strong fairness of the delivery of
  each message, which is what SQS promises: a visible message is delivered in the end, although
  any single poll may miss it. Crashes and edits are not fair, and bounded.
- `ProjFs`: weak fairness of the worker thread and of callbacks under way. Applications are
  obliged to nothing, and the shutdown may come at any time or never.
- `Download`: weak fairness of each task and of the end of a batch: the runtime polls,
  and the client answers every request with data or an error.

The other modules have no liveness properties: their calls are finite sequences of calls
of the others.

## Proofs

TLAPS proves these for every value of the constants that satisfies the modules'
`ASSUME`s: any number of callers, keys, files, messages, faults and calls. Where a component has
more than one specification or needs more than its module assumes, the theorem says which
and what. Each but four states a property of a run: `AnswersCanBeFetched` is what `MarkersHaveObjects`
means for a reader in the long run; `BytesCorrect` and `FetchesCorrect` are the halves of `ChargesCorrect`, each under
fewer restrictions; and the run asks for what `RecordsCorrect` states as `ChangesDescribeTree`,
which `MCNamespace` puts together for both front ends.

| theorem | states | of the run |
|---|---|---|
| `MemoryPool_proofs!TypeCorrect` | `Spec => []TypeOK` | `pool_concurrent` |
| `MemoryPool_proofs!RefsCorrect` | `Spec => []RefsCountHandles` | `pool_concurrent` |
| `MemoryPool_proofs!IndexCorrect` | `NoDanglingIndex` always holds, without `clear` | `pool_concurrent` |
| `MemoryPool_proofs!QueueCorrect` | `BlocksAreQueued` always holds, without `clear` | `pool_concurrent` |
| `MemoryPool_proofs!ChargesCorrect` | `MCSpec => []ChargesAndFetchesAreOwed`, if the limit is a chunk at least | `pool_concurrent` |
| `MemoryPool_proofs!BytesCorrect` | `ChargedExactly` always holds, without `modify` and `clear` | |
| `MemoryPool_proofs!FetchesCorrect` | `PendingHasFetcher` always holds, without `cancel` | |
| `DirtyFile_proofs!FilesCorrect` | `Spec => []BytesStayInPlace` | `dirty_threads` |
| `DirtyFile_proofs!FilesAreFlat` | `SerialSpec => ImplementsFileStore`, with one caller | `serial` |
| `DirtyFile_proofs!BlocksStayWithFiles` | `SerialSpec => []BlocksBelongToFiles`, with one caller | `serial` |
| `Executor_proofs!WorkEnds` | `Spec => []NoWorkAfterReturn` | `executor` |
| `Executor_proofs!AnswersCorrect` | `Spec => []AnswersAreTrue` | `executor` |
| `Executor_proofs!ExecutorTypeCorrect` | `Spec => []TypeOK` | `executor` |
| `Relaxed_proofs!RequestsCorrect` | `Spec => []RequestsAreAccounted` | `relaxed` |
| `Relaxed_proofs!HandlesCorrect` | `Spec => []HandlesAreLive` | `relaxed` |
| `Relaxed_proofs!AnswersCanBeFetched` | who has read a completion marker finds an object under its hash ever after | |
| `ProjFs_proofs!ProjectionKeepsCreations` | `ProjSpec => []CreationsAreKept` | `projfs` |
| `LookupCaches_proofs!AnswersCorrect` | `LookupSpec => []AnswersWereTrue`, if edits change size or time | `disk_caches` |
| `LookupCaches_proofs!CleanupCorrect` | `LookupSpec => CleanupIsUnseen` | `disk_caches` |
| `Upload_proofs!UploadsCorrect` | `UploadSpec => []UploadsAreThere` | `transfer` |
| `Upload_proofs!DownloadsCorrect` | `TransferSpec => []DownloadsAreRight` | `transfer` |
| `Namespace_proofs!TreeCorrect` | `Spec => []TreeIsSound` | `namespace` |
| `Namespace_proofs!RecordsCorrect` | `Spec => [](DiffDescribesTree /\ DoneAsAnswered)` | |

The specification of a theorem is that of the component. The runs start from part of its
initial states and take part of its steps, or steps of another component that leave this
one's variables alone (`MCProjFs`, `MCDiskCaches`).

**Types of the pool.** `TypeOK` is not inductive: locals are reset to `NoKey` and
`NoBlock` between calls, and a step uses them. `TypeInv` adds `LocalsKnown`: at each
program point, which locals hold a key or a block. The proof has a lemma for each group
of actions (`TypeAcquire`, `TypeEvict`, ...), each with a step per action.

**References.** `RefsCountHandles` needs three more facts: the objects of ids not yet
allocated count no references and nobody holds them (`IdsAllocated`), handles are ids
or `Detached` (`HoldsKnown`), and types. `HoldersGain` and `HoldersLoss` say what one
thread's change of handle does to the cardinality.

**Index and queue.** A removal goes blocks, index, queue; an insertion goes queue,
blocks, index. Between two of their steps the structures disagree. What makes the
invariant inductive is who knows an id: the id of a block being inserted is known to
its thread only (`Private`) - it is new when allocated, eviction passes over it because
its inserter holds a reference (here `RefsCountHandles` is needed), and the index does
not name it yet. `IndexKeys` says that an index entry names a block of its key.

**Charges.** `ChargedExactly` compares a counter with a sum, a fold over the set of blocks.
The proof counts instead: a block of length `n` has `n` units, and the units of disjoint
blocks add up (`TotalTake`). That the fold gives their number (`SizeIsTotal`) is a recursion
over finite sets, reached through the library's fact that the finite sets are well founded
by inclusion. A step then moves a block between three places - the pool, a thread that has
allocated it and not inserted it, a thread that has removed it and not discounted it - and
`OwedApart` says that no block is in two of them. `OvershootBounded` needs what is about
to be charged too (`RoomMade`): each thread between its check for space and its allocation
has room for a chunk, but for one chunk of each other thread. A pool found empty in
`EvictEmptyPool` is the difficult case, since its check has failed: its bytes are those of
threads that owe a block, and these are not the ones that are about to allocate
(`EmptyPoolCharged`). The bound needs `ChunkSize <= MaxSize`: a pool smaller than a chunk
takes one all the same. `FetchInv` is `PendingHasFetcher` itself with the types: a thread that
registers replaces the future of another, whose removal then takes the newer entry out,
and never leaves one without a thread.

**Files.** A byte's place follows from which chunk it is in and where, so the invariant is
about chunks: the data of a block has at place `j` only what may stand at
`c * ChunkSize + j` of the file (`ChunkIsSound`). A call that fetches or cuts a chunk, or
assembles the file, carries such data across critical sections in which others write, and
a write of several chunks carries how much it has sent; `LocalsAreSound` says of each point
what these locals are, independently of what others do meanwhile. That is the argument why
concurrent writers can lose bytes of each other (Divergences) and never misplace them: a
write reaches chunk `c` with `off + sent = c * ChunkSize` unless it is its first
(`WalkIsSound`), so `PartFits` puts each byte where it belongs. The rest is division by the
chunk size (`Times`, `Division`, `ChunkInRange`, `LastChunk`) and lemmas about what the
operators on chunks do (`OriginalIsSound`, `CutIsSound`, `SpliceIsSound`). That the manifest's
files are no longer than `MaxSize` is assumed (`DirtyAssumption`); `MaxSize` is arbitrary.

**One caller.** `FilesAreFlat` is a refinement: every step of the layer is a step of
`FileStore` or changes nothing of what an application sees. A call changes the files in its
last step only, as seen through `Seen`; the invariant `SerialInv` has to know until then how
far it has come. Between two calls every file is `Untouched`: what `View` reads off its
chunks, the manifest and its length is what `before` says, the blocks of its dirty chunks
are pinned, and so is its copy on disk. During a call all other files are, and `CallInv`
says of the caller's file, for each point of each operation, what has been done: of a write,
that the bytes sent so far stand over the old ones and the rest is as it was (`WriteInv`);
of a read, that the buffer holds what the file holds from the offset to the chunk it is at
(`ReadInv`); of a truncation, what has been cut; of a flush, that what is assembled is the
file up to the chunk it is at; of a removal of several files, which are gone. The lemmas
compare sequences of bytes place by place: the provers do not see that two sequences with
the same bytes are the same. `SerialInv` holds only because of what `OneCaller` and
`SerialCalls` say: two callers lose each other's bytes, and each excluded call is a
divergence. Besides, `NoContent` is no sequence of numbers (`DirtyAssumption`), as the code
tells an absent file from an empty one. `BlocksBelongToFiles` follows from `Pinned` and from
the shapes of entries and blocks (`ShapesInv`): a block of a file of the manifest that is
not pinned holds what loading gives.

**Executor.** A call returns when its channel is closed or holds a value, so the
invariant says where the future is while the channel is still empty (`Lifecycle`), that
the items of the queue belong to different waiting calls (`QueueIsOfWaiting`), that the
thread leaves its loop only after cancellation (`LeftIsCancelled`) and that what is in a
channel is true of the call that waits for it (`MessagesAreTrue`). `TypeOK` needs, besides,
that the queue keeps its length, and the thread and the owner their states (`ThreadTypes`).

**Relaxed consistency.** An agent acts on what it read several steps earlier. `Progress` says
what it knows at each point: its message exists, the object was in the bucket when it is about
to write the marker, a marker was there when it is about to delete the message. All this
stays true, whatever crashes, redeliveries and second agents do, since no step takes an
object away, or a marker without putting another in its place (`StoreOnlyGrows`). It may be
another: a completion is replaced by a failure when a second agent finds the file gone
(`SuccessStands` in Divergences). What an answer is good for survives that:
`AnswersCanBeFetched` says that under the hash of a completion marker there is an object from
then on, whatever becomes of the marker. Of the tracker: whoever has
registered holds a handle, and it is the one in the map, the one being resolved, or one
that was notified (`TrackerInv`).

**Projection.** The registry and the summary lag behind. `SummaryInv` says that the paths
created are those listed, queued, in the worker's hands or in a callback, and no others. In
`RegistryInv`, `HoldersInv` keeps an inode apart while one callback is between `fetch_add`
and the second insertion, `BackInv` says that an inode which does not lead back yet is with a
callback about to write that, and `KnownInv` that a path without one has a callback about to give
it one; two callbacks for one path both may, and the later wins in both maps. `LifeInv`
says what the shutdown has waited for; `CountInv` bounds inodes and queue by the changes.
`ProjFsAssumption` takes threads and manifest as finite.

**Tables.** A caller stores a hash of what it has read under the stat it took before, and
the file may have been edited in between: the table may hold hashes that are not of any
content the file had with that stat. What makes the answers true all the same is who can ask
with it. `TableOk` and `CallOk` say that the entry under the stat a file *has* is the hash of its
content, and that a caller that finds an entry under the stat it took finds a content the file has
had since; `PairOk` relates two callers, one about to store and one that will ask, and is what
makes it inductive: whoever asks with that stat took it before the edit. This needs that an
edit changes the size or the time (`~EditsKeepStat`), and fails without (Divergences).
`ObjectInv` says that what is in the table was in the bucket on the day it was seen, and that who is
about to write the table has seen the object today. `CleanupCorrect` needs neither: it compares the
two conditions, of a lookup and of the cleanup, and fails when they differ by a day.

**Upload.** An entry counts as uploaded by what its task was told: `Covered` are the chunks
it has been told of, `StoredInv` says that these have an object and so does what the check
cache has seen, and `ContentInv`, while nobody has changed a file, that they are whole where a
task or the cache relies on it. `BatchInv` says that the large files start when the small
ones are done. `UploadAssumption` says that a manifest lists a path once, and that
contents are not the values that stand for a short or missing object.

**Download.** The same invariant goes on while the download runs, and with it `DownInv`.
Each task is in order by itself (`TaskOk`): it writes to no link and to no file that is to
stay, because the name of a copy was free when it was chosen and was no link, and before the
call nothing was there either (`ExistingIsKept` is part of the invariant); what it has in
its hands is what the bucket holds under the hash of its chunk. Of a file that is
overwritten `FileOk` says, chunk by chunk, what has been written (`Came`): a chunk once
written stays while later ones are, in whatever file was there before, and a longer one is
found out by its size. Two tasks never write to one file under "overwrite", since each
writes to its own path and a manifest lists a path once; under "copy" they may, which is why
only `ExistingIsKept` is promised there. `CountInv` counts the tasks that are done. The way
back is whole (`RoundTrip`) since at success of the upload every chunk is covered
(`BatchInv`, `ContentInv`) and at success of the download every chunk has come.
`DownloadAssumption` takes entries and links as finite, a link's path as no file's, and as
many hashes as a file has chunks; nothing in the code checks that (Divergences).

**Namespace.** Listing and looking up overlay four maps in different orders, so the
invariant says how the maps fit together, one part per map (`TreeInv`): every inode of the
table is in a directory of the table under its own name, index and children lead to the
inodes and to nothing else, an entry of a tracker has a path that no other entry and
no inode has unless it is the same one. The properties are about the walk of a path, a
recursive function. `At` says without recursion what a path leads to - the new file of that
path, or the inode that the index gives unless its file is deleted - and `WalkIsAt` that the
walk leads there. This is an induction over paths. The library's induction theorems take
an operator and cannot be used, so `PathInduction` is about a set that contains the root
and every path whose parent's it contains: a shortest path outside would have its
parent's inside. That there is a shortest one (`LeastNumber`) follows from the library's fact
that finite sets are well ordered by inclusion, applied to the intervals `1 .. n`. Each
handler disturbs one or two of the maps; `TreeInv` is proved per handler and per part.
For the records, `DiffInv` says that an inode of the table is the manifest's, unchanged, or
a directory recorded as new or listed by the manifest, and that what is gone of the
manifest is recorded as deleted or has been made again. The proof showed that the diff
describes the tree only up to directories that the manifest implies and does not list: an
earlier form of `DiffDescribesTree` without that exception held on the instance and
not in general (Divergences). `ManifestAssumption` takes the manifest as finite, with a path
once, and with fewer inodes than there are ids below those of new files, which begin
at 0x8000_0000 in the code.

Each inductive invariant was checked by TLC on small instances before it was
proved.

What is only model-checked, and why, is in [Limits](#limits).

## Divergences

One is a run and a finding of `PROJECT.json`: `EvictionLosesNothing` of `MCDirtyFile`
(flush, then evict). The others are definitions that no run checks, because they do not
hold. To see a counterexample, write a cfg with the constants given here (those of the
nearest cfg otherwise), the `SPECIFICATION` given or that of the cfg, and the name as
`INVARIANT` or `PROPERTY`.

Of `MemoryPool` (module `MCMemoryPool`, `SPECIFICATION Spec`; two callers, one chunk of
length 1, `MaxSize` 1, `ChunkSize` 1):

| definition | constants | what the code does | what is said |
|---|---|---|---|
| `AlwaysRefetchable` (invariant) | one caller, one hash key, acquire and cancel, 2 calls, 2 blocks and fetches | a fetcher that is cancelled at its await leaves its future in `pending_fetches` (1250): whoever asks for the key later waits for a fetch that nobody completes | `design/vfs/runtime.md:71` |
| `OneFetchPerKey` (invariant) | one hash key, acquire, 1 call each, 2 blocks and fetches | `start_fetch` looks for a registered future at `vfs/src/memory_pool_v2.rs:1237` and registers its own at 1245: two callers pass between the two, and both fetch | line 672: "In-flight fetches to prevent duplicate requests." |
| `InUseNotEvicted` (property) | two hash keys, acquire, 2 calls each, 4 blocks and fetches | the victim is chosen at 1042-1053 and removed at 1057 without a second look: it can be acquired in between. The data stays with the handle; the bytes are no longer counted | `design/vfs.md:852`: "Blocks with `ref_count > 0` cannot be evicted" |
| `DirtyNotEvicted` (property) with two callers | one hash and one inode key, `DirtySizes` {1}, acquire, insert, modify, mark_flushed, 3 calls each, 6 blocks and fetches | the same gap: a flushed block is chosen, written again, and removed with the new bytes | `design/vfs/runtime.md:64`: "Dirty blocks marked `needs_flush: true` - won't be evicted until flushed" |
| `BlocksAreQueued`, `NoDanglingIndex` with clear | one hash and one inode key, `DirtySizes` {0, 1}, all `Ops` but cancel, with clear, 2 calls each, 4 blocks and fetches | `clear` empties blocks, index and queue one by one; an insertion in between leaves a block outside the queue or an index entry without its block | nothing in the repository calls the pool's `clear`; it refuses while a block is in use |

Of `Executor` (module `MCExecutor`, `SPECIFICATION Spec`):

| definition | constants | what the code does | what is said |
|---|---|---|---|
| `MountedIsServed` (property) | `Calls <- CancellableCalls` | ProjFS gives up one command by `cancel_command_cb` (`vfs-projfs/src/virtualizer/callbacks.rs:429`), which calls `cancel_all`: the token is cancelled for good, and every later call is refused | the comments at `vfs/src/executor.rs:421-423` |

Of `DirtyFile` (module `MCDirtyFile`, `SPECIFICATION FlushSpec`, `Original <- LargeOriginal`;
one caller, `ChunkSize` 2, `Evictions` "never", `Faults` {}, `Gaps` FALSE, spans `Spans` unless
said):

| definition | constants | what the code does | what is said |
|---|---|---|---|
| `FlushedCopyIsComplete` (invariant) | f1, write and flush, `MaxSize` 4, 4 calls | `vfs/src/write/dirty.rs:1406` assembles only the chunks that are in the pool: the copy on disk lacks the chunks that were never loaded | `design/vfs/runtime.md:30,54`: the flush assembles and writes the file |
| `NoChunkPastTheEnd` (invariant) | n1, create, write, truncate, `TruncSizes` {0}, `MaxSize` 4, 4 calls | `dirty.rs:1324` goes by the chunk of the new size, which for 0 is chunk 0 | `design/vfs-writes.md:2510`: shrinking to zero removes all chunks |
| `WrittenBytesStay` (property) | two callers, n1, create and write, `SmallSpans`, `MaxSize` 2, `Gaps` TRUE, 3 calls | `dirty.rs:759`: two callers find a chunk missing, and the later insertion replaces what the other has written | `design/vfs-writes.md:2782`: "Last write wins at the byte level." |
| `ExtensionReadsZeros` (property) | f1, truncate, `TruncSizes` {1, 3}, `Gaps` TRUE, 3 calls | `dirty.rs:1336`: what was cut off comes back from the manifest when the file is extended | `design/vfs-writes.md:2509`, the comment at `dirty.rs:707` |
| `CleanReadsAreRight` (property) | f1, read, `Spans`, 2 calls | `vfs/src/fuse_writable.rs:651` indexes the joined chunks with the offset in the file, though they start at the first chunk read | `design/vfs-writes.md:2280`: reads across a boundary |
| `ReadsHaveFullLength` (property) | n1, create, write, read, `Gaps` TRUE, 4 calls | `dirty.rs:530`: a chunk shorter than the file's length gives a short read | the test at `dirty.rs:1763` reads the full length |
| `ZerosOnlyForNewFiles` (property) | f1, `SmallSpans`, truncate and read, `TruncSizes` {1}, `MaxSize` 2, `Evictions` "any", 3 calls | a clean chunk of a manifest file that is evicted between loading and reading reads as zeros | the comment at `dirty.rs:713-714`: zeros are for a new file |
| `UnflushedIsPinned` with two callers | `MCDirtyThreads.cfg`, `SPECIFICATION ThreadSpec` | a write between the assembly of a flush and its mark (`dirty.rs:1428`) is marked clean without having been written; two callers that load one chunk have the same effect (759) | `design/vfs/runtime.md:64` |
| `DiskBytesKeepTheirPlace` for f1 with two callers | `MCDirtyThreads.cfg` | the copy on disk is put together of the chunks that are loaded (`dirty.rs:1406`): what follows a missing one is shifted | - |

Of `Namespace` (constants of `MCNamespace.cfg`, `frontEnd` "fuse"):

| definition | what the code does | what is said |
|---|---|---|
| `FreeNamesAreUsable` (invariant) | `unlink` leaves a manifest file in the inode table, and `create` (`fuse_writable.rs:838`) and `mkdir` look there: EEXIST for a name that lookup does not find | - |
| `RefusedRmdirKeepsFiles` (property) | `rmdir` (`fuse_writable.rs:1107`) removes the new files below before `delete_dir` may refuse with ENOTEMPTY | - |

Of `LegacyPool` (constants as `MCSerial` gives them, `SPECIFICATION Spec`; nothing in the
repository calls this pool):

| definition | what the code does | what is said |
|---|---|---|
| `WritesAreKept` (property) | a modification of a flushed block marks it in a second critical section (`vfs/src/memory_pool.rs:1450`): eviction may come first | `design/vfs/runtime.md:64` |
| `FailedInsertKeeps` (property) | `insert_dirty` removes the old block (1351) before it knows that there is room | - |
| `ChargeDoesNotWrap` (invariant) | the discount of a block that has grown and is not charged yet goes below zero: a debug build panics there | - |
| `FetchesAreShared` with `Cancels` TRUE | a dropped fetch stays in `pending_fetches`, and the next caller inherits its failure | the comment of `pending_fetches` |
| `ChargeIsOwed` with `ClearsAnyTime` TRUE | `clear` sets the size to zero while a modification is half-way | - |

Of `FsKit` (constants of `MCNamespace.cfg`; the last row with `Serialised` FALSE):

| definition | what the code does |
|---|---|
| `ToldOnce` (property) | a cookie is an index into a listing that is built anew: an entry removed before it shifts the others, one made before it repeats them |
| `NothingIsSkipped` | a change is visible in the listing before the verifier is bumped: an enumeration in between skips an entry |
| `DotsAreTold` with `PageSize` 1 | `..` is only told on the page that has cookie 0: when there is no room for it, it never comes |
| `ParentsAgree` | attributes by id give an item made since the mount no parent, lookups give it one |
| `GoneFilesDoNotStopSync` | synchronize fails at a file that was removed after it took its list |
| `ListingMatchesLookup`, `NothingStranded`, `TableIsATree`, `DiffIsTree`, `IdsAgreeWithPaths`, `KitTypeOK` | two handlers check a name and insert it in separate steps (`vfs-fskit/src/fskit.rs:543`, `vfs/src/write/dirty_dir.rs:199`): both may make it; one may make an entry in a directory that the other removes |

Of `ReadPaths` (constants of `MCNamespace`):

| definition | what the code does |
|---|---|
| `ReadsAreSlices`, `NeverPanics` with `Damaged` TRUE | a file of the disk cache that a crash has cut off, with the size that was written, is taken for the object: reads are short, and a slice outside of it panics |
| `ReadsAreSlices` with an object shorter than its file | no front end compares lengths |

Of `LookupCaches` (constants of `MCDiskCaches.cfg`):

| definition | what the code does | what is said |
|---|---|---|
| `BatchAnswersKeys` | `exists_batch` answers with the names in the table, which begin with the bucket, not with the keys it was asked for | the comment in `storage/src/s3_check_cache/mod.rs` |
| `BatchAgrees` | `get_batch` knows one size and time per path, `get` each of them | - |
| `DirectoryIsWhole` | the data cache in a directory writes files in place: a stop leaves a part that counts as the object | - |
| `CachedHashIsOfFile` with `EditsKeepStat` TRUE | an edit that keeps size and modification time is unseen | - |

Of the modules of `MCRelaxed` (its cfg):

| definition | what the code does |
|---|---|
| `NothingForgotten` (`PendingTracker`) | a registration that saw the key before `resolve` took it out inserts it again without a push (`vfs/src/relaxed/pending_tracker.rs:94`): nobody polls for it |
| `ObjectsMatchHashes` (`UploadAgent`) | the file is hashed and then uploaded (`utils/upload_agent.py`): what changes in between is stored under the hash of the old content |
| `SuccessStands` (property, `UploadAgent`) | a second agent that finds the file gone replaces the completion marker of the first by a failure |

Of the modules of `MCProjFs` (its cfg; all of `ProjFs` but the last, which is of `Projection`):

| definition | what the code does |
|---|---|
| `DeletionsAreListed` | `start_virtualizing` ignores the notification mappings and passes none (`vfs-projfs/src/virtualizer/projfs.rs:468-475`): deletions, renames and modifications call nobody and are not in the summary. `design/win-fs-remaining-work.md:61`: "Notification tracks deletion"; `modified_paths.rs:3`: "Tracks created, modified, deleted, and renamed files/directories" |
| `CreatedIsThere` | for the same reason, a file that was created and is gone stays in `created_files` |
| `FilesHaveInodes` | for the same reason, a file that got its name by a rename has no inode, and is not listed as created |
| `ShutdownEnds` (property) | the flag is set and the condition signalled without the mutex (`vfs-projfs/src/callbacks/background.rs:101`): a worker between its look and its wait misses both, and `join` waits for ever |
| `ShownIsReadable` | a symbolic link is projected as a file of length 0 whose data is refused |

Of the modules of `MCDiskCaches` (its cfg):

| definition | what the code does |
|---|---|
| `StoredIsWhole`, `FetchedIsWhole` (`ReadCache`) | two callers that store one hash share the temporary file (`vfs/src/diskcache/read_cache.rs:133`): one renames what the other has just truncated |
| `SizeDoesNotWrap` (`ReadCache`) | a removal between another caller's rename and its addition (138) takes off what is not counted yet |
| `NeverBoth` (`WriteCache`) | `delete_file` and `write_file` side by side leave a file and a tombstone |
| `EveryCallLasts` (`WriteCache`) | `x.txt` and `x.md` share a temporary file (`materialized.rs:262`), and `x.tmp` is one |

Of the modules of `MCTransfer` (its cfg):

| definition | what the code does |
|---|---|
| `SeenIsCurrent` (`Upload`) | the check cache answers for objects that have been deleted (`storage/src/upload.rs:313`): the upload is skipped |
| `UploadedMatches` (`Upload`) | a file that changes after it was hashed is stored under its old hash (451) |
| `DownloadCompletes` (`Download`) | with conflicts skipped, a part that a failed call has left counts as the file |
| `ProgressIsWithinTotal` (`Download`) | the counter of the second batch begins with the skipped files counted twice |
| `LinksAreKept` (`Download`) | links are replaced under every conflict resolution |

Of `Scanner` (constants of `MCSnapshots.cfg`):

| definition | what the code does |
|---|---|
| `ReuseSeesChanges` | a scanner used again answers from its `StatCache`, absence included (`filesystem/src/stat_cache.rs:58`) |
| `SizeFitsHash` | size and number of chunks are those of the stat, the hash is of the file as it is later |
| `NoneIsNoChange` | the comparison answers "no change" when only directories have changed |
| `DiffSeesChmod`, `DiffSeesLinks` | execute bits and links are not compared |
| `DiffDropsDirs` | a directory that is gone is not listed as deleted while a file of the second snapshot begins with its text, a sibling's included (`model/src/operations/diff.rs:112`) |
| `AnyEncodingKeeps` | a path that begins with `$N/` is read as a reference (`model/src/decode.rs:113`) unless every directory is listed |
| `FilterKeepsParents` | filtering keeps every directory |
| `ComposedIsTree` | composing snapshots in which a path is a file and a directory keeps both |
| `AllBuiltIsValid` | links at the top that lead up and back in are written, and refused by the validation |

Of the modules of `MCJobs` (its cfg):

| definition | what the code does | what is said |
|---|---|---|
| `MissingIsReferenced` (`Submission`) | inputs that are missing are set aside and never used | `ja-deadline-utils/src/bundle_submit.rs:26-27`: they are treated as references |
| `ObjectsMatch` (`Submission`) | a file that changes between hashing and upload is stored under its old hash | - |
| `LaterWinsEverywhere` (`ManifestStore`) | downloads merge in the order of keys, not of times | `model/src/merge.rs:17-19` |
| `FindsOnlyTheAction` (`ManifestStore`) | an action is looked for by its id as a part of the key: an id that is part of another finds both | - |
| `InputsHaveRoots` (`ManifestStore`) | input manifests of the bindings are stored for the root `.` | - |

Also seen while reading, without a definition.

- FUSE, writable: `rmdir` of a directory that holds only new files succeeds and destroys
  them (`design/vfs-dirs.md:742-743` says ENOTEMPTY); a directory of the manifest whose files
  have all been deleted can never be removed; symbolic links cannot be unlinked (EIO);
  `original_dirs` includes the directories a diff manifest lists as deleted
  (`vfs/src/fuse_writable.rs:143-146`), so one that is made again is not recorded as new;
  the removal of a directory that the manifest does not list, but only implies by an entry in
  it, is not recorded (`vfs/src/write/dirty_dir.rs:289`);
  `clear_dirty` makes deleted files reappear and new files vanish; `fsync` of a clean file
  answers EIO; `release` ignores the error of its flush; `rmdir` and clear leave the copies
  in the write cache.
- FSKit: the match on a file's content has no arm for `FileContent::Relaxed`.
- ProjFS: what hydration finds in the disk cache is not put into the memory pool; an offset
  beyond the file would underflow (ProjFS never asks for one); the statistics database is
  not the one the callbacks fill; a notification of a renamed directory, if it came, would be
  handled as one of a file, and the second deletion of a manifest file made again not be
  recorded; the
  virtualizer's code names fields that its type does not have (it is compiled on Windows
  only); the dirty managers it makes are reachable by nobody else, so their overlay
  (`vfs-projfs/src/callbacks/vfs_callbacks.rs:133-462`) never has entries.
- Transfers: a file where a link is to be made fails the whole download under every conflict
  resolution; a chunk of the wrong length that is not the last leaves zeros in a file of the
  right size; a manifest with fewer hashes than chunks leaves the rest of a file out
  (`storage/src/download.rs:465`), and the size does not tell when an older file of that
  size is there; the transfer manager truncates the local file before it knows that the
  object is there.
- Manifests: `join` with the root `/` yields relative paths; lower-case drive letters are
  dropped by `partition`, which also loses directories outside the files' common root;
  most operations answer with nothing for version 2023; encoding sorts directories, so that
  the order in which a diff is applied changes; the comparison by hash reports chunked files
  as modified always; a rename that keeps size and time onto another path is unseen by the
  fast comparison; a link's target of the form `$N/...` is taken for a reference.
- Jobs: the latest attempt at a task may be incomplete; a failed download uses up its
  handle, handles never taken stay; discovery through the bindings ignores the session
  action and accepts an empty root; a manifest deleted between its GET and its HEAD fails the call;
  path mapping by text prefix maps siblings whose names begin alike; manifests in one
  directory share a destination; `attachment_upload` sends no file system location.

## Limits

Only model-checked, on the instances above: every property without a theorem in the
table of [Proofs](#proofs). These are

- of one component, and within reach of a proof: `PoolsAreConsistent` and
  `EvictionsLoseNothing` but for the sums, `SmallDiskBytesKeepTheirPlace`,
  `BridgeIsComplete`, `ListingsAgree`, `DiskFilesAreSound` but for its sum,
  `SubmissionsAreComplete`, `HandlesAreUnique` and `RetryWins` of `ManifestStore`: left to
  the plan;
- what a fold of the community modules - the sum of a pool at rest or of the files on disk,
  an assembly of chunks in a read, a manifest put together - computes for every input
  (`BooksBalance`, `SizeCoversFiles`, `ReadsAreRight`, `SnapshotsAreTrees`, `DiffsLeadOver`,
  `OperationsKeepFiles`, `ResultsAreWhole`): the theorems on induction that this needs take
  an operator, which none of the provers can instantiate, and the way around them that
  `Namespace_proofs` and `MemoryPool_proofs` show (a shortest or smallest counterexample)
  has not been taken there;
- liveness under fairness (`CallsReturn`, `CallsEnd`, `RequestsAreAnswered`,
  `CreationsAreRecorded`, `DownloadEnds`) and `ENABLED`, which the provers do not reach.

There are no recursive operators in these modules.

Abstractions that a reader should know of:

- contents: a chunk has a length in `MemoryPool` and bytes in `DirtyFile`, never both
  with the pool's interleavings; hashes are identities, so different contents never share one;
- `DirtyFile` has the pool's calls and the write cache's calls as one step each; a
  failing write of the cache leaves the old copy, which is what `WriteCache` shows of paths
  with a temporary file of their own;
- `ReadPaths` has a read as one step, `LegacyPool` a critical section;
- paths are sequences of names, where the code works on text the constants say which
  names begin which; patterns are sets of paths;
- modification times (but where they decide: `Scanner`, `LookupCaches`, `ManifestStore`),
  permissions, statistics, events and logging are left out;
- every poll of a future returns (see [Fairness](#fairness));
- the kernel's attribute and entry caches are left out: `Namespace` looks names up
  anew for every call, and FSKit's callers hold ids that lookups gave;
- S3 is consistent: a list, get or head sees what was put before it; a put is whole or
  not at all; SQS delivers a message at least once, in any order;
- a stop of the process keeps what calls of the file system have done, in their order;
- `ManifestStore` takes asset root and modification time of a manifest from the bucket's
  metadata; in a download the caller passes them (`python/src/lib.rs:1625-1633`, `2215-2224`),
  and is taken to pass what the listing gave. Outputs are discovered at the start of the call, in the
  code after the input manifests have been fetched (`lib.rs:1648`), which nobody changes. The
  latest attempt's folder is the one with the latest time in its name: attempts follow each other
  as their times do, and an attempt cut short at once leaves nothing to find (`RetryWins`);
- `Download` leaves out the progress callback and the cancellation it may ask for before each
  file (`storage/src/download.rs:278-298`): a task that ends there has written nothing, as one
  whose first request fails before the file is opened;
- `ChangesAreTold` is about calls that reach their bump: an `rmdir` that is refused after it has
  dropped the new files below (`vfs-fskit/src/fskit.rs:649-667`) bumps no verifier.

Bounds are constants named `Max...`, in guards of the actions that begin a call, a change
or a fault, or allocate an id; ids of blocks and fetches suffice in every run that no call
is cut short by them. The proofs hold for every value of them.

Not modelled, and why: the export, which is not implemented in the code, with
`clear_dirty` and deleted directories in manifests; the statistics, which read
counters; path normalisation and hashing, which the other parts use as data;
`write_chunked_meta` and `list_dirty_chunks` of the write cache, which only tests use; the
hash cache of the first pool; the waits on a Notify, the memory store and the path
resolver of relaxed consistency, which nothing calls; the overlay of dirty files in
the Windows callbacks, which is always empty, and their handlers for modified, deleted and
renamed files, which ProjFS never calls; `snapshot_structure`, the builder of version
2023 and the matching of glob patterns; the vendor's S3 client with its
paging and multipart; command lines, the WASM wrapper and the example
application, which translate arguments; `worker_sync.rs`, a placeholder. A task that is
retried while its old attempt still uploads is not in `ManifestStore`.

### Hazards without a property

Besides the eleven of `PROJECT.json` that have none, and the divergences above:

| where | what can go wrong | |
|---|---|---|
| `vfs/src/memory_pool_v2.rs:977` | insert_dirty removes the old block of the key before it looks for space: when the pool is exhausted the old data is gone and the new is refused | the pool's promise about the old data is the caller's property and is stated for the dirty-file manager; the pool's books stay balanced on that path (BooksBalance) |
| `vfs/src/memory_pool_v2.rs:1258` | the fetched data is sent to the waiters before the block is in the cache: a waiter gets a block of its own that the pool does not account for | no document promises that a waiter's data is pooled; the step is in the model (WaiterMiss) and leaves every invariant untouched |
| `vfs/src/memory_pool.rs:1351` | insert_dirty removes the block it replaces before it knows that there is room for the new one | a divergence (FailedInsertKeeps in LegacyPool): the unflushed bytes are gone when the call fails |
| `vfs/src/write/dirty.rs:713` | a clean block is evicted between ensure_chunk_in_pool and get_dirty, and the read takes zeros for the file's content | ZerosOnlyForNewFiles of MCDirtyFile states it and does not hold: README, section Divergences |
| `vfs/src/write/dirty.rs:1336` | truncate, then extend: bytes that were cut off come back from the pool or from the manifest | ExtensionReadsZeros of MCDirtyFile states it and does not hold: README, section Divergences |
| `vfs/src/write/dirty.rs:969` | insert_dirty removes the old block before it looks for room: when truncate finds none, the chunk is gone and the call fails | the fault "cut" of DirtyFile reaches it (ImplementsFileStore fails); it is left out of the passing runs |
| `vfs/src/fuse_writable.rs:651` | the offset in the file indexes data that starts at a chunk boundary | CleanReadsAreRight of MCDirtyFile states it and does not hold: README, section Divergences |
| `vfs-projfs/src/virtualizer/callbacks.rs:429` | cancelling one command cancels the executor for every later command | a divergence (MountedIsServed in Executor): cancel_all, which the callback calls, cancels the token for good |
| `vfs/src/executor.rs:286` | timeouts and cancellation take effect between two polls only: a future that blocks its worker in a system call delays its own timeout and, when all workers are blocked, every other one | the model assumes that every poll returns; the futures of this code base await their I/O or read local cache files |
| `vfs/src/write/dirty_dir.rs:207` | original_dirs also holds directories that a diff manifest lists as deleted: one that is made again is not recorded as new | the model assumes a manifest without deleted directories (ManifestAssumption); the record matters to the export only, which is not implemented |
| `vfs/src/fuse_writable.rs:1149` | clear_dirty forgets changes that the inode table does not have: deleted files reappear and new files vanish | export and clear_dirty are not in this module: the export itself is not implemented in the code |
| `vfs/src/write/dirty_dir.rs:199` | two calls of create_dir for one name both find it free and add it twice | a FUSE session runs one handler at a time; of the FSKit front end, whose handlers run side by side, FsKit shows it with Serialised = FALSE: README, section Divergences |

### Further hazards with a property

`PROJECT.json` lists forty; these are watched by a property of a run too.

| where | what can go wrong | properties |
|---|---|---|
| `vfs/src/memory_pool_v2.rs:1245` | between looking for a registered fetch and registering one, another caller registers: both fetch, and one registration replaces the other | `ChargesAndFetchesAreOwed` |
| `vfs/src/memory_pool_v2.rs:859` | get_dirty looks up the id, the block and takes its reference under separate guards: the block can leave the pool in between and its id is put back into the LRU queue | `RefsCountHandles`, `BlocksAreQueued` |
| `vfs/src/memory_pool_v2.rs:1305` | a block is inserted into the blocks map before the key index: a removal, a second insertion of the key or clear in between leaves an orphan or a dangling entry | `NoDanglingIndex`, `PoolsAreConsistent` |
| `vfs/src/memory_pool_v2.rs:1276` | two fetchers of one key both miss the cache in complete_fetch and both insert: the first block becomes an orphan that only eviction reaches | `PoolsAreConsistent` |
| `vfs/src/memory_pool.rs:1132` | a fetch's result goes to the waiters before the block is in the pool: a waiter may hold bytes that no block has | `PoolsAreConsistent` |
| `vfs/src/write/dirty.rs:549` | chunks shorter than the chunk size in the middle of a file make reads and flushes shift what follows | `ImplementsFileStore` |
| `vfs/src/write/dirty.rs:1230` | a block left behind for an inode that no longer exists can be neither flushed nor evicted | `BlocksBelongToFiles` |
| `vfs/src/write/dirty.rs:1453` | rmdir and clear leave the files' copies in the write cache, and a file created later at the same path has a stale copy until it is flushed | `ImplementsFileStore` |
| `vfs/src/executor.rs:342` | a caller sends its item while the loop leaves and drops the receiver: the item is refused, dropped from the queue or spawned, and the caller must learn of it in each case | `CallsReturn`, `CallsEnd` |
| `vfs/src/executor.rs:302` | the queue is full: senders wait for the loop, also when all workers are busy with futures that hang | `CallsReturn`, `TypeOK` |
| `vfs/src/executor.rs:445` | drop joins the thread, which waits for the polls under way on its runtime | `CallsEnd` |
| `vfs/src/inode/manager.rs:387` | an inode is inserted into and removed from three maps, one at a time and by different functions; one that is left out breaks a later call | `TreeIsSound` |
| `vfs-fskit/src/fskit.rs:302` | synchronize stops at the first file whose flush fails: the files behind it stay unflushed and the caller must be told | `BridgeIsComplete` |
| `vfs-fskit/src/fskit.rs:195` | the verifier of a directory is the kernel's only sign that its listing has changed: every change of it must bump it | `ChangesAreTold` |
| `vfs/src/fuse.rs:400` | the store is away while some chunks of a file are in the pool, some on disk and some nowhere: a read must go as far as the caches go | `CachedReadsSucceed`, `ReadsAreRight` |
| `vfs/src/fuse.rs:511` | a listing is continued at the offset that came with the last entry: entries are lost or repeated when the offset is of the entry itself | `ReadsAreRight` |
| `vfs/src/relaxed/pending_tracker.rs:94` | register looks whether the key is pending and inserts it in two steps, resolve removes and notifies in two: a reader may be left with a Notify that is in no map and is never signalled | `HandlesAreLive` |
| `src/utils/upload_agent.py:682` | the queue of low priority is polled only after an empty or failed poll of the other one, where an unusable message comes back for ever | `RequestsAreAnswered` |
| `vfs-projfs/src/callbacks/path_registry.rs:66` | callbacks of several threads look up, allocate and insert inodes in separate accesses: two paths must not end with one inode, and the two maps must agree in the end | `CreationsAreKept` |
| `vfs-projfs/src/virtualizer/projfs.rs:243` | stop frees the callback context while callbacks of other threads may be under way | `CreationsAreKept` |
| `vfs/src/diskcache/read_cache.rs:180` | remove reads the length, removes the file and takes the length off the counter in three steps, put renames and counts in two: the counter must not fall below what is on disk | `DiskFilesAreSound` |
| `storage/src/hash_cache/sqlite.rs:99` | lookups and the cleanup compare the day of expiry each in its own way, on a boundary of one second: the cleanup must not take what a lookup would return | `CleanupIsUnseen` |
| `storage/src/upload.rs:270` | one task of a batch fails while the others go on; the call is made again with what was marked before: nothing may count as uploaded that is not there | `UploadsAreThere` |
| `storage/src/download.rs:388` | the path of a copy is chosen before the request and the file is opened after it: a transfer that runs at the same time may take the name | `DownloadsAreRight` |
| `model/src/decode.rs:113` | any path that begins with $N/ is taken for a reference to the directory list, also a directory that has that name; directories refer to earlier directories | `OperationsKeepFiles` |
| `filesystem/src/scanner.rs:432` | a file of exactly one chunk is not chunked; the writer's and the validator's comparisons must be the same | `SnapshotsAreTrees` |
| `model/src/operations/partition.rs:89` | the root of all files is their longest common prefix cut at the last slash: of a single file it is its directory, and siblings that share the beginning of a name are not one root | `OperationsKeepFiles` |
| `python/src/lib.rs:1104` | Two discoveries return handles at the same time while a third call takes one: a number must never come back, nor serve twice | `ResultsAreWhole` |
| `python/src/lib.rs:2231` | Manifests are merged in the order of their times, not that in which the caller lists them, also where path mapping brings two roots together | `ResultsAreWhole` |
| `profiles/src/grouping.rs:355` | The root of a group is derived from whatever paths it has: two groups, or a group and one output directory, can end up at the same root or outside of it | `SubmissionsAreComplete` |

## Plan

What is left, in the order of importance:

1. Theorems: `BooksBalance` of the pool, whose lengths a modification changes before it
   charges them; `WholeUnlessShared` and `CallsLast` of the caches on disk; `TablesAgree` of
   the first pool; `ListingIsExact` of the projection; `IdsAgreeWithPaths` of `FsKit`;
   `HandlesAreUnique` of `ManifestStore`.
2. An abstract cache (a map of keys to contents, with pinned dirty entries) that `MemoryPool`
   and `LegacyPool` implement, and a map from paths to contents that `WriteCache` does.
3. `DirtyFile` over `WriteCache` in place of its one-step cache; the handlers of `FsKit`
   over `DirtyFile`, so that contents and names move together.
4. Larger instances of `MCTransfer` (a third task) and `MCRelaxed` (a second file).
