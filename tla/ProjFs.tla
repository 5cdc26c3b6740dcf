------------------------------- MODULE ProjFs -------------------------------
(***************************************************************************)
(* The Windows projection: what its callbacks record of the files that     *)
(* applications change (crates/vfs-projfs/src/callbacks), the background   *)
(* thread they leave it to, and start, stop and drop of the virtualizer    *)
(* (virtualizer/projfs.rs).                                                *)
(*                                                                         *)
(* ProjFS keeps the changed files itself and calls back after a change, on *)
(* the thread that made it, if the type of notification is registered.     *)
(* start_virtualizing passes no notification mappings, not those that      *)
(* start has built, and ProjFS then sends its default notifications: a     *)
(* file is opened, created or overwritten.  notification_cb does something *)
(* for one of these, NEW_FILE_CREATED.  Files are deleted and renamed      *)
(* without a word, and written too, which changes nothing here.            *)
(*                                                                         *)
(* A step of a callback is one access to a concurrent map, the task queue  *)
(* or a set of paths under its lock.                                       *)
(***************************************************************************)
EXTENDS Integers, Sequences, FiniteSets

CONSTANTS
  Threads,   \* application threads in the driver
  Files,     \* paths used for files
  Dirs,      \* paths used for directories
  Manifest,  \* the paths of the manifest
  Owned,     \* thread -> the paths it works on
  MaxOps     \* bound: changes by all threads

Paths == Files \cup Dirs

ASSUME ProjFsAssumption ==
  /\ Files \cap Dirs = {} /\ Manifest \subseteq Paths
  /\ Owned \in [Threads -> SUBSET Paths] /\ MaxOps \in Nat
  /\ IsFiniteSet(Threads) /\ IsFiniteSet(Manifest)

VARIABLES
  exists,         \* external: path -> the file system shows it
  made,           \* history: the paths that were created
  ops,            \* changes so far
  thread,         \* application thread: where it is in its callback
  path_to_inode,  \* PathRegistry
  inode_to_path,
  next_inode,
  queue,          \* BackgroundTaskRunner: the deque
  shutdown,
  worker,         \* the background thread: where it is, and its task
  created_files, deleted_files, created_dirs, deleted_dirs,
  context,        \* the callback context: none, alive or freed
  stopper         \* where start, stop and drop are

registryVars == <<path_to_inode, inode_to_path, next_inode>>
runnerVars   == <<queue, shutdown, worker>>
databaseVars == <<created_files, deleted_files, created_dirs, deleted_dirs>>
fileVars     == <<exists, made, ops>>
lifeVars     == <<context, stopper>>
projVars     == <<fileVars, thread, registryVars, runnerVars, databaseVars, lifeVars>>

None == "none"

\* At most one inode per change and manifest path.
Inodes == 1 .. Cardinality(Manifest) + MaxOps

Task(p) == [kind |-> IF p \in Dirs THEN "FolderCreated" ELSE "FileCreated", path |-> p]

NoTask == [kind |-> "none", path |-> None]

Idle == [at |-> "idle", task |-> NoTask, inode |-> 0]

\* populate_from_projection gives every path of the manifest an inode, in the
\* order of the tree.
RegistryInit ==
  /\ path_to_inode \in {f \in [Paths -> 0 .. Cardinality(Manifest)] :
       /\ \A p \in Paths : f[p] = 0 <=> p \notin Manifest
       /\ \A p, q \in Manifest : f[p] = f[q] => p = q}
  /\ inode_to_path = [i \in Inodes |->
       IF \E p \in Manifest : path_to_inode[p] = i
         THEN CHOOSE p \in Manifest : path_to_inode[p] = i ELSE None]
  /\ next_inode = Cardinality(Manifest) + 1

\* VfsCallbacks::new.
ProjInit ==
  /\ exists = [p \in Paths |-> p \in Manifest]
  /\ made = {} /\ ops = 0
  /\ thread = [t \in Threads |-> Idle]
  /\ RegistryInit
  /\ queue = << >> /\ shutdown = FALSE
  /\ worker = [at |-> "look", task |-> NoTask]
  /\ created_files = {} /\ deleted_files = {} /\ created_dirs = {} /\ deleted_dirs = {}
  /\ context = "none" /\ stopper = "new"

-----------------------------------------------------------------------------
(* Applications *)

Change(t) ==
  /\ context = "alive" /\ stopper = "started"
  /\ thread[t].at = "idle" /\ ops < MaxOps
  /\ ops' = ops + 1
  /\ UNCHANGED <<registryVars, runnerVars, databaseVars, lifeVars>>

\* NEW_FILE_CREATED: notification_cb begins when the file is there.
Create(t, p) ==
  /\ Change(t)
  /\ p \in Owned[t] /\ ~exists[p]
  /\ exists' = [exists EXCEPT ![p] = TRUE]
  /\ made' = made \cup {p}
  /\ thread' = [thread EXCEPT ![t] = [Idle EXCEPT !.at = "look_up", !.task = Task(p)]]

\* Not registered: nobody is called.
Delete(t, p) ==
  /\ Change(t)
  /\ p \in Owned[t] /\ exists[p]
  /\ exists' = [exists EXCEPT ![p] = FALSE]
  /\ UNCHANGED <<made, thread>>

\* Not registered either; also over a file that is there.
Rename(t, p, q) ==
  /\ Change(t)
  /\ {p, q} \subseteq Owned[t] \cap Files /\ p # q /\ exists[p]
  /\ exists' = [exists EXCEPT ![p] = FALSE, ![q] = TRUE]
  /\ UNCHANGED <<made, thread>>

-----------------------------------------------------------------------------
(* The registry: get_or_create in four accesses *)

Goto(t, at) == thread' = [thread EXCEPT ![t].at = at]

LookUp(t) ==
  /\ thread[t].at = "look_up"
  /\ Goto(t, IF path_to_inode[thread[t].task.path] # 0 THEN "enqueue" ELSE "allocate")
  /\ UNCHANGED <<fileVars, registryVars, runnerVars, databaseVars, lifeVars>>

\* fetch_add.
Allocate(t) ==
  /\ thread[t].at = "allocate"
  /\ next_inode' = next_inode + 1
  /\ thread' = [thread EXCEPT ![t].at = "insert", ![t].inode = next_inode]
  /\ UNCHANGED <<fileVars, path_to_inode, inode_to_path, runnerVars, databaseVars, lifeVars>>

Insert(t) ==
  /\ thread[t].at = "insert"
  /\ path_to_inode' = [path_to_inode EXCEPT ![thread[t].task.path] = thread[t].inode]
  /\ Goto(t, "insert_back")
  /\ UNCHANGED <<fileVars, inode_to_path, next_inode, runnerVars, databaseVars, lifeVars>>

InsertBack(t) ==
  /\ thread[t].at = "insert_back"
  /\ inode_to_path' = [inode_to_path EXCEPT ![thread[t].inode] = thread[t].task.path]
  /\ Goto(t, "enqueue")
  /\ UNCHANGED <<fileVars, path_to_inode, next_inode, runnerVars, databaseVars, lifeVars>>

-----------------------------------------------------------------------------
(* The background thread.  At "decided" it holds the queue's mutex and has *)
(* found the queue empty and the flag clear.                               *)

Woken(w) == IF w.at = "waiting" THEN [w EXCEPT !.at = "look"] ELSE w

\* Mutation: nobody is notified.
Wake_Nobody(w) == w

Wake(w) == Woken(w)

Queued(task) == Append(queue, task)

\* enqueue, with notify_one; the end of the callback.
Enqueue(t) ==
  /\ thread[t].at = "enqueue" /\ worker.at # "decided"
  /\ queue' = Queued(thread[t].task)
  /\ worker' = Wake(worker)
  /\ thread' = [thread EXCEPT ![t] = Idle]
  /\ UNCHANGED <<fileVars, registryVars, shutdown, databaseVars, lifeVars>>

\* Mutation: the flag is looked at first.
WorkerAt_FlagFirst ==
  IF shutdown THEN "done" ELSE IF queue # << >> THEN "handle" ELSE "decided"

WorkerAt ==
  IF queue # << >> THEN "handle" ELSE IF shutdown THEN "done" ELSE "decided"

WorkerLook ==
  /\ worker.at = "look"
  /\ worker' = [at |-> WorkerAt, task |-> IF WorkerAt = "handle" THEN Head(queue) ELSE NoTask]
  /\ queue' = IF WorkerAt = "handle" THEN Tail(queue) ELSE queue
  /\ UNCHANGED <<fileVars, thread, registryVars, shutdown, databaseVars, lifeVars>>

WorkerWait ==
  /\ worker.at = "decided"
  /\ worker' = [worker EXCEPT !.at = "waiting"]
  /\ UNCHANGED <<fileVars, thread, registryVars, queue, shutdown, databaseVars, lifeVars>>

Handled == worker' = [at |-> "look", task |-> NoTask]

\* ModifiedPathsDatabase::file_created.
FileCreated(p) ==
  /\ deleted_files' = deleted_files \ {p}
  /\ created_files' = created_files \cup {p}

DirCreated(p) ==
  /\ deleted_dirs' = deleted_dirs \ {p}
  /\ created_dirs' = created_dirs \cup {p}

\* The handler that VfsCallbacks::new gives the runner, for the tasks there are.
Handle ==
  LET task == worker.task IN
  /\ worker.at = "handle" /\ Handled
  /\ \/ task.kind = "FileCreated" /\ FileCreated(task.path)
        /\ UNCHANGED <<created_dirs, deleted_dirs>>
     \/ task.kind = "FolderCreated" /\ DirCreated(task.path)
        /\ UNCHANGED <<created_files, deleted_files>>
  /\ UNCHANGED <<fileVars, thread, registryVars, queue, shutdown, lifeVars>>

-----------------------------------------------------------------------------
(* start, stop, and the drop of the virtualizer *)

Life(from, to) == stopper \in from /\ stopper' = to

\* The context that the callbacks are given; one of an earlier start that failed is
\* never freed.
Start ==
  /\ Life({"new", "stopped"}, "starting")
  /\ context' = "alive"
  /\ UNCHANGED <<fileVars, thread, registryVars, runnerVars, databaseVars>>

\* PrjStartVirtualizing with no mappings succeeds, or fails and start may be called
\* again.
StartVirtualizing ==
  /\ stopper = "starting" /\ stopper' \in {"started", "new"}
  /\ UNCHANGED <<context, fileVars, thread, registryVars, runnerVars, databaseVars>>

\* stop: PrjStopVirtualizing returns when no callback is under way.
Stop ==
  /\ Life({"started"}, "stopping")
  /\ UNCHANGED <<context, fileVars, thread, registryVars, runnerVars, databaseVars>>

FreeContext ==
  /\ Life({"stopping"}, "stopped") /\ \A t \in Threads : thread[t].at = "idle"
  /\ context' = "freed"
  /\ UNCHANGED <<fileVars, thread, registryVars, runnerVars, databaseVars>>

\* BackgroundTaskRunner::shutdown by its drop: the flag, then notify_all, then
\* join.  The first two do not take the queue's mutex.
SetFlag ==
  /\ Life({"new", "stopped"}, "notify")
  /\ shutdown' = TRUE
  /\ UNCHANGED <<context, fileVars, thread, registryVars, queue, worker, databaseVars>>

NotifyAll ==
  /\ Life({"notify"}, "join")
  /\ worker' = Woken(worker)
  /\ UNCHANGED <<context, fileVars, thread, registryVars, queue, shutdown, databaseVars>>

Join ==
  /\ Life({"join"}, "dropped") /\ worker.at = "done"
  /\ UNCHANGED <<context, fileVars, thread, registryVars, runnerVars, databaseVars>>

Callback(t) == LookUp(t) \/ Allocate(t) \/ Insert(t) \/ InsertBack(t) \/ Enqueue(t)
Worker == WorkerLook \/ WorkerWait \/ Handle

ProjNext ==
  \/ \E t \in Threads :
       \/ Callback(t)
       \/ \E p \in Paths : \/ Create(t, p) \/ Delete(t, p)
                           \/ \E q \in Paths : Rename(t, p, q)
  \/ Worker
  \/ Start \/ StartVirtualizing \/ Stop \/ FreeContext \/ SetFlag \/ NotifyAll \/ Join

\* Threads that have begun a step go on.
ProjFairness == WF_projVars(Worker) /\ \A t \in Threads : WF_projVars(Callback(t))

ProjSpec == ProjInit /\ [][ProjNext]_projVars /\ ProjFairness

-----------------------------------------------------------------------------
(* Properties *)

ProjTypeOK ==
  /\ exists \in [Paths -> BOOLEAN] /\ made \subseteq Paths /\ ops \in 0 .. MaxOps
  /\ path_to_inode \in [Paths -> Inodes \cup {0}]
  /\ inode_to_path \in [Inodes -> Paths \cup {None}]
  /\ created_files \cup deleted_files \subseteq Files
  /\ created_dirs \cup deleted_dirs \subseteq Dirs
  /\ Len(queue) <= MaxOps
  /\ context \in {"none", "alive", "freed"}

Quiet == \A t \in Threads : thread[t].at = "idle"

\* Two paths never share an inode, whatever callbacks run side by side: dirty
\* state is looked up by inode.
InodesAreUnique ==
  \A p, q \in Paths : path_to_inode[p] = path_to_inode[q] /\ path_to_inode[p] # 0 => p = q

\* When no callback is under way, the paths with an inode are those of the manifest
\* and those that were created, and the other map leads from the inode back, also
\* when several callbacks have allocated one for the same path.
RegistryFindsBack ==
  Quiet => \A p \in Paths :
    /\ path_to_inode[p] # 0 <=> p \in Manifest \cup made
    /\ path_to_inode[p] # 0 => inode_to_path[path_to_inode[p]] = p

\* A callback never runs on a context that stop has freed.
ContextIsAlive == \A t \in Threads : thread[t].at # "idle" => context = "alive"

\* What was queued before the shutdown has been handled when the thread ends.
NothingIsDropped == worker.at = "done" => queue = << >>

Drained == queue = << >> /\ worker.at # "handle" /\ Quiet

\* When all callbacks and tasks are done, the summary lists as created each path that
\* was created, by whatever thread and however often, and nothing else.
CreationsAreListed ==
  Drained => created_files = made \cap Files /\ created_dirs = made \cap Dirs

\* Each path has an inode of its own and is found by it, the instance outlives its
\* callbacks, and a creation, which is the change that ProjFS tells of, is queued, in
\* work or in the summary.  Of deletions and renames the summary knows nothing.
CreationsAreKept ==
  /\ ProjTypeOK /\ InodesAreUnique /\ RegistryFindsBack /\ ContextIsAlive
  /\ NothingIsDropped /\ CreationsAreListed

\* Every creation is recorded in the end, also while the runner shuts down.
CreationsAreRecorded == (queue # << >>) ~> (queue = << >> /\ worker.at # "handle")

\* Statements that do not hold (README, section Divergences).

\* "Notification tracks deletion" (design/win-fs-remaining-work.md:61): when all is
\* handled, a path of the manifest that is gone is listed as deleted.  None is, since
\* start_virtualizing registers no notification of deletions.
DeletionsAreListed ==
  Drained => \A p \in Manifest : ~exists[p] => p \in deleted_files \cup deleted_dirs

\* What is listed as created is there: not when it was deleted or renamed.
CreatedIsThere ==
  Drained => \A p \in created_files \cup created_dirs : exists[p]

\* A file that is there has an inode: not when it got its name by a rename.
FilesHaveInodes == Quiet => \A p \in Paths : exists[p] => path_to_inode[p] # 0

\* The shutdown ends: not when its notification comes between the worker's look
\* at the flag and its wait.
ShutdownEnds == (stopper = "join") ~> (stopper = "dropped")
=============================================================================
