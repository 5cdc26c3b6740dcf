---------------------------- MODULE ProjFs_proofs ----------------------------
(***************************************************************************)
(* For every number of application threads, files and changes: the inodes  *)
(* of the registry are unique and lead back to their paths, no callback    *)
(* runs on a freed context, the worker ends with an empty queue, and when  *)
(* all is handled the summary lists the paths that were created.           *)
(*                                                                         *)
(* Two parts lag behind: the registry, whose maps are written one after    *)
(* the other, and the summary.  For each the invariant says who still has  *)
(* what is missing: the callback that holds an inode (RegistryInv), and    *)
(* the callback, the queue or the worker that has the task (SummaryInv).   *)
(***************************************************************************)
EXTENDS ProjFs, FiniteSetTheorems, TLAPS

-----------------------------------------------------------------------------
(* The invariant *)

Points == {"idle", "look_up", "allocate", "insert", "insert_back", "enqueue"}

\* The tasks a callback makes.
Tasks ==
  {task \in [kind : {"FileCreated", "FolderCreated"}, path : Paths] :
     task.kind = "FolderCreated" <=> task.path \in Dirs}

Busy(t) == thread[t].at # "idle"

ThreadRecords == [at : Points, task : Tasks \cup {NoTask}, inode : Nat]

WorkerRecords == [at : {"look", "handle", "decided", "waiting", "done"}, task : Tasks \cup {NoTask}]

ProjTypes ==
  /\ exists \in [Paths -> BOOLEAN] /\ made \subseteq Paths /\ ops \in Nat /\ ops <= MaxOps
  /\ thread \in [Threads -> ThreadRecords]
  /\ \A t \in Threads : Busy(t) => thread[t].task \in Tasks
  /\ path_to_inode \in [Paths -> Nat] /\ next_inode \in Nat \ {0}
  /\ inode_to_path \in [Inodes -> Paths \cup {None}]
  /\ queue \in Seq(Tasks)
  /\ worker \in WorkerRecords
  /\ worker.at = "handle" => worker.task \in Tasks
  /\ created_files \subseteq Files /\ deleted_files \subseteq Files
  /\ created_dirs \subseteq Dirs /\ deleted_dirs \subseteq Dirs
  /\ context \in {"none", "alive", "freed"}

\* stop waits for the callbacks, and the flag is set after that.
LifeInv ==
  /\ \A t \in Threads : Busy(t) => context = "alive" /\ stopper \in {"started", "stopping"}
  /\ shutdown => stopper \in {"notify", "join", "dropped"}
  /\ worker.at = "done" => shutdown /\ queue = << >>

Holds(t) == thread[t].at \in {"insert", "insert_back"}
Looks(t) == thread[t].at \in {"look_up", "allocate", "insert"}

\* An inode between fetch_add and the end of its callback is with one thread, and
\* before its insert not in the map.
HoldersInv ==
  \A t \in Threads : Holds(t) =>
    /\ thread[t].inode # 0 /\ thread[t].inode < next_inode
    /\ \A p \in Paths : path_to_inode[p] = thread[t].inode =>
         p = thread[t].task.path /\ thread[t].at = "insert_back"
    /\ \A u \in Threads \ {t} : Holds(u) => thread[u].inode # thread[t].inode

\* The way back is there, or a callback is about to write it.
BackInv ==
  \A p \in Paths : path_to_inode[p] # 0 =>
    \/ inode_to_path[path_to_inode[p]] = p
    \/ \E t \in Threads : thread[t].at = "insert_back" /\ thread[t].inode = path_to_inode[p]

\* A path has an inode, or a callback is about to give it one.
KnownInv ==
  /\ \A p \in Paths : path_to_inode[p] # 0 => p \in Manifest \cup made
  /\ \A p \in Manifest \cup made :
       path_to_inode[p] # 0 \/ \E t \in Threads : Looks(t) /\ thread[t].task.path = p

RegistryInv ==
  /\ \A p \in Paths : path_to_inode[p] < next_inode
  /\ InodesAreUnique /\ HoldersInv /\ BackInv /\ KnownInv

Allocating == {t \in Threads : thread[t].at \in {"look_up", "allocate"}}
Busies     == {t \in Threads : Busy(t)}

\* A change allocates at most one inode and queues at most one task.
CountInv ==
  /\ next_inode + Cardinality(Allocating) <= Cardinality(Manifest) + 1 + ops
  /\ Len(queue) + Cardinality(Busies) <= ops

Listed        == created_files \cup created_dirs
InCallback(p) == \E t \in Threads : Busy(t) /\ thread[t].task.path = p
InQueue(p)    == \E i \in 1 .. Len(queue) : queue[i].path = p
InWork(p)     == worker.at = "handle" /\ worker.task.path = p

\* The paths that were created are those that are listed, queued or in work.
SummaryInv ==
  \A p \in Paths : p \in made <=> p \in Listed \/ InCallback(p) \/ InQueue(p) \/ InWork(p)

ProjInv == ProjTypes /\ LifeInv /\ RegistryInv /\ CountInv /\ SummaryInv

-----------------------------------------------------------------------------
(* Lemmas on the parts of the state *)

LEMMA ManifestCard == Cardinality(Manifest) \in Nat
BY ProjFsAssumption, FS_CardinalityType

LEMMA Moved ==
  ASSUME ProjTypes, NEW t \in Threads, NEW at \in Points, Goto(t, at)
  PROVE  /\ thread' \in [Threads -> ThreadRecords]
         /\ thread'[t].at = at /\ thread'[t].task = thread[t].task
         /\ thread'[t].inode = thread[t].inode
         /\ \A u \in Threads \ {t} : thread'[u] = thread[u]
<1> DEFINE r == [thread[t] EXCEPT !.at = at]
<1>1. thread \in [Threads -> ThreadRecords] /\ thread' = [thread EXCEPT ![t] = r]
  BY DEF ProjTypes, Goto
<1>2. r \in ThreadRecords /\ r.at = at /\ r.task = thread[t].task /\ r.inode = thread[t].inode
  BY <1>1 DEF ThreadRecords
<1> QED
  BY <1>1, <1>2

LEMMA MovedWithInode ==
  ASSUME ProjTypes, NEW t \in Threads, NEW at \in Points, NEW i \in Nat,
         thread' = [thread EXCEPT ![t].at = at, ![t].inode = i]
  PROVE  /\ thread' \in [Threads -> ThreadRecords]
         /\ thread'[t].at = at /\ thread'[t].task = thread[t].task
         /\ thread'[t].inode = i
         /\ \A u \in Threads \ {t} : thread'[u] = thread[u]
<1> DEFINE r == [thread[t] EXCEPT !.at = at, !.inode = i]
<1>1. thread \in [Threads -> ThreadRecords] /\ thread' = [thread EXCEPT ![t] = r]
  BY DEF ProjTypes
<1>2. r \in ThreadRecords /\ r.at = at /\ r.task = thread[t].task /\ r.inode = i
  BY <1>1 DEF ThreadRecords
<1> QED
  BY <1>1, <1>2

LEMMA WokenWorker ==
  ASSUME worker \in WorkerRecords
  PROVE  /\ Woken(worker) \in WorkerRecords
         /\ worker.at # "waiting" => Woken(worker) = worker
         /\ worker.at = "waiting" => Woken(worker).at = "look"
BY DEF WorkerRecords, Woken

LEMMA BeganOrEnded ==
  ASSUME ProjTypes, NEW t \in Threads, NEW at \in Points, NEW task \in Tasks \cup {NoTask},
         thread' = [thread EXCEPT ![t] = [Idle EXCEPT !.at = at, !.task = task]]
  PROVE  /\ thread' \in [Threads -> ThreadRecords]
         /\ thread'[t].at = at /\ thread'[t].task = task
         /\ \A u \in Threads \ {t} : thread'[u] = thread[u]
<1> DEFINE r == [Idle EXCEPT !.at = at, !.task = task]
<1>1. thread \in [Threads -> ThreadRecords] /\ thread' = [thread EXCEPT ![t] = r]
  BY DEF ProjTypes
<1>2. r \in ThreadRecords /\ r.at = at /\ r.task = task
  BY DEF ThreadRecords, Idle
<1> QED
  BY <1>1, <1>2

-----------------------------------------------------------------------------
(* What groups of steps keep *)

\* The counts, when one thread changes.
LEMMA CountsFinite ==
  /\ IsFiniteSet(Allocating) /\ Cardinality(Allocating) \in Nat
  /\ IsFiniteSet(Busies) /\ Cardinality(Busies) \in Nat
<1>1. IsFiniteSet(Allocating) /\ IsFiniteSet(Busies)
  BY ProjFsAssumption, FS_Subset DEF Allocating, Busies
<1> QED
  BY <1>1, FS_CardinalityType

LEMMA OneThreadCounts ==
  ASSUME NEW t \in Threads, \A u \in Threads \ {t} : thread'[u] = thread[u]
  PROVE  /\ Cardinality(Allocating') =
              Cardinality(Allocating) + (IF thread'[t].at \in {"look_up", "allocate"} THEN 1 ELSE 0)
                                      - (IF thread[t].at \in {"look_up", "allocate"} THEN 1 ELSE 0)
         /\ Cardinality(Busies') =
              Cardinality(Busies) + (IF Busy(t)' THEN 1 ELSE 0) - (IF Busy(t) THEN 1 ELSE 0)
<1>1. /\ Allocating' = IF thread'[t].at \in {"look_up", "allocate"} THEN Allocating \cup {t}
                                                                ELSE Allocating \ {t}
      /\ t \in Allocating <=> thread[t].at \in {"look_up", "allocate"}
  BY DEF Allocating
<1>2. /\ Busies' = IF Busy(t)' THEN Busies \cup {t} ELSE Busies \ {t}
      /\ t \in Busies <=> Busy(t)
  BY DEF Busies, Busy
<1>3. /\ Cardinality(Allocating \cup {t}) =
           IF t \in Allocating THEN Cardinality(Allocating) ELSE Cardinality(Allocating) + 1
      /\ Cardinality(Allocating \ {t}) =
           IF t \in Allocating THEN Cardinality(Allocating) - 1 ELSE Cardinality(Allocating)
  BY CountsFinite, FS_AddElement, FS_RemoveElement
<1>4. /\ Cardinality(Busies \cup {t}) =
           IF t \in Busies THEN Cardinality(Busies) ELSE Cardinality(Busies) + 1
      /\ Cardinality(Busies \ {t}) =
           IF t \in Busies THEN Cardinality(Busies) - 1 ELSE Cardinality(Busies)
  BY CountsFinite, FS_AddElement, FS_RemoveElement
<1>5. Cardinality(Allocating) \in Nat /\ Cardinality(Busies) \in Nat
  BY CountsFinite
<1> QED
  BY <1>1, <1>2, <1>3, <1>4, <1>5

\* No task comes, goes or moves.
LEMMA SummaryKept ==
  ASSUME SummaryInv, UNCHANGED <<made, queue, databaseVars>>,
         \A t \in Threads : (Busy(t)' <=> Busy(t)) /\ (Busy(t) => thread'[t].task = thread[t].task),
         worker'.at = "handle" <=> worker.at = "handle",
         worker.at = "handle" => worker'.task = worker.task
  PROVE  SummaryInv'
<1> SUFFICES ASSUME NEW p \in Paths
             PROVE  p \in made' <=> (p \in Listed \/ InCallback(p) \/ InQueue(p) \/ InWork(p))'
  BY DEF SummaryInv
<1>1. /\ p \in Listed' <=> p \in Listed
      /\ InCallback(p)' <=> InCallback(p)
      /\ InQueue(p)' <=> InQueue(p)
      /\ InWork(p)' <=> InWork(p)
  BY DEF Listed, InCallback, InQueue, InWork, databaseVars
<1> QED
  BY <1>1 DEF SummaryInv

\* A step of a callback before its task is queued.
LEMMA CallbackStep ==
  ASSUME ProjInv, NEW t \in Threads, Busy(t),
         thread' \in [Threads -> ThreadRecords],
         thread'[t].at \in Points \ {"idle"}, thread'[t].task = thread[t].task,
         \A u \in Threads \ {t} : thread'[u] = thread[u],
         UNCHANGED <<fileVars, runnerVars, databaseVars, lifeVars>>,
         path_to_inode' \in [Paths -> Nat], next_inode' \in Nat \ {0},
         inode_to_path' \in [Inodes -> Paths \cup {None}],
         RegistryInv',
         next_inode' + (IF thread'[t].at \in {"look_up", "allocate"} THEN 1 ELSE 0)
           <= next_inode + (IF thread[t].at \in {"look_up", "allocate"} THEN 1 ELSE 0)
  PROVE  ProjInv'
<1>0. \A u \in Threads : (Busy(u)' <=> Busy(u)) /\ thread'[u].task = thread[u].task
  BY DEF Busy
<1>1. ProjTypes'
  <2>1. \A u \in Threads : Busy(u)' => thread'[u].task \in Tasks
    BY <1>0 DEF ProjInv, ProjTypes
  <2> QED
    BY <2>1 DEF ProjInv, ProjTypes, fileVars, runnerVars, databaseVars, lifeVars
<1>2. LifeInv'
  BY <1>0 DEF ProjInv, LifeInv, runnerVars, lifeVars
<1>3. CountInv'
  <2> DEFINE from == IF thread[t].at \in {"look_up", "allocate"} THEN 1 ELSE 0
             to   == IF thread'[t].at \in {"look_up", "allocate"} THEN 1 ELSE 0
  <2>1. /\ Cardinality(Allocating) \in Nat /\ Cardinality(Busies) \in Nat
        /\ Cardinality(Manifest) \in Nat /\ ops \in Nat /\ next_inode \in Nat
        /\ next_inode' \in Nat
    BY CountsFinite, ManifestCard DEF ProjInv, ProjTypes
  <2>2. /\ Cardinality(Allocating') = Cardinality(Allocating) + to - from
        /\ Cardinality(Busies') =
             Cardinality(Busies) + (IF Busy(t)' THEN 1 ELSE 0) - (IF Busy(t) THEN 1 ELSE 0)
    BY OneThreadCounts
  <2>3. Cardinality(Busies') = Cardinality(Busies)
    BY <1>0, <2>1, <2>2
  <2>4. from \in {0, 1} /\ to \in {0, 1} /\ next_inode' + to <= next_inode + from
    OBVIOUS
  <2>5. ops' = ops /\ queue' = queue
    BY DEF fileVars, runnerVars
  <2>6. /\ next_inode + Cardinality(Allocating) <= Cardinality(Manifest) + 1 + ops
        /\ Len(queue) + Cardinality(Busies) <= ops
    BY DEF ProjInv, CountInv
  <2> HIDE DEF from, to
  <2>7. next_inode' + Cardinality(Allocating') <= Cardinality(Manifest) + 1 + ops
    <3>1. \A n, a, m, o, n1 \in Nat : \A f, t1 \in {0, 1} :
            n + a <= m + 1 + o /\ n1 + t1 <= n + f => n1 + (a + t1 - f) <= m + 1 + o
      OBVIOUS
    <3>2. next_inode' + (Cardinality(Allocating) + to - from) <= Cardinality(Manifest) + 1 + ops
      BY <2>1, <2>4, <2>6, <3>1
    <3> QED
      BY <2>2, <3>2
  <2>8. Len(queue) + Cardinality(Busies') <= ops
    BY <2>3, <2>6
  <2> QED
    BY <2>5, <2>7, <2>8 DEF CountInv
<1>4. SummaryInv'
  BY <1>0, SummaryKept DEF ProjInv, fileVars, runnerVars
<1> QED
  BY <1>1, <1>2, <1>3, <1>4 DEF ProjInv

\* No callback enters or leaves the registry.
LEMMA RegistryKept ==
  ASSUME RegistryInv, UNCHANGED <<made, registryVars>>,
         \A t \in Threads :
           \/ thread'[t] = thread[t]
           \/ thread[t].at \in {"idle", "enqueue"} /\ thread'[t].at \in {"idle", "enqueue"}
  PROVE  RegistryInv'
<1>1. /\ path_to_inode' = path_to_inode /\ inode_to_path' = inode_to_path
      /\ next_inode' = next_inode /\ made' = made
  BY DEF registryVars
<1>2. \A t \in Threads :
        /\ Holds(t)' <=> Holds(t)
        /\ Looks(t)' <=> Looks(t)
        /\ Holds(t) \/ Looks(t) => thread'[t] = thread[t]
        /\ thread'[t].at = "insert_back" <=> thread[t].at = "insert_back"
  BY DEF Holds, Looks
<1>3. HoldersInv'
  BY <1>1, <1>2 DEF RegistryInv, HoldersInv
<1>4. BackInv'
  BY <1>1, <1>2 DEF RegistryInv, BackInv, Holds
<1>5. KnownInv'
  BY <1>1, <1>2 DEF RegistryInv, KnownInv
<1> QED
  BY <1>1, <1>3, <1>4, <1>5 DEF RegistryInv, InodesAreUnique

\* A step of the worker's look or wait, or of the virtualizer's life.
LEMMA LifeStep ==
  ASSUME ProjInv, UNCHANGED <<fileVars, thread, registryVars, queue, databaseVars>>,
         worker' \in WorkerRecords,
         worker'.at = "handle" <=> worker.at = "handle",
         worker.at = "handle" => worker'.task = worker.task,
         context' \in {"none", "alive", "freed"},
         LifeInv'
  PROVE  ProjInv'
<1>1. ProjTypes'
  BY DEF ProjInv, ProjTypes, fileVars, registryVars, databaseVars, Busy
<1>2. RegistryInv'
  BY RegistryKept DEF ProjInv, fileVars
<1>3. CountInv'
  BY DEF ProjInv, CountInv, Allocating, Busies, Busy, fileVars, registryVars
<1>4. SummaryInv'
  BY SummaryKept DEF ProjInv, fileVars, Busy
<1> QED
  BY <1>1, <1>2, <1>3, <1>4 DEF ProjInv

-----------------------------------------------------------------------------
(* The registry *)

\* A path that has an inode needs no more than that.
LEMMA LookUpStep ==
  ASSUME ProjInv, NEW t \in Threads, LookUp(t)
  PROVE  ProjInv'
<1> DEFINE at == IF path_to_inode[thread[t].task.path] # 0 THEN "enqueue" ELSE "allocate"
<1>0. /\ ProjTypes /\ thread[t].at = "look_up" /\ Goto(t, at)
      /\ UNCHANGED <<fileVars, runnerVars, databaseVars, lifeVars>>
      /\ UNCHANGED <<path_to_inode, inode_to_path, next_inode>>
      /\ made' = made
  BY DEF LookUp, ProjInv, registryVars, fileVars
<1>1. /\ at \in {"enqueue", "allocate"} /\ at \in Points
      /\ at = "enqueue" => path_to_inode[thread[t].task.path] # 0
  BY DEF Points
<1> HIDE DEF at
<1>2. /\ thread' \in [Threads -> ThreadRecords] /\ thread'[t].at = at
      /\ thread'[t].task = thread[t].task
      /\ \A u \in Threads \ {t} : thread'[u] = thread[u]
  BY <1>0, <1>1, Moved
<1>3. RegistryInv'
  <2>1. \A u \in Threads :
          /\ Holds(u)' <=> Holds(u)
          /\ Holds(u) => thread'[u] = thread[u]
          /\ Looks(u)' => Looks(u)
          /\ u # t => (Looks(u)' <=> Looks(u))
          /\ thread'[u].task = thread[u].task
          /\ thread'[u].at = "insert_back" <=> thread[u].at = "insert_back"
          /\ u = t => Looks(u)' \/ path_to_inode[thread[u].task.path] # 0
    BY <1>0, <1>1, <1>2 DEF Holds, Looks
  <2>2. HoldersInv'
    BY <1>0, <2>1 DEF ProjInv, RegistryInv, HoldersInv
  <2>3. BackInv'
    BY <1>0, <2>1 DEF ProjInv, RegistryInv, BackInv, Holds
  <2>4. KnownInv'
    BY <1>0, <2>1 DEF ProjInv, RegistryInv, KnownInv
  <2> QED
    BY <1>0, <2>2, <2>3, <2>4 DEF ProjInv, RegistryInv, InodesAreUnique
<1>4. /\ path_to_inode' \in [Paths -> Nat] /\ next_inode' \in Nat \ {0}
      /\ inode_to_path' \in [Inodes -> Paths \cup {None}]
  BY <1>0 DEF ProjTypes
<1>5. next_inode' + (IF thread'[t].at \in {"look_up", "allocate"} THEN 1 ELSE 0)
        <= next_inode + (IF thread[t].at \in {"look_up", "allocate"} THEN 1 ELSE 0)
  BY <1>0, <1>1, <1>2 DEF ProjTypes
<1>6. Busy(t) /\ thread'[t].at \in Points \ {"idle"}
  BY <1>0, <1>1, <1>2 DEF Busy
<1> QED
  BY <1>0, <1>2, <1>3, <1>4, <1>5, <1>6, CallbackStep

\* fetch_add gives an inode that nobody has.
LEMMA AllocateStep ==
  ASSUME ProjInv, NEW t \in Threads, Allocate(t)
  PROVE  ProjInv'
<1>0. /\ ProjTypes /\ thread[t].at = "allocate" /\ next_inode' = next_inode + 1
      /\ next_inode \in Nat \ {0}
      /\ thread' = [thread EXCEPT ![t].at = "insert", ![t].inode = next_inode]
      /\ UNCHANGED <<fileVars, runnerVars, databaseVars, lifeVars>>
      /\ UNCHANGED <<path_to_inode, inode_to_path>>
      /\ made' = made
  BY DEF Allocate, ProjInv, ProjTypes, fileVars
<1>2. /\ thread' \in [Threads -> ThreadRecords] /\ thread'[t].at = "insert"
      /\ thread'[t].task = thread[t].task /\ thread'[t].inode = next_inode
      /\ \A u \in Threads \ {t} : thread'[u] = thread[u]
  BY <1>0, MovedWithInode DEF Points
<1>3. /\ path_to_inode' \in [Paths -> Nat] /\ next_inode' \in Nat \ {0}
      /\ inode_to_path' \in [Inodes -> Paths \cup {None}]
      /\ \A u \in Threads : thread[u].inode \in Nat
  BY <1>0 DEF ProjTypes, ThreadRecords
<1>4. RegistryInv'
  <2>1. /\ \A p \in Paths : path_to_inode[p] \in Nat /\ path_to_inode[p] < next_inode
        /\ \A u \in Threads \ {t} : Holds(u) => thread[u].inode < next_inode
    BY <1>0 DEF ProjInv, ProjTypes, RegistryInv, HoldersInv
  <2>2. /\ Holds(t)' /\ ~Holds(t) /\ Looks(t)' /\ Looks(t)
        /\ \A u \in Threads \ {t} : (Holds(u)' <=> Holds(u)) /\ (Looks(u)' <=> Looks(u))
    BY <1>0, <1>2 DEF Holds, Looks
  <2>3. HoldersInv'
    BY <1>0, <1>2, <1>3, <2>1, <2>2 DEF ProjInv, RegistryInv, HoldersInv
  <2>4. BackInv'
    BY <1>0, <1>2 DEF ProjInv, RegistryInv, BackInv
  <2>5. KnownInv'
    BY <1>0, <1>2, <2>2 DEF ProjInv, RegistryInv, KnownInv
  <2>6. \A p \in Paths : path_to_inode'[p] < next_inode'
    BY <1>0, <2>1
  <2> QED
    BY <1>0, <2>3, <2>4, <2>5, <2>6 DEF ProjInv, RegistryInv, InodesAreUnique
<1>5. next_inode' + (IF thread'[t].at \in {"look_up", "allocate"} THEN 1 ELSE 0)
        <= next_inode + (IF thread[t].at \in {"look_up", "allocate"} THEN 1 ELSE 0)
  BY <1>0, <1>2
<1>6. Busy(t) /\ thread'[t].at \in Points \ {"idle"}
  BY <1>0, <1>2 DEF Busy, Points
<1> QED
  BY <1>0, <1>2, <1>3, <1>4, <1>5, <1>6, CallbackStep

\* The inode is in the map, over the one that another callback may have given the
\* path, and the thread has still to write the way back.
LEMMA InsertStep ==
  ASSUME ProjInv, NEW t \in Threads, Insert(t)
  PROVE  ProjInv'
<1> DEFINE q == thread[t].task.path
           inode == thread[t].inode
<1>0. /\ ProjTypes /\ thread[t].at = "insert" /\ Goto(t, "insert_back")
      /\ path_to_inode' = [path_to_inode EXCEPT ![q] = inode]
      /\ UNCHANGED <<fileVars, runnerVars, databaseVars, lifeVars>>
      /\ UNCHANGED <<inode_to_path, next_inode>>
      /\ made' = made
  BY DEF Insert, ProjInv, fileVars
<1>1. /\ inode \in Nat /\ path_to_inode \in [Paths -> Nat]
      /\ q \in Paths /\ q \in made
  <2>1. Busy(t) /\ thread[t].task \in Tasks
    BY <1>0 DEF ProjTypes, Busy
  <2>2. q \in Paths
    BY <2>1 DEF Tasks
  <2>3. q \in made
    BY <2>1, <2>2 DEF ProjInv, SummaryInv, InCallback
  <2> QED
    BY <1>0, <2>2, <2>3 DEF ProjTypes, ThreadRecords
<1>2. /\ thread' \in [Threads -> ThreadRecords] /\ thread'[t].at = "insert_back"
      /\ thread'[t].task.path = q /\ thread'[t].inode = inode
      /\ thread'[t].task = thread[t].task
      /\ \A u \in Threads \ {t} : thread'[u] = thread[u]
  BY <1>0, Moved DEF Points
<1>3. /\ path_to_inode' \in [Paths -> Nat] /\ next_inode' \in Nat \ {0}
      /\ inode_to_path' \in [Inodes -> Paths \cup {None}]
      /\ path_to_inode'[q] = inode
      /\ \A p \in Paths \ {q} : path_to_inode'[p] = path_to_inode[p]
  BY <1>0, <1>1 DEF ProjTypes
<1>4. RegistryInv'
  <2>1. /\ RegistryInv /\ inode # 0 /\ inode < next_inode
        /\ \A p \in Paths : path_to_inode[p] # inode
        /\ \A u \in Threads \ {t} : Holds(u) => thread[u].inode # inode
    BY <1>0 DEF ProjInv, RegistryInv, HoldersInv, Holds
  <2>a. q = thread[t].task.path /\ inode = thread[t].inode
    OBVIOUS
  <2> HIDE DEF q, inode
  <2>2. \A p \in Paths : path_to_inode'[p] < next_inode'
    BY <1>0, <1>3, <2>1 DEF RegistryInv
  <2>3. InodesAreUnique'
    BY <1>3, <2>1 DEF RegistryInv, InodesAreUnique
  <2>4. /\ Holds(t)' /\ Holds(t) /\ Looks(t) /\ ~Looks(t)'
        /\ \A u \in Threads \ {t} : (Holds(u)' <=> Holds(u)) /\ (Looks(u)' <=> Looks(u))
    BY <1>0, <1>2 DEF Holds, Looks
  <2>5. HoldersInv'
    <3> SUFFICES ASSUME NEW u \in Threads, Holds(u)'
                 PROVE  /\ thread'[u].inode # 0 /\ thread'[u].inode < next_inode'
                        /\ \A p \in Paths : path_to_inode'[p] = thread'[u].inode =>
                             p = thread'[u].task.path /\ thread'[u].at = "insert_back"
                        /\ \A v \in Threads \ {u} :
                             Holds(v)' => thread'[v].inode # thread'[u].inode
      BY DEF HoldersInv
    <3>1. CASE u = t
      BY <1>0, <1>2, <1>3, <2>1, <2>4, <3>1
    <3>2. CASE u # t
      <4>1. /\ Holds(u) /\ thread'[u] = thread[u] /\ thread[u].inode # inode
            /\ thread[u].inode # 0 /\ thread[u].inode < next_inode
            /\ \A p \in Paths : path_to_inode[p] = thread[u].inode =>
                 p = thread[u].task.path /\ thread[u].at = "insert_back"
            /\ \A v \in Threads \ {u} : Holds(v) => thread[v].inode # thread[u].inode
        BY <1>2, <2>1, <2>4, <3>2 DEF RegistryInv, HoldersInv
      <4> QED
        BY <1>0, <1>2, <1>3, <2>4, <3>2, <4>1
    <3> QED
      BY <3>1, <3>2
  <2>6. BackInv'
    <3> SUFFICES ASSUME NEW p \in Paths, path_to_inode'[p] # 0
                 PROVE  \/ inode_to_path'[path_to_inode'[p]] = p
                        \/ \E u \in Threads : thread'[u].at = "insert_back"
                                              /\ thread'[u].inode = path_to_inode'[p]
      BY DEF BackInv
    <3>1. CASE p = q
      BY <1>2, <1>3, <3>1
    <3>2. CASE p # q
      <4>1. /\ path_to_inode'[p] = path_to_inode[p] /\ inode_to_path' = inode_to_path
            /\ \/ inode_to_path[path_to_inode[p]] = p
               \/ \E u \in Threads : thread[u].at = "insert_back"
                                     /\ thread[u].inode = path_to_inode[p]
        BY <1>0, <1>3, <2>1, <3>2 DEF RegistryInv, BackInv
      <4> QED
        BY <1>0, <1>2, <4>1
    <3> QED
      BY <3>1, <3>2
  <2>7. KnownInv'
    <3>1. \A p \in Paths : path_to_inode'[p] # 0 => p \in Manifest \cup made'
      BY <1>0, <1>1, <1>3, <2>1 DEF RegistryInv, KnownInv
    <3>2. ASSUME NEW p \in Manifest \cup made, p # q
          PROVE  path_to_inode'[p] # 0 \/ \E u \in Threads : Looks(u)' /\ thread'[u].task.path = p
      <4>1. p \in Paths
        BY <1>0, ProjFsAssumption DEF ProjTypes
      <4>2. CASE path_to_inode[p] # 0
        BY <1>3, <3>2, <4>1, <4>2
      <4>3. CASE path_to_inode[p] = 0
        <5>1. PICK u \in Threads : Looks(u) /\ thread[u].task.path = p
          BY <2>1, <4>3 DEF RegistryInv, KnownInv
        <5>2. u # t
          BY <2>a, <3>2, <5>1
        <5> QED
          BY <1>2, <2>4, <5>1, <5>2
      <4> QED
        BY <4>2, <4>3
    <3> QED
      BY <1>0, <1>3, <2>1, <3>1, <3>2 DEF KnownInv
  <2> QED
    BY <2>2, <2>3, <2>5, <2>6, <2>7 DEF RegistryInv
<1>5. next_inode' + (IF thread'[t].at \in {"look_up", "allocate"} THEN 1 ELSE 0)
        <= next_inode + (IF thread[t].at \in {"look_up", "allocate"} THEN 1 ELSE 0)
  BY <1>0, <1>2 DEF ProjTypes
<1>6. Busy(t) /\ thread'[t].at \in Points \ {"idle"}
  BY <1>0, <1>2 DEF Busy, Points
<1> QED
  BY <1>0, <1>2, <1>3, <1>4, <1>5, <1>6, CallbackStep

\* The inode that a callback holds is one of those the counts allow.
LEMMA InodeInRange ==
  ASSUME ProjInv, NEW t \in Threads, Holds(t)
  PROVE  thread[t].inode \in Inodes
<1>1. /\ thread[t].inode \in Nat \ {0} /\ thread[t].inode < next_inode
      /\ next_inode \in Nat /\ ops \in Nat /\ ops <= MaxOps /\ MaxOps \in Nat
  BY ProjFsAssumption DEF ProjInv, ProjTypes, ThreadRecords, RegistryInv, HoldersInv
<1>2. /\ Cardinality(Manifest) \in Nat /\ Cardinality(Allocating) \in Nat
      /\ next_inode + Cardinality(Allocating) <= Cardinality(Manifest) + 1 + ops
  BY ManifestCard, CountsFinite DEF ProjInv, CountInv
<1> QED
  BY <1>1, <1>2 DEF Inodes

\* The way back is written; the inode may have left the map again.
LEMMA InsertBackStep ==
  ASSUME ProjInv, NEW t \in Threads, InsertBack(t)
  PROVE  ProjInv'
<1> DEFINE q == thread[t].task.path
           inode == thread[t].inode
<1>0. /\ ProjTypes /\ thread[t].at = "insert_back" /\ Goto(t, "enqueue")
      /\ inode_to_path' = [inode_to_path EXCEPT ![inode] = q]
      /\ UNCHANGED <<fileVars, runnerVars, databaseVars, lifeVars>>
      /\ UNCHANGED <<path_to_inode, next_inode>>
      /\ made' = made
  BY DEF InsertBack, ProjInv, fileVars
<1>1. q \in Paths
  <2>1. thread[t].task \in Tasks
    BY <1>0 DEF ProjTypes, Busy
  <2> QED
    BY <2>1 DEF Tasks
<1>2. /\ thread' \in [Threads -> ThreadRecords] /\ thread'[t].at = "enqueue"
      /\ thread'[t].task = thread[t].task
      /\ \A u \in Threads \ {t} : thread'[u] = thread[u]
  BY <1>0, Moved DEF Points
<1>3. /\ path_to_inode' \in [Paths -> Nat] /\ next_inode' \in Nat \ {0}
      /\ inode_to_path' \in [Inodes -> Paths \cup {None}]
  BY <1>0, <1>1 DEF ProjTypes
<1>4. RegistryInv'
  <2>1. /\ RegistryInv /\ Holds(t)
        /\ inode \in Inodes
        /\ \A p \in Paths : path_to_inode[p] = inode => p = q
    BY <1>0, InodeInRange DEF ProjInv, RegistryInv, HoldersInv, Holds
  <2>2. /\ \A u \in Threads : Holds(u)' => Holds(u) /\ thread'[u] = thread[u]
        /\ \A u \in Threads : (Looks(u)' <=> Looks(u)) /\ thread'[u].task = thread[u].task
    BY <1>0, <1>2 DEF Holds, Looks
  <2>3. HoldersInv'
    BY <1>0, <2>1, <2>2 DEF RegistryInv, HoldersInv
  <2>4. BackInv'
    <3> SUFFICES ASSUME NEW p \in Paths, path_to_inode[p] # 0
                 PROVE  \/ inode_to_path'[path_to_inode[p]] = p
                        \/ \E u \in Threads : thread'[u].at = "insert_back"
                                              /\ thread'[u].inode = path_to_inode[p]
      BY <1>0 DEF BackInv
    <3>a. inode = thread[t].inode /\ inode_to_path \in [Inodes -> Paths \cup {None}]
      BY <1>0 DEF ProjTypes
    <3> HIDE DEF inode
    <3>1. CASE path_to_inode[p] = inode
      BY <1>0, <2>1, <3>a, <3>1
    <3>2. CASE path_to_inode[p] # inode
      <4>1. inode_to_path'[path_to_inode[p]] = inode_to_path[path_to_inode[p]]
        BY <1>0, <3>a, <3>2
      <4>2. \/ inode_to_path[path_to_inode[p]] = p
            \/ \E u \in Threads : thread[u].at = "insert_back"
                                  /\ thread[u].inode = path_to_inode[p]
        BY <2>1 DEF RegistryInv, BackInv
      <4> QED
        BY <1>2, <3>a, <3>2, <4>1, <4>2
    <3> QED
      BY <3>1, <3>2
  <2>5. KnownInv'
    BY <1>0, <2>1, <2>2 DEF RegistryInv, KnownInv
  <2> QED
    BY <1>0, <2>1, <2>3, <2>4, <2>5 DEF RegistryInv, InodesAreUnique
<1>5. next_inode' + (IF thread'[t].at \in {"look_up", "allocate"} THEN 1 ELSE 0)
        <= next_inode + (IF thread[t].at \in {"look_up", "allocate"} THEN 1 ELSE 0)
  BY <1>0, <1>2 DEF ProjTypes
<1>6. Busy(t) /\ thread'[t].at \in Points \ {"idle"}
  BY <1>0, <1>2 DEF Busy, Points
<1> QED
  BY <1>0, <1>2, <1>3, <1>4, <1>5, <1>6, CallbackStep

-----------------------------------------------------------------------------
(* The changes *)

\* The callback of a creation begins.
LEMMA CreateStep ==
  ASSUME ProjInv, NEW t \in Threads, NEW p \in Paths, Create(t, p)
  PROVE  ProjInv'
<1> DEFINE task == Task(p)
<1>0. /\ ProjTypes /\ context = "alive" /\ stopper = "started" /\ ~Busy(t)
      /\ thread[t].at = "idle"
      /\ ops' = ops + 1 /\ ops < MaxOps /\ ops \in Nat
      /\ exists' = [exists EXCEPT ![p] = TRUE] /\ made' = made \cup {p}
      /\ thread' = [thread EXCEPT ![t] = [Idle EXCEPT !.at = "look_up", !.task = task]]
      /\ UNCHANGED <<registryVars, runnerVars, databaseVars, lifeVars>>
  BY DEF Create, Change, ProjInv, Busy, ProjTypes
<1>a. task \in Tasks /\ task.path = p
  BY DEF Task, Tasks
<1> HIDE DEF task
<1>1. /\ thread' \in [Threads -> ThreadRecords]
      /\ thread'[t].at = "look_up" /\ thread'[t].task = task
      /\ \A u \in Threads \ {t} : thread'[u] = thread[u]
  BY <1>0, <1>a, BeganOrEnded DEF Points
<1>2. Busy(t)' /\ \A u \in Threads \ {t} : Busy(u)' <=> Busy(u)
  BY <1>1 DEF Busy
<1>3. ProjTypes'
  <2>1. \A u \in Threads : Busy(u)' => thread'[u].task \in Tasks
    BY <1>0, <1>a, <1>1, <1>2 DEF ProjTypes
  <2>2. ops' \in Nat /\ ops' <= MaxOps
    BY <1>0, ProjFsAssumption
  <2> QED
    BY <1>0, <1>1, <2>1, <2>2 DEF ProjTypes, registryVars, runnerVars, databaseVars, lifeVars
<1>4. LifeInv'
  BY <1>0, <1>2 DEF ProjInv, LifeInv, runnerVars, lifeVars
<1>5. RegistryInv'
  <2>1. path_to_inode' = path_to_inode /\ inode_to_path' = inode_to_path /\ next_inode' = next_inode
    BY <1>0 DEF registryVars
  <2>2. /\ ~Holds(t)' /\ ~Holds(t) /\ Looks(t)' /\ ~Looks(t) /\ thread'[t].task.path = p
        /\ \A u \in Threads \ {t} : (Holds(u)' <=> Holds(u)) /\ (Looks(u)' <=> Looks(u))
    BY <1>0, <1>a, <1>1 DEF Holds, Looks
  <2>3. HoldersInv'
    BY <1>1, <2>1, <2>2 DEF ProjInv, RegistryInv, HoldersInv
  <2>4. BackInv'
    BY <1>0, <1>1, <2>1 DEF ProjInv, RegistryInv, BackInv
  <2>5. KnownInv'
    BY <1>0, <1>1, <2>1, <2>2 DEF ProjInv, RegistryInv, KnownInv
  <2> QED
    BY <2>1, <2>3, <2>4, <2>5 DEF ProjInv, RegistryInv, InodesAreUnique
<1>6. CountInv'
  <2>1. /\ Cardinality(Allocating) \in Nat /\ Cardinality(Busies) \in Nat
        /\ Cardinality(Manifest) \in Nat /\ next_inode \in Nat /\ Len(queue) \in Nat
    BY <1>0, CountsFinite, ManifestCard DEF ProjTypes
  <2>2. /\ Cardinality(Allocating') =
             Cardinality(Allocating)
               + (IF thread'[t].at \in {"look_up", "allocate"} THEN 1 ELSE 0)
               - (IF thread[t].at \in {"look_up", "allocate"} THEN 1 ELSE 0)
        /\ Cardinality(Busies') =
             Cardinality(Busies) + (IF Busy(t)' THEN 1 ELSE 0) - (IF Busy(t) THEN 1 ELSE 0)
    BY <1>1, OneThreadCounts
  <2>3. /\ Cardinality(Allocating') = Cardinality(Allocating) + 1
        /\ Cardinality(Busies') = Cardinality(Busies) + 1
    BY <1>0, <1>1, <1>2, <2>1, <2>2
  <2>4. next_inode' = next_inode /\ queue' = queue
    BY <1>0 DEF registryVars, runnerVars
  <2>5. /\ next_inode + Cardinality(Allocating) <= Cardinality(Manifest) + 1 + ops
        /\ Len(queue) + Cardinality(Busies) <= ops
    BY DEF ProjInv, CountInv
  <2>6. /\ next_inode + Cardinality(Allocating') <= Cardinality(Manifest) + 1 + ops'
        /\ Len(queue) + Cardinality(Busies') <= ops'
    BY <1>0, <2>1, <2>3, <2>5
  <2> QED
    BY <2>4, <2>6 DEF CountInv
<1>7. SummaryInv'
  <2> SUFFICES ASSUME NEW r \in Paths
               PROVE  r \in made' <=> (r \in Listed \/ InCallback(r) \/ InQueue(r) \/ InWork(r))'
    BY DEF SummaryInv
  <2>1. /\ r \in Listed' <=> r \in Listed
        /\ InQueue(r)' <=> InQueue(r)
        /\ InWork(r)' <=> InWork(r)
    BY <1>0 DEF Listed, InQueue, InWork, databaseVars, runnerVars
  <2>2. InCallback(r)' <=> InCallback(r) \/ r = p
    BY <1>0, <1>a, <1>1, <1>2 DEF InCallback
  <2> QED
    BY <1>0, <2>1, <2>2 DEF ProjInv, SummaryInv
<1> QED
  BY <1>3, <1>4, <1>5, <1>6, <1>7 DEF ProjInv

\* Nobody is told of deletions and renames.
LEMMA UntoldStep ==
  ASSUME ProjInv, NEW t \in Threads, NEW p \in Paths,
         Delete(t, p) \/ \E q \in Paths : Rename(t, p, q)
  PROVE  ProjInv'
<1>0. /\ ProjTypes /\ ops' = ops + 1 /\ ops < MaxOps /\ ops \in Nat /\ MaxOps \in Nat
      /\ exists' \in [Paths -> BOOLEAN]
      /\ UNCHANGED <<made, thread>>
      /\ UNCHANGED <<registryVars, runnerVars, databaseVars, lifeVars>>
  BY ProjFsAssumption DEF Delete, Rename, Change, ProjInv, ProjTypes
<1>1. ProjTypes'
  BY <1>0 DEF ProjTypes, registryVars, runnerVars, databaseVars, lifeVars, Busy
<1>2. LifeInv'
  BY <1>0 DEF ProjInv, LifeInv, runnerVars, lifeVars, Busy
<1>3. RegistryInv'
  BY <1>0, RegistryKept DEF ProjInv
<1>4. CountInv'
  <2>1. Allocating' = Allocating /\ Busies' = Busies
    BY <1>0 DEF Allocating, Busies, Busy
  <2>2. /\ Cardinality(Allocating) \in Nat /\ Cardinality(Busies) \in Nat
        /\ Cardinality(Manifest) \in Nat /\ next_inode \in Nat /\ Len(queue) \in Nat
    BY <1>0, CountsFinite, ManifestCard DEF ProjTypes
  <2> QED
    BY <1>0, <2>1, <2>2 DEF ProjInv, CountInv, registryVars, runnerVars
<1>5. SummaryInv'
  BY <1>0, SummaryKept DEF ProjInv, runnerVars, Busy
<1> QED
  BY <1>1, <1>2, <1>3, <1>4, <1>5 DEF ProjInv

-----------------------------------------------------------------------------
(* The queue and the worker *)

\* The task goes from the thread to the end of the queue.
LEMMA EnqueueStep ==
  ASSUME ProjInv, NEW t \in Threads, Enqueue(t)
  PROVE  ProjInv'
<1> DEFINE task == thread[t].task
           n    == Len(queue)
<1>0. /\ ProjTypes /\ Busy(t) /\ thread[t].at = "enqueue"
      /\ queue' = Append(queue, task) /\ worker' = Woken(worker)
      /\ thread' = [thread EXCEPT ![t] = Idle]
      /\ UNCHANGED <<fileVars, registryVars, shutdown, databaseVars, lifeVars>>
  BY DEF Enqueue, ProjInv, Busy, Queued, Wake
<1>1. task \in Tasks
  BY <1>0 DEF ProjTypes
<1>2. /\ thread' \in [Threads -> ThreadRecords] /\ thread'[t].at = "idle"
      /\ \A u \in Threads \ {t} : thread'[u] = thread[u]
  <2>1. Idle \in ThreadRecords /\ Idle.at = "idle"
    BY DEF Idle, ThreadRecords, Points
  <2> QED
    BY <1>0, <2>1 DEF ProjTypes
<1>3. ~Busy(t)' /\ \A u \in Threads \ {t} : Busy(u)' <=> Busy(u)
  BY <1>2 DEF Busy
<1>4. /\ queue \in Seq(Tasks) /\ n \in Nat
      /\ queue' \in Seq(Tasks) /\ Len(queue') = n + 1 /\ queue'[n + 1] = task
      /\ \A i \in 1 .. n : queue'[i] = queue[i]
  BY <1>0, <1>1 DEF ProjTypes
<1>5. /\ worker' \in WorkerRecords
      /\ \/ worker'.at = worker.at /\ worker'.task = worker.task
         \/ worker.at = "waiting" /\ worker'.at = "look"
  BY <1>0, WokenWorker DEF ProjTypes
<1>6. ProjTypes'
  <2>1. \A u \in Threads : Busy(u)' => thread'[u].task \in Tasks
    BY <1>0, <1>2, <1>3 DEF ProjTypes
  <2>2. /\ worker' \in WorkerRecords
        /\ worker'.at = "handle" => worker'.task \in Tasks
    BY <1>0, <1>5 DEF ProjTypes
  <2> QED
    BY <1>0, <1>2, <1>4, <2>1, <2>2 DEF ProjTypes, fileVars, registryVars, databaseVars, lifeVars
<1>7. LifeInv'
  <2>1. worker.at # "done" /\ worker'.at # "done"
    BY <1>0, <1>5 DEF ProjInv, LifeInv
  <2> QED
    BY <1>0, <1>3, <2>1 DEF ProjInv, LifeInv, lifeVars
<1>8. RegistryInv'
  BY <1>0, <1>2, RegistryKept DEF ProjInv, fileVars
<1>9. CountInv'
  <2>1. /\ Cardinality(Allocating) \in Nat /\ Cardinality(Busies) \in Nat
        /\ Cardinality(Manifest) \in Nat /\ next_inode \in Nat /\ ops \in Nat
    BY <1>0, CountsFinite, ManifestCard DEF ProjTypes
  <2>2. /\ Cardinality(Allocating') =
             Cardinality(Allocating)
               + (IF thread'[t].at \in {"look_up", "allocate"} THEN 1 ELSE 0)
               - (IF thread[t].at \in {"look_up", "allocate"} THEN 1 ELSE 0)
        /\ Cardinality(Busies') =
             Cardinality(Busies) + (IF Busy(t)' THEN 1 ELSE 0) - (IF Busy(t) THEN 1 ELSE 0)
    BY <1>2, OneThreadCounts
  <2>3. /\ Cardinality(Allocating') = Cardinality(Allocating)
        /\ Cardinality(Busies') = Cardinality(Busies) - 1
    BY <1>0, <1>2, <1>3, <2>1, <2>2
  <2>4. /\ next_inode + Cardinality(Allocating) <= Cardinality(Manifest) + 1 + ops
        /\ n + Cardinality(Busies) <= ops
    BY DEF ProjInv, CountInv
  <2>5. (n + 1) + Cardinality(Busies') <= ops
    BY <1>4, <2>1, <2>3, <2>4
  <2>6. next_inode' = next_inode /\ ops' = ops
    BY <1>0 DEF registryVars, fileVars
  <2> QED
    BY <1>4, <2>3, <2>4, <2>5, <2>6 DEF CountInv
<1>10. SummaryInv'
  <2> SUFFICES ASSUME NEW p \in Paths
               PROVE  p \in made' <=> (p \in Listed \/ InCallback(p) \/ InQueue(p) \/ InWork(p))'
    BY DEF SummaryInv
  <2>1. /\ p \in made' <=> p \in made
        /\ p \in Listed' <=> p \in Listed
        /\ InWork(p)' <=> InWork(p)
    BY <1>0, <1>5 DEF Listed, InWork, databaseVars, fileVars
  <2>2. InQueue(p)' <=> InQueue(p) \/ task.path = p
    <3>1. ASSUME InQueue(p)' PROVE InQueue(p) \/ task.path = p
      <4>1. PICK i \in 1 .. n + 1 : queue'[i].path = p
        BY <1>4, <3>1 DEF InQueue
      <4>2. i \in 1 .. n \/ i = n + 1
        BY <1>4
      <4> QED
        BY <1>4, <4>1, <4>2 DEF InQueue
    <3>2. ASSUME InQueue(p) \/ task.path = p PROVE InQueue(p)'
      <4>1. 1 .. n \subseteq 1 .. Len(queue') /\ n + 1 \in 1 .. Len(queue')
        BY <1>4
      <4> QED
        BY <1>4, <3>2, <4>1 DEF InQueue
    <3> QED
      BY <3>1, <3>2
  <2>3. /\ InCallback(p)' => InCallback(p)
        /\ InCallback(p) => InCallback(p)' \/ task.path = p
        /\ task.path = p => InCallback(p)
    BY <1>0, <1>2, <1>3 DEF InCallback
  <2> QED
    BY <2>1, <2>2, <2>3 DEF ProjInv, SummaryInv
<1> QED
  BY <1>6, <1>7, <1>8, <1>9, <1>10 DEF ProjInv

\* The task goes from the head of the queue to the worker.
LEMMA TakeTaskStep ==
  ASSUME ProjInv, WorkerLook, queue # << >>
  PROVE  ProjInv'
<1> DEFINE task == Head(queue)
           n    == Len(queue)
<1>0. /\ ProjTypes /\ worker.at = "look" /\ queue' = Tail(queue)
      /\ worker' = [at |-> "handle", task |-> task]
      /\ UNCHANGED <<fileVars, thread, registryVars, shutdown, databaseVars, lifeVars>>
  BY DEF WorkerLook, WorkerAt, ProjInv
<1>1. /\ queue \in Seq(Tasks) /\ n \in Nat \ {0} /\ task = queue[1] /\ task \in Tasks
      /\ queue' \in Seq(Tasks) /\ Len(queue') = n - 1
      /\ \A i \in 1 .. n - 1 : queue'[i] = queue[i + 1]
  BY <1>0 DEF ProjTypes
<1>2. ProjTypes'
  <2>1. worker' \in WorkerRecords
    BY <1>0, <1>1 DEF WorkerRecords
  <2> QED
    BY <1>0, <1>1, <2>1 DEF ProjTypes, Busy, fileVars, registryVars, databaseVars, lifeVars
<1>3. LifeInv'
  BY <1>0 DEF ProjInv, LifeInv, Busy, lifeVars
<1>4. RegistryInv'
  BY <1>0, RegistryKept DEF ProjInv, fileVars
<1>5. CountInv'
  <2>1. Allocating' = Allocating /\ Busies' = Busies
    BY <1>0 DEF Allocating, Busies, Busy
  <2>2. Cardinality(Busies) \in Nat /\ ops \in Nat
    BY <1>0, CountsFinite DEF ProjTypes
  <2>3. Len(queue') + Cardinality(Busies) <= ops
    BY <1>1, <2>2 DEF ProjInv, CountInv
  <2> QED
    BY <1>0, <2>1, <2>3 DEF ProjInv, CountInv, fileVars, registryVars
<1>6. SummaryInv'
  <2> SUFFICES ASSUME NEW p \in Paths
               PROVE  p \in made' <=> (p \in Listed \/ InCallback(p) \/ InQueue(p) \/ InWork(p))'
    BY DEF SummaryInv
  <2>1. /\ p \in made' <=> p \in made
        /\ p \in Listed' <=> p \in Listed
        /\ InCallback(p)' <=> InCallback(p)
        /\ InWork(p)' <=> task.path = p
        /\ ~InWork(p)
    BY <1>0 DEF Listed, InCallback, InWork, Busy, databaseVars, fileVars
  <2>2. InQueue(p) <=> InQueue(p)' \/ task.path = p
    <3>1. ASSUME InQueue(p) PROVE InQueue(p)' \/ task.path = p
      <4>1. PICK i \in 1 .. n : queue[i].path = p
        BY <3>1 DEF InQueue
      <4>2. CASE i = 1
        BY <1>1, <4>1, <4>2
      <4>3. CASE i # 1
        <5>1. i - 1 \in 1 .. n - 1 /\ queue'[i - 1] = queue[i]
          BY <1>1, <4>3
        <5> QED
          BY <1>1, <4>1, <5>1 DEF InQueue
      <4> QED
        BY <4>2, <4>3
    <3>2. ASSUME InQueue(p)' PROVE InQueue(p)
      <4>1. PICK i \in 1 .. n - 1 : queue'[i].path = p
        BY <1>1, <3>2 DEF InQueue
      <4>2. i + 1 \in 1 .. n /\ queue[i + 1].path = p
        BY <1>1, <4>1
      <4> QED
        BY <4>2 DEF InQueue
    <3>3. task.path = p => InQueue(p)
      BY <1>1 DEF InQueue
    <3> QED
      BY <3>1, <3>2, <3>3
  <2> QED
    BY <2>1, <2>2 DEF ProjInv, SummaryInv
<1> QED
  BY <1>2, <1>3, <1>4, <1>5, <1>6 DEF ProjInv

LEMMA WorkerWaitStep ==
  ASSUME ProjInv, WorkerWait \/ (WorkerLook /\ queue = << >>)
  PROVE  ProjInv'
<1>1. /\ UNCHANGED <<fileVars, thread, registryVars, queue, databaseVars>>
      /\ UNCHANGED <<shutdown, context, stopper>>
      /\ worker.at # "handle" /\ worker'.at \in {"done", "decided", "waiting"}
      /\ worker' \in WorkerRecords
      /\ worker'.at = "done" => shutdown /\ queue = << >>
  BY DEF WorkerWait, WorkerLook, WorkerAt, lifeVars, ProjInv, ProjTypes, WorkerRecords
<1>2. LifeInv'
  BY <1>1 DEF ProjInv, LifeInv, Busy
<1>3. context' \in {"none", "alive", "freed"}
  BY <1>1 DEF ProjInv, ProjTypes
<1> QED
  BY <1>1, <1>2, <1>3, LifeStep

\* The worker's path is listed, as what it is.
LEMMA HandleStep ==
  ASSUME ProjInv, Handle
  PROVE  ProjInv'
<1> DEFINE task == worker.task
<1>0. /\ ProjTypes /\ worker.at = "handle" /\ task \in Tasks
      /\ worker'.at = "look" /\ worker' \in WorkerRecords
      /\ UNCHANGED <<fileVars, thread, registryVars, queue, shutdown, lifeVars>>
  BY DEF Handle, Handled, ProjInv, ProjTypes, WorkerRecords
<1>1. /\ created_files' \subseteq Files /\ deleted_files' \subseteq Files
      /\ created_dirs' \subseteq Dirs /\ deleted_dirs' \subseteq Dirs
      /\ Listed' = Listed \cup {task.path}
  <2>1. /\ task.path \in Paths /\ Paths = Files \cup Dirs
        /\ created_files \subseteq Files /\ deleted_files \subseteq Files
        /\ created_dirs \subseteq Dirs /\ deleted_dirs \subseteq Dirs
    BY <1>0 DEF ProjTypes, Tasks, Paths
  <2>2. CASE task.kind = "FileCreated" /\ FileCreated(task.path)
               /\ UNCHANGED <<created_dirs, deleted_dirs>>
    BY <1>0, <2>1, <2>2 DEF FileCreated, Listed, Tasks
  <2>3. CASE task.kind = "FolderCreated" /\ DirCreated(task.path)
               /\ UNCHANGED <<created_files, deleted_files>>
    BY <1>0, <2>1, <2>3 DEF DirCreated, Listed, Tasks
  <2> QED
    BY <2>2, <2>3 DEF Handle
<1>2. ProjTypes'
  BY <1>0, <1>1 DEF ProjTypes, fileVars, registryVars, lifeVars, Busy
<1>3. LifeInv'
  BY <1>0 DEF ProjInv, LifeInv, Busy, lifeVars
<1>4. RegistryInv'
  BY <1>0, RegistryKept DEF ProjInv, fileVars
<1>5. CountInv'
  BY <1>0 DEF ProjInv, CountInv, Allocating, Busies, Busy, fileVars, registryVars
<1>6. SummaryInv'
  <2> SUFFICES ASSUME NEW p \in Paths
               PROVE  p \in made' <=> (p \in Listed \/ InCallback(p) \/ InQueue(p) \/ InWork(p))'
    BY DEF SummaryInv
  <2>1. /\ p \in made' <=> p \in made
        /\ InCallback(p)' <=> InCallback(p)
        /\ InQueue(p)' <=> InQueue(p)
        /\ ~InWork(p)'
        /\ InWork(p) <=> task.path = p
    BY <1>0 DEF InCallback, InQueue, InWork, Busy, fileVars
  <2>2. p \in Listed' <=> p \in Listed \/ InWork(p)
    BY <1>1, <2>1
  <2> QED
    BY <2>1, <2>2 DEF ProjInv, SummaryInv
<1> QED
  BY <1>2, <1>3, <1>4, <1>5, <1>6 DEF ProjInv

-----------------------------------------------------------------------------
(* start, stop and drop *)

LEMMA StopStep ==
  ASSUME ProjInv,
         Start \/ StartVirtualizing \/ Stop \/ FreeContext \/ SetFlag \/ NotifyAll \/ Join
  PROVE  ProjInv'
<1>1. UNCHANGED <<fileVars, thread, registryVars, queue, databaseVars>>
  BY DEF Start, StartVirtualizing, Stop, FreeContext, SetFlag, NotifyAll, Join, runnerVars
<1>2. /\ worker' \in WorkerRecords
      /\ \/ UNCHANGED worker
         \/ worker.at = "waiting" /\ worker'.at = "look"
  <2>1. worker \in WorkerRecords
    BY DEF ProjInv, ProjTypes
  <2>2. worker' = worker \/ worker' = Woken(worker)
    BY DEF Start, StartVirtualizing, Stop, FreeContext, SetFlag, NotifyAll, Join, runnerVars
  <2> QED
    BY <2>1, <2>2, WokenWorker
<1>3. context' \in {"none", "alive", "freed"}
  BY DEF Start, StartVirtualizing, Stop, FreeContext, SetFlag, NotifyAll, Join, ProjInv, ProjTypes
<1>4. shutdown => shutdown'
  BY DEF Start, StartVirtualizing, Stop, FreeContext, SetFlag, NotifyAll, Join, runnerVars
<1>5. LifeInv'
  <2>1. /\ \A t \in Threads : Busy(t) => context = "alive" /\ stopper \in {"started", "stopping"}
        /\ shutdown => stopper \in {"notify", "join", "dropped"}
        /\ worker.at = "done" => shutdown /\ queue = << >>
    BY DEF ProjInv, LifeInv
  <2>2. worker'.at = "done" => shutdown' /\ queue' = << >>
    BY <1>1, <1>2, <1>4, <2>1
  <2>3. \A t \in Threads : Busy(t)' => Busy(t)
    BY <1>1 DEF Busy
  <2>4. ASSUME NEW t \in Threads, Busy(t)
        PROVE  context' = "alive" /\ stopper' \in {"started", "stopping"}
    BY <2>1, <2>4 DEF Start, StartVirtualizing, Stop, FreeContext, SetFlag, NotifyAll, Join,
      Life, Busy
  <2>5. shutdown' => stopper' \in {"notify", "join", "dropped"}
    BY <2>1 DEF Start, StartVirtualizing, Stop, FreeContext, SetFlag, NotifyAll, Join,
      Life, runnerVars
  <2> QED
    BY <2>2, <2>3, <2>4, <2>5 DEF LifeInv
<1>6. /\ worker'.at = "handle" <=> worker.at = "handle"
      /\ worker.at = "handle" => worker'.task = worker.task
  BY <1>2
<1> QED
  BY <1>1, <1>2, <1>3, <1>5, <1>6, LifeStep

-----------------------------------------------------------------------------
(* The whole *)

LEMMA InitProjInv == ProjInit => ProjInv
<1> SUFFICES ASSUME ProjInit PROVE ProjInv
  OBVIOUS
<1> DEFINE N == Cardinality(Manifest)
<1>0. N \in Nat /\ MaxOps \in Nat /\ Manifest \subseteq Paths
  BY ManifestCard, ProjFsAssumption
<1>1. /\ path_to_inode \in [Paths -> 0 .. N] /\ next_inode = N + 1
      /\ \A p \in Paths : path_to_inode[p] = 0 <=> p \notin Manifest
      /\ \A p, q \in Manifest : path_to_inode[p] = path_to_inode[q] => p = q
  BY DEF ProjInit, RegistryInit
<1>2. inode_to_path \in [Inodes -> Paths \cup {None}]
  <2>1. ASSUME NEW i \in Inodes
        PROVE  (IF \E p \in Manifest : path_to_inode[p] = i
                  THEN CHOOSE p \in Manifest : path_to_inode[p] = i ELSE None) \in Paths \cup {None}
    BY <1>0
  <2> QED
    BY <2>1 DEF ProjInit, RegistryInit
<1>3. \A t \in Threads : thread[t].at = "idle" /\ ~Busy(t)
  BY DEF ProjInit, Idle, Busy
<1>4. ProjTypes
  <2>1. thread \in [Threads -> ThreadRecords]
    BY DEF ProjInit, Idle, ThreadRecords, Points
  <2>2. worker \in WorkerRecords /\ worker.at = "look"
    BY DEF ProjInit, WorkerRecords
  <2>3. \A t \in Threads : Busy(t) => thread[t].task \in Tasks
    BY <1>3
  <2>4. path_to_inode \in [Paths -> Nat] /\ next_inode \in Nat \ {0}
    BY <1>0, <1>1
  <2>5. exists \in [Paths -> BOOLEAN] /\ made = {} /\ ops = 0 /\ queue = << >> /\ queue \in Seq(Tasks)
    BY DEF ProjInit
  <2>6. /\ created_files = {} /\ deleted_files = {}
        /\ created_dirs = {} /\ deleted_dirs = {} /\ context = "none"
    BY DEF ProjInit
  <2> QED
    BY <1>0, <1>2, <2>1, <2>2, <2>3, <2>4, <2>5, <2>6 DEF ProjTypes
<1>5. LifeInv
  BY <1>3 DEF ProjInit, LifeInv
<1>6. RegistryInv
  <2>1. \A p \in Paths : path_to_inode[p] < next_inode
    BY <1>0, <1>1
  <2>2. InodesAreUnique
    BY <1>1 DEF InodesAreUnique
  <2>3. HoldersInv
    BY <1>3 DEF HoldersInv, Holds
  <2>4. BackInv
    <3> SUFFICES ASSUME NEW p \in Paths, path_to_inode[p] # 0
                 PROVE  inode_to_path[path_to_inode[p]] = p
      BY DEF BackInv
    <3>1. p \in Manifest /\ path_to_inode[p] \in Inodes
      BY <1>0, <1>1 DEF Inodes
    <3> DEFINE i == path_to_inode[p]
    <3>2. inode_to_path[i] = (IF \E q \in Manifest : path_to_inode[q] = i
                                THEN CHOOSE q \in Manifest : path_to_inode[q] = i ELSE None)
      BY <3>1 DEF ProjInit, RegistryInit
    <3>3. \E q \in Manifest : path_to_inode[q] = i
      BY <3>1
    <3>4. \A q \in Manifest : path_to_inode[q] = i => q = p
      BY <1>1, <3>1
    <3> QED
      BY <3>2, <3>3, <3>4
  <2>5. KnownInv
    BY <1>0, <1>1 DEF ProjInit, KnownInv
  <2> QED
    BY <2>1, <2>2, <2>3, <2>4, <2>5 DEF RegistryInv
<1>7. CountInv
  <2>1. Allocating = {} /\ Busies = {}
    BY <1>3 DEF Allocating, Busies
  <2>2. Cardinality(Allocating) = 0 /\ Cardinality(Busies) = 0
    BY <2>1, FS_EmptySet
  <2>3. ops = 0 /\ Len(queue) = 0
    BY DEF ProjInit
  <2> QED
    BY <1>0, <1>1, <2>2, <2>3 DEF CountInv
<1>8. SummaryInv
  BY <1>3 DEF ProjInit, SummaryInv, Listed, InCallback, InQueue, InWork
<1> QED
  BY <1>4, <1>5, <1>6, <1>7, <1>8 DEF ProjInv

LEMMA ProjStutter == ASSUME ProjInv, UNCHANGED projVars PROVE ProjInv'
<1>1. /\ UNCHANGED <<fileVars, thread, registryVars, queue, databaseVars>>
      /\ UNCHANGED <<worker, shutdown, context, stopper>>
  BY DEF projVars, runnerVars, lifeVars
<1>2. LifeInv'
  BY <1>1 DEF ProjInv, LifeInv, Busy
<1>3. worker' \in WorkerRecords /\ context' \in {"none", "alive", "freed"}
  BY <1>1 DEF ProjInv, ProjTypes
<1> QED
  BY <1>1, <1>2, <1>3, LifeStep

LEMMA NextProjInv == ASSUME ProjInv, [ProjNext]_projVars PROVE ProjInv'
<1>1. ASSUME NEW t \in Threads, Callback(t) PROVE ProjInv'
  BY <1>1, LookUpStep, AllocateStep, InsertStep, InsertBackStep, EnqueueStep DEF Callback
<1>2. ASSUME NEW t \in Threads, NEW p \in Paths,
             Create(t, p) \/ Delete(t, p) \/ \E q \in Paths : Rename(t, p, q)
      PROVE  ProjInv'
  BY <1>2, CreateStep, UntoldStep
<1>3. CASE Worker
  BY <1>3, TakeTaskStep, WorkerWaitStep, HandleStep DEF Worker
<1>4. CASE Start \/ StartVirtualizing \/ Stop \/ FreeContext \/ SetFlag \/ NotifyAll \/ Join
  BY <1>4, StopStep
<1>5. CASE UNCHANGED projVars
  BY <1>5, ProjStutter
<1> QED
  BY <1>1, <1>2, <1>3, <1>4, <1>5 DEF ProjNext

LEMMA ProjInvariant == ProjSpec => []ProjInv
<1>1. ProjInit => ProjInv
  BY InitProjInv
<1>2. ProjInv /\ [ProjNext]_projVars => ProjInv'
  BY NextProjInv
<1> QED
  BY <1>1, <1>2, PTL DEF ProjSpec

LEMMA CountsBound == ProjInv => ProjTypeOK
<1> SUFFICES ASSUME ProjInv PROVE ProjTypeOK
  OBVIOUS
<1>1. ProjTypes /\ RegistryInv /\ CountInv
  BY DEF ProjInv
<1>2. /\ Cardinality(Allocating) \in Nat /\ Cardinality(Busies) \in Nat
      /\ Cardinality(Manifest) \in Nat /\ MaxOps \in Nat /\ ops \in 0 .. MaxOps
      /\ next_inode \in Nat /\ Len(queue) \in Nat
  BY <1>1, CountsFinite, ManifestCard, ProjFsAssumption DEF ProjTypes
<1>3. next_inode <= Cardinality(Manifest) + 1 + MaxOps /\ Len(queue) <= MaxOps
  BY <1>1, <1>2 DEF CountInv
<1>4. path_to_inode \in [Paths -> Inodes \cup {0}]
  <2>1. path_to_inode \in [Paths -> Nat] /\ \A p \in Paths : path_to_inode[p] < next_inode
    BY <1>1 DEF ProjTypes, RegistryInv
  <2>2. \A p \in Paths : path_to_inode[p] \in Inodes \cup {0}
    BY <1>2, <1>3, <2>1 DEF Inodes
  <2> QED
    BY <2>1, <2>2
<1> QED
  BY <1>1, <1>2, <1>3, <1>4 DEF ProjTypeOK, ProjTypes

\* What the callbacks may rely on and what they leave, whatever runs side by side and
\* whenever the instance is stopped and dropped: inodes of their own that lead back to
\* their paths, a live context, an empty queue when the worker ends, and, when every
\* notification has been handled, a summary of exactly the paths that were created.
THEOREM ProjectionKeepsCreations == ProjSpec => []CreationsAreKept
<1>1. ProjInv => ProjTypeOK
  BY CountsBound
<1>2. ProjInv => InodesAreUnique
  BY DEF ProjInv, RegistryInv
<1>3. ProjInv => RegistryFindsBack
  <2> SUFFICES ASSUME ProjInv, Quiet PROVE RegistryFindsBack
    BY DEF RegistryFindsBack
  <2>1. \A t \in Threads : ~Looks(t) /\ thread[t].at # "insert_back"
    BY DEF Quiet, Looks
  <2>2. BackInv /\ KnownInv
    BY DEF ProjInv, RegistryInv
  <2> QED
    BY <2>1, <2>2 DEF RegistryFindsBack, BackInv, KnownInv
<1>4. ProjInv => ContextIsAlive
  BY DEF ProjInv, LifeInv, Busy, ContextIsAlive
<1>5. ProjInv => NothingIsDropped
  BY DEF ProjInv, LifeInv, NothingIsDropped
<1>6. ProjInv => CreationsAreListed
  <2> SUFFICES ASSUME ProjInv, Drained
               PROVE  created_files = made \cap Files /\ created_dirs = made \cap Dirs
    BY DEF CreationsAreListed
  <2>1. \A p \in Paths : ~InCallback(p) /\ ~InQueue(p) /\ ~InWork(p)
    BY DEF Drained, Quiet, InCallback, InQueue, InWork, Busy
  <2>2. made = Listed
    BY <2>1 DEF ProjInv, ProjTypes, SummaryInv, Listed, Paths
  <2>3. created_files \subseteq Files /\ created_dirs \subseteq Dirs /\ Files \cap Dirs = {}
    BY ProjFsAssumption DEF ProjInv, ProjTypes
  <2> QED
    BY <2>2, <2>3 DEF Listed
<1> QED
  BY <1>1, <1>2, <1>3, <1>4, <1>5, <1>6, ProjInvariant, PTL DEF CreationsAreKept

=============================================================================
