----------------------------- MODULE ReadCache -----------------------------
(***************************************************************************)
(* The disk cache of fetched contents (vfs/src/diskcache/read_cache.rs)    *)
(* and the read path of the Windows front end that fills it                *)
(* (fetch_single_hash): files named by their hash, written to a temporary  *)
(* file that is renamed.  All callers that store a hash use the same       *)
(* temporary name.                                                         *)
(*                                                                         *)
(* A step is one call of the file system.  A file is what an open handle   *)
(* or a name refers to; all that counts of its content is the length.      *)
(***************************************************************************)
EXTENDS Integers, FiniteSets, FiniteSetsExt

CONSTANTS
  Callers,    \* threads that fetch and remove
  Hashes,
  Length,     \* hash -> length of the content it stands for
  MaxCalls,   \* bound: calls begun
  MaxCrashes  \* bound: times the process stops

ASSUME ReadCacheAssumption ==
  Length \in [Hashes -> Nat \ {0}] /\ MaxCalls \in Nat /\ MaxCrashes \in Nat

NoFile == 0
\* As many files as names and handles can refer to.
FileIds == 1 .. 2 * Cardinality(Hashes) + Cardinality(Callers)

\* current_size is a u64; no run comes near to this many bytes.
Width == 1000

VARIABLES
  path,          \* hash -> the file of that name, or NoFile
  temp,          \* hash -> the file named hash.tmp, or NoFile
  length,        \* file -> its length on disk
  current_size,
  caller,        \* caller -> where it is, its hash, open file, and what it read
  calls, crashes,
  shared         \* history: two callers have stored one hash at the same time

cacheVars == <<path, temp, length, current_size, caller, calls, crashes, shared>>

Nothing == -1  \* no data: nothing cached, or an error
Idle == [at |-> "idle", hash |-> "none", file |-> NoFile, seen |-> Nothing]

IdleWith(seen) == [Idle EXCEPT !.seen = seen]

ReadCacheInit ==
  /\ path = [h \in Hashes |-> NoFile] /\ temp = path
  /\ length = [i \in FileIds |-> 0]
  /\ current_size = 0
  /\ caller = [c \in Callers |-> Idle]
  /\ calls = 0 /\ crashes = 0 /\ shared = FALSE

Move(c, at) == caller' = [caller EXCEPT ![c].at = at]

Begin(c, at, h) ==
  /\ caller[c].at = "idle" /\ calls < MaxCalls
  /\ calls' = calls + 1
  /\ caller' = [caller EXCEPT ![c] = [Idle EXCEPT !.at = at, !.hash = h]]
  /\ UNCHANGED <<path, temp, length, current_size, crashes, shared>>

\* fetch_single_hash, after a miss in the memory pool: get, path.exists().
Fetch(c, h) == Begin(c, IF path[h] = NoFile THEN "put" ELSE "read", h)

\* get, fs::read; an error is for the caller as a miss.
Read(c) ==
  LET h == caller[c].hash IN
  /\ caller[c].at = "read"
  /\ IF path[h] = NoFile THEN Move(c, "put")
     ELSE caller' = [caller EXCEPT ![c] = IdleWith(length[path[h]])]
  /\ UNCHANGED <<path, temp, length, current_size, calls, crashes, shared>>

\* The object store has answered with an error.
FetchFails(c) ==
  /\ caller[c].at = "put"
  /\ caller' = [caller EXCEPT ![c] = Idle]
  /\ UNCHANGED <<path, temp, length, current_size, calls, crashes, shared>>

IsStored(h) == path[h] # NoFile /\ length[path[h]] = Length[h]

\* put, once the content has come from the pool or the store: fs::metadata.
Put(c) ==
  LET h == caller[c].hash IN
  /\ caller[c].at = "put"
  /\ caller' = [caller EXCEPT ![c] = IF IsStored(h) THEN IdleWith(Length[h])
                                     ELSE [@ EXCEPT !.at = "create"]]
  /\ UNCHANGED <<path, temp, length, current_size, calls, crashes, shared>>

Storing(c, h) == caller[c].hash = h /\ caller[c].at \in {"write", "rename"}

FreeFile == CHOOSE i \in FileIds :
  \A h \in Hashes : i \notin {path[h], temp[h]} \cup {caller[c].file : c \in Callers}

Opened(h) == IF temp[h] # NoFile THEN temp[h] ELSE FreeFile

\* Mutation: the file is written in place.
Create_InPlace(c) ==
  LET h == caller[c].hash
      i == IF path[h] # NoFile THEN path[h] ELSE FreeFile IN
  /\ caller[c].at = "create"
  /\ path' = [path EXCEPT ![h] = i]
  /\ length' = [length EXCEPT ![i] = 0]
  /\ caller' = [caller EXCEPT ![c].at = "write", ![c].file = i]
  /\ shared' = (shared \/ \E d \in Callers : Storing(d, h))
  /\ UNCHANGED <<temp, current_size, calls, crashes>>

\* put, fs::write: the temporary file is created or truncated.
Create(c) ==
  LET h == caller[c].hash
      i == Opened(h) IN
  /\ caller[c].at = "create"
  /\ temp' = [temp EXCEPT ![h] = i]
  /\ length' = [length EXCEPT ![i] = 0]
  /\ caller' = [caller EXCEPT ![c].at = "write", ![c].file = i]
  /\ shared' = (shared \/ \E d \in Callers : Storing(d, h))
  /\ UNCHANGED <<path, current_size, calls, crashes>>

Write(c) ==
  /\ caller[c].at = "write"
  /\ length' = [length EXCEPT ![caller[c].file] = Length[caller[c].hash]]
  /\ Move(c, "rename")
  /\ UNCHANGED <<path, temp, current_size, calls, crashes, shared>>

\* put, fs::rename; another caller may have taken the temporary file away.
Rename(c) ==
  LET h == caller[c].hash IN
  /\ caller[c].at = "rename"
  /\ IF temp[h] = NoFile
       THEN caller' = [caller EXCEPT ![c] = IdleWith(Length[h])] /\ UNCHANGED <<path, temp>>
       ELSE /\ path' = [path EXCEPT ![h] = temp[h]]
            /\ temp' = [temp EXCEPT ![h] = NoFile]
            /\ caller' = [caller EXCEPT ![c].at = "add", ![c].file = NoFile]
  /\ UNCHANGED <<length, current_size, calls, crashes, shared>>

Add(c) ==
  /\ caller[c].at = "add"
  /\ current_size' = (current_size + Length[caller[c].hash]) % Width
  /\ caller' = [caller EXCEPT ![c] = IdleWith(Length[caller[c].hash])]
  /\ UNCHANGED <<path, temp, length, calls, crashes, shared>>

\* remove: exists, metadata, remove_file and the counter; an error of the middle
\* ones ends the call.
Remove(c, h) == path[h] # NoFile /\ Begin(c, "measure", h)

Measure(c) ==
  LET h == caller[c].hash IN
  /\ caller[c].at = "measure"
  /\ caller' = [caller EXCEPT ![c] = IF path[h] = NoFile THEN Idle
                ELSE [@ EXCEPT !.at = "remove", !.seen = length[path[h]]]]
  /\ UNCHANGED <<path, temp, length, current_size, calls, crashes, shared>>

RemoveFile(c) ==
  LET h == caller[c].hash IN
  /\ caller[c].at = "remove"
  /\ path' = [path EXCEPT ![h] = NoFile]
  /\ caller' = [caller EXCEPT ![c] = IF path[h] = NoFile THEN Idle
                                     ELSE [@ EXCEPT !.at = "subtract"]]
  /\ UNCHANGED <<temp, length, current_size, calls, crashes, shared>>

Subtract(c) ==
  /\ caller[c].at = "subtract"
  /\ current_size' = (current_size - caller[c].seen) % Width
  /\ caller' = [caller EXCEPT ![c] = Idle]
  /\ UNCHANGED <<path, temp, length, calls, crashes, shared>>

Stored == {h \in Hashes : path[h] # NoFile}
BytesOnDisk == MapThenSumSet(LAMBDA h : length[path[h]], Stored)

\* The process stops, and a new one scans the directory: temporary files stay, and
\* are not counted.
Crash ==
  /\ crashes < MaxCrashes
  /\ crashes' = crashes + 1
  /\ caller' = [c \in Callers |-> Idle]
  /\ current_size' = BytesOnDisk
  /\ UNCHANGED <<path, temp, length, calls, shared>>

ReadCacheNext ==
  \/ \E c \in Callers :
       \/ \E h \in Hashes : Fetch(c, h) \/ Remove(c, h)
       \/ Read(c) \/ FetchFails(c) \/ Put(c) \/ Create(c) \/ Write(c) \/ Rename(c) \/ Add(c)
       \/ Measure(c) \/ RemoveFile(c) \/ Subtract(c)
  \/ Crash

-----------------------------------------------------------------------------
(* Properties *)

ReadCacheTypeOK ==
  /\ path \in [Hashes -> FileIds \cup {NoFile}] /\ temp \in [Hashes -> FileIds \cup {NoFile}]
  /\ length \in [FileIds -> Nat]
  /\ current_size \in 0 .. Width - 1
  /\ caller \in [Callers -> [
       at : {"idle", "put", "read", "create", "write", "rename", "add",
             "measure", "remove", "subtract"},
       hash : Hashes \cup {"none"}, file : FileIds \cup {NoFile}, seen : Nat \cup {Nothing}]]
  /\ shared \in BOOLEAN

\* Content is stored and fetched whole, wherever the process stops and whoever
\* removes it in between, as long as no two callers store one hash together.
WholeUnlessShared ==
  ~shared => /\ \A h \in Stored : length[path[h]] = Length[h]
             /\ \A c \in Callers : caller[c].seen # 0

\* When no call is in progress the cache holds no more than current_size tells,
\* also after two callers have stored or removed the same content.
SizeCoversFiles ==
  (\A c \in Callers : caller[c].at = "idle") => BytesOnDisk <= current_size

\* Statements that do not hold (README, section Divergences).

\* What is in the cache is whole.
StoredIsWhole == \A h \in Stored : length[path[h]] = Length[h]

\* A fetch never gets less than the content.
FetchedIsWhole == \A c \in Callers : caller[c].seen # 0

\* current_size does not wrap around below zero.
SizeDoesNotWrap == current_size <= Width \div 2
=============================================================================
