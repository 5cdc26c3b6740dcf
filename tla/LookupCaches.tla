---------------------------- MODULE LookupCaches ----------------------------
(***************************************************************************)
(* What is remembered so as not to be asked or computed again              *)
(* (crates/storage):                                                       *)
(*                                                                         *)
(*  - hash_cache: the hash of a file by its path, size and modification    *)
(*    time, on one machine, for some days;                                 *)
(*  - s3_check_cache: that an object is in a bucket, for some days;        *)
(*  - data_cache: objects by their hash, in a bucket behind the check      *)
(*    cache, or in a directory.                                            *)
(*                                                                         *)
(* The first two are tables of a database that several processes have      *)
(* open: one statement is one step, a batch of writes one transaction, and *)
(* an error of the database is logged and forgotten.  Who asks for a hash  *)
(* looks at the file, asks the cache, reads the file when the cache does   *)
(* not know, and stores what it found: four steps, between which the file  *)
(* may change.                                                             *)
(***************************************************************************)
EXTENDS Integers, FiniteSets, Functions

CONSTANTS
  Machines,      \* machine_id
  Files,         \* paths, the same on every machine
  Buckets, Keys, \* objects are named by a bucket and a key
  Workers,       \* callers
  ttl_days,      \* of a hash
  entry_expiry_days,
  MaxTime,       \* bound: days
  MaxLookups,    \* bound: calls
  MaxEdits,      \* bound: edits of files
  EditsKeepStat  \* may an edit keep the size and the modification time of a file?

VARIABLES
  clock,         \* the day
  disk,          \* machine -> file -> [stat, content]; a content is its own hash
  hashes,        \* table of hashes: <<machine, file, stat>> -> [hash, expires_at]
  seen,          \* table of objects: <<bucket, key>> -> last_seen_time
  bucket,        \* the objects that are there
  present,       \* object -> the last day it was there
  objects,       \* of the directory: "absent", "part" or "whole"
  lookups,       \* the call of each worker
  edits, made    \* bounded counters

lookupVars == <<clock, disk, hashes, seen, bucket, present, objects, lookups, edits, made>>

LookupAssumption ==
  ttl_days \in Nat /\ entry_expiry_days \in Nat /\ MaxTime \in Nat /\ MaxEdits \in Nat

Objects == Buckets \X Keys
NoHash == <<>>
Resting == [pc |-> "idle", machine |-> CHOOSE m \in Machines : TRUE, stats |-> <<>>, known |-> <<>>,
            during |-> <<>>, object |-> CHOOSE o \in Objects : TRUE]

\* Contents are numbered by the edit that made them, as are the stats of files.
LookupTypeOK ==
  /\ clock \in 0 .. MaxTime
  /\ disk \in [Machines -> [Files -> [stat : 0 .. MaxEdits, content : Machines \X Nat]]]
  /\ \A k \in DOMAIN hashes : /\ k \in Machines \X Files \X (0 .. MaxEdits)
                              /\ hashes[k].expires_at \in 0 .. MaxTime + ttl_days
  /\ DOMAIN seen \subseteq Objects /\ \A o \in DOMAIN seen : seen[o] \in 0 .. clock
  /\ bucket \subseteq Objects /\ DOMAIN present \subseteq Objects
  /\ objects \in [Keys -> {"absent", "part", "whole"}]
  /\ \A w \in Workers : DOMAIN lookups[w].known \subseteq DOMAIN lookups[w].stats

HashInit ==
  /\ clock = 0
  /\ disk = [m \in Machines |-> [f \in Files |-> [stat |-> 0, content |-> <<m, 0>>]]]
  /\ hashes = <<>>
  /\ lookups = [w \in Workers |-> Resting]
  /\ edits = 0 /\ made = 0

ObjectInit ==
  /\ seen = <<>>
  /\ bucket = {} /\ present = <<>>
  /\ objects = [k \in Keys |-> "absent"]

LookupInit == HashInit /\ ObjectInit

\* INSERT OR REPLACE
Insert(f, x, v) == [y \in DOMAIN f \cup {x} |-> IF y = x THEN v ELSE f[y]]
Drop(f, S) == Restrict(f, DOMAIN f \ S)

-----------------------------------------------------------------------------
\* The tables.

\* Mutation: the machines share their entries.
HashKey_AnyMachine(m, f, stat) == <<CHOOSE n \in Machines : TRUE, f, stat>>

HashKey(m, f, stat) == <<m, f, stat>>

\* get: none when the entry has expired.
HashGet(k) ==
  IF k \in DOMAIN hashes /\ hashes[k].expires_at > clock THEN hashes[k].hash ELSE NoHash

HashEntry(h) == [hash |-> h, expires_at |-> clock + ttl_days]

\* Mutation: cleaning up begins a day early.
ExpiredHashes_Early == {k \in DOMAIN hashes : hashes[k].expires_at <= clock + 1}

ExpiredHashes == {k \in DOMAIN hashes : hashes[k].expires_at < clock}

ObjectExpired(o) == seen[o] + entry_expiry_days < clock

\* exists
Known(o) == o \in DOMAIN seen /\ ~ObjectExpired(o)

ExpiredObjects == {o \in DOMAIN seen : ObjectExpired(o)}

\* exists_batch answers with the names in the table, which begin with the bucket.
ExistsBatch(b, K) == {<<b, k>> : k \in {j \in K : Known(<<b, j>>)}}

\* get_batch of the hash cache answers by path: of several keys of one path,
\* whichever comes last.
GetBatch(m, K) ==
  LET found == {k \in K : HashGet(HashKey(m, k[1], k[2])) # NoHash}
  IN {answer \in [{k[1] : k \in found} -> {HashGet(HashKey(m, k[1], k[2])) : k \in found}] :
        \A f \in DOMAIN answer : \E k \in found : k[1] = f /\ answer[f] = HashGet(HashKey(m, f, k[2]))}

-----------------------------------------------------------------------------
\* The steps.

Going(w, pc) == lookups[w].pc = pc
Bounded == made < MaxLookups /\ made' = made + 1

\* A file is edited; its content is new, and its stat unless the edit keeps it.
Edit(m, f) ==
  /\ edits < MaxEdits /\ edits' = edits + 1
  /\ \E keep \in (IF EditsKeepStat THEN BOOLEAN ELSE {FALSE}) :
       disk' = [disk EXCEPT ![m][f] = [stat |-> IF keep THEN @.stat ELSE edits + 1,
                                       content |-> <<m, edits + 1>>]]
  /\ lookups' = [w \in Workers |->
                   IF lookups[w].machine = m /\ f \in DOMAIN lookups[w].during
                     THEN [lookups[w] EXCEPT !.during[f] = @ \cup {<<m, edits + 1>>}]
                     ELSE lookups[w]]
  /\ UNCHANGED <<clock, hashes, seen, bucket, present, objects, made>>

\* A day passes between calls to a bucket, never during one.
Tick ==
  /\ clock < MaxTime /\ clock' = clock + 1
  /\ \A w \in Workers : lookups[w].pc \notin {"mark", "head"}
  /\ present' = [o \in DOMAIN present |-> IF o \in bucket THEN clock + 1 ELSE present[o]]
  /\ UNCHANGED <<disk, hashes, seen, bucket, objects, lookups, edits, made>>

\* A worker takes the size and the time of some files of its machine.
Stat(w, m, F) ==
  /\ Going(w, "idle") /\ Bounded
  /\ lookups' = [lookups EXCEPT ![w] =
                   [Resting EXCEPT !.pc = "get", !.machine = m,
                                   !.stats = [f \in F |-> disk[m][f].stat],
                                   !.during = [f \in F |-> {disk[m][f].content}]]]
  /\ UNCHANGED <<clock, disk, hashes, seen, bucket, present, objects, edits>>

\* get and get_batch ask for one file after the other; the database may fail.
GetHash(w) ==
  LET c == lookups[w] IN
  /\ Going(w, "get")
  /\ IF DOMAIN c.known = DOMAIN c.stats
       THEN lookups' = [lookups EXCEPT ![w].pc = "read"]
       ELSE \E f \in DOMAIN c.stats \ DOMAIN c.known :
              \E h \in {HashGet(HashKey(c.machine, f, c.stats[f])), NoHash} :
                lookups' = [lookups EXCEPT ![w].known = Insert(@, f, h)]
  /\ UNCHANGED <<clock, disk, hashes, seen, bucket, present, objects, edits, made>>

Missing(c) == {f \in DOMAIN c.known : c.known[f] = NoHash}

\* The worker reads the files whose hash is not known.
ReadFile(w) ==
  LET c == lookups[w] IN
  /\ Going(w, "read")
  /\ IF Missing(c) = {} THEN lookups' = [lookups EXCEPT ![w] = Resting]
     ELSE lookups' = [lookups EXCEPT
            ![w].pc = "put",
            ![w].known = [f \in Missing(c) |-> disk[c.machine][f].content]]
  /\ UNCHANGED <<clock, disk, hashes, seen, bucket, present, objects, edits, made>>

\* put and put_batch, in one transaction: all that the database accepts.
PutHashes(w) ==
  LET c == lookups[w] IN
  /\ Going(w, "put")
  /\ \E F \in SUBSET DOMAIN c.known :
       LET keys == {HashKey(c.machine, f, c.stats[f]) : f \in F}
       IN hashes' = [k \in DOMAIN hashes \cup keys |->
                       IF k \in keys THEN HashEntry(c.known[k[2]]) ELSE hashes[k]]
  /\ lookups' = [lookups EXCEPT ![w] = Resting]
  /\ UNCHANGED <<clock, disk, seen, bucket, present, objects, edits, made>>

\* delete, clear and cleanup_expired of the table of hashes.
DeleteHash(k) ==
  /\ k \in DOMAIN hashes /\ hashes' = Drop(hashes, {k}) /\ Bounded
  /\ UNCHANGED <<clock, disk, seen, bucket, present, objects, lookups, edits>>

ClearHashes ==
  /\ hashes # <<>> /\ hashes' = <<>> /\ Bounded
  /\ UNCHANGED <<clock, disk, seen, bucket, present, objects, lookups, edits>>

CleanupHashes ==
  /\ hashes' = Drop(hashes, ExpiredHashes)
  /\ UNCHANGED <<clock, disk, seen, bucket, present, objects, lookups, edits, made>>

-----------------------------------------------------------------------------
\* The objects of a bucket.

\* object_exists: the table, and the bucket when it does not know.
AskObject(w, o) ==
  /\ Going(w, "idle") /\ Bounded
  /\ lookups' = [lookups EXCEPT ![w] = IF Known(o) THEN Resting
                                       ELSE [Resting EXCEPT !.pc = "head", !.object = o]]
  /\ UNCHANGED <<clock, disk, hashes, seen, bucket, present, objects, edits>>

HeadObject(w) ==
  /\ Going(w, "head")
  /\ lookups' = [lookups EXCEPT ![w] = IF @.object \in bucket THEN [@ EXCEPT !.pc = "mark"] ELSE Resting]
  /\ UNCHANGED <<clock, disk, hashes, seen, bucket, present, objects, edits, made>>

\* put_object and put_object_from_file; an error leaves the bucket as it was.
PutObject(w, o) ==
  /\ Going(w, "idle") /\ Bounded
  /\ \/ /\ bucket' = bucket \cup {o} /\ present' = Insert(present, o, clock)
        /\ lookups' = [lookups EXCEPT ![w] = [Resting EXCEPT !.pc = "mark", !.object = o]]
     \/ UNCHANGED <<bucket, present, lookups>>
  /\ UNCHANGED <<clock, disk, hashes, seen, objects, edits>>

\* mark_uploaded, after the answer of the bucket; the database may fail.
MarkUploaded(w) ==
  /\ Going(w, "mark")
  /\ seen' \in {Insert(seen, lookups[w].object, clock), seen}
  /\ lookups' = [lookups EXCEPT ![w] = Resting]
  /\ UNCHANGED <<clock, disk, hashes, bucket, present, objects, edits, made>>

\* Objects leave the bucket when its owner says so.
Expunge(o) ==
  /\ o \in bucket /\ bucket' = bucket \ {o}
  /\ UNCHANGED <<clock, disk, hashes, seen, present, objects, lookups, edits, made>>

\* remove, reset and cleanup_expired of the table of objects.
RemoveSeen(o) ==
  /\ o \in DOMAIN seen /\ seen' = Drop(seen, {o}) /\ Bounded
  /\ UNCHANGED <<clock, disk, hashes, bucket, present, objects, lookups, edits>>

ResetSeen ==
  /\ seen # <<>> /\ seen' = <<>> /\ Bounded
  /\ UNCHANGED <<clock, disk, hashes, bucket, present, objects, lookups, edits>>

CleanupSeen ==
  /\ seen' = Drop(seen, ExpiredObjects)
  /\ UNCHANGED <<clock, disk, hashes, bucket, present, objects, lookups, edits, made>>

-----------------------------------------------------------------------------
\* The objects of a directory: std::fs::write and copy truncate the file under
\* its own name, and fill it.

BeginStore(w, o) ==
  /\ Going(w, "idle") /\ Bounded
  /\ objects' = [objects EXCEPT ![o[2]] = "part"]
  /\ lookups' = [lookups EXCEPT ![w] = [Resting EXCEPT !.pc = "fill", !.object = o]]
  /\ UNCHANGED <<clock, disk, hashes, seen, bucket, present, edits>>

\* The rest of the file, or an error, or the end of the process.
EndStore(w) ==
  /\ Going(w, "fill")
  /\ objects' \in {[objects EXCEPT ![lookups[w].object[2]] = "whole"], objects}
  /\ lookups' = [lookups EXCEPT ![w] = Resting]
  /\ UNCHANGED <<clock, disk, hashes, seen, bucket, present, edits, made>>

HashNext ==
  \/ \E m \in Machines, f \in Files : Edit(m, f)
  \/ Tick
  \/ \E w \in Workers : \/ \E m \in Machines, F \in SUBSET Files \ {{}} : Stat(w, m, F)
                        \/ GetHash(w) \/ ReadFile(w) \/ PutHashes(w)
  \/ \E k \in DOMAIN hashes : DeleteHash(k)
  \/ ClearHashes \/ CleanupHashes

ObjectNext ==
  \/ Tick
  \/ \E w \in Workers : \/ \E o \in Objects : AskObject(w, o) \/ PutObject(w, o) \/ BeginStore(w, o)
                        \/ HeadObject(w) \/ MarkUploaded(w) \/ EndStore(w)
  \/ \E o \in Objects : Expunge(o) \/ RemoveSeen(o)
  \/ ResetSeen \/ CleanupSeen

LookupNext == HashNext \/ ObjectNext

LookupSpec == LookupInit /\ [][LookupNext]_lookupVars

-----------------------------------------------------------------------------
(* Properties *)

\* A hash that the cache gives for a file is that of a content the file had, on
\* the asker's machine, between the asker's look at the file and the answer:
\* although another caller may have stored it, and read the file after an edit
\* that came after its own look.
CachedHashIsOfFile ==
  \A w \in Workers : LET c == lookups[w] IN
    c.pc \in {"get", "read"} => \A f \in DOMAIN c.known \ Missing(c) : c.known[f] \in c.during[f]

\* Cleaning up takes nothing from the tables that a lookup would have found.
CleanupIsUnseen ==
  [][CleanupHashes \/ CleanupSeen =>
       /\ \A k \in DOMAIN hashes : (HashGet(k))' = HashGet(k)
       /\ \A o \in Objects : (Known(o))' = Known(o)]_lookupVars

\* An object that the check cache knows was in the bucket not longer ago than
\* entries last.
KnownWasThere ==
  \A o \in Objects : Known(o) => o \in DOMAIN present /\ present[o] + entry_expiry_days >= clock

\* Of the two tables: a hash that is found is the file's, and an object that is
\* known has been in that bucket.
AnswersWereTrue == CachedHashIsOfFile /\ KnownWasThere

\* Statements that do not hold, and are not in the runs (README, section
\* Divergences).

\* exists_batch answers with keys of those it was asked for.
BatchAnswersKeys == \A b \in Buckets : ExistsBatch(b, Keys) \subseteq Keys

\* get_batch knows of every key what get knows.
BatchAgrees ==
  \A m \in Machines :
    LET all == {<<f, s>> : f \in Files, s \in 0 .. MaxEdits} IN
    \A answer \in GetBatch(m, all) : \A k \in all :
      HashGet(HashKey(m, k[1], k[2])) # NoHash => answer[k[1]] = HashGet(HashKey(m, k[1], k[2]))

\* An object that the directory has is whole.
DirectoryIsWhole == \A k \in Keys : objects[k] # "part"

=============================================================================
