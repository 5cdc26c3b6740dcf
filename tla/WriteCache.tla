----------------------------- MODULE WriteCache -----------------------------
(***************************************************************************)
(* The cache of written files (vfs/src/diskcache/materialized.rs): one     *)
(* file per path, written to a temporary file and renamed, and a tombstone *)
(* per deleted path.  with_extension("tmp") gives files that differ only   *)
(* in their extension one temporary name, which may also be the name of a  *)
(* third file; so it gives the parts of a chunked file.                    *)
(*                                                                         *)
(* A step is one call of the file system.  memory is TRUE for              *)
(* MemoryWriteCache, which has no temporary files: a step is what one of   *)
(* its locks is held for.                                                  *)
(***************************************************************************)
EXTENDS Integers, FiniteSets

CONSTANTS
  Writers,     \* tasks that flush and delete
  Paths,       \* names of files and of chunk parts
  Temp,        \* path -> its temporary name, in Paths or not
  Hidden,      \* names that list_files leaves out: .part in it, or .tmp at its end
  Parts,       \* paths of chunk parts: write_chunk has no tombstones
  MaxWrites,   \* bound: calls begun
  MaxStops     \* bound: times the process stops

Names == Paths \cup {Temp[p] : p \in Paths}

\* Paths whose temporary file is theirs alone.
Apart == {p \in Paths : /\ Temp[p] \notin Paths
                        /\ \A q \in Paths \ {p} : Temp[q] # Temp[p]
                        /\ \A q \in Paths : Temp[q] # p}

WriteCacheAssumption ==
  /\ Parts \subseteq Hidden /\ Parts \subseteq Paths
  /\ MaxWrites \in Nat /\ MaxStops \in Nat

Absent == 0
\* Open files: as many as names and handles can refer to.
Inodes == 1 .. Cardinality(Names) + Cardinality(Writers)
Torn   == 0     \* content of a file that is being written
Data   == 1 .. MaxWrites

VARIABLES
  entry,      \* name -> inode, or Absent
  content,    \* inode -> what is in it
  tombstone,  \* paths with a tombstone
  writer,     \* writer -> where it is, its path, data and open file
  writes, stops,
  memory,     \* which of the two implementations this is
  expected    \* history: path -> what its calls, when it had one at a time, left

writeCacheVars == <<entry, content, tombstone, writer, writes, stops, memory, expected>>

Resting == [at |-> "idle", path |-> "none", data |-> 0, file |-> Absent,
            alone |-> TRUE]
Unknown == [file |-> "unknown"]
Cached(d) == [file |-> "cached", data |-> d]
Gone      == [file |-> "gone"]
Never     == [file |-> "never"]

WriteCacheInit ==
  /\ entry = [n \in Names |-> Absent]
  /\ content = [i \in Inodes |-> Torn]
  /\ tombstone = {}
  /\ writer = [w \in Writers |-> Resting]
  /\ writes = 0 /\ stops = 0 /\ memory \in BOOLEAN
  /\ expected = [p \in Paths |-> Never]

Busy(p) == \E w \in Writers : writer[w].path = p

\* A call begins; two at a time for one path may end in any order.
BeginCall(w, at, p) ==
  /\ writer[w].at = "idle" /\ writes < MaxWrites
  /\ writes' = writes + 1
  /\ writer' = [v \in Writers |->
       IF v = w THEN [at |-> at, path |-> p, data |-> writes + 1, file |-> Absent, alone |-> ~Busy(p)]
       ELSE [writer[v] EXCEPT !.alone = @ /\ writer[v].path # p]]
  /\ expected' = [expected EXCEPT ![p] = Unknown]
  /\ UNCHANGED <<entry, content, tombstone, stops, memory>>

EndCall(w, result) ==
  /\ writer' = [writer EXCEPT ![w] = Resting]
  /\ expected' = [expected EXCEPT ![writer[w].path] = IF writer[w].alone THEN result ELSE Unknown]

Fail(w) == EndCall(w, Unknown) /\ UNCHANGED <<entry, content, tombstone>>
MoveOn(w, at) == writer' = [writer EXCEPT ![w].at = at] /\ UNCHANGED expected

FreeInode == CHOOSE i \in Inodes :
  /\ \A n \in Names : entry[n] # i
  /\ \A w \in Writers : writer[w].file # i

\* write_file: the tombstone is removed first.
Untombstone(w) ==
  /\ writer[w].at = "untombstone"
  /\ tombstone' = tombstone \ {writer[w].path}
  /\ MoveOn(w, "create")
  /\ UNCHANGED <<entry, content, writes, stops, memory>>

\* MemoryWriteCache: files.insert.
InsertFile(w) ==
  LET p == writer[w].path
      i == IF entry[p] # Absent THEN entry[p] ELSE FreeInode IN
  /\ memory /\ writer[w].at = "create"
  /\ entry' = [entry EXCEPT ![p] = i]
  /\ content' = [content EXCEPT ![i] = writer[w].data]
  /\ EndCall(w, Cached(writer[w].data))
  /\ UNCHANGED <<tombstone, writes, stops, memory>>

\* write_file, fs::write: the temporary file is created or truncated.
CreateTemp(w) ==
  LET n == Temp[writer[w].path]
      i == IF entry[n] # Absent THEN entry[n] ELSE FreeInode IN
  /\ ~memory /\ writer[w].at = "create"
  /\ entry' = [entry EXCEPT ![n] = i]
  /\ content' = [content EXCEPT ![i] = Torn]
  /\ writer' = [writer EXCEPT ![w].at = "fill", ![w].file = i]
  /\ UNCHANGED <<tombstone, writes, stops, memory, expected>>

FillTemp(w) ==
  /\ writer[w].at = "fill"
  /\ content' = [content EXCEPT ![writer[w].file] = writer[w].data]
  /\ MoveOn(w, "rename")
  /\ UNCHANGED <<entry, tombstone, writes, stops, memory>>

\* write_file, fs::rename: fails if another call has taken the temporary file.
RenameTemp(w) ==
  LET p == writer[w].path
      n == Temp[p] IN
  /\ writer[w].at = "rename"
  /\ IF entry[n] = Absent THEN Fail(w)
     ELSE /\ entry' = IF n = p THEN entry ELSE [entry EXCEPT ![n] = Absent, ![p] = entry[n]]
          /\ EndCall(w, Cached(writer[w].data))
          /\ UNCHANGED <<content, tombstone>>
  /\ UNCHANGED <<writes, stops, memory>>

\* delete_file: exists, remove_file, then the tombstone.
LookForFile(w) ==
  /\ ~memory /\ writer[w].at = "unlink"
  /\ MoveOn(w, IF entry[writer[w].path] = Absent THEN "tombstone" ELSE "remove")
  /\ UNCHANGED <<entry, content, tombstone, writes, stops, memory>>

RemoveFile(w) ==
  LET p == writer[w].path IN
  /\ writer[w].at = (IF memory THEN "unlink" ELSE "remove")
  /\ IF entry[p] = Absent /\ ~memory THEN Fail(w)
     ELSE /\ entry' = [entry EXCEPT ![p] = Absent]
          /\ MoveOn(w, "tombstone")
          /\ UNCHANGED <<content, tombstone>>
  /\ UNCHANGED <<writes, stops, memory>>

Tombstone(w) ==
  /\ writer[w].at = "tombstone"
  /\ tombstone' = tombstone \cup {writer[w].path}
  /\ EndCall(w, Gone)
  /\ UNCHANGED <<entry, content, writes, stops, memory>>

\* The process stops; what its calls had begun stays as it is.
Stop ==
  /\ ~memory /\ stops < MaxStops
  /\ stops' = stops + 1
  /\ writer' = [w \in Writers |-> Resting]
  /\ UNCHANGED <<entry, content, tombstone, writes, memory, expected>>

WriteCacheNext ==
  \/ \E w \in Writers :
       \/ \E p \in Paths \ Parts : BeginCall(w, "untombstone", p) \/ BeginCall(w, "unlink", p)
       \/ \E p \in Parts : ~memory /\ BeginCall(w, "create", p)
       \/ Untombstone(w) \/ InsertFile(w) \/ CreateTemp(w) \/ FillTemp(w) \/ RenameTemp(w)
       \/ LookForFile(w) \/ RemoveFile(w) \/ Tombstone(w)
  \/ Stop

\* read_file, is_deleted and list_files.
ReadFile(p)  == IF entry[p] = Absent THEN Absent ELSE content[entry[p]]
IsDeleted(p) == p \in tombstone

ListFiles == {n \in Names : entry[n] # Absent} \ (IF memory THEN {} ELSE Hidden)

-----------------------------------------------------------------------------
(* Properties *)

WriteCacheTypeOK ==
  /\ entry \in [Names -> Inodes \cup {Absent}]
  /\ content \in [Inodes -> Data \cup {Torn}]
  /\ tombstone \subseteq Paths
  /\ \A w \in Writers :
       writer[w] \in [at : {"idle", "untombstone", "create", "fill", "rename", "unlink", "remove", "tombstone"},
                      path : Paths \cup {"none"}, data : {0} \cup Data, file : Inodes \cup {Absent},
                      alone : BOOLEAN]

\* A path keeps what its last call left, a file with that data or a tombstone and
\* no file, whatever the calls for other paths do and wherever the process stops.
\* Paths that share a temporary name with another one are left out, and so is a
\* path whose calls overlap.
CallsLast ==
  \A p \in (IF memory THEN Paths ELSE Apart) :
    CASE expected[p].file = "cached" -> ReadFile(p) = expected[p].data /\ ~IsDeleted(p)
      [] expected[p].file = "gone"   -> ReadFile(p) = Absent /\ IsDeleted(p)
      [] expected[p].file = "never"  -> ReadFile(p) = Absent /\ ~IsDeleted(p)
      [] OTHER -> TRUE

\* What is listed was written: no temporary file of a call that has failed or was
\* cut off shows up as a file.
ListedWasWritten ==
  \A n \in ListFiles : n \in Paths /\ expected[n].file # "never"

\* Statements that do not hold (README, section Divergences).

\* No path is there and deleted at once.
NeverBoth == \A p \in Paths : ~(entry[p] # Absent /\ IsDeleted(p))

\* Every path keeps what its last call left.
EveryCallLasts ==
  \A p \in Paths :
    expected[p].file = "cached" => ReadFile(p) = expected[p].data
=============================================================================
