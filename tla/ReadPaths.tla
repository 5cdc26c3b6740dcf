----------------------------- MODULE ReadPaths -----------------------------
(***************************************************************************)
(* How the bytes of a manifest's file are read: the read-only FUSE mount   *)
(* (crates/vfs/src/fuse.rs), the FSKit volume's path for files that are    *)
(* not modified (crates/vfs-fskit/src/fskit.rs) and the hydration of a     *)
(* ProjFS placeholder (crates/vfs-projfs/src/callbacks/vfs_callbacks.rs,   *)
(* virtualizer/callbacks.rs).  Each cuts the request into chunks in its    *)
(* own way and goes through its own order of memory pool, disk cache and   *)
(* object store.                                                           *)
(*                                                                         *)
(* A call is one step: what callers do to each other inside the pool is in *)
(* MemoryPool, inside the disk cache in ReadCache.  Between calls the pool *)
(* evicts, the disk cache loses files and the store comes and goes.        *)
(***************************************************************************)
EXTENDS Integers, Sequences, FiniteSets

LOCAL INSTANCE SequencesExt
LOCAL INSTANCE FiniteSetsExt

CONSTANTS
  Inodes,     \* inode id -> [type, parent, name, size, kind, hashes]
  Objects,    \* hash -> the bytes of its object in the store
  Whole,      \* hash -> the bytes that were hashed
  ChunkSize,  \* CHUNK_SIZE_V2
  Lengths,    \* lengths of reads
  PageSize,   \* directory entries that fit in a reply
  MaxHandles, \* bound: handles opened
  Outages,    \* bound: the sets of hashes that a call may find the store without
  Damaged     \* a crash may leave a file of the disk cache cut off

Root == 1
NoBytes == <<-1>>  \* no byte is negative

ReadAssumption ==
  /\ Root \in DOMAIN Inodes /\ Inodes[Root].type = "dir"
  /\ \A i \in DOMAIN Inodes \ {Root} : Inodes[i].parent \in DOMAIN Inodes /\ Inodes[i].parent < i
  /\ DOMAIN Objects = DOMAIN Whole
  /\ ChunkSize \in Nat \ {0} /\ Lengths \subseteq Nat \ {0} /\ PageSize \in Nat \ {0}
  /\ MaxHandles \in Nat /\ Outages \subseteq SUBSET DOMAIN Objects /\ Damaged \in BOOLEAN

Hashes == DOMAIN Objects
Files  == {i \in DOMAIN Inodes : Inodes[i].type = "file"}
Dirs   == {i \in DOMAIN Inodes : Inodes[i].type = "dir"}
Links  == {i \in DOMAIN Inodes : Inodes[i].type = "symlink"}

VARIABLES
  mount,    \* the front end that serves: "fuse", "fskit" or "projfs"
  pool,     \* BlockKey <<hash, chunk>> -> bytes
  disk,     \* ReadCache: hash -> bytes
  handles,  \* DeadlineVfs::handles: handle -> inode, content and size at open
  next_handle,
  listing,  \* the kernel's enumeration of a directory: what it got, where it is
  reply     \* of the last call

vars == <<mount, pool, disk, handles, next_handle, listing, reply>>

NoListing == [dir |-> 0, offset |-> 0, got |-> <<>>, ended |-> FALSE]
Silent == [what |-> "none", file |-> 0, off |-> 0, len |-> 0, bytes |-> NoBytes]

Init ==
  /\ mount \in {"fuse", "fskit", "projfs"}
  /\ pool = <<>> /\ disk = <<>> /\ handles = <<>>
  /\ next_handle = 1
  /\ listing = NoListing
  /\ reply = Silent

TypeOK ==
  /\ DOMAIN pool \subseteq Hashes \X (0 .. 9)
  /\ DOMAIN disk \subseteq Hashes
  /\ \A h \in DOMAIN handles : handles[h] \in Files
  /\ next_handle \in 1 .. MaxHandles + 1
  /\ reply.what \in {"none", "entry", "target", "opened", "data", "ENOENT", "ENOTDIR", "EISDIR",
                     "EROFS", "EBADF", "EIO", "EINVAL", "panic"}

Answer(what) == reply' = [Silent EXCEPT !.what = what]

Smaller(a, b) == IF a < b THEN a ELSE b
Larger(a, b)  == IF a > b THEN a ELSE b

\* The elements of s from the one at `from` (the first is 0) up to, without, the
\* one at `to`, as far as s goes.
Cut(s, from, to) ==
  IF from >= Smaller(to, Len(s)) THEN <<>> ELSE SubSeq(s, from + 1, Smaller(to, Len(s)))

-----------------------------------------------------------------------------
(* Names: the inode table of a read-only mount never changes *)

Path[i \in DOMAIN Inodes] ==
  IF i = Root THEN <<>> ELSE Append(Path[Inodes[i].parent], Inodes[i].name)

ChildrenOf(d) == {i \in DOMAIN Inodes \ {Root} : Inodes[i].parent = d}

\* lookup: the inode whose path is the parent's with the name, 0 for an error.
Found(parent, name) ==
  IF parent \notin DOMAIN Inodes \/ Inodes[parent].type # "dir" THEN 0
  ELSE LET at == {i \in DOMAIN Inodes : Path[i] = Append(Path[parent], name)}
       IN  IF at = {} THEN 0 ELSE CHOOSE i \in at : TRUE

\* readdir: `.`, `..`, and the children, in the one order of the table.
Entries(d) ==
  <<[id |-> d, name |-> "."], [id |-> Inodes[d].parent, name |-> ".."]>>
    \o [k \in 1 .. Cardinality(ChildrenOf(d)) |->
          LET i == SetToSortSeq(ChildrenOf(d), <)[k] IN [id |-> i, name |-> Inodes[i].name]]

\* The offset that goes with the i-th entry: where the kernel goes on.
NextOffset(i) == i

ReadDir(d) ==
  LET from == IF listing.dir = d THEN listing.offset ELSE 0
      page == Cut(Entries(d), from, from + PageSize)
      last == from + Len(page)
  IN  /\ mount = "fuse" /\ d \in Dirs
      /\ listing.dir \in {0, d} /\ ~listing.ended
      /\ listing' = [dir |-> d,
                     offset |-> IF page = <<>> THEN from ELSE NextOffset(last),
                     got |-> (IF listing.dir = d THEN listing.got ELSE <<>>) \o page,
                     ended |-> page = <<>>]
      /\ Answer("none")
      /\ UNCHANGED <<mount, pool, disk, handles, next_handle>>

\* lookup, getattr and readlink
Entry(what, i) == reply' = [Silent EXCEPT !.what = what, !.file = i]

Lookup(parent, name) ==
  /\ mount = "fuse"
  /\ \/ Found(parent, name) # 0 /\ Entry("entry", Found(parent, name))
     \/ parent \in DOMAIN Inodes \ Dirs /\ Answer("ENOTDIR")
     \/ parent \notin DOMAIN Inodes \ Dirs /\ Found(parent, name) = 0 /\ Answer("ENOENT")
  /\ UNCHANGED <<mount, pool, disk, handles, next_handle, listing>>

GetAttr(i) ==
  /\ mount = "fuse"
  /\ IF i \in DOMAIN Inodes THEN Entry("entry", i) ELSE Answer("ENOENT")
  /\ UNCHANGED <<mount, pool, disk, handles, next_handle, listing>>

ReadLink(i) ==
  /\ mount = "fuse"
  /\ IF i \in Links THEN Entry("target", i) ELSE Answer("EINVAL")
  /\ UNCHANGED <<mount, pool, disk, handles, next_handle, listing>>

CloseDir ==
  /\ listing # NoListing
  /\ listing' = NoListing
  /\ Answer("none")
  /\ UNCHANGED <<mount, pool, disk, handles, next_handle>>

-----------------------------------------------------------------------------
(* The layers below *)

\* What a call meets in the store: the hashes in `down` cannot be fetched.
Retrieve(h, down) == IF h \in down THEN NoBytes ELSE Objects[h]

\* Mutation: the store is asked before the disk cache.
FetchWithCache_StoreFirst(h, d, down) == Retrieve(h, down)

\* fetch_with_cache: the disk cache, then the store.
FetchWithCache(h, d, down) == IF h \in DOMAIN d THEN d[h] ELSE Retrieve(h, down)

\* The caches a chunk has gone through: pool, disk and the bytes.
Layers(p, d, b) == [pool |-> p, disk |-> d, bytes |-> b]

Put(map, k, b) == [x \in DOMAIN map \cup {k} |-> IF x = k THEN b ELSE map[x]]

\* The FUSE mount acquires a block of the pool, which is fetched with the disk
\* cache; a fetch that fails leaves nothing.
Acquire(p, d, h, idx, down) ==
  LET b == FetchWithCache(h, d, down)
  IN  CASE <<h, idx>> \in DOMAIN p -> Layers(p, d, p[<<h, idx>>])
        [] <<h, idx>> \notin DOMAIN p /\ b = NoBytes -> Layers(p, d, NoBytes)
        [] OTHER -> Layers(Put(p, <<h, idx>>, b), Put(d, h, b), b)

\* What the disk cache is given.
Hydrated(b, off, len) == b

\* ProjFS tries the pool, then the disk cache, whose bytes do not enter the
\* pool, and then acquires; only then is the disk cache written.
TryEach(p, d, h, off, len, down) ==
  LET b == Retrieve(h, down)
  IN  CASE <<h, 0>> \in DOMAIN p -> Layers(p, d, p[<<h, 0>>])
        [] <<h, 0>> \notin DOMAIN p /\ h \in DOMAIN d -> Layers(p, d, d[h])
        [] <<h, 0>> \notin DOMAIN p /\ h \notin DOMAIN d /\ b = NoBytes -> Layers(p, d, NoBytes)
        [] OTHER -> Layers(Put(p, <<h, 0>>, b), Put(d, h, Hydrated(b, off, len)), b)

-----------------------------------------------------------------------------
(* Ranges *)

\* Slicing panics when the range starts after its end.
Slices(b, from, to) == from <= to

ChunkOf(off) == off \div ChunkSize

\* Mutation: the offset in the first chunk is used in every chunk.
FuseFrom_Every(idx, first, off) == off - first * ChunkSize

\* read_chunked of fuse.rs: where the bytes of chunk idx begin.
FuseFrom(idx, first, off) == IF idx = first THEN off - idx * ChunkSize ELSE 0

\* The chunks of the request, each read through the layers that the previous one
\* left: a sequence of [pool, disk, bytes, from, to].
Through(hashes, first, last, p0, d0, Read(_, _, _, _), From(_), To(_, _)) ==
  LET Part[idx \in first - 1 .. last] ==
        IF idx = first - 1 THEN <<[pool |-> p0, disk |-> d0, bytes |-> <<>>, from |-> 0, to |-> 0]>>
        ELSE LET before == Part[idx - 1]
                 top == before[Len(before)]
                 r == Read(top.pool, top.disk, hashes[idx + 1], idx)
             IN  IF top.bytes = NoBytes THEN before
                 ELSE Append(before, [pool |-> r.pool, disk |-> r.disk, bytes |-> r.bytes,
                                      from |-> From(idx), to |-> To(idx, r.bytes)])
  IN  Part[last]

Outcome(parts) ==
  LET top == parts[Len(parts)]
  IN  [pool |-> top.pool, disk |-> top.disk,
       what |-> CASE top.bytes = NoBytes -> "EIO"
                  [] \E k \in 1 .. Len(parts) : ~Slices(parts[k].bytes, parts[k].from, parts[k].to) -> "panic"
                  [] OTHER -> "data",
       bytes |-> FlattenSeq([k \in 1 .. Len(parts) |-> Cut(parts[k].bytes, parts[k].from, parts[k].to)])]

\* read_single_hash and read_chunked of fuse.rs.  A chunk that ends before its
\* range adds nothing; of a single object the range is taken without looking.
FuseRead(f, off, len, down) ==
  LET i == Inodes[f]
      end == off + len
      first == IF i.kind = "chunked" THEN ChunkOf(off) ELSE 0
      asked == IF i.kind = "chunked" THEN ChunkOf(end - 1) ELSE 0
      last == Smaller(asked, Len(i.hashes) - 1)
      From(idx) == IF i.kind = "chunked" THEN FuseFrom(idx, first, off) ELSE off
      To(idx, b) ==
        CASE i.kind = "single" -> Smaller(end, Len(b))
          [] i.kind = "chunked" /\ From(idx) >= Len(b) -> From(idx)
          [] i.kind = "chunked" /\ From(idx) < Len(b) ->
               IF idx = asked THEN Smaller(end - idx * ChunkSize, Len(b)) ELSE Len(b)
      Read(p, d, h, idx) == Acquire(p, d, h, idx, down)
  IN  Outcome(Through(i.hashes, first, last, pool, disk, Read, From, To))

\* read_single_hash and read_chunked of fskit.rs: each range is retrieved from
\* the store by itself, and the store's adapter cuts it from the whole object.
KitRead(f, off, len, down) ==
  LET i == Inodes[f]
      end == off + len
      first == IF i.kind = "chunked" THEN ChunkOf(off) ELSE 0
      last == IF i.kind = "chunked"
              THEN Smaller(ChunkOf(end + ChunkSize - 1), Len(i.hashes)) - 1 ELSE 0
      From(idx) == IF i.kind = "chunked"
                   THEN Larger(off, idx * ChunkSize) - idx * ChunkSize ELSE off
      To(idx, b) ==
        LET want == IF i.kind = "chunked"
                    THEN Smaller(end, (idx + 1) * ChunkSize) - idx * ChunkSize ELSE end
        IN  Smaller(want, Len(b))
      Read(p, d, h, idx) == Layers(p, d, Retrieve(h, down))
  IN  Outcome(Through(i.hashes, first, last, pool, disk, Read, From, To))

\* fetch_single_hash, fetch_chunked and extract_range of vfs_callbacks.rs: what
\* lies past the end of an object is left out.
ProjRead(f, off, len, down) ==
  LET i == Inodes[f]
      end == Smaller(off + len, i.size)
      first == IF i.kind = "chunked" THEN ChunkOf(off) ELSE 0
      asked == IF i.kind = "chunked" THEN (IF end = 0 THEN 0 ELSE ChunkOf(end - 1)) ELSE 0
      last == Smaller(asked, Len(i.hashes) - 1)
      From(idx) == IF i.kind = "chunked"
                   THEN (IF idx = first THEN off - idx * ChunkSize ELSE 0) ELSE off
      Want(idx) ==
        CASE i.kind = "single" -> off + len
          [] i.kind = "chunked" /\ idx = asked -> end - idx * ChunkSize
          [] i.kind = "chunked" /\ idx # asked -> Smaller((idx + 1) * ChunkSize, i.size) - idx * ChunkSize
      To(idx, b) == IF From(idx) >= Len(b) THEN From(idx) ELSE Smaller(Want(idx), Len(b))
      Read(p, d, h, idx) == TryEach(p, d, h, From(idx), Want(idx) - From(idx), down)
  IN  Outcome(Through(i.hashes, first, last, pool, disk, Read, From, To))

-----------------------------------------------------------------------------
(* Calls *)

\* open of the read-only mount
Open(f, flags) ==
  /\ mount = "fuse"
  /\ next_handle <= MaxHandles
  /\ \/ /\ f \in Files /\ flags = "rdonly"
        /\ handles' = Put(handles, next_handle, f)
        /\ next_handle' = next_handle + 1
        /\ Answer("opened")
     \/ /\ f \notin Files \/ flags # "rdonly"
        /\ Answer(IF f \in Files THEN "EROFS" ELSE "EISDIR")
        /\ UNCHANGED <<handles, next_handle>>
  /\ UNCHANGED <<mount, pool, disk, listing>>

\* release
Release(h) ==
  /\ mount = "fuse" /\ h \in DOMAIN handles
  /\ handles' = [x \in DOMAIN handles \ {h} |-> handles[x]]
  /\ Answer("none")
  /\ UNCHANGED <<mount, pool, disk, next_handle, listing>>

Reads(f, off, len, r) ==
  /\ pool' = r.pool /\ disk' = r.disk
  /\ reply' = [what |-> r.what, file |-> f, off |-> off, len |-> len,
               bytes |-> IF r.what = "data" THEN r.bytes ELSE NoBytes]

PastEnd(f, off) == off >= Inodes[f].size

\* The caches as they are and these bytes.
Plain(what, b) == [pool |-> pool, disk |-> disk, what |-> what, bytes |-> b]

\* read: of FUSE through a handle of the inode, of both up to the file's size.  A
\* file of the relaxed kind has no hash yet.
Read(f, off, len, down) ==
  LET actual == Smaller(len, Inodes[f].size - off)
  IN  /\ mount \in {"fuse", "fskit"}
      /\ mount = "fuse" => \E h \in DOMAIN handles : handles[h] = f
      /\ Reads(f, off, len,
               CASE PastEnd(f, off) -> Plain("data", <<>>)
                 [] ~PastEnd(f, off) /\ Inodes[f].kind = "relaxed" -> Plain("EIO", <<>>)
                 [] ~PastEnd(f, off) /\ Inodes[f].kind # "relaxed" /\ mount = "fuse"
                      -> FuseRead(f, off, actual, down)
                 [] OTHER -> KitRead(f, off, actual, down))
      /\ UNCHANGED <<mount, handles, next_handle, listing>>

\* A handle that was released, or one of another inode.
ReadBadHandle(f, h) ==
  /\ mount = "fuse" /\ h \in 1 .. MaxHandles
  /\ ~(h \in DOMAIN handles /\ handles[h] = f)
  /\ Answer("EBADF")
  /\ UNCHANGED <<mount, pool, disk, handles, next_handle, listing>>

\* get_file_data_cb: the system asks for bytes that the placeholder has.
GetFileData(f, off, len, down) ==
  /\ mount = "projfs" /\ Inodes[f].kind # "relaxed"
  /\ off < Inodes[f].size
  /\ Reads(f, off, len, ProjRead(f, off, len, down))
  /\ UNCHANGED <<mount, handles, next_handle, listing>>

\* The pool evicts a clean block; the disk cache's directory loses a file, or a
\* crash leaves one cut off.
Forget ==
  /\ \/ /\ \E k \in DOMAIN pool : pool' = [x \in DOMAIN pool \ {k} |-> pool[x]]
        /\ UNCHANGED disk
     \/ /\ \E h \in DOMAIN disk :
             \/ disk' = [x \in DOMAIN disk \ {h} |-> disk[x]]
             \/ Damaged /\ disk[h] # <<>> /\ disk' = [disk EXCEPT ![h] = Front(@)]
        /\ UNCHANGED pool
  /\ Answer("none")
  /\ UNCHANGED <<mount, handles, next_handle, listing>>

Offsets(f) == 0 .. Inodes[f].size + 1

Next ==
  \/ \E d \in Dirs : ReadDir(d)
  \/ CloseDir
  \/ \E i \in DOMAIN Inodes \cup {0}, n \in {Inodes[j].name : j \in DOMAIN Inodes} : Lookup(i, n)
  \/ \E i \in DOMAIN Inodes \cup {0} : GetAttr(i) \/ ReadLink(i)
  \/ \E f \in DOMAIN Inodes, flags \in {"rdonly", "wronly"} : Open(f, flags)
  \/ \E h \in DOMAIN handles : Release(h)
  \/ \E f \in Files, len \in Lengths, down \in Outages : \E off \in Offsets(f) :
       Read(f, off, len, down)
  \/ \E f \in Files, len \in Lengths, down \in Outages : \E off \in Offsets(f) :
       GetFileData(f, off, len, down)
  \/ \E f \in Files, h \in 1 .. MaxHandles : ReadBadHandle(f, h)
  \/ Forget

Spec == Init /\ [][Next]_vars

-----------------------------------------------------------------------------
(* Properties *)

Content(f) == FlattenSeq([k \in 1 .. Len(Inodes[f].hashes) |-> Whole[Inodes[f].hashes[k]]])

\* A read that answers with bytes answers with the file's: from the offset, as
\* many as were asked for or as the file has.  Whatever the request does at the
\* borders of chunks, and whichever layer has which of its chunks.
ReadsAreSlices ==
  reply.what = "data" =>
    reply.bytes = Cut(Content(reply.file), reply.off, reply.off + reply.len)

\* No read slices an object outside its bytes, which would end the session.
NeverPanics == reply.what # "panic"

\* What the caches hold under a hash is the object of that hash: they are shared
\* between files, between chunks and single objects, and between the front ends.
CachesHoldObjects ==
  /\ \A k \in DOMAIN pool : pool[k] = Whole[k[1]]
  /\ \A h \in DOMAIN disk : disk[h] = Whole[h]

\* A read all of whose chunks are on this machine, in the pool or on disk,
\* succeeds while the store is away.  For the front ends that use the caches.
CachedReadsSucceed ==
  [][\A f \in Files : reply'.what = "EIO" /\ reply'.file = f /\ mount # "fskit"
       /\ Inodes[f].kind # "relaxed" =>
       \E k \in 1 .. Len(Inodes[f].hashes) :
         /\ Inodes[f].hashes[k] \notin DOMAIN disk
         /\ \A key \in DOMAIN pool : key # <<Inodes[f].hashes[k], IF mount = "fuse" THEN k - 1 ELSE 0>>]_vars

\* A directory that is listed page by page yields each of its entries once, in
\* one order, and lookup finds each of them under its name.
PagesAddUp ==
  listing.dir # 0 =>
    /\ IsPrefix(listing.got, Entries(listing.dir))
    /\ listing.ended => Len(listing.got) = Len(Entries(listing.dir))
    /\ \A k \in 3 .. Len(listing.got) :
         Found(listing.dir, listing.got[k].name) = listing.got[k].id

=============================================================================
