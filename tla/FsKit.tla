------------------------------- MODULE FsKit -------------------------------
(***************************************************************************)
(* The file system of macOS: WritableFsKit of crates/vfs-fskit, over the   *)
(* inode table and the dirty layers of Namespace.                          *)
(*                                                                         *)
(* Unlike a FUSE session, the bridge runs handlers side by side on clones  *)
(* of one handle, and nothing but the maps' own locks orders them: a       *)
(* handler is a sequence of steps here, one per map it goes to.  It is     *)
(* called with item ids that lookups gave, and answers with an errno.      *)
(* Directories are enumerated page by page: a cookie says where to go on,  *)
(* a verifier whether the directory has changed since the page before.     *)
(***************************************************************************)
EXTENDS Namespace

CONSTANTS
  Threads,
  PageSize,     \* entries that the caller takes from a page, at most
  MaxCalls,     \* bound: calls
  Serialised    \* does the caller keep apart the calls that change one directory?

VARIABLES
  calls,        \* the call of each thread
  verifiers,    \* enum_state: directory -> verifier, 1 when it is not there
  order,        \* of each directory: the order in which the map lists its children
  unflushed,    \* files with writes that are not on disk
  begun,        \* calls made
  watch         \* what happened during the call of each thread

kitVars == <<calls, verifiers, order, unflushed, begun, watch>>
allVars == <<vars, kitVars>>

Idle == [op |-> "none", pc |-> "idle", dir |-> Root, name |-> "", item |-> Nothing, path |-> <<>>,
         cookie |-> 0, verifier |-> 0, given |-> {}, todo |-> {}]
Blank == [steady |-> {}, moved |-> FALSE, told |-> FALSE, owed |-> {}]

Changing == {t \in Threads : calls[t].op \in {"create", "mkdir", "remove"}}
AtRest == Changing = {}

KitTypeOK ==
  /\ TypeOK
  /\ \A t \in Threads :
       /\ calls[t].op \in {"none", "create", "mkdir", "remove", "enumerate", "synchronize"}
       /\ calls[t].todo \subseteq TableIds \cup FileIds
  /\ DOMAIN order = DOMAIN children
  /\ \A d \in DOMAIN order : Range(order[d]) = DOMAIN children[d] /\ IsInjective(order[d])
  /\ DOMAIN verifiers \subseteq TableIds
  /\ unflushed \subseteq DOMAIN dirty_files
  /\ begun \in 0 .. MaxCalls

\* The orders in which the maps of the directories D may list their children.
Orders(ch, D) ==
  {o \in [D -> UNION {SetToSeqs(DOMAIN ch[d]) : d \in D}] : \A d \in D : o[d] \in SetToSeqs(DOMAIN ch[d])}

KitInit ==
  /\ Init
  /\ calls = [t \in Threads |-> Idle]
  /\ verifiers = <<>>
  /\ order \in Orders(children, DOMAIN children)
  /\ unflushed = {}
  /\ begun = 0
  /\ watch = [t \in Threads |-> Blank]

-----------------------------------------------------------------------------
\* Questions about an item, by id.

\* get_attributes finds the item.
Found(i) ==
  \/ i \in DOMAIN inodes /\ ~FileIs(i, "Deleted") /\ ~DirIs(i, "Deleted")
  \/ i \notin DOMAIN inodes /\ (FileIs(i, "New") \/ DirIs(i, "New"))

\* check_access allows it: it knows of items that are gone, then of the others.
CanAccess(i) ==
  /\ ~FileIs(i, "Deleted") /\ ~DirIs(i, "Deleted")
  /\ i \in DOMAIN inodes \/ FileIs(i, "New") \/ DirIs(i, "New")

\* open_item finds the item.
CanOpen(i) == ~FileIs(i, "Deleted") /\ (i \in DOMAIN inodes \/ FileIs(i, "New"))

\* The parent that get_attributes tells of an item, and the one lookup_item tells.
ParentTold(i) == IF i \in DOMAIN inodes THEN inodes[i].parent ELSE Nothing
ParentLookedUp(i, d) == IF i \in DOMAIN inodes THEN inodes[i].parent ELSE d

\* get_parent_path
ParentKnown(d) == d \in DOMAIN inodes \/ DirIs(d, "New")

\* remove_item: which kind the item is of.
KindKnown(i) == i \in DOMAIN inodes \/ DirIs(i, "New") \/ FileIs(i, "New")
RemovesDir(i) == IF i \in DOMAIN inodes THEN inodes[i].kind = "dir" ELSE DirIs(i, "New")

-----------------------------------------------------------------------------
\* The calls.

\* The directories that a call changes: its own, and with a directory that is
\* removed those below it.
Changes(c) ==
  {c.dir} \cup
  IF c.op = "remove" /\ IsDir(c.item)
    THEN {d \in DOMAIN inodes : IsDir(d) /\ IsPrefix(inodes[c.item].path, inodes[d].path)}
    ELSE {}

Free(c) == Serialised => \A t \in Changing : Changes(calls[t]) \cap Changes(c) = {}

Start(t, c) ==
  /\ calls[t].pc = "idle"
  /\ begun < MaxCalls /\ begun' = begun + 1
  /\ calls' = [calls EXCEPT ![t] = c]
  /\ last' = [last EXCEPT !.op = "none"]
  /\ UNCHANGED <<table, dirty_dirs, dirty_files, next_file, verifiers, order, unflushed>>

\* The caller has found the directory, and looks a name up before it creates it.
StartCreate(t) ==
  \E op \in {"create", "mkdir"}, d \in DOMAIN inodes, n \in Names :
    LET c == [Idle EXCEPT !.op = op, !.pc = "check", !.dir = d, !.name = n] IN
    /\ IsDir(d) /\ Len(inodes[d].path) < MaxDepth
    /\ Lookup(d, n) = {}
    /\ Free(c)
    /\ Start(t, c)

StartRemove(t) ==
  \E d \in DOMAIN inodes, n \in Names :
    /\ IsDir(d) /\ Len(inodes[d].path) < MaxDepth
    /\ \E i \in Lookup(d, n) :
         LET c == [Idle EXCEPT !.op = "remove", !.pc = "kind", !.dir = d, !.name = n, !.item = i]
         IN Free(c) /\ Start(t, c)

StartEnumerate(t) ==
  \E d \in DOMAIN inodes :
    /\ IsDir(d)
    /\ Start(t, [Idle EXCEPT !.op = "enumerate", !.pc = "verify", !.dir = d])

StartSynchronize(t) ==
  Start(t, [Idle EXCEPT !.op = "synchronize", !.pc = "flush",
                        !.todo = {i \in DOMAIN dirty_files : ~FileIs(i, "Deleted")}])

Goes(t, pc) == calls' = [calls EXCEPT ![t].pc = pc]
\* The call goes on, and answers nothing yet.
Silent == last' = [last EXCEPT !.op = "none"]

Done(t, a) ==
  /\ calls' = [calls EXCEPT ![t] = Idle]
  /\ last' = [op |-> calls[t].op, path |-> calls[t].path, answer |-> a]

SameTree == UNCHANGED <<table, dirty_dirs, dirty_files, next_file, order, unflushed>>

\* create_item: the parent's path, and for a file whether the inode table has
\* the name; its id is taken at once.
CreateCheck(t) ==
  LET c == calls[t]  new == Append(ParentPath(c.dir), c.name) IN
  /\ c.op = "create" /\ c.pc = "check"
  /\ \/ ~ParentKnown(c.dir) /\ Done(t, "ENOENT") /\ UNCHANGED next_file
     \/ /\ ParentKnown(c.dir) /\ GetByPath(new) # Nothing
        /\ Done(t, "EEXIST") /\ UNCHANGED next_file
     \/ /\ ParentKnown(c.dir) /\ GetByPath(new) = Nothing
        /\ next_file <= MaxNew
        /\ next_file' = next_file + 1
        /\ calls' = [calls EXCEPT ![t].pc = "insert", ![t].path = new, ![t].item = FirstFileId + next_file]
        /\ Silent
  /\ UNCHANGED <<table, dirty_dirs, dirty_files, order, unflushed, verifiers>>

CreateInsert(t) ==
  LET c == calls[t] IN
  /\ c.op = "create" /\ c.pc = "insert"
  /\ dirty_files' = With(dirty_files, c.item, [path |-> c.path, parent |-> c.dir, state |-> "New"])
  /\ unflushed' = unflushed \cup {c.item}
  /\ Goes(t, "bump") /\ Silent
  /\ UNCHANGED <<table, dirty_dirs, next_file, order, verifiers>>

\* create_item of a directory: create_dir asks the table only.
MkDirCheck(t) ==
  LET c == calls[t]  new == Append(ParentPath(c.dir), c.name) IN
  /\ c.op = "mkdir" /\ c.pc = "check"
  /\ \/ c.dir \notin DOMAIN inodes /\ Done(t, "ENOENT")
     \/ c.dir \in DOMAIN inodes /\ ~IsDir(c.dir) /\ Done(t, "ENOTDIR")
     \/ IsDir(c.dir) /\ GetByPath(new) # Nothing /\ Done(t, "EEXIST")
     \/ /\ IsDir(c.dir) /\ GetByPath(new) = Nothing
        /\ calls' = [calls EXCEPT ![t].pc = "add", ![t].path = new] /\ Silent
  /\ SameTree /\ UNCHANGED verifiers

\* add_directory of one path, whose directory is s.at.
AddOne(s, p) ==
  IF p \in DOMAIN s.path_index THEN [s EXCEPT !.at = s.path_index[p]]
  ELSE [ inodes |-> With(s.inodes, s.next_id, [path |-> p, kind |-> "dir", parent |-> s.at]),
         path_index |-> With(s.path_index, p, s.next_id),
         children |-> With(IF s.at \in DOMAIN s.children
                             THEN [s.children EXCEPT ![s.at] = With(@, Last(p), s.next_id)]
                             ELSE s.children, s.next_id, <<>>),
         next_id |-> s.next_id + 1,
         at |-> s.next_id ]

\* add_directory makes the directories of the path that are not there.
AddPath(new) ==
  FoldLeft(AddOne,
           [inodes |-> inodes, path_index |-> path_index, children |-> children,
            next_id |-> next_id, at |-> Root],
           [n \in 1 .. Len(new) |-> SubSeq(new, 1, n)])

MkDirAdd(t) ==
  LET c == calls[t]
      s == AddPath(c.path)
      grown == {d \in DOMAIN s.children : d \notin DOMAIN children \/ s.children[d] # children[d]}
  IN
  /\ c.op = "mkdir" /\ c.pc = "add"
  /\ s.next_id <= FirstNewId + MaxNew
  /\ inodes' = s.inodes /\ path_index' = s.path_index
  /\ children' = s.children /\ next_id' = s.next_id
  /\ \E o \in Orders(s.children, grown) :
       order' = [d \in DOMAIN s.children |-> IF d \in grown THEN o[d] ELSE order[d]]
  /\ calls' = [calls EXCEPT ![t].pc = "track", ![t].item = s.at] /\ Silent
  /\ UNCHANGED <<dirty_dirs, dirty_files, next_file, unflushed, verifiers>>

MkDirTrack(t) ==
  LET c == calls[t] IN
  /\ c.op = "mkdir" /\ c.pc = "track"
  /\ TrackCreated(c.path, c.item)
  /\ Goes(t, "bump") /\ Silent
  /\ UNCHANGED <<table, dirty_files, next_file, order, unflushed, verifiers>>

\* remove_item: what kind of item it is.
RemoveKind(t) ==
  LET c == calls[t] IN
  /\ c.op = "remove" /\ c.pc = "kind"
  /\ \/ /\ ~KindKnown(c.item) \/ (RemovesDir(c.item) /\ ~ParentKnown(c.dir))
        /\ Done(t, "ENOENT")
     \/ /\ KindKnown(c.item) /\ RemovesDir(c.item) /\ ParentKnown(c.dir)
        /\ calls' = [calls EXCEPT ![t].pc = "files", ![t].path = Append(ParentPath(c.dir), c.name)]
        /\ Silent
     \/ KindKnown(c.item) /\ ~RemovesDir(c.item) /\ Goes(t, "file") /\ Silent
  /\ SameTree /\ UNCHANGED verifiers

IsFile(i) == i \in DOMAIN inodes /\ inodes[i].kind = "file"

\* delete_file: a new file is forgotten, one of the manifest marked, anything
\* else refused.  An error of the flush after the mark is answered.
RemoveFile(t) ==
  LET c == calls[t]  i == c.item IN
  /\ c.op = "remove" /\ c.pc = "file"
  /\ \/ /\ FileIs(i, "New")
        /\ dirty_files' = Without(dirty_files, i)
        /\ calls' = [calls EXCEPT ![t].pc = "bump", ![t].path = dirty_files[i].path] /\ Silent
     \/ /\ ~FileIs(i, "New") /\ IsFile(i)
        /\ dirty_files' = With(dirty_files, i,
                               [path |-> inodes[i].path, parent |-> inodes[i].parent, state |-> "Deleted"])
        /\ \/ calls' = [calls EXCEPT ![t].pc = "bump", ![t].path = inodes[i].path] /\ Silent
           \/ Done(t, "EIO")
     \/ ~FileIs(i, "New") /\ ~IsFile(i) /\ Done(t, "EIO") /\ UNCHANGED dirty_files
  /\ unflushed' = unflushed \ (IF dirty_files' # dirty_files THEN {i} ELSE {})
  /\ UNCHANGED <<table, dirty_dirs, next_file, order, verifiers>>

\* The new files below a directory go before delete_dir looks at it.
RemoveFilesUnder(t) ==
  LET c == calls[t] IN
  /\ c.op = "remove" /\ c.pc = "files"
  /\ dirty_files' = WithoutNewFilesUnder(c.path)
  /\ unflushed' = unflushed \cap DOMAIN dirty_files'
  /\ Goes(t, "empty") /\ Silent
  /\ UNCHANGED <<table, dirty_dirs, next_file, order, verifiers>>

\* delete_dir finds the directory by name, and only an empty one goes.
DirIn(d, name) == IF IsDir(d) /\ name \in DOMAIN children[d] THEN children[d][name] ELSE Nothing

RemoveCheck(t) ==
  LET c == calls[t]  i == DirIn(c.dir, c.name) IN
  /\ c.op = "remove" /\ c.pc = "empty"
  /\ \/ ~IsDir(c.dir) /\ Done(t, "ENOTDIR")
     \/ IsDir(c.dir) /\ i = Nothing /\ Done(t, "ENOENT")
     \/ i # Nothing /\ i \notin DOMAIN inodes /\ Done(t, "EIO")
     \/ i \in DOMAIN inodes /\ ~IsDir(i) /\ Done(t, "ENOTDIR")
     \/ IsDir(i) /\ DOMAIN children[i] # {} /\ Done(t, "ENOTEMPTY")
     \/ IsDir(i) /\ DOMAIN children[i] = {} /\ Silent
        /\ calls' = [calls EXCEPT ![t].pc = "untrack", ![t].item = i]
  /\ SameTree /\ UNCHANGED verifiers

RemoveTrack(t) ==
  LET c == calls[t] IN
  /\ c.op = "remove" /\ c.pc = "untrack"
  /\ \/ c.item \in DOMAIN inodes /\ TrackDeleted(c.item)
     \/ c.item \notin DOMAIN inodes /\ UNCHANGED dirty_dirs
  /\ Goes(t, "detach") /\ Silent
  /\ UNCHANGED <<table, dirty_files, next_file, order, unflushed, verifiers>>

\* remove_child and remove_inode; the second may find that the inode is gone.
RemoveDetach(t) ==
  LET c == calls[t] IN
  /\ c.op = "remove" /\ c.pc = "detach"
  /\ IF IsDir(c.dir) /\ IsDir(c.item)
       THEN /\ RemoveDirectory(c.dir, c.item)
            /\ order' = Without([order EXCEPT ![c.dir] = SelectSeq(@, LAMBDA n : n # c.name)], c.item)
            /\ Goes(t, "bump") /\ Silent
       ELSE UNCHANGED <<table, order>> /\ Done(t, "EIO")
  /\ UNCHANGED <<dirty_dirs, dirty_files, next_file, unflushed, verifiers>>

Verifier(d) == IF d \in DOMAIN verifiers THEN verifiers[d] ELSE 1

\* Mutation: only what is made changes the verifier.
Bump_Created(t) ==
  LET c == calls[t] IN
  /\ c.pc = "bump"
  /\ verifiers' = IF c.op = "remove" THEN verifiers ELSE With(verifiers, c.dir, Verifier(c.dir) + 1)
  /\ Done(t, "ok")
  /\ SameTree

\* bump_dir_verifier, the last step of each call that changes a directory.
Bump(t) ==
  LET c == calls[t] IN
  /\ c.pc = "bump"
  /\ verifiers' = With(verifiers, c.dir, Verifier(c.dir) + 1)
  /\ Done(t, "ok")
  /\ SameTree

-----------------------------------------------------------------------------
\* enumerate_directory.

\* A page is made only for a caller that has no verifier, or the current one.
EnumVerify(t) ==
  LET c == calls[t] IN
  /\ c.op = "enumerate" /\ c.pc = "verify"
  /\ \/ c.dir \in DOMAIN inodes /\ ~IsDir(c.dir) /\ Done(t, "ENOTDIR")
     \/ ~ParentKnown(c.dir) /\ Done(t, "ENOENT")
     \/ /\ IsDir(c.dir) \/ (c.dir \notin DOMAIN inodes /\ DirIs(c.dir, "New"))
        /\ \/ c.verifier \notin {0, Verifier(c.dir)} /\ Done(t, "EINVAL")
           \/ /\ c.verifier \in {0, Verifier(c.dir)}
              /\ calls' = [calls EXCEPT ![t].pc = "page", ![t].verifier = Verifier(c.dir)]
              /\ Silent
  /\ SameTree /\ UNCHANGED verifiers

\* Mutation: the page begins one entry late.
StartIndex_Late(cookie) == IF cookie <= 2 THEN 0 ELSE cookie - 1

\* Where the page begins among the children: entry i, from 0, has cookie i + 3.
StartIndex(cookie) == IF cookie <= 2 THEN 0 ELSE cookie - 2

Entry(n, i, k) == [name |-> n, item |-> i, cookie |-> k]

\* The children from the page's first on that are not deleted.
ChildEntries(d, cookie) ==
  IF ~IsDir(d) THEN <<>>
  ELSE LET all == [k \in 1 .. Len(order[d]) |-> Entry(order[d][k], children[d][order[d][k]], k + 2)]
       IN SelectSeq(SubSeq(all, StartIndex(cookie) + 1, Len(all)),
                    LAMBDA e : e.item \in DOMAIN inodes /\ ~FileIs(e.item, "Deleted")
                                                        /\ ~DirIs(e.item, "Deleted"))

\* The new entries are on every page, after the others: a name once, and with
\* the place on this page as its cookie.
AppendNew(page, e) ==
  IF \E k \in 1 .. Len(page) : page[k].name = e[1] THEN page
  ELSE Append(page, Entry(e[1], e[2], Len(page) + 1))

Dots(d, cookie) ==
  IF cookie # 0 THEN <<>>
  ELSE << Entry(".", d, 1), Entry("..", IF d \in DOMAIN inodes THEN inodes[d].parent ELSE d, 2) >>

Page(d, cookie) ==
  FoldLeft(AppendNew, Dots(d, cookie) \o ChildEntries(d, cookie),
           SetToSeq(NewFiles(d)) \o SetToSeq(NewDirs(d)))

\* The caller takes the entries it has room for, and comes back with the cookie
\* of the last it took.
EnumPage(t) ==
  LET c == calls[t]
      page == Page(c.dir, c.cookie)
      n == IF Len(page) < PageSize THEN Len(page) ELSE PageSize
      got == c.given \cup {<<page[k].name, page[k].item>> : k \in 1 .. n}
  IN
  /\ c.op = "enumerate" /\ c.pc = "page"
  /\ calls' = [calls EXCEPT ![t].given = got,
                            ![t].pc = IF n = Len(page) THEN "end" ELSE "verify",
                            ![t].cookie = IF n = 0 THEN @ ELSE page[n].cookie]
  /\ Silent
  /\ SameTree /\ UNCHANGED verifiers

EnumEnd(t) ==
  /\ calls[t].pc = "end"
  /\ Done(t, "ok")
  /\ SameTree /\ UNCHANGED verifiers

-----------------------------------------------------------------------------
\* Contents, as far as it is known whether they are on disk.

\* A file of the manifest becomes a dirty one with its first change.  One step:
\* what writes do to each other is in DirtyFile.
Changed(i) ==
  /\ FileIs(i, "New") \/ FileIs(i, "Modified") \/ (i \notin DOMAIN dirty_files /\ IsFile(i))
  /\ dirty_files' = IF i \in DOMAIN dirty_files THEN dirty_files
                    ELSE With(dirty_files, i, [path |-> inodes[i].path, parent |-> inodes[i].parent,
                                               state |-> "Modified"])
  /\ unflushed' = unflushed \cup {i}
  /\ begun < MaxCalls /\ begun' = begun + 1
  /\ Silent
  /\ UNCHANGED <<table, dirty_dirs, next_file, calls, verifiers, order>>

Write(i) == Changed(i)

\* set_attributes with a size truncates, and answers with the attributes.
SetSize(i) == Changed(i) /\ (Found(i))'

\* close_item flushes a dirty file; the disk may refuse.
CloseItem(i) ==
  /\ i \in unflushed
  /\ unflushed' = unflushed \ {i}
  /\ begun < MaxCalls /\ begun' = begun + 1
  /\ Silent
  /\ UNCHANGED <<table, dirty_dirs, dirty_files, next_file, calls, verifiers, order>>

\* synchronize and unmount flush the files that were dirty, in any order, until
\* one cannot be flushed: its record is gone, or the disk refuses.
SyncFlush(t) ==
  LET c == calls[t] IN
  /\ c.op = "synchronize" /\ c.pc = "flush" /\ c.todo # {}
  /\ \E i \in c.todo :
       \/ /\ i \in DOMAIN dirty_files
          /\ unflushed' = unflushed \ {i}
          /\ calls' = [calls EXCEPT ![t].todo = @ \ {i}] /\ Silent
       \/ Done(t, "EIO") /\ UNCHANGED unflushed
  /\ UNCHANGED <<table, dirty_dirs, dirty_files, next_file, order, verifiers>>

SyncEnd(t) ==
  /\ calls[t].op = "synchronize" /\ calls[t].todo = {}
  /\ Done(t, "ok")
  /\ SameTree /\ UNCHANGED verifiers

-----------------------------------------------------------------------------
\* What is remembered of the calls, for the properties.

Answered(u) == calls[u].pc = "bump" /\ calls'[u].pc = "idle"

Watched(t) ==
  LET c == calls[t]  new == calls'[t]  w == watch[t]
      now == IF IsDir(new.dir) THEN Listing(new.dir) ELSE {}
  IN
  IF new.op = "enumerate"
    THEN IF c.pc = "idle" THEN [Blank EXCEPT !.steady = Listing(new.dir)]
         ELSE [w EXCEPT
                !.steady = @ \cap (IF IsDir(c.dir) THEN Listing(c.dir) ELSE {})',
                !.moved = @ \/ (c.cookie # 0 /\ c.dir \in DOMAIN order
                               /\ (c.dir \in DOMAIN order' => order'[c.dir] # order[c.dir])),
                !.told = @ \/ (c.verifier # 0 /\ \E u \in Changing : Answered(u) /\ calls[u].dir = c.dir)]
  ELSE IF new.op = "synchronize"
    THEN [w EXCEPT !.owed = IF c.pc = "idle" THEN unflushed ELSE @ \cap unflushed']
  ELSE Blank

ThreadStep(t) ==
  /\ \/ CreateCheck(t) \/ CreateInsert(t)
     \/ MkDirCheck(t) \/ MkDirAdd(t) \/ MkDirTrack(t)
     \/ RemoveKind(t) \/ RemoveFile(t)
     \/ RemoveFilesUnder(t) \/ RemoveCheck(t) \/ RemoveTrack(t) \/ RemoveDetach(t)
     \/ Bump(t)
     \/ EnumVerify(t) \/ EnumPage(t) \/ EnumEnd(t)
     \/ SyncFlush(t) \/ SyncEnd(t)
  /\ UNCHANGED begun

KitNext ==
  /\ \E t \in Threads :
       \/ StartCreate(t) \/ StartRemove(t) \/ StartEnumerate(t) \/ StartSynchronize(t)
       \/ ThreadStep(t)
     \/ \E i \in TableIds \cup FileIds : Write(i) \/ SetSize(i) \/ CloseItem(i)
  /\ watch' = [t \in Threads |-> Watched(t)]

KitSpec == KitInit /\ [][KitNext]_allVars

-----------------------------------------------------------------------------
(* Properties *)

\* With no change under way, what would be exported is the tree the user sees.
DiffIsTree == AtRest => DiffDescribesTree

\* With no change under way, attributes, access checks and opens, which go by
\* id, find an item exactly when some path leads to it.
IdsAgreeWithPaths ==
  AtRest => LET there == UNION {Walk[p] : p \in Paths} IN
            \A i \in TableIds \cup FileIds :
              /\ Found(i) <=> i \in there
              /\ CanAccess(i) <=> i \in there
              /\ CanOpen(i) <=> i \in there

\* An enumeration that comes to its end has told every entry that was there all
\* along, however the pages fell and whatever was removed, made or written
\* meanwhile, unless the map's order changed under it unannounced.
EnumerationIsComplete ==
  \A t \in Threads : calls[t].pc = "end" /\ ~watch[t].moved => watch[t].steady \subseteq calls[t].given

\* Once a change of a directory has been answered, an enumeration that began
\* before is refused its next page, and starts again.
ChangesAreTold ==
  [][\A t \in Threads : calls[t].pc = "verify" /\ calls'[t].pc = "page" => ~watch[t].told]_allVars

\* When synchronize answers ok, what was unflushed when it was called has been
\* flushed since.
SyncIsComplete ==
  \A t \in Threads : calls[t].op = "synchronize" /\ calls[t].todo = {} => watch[t].owed = {}

\* Statements that do not hold, and are not in the runs (README, section
\* Divergences).

\* An enumeration tells every entry once.
ToldOnce ==
  [][\A t \in Threads : calls[t].pc = "page" /\ calls'[t].pc \in {"verify", "end"} =>
       \A k \in 1 .. Len(Page(calls[t].dir, calls[t].cookie)) :
         LET e == Page(calls[t].dir, calls[t].cookie)[k]
         IN <<e.name, e.item>> \notin calls[t].given]_allVars

\* An enumeration skips nothing, even while a change is under way that is not
\* announced yet.
NothingIsSkipped ==
  \A t \in Threads : calls[t].pc = "end" => watch[t].steady \subseteq calls[t].given

\* A directory also tells itself and its parent, whatever fits on a page.
DotsAreTold ==
  \A t \in Threads : calls[t].pc = "end" => {".", ".."} \subseteq {e[1] : e \in calls[t].given}

\* An item has the parent by its id that it has by its name.
ParentsAgree ==
  \A p \in Paths : \A d \in Walk[p] : IsDir(d) =>
    \A n \in Names : \A i \in Lookup(d, n) : ParentTold(i) = ParentLookedUp(i, d)

\* synchronize fails only when the disk refuses: not because a file it was about
\* to flush has been removed.
GoneFilesDoNotStopSync ==
  \A t \in Threads : calls[t].op = "synchronize" => calls[t].todo \subseteq DOMAIN dirty_files

=============================================================================
