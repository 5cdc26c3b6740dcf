----------------------------- MODULE Projection -----------------------------
(***************************************************************************)
(* The manifest as a tree of folders that ProjFS can list                  *)
(* (crates/vfs-projfs/src/projection/manifest.rs, folder.rs), and one      *)
(* enumeration session over a folder (virtualizer/enumeration.rs and the   *)
(* three enumeration callbacks).                                           *)
(*                                                                         *)
(* A path is a sequence of names; a folder is known by the path it was     *)
(* created with.  Names are matched without regard to case.                *)
(***************************************************************************)
EXTENDS Integers, Sequences, FiniteSets, SequencesExt

CONSTANTS
  Names,      \* path components
  Lower,      \* name -> the name in lower case
  Rank,       \* name in lower case -> its place in PrjFileNameCompare's order
  Filters,    \* wildcard expressions of the driver; "none" for no expression
  Matching    \* filter -> the names PrjFileNameMatch accepts

ProjectionAssumption ==
  /\ Lower \in [Names -> Names] /\ Rank \in [Names -> Nat]
  /\ Matching \in [Filters -> SUBSET Names]

SameName(a, b) == Lower[a] = Lower[b]

Entry(name, kind) == [name |-> name, kind |-> kind]

EmptyTree == << >> :> << >>

FolderIndexes(tree, at, name) ==
  {i \in DOMAIN tree[at] : tree[at][i].kind = "folder" /\ SameName(tree[at][i].name, name)}

\* get_or_create_subfolder, from the folder a walk has reached.
Subfolder(walk, name) ==
  LET found == FolderIndexes(walk.tree, walk.at, name)
      new   == Append(walk.at, name)
  IN IF found # {}
       THEN [walk EXCEPT !.at = Append(walk.at, walk.tree[walk.at][Min(found)].name)]
       ELSE [at   |-> new,
             tree |-> (new :> << >>) @@
                      [walk.tree EXCEPT ![walk.at] = Append(@, Entry(name, "folder"))]]

MakeFolders(tree, path) == FoldLeft(Subfolder, [tree |-> tree, at |-> << >>], path)

\* The loop over paths of build_from_v1, and over files of build_from_v2; files
\* and symbolic links are added as they come.
AddEntry(tree, entry) ==
  LET walk == MakeFolders(tree, Front(entry.path)) IN
  IF entry.deleted \/ entry.path = << >> THEN tree
  ELSE [walk.tree EXCEPT ![walk.at] = Append(@, Entry(Last(entry.path), entry.kind))]

AddDir(tree, dir) == IF dir.deleted THEN tree ELSE MakeFolders(tree, dir.path).tree

\* sort_all: a stable sort.
Sorted(s) ==
  LET Before(i, j) == \/ Rank[Lower[s[i].name]] < Rank[Lower[s[j].name]]
                      \/ Rank[Lower[s[i].name]] = Rank[Lower[s[j].name]] /\ i < j
      order == SetToSortSeq(DOMAIN s, Before)
  IN [i \in DOMAIN s |-> s[order[i]]]

\* from_manifest, for a manifest of directories and files (none of the former in
\* a manifest of the old version).
FromManifest(dirs, files) ==
  LET tree == FoldLeft(AddEntry, FoldLeft(AddDir, EmptyTree, dirs), files)
  IN [at \in DOMAIN tree |-> Sorted(tree[at])]

\* find_child: the first one.
Children(tree, at, name) == {i \in DOMAIN tree[at] : SameName(tree[at][i].name, name)}

Missing == Entry("none", "missing")

FindChild(tree, at, name) ==
  IF Children(tree, at, name) = {} THEN Missing ELSE tree[at][Min(Children(tree, at, name))]

NoFolder == <<"none">>

\* navigate_to_folder.
Enter(tree, at, name) ==
  LET child == IF at = NoFolder THEN Missing ELSE FindChild(tree, at, name) IN
  IF child.kind = "folder" THEN Append(at, child.name) ELSE NoFolder

Navigate(tree, path) == FoldLeft(LAMBDA at, name : Enter(tree, at, name), << >>, path)

\* is_path_projected.
IsPathProjected(tree, path) ==
  LET parent == Navigate(tree, Front(path)) IN
  IF path = << >> THEN Entry("root", "folder")
  ELSE IF parent = NoFolder THEN Missing ELSE FindChild(tree, parent, Last(path))

\* get_file_info and get_content_hash.
GetFileInfo(tree, path) ==
  IF path # << >> /\ IsPathProjected(tree, path).kind \in {"file", "link"}
    THEN IsPathProjected(tree, path) ELSE Missing

\* query_file_name_cb, get_placeholder_info_cb and get_file_data_cb, while the
\* managers of dirty files and directories have no entry: no callback makes one.
\* A symbolic link gets the placeholder of an empty file.
QueryFileName(tree, path) == IsPathProjected(tree, path) # Missing

Placeholder(tree, path) ==
  IF ~QueryFileName(tree, path) THEN "error"
  ELSE IF IsPathProjected(tree, path).kind = "folder" THEN "folder"
  ELSE IF GetFileInfo(tree, path) = Missing THEN "error" ELSE "file"

FileData(tree, path) ==
  IF GetFileInfo(tree, path).kind = "file" THEN "content" ELSE "error"

\* get_projected_items; the path cache only saves the work.
GetProjectedItems(tree, path) ==
  IF Navigate(tree, path) = NoFolder THEN << >> ELSE tree[Navigate(tree, path)]

-----------------------------------------------------------------------------
(* Enumeration *)

VARIABLES
  projected,  \* the tree
  session,    \* the session: its items, position and filter
  returned    \* the entries the driver has got since it started the scan

listingVars == <<projected, session, returned>>

NoSession == [open |-> FALSE, path |-> << >>, items |-> << >>, index |-> 1,
              filter |-> "none", captured |-> FALSE, ended |-> FALSE]

ListingInit(tree) ==
  /\ projected = tree
  /\ session = NoSession
  /\ returned = << >>

\* start_dir_enum_cb.
StartDirEnum(path) ==
  /\ ~session.open
  /\ session' = [NoSession EXCEPT !.open = TRUE, !.path = path,
                                  !.items = GetProjectedItems(projected, path)]
  /\ returned' = << >>
  /\ UNCHANGED projected

Accepted(items, filter, i) == filter = "none" \/ items[i].name \in Matching[filter]

\* skip_filtered: the first acceptable position from here, or past the end.
Skip(items, filter, i) ==
  Min({j \in i .. Len(items) : Accepted(items, filter, j)} \cup {Len(items) + 1})

\* Mutation: move_next also for the entry that did not fit.
Taken_TooMany(items, filter, start, capacity) ==
  LET position[n \in 0 .. capacity + 1] ==
        IF n = 0 THEN start
        ELSE IF position[n - 1] > Len(items) THEN position[n - 1]
        ELSE Skip(items, filter, position[n - 1] + 1)
  IN [next    |-> position[capacity + 1],
      entries |-> [n \in 1 .. Cardinality({m \in 0 .. capacity - 1 :
                                             position[m] <= Len(items)}) |-> items[position[n - 1]]]]

\* The loop that fills the buffer: the entries that fit and the next position.
Taken(items, filter, start, capacity) ==
  LET position[n \in 0 .. capacity] ==
        IF n = 0 THEN start
        ELSE IF position[n - 1] > Len(items) THEN position[n - 1]
        ELSE Skip(items, filter, position[n - 1] + 1)
  IN [next    |-> position[capacity],
      entries |-> [n \in 1 .. Cardinality({m \in 0 .. capacity - 1 :
                                             position[m] <= Len(items)}) |-> items[position[n - 1]]]]

\* get_dir_enum_cb, with room for so many entries: restart or try_save_filter,
\* then the loop.
GetDirEnum(restart, filter, capacity) ==
  LET fresh == restart \/ ~session.captured
      chosen == IF fresh THEN filter ELSE session.filter
      first  == IF restart THEN Skip(session.items, chosen, 1)
                ELSE IF fresh THEN Skip(session.items, chosen, session.index)
                ELSE session.index
      taken  == Taken(session.items, chosen, first, capacity)
  IN /\ session.open
     /\ session' = [session EXCEPT !.filter = chosen, !.captured = TRUE, !.index = taken.next,
                                   !.ended = taken.entries = << >> /\ first > Len(session.items)]
     /\ returned' = (IF restart THEN << >> ELSE returned) \o taken.entries
     /\ UNCHANGED projected

\* end_dir_enum_cb.
EndDirEnum ==
  /\ session.open
  /\ session' = NoSession /\ returned' = << >>
  /\ UNCHANGED projected

ListingNext(paths, capacities) ==
  \/ \E path \in paths : StartDirEnum(path)
  \/ \E restart \in BOOLEAN, filter \in Filters, capacity \in capacities :
       GetDirEnum(restart, filter, capacity)
  \/ EndDirEnum

-----------------------------------------------------------------------------
(* Properties *)

\* Whatever room each call has and whenever the driver restarts, the entries it
\* has got are the acceptable ones of the folder from the first on, without a
\* gap and none twice, and all of them when a call finds nothing more.
ListingIsExact ==
  LET wanted == SelectSeq(session.items, LAMBDA e : session.filter = "none" \/
                                                    e.name \in Matching[session.filter])
  IN /\ IsPrefix(returned, wanted)
     /\ session.ended => returned = wanted

\* What a folder lists is what a lookup finds there, under any spelling, also
\* when the manifest spells one directory in two ways; ProjFS gets a placeholder
\* of that kind, and a file has content.
ListedIsFound ==
  \A at \in DOMAIN projected : \A i \in DOMAIN projected[at], name \in Names :
    LET entry == projected[at][i]
        path  == Append(at, name)
    IN SameName(name, entry.name) =>
         /\ IsPathProjected(projected, path) = entry
         /\ Placeholder(projected, path) = IF entry.kind = "folder" THEN "folder" ELSE "file"
         /\ entry.kind = "file" => FileData(projected, path) = "content"

\* What is shown as a file can be read.  It does not hold for symbolic links
\* (README, section Divergences).
ShownIsReadable ==
  \A at \in DOMAIN projected : \A i \in DOMAIN projected[at] :
    LET path == Append(at, projected[at][i].name) IN
    Placeholder(projected, path) = "file" => FileData(projected, path) = "content"
=============================================================================
