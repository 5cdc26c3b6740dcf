------------------------------ MODULE MCProjFs ------------------------------
(***************************************************************************)
(* The projection and the callbacks.  An enumeration works on a snapshot   *)
(* of the projection, which nothing changes, so that its steps and those   *)
(* of the other callbacks are explored one kind at a time: see focus.      *)
(***************************************************************************)
EXTENDS ProjFs, TLC

CONSTANTS t1, t2, f1, f2, f3, d1

VARIABLES
  focus,  \* bound: "changes" or "listings"
  projected, session, returned

Names    == {"a", "A", "b", "c"}
Lower    == [n \in Names |-> IF n = "A" THEN "a" ELSE n]
Rank     == [a |-> 1, A |-> 1, b |-> 2, c |-> 3]
Filters  == {"none", "any", "not b"}
Matching == [none |-> {}, any |-> Names] @@ ("not b" :> Names \ {"b"})

Listing == INSTANCE Projection

ASSUME ListingAssumption == Listing!ProjectionAssumption

listingVars == <<projected, session, returned>>
vars == <<projVars, focus, listingVars>>

\* Valid manifests in which a directory comes in two spellings; b is a file or a
\* link, and an entry is deleted.
Item(path, kind, deleted) == [path |-> path, kind |-> kind, deleted |-> deleted]
Trees == {Listing!FromManifest(dirs, <<first, second, third, Item(<<"c">>, "file", TRUE)>>) :
            dirs   \in {<< >>, <<Item(<<"A">>, "folder", FALSE)>>,
                        <<Item(<<"a">>, "folder", TRUE), Item(<<"c">>, "folder", FALSE)>>},
            first  \in {Item(<<d, "b">>, "file", FALSE) : d \in {"a", "A"}},
            second \in {Item(<<d, "c">>, "file", FALSE) : d \in {"a", "A"}},
            third  \in {Item(<<"b">>, kind, FALSE) : kind \in {"file", "link"}}}

Folders == {<< >>, <<"a">>, <<"A">>, <<"c">>, <<"b", "c">>}

Init ==
  /\ ProjInit
  /\ \/ focus = "listings" /\ \E tree \in Trees : Listing!ListingInit(tree)
     \/ focus = "changes"  /\ Listing!ListingInit(Listing!EmptyTree)

\* t1 and t2 have a file each and share one.
OwnedPaths == [t \in Threads |-> IF t = t1 THEN {f1, f3, d1} ELSE {f2, f3}]

Next ==
  /\ UNCHANGED focus
  /\ \/ focus = "changes" /\ ProjNext /\ UNCHANGED listingVars
     \/ focus = "listings" /\ Listing!ListingNext(Folders, 0 .. 2) /\ UNCHANGED projVars

Spec == Init /\ [][Next]_vars /\ ProjFairness

ListingIsExact == Listing!ListingIsExact
ListedIsFound  == Listing!ListedIsFound

\* An enumeration returns what is in the folder, and the lookups find it.
ListingsAgree == ListingIsExact /\ ListedIsFound

=============================================================================
