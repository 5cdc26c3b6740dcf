----------------------------- MODULE MCSnapshots -----------------------------
(***************************************************************************)
(* A directory with a subdirectory, a sibling whose name it begins, and a  *)
(* directory whose name looks like a reference.                            *)
(***************************************************************************)
EXTENDS Scanner, TLC

Names     == {<<"a", "ab">>}
Refs      == <<"$0", "$1", "$2", "$3", "$4", "$5">>
Texts     == [in |-> <<"a", "x">>, up |-> <<"..", "o">>, out |-> <<"..", "s", "o">>]
Tracked   == {<<"a">>, <<"ab">>, <<"a", "x">>, <<"$1">>, <<"$1", "x">>, <<"l">>}
Sizes     == [c |-> 1, d |-> 1, big |-> 2]
Patterns  == {Tracked, Tracked \ {<<"a">>}}

File(content) == [kind |-> "file", content |-> content, mtime |-> 1, runnable |-> FALSE]
LinkTo(target) == [kind |-> "link", content |-> target, mtime |-> 1, runnable |-> FALSE]
Nowhere == [p \in Tracked |-> Nothing]

Trees == {
  [Nowhere EXCEPT ![<<"a">>] = Folder, ![<<"a", "x">>] = File("c"), ![<<"$1">>] = Folder,
                  ![<<"$1", "x">>] = File("d")],
  [Nowhere EXCEPT ![<<"a">>] = File("big"), ![<<"l">>] = LinkTo("in"), ![<<"$1">>] = LinkTo("out")],
  [Nowhere EXCEPT ![<<"a">>] = Folder, ![<<"ab">>] = File("c"), ![<<"l">>] = LinkTo("up")]}

Init == ScannerInit(Trees)
Next == ScannerNext
Spec == Init /\ [][Next]_scanVars

\* A snapshot is the tree that was scanned, and the manifests built are valid.
SnapshotsAreTrees == ScannerTypeOK /\ SnapshotIsTree /\ BuiltIsValid

\* The diff of two snapshots leads from the first tree to the second.
DiffsLeadOver == DiffMakesTree /\ DiffLeadsOver

\* Encoding, merging and partitioning lose no entry and invent none.
OperationsKeepFiles == EncodingKeeps /\ MergeIsCompose /\ PartitionKeepsFiles

=============================================================================
