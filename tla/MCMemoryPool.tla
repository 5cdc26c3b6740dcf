---------------------------- MODULE MCMemoryPool ----------------------------
(* Instances of MemoryPool for TLC, and the properties that add sizes up. *)
EXTENDS MemoryPool, FiniteSetsExt, TLC

Symmetry == Permutations(Threads)

\* The sum of the lengths of some blocks.
SizeOf(B) == MapThenSumSet(LAMBDA b : obj[b].size, B)

At(points) == {loc[t].id : t \in {u \in Threads : pc[u] \in points}}

\* current_size is the length of the blocks in the pool, of those allocated and
\* not yet inserted, and of those removed and not yet discounted.
ChargedExactly ==
  current_size = SizeOf(blocks \cup At({"insert_block", "remove_index", "remove_lru"}))

\* Between calls the queue holds the blocks of the pool and nothing else, and
\* current_size is their length.
BooksBalance ==
  (\A t \in Threads : pc[t] \in {"idle", "holding"}) =>
    /\ {lru_order[i] : i \in 1 .. Len(lru_order)} = blocks
    /\ Len(lru_order) = Cardinality(blocks)
    /\ current_size = SizeOf(blocks)

=============================================================================
