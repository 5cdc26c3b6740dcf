------------------------------ MODULE MCPools ------------------------------
(***************************************************************************)
(* Two callers on one pool, for TLC.  A run is about one of two uses of    *)
(* it: read-only keys whose callers may be cancelled ("readers"), or one   *)
(* read-only and one modified content whose callers are not ("mixed").     *)
(***************************************************************************)
EXTENDS MCMemoryPool

CONSTANTS h1, h2, i1, t1, t2

VARIABLE focus   \* the use made of the pool, chosen at the start

mcvars == <<vars, focus>>

Focuses == {"readers", "mixed"}

Used(k) ==
  CASE focus = "readers" -> k \in HashKeys
    [] focus = "mixed"   -> k[1] # h2

MCInit == Init /\ focus \in Focuses

MCBegin(t) ==
  \/ \E k \in HashKeys : Used(k) /\ (AcquireHit(t, k) \/ AcquireMiss(t, k))
  \/ \E k \in InodeKeys :
       /\ Used(k)
       /\ \/ \E n \in DirtySizes : Insert(t, k, n)
          \/ Modify(t, k) \/ MarkFlushed(t, k) \/ MarkNeedsFlush(t, k)
  \/ \E k \in Keys : Used(k) /\ Get(t, k)
  \/ \E i \in InodeIds : focus = "mixed" /\ RemoveInode(t, i)
  \/ \E h \in HashIds : (focus = "mixed" => h = h1) /\ InvalidateHash(t, h)

MCNext ==
  /\ UNCHANGED focus
  /\ \/ \E t \in Threads : MCBegin(t) \/ Step(t) \/ (focus = "readers" /\ Cancel(t))
     \/ AllIdle

MCSpec == MCInit /\ [][MCNext]_mcvars /\ \A t \in Threads : WF_mcvars(UNCHANGED focus /\ Step(t))

\* What is stated of read-only keys alone: the lengths of modified blocks are
\* charged after they have changed.
ReadersChargedExactly    == focus = "readers" => ChargedExactly
ReadersOvershootBounded  == focus = "readers" => OvershootBounded

\* What is stated of callers that are not cancelled.
MixedPendingHasFetcher   == focus = "mixed" => PendingHasFetcher

\* The bytes charged are those of the blocks, and exceed the limit by no more than
\* the fetches under way; a key that is pending has a caller that fetches it.
ChargesAndFetchesAreOwed ==
  ReadersChargedExactly /\ ReadersOvershootBounded /\ MixedPendingHasFetcher

=============================================================================
