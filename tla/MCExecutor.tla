----------------------------- MODULE MCExecutor -----------------------------
(* Instances of Executor for TLC. *)
EXTENDS Executor

CallOf(timed, cancellable, fate) ==
  [timed |-> timed, cancellable |-> cancellable, fate |-> fate]

\* One call of each kind that behaves differently: block_on with every fate,
\* and what hangs under block_on_cancellable and block_on_cancellable_timeout.
AllCalls ==
  {CallOf(FALSE, FALSE, f) : f \in Fates} \cup
  {CallOf(t, TRUE, "hangs") : t \in BOOLEAN}

\* What the Windows virtualizer calls.
CancellableCalls == {CallOf(FALSE, TRUE, f) : f \in Fates}

\* Whatever the tasks do, a caller gets an answer, and the ones that can be
\* cancelled get it once cancel_all or the shutdown has run.
CallsEnd == CallsReturn /\ CancelEndsAll

=============================================================================
