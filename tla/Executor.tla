------------------------------ MODULE Executor ------------------------------
(***************************************************************************)
(* The bridge from blocking file-system callbacks to asynchronous work:    *)
(* crates/vfs/src/executor.rs.  A callback wraps its future into a work    *)
(* item with a oneshot channel for the answer, sends the item through a    *)
(* bounded queue to a thread with a runtime of its own, and blocks on the  *)
(* oneshot.  The thread's loop spawns every item as a task; the runtime's  *)
(* workers poll the tasks.  Cancelling the token ends the loop, and with   *)
(* it the runtime and every task that is left.                             *)
(*                                                                         *)
(* The callers are the ones of the Windows virtualizer as well             *)
(* (crates/vfs-projfs), which has the only calls of cancel_all.            *)
(*                                                                         *)
(* Of tokio the model takes what the code relies on: a dropped receiver    *)
(* refuses sends and drops what is queued; a dropped sender answers the    *)
(* oneshot with an error; a runtime that is dropped waits for the polls    *)
(* under way and drops the tasks between two polls; a biased select looks  *)
(* at its branches in order each time it is polled.                        *)
(***************************************************************************)
EXTENDS Naturals, Sequences, FiniteSets

CONSTANTS
  Callers,      \* threads that make calls, one at a time each
  Calls,        \* the calls they make: [timed, cancellable : BOOLEAN, fate]
  QueueSize,    \* config.queue_size
  Workers       \* config.worker_threads

\* What a future does when nothing stops it.
Fates == {"ends", "hangs", "panics"}

ASSUME CallsAssumption ==
  Calls # {} /\ Calls \subseteq [timed : BOOLEAN, cancellable : BOOLEAN, fate : Fates]
ASSUME SizesAssumption == QueueSize \in Nat \ {0} /\ Workers \in Nat \ {0}

VARIABLES
  cancelled,    \* the token
  running,      \* the flag callers look at first
  loop,         \* where the executor's thread is
  queue,        \* the callers whose work items are in the channel
  owner,        \* what has become of the file system that owns the executor
  pc,           \* where each caller is
  call,         \* the call it makes or made last
  task,         \* where the future of that call is
  chan,         \* the oneshot channel of that call
  answer        \* what the last call returned

vars == <<cancelled, running, loop, queue, owner, pc, call, task, chan, answer>>
threadVars == <<running, loop, owner>>

Results == {"Ok", "Timeout", "Cancelled"}

TypeOK ==
  /\ cancelled \in BOOLEAN
  /\ running \in BOOLEAN
  /\ loop \in {"check", "recv", "parked", "left", "dropping", "gone"}
  /\ queue \in Seq(Callers) /\ Len(queue) <= QueueSize
  /\ owner \in {"mounted", "stopped", "joining", "joined"}
  /\ pc \in [Callers -> {"idle", "send", "wait"}]
  /\ call \in [Callers -> Calls]
  /\ task \in [Callers -> {"none", "wrapped", "queued", "ready", "polled"}]
  /\ chan \in [Callers -> {"empty", "dropped"} \cup Results]
  /\ answer \in [Callers -> {"none", "Shutdown"} \cup Results]

Init ==
  /\ cancelled = FALSE
  /\ running = TRUE
  /\ loop = "check"
  /\ queue = <<>>
  /\ owner = "mounted"
  /\ pc = [c \in Callers |-> "idle"]
  /\ call = [c \in Callers |-> CHOOSE k \in Calls : TRUE]
  /\ task = [c \in Callers |-> "none"]
  /\ chan = [c \in Callers |-> "empty"]
  /\ answer = [c \in Callers |-> "none"]

-----------------------------------------------------------------------------
\* A caller.

\* The receiver is dropped when the loop is left.
Closed == loop \in {"left", "dropping", "gone"}

Return(c, a) ==
  /\ pc' = [pc EXCEPT ![c] = "idle"]
  /\ answer' = [answer EXCEPT ![c] = a]

\* block_on and its variants: the flag, then the wrapped future and its channel.
Begin(c) ==
  /\ pc[c] = "idle" /\ owner \in {"mounted", "stopped"}
  /\ \E k \in Calls :
       /\ call' = [call EXCEPT ![c] = k]
       /\ \/ /\ ~running
             /\ answer' = [answer EXCEPT ![c] = "Shutdown"]
             /\ UNCHANGED <<pc, task, chan>>
          \/ /\ running
             /\ pc' = [pc EXCEPT ![c] = "send"]
             /\ task' = [task EXCEPT ![c] = "wrapped"]
             /\ chan' = [chan EXCEPT ![c] = "empty"]
             /\ answer' = [answer EXCEPT ![c] = "none"]
  /\ UNCHANGED <<cancelled, threadVars, queue>>

\* Mutation: the sender does not wait for room.
Send_Unbounded(c) ==
  /\ pc[c] = "send" /\ ~Closed
  /\ queue' = Append(queue, c)
  /\ pc' = [pc EXCEPT ![c] = "wait"]
  /\ task' = [task EXCEPT ![c] = "queued"]
  /\ UNCHANGED <<cancelled, threadVars, call, chan, answer>>

\* blocking_send waits for a free slot.
Send(c) ==
  /\ pc[c] = "send" /\ ~Closed
  /\ Len(queue) < QueueSize
  /\ queue' = Append(queue, c)
  /\ pc' = [pc EXCEPT ![c] = "wait"]
  /\ task' = [task EXCEPT ![c] = "queued"]
  /\ UNCHANGED <<cancelled, threadVars, call, chan, answer>>

\* The item comes back with the error and is dropped, future and all.
SendRefused(c) ==
  /\ pc[c] = "send" /\ Closed
  /\ Return(c, "Shutdown")
  /\ task' = [task EXCEPT ![c] = "none"]
  /\ chan' = [chan EXCEPT ![c] = "dropped"]
  /\ UNCHANGED <<cancelled, threadVars, queue, call>>

\* Mutation: the caller measures the timeout itself.
Receive_Impatient(c) ==
  /\ pc[c] = "wait" /\ (chan[c] # "empty" \/ call[c].timed)
  /\ Return(c, CASE chan[c] = "empty" -> "Timeout"
                 [] chan[c] = "dropped" -> "Shutdown"
                 [] OTHER -> chan[c])
  /\ UNCHANGED <<cancelled, threadVars, queue, call, task, chan>>

\* Mutation: a sender that was dropped is taken for a cancellation.
Receive_DroppedIsCancelled(c) ==
  /\ pc[c] = "wait" /\ chan[c] # "empty"
  /\ Return(c, IF chan[c] = "dropped" THEN "Cancelled" ELSE chan[c])
  /\ UNCHANGED <<cancelled, threadVars, queue, call, task, chan>>

\* blocking_recv on the oneshot.
Receive(c) ==
  /\ pc[c] = "wait" /\ chan[c] # "empty"
  /\ Return(c, IF chan[c] = "dropped" THEN "Shutdown" ELSE chan[c])
  /\ UNCHANGED <<cancelled, threadVars, queue, call, task, chan>>

-----------------------------------------------------------------------------
\* The executor's thread.

\* The first branch of the select: the token.
LoopCheck ==
  /\ loop = "check" /\ ~cancelled
  /\ loop' = "recv"
  /\ UNCHANGED <<cancelled, running, queue, owner, pc, call, task, chan, answer>>

\* Mutation: the select looks at the queue first.
LoopLeave_QueueFirst ==
  /\ loop = "check" /\ cancelled
  /\ \/ /\ queue # <<>>
        /\ task' = [task EXCEPT ![Head(queue)] = "ready"]
        /\ queue' = Tail(queue)
        /\ UNCHANGED loop
     \/ /\ queue = <<>>
        /\ loop' = "left"
        /\ UNCHANGED <<queue, task>>
  /\ UNCHANGED <<cancelled, running, owner, pc, call, chan, answer>>

\* Leaving the loop drops the receiver, the queue and the items in it.
LoopLeave ==
  /\ loop = "check" /\ cancelled
  /\ loop' = "left"
  /\ queue' = <<>>
  /\ task' = [c \in Callers |-> IF task[c] = "queued" THEN "none" ELSE task[c]]
  /\ chan' = [c \in Callers |-> IF task[c] = "queued" THEN "dropped" ELSE chan[c]]
  /\ UNCHANGED <<cancelled, running, owner, pc, call, answer>>

\* The second branch: an item is spawned as a task.
LoopSpawn ==
  /\ loop = "recv" /\ queue # <<>>
  /\ task' = [task EXCEPT ![Head(queue)] = "ready"]
  /\ queue' = Tail(queue)
  /\ loop' = "check"
  /\ UNCHANGED <<cancelled, running, owner, pc, call, chan, answer>>

\* Neither branch is ready.
LoopPark ==
  /\ loop = "recv" /\ queue = <<>>
  /\ loop' = "parked"
  /\ UNCHANGED <<cancelled, running, queue, owner, pc, call, task, chan, answer>>

\* The token or an item wakes the loop, and the select starts over.
LoopWake ==
  /\ loop = "parked" /\ (cancelled \/ queue # <<>>)
  /\ loop' = "check"
  /\ UNCHANGED <<cancelled, running, queue, owner, pc, call, task, chan, answer>>

\* After the loop the thread clears the flag and drops the runtime.
ClearRunning ==
  /\ loop = "left"
  /\ running' = FALSE
  /\ loop' = "dropping"
  /\ UNCHANGED <<cancelled, queue, owner, pc, call, task, chan, answer>>

\* The runtime drops a task that no worker is polling: its future first, then
\* the sender of its channel.
DropTask(c) ==
  /\ loop = "dropping" /\ task[c] = "ready"
  /\ task' = [task EXCEPT ![c] = "none"]
  /\ chan' = [chan EXCEPT ![c] = "dropped"]
  /\ UNCHANGED <<cancelled, threadVars, queue, pc, call, answer>>

ThreadEnds ==
  /\ loop = "dropping"
  /\ \A c \in Callers : task[c] \notin {"ready", "polled"}
  /\ loop' = "gone"
  /\ UNCHANGED <<cancelled, running, queue, owner, pc, call, task, chan, answer>>

-----------------------------------------------------------------------------
\* The tasks, polled by the runtime's workers.

Complete(c, result) ==
  /\ task' = [task EXCEPT ![c] = "none"]
  /\ chan' = [chan EXCEPT ![c] = result]
  /\ UNCHANGED <<cancelled, threadVars, queue, pc, call, answer>>

\* A cancellable future is polled only after the token: its select is biased.
Poll(c) ==
  /\ task[c] = "ready"
  /\ Cardinality({d \in Callers : task[d] = "polled"}) < Workers
  /\ ~(call[c].cancellable /\ cancelled)
  /\ task' = [task EXCEPT ![c] = "polled"]
  /\ UNCHANGED <<cancelled, threadVars, queue, pc, call, chan, answer>>

PollCancelled(c) ==
  /\ task[c] = "ready"
  /\ Cardinality({d \in Callers : task[d] = "polled"}) < Workers
  /\ call[c].cancellable /\ cancelled
  /\ Complete(c, "Cancelled")

\* The future returns Pending, and the timer, if there is one, has not elapsed.
Pending(c) ==
  /\ task[c] = "polled"
  /\ task' = [task EXCEPT ![c] = "ready"]
  /\ UNCHANGED <<cancelled, threadVars, queue, pc, call, chan, answer>>

\* The future is ready, and its value goes through the channel.
Ready(c) ==
  /\ task[c] = "polled" /\ call[c].fate = "ends"
  /\ Complete(c, "Ok")

\* The future is pending when its timer has elapsed.
Elapsed(c) ==
  /\ task[c] = "polled" /\ call[c].timed
  /\ Complete(c, "Timeout")

\* The runtime catches the panic; the future and the sender are dropped.
Panic(c) ==
  /\ task[c] = "polled" /\ call[c].fate = "panics"
  /\ Complete(c, "dropped")

-----------------------------------------------------------------------------
\* The owner.

\* PRJ_CANCEL_COMMAND: the system gives up one command that is under way.
CancelCommand(c) ==
  /\ owner = "mounted" /\ pc[c] # "idle" /\ call[c].cancellable
  /\ cancelled' = TRUE
  /\ UNCHANGED <<threadVars, queue, pc, call, task, chan, answer>>

\* Stopping the virtualization cancels what is under way.
Stop ==
  /\ owner = "mounted"
  /\ cancelled' = TRUE
  /\ owner' = "stopped"
  /\ UNCHANGED <<running, loop, queue, pc, call, task, chan, answer>>

\* Drop, by the last owner: no call borrows the executor any more.
Drop ==
  /\ owner \in {"mounted", "stopped"}
  /\ \A c \in Callers : pc[c] = "idle"
  /\ cancelled' = TRUE
  /\ owner' = "joining"
  /\ UNCHANGED <<running, loop, queue, pc, call, task, chan, answer>>

Join ==
  /\ owner = "joining" /\ loop = "gone"
  /\ owner' = "joined"
  /\ UNCHANGED <<cancelled, running, loop, queue, pc, call, task, chan, answer>>

\* Nothing is left to do.
Done ==
  /\ owner = "joined"
  /\ UNCHANGED vars

-----------------------------------------------------------------------------
Caller(c) == Begin(c) \/ Send(c) \/ SendRefused(c) \/ Receive(c)

Thread ==
  \/ LoopCheck \/ LoopLeave \/ LoopSpawn \/ LoopPark \/ LoopWake
  \/ ClearRunning \/ ThreadEnds

Polled(c) == Pending(c) \/ Ready(c) \/ Elapsed(c) \/ Panic(c)

Next ==
  \/ Thread
  \/ \E c \in Callers : \/ Caller(c) \/ CancelCommand(c)
                        \/ DropTask(c) \/ Poll(c) \/ PollCancelled(c) \/ Polled(c)
  \/ Stop \/ Drop \/ Join \/ Done

Spec == Init /\ [][Next]_vars

\* The operating system runs the threads; the queue's semaphore and the
\* runtime's run queue are first in, first out; a future that ends or panics and
\* a timer do so after finitely many polls.  Nothing obliges a future that hangs
\* to do more than return from its polls.
Fairness ==
  /\ WF_vars(Thread) /\ WF_vars(Join)
  /\ \A c \in Callers :
       /\ SF_vars(Send(c) \/ SendRefused(c) \/ Receive(c))
       /\ SF_vars(Poll(c) \/ PollCancelled(c)) /\ WF_vars(Polled(c))
       /\ SF_vars(Ready(c) \/ Elapsed(c) \/ Panic(c)) /\ SF_vars(DropTask(c))

FairSpec == Spec /\ Fairness

-----------------------------------------------------------------------------
(* Properties *)

\* A call that has returned, with whatever answer, has left no work behind: its
\* future is neither in the queue nor on the runtime.  A callback's buffers are
\* gone when it returns, and the future writes into them.
NoWorkAfterReturn == \A c \in Callers : pc[c] = "idle" => task[c] = "none"

\* An answer says what happened: a value only if the future ended, a timeout
\* only of a call that had one, cancellation only after cancel_all, shutdown
\* only after cancel_all or a panic of the call's own future.
AnswersAreTrue ==
  \A c \in Callers :
    /\ answer[c] = "Ok" => call[c].fate = "ends"
    /\ answer[c] = "Timeout" => call[c].timed
    /\ answer[c] = "Cancelled" => cancelled /\ call[c].cancellable
    /\ answer[c] = "Shutdown" => cancelled \/ call[c].fate = "panics"

\* Every call returns whose future ends, panics or has a timeout, whatever the
\* other callers' futures do and however full the queue is.
CallsReturn ==
  \A c \in Callers :
    pc[c] # "idle" /\ (call[c].timed \/ call[c].fate # "hangs") ~> pc[c] = "idle"

\* Cancellation ends the thread and returns every call, also of futures that
\* hang, and also while callers go on submitting work.
CancelEndsAll ==
  cancelled ~> (loop = "gone" /\ \A c \in Callers : pc[c] = "idle")

\* cancel_all cancels what is under way, at unmount or on a signal: while the
\* file system is mounted no later call is refused.
MountedIsServed ==
  [][\A c \in Callers :
       (pc[c] = "idle" /\ answer'[c] = "Shutdown" /\ answer[c] # "Shutdown")
         => owner # "mounted"]_vars

=============================================================================
