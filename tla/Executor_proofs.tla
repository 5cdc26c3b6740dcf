--------------------------- MODULE Executor_proofs ---------------------------
(***************************************************************************)
(* For every number of callers, queue size, number of workers and mix of   *)
(* calls: a call that has returned leaves no work behind, and its answer   *)
(* is true.                                                                *)
(*                                                                         *)
(* Neither property is inductive.  A call returns when its channel is      *)
(* closed or holds a value, so the invariant says where the future is      *)
(* while the channel is still empty (Lifecycle), that the items in the     *)
(* queue are those of different waiting calls (QueueIsOfWaiting), that the *)
(* thread leaves its loop only after cancellation (LeftIsCancelled), and   *)
(* that what is in a channel is true of the call that waits for it         *)
(* (MessagesAreTrue).                                                      *)
(***************************************************************************)
EXTENDS Executor, TLAPS

Types ==
  /\ cancelled \in BOOLEAN
  /\ queue \in Seq(Callers)
  /\ pc \in [Callers -> {"idle", "send", "wait"}]
  /\ call \in [Callers -> Calls]
  /\ task \in [Callers -> {"none", "wrapped", "queued", "ready", "polled"}]
  /\ chan \in [Callers -> {"empty", "dropped"} \cup Results]
  /\ answer \in [Callers -> {"none", "Shutdown"} \cup Results]

\* Where the future of a call can be.
Lifecycle(c) ==
  /\ pc[c] = "idle" => task[c] = "none"
  /\ pc[c] = "send" => task[c] = "wrapped" /\ chan[c] = "empty"
  /\ pc[c] = "wait" => /\ task[c] # "wrapped"
                       /\ chan[c] # "empty" => task[c] = "none"

QueueIsOfWaiting ==
  /\ \A i \in 1 .. Len(queue) : task[queue[i]] = "queued"
  /\ \A i, j \in 1 .. Len(queue) : queue[i] = queue[j] => i = j

LeftIsCancelled ==
  /\ loop \in {"left", "dropping", "gone"} => cancelled
  /\ ~running => cancelled

MessagesAreTrue(c) ==
  pc[c] = "wait" =>
    /\ chan[c] = "Ok" => call[c].fate = "ends"
    /\ chan[c] = "Timeout" => call[c].timed
    /\ chan[c] = "Cancelled" => cancelled /\ call[c].cancellable
    /\ chan[c] = "dropped" => cancelled \/ call[c].fate = "panics"

AnswerIsTrue(c) ==
  /\ answer[c] = "Ok" => call[c].fate = "ends"
  /\ answer[c] = "Timeout" => call[c].timed
  /\ answer[c] = "Cancelled" => cancelled /\ call[c].cancellable
  /\ answer[c] = "Shutdown" => cancelled \/ call[c].fate = "panics"

IInv ==
  /\ Types
  /\ QueueIsOfWaiting
  /\ LeftIsCancelled
  /\ \A c \in Callers : Lifecycle(c) /\ MessagesAreTrue(c) /\ AnswerIsTrue(c)

-----------------------------------------------------------------------------
\* The initial state.
LEMMA InitIInv == Init => IInv
<1> SUFFICES ASSUME Init PROVE IInv
  OBVIOUS
<1>1. (CHOOSE k \in Calls : TRUE) \in Calls
  BY CallsAssumption
<1>2. Types
  <2>1. queue \in Seq(Callers)
    BY DEF Init
  <2>2. call \in [Callers -> Calls]
    BY <1>1 DEF Init
  <2> QED
    BY <2>1, <2>2 DEF Init, Types, Results
<1>3. QueueIsOfWaiting /\ LeftIsCancelled
  BY DEF Init, QueueIsOfWaiting, LeftIsCancelled
<1>4. \A c \in Callers : Lifecycle(c) /\ MessagesAreTrue(c) /\ AnswerIsTrue(c)
  BY DEF Init, Lifecycle, MessagesAreTrue, AnswerIsTrue
<1> QED
  BY <1>2, <1>3, <1>4 DEF IInv

\* An end of the queue: appending a call that is not in it, and taking the first.
LEMMA AppendKeepsDistinct ==
  ASSUME NEW S, NEW q \in Seq(S), NEW x \in S,
         \A i, j \in 1 .. Len(q) : q[i] = q[j] => i = j,
         \A i \in 1 .. Len(q) : q[i] # x
  PROVE  \A i, j \in 1 .. Len(Append(q, x)) : Append(q, x)[i] = Append(q, x)[j] => i = j
  OBVIOUS

LEMMA TailKeepsDistinct ==
  ASSUME NEW S, NEW q \in Seq(S), q # <<>>,
         \A i, j \in 1 .. Len(q) : q[i] = q[j] => i = j
  PROVE  /\ Head(q) \in S /\ Tail(q) \in Seq(S)
         /\ \A i, j \in 1 .. Len(Tail(q)) : Tail(q)[i] = Tail(q)[j] => i = j
         /\ \A i \in 1 .. Len(Tail(q)) :
              /\ Tail(q)[i] # Head(q)
              /\ i + 1 \in 1 .. Len(q) /\ Tail(q)[i] = q[i + 1]
  OBVIOUS

-----------------------------------------------------------------------------
\* Every step.  The actions are grouped by what they leave alone.

\* What is true of a call stays true when only the thread, the token or the
\* owner moves on.
LEMMA ThreadStep ==
  ASSUME IInv, UNCHANGED <<queue, pc, call, task, chan, answer>>,
         cancelled' \in BOOLEAN, cancelled => cancelled', LeftIsCancelled'
  PROVE  IInv'
<1>1. Types' /\ QueueIsOfWaiting'
  BY DEF IInv, Types, QueueIsOfWaiting
<1>2. ASSUME NEW c \in Callers PROVE (Lifecycle(c) /\ MessagesAreTrue(c) /\ AnswerIsTrue(c))'
  <2>1. Lifecycle(c) /\ MessagesAreTrue(c) /\ AnswerIsTrue(c)
    BY DEF IInv
  <2> QED
    BY <2>1 DEF Lifecycle, MessagesAreTrue, AnswerIsTrue
<1> QED
  BY <1>1, <1>2 DEF IInv

\* A task that is not in the queue moves between the runtime's states, or ends
\* with a message that is true of its call.
LEMMA TaskStep ==
  ASSUME IInv, NEW c \in Callers, task[c] \in {"ready", "polled"},
         UNCHANGED <<cancelled, threadVars, queue, pc, call, answer>>,
         NEW t \in {"none", "ready", "polled"}, NEW m \in {"empty", "dropped"} \cup Results,
         task' = [task EXCEPT ![c] = t],
         \/ chan' = chan /\ t # "none"
         \/ /\ chan' = [chan EXCEPT ![c] = m] /\ t = "none"
            /\ m = "Ok" => call[c].fate = "ends"
            /\ m = "Timeout" => call[c].timed
            /\ m = "Cancelled" => cancelled /\ call[c].cancellable
            /\ m = "dropped" => cancelled \/ call[c].fate = "panics"
  PROVE  IInv'
<1>1. Types'
  BY DEF IInv, Types
<1>2. QueueIsOfWaiting' /\ LeftIsCancelled'
  <2>1. \A i \in 1 .. Len(queue) : queue[i] \in Callers
    BY DEF IInv, Types
  <2> QED
    BY <2>1 DEF IInv, Types, QueueIsOfWaiting, LeftIsCancelled, threadVars
<1>3. ASSUME NEW d \in Callers PROVE (Lifecycle(d) /\ MessagesAreTrue(d) /\ AnswerIsTrue(d))'
  <2>1. Lifecycle(d) /\ MessagesAreTrue(d) /\ AnswerIsTrue(d)
    BY DEF IInv
  <2>2. CASE d = c
    <3>1. pc[c] = "wait" /\ chan[c] = "empty"
      BY <2>1, <2>2 DEF IInv, Types, Lifecycle
    <3> QED
      BY <2>1, <2>2, <3>1 DEF IInv, Types, Lifecycle, MessagesAreTrue, AnswerIsTrue
  <2>3. CASE d # c
    BY <2>1, <2>3 DEF IInv, Types, Lifecycle, MessagesAreTrue, AnswerIsTrue
  <2> QED
    BY <2>2, <2>3
<1> QED
  BY <1>1, <1>2, <1>3 DEF IInv

LEMMA CallerStep ==
  ASSUME IInv, NEW c \in Callers, Caller(c)
  PROVE  IInv'
<1> USE DEF IInv
<1>0. \A i \in 1 .. Len(queue) : queue[i] \in Callers
  BY DEF Types
<1>1. CASE Begin(c)
  <2>1. pc[c] = "idle" /\ task[c] = "none"
    BY <1>1 DEF Begin, Lifecycle
  <2>2. Types'
    BY <1>1 DEF Begin, Types
  <2>3. QueueIsOfWaiting' /\ LeftIsCancelled'
    BY <1>0, <1>1, <2>1 DEF Begin, Types, QueueIsOfWaiting, LeftIsCancelled, threadVars
  <2>4. ASSUME NEW d \in Callers PROVE (Lifecycle(d) /\ MessagesAreTrue(d) /\ AnswerIsTrue(d))'
    BY <1>1, <2>1 DEF Begin, Types, Lifecycle, MessagesAreTrue, AnswerIsTrue, LeftIsCancelled
  <2> QED
    BY <2>2, <2>3, <2>4
<1>2. CASE Send(c)
  <2>1. pc[c] = "send" /\ task[c] = "wrapped" /\ chan[c] = "empty"
    BY <1>2 DEF Send, Lifecycle
  <2>2. Types'
    BY <1>2 DEF Send, Types
  <2>3. QueueIsOfWaiting'
    <3>1. \A i \in 1 .. Len(queue) : queue[i] # c
      BY <2>1 DEF QueueIsOfWaiting
    <3>2. \A i, j \in 1 .. Len(queue') : queue'[i] = queue'[j] => i = j
      BY <1>2, <3>1, AppendKeepsDistinct DEF Send, Types, QueueIsOfWaiting
    <3>3. \A i \in 1 .. Len(queue') : task'[queue'[i]] = "queued"
      BY <1>0, <1>2 DEF Send, Types, QueueIsOfWaiting
    <3> QED
      BY <3>2, <3>3 DEF QueueIsOfWaiting
  <2>4. LeftIsCancelled'
    BY <1>2 DEF Send, LeftIsCancelled, threadVars
  <2>5. ASSUME NEW d \in Callers PROVE (Lifecycle(d) /\ MessagesAreTrue(d) /\ AnswerIsTrue(d))'
    BY <1>2, <2>1 DEF Send, Types, Lifecycle, MessagesAreTrue, AnswerIsTrue
  <2> QED
    BY <2>2, <2>3, <2>4, <2>5
<1>3. CASE SendRefused(c)
  <2>1. pc[c] = "send" /\ task[c] = "wrapped"
    BY <1>3 DEF SendRefused, Lifecycle
  <2>2. cancelled
    BY <1>3 DEF SendRefused, Closed, LeftIsCancelled
  <2>3. Types'
    BY <1>3 DEF SendRefused, Return, Types
  <2>4. QueueIsOfWaiting' /\ LeftIsCancelled'
    BY <1>0, <1>3, <2>1 DEF SendRefused, Types, QueueIsOfWaiting, LeftIsCancelled, threadVars
  <2>5. ASSUME NEW d \in Callers PROVE (Lifecycle(d) /\ MessagesAreTrue(d) /\ AnswerIsTrue(d))'
    BY <1>3, <2>2 DEF SendRefused, Return, Types, Lifecycle, MessagesAreTrue, AnswerIsTrue
  <2> QED
    BY <2>3, <2>4, <2>5
<1>4. CASE Receive(c)
  <2>1. pc[c] = "wait" /\ chan[c] # "empty" /\ task[c] = "none"
    BY <1>4 DEF Receive, Lifecycle
  <2>2. Types'
    BY <1>4 DEF Receive, Return, Types
  <2>3. QueueIsOfWaiting' /\ LeftIsCancelled'
    BY <1>4 DEF Receive, QueueIsOfWaiting, LeftIsCancelled, threadVars
  <2>4. ASSUME NEW d \in Callers PROVE (Lifecycle(d) /\ MessagesAreTrue(d) /\ AnswerIsTrue(d))'
    BY <1>4, <2>1 DEF Receive, Return, Types, Results, Lifecycle, MessagesAreTrue, AnswerIsTrue
  <2> QED
    BY <2>2, <2>3, <2>4
<1> QED
  BY <1>1, <1>2, <1>3, <1>4 DEF Caller

\* The thread takes an item, or leaves the loop and drops them all.
LEMMA SpawnStep ==
  ASSUME IInv, LoopSpawn
  PROVE  IInv'
<1> USE DEF IInv
<1> DEFINE h == Head(queue)
<1>1. /\ h \in Callers /\ Tail(queue) \in Seq(Callers)
      /\ \A i, j \in 1 .. Len(Tail(queue)) : Tail(queue)[i] = Tail(queue)[j] => i = j
      /\ \A i \in 1 .. Len(Tail(queue)) :
           /\ Tail(queue)[i] # h
           /\ i + 1 \in 1 .. Len(queue) /\ Tail(queue)[i] = queue[i + 1]
  BY TailKeepsDistinct DEF LoopSpawn, Types, QueueIsOfWaiting
<1>2. task[h] = "queued"
  <2>1. 1 \in 1 .. Len(queue) /\ h = queue[1]
    BY DEF LoopSpawn, Types
  <2> QED
    BY <2>1 DEF QueueIsOfWaiting
<1>3. queue' = Tail(queue) /\ task' = [task EXCEPT ![h] = "ready"]
  BY DEF LoopSpawn
<1> HIDE DEF h
<1>4. Types'
  BY <1>1, <1>3 DEF LoopSpawn, Types
<1>5. QueueIsOfWaiting'
  <2>1. ASSUME NEW i \in 1 .. Len(queue') PROVE task'[queue'[i]] = "queued"
    <3>1. queue'[i] # h /\ queue'[i] = queue[i + 1] /\ i + 1 \in 1 .. Len(queue)
      BY <1>1, <1>3
    <3>2. task[queue'[i]] = "queued"
      BY <3>1 DEF QueueIsOfWaiting
    <3>3. queue'[i] \in Callers
      BY <3>1 DEF Types
    <3> QED
      BY <1>3, <3>1, <3>2, <3>3 DEF Types
  <2> QED
    BY <1>1, <1>3, <2>1 DEF QueueIsOfWaiting
<1>6. LeftIsCancelled'
  BY DEF LoopSpawn, LeftIsCancelled
<1>7. ASSUME NEW d \in Callers PROVE (Lifecycle(d) /\ MessagesAreTrue(d) /\ AnswerIsTrue(d))'
  BY <1>1, <1>2, <1>3 DEF LoopSpawn, Types, Lifecycle, MessagesAreTrue, AnswerIsTrue
<1> QED
  BY <1>4, <1>5, <1>6, <1>7

LEMMA LeaveStep ==
  ASSUME IInv, LoopLeave
  PROVE  IInv'
<1> USE DEF IInv
<1>1. Types'
  BY DEF LoopLeave, Types
<1>2. QueueIsOfWaiting' /\ LeftIsCancelled'
  BY DEF LoopLeave, QueueIsOfWaiting, LeftIsCancelled
<1>3. ASSUME NEW d \in Callers PROVE (Lifecycle(d) /\ MessagesAreTrue(d) /\ AnswerIsTrue(d))'
  BY DEF LoopLeave, Types, Lifecycle, MessagesAreTrue, AnswerIsTrue
<1> QED
  BY <1>1, <1>2, <1>3

LEMMA RuntimeStep ==
  ASSUME IInv, NEW c \in Callers,
         DropTask(c) \/ Poll(c) \/ PollCancelled(c) \/ Polled(c)
  PROVE  IInv'
<1>1. CASE DropTask(c)
  <2>1. cancelled
    BY <1>1 DEF DropTask, IInv, LeftIsCancelled
  <2> QED
    BY <1>1, <2>1, TaskStep DEF DropTask
<1>2. CASE Poll(c)
  BY <1>2, TaskStep DEF Poll
<1>3. CASE PollCancelled(c)
  BY <1>3, TaskStep DEF PollCancelled, Complete, Results
<1>4. CASE Pending(c)
  BY <1>4, TaskStep DEF Pending
<1>5. CASE Ready(c)
  BY <1>5, TaskStep DEF Ready, Complete, Results
<1>6. CASE Elapsed(c)
  BY <1>6, TaskStep DEF Elapsed, Complete, Results
<1>7. CASE Panic(c)
  BY <1>7, TaskStep DEF Panic, Complete
<1> QED
  BY <1>1, <1>2, <1>3, <1>4, <1>5, <1>6, <1>7 DEF Polled

LEMMA NextIInv == IInv /\ [Next]_vars => IInv'
<1> SUFFICES ASSUME IInv, [Next]_vars PROVE IInv'
  OBVIOUS
<1>0. cancelled \in BOOLEAN /\ LeftIsCancelled
  BY DEF IInv, Types
<1>1. CASE \E c \in Callers : Caller(c)
  BY <1>1, CallerStep
<1>2. CASE \E c \in Callers : DropTask(c) \/ Poll(c) \/ PollCancelled(c) \/ Polled(c)
  BY <1>2, RuntimeStep
<1>3. CASE LoopSpawn
  BY <1>3, SpawnStep
<1>4. CASE LoopLeave
  BY <1>4, LeaveStep
<1>5. CASE LoopCheck \/ LoopPark \/ LoopWake \/ ClearRunning \/ ThreadEnds \/ Join
  <2>1. UNCHANGED <<cancelled, queue, pc, call, task, chan, answer>>
    BY <1>5 DEF LoopCheck, LoopPark, LoopWake, ClearRunning, ThreadEnds, Join
  <2>2. LeftIsCancelled'
    BY <1>0, <1>5 DEF LoopCheck, LoopPark, LoopWake, ClearRunning, ThreadEnds, Join, LeftIsCancelled
  <2> QED
    BY <1>0, <2>1, <2>2, ThreadStep
<1>6. CASE Stop \/ Drop \/ \E c \in Callers : CancelCommand(c)
  <2>1. cancelled' /\ UNCHANGED <<queue, pc, call, task, chan, answer>>
    BY <1>6 DEF Stop, Drop, CancelCommand
  <2>2. cancelled' = TRUE
    BY <1>6 DEF Stop, Drop, CancelCommand
  <2> QED
    BY <2>1, <2>2, ThreadStep DEF LeftIsCancelled
<1>7. CASE Done \/ UNCHANGED vars
  BY <1>0, <1>7, ThreadStep DEF Done, vars, LeftIsCancelled
<1> QED
  BY <1>1, <1>2, <1>3, <1>4, <1>5, <1>6, <1>7 DEF Next, Thread

-----------------------------------------------------------------------------
\* The buffers a future writes into outlive it: when a call has returned, with
\* whatever answer, its future is gone.
THEOREM WorkEnds == Spec => []NoWorkAfterReturn
<1>1. IInv => NoWorkAfterReturn
  BY DEF IInv, Lifecycle, NoWorkAfterReturn
<1> QED
  BY InitIInv, NextIInv, <1>1, PTL DEF Spec

\* What block_on and its variants return is what happened to the future and to
\* the token.
THEOREM AnswersCorrect == Spec => []AnswersAreTrue
<1>1. IInv => AnswersAreTrue
  BY DEF IInv, AnswerIsTrue, AnswersAreTrue
<1> QED
  BY InitIInv, NextIInv, <1>1, PTL DEF Spec

-----------------------------------------------------------------------------
\* What IInv leaves out of TypeOK: the thread, the owner and the queue's length.
ThreadTypes ==
  /\ running \in BOOLEAN
  /\ loop \in {"check", "recv", "parked", "left", "dropping", "gone"}
  /\ owner \in {"mounted", "stopped", "joining", "joined"}
  /\ Len(queue) <= QueueSize

LEMMA NextThreadTypes == IInv /\ ThreadTypes /\ [Next]_vars => ThreadTypes'
<1> SUFFICES ASSUME IInv, ThreadTypes, [Next]_vars PROVE ThreadTypes'
  OBVIOUS
<1>0. queue \in Seq(Callers) /\ QueueSize \in Nat
  BY SizesAssumption DEF IInv, Types
<1>1. CASE Thread
  <2>1. CASE LoopSpawn
    <3>1. Len(queue') \in Nat /\ Len(queue') <= Len(queue)
      BY <1>0, <2>1 DEF LoopSpawn
    <3>2. Len(queue) \in Nat
      BY <1>0
    <3> QED
      BY <1>0, <2>1, <3>1, <3>2 DEF LoopSpawn, ThreadTypes
  <2>2. CASE LoopLeave
    <3>1. Len(queue') = 0
      BY <2>2 DEF LoopLeave
    <3> QED
      BY <1>0, <2>2, <3>1 DEF LoopLeave, ThreadTypes
  <2>3. CASE LoopCheck \/ LoopPark \/ LoopWake \/ ClearRunning \/ ThreadEnds
    BY <2>3 DEF ThreadTypes, LoopCheck, LoopPark, LoopWake, ClearRunning, ThreadEnds
  <2> QED
    BY <1>1, <2>1, <2>2, <2>3 DEF Thread
<1>2. ASSUME NEW c \in Callers, Caller(c) PROVE ThreadTypes'
  <2>1. CASE Send(c)
    <3>1. Len(queue') = Len(queue) + 1
      BY <1>0, <2>1 DEF Send
    <3>2. Len(queue) \in Nat
      BY <1>0
    <3> QED
      BY <1>0, <2>1, <3>1, <3>2 DEF Send, ThreadTypes, threadVars
  <2>2. CASE Begin(c) \/ SendRefused(c) \/ Receive(c)
    <3>1. UNCHANGED <<threadVars, queue>>
      BY <2>2 DEF Begin, SendRefused, Receive
    <3> QED
      BY <3>1 DEF ThreadTypes, threadVars
  <2> QED
    BY <1>2, <2>1, <2>2 DEF Caller
<1>3. ASSUME NEW c \in Callers,
             CancelCommand(c) \/ DropTask(c) \/ Poll(c) \/ PollCancelled(c) \/ Polled(c)
      PROVE  ThreadTypes'
  BY <1>3 DEF ThreadTypes, CancelCommand, DropTask, Poll, PollCancelled, Polled, Pending,
    Ready, Elapsed, Panic, Complete, threadVars
<1>4. CASE Stop \/ Drop \/ Join \/ Done \/ UNCHANGED vars
  BY <1>4 DEF ThreadTypes, Stop, Drop, Join, Done, vars
<1> QED
  BY <1>1, <1>2, <1>3, <1>4 DEF Next

\* The queue never holds more items than the channel has room for, and every
\* message, answer and state is one of those the code has.
THEOREM ExecutorTypeCorrect == Spec => []TypeOK
<1>1. Init => ThreadTypes
  BY SizesAssumption DEF Init, ThreadTypes
<1>2. IInv /\ ThreadTypes => TypeOK
  BY DEF IInv, Types, ThreadTypes, TypeOK
<1> QED
  BY InitIInv, NextIInv, NextThreadTypes, <1>1, <1>2, PTL DEF Spec

=============================================================================
