---------------------------- MODULE UploadAgent ----------------------------
(***************************************************************************)
(* The upload agent of relaxed consistency (utils/upload_agent.py): it     *)
(* takes requests from two SQS queues, uploads the file they name to the   *)
(* content-addressed store and leaves a marker for the file.               *)
(*                                                                         *)
(* A step is one call of SQS, one of S3 or one access to the local file.   *)
(* A standard queue delivers a message again when its visibility timeout   *)
(* passes before it is deleted.  An exception ends the agent's process,    *)
(* as a crash does; it is then started again.                              *)
(***************************************************************************)
EXTENDS Naturals, FiniteSets

CONSTANTS
  Agents,       \* processes that serve the same queues
  Files,        \* (root, relative path) pairs
  Serves,       \* agent -> the files below its LOCAL locations
  Initial,      \* file -> its content at first
  MaxMessages,  \* bound: messages sent
  MaxFaults     \* bound: crashes of agents and changes of local files

Queues   == {"high", "async"}
Contents == {"old", "new"}
\* A directory at the place of a file is for the agent as no file.
Places   == Contents \cup {"absent"}

ASSUME AgentAssumption ==
  /\ Serves \in [Agents -> SUBSET Files] /\ Initial \in [Files -> Places]
  /\ MaxMessages \in Nat /\ MaxFaults \in Nat

\* What a hash identifies: different contents have different hashes.
HashOf(content) == content

VARIABLES
  message,  \* SQS: id -> [queue, file, valid, state]
  sent,     \* messages sent so far
  file,     \* the local files
  cas,      \* S3, Data/: hash -> the content stored under it
  marker,   \* S3, PendingUploads/: file -> the marker
  agent,    \* agent -> where it is, the message, and what it read
  faults    \* crashes and changes so far

agentVars == <<message, sent, file, cas, marker, agent, faults>>

NoMarker == [status |-> "none", hash |-> "none"]
Markers  == {NoMarker, [status |-> "failed", hash |-> "none"]} \cup
            [status : {"completed"}, hash : Contents]

Start == [at |-> "poll_high", msg |-> 0, hash |-> "none"]

AgentInit ==
  /\ message = << >> /\ sent = 0
  /\ file = Initial
  /\ cas = [h \in Contents |-> "none"]
  /\ marker = [f \in Files |-> NoMarker]
  /\ agent = [a \in Agents |-> Start]
  /\ faults = 0

\* A request is sent; valid ones carry the fields process_message needs.
Send(f, queue, valid) ==
  /\ sent < MaxMessages
  /\ sent' = sent + 1
  /\ message' = [m \in 1 .. sent + 1 |->
                   IF m <= sent THEN message[m]
                   ELSE [queue |-> queue, file |-> f, valid |-> valid, state |-> "visible"]]
  /\ UNCHANGED <<file, cas, marker, agent, faults>>

Goto(a, at) == agent' = [agent EXCEPT ![a].at = at]

Visible(queue) == {m \in 1 .. sent : message[m].queue = queue /\ message[m].state = "visible"}

\* Mutation: the low-priority queue is never polled.
OtherQueue_High(queue) == "poll_high"

OtherQueue(queue) == IF queue = "high" THEN "poll_async" ELSE "poll_high"

PollPoint(queue) == IF queue = "high" THEN "poll_high" ELSE "poll_async"

\* receive_message, at most one; a message whose body cannot be used is left in
\* the queue.  After a high-priority message that was processed the agent looks
\* for another one, after none or a failed one at the other queue.
Receive(a, queue, m) ==
  /\ agent[a].at = PollPoint(queue) /\ m \in Visible(queue)
  /\ message' = [message EXCEPT ![m].state = "taken"]
  /\ agent' = [agent EXCEPT ![a].msg = m, ![a].at =
       IF message[m].valid THEN "check" ELSE OtherQueue(queue)]
  /\ UNCHANGED <<sent, file, cas, marker, faults>>

ReceiveNone(a, queue) ==
  /\ agent[a].at = PollPoint(queue) /\ Visible(queue) = {}
  /\ Goto(a, OtherQueue(queue))
  /\ UNCHANGED <<message, sent, file, cas, marker, faults>>

\* The visibility timeout passes, also while the message is being processed: the
\* extension for large files is an estimate.
Reappear(m) ==
  /\ m \in 1 .. sent /\ message[m].state = "taken"
  /\ message' = [message EXCEPT ![m].state = "visible"]
  /\ UNCHANGED <<sent, file, cas, marker, agent, faults>>

FileOf(a) == message[agent[a].msg].file

\* A marker, of whatever status, ends the request; otherwise the agent goes on
\* if it serves the root.
CheckMarker(a) ==
  /\ agent[a].at = "check"
  /\ Goto(a, IF marker[FileOf(a)] # NoMarker THEN "delete"
             ELSE IF FileOf(a) \in Serves[a] THEN "look" ELSE "fail")
  /\ UNCHANGED <<message, sent, file, cas, marker, faults>>

LookAtFile(a) ==
  /\ agent[a].at = "look"
  /\ Goto(a, IF file[FileOf(a)] \in Contents THEN "hash" ELSE "fail")
  /\ UNCHANGED <<message, sent, file, cas, marker, faults>>

WriteFailure(a) ==
  /\ agent[a].at = "fail"
  /\ marker' = [marker EXCEPT ![FileOf(a)] = [status |-> "failed", hash |-> "none"]]
  /\ Goto(a, "delete")
  /\ UNCHANGED <<message, sent, file, cas, faults>>

\* A file that is gone when it is opened raises an exception.
Hash(a) ==
  /\ agent[a].at = "hash"
  /\ agent' = IF file[FileOf(a)] \in Contents
              THEN [agent EXCEPT ![a].hash = HashOf(file[FileOf(a)]), ![a].at = "head_cas"]
              ELSE [agent EXCEPT ![a] = Start]
  /\ UNCHANGED <<message, sent, file, cas, marker, faults>>

\* Mutation: the marker is written before the upload.
AfterHash_MarkerFirst(a) == "mark"

AfterHash(a) == IF cas[agent[a].hash] # "none" THEN "mark" ELSE "upload"

HeadCas(a) ==
  /\ agent[a].at = "head_cas"
  /\ Goto(a, AfterHash(a))
  /\ UNCHANGED <<message, sent, file, cas, marker, faults>>

\* upload_file reads the file again.
Upload(a) ==
  /\ agent[a].at = "upload"
  /\ IF file[FileOf(a)] \in Contents
       THEN /\ cas' = [cas EXCEPT ![agent[a].hash] = file[FileOf(a)]]
            /\ Goto(a, "mark")
       ELSE /\ agent' = [agent EXCEPT ![a] = Start]
            /\ UNCHANGED cas
  /\ UNCHANGED <<message, sent, file, marker, faults>>

WriteCompletion(a) ==
  /\ agent[a].at = "mark"
  /\ marker' = [marker EXCEPT ![FileOf(a)] =
                  [status |-> "completed", hash |-> agent[a].hash]]
  /\ Goto(a, "delete")
  /\ UNCHANGED <<message, sent, file, cas, faults>>

\* delete_message, and the next poll.
Delete(a) ==
  LET m == agent[a].msg IN
  /\ agent[a].at = "delete"
  /\ message' = [message EXCEPT ![m].state = "deleted"]
  /\ agent' = [agent EXCEPT ![a] = Start]
  /\ UNCHANGED <<sent, file, cas, marker, faults>>

\* The process ends, or S3 or SQS answers with an error that nobody catches.
Crash(a) ==
  /\ faults < MaxFaults
  /\ agent[a] # Start
  /\ faults' = faults + 1
  /\ agent' = [agent EXCEPT ![a] = Start]
  /\ UNCHANGED <<message, sent, file, cas, marker>>

\* Somebody changes a local file.
Edit(f, content) ==
  /\ faults < MaxFaults /\ file[f] # content
  /\ faults' = faults + 1
  /\ file' = [file EXCEPT ![f] = content]
  /\ UNCHANGED <<message, sent, cas, marker, agent>>

Work(a) ==
  \/ \E queue \in Queues : \/ ReceiveNone(a, queue)
                          \/ \E m \in 1 .. sent : Receive(a, queue, m)
  \/ CheckMarker(a) \/ LookAtFile(a) \/ WriteFailure(a) \/ Hash(a) \/ HeadCas(a)
  \/ Upload(a) \/ WriteCompletion(a) \/ Delete(a)

AgentNext ==
  \/ \E a \in Agents : Work(a) \/ Crash(a)
  \/ \E m \in 1 .. sent : Reappear(m)
  \/ \E f \in Files, content \in Places : Edit(f, content)

\* The agents run, a message that is not deleted becomes visible again, and SQS
\* hands out every visible message sooner or later.
AgentFairness ==
  /\ \A a \in Agents : WF_agentVars(Work(a))
  /\ \A m \in 1 .. MaxMessages :
       /\ WF_agentVars(Reappear(m))
       /\ SF_agentVars(\E a \in Agents, queue \in Queues : Receive(a, queue, m))

-----------------------------------------------------------------------------
(* Properties *)

AgentTypeOK ==
  /\ DOMAIN message = 1 .. sent
  /\ \A m \in 1 .. sent : message[m] \in
       [queue : Queues, file : Files, valid : BOOLEAN, state : {"visible", "taken", "deleted"}]
  /\ file \in [Files -> Places]
  /\ cas \in [Contents -> Contents \cup {"none"}]
  /\ marker \in [Files -> Markers]
  /\ agent \in [Agents -> [at : {"poll_high", "poll_async", "check", "look", "fail", "hash",
                                 "head_cas", "upload", "mark", "delete"},
                           msg : 0 .. sent, hash : Contents \cup {"none"}]]

\* A completion marker promises an object: whoever reads it can fetch the content,
\* also when the agent stopped between the two writes or a second agent works on
\* the same request.
MarkersHaveObjects ==
  \A f \in Files : marker[f].status = "completed" => cas[marker[f].hash] # "none"

\* A request is not lost: its file has a marker, or its message can be delivered
\* (again), whatever crashes and redeliveries come in between.
RequestsAreKept ==
  \A m \in 1 .. sent :
    message[m].state = "deleted" => marker[message[m].file] # NoMarker

\* Every valid request gets an answer, also when unusable messages come back for
\* ever and the high-priority queue is preferred.
RequestsAreAnswered ==
  \A m \in 1 .. MaxMessages :
    (m <= sent /\ message[m].valid) ~> (m <= sent /\ marker[message[m].file] # NoMarker)

\* Statements that do not hold (README, section Divergences).

\* What is stored under a hash has that hash.
ObjectsMatchHashes == \A h \in Contents : cas[h] \in {"none", h}

\* A file that was uploaded is never reported as failed afterwards.
SuccessStands ==
  [][\A f \in Files : marker[f].status = "completed" => marker'[f].status = "completed"]_agentVars
=============================================================================
