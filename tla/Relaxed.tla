------------------------------ MODULE Relaxed ------------------------------
(***************************************************************************)
(* Readers, the tracker, the queues and the agents together.  Who sends    *)
(* the request and who polls for the marker is not in the code: they do    *)
(* here what the comments of PendingFileTracker and RelaxedFileStore ask   *)
(* of them.                                                                *)
(***************************************************************************)
EXTENDS UploadAgent

CONSTANTS
  Callers,    \* readers of relaxed files
  MaxHandles  \* bound: Notify objects made

VARIABLES pending, new_keys, next_handle, notified, caller, polled, resolving

Tracker == INSTANCE PendingTracker

ASSUME TrackerConstants == Tracker!TrackerAssumption

trackerVars == <<pending, new_keys, next_handle, notified, caller, polled, resolving>>
vars == <<agentVars, trackerVars>>

Init == AgentInit /\ Tracker!TrackerInit

\* A reader registers a file; for one that was not pending a request is sent.
Ask(c) ==
  /\ Tracker!Insert(c)
  /\ IF caller[c].is_new
       THEN \E queue \in Queues : Send(caller[c].file, queue, TRUE)
       ELSE UNCHANGED agentVars

\* Somebody else sends a message without the fields the agent needs.
SendUnusable ==
  /\ sent = 0
  /\ \E f \in Files : Send(f, "high", FALSE)
  /\ UNCHANGED trackerVars

\* The poller has found the marker of a file.
Found(f) ==
  /\ marker[f] # NoMarker
  /\ Tracker!Remove(f)
  /\ UNCHANGED agentVars

Next ==
  \/ AgentNext /\ UNCHANGED trackerVars
  \/ \E c \in Callers : \/ \E f \in Files : Tracker!Look(c, f) /\ UNCHANGED agentVars
                        \/ Ask(c)
  \/ SendUnusable
  \/ (Tracker!Drain \/ Tracker!NotifyWaiters) /\ UNCHANGED agentVars
  \/ \E f \in Files : Found(f)

Spec == Init /\ [][Next]_vars /\ AgentFairness

\* A reader that has registered a file will be woken when it is resolved, or has
\* been: nobody is left with a Notify that is not in the map.
HandlesAreLive == Tracker!HandlesAreLive

\* A completion marker has its object, and a request is in a queue, with an agent,
\* or answered by a marker: none is dropped by a crash or a failure.
RequestsAreAccounted == AgentTypeOK /\ MarkersHaveObjects /\ RequestsAreKept

=============================================================================
