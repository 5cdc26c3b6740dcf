--------------------------- MODULE PendingTracker ---------------------------
(***************************************************************************)
(* The files of a relaxed mount that somebody waits for                    *)
(* (crates/vfs/src/relaxed/pending_tracker.rs): a concurrent map from      *)
(* files to a Notify, and a lock-free queue of the new ones for a poller.  *)
(*                                                                         *)
(* register looks at the map and then takes the entry's guard, which it    *)
(* holds until it returns: two steps.  resolve removes the entry and then  *)
(* notifies: two steps.  A pop of the queue and the look at the map that   *)
(* follows it are one, since what can come between them could as well      *)
(* come before.                                                            *)
(***************************************************************************)
EXTENDS Naturals, Sequences, FiniteSets

CONSTANTS
  Callers,      \* readers of relaxed files
  Files,        \* composite keys "root_id:path_key"
  MaxHandles    \* bound: Notify objects made

TrackerAssumption == Callers \cap Files = {} /\ MaxHandles \in Nat

NoHandle == 0
Handles  == 1 .. MaxHandles

VARIABLES
  pending,      \* file -> its Notify, NoHandle when the map has no entry
  new_keys,     \* the queue for the poller
  next_handle,  \* Notify objects made so far
  notified,     \* Notify objects whose waiters were woken
  caller,       \* reader -> where it is in register, the file, is_new, its handle
  polled,       \* the poller's own set of files
  resolving     \* the Notify the poller has taken out of the map

trackerVars == <<pending, new_keys, next_handle, notified, caller, polled, resolving>>

Idle == [at |-> "idle", file |-> "none", is_new |-> FALSE, handle |-> NoHandle]

TrackerInit ==
  /\ pending = [f \in Files |-> NoHandle]
  /\ new_keys = << >>
  /\ next_handle = 1
  /\ notified = {}
  /\ caller = [c \in Callers |-> Idle]
  /\ polled = {}
  /\ resolving = NoHandle

\* register: is the key in the map?
Look(c, f) ==
  /\ caller[c].at = "idle"
  /\ caller' = [caller EXCEPT ![c] = [Idle EXCEPT !.at = "looked", !.file = f,
                                        !.is_new = pending[f] = NoHandle]]
  /\ UNCHANGED <<pending, new_keys, next_handle, notified, polled, resolving>>

\* Mutation: insert instead of or_insert_with.
EntryOf_Replace(f) == next_handle

\* or_insert_with: the entry that is there, or a new one.
EntryOf(f) == IF pending[f] = NoHandle THEN next_handle ELSE pending[f]

\* register: the entry, the push of a new key, and the return of the handle.
Insert(c) ==
  LET f == caller[c].file
      h == EntryOf(f)
  IN /\ caller[c].at = "looked" /\ next_handle <= MaxHandles
     /\ pending' = [pending EXCEPT ![f] = h]
     /\ next_handle' = IF h = next_handle THEN next_handle + 1 ELSE next_handle
     /\ new_keys' = IF caller[c].is_new THEN Append(new_keys, f) ELSE new_keys
     /\ caller' = [caller EXCEPT ![c].at = "registered", ![c].handle = h]
     /\ UNCHANGED <<notified, polled, resolving>>

\* drain_new_keys, one pop: a key that is no longer pending is dropped.
Drain ==
  /\ new_keys # << >>
  /\ new_keys' = Tail(new_keys)
  /\ polled' = IF pending[Head(new_keys)] # NoHandle
               THEN polled \cup {Head(new_keys)} ELSE polled
  /\ UNCHANGED <<pending, next_handle, notified, caller, resolving>>

\* resolve, by the poller for a file it has found: the entry leaves the map ...
Remove(f) ==
  /\ f \in polled /\ resolving = NoHandle
  /\ pending' = [pending EXCEPT ![f] = NoHandle]
  /\ polled' = polled \ {f}
  /\ resolving' = pending[f]
  /\ UNCHANGED <<new_keys, next_handle, notified, caller>>

\* ... and its waiters are woken.
NotifyWaiters ==
  /\ resolving # NoHandle
  /\ notified' = notified \cup {resolving}
  /\ resolving' = NoHandle
  /\ UNCHANGED <<pending, new_keys, next_handle, caller, polled>>

-----------------------------------------------------------------------------
(* Properties *)

\* Whoever has a handle will be woken by resolve, or has been: the handle is the
\* one in the map, or was signalled when it was taken out.  Two registrations
\* that race, or one that races with resolve, never leave a reader with a Notify
\* that nobody else knows.
HandlesAreLive ==
  \A c \in Callers : caller[c].at = "registered" =>
    caller[c].handle \in {pending[caller[c].file], resolving} \cup notified

\* A file that is pending is in the queue or with the poller.  It does not hold
\* (README, section Divergences): a registration that saw the key before resolve
\* took it out inserts it again without a push.
NothingForgotten ==
  \A f \in Files : pending[f] # NoHandle =>
    f \in polled \/ \E i \in 1 .. Len(new_keys) : new_keys[i] = f
=============================================================================
