--------------------------- MODULE Relaxed_proofs ---------------------------
(***************************************************************************)
(* For every number of readers, agents, files, messages and faults: no     *)
(* request is lost, a completion marker has its object, and a reader that  *)
(* has registered a file holds a Notify that resolve signals.              *)
(*                                                                         *)
(* What the runs check is not inductive.  An agent acts on what it read    *)
(* several steps ago: that its message exists, that the object was there   *)
(* when it writes the marker, and that the marker was there when it        *)
(* deletes the message (Progress).  No object is taken away again, and a   *)
(* marker only for another one (StoreOnlyGrows): that there is one is      *)
(* still true, what it says may not be.                                    *)
(***************************************************************************)
EXTENDS Relaxed, TLAPS

Points   == {"poll_high", "poll_async", "check", "look", "fail", "hash", "head_cas",
             "upload", "mark", "delete"}
Records  == [at : Points, msg : 0 .. sent, hash : Contents \cup {"none"}]
Messages == [queue : Queues, file : Files, valid : BOOLEAN, state : {"visible", "taken", "deleted"}]

AgentTypes ==
  /\ sent \in Nat
  /\ DOMAIN message = 1 .. sent
  /\ \A m \in 1 .. sent : message[m] \in Messages
  /\ file \in [Files -> Places]
  /\ cas \in [Contents -> Contents \cup {"none"}]
  /\ marker \in [Files -> Markers]
  /\ agent \in [Agents -> Records]

Polling(a) == agent[a].at \in {"poll_high", "poll_async"}

\* What an agent knows of its message, its hash and the store, by where it is.
Progress(a) ==
  /\ ~Polling(a) => agent[a].msg \in 1 .. sent
  /\ agent[a].at \in {"head_cas", "upload", "mark"} => agent[a].hash \in Contents
  /\ agent[a].at = "mark" => cas[agent[a].hash] # "none"
  /\ agent[a].at = "delete" => marker[FileOf(a)] # NoMarker

AgentInv ==
  /\ AgentTypes
  /\ \A a \in Agents : Progress(a)
  /\ MarkersHaveObjects
  /\ RequestsAreKept

-----------------------------------------------------------------------------
\* The initial state.
LEMMA InitAgentInv == AgentInit => AgentInv
<1> SUFFICES ASSUME AgentInit PROVE AgentInv
  OBVIOUS
<1>1. AgentTypes
  BY AgentAssumption DEF AgentInit, AgentTypes, Start, Records, Points, Contents, Places,
    Markers, NoMarker
<1>2. \A a \in Agents : Progress(a)
  BY DEF AgentInit, Start, Progress, Polling
<1>3. MarkersHaveObjects /\ RequestsAreKept
  BY DEF AgentInit, NoMarker, MarkersHaveObjects, RequestsAreKept
<1> QED
  BY <1>1, <1>2, <1>3 DEF AgentInv

\* Objects and markers are not taken away: in a step after which the types hold,
\* which changes at most the agents `A`, everything follows from what is true of
\* them afterwards and of the messages they delete.
LEMMA AgentStep ==
  ASSUME AgentInv, AgentTypes', NEW A \in SUBSET Agents,
         sent' = sent,
         \A m \in 1 .. sent : message'[m].file = message[m].file,
         \A b \in Agents \ A : agent'[b] = agent[b],
         \A h \in Contents : cas[h] # "none" => cas'[h] # "none",
         \A f \in Files : marker[f] # NoMarker => marker'[f] # NoMarker,
         \A a \in A : Progress(a)',
         MarkersHaveObjects',
         \A m \in 1 .. sent : message'[m].state = "deleted" =>
           message[m].state = "deleted" \/ marker[message[m].file] # NoMarker
  PROVE  AgentInv'
<1>1. ASSUME NEW b \in Agents PROVE Progress(b)'
  <2>1. CASE b \in A
    BY <2>1
  <2>2. CASE b \notin A
    <3>1. Progress(b) /\ agent'[b] = agent[b] /\ agent[b].hash \in Contents \cup {"none"}
      BY <2>2 DEF AgentInv, AgentTypes, Records
    <3>2. ~Polling(b) => agent[b].msg \in 1 .. sent /\ message'[agent[b].msg].file = FileOf(b)
                         /\ FileOf(b) \in Files
      BY <3>1 DEF AgentInv, AgentTypes, Messages, Progress, FileOf
    <3> QED
      BY <3>1, <3>2 DEF Progress, Polling, FileOf
  <2> QED
    BY <2>1, <2>2
<1>2. RequestsAreKept'
  <2> SUFFICES ASSUME NEW m \in 1 .. sent, message'[m].state = "deleted"
               PROVE  marker'[message'[m].file] # NoMarker
    BY DEF RequestsAreKept
  <2>1. message[m].file \in Files /\ marker[message[m].file] # NoMarker
    BY DEF AgentInv, AgentTypes, Messages, RequestsAreKept
  <2> QED
    BY <2>1
<1> QED
  BY <1>1, <1>2 DEF AgentInv

\* A step that changes nothing but one agent, which goes on or starts again.
LEMMA ReadingStep ==
  ASSUME AgentInv, NEW a \in Agents, agent' \in [Agents -> Records],
         UNCHANGED <<message, sent, file, cas, marker>>,
         \A b \in Agents \ {a} : agent'[b] = agent[b],
         Progress(a)'
  PROVE  AgentInv'
<1>1. AgentTypes'
  BY DEF AgentInv, AgentTypes, Records
<1>2. MarkersHaveObjects'
  BY DEF AgentInv, MarkersHaveObjects
<1>3. {a} \in SUBSET Agents
  OBVIOUS
<1> QED
  BY <1>1, <1>2, <1>3, AgentStep

LEMMA PollingStep ==
  ASSUME AgentInv, NEW a \in Agents, agent' \in [Agents -> Records],
         UNCHANGED <<message, sent, file, cas, marker>>,
         \A b \in Agents \ {a} : agent'[b] = agent[b],
         agent'[a].at \in {"poll_high", "poll_async"}
  PROVE  AgentInv'
<1>1. Progress(a)'
  BY DEF Progress, Polling
<1> QED
  BY <1>1, ReadingStep

-----------------------------------------------------------------------------
\* What the updates of a record in a function do.
LEMMA Moved ==
  ASSUME AgentTypes, NEW a \in Agents, NEW at \in Points, Goto(a, at)
  PROVE  /\ agent' \in [Agents -> Records]
         /\ agent'[a].at = at /\ agent'[a].msg = agent[a].msg /\ agent'[a].hash = agent[a].hash
         /\ \A b \in Agents \ {a} : agent'[b] = agent[b]
<1> DEFINE r == [agent[a] EXCEPT !.at = at]
<1>1. agent \in [Agents -> Records] /\ agent' = [agent EXCEPT ![a] = r]
  BY DEF AgentTypes, Goto
<1>2. r \in Records /\ r.at = at /\ r.msg = agent[a].msg /\ r.hash = agent[a].hash
  BY <1>1 DEF Records
<1> QED
  BY <1>1, <1>2

LEMMA Started ==
  ASSUME AgentTypes, NEW a \in Agents, agent' = [agent EXCEPT ![a] = Start]
  PROVE  /\ agent' \in [Agents -> Records]
         /\ agent'[a] = Start
         /\ \A b \in Agents \ {a} : agent'[b] = agent[b]
<1>1. agent \in [Agents -> Records] /\ Start \in Records
  BY DEF AgentTypes, Records, Points, Start
<1> QED
  BY <1>1

LEMMA Remarked ==
  ASSUME AgentTypes, NEW m \in 1 .. sent, NEW state \in {"visible", "taken", "deleted"},
         message' = [message EXCEPT ![m].state = state]
  PROVE  /\ DOMAIN message' = 1 .. sent
         /\ \A k \in 1 .. sent : message'[k] \in Messages /\ message'[k].file = message[k].file
         /\ message'[m].state = state
         /\ \A k \in (1 .. sent) \ {m} : message'[k] = message[k]
<1> DEFINE r == [message[m] EXCEPT !.state = state]
<1>1. /\ DOMAIN message = 1 .. sent /\ \A k \in 1 .. sent : message[k] \in Messages
      /\ message' = [message EXCEPT ![m] = r]
  BY DEF AgentTypes
<1>2. r \in Messages /\ r.file = message[m].file /\ r.state = state
  BY <1>1 DEF Messages
<1> QED
  BY <1>1, <1>2

-----------------------------------------------------------------------------
\* The polls.
LEMMA ReceiveNoneStep ==
  ASSUME AgentInv, NEW a \in Agents, NEW queue \in Queues, ReceiveNone(a, queue)
  PROVE  AgentInv'
<1>0. AgentTypes /\ Goto(a, OtherQueue(queue)) /\ UNCHANGED <<message, sent, file, cas, marker>>
  BY DEF ReceiveNone, AgentInv
<1>1. OtherQueue(queue) \in {"poll_high", "poll_async"} /\ OtherQueue(queue) \in Points
  BY DEF OtherQueue, Points
<1>2. /\ agent' \in [Agents -> Records] /\ agent'[a].at \in {"poll_high", "poll_async"}
      /\ \A b \in Agents \ {a} : agent'[b] = agent[b]
  BY <1>0, <1>1, Moved
<1> QED
  BY <1>0, <1>2, PollingStep

LEMMA ReceiveStep ==
  ASSUME AgentInv, NEW a \in Agents, NEW queue \in Queues, NEW m \in 1 .. sent,
         Receive(a, queue, m)
  PROVE  AgentInv'
<1> DEFINE at == IF message[m].valid THEN "check" ELSE OtherQueue(queue)
           r  == [agent[a] EXCEPT !.msg = m, !.at = at]
<1>0. /\ AgentTypes /\ UNCHANGED <<sent, file, cas, marker>>
      /\ message' = [message EXCEPT ![m].state = "taken"]
      /\ agent' = [agent EXCEPT ![a] = r]
  BY DEF Receive, AgentInv
<1>1. at \in {"check", "poll_high", "poll_async"} /\ at \in Points /\ m \in 0 .. sent
  BY <1>0 DEF OtherQueue, Points, AgentTypes
<1>2. agent \in [Agents -> Records]
  BY <1>0 DEF AgentTypes
<1>3. r \in Records /\ r.at = at /\ r.msg = m
  BY <1>1, <1>2 DEF Records
<1>4. /\ agent' \in [Agents -> Records]
      /\ agent'[a].at \in {"check", "poll_high", "poll_async"} /\ agent'[a].msg = m
      /\ \A b \in Agents \ {a} : agent'[b] = agent[b]
  BY <1>0, <1>1, <1>2, <1>3
<1>5. /\ DOMAIN message' = 1 .. sent
      /\ \A k \in 1 .. sent : message'[k] \in Messages /\ message'[k].file = message[k].file
      /\ \A k \in 1 .. sent : message'[k].state = "deleted" => message[k].state = "deleted"
  BY <1>0, Remarked
<1>6. AgentTypes'
  BY <1>0, <1>4, <1>5 DEF AgentTypes, Records
<1>7. Progress(a)'
  BY <1>0, <1>4 DEF Progress, Polling
<1>8. MarkersHaveObjects'
  BY <1>0 DEF AgentInv, MarkersHaveObjects
<1>9. {a} \in SUBSET Agents
  OBVIOUS
<1> QED
  BY <1>0, <1>4, <1>5, <1>6, <1>7, <1>8, <1>9, AgentStep

\* What the agent has of its message.
LEMMA OwnFile ==
  ASSUME AgentInv, NEW a \in Agents, ~Polling(a)
  PROVE  agent[a].msg \in 1 .. sent /\ FileOf(a) \in Files /\ Progress(a) /\ agent[a] \in Records
<1>1. Progress(a) /\ agent[a] \in Records /\ agent[a].msg \in 1 .. sent
  BY DEF AgentInv, AgentTypes, Progress
<1>2. message[agent[a].msg] \in Messages
  BY <1>1 DEF AgentInv, AgentTypes
<1> QED
  BY <1>1, <1>2 DEF Messages, FileOf

-----------------------------------------------------------------------------
\* The steps that read.
LEMMA CheckMarkerStep ==
  ASSUME AgentInv, NEW a \in Agents, CheckMarker(a)
  PROVE  AgentInv'
<1> DEFINE at == IF marker[FileOf(a)] # NoMarker THEN "delete"
                 ELSE IF FileOf(a) \in Serves[a] THEN "look" ELSE "fail"
<1>0. /\ AgentTypes /\ Goto(a, at) /\ UNCHANGED <<message, sent, file, cas, marker>>
      /\ agent[a].at = "check"
  BY DEF CheckMarker, AgentInv
<1>1. at \in {"delete", "look", "fail"} /\ at \in Points
  BY DEF Points
<1>2. agent[a].msg \in 1 .. sent
  BY <1>0, OwnFile DEF Polling
<1>3. /\ agent' \in [Agents -> Records] /\ agent'[a].at = at /\ agent'[a].msg = agent[a].msg
      /\ \A b \in Agents \ {a} : agent'[b] = agent[b]
  BY <1>0, <1>1, Moved
<1>4. Progress(a)'
  BY <1>0, <1>1, <1>2, <1>3 DEF Progress, Polling, FileOf
<1> QED
  BY <1>0, <1>3, <1>4, ReadingStep

LEMMA LookAtFileStep ==
  ASSUME AgentInv, NEW a \in Agents, LookAtFile(a)
  PROVE  AgentInv'
<1> DEFINE at == IF file[FileOf(a)] \in Contents THEN "hash" ELSE "fail"
<1>0. /\ AgentTypes /\ Goto(a, at) /\ UNCHANGED <<message, sent, file, cas, marker>>
      /\ agent[a].at = "look"
  BY DEF LookAtFile, AgentInv
<1>1. at \in {"hash", "fail"} /\ at \in Points
  BY DEF Points
<1>2. agent[a].msg \in 1 .. sent
  BY <1>0, OwnFile DEF Polling
<1>3. /\ agent' \in [Agents -> Records] /\ agent'[a].at = at /\ agent'[a].msg = agent[a].msg
      /\ \A b \in Agents \ {a} : agent'[b] = agent[b]
  BY <1>0, <1>1, Moved
<1>4. Progress(a)'
  BY <1>0, <1>1, <1>2, <1>3 DEF Progress, Polling, FileOf
<1> QED
  BY <1>0, <1>3, <1>4, ReadingStep

LEMMA HashStep ==
  ASSUME AgentInv, NEW a \in Agents, Hash(a)
  PROVE  AgentInv'
<1> DEFINE content == file[FileOf(a)]
           r == [agent[a] EXCEPT !.hash = HashOf(content), !.at = "head_cas"]
<1>0. /\ AgentTypes /\ UNCHANGED <<message, sent, file, cas, marker>>
      /\ agent[a].at = "hash" /\ agent \in [Agents -> Records]
      /\ agent' = IF content \in Contents THEN [agent EXCEPT ![a] = r]
                  ELSE [agent EXCEPT ![a] = Start]
  BY DEF Hash, AgentInv, AgentTypes
<1>1. CASE content \in Contents
  <2>1. r \in Records /\ r.hash = content /\ r.at = "head_cas" /\ r.msg = agent[a].msg
    BY <1>0, <1>1 DEF Records, Points, HashOf
  <2>2. /\ agent' \in [Agents -> Records] /\ agent'[a].at = "head_cas"
        /\ agent'[a].hash \in Contents /\ agent'[a].msg = agent[a].msg
        /\ \A b \in Agents \ {a} : agent'[b] = agent[b]
    BY <1>0, <1>1, <2>1
  <2>3. agent[a].msg \in 1 .. sent
    BY <1>0, OwnFile DEF Polling
  <2>4. Progress(a)'
    BY <1>0, <2>2, <2>3 DEF Progress, Polling, FileOf
  <2> QED
    BY <1>0, <2>2, <2>4, ReadingStep
<1>2. CASE content \notin Contents
  <2>1. /\ agent' \in [Agents -> Records] /\ agent'[a] = Start
        /\ \A b \in Agents \ {a} : agent'[b] = agent[b]
    BY <1>0, <1>2, Started
  <2>2. agent'[a].at \in {"poll_high", "poll_async"}
    BY <2>1 DEF Start
  <2>3. UNCHANGED <<message, sent, file, cas, marker>>
    BY <1>0
  <2> QED
    BY <2>1, <2>2, <2>3, PollingStep
<1> QED
  BY <1>1, <1>2

\* The agent skips the upload only when the object is there.
LEMMA HeadCasStep ==
  ASSUME AgentInv, NEW a \in Agents, HeadCas(a)
  PROVE  AgentInv'
<1>0. /\ AgentTypes /\ Goto(a, AfterHash(a)) /\ UNCHANGED <<message, sent, file, cas, marker>>
      /\ agent[a].at = "head_cas"
  BY DEF HeadCas, AgentInv
<1>1. /\ AfterHash(a) \in {"mark", "upload"} /\ AfterHash(a) \in Points
      /\ AfterHash(a) = "mark" => cas[agent[a].hash] # "none"
  BY DEF Points, AfterHash
<1>2. agent[a].msg \in 1 .. sent /\ agent[a].hash \in Contents
  BY <1>0, OwnFile DEF Polling, Progress
<1>3. /\ agent' \in [Agents -> Records] /\ agent'[a].at = AfterHash(a)
      /\ agent'[a].msg = agent[a].msg /\ agent'[a].hash = agent[a].hash
      /\ \A b \in Agents \ {a} : agent'[b] = agent[b]
  BY <1>0, <1>1, Moved
<1>4. Progress(a)'
  BY <1>0, <1>1, <1>2, <1>3 DEF Progress, Polling, FileOf
<1> QED
  BY <1>0, <1>3, <1>4, ReadingStep

-----------------------------------------------------------------------------
\* The steps that write: the object comes before the marker, and the marker
\* before the deletion.
LEMMA UploadStep ==
  ASSUME AgentInv, NEW a \in Agents, Upload(a)
  PROVE  AgentInv'
<1>0. AgentTypes /\ agent[a].at = "upload" /\ UNCHANGED <<message, sent, file, marker>>
  BY DEF Upload, AgentInv
<1>1. agent[a].msg \in 1 .. sent /\ agent[a].hash \in Contents
  BY <1>0, OwnFile DEF Polling, Progress
<1>2. CASE file[FileOf(a)] \in Contents
  <2>1. Goto(a, "mark") /\ cas' = [cas EXCEPT ![agent[a].hash] = file[FileOf(a)]]
    BY <1>2 DEF Upload
  <2>2. /\ agent' \in [Agents -> Records] /\ agent'[a].at = "mark"
        /\ agent'[a].msg = agent[a].msg /\ agent'[a].hash = agent[a].hash
        /\ \A b \in Agents \ {a} : agent'[b] = agent[b]
    BY <1>0, <2>1, Moved DEF Points
  <2>3. /\ cas' \in [Contents -> Contents \cup {"none"}]
        /\ \A h \in Contents : cas[h] # "none" => cas'[h] # "none"
        /\ cas'[agent[a].hash] # "none"
    BY <1>0, <1>1, <1>2, <2>1 DEF AgentTypes, Contents
  <2>4. AgentTypes'
    BY <1>0, <2>2, <2>3 DEF AgentTypes, Records
  <2>5. Progress(a)'
    BY <1>0, <1>1, <2>2, <2>3 DEF Progress, Polling, FileOf
  <2>6. MarkersHaveObjects'
    <3> SUFFICES ASSUME NEW f \in Files, marker[f].status = "completed"
                 PROVE  cas'[marker[f].hash] # "none"
      BY <1>0 DEF MarkersHaveObjects
    <3>1. marker[f] \in Markers /\ marker[f].hash \in Contents
      BY <1>0 DEF AgentTypes, Markers, NoMarker
    <3> QED
      BY <2>3, <3>1 DEF AgentInv, MarkersHaveObjects
  <2>7. {a} \in SUBSET Agents
    OBVIOUS
  <2> QED
    BY <1>0, <2>2, <2>3, <2>4, <2>5, <2>6, <2>7, AgentStep
<1>3. CASE file[FileOf(a)] \notin Contents
  <2>1. agent' = [agent EXCEPT ![a] = Start] /\ UNCHANGED cas
    BY <1>3 DEF Upload
  <2>2. /\ agent' \in [Agents -> Records] /\ agent'[a] = Start
        /\ \A b \in Agents \ {a} : agent'[b] = agent[b]
    BY <1>0, <2>1, Started
  <2> QED
    BY <1>0, <2>1, <2>2, PollingStep DEF Start
<1> QED
  BY <1>2, <1>3

\* Both markers: `mark` is what is written.
LEMMA MarkStep ==
  ASSUME AgentInv, NEW a \in Agents, ~Polling(a), NEW mark \in Markers \ {NoMarker},
         mark.status = "completed" => mark.hash \in Contents /\ cas[mark.hash] # "none",
         marker' = [marker EXCEPT ![FileOf(a)] = mark], Goto(a, "delete"),
         UNCHANGED <<message, sent, file, cas>>
  PROVE  AgentInv'
<1>0. AgentTypes /\ marker \in [Files -> Markers]
  BY DEF AgentInv, AgentTypes
<1>1. agent[a].msg \in 1 .. sent /\ FileOf(a) \in Files
  BY OwnFile
<1>2. /\ agent' \in [Agents -> Records] /\ agent'[a].at = "delete"
      /\ agent'[a].msg = agent[a].msg
      /\ \A b \in Agents \ {a} : agent'[b] = agent[b]
  BY <1>0, Moved DEF Points
<1>3. /\ marker' \in [Files -> Markers] /\ marker'[FileOf(a)] = mark
      /\ \A f \in Files \ {FileOf(a)} : marker'[f] = marker[f]
  BY <1>0, <1>1
<1>4. AgentTypes'
  BY <1>0, <1>2, <1>3 DEF AgentTypes, Records
<1>5. Progress(a)'
  BY <1>1, <1>2, <1>3 DEF Progress, Polling, FileOf
<1>6. MarkersHaveObjects'
  BY <1>1, <1>3 DEF AgentInv, MarkersHaveObjects
<1>7. \A f \in Files : marker[f] # NoMarker => marker'[f] # NoMarker
  BY <1>3
<1>8. {a} \in SUBSET Agents
  OBVIOUS
<1> QED
  BY <1>2, <1>4, <1>5, <1>6, <1>7, <1>8, AgentStep

LEMMA DeleteStep ==
  ASSUME AgentInv, NEW a \in Agents, Delete(a)
  PROVE  AgentInv'
<1>0. /\ AgentTypes /\ agent[a].at = "delete" /\ UNCHANGED <<sent, file, cas, marker>>
      /\ message' = [message EXCEPT ![agent[a].msg].state = "deleted"]
      /\ agent' = [agent EXCEPT ![a] = Start]
  BY DEF Delete, AgentInv
<1>1. agent[a].msg \in 1 .. sent /\ marker[message[agent[a].msg].file] # NoMarker
  BY <1>0, OwnFile DEF Polling, Progress, FileOf
<1>2. /\ agent' \in [Agents -> Records] /\ agent'[a] = Start
      /\ \A b \in Agents \ {a} : agent'[b] = agent[b]
  BY <1>0, Started
<1>3. /\ DOMAIN message' = 1 .. sent
      /\ \A k \in 1 .. sent : message'[k] \in Messages /\ message'[k].file = message[k].file
      /\ \A k \in (1 .. sent) \ {agent[a].msg} : message'[k] = message[k]
  BY <1>0, <1>1, Remarked
<1>4. AgentTypes'
  BY <1>0, <1>2, <1>3 DEF AgentTypes, Records
<1>5. Progress(a)'
  BY <1>2 DEF Progress, Polling, Start
<1>6. MarkersHaveObjects'
  BY <1>0 DEF AgentInv, MarkersHaveObjects
<1>7. \A m \in 1 .. sent : message'[m].state = "deleted" =>
        message[m].state = "deleted" \/ marker[message[m].file] # NoMarker
  BY <1>1, <1>3
<1>8. {a} \in SUBSET Agents
  OBVIOUS
<1>9. /\ sent' = sent
      /\ \A m \in 1 .. sent : message'[m].file = message[m].file
      /\ \A b \in Agents \ {a} : agent'[b] = agent[b]
  BY <1>0, <1>2, <1>3
<1>10. /\ \A h \in Contents : cas[h] # "none" => cas'[h] # "none"
       /\ \A f \in Files : marker[f] # NoMarker => marker'[f] # NoMarker
  BY <1>0
<1>11. \A b \in {a} : Progress(b)'
  BY <1>5
<1> QED
  BY <1>4, <1>6, <1>7, <1>8, <1>9, <1>10, <1>11, AgentStep

-----------------------------------------------------------------------------
\* Faults, redelivery and edits take nothing away.
LEMMA CrashStep ==
  ASSUME AgentInv, NEW a \in Agents, Crash(a)
  PROVE  AgentInv'
<1>0. /\ AgentTypes /\ agent' = [agent EXCEPT ![a] = Start]
      /\ UNCHANGED <<message, sent, file, cas, marker>>
  BY DEF Crash, AgentInv
<1>1. /\ agent' \in [Agents -> Records] /\ agent'[a] = Start
      /\ \A b \in Agents \ {a} : agent'[b] = agent[b]
  BY <1>0, Started
<1> QED
  BY <1>0, <1>1, PollingStep DEF Start

LEMMA ReappearStep ==
  ASSUME AgentInv, NEW m \in 1 .. sent, Reappear(m)
  PROVE  AgentInv'
<1>0. /\ AgentTypes /\ message' = [message EXCEPT ![m].state = "visible"]
      /\ UNCHANGED <<sent, file, cas, marker, agent>>
  BY DEF Reappear, AgentInv
<1>1. /\ DOMAIN message' = 1 .. sent
      /\ \A k \in 1 .. sent : message'[k] \in Messages /\ message'[k].file = message[k].file
      /\ \A k \in 1 .. sent : message'[k].state = "deleted" => message[k].state = "deleted"
  BY <1>0, Remarked
<1>2. AgentTypes'
  BY <1>0, <1>1 DEF AgentTypes, Records
<1>3. MarkersHaveObjects'
  BY <1>0 DEF AgentInv, MarkersHaveObjects
<1>4. {} \in SUBSET Agents
  OBVIOUS
<1> QED
  BY <1>0, <1>1, <1>2, <1>3, <1>4, AgentStep

LEMMA EditStep ==
  ASSUME AgentInv, NEW f \in Files, NEW content \in Places, Edit(f, content)
  PROVE  AgentInv'
<1>0. AgentTypes /\ file' = [file EXCEPT ![f] = content] /\ UNCHANGED <<message, sent, cas, marker, agent>>
  BY DEF Edit, AgentInv
<1>1. AgentTypes'
  BY <1>0 DEF AgentTypes, Records
<1>2. MarkersHaveObjects'
  BY <1>0 DEF AgentInv, MarkersHaveObjects
<1>3. {} \in SUBSET Agents
  OBVIOUS
<1> QED
  BY <1>0, <1>1, <1>2, <1>3, AgentStep

\* A new message disturbs nothing.
LEMMA SendStep ==
  ASSUME AgentInv, NEW f \in Files, NEW queue \in Queues, NEW valid \in BOOLEAN,
         Send(f, queue, valid)
  PROVE  AgentInv'
<1>0. AgentTypes
  BY DEF AgentInv
<1>1. /\ sent \in Nat /\ sent' = sent + 1
      /\ message' = [m \in 1 .. sent + 1 |->
                       IF m <= sent THEN message[m]
                       ELSE [queue |-> queue, file |-> f, valid |-> valid, state |-> "visible"]]
      /\ UNCHANGED <<file, cas, marker, agent>>
  BY <1>0 DEF Send, AgentTypes
<1>2. /\ DOMAIN message' = 1 .. sent'
      /\ \A m \in 1 .. sent : m \in 1 .. sent' /\ message'[m] = message[m]
      /\ \A m \in 1 .. sent' :
           m \in 1 .. sent \/ message'[m] = [queue |-> queue, file |-> f, valid |-> valid,
                                             state |-> "visible"]
  BY <1>1
<1>3. \A m \in 1 .. sent' : message'[m] \in Messages
  BY <1>0, <1>2 DEF AgentTypes, Messages
<1>4. agent' \in [Agents -> Records']
  <2>1. 0 .. sent \subseteq 0 .. sent'
    BY <1>1
  <2> QED
    BY <1>0, <1>1, <2>1 DEF AgentTypes, Records
<1>5. AgentTypes'
  BY <1>0, <1>1, <1>2, <1>3, <1>4 DEF AgentTypes
<1>6. ASSUME NEW a \in Agents PROVE Progress(a)'
  BY <1>1, <1>2 DEF AgentInv, Progress, Polling, FileOf
<1>7. MarkersHaveObjects'
  BY <1>1 DEF AgentInv, MarkersHaveObjects
<1>8. RequestsAreKept'
  BY <1>1, <1>2 DEF AgentInv, RequestsAreKept
<1> QED
  BY <1>5, <1>6, <1>7, <1>8 DEF AgentInv

LEMMA WorkStep ==
  ASSUME AgentInv, NEW a \in Agents, Work(a)
  PROVE  AgentInv'
<1>1. CASE \E queue \in Queues : \/ ReceiveNone(a, queue)
                                \/ \E m \in 1 .. sent : Receive(a, queue, m)
  BY <1>1, ReceiveNoneStep, ReceiveStep
<1>2. CASE CheckMarker(a) \/ LookAtFile(a) \/ Hash(a) \/ HeadCas(a)
  BY <1>2, CheckMarkerStep, LookAtFileStep, HashStep, HeadCasStep
<1>3. CASE WriteFailure(a)
  <2> DEFINE mark == [status |-> "failed", hash |-> "none"]
  <2>1. mark \in Markers \ {NoMarker} /\ mark.status # "completed"
    BY DEF Markers, NoMarker
  <2>2. /\ ~Polling(a) /\ marker' = [marker EXCEPT ![FileOf(a)] = mark]
        /\ Goto(a, "delete") /\ UNCHANGED <<message, sent, file, cas>>
    BY <1>3 DEF WriteFailure, Polling
  <2> HIDE DEF mark
  <2> QED
    BY <2>1, <2>2, MarkStep
<1>4. CASE WriteCompletion(a)
  <2> DEFINE mark == [status |-> "completed", hash |-> agent[a].hash]
  <2>1. /\ ~Polling(a) /\ marker' = [marker EXCEPT ![FileOf(a)] = mark]
        /\ Goto(a, "delete") /\ UNCHANGED <<message, sent, file, cas>>
        /\ agent[a].at = "mark"
    BY <1>4 DEF WriteCompletion, Polling
  <2>2. agent[a].hash \in Contents /\ cas[agent[a].hash] # "none"
    BY <2>1, OwnFile DEF Progress
  <2>3. /\ mark \in Markers \ {NoMarker} /\ mark.hash \in Contents /\ cas[mark.hash] # "none"
    BY <2>2 DEF Markers, NoMarker
  <2> HIDE DEF mark
  <2> QED
    BY <2>1, <2>3, MarkStep
<1>5. CASE Upload(a) \/ Delete(a)
  BY <1>5, UploadStep, DeleteStep
<1> QED
  BY <1>1, <1>2, <1>3, <1>4, <1>5 DEF Work

LEMMA NextAgentInv == ASSUME AgentInv, AgentNext PROVE AgentInv'
<1>1. CASE \E a \in Agents : Work(a) \/ Crash(a)
  BY <1>1, WorkStep, CrashStep
<1>2. CASE \E m \in 1 .. sent : Reappear(m)
  BY <1>2, ReappearStep
<1>3. CASE \E f \in Files, content \in Places : Edit(f, content)
  BY <1>3, EditStep
<1> QED
  BY <1>1, <1>2, <1>3 DEF AgentNext

-----------------------------------------------------------------------------
\* The tracker: a handle is never 0, which stands for no entry.
TrackerInv ==
  /\ next_handle \in Nat \ {0} /\ pending \in [Files -> Nat]
  /\ DOMAIN caller = Callers
  /\ \A c \in Callers :
       /\ caller[c].at \in {"idle", "looked", "registered"}
       /\ caller[c].at # "idle" => caller[c].file \in Files
       /\ caller[c].at = "registered" => caller[c].handle # 0
  /\ HandlesAreLive

LEMMA InitTrackerInv == Tracker!TrackerInit => TrackerInv
BY DEF Tracker!TrackerInit, Tracker!Idle, Tracker!NoHandle, TrackerInv, HandlesAreLive,
  Tracker!HandlesAreLive

LEMMA LookStep ==
  ASSUME TrackerInv, NEW c \in Callers, NEW f \in Files, Tracker!Look(c, f)
  PROVE  TrackerInv'
<1> DEFINE r == [Tracker!Idle EXCEPT !.at = "looked", !.file = f,
                                     !.is_new = pending[f] = Tracker!NoHandle]
<1>1. r.at = "looked" /\ r.file = f
  BY DEF Tracker!Idle
<1>2. /\ caller' = [caller EXCEPT ![c] = r]
      /\ UNCHANGED <<pending, next_handle, notified, resolving>>
  BY DEF Tracker!Look
<1> HIDE DEF r
<1>3. /\ DOMAIN caller' = Callers /\ caller'[c].at = "looked" /\ caller'[c].file = f
      /\ \A d \in Callers \ {c} : caller'[d] = caller[d]
  BY <1>1, <1>2 DEF TrackerInv
<1>4. HandlesAreLive'
  BY <1>2, <1>3 DEF TrackerInv, HandlesAreLive, Tracker!HandlesAreLive
<1> QED
  BY <1>2, <1>3, <1>4 DEF TrackerInv

\* The handle that is returned is the one in the map, and a handle somebody has
\* is not replaced.
LEMMA InsertStep ==
  ASSUME TrackerInv, NEW c \in Callers, Tracker!Insert(c)
  PROVE  TrackerInv'
<1> DEFINE f == caller[c].file
           h == Tracker!EntryOf(f)
           r == [caller[c] EXCEPT !.at = "registered", !.handle = h]
<1>1. /\ caller[c].at = "looked" /\ f \in Files
      /\ pending' = [pending EXCEPT ![f] = h]
      /\ next_handle' = IF h = next_handle THEN next_handle + 1 ELSE next_handle
      /\ UNCHANGED <<notified, resolving>>
      /\ caller' = [caller EXCEPT ![c].at = "registered", ![c].handle = h]
  BY DEF Tracker!Insert, TrackerInv
<1>2. h \in Nat \ {0} /\ (pending[f] # 0 => h = pending[f])
  BY <1>1 DEF TrackerInv, Tracker!EntryOf, Tracker!NoHandle
<1>3. /\ DOMAIN caller' = Callers
      /\ caller'[c].at = "registered" /\ caller'[c].file = f /\ caller'[c].handle = h
      /\ \A d \in Callers \ {c} : caller'[d] = caller[d]
  BY <1>1 DEF TrackerInv
<1>4. /\ pending' \in [Files -> Nat] /\ pending'[f] = h
      /\ \A g \in Files \ {f} : pending'[g] = pending[g]
      /\ next_handle' \in Nat \ {0}
  BY <1>1, <1>2 DEF TrackerInv
<1> HIDE DEF f, h
<1>5. HandlesAreLive'
  <2> SUFFICES ASSUME NEW d \in Callers, caller'[d].at = "registered"
               PROVE  caller'[d].handle \in {pending'[caller'[d].file], resolving} \cup notified
    BY <1>1 DEF HandlesAreLive, Tracker!HandlesAreLive
  <2>1. CASE d = c
    BY <1>3, <1>4, <2>1
  <2>2. CASE d # c
    <3>1. /\ caller'[d] = caller[d] /\ caller[d].file \in Files /\ caller[d].handle # 0
          /\ caller[d].handle \in {pending[caller[d].file], resolving} \cup notified
      BY <1>3, <2>2 DEF TrackerInv, HandlesAreLive, Tracker!HandlesAreLive
    <3> QED
      BY <1>2, <1>4, <3>1
  <2> QED
    BY <2>1, <2>2
<1> QED
  BY <1>1, <1>2, <1>3, <1>4, <1>5 DEF TrackerInv

\* What is taken out of the map is signalled before anything else is.
LEMMA ResolveStep ==
  ASSUME TrackerInv,
         Tracker!Drain \/ Tracker!NotifyWaiters \/ \E f \in Files : Tracker!Remove(f)
  PROVE  TrackerInv'
<1>1. CASE Tracker!Drain
  BY <1>1 DEF Tracker!Drain, TrackerInv, HandlesAreLive, Tracker!HandlesAreLive
<1>2. CASE Tracker!NotifyWaiters
  BY <1>2 DEF Tracker!NotifyWaiters, TrackerInv, HandlesAreLive, Tracker!HandlesAreLive
<1>3. ASSUME NEW f \in Files, Tracker!Remove(f) PROVE TrackerInv'
  <2>1. /\ resolving = 0 /\ resolving' = pending[f]
        /\ pending' = [pending EXCEPT ![f] = 0]
        /\ UNCHANGED <<next_handle, notified, caller>>
    BY <1>3 DEF Tracker!Remove, Tracker!NoHandle
  <2>2. /\ pending' \in [Files -> Nat]
        /\ \A g \in Files \ {f} : pending'[g] = pending[g]
    BY <2>1 DEF TrackerInv
  <2>3. HandlesAreLive'
    BY <2>1, <2>2 DEF TrackerInv, HandlesAreLive, Tracker!HandlesAreLive
  <2> QED
    BY <2>1, <2>2, <2>3 DEF TrackerInv
<1> QED
  BY <1>1, <1>2, <1>3

-----------------------------------------------------------------------------
\* The whole.
RelaxedInv == AgentInv /\ TrackerInv

LEMMA AgentStutter == ASSUME AgentInv, UNCHANGED agentVars PROVE AgentInv'
BY DEF agentVars, AgentInv, AgentTypes, Records, Progress, Polling, FileOf,
  MarkersHaveObjects, RequestsAreKept

LEMMA TrackerStutter == ASSUME TrackerInv, UNCHANGED trackerVars PROVE TrackerInv'
BY DEF trackerVars, TrackerInv, HandlesAreLive, Tracker!HandlesAreLive

LEMMA InitRelaxedInv == Init => RelaxedInv
BY InitAgentInv, InitTrackerInv DEF Init, RelaxedInv

LEMMA AskStep ==
  ASSUME RelaxedInv, NEW c \in Callers, Ask(c)
  PROVE  RelaxedInv'
<1>1. TrackerInv'
  BY InsertStep DEF Ask, RelaxedInv
<1>2. CASE caller[c].is_new
  <2>1. caller[c].file \in Files
    BY DEF Ask, Tracker!Insert, RelaxedInv, TrackerInv
  <2>2. PICK queue \in Queues : Send(caller[c].file, queue, TRUE)
    BY <1>2 DEF Ask
  <2> QED
    BY <1>1, <2>1, <2>2, SendStep DEF RelaxedInv
<1>3. CASE ~caller[c].is_new
  BY <1>1, <1>3, AgentStutter DEF Ask, RelaxedInv
<1> QED
  BY <1>2, <1>3

LEMMA NextRelaxedInv == ASSUME RelaxedInv, [Next]_vars PROVE RelaxedInv'
<1>1. CASE AgentNext /\ UNCHANGED trackerVars
  BY <1>1, NextAgentInv, TrackerStutter DEF RelaxedInv
<1>2. CASE \E c \in Callers, f \in Files : Tracker!Look(c, f) /\ UNCHANGED agentVars
  BY <1>2, LookStep, AgentStutter DEF RelaxedInv
<1>3. CASE \E c \in Callers : Ask(c)
  BY <1>3, AskStep
<1>4. CASE SendUnusable
  BY <1>4, SendStep, TrackerStutter DEF SendUnusable, RelaxedInv, Queues
<1>5. CASE (Tracker!Drain \/ Tracker!NotifyWaiters) /\ UNCHANGED agentVars
  BY <1>5, ResolveStep, AgentStutter DEF RelaxedInv
<1>6. CASE \E f \in Files : Found(f)
  BY <1>6, ResolveStep, AgentStutter DEF Found, RelaxedInv
<1>7. CASE UNCHANGED vars
  BY <1>7, AgentStutter, TrackerStutter DEF vars, RelaxedInv
<1> QED
  BY <1>1, <1>2, <1>3, <1>4, <1>5, <1>6, <1>7 DEF Next

LEMMA RelaxedInvariant == Spec => []RelaxedInv
<1>1. Init => RelaxedInv
  BY InitRelaxedInv
<1>2. RelaxedInv /\ [Next]_vars => RelaxedInv'
  BY NextRelaxedInv
<1> QED
  BY <1>1, <1>2, PTL DEF Spec

\* The promise of the agent, for every number of agents, crashes, redeliveries and
\* changes of the files: a request whose message was deleted has its marker, and
\* a completion marker has the object under the hash it names.
THEOREM RequestsCorrect == Spec => []RequestsAreAccounted
<1>1. RelaxedInv => RequestsAreAccounted
  BY DEF RelaxedInv, AgentInv, AgentTypes, Records, Points, Messages, RequestsAreAccounted, AgentTypeOK
<1> QED
  BY <1>1, RelaxedInvariant, PTL

\* The promise of the tracker, for every number of readers and files: whoever has
\* registered holds the Notify that resolve will signal or has signalled.
THEOREM HandlesCorrect == Spec => []HandlesAreLive
<1>1. RelaxedInv => HandlesAreLive
  BY DEF RelaxedInv, TrackerInv
<1> QED
  BY <1>1, RelaxedInvariant, PTL

\* Objects stay in the bucket, and a file that has a marker keeps one.  It need not
\* be the same one: an agent that is late replaces a completion by a failure.
StoreGrows ==
  /\ \A h \in Contents : cas[h] # "none" => cas'[h] # "none"
  /\ \A f \in Files : marker[f] # NoMarker => marker'[f] # NoMarker

\* No step of an agent, a reader or the poller removes an object or a marker without
\* putting another in its place.
LEMMA StoreOnlyGrows == Spec => [][StoreGrows]_vars
<1>1. ASSUME RelaxedInv, Next PROVE StoreGrows
  <2>1. CASE UNCHANGED <<cas, marker>>
    BY <2>1 DEF StoreGrows
  <2>2. ASSUME NEW a \in Agents, Upload(a) PROVE StoreGrows
    <3>1. agent[a].hash \in Contents /\ cas \in [Contents -> Contents \cup {"none"}]
      BY <1>1, <2>2, OwnFile DEF RelaxedInv, AgentInv, AgentTypes, Upload, Polling, Progress
    <3> QED
      BY <2>2, <3>1 DEF Upload, StoreGrows, Contents
  <2>3. ASSUME NEW a \in Agents, WriteFailure(a) \/ WriteCompletion(a) PROVE StoreGrows
    <3>1. \E mark : mark # NoMarker /\ marker' = [marker EXCEPT ![FileOf(a)] = mark]
      BY <2>3 DEF WriteFailure, WriteCompletion, NoMarker
    <3>2. marker \in [Files -> Markers] /\ UNCHANGED cas
      BY <1>1, <2>3 DEF RelaxedInv, AgentInv, AgentTypes, WriteFailure, WriteCompletion
    <3> QED
      BY <3>1, <3>2 DEF StoreGrows
  <2>4. ASSUME NEW a \in Agents, Work(a) PROVE StoreGrows
    <3>1. CASE Upload(a) \/ WriteFailure(a) \/ WriteCompletion(a)
      BY <2>2, <2>3, <3>1
    <3>2. CASE ~(Upload(a) \/ WriteFailure(a) \/ WriteCompletion(a))
      <4>1. UNCHANGED <<cas, marker>>
        BY <2>4, <3>2 DEF Work, ReceiveNone, Receive, CheckMarker, LookAtFile, Hash, HeadCas, Delete
      <4> QED
        BY <2>1, <4>1
    <3> QED
      BY <3>1, <3>2
  <2>5. ASSUME AgentNext PROVE StoreGrows
    <3>1. (\E a \in Agents : Work(a)) \/ UNCHANGED <<cas, marker>>
      BY <2>5 DEF AgentNext, Crash, Reappear, Edit
    <3> QED
      BY <2>1, <2>4, <3>1
  <2>6. AgentNext \/ UNCHANGED <<cas, marker>>
    <3>1. UNCHANGED agentVars => UNCHANGED <<cas, marker>>
      BY DEF agentVars
    <3>2. \A f, queue, valid : Send(f, queue, valid) => UNCHANGED <<cas, marker>>
      BY DEF Send
    <3> QED
      BY <1>1, <3>1, <3>2 DEF Next, SendUnusable, Ask, Found
  <2> QED
    BY <2>1, <2>5, <2>6
<1>2. RelaxedInv /\ [Next]_vars => [StoreGrows]_vars
  BY <1>1
<1> QED
  BY <1>2, RelaxedInvariant, PTL DEF Spec

\* What a reader has taken from a completion marker stays good: from then on, there is
\* always an object under the hash that it named, also when an agent has replaced the
\* marker by a failure since.
THEOREM AnswersCanBeFetched ==
  ASSUME NEW f \in Files, NEW h \in Contents
  PROVE  Spec => [](marker[f] = [status |-> "completed", hash |-> h] => [](cas[h] # "none"))
<1> DEFINE Answered == marker[f] = [status |-> "completed", hash |-> h]
           Stored   == cas[h] # "none"
<1>1. MarkersHaveObjects => (Answered => Stored)
  BY DEF MarkersHaveObjects
<1>2. RequestsAreAccounted => MarkersHaveObjects
  BY DEF RequestsAreAccounted
<1>3. [StoreGrows]_vars => (Stored => Stored')
  <2>1. CASE StoreGrows
    BY <2>1 DEF StoreGrows
  <2>2. CASE UNCHANGED vars
    BY <2>2 DEF vars, agentVars
  <2> QED
    BY <2>1, <2>2
<1> HIDE DEF Answered, Stored
<1>4. Spec => [](Answered => []Stored)
  BY <1>1, <1>2, <1>3, RequestsCorrect, StoreOnlyGrows, PTL
<1> QED
  BY <1>4 DEF Answered, Stored

=============================================================================
