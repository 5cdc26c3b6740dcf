-------------------------------- MODULE MCJobs --------------------------------
(***************************************************************************)
(* A submission of every small request, and the manifests of a job from    *)
(* its workers to its callers.  The two have no state in common, so that   *)
(* each is explored on its own: see focus.  Keys are never overwritten and *)
(* a call lists them once, so that one call is explored after every course *)
(* of the workers, and several at once when they are done.  The inputs are *)
(* there before the job begins.  A parallel download touches no handle.    *)
(***************************************************************************)
EXTENDS Submission, TLC

CONSTANTS c1, c2, t1, step1

VARIABLES
  focus,  \* bound: "submission", "store" or "handles"
  bucket, attempt, begun, clock, call, number, handles, issued, taken, results, calls

Dirs  == {<<"m">>, <<"m", "p">>, <<"m", "p", "s">>, <<"h">>}
Nodes == Dirs \cup {<<"m", "x">>, <<"m", "p", "x">>, <<"m", "p", "y">>, <<"m", "p", "s", "x">>,
                    <<"m", "p", "s", "y">>, <<"h", "x">>}
Whole == [p \in Nodes |-> IF p \in Dirs THEN "dir" ELSE IF Last(p) = "x" THEN "c" ELSE "d"]

Profiles == {Profile({}, {}), Profile({<<"m", "p">>}, {<<"h">>}),
             Profile({<<"m", "p">>, <<"m", "p", "s">>}, {<<"h">>})}
UpTo(S, n) == UNION {kSubset(k, S) : k \in 0 .. n}
Gone       == <<"m", "gone">>

Asked == [inputs     : UpTo((Nodes \ {<<"m">>}) \cup {Gone}, 2),
          outputs    : UpTo({<<"m", "p", "s">>, <<"m", "o">>, <<"h", "o">>}, 1),
          references : UpTo({<<"m", "p", "r">>}, 1),
          profile    : Profiles,
          strict     : BOOLEAN]

\* A root without and one with a location; the second is mapped onto the first.
Tasks     == {t1}
StepLevel == step1
Callers   == {c1, c2}
JobRoots  == << [root |-> <<"/", "a">>, location |-> << >>],
                [root |-> <<"/", "a", "b">>, location |-> <<"L">>] >>
Rules     == << [source |-> <<"/", "a", "b">>, destination |-> <<"/", "a">>] >>
ActionIds == << <<1>>, <<1, 2>>, <<2>> >>
RootDirs  == << <<"/", "a", "b">> >>
Inputs    == 2
Files     == {"x", "y"}
Written   == <<{"x"}, {"x", "y"}>>
max_concurrency == 2
CONSTANTS MaxTime, MaxCalls

Store == INSTANCE ManifestStore

storeVars == <<bucket, attempt, begun, clock, call, number, handles, issued, taken, results, calls>>
vars == <<focus, submissionVars, storeVars>>

\* What an attempt at the task and a chunk left for the second root, and an input.
Stored(root, time, content) ==
  [manifest |-> Store!Model!Snapshot({}, [f \in {"x"} |-> content]), root |-> root, time |-> time]
Done == {(Store!OutputKey(t1, 2, JobRoots[i]) :> Stored(JobRoots[i].root, 1, 2))
           @@ (Store!OutputKey(step1, 1, JobRoots[2]) :> Stored(JobRoots[2].root, 0, 1))
           @@ (Store!InputKey(1, <<"/", "a">>) :> Stored(<<"/", "a">>, 0, 0))
           @@ (Store!InputKey(2, <<".">>) :> Stored(<<".">>, 0, 0)) : i \in {1, 2}}

Nobody == [inputs |-> {}, outputs |-> {}, references |-> {}, profile |-> Profile({}, {}), strict |-> FALSE]

Init ==
  /\ SubmissionInit({Whole})
  /\ \/ focus = "submission" /\ Store!StoreInit({<< >>}, 0, 0)
     \/ focus = "store" /\ request = Nobody /\ Store!StoreInit({<< >>}, 0, MaxCalls - 1)
     \/ focus = "handles" /\ request = Nobody /\ Store!StoreInit(Done, Len(ActionIds), 0)

Next ==
  /\ UNCHANGED focus
  /\ \/ focus = "submission" /\ SubmissionNext /\ UNCHANGED storeVars
     \/ /\ focus # "submission" /\ Store!StoreNext /\ UNCHANGED submissionVars
        /\ calls = MaxCalls => UNCHANGED <<bucket, attempt, begun, clock>>
        /\ focus = "handles" => \A c \in Callers : call'[c].mode # "parallel"
        /\ Cardinality(Store!Outputs("input")) < Inputs => UNCHANGED <<begun, clock, calls>>

CallerSymmetry == Permutations(Callers)

Spec == Init /\ [][Next]_vars

TypeOK           == SubmissionTypeOK /\ Store!StoreTypeOK
RetryWins        == Store!RetryWins
HandlesAreUnique == Store!HandlesAreUnique
WrittenIsWhole   == Store!WrittenIsWhole
LaterWins        == Store!LaterWins
OutputsWin       == Store!OutputsWin
MatchedToOwnRoot == Store!MatchedToOwnRoot
FindsTheAction   == Store!FindsTheAction

\* What is submitted has every input under one root of its own, its outputs listed,
\* and is uploaded before the job can name it.
SubmissionsAreComplete ==
  TypeOK /\ InputsAreAttached /\ AttachedIsUploaded /\ RootsDiffer /\ OutputsAreListed

\* The manifests found for a job are its own, whole, and the later wins.
ResultsAreWhole ==
  HandlesAreUnique /\ WrittenIsWhole /\ LaterWins /\ OutputsWin /\ MatchedToOwnRoot /\ FindsTheAction

=============================================================================
