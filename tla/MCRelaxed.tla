----------------------------- MODULE MCRelaxed -----------------------------
(* Instance for TLC: two readers and two agents that serve one file. *)
EXTENDS Relaxed, TLC

CONSTANTS c1, c2, a1, a2, f1

SomeFiles  == [f \in Files |-> "old"]
Everything == [a \in Agents |-> Files]

=============================================================================
