----------------------------- MODULE MCOperator -----------------------------
(***************************************************************************)
(* Small instances of Operator for TLC.                                    *)
(***************************************************************************)
EXTENDS OperatorInvariant, TLC

CONSTANTS a, b, c, w1, w2, r1, r2, i1, q1

\* Every tick runs in the one server process.
OneInstance == [t \in Tick \cup RTick |-> i1]

\* The shapes of plans, as in MCWorkers.
Pair == (a :> {}) @@ (b :> {})

Chain == (a :> {}) @@ (b :> {a})

FanIn == (a :> {}) @@ (b :> {}) @@ (c :> {a, b})

\* The ticks of the execution worker run the same code.
Ticks == Permutations(Tick)

\* What the theorems about Operator take for granted is so here.
ASSUME HypothesesHold == SingleInstance /\ NoLateRejection

=============================================================================
