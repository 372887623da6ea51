---------------------------- MODULE MCTaskRoutes ----------------------------
(***************************************************************************)
(* Small instances of TaskRoutes for TLC.                                  *)
(***************************************************************************)
EXTENDS TaskRoutes, TLC

CONSTANTS a, b, w1, r1, i1, q1, x1, x2

OneInstance == [t \in Tick \cup RTick |-> i1]

\* The shapes of plans, as in MCWorkers.
Pair == (a :> {}) @@ (b :> {})

Chain == (a :> {}) @@ (b :> {a})

TaskRequests == Permutations(TaskRequest)

=============================================================================
