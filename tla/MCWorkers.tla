----------------------------- MODULE MCWorkers -----------------------------
(***************************************************************************)
(* Small instances of Workers for TLC.                                     *)
(***************************************************************************)
EXTENDS WorkersInvariant, TLC

CONSTANTS a, b, c, d, w1, w2, r1, r2, i1, i2

\* Every tick runs in the same server process, or one tick in another.
OneInstance == [t \in Tick \cup RTick |-> i1]

TwoInstances == (w1 :> i1) @@ (w2 :> i2) @@ (r1 :> i1)

\* The shapes of plans: independent tasks, a sequence, a task that waits for two,
\* and three tasks that are ready at once with one that waits for two of them.
Pair == (a :> {}) @@ (b :> {})

Chain == (a :> {}) @@ (b :> {a})

FanIn == (a :> {}) @@ (b :> {}) @@ (c :> {a, b})

TwoWaves == (a :> {}) @@ (b :> {}) @@ (c :> {}) @@ (d :> {a, b})

\* What the theorems about Workers take for granted is so here.
ASSUME HypothesisHolds == SingleInstance

=============================================================================
