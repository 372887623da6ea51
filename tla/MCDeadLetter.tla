---------------------------- MODULE MCDeadLetter ----------------------------
(***************************************************************************)
(* Small instances of DeadLetter for TLC.                                  *)
(***************************************************************************)
EXTENDS DeadLetter, TLC

CONSTANTS a, b, w1, w2, r1, i1, q1, q2

\* Every tick runs in the one server process.
OneInstance == [t \in Tick \cup RTick |-> i1]

\* Two tasks, neither of which waits for the other.
Pair == (a :> {}) @@ (b :> {})

\* The execution ticks run the same code in the same process, and so do the requests.
Alike == Permutations(Tick) \cup Permutations(Request)

=============================================================================
