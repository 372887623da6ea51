---------------------------- MODULE DagExecution ----------------------------
(***************************************************************************)
(* What the scheduler promises of a run, without its workers, queues and   *)
(* retries: tasks start only after the tasks they depend on are done, no   *)
(* more than MaxConcurrent run at once, what is done stays done, and the   *)
(* run is over exactly once, with everything done.                         *)
(***************************************************************************)
EXTENDS Integers, FiniteSets

CONSTANTS Task, Deps, MaxConcurrent

VARIABLES
    running,   \* tasks that have been handed out
    done,      \* tasks whose result is final
    over       \* the run is declared complete

Init ==
    /\ running = {}
    /\ done = {}
    /\ over = FALSE

Start(S) ==
    /\ ~ over
    /\ S \cap (running \cup done) = {}
    /\ \A t \in S : Deps[t] \subseteq done
    /\ Cardinality(running \cup S) <= MaxConcurrent
    /\ running' = running \cup S
    /\ UNCHANGED <<done, over>>

Accomplish(t) ==
    /\ t \in running
    /\ running' = running \ {t}
    /\ done' = done \cup {t}
    /\ UNCHANGED over

\* Tasks fail, are cancelled or are put back.
Abandon(S) ==
    /\ S \subseteq running
    /\ running' = running \ S
    /\ UNCHANGED <<done, over>>

Close ==
    /\ done = Task
    /\ over' = TRUE
    /\ UNCHANGED <<running, done>>

Next ==
    \/ \E S \in SUBSET Task : Start(S) \/ Abandon(S)
    \/ \E t \in Task : Accomplish(t)
    \/ Close

Spec == Init /\ [][Next]_<<running, done, over>>

=============================================================================
