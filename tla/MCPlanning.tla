----------------------------- MODULE MCPlanning -----------------------------
(***************************************************************************)
(* Small instances of Planning for TLC.                                    *)
(***************************************************************************)
EXTENDS Planning, TLC

CONSTANTS a, b, t1, t2, q1

Customs == {<< >>, <<b, a>>}

\* A workflow whose roles depend on each other, with a role that occurs twice.
Entangled ==
    [agentSequence |-> <<a, b, a>>, dependencies |-> (a :> {b}) @@ (b :> {a})]

OneWorkflow == {Entangled}

\* A plan to execute, one that names a task it does not have, and one in which
\* two tasks wait for each other.
Requested(depsOfFirst, depsOfSecond) ==
    <<[agentRole |-> a, dependsOn |-> depsOfFirst],
      [agentRole |-> b, dependsOn |-> depsOfSecond]>>

OrdinaryPlans == {Requested({}, {1}), Requested({}, {3})}

CyclicPlans == {Requested({2}, {1})}

=============================================================================
