--------------------------- MODULE PlanningProofs ---------------------------
(***************************************************************************)
(* Proofs about Planning, for every workflow, number of planners and       *)
(* faults: what the planning worker writes can be executed to its end, and *)
(* no run is routed without tasks.                                         *)
(***************************************************************************)
EXTENDS Planning, FiniteSetTheorems, SequenceTheorems, WellFoundedInduction, TLAPS

\* A nonempty set of naturals has a smallest element.
LEMMA SmallestNat ==
    ASSUME NEW S \in SUBSET Nat, S # {}
    PROVE  \E i \in S : \A j \in S : ~ (j < i)
<1> DEFINE R == OpToRel(<, Nat)
<1>1. \E i \in S : \A j \in S : <<j, i>> \notin R
  <2> HIDE DEF R
  <2>1. IsWellFoundedOn(R, Nat)
    BY NatLessThanWellFounded DEF R
  <2> QED
    BY <2>1, WFMin
<1>2. \A i, j \in Nat : j < i => <<j, i>> \in R
  BY DEF OpToRel
<1> QED
  BY <1>1, <1>2

\* Every task waits only for tasks that come before it.
Forward(tasks) == \A i \in DOMAIN tasks : tasks[i].dependsOn \subseteq 1..(i - 1)

\* ... so no set of them waits for itself: its first task cannot.
LEMMA ForwardAcyclic ==
    ASSUME NEW tasks \in Seq(PlanTask), Forward(tasks)
    PROVE  Acyclic(tasks)
<1> SUFFICES ASSUME NEW S \in SUBSET DOMAIN tasks, S # {}
             PROVE  \E i \in S : tasks[i].dependsOn \cap S = {}
  BY DEF Acyclic
<1>1. S \in SUBSET Nat
  OBVIOUS
<1>2. PICK i \in S : \A j \in S : ~ (j < i)
  BY <1>1, SmallestNat
<1>3. tasks[i].dependsOn \subseteq 1..(i - 1)
  BY DEF Forward
<1> QED
  BY <1>1, <1>2, <1>3

\* The tasks the planning worker makes up from a sequence of agents.
LEMMA TasksOfForward ==
    ASSUME NEW agents \in Seq(Role), NEW dependencies
    PROVE  /\ TasksOf(agents, dependencies) \in Seq(PlanTask)
           /\ Forward(TasksOf(agents, dependencies))
<1>1. ASSUME NEW i \in DOMAIN agents
      PROVE  DependsOn(agents, dependencies, i) \subseteq 1..(i - 1)
  BY DEF DependsOn, ExplicitDeps
<1>2. \A i \in DOMAIN agents :
          [agentRole |-> agents[i], dependsOn |-> DependsOn(agents, dependencies, i)]
            \in PlanTask
  <2> TAKE i \in DOMAIN agents
  <2>1. agents[i] \in Role
    OBVIOUS
  <2>2. DependsOn(agents, dependencies, i) \subseteq Nat \ {0}
    BY <1>1
  <2> QED
    BY <2>1, <2>2 DEF PlanTask
<1>3. TasksOf(agents, dependencies) \in [1..Len(agents) -> PlanTask]
  BY <1>2 DEF TasksOf
<1>4. TasksOf(agents, dependencies) \in Seq(PlanTask)
  BY <1>3
<1> QED
  BY <1>1, <1>4 DEF Forward, TasksOf

\* A draft of the planning worker is forward; a planner that writes has tasks to
\* write, and one that routes the run has written them.
DraftsForward == \A p \in Tick : Forward(draft[p])

PlansForward == \A k \in DOMAIN plans : plans[k].by \in Tick => Forward(plans[k].tasks)

Planned == \E k \in DOMAIN plans : plans[k].tasks # << >>

DraftsReady ==
    \A p \in Planner :
        /\ pc[p] \in {"verify", "create"} => draft[p] # << >>
        /\ pc[p] = "route" => Planned

PlanningInv ==
    /\ PlanningTypeOK
    /\ DraftsForward
    /\ PlansForward
    /\ DraftsReady
    /\ RoutedWithPlan

LEMMA InitPlanning == Init => PlanningInv
BY FaultsAssumption
DEF Init, PlanningInv, PlanningTypeOK, RunStates, Planner, DraftsForward, Forward,
    PlansForward, DraftsReady, RoutedWithPlan

\* One case for each planner's step: what it does to its own place, draft and to
\* the plans, and to the state of the run.
LEMMA StepTypes ==
    ASSUME PlanningInv, [Next]_vars
    PROVE  PlanningTypeOK'
<1> USE FaultsAssumption DEF PlanningInv, PlanningTypeOK
<1>1. ASSUME NEW p \in Tick, TickStep(p) PROVE PlanningTypeOK'
  <2>0. p \in Planner
    BY DEF Planner
  <2>1. CASE Fire(p)
    BY <2>0, <2>1 DEF Fire, Step, settings
  <2>2. CASE Read(p)
    <3>1. ResolvedTasks \in Seq(PlanTask)
      BY SequencesAssumption, WorkflowsAssumption, TasksOfForward DEF ResolvedTasks
    <3> QED
      BY <2>0, <2>2, <3>1 DEF Read, AfterReading, Step, settings
  <2>3. CASE Verify(p)
    BY <2>0, <2>3 DEF Verify, Step, settings
  <2>4. CASE FailRun(p)
    BY <2>0, <2>4 DEF FailRun, Step, settings, TryRunMove, RunStates
  <2> QED
    BY <1>1, <2>1, <2>2, <2>3, <2>4 DEF TickStep
<1>2. ASSUME NEW q \in Request, RequestStep(q) PROVE PlanningTypeOK'
  <2>0. q \in Planner
    BY DEF Planner
  <2>1. CASE Accept(q)
    BY <2>0, <2>1, RequestedAssumption DEF Accept, Step, settings
  <2>2. CASE CreateThrows(q)
    BY <2>0, <2>2 DEF CreateThrows, Step, settings
  <2> QED
    BY <1>2, <2>1, <2>2 DEF RequestStep
<1>3. ASSUME NEW p \in Planner, WriteStep(p) \/ Refused(p) PROVE PlanningTypeOK'
  <2>1. CASE Create(p)
    <3>1. plans' \in Seq([by : Planner, tasks : Seq(PlanTask)])
      BY <2>1, AppendProperties DEF Create
    <3> QED
      BY <2>1, <3>1 DEF Create, Step, settings
  <2>2. CASE Route(p)
    BY <2>2 DEF Route, Step, settings, TryRunMove, RunStates
  <2>3. CASE Refused(p)
    BY <2>3 DEF Refused, Fault, Step, settings
  <2> QED
    BY <1>3, <2>1, <2>2, <2>3 DEF WriteStep
<1>4. CASE Start
  BY <1>4 DEF Start, TryRunMove, RunStates, settings
<1>5. CASE CancelRun
  BY <1>5 DEF CancelRun, RunStates, settings
<1>6. CASE Resume
  BY <1>6 DEF Resume, Fault, RunStates, settings
<1>7. CASE TakeOn
  BY <1>7 DEF TakeOn, RunStates, settings
<1>8. CASE EditWorkflow
  BY <1>8 DEF EditWorkflow
<1>9. CASE CreateRole \/ DeleteRole
  BY <1>9 DEF CreateRole, DeleteRole
<1>12. CASE CreateWorkflow \/ DeleteWorkflow
  BY <1>12 DEF CreateWorkflow, DeleteWorkflow
<1>10. CASE Restart
  BY <1>10 DEF Restart, Fault, settings
<1>11. CASE UNCHANGED vars
  BY <1>11 DEF vars, settings
<1> QED
  BY <1>1, <1>2, <1>3, <1>4, <1>5, <1>6, <1>7, <1>8, <1>9, <1>10, <1>11, <1>12 DEF Next

\* What Create appends is one more plan, and the others stay where they are.
LEMMA CreateAppends ==
    ASSUME PlanningInv, NEW p \in Planner, Create(p)
    PROVE  /\ draft[p] # << >>
           /\ DOMAIN plans' = DOMAIN plans \cup {Len(plans) + 1}
           /\ \A k \in DOMAIN plans : plans'[k] = plans[k]
           /\ plans'[Len(plans) + 1] = [by |-> p, tasks |-> draft[p]]
           /\ Planned'
<1>0. pc[p] = "create" /\ draft[p] # << >>
  BY DEF Create, Step, PlanningInv, DraftsReady
<1>1. /\ [by |-> p, tasks |-> draft[p]] \in [by : Planner, tasks : Seq(PlanTask)]
      /\ plans \in Seq([by : Planner, tasks : Seq(PlanTask)])
  BY DEF PlanningInv, PlanningTypeOK
<1>2. /\ plans' = Append(plans, [by |-> p, tasks |-> draft[p]])
  BY DEF Create
<1>3. /\ Len(plans') = Len(plans) + 1
      /\ \A k \in 1..Len(plans) : plans'[k] = plans[k]
      /\ plans'[Len(plans) + 1] = [by |-> p, tasks |-> draft[p]]
      /\ plans' \in Seq([by : Planner, tasks : Seq(PlanTask)])
  BY <1>1, <1>2, AppendProperties
<1>4. Len(plans) \in Nat /\ DOMAIN plans = 1..Len(plans) /\ DOMAIN plans' = 1..Len(plans')
  BY <1>1, <1>3
<1>5. DOMAIN plans' = DOMAIN plans \cup {Len(plans) + 1}
  BY <1>3, <1>4
<1>6. Planned'
  BY <1>0, <1>3, <1>5 DEF Planned
<1> QED
  BY <1>0, <1>3, <1>4, <1>5, <1>6

\* What is planned stays planned.
LEMMA PlannedStays ==
    ASSUME PlanningInv, [Next]_vars, Planned
    PROVE  Planned'
<1>1. ASSUME NEW p \in Planner, Create(p) PROVE Planned'
  BY <1>1, CreateAppends
<1>2. CASE UNCHANGED plans
  BY <1>2 DEF Planned
<1> QED
  BY <1>1, <1>2
  DEF Next, vars, TickStep, Fire, Read, Verify, FailRun, RequestStep, Accept,
      CreateThrows, WriteStep, Route, Refused, Start, CancelRun, Resume, TakeOn,
      EditWorkflow, CreateWorkflow, DeleteWorkflow, CreateRole, DeleteRole, Restart

\* Only the steps of planners touch drafts and plans.
LEMMA StepForward ==
    ASSUME PlanningInv, [Next]_vars
    PROVE  DraftsForward' /\ PlansForward'
<1> USE DEF PlanningInv
<1>0. Forward(<< >>)
  BY DEF Forward
<1>1. ASSUME NEW p \in Tick, Read(p) PROVE DraftsForward' /\ PlansForward'
  <2>1. Forward(ResolvedTasks)
    BY <1>0, SequencesAssumption, WorkflowsAssumption, TasksOfForward
    DEF ResolvedTasks, PlanningTypeOK
  <2>2. \A t \in Tick : draft'[t] = IF t = p THEN ResolvedTasks ELSE draft[t]
    BY <1>1 DEF Read, PlanningTypeOK, Planner
  <2> QED
    BY <1>1, <2>1, <2>2 DEF Read, DraftsForward, PlansForward
<1>2. ASSUME NEW q \in Request, Accept(q) PROVE DraftsForward' /\ PlansForward'
  <2>1. \A t \in Tick : draft'[t] = draft[t]
    BY <1>2, PlannerAssumption DEF Accept, PlanningTypeOK, Planner
  <2> QED
    BY <1>2, <2>1 DEF Accept, DraftsForward, PlansForward
<1>3. ASSUME NEW p \in Planner, Create(p) PROVE DraftsForward' /\ PlansForward'
  <2>1. p \in Tick => Forward(draft[p])
    BY DEF DraftsForward
  <2>2. PlansForward'
    <3> SUFFICES ASSUME NEW k \in DOMAIN plans', plans'[k].by \in Tick
                 PROVE  Forward(plans'[k].tasks)
      BY DEF PlansForward
    <3>1. CASE k \in DOMAIN plans
      BY <1>3, <3>1, CreateAppends DEF PlansForward
    <3>2. CASE k = Len(plans) + 1
      <4>1. plans'[k] = [by |-> p, tasks |-> draft[p]]
        BY <1>3, <3>2, CreateAppends
      <4> QED
        BY <2>1, <4>1
    <3> QED
      BY <1>3, <3>1, <3>2, CreateAppends
  <2> QED
    BY <1>3, <2>2 DEF Create, DraftsForward
<1>4. ASSUME NEW p \in Planner, plans' = plans,
             draft' = [draft EXCEPT ![p] = << >>]
      PROVE  DraftsForward' /\ PlansForward'
  <2>1. \A t \in Tick : draft'[t] = draft[t] \/ draft'[t] = << >>
    BY <1>4 DEF PlanningTypeOK, Planner
  <2> QED
    BY <1>0, <1>4, <2>1 DEF DraftsForward, PlansForward
<1>5. CASE Restart
  BY <1>0, <1>5 DEF Restart, DraftsForward, PlansForward, Planner
<1>6. CASE UNCHANGED <<draft, plans>>
  BY <1>6 DEF DraftsForward, PlansForward
<1> QED
  BY <1>1, <1>2, <1>3, <1>4, <1>5, <1>6
  DEF Next, vars, TickStep, Fire, Verify, FailRun, RequestStep, CreateThrows,
      WriteStep, Route, Refused, Start, CancelRun, Resume, TakeOn, EditWorkflow,
      CreateWorkflow, DeleteWorkflow, CreateRole, DeleteRole, Planner

\* A planner reaches its next step with what that step relies on.
LEMMA StepReady ==
    ASSUME PlanningInv, [Next]_vars
    PROVE  DraftsReady'
<1> USE DEF PlanningInv
<1>0. Planned => Planned'
  BY PlannedStays
<1>1. ASSUME NEW p \in Planner,
             \A t \in Planner : t # p => pc'[t] = pc[t] /\ draft'[t] = draft[t],
             pc'[p] \in {"verify", "create"} => draft'[p] # << >>,
             pc'[p] = "route" => Planned'
      PROVE  DraftsReady'
  BY <1>0, <1>1 DEF DraftsReady
<1>2. ASSUME NEW p \in Tick, TickStep(p) PROVE DraftsReady'
  <2>0. p \in Planner
    BY DEF Planner
  <2>1. CASE Fire(p)
    BY <1>1, <2>0, <2>1 DEF Fire, Step, PlanningTypeOK
  <2>2. CASE Read(p)
    BY <1>1, <2>0, <2>2 DEF Read, AfterReading, Step, PlanningTypeOK
  <2>3. CASE Verify(p)
    BY <1>1, <2>0, <2>3 DEF Verify, Step, PlanningTypeOK, DraftsReady
  <2>4. CASE FailRun(p)
    BY <1>1, <2>0, <2>4 DEF FailRun, Step, PlanningTypeOK
  <2> QED
    BY <1>2, <2>1, <2>2, <2>3, <2>4 DEF TickStep
<1>3. ASSUME NEW q \in Request, RequestStep(q) PROVE DraftsReady'
  <2>0. q \in Planner
    BY DEF Planner
  <2>1. CASE Accept(q)
    BY <1>1, <2>0, <2>1, RequestedAssumption DEF Accept, Step, PlanningTypeOK
  <2>2. CASE CreateThrows(q)
    BY <1>1, <2>0, <2>2 DEF CreateThrows, Step, PlanningTypeOK
  <2> QED
    BY <1>3, <2>1, <2>2 DEF RequestStep
<1>4. ASSUME NEW p \in Planner, WriteStep(p) \/ Refused(p) PROVE DraftsReady'
  <2>1. CASE Create(p)
    BY <1>1, <2>1, CreateAppends DEF Create, Step, PlanningTypeOK
  <2>2. CASE Route(p)
    BY <1>1, <2>2 DEF Route, Step, PlanningTypeOK
  <2>3. CASE Refused(p)
    BY <1>1, <2>3 DEF Refused, Step, PlanningTypeOK
  <2> QED
    BY <1>4, <2>1, <2>2, <2>3 DEF WriteStep
<1>5. CASE Restart
  BY <1>5 DEF Restart, DraftsReady
<1>6. CASE UNCHANGED <<pc, draft>>
  BY <1>0, <1>6 DEF DraftsReady
<1> QED
  BY <1>2, <1>3, <1>4, <1>5, <1>6
  DEF Next, vars, Start, CancelRun, Resume, TakeOn, EditWorkflow,
      CreateWorkflow, DeleteWorkflow, CreateRole, DeleteRole

\* The run reaches ROUTING by Route only, and the states after it from there.
LEMMA StepRouted ==
    ASSUME PlanningInv, [Next]_vars
    PROVE  RoutedWithPlan'
<1> USE DEF PlanningInv
<1> DEFINE Routed == {"ROUTING", "EXECUTING", "COMPLETED"}
<1>0. Planned => Planned'
  BY PlannedStays
<1>1. runState' \in Routed => runState \in Routed \/ Planned
  <2>1. ASSUME NEW p \in Planner, Route(p) PROVE Planned
    BY <2>1 DEF Route, Step, DraftsReady
  <2>2. ASSUME NEW p \in Tick, TickStep(p) PROVE runState' \in {runState, "FAILED"}
    BY <2>2 DEF TickStep, Fire, Read, Verify, FailRun, TryRunMove
  <2>3. ASSUME NEW q \in Request, RequestStep(q) PROVE runState' = runState
    BY <2>3 DEF RequestStep, Accept, CreateThrows
  <2>4. ASSUME NEW p \in Planner, Create(p) \/ Refused(p) PROVE runState' = runState
    BY <2>4 DEF Create, Refused
  <2>5. CASE Start \/ CancelRun \/ Resume \/ TakeOn
    BY <2>5 DEF Start, TryRunMove, CancelRun, Resume, TakeOn
  <2>6. CASE EditWorkflow \/ Restart \/ UNCHANGED vars
    BY <2>6 DEF EditWorkflow, Restart, vars
  <2>7. CASE CreateWorkflow \/ DeleteWorkflow \/ CreateRole \/ DeleteRole
    BY <2>7 DEF CreateWorkflow, DeleteWorkflow, CreateRole, DeleteRole
  <2> QED
    BY <2>1, <2>2, <2>3, <2>4, <2>5, <2>6, <2>7 DEF Next, WriteStep
<1> QED
  BY <1>0, <1>1 DEF RoutedWithPlan, Planned

LEMMA StepPlanning ==
    ASSUME PlanningInv, [Next]_vars
    PROVE  PlanningInv'
BY StepTypes, StepForward, StepReady, StepRouted DEF PlanningInv

LEMMA PlanningInvariant == Spec => []PlanningInv
<1>1. PlanningInv /\ [Next]_vars => PlanningInv'
  BY StepPlanning
<1> QED
  BY InitPlanning, <1>1, PTL DEF Spec

-----------------------------------------------------------------------------
(***************************************************************************)
(* How often a run is planned.  Between two faults a planner writes at     *)
(* most one plan: when it is done with it, the run has left PLANNING.      *)
(***************************************************************************)

\* The planners that may still write a plan before the next fault.
Able ==
    {p \in Planner :
        \/ pc[p] \in {"read", "verify", "create"}
        \/ pc[p] = "idle" /\ runState \in {"DRAFT", "PLANNING"}}

Untouched == runState = "DRAFT" => \A p \in Planner : pc[p] = "idle"

PlansCounted == Len(plans) + Cardinality(Able) <= Cardinality(Planner) * (1 + faults)

LEMMA PlannersFinite ==
    /\ IsFiniteSet(Planner) /\ Cardinality(Planner) \in Nat
    /\ \A S \in SUBSET Planner :
          /\ IsFiniteSet(S) /\ Cardinality(S) \in Nat
          /\ Cardinality(S) <= Cardinality(Planner)
          /\ \A T \in SUBSET S : Cardinality(T) <= Cardinality(S)
<1>1. IsFiniteSet(Planner)
  BY PlannerAssumption, FS_Union DEF Planner
<1>2. ASSUME NEW S \in SUBSET Planner PROVE IsFiniteSet(S)
  BY <1>1, FS_Subset
<1> QED
  BY <1>1, <1>2, FS_Subset, FS_CardinalityType

\* A step of no planner, and one that ends a planner's attempt, make nobody able again
\* that was not, unless it is a fault.
LEMMA AbleShrinks ==
    ASSUME PlanningInv, Untouched, [Next]_vars, faults' = faults
    PROVE  Able' \subseteq Able /\ Untouched'
<1> USE DEF PlanningInv, PlanningTypeOK
<1>1. ASSUME NEW p \in Planner, runState' = runState, pc' = [pc EXCEPT ![p] = pc'[p]],
             pc[p] = "idle" => runState = "PLANNING",
             pc[p] \in {"route", "fail"} => pc'[p] # "idle",
             pc[p] = "fail" => pc'[p] = "fail", pc[p] = "route" => pc'[p] = "route"
      PROVE  Able' \subseteq Able /\ Untouched'
  BY <1>1 DEF Able, Untouched
<1>2. ASSUME NEW p \in Planner, pc[p] \in {"route", "fail"}, pc' = [pc EXCEPT ![p] = "idle"],
             \E target \in {"ROUTING", "FAILED"} : TryRunMove(target),
             runState = "PLANNING" => runState' # "PLANNING"
      PROVE  Able' \subseteq Able /\ Untouched'
  <2>1. runState # "DRAFT"
    BY <1>2 DEF Untouched
  <2>2. runState' \notin {"DRAFT", "PLANNING"}
    BY <1>2, <2>1 DEF TryRunMove
  <2> QED
    BY <1>2, <2>2 DEF Able, Untouched
<1>3. ASSUME NEW p \in Tick, TickStep(p) PROVE Able' \subseteq Able /\ Untouched'
  <2>0. p \in Planner
    BY DEF Planner
  <2>1. CASE Fire(p)
    BY <1>1, <2>0, <2>1 DEF Fire, Step
  <2>2. CASE Read(p)
    BY <1>1, <2>0, <2>2 DEF Read, AfterReading, Step
  <2>3. CASE Verify(p)
    BY <1>1, <2>0, <2>3 DEF Verify, Step
  <2>4. CASE FailRun(p)
    BY <1>2, <2>0, <2>4
    DEF FailRun, Step, TryRunMove, CanRunMove, LegalRunTransitions
  <2> QED
    BY <1>3, <2>1, <2>2, <2>3, <2>4 DEF TickStep
<1>4. ASSUME NEW q \in Request, RequestStep(q) PROVE Able' \subseteq Able /\ Untouched'
  <2>0. q \in Planner
    BY DEF Planner
  <2>1. CASE Accept(q)
    BY <1>1, <2>0, <2>1 DEF Accept, Step
  <2>2. CASE CreateThrows(q)
    BY <1>1, <2>0, <2>2 DEF CreateThrows, Step
  <2> QED
    BY <1>4, <2>1, <2>2 DEF RequestStep
<1>5. ASSUME NEW p \in Planner, WriteStep(p) \/ Refused(p)
      PROVE  Able' \subseteq Able /\ Untouched'
  <2>1. CASE Create(p)
    BY <1>1, <2>1 DEF Create, Step
  <2>2. CASE Route(p)
    BY <1>2, <2>2 DEF Route, Step, TryRunMove, CanRunMove, LegalRunTransitions
  <2>3. CASE Refused(p)
    BY <2>3 DEF Refused, Fault
  <2> QED
    BY <1>5, <2>1, <2>2, <2>3 DEF WriteStep
<1>6. CASE Start \/ CancelRun \/ TakeOn
  <2>1. /\ pc' = pc
        /\ runState' \in {"DRAFT", "PLANNING"} => runState \in {"DRAFT", "PLANNING"}
        /\ runState' = "DRAFT" => runState = "DRAFT"
    BY <1>6 DEF Start, CancelRun, TakeOn, TryRunMove
  <2> QED
    BY <2>1 DEF Able, Untouched
<1>7. CASE Resume \/ Restart
  BY <1>7 DEF Resume, Restart, Fault
<1>8. CASE UNCHANGED <<runState, pc>>
  BY <1>8 DEF Able, Untouched
<1> QED
  BY <1>3, <1>4, <1>5, <1>6, <1>7, <1>8
  DEF Next, vars, EditWorkflow, CreateWorkflow, DeleteWorkflow, CreateRole, DeleteRole

\* A fault writes no plan, and starts the count of every planner again.
LEMMA FaultCounted ==
    ASSUME PlanningInv, Untouched, PlansCounted, Next, faults' # faults
    PROVE  Untouched' /\ PlansCounted'
<1> USE DEF PlanningInv, PlanningTypeOK
<1>1. Fault /\ plans' = plans /\ Untouched'
  <2>1. ASSUME NEW p \in Planner, Refused(p) PROVE Fault /\ plans' = plans /\ Untouched'
    BY <2>1 DEF Refused, Step, Untouched
  <2>2. CASE Resume \/ Restart
    BY <2>2 DEF Resume, Restart, Untouched
  <2> QED
    BY <2>1, <2>2
    DEF Next, TickStep, Fire, Read, Verify, FailRun, RequestStep, Accept, CreateThrows,
        WriteStep, Create, Route, Start, CancelRun, TakeOn, EditWorkflow, CreateWorkflow,
        DeleteWorkflow, CreateRole, DeleteRole
<1> DEFINE N == Cardinality(Planner)
<1>2. /\ N \in Nat /\ Len(plans) \in Nat /\ faults \in Nat /\ faults' = faults + 1
      /\ Cardinality(Able) \in Nat /\ Cardinality(Able') \in Nat
      /\ Cardinality(Able') <= N
  BY <1>1, PlannersFinite, FaultsAssumption DEF Able, Fault
<1>3. N * (1 + faults') = N * (1 + faults) + N
  BY <1>2
<1>4. N * (1 + faults) \in Nat /\ N * (1 + faults') \in Nat
  BY <1>2
<1>5. Len(plans) + Cardinality(Able) <= N * (1 + faults)
  BY DEF PlansCounted
<1> QED
  <2> DEFINE before == N * (1 + faults)
             after == N * (1 + faults')
  <2> HIDE DEF N, before, after
  <2>1. Len(plans') + Cardinality(Able') <= after
    BY <1>1, <1>2, <1>3, <1>4, <1>5 DEF before, after
  <2> QED
    BY <1>1, <2>1 DEF PlansCounted, after, N

\* Who writes a plan was able to, and is not any more.
LEMMA CreateCounted ==
    ASSUME PlanningInv, Untouched, PlansCounted, [Next]_vars, faults' = faults,
           NEW p \in Planner, Create(p)
    PROVE  PlansCounted'
<1>1. p \in Able /\ p \notin Able'
  BY DEF Create, Step, Able, PlanningInv, PlanningTypeOK
<1>2. Able' \subseteq Able \ {p}
  BY <1>1, AbleShrinks
<1>3. /\ IsFiniteSet(Able) /\ Able \in SUBSET Planner /\ Able \ {p} \in SUBSET Planner
      /\ Able' \in SUBSET (Able \ {p})
  BY <1>2, PlannersFinite DEF Able
<1>4. Cardinality(Able \ {p}) = Cardinality(Able) - 1
  BY <1>1, <1>3, FS_RemoveElement
<1>5. Len(plans') = Len(plans) + 1 /\ Len(plans) \in Nat
  BY AppendProperties DEF Create, PlanningInv, PlanningTypeOK
<1>6. Cardinality(Able') <= Cardinality(Able \ {p}) /\ Cardinality(Able) \in Nat
      /\ Cardinality(Able') \in Nat
  BY <1>3, PlannersFinite
<1>7. PlansCounted' <=> Len(plans') + Cardinality(Able') <= Cardinality(Planner) * (1 + faults)
  BY DEF PlansCounted
<1>8. Cardinality(Planner) * (1 + faults) \in Nat
  BY PlannersFinite, FaultsAssumption DEF PlanningInv, PlanningTypeOK
<1> DEFINE bound == Cardinality(Planner) * (1 + faults)
<1>9. bound \in Nat /\ Len(plans) + Cardinality(Able) <= bound
  BY <1>8 DEF PlansCounted
<1> HIDE DEF bound
<1>10. Len(plans') + Cardinality(Able') <= bound
  BY <1>4, <1>5, <1>6, <1>9
<1> QED
  BY <1>7, <1>10 DEF bound

LEMMA StepCounted ==
    ASSUME PlanningInv, Untouched, PlansCounted, [Next]_vars
    PROVE  Untouched' /\ PlansCounted'
<1>1. CASE faults' # faults
  BY <1>1, FaultCounted DEF vars
<1>2. CASE faults' = faults
  <2>1. Able' \subseteq Able /\ Untouched'
    BY <1>2, AbleShrinks
  <2>2. ASSUME NEW p \in Planner, Create(p) PROVE PlansCounted'
    BY <1>2, <2>2, CreateCounted
  <2>3. ASSUME plans' = plans PROVE PlansCounted'
    <3>1. Able \in SUBSET Planner /\ Able' \in SUBSET Able
      BY <2>1 DEF Able
    <3>2. /\ Cardinality(Able') <= Cardinality(Able) /\ Cardinality(Able) \in Nat
          /\ Cardinality(Able') \in Nat /\ Len(plans) \in Nat
      BY <3>1, PlannersFinite DEF PlanningInv, PlanningTypeOK
    <3> DEFINE bound == Cardinality(Planner) * (1 + faults)
    <3>3. bound \in Nat
      BY PlannersFinite, FaultsAssumption DEF PlanningInv, PlanningTypeOK
    <3>4. Len(plans) + Cardinality(Able) <= bound
      BY DEF PlansCounted
    <3>5. PlansCounted' <=> Len(plans') + Cardinality(Able') <= bound
      BY <1>2 DEF PlansCounted
    <3> HIDE DEF bound
    <3> QED
      BY <2>3, <3>2, <3>3, <3>4, <3>5
  <2>4. plans' = plans \/ \E p \in Planner : Create(p)
    BY DEF Next, vars, TickStep, Fire, Read, Verify, FailRun, RequestStep, Accept,
           CreateThrows, WriteStep, Route, Refused, Start, CancelRun, Resume, TakeOn,
           EditWorkflow, CreateWorkflow, DeleteWorkflow, CreateRole, DeleteRole, Restart
  <2> QED
    BY <2>1, <2>2, <2>3, <2>4
<1> QED
  BY <1>1, <1>2

LEMMA InitCounted == Init => Untouched /\ PlansCounted
<1> SUFFICES ASSUME Init PROVE Untouched /\ PlansCounted
  OBVIOUS
<1>1. Able \in SUBSET Planner /\ faults = 0 /\ Len(plans) = 0 /\ Untouched
  BY DEF Able, Init, Untouched
<1>2. Cardinality(Able) <= Cardinality(Planner) /\ Cardinality(Able) \in Nat
      /\ Cardinality(Planner) \in Nat
  BY <1>1, PlannersFinite
<1> QED
  BY <1>1, <1>2 DEF PlansCounted

-----------------------------------------------------------------------------
\* Every state of the planning workers is well formed; in particular they write
\* tasks whose dependencies are positions in a plan.
THEOREM PlanningTypeCorrect == Spec => []PlanningTypeOK
<1>1. PlanningInv => PlanningTypeOK
  BY DEF PlanningInv
<1> QED
  BY PlanningInvariant, <1>1, PTL

\* For every sequence of agents and every dependencies object, also with roles that
\* repeat or depend on each other, the planning worker writes an acyclic graph.
THEOREM PlannedGraphsAcyclic == Spec => []PlannedAcyclic
<1>1. PlanningInv => PlannedAcyclic
  <2> SUFFICES ASSUME PlanningInv, NEW k \in DOMAIN plans, plans[k].by \in Tick
               PROVE  Acyclic(plans[k].tasks)
    BY DEF PlannedAcyclic
  <2>1. plans[k].tasks \in Seq(PlanTask)
    <3> DEFINE Written == [by : Planner, tasks : Seq(PlanTask)]
    <3>1. plans \in Seq(Written)
      BY DEF PlanningInv, PlanningTypeOK
    <3>2. plans[k] \in Written
      <4> HIDE DEF Written
      <4> QED
        BY <3>1
    <3> QED
      BY <3>2
  <2>2. Forward(plans[k].tasks)
    BY DEF PlanningInv, PlansForward
  <2> QED
    BY <2>1, <2>2, ForwardAcyclic
<1> QED
  BY PlanningInvariant, <1>1, PTL

\* However many planners, edits, refused transactions, crashes and resumptions
\* interleave, a run is routed only with tasks.
THEOREM RoutedRunsPlanned == Spec => []RoutedWithPlan
<1>1. PlanningInv => RoutedWithPlan
  BY DEF PlanningInv
<1> QED
  BY PlanningInvariant, <1>1, PTL

\* A run has no more plans than planners, for each fault it has met and once more: a
\* planner whose plan was routed does not plan the run again by itself.
THEOREM PlansAreExplained == Spec => []PlansExplained
<1>1. (Untouched /\ PlansCounted) /\ PlanningInv /\ [Next]_vars
          => (Untouched /\ PlansCounted)'
  BY StepCounted
<1>2. PlanningInv /\ PlansCounted => PlansExplained
  <2> SUFFICES ASSUME PlanningInv, PlansCounted PROVE PlansExplained
    OBVIOUS
  <2>1. Cardinality(Able) \in Nat /\ Cardinality(Planner) \in Nat
    BY PlannersFinite DEF Able
  <2>2. Len(plans) \in Nat /\ faults \in Nat
    BY FaultsAssumption DEF PlanningInv, PlanningTypeOK
  <2>3. Cardinality(Planner) * (1 + faults) \in Nat
    BY <2>1, <2>2
  <2> QED
    BY <2>1, <2>2, <2>3 DEF PlansCounted, PlansExplained
<1> QED
  BY InitCounted, PlanningInvariant, <1>1, <1>2, PTL DEF Spec

=============================================================================
