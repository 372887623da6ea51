------------------------------ MODULE Planning ------------------------------
(***************************************************************************)
(* How a run gets its tasks: the planning worker of apps/api/src/          *)
(* services.ts, and POST /runs/:id/plan, which does the same for a client. *)
(* Either reads the state of the run, and creates the tasks and moves the  *)
(* run in later transactions, while operators edit the workflow and the    *)
(* roles, and start, cancel and resume the run.                            *)
(*                                                                         *)
(* What becomes of the tasks is in Workers; here a plan is the graph that  *)
(* one call of createTasksFromPlan writes.                                 *)
(*                                                                         *)
(* A definition placed before the one it varies, and used by nothing, is a *)
(* plausible fault that a property must notice (README, "Faults").         *)
(***************************************************************************)
EXTENDS RunStateMachine, Integers, Sequences, FiniteSets

CONSTANTS
    Role,             \* the names of agent roles
    CustomSequences,  \* the custom_agent_sequence a run may be created with
    Workflows,        \* the contents a workflow template may be given
    RequestedPlans,   \* the bodies of POST /runs/:id/plan
    Tick,             \* overlapping ticks of the planning worker
    Request,          \* concurrent POST /runs/:id/plan requests
    NoSequence,       \* the run has no custom_agent_sequence
    NoWorkflow,       \* the template does not exist
    MaxFaults         \* bound on refused transactions, crashes and resumptions

Planner == Tick \cup Request

PlanTask == [agentRole : Role, dependsOn : SUBSET (Nat \ {0})]

ASSUME RoleAssumption == IsFiniteSet(Role)
ASSUME PlannerAssumption ==
    IsFiniteSet(Tick) /\ IsFiniteSet(Request) /\ Tick \cap Request = {}
ASSUME SequencesAssumption ==
    CustomSequences \subseteq Seq(Role) /\ NoSequence \notin Seq(Role)
ASSUME WorkflowsAssumption ==
    \A f \in Workflows :
        /\ f # NoWorkflow
        /\ f.agentSequence \in Seq(Role)
        /\ \E R \in SUBSET Role : f.dependencies \in [R -> SUBSET Role]
ASSUME RequestedAssumption == RequestedPlans \subseteq Seq(PlanTask) \ {<< >>}
ASSUME FaultsAssumption == MaxFaults \in Nat

VARIABLES
    custom,      \* runs.custom_agent_sequence
    named,       \* runs.workflow_template_id is set
    workflow,    \* the row of workflow_templates the run would use, or NoWorkflow
    isDefault,   \* that row has is_default
    roles,       \* the rows of agent_role_definitions
    plans,       \* the plans written for the run, in order
    pc,          \* pc[p]: the next step of planner p
    draft,       \* draft[p]: the tasks planner p has made up and not written
    faults       \* refused transactions, crashes and resumptions so far

settings == <<custom, named, workflow, isDefault, roles>>
vars == <<runState, settings, plans, pc, draft, faults>>

PlanningTypeOK ==
    /\ runState \in RunStates
    /\ custom \in CustomSequences \cup {NoSequence}
    /\ named \in BOOLEAN
    /\ workflow \in Workflows \cup {NoWorkflow}
    /\ isDefault \in BOOLEAN
    /\ roles \subseteq Role
    /\ plans \in Seq([by : Planner, tasks : Seq(PlanTask)])
    /\ pc \in [Planner -> {"idle", "read", "verify", "create", "route", "fail"}]
    /\ draft \in [Planner -> Seq(PlanTask)]
    /\ faults \in 0..MaxFaults

Init ==
    /\ runState = "DRAFT"
    /\ custom \in CustomSequences \cup {NoSequence}
    /\ named \in BOOLEAN
    /\ workflow \in Workflows
    /\ isDefault \in BOOLEAN
    /\ roles = Role
    /\ plans = << >>
    /\ pc = [p \in Planner |-> "idle"]
    /\ draft = [p \in Planner |-> << >>]
    /\ faults = 0

-----------------------------------------------------------------------------
(***************************************************************************)
(* From agents to tasks.  A role with explicit dependencies waits for the  *)
(* first task of each of them, if that comes earlier; any other task waits *)
(* for the one before it.                                                  *)
(***************************************************************************)
FirstOf(agents, role) ==
    CHOOSE i \in DOMAIN agents :
        agents[i] = role /\ \A j \in 1..(i - 1) : agents[j] # role

\* indexOf(...) of the roles that occur, with and without "idx < index".
ExplicitAnywhere(agents, wanted, index) ==
    {i \in DOMAIN agents : agents[i] \in wanted /\ i = FirstOf(agents, agents[i])}
ExplicitDeps(agents, wanted, index) ==
    {i \in 1..(index - 1) : agents[i] \in wanted /\ i = FirstOf(agents, agents[i])}

AlwaysThePrevious(agents, dependencies, index) ==
    IF agents[index] \in DOMAIN dependencies
    THEN ExplicitDeps(agents, dependencies[agents[index]], index)
    ELSE {index - 1}
DependsOn(agents, dependencies, index) ==
    IF agents[index] \in DOMAIN dependencies
    THEN ExplicitDeps(agents, dependencies[agents[index]], index)
    ELSE {index - 1} \ {0}

TasksOf(agents, dependencies) ==
    [i \in DOMAIN agents |->
        [agentRole |-> agents[i], dependsOn |-> DependsOn(agents, dependencies, i)]]

\* The run's own sequence, then its workflow, then the default one if any.
ResolvedTasks ==
    IF custom # NoSequence THEN TasksOf(custom, << >>)
    ELSE IF (named \/ isDefault) /\ workflow # NoWorkflow
    THEN TasksOf(workflow.agentSequence, workflow.dependencies)
    ELSE << >>

-----------------------------------------------------------------------------
(***************************************************************************)
(* A tick of the planning worker, up to the tasks it makes up.             *)
(***************************************************************************)
Step(p, from, to) ==
    /\ pc[p] = from
    /\ pc' = [pc EXCEPT ![p] = to]

\* A tick finds the run in PLANNING, since when is up to the clock.
FireOnRouting(p) ==
    /\ runState \in {"PLANNING", "ROUTING"}
    /\ Step(p, "idle", "read") \/ Step(p, "idle", "fail")
    /\ UNCHANGED <<runState, settings, plans, draft, faults>>
Fire(p) ==
    /\ runState = "PLANNING"
    /\ Step(p, "idle", "read") \/ Step(p, "idle", "fail")
    /\ UNCHANGED <<runState, settings, plans, draft, faults>>

EmptySequenceSkipped == IF ResolvedTasks = << >> THEN "idle" ELSE "verify"
AfterReading == IF ResolvedTasks = << >> THEN "fail" ELSE "verify"

Read(p) ==
    /\ Step(p, "read", AfterReading)
    /\ draft' = [draft EXCEPT ![p] = ResolvedTasks]
    /\ UNCHANGED <<runState, settings, plans, faults>>

Verify(p) ==
    /\ Step(p, "verify",
            IF \A i \in DOMAIN draft[p] : draft[p][i].agentRole \in roles
            THEN "create" ELSE "fail")
    /\ UNCHANGED <<runState, settings, plans, draft, faults>>

FailRun(p) ==
    /\ Step(p, "fail", "idle")
    /\ TryRunMove("FAILED")
    /\ draft' = [draft EXCEPT ![p] = << >>]
    /\ UNCHANGED <<settings, plans, faults>>

(***************************************************************************)
(* POST /runs/:id/plan: a client brings the tasks.                         *)
(***************************************************************************)
Accept(q) ==
    /\ runState = "PLANNING"
    /\ Step(q, "idle", "create")
    /\ \E tasks \in RequestedPlans : draft' = [draft EXCEPT ![q] = tasks]
    /\ UNCHANGED <<runState, settings, plans, faults>>

(***************************************************************************)
(* Both then call createTasksFromPlan, which writes everything or, at an   *)
(* index it does not know, throws and writes nothing, and                  *)
(* transitionRunState(ROUTING), in two transactions.                       *)
(***************************************************************************)
IndicesKnown(tasks) ==
    \A i \in DOMAIN tasks : tasks[i].dependsOn \subseteq DOMAIN tasks

Create(p) ==
    /\ IndicesKnown(draft[p])
    /\ Step(p, "create", "route")
    /\ plans' = Append(plans, [by |-> p, tasks |-> draft[p]])
    /\ UNCHANGED <<runState, settings, draft, faults>>

RouteBeforeCreate(p) ==
    /\ Step(p, "create", "idle") \/ Step(p, "route", "idle")
    /\ TryRunMove("ROUTING")
    /\ draft' = [draft EXCEPT ![p] = << >>]
    /\ UNCHANGED <<settings, plans, faults>>
Route(p) ==
    /\ Step(p, "route", "idle")
    /\ TryRunMove("ROUTING")
    /\ draft' = [draft EXCEPT ![p] = << >>]
    /\ UNCHANGED <<settings, plans, faults>>

CreateThrows(q) ==
    /\ ~ IndicesKnown(draft[q])
    /\ Step(q, "create", "idle")
    /\ draft' = [draft EXCEPT ![q] = << >>]
    /\ UNCHANGED <<runState, settings, plans, faults>>

\* A transaction of a planner is refused, as a serializable one may be: the tick
\* or the request is over, and what it had committed stays.
Fault ==
    /\ faults < MaxFaults
    /\ faults' = faults + 1

Refused(p) ==
    /\ Fault
    /\ \E step \in {"create", "route", "fail"} : Step(p, step, "idle")
    /\ draft' = [draft EXCEPT ![p] = << >>]
    /\ UNCHANGED <<runState, settings, plans>>

TickStep(p) == Fire(p) \/ Read(p) \/ Verify(p) \/ FailRun(p)

RequestStep(q) == Accept(q) \/ CreateThrows(q)

WriteStep(p) == Create(p) \/ Route(p)

-----------------------------------------------------------------------------
(***************************************************************************)
(* Everybody else.                                                         *)
(***************************************************************************)
Start ==
    /\ runState = "DRAFT"
    /\ TryRunMove("PLANNING")
    /\ UNCHANGED <<settings, plans, pc, draft, faults>>

\* POST /runs/:id/cancel; its tasks are in Workers.
CancelRun ==
    /\ runState \notin {"COMPLETED", "CANCELLED"}
    /\ runState' = "CANCELLED"
    /\ UNCHANGED <<settings, plans, pc, draft, faults>>

\* POST /runs/:id/resume brings a failed run back to its planner.
Resume ==
    /\ Fault
    /\ runState = "FAILED"
    /\ runState' = "PLANNING"
    /\ UNCHANGED <<settings, plans, pc, draft>>

\* The routing and the execution worker take a run on from ROUTING (Workers).
TakeOn ==
    /\ \/ runState = "ROUTING" /\ runState' \in {"EXECUTING", "FAILED"}
       \/ runState = "EXECUTING" /\ runState' \in {"COMPLETED", "FAILED"}
    /\ UNCHANGED <<settings, plans, pc, draft, faults>>

\* PATCH /workflows/:id, which unsets every is_default in an UPDATE of its own
\* before the one that sets a row's.
EditWorkflow ==
    /\ workflow # NoWorkflow
    /\ workflow' \in Workflows
    /\ isDefault' \in BOOLEAN
    /\ UNCHANGED <<runState, custom, named, roles, plans, pc, draft, faults>>

\* POST /workflows inserts a template that is not the default, with a sequence.
CreateWorkflow ==
    /\ workflow = NoWorkflow
    /\ workflow' \in {f \in Workflows : f.agentSequence # << >>}
    /\ UNCHANGED <<runState, custom, named, isDefault, roles, plans, pc, draft, faults>>

\* DELETE /workflows/:id refuses the default one, and the foreign key one that a run names.
DeleteWorkflow ==
    /\ ~ isDefault /\ ~ named
    /\ workflow' = NoWorkflow
    /\ UNCHANGED <<runState, custom, named, isDefault, roles, plans, pc, draft, faults>>

\* POST /roles: the role and its provider mapping, in a transaction; a name in use is refused.
CreateRole ==
    /\ \E r \in Role \ roles : roles' = roles \cup {r}
    /\ UNCHANGED <<runState, custom, named, workflow, isDefault, plans, pc, draft, faults>>

DeleteRole ==
    /\ \E r \in roles : roles' = roles \ {r}
    /\ UNCHANGED <<runState, custom, named, workflow, isDefault, plans, pc, draft, faults>>

\* The server dies and starts again: ticks and requests are gone.
Restart ==
    /\ Fault
    /\ pc' = [p \in Planner |-> "idle"]
    /\ draft' = [p \in Planner |-> << >>]
    /\ UNCHANGED <<runState, settings, plans>>

Next ==
    \/ \E p \in Tick : TickStep(p)
    \/ \E q \in Request : RequestStep(q)
    \/ \E p \in Planner : WriteStep(p) \/ Refused(p)
    \/ Start \/ CancelRun \/ Resume \/ TakeOn
    \/ EditWorkflow \/ CreateWorkflow \/ DeleteWorkflow
    \/ CreateRole \/ DeleteRole \/ Restart

Spec == Init /\ [][Next]_vars

\* setInterval keeps firing and queries are answered.
FairSpec ==
    /\ Spec
    /\ \A p \in Tick : WF_vars(TickStep(p) \/ WriteStep(p))

-----------------------------------------------------------------------------
(***************************************************************************)
(* Properties.                                                             *)
(***************************************************************************)

\* No task of the plan waits, directly or through others, for itself: any set of
\* tasks has one that waits for none of the set.
Acyclic(tasks) ==
    \A S \in (SUBSET DOMAIN tasks) \ {{}} :
        \E i \in S : tasks[i].dependsOn \cap S = {}

\* Whatever the workflow says, and however it changes under the planner's feet,
\* the graph the planning worker writes can be executed to its end.
PlannedAcyclic ==
    \A k \in DOMAIN plans : plans[k].by \in Tick => Acyclic(plans[k].tasks)

\* A run is routed only with tasks to route: no interleaving of planners, edits,
\* crashes and resumptions moves a run on without a plan.
RoutedWithPlan ==
    runState \in {"ROUTING", "EXECUTING", "COMPLETED"} =>
        \E k \in DOMAIN plans : plans[k].tasks # << >>

\* Every plan beyond one for each planner has a fault to explain it: a planner
\* that routed the run does not plan it again by itself.
PlansExplained ==
    Len(plans) <= Cardinality(Planner) * (1 + faults)

\* A run does not stay in PLANNING: it is routed, or failed with a reason.
PlanningEnds == runState = "PLANNING" ~> runState # "PLANNING"

\* docs/state-machine.md: "Ensures task graph is a Directed Acyclic Graph".
EveryPlanAcyclic == \A k \in DOMAIN plans : Acyclic(plans[k].tasks)

=============================================================================
