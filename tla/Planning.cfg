SPECIFICATION FairSpec
CONSTANTS
    a = a
    b = b
    t1 = t1
    t2 = t2
    q1 = q1
    NoSequence = NoSequence
    NoWorkflow = NoWorkflow
    Role = {a, b}
    CustomSequences <- Customs
    Workflows <- OneWorkflow
    Tick = {t1, t2}
    Request = {q1}
    MaxFaults = 1
    RequestedPlans <- OrdinaryPlans
INVARIANTS
    PlanningTypeOK
    PlannedAcyclic
    RoutedWithPlan
    PlansExplained
PROPERTIES
    PlanningEnds
