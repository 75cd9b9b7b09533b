\* Two concurrent handlers, one delegated child, one appended step, a plan.
SPECIFICATION Spec
CONSTANTS
    root = root
    pulse1 = pulse1
    manual1 = manual1
    plan1 = plan1
    adam = adam
    pulse = pulse
    nobody = nobody
    Root = root
    Children = {pulse1}
    Manual = {manual1}
    PlanSteps = {plan1}
    PlanOf <- OnePlan
    AgentOf <- Agents
    Handlers = {h1, h2}
    PatchTargets = {}
    MaxAttempts = 5
    MaxFaults = 0
SYMMETRY Symmetry
INVARIANTS
    TypeOK
    EndsForAReason
    NewcomersRespectEnd
    RetriesArePaidFor
\* A run whose agents have reported and whose events are consumed is over.
CHECK_DEADLOCK FALSE
