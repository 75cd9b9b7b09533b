\* Two concurrent handlers: a stale read overwrites the end of the run.
SPECIFICATION Spec
CONSTANTS
    root = root
    pulse1 = pulse1
    manual1 = manual1
    plan1 = plan1
    adam = adam
    pulse = pulse
    nobody = nobody
    Root = root
    Children = {pulse1}
    Manual = {manual1}
    PlanSteps = {plan1}
    PlanOf <- OnePlan
    AgentOf <- Agents
    Handlers = {h1, h2}
    PatchTargets = {}
    MaxAttempts = 5
    MaxFaults = 0
PROPERTY
    TerminalIsFinal
CHECK_DEADLOCK FALSE
