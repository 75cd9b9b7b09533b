\* One handler at a time, patches included: the final report ends the run.
SPECIFICATION FairSpec
CONSTANTS
    root = root
    pulse1 = pulse1
    manual1 = manual1
    plan1 = plan1
    adam = adam
    pulse = pulse
    nobody = nobody
    Root = root
    Children = {pulse1}
    Manual = {manual1}
    PlanSteps = {plan1}
    PlanOf <- OnePlan
    AgentOf <- Agents
    Handlers = {h1}
    PatchTargets = {"running", "failed"}
    MaxAttempts = 1
    MaxFaults = 1
PROPERTY
    FinalReportEndsRun
\* A run whose agents have reported and whose events are consumed is over.
CHECK_DEADLOCK FALSE
