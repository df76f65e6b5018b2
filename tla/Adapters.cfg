\* One caller in a root that is replaced, two callers with one key; two hook
\* processes; checkpoints of four runs.
SPECIFICATION AdaptersSpec
CONSTANTS
    None = None
    s1 = s1
    s2 = s2
    s3 = s3
    s4 = s4
    r1 = r1
    r2 = r2
    make = make
    grep = grep
    red = red
    blue = blue
    oops = oops
    Memory = {m1, m2}
    Scope = {s1, s2, s3, s4}
    Context = {"x"}
    Kind = {"fact"}
    Key = {}
    Body = {"b"}
    IdemKey = {"k"}
    ExplicitId = {m1}
    Relation = {"supersedes"}
    ChildList <- OneDecision
    Operation = {"remember", "retract"}
    MaxSeq = 3
    MaxRevision = 2
    MaxLinks = 1
    MaxEvidence = 0
    Caller = {c1, c2}
    Tools = {"context", "record", "observation", "checkpoint", "feedback", "inspect", "history", "retract"}
    Repository <- Clones
    Place <- Places
    PinNamespace = "n"
    PinWorkspace = None
    PathWorkspace = "path"
    MaxCalls = 2
    Session = {"s1", "s2"}
    Text = {"t"}
    ToolReport <- Reports
    Given = {"tool_use_id", "turn_id", "agent_id"}
    Proc = {h1, h2}
    MaxHappened = 2
    MaxTree = 1
    Command = {make, grep}
    Diagnostic = {oops}
    Output = {red, blue}
    Observed <- Outcomes
    Quota = 1
    MaxText = 7
    MaxEvents = 4
SYMMETRY Symmetry
CHECK_DEADLOCK FALSE
INVARIANTS ScopeHolds AnswersAreTrue WhatHappened PromotionIsFaithful
