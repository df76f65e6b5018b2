\* No explicit identifiers: memories are found by canonical key only, as
\* checkpoints write them; keys are freed by supersession and retraction.
SPECIFICATION FSpec
CONSTANTS
    Memory = {m1, m2, m3}
    Scope = {s1}
    Context = {c1}
    Kind = {"outcome"}
    Key = {k1}
    Body = {bad, good}
    FailedBody = {bad}
    IdemKey = {}
    ExplicitId = {}
    Relation = {"supersedes", "contests"}
    ChildList <- Outcomes
    Operation = {"remember", "checkpoint", "retract"}
    None = None
    MaxSeq = 4
    MaxRevision = 3
    MaxLinks = 1
    MaxEvidence = 0
SYMMETRY Interchangeable
CHECK_DEADLOCK FALSE
INVARIANTS OneLiveHeadPerKey RetryReadsTheSame
