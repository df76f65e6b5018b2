\* A client names an outcome memory explicitly, so two live heads share a key.
SPECIFICATION FSpec
CONSTANTS
    Memory = {m1, m2, m3}
    Scope = {s1}
    Context = {c1}
    Kind = {"outcome"}
    Key = {k1}
    Body = {bad, good}
    FailedBody = {bad}
    IdemKey = {}
    ExplicitId = {m1, m2}
    Relation = {"supersedes", "contests"}
    ChildList <- OneOutcome
    Operation = {"remember", "retract"}
    None = None
    MaxSeq = 4
    MaxRevision = 3
    MaxLinks = 1
    MaxEvidence = 0

CHECK_DEADLOCK FALSE
INVARIANTS RetryReadsTheSame
