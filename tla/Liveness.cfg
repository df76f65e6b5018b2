\* Two probes, with a limit a pipe may pass; two workers that list one document
\* at a time; two processes that open an empty file or one of an older release.
SPECIFICATION LiveSpec
CONSTANTS
    Stages <- LastStages
    Limit = 1
    MaxSent = 2
    Capacity = 1
    Memory = {m1, m2}
    Scope = {s1}
    Context = {c1}
    Kind = {"fact"}
    Key = {}
    Body = {b1}
    IdemKey = {}
    ExplicitId = {m1, m2}
    Relation = {"supersedes"}
    ChildList <- NoChildren
    Operation = {"remember", "retract"}
    None = None
    MaxSeq = 3
    MaxRevision = 2
    MaxLinks = 0
    MaxEvidence = 0
    Profile = {p1}
    Digest = {d1}
    Dimension = {3}
    Text = {t1}
    Worker = {w1, w2}
    PerListing = 1
    MaxAdmin = 2
    Process = {q1, q2}
    Left = {0, 5}
    MaxFaults = 2
    Held = {h1}
CHECK_DEADLOCK FALSE
INVARIANTS WholeIsWhole NothingIsLeft
PROPERTIES DiagnosisEnds EventuallyCovered OpeningEnds
