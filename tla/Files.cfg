\* Snapshots of this release and of older ones; two processes open a file of
\* any release, an empty one or a stranger's; two clients and an inspection.
SPECIFICATION FilesSpec
CONSTANTS
    Memory = {m1, m2, m3}
    Scope = {s1}
    Context = {c1}
    Kind = {"decision"}
    Key = {k1}
    Body = {b1}
    IdemKey = {i1}
    ExplicitId = {}
    Relation = {"supersedes", "contests"}
    ChildList <- KeyedTwice
    Operation = {"remember", "retract", "checkpoint"}
    None = None
    MaxSeq = 4
    MaxRevision = 3
    MaxLinks = 1
    MaxEvidence = 0
    Versions = {1, 2}
    Process = {p1, p2}
    Held = {h1}
    Left <- AllReleases
    MaxFaults = 2
    Client = {x1, x2}
    MaxCommits = 3
SYMMETRY Symmetry
CHECK_DEADLOCK FALSE
INVARIANTS RestoredExactly ImportIsSound FileIsWhole NobodyFailsByTheRace ReportIsTrue
