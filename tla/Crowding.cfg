\* Two scopes whose rows are offered to requests of the other, and what the
\* limits of a recall cut: rows of two workspaces, superseded, outdated and
\* unlike ones beside those the request may see.
SPECIFICATION CrowdingSpec
CONSTANTS
    m1 = m1
    m2 = m2
    m3 = m3
    s1 = s1
    s2 = s2
    c1 = c1
    b1 = b1
    b2 = b2
    p1 = p1
    t1 = t1
    k1 = k1
    None = None
    Memory = {m1, m2, m3}
    Scope = {s1, s2}
    Context = {c1}
    Kind = {"fact"}
    Key = {}
    Body = {b1, b2}
    IdemKey = {}
    ExplicitId = {m1, m2, m3}
    Relation = {"supersedes"}
    ChildList <- NoChildren
    Operation = {"remember", "retract"}
    MaxSeq = 3
    MaxRevision = 2
    MaxLinks = 0
    MaxEvidence = 0
    Profile = {p1}
    Digest = {d1}
    Dimension = {3}
    Text = {t1}
    Worker = {w1}
    Limit = 2
    MaxAdmin = 2
    Reader = {r1}
    Query <- AllQueries
    Place <- Places
    Validity <- Windows
    ChannelLimit <- Limits
    ExactScan = 1
    Shortlist = 1
    MaxCandidates = 2
    PoolLimit = 2
    ResultLimit = 2
SYMMETRY Symmetry
CHECK_DEADLOCK FALSE
INVARIANTS ScopeClosed SqlAgreesWithRust OnlyPeersCrowdOut
