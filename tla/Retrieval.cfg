\* Projections, recalls, diversity and packing, one at a time.
SPECIFICATION RetrievalSpec
CONSTANTS
    m1 = m1
    m2 = m2
    s1 = s1
    c1 = c1
    c2 = c2
    b1 = b1
    b2 = b2
    p1 = p1
    t1 = t1
    d1 = d1
    d2 = d2
    w1 = w1
    w2 = w2
    None = None
    Memory = {m1, m2}
    Scope = {s1}
    Context = {c1, c2}
    Kind = {"fact"}
    Key = {}
    Body = {b1, b2}
    IdemKey = {}
    ExplicitId = {m1, m2}
    Relation = {"supersedes"}
    ChildList <- NoChildren
    Operation = {"remember", "retract"}
    MaxSeq = 3
    MaxRevision = 2
    MaxLinks = 0
    MaxEvidence = 0
    Profile = {p1}
    Digest = {d1, d2}
    Dimension = {3}
    Text = {t1}
    Worker = {w1, w2}
    Limit = 2
    MaxAdmin = 3
    Reader = {r1}
    Query <- LexicalQueries
    Place <- Places
    Validity <- Windows
    ChannelLimit <- LimitTwo
    ExactScan = 1
    Shortlist = 1
    MaxCandidates = 2
    PoolLimit = 2
    ResultLimit = 2
    HitId = {1, 2, 3, 4}
    Score = {0, 3, 4}
    Token = {x, y}
    Parts = 2
    Lambda = 78
    MaxSelect = 3
    Hits <- Sequences
    Budgets <- Amounts
    Envelope = 3
    HeaderLength = 4
    WarnHeader = 4
    WarnLength = 5
    FrameLength = 2
SYMMETRY Symmetry
CHECK_DEADLOCK FALSE
INVARIANTS SearchIsSound AnswersFromOneView GreedyAsDefined PackIsFaithful
