\* Keyed calls that are repeated from another context, or with another body;
\* checkpoints that die between their statements.
SPECIFICATION Spec
CONSTANTS
    Memory = {m1, m2, m3}
    Scope = {s1}
    Context = {c1, c2}
    Kind = {"decision"}
    Key = {k1}
    Body = {b1, b2}
    IdemKey = {i1}
    ExplicitId = {}
    Relation = {"supersedes"}
    ChildList <- FewChildren
    Operation = {"observe", "remember", "checkpoint", "retract"}
    None = None
    MaxSeq = 3
    MaxRevision = 3
    MaxLinks = 0
    MaxEvidence = 0
SYMMETRY Interchangeable
CHECK_DEADLOCK FALSE
INVARIANTS AtMostOnce ReceiptsTellTheTruth
PROPERTIES ImplementsJournal
