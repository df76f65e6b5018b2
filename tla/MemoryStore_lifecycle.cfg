\* One scope, one kind, one key: revisions, contests, supersession, retraction.
SPECIFICATION Spec
CONSTANTS
    Memory = {m1, m2, m3}
    Scope = {s1}
    Context = {c1}
    Kind = {"fact"}
    Key = {k1}
    Body = {b1}
    IdemKey = {}
    ExplicitId = {m1, m2, m3}
    Relation = {"supersedes", "contests"}
    ChildList <- NoChildren
    Operation = {"remember", "retract"}
    None = None
    MaxSeq = 4
    MaxRevision = 3
    MaxLinks = 2
    MaxEvidence = 0
SYMMETRY Interchangeable
CHECK_DEADLOCK FALSE
INVARIANTS TypeOK RevisionChain SupersessionGoesBack ContestedWhileOpen IndexCoversKnowledge EveryChangeHasEvent
PROPERTIES TerminalIsFinal
