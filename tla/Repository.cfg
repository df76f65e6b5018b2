\* Two worktrees and two clones; three files, two contents and a history of
\* three commits on two branches; a large file beside every end of a command.
SPECIFICATION RepositorySpec
CONSTANTS
    Clone = {c1, c2}
    Root = {w1, w2}
    Remotes <- Origins
    None = None
    MaxMemories = 1
    Third = f3
    Topic = topic
    File = {f1, f2, f3}
    Content = {absent, x, y, big, grown}
    big = big
    grown = grown
    Absent = absent
    Branch = {main, topic}
    MaxCommits = 3
    MaxEdits = 4
    MaxStaged = 2
    Requested <- FewOrAll
SYMMETRY Symmetry
CHECK_DEADLOCK FALSE
INVARIANTS NoStrangersMemories FoundAgain VerdictsAreRight
