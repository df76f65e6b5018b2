------------------------------ MODULE Worktree ------------------------------
(***************************************************************************)
(* The repository a memory is about, changed by its user at any time, and  *)
(* what the Git commands of git.rs and artifacts.rs print about it.  Each  *)
(* command reads one instant; no two commands read the same one.           *)
(*                                                                         *)
(* A file is a path with a content; Absent is the content of a path that   *)
(* is not there.  Commits form a tree: commit i has a parent before it, 0  *)
(* is the unborn HEAD.  A head that was rewritten keeps its commits.       *)
(***************************************************************************)
EXTENDS Integers, Sequences, FiniteSets

CONSTANTS
    File,           \* tracked or untracked paths
    Content,        \* what a file may hold
    Absent,         \* no file at that path
    Sample,         \* what a capped read shows of a content: its length, head and tail
    Branch,
    MaxCommits,     \* bound: commits ever made
    MaxEdits        \* bound: steps of the user

WorktreeAssumption ==
    /\ IsFiniteSet(File)
    /\ Absent \in Content /\ Sample \in [Content -> Content]
    /\ Branch # {}
    /\ MaxCommits \in Nat /\ MaxEdits \in Nat

VARIABLE repo

Tree == [File -> Content]
Empty == [f \in File |-> Absent]
FilesOf(r, c) == IF c = 0 THEN Empty ELSE r.commits[c].files
HeadFiles(r) == FilesOf(r, r.head)

----------------------------------------------------------------------------
(* What Git prints, and what git_stdout_bounded makes of it: all of it, a    *)
(* first part of what is over the limit, or nothing when the command fails. *)

Whole(S) == [had |-> TRUE, cut |-> FALSE, of |-> S]
Missing == [had |-> FALSE, cut |-> FALSE, of |-> {}]
Bounded(S) ==
    {Whole(S), Missing} \cup {[had |-> TRUE, cut |-> TRUE, of |-> P] : P \in (SUBSET S) \ {S}}

Staged(r, f) == r.index[f] # HeadFiles(r)[f]
Modified(r, f) == r.index[f] # Absent /\ r.work[f] # r.index[f]
Untracked(r, f) == r.index[f] = Absent /\ r.work[f] # Absent
Changed(r) == {f \in File : Staged(r, f) \/ Modified(r, f) \/ Untracked(r, f)}

\* git status --porcelain=v2: object names of HEAD and the index, and whether
\* the worktree differs or has lost the file; an untracked path by its name.
Column(r, f) == IF ~Modified(r, f) THEN "." ELSE IF r.work[f] = Absent THEN "D" ELSE "M"
Status(r) ==
    {<<"changed", f, HeadFiles(r)[f], r.index[f], Column(r, f)>> :
        f \in {g \in File : Staged(r, g) \/ Modified(r, g)}}
    \cup {<<"untracked", f>> : f \in {g \in File : Untracked(r, g)}}

\* git diff HEAD: worktree contents of tracked paths; it fails on an unborn HEAD.
TrackedDiff(r) ==
    LET now(f) == IF r.index[f] = Absent THEN Absent ELSE r.work[f] IN
    {<<f, now(f)>> : f \in {g \in File : now(g) # HeadFiles(r)[g]}}
Diffs(r) == IF r.head = 0 THEN {Missing} ELSE Bounded(TrackedDiff(r))

\* git ls-files --others and what is read of the files it lists.
UntrackedContents(r) == {<<f, Sample[r.work[f]]>> : f \in {g \in File : Untracked(r, g)}}

\* A commit and everything before it: what every set has that has the commit
\* and, with each of its commits, the parent.
Closed(r, C) == \A c \in C : r.commits[c].parent \in C \cup {0}
Ancestors(r, c) ==
    IF c = 0 THEN {}
    ELSE {a \in 1..Len(r.commits) :
            \A C \in SUBSET (1..Len(r.commits)) : Closed(r, C) /\ c \in C => a \in C}

\* git rev-list --left-right --count stored...current, read as a relation.
Relation(r, stored, current) ==
    LET ahead == Ancestors(r, stored) \ Ancestors(r, current)
        behind == Ancestors(r, current) \ Ancestors(r, stored)
    IN CASE ahead = {} /\ behind = {} -> "same"
         [] ahead = {} /\ behind # {} -> "ancestor"
         [] ahead # {} /\ behind = {} -> "descendant"
         [] OTHER -> "diverged"

----------------------------------------------------------------------------
(* What the user does *)

Clean(r) == r.work = r.index /\ r.index = HeadFiles(r)
Step(r) == r.edits < MaxEdits /\ repo' = [r EXCEPT !.edits = @ + 1]

Edit(f, c) ==
    /\ c # repo.work[f]
    /\ Step([repo EXCEPT !.work[f] = c])
Stage(f) ==
    /\ repo.index[f] # repo.work[f]
    /\ Step([repo EXCEPT !.index[f] = repo.work[f]])
\* A commit on top of HEAD, or one that replaces it (amend, rebase).
Commit(parent) ==
    /\ Len(repo.commits) < MaxCommits
    /\ \/ parent = repo.head
       \/ repo.head # 0 /\ parent = repo.commits[repo.head].parent
    /\ repo.index # FilesOf(repo, parent)
    /\ Step([repo EXCEPT !.commits = Append(@, [parent |-> parent, files |-> repo.index]),
                         !.head = Len(repo.commits) + 1])
\* Another commit or branch, from a worktree without changes.
Checkout(c, b) ==
    /\ Clean(repo)
    /\ <<c, b>> # <<repo.head, repo.branch>>
    /\ Step([repo EXCEPT !.head = c, !.branch = b, !.work = FilesOf(repo, c),
                         !.index = FilesOf(repo, c)])

User ==
    \/ \E f \in File : \/ \E c \in Content : Edit(f, c)
                       \/ Stage(f)
    \/ \E p \in 0..Len(repo.commits) : Commit(p)
    \/ \E c \in 0..Len(repo.commits), b \in Branch : Checkout(c, b)

\* A first commit of some files, or a repository without any.
WorktreeInit ==
    \E t \in Tree, b \in Branch :
        repo = [work |-> t, index |-> t, edits |-> 0, branch |-> b,
                head |-> IF t = Empty THEN 0 ELSE 1,
                commits |-> IF t = Empty THEN <<>> ELSE <<[parent |-> 0, files |-> t]>>]
=============================================================================
