---------------------------- MODULE MCRepository ----------------------------
(***************************************************************************)
(* What a memory and a repository have to do with each other, one question *)
(* in each behaviour: whether it is the memory's repository, and whether   *)
(* what the memory says still holds there - with uncommitted changes, with *)
(* more artifacts than are compared, with a history that is rewritten, and   *)
(* with Git output that is lost or cut and files beyond what is read.       *)
(***************************************************************************)
EXTENDS RepositoryIdentity, Sequences, TLC

CONSTANTS
    Third, Topic,    \* a file and a branch of some parts only
    big, grown,      \* two contents, alike as far as they are read, of one part
    File, Content, Absent, Branch, MaxCommits, MaxEdits, MaxStaged, Requested

----------------------------------------------------------------------------
(* Origins *)

At(form, host, path) == [form |-> form, host |-> host, path |-> path, user |-> FALSE,
                         upper |-> FALSE, git |-> FALSE, slash |-> FALSE, query |-> FALSE]
Spelled(form, user, upper, git, slash, query) ==
    [At(form, "forge", "team/app") EXCEPT !.user = user, !.upper = upper, !.git = git,
                                          !.slash = slash, !.query = query]
\* One repository in every form, each part of the spelling there and not; other
\* repositories of the host, another host, and local paths of the same name, of
\* which one is a URL that the code does not take for local.
Origins ==
    {Spelled("https", FALSE, FALSE, FALSE, FALSE, FALSE),
     Spelled("https", TRUE, TRUE, TRUE, FALSE, TRUE),
     Spelled("ssh", TRUE, FALSE, TRUE, TRUE, FALSE),
     Spelled("scp", TRUE, FALSE, TRUE, TRUE, FALSE),
     Spelled("scp", FALSE, TRUE, FALSE, FALSE, FALSE),
     Spelled("file_host", FALSE, FALSE, FALSE, FALSE, FALSE),
     Spelled("file_host", FALSE, TRUE, TRUE, TRUE, FALSE),
     At("https", "forge", "Team/app"), At("ssh", "mirror", "team/app"),
     At("File", "forge", "team/app"),
     At("file", "forge", "team/app"), At("path", "forge", "team/app"),
     At("relative", "forge", "team/app")}

----------------------------------------------------------------------------
(* Worktrees *)

VARIABLES part, repo, op, memory

Alike == [c \in Content |-> IF c = grown THEN big ELSE c]
Holds == INSTANCE Applicability WITH Sample <- Alike

ASSUME ApplicabilityOfRepository == Holds!WorktreeAssumption /\ Holds!ApplicabilityAssumption

\* A caller names one file, or three.
FewOrAll == {X \in SUBSET File : Cardinality(X) <= 1} \cup {File}

OneContent(r) ==
    \E c \in Content :
    \A tree \in {r.work, r.index} \cup {r.commits[i].files : i \in DOMAIN r.commits} :
        \A f \in File : tree[f] = Absent \/ (f = Third /\ tree[f] = c)
Lost(at, field) == op.at = at /\ op' # op /\ op'.at # "idle" /\ ~op'.scope[field].had
\* No output is cut or lost.
Printed ==
    /\ \A field \in {"status", "diff", "untracked"} : ~op'.scope[field].cut
    /\ ~Lost("status", "status") /\ ~Lost("untracked", "untracked")
    /\ repo.head # 0 => ~Lost("diff", "diff")
Small(r) == \A f \in File : r.work[f] \notin {big, grown}
\* Uncommitted changes of two files; more artifacts than are compared; commits
\* and branches of one file, of which no fingerprint is kept; and a file larger
\* than what is read of it, with every way the commands may end.
Changes ==
    /\ Holds!Next /\ Printed /\ Small(repo')
    /\ Third \notin op'.explicit /\ repo'.work[Third] = Absent
    /\ Len(repo'.commits) <= 2 /\ repo'.edits <= 2 /\ repo'.branch # Topic
Pieces ==
    /\ Holds!Next /\ Printed /\ Small(repo')
    /\ op'.explicit \in {{}, File}
    /\ Len(repo'.commits) <= 2 /\ repo'.edits <= 1 /\ repo'.branch # Topic
History ==
    /\ Holds!Next /\ Printed /\ Small(repo')
    /\ op'.explicit = {} /\ ~op'.auto
    /\ repo' # repo => OneContent(repo')
\* One large file changes between operations, or is untracked beside a file that
\* does not.
OneLarge(r) ==
    /\ Holds!Changed(r) \subseteq {Third} /\ r.work[Third] \in {Absent, big, grown}
    /\ Cardinality({f \in File : Holds!HeadFiles(r)[f] # Absent}) <= 1
Outputs ==
    /\ Holds!Next /\ OneLarge(repo') /\ (repo' # repo => op.at = "idle")
    /\ op'.explicit = {} /\ ~op'.auto
    /\ Len(repo'.commits) <= 1 /\ repo'.edits <= 2 /\ repo'.branch # Topic

Symmetry == Permutations(File \ {Third}) \cup Permutations(Content \ {Absent, big, grown})
            \cup Permutations(Root) \cup Permutations(Clone)

worktreeVars == <<repo, op, memory>>

RepositoryInit ==
    /\ Init /\ Holds!Init
    /\ \/ part = "identity" /\ repo.work = Holds!Empty /\ repo.branch # Topic
       \/ part = "changes" /\ Small(repo) /\ repo.work[Third] = Absent /\ repo.branch # Topic
       \/ part = "pieces" /\ Small(repo) /\ repo.branch # Topic
       \/ part = "history" /\ Small(repo) /\ OneContent(repo)
       \/ part = "outputs" /\ OneLarge(repo) /\ repo.work[Third] # grown /\ repo.branch # Topic
RepositoryNext ==
    /\ UNCHANGED part
    /\ \/ part = "identity" /\ Next /\ UNCHANGED worktreeVars
       \/ (part = "changes" /\ Changes) /\ UNCHANGED vars
       \/ (part = "pieces" /\ Pieces) /\ UNCHANGED vars
       \/ (part = "history" /\ History) /\ UNCHANGED vars
       \/ (part = "outputs" /\ Outputs) /\ UNCHANGED vars
RepositorySpec == RepositoryInit /\ [][RepositoryNext]_<<part, vars, worktreeVars>>
----------------------------------------------------------------------------
(* Properties *)

\* VerdictsAreRight of Applicability (applicability.rs classify_applicability).
VerdictsAreRight == Holds!VerdictsAreRight
=============================================================================
