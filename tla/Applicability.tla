--------------------------- MODULE Applicability ---------------------------
(***************************************************************************)
(* Whether what a memory says still holds of the worktree.  A checkpoint   *)
(* records the commit, a hash of the uncommitted changes (git.rs) and the  *)
(* contents of files (artifacts.rs); a later recall looks again and gives  *)
(* a verdict (applicability.rs).  Both look with several Git commands and  *)
(* file reads, between which the user goes on working.                     *)
(*                                                                         *)
(* What a command prints is bounded, and so is what is read of one file    *)
(* (Sample); left out is the bound on the sum of the untracked files read  *)
(* (8 MiB), and that a file may go between its listing and its reading.    *)
(*                                                                         *)
(* op is the operation under way; memory what the last checkpoint stored.  *)
(* op.start and op.quiet only state the properties: the repository when    *)
(* the operation began, and whether it has been left alone since.          *)
(***************************************************************************)
EXTENDS Worktree, Functions

CONSTANTS
    None,
    MaxStaged,      \* fingerprints kept per candidate (128)
    Requested       \* bound: the sets of files a caller may name

StatusLine == ({"changed"} \X File \X Content \X Content \X {".", "M", "D"}) \cup ({"untracked"} \X File)
Output(S) == [had: BOOLEAN, cut: BOOLEAN, of: SUBSET S]
DirtyHashes == Output(StatusLine) \X Output(File \X Content) \X Output(File \X Content)
ApplicabilityAssumption ==
    /\ MaxStaged \in Nat \ {0} /\ Requested \subseteq SUBSET File
    /\ None \notin Branch /\ None \notin Nat /\ None \notin DirtyHashes

Verdict == {"exact", "compatible", "unversioned", "stale", "divergent"}
\* No artifacts: the function with the empty domain.
Nothing == [f \in {} |-> Absent]
\* Artifacts already known are kept; the others are added.
Merged(known, more) ==
    [f \in DOMAIN known \cup DOMAIN more |-> IF f \in DOMAIN known THEN known[f] ELSE more[f]]

VARIABLES op, memory
vars == <<repo, op, memory>>

NoScope == [head |-> None, branch |-> None, status |-> Missing, diff |-> Missing,
            untracked |-> Missing, dirty |-> None]
Resting == [at |-> "idle", doing |-> None, explicit |-> {}, auto |-> FALSE, scope |-> NoScope,
            listed |-> {}, source |-> None, exists |-> {}, todo |-> {}, read |-> Nothing,
            artifacts |-> Nothing, failed |-> FALSE, verdict |-> None, start |-> None,
            quiet |-> TRUE]

----------------------------------------------------------------------------
(* Discovering the repository: status, then the diff, then untracked files *)

\* Bound: one checkpoint, then recalls.
Begin(doing, explicit, auto) ==
    /\ op.at = "idle"
    /\ doing = IF memory = None THEN "checkpoint" ELSE "recall"
    /\ op' = [Resting EXCEPT !.at = "status", !.doing = doing, !.explicit = explicit,
                             !.auto = auto, !.start = repo]
    /\ UNCHANGED <<repo, memory>>

HeadOid(r) == IF r.head = 0 THEN None ELSE r.head
\* A failed status leaves commit and branch unknown and the worktree clean.
ReadStatus ==
    /\ op.at = "status"
    /\ \E out \in Bounded(Status(repo)) :
           op' = [op EXCEPT
              !.scope = IF out.had THEN [NoScope EXCEPT !.head = HeadOid(repo),
                                                        !.branch = repo.branch, !.status = out]
                        ELSE NoScope,
              !.at = IF out \in {Missing, Whole({})} THEN "captured" ELSE "diff"]
    /\ UNCHANGED <<repo, memory>>
\* A diff that cannot be had is left out of the hash without a trace.
ReadDiff ==
    /\ op.at = "diff"
    /\ \E out \in Diffs(repo) : op' = [op EXCEPT !.scope.diff = out, !.at = "untracked"]
    /\ UNCHANGED <<repo, memory>>
\* Mutant: untracked files count by their names, which the status has.
DirtyHashByName(s) == <<s.status, s.diff, Whole({})>>
\* A listing that failed hashes like an empty one.
DirtyHash(s) == <<s.status, s.diff, IF s.untracked.had THEN s.untracked ELSE Whole({})>>
ReadUntracked ==
    /\ op.at = "untracked"
    /\ \E out \in Bounded(UntrackedContents(repo)) :
           LET scope == [op.scope EXCEPT !.untracked = out] IN
           op' = [op EXCEPT !.scope = [scope EXCEPT !.dirty = DirtyHash(scope)],
                            !.at = "captured"]
    /\ UNCHANGED <<repo, memory>>

----------------------------------------------------------------------------
(* Hashing files: every path is looked at first, then read one by one *)

Inspecting(o, paths, source) ==
    [o EXCEPT !.at = "reading", !.source = source, !.todo = paths, !.read = Nothing,
              !.exists = {f \in paths : repo.work[f] # Absent}]
\* A path that was missing is recorded as missing without a second look; one
\* that has gone since fails the whole set.
ReadFile(f) ==
    /\ op.at = "reading" /\ f \in op.todo
    /\ LET content == IF f \in op.exists THEN repo.work[f] ELSE Absent
       IN /\ f \in op.exists => repo.work[f] # Absent
          /\ op' = [op EXCEPT !.todo = @ \ {f}, !.read = Merged(@, [g \in {f} |-> content])]
    /\ UNCHANGED <<repo, memory>>

\* The paths the caller named come first; a checkpoint then adds every changed
\* path, a recall looks at the paths of the memory.
Explicit ==
    /\ op.at = "captured"
    /\ op' = Inspecting(op, op.explicit, "explicit")
    /\ UNCHANGED <<repo, memory>>

Continue(o) ==
    CASE o.source = "explicit" /\ o.doing = "recall" -> [o EXCEPT !.at = "materialise"]
      [] o.source = "explicit" /\ o.auto -> [o EXCEPT !.at = "cached"]
      [] o.doing = "recall" -> [o EXCEPT !.at = "judge"]
      [] OTHER -> [o EXCEPT !.at = "store"]
HaveRead ==
    /\ op.at = "reading" /\ op.todo = {}
    /\ op' = Continue([op EXCEPT !.artifacts = Merged(@, op.read)])
    /\ UNCHANGED <<repo, memory>>

\* A set that cannot be read whole is worth nothing: an explicit one is an
\* error for the caller, any other is left out.
CannotRead ==
    /\ op.at = "reading"
    /\ op' = IF op.source = "explicit" THEN Resting
             ELSE Continue([op EXCEPT !.failed = TRUE])
    /\ UNCHANGED <<repo, memory>>

----------------------------------------------------------------------------
(* The changed paths of a checkpoint: three commands *)

Listing(at) ==
    CASE at = "cached" -> {f \in File : Staged(repo, f)}
      [] at = "worktree" -> {f \in File : Modified(repo, f)}
      [] at = "others" -> {f \in File : Untracked(repo, f)}
After(at) == IF at = "cached" THEN "worktree" ELSE IF at = "worktree" THEN "others" ELSE "listed"
List(at) ==
    /\ op.at = at
    /\ op' = [op EXCEPT !.listed = @ \cup Listing(at), !.at = After(at)]
    /\ UNCHANGED <<repo, memory>>
\* A command that fails, or prints more than the bound, ends the capture.
ListingFailed(o) == [o EXCEPT !.at = "store", !.failed = TRUE]
CannotList ==
    /\ op.at \in {"cached", "worktree", "others"}
    /\ op' = ListingFailed(op)
    /\ UNCHANGED <<repo, memory>>
Automatic ==
    /\ op.at = "listed"
    /\ op' = Inspecting(op, op.listed, "automatic")
    /\ UNCHANGED <<repo, memory>>

Store ==
    /\ op.at = "store"
    /\ memory' = [scope |-> op.scope, artifacts |-> op.artifacts, start |-> op.start,
                  quiet |-> op.quiet, whole |-> op.auto /\ ~op.failed]
    /\ op' = Resting
    /\ UNCHANGED repo

----------------------------------------------------------------------------
(* The verdict of a recall *)

Materialise ==
    /\ op.at = "materialise"
    /\ op' = Inspecting(op, DOMAIN memory.artifacts, "memory")
    /\ UNCHANGED <<repo, memory>>

\* At most MaxStaged fingerprints of a memory are compared.
StagedSets(artifacts) ==
    {Restrict(artifacts, D) : D \in {D \in SUBSET DOMAIN artifacts :
        Cardinality(D) = IF Cardinality(DOMAIN artifacts) <= MaxStaged
                         THEN Cardinality(DOMAIN artifacts) ELSE MaxStaged}}

Shared(then, now) == DOMAIN then \cap DOMAIN now
Mismatched(then, now) == \E f \in Shared(then, now) : then[f] # now[f]
FullyVerified(then, now, complete) ==
    /\ complete
    /\ then # Nothing
    /\ DOMAIN then \subseteq DOMAIN now
    /\ \A f \in DOMAIN then : then[f] = now[f]

ByRevision(stored, current, relation) ==
    IF stored.head = None \/ current.head = None
    THEN IF None \notin {stored.branch, current.branch} /\ stored.branch # current.branch
         THEN "divergent" ELSE "unversioned"
    ELSE CASE relation = "same" -> "exact"
           [] relation = "ancestor" -> "compatible"
           [] relation \in {"descendant", "diverged"} -> "divergent"
           [] relation = "unknown" -> "unversioned"

Downgraded(verdict, complete) ==
    IF verdict = "exact" /\ ~complete THEN "unversioned" ELSE verdict

Classify(stored, current, then, complete, now, relation) ==
    CASE Mismatched(then, now) -> "stale"
      [] FullyVerified(then, now, complete) -> "exact"
      [] OTHER -> IF stored.dirty # current.dirty THEN "stale"
                  ELSE Downgraded(ByRevision(stored, current, relation), complete)

Relations(stored, current) ==
    IF stored = None \/ current = None THEN {"unknown"}
    ELSE IF stored = current THEN {"same"}
    ELSE {Relation(repo, stored, current), "unknown"}
Judge ==
    /\ op.at = "judge"
    /\ \E then \in StagedSets(memory.artifacts),
          relation \in Relations(memory.scope.head, op.scope.head) :
           op' = [op EXCEPT !.at = "answered",
                            !.verdict = Classify(memory.scope, op.scope, then,
                                                 then = memory.artifacts, op.artifacts, relation)]
    /\ UNCHANGED <<repo, memory>>
Answer ==
    /\ op.at = "answered"
    /\ op' = Resting
    /\ UNCHANGED <<repo, memory>>

----------------------------------------------------------------------------
UserStep ==
    /\ User
    /\ op' = [op EXCEPT !.quiet = op.at = "idle"]
    /\ UNCHANGED memory

Init == WorktreeInit /\ op = Resting /\ memory = None
Next ==
    \/ \E X \in Requested :
           \/ \E auto \in BOOLEAN : Begin("checkpoint", X, auto)
           \/ Begin("recall", X, FALSE)
    \/ ReadStatus \/ ReadDiff \/ ReadUntracked
    \/ Explicit \/ (\E f \in File : ReadFile(f)) \/ HaveRead \/ CannotRead
    \/ List("cached") \/ List("worktree") \/ List("others") \/ CannotList \/ Automatic
    \/ Store \/ Materialise \/ Judge \/ Answer
    \/ UserStep
Spec == Init /\ [][Next]_vars

----------------------------------------------------------------------------
(* Properties *)

Answered == op.at = "answered"
\* Neither the checkpoint nor the recall had the repository changed under it.
Undisturbed == memory.quiet /\ op.quiet
Then == memory.start

\* Everything the hash of uncommitted changes is made of was had, whole.
Seeing(scope) ==
    scope.dirty # None => \A out \in {scope.status, scope.diff, scope.untracked} :
                             out.had /\ ~out.cut
\* A file holds what it held, as far as a capped read of untracked files shows.
LooksTheSame(f) ==
    \/ repo.work[f] = Then.work[f]
    \/ Untracked(repo, f) /\ Untracked(Then, f) /\ Sample[repo.work[f]] = Sample[Then.work[f]]

\* "exact" is earned, in a repository left alone while it was looked at.  Every
\* recorded file that was read again holds what was recorded.  And either that
\* is all of them, with every file that had uncommitted changes if the
\* checkpoint was to record those and could; or commit and index are what they
\* were and every file looks the same, provided that nothing of what Git
\* printed for the checkpoint was lost or cut: there the code calls exact what
\* it could not see.
ExactIsEarned ==
    Answered /\ op.verdict = "exact" /\ Undisturbed
    => /\ \A f \in Shared(memory.artifacts, op.artifacts) : repo.work[f] = Then.work[f]
       /\ \/ /\ memory.artifacts # Nothing /\ DOMAIN memory.artifacts \subseteq DOMAIN op.artifacts
             /\ memory.whole => \A f \in Changed(Then) : repo.work[f] = Then.work[f]
          \/ Seeing(memory.scope)
             => /\ repo.head = Then.head /\ repo.index = Then.index
                /\ \A f \in File : LooksTheSame(f)

\* If nothing has changed, and Git printed the same both times, a memory is not
\* called stale or divergent, whatever file could not be read; and it is exact
\* when HEAD exists, the status was had and all of its artifacts were compared.
\* (Where a command fails once only, the code may call it stale.)
UnchangedIsApplicable ==
    /\ Answered /\ Undisturbed
    /\ [repo EXCEPT !.edits = 0] = [Then EXCEPT !.edits = 0]
    /\ memory.scope.status = op.scope.status /\ memory.scope.diff = op.scope.diff
    /\ memory.scope.untracked = op.scope.untracked
    => /\ op.verdict \in {"exact", "compatible", "unversioned"}
       /\ (/\ repo.head # 0 /\ op.scope.status.had
           /\ Cardinality(DOMAIN memory.artifacts) <= MaxStaged)
          => op.verdict = "exact"

\* A clean worktree is judged by its history alone: commits on top of the
\* memory's leave it applicable, and after a rewrite it is not.
HistoryDecides ==
    /\ Answered /\ Undisturbed
    /\ Clean(Then) /\ Clean(repo) /\ memory.artifacts = Nothing
    /\ Then.head # 0 /\ repo.head # 0
    => IF Then.head \in Ancestors(repo, repo.head)
       THEN op.verdict \in {"exact", "compatible", "unversioned"}
       ELSE op.verdict \in {"divergent", "unversioned"}

\* A part of a memory's artifacts never makes it exact.
PartNeverExact ==
    Answered /\ Cardinality(DOMAIN memory.artifacts) > MaxStaged => op.verdict # "exact"

\* A verdict says what it means: "exact" is earned and never given for a part,
\* what did not change stays applicable, and a clean worktree is judged by its
\* history (classify_applicability).
VerdictsAreRight ==
    ExactIsEarned /\ UnchangedIsApplicable /\ HistoryDecides /\ PartNeverExact
=============================================================================
