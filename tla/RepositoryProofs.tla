-------------------------- MODULE RepositoryProofs -------------------------
(***************************************************************************)
(* Theorems about what a memory and a repository have to do with each      *)
(* other: identities, for any clones, worktrees and origins, and verdicts, *)
(* for any files, commits and steps of the user.                           *)
(***************************************************************************)
EXTENDS MCRepository, FiniteSetTheorems, TLAPS

----------------------------------------------------------------------------
(* The invariant *)

TypeOK == /\ clone \in [Root -> Clone \cup {None}]
          /\ origin \in [Clone -> Remotes \cup {None}]

\* An identity tells where it is from: the origin of the day, the clone, or
\* the root of a worktree that is still the clone's.
OriginsTold(m) ==
    /\ m.clone \in Clone /\ m.origin \in Remotes \cup {None}
    /\ m.id.by = "origin" => Hosted(m.origin) /\ m.id.name = <<Name(m.origin)>>
    /\ m.id.by = "directory" => \/ m.id.path = m.clone
                                \/ m.id.path \in Root /\ clone[m.id.path] = m.clone
    /\ m.id.by = "workspace" => m.id.path \in Root /\ clone[m.id.path] = m.clone
    /\ m.whole => \/ m.id = [by |-> "origin", name |-> <<Name(m.origin)>>, path |-> None]
                     /\ Hosted(m.origin)
                  \/ m.id = [by |-> "directory", name |-> <<>>, path |-> m.clone]
                     /\ ~Hosted(m.origin)
IdentityInv == TypeOK /\ \A m \in memories : OriginsTold(m)

----------------------------------------------------------------------------
(* Lemmas *)

\* The two sides of an origin's locality agree: what is not a local path is
\* hosted.
LEMMA NotLocalIsHosted ==
    ASSUME NEW r \in Remotes
    PROVE  ~Local(r) <=> Hosted(r)
BY IdentityAssumption DEF Remote, Form, Local, Hosted

\* What the steps of normalize_remote leave of a hosted origin: neither user nor
\* query, neither slash nor suffix.
LEMMA NameForm ==
    ASSUME NEW r \in Remotes
    PROVE  Name(r) = [file |-> FileUrl(r), user |-> FALSE, upper |-> FALSE,
                      host |-> Authority(r), path |-> r.path, git |-> FALSE, slash |-> FALSE,
                      query |-> FALSE]
<1> DEFINE a == Unqueried(r)
           b == HostFolded(a)
           c == Unslashed(b)
           d == Unsuffixed(c)
<1>0. r \in Remote BY IdentityAssumption
<1>1. a \in Remote /\ a.query = FALSE /\ a.form = r.form /\ a.host = r.host /\ a.path = r.path
  BY <1>0 DEF Remote, Unqueried
<1> HIDE DEF a
<1>2. /\ b \in Remote /\ b.query = FALSE /\ b.user = FALSE /\ b.upper = FALSE
      /\ b.form = r.form /\ b.host = r.host /\ b.path = r.path
  BY <1>1 DEF Remote, HostFolded
<1> HIDE DEF b
<1>3. /\ c \in Remote /\ c.query = FALSE /\ c.user = FALSE /\ c.upper = FALSE /\ c.slash = FALSE
      /\ c.form = r.form /\ c.host = r.host /\ c.path = r.path
  BY <1>2 DEF Remote, Unslashed
<1> HIDE DEF c
<1>4. /\ d.query = FALSE /\ d.user = FALSE /\ d.upper = FALSE /\ d.slash = FALSE
      /\ d.git = FALSE /\ d.form = r.form /\ d.host = r.host /\ d.path = r.path
  BY <1>3 DEF Remote, Unsuffixed
<1>5. Name(r) = Spelling(d) BY DEF Name, a, b, c
<1> HIDE DEF d
<1> QED BY <1>4, <1>5 DEF Spelling, FileUrl, Authority

\* The normalised name of two hosted origins is the same exactly when the same
\* repository is meant (normalize_remote).
LEMMA NameIsWhatIsNamed ==
    ASSUME NEW r \in Remotes, NEW s \in Remotes
    PROVE  Name(r) = Name(s) <=> Named(r) = Named(s)
<1> DEFINE form(x) == [file |-> FileUrl(x), user |-> FALSE, upper |-> FALSE,
                       host |-> Authority(x), path |-> x.path, git |-> FALSE, slash |-> FALSE,
                       query |-> FALSE]
<1>1. form(r) = form(s) <=> Named(r) = Named(s) BY DEF Named, FileUrl, Authority
<1> HIDE DEF form
<1>2. Name(r) = form(r) /\ Name(s) = form(s) BY NameForm DEF form
<1> QED BY <1>1, <1>2

\* What discover_repository returns, by the answers it got.
LEMMA IdentityForm ==
    ASSUME TypeOK, NEW w \in Worktrees, NEW answers \in Answers
    PROVE  /\ clone[w] \in Clone /\ w \in Root
           /\ origin[clone[w]] \in Remotes \cup {None}
           /\ \/ /\ Hosted(origin[clone[w]]) /\ "origin" \in answers
                 /\ Identity(w, answers) =
                       [by |-> "origin", name |-> <<Name(origin[clone[w]])>>, path |-> None]
              \/ /\ "origin" \in answers => ~Hosted(origin[clone[w]])
                 /\ Identity(w, answers) =
                       [by |-> "directory", name |-> <<>>, path |-> Directory(w, answers)]
              \/ /\ "toplevel" \notin answers
                 /\ Identity(w, answers) = [by |-> "workspace", name |-> <<>>, path |-> w]
<1>1. clone[w] \in Clone /\ w \in Root /\ origin[clone[w]] \in Remotes \cup {None}
  BY DEF TypeOK, Worktrees
<1>0. CASE "toplevel" \notin answers BY <1>0, <1>1 DEF Identity
<1>2. CASE "toplevel" \in answers /\ "origin" \in answers /\ origin[clone[w]] # None
  <2>1. ~Local(origin[clone[w]]) <=> Hosted(origin[clone[w]])
    BY <1>1, <1>2, NotLocalIsHosted
  <2> QED BY <1>1, <1>2, <2>1 DEF Identity
<1>3. CASE "toplevel" \in answers /\ ("origin" \notin answers \/ origin[clone[w]] = None)
  BY <1>1, <1>3 DEF Identity, Hosted
<1> QED BY <1>0, <1>2, <1>3

----------------------------------------------------------------------------
(* Theorems *)

LEMMA InitIdentity == Init => IdentityInv
BY DEF Init, IdentityInv, TypeOK

LEMMA NextIdentity == IdentityInv /\ [Next]_vars => IdentityInv'
<1> SUFFICES ASSUME IdentityInv, [Next]_vars PROVE IdentityInv'
  OBVIOUS
<1>1. ASSUME NEW w \in Root, NEW c \in Clone, AddWorktree(w, c) PROVE IdentityInv'
  <2>1. TypeOK'
    BY <1>1 DEF AddWorktree, IdentityInv, TypeOK
  <2>2. ASSUME NEW m \in memories PROVE OriginsTold(m)'
    <3>1. OriginsTold(m) BY <2>2 DEF IdentityInv
    <3>2. None \notin Clone /\ clone[w] = None BY <1>1, IdentityAssumption DEF AddWorktree
    <3>3. ASSUME m.id.path \in Root, clone[m.id.path] = m.clone
          PROVE  clone'[m.id.path] = m.clone
      BY <1>1, <3>1, <3>2, <3>3 DEF AddWorktree, OriginsTold, IdentityInv, TypeOK
    <3> QED BY <1>1, <3>1, <3>3 DEF OriginsTold, AddWorktree
  <2> QED BY <1>1, <2>1, <2>2 DEF IdentityInv, AddWorktree
<1>2. ASSUME NEW c \in Clone, NEW r \in Remotes \cup {None}, SetOrigin(c, r) PROVE IdentityInv'
  BY <1>2 DEF SetOrigin, IdentityInv, TypeOK, OriginsTold
<1>3. ASSUME NEW w \in Worktrees, NEW a \in Answers, Remember(w, a) PROVE IdentityInv'
  <2> DEFINE new == [id |-> Identity(w, a), whole |-> a = Everything,
                     clone |-> clone[w], origin |-> origin[clone[w]]]
  <2>1. TypeOK BY DEF IdentityInv
  <2>2. OriginsTold(new)
    <3>1. /\ clone[w] \in Clone /\ w \in Root
          /\ origin[clone[w]] \in Remotes \cup {None}
          /\ \/ /\ Hosted(origin[clone[w]]) /\ "origin" \in a
                /\ new.id = [by |-> "origin", name |-> <<Name(origin[clone[w]])>>, path |-> None]
             \/ /\ "origin" \in a => ~Hosted(origin[clone[w]])
                /\ new.id = [by |-> "directory", name |-> <<>>, path |-> Directory(w, a)]
             \/ /\ "toplevel" \notin a
                /\ new.id = [by |-> "workspace", name |-> <<>>, path |-> w]
      BY <1>3, <2>1, IdentityForm
    <3>2. "common_dir" \in a => Directory(w, a) = clone[w] BY DEF Directory
    <3>3. "common_dir" \notin a => Directory(w, a) = w BY DEF Directory
    <3>4. a = Everything => "origin" \in a /\ "common_dir" \in a /\ "toplevel" \in a
      BY DEF Everything
    <3>5. new.whole <=> a = Everything OBVIOUS
    <3>6. new.clone = clone[w] /\ new.origin = origin[clone[w]] OBVIOUS
    <3> HIDE DEF new
    <3> QED BY <3>1, <3>2, <3>3, <3>4, <3>5, <3>6 DEF OriginsTold
  <2>3. memories' = memories \cup {new} /\ UNCHANGED <<clone, origin>> BY <1>3 DEF Remember
  <2> HIDE DEF new
  <2>4. \A m \in memories' : OriginsTold(m) BY <2>2, <2>3 DEF IdentityInv
  <2> QED BY <2>1, <2>3, <2>4 DEF IdentityInv, TypeOK, OriginsTold
<1>4. CASE UNCHANGED vars
  BY <1>4 DEF vars, IdentityInv, TypeOK, OriginsTold
<1> QED BY <1>1, <1>2, <1>3, <1>4 DEF Next

LEMMA IdentityInvariant == Spec => []IdentityInv
BY InitIdentity, NextIdentity, PTL DEF Spec

\* No memory is found in a repository that is neither its clone nor of the
\* same hosted origin, whatever is set meanwhile and whatever fails
\* (discover_repository).
THEOREM NoStrangers == Spec => []NoStrangersMemories
<1>1. IdentityInv => NoStrangersMemories
  <2> SUFFICES ASSUME IdentityInv, NEW m \in memories, NEW w \in Worktrees,
                      NEW answers \in Answers, m.id = Identity(w, answers)
               PROVE  clone[w] = m.clone \/ SameOrigin(origin[clone[w]], m.origin)
    BY DEF NoStrangersMemories
  <2>1. OriginsTold(m) /\ TypeOK BY DEF IdentityInv
  <2>2. /\ clone[w] \in Clone /\ w \in Root
        /\ \/ /\ Hosted(origin[clone[w]])
              /\ m.id = [by |-> "origin", name |-> <<Name(origin[clone[w]])>>, path |-> None]
           \/ m.id = [by |-> "directory", name |-> <<>>, path |-> Directory(w, answers)]
           \/ m.id = [by |-> "workspace", name |-> <<>>, path |-> w]
    BY <2>1, IdentityForm
  <2>3. CASE m.id.by = "origin"
    <3>1. Hosted(m.origin) /\ Name(m.origin) = Name(origin[clone[w]])
          /\ Hosted(origin[clone[w]])
      BY <2>1, <2>2, <2>3 DEF OriginsTold
    <3>2. m.origin \in Remotes /\ origin[clone[w]] \in Remotes
      BY <2>1, <2>2, <3>1 DEF OriginsTold, TypeOK, Hosted
    <3>3. Named(origin[clone[w]]) = Named(m.origin) BY <3>1, <3>2, NameIsWhatIsNamed
    <3> QED BY <3>1, <3>3 DEF SameOrigin
  <2>4. CASE m.id.by = "directory"
    <3>1. m.id.path = clone[w] \/ m.id.path = w BY <2>2, <2>4 DEF Directory
    <3>2. m.id.path = m.clone \/ (m.id.path \in Root /\ clone[m.id.path] = m.clone)
      BY <2>1, <2>4 DEF OriginsTold
    <3>3. m.clone \in Clone BY <2>1 DEF OriginsTold
    <3> QED BY <2>2, <3>1, <3>2, <3>3, IdentityAssumption
  <2>5. CASE m.id.by = "workspace"
    BY <2>1, <2>2, <2>5 DEF OriginsTold
  <2> QED BY <2>2, <2>3, <2>4, <2>5
<1> QED BY <1>1, IdentityInvariant, PTL

\* A memory is found again in every worktree of its clone and in every clone of
\* the same hosted repository, however its origin is spelled (normalize_remote,
\* discover_repository).
THEOREM MemoriesAreFoundAgain == Spec => []FoundAgain
<1>1. IdentityInv => FoundAgain
  <2> SUFFICES ASSUME IdentityInv, NEW m \in memories, NEW w \in Worktrees, m.whole,
                      \/ SameOrigin(origin[clone[w]], m.origin)
                      \/ /\ clone[w] = m.clone
                         /\ ~Hosted(origin[clone[w]]) /\ ~Hosted(m.origin)
               PROVE  m.id = Identity(w, Everything)
    BY DEF FoundAgain
  <2>1. OriginsTold(m) /\ TypeOK BY DEF IdentityInv
  <2>2. /\ Everything \in Answers /\ "origin" \in Everything /\ "toplevel" \in Everything
        /\ Directory(w, Everything) = clone[w]
    BY DEF Everything, Answers, Directory
  <2>3. \/ /\ Hosted(origin[clone[w]])
           /\ Identity(w, Everything) =
                 [by |-> "origin", name |-> <<Name(origin[clone[w]])>>, path |-> None]
        \/ /\ ~Hosted(origin[clone[w]])
           /\ Identity(w, Everything) =
                 [by |-> "directory", name |-> <<>>, path |-> clone[w]]
    BY <2>1, <2>2, IdentityForm
  <2>4. CASE SameOrigin(origin[clone[w]], m.origin)
    <3>1. /\ Hosted(m.origin) /\ Hosted(origin[clone[w]])
          /\ Named(m.origin) = Named(origin[clone[w]])
      BY <2>4 DEF SameOrigin
    <3>2. clone[w] \in Clone BY <2>1 DEF TypeOK, Worktrees
    <3>3. m.origin \in Remotes /\ origin[clone[w]] \in Remotes
      BY <2>1, <3>1, <3>2 DEF OriginsTold, TypeOK, Hosted
    <3>4. Name(m.origin) = Name(origin[clone[w]]) BY <3>1, <3>3, NameIsWhatIsNamed
    <3> QED BY <2>1, <2>3, <3>1, <3>4 DEF OriginsTold
  <2>5. CASE /\ clone[w] = m.clone
             /\ ~Hosted(origin[clone[w]]) /\ ~Hosted(m.origin)
    BY <2>1, <2>3, <2>5 DEF OriginsTold
  <2> QED BY <2>4, <2>5
<1> QED BY <1>1, IdentityInvariant, PTL
----------------------------------------------------------------------------
(***************************************************************************)
(* Verdicts (Applicability).  An operation that nobody disturbed sees the  *)
(* repository as it was when it began: each of its reads is true of it.    *)
(***************************************************************************)

CommitRow == [parent: Nat, files: Holds!Tree]
Repo == [work: Holds!Tree, index: Holds!Tree, edits: Nat, branch: Branch, head: Nat,
         commits: Seq(CommitRow)]
\* A commit comes after its parent.
RepoOK(r) ==
    /\ r \in Repo
    /\ r.head \in 0..Len(r.commits)
    /\ \A i \in 1..Len(r.commits) : r.commits[i].parent < i
Grown(r, q) ==
    /\ Len(r.commits) <= Len(q.commits)
    /\ \A i \in 1..Len(r.commits) : q.commits[i] = r.commits[i]

Artifacts == UNION {[D -> Content] : D \in SUBSET File}
Contents == Holds!Output(File \X Content)
ScopeRow == [head: Nat \cup {None}, branch: Branch \cup {None},
             status: Holds!Output(Holds!StatusLine), diff: Contents, untracked: Contents,
             dirty: Holds!DirtyHashes \cup {None}]
Done == {"captured", "reading", "cached", "worktree", "others", "listed", "store",
         "materialise", "judge", "answered"}
OpRow == [at: Done \cup {"idle", "status", "diff", "untracked"},
          doing: {None, "checkpoint", "recall"}, explicit: SUBSET File, auto: BOOLEAN,
          scope: ScopeRow, listed: SUBSET File,
          source: {None, "explicit", "automatic", "memory"},
          exists: SUBSET File, todo: SUBSET File, read: Artifacts, artifacts: Artifacts,
          failed: BOOLEAN, verdict: Holds!Verdict \cup {None},
          start: Repo \cup {None}, quiet: BOOLEAN]

\* The scope that status, diff and untracked files of r make.
Begun(s, r) ==
    /\ s.head = Holds!HeadOid(r) /\ s.branch = r.branch
    /\ s.status \in Holds!Bounded(Holds!Status(r)) /\ s.status.had
ScopeIs(s, r) ==
    \/ s = Holds!NoScope
    \/ /\ Begun(s, r)
       /\ IF s.status = Holds!Whole({})
          THEN s.diff = Holds!Missing /\ s.untracked = Holds!Missing /\ s.dirty = None
          ELSE /\ s.diff \in Holds!Diffs(r)
               /\ s.untracked \in Holds!Bounded(Holds!UntrackedContents(r))
               /\ s.dirty = Holds!DirtyHash(s)
True(a, r) == \A f \in DOMAIN a : a[f] = r.work[f]

Remembered(m, r) ==
    /\ m.scope \in ScopeRow /\ m.artifacts \in Artifacts
    /\ m.quiet \in BOOLEAN /\ m.whole \in BOOLEAN
    /\ m.quiet =>
          /\ RepoOK(m.start) /\ Grown(m.start, r)
          /\ ScopeIs(m.scope, m.start) /\ True(m.artifacts, m.start)
          /\ m.whole => Holds!Changed(m.start) \subseteq DOMAIN m.artifacts

\* What the operation has seen of a repository that is left alone.
SeenScope ==
    /\ op.at \in {"diff", "untracked"} =>
          Begun(op.scope, repo) /\ op.scope.status # Holds!Whole({})
    /\ op.at = "untracked" => op.scope.diff \in Holds!Diffs(repo)
    /\ op.at \in Done => ScopeIs(op.scope, repo)
SeenFiles ==
    /\ op.at # "idle" => True(op.artifacts, repo)
    /\ op.at = "reading" =>
          /\ True(op.read, repo)
          /\ \A f \in op.todo : f \in op.exists <=> repo.work[f] # Absent
ListedBy(at, r) ==
    {f \in File : \/ Holds!Staged(r, f)
                  \/ at \in {"others", "listed"} /\ Holds!Modified(r, f)
                  \/ at = "listed" /\ Holds!Untracked(r, f)}
SeenChanges ==
    /\ op.at \in {"worktree", "others", "listed"} => ListedBy(op.at, repo) \subseteq op.listed
    /\ op.at = "reading" /\ op.source = "automatic" =>
          Holds!Changed(repo) \subseteq DOMAIN op.read \cup op.todo
    /\ op.at = "store" /\ op.auto /\ ~op.failed =>
          Holds!Changed(repo) \subseteq DOMAIN op.artifacts
Seen ==
    op.at # "idle" /\ op.quiet => op.start = repo /\ SeenScope /\ SeenFiles /\ SeenChanges

Doing ==
    /\ op.at # "idle" => op.doing \in {"checkpoint", "recall"}
    /\ op.at # "idle" /\ op.doing = "recall" => Remembered(memory, repo) /\ ~op.auto
    /\ op.at \in {"materialise", "judge", "answered"} => op.doing = "recall"
    /\ op.at \in {"cached", "worktree", "others", "listed", "store"} => op.doing = "checkpoint"
    /\ op.at = "reading" => op.source \in {"explicit", "automatic", "memory"}
    /\ op.at = "reading" /\ op.source = "automatic" => op.doing = "checkpoint"
    /\ op.at = "reading" /\ op.source = "memory" => op.doing = "recall"

Relations == {"same", "ancestor", "descendant", "diverged", "unknown"}
Judged(then, relation) ==
    /\ op.verdict = Holds!Classify(memory.scope, op.scope, then, then = memory.artifacts,
                                   op.artifacts, relation)
    /\ op.quiet => relation \in Holds!Relations(memory.scope.head, op.scope.head)
HasJudged ==
    op.at = "answered" =>
        \E then \in Holds!StagedSets(memory.artifacts), relation \in Relations :
            Judged(then, relation)

VerdictInv ==
    /\ RepoOK(repo) /\ op \in OpRow /\ (memory = None \/ Remembered(memory, repo))
    /\ Seen /\ Doing /\ HasJudged

----------------------------------------------------------------------------
(* What Git prints has its type, and tells repositories apart *)

\* What is made of a command's output has its type, and is all of it if it was
\* had and not cut.
LEMMA BoundedOutput ==
    ASSUME NEW S, NEW T, S \subseteq T
    PROVE  /\ Holds!Bounded(S) \subseteq Holds!Output(T)
           /\ Holds!Missing \in Holds!Output(T) /\ Holds!Whole(S) \in Holds!Output(T)
           /\ \A out \in Holds!Bounded(S) : out.had /\ ~out.cut => out = Holds!Whole(S)
<1>1. ASSUME NEW out \in Holds!Bounded(S)
      PROVE  /\ out \in Holds!Output(T)
             /\ out.had /\ ~out.cut => out = Holds!Whole(S)
  <2>1. CASE out = Holds!Whole(S) BY <2>1 DEF Holds!Whole, Holds!Output
  <2>2. CASE out = Holds!Missing BY <2>2 DEF Holds!Missing, Holds!Output
  <2>3. ASSUME NEW P \in SUBSET S, out = [had |-> TRUE, cut |-> TRUE, of |-> P]
        PROVE  /\ out \in Holds!Output(T)
               /\ out.had /\ ~out.cut => out = Holds!Whole(S)
    <3>1. P \in SUBSET T OBVIOUS
    <3> QED BY <2>3, <3>1 DEF Holds!Output
  <2> QED BY <2>1, <2>2, <2>3 DEF Holds!Bounded
<1>2. Holds!Missing \in Holds!Output(T) /\ Holds!Whole(S) \in Holds!Output(T)
  BY DEF Holds!Output, Holds!Missing, Holds!Whole
<1> QED BY <1>1, <1>2

\* Two outputs that are whole and equal are of the same.
LEMMA WholeTellsApart ==
    ASSUME NEW S, NEW T, NEW out \in Holds!Bounded(S), out.had, ~out.cut,
           out \in Holds!Bounded(T)
    PROVE  S = T /\ out = Holds!Whole(S)
<1>1. out = Holds!Whole(S) /\ out = Holds!Whole(T) BY BoundedOutput
<1> QED BY <1>1 DEF Holds!Whole

LEMMA GitTypes ==
    ASSUME NEW r, RepoOK(r), Holds!WorktreeAssumption
    PROVE  /\ Holds!HeadOid(r) \in Nat \cup {None} /\ r.branch \in Branch
           /\ Holds!HeadFiles(r) \in Holds!Tree
           /\ Holds!Status(r) \in SUBSET Holds!StatusLine
           /\ Holds!Bounded(Holds!Status(r)) \subseteq Holds!Output(Holds!StatusLine)
           /\ Holds!Diffs(r) \subseteq Contents
           /\ Holds!Bounded(Holds!UntrackedContents(r)) \subseteq Contents
<1>1. r \in Repo /\ r.head \in 0..Len(r.commits) BY DEF RepoOK
<1>2. r.work \in Holds!Tree /\ r.index \in Holds!Tree /\ r.head \in Nat /\ r.branch \in Branch
      /\ r.commits \in Seq(CommitRow)
  BY <1>1 DEF Repo
<1>3. Holds!HeadOid(r) \in Nat \cup {None}
  BY <1>2 DEF Holds!HeadOid
<1>4. Holds!HeadFiles(r) \in Holds!Tree
  <2>1. CASE r.head = 0
    BY <2>1 DEF Holds!HeadFiles, Holds!FilesOf, Holds!Empty, Holds!Tree, Holds!WorktreeAssumption
  <2>2. CASE r.head # 0
    <3>1. r.head \in 1..Len(r.commits) BY <1>1, <1>2, <2>2
    <3>2. r.commits[r.head] \in CommitRow BY <1>2, <3>1
    <3>3. r.commits[r.head].files \in Holds!Tree BY <3>2 DEF CommitRow
    <3> QED BY <2>2, <3>3 DEF Holds!HeadFiles, Holds!FilesOf
  <2> QED BY <2>1, <2>2
<1>5. \A f \in File : /\ r.work[f] \in Content /\ r.index[f] \in Content
                      /\ Holds!HeadFiles(r)[f] \in Content
  BY <1>2, <1>4 DEF Holds!Tree
<1>6. Holds!Status(r) \in SUBSET Holds!StatusLine
  <2>1. \A f \in File : Holds!Column(r, f) \in {".", "M", "D"}
    BY DEF Holds!Column
  <2> QED BY <1>5, <2>1 DEF Holds!Status, Holds!StatusLine
<1>7. Holds!TrackedDiff(r) \in SUBSET (File \X Content)
  <2> DEFINE now(f) == IF r.index[f] = Absent THEN Absent ELSE r.work[f]
             lines == {<<f, now(f)>> : f \in {g \in File : now(g) # Holds!HeadFiles(r)[g]}}
  <2>1. \A f \in File : now(f) \in Content BY <1>5 DEF Holds!WorktreeAssumption
  <2>2. lines \in SUBSET (File \X Content) BY <2>1
  <2> QED BY <2>2 DEF Holds!TrackedDiff
<1>8. Holds!UntrackedContents(r) \in SUBSET (File \X Content)
  <2>1. \A f \in File : Alike[r.work[f]] \in Content BY <1>5 DEF Holds!WorktreeAssumption
  <2> QED BY <2>1 DEF Holds!UntrackedContents
<1>9. /\ Holds!Bounded(Holds!Status(r)) \subseteq Holds!Output(Holds!StatusLine)
      /\ Holds!Bounded(Holds!TrackedDiff(r)) \subseteq Contents /\ Holds!Missing \in Contents
      /\ Holds!Bounded(Holds!UntrackedContents(r)) \subseteq Contents
  BY <1>6, <1>7, <1>8, BoundedOutput DEF Contents
<1>10. Holds!Diffs(r) \subseteq Contents BY <1>9 DEF Holds!Diffs
<1> QED BY <1>2, <1>3, <1>4, <1>6, <1>9, <1>10

\* No line of the status: worktree, index and commit agree.
LEMMA CleanStatus ==
    ASSUME NEW r, RepoOK(r), Holds!WorktreeAssumption
    PROVE  Holds!Status(r) = {} <=> r.work = r.index /\ r.index = Holds!HeadFiles(r)
<1>1. /\ r.work \in [File -> Content] /\ r.index \in [File -> Content]
      /\ Holds!HeadFiles(r) \in [File -> Content]
  BY GitTypes DEF RepoOK, Repo, Holds!Tree
<1>2. ASSUME Holds!Status(r) = {}
      PROVE  r.work = r.index /\ r.index = Holds!HeadFiles(r)
  <2>1. \A f \in File : ~Holds!Staged(r, f) /\ ~Holds!Modified(r, f) /\ ~Holds!Untracked(r, f)
    BY <1>2 DEF Holds!Status
  <2>2. \A f \in File : r.index[f] = Holds!HeadFiles(r)[f] /\ r.work[f] = r.index[f]
    BY <2>1 DEF Holds!Staged, Holds!Modified, Holds!Untracked
  <2> QED BY <1>1, <2>2
<1>3. ASSUME r.work = r.index, r.index = Holds!HeadFiles(r)
      PROVE  Holds!Status(r) = {}
  BY <1>3 DEF Holds!Status, Holds!Staged, Holds!Modified, Holds!Untracked
<1> QED BY <1>2, <1>3

\* Untracked files are told by the status.
LEMMA StatusTellsUntracked ==
    ASSUME NEW r, NEW q, Holds!Status(r) = Holds!Status(q), NEW f \in File,
           Holds!Untracked(r, f)
    PROVE  Holds!Untracked(q, f)
<1> DEFINE line == <<"untracked", f>>
<1>1. line \in Holds!Status(q) BY DEF Holds!Status
<1>2. \A g \in File : line # <<"changed", g, Holds!HeadFiles(q)[g], q.index[g], Holds!Column(q, g)>>
  OBVIOUS
<1>3. \E g \in File : Holds!Untracked(q, g) /\ line = <<"untracked", g>>
  BY <1>1, <1>2 DEF Holds!Status
<1> QED BY <1>3

\* A file of one repository looks like that of the other.
Looks(f, r, q) ==
    \/ r.work[f] = q.work[f]
    \/ Holds!Untracked(r, f) /\ Holds!Untracked(q, f) /\ Alike[r.work[f]] = Alike[q.work[f]]

\* Of two repositories at one commit, status, diff and untracked files tell
\* every difference of index and worktree, as far as untracked files are read.
LEMMA HashTellsApart ==
    ASSUME NEW r, NEW q, RepoOK(r), RepoOK(q), Holds!WorktreeAssumption,
           Holds!HeadFiles(r) = Holds!HeadFiles(q), r.head # 0, q.head # 0,
           Holds!Status(r) = Holds!Status(q),
           Holds!TrackedDiff(r) = Holds!TrackedDiff(q),
           Holds!UntrackedContents(r) = Holds!UntrackedContents(q)
    PROVE  r.index = q.index /\ \A f \in File : Looks(f, r, q)
<1>1. /\ r.work \in [File -> Content] /\ r.index \in [File -> Content]
      /\ q.work \in [File -> Content] /\ q.index \in [File -> Content]
  BY DEF RepoOK, Repo, Holds!Tree
<1>2. ASSUME NEW a, NEW b, Holds!Status(a) = Holds!Status(b), NEW f \in File,
             Holds!HeadFiles(a) = Holds!HeadFiles(b)
      PROVE  /\ Holds!Staged(a, f) \/ Holds!Modified(a, f) => a.index[f] = b.index[f]
             /\ ~(Holds!Staged(a, f) \/ Holds!Modified(a, f))
                => ~(Holds!Staged(b, f) \/ Holds!Modified(b, f))
  <2>1. ASSUME NEW c, NEW d, Holds!Status(c) = Holds!Status(d),
               Holds!Staged(c, f) \/ Holds!Modified(c, f)
        PROVE  /\ Holds!Staged(d, f) \/ Holds!Modified(d, f)
               /\ c.index[f] = d.index[f]
    <3> DEFINE line == <<"changed", f, Holds!HeadFiles(c)[f], c.index[f], Holds!Column(c, f)>>
    <3>1. line \in Holds!Status(c) BY <2>1 DEF Holds!Status
    <3>2. line \in Holds!Status(d) BY <2>1, <3>1
    <3>3. \A g \in File : line # <<"untracked", g>>
      OBVIOUS
    <3>4. \E g \in File : /\ Holds!Staged(d, g) \/ Holds!Modified(d, g)
             /\ line = <<"changed", g, Holds!HeadFiles(d)[g], d.index[g], Holds!Column(d, g)>>
      BY <3>2, <3>3 DEF Holds!Status
    <3> QED BY <3>4
  <2> QED BY <1>2, <2>1
<1>3. ASSUME NEW f \in File PROVE r.index[f] = q.index[f]
  <2>1. CASE Holds!Staged(r, f) \/ Holds!Modified(r, f) BY <1>2, <2>1
  <2>2. CASE ~(Holds!Staged(r, f) \/ Holds!Modified(r, f))
    <3>1. ~Holds!Staged(r, f) /\ ~Holds!Staged(q, f) BY <1>2, <2>2
    <3> QED BY <3>1 DEF Holds!Staged
  <2> QED BY <2>1, <2>2
<1>4. ASSUME NEW f \in File PROVE Looks(f, r, q)
  <2>1. CASE r.index[f] = Absent
    <3>1. ASSUME NEW a, NEW b, Holds!UntrackedContents(a) = Holds!UntrackedContents(b),
                 Holds!Untracked(a, f)
          PROVE  Holds!Untracked(b, f) /\ Alike[b.work[f]] = Alike[a.work[f]]
      <4>1. <<f, Alike[a.work[f]]>> \in Holds!UntrackedContents(a)
        BY <3>1 DEF Holds!UntrackedContents
      <4>2. PICK g \in {h \in File : Holds!Untracked(b, h)} :
               <<f, Alike[a.work[f]]>> = <<g, Alike[b.work[g]]>>
        BY <3>1, <4>1 DEF Holds!UntrackedContents
      <4>3. f = g /\ Alike[a.work[f]] = Alike[b.work[g]] BY <4>2
      <4> QED BY <4>2, <4>3
    <3>2. q.index[f] = Absent BY <1>3, <2>1
    <3>3. CASE Holds!Untracked(r, f) BY <3>1, <3>3 DEF Looks
    <3>4. CASE Holds!Untracked(q, f) BY <3>1, <3>4 DEF Looks
    <3>5. CASE ~Holds!Untracked(r, f) /\ ~Holds!Untracked(q, f)
      BY <2>1, <3>2, <3>5 DEF Holds!Untracked, Looks
    <3> QED BY <3>3, <3>4, <3>5
  <2>2. CASE r.index[f] # Absent
    <3>1. ASSUME NEW a, NEW b, Holds!TrackedDiff(a) = Holds!TrackedDiff(b), a.head # 0, b.head # 0,
                 Holds!HeadFiles(a) = Holds!HeadFiles(b),
                 a.index[f] # Absent, b.index[f] # Absent, a.work[f] # Holds!HeadFiles(a)[f]
          PROVE  b.work[f] = a.work[f]
      <4> DEFINE now(c, g) == IF c.index[g] = Absent THEN Absent ELSE c.work[g]
                 lines(c) == {<<g, now(c, g)>> :
                                 g \in {h \in File : now(c, h) # Holds!HeadFiles(c)[h]}}
      <4>1. Holds!TrackedDiff(a) = lines(a) /\ Holds!TrackedDiff(b) = lines(b)
        BY DEF Holds!TrackedDiff
      <4>2. <<f, a.work[f]>> \in lines(a) BY <3>1
      <4>3. <<f, a.work[f]>> \in lines(b) BY <3>1, <4>1, <4>2
      <4>4. PICK g \in File : <<f, a.work[f]>> = <<g, now(b, g)>> BY <4>3
      <4> QED BY <3>1, <4>4
    <3>2. q.index[f] # Absent BY <1>3, <2>2
    <3>3. r.work[f] # Holds!HeadFiles(r)[f] => q.work[f] = r.work[f]
      BY <2>2, <3>1, <3>2
    <3>4. q.work[f] # Holds!HeadFiles(q)[f] => r.work[f] = q.work[f]
      BY <2>2, <3>1, <3>2
    <3> QED BY <3>3, <3>4 DEF Looks
  <2> QED BY <2>1, <2>2
<1> QED BY <1>1, <1>3, <1>4

----------------------------------------------------------------------------
(* Commits *)

LEMMA AncestorItself ==
    ASSUME NEW r, NEW c \in 1..Len(r.commits), r.commits \in Seq(CommitRow)
    PROVE  c \in Holds!Ancestors(r, c)
<1>1. c # 0 BY DEF CommitRow
<1> QED BY <1>1 DEF Holds!Ancestors

LEMMA AncestorsOfAncestors ==
    ASSUME NEW r, NEW c, NEW d, c \in Holds!Ancestors(r, d), r.commits \in Seq(CommitRow)
    PROVE  Holds!Ancestors(r, c) \subseteq Holds!Ancestors(r, d)
<1>1. d # 0 /\ c \in 1..Len(r.commits) BY DEF Holds!Ancestors
<1>2. c # 0 BY <1>1
<1> QED BY <1>1, <1>2 DEF Holds!Ancestors

LEMMA AncestorsComeBefore ==
    ASSUME NEW r, RepoOK(r), NEW c \in 1..Len(r.commits)
    PROVE  Holds!Ancestors(r, c) \subseteq 1..c
<1>1. Len(r.commits) \in Nat /\ r.commits \in Seq(CommitRow) BY DEF RepoOK, Repo
<1>2. c # 0 /\ c \in 1..c /\ 1..c \in SUBSET (1..Len(r.commits)) BY <1>1
<1>3. Holds!Closed(r, 1..c)
  <2>1. ASSUME NEW b \in 1..c PROVE r.commits[b].parent \in (1..c) \cup {0}
    <3>1. b \in 1..Len(r.commits) BY <1>1
    <3>2. r.commits[b] \in CommitRow BY <1>1, <3>1
    <3>3. r.commits[b].parent \in Nat /\ r.commits[b].parent < b
      BY <3>1, <3>2 DEF RepoOK, CommitRow
    <3> QED BY <1>1, <3>3
  <2> QED BY <2>1 DEF Holds!Closed
<1> QED BY <1>2, <1>3 DEF Holds!Ancestors

\* What git rev-list counts decides whether one commit is before the other.
LEMMA RelationDecides ==
    ASSUME NEW r, RepoOK(r), NEW s \in 1..Len(r.commits), NEW c \in 1..Len(r.commits), s # c
    PROVE  IF s \in Holds!Ancestors(r, c) THEN Holds!Relation(r, s, c) = "ancestor"
           ELSE Holds!Relation(r, s, c) \in {"descendant", "diverged"}
<1>1. r.commits \in Seq(CommitRow) /\ Len(r.commits) \in Nat BY DEF RepoOK, Repo
<1> DEFINE ahead == Holds!Ancestors(r, s) \ Holds!Ancestors(r, c)
           behind == Holds!Ancestors(r, c) \ Holds!Ancestors(r, s)
<1>2. s \in Holds!Ancestors(r, s) /\ c \in Holds!Ancestors(r, c)
  BY <1>1, AncestorItself
<1>3. CASE s \in Holds!Ancestors(r, c)
  <2>1. ahead = {} BY <1>1, <1>3, AncestorsOfAncestors
  <2>2. c \notin Holds!Ancestors(r, s)
    <3>1. s \in 1..c BY <1>3, AncestorsComeBefore
    <3>2. Holds!Ancestors(r, s) \subseteq 1..s BY AncestorsComeBefore
    <3> QED BY <1>1, <3>1, <3>2
  <2>3. behind # {} BY <1>2, <2>2
  <2> QED BY <1>3, <2>1, <2>3 DEF Holds!Relation
<1>4. CASE s \notin Holds!Ancestors(r, c)
  <2>1. ahead # {} BY <1>2, <1>4
  <2> QED BY <1>4, <2>1 DEF Holds!Relation
<1> QED BY <1>3, <1>4

\* What a user does to the repository leaves the commits that are there.
LEMMA UserGrows ==
    ASSUME RepoOK(repo), Holds!User, Holds!WorktreeAssumption
    PROVE  RepoOK(repo') /\ Grown(repo, repo')
<1>1. /\ repo \in Repo /\ repo.head \in 0..Len(repo.commits)
      /\ \A i \in 1..Len(repo.commits) : repo.commits[i].parent < i
      /\ repo.commits \in Seq(CommitRow) /\ Len(repo.commits) \in Nat
      /\ repo.work \in [File -> Content] /\ repo.index \in [File -> Content]
      /\ repo.edits \in Nat /\ repo.branch \in Branch /\ repo.head \in Nat
  BY DEF RepoOK, Repo, Holds!Tree
<1>2. \A i \in 1..Len(repo.commits) : repo.commits[i] \in CommitRow BY <1>1
<1>0. repo \in Repo /\ repo.edits + 1 \in Nat BY DEF RepoOK, Repo
<1>3. ASSUME NEW f \in File, NEW c \in Content, Holds!Edit(f, c)
      PROVE  RepoOK(repo') /\ Grown(repo, repo')
  <2> DEFINE files == [repo.work EXCEPT ![f] = c]
  <2>1. files \in [File -> Content] BY <1>1, <1>3
  <2>2. repo' = [repo EXCEPT !.work = files, !.edits = repo.edits + 1]
    BY <1>1, <1>3 DEF Holds!Edit, Holds!Step, Repo
  <2> HIDE DEF files
  <2>3. repo'.commits = repo.commits /\ repo'.head = repo.head BY <1>1, <2>2 DEF Repo
  <2>4. repo' \in Repo BY <1>0, <2>1, <2>2 DEF Repo, Holds!Tree
  <2> QED BY <1>1, <2>3, <2>4 DEF RepoOK, Grown
<1>4. ASSUME NEW f \in File, Holds!Stage(f)
      PROVE  RepoOK(repo') /\ Grown(repo, repo')
  <2> DEFINE files == [repo.index EXCEPT ![f] = repo.work[f]]
  <2>1. files \in [File -> Content] BY <1>1, <1>4
  <2>2. repo' = [repo EXCEPT !.index = files, !.edits = repo.edits + 1]
    BY <1>1, <1>4 DEF Holds!Stage, Holds!Step, Repo
  <2> HIDE DEF files
  <2>3. repo'.commits = repo.commits /\ repo'.head = repo.head BY <1>1, <2>2 DEF Repo
  <2>4. repo' \in Repo BY <1>0, <2>1, <2>2 DEF Repo, Holds!Tree
  <2> QED BY <1>1, <2>3, <2>4 DEF RepoOK, Grown
<1>5. ASSUME NEW p \in 0..Len(repo.commits), Holds!Commit(p)
      PROVE  RepoOK(repo') /\ Grown(repo, repo')
  <2> DEFINE row == [parent |-> p, files |-> repo.index]
             n == Len(repo.commits)
  <2>1. row \in CommitRow /\ row.parent = p BY <1>1 DEF CommitRow, Holds!Tree
  <2>2. /\ repo'.commits = Append(repo.commits, row) /\ repo'.head = n + 1
        /\ repo'.work = repo.work /\ repo'.index = repo.index
        /\ repo'.edits = repo.edits + 1 /\ repo'.branch = repo.branch
        /\ repo' = [repo EXCEPT !.commits = Append(repo.commits, row), !.head = n + 1,
                                !.edits = repo.edits + 1]
    BY <1>1, <1>5 DEF Holds!Commit, Holds!Step, Repo
  <2> HIDE DEF row
  <2>3. repo'.commits \in Seq(CommitRow) /\ Len(repo'.commits) = n + 1
        /\ repo'.commits[n + 1] = row
        /\ \A i \in 1..n : repo'.commits[i] = repo.commits[i]
    BY <1>1, <2>1, <2>2
  <2>4. repo' \in Repo
    <3> DEFINE more == Append(repo.commits, row)
    <3>1. n + 1 \in Nat /\ more \in Seq(CommitRow) BY <1>1, <2>1
    <3>2. repo' = [repo EXCEPT !.commits = more, !.head = n + 1, !.edits = repo.edits + 1]
      BY <2>2
    <3> HIDE DEF more, n
    <3> QED BY <1>0, <3>1, <3>2 DEF Repo
  <2>5. \A i \in 1..(n + 1) : repo'.commits[i].parent < i
    BY <1>1, <2>1, <2>3
  <2>6. /\ \A i \in 1..Len(repo'.commits) : repo'.commits[i].parent < i
        /\ repo'.head \in 0..Len(repo'.commits)
    BY <1>1, <2>2, <2>3, <2>5
  <2>7. Grown(repo, repo') BY <1>1, <2>3 DEF Grown
  <2> QED BY <2>4, <2>6, <2>7 DEF RepoOK
<1>6. ASSUME NEW c \in 0..Len(repo.commits), NEW b \in Branch, Holds!Checkout(c, b)
      PROVE  RepoOK(repo') /\ Grown(repo, repo')
  <2>1. Holds!FilesOf(repo, c) \in [File -> Content]
    <3>1. CASE c = 0
      BY <3>1 DEF Holds!FilesOf, Holds!Empty, Holds!WorktreeAssumption
    <3>2. CASE c # 0
      <4>1. repo.commits[c] \in CommitRow BY <1>1, <1>2, <3>2
      <4> QED BY <3>2, <4>1 DEF Holds!FilesOf, CommitRow, Holds!Tree
    <3> QED BY <3>1, <3>2
  <2> DEFINE files == Holds!FilesOf(repo, c)
  <2>2. /\ repo' = [repo EXCEPT !.head = c, !.branch = b, !.work = files, !.index = files,
                                !.edits = repo.edits + 1]
    BY <1>1, <1>6 DEF Holds!Checkout, Holds!Step, Repo
  <2> HIDE DEF files
  <2>3. files \in [File -> Content] BY <2>1 DEF files
  <2>4. repo'.commits = repo.commits /\ repo'.head = c BY <1>1, <2>2 DEF Repo
  <2>5. repo' \in Repo
    <3>1. c \in Nat BY <1>1
    <3> QED BY <1>0, <2>2, <2>3, <3>1 DEF Repo, Holds!Tree
  <2> QED BY <1>1, <2>4, <2>5 DEF RepoOK, Grown
<1> QED BY <1>3, <1>4, <1>5, <1>6 DEF Holds!User

\* A repository that grows keeps what is remembered of it.
LEMMA RememberedGrows ==
    ASSUME NEW m, NEW r, NEW q, Remembered(m, r), RepoOK(r), RepoOK(q), Grown(r, q)
    PROVE  Remembered(m, q)
<1>1. ASSUME m.quiet PROVE Grown(m.start, q)
  <2>1. RepoOK(m.start) /\ Grown(m.start, r) BY <1>1 DEF Remembered
  <2>2. /\ Len(m.start.commits) \in Nat /\ Len(r.commits) \in Nat /\ Len(q.commits) \in Nat
    BY <2>1 DEF RepoOK, Repo
  <2> QED BY <2>1, <2>2 DEF Grown
<1> QED BY <1>1 DEF Remembered

----------------------------------------------------------------------------
(* Looking *)

LEMMA ArtifactsAdded ==
    ASSUME NEW a \in Artifacts, NEW b \in Artifacts
    PROVE  /\ Holds!Merged(a, b) \in Artifacts
           /\ DOMAIN Holds!Merged(a, b) = DOMAIN a \cup DOMAIN b
           /\ \A r : True(a, r) /\ True(b, r) => True(Holds!Merged(a, b), r)
<1>1. PICK A \in SUBSET File : a \in [A -> Content] BY DEF Artifacts
<1>2. PICK B \in SUBSET File : b \in [B -> Content] BY DEF Artifacts
<1>3. Holds!Merged(a, b) = [f \in A \cup B |-> IF f \in A THEN a[f] ELSE b[f]]
  BY <1>1, <1>2 DEF Holds!Merged
<1>4. Holds!Merged(a, b) \in [A \cup B -> Content] BY <1>1, <1>2, <1>3
<1>5. Holds!Merged(a, b) \in Artifacts BY <1>4 DEF Artifacts
<1> QED BY <1>1, <1>2, <1>3, <1>5 DEF True

LEMMA NothingIsKnown == Holds!Nothing \in Artifacts /\ DOMAIN Holds!Nothing = {}
<1>1. Holds!Nothing \in [{} -> Content] BY DEF Holds!Nothing
<1> QED BY <1>1 DEF Artifacts

LEMMA NoScopeRow ==
    /\ Holds!NoScope \in ScopeRow
    /\ Holds!NoScope.head = None /\ Holds!NoScope.branch = None /\ Holds!NoScope.dirty = None
    /\ Holds!NoScope.status = Holds!Missing /\ Holds!NoScope.diff = Holds!Missing
    /\ Holds!NoScope.untracked = Holds!Missing
<1>1. Holds!Missing \in Contents /\ Holds!Missing \in Holds!Output(Holds!StatusLine)
  BY BoundedOutput DEF Contents
<1> QED BY <1>1 DEF Holds!NoScope, ScopeRow

LEMMA RestingRow ==
    /\ Holds!Resting \in OpRow /\ Holds!Resting.at = "idle" /\ Holds!Resting.quiet = TRUE
    /\ Holds!Resting.doing = None /\ Holds!Resting.artifacts = Holds!Nothing
<1> QED BY NoScopeRow, NothingIsKnown DEF Holds!Resting, OpRow

\* An operation that is over, or not begun, knows nothing.
LEMMA RestingInv ==
    ASSUME RepoOK(repo), op = Holds!Resting, memory = None \/ Remembered(memory, repo)
    PROVE  VerdictInv
<1> QED BY RestingRow DEF VerdictInv, Seen, Doing, HasJudged

LEMMA Begins ==
    ASSUME VerdictInv, Holds!WorktreeAssumption, Holds!ApplicabilityAssumption,
           NEW doing \in {"checkpoint", "recall"}, NEW X \in Requested, NEW auto \in BOOLEAN,
           doing = "recall" => ~auto, Holds!Begin(doing, X, auto)
    PROVE  VerdictInv'
<1>1. /\ op' = [Holds!Resting EXCEPT !.at = "status", !.doing = doing, !.explicit = X,
                                     !.auto = auto, !.start = repo]
      /\ repo' = repo /\ memory' = memory
      /\ doing = "recall" => memory # None
  BY DEF Holds!Begin
<1>2. X \in SUBSET File /\ repo \in Repo BY DEF Holds!ApplicabilityAssumption, VerdictInv, RepoOK
<1>3. /\ op'.at = "status" /\ op'.doing = doing /\ op'.auto = auto /\ op'.start = repo
      /\ op'.artifacts = Holds!Nothing
  BY <1>1, RestingRow DEF OpRow
<1>4. op' \in OpRow
  <2> DEFINE rest == Holds!Resting
  <2>1. rest \in OpRow BY RestingRow
  <2>2. op' = [rest EXCEPT !.at = "status", !.doing = doing, !.explicit = X,
                           !.auto = auto, !.start = repo]
    BY <1>1
  <2> HIDE DEF rest
  <2> QED BY <1>2, <2>1, <2>2 DEF OpRow
<1>5. Seen' BY <1>1, <1>3, NothingIsKnown DEF Seen, SeenScope, SeenFiles, SeenChanges, True, Done
<1>6. Doing' BY <1>1, <1>3 DEF Doing, VerdictInv
<1>7. HasJudged' BY <1>3 DEF HasJudged
<1> QED BY <1>1, <1>4, <1>5, <1>6, <1>7 DEF VerdictInv

LEMMA ReadsStatus ==
    ASSUME VerdictInv, Holds!WorktreeAssumption, Holds!ReadStatus
    PROVE  VerdictInv'
<1>0. PICK out \in Holds!Bounded(Holds!Status(repo)) :
         op' = [op EXCEPT
            !.scope = IF out.had THEN [Holds!NoScope EXCEPT !.head = Holds!HeadOid(repo),
                                          !.branch = repo.branch, !.status = out]
                      ELSE Holds!NoScope,
            !.at = IF out \in {Holds!Missing, Holds!Whole({})} THEN "captured" ELSE "diff"]
  BY DEF Holds!ReadStatus
<1> DEFINE scope == IF out.had THEN [Holds!NoScope EXCEPT !.head = Holds!HeadOid(repo),
                                        !.branch = repo.branch, !.status = out]
                    ELSE Holds!NoScope
           at == IF out \in {Holds!Missing, Holds!Whole({})} THEN "captured" ELSE "diff"
<1>1. /\ op' = [op EXCEPT !.scope = scope, !.at = at]
      /\ repo' = repo /\ memory' = memory /\ op.at = "status"
  BY <1>0 DEF Holds!ReadStatus
<1>2. /\ scope \in ScopeRow /\ scope.dirty = None
      /\ at = "captured" => ScopeIs(scope, repo)
      /\ at = "diff" => Begun(scope, repo) /\ scope.status # Holds!Whole({})
  <2>1. out \in Holds!Output(Holds!StatusLine) /\ Holds!HeadOid(repo) \in Nat \cup {None}
        /\ repo.branch \in Branch
    BY GitTypes DEF VerdictInv
  <2>2. CASE out.had
    <3> DEFINE row == [Holds!NoScope EXCEPT !.head = Holds!HeadOid(repo),
                                            !.branch = repo.branch, !.status = out]
    <3>1. /\ row \in ScopeRow /\ row.head = Holds!HeadOid(repo) /\ row.branch = repo.branch
          /\ row.status = out /\ row.diff = Holds!Missing /\ row.untracked = Holds!Missing
          /\ row.dirty = None
      BY <2>1, NoScopeRow DEF ScopeRow
    <3>2. scope = row BY <2>2
    <3> HIDE DEF row, scope
    <3>3. Begun(row, repo) BY <2>2, <3>1 DEF Begun
    <3>4. out # Holds!Missing BY <2>2 DEF Holds!Missing
    <3>5. at = "captured" <=> out = Holds!Whole({}) BY <3>4
    <3> QED BY <3>1, <3>2, <3>3, <3>5 DEF ScopeIs
  <2>3. CASE ~out.had
    <3>1. out = Holds!Missing BY <2>3 DEF Holds!Bounded, Holds!Missing, Holds!Whole
    <3> QED BY <2>3, <3>1, NoScopeRow DEF ScopeIs
  <2> QED BY <2>2, <2>3
<1>3. at \in {"captured", "diff"} OBVIOUS
<1>4. op \in OpRow BY DEF VerdictInv
<1> HIDE DEF scope
<1>5. /\ op'.scope = scope /\ op'.at = at /\ op'.doing = op.doing /\ op'.auto = op.auto
      /\ op'.quiet = op.quiet /\ op'.start = op.start /\ op'.artifacts = op.artifacts
  BY <1>1, <1>4 DEF OpRow
<1>6. op' \in OpRow
  <2> DEFINE places == Done \cup {"idle", "status", "diff", "untracked"}
  <2>1. at \in places BY <1>3 DEF Done
  <2> HIDE DEF at, places
  <2>2. [op EXCEPT !.scope = scope, !.at = at] \in OpRow
    BY <1>2, <1>4, <2>1 DEF OpRow, places
  <2> QED BY <1>1, <2>2
<1>7. Seen'
  <2> SUFFICES ASSUME op'.quiet
               PROVE  op'.start = repo /\ SeenScope' /\ SeenFiles' /\ SeenChanges'
    BY <1>1 DEF Seen
  <2>1. op.start = repo /\ True(op.artifacts, repo)
    BY <1>1, <1>5 DEF VerdictInv, Seen, SeenFiles
  <2>2. SeenScope'
    <3> HIDE DEF at
    <3>1. at = "captured" => ScopeIs(op'.scope, repo') BY <1>1, <1>2, <1>5
    <3>2. at = "diff" => Begun(op'.scope, repo') /\ op'.scope.status # Holds!Whole({})
      BY <1>1, <1>2, <1>5
    <3> QED BY <1>3, <1>5, <3>1, <3>2 DEF SeenScope, Done
  <2>3. SeenFiles' BY <1>1, <1>3, <1>5, <2>1 DEF SeenFiles
  <2>4. SeenChanges' BY <1>1, <1>3, <1>5 DEF SeenChanges
  <2> QED BY <1>5, <2>1, <2>2, <2>3, <2>4
<1>8. Doing' BY <1>1, <1>3, <1>5 DEF Doing, VerdictInv
<1>9. HasJudged' BY <1>3, <1>5 DEF HasJudged
<1> QED BY <1>1, <1>6, <1>7, <1>8, <1>9 DEF VerdictInv

LEMMA ReadsDiff ==
    ASSUME VerdictInv, Holds!WorktreeAssumption, Holds!ReadDiff
    PROVE  VerdictInv'
<1>1. PICK d \in Holds!Diffs(repo) : op' = [op EXCEPT !.scope.diff = d, !.at = "untracked"]
  BY DEF Holds!ReadDiff
<1>2. repo' = repo /\ memory' = memory /\ op.at = "diff" BY DEF Holds!ReadDiff
<1>3. op \in OpRow /\ op.scope \in ScopeRow /\ d \in Contents
  BY GitTypes DEF VerdictInv, OpRow
<1> DEFINE scope == [op.scope EXCEPT !.diff = d]
<1>4. /\ scope \in ScopeRow /\ scope.diff = d
      /\ scope.head = op.scope.head /\ scope.branch = op.scope.branch
      /\ scope.status = op.scope.status /\ scope.dirty = op.scope.dirty
  BY <1>3 DEF ScopeRow
<1>5. op' = [op EXCEPT !.scope = scope, !.at = "untracked"] BY <1>1, <1>3 DEF OpRow
<1> HIDE DEF scope
<1>6. /\ op'.scope = scope /\ op'.at = "untracked" /\ op'.doing = op.doing /\ op'.auto = op.auto
      /\ op'.quiet = op.quiet /\ op'.start = op.start /\ op'.artifacts = op.artifacts
  BY <1>3, <1>5 DEF OpRow
<1>7. op' \in OpRow BY <1>3, <1>4, <1>5 DEF OpRow
<1>8. Seen'
  <2> SUFFICES ASSUME op'.quiet
               PROVE  op'.start = repo /\ SeenScope' /\ SeenFiles' /\ SeenChanges'
    BY <1>2 DEF Seen
  <2>1. /\ op.start = repo /\ True(op.artifacts, repo)
        /\ Begun(op.scope, repo) /\ op.scope.status # Holds!Whole({})
    BY <1>2, <1>6 DEF VerdictInv, Seen, SeenFiles, SeenScope
  <2>2. SeenScope' BY <1>2, <1>4, <1>6, <2>1 DEF SeenScope, Begun, Done
  <2>3. SeenFiles' BY <1>2, <1>6, <2>1 DEF SeenFiles
  <2>4. SeenChanges' BY <1>6 DEF SeenChanges
  <2> QED BY <1>6, <2>1, <2>2, <2>3, <2>4
<1>9. Doing' BY <1>2, <1>6 DEF Doing, VerdictInv
<1>10. HasJudged' BY <1>6 DEF HasJudged
<1> QED BY <1>2, <1>7, <1>8, <1>9, <1>10 DEF VerdictInv

LEMMA HashType ==
    ASSUME NEW s \in ScopeRow
    PROVE  Holds!DirtyHash(s) \in Holds!DirtyHashes
<1>1. Holds!Whole({}) \in Contents BY BoundedOutput DEF Contents
<1>2. /\ s.status \in Holds!Output(Holds!StatusLine) /\ s.diff \in Contents
      /\ s.untracked \in Contents
  BY DEF ScopeRow
<1> QED BY <1>1, <1>2 DEF Holds!DirtyHash, Holds!DirtyHashes, Contents

LEMMA ReadsUntracked ==
    ASSUME VerdictInv, Holds!WorktreeAssumption, Holds!ReadUntracked
    PROVE  VerdictInv'
<1>0. PICK out \in Holds!Bounded(Holds!UntrackedContents(repo)) :
         LET looked == [op.scope EXCEPT !.untracked = out] IN
         op' = [op EXCEPT !.scope = [looked EXCEPT !.dirty = Holds!DirtyHash(looked)],
                          !.at = "captured"]
  BY DEF Holds!ReadUntracked
<1> DEFINE looked == [op.scope EXCEPT !.untracked = out]
           hash == Holds!DirtyHash(looked)
           scope == [looked EXCEPT !.dirty = hash]
<1>1. repo' = repo /\ memory' = memory /\ op.at = "untracked" BY DEF Holds!ReadUntracked
<1>2. op \in OpRow /\ op.scope \in ScopeRow /\ out \in Contents
  BY GitTypes DEF VerdictInv, OpRow
<1>3. /\ looked \in ScopeRow /\ looked.untracked = out /\ looked.diff = op.scope.diff
      /\ looked.head = op.scope.head /\ looked.branch = op.scope.branch
      /\ looked.status = op.scope.status
  BY <1>2 DEF ScopeRow
<1>4. /\ scope \in ScopeRow /\ scope.untracked = out /\ scope.diff = op.scope.diff
      /\ scope.head = op.scope.head /\ scope.branch = op.scope.branch
      /\ scope.status = op.scope.status /\ scope.dirty = hash
      /\ hash = Holds!DirtyHash(scope)
  <2> HIDE DEF looked
  <2>1. hash \in Holds!DirtyHashes BY <1>3, HashType
  <2>2. /\ hash = <<looked.status, looked.diff,
                    IF looked.untracked.had THEN looked.untracked ELSE Holds!Whole({})>>
    BY DEF Holds!DirtyHash
  <2> HIDE DEF hash
  <2>3. /\ scope \in ScopeRow /\ scope.untracked = out /\ scope.diff = op.scope.diff
        /\ scope.head = op.scope.head /\ scope.branch = op.scope.branch
        /\ scope.status = op.scope.status /\ scope.dirty = hash
    BY <1>3, <2>1 DEF ScopeRow
  <2> QED BY <1>3, <2>2, <2>3 DEF Holds!DirtyHash
<1>5. op' = [op EXCEPT !.scope = scope, !.at = "captured"] BY <1>0
<1>6. /\ op'.scope = scope /\ op'.at = "captured" /\ op'.doing = op.doing /\ op'.auto = op.auto
      /\ op'.quiet = op.quiet /\ op'.start = op.start /\ op'.artifacts = op.artifacts
  BY <1>2, <1>5 DEF OpRow
<1>7. op' \in OpRow BY <1>2, <1>4, <1>5 DEF OpRow, Done
<1>8. Seen'
  <2> SUFFICES ASSUME op'.quiet
               PROVE  op'.start = repo /\ SeenScope' /\ SeenFiles' /\ SeenChanges'
    BY <1>1 DEF Seen
  <2>1. /\ op.start = repo /\ True(op.artifacts, repo)
        /\ Begun(op.scope, repo) /\ op.scope.status # Holds!Whole({})
        /\ op.scope.diff \in Holds!Diffs(repo)
    BY <1>1, <1>6 DEF VerdictInv, Seen, SeenFiles, SeenScope
  <2>2. ScopeIs(scope, repo) BY <1>4, <2>1 DEF ScopeIs, Begun
  <2>3. SeenScope' BY <1>1, <1>6, <2>2 DEF SeenScope
  <2>4. SeenFiles' BY <1>1, <1>6, <2>1 DEF SeenFiles
  <2>5. SeenChanges' BY <1>6 DEF SeenChanges
  <2> QED BY <1>6, <2>1, <2>3, <2>4, <2>5
<1>9. Doing' BY <1>1, <1>6 DEF Doing, VerdictInv
<1>10. HasJudged' BY <1>6 DEF HasJudged
<1> QED BY <1>1, <1>7, <1>8, <1>9, <1>10 DEF VerdictInv

----------------------------------------------------------------------------
(* Reading files *)

LEMMA Inspects ==
    ASSUME VerdictInv, op.at \in Done, UNCHANGED <<repo, memory>>,
           NEW paths \in SUBSET File, NEW source \in {"explicit", "automatic", "memory"},
           source = "automatic" =>
              op.doing = "checkpoint" /\ (op.quiet => Holds!Changed(repo) \subseteq paths),
           source = "memory" => op.doing = "recall",
           op' = Holds!Inspecting(op, paths, source)
    PROVE  VerdictInv'
<1> DEFINE there == {f \in paths : repo.work[f] # Absent}
<1>1. op' = [op EXCEPT !.at = "reading", !.source = source, !.todo = paths,
                       !.read = Holds!Nothing, !.exists = there]
  BY DEF Holds!Inspecting
<1>2. op \in OpRow /\ there \in SUBSET File BY DEF VerdictInv
<1> HIDE DEF there
<1>3. /\ op'.at = "reading" /\ op'.source = source /\ op'.todo = paths
      /\ op'.read = Holds!Nothing /\ op'.exists = there
      /\ op'.scope = op.scope /\ op'.doing = op.doing /\ op'.auto = op.auto
      /\ op'.quiet = op.quiet /\ op'.start = op.start /\ op'.artifacts = op.artifacts
  BY <1>1, <1>2 DEF OpRow
<1>4. op' \in OpRow
  <2> DEFINE nothing == Holds!Nothing
  <2>1. nothing \in Artifacts BY NothingIsKnown
  <2>2. op' = [op EXCEPT !.at = "reading", !.source = source, !.todo = paths,
                         !.read = nothing, !.exists = there]
    BY <1>1
  <2> HIDE DEF nothing
  <2> QED BY <1>2, <2>1, <2>2 DEF OpRow, Done
<1>5. Seen'
  <2> SUFFICES ASSUME op'.quiet
               PROVE  op'.start = repo /\ SeenScope' /\ SeenFiles' /\ SeenChanges'
    BY DEF Seen
  <2>1. /\ op.start = repo /\ True(op.artifacts, repo) /\ ScopeIs(op.scope, repo)
    BY <1>3 DEF VerdictInv, Seen, SeenFiles, SeenScope, Done
  <2>2. SeenScope' BY <1>3, <2>1 DEF SeenScope
  <2>3. SeenFiles' BY <1>3, <2>1, NothingIsKnown DEF SeenFiles, True, there
  <2>4. SeenChanges' BY <1>3 DEF SeenChanges
  <2> QED BY <1>3, <2>1, <2>2, <2>3, <2>4
<1>6. Doing' BY <1>3 DEF Doing, VerdictInv, Done
<1>7. HasJudged' BY <1>3 DEF HasJudged
<1> QED BY <1>4, <1>5, <1>6, <1>7 DEF VerdictInv

LEMMA ReadsFile ==
    ASSUME VerdictInv, Holds!WorktreeAssumption, NEW f \in File, Holds!ReadFile(f)
    PROVE  VerdictInv'
<1> DEFINE content == IF f \in op.exists THEN repo.work[f] ELSE Absent
           one == [g \in {f} |-> content]
           read == Holds!Merged(op.read, one)
           todo == op.todo \ {f}
<1>1. /\ op.at = "reading" /\ f \in op.todo
      /\ f \in op.exists => repo.work[f] # Absent
      /\ op' = [op EXCEPT !.todo = todo, !.read = read]
      /\ repo' = repo /\ memory' = memory
  BY DEF Holds!ReadFile
<1>2. op \in OpRow /\ op.read \in Artifacts /\ todo \in SUBSET File
  BY DEF VerdictInv, OpRow
<1>3. one \in [{f} -> Content] /\ DOMAIN one = {f}
  <2>1. repo.work[f] \in Content BY DEF VerdictInv, RepoOK, Repo, Holds!Tree
  <2> QED BY <2>1 DEF Holds!WorktreeAssumption
<1>4. one \in Artifacts BY <1>3 DEF Artifacts
<1>5. /\ read \in Artifacts /\ DOMAIN read = DOMAIN op.read \cup {f}
      /\ True(op.read, repo) /\ True(one, repo) => True(read, repo)
  BY <1>2, <1>3, <1>4, ArtifactsAdded
<1>6. one[f] = content OBVIOUS
<1> HIDE DEF read, todo, one
<1>7. /\ op'.read = read /\ op'.todo = todo /\ op'.at = "reading"
      /\ op'.source = op.source /\ op'.exists = op.exists
      /\ op'.scope = op.scope /\ op'.doing = op.doing /\ op'.auto = op.auto
      /\ op'.quiet = op.quiet /\ op'.start = op.start /\ op'.artifacts = op.artifacts
  BY <1>1, <1>2 DEF OpRow
<1>8. op' \in OpRow BY <1>1, <1>2, <1>5 DEF OpRow
<1>9. Seen'
  <2> SUFFICES ASSUME op'.quiet
               PROVE  op'.start = repo /\ SeenScope' /\ SeenFiles' /\ SeenChanges'
    BY <1>1 DEF Seen
  <2>1. /\ op.start = repo /\ True(op.artifacts, repo) /\ ScopeIs(op.scope, repo)
        /\ True(op.read, repo)
        /\ \A g \in op.todo : g \in op.exists <=> repo.work[g] # Absent
        /\ op.source = "automatic" =>
              Holds!Changed(repo) \subseteq DOMAIN op.read \cup op.todo
    BY <1>1, <1>7 DEF VerdictInv, Seen, SeenFiles, SeenScope, SeenChanges, Done
  <2>2. SeenScope' BY <1>1, <1>7, <2>1 DEF SeenScope
  <2>3. True(one, repo) BY <1>1, <1>3, <1>6, <2>1 DEF True
  <2>4. SeenFiles' BY <1>1, <1>5, <1>7, <2>1, <2>3 DEF SeenFiles, todo
  <2>5. SeenChanges' BY <1>1, <1>5, <1>7, <2>1 DEF SeenChanges, todo
  <2> QED BY <1>7, <2>1, <2>2, <2>4, <2>5
<1>10. Doing' BY <1>1, <1>7 DEF Doing, VerdictInv
<1>11. HasJudged' BY <1>7 DEF HasJudged
<1> QED BY <1>1, <1>8, <1>9, <1>10, <1>11 DEF VerdictInv

\* The operation goes on after a set of files, read or not.
LEMMA Continues ==
    ASSUME VerdictInv, op.at = "reading", UNCHANGED <<repo, memory>>,
           NEW o \in OpRow,
           o.scope = op.scope, o.doing = op.doing, o.auto = op.auto, o.quiet = op.quiet,
           o.start = op.start, o.source = op.source,
           o.quiet => True(o.artifacts, repo),
           o.quiet /\ ~o.failed /\ o.source = "automatic" =>
              Holds!Changed(repo) \subseteq DOMAIN o.artifacts,
           op' = Holds!Continue(o)
    PROVE  VerdictInv'
<1>1. /\ op \in OpRow /\ op.doing \in {"checkpoint", "recall"}
      /\ op.source \in {"explicit", "automatic", "memory"}
      /\ op.doing = "recall" => Remembered(memory, repo) /\ ~op.auto
      /\ op.source = "automatic" => op.doing = "checkpoint"
      /\ op.source = "memory" => op.doing = "recall"
  BY DEF VerdictInv, Doing
<1>2. PICK at \in {"materialise", "cached", "judge", "store"} :
         /\ op' = [o EXCEPT !.at = at]
         /\ at \in {"materialise", "judge"} => o.doing = "recall"
         /\ at \in {"cached", "store"} => o.doing = "checkpoint"
         /\ at = "store" /\ o.auto => o.source = "automatic"
  <2>1. CASE o.source = "explicit" /\ o.doing = "recall"
    BY <2>1 DEF Holds!Continue
  <2>2. CASE o.source = "explicit" /\ o.doing = "checkpoint" /\ o.auto
    BY <2>2 DEF Holds!Continue
  <2>3. CASE o.source = "explicit" /\ o.doing = "checkpoint" /\ ~o.auto
    BY <2>3 DEF Holds!Continue
  <2>4. CASE o.source # "explicit" /\ o.doing = "recall"
    BY <2>4 DEF Holds!Continue
  <2>5. CASE o.source # "explicit" /\ o.doing = "checkpoint"
    BY <1>1, <2>5 DEF Holds!Continue
  <2> QED BY <1>1, <2>1, <2>2, <2>3, <2>4, <2>5
<1>3. /\ op'.at = at /\ op'.scope = o.scope /\ op'.doing = o.doing /\ op'.auto = o.auto
      /\ op'.quiet = o.quiet /\ op'.start = o.start /\ op'.artifacts = o.artifacts
      /\ op'.failed = o.failed
  BY <1>2 DEF OpRow
<1>4. op' \in OpRow BY <1>2 DEF OpRow, Done
<1>5. Seen'
  <2> SUFFICES ASSUME op'.quiet
               PROVE  op'.start = repo /\ SeenScope' /\ SeenFiles' /\ SeenChanges'
    BY DEF Seen
  <2>1. op.start = repo /\ ScopeIs(op.scope, repo)
    BY <1>3 DEF VerdictInv, Seen, SeenScope, Done
  <2>2. SeenScope' BY <1>2, <1>3, <2>1 DEF SeenScope
  <2>3. SeenFiles' BY <1>2, <1>3 DEF SeenFiles
  <2>4. SeenChanges' BY <1>2, <1>3 DEF SeenChanges
  <2> QED BY <1>3, <2>1, <2>2, <2>3, <2>4
<1>6. Doing' BY <1>1, <1>2, <1>3 DEF Doing, VerdictInv
<1>7. HasJudged' BY <1>2, <1>3 DEF HasJudged
<1> QED BY <1>4, <1>5, <1>6, <1>7 DEF VerdictInv

LEMMA HasRead ==
    ASSUME VerdictInv, Holds!HaveRead
    PROVE  VerdictInv'
<1> DEFINE files == Holds!Merged(op.artifacts, op.read)
           o == [op EXCEPT !.artifacts = files]
<1>1. /\ op.at = "reading" /\ op.todo = {} /\ repo' = repo /\ memory' = memory
      /\ op' = Holds!Continue(o)
  BY DEF Holds!HaveRead
<1>2. op \in OpRow /\ op.read \in Artifacts /\ op.artifacts \in Artifacts
  BY DEF VerdictInv, OpRow
<1>3. /\ files \in Artifacts /\ DOMAIN files = DOMAIN op.artifacts \cup DOMAIN op.read
      /\ True(op.artifacts, repo) /\ True(op.read, repo) => True(files, repo)
  BY <1>2, ArtifactsAdded
<1> HIDE DEF files
<1>4. o \in OpRow BY <1>2, <1>3 DEF OpRow
<1>5. /\ o.scope = op.scope /\ o.doing = op.doing /\ o.auto = op.auto /\ o.quiet = op.quiet
      /\ o.start = op.start /\ o.source = op.source /\ o.artifacts = files
  BY <1>2 DEF OpRow
<1> HIDE DEF o
<1>6. ASSUME o.quiet
      PROVE  /\ True(o.artifacts, repo)
             /\ o.source = "automatic" => Holds!Changed(repo) \subseteq DOMAIN o.artifacts
  <2>1. /\ True(op.artifacts, repo) /\ True(op.read, repo)
        /\ op.source = "automatic" =>
              Holds!Changed(repo) \subseteq DOMAIN op.read \cup op.todo
    BY <1>1, <1>5, <1>6 DEF VerdictInv, Seen, SeenFiles, SeenChanges
  <2> QED BY <1>1, <1>3, <1>5, <2>1
<1> QED BY <1>1, <1>4, <1>5, <1>6, Continues

LEMMA CouldNotRead ==
    ASSUME VerdictInv, Holds!CannotRead
    PROVE  VerdictInv'
<1>1. op.at = "reading" /\ repo' = repo /\ memory' = memory BY DEF Holds!CannotRead
<1>2. CASE op.source = "explicit"
  <2>1. op' = Holds!Resting BY <1>2 DEF Holds!CannotRead
  <2>2. RepoOK(repo)' /\ (memory = None \/ Remembered(memory, repo))'
    BY <1>1 DEF VerdictInv
  <2> QED BY <2>1, <2>2, RestingRow DEF VerdictInv, Seen, Doing, HasJudged
<1>3. CASE op.source # "explicit"
  <2> DEFINE o == [op EXCEPT !.failed = TRUE]
  <2>1. op' = Holds!Continue(o) BY <1>3 DEF Holds!CannotRead
  <2>2. op \in OpRow BY DEF VerdictInv
  <2>3. /\ o \in OpRow /\ o.scope = op.scope /\ o.doing = op.doing /\ o.auto = op.auto
        /\ o.quiet = op.quiet /\ o.start = op.start /\ o.source = op.source
        /\ o.artifacts = op.artifacts /\ o.failed = TRUE
    BY <2>2 DEF OpRow
  <2> HIDE DEF o
  <2>4. o.quiet => True(o.artifacts, repo)
    BY <1>1, <2>3 DEF VerdictInv, Seen, SeenFiles
  <2> QED BY <1>1, <2>1, <2>3, <2>4, Continues
<1> QED BY <1>2, <1>3

----------------------------------------------------------------------------
(* Listing changes, storing, judging *)

LEMMA Lists ==
    ASSUME VerdictInv, NEW at \in {"cached", "worktree", "others"}, Holds!List(at)
    PROVE  VerdictInv'
<1> DEFINE next == Holds!After(at)
           listed == op.listed \cup Holds!Listing(at)
<1>1. /\ op.at = at /\ op' = [op EXCEPT !.listed = listed, !.at = next]
      /\ repo' = repo /\ memory' = memory
  BY DEF Holds!List
<1>2. /\ next \in {"worktree", "others", "listed"}
      /\ at = "cached" => next = "worktree"
      /\ at = "worktree" => next = "others"
      /\ at = "others" => next = "listed"
  BY DEF Holds!After
<1>3. op \in OpRow /\ listed \in SUBSET File
  <2>1. Holds!Listing(at) \in SUBSET File BY DEF Holds!Listing
  <2> QED BY <2>1 DEF VerdictInv, OpRow
<1>4. ASSUME op.quiet PROVE ListedBy(next, repo) \subseteq listed
  <2>1. at \in {"worktree", "others"} => ListedBy(at, repo) \subseteq op.listed
    BY <1>1, <1>4 DEF VerdictInv, Seen, SeenChanges
  <2>2. CASE at = "cached"
    BY <1>2, <2>2 DEF ListedBy, Holds!Listing
  <2>3. CASE at = "worktree"
    BY <1>2, <2>1, <2>3 DEF ListedBy, Holds!Listing
  <2>4. CASE at = "others"
    BY <1>2, <2>1, <2>4 DEF ListedBy, Holds!Listing
  <2> QED BY <2>2, <2>3, <2>4
<1> HIDE DEF next, listed
<1>5. /\ op'.at = next /\ op'.listed = listed
      /\ op'.scope = op.scope /\ op'.doing = op.doing /\ op'.auto = op.auto
      /\ op'.quiet = op.quiet /\ op'.start = op.start /\ op'.artifacts = op.artifacts
  BY <1>1, <1>3 DEF OpRow
<1>6. op' \in OpRow
  <2> DEFINE places == Done \cup {"idle", "status", "diff", "untracked"}
  <2>1. next \in places BY <1>2 DEF Done
  <2> HIDE DEF places
  <2> QED BY <1>1, <1>3, <2>1 DEF OpRow, places
<1>7. Seen'
  <2> SUFFICES ASSUME op'.quiet
               PROVE  op'.start = repo /\ SeenScope' /\ SeenFiles' /\ SeenChanges'
    BY <1>1 DEF Seen
  <2>1. /\ op.start = repo /\ True(op.artifacts, repo) /\ ScopeIs(op.scope, repo)
    BY <1>1, <1>5 DEF VerdictInv, Seen, SeenFiles, SeenScope, Done
  <2>2. SeenScope' BY <1>1, <1>2, <1>5, <2>1 DEF SeenScope
  <2>3. SeenFiles' BY <1>1, <1>2, <1>5, <2>1 DEF SeenFiles
  <2>4. SeenChanges' BY <1>1, <1>2, <1>4, <1>5 DEF SeenChanges
  <2> QED BY <1>5, <2>1, <2>2, <2>3, <2>4
<1>8. Doing' BY <1>1, <1>2, <1>5 DEF Doing, VerdictInv
<1>9. HasJudged' BY <1>2, <1>5 DEF HasJudged
<1> QED BY <1>1, <1>6, <1>7, <1>8, <1>9 DEF VerdictInv

LEMMA CouldNotList ==
    ASSUME VerdictInv, Holds!CannotList
    PROVE  VerdictInv'
<1>1. /\ op.at \in {"cached", "worktree", "others"}
      /\ op' = [op EXCEPT !.at = "store", !.failed = TRUE]
      /\ repo' = repo /\ memory' = memory
  BY DEF Holds!CannotList, Holds!ListingFailed
<1>2. op \in OpRow BY DEF VerdictInv
<1>3. /\ op'.at = "store" /\ op'.failed = TRUE
      /\ op'.scope = op.scope /\ op'.doing = op.doing /\ op'.auto = op.auto
      /\ op'.quiet = op.quiet /\ op'.start = op.start /\ op'.artifacts = op.artifacts
  BY <1>1, <1>2 DEF OpRow
<1>4. op' \in OpRow BY <1>1, <1>2 DEF OpRow, Done
<1>5. Seen'
  <2> SUFFICES ASSUME op'.quiet
               PROVE  op'.start = repo /\ SeenScope' /\ SeenFiles' /\ SeenChanges'
    BY <1>1 DEF Seen
  <2>1. /\ op.start = repo /\ True(op.artifacts, repo) /\ ScopeIs(op.scope, repo)
    BY <1>1, <1>3 DEF VerdictInv, Seen, SeenFiles, SeenScope, Done
  <2>2. SeenScope' BY <1>1, <1>3, <2>1 DEF SeenScope
  <2>3. SeenFiles' BY <1>1, <1>3, <2>1 DEF SeenFiles
  <2>4. SeenChanges' BY <1>3 DEF SeenChanges
  <2> QED BY <1>3, <2>1, <2>2, <2>3, <2>4
<1>6. Doing' BY <1>1, <1>3 DEF Doing, VerdictInv
<1>7. HasJudged' BY <1>3 DEF HasJudged
<1> QED BY <1>1, <1>4, <1>5, <1>6, <1>7 DEF VerdictInv

LEMMA Starts ==
    ASSUME VerdictInv, Holds!Explicit \/ Holds!Automatic \/ Holds!Materialise
    PROVE  VerdictInv'
<1>1. op \in OpRow /\ op.explicit \in SUBSET File /\ op.listed \in SUBSET File
  BY DEF VerdictInv, OpRow
<1>2. CASE Holds!Explicit
  BY <1>1, <1>2, Inspects DEF Holds!Explicit, Done
<1>3. CASE Holds!Automatic
  <2>1. op.at = "listed" /\ op' = Holds!Inspecting(op, op.listed, "automatic")
        /\ repo' = repo /\ memory' = memory
    BY <1>3 DEF Holds!Automatic
  <2>2. op.doing = "checkpoint" BY <2>1 DEF VerdictInv, Doing
  <2>3. op.quiet => Holds!Changed(repo) \subseteq op.listed
    BY <2>1 DEF VerdictInv, Seen, SeenChanges, ListedBy, Holds!Changed
  <2> QED BY <1>1, <2>1, <2>2, <2>3, Inspects DEF Done
<1>4. CASE Holds!Materialise
  <2>1. op.at = "materialise" /\ op' = Holds!Inspecting(op, DOMAIN memory.artifacts, "memory")
        /\ repo' = repo /\ memory' = memory
    BY <1>4 DEF Holds!Materialise
  <2>2. op.doing = "recall" /\ memory.artifacts \in Artifacts
    BY <2>1 DEF VerdictInv, Doing, Remembered
  <2>3. DOMAIN memory.artifacts \in SUBSET File BY <2>2 DEF Artifacts
  <2> QED BY <2>1, <2>2, <2>3, Inspects DEF Done
<1> QED BY <1>2, <1>3, <1>4

LEMMA Stores ==
    ASSUME VerdictInv, Holds!Store
    PROVE  VerdictInv'
<1>1. /\ op.at = "store" /\ repo' = repo /\ op' = Holds!Resting
      /\ memory' = [scope |-> op.scope, artifacts |-> op.artifacts, start |-> op.start,
                    quiet |-> op.quiet, whole |-> op.auto /\ ~op.failed]
  BY DEF Holds!Store
<1>2. op \in OpRow /\ op.scope \in ScopeRow /\ op.artifacts \in Artifacts /\ op.quiet \in BOOLEAN
  BY DEF VerdictInv, OpRow
<1>3. ASSUME op.quiet
      PROVE  /\ op.start = repo /\ ScopeIs(op.scope, repo) /\ True(op.artifacts, repo)
             /\ op.auto /\ ~op.failed => Holds!Changed(repo) \subseteq DOMAIN op.artifacts
  BY <1>1, <1>3 DEF VerdictInv, Seen, SeenScope, SeenFiles, SeenChanges, Done
<1>4. RepoOK(repo) /\ Grown(repo, repo)
  <2>1. RepoOK(repo) BY DEF VerdictInv
  <2>2. Len(repo.commits) \in Nat BY <2>1 DEF RepoOK, Repo
  <2> QED BY <2>1, <2>2 DEF Grown
<1>5. /\ memory'.scope = op.scope /\ memory'.artifacts = op.artifacts /\ memory'.start = op.start
      /\ memory'.quiet = op.quiet /\ memory'.whole = (op.auto /\ ~op.failed)
  BY <1>1
<1>6. Remembered(memory', repo)
  BY <1>2, <1>3, <1>4, <1>5 DEF Remembered
<1> QED BY <1>1, <1>4, <1>6, RestingRow DEF VerdictInv, Seen, Doing, HasJudged

LEMMA Judges ==
    ASSUME VerdictInv, Holds!Judge
    PROVE  VerdictInv'
<1>1. /\ op.at = "judge" /\ repo' = repo /\ memory' = memory
  BY DEF Holds!Judge
<1>2. PICK then \in Holds!StagedSets(memory.artifacts),
           relation \in Holds!Relations(memory.scope.head, op.scope.head) :
         op' = [op EXCEPT !.at = "answered",
                          !.verdict = Holds!Classify(memory.scope, op.scope, then,
                                          then = memory.artifacts, op.artifacts, relation)]
  BY DEF Holds!Judge
<1> DEFINE verdict == Holds!Classify(memory.scope, op.scope, then,
                                     then = memory.artifacts, op.artifacts, relation)
<1>3. relation \in Relations
  BY <1>2 DEF Relations, Holds!Relations, Holds!Relation
<1>4. verdict \in Holds!Verdict
  <2>1. ASSUME NEW complete \in BOOLEAN
        PROVE  Holds!Classify(memory.scope, op.scope, then, complete, op.artifacts, relation)
                  \in Holds!Verdict
    BY <1>3 DEF Relations, Holds!Classify, Holds!Downgraded, Holds!ByRevision, Holds!Verdict
  <2> QED BY <2>1
<1>5. op \in OpRow BY DEF VerdictInv
<1> HIDE DEF verdict
<1>6. op' = [op EXCEPT !.at = "answered", !.verdict = verdict] BY <1>2 DEF verdict
<1>7. /\ op'.at = "answered" /\ op'.verdict = verdict
      /\ op'.scope = op.scope /\ op'.doing = op.doing /\ op'.auto = op.auto
      /\ op'.quiet = op.quiet /\ op'.start = op.start /\ op'.artifacts = op.artifacts
  BY <1>5, <1>6 DEF OpRow
<1>8. op' \in OpRow BY <1>4, <1>5, <1>6 DEF OpRow, Done
<1>9. Seen'
  <2> SUFFICES ASSUME op'.quiet
               PROVE  op'.start = repo /\ SeenScope' /\ SeenFiles' /\ SeenChanges'
    BY <1>1 DEF Seen
  <2>1. /\ op.start = repo /\ True(op.artifacts, repo) /\ ScopeIs(op.scope, repo)
    BY <1>1, <1>7 DEF VerdictInv, Seen, SeenFiles, SeenScope, Done
  <2>2. SeenScope' BY <1>1, <1>7, <2>1 DEF SeenScope
  <2>3. SeenFiles' BY <1>1, <1>7, <2>1 DEF SeenFiles
  <2>4. SeenChanges' BY <1>7 DEF SeenChanges
  <2> QED BY <1>7, <2>1, <2>2, <2>3, <2>4
<1>10. Doing' BY <1>1, <1>7 DEF Doing, VerdictInv
<1>11. HasJudged'
  <2>1. Judged(then, relation)'
    <3>1. (relation \in Holds!Relations(memory.scope.head, op.scope.head))'
      BY <1>1, <1>2, <1>7 DEF Holds!Relations
    <3> QED BY <1>1, <1>7, <3>1 DEF Judged, verdict
  <2>2. then \in Holds!StagedSets(memory'.artifacts)
    BY <1>1, <1>2
  <2> QED BY <1>3, <2>1, <2>2 DEF HasJudged
<1> QED BY <1>1, <1>8, <1>9, <1>10, <1>11 DEF VerdictInv

LEMMA AnswerGiven ==
    ASSUME VerdictInv, Holds!Answer
    PROVE  VerdictInv'
<1>1. op' = Holds!Resting /\ repo' = repo /\ memory' = memory BY DEF Holds!Answer
<1> QED BY <1>1, RestingRow DEF VerdictInv, Seen, Doing, HasJudged

\* The user may do anything at any time; an operation under way is disturbed.
LEMMA UserSteps ==
    ASSUME VerdictInv, Holds!WorktreeAssumption, Holds!UserStep
    PROVE  VerdictInv'
<1> DEFINE quiet == (op.at = "idle")
<1>1. Holds!User /\ op' = [op EXCEPT !.quiet = quiet] /\ memory' = memory
  BY DEF Holds!UserStep
<1>2. RepoOK(repo) /\ RepoOK(repo') /\ Grown(repo, repo') BY <1>1, UserGrows DEF VerdictInv
<1>3. Remembered(memory, repo) => Remembered(memory, repo') BY <1>2, RememberedGrows
<1>4. op \in OpRow /\ quiet \in BOOLEAN BY DEF VerdictInv
<1>5. op'.quiet = quiet BY <1>1, <1>4 DEF OpRow
<1>6. quiet = (op.at = "idle") OBVIOUS
<1> HIDE DEF quiet
<1>7. /\ op'.at = op.at /\ op'.doing = op.doing /\ op'.auto = op.auto /\ op'.scope = op.scope
      /\ op'.artifacts = op.artifacts /\ op'.verdict = op.verdict /\ op'.source = op.source
  BY <1>1, <1>4 DEF OpRow
<1>8. op' \in OpRow BY <1>1, <1>4 DEF OpRow
<1>9. Seen' BY <1>5, <1>6, <1>7 DEF Seen
<1>10. Doing' BY <1>1, <1>3, <1>7 DEF Doing, VerdictInv
<1>11. HasJudged'
  <2>1. ASSUME op.at = "answered"
        PROVE  \E then \in Holds!StagedSets(memory'.artifacts), relation \in Relations :
                  Judged(then, relation)'
    <3>1. PICK then \in Holds!StagedSets(memory.artifacts), relation \in Relations :
             Judged(then, relation)
      BY <2>1 DEF VerdictInv, HasJudged
    <3>2. Judged(then, relation)' BY <1>1, <1>5, <1>6, <1>7, <2>1, <3>1 DEF Judged
    <3> QED BY <1>1, <3>1, <3>2
  <2> QED BY <1>7, <2>1 DEF HasJudged
<1>12. (memory = None \/ Remembered(memory, repo))' BY <1>1, <1>3 DEF VerdictInv
<1> QED BY <1>2, <1>8, <1>9, <1>10, <1>11, <1>12 DEF VerdictInv

LEMMA VerdictStep ==
    ASSUME VerdictInv, [Holds!Next]_(Holds!vars),
           Holds!WorktreeAssumption, Holds!ApplicabilityAssumption
    PROVE  VerdictInv'
<1>1. CASE UNCHANGED Holds!vars
  BY <1>1 DEF Holds!vars, VerdictInv, Seen, SeenScope, SeenFiles, SeenChanges, Doing,
              HasJudged, Judged, Holds!Relations
<1>2. ASSUME NEW X \in Requested, NEW auto \in BOOLEAN, Holds!Begin("checkpoint", X, auto)
      PROVE  VerdictInv'
  BY <1>2, Begins
<1>3. ASSUME NEW X \in Requested, Holds!Begin("recall", X, FALSE)
      PROVE  VerdictInv'
  BY <1>3, Begins
<1> QED BY <1>1, <1>2, <1>3, ReadsStatus, ReadsDiff, ReadsUntracked, Starts, ReadsFile, HasRead,
           CouldNotRead, Lists, CouldNotList, Stores, Judges, AnswerGiven, UserSteps
        DEF Holds!Next

LEMMA VerdictInit ==
    ASSUME Holds!Init, Holds!WorktreeAssumption
    PROVE  VerdictInv
<1>1. PICK t \in Holds!Tree, b \in Branch :
         repo = [work |-> t, index |-> t, edits |-> 0, branch |-> b,
                 head |-> IF t = Holds!Empty THEN 0 ELSE 1,
                 commits |-> IF t = Holds!Empty THEN <<>> ELSE <<[parent |-> 0, files |-> t]>>]
  BY DEF Holds!Init, Holds!WorktreeInit
<1>2. RepoOK(repo)
  <2>1. CASE t = Holds!Empty
    <3>1. repo = [work |-> t, index |-> t, edits |-> 0, branch |-> b, head |-> 0,
                  commits |-> <<>>]
      BY <1>1, <2>1
    <3> QED BY <3>1 DEF RepoOK, Repo
  <2>2. CASE t # Holds!Empty
    <3> DEFINE row == [parent |-> 0, files |-> t]
    <3>1. repo = [work |-> t, index |-> t, edits |-> 0, branch |-> b, head |-> 1,
                  commits |-> <<row>>]
      BY <1>1, <2>2
    <3>2. row \in CommitRow /\ row.parent = 0 BY DEF CommitRow
    <3> HIDE DEF row
    <3>3. <<row>> \in Seq(CommitRow) /\ Len(<<row>>) = 1 /\ <<row>>[1] = row BY <3>2
    <3> QED BY <3>1, <3>2, <3>3 DEF RepoOK, Repo
  <2> QED BY <2>1, <2>2
<1>3. op = Holds!Resting /\ memory = None BY DEF Holds!Init
<1> QED BY <1>2, <1>3, RestingInv

\* The operators that Applicability has from the libraries are the libraries'.
LEMMA SameFinite == \A S : Holds!IsFiniteSet(S) = IsFiniteSet(S)
BY DEF Holds!IsFiniteSet, IsFiniteSet
LEMMA SameCardinality == \A S : Holds!Cardinality(S) = Cardinality(S)
BY DEF Holds!Cardinality, Cardinality

----------------------------------------------------------------------------
(* What a verdict says of an operation that nobody disturbed *)

LEMMA AtTheAnswer ==
    ASSUME VerdictInv, Holds!Answered, Holds!Undisturbed
    PROVE  /\ RepoOK(repo) /\ RepoOK(memory.start) /\ Grown(memory.start, repo)
           /\ ScopeIs(memory.scope, memory.start) /\ ScopeIs(op.scope, repo)
           /\ True(memory.artifacts, memory.start) /\ True(op.artifacts, repo)
           /\ memory.whole => Holds!Changed(memory.start) \subseteq DOMAIN memory.artifacts
           /\ memory.scope \in ScopeRow /\ op.scope \in ScopeRow
<1>1. op.at = "answered" /\ op.quiet /\ memory.quiet
  BY DEF Holds!Answered, Holds!Undisturbed
<1>2. op.doing = "recall" /\ Remembered(memory, repo)
  BY <1>1 DEF VerdictInv, Doing
<1>3. True(op.artifacts, repo) /\ ScopeIs(op.scope, repo)
  BY <1>1 DEF VerdictInv, Seen, SeenScope, SeenFiles, Done
<1>4. op.scope \in ScopeRow BY DEF VerdictInv, OpRow
<1> QED BY <1>1, <1>2, <1>3, <1>4 DEF VerdictInv, Remembered

LEMMA WhatIsKnown ==
    ASSUME VerdictInv, Holds!Answered
    PROVE  memory.artifacts \in Artifacts /\ op.artifacts \in Artifacts
<1>1. op.at = "answered" BY DEF Holds!Answered
<1>2. op.doing = "recall" /\ Remembered(memory, repo)
  BY <1>1 DEF VerdictInv, Doing
<1> QED BY <1>2 DEF VerdictInv, Remembered, OpRow

\* What is compared is part of what is remembered, and all of it if it fits.
LEMMA StagedPart ==
    ASSUME NEW a \in Artifacts, NEW then \in Holds!StagedSets(a),
           Holds!WorktreeAssumption, Holds!ApplicabilityAssumption
    PROVE  /\ DOMAIN then \subseteq DOMAIN a /\ \A f \in DOMAIN then : then[f] = a[f]
           /\ then = a <=> Cardinality(DOMAIN a) <= MaxStaged
<1> DEFINE all == DOMAIN a
<1>1. PICK S \in SUBSET File : a \in [S -> Content] BY DEF Artifacts
<1>2. IsFiniteSet(all)
  <2>1. IsFiniteSet(File) BY SameFinite DEF Holds!WorktreeAssumption
  <2>2. all \in SUBSET File BY <1>1
  <2> QED BY <2>1, <2>2, FS_Subset
<1>3. PICK D \in SUBSET all :
         /\ Cardinality(D) = IF Cardinality(all) <= MaxStaged THEN Cardinality(all) ELSE MaxStaged
         /\ then = Holds!Restrict(a, D)
  <2>1. PICK D \in {X \in SUBSET all : Holds!Cardinality(X) =
                      IF Holds!Cardinality(all) <= MaxStaged THEN Holds!Cardinality(all)
                      ELSE MaxStaged} :
           then = Holds!Restrict(a, D)
    BY DEF Holds!StagedSets
  <2> QED BY <2>1, SameCardinality
<1>4. then = [f \in D |-> a[f]] BY <1>3 DEF Holds!Restrict
<1>5. DOMAIN then = D /\ \A f \in D : then[f] = a[f] BY <1>4
<1>6. ASSUME Cardinality(all) <= MaxStaged PROVE then = a
  <2>1. D = all BY <1>2, <1>3, <1>6, FS_Subset
  <2>2. a = [f \in all |-> a[f]] BY <1>1
  <2> QED BY <1>4, <2>1, <2>2
<1>7. ASSUME ~(Cardinality(all) <= MaxStaged) PROVE then # a
  <2>1. Cardinality(all) # MaxStaged
    BY <1>2, <1>7, FS_CardinalityType DEF Holds!ApplicabilityAssumption
  <2>2. D # all BY <1>3, <1>7, <2>1
  <2> QED BY <1>5, <2>2
<1> QED BY <1>3, <1>5, <1>6, <1>7

LEMMA HeadIsKept ==
    ASSUME NEW r, NEW q, RepoOK(r), RepoOK(q), Grown(r, q), r.head = q.head
    PROVE  Holds!HeadFiles(r) = Holds!HeadFiles(q)
<1>1. r.head \in 0..Len(r.commits) /\ Len(r.commits) \in Nat BY DEF RepoOK, Repo
<1>2. CASE r.head = 0 BY <1>2 DEF Holds!HeadFiles, Holds!FilesOf
<1>3. CASE r.head # 0
  <2>1. r.head \in 1..Len(r.commits) BY <1>1, <1>3
  <2> QED BY <1>3, <2>1 DEF Holds!HeadFiles, Holds!FilesOf, Grown
<1> QED BY <1>2, <1>3

LEMMA HeadKnown ==
    ASSUME NEW r, RepoOK(r), Holds!ApplicabilityAssumption
    PROVE  Holds!HeadOid(r) = None <=> r.head = 0
BY DEF RepoOK, Repo, Holds!HeadOid, Holds!ApplicabilityAssumption

\* There is a hash unless the status is empty.
LEMMA DirtyIsHashed ==
    ASSUME NEW r, NEW s \in ScopeRow, ScopeIs(s, r), s # Holds!NoScope,
           Holds!ApplicabilityAssumption
    PROVE  /\ s.dirty = None <=> s.status = Holds!Whole({})
           /\ s.dirty # None => s.dirty = Holds!DirtyHash(s)
<1>1. CASE s.status # Holds!Whole({})
  <2>1. s.dirty = Holds!DirtyHash(s) BY <1>1 DEF ScopeIs
  <2>2. s.dirty \in Holds!DirtyHashes BY <2>1, HashType
  <2> QED BY <1>1, <2>1, <2>2 DEF Holds!ApplicabilityAssumption
<1> QED BY <1>1 DEF ScopeIs

\* Two hashes are equal if status and diff are, and what was read of untracked
\* files, where a failed listing counts as an empty one.
LEMMA EqualHashes ==
    ASSUME NEW s, NEW t, Holds!DirtyHash(s) = Holds!DirtyHash(t)
    PROVE  /\ s.status = t.status /\ s.diff = t.diff
           /\ s.untracked.had =>
                 \/ t.untracked = s.untracked
                 \/ s.untracked = Holds!Whole({})
BY DEF Holds!DirtyHash

\* What a checkpoint saw whole, a recall with the same commit and hash sees.
LEMMA SameScopeSameFiles ==
    ASSUME NEW r, NEW q, RepoOK(r), RepoOK(q), Grown(r, q), r.head = q.head, r.head # 0,
           NEW s \in ScopeRow, NEW t \in ScopeRow, ScopeIs(s, r), ScopeIs(t, q),
           s # Holds!NoScope, t # Holds!NoScope, s.dirty = t.dirty, Holds!Seeing(s),
           Holds!WorktreeAssumption, Holds!ApplicabilityAssumption
    PROVE  q.index = r.index /\ \A f \in File : Looks(f, q, r)
<1>1. Holds!HeadFiles(q) = Holds!HeadFiles(r) BY HeadIsKept
<1>2. /\ s.status \in Holds!Bounded(Holds!Status(r)) /\ s.status.had
      /\ t.status \in Holds!Bounded(Holds!Status(q)) /\ t.status.had
  BY DEF ScopeIs, Begun
<1>3. CASE s.dirty = None
  <2>1. s.status = Holds!Whole({}) /\ t.status = Holds!Whole({}) BY <1>3, DirtyIsHashed
  <2>2. ~Holds!Whole({}).cut BY DEF Holds!Whole
  <2>3. s.status = Holds!Whole(Holds!Status(r)) /\ t.status = Holds!Whole(Holds!Status(q))
    BY <1>2, <2>1, <2>2, BoundedOutput
  <2>4. Holds!Status(r) = {} /\ Holds!Status(q) = {}
    BY <2>1, <2>3 DEF Holds!Whole
  <2>5. /\ r.work = r.index /\ r.index = Holds!HeadFiles(r)
        /\ q.work = q.index /\ q.index = Holds!HeadFiles(q)
    BY <2>4, CleanStatus
  <2> QED BY <1>1, <2>5 DEF Looks
<1>4. CASE s.dirty # None
  <2>1. /\ s.dirty = Holds!DirtyHash(s) /\ t.dirty = Holds!DirtyHash(t)
        /\ s.status # Holds!Whole({}) /\ t.status # Holds!Whole({})
    BY <1>4, DirtyIsHashed
  <2>2. Holds!DirtyHash(s) = Holds!DirtyHash(t) BY <2>1
  <2>3. /\ s.status = t.status /\ s.diff = t.diff
        /\ s.untracked.had => t.untracked = s.untracked \/ s.untracked = Holds!Whole({})
    BY <2>2, EqualHashes
  <2>4. /\ s.status.had /\ ~s.status.cut /\ s.diff.had /\ ~s.diff.cut
        /\ s.untracked.had /\ ~s.untracked.cut
    BY <1>4 DEF Holds!Seeing
  <2>5. /\ s.diff \in Holds!Bounded(Holds!TrackedDiff(r))
        /\ t.diff \in Holds!Bounded(Holds!TrackedDiff(q))
        /\ s.untracked \in Holds!Bounded(Holds!UntrackedContents(r))
        /\ t.untracked \in Holds!Bounded(Holds!UntrackedContents(q))
    BY <2>1 DEF ScopeIs, Holds!Diffs
  <2>6. Holds!Status(q) = Holds!Status(r) BY <1>2, <2>3, <2>4, WholeTellsApart
  <2>7. Holds!TrackedDiff(q) = Holds!TrackedDiff(r) BY <2>3, <2>4, <2>5, WholeTellsApart
  <2>8. Holds!UntrackedContents(q) = Holds!UntrackedContents(r)
    <3>1. CASE t.untracked = s.untracked
      BY <2>4, <2>5, <3>1, WholeTellsApart
    <3>2. CASE s.untracked = Holds!Whole({})
      <4>1. s.untracked = Holds!Whole(Holds!UntrackedContents(r))
        BY <2>4, <2>5, BoundedOutput
      <4>2. Holds!UntrackedContents(r) = {} BY <3>2, <4>1 DEF Holds!Whole
      <4>3. \A f \in File : ~Holds!Untracked(r, f) BY <4>2 DEF Holds!UntrackedContents
      <4>4. \A f \in File : ~Holds!Untracked(q, f) BY <2>6, <4>3, StatusTellsUntracked
      <4> QED BY <4>2, <4>4 DEF Holds!UntrackedContents
    <3> QED BY <2>3, <2>4, <3>1, <3>2
  <2> QED BY <1>1, <2>6, <2>7, <2>8, HashTellsApart
<1> QED BY <1>3, <1>4

LEMMA ExactHolds ==
    ASSUME VerdictInv, Holds!WorktreeAssumption, Holds!ApplicabilityAssumption
    PROVE  Holds!ExactIsEarned
<1> SUFFICES ASSUME Holds!Answered, op.verdict = "exact", Holds!Undisturbed
             PROVE  /\ \A f \in Holds!Shared(memory.artifacts, op.artifacts) :
                          repo.work[f] = memory.start.work[f]
                    /\ \/ /\ memory.artifacts # Holds!Nothing
                          /\ DOMAIN memory.artifacts \subseteq DOMAIN op.artifacts
                          /\ memory.whole => \A f \in Holds!Changed(memory.start) :
                                                repo.work[f] = memory.start.work[f]
                       \/ Holds!Seeing(memory.scope)
                          => /\ repo.head = memory.start.head /\ repo.index = memory.start.index
                             /\ \A f \in File : Looks(f, repo, memory.start)
  BY DEF Holds!ExactIsEarned, Holds!Then, Holds!LooksTheSame, Looks
<1>1. PICK then \in Holds!StagedSets(memory.artifacts), relation \in Relations :
         Judged(then, relation)
  BY DEF VerdictInv, HasJudged, Holds!Answered
<1> DEFINE complete == then = memory.artifacts
           judged == Holds!ByRevision(memory.scope, op.scope, relation)
<1>2. relation \in Holds!Relations(memory.scope.head, op.scope.head)
  BY <1>1 DEF Judged, Holds!Undisturbed
<1>3. /\ RepoOK(repo) /\ RepoOK(memory.start) /\ Grown(memory.start, repo)
      /\ ScopeIs(memory.scope, memory.start) /\ ScopeIs(op.scope, repo)
      /\ True(memory.artifacts, memory.start) /\ True(op.artifacts, repo)
      /\ memory.whole => Holds!Changed(memory.start) \subseteq DOMAIN memory.artifacts
      /\ memory.scope \in ScopeRow /\ op.scope \in ScopeRow
  BY AtTheAnswer
<1>4. \/ Holds!FullyVerified(then, op.artifacts, complete)
      \/ /\ memory.scope.dirty = op.scope.dirty /\ judged = "exact"
         /\ complete /\ ~Holds!Mismatched(then, op.artifacts)
  BY <1>1 DEF Judged, Holds!Classify, Holds!Downgraded
<1>5. \A f \in Holds!Shared(memory.artifacts, op.artifacts) :
         repo.work[f] = memory.start.work[f]
  <2>1. then = memory.artifacts /\ ~Holds!Mismatched(then, op.artifacts)
    BY <1>4 DEF Holds!FullyVerified, Holds!Mismatched, Holds!Shared
  <2> QED BY <1>3, <2>1 DEF Holds!Mismatched, Holds!Shared, True
<1>6. CASE Holds!FullyVerified(then, op.artifacts, complete)
  <2>1. /\ then = memory.artifacts /\ then # Holds!Nothing
        /\ \A f \in DOMAIN then : f \in DOMAIN op.artifacts /\ then[f] = op.artifacts[f]
    BY <1>6 DEF Holds!FullyVerified
  <2>2. \A f \in DOMAIN memory.artifacts : repo.work[f] = memory.start.work[f]
    BY <1>3, <2>1 DEF True
  <2> QED BY <1>3, <1>5, <2>1, <2>2
<1>7. CASE memory.scope.dirty = op.scope.dirty /\ judged = "exact"
  <2>1. /\ memory.scope.head # None /\ op.scope.head # None /\ relation = "same"
    BY <1>7 DEF Holds!ByRevision, Relations
  <2>0. memory.scope # Holds!NoScope /\ op.scope # Holds!NoScope BY <2>1, NoScopeRow
  <2>2. memory.scope.head = Holds!HeadOid(memory.start) /\ op.scope.head = Holds!HeadOid(repo)
    BY <1>3, <2>0 DEF ScopeIs, Begun
  <2>3. /\ memory.start.head # 0 /\ repo.head # 0
        /\ memory.scope.head = memory.start.head /\ op.scope.head = repo.head
    BY <2>1, <2>2 DEF Holds!HeadOid
  <2>4. memory.start.head \in 1..Len(memory.start.commits) /\ repo.head \in 1..Len(repo.commits)
    BY <1>3, <2>3 DEF RepoOK, Repo
  <2>5. memory.start.head \in 1..Len(repo.commits)
    <3>1. Len(memory.start.commits) \in Nat /\ Len(repo.commits) \in Nat
      BY <1>3 DEF RepoOK, Repo
    <3> QED BY <1>3, <2>4, <3>1 DEF Grown
  <2>6. memory.start.head = repo.head
    <3> SUFFICES ASSUME memory.start.head # repo.head PROVE FALSE
      OBVIOUS
    <3>1. Holds!Relation(repo, memory.start.head, repo.head) # "same"
      BY <1>3, <2>4, <2>5, RelationDecides
    <3> QED BY <1>2, <2>1, <2>3, <3>1 DEF Holds!Relations
  <2>7. Holds!Seeing(memory.scope)
        => repo.index = memory.start.index /\ \A f \in File : Looks(f, repo, memory.start)
    BY <1>3, <1>7, <2>0, <2>3, <2>6, SameScopeSameFiles
  <2> QED BY <1>5, <2>6, <2>7
<1> QED BY <1>4, <1>6, <1>7

LEMMA PartIsNeverExact ==
    ASSUME VerdictInv, Holds!WorktreeAssumption, Holds!ApplicabilityAssumption
    PROVE  Holds!PartNeverExact
<1> SUFFICES ASSUME Holds!Answered, Cardinality(DOMAIN memory.artifacts) > MaxStaged
             PROVE  op.verdict # "exact"
  BY SameCardinality DEF Holds!PartNeverExact
<1>1. PICK then \in Holds!StagedSets(memory.artifacts), relation \in Relations :
         Judged(then, relation)
  BY DEF VerdictInv, HasJudged, Holds!Answered
<1>2. memory.artifacts \in Artifacts BY WhatIsKnown
<1>3. Cardinality(DOMAIN memory.artifacts) \in Nat
  <2>1. PICK S \in SUBSET File : memory.artifacts \in [S -> Content] BY <1>2 DEF Artifacts
  <2>2. IsFiniteSet(DOMAIN memory.artifacts)
    <3>1. IsFiniteSet(File) BY SameFinite DEF Holds!WorktreeAssumption
    <3>2. DOMAIN memory.artifacts \in SUBSET File BY <2>1
    <3> QED BY <3>1, <3>2, FS_Subset
  <2> QED BY <2>2, FS_CardinalityType
<1>4. then # memory.artifacts
  BY <1>2, <1>3, StagedPart DEF Holds!ApplicabilityAssumption
<1> QED BY <1>1, <1>4 DEF Judged, Holds!Classify, Holds!FullyVerified, Holds!Downgraded

LEMMA UnchangedHolds ==
    ASSUME VerdictInv, Holds!WorktreeAssumption, Holds!ApplicabilityAssumption
    PROVE  Holds!UnchangedIsApplicable
<1> DEFINE same == /\ memory.scope.status = op.scope.status
                   /\ memory.scope.diff = op.scope.diff
                   /\ memory.scope.untracked = op.scope.untracked
           had == op.scope.status.had
<1> SUFFICES ASSUME Holds!Answered, Holds!Undisturbed,
                    [repo EXCEPT !.edits = 0] = [memory.start EXCEPT !.edits = 0], same
             PROVE  /\ op.verdict \in {"exact", "compatible", "unversioned"}
                    /\ repo.head # 0 /\ had /\ Cardinality(DOMAIN memory.artifacts) <= MaxStaged
                          => op.verdict = "exact"
  <2> SUFFICES ASSUME Holds!Answered, Holds!Undisturbed,
                      [repo EXCEPT !.edits = 0] = [memory.start EXCEPT !.edits = 0], same
               PROVE  /\ op.verdict \in {"exact", "compatible", "unversioned"}
                      /\ repo.head # 0 /\ had
                         /\ Holds!Cardinality(DOMAIN memory.artifacts) <= MaxStaged
                            => op.verdict = "exact"
    BY Zenon DEF Holds!UnchangedIsApplicable, Holds!Then
  <2>1. Holds!Cardinality(DOMAIN memory.artifacts) = Cardinality(DOMAIN memory.artifacts)
    BY SameCardinality
  <2> QED BY <2>1
<1>1. PICK then \in Holds!StagedSets(memory.artifacts), relation \in Relations :
         Judged(then, relation)
  BY DEF VerdictInv, HasJudged, Holds!Answered
<1>2. relation \in Holds!Relations(memory.scope.head, op.scope.head)
  BY <1>1 DEF Judged, Holds!Undisturbed
<1>3. /\ RepoOK(repo) /\ RepoOK(memory.start) /\ Grown(memory.start, repo)
      /\ ScopeIs(memory.scope, memory.start) /\ ScopeIs(op.scope, repo)
      /\ True(memory.artifacts, memory.start) /\ True(op.artifacts, repo)
      /\ memory.scope \in ScopeRow /\ op.scope \in ScopeRow
  BY AtTheAnswer
<1>4. memory.artifacts \in Artifacts /\ op.artifacts \in Artifacts
  BY WhatIsKnown
<1>5. /\ repo.work = memory.start.work /\ repo.index = memory.start.index
      /\ repo.branch = memory.start.branch /\ repo.head = memory.start.head
      /\ repo.commits = memory.start.commits
  <2>1. repo \in Repo /\ memory.start \in Repo BY <1>3 DEF RepoOK
  <2> DEFINE a == [repo EXCEPT !.edits = 0]
             b == [memory.start EXCEPT !.edits = 0]
  <2>2. /\ a.work = repo.work /\ a.index = repo.index /\ a.branch = repo.branch
        /\ a.head = repo.head /\ a.commits = repo.commits
    BY <2>1 DEF Repo
  <2>3. /\ b.work = memory.start.work /\ b.index = memory.start.index
        /\ b.branch = memory.start.branch /\ b.head = memory.start.head
        /\ b.commits = memory.start.commits
    BY <2>1 DEF Repo
  <2> QED BY <2>2, <2>3
<1>6. /\ Holds!HeadFiles(repo) = Holds!HeadFiles(memory.start)
      /\ Holds!HeadOid(repo) = Holds!HeadOid(memory.start)
  BY <1>5 DEF Holds!HeadFiles, Holds!FilesOf, Holds!HeadOid
<1>7. had \in BOOLEAN /\ Holds!Missing.had = FALSE
  BY <1>3 DEF ScopeRow, Holds!Output, Holds!Missing
<1>8. /\ memory.scope.head = op.scope.head /\ memory.scope.branch = op.scope.branch
      /\ memory.scope.dirty = op.scope.dirty
      /\ op.scope.head = IF had THEN Holds!HeadOid(repo) ELSE None
  <2>1. CASE had
    <3>1. memory.scope # Holds!NoScope /\ op.scope # Holds!NoScope
      BY <1>7, <2>1, NoScopeRow
    <3>2. Holds!DirtyHash(memory.scope) = Holds!DirtyHash(op.scope)
      BY DEF Holds!DirtyHash
    <3> QED BY <1>3, <1>5, <1>6, <2>1, <3>1, <3>2 DEF ScopeIs, Begun
  <2>2. CASE ~had
    <3>1. memory.scope = Holds!NoScope /\ op.scope = Holds!NoScope
      BY <1>3, <2>2 DEF ScopeIs, Begun
    <3> QED BY <2>2, <3>1, NoScopeRow
  <2> QED BY <1>7, <2>1, <2>2
<1>9. ~Holds!Mismatched(then, op.artifacts)
  <2>1. \A f \in DOMAIN then : f \in DOMAIN memory.artifacts /\ then[f] = memory.artifacts[f]
    BY <1>4, StagedPart
  <2> QED BY <1>3, <1>5, <2>1 DEF Holds!Mismatched, Holds!Shared, True
<1> DEFINE complete == then = memory.artifacts
           judged == Holds!ByRevision(memory.scope, op.scope, relation)
<1>10. op.verdict = IF Holds!FullyVerified(then, op.artifacts, complete) THEN "exact"
                    ELSE Holds!Downgraded(judged, complete)
  BY <1>1, <1>8, <1>9 DEF Judged, Holds!Classify
<1>11. judged = IF repo.head = 0 \/ ~had THEN "unversioned" ELSE "exact"
  <2>1. CASE repo.head = 0 \/ ~had
    <3>1. op.scope.head = None BY <1>3, <1>8, <2>1, HeadKnown
    <3> QED BY <1>8, <2>1, <3>1 DEF Holds!ByRevision
  <2>2. CASE repo.head # 0 /\ had
    <3>1. memory.scope.head # None /\ op.scope.head # None
      BY <1>3, <1>8, <2>2, HeadKnown
    <3>2. relation = "same"
      BY <1>2, <1>8, <3>1 DEF Holds!Relations
    <3> QED BY <2>2, <3>1, <3>2 DEF Holds!ByRevision
  <2> QED BY <2>1, <2>2
<1>12. Cardinality(DOMAIN memory.artifacts) <= MaxStaged => complete
  BY <1>4, StagedPart
<1> HIDE DEF complete, judged, had, same
<1> QED BY <1>10, <1>11, <1>12 DEF Holds!Downgraded

LEMMA HistoryHolds ==
    ASSUME VerdictInv, Holds!WorktreeAssumption, Holds!ApplicabilityAssumption
    PROVE  Holds!HistoryDecides
<1> SUFFICES ASSUME Holds!Answered, Holds!Undisturbed, Holds!Clean(memory.start),
                    Holds!Clean(repo), memory.artifacts = Holds!Nothing,
                    memory.start.head # 0, repo.head # 0
             PROVE  IF memory.start.head \in Holds!Ancestors(repo, repo.head)
                    THEN op.verdict \in {"exact", "compatible", "unversioned"}
                    ELSE op.verdict \in {"divergent", "unversioned"}
  BY DEF Holds!HistoryDecides, Holds!Then
<1>1. PICK then \in Holds!StagedSets(memory.artifacts), relation \in Relations :
         Judged(then, relation)
  BY DEF VerdictInv, HasJudged, Holds!Answered
<1>2. relation \in Holds!Relations(memory.scope.head, op.scope.head)
  BY <1>1 DEF Judged, Holds!Undisturbed
<1>3. /\ RepoOK(repo) /\ RepoOK(memory.start) /\ Grown(memory.start, repo)
      /\ ScopeIs(memory.scope, memory.start) /\ ScopeIs(op.scope, repo)
      /\ memory.scope \in ScopeRow /\ op.scope \in ScopeRow
  BY AtTheAnswer
<1>4. memory.artifacts \in Artifacts BY WhatIsKnown
<1>5. memory.scope.dirty = None /\ op.scope.dirty = None
  <2>1. Holds!Status(memory.start) = {} /\ Holds!Status(repo) = {}
    BY <1>3, CleanStatus DEF Holds!Clean
  <2>2. \A out \in Holds!Bounded({}) : out.had => out = Holds!Whole({})
    BY DEF Holds!Bounded, Holds!Whole, Holds!Missing
  <2> QED BY <1>3, <2>1, <2>2, NoScopeRow DEF ScopeIs, Begun
<1>6. /\ \/ memory.scope = Holds!NoScope
         \/ memory.scope.head = memory.start.head /\ memory.scope.head # None
      /\ \/ op.scope = Holds!NoScope
         \/ op.scope.head = repo.head /\ op.scope.head # None
  BY <1>3, HeadKnown DEF ScopeIs, Begun, Holds!HeadOid
<1>7. then = Holds!Nothing /\ DOMAIN then = {}
  <2>1. Cardinality(DOMAIN memory.artifacts) = 0 BY NothingIsKnown, FS_EmptySet
  <2>2. Cardinality(DOMAIN memory.artifacts) <= MaxStaged
    BY <2>1 DEF Holds!ApplicabilityAssumption
  <2>3. then = memory.artifacts BY <1>4, <2>2, StagedPart
  <2> QED BY <2>3, NothingIsKnown
<1>8. ~Holds!Mismatched(then, op.artifacts)
  BY <1>7 DEF Holds!Mismatched, Holds!Shared
<1>9. \A c \in BOOLEAN : ~Holds!FullyVerified(then, op.artifacts, c)
  BY <1>7 DEF Holds!FullyVerified
<1> DEFINE complete == then = memory.artifacts
           judged == Holds!ByRevision(memory.scope, op.scope, relation)
<1>10. op.verdict = Holds!Downgraded(judged, complete)
  BY <1>1, <1>5, <1>8, <1>9 DEF Judged, Holds!Classify
<1>11. op.verdict \in {judged, "unversioned"} BY <1>10 DEF Holds!Downgraded
<1> HIDE DEF judged
<1>12. CASE memory.scope = Holds!NoScope \/ op.scope = Holds!NoScope
  <2>1. judged = "unversioned" BY <1>12, NoScopeRow DEF judged, Holds!ByRevision
  <2> QED BY <1>11, <2>1
<1>13. CASE /\ memory.scope.head = memory.start.head /\ op.scope.head = repo.head
            /\ memory.scope.head # None /\ op.scope.head # None
  <2>1. CASE memory.start.head = repo.head
    <3>1. relation = "same" BY <1>2, <2>1, <1>13 DEF Holds!Relations
    <3>2. judged = "exact" BY <1>13, <3>1 DEF judged, Holds!ByRevision
    <3>3. repo.commits \in Seq(CommitRow) /\ repo.head \in 1..Len(repo.commits)
      BY <1>3 DEF RepoOK, Repo
    <3>4. repo.head \in Holds!Ancestors(repo, repo.head) BY <3>3, AncestorItself
    <3> QED BY <1>11, <2>1, <3>2, <3>4
  <2>2. CASE memory.start.head # repo.head
    <3>1. relation \in {Holds!Relation(repo, memory.start.head, repo.head), "unknown"}
      BY <1>2, <2>2, <1>13 DEF Holds!Relations
    <3>2. memory.start.head \in 1..Len(repo.commits) /\ repo.head \in 1..Len(repo.commits)
      <4>1. Len(memory.start.commits) \in Nat /\ Len(repo.commits) \in Nat
            /\ memory.start.head \in 0..Len(memory.start.commits)
            /\ repo.head \in 0..Len(repo.commits)
        BY <1>3 DEF RepoOK, Repo
      <4> QED BY <1>3, <4>1 DEF Grown
    <3>3. IF memory.start.head \in Holds!Ancestors(repo, repo.head)
          THEN relation \in {"ancestor", "unknown"}
          ELSE relation \in {"descendant", "diverged", "unknown"}
      BY <1>3, <2>2, <3>1, <3>2, RelationDecides
    <3>4. judged = CASE relation = "same" -> "exact"
                     [] relation = "ancestor" -> "compatible"
                     [] relation \in {"descendant", "diverged"} -> "divergent"
                     [] relation = "unknown" -> "unversioned"
      BY <1>13 DEF judged, Holds!ByRevision
    <3> QED BY <1>11, <3>3, <3>4
  <2> QED BY <2>1, <2>2
<1> QED BY <1>6, <1>12, <1>13

\* Of every worktree, and however the user's steps fall between the commands of
\* a checkpoint and of a recall, a verdict says what it means
\* (applicability.rs classify_applicability).
THEOREM VerdictsHold ==
    ASSUME Holds!WorktreeAssumption, Holds!ApplicabilityAssumption
    PROVE  Holds!Spec => []VerdictsAreRight
<1>1. Holds!Init => VerdictInv BY VerdictInit
<1>2. VerdictInv /\ [Holds!Next]_(Holds!vars) => VerdictInv' BY VerdictStep
<1>3. VerdictInv => VerdictsAreRight
  BY ExactHolds, UnchangedHolds, HistoryHolds, PartIsNeverExact
     DEF VerdictsAreRight, Holds!VerdictsAreRight
<1> QED BY <1>1, <1>2, <1>3, PTL DEF Holds!Spec
=============================================================================
