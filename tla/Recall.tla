------------------------------- MODULE Recall -------------------------------
(***************************************************************************)
(* Recall (engine.rs recall and the collectors) beside the writers of      *)
(* MemoryStore and the workers of SearchProjections.  A recall reads its   *)
(* candidates channel by channel in one read transaction, gives the        *)
(* connection up while it looks at the worktree and at Git, and hydrates   *)
(* the revisions it selected in a second transaction.                      *)
(*                                                                         *)
(* A query is known by what it finds: the contents each channel matches,   *)
(* for the dense one those whose vector is at least min_similarity near.   *)
(* Scores and signatures decide which rows survive a limit; which ones is  *)
(* left open, and so is what the comparison of artifacts and of dirty      *)
(* hashes says of a row (Applicability models both).                       *)
(***************************************************************************)
EXTENDS SearchProjections

CONSTANTS
    Reader,         \* concurrent recalls
    Query,          \* the recall requests of the instance
    Place,          \* namespace, repository and workspace of each scope
    Validity,       \* the validity window of each content: from, until, expires
    ChannelLimit,   \* rows a channel returns (512, 512, 256, 512, 32)
    ExactScan,      \* rows whose vectors are all compared (4096)
    Shortlist,      \* rows compared when there are more, by signature (512)
    MaxCandidates,  \* candidates kept after pruning (1024)
    PoolLimit,      \* hits MMR looks at (256 to 512)
    ResultLimit     \* hits selected (request.limit)

Channels == <<"text", "expansion", "attribute", "dense", "recent">>
Channel == {Channels[i] : i \in DOMAIN Channels}
GitRelation == {"same", "ancestor", "descendant", "diverged", "unknown"}

ASSUME RecallAssumption ==
    /\ \A q \in Query : /\ q.scope \in Scope /\ q.ctx \in Context
                        /\ q.kinds \subseteq MemoryKind /\ q.asOf \in Int
                        /\ {q.superseded, q.stale, q.divergent} \subseteq BOOLEAN
                        /\ DOMAIN q.finds = {"text", "expansion", "attribute", "dense"}
                        /\ q.profile \in Profile \cup {None} /\ q.dims \in Dimension \cup {None}
    /\ \A s \in Scope : DOMAIN Place[s] = {"namespace", "repo", "workspace"}
    /\ \A b \in Body : /\ DOMAIN Validity[b] = {"from", "until", "expires"}
                       /\ {Validity[b].from, Validity[b].until, Validity[b].expires}
                             \subseteq Int \cup {None}
    /\ ChannelLimit \in [Channel -> Nat \ {0}]
    /\ {ExactScan, Shortlist, MaxCandidates, PoolLimit, ResultLimit} \subseteq Nat \ {0}
    /\ IsFiniteSet(Memory)   \* 128-bit identifiers (MemoryId of types.rs)

\* readers[r].view is the snapshot of the first transaction; it is kept when
\* the transaction ends only to state the properties.
Idle == [at |-> "idle", query |-> None, view |-> None, next |-> 1, found |-> {},
         rows |-> {}, relations |-> <<>>, hits |-> {}, pack |-> None]

VARIABLE readers

recallVars == <<allVars, readers>>
View == [db |-> db, profiles |-> profiles, projections |-> projections,
         expansions |-> expansions]

----------------------------------------------------------------------------
(* What a request may see *)

\* Mutant: the workspace of a memory is not compared.
VisibleAcrossWorkspaces(memory, current) ==
    /\ memory.namespace = current.namespace
    /\ memory.repo \in {None, current.repo}
\* The scope predicate of every collector's SQL.
Visible(memory, current) ==
    /\ memory.namespace = current.namespace
    /\ memory.workspace \in {None, current.workspace}
    /\ \/ current.repo # None /\ memory.repo \in {None, current.repo}
       \/ current.repo = None /\ memory.repo = None

\* The isolation part of classify_applicability.
Inapplicable(memory, current) ==
    \/ memory.namespace # current.namespace
    \/ memory.workspace # None /\ memory.workspace # current.workspace
    \/ memory.repo # None /\ memory.repo # current.repo

\* The predicates of every collector's SQL.  Windows are in milliseconds; the
\* instant of a request, counted in halves of one, is cut to them (to_ms).
Halves == 2
SqlValid(window, q) ==
    LET asOf == q.asOf \div Halves IN
    /\ window.from = None \/ window.from <= asOf
    /\ window.until = None \/ asOf < window.until
    /\ window.expires = None \/ asOf < window.expires
SqlLifecycle(state, q) == state # "retracted" /\ (q.superseded \/ state # "superseded")
SqlKind(kind, q) == LET all == q.kinds = {} IN all \/ kind \in q.kinds

\* What recall drops again in Rust; valid_at compares the uncut instant.
Outdated(window, q) ==
    \/ window.from # None /\ window.from * Halves > q.asOf
    \/ window.until # None /\ q.asOf >= window.until * Halves
    \/ window.expires # None /\ q.asOf >= window.expires * Halves
StateDropped(state, q) == state = "retracted" \/ (state = "superseded" /\ ~q.superseded)
KindDropped(kind, q) == q.kinds # {} /\ kind \notin q.kinds

BodyOf(v, m) == HeadRevision(v.db, m).body
CandidateEligible(v, q, m) ==
    /\ Exists(v.db, m)
    /\ Visible(Place[v.db.heads[m].scope], Place[q.scope])
    /\ SqlLifecycle(v.db.heads[m].state, q)
    /\ SqlKind(v.db.heads[m].kind, q)
    /\ SqlValid(Validity[BodyOf(v, m)], q)

----------------------------------------------------------------------------
(* The channels *)

Covers(v, p, m) ==
    LET row == v.projections[p][m] IN
    row # None /\ row.rev = v.db.heads[m].rev /\ row.hash = BodyOf(v, m)

\* Rows of the profile of the query that can be compared with it.
HasVector(v, q, m) ==
    /\ q.profile # None
    /\ Covers(v, q.profile, m)
    /\ v.projections[q.profile][m].vector # None

\* collect_exact and collect_fts read the lexical index; collect_sparse,
\* collect_entities and collect_error_fingerprint the attachments and
\* attributes of the head revision.
Matches(v, q, c, m) ==
    CASE c = "text" -> v.db.index[m] # 0 /\ BodyOf(v, m) \in q.finds.text
      [] c = "attribute" -> BodyOf(v, m) \in q.finds.attribute
      [] c = "recent" -> TRUE
      [] c = "expansion" ->
            \E p \in Profile : /\ v.profiles[p] # None /\ v.profiles[p].active
                               /\ Covers(v, p, m)
                               /\ v.expansions[p][m] \in q.finds.expansion
      [] c = "dense" -> HasVector(v, q, m) /\ BodyOf(v, m) \in q.finds.dense

ChannelRows(v, q, c) ==
    {m \in Memory : CandidateEligible(v, q, m) /\ Matches(v, q, c, m)}

\* collect_dense refuses an unknown, inactive or expansion-only profile and a
\* vector of the wrong length.
DenseRefused(v, q) ==
    /\ q.profile # None
    /\ \/ v.profiles[q.profile] = None
       \/ ~v.profiles[q.profile].active
       \/ v.profiles[q.profile].settings.dims # q.dims
       \/ q.dims = None

Least(a, b) == IF a < b THEN a ELSE b
Best(S, n) == {T \in SUBSET S : Cardinality(T) = Least(n, Cardinality(S))}
\* ORDER BY updated_seq DESC, memory_id.
Latest(v, S, n) ==
    {T \in Best(S, n) : \A m \in T, k \in S \ T :
        v.db.heads[k].updated <= v.db.heads[m].updated}
Ordered(v, S, c, n) == IF c \in {"attribute", "recent"} THEN Latest(v, S, n) ELSE Best(S, n)

\* The vectors the dense channel compares: all of them, or, where there are too
\* many, the nearest by signature, which eligibility comes before and the
\* similarity after.
Vectored(v, q) == {m \in Memory : CandidateEligible(v, q, m) /\ HasVector(v, q, m)}
Compared(v, q, c) ==
    IF c # "dense" THEN {Memory}
    ELSE IF Cardinality(Vectored(v, q)) <= ExactScan THEN {Vectored(v, q)}
    ELSE Best(Vectored(v, q), Shortlist)

\* Mutant: the limit is applied before the eligibility of the rows.
ReturnedBeforeFilter(v, q, c) ==
    {T \cap ChannelRows(v, q, c) :
        T \in Ordered(v, {m \in Memory : Exists(v.db, m) /\ Matches(v, q, c, m)},
                      c, ChannelLimit[c])}
Returned(v, q, c) ==
    UNION {Ordered(v, ChannelRows(v, q, c) \cap S, c, ChannelLimit[c]) : S \in Compared(v, q, c)}

----------------------------------------------------------------------------
(* The recall *)

Begin(r, q) ==
    /\ readers[r].at = "idle"
    /\ readers' = [readers EXCEPT ![r] = [Idle EXCEPT !.at = "collecting", !.query = q,
                                                      !.view = View]]
    /\ UNCHANGED allVars

\* What the first read transaction shows.
ReadView(r) == readers[r].view

Collect(r) ==
    /\ readers[r].at = "collecting"
    /\ readers[r].next \in DOMAIN Channels
    /\ LET q == readers[r].query
           c == Channels[readers[r].next]
       IN IF c = "dense" /\ DenseRefused(ReadView(r), q)
          THEN readers' = [readers EXCEPT ![r] = Idle]
          ELSE \E T \in Returned(ReadView(r), q, c) :
                  readers' = [readers EXCEPT ![r].next = @ + 1, ![r].found = @ \cup T]
    /\ UNCHANGED allVars

\* prune_candidates, and load_candidate_memories: the scalars of the heads and
\* the number of the revision each has now.
Staged(v, m) ==
    [mem |-> m, rev |-> v.db.heads[m].rev, kind |-> v.db.heads[m].kind,
     state |-> v.db.heads[m].state, updated |-> v.db.heads[m].updated,
     scope |-> v.db.heads[m].scope, window |-> Validity[BodyOf(v, m)],
     ctx |-> v.db.events[HeadRevision(v.db, m).seq].ctx]
Stage(r) ==
    /\ readers[r].at = "collecting"
    /\ readers[r].next \notin DOMAIN Channels
    /\ \E T \in Best(readers[r].found, MaxCandidates) :
          readers' = [readers EXCEPT ![r].at = "judging", ![r].found = T,
                                     ![r].rows = {Staged(ReadView(r), m) : m \in T}]
    /\ UNCHANGED allVars

\* compare_revisions: equal commits need no Git; whatever it is, a relation is
\* unknown while Git cannot tell.
Relations(stored, current) == IF stored = current THEN {"same"} ELSE GitRelation \ {"same"}
\* cached_git_relation: the first answer for a stored commit is kept.
Resolved(r, stored) ==
    IF stored \in DOMAIN readers[r].relations THEN {readers[r].relations[stored]}
    ELSE Relations(stored, readers[r].query.ctx)

\* The filters recall repeats on what it staged.
StillWanted(row, q) ==
    /\ ~KindDropped(row.kind, q)
    /\ ~StateDropped(row.state, q)
    /\ ~Outdated(row.window, q)
    /\ ~Inapplicable(Place[row.scope], Place[q.scope])
Learnt(relations, stored, relation) ==
    [c \in DOMAIN relations \cup {stored} |-> IF c = stored THEN relation ELSE relations[c]]
Verdict(row, relation) == [mem |-> row.mem, ctx |-> row.ctx, relation |-> relation]
Versioned(row, q) == Place[row.scope].repo # None /\ Place[q.scope].repo # None
\* Artifacts and dirty hashes are compared first and may settle the verdict.
Settled == {"stale", "exact"}
Admits(q, relation) ==
    /\ relation = "stale" => q.stale
    /\ relation \in {"descendant", "diverged"} => q.divergent
Admitted(hits, q, row, relation) ==
    IF Admits(q, relation) THEN hits \cup {[row |-> row, verdict |-> Verdict(row, relation)]}
    ELSE hits

Judge(r, row) ==
    /\ readers[r].at = "judging"
    /\ row \in readers[r].rows
    /\ LET q == readers[r].query
           judged == [readers EXCEPT ![r].rows = @ \ {row}]
       IN IF ~StillWanted(row, q)
          THEN readers' = judged
          ELSE IF ~Versioned(row, q)
          THEN readers' = [judged EXCEPT ![r].hits = Admitted(@, q, row, "unknown")]
          ELSE \/ \E verdict \in Settled :
                     readers' = [judged EXCEPT ![r].hits = Admitted(@, q, row, verdict)]
               \/ \E relation \in Resolved(r, row.ctx) :
                     readers' = [judged EXCEPT ![r].relations = Learnt(@, row.ctx, relation),
                                               ![r].hits = Admitted(@, q, row, relation)]
    /\ UNCHANGED allVars

\* bound_mmr_pool and select_mmr.
Select(r) ==
    /\ readers[r].at = "judging"
    /\ readers[r].rows = {}
    /\ \E pool \in Best(readers[r].hits, PoolLimit) :
          \E selected \in Best(pool, ResultLimit) :
             readers' = [readers EXCEPT ![r].at = "hydrating", ![r].hits = selected]
    /\ UNCHANGED allVars

\* Mutant: the current revision of the head is loaded.
HydratedHead(d, row) ==
    [mem |-> row.mem, rev |-> d.heads[row.mem].rev, body |-> HeadRevision(d, row.mem).body,
     state |-> row.state, updated |-> row.updated]
\* load_memory_revisions_bounded reads the pinned revision; the state and the
\* time of the last update are those of the staged head.
Hydrated(d, row) ==
    LET s == CHOOSE x \in RevisionsOf(d, row.mem) : x.num = row.rev IN
    [mem |-> row.mem, rev |-> row.rev, body |-> s.body, state |-> row.state,
     updated |-> row.updated]

Hydrate(r) ==
    /\ readers[r].at = "hydrating"
    /\ LET rows == {h.row : h \in readers[r].hits}
           stored(row) == \E s \in RevisionsOf(db, row.mem) : s.num = row.rev
       IN readers' = [readers EXCEPT
             ![r].at = IF \A row \in rows : stored(row) THEN "done" ELSE "not found",
             ![r].pack = IF \A row \in rows : stored(row)
                         THEN {Hydrated(db, row) : row \in rows} ELSE @]
    /\ UNCHANGED allVars

Return(r) ==
    /\ readers[r].at \in {"done", "not found"}
    /\ readers' = [readers EXCEPT ![r] = Idle]
    /\ UNCHANGED allVars

RInit == SInit /\ readers = [r \in Reader |-> Idle]

RNext ==
    \/ SNext /\ UNCHANGED readers
    \/ \E r \in Reader :
          \/ \E q \in Query : Begin(r, q)
          \/ Collect(r)
          \/ Stage(r)
          \/ \E row \in readers[r].rows : Judge(r, row)
          \/ Select(r)
          \/ Hydrate(r)
          \/ Return(r)

RSpec == RInit /\ [][RNext]_recallVars
----------------------------------------------------------------------------
(* Properties *)

Done(r) == readers[r].at = "done"

\* A context pack shows one committed state of the store, the one its
\* database_seq names: revision, content, lifecycle state and time of every
\* item are those of that state, although it was hydrated later, when heads
\* had been revised, superseded or retracted (recall's two transactions).
PackIsOneSnapshot ==
    \A r \in Reader : Done(r) =>
       \A item \in readers[r].pack :
          LET d == readers[r].view.db IN
          /\ Exists(d, item.mem)
          /\ item.rev = d.heads[item.mem].rev
          /\ item.body = HeadRevision(d, item.mem).body
          /\ item.state = d.heads[item.mem].state
          /\ item.updated = d.heads[item.mem].updated

\* A pinned revision can always be hydrated: nothing a writer does in between
\* takes a revision away.
HydrationFindsRevisions == \A r \in Reader : readers[r].at # "not found"

\* The rules of scope, lifecycle, kind and validity exist twice, in the SQL of
\* the collectors and in Rust, where the instant is not cut to milliseconds:
\* what SQL let through, the same rules in Rust never drop, so no limit of a
\* channel was spent on such a row.  What Git and the artifacts say of a row is
\* only known later: stale and divergent ones have used up the limits.
SqlAgreesWithRust ==
    \A r \in Reader : \A row \in readers[r].rows :
       StillWanted(row, readers[r].query)

\* A memory the request may see and that a channel matches is left out of the
\* staged candidates only if other memories the request may see filled that
\* channel, the shortlist of the dense one or the candidate set: a row the
\* request may not see crowds nothing out.
OnlyPeersCrowdOut ==
    \A r \in Reader : readers[r].at = "judging" =>
       LET v == readers[r].view
           q == readers[r].query
       IN \A m \in Memory \ readers[r].found : \A c \in Channel :
             CandidateEligible(v, q, m) /\ Matches(v, q, c, m) =>
                \/ Cardinality(ChannelRows(v, q, c) \ {m}) >= ChannelLimit[c]
                \/ c = "dense" /\ Cardinality(Vectored(v, q) \ {m}) >= Shortlist
                \/ Cardinality(readers[r].found) = MaxCandidates

\* Within one recall two memories recorded at the same commit that Git is asked
\* about get the same verdict, whatever happens to the repository meanwhile
\* (cached_git_relation).
OneVerdictPerCommit ==
    \A r \in Reader : \A g, h \in readers[r].hits :
       /\ g.verdict.ctx = h.verdict.ctx
       /\ Versioned(g.row, readers[r].query) /\ Versioned(h.row, readers[r].query)
       /\ {g.verdict.relation, h.verdict.relation} \subseteq GitRelation
       => g.verdict.relation = h.verdict.relation

\* One answer comes from one view of the store and of the repository (recall).
AnswersFromOneView == PackIsOneSnapshot /\ HydrationFindsRevisions /\ OneVerdictPerCommit
=============================================================================
