-------------------------- MODULE SearchProjections --------------------------
(***************************************************************************)
(* Search profiles and their projections (engine.rs, triggers of schema.rs *)
(* migrate_v5 and migrate_v6) over the store of MemoryStore.  Workers      *)
(* outside the store list the documents a profile has no projection for,   *)
(* compute expansions and vectors without any lock, and register them in a *)
(* later call, which itself reads the profile, unlocks, encodes and then   *)
(* writes.  Clients revise and retract the memories meanwhile, and         *)
(* operators register, disable and remove profiles.                        *)
(*                                                                         *)
(* A title and body are a Body of MemoryStore, which also stands for their *)
(* content hash; a vector is its number of components.                     *)
(***************************************************************************)
EXTENDS MemoryStore

CONSTANTS
    Profile,     \* profile identifiers
    Digest,      \* model digests
    Dimension,   \* vector dimensions
    Text,        \* expansion texts
    Worker,      \* enrichment workers
    Limit,       \* documents listed per call
    MaxAdmin     \* bound: operator steps and worker deaths

ASSUME SearchAssumption ==
    /\ None \notin Profile \cup Digest \cup Dimension \cup Text
    /\ Limit \in Nat \ {0}
    /\ MaxAdmin \in Nat

Settings == [digest: Digest, dims: Dimension \cup {None}]
ProfileRow == [settings: Settings, active: BOOLEAN]
Document == [mem: Memory, rev: 1..MaxRevision, hash: Body]
\* made: the settings the registering call had loaded; not a column.
Projection == [rev: 1..MaxRevision, hash: Body, expansion: Text \cup {None},
               vector: Dimension \cup {None}, made: Settings]
NoWork == [at |-> "idle", profile |-> None, docs |-> {}, loaded |-> None]

\* None is not a row.
ASSUME NoRowAssumption == None \notin ProfileRow \cup Projection

VARIABLES
    profiles,      \* search_profiles with search_profile_state
    projections,   \* search_projections by profile and memory
    expansions,    \* search_expansion_fts, by the projection that owns the row
    workers,
    admin          \* operator steps and worker deaths so far

searchVars == <<profiles, projections, expansions, workers, admin>>
allVars == <<vars, searchVars>>

----------------------------------------------------------------------------
(* What a profile covers *)

Eligible(s) == {m \in Memory : /\ Exists(db, m) /\ db.heads[m].scope = s
                               /\ db.heads[m].state # "retracted"}
Current(m) == [mem |-> m, rev |-> db.heads[m].rev, hash |-> HeadRevision(db, m).body]
Describes(row, doc) == row # None /\ row.rev = doc.rev /\ row.hash = doc.hash
\* A dense profile is not content with a projection that has no vector.
Complete(p, row) == profiles[p].settings.dims = None \/ row.vector # None

Indexed(p, s) == {m \in Eligible(s) : /\ Describes(projections[p][m], Current(m))
                                      /\ Complete(p, projections[p][m])}
\* The documents a listing offers before its limit.
Pending(p, s) == {m \in Eligible(s) : \/ ~Describes(projections[p][m], Current(m))
                                      \/ ~Complete(p, projections[p][m])}
Stale(p, s) == {m \in Memory : /\ projections[p][m] # None /\ db.heads[m].scope = s
                               /\ \/ db.heads[m].state = "retracted"
                                  \/ ~Describes(projections[p][m], Current(m))
                                  \/ ~Complete(p, projections[p][m])}
\* Mutant: the limit counts covered documents too.
ListingsOfHeads(p, s) ==
    {L \cap Pending(p, s) : L \in {K \in SUBSET Eligible(s) :
        /\ Cardinality(K) <= Limit
        /\ \A m \in K, n \in Eligible(s) \ K : db.heads[m].updated <= db.heads[n].updated}} \ {{}}
\* ORDER BY updated_seq, memory_id LIMIT n: one event may update several heads.
Listings(p, s) ==
    {L \in SUBSET Pending(p, s) :
        /\ L # {}
        /\ (Cardinality(L) = Limit \/ (L = Pending(p, s) /\ Cardinality(L) < Limit))
        /\ \A m \in L, n \in Pending(p, s) \ L : db.heads[m].updated <= db.heads[n].updated}

----------------------------------------------------------------------------
(* Profiles *)

Administer == txn = None /\ admin < MaxAdmin /\ admin' = admin + 1

\* The trigger search_profiles_create_state activates the new profile.  An
\* existing one is returned or refused, and is no step either way.
RegisterProfile(p, settings) ==
    /\ Administer
    /\ profiles[p] = None
    /\ profiles' = [profiles EXCEPT ![p] = [settings |-> settings, active |-> TRUE]]
    /\ UNCHANGED <<vars, projections, expansions, workers>>

SetProfileActive(p, active) ==
    /\ Administer
    /\ profiles[p] # None
    /\ profiles' = [profiles EXCEPT ![p].active = active]
    /\ UNCHANGED <<vars, projections, expansions, workers>>

\* ON DELETE CASCADE to the projections, whose trigger deletes their FTS rows.
RemoveProfile(p) ==
    /\ Administer
    /\ profiles[p] # None
    /\ profiles' = [profiles EXCEPT ![p] = None]
    /\ projections' = [projections EXCEPT ![p] = [m \in Memory |-> None]]
    /\ expansions' = [expansions EXCEPT ![p] = [m \in Memory |-> None]]
    /\ UNCHANGED <<vars, workers>>

----------------------------------------------------------------------------
(* Workers *)

ListPending(w, p, s) ==
    /\ workers[w].at = "idle"
    /\ profiles[p] # None
    /\ \E L \in Listings(p, s) :
          workers' = [workers EXCEPT ![w] =
              [at |-> "working", profile |-> p, docs |-> {Current(m) : m \in L},
               loaded |-> None]]
    /\ UNCHANGED <<vars, profiles, projections, expansions, admin>>

\* The call register_search_projections: the profile is read and the lock given
\* up again.
LoadProfile(w) ==
    /\ workers[w].at = "working"
    /\ LET profile == profiles[workers[w].profile] IN
       workers' = IF profile = None THEN [workers EXCEPT ![w] = NoWork]
                  ELSE [workers EXCEPT ![w].at = "calling",
                                       ![w].loaded = profile.settings]
    /\ UNCHANGED <<vars, profiles, projections, expansions, admin>>

\* Mutant: only the profile's existence is looked up again.
StillRegistered(w) == profiles[workers[w].profile] # None
SameSettings(w) ==
    /\ profiles[workers[w].profile] # None
    /\ profiles[workers[w].profile].settings = workers[w].loaded
IsCurrent(d) ==
    /\ Exists(db, d.mem)
    /\ db.heads[d.mem].state # "retracted"
    /\ Current(d.mem) = d
SameBytes(row, new) ==
    Describes(row, [rev |-> new.rev, hash |-> new.hash])
        => row.expansion = new.expansion /\ row.vector = new.vector
\* The FTS row of a projection after INSERT or UPDATE.
Reindexed(old, new) == new.expansion

\* The rows a worker has prepared, by memory: any text, and a vector as the
\* profile it loaded requires.
Prepared(w) ==
    LET row(d, text) == [rev |-> d.rev, hash |-> d.hash, expansion |-> text,
                         vector |-> workers[w].loaded.dims, made |-> workers[w].loaded]
        document(m) == CHOOSE d \in workers[w].docs : d.mem = m
        mems == {d.mem : d \in workers[w].docs}
    IN {[m \in mems |-> row(document(m), text[m])] : text \in [mems -> Text \cup {None}]}

\* The transaction: all rows or none.
RegisterProjections(w) ==
    LET p == workers[w].profile IN
    /\ workers[w].at = "calling"
    /\ txn = None
    /\ \E new \in Prepared(w) :
          IF /\ SameSettings(w)
             /\ \A d \in workers[w].docs :
                   IsCurrent(d) /\ SameBytes(projections[p][d.mem], new[d.mem])
          THEN /\ projections' = [projections EXCEPT ![p] =
                     [m \in Memory |-> IF m \in DOMAIN new THEN new[m] ELSE @[m]]]
               /\ expansions' = [expansions EXCEPT ![p] =
                     [m \in Memory |-> IF m \in DOMAIN new THEN Reindexed(@[m], new[m])
                                       ELSE @[m]]]
          ELSE UNCHANGED <<projections, expansions>>
    /\ workers' = [workers EXCEPT ![w] = NoWork]
    /\ UNCHANGED <<vars, profiles, admin>>

\* The worker dies, or has nothing valid to send.
Abandon(w) ==
    /\ workers[w].at # "idle"
    /\ admin < MaxAdmin
    /\ admin' = admin + 1
    /\ workers' = [workers EXCEPT ![w] = NoWork]
    /\ UNCHANGED <<vars, profiles, projections, expansions>>

----------------------------------------------------------------------------
(* The store beside them *)

Revise(call) ==
    /\ Remember(call)
    /\ UNCHANGED searchVars

\* retract also deletes the projections of the memory.
RetractDocument(call) ==
    /\ Retract(call)
    /\ projections' = [p \in Profile |-> [projections[p] EXCEPT ![call.id] = None]]
    /\ expansions' = [p \in Profile |-> [expansions[p] EXCEPT ![call.id] = None]]
    /\ UNCHANGED <<profiles, workers, admin>>

\* rebuild_search_indexes: FTS rows and alias markers from canonical rows and
\* the registered projections.
RebuiltIndex == [m \in Memory |-> IF Exists(db, m) /\ db.heads[m].state # "retracted"
                                  THEN db.heads[m].rev ELSE 0]
RebuiltExpansions ==
    [p \in Profile |-> [m \in Memory |->
        IF projections[p][m] = None THEN None ELSE projections[p][m].expansion]]
RebuildIndexes ==
    /\ Administer
    /\ db' = [db EXCEPT !.index = RebuiltIndex]
    /\ expansions' = RebuiltExpansions
    /\ UNCHANGED <<txn, profiles, projections, workers>>

SInit ==
    /\ Init
    /\ profiles = [p \in Profile |-> None]
    /\ projections = [p \in Profile |-> [m \in Memory |-> None]]
    /\ expansions = [p \in Profile |-> [m \in Memory |-> None]]
    /\ workers = [w \in Worker |-> NoWork]
    /\ admin = 0

WorkerStep(w) ==
    \/ \E p \in Profile, s \in Scope : ListPending(w, p, s)
    \/ LoadProfile(w)
    \/ RegisterProjections(w)

SNext ==
    \/ \E call \in RememberCalls : Revise(call)
    \/ \E call \in RetractCalls : RetractDocument(call)
    \/ \E p \in Profile : \/ \E settings \in Settings : RegisterProfile(p, settings)
                          \/ \E active \in BOOLEAN : SetProfileActive(p, active)
                          \/ RemoveProfile(p)
    \/ \E w \in Worker : WorkerStep(w) \/ Abandon(w)
    \/ RebuildIndexes

SSpec == SInit /\ [][SNext]_allVars

\* A worker that has something to do goes on: it polls for pending documents,
\* and a call into the engine ends.
SFairness == \A w \in Worker : WF_allVars(WorkerStep(w))
----------------------------------------------------------------------------
(* Properties *)

\* A projection belongs to a profile and to a revision of a memory that is not
\* retracted, and holds what was computed from that revision under the settings
\* the profile has, however long its worker took and whatever happened to
\* memory and profile meanwhile (the compare-and-swap of
\* register_search_projections and the triggers of migrate_v5).
ProjectionsAreTrue ==
    \A p \in Profile, m \in Memory :
       LET row == projections[p][m] IN
       row # None =>
          /\ profiles[p] # None /\ row.made = profiles[p].settings
          /\ row.vector = profiles[p].settings.dims
          /\ Exists(db, m) /\ db.heads[m].state # "retracted"
          /\ \E r \in RevisionsOf(db, m) : r.num = row.rev /\ r.body = row.hash

\* Rebuilding the derived indexes never changes them: the lexical index and the
\* expansion index are at any time what rebuild_search_indexes would make of
\* the canonical rows (rebuild_fts, retract and the three expansion triggers).
IndexesAreDerived == db.index = RebuiltIndex /\ expansions = RebuiltExpansions

\* Every eligible memory is indexed or pending, and what is stale is pending:
\* a scope whose status reports nothing pending serves no stale projection
\* (search_index_status against pending_search_documents).
StatusAddsUp ==
    \A p \in Profile, s \in Scope : profiles[p] # None =>
       /\ Pending(p, s) = Eligible(s) \ Indexed(p, s)
       /\ Stale(p, s) \subseteq Pending(p, s)

\* The rows of profiles and projections, and what workers hold.
SearchTypes ==
    /\ profiles \in [Profile -> ProfileRow \cup {None}]
    /\ projections \in [Profile -> [Memory -> Projection \cup {None}]]
    /\ expansions \in [Profile -> [Memory -> Text \cup {None}]]
    /\ \A w \in Worker : workers[w].docs \subseteq Document

\* Search never lies: projections are true, indexes derivable, and what is not
\* up to date is pending (search_index_status).
SearchIsSound == SearchTypes /\ ProjectionsAreTrue /\ IndexesAreDerived /\ StatusAddsUp

\* When the memories and profiles stop changing and workers stop dying, every
\* profile is covered in the end: conflicts between workers do not starve a
\* document, and a listing limit does not hide one.
EventuallyCovered ==
    <>[](\A p \in Profile, s \in Scope : profiles[p] # None => Pending(p, s) = {})
=============================================================================
