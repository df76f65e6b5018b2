------------------------------- MODULE Schema -------------------------------
(***************************************************************************)
(* The schema of a super-mem database and its six migrations (schema.rs).  *)
(* A database is its header, its schema objects and, per memory, whether   *)
(* its head is live, and which of the derived rows it has: the lexical     *)
(* index, the metadata of its revision, the alias marker and the           *)
(* fingerprint of its artifact.                                            *)
(***************************************************************************)
EXTENDS Integers, FiniteSets

CONSTANT Memory

SchemaVersion == 6

\* Tables, virtual tables, triggers, and the indexes a later version replaces.
V1 == {"events", "memory_heads", "memory_revisions", "memory_evidence", "memory_tags",
       "entities", "memory_entities", "artifacts", "memory_artifacts", "memory_links",
       "event_memories", "feedback", "idempotency", "memory_fts",
       "memory_heads_canonical", "entities_canonical"}
V4 == {"events_session_scope", "memory_revision_metadata", "memory_link_revisions"}
V5 == {"memory_revisions_error_fingerprint", "memory_heads_search_scope",
       "search_alias_state", "search_profiles", "search_projections"}
V5Triggers == {"search_profiles_immutable", "search_projections_current_insert",
               "search_projections_current_update", "search_projections_vector_insert",
               "search_projections_vector_update"}
V6 == {"search_profile_state", "search_profiles_create_state", "search_expansion_fts",
       "artifact_fingerprints", "memory_link_revisions_target"}
V6Triggers == {"search_projections_expansion_insert", "search_projections_expansion_update",
               "search_projections_expansion_delete"}
V2Indexes == {"memory_entities_lookup", "memory_artifacts_memory_lookup"}

\* What migration v drops before it creates it again with another definition.
Replaced(v) ==
    CASE v = 2 -> {"memory_fts"}
      [] v = 3 -> {"memory_heads_canonical", "entities_canonical"}
      [] v = 5 -> {"memory_fts"}
      [] OTHER -> {}
Added(v) ==
    CASE v = 1 -> V1
      [] v = 2 -> V2Indexes
      [] v = 3 -> {"entities_display_folded"}
      [] v = 4 -> V4
      [] v = 5 -> V5 \cup V5Triggers
      [] v = 6 -> V6 \cup V6Triggers
      [] OTHER -> {"later"}

\* An object is its name and the version whose definition it has.
Named(names, v) == {[name |-> n, def |-> v] : n \in names}
\* What the versions up to v created and none of them replaced.
Manifest ==
    [v \in 0..SchemaVersion + 1 |->
        {o \in UNION {Named(Added(u) \cup Replaced(u), u) : u \in 1..v} :
            \A w \in o.def + 1..v : o.name \notin Replaced(w)}]

Database == [app: BOOLEAN, version: 0..SchemaVersion + 1,
             objects: SUBSET ({[name |-> "foreign", def |-> 0]}
                                \cup Manifest[SchemaVersion + 1]
                                \cup UNION {Manifest[v] : v \in 1..SchemaVersion}),
             mode: {"delete", "wal"},
             heads: SUBSET Memory, live: SUBSET Memory, fts: SUBSET Memory,
             metadata: SUBSET Memory, aliases: SUBSET Memory,
             fingerprints: SUBSET Memory]

\* No CREATE of migration v meets an object of that name.
CanMigrate(d, v) ==
    /\ Replaced(v) \subseteq {o.name : o \in d.objects}
    /\ Added(v) \cap {o.name : o \in d.objects} = {}

Upgraded(d, v) ==
    [d EXCEPT !.app = TRUE, !.version = v,
              !.objects = {o \in @ : o.name \notin Replaced(v)}
                             \cup Named(Added(v) \cup Replaced(v), v)]

\* Migration v.  2 and 5 rebuild the lexical index, 5 without aliases; 4
\* reconstructs revision metadata; 6 fingerprints the artifacts.
Migrated(d, v) ==
    CASE v = 2 -> [Upgraded(d, v) EXCEPT !.fts = d.heads]
      [] v = 4 -> [Upgraded(d, v) EXCEPT !.metadata = d.heads]
      [] v = 5 -> [Upgraded(d, v) EXCEPT !.fts = d.live, !.aliases = {}]
      [] v = 6 -> [Upgraded(d, v) EXCEPT !.fingerprints = d.heads]
      [] OTHER -> Upgraded(d, v)

\* Some head that is not retracted has no current alias marker.
AliasesIncomplete(d) == ~(d.live \subseteq d.aliases)
Repaired(d) == [d EXCEPT !.fts = @ \cup d.live, !.aliases = @ \cup d.live]

\* A database of release v with the heads H, of which L are live, and the
\* alias markers A.
OfRelease(v, H, L, A, mode) ==
    [app |-> v > 0, version |-> v, objects |-> Manifest[v], mode |-> mode,
     heads |-> H, live |-> L, fts |-> L, metadata |-> IF v >= 4 THEN H ELSE {},
     aliases |-> IF v >= 5 THEN A \cap L ELSE {},
     fingerprints |-> IF v >= 6 THEN H ELSE {}]

\* Databases a release of schema v left behind; 0 is an empty file.  Markers
\* may be missing: aliases of an older algorithm, or of a database just
\* migrated by a process that died before it repaired them.
LeftBehind(v) ==
    IF v = 0 THEN {OfRelease(v, {}, {}, {}, "delete")}
    ELSE {OfRelease(v, x[1], x[2], A, mode) :
            x \in {y \in (SUBSET Memory) \X (SUBSET Memory) : y[2] \subseteq y[1]},
            A \in SUBSET Memory, mode \in {"delete", "wal"}}

Foreign ==
    [app |-> FALSE, version |-> 0, objects |-> {[name |-> "foreign", def |-> 0]},
     mode |-> "delete", heads |-> {}, live |-> {}, fts |-> {}, metadata |-> {},
     aliases |-> {}, fingerprints |-> {}]
=============================================================================
