------------------------------- MODULE Tables -------------------------------
(***************************************************************************)
(* The canonical tables a store is kept in, as far as MemoryStore models   *)
(* it: what one snapshot line or one SQL row is, the foreign keys between  *)
(* them, the derived lexical index, and the two tables schema 4 and        *)
(* snapshot version 2 added with the statements that reconstruct them from *)
(* older data (engine.rs backfill_revision_provenance, schema.rs           *)
(* migrate_v4).                                                            *)
(***************************************************************************)
EXTENDS MemoryStore

V1Tables == <<"events", "memory_heads", "memory_revisions", "memory_evidence",
              "memory_links", "event_memories", "idempotency">>
V2Tables == V1Tables \o <<"memory_revision_metadata", "memory_link_revisions">>
TableName == {V2Tables[i] : i \in DOMAIN V2Tables}
TablesOfVersion(v) == IF v = 1 THEN V1Tables ELSE V2Tables

SameLink(k, l) == k.src = l.src /\ k.dst = l.dst /\ k.rel = l.rel
\* memory_links keeps one row of a source, target and relation: the upsert
\* moves it to the event that linked them last.
LatestLinks(d) ==
    {[src |-> l.src, dst |-> l.dst, rel |-> l.rel, seq |-> l.seq] :
        l \in {k \in d.links : \A j \in d.links : SameLink(j, k) => j.seq <= k.seq}}

\* The rows of store d.
RowsOf(d, table) ==
    CASE table = "events" -> {[seq |-> i, call |-> d.events[i]] : i \in DOMAIN d.events}
      [] table = "memory_heads" ->
            {[mem |-> m, head |-> d.heads[m]] : m \in {x \in Memory : Exists(d, x)}}
      [] table = "memory_revisions" ->
            {[mem |-> r.mem, num |-> r.num, body |-> r.body, seq |-> r.seq,
              retired |-> r.retired] : r \in d.revisions}
      [] table = "memory_evidence" ->
            UNION {{[mem |-> r.mem, num |-> r.num, event |-> e] : e \in r.evidence}
                     : r \in d.revisions}
      [] table = "memory_links" -> LatestLinks(d)
      [] table = "event_memories" -> d.touched
      [] table = "idempotency" -> d.receipts
      [] table = "memory_revision_metadata" ->
            {[mem |-> r.mem, num |-> r.num, kind |-> r.kind, state |-> r.state,
              key |-> r.key, complete |-> TRUE] : r \in d.revisions}
      [] table = "memory_link_revisions" -> d.links

AllRows(d) == [t \in TableName |-> RowsOf(d, t)]
NoRows == [t \in TableName |-> {}]

\* The foreign keys of the schema; SQLite checks them row by row.
ForeignKeysHold(t) ==
    LET seqs == {e.seq : e \in t["events"]}
        heads == {h.mem : h \in t["memory_heads"]}
        revisions == {<<r.mem, r.num>> : r \in t["memory_revisions"]}
    IN /\ \A h \in t["memory_heads"] : h.head.updated \in seqs
       /\ \A r \in t["memory_revisions"] : r.mem \in heads /\ r.seq \in seqs
       /\ \A e \in t["memory_evidence"] : <<e.mem, e.num>> \in revisions /\ e.event \in seqs
       /\ \A l \in t["memory_links"] : {l.src, l.dst} \subseteq heads /\ l.seq \in seqs
       /\ \A u \in t["event_memories"] : u[1] \in seqs /\ u[2] \in heads
       /\ \A r \in t["memory_revision_metadata"] : <<r.mem, r.num>> \in revisions
       /\ \A l \in t["memory_link_revisions"] :
             <<l.src, l.srcRev>> \in revisions /\ l.dst \in heads /\ l.seq \in seqs

\* Mutant: a row of the head revision counts as complete, whatever happened to
\* the head since.
CompleteIfHead(r, h) == r.num = h.rev
\* The head still says what the revision was written with: it is the head's
\* and nothing was recorded on the head since.
Complete(r, h) == r.num = h.rev /\ r.seq = h.updated

\* The revisions of the source the linking event recorded.
LinkSources(t, l) ==
    {r.num : r \in {x \in t["memory_revisions"] : x.mem = l.src /\ x.seq = l.seq}}

\* The tables of schema 4, reconstructed from heads and current links.
Backfill(t) ==
    [t EXCEPT
       !["memory_revision_metadata"] =
          UNION {{[mem |-> r.mem, num |-> r.num, kind |-> h.head.kind,
                   state |-> h.head.state, key |-> h.head.key,
                   complete |-> Complete(r, h.head)] :
                     h \in {x \in t["memory_heads"] : x.mem = r.mem}} :
                 r \in t["memory_revisions"]},
       !["memory_link_revisions"] =
          UNION {{[src |-> l.src, srcRev |-> n, dst |-> l.dst, rel |-> l.rel,
                   seq |-> l.seq] : n \in LinkSources(t, l)} : l \in t["memory_links"]}]

\* rebuild_all_fts: the head revision of every memory that is not retracted.
IndexOf(t) ==
    [m \in Memory |->
       IF \E h \in t["memory_heads"] : h.mem = m /\ h.head.state # "retracted"
       THEN (CHOOSE h \in t["memory_heads"] : h.mem = m).head.rev
       ELSE 0]

\* What the inspection of a database reports as damage no foreign key shows:
\* heads whose revision is missing or not the latest, revisions without
\* metadata.
Findings(t) ==
    {h.mem : h \in {x \in t["memory_heads"] :
        \/ ~\E r \in t["memory_revisions"] : r.mem = x.mem /\ r.num = x.head.rev
        \/ \E r \in t["memory_revisions"] : r.mem = x.mem /\ r.num > x.head.rev}}
    \cup {r.mem : r \in {x \in t["memory_revisions"] :
        ~\E m \in t["memory_revision_metadata"] : m.mem = x.mem /\ m.num = x.num}}

\* The store these tables and this index hold.
StoreOf(t, index) ==
    [events |-> [i \in 1..Cardinality(t["events"]) |->
                   (CHOOSE e \in t["events"] : e.seq = i).call],
     heads |-> [m \in Memory |->
                  IF \E h \in t["memory_heads"] : h.mem = m
                  THEN (CHOOSE h \in t["memory_heads"] : h.mem = m).head ELSE None],
     revisions |->
        {LET r == CHOOSE r \in t["memory_revisions"] : r.mem = x.mem /\ r.num = x.num
         IN [mem |-> r.mem, num |-> r.num, kind |-> x.kind, state |-> x.state,
             key |-> x.key, body |-> r.body, seq |-> r.seq, retired |-> r.retired,
             evidence |-> {e.event : e \in {y \in t["memory_evidence"] :
                                               y.mem = r.mem /\ y.num = r.num}}]
           : x \in t["memory_revision_metadata"]},
     links |-> t["memory_link_revisions"],
     touched |-> t["event_memories"],
     index |-> index,
     receipts |-> t["idempotency"]]
=============================================================================
