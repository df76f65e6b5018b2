------------------------------ MODULE Snapshot ------------------------------
(***************************************************************************)
(* Snapshot export and import (engine.rs export_jsonl_to and import_jsonl, *)
(* format 2, snapshot schemas 1 and 2).  The exporter writes one table     *)
(* after another from a single read transaction while other processes      *)
(* change the source store; the file may be torn or lose a row; the        *)
(* importer validates the whole file, then fills an empty target inside    *)
(* one write transaction, table by table, and may die between two of them. *)
(***************************************************************************)
EXTENDS Tables

CONSTANT Versions     \* the snapshot schemas files of the instance have

ASSUME VersionsAssumption == Versions \subseteq {1, 2}
\* None is no store: an export that has no view has not read yet.
ASSUME ViewAssumption == None \notin Store

VARIABLES
    export,   \* the running export, or None: its view and the tables left
    file,     \* the snapshot file, or None
    import,   \* the running import, or None: the tables done and its private copy
    target    \* the target: committed tables, index, and who wrote it

svars == <<vars, export, file, import, target>>

EmptyTarget == [tables |-> NoRows, index |-> [m \in Memory |-> 0], by |-> "nobody"]

\* A file under way has no footer.  The digest of the footer stands for the
\* rows it was computed from.  origin is not in the file: it is the committed
\* store the first read of the export saw.
NewFile(v) == [version |-> v, tables |-> NoRows, digest |-> None, origin |-> None]

----------------------------------------------------------------------------
(* Export *)

\* The header; the deferred transaction has no snapshot before its first read.
BeginExport ==
    /\ file = None /\ 2 \in Versions
    /\ export' = [view |-> None, todo |-> V2Tables]
    /\ file' = NewFile(2)
    /\ UNCHANGED <<vars, import, target>>

\* Mutant: the last table is read in a transaction of its own.
ExportViewRenewed ==
    IF export.view = None \/ Len(export.todo) = 1 THEN db ELSE export.view
ExportView == IF export.view = None THEN db ELSE export.view

ExportTable ==
    /\ export # None /\ export.todo # <<>>
    /\ LET table == Head(export.todo) IN
       /\ export' = [view |-> ExportView, todo |-> Tail(export.todo)]
       /\ file' = [file EXCEPT !.tables[table] = RowsOf(ExportView, table),
                               !.origin = IF @ = None THEN db ELSE @]
    /\ UNCHANGED <<vars, import, target>>

EndExport ==
    /\ export # None /\ export.todo = <<>>
    /\ export' = None
    /\ file' = [file EXCEPT !.digest = file.tables]
    /\ UNCHANGED <<vars, import, target>>

\* The exporter dies; what it wrote stays.
TearExport ==
    /\ export # None
    /\ export' = None
    /\ UNCHANGED <<vars, file, import, target>>

\* A release before schema 4 exported its store: no revision metadata, and
\* links without the revision that made them.
LegacyExport ==
    /\ file = None /\ export = None /\ 1 \in Versions
    /\ LET rows == [t \in TableName |-> IF \E i \in DOMAIN V1Tables : V1Tables[i] = t
                                        THEN RowsOf(db, t) ELSE {}]
       IN file' = [version |-> 1, tables |-> rows, digest |-> rows, origin |-> db]
    /\ UNCHANGED <<vars, export, import, target>>

\* A row of the finished file is lost on the way.
LoseRow ==
    /\ file # None /\ export = None /\ import = None /\ target.by = "nobody"
    /\ file.tables = file.digest
    /\ \E t \in TableName : \E row \in file.tables[t] :
          file' = [file EXCEPT !.tables[t] = @ \ {row}]
    /\ UNCHANGED <<vars, export, import, target>>

----------------------------------------------------------------------------
(* Import *)

\* Header, rows and footer parse, and counts and digest agree.
Intact(f) == f.digest # None /\ f.digest = f.tables

\* Every table of the snapshot has to be empty, which is read under the write
\* lock.
TargetIsEmpty(v) ==
    \A i \in DOMAIN TablesOfVersion(v) : target.tables[TablesOfVersion(v)[i]] = {}

BeginImport ==
    /\ file # None /\ export = None /\ import = None
    /\ Intact(file)
    /\ TargetIsEmpty(file.version)
    /\ import' = [done |-> 0, work |-> target.tables]
    /\ UNCHANGED <<vars, export, file, target>>

\* The order of the tables in the file is the order they are filled in.
ImportOrder(v) == TablesOfVersion(v)

\* The rows of one table; the order of the tables satisfies the foreign keys.
ImportTable ==
    /\ import # None /\ import.done < Len(ImportOrder(file.version))
    /\ LET table == ImportOrder(file.version)[import.done + 1] IN
       import' = [done |-> import.done + 1,
                  work |-> [import.work EXCEPT ![table] = @ \cup file.tables[table]]]
    /\ UNCHANGED <<vars, export, file, target>>

CommitReady == import # None /\ import.done = Len(ImportOrder(file.version))
CommitImport ==
    /\ CommitReady
    /\ LET rows == IF file.version = 1 THEN Backfill(import.work) ELSE import.work
       IN target' = [tables |-> rows, index |-> IndexOf(rows), by |-> "import"]
    /\ import' = None
    /\ UNCHANGED <<vars, export, file>>

\* A failing statement or the death of the importer.
AbortImport ==
    /\ import # None
    /\ import' = None
    /\ UNCHANGED <<vars, export, file, target>>

\* Another client uses the target first.
UseTarget ==
    /\ import = None /\ target.by = "nobody"
    /\ \E call \in ObserveCalls :
          target' = [target EXCEPT !.tables["events"] = {[seq |-> 1, call |-> call]},
                                   !.by = "client"]
    /\ UNCHANGED <<vars, export, file, import>>

----------------------------------------------------------------------------
SInit == Init /\ export = None /\ file = None /\ import = None /\ target = EmptyTarget

\* Bound: once the file is written the source store rests; nothing that
\* follows reads it.
SourceMoves ==
    /\ file = None \/ export # None
    /\ Next
    /\ UNCHANGED <<export, file, import, target>>

SNext ==
    \/ SourceMoves
    \/ BeginExport
    \/ ExportTable
    \/ EndExport
    \/ TearExport
    \/ LegacyExport
    \/ LoseRow
    \/ BeginImport
    \/ ImportTable
    \/ CommitImport
    \/ AbortImport
    \/ UseTarget

SSpec == SInit /\ [][SNext]_svars
----------------------------------------------------------------------------
(* Properties *)

Restored == target.by = "import"
RestoredStore == StoreOf(target.tables, target.index)

\* A restored target is, table by table and with its rebuilt index, the
\* committed store the export's one read transaction saw, whatever was
\* committed while the file was written; a torn or damaged file restores
\* nothing, an interrupted import leaves no table behind, and a target somebody
\* uses is not imported into (export_jsonl_to, import_jsonl).
RestoredExactly ==
    IF Restored
    THEN file.version = 2 =>
            /\ target.tables = AllRows(file.origin)
            /\ target.index = file.origin.index
    ELSE target.index = EmptyTarget.index /\
         (target.by = "nobody" => target.tables = NoRows)

\* What came back of an old snapshot is still a sound store: an inspection
\* finds nothing, whole revision
\* chains, closed scopes, calls executed at most once, an index that covers
\* exactly what is not retracted, and receipts under which every keyed call
\* that had been executed is still recognised (import_jsonl,
\* backfill_revision_provenance, rebuild_all_fts).
RestoredIsSound ==
    Restored =>
       /\ Findings(target.tables) = {}
       /\ RevisionChainOf(RestoredStore)
       /\ ScopeClosedOf(RestoredStore)
       /\ AtMostOnceOf(RestoredStore)
       /\ target.index = file.origin.index
       /\ \A i \in DOMAIN RestoredStore.events :
             RestoredStore.events[i].idem # None => Seen(RestoredStore, RestoredStore.events[i])

\* Metadata reconstructed for a revision is marked complete only if it is what
\* the revision was written with, although heads were contested, superseded or
\* retracted since; and every head nothing happened to keeps complete metadata
\* (metadata_complete in backfill_revision_provenance).
ReconstructionIsHonest ==
    Restored =>
       \A x \in target.tables["memory_revision_metadata"] :
          /\ x.complete =>
                \E r \in RevisionsOf(file.origin, x.mem) :
                   r.num = x.num /\ r.kind = x.kind /\ r.state = x.state /\ r.key = x.key
          /\ x.num = file.origin.heads[x.mem].rev
             /\ HeadRevision(file.origin, x.mem).seq = file.origin.heads[x.mem].updated
             => x.complete

\* Links reconstructed from an old snapshot were made by the very revision
\* they are given to, and the last link of every source, target and relation
\* is among them (the join on recorded_seq in backfill_revision_provenance).
LinksAreAttributed ==
    Restored =>
       /\ target.tables["memory_link_revisions"] \subseteq file.origin.links
       /\ \A l \in file.origin.links :
             \E k \in target.tables["memory_link_revisions"] :
                SameLink(k, l) /\ k.seq >= l.seq

\* No import of an intact file can fail on a reference: at every table the
\* rows it needs are already there (the order of SNAPSHOT_TABLES).
ReferencesAlreadyThere == import # None => ForeignKeysHold(import.work)

\* An import cannot fail on the order of its tables, and what it makes of an old
\* snapshot is sound, honest and attributed (import_jsonl).
ImportIsSound ==
    /\ ReferencesAlreadyThere
    /\ RestoredIsSound
    /\ ReconstructionIsHonest
    /\ LinksAreAttributed
=============================================================================
