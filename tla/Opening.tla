------------------------------ MODULE Opening ------------------------------
(***************************************************************************)
(* Several processes open one database file at the same time (engine.rs    *)
(* from_connection and ensure_search_indexes, schema.rs initialize).  Each *)
(* reads the identity, switches to WAL, takes the write lock, reads the    *)
(* identity again and runs the migrations that are missing, then repairs   *)
(* the lexical index.  A locked database is retried until a deadline.      *)
(* Processes may die anywhere; those that are open write.                  *)
(***************************************************************************)
EXTENDS Schema, Sequences

CONSTANTS
    Process,       \* the processes that open the file
    Left,          \* the versions the file may be found in; -1 a foreign file
    None,
    MaxFaults      \* bound: crashes and failing statements

OpeningAssumption ==
    /\ None \notin Process
    /\ Left \subseteq -1..SchemaVersion + 1
    /\ MaxFaults \in Nat

VARIABLES
    file,      \* the committed database
    lock,      \* the process inside a write transaction, or None
    work,      \* its private copy
    pc,        \* where each process is
    seen,      \* the identity fields a process has read, or None
    expired,   \* the processes whose deadline has passed
    faults

ovars == <<file, lock, work, pc, seen, expired, faults>>

Failure == {"identity", "busy", "exists", "error"}
Waiting == {"identify", "wal", "begin", "repair"}
Step == {"down", "identify", "wal", "begin", "recheck", "migrate", "check",
         "repair", "repairing", "open", "writing"} \cup Failure

----------------------------------------------------------------------------
(* Identity *)

Fields == {"app", "version", "objects"}
\* Mutant: header and schema are read by two statements.
IdentityReadsTwo == <<{"app", "version"}, {"objects"}>>
\* The identity is read by one statement.
IdentityReads == <<Fields>>

Read(p, d) ==
    LET group == IdentityReads[seen[p].reads + 1] IN
    [reads |-> seen[p].reads + 1,
     app |-> IF "app" \in group THEN d.app ELSE seen[p].app,
     version |-> IF "version" \in group THEN d.version ELSE seen[p].version,
     empty |-> IF "objects" \in group THEN d.objects = {} ELSE seen[p].empty]
Unread == [reads |-> 0, app |-> FALSE, version |-> 0, empty |-> TRUE]

\* validate_identity: a file that is not empty and not a store, or a store of
\* a later release.
Refused(i) ==
    \/ (i.version # 0 \/ i.app \/ ~i.empty) /\ ~i.app
    \/ i.version > SchemaVersion
IdentityOf(d) ==
    [reads |-> 1, app |-> d.app, version |-> d.version, empty |-> d.objects = {}]

----------------------------------------------------------------------------
Goto(p, step) == pc' = [pc EXCEPT ![p] = step]

Start(p) ==
    /\ pc[p] = "down"
    /\ Goto(p, "identify")
    /\ seen' = [seen EXCEPT ![p] = Unread]
    /\ expired' = expired \ {p}
    /\ UNCHANGED <<file, lock, work, faults>>

Identify(p) ==
    /\ pc[p] = "identify"
    /\ seen' = [seen EXCEPT ![p] = Read(p, file)]
    /\ Goto(p, IF seen'[p].reads < Len(IdentityReads) THEN "identify"
               ELSE IF Refused(seen'[p]) THEN "identity" ELSE "wal")
    /\ expired' = expired \ {p}
    /\ UNCHANGED <<file, lock, work, faults>>

\* The deadline of the retry loop passes, or SQLite's own busy timeout.
Expire(p) ==
    /\ pc[p] \in Waiting /\ p \notin expired
    /\ expired' = expired \cup {p}
    /\ UNCHANGED <<file, lock, work, pc, seen, faults>>

\* Mutant: a locked database is asked again without end.
OverdueNever(p) == FALSE
Overdue(p) == p \in expired

\* retry_busy: the database is locked and the deadline has passed.  Of a file
\* in WAL mode the identity is read and the mode is asked for under any lock.
GiveUp(p) ==
    /\ pc[p] \in Waiting /\ lock # None
    /\ pc[p] \in {"identify", "wal"} => file.mode # "wal"
    /\ Overdue(p)
    /\ Goto(p, "busy")
    /\ UNCHANGED <<file, lock, work, seen, expired, faults>>

\* PRAGMA journal_mode=WAL needs the file for itself unless it is in WAL.
SwitchToWal(p) ==
    /\ pc[p] = "wal"
    /\ file.mode = "wal" \/ lock = None
    /\ file' = [file EXCEPT !.mode = "wal"]
    /\ Goto(p, "begin")
    /\ expired' = expired \ {p}
    /\ UNCHANGED <<lock, work, seen, faults>>

BeginImmediate(p) ==
    /\ pc[p] = "begin" /\ lock = None
    /\ lock' = p
    /\ work' = file
    /\ Goto(p, "recheck")
    /\ expired' = expired \ {p}
    /\ UNCHANGED <<file, seen, faults>>

AfterRollback == None

\* The identity read inside the transaction.
VersionRead(p) == IdentityOf(work)

Recheck(p) ==
    /\ pc[p] = "recheck"
    /\ seen' = [seen EXCEPT ![p] = VersionRead(p)]
    /\ IF Refused(VersionRead(p))
       THEN Goto(p, "identity") /\ lock' = AfterRollback
       ELSE Goto(p, "migrate") /\ lock' = lock
    /\ UNCHANGED <<file, work, expired, faults>>

\* The next missing migration; seen counts the version the process believes in.
Migrate(p) ==
    /\ pc[p] = "migrate" /\ seen[p].version < SchemaVersion
    /\ LET v == seen[p].version + 1 IN
       IF CanMigrate(work, v)
       THEN /\ work' = Migrated(work, v)
            /\ seen' = [seen EXCEPT ![p].version = v]
            /\ UNCHANGED <<lock, pc>>
       ELSE /\ Goto(p, "exists") /\ lock' = AfterRollback
            /\ UNCHANGED <<work, seen>>
    /\ UNCHANGED <<file, expired, faults>>

\* Mutant: every migration is committed by itself.
MigratedSoFar(p) == seen[p].version > 0
AllMigrated(p) == seen[p].version = SchemaVersion
Commit(p) ==
    /\ pc[p] = "migrate" /\ AllMigrated(p)
    /\ file' = work
    /\ lock' = None
    /\ Goto(p, "check")
    /\ UNCHANGED <<work, seen, expired, faults>>

NeedsRepair(d) == AliasesIncomplete(d)

CheckIndexes(p) ==
    /\ pc[p] = "check"
    /\ Goto(p, IF NeedsRepair(file) THEN "repair" ELSE "open")
    /\ UNCHANGED <<file, lock, work, seen, expired, faults>>

BeginRepair(p) ==
    /\ pc[p] = "repair" /\ lock = None
    /\ lock' = p
    /\ work' = IF AliasesIncomplete(file) THEN Repaired(file) ELSE file
    /\ Goto(p, "repairing")
    /\ expired' = expired \ {p}
    /\ UNCHANGED <<file, seen, faults>>

CommitRepair(p) ==
    /\ pc[p] = "repairing"
    /\ file' = work
    /\ lock' = None
    /\ Goto(p, "open")
    /\ UNCHANGED <<work, seen, expired, faults>>

\* A process that is open records or retracts a memory, with its derived rows.
\* Its transaction may take any time: nothing bounds an import, for one.
BeginWrite(p) ==
    /\ pc[p] = "open" /\ lock = None
    /\ lock' = p
    /\ \E m \in Memory :
          \/ /\ m \notin file.heads
             /\ work' = [file EXCEPT !.heads = @ \cup {m}, !.live = @ \cup {m},
                                     !.fts = @ \cup {m}, !.metadata = @ \cup {m},
                                     !.aliases = @ \cup {m},
                                     !.fingerprints = @ \cup {m}]
          \/ /\ m \in file.live
             /\ work' = [file EXCEPT !.live = @ \ {m}, !.fts = @ \ {m},
                                     !.aliases = @ \ {m}]
    /\ Goto(p, "writing")
    /\ UNCHANGED <<file, seen, expired, faults>>

CommitWrite(p) ==
    /\ pc[p] = "writing"
    /\ file' = work
    /\ lock' = None
    /\ Goto(p, "open")
    /\ UNCHANGED <<work, seen, expired, faults>>

\* A statement of the transaction fails: ROLLBACK.
Fail(p) ==
    /\ lock = p /\ faults < MaxFaults
    /\ lock' = AfterRollback
    /\ Goto(p, "error")
    /\ faults' = faults + 1
    /\ UNCHANGED <<file, work, seen, expired>>

\* The process dies, and may be started again.
Crash(p) ==
    /\ pc[p] \notin {"down"} \cup Failure /\ faults < MaxFaults
    /\ lock' = IF lock = p THEN None ELSE lock
    /\ Goto(p, "down")
    /\ faults' = faults + 1
    /\ UNCHANGED <<file, work, seen, expired>>

\* Another program makes the empty file its own.
Intrude ==
    /\ ~file.app /\ file.objects = {} /\ lock = None /\ faults < MaxFaults
    /\ file' = [Foreign EXCEPT !.mode = file.mode]
    /\ faults' = faults + 1
    /\ UNCHANGED <<lock, work, pc, seen, expired>>

OInit ==
    /\ file \in UNION {IF v = -1 THEN {Foreign} ELSE LeftBehind(v) : v \in Left}
    /\ lock = None
    /\ work = file
    /\ pc = [p \in Process |-> "down"]
    /\ seen = [p \in Process |-> Unread]
    /\ expired = {}
    /\ faults = 0

Progress(p) ==
    \/ Identify(p) \/ SwitchToWal(p) \/ BeginImmediate(p) \/ Recheck(p)
    \/ Migrate(p) \/ Commit(p) \/ CheckIndexes(p) \/ BeginRepair(p)
    \/ CommitRepair(p) \/ GiveUp(p)

ONext ==
    \/ \E p \in Process :
          \/ Start(p) \/ Identify(p) \/ SwitchToWal(p) \/ BeginImmediate(p)
          \/ Recheck(p) \/ Migrate(p) \/ Commit(p) \/ CheckIndexes(p)
          \/ BeginRepair(p) \/ CommitRepair(p) \/ Expire(p) \/ GiveUp(p)
          \/ BeginWrite(p) \/ CommitWrite(p) \/ Fail(p) \/ Crash(p)
    \/ Intrude

\* A process that was started runs on, and time passes.  Nothing says when a
\* writer commits, nor that anyone is ever started.
OFairness == \A p \in Process : WF_ovars(Progress(p)) /\ WF_ovars(Expire(p))
OSpec == OInit /\ [][ONext]_ovars /\ OFairness
----------------------------------------------------------------------------
(* Properties *)

\* Whoever dies, fails or loses the race, the file never holds a half-migrated
\* schema: its objects are exactly those its version number names, which is
\* what inspect_schema_manifest compares, and every derived table that version
\* has covers the rows of the older releases.
VersionNamesSchema ==
    file.app =>
       /\ file.objects = Manifest[file.version]
       /\ file.version >= 4 => file.metadata = file.heads
       /\ file.version >= 6 => file.fingerprints = file.heads

\* A process that is open finds the current schema and every memory that is
\* not retracted in the lexical index with its aliases: neither another
\* opener's migration nor its own early checks leave it a stale file
\* (initialize, ensure_search_indexes).
OpenIsComplete ==
    (\E p \in Process : pc[p] \in {"open", "writing"}) =>
       /\ file.version = SchemaVersion
       /\ file.mode = "wal"
       /\ file.live \subseteq file.fts
       /\ file.live \subseteq file.aliases

\* The race between openers alone fails nobody: a process is refused only
\* because of what the file is, and no migration meets the objects another
\* process created (the second validate_identity, inside the transaction).
NobodyFailsByTheRace ==
    \A p \in Process :
       /\ pc[p] # "exists"
       /\ pc[p] = "identity" => Refused(IdentityOf(file))

\* The file is whole at any moment, and all that is needed once it is open.
FileIsWhole == file \in Database /\ VersionNamesSchema /\ OpenIsComplete

\* Whatever the others do, a process that starts to open the file gets it
\* open or fails, unless it dies (the deadline of retry_busy).
OpeningEnds ==
    \A p \in Process :
       pc[p] = "identify" ~> pc[p] \in {"open", "down"} \cup Failure
=============================================================================
