------------------------------ MODULE MCFiles ------------------------------
(***************************************************************************)
(* The operations on whole database files, one kind in each behaviour:     *)
(* snapshots of this release and of older ones, processes that open and    *)
(* migrate one file, and the inspection of a file in use.                  *)
(***************************************************************************)
EXTENDS Snapshot, TLC

CONSTANTS
    Process, Left, MaxFaults, Held,   \* Opening; Held is its Memory
    Client, MaxCommits                \* Inspection

VARIABLES
    part,
    \* Opening
    database, lock, work, pc, seen, expired, faults,
    \* Inspection
    path, header, pages, committed, wal, journal, client, checkpoint, insp

Open == INSTANCE Opening WITH file <- database, Memory <- Held
Look == INSTANCE Inspection WITH target <- checkpoint

ASSUME OpeningAssumption == Open!OpeningAssumption
ASSUME InspectionAssumption == Look!InspectionAssumption

openVars == <<database, lock, work, pc, seen, expired, faults>>
lookVars == <<path, header, pages, committed, wal, journal, client, checkpoint, insp>>

\* A foreign file, an empty one, the six releases and a later one.
AllReleases == -1..7
Symmetry == Permutations(Memory)

\* A keyed decision twice: two revisions of one memory link the episode in one
\* event.
KeyedTwice ==
    LET keyed == [kind |-> "decision", key |-> CHOOSE k \in Key : TRUE]
    IN {<<>>, <<keyed, keyed>>}

\* Snapshots of this release: revisions, links and retractions of two memories;
\* of an older one: keyed calls, checkpoints and contests of three.
Current ==
    /\ SNext
    /\ Cardinality({m \in Memory : Exists(db', m)}) <= 2
    /\ \A i \in DOMAIN db'.events :
          /\ db'.events[i].op \in {"remember", "retract"} /\ db'.events[i].idem = None
          /\ \A l \in db'.links : l.rel = "supersedes"
    /\ file' # None => file'.version = 2
Old ==
    /\ SNext
    /\ Len(db'.events) <= 3
    /\ file' # None => file'.version = 1

NoOpening == /\ database = None /\ lock = None /\ work = None /\ pc = <<>> /\ seen = <<>>
             /\ expired = {} /\ faults = 0
NoInspection == /\ path = "A" /\ header = "delete" /\ pages = <<0, 0>> /\ committed = 0
                /\ wal = FALSE /\ journal = FALSE /\ checkpoint = 0 /\ client = <<>>
                /\ insp = Look!Idle

FilesInit ==
    /\ SInit
    /\ \/ part \in {"current", "old"} /\ NoOpening /\ NoInspection
       \/ part = "opening" /\ Open!OInit /\ NoInspection
       \/ part = "inspection" /\ NoOpening /\ Look!IInit
FilesNext ==
    /\ UNCHANGED part
    /\ \/ (part = "current" /\ Current) /\ UNCHANGED <<openVars, lookVars>>
       \/ (part = "old" /\ Old) /\ UNCHANGED <<openVars, lookVars>>
       \/ part = "opening" /\ Open!ONext /\ UNCHANGED <<svars, lookVars>>
       \/ part = "inspection" /\ Look!INext /\ UNCHANGED <<svars, openVars>>
FilesSpec == FilesInit /\ [][FilesNext]_<<part, svars, openVars, lookVars>>
----------------------------------------------------------------------------
(* Properties *)

\* FileIsWhole of Opening (schema.rs initialize, ensure_search_indexes).
FileIsWhole == part = "opening" => Open!FileIsWhole
\* NobodyFailsByTheRace of Opening (schema.rs validate_identity).
NobodyFailsByTheRace == part = "opening" => Open!NobodyFailsByTheRace
\* ReportIsTrue of Inspection (schema.rs inspect_database_at_identity).
ReportIsTrue == Look!ReportIsTrue
=============================================================================
