----------------------------- MODULE Inspection -----------------------------
(***************************************************************************)
(* The observational inspection of a database (schema.rs                   *)
(* inspect_database_at_identity and the Unix snapshot guard): the file of  *)
(* an earlier preflight is opened again, its sidecars are looked for, its  *)
(* SQLite byte locks are taken, it is copied page by page, and sidecars    *)
(* and identity are looked at again; only the copy is ever read.           *)
(*                                                                         *)
(* Meanwhile clients use the file through SQLite, in rollback-journal or   *)
(* in WAL mode, switch it to WAL, die, remove the file or move it away     *)
(* with its sidecars, and put another one under its path.  A page holds    *)
(* the number of the commit that wrote it; the file has two, so a copy is  *)
(* of one commit iff they agree.  A change of the modification time is not *)
(* relied on: writes within one clock tick leave it as it was.             *)
(***************************************************************************)
EXTENDS Integers, FiniteSets

CONSTANTS
    Client,        \* processes that use the database
    MaxCommits     \* bound: commits

InspectionAssumption == MaxCommits \in Nat

VARIABLES
    path,        \* "A" while the path names the file A, then that it names B
                 \* because A was removed ("B") or moved away ("C")
    header,      \* the journal mode in the header of A
    pages,       \* the two pages of A
    committed,   \* the last commit to A
    wal,         \* the path has a -wal file
    journal,     \* the path has a -journal file
    client,      \* what each client holds
    target,      \* the commit a checkpoint of the WAL copies, or 0
    insp         \* the inspection

world == <<path, header, pages, committed, wal, journal, client, target>>
ivars == <<world, insp>>

Named == IF path = "A" THEN "A" ELSE "B"

Holding(states) == {c \in Client : client[c] \in states}
\* RESERVED, PENDING and EXCLUSIVE locks, and SHARED locks of WAL connections.
Reserving == Holding({"reserved", "journal", "pending", "exclusive", "half"})
Pending == Holding({"pending", "exclusive", "half"})
Exclusive == Holding({"exclusive", "half"})
Connected == Holding({"wal"})

----------------------------------------------------------------------------
(* The inspection *)

\* asof and writers are not in the code: the last commit, and who was writing,
\* when the sidecars were looked for again.
Idle == [at |-> "idle", expected |-> "A", pinned |-> "A", uses |-> "delete",
         pending |-> FALSE, shared |-> FALSE, reserved |-> FALSE,
         available |-> FALSE, copy |-> <<0, 0>>, asof |-> 0, writers |-> {}]

\* Drop of the guard: every lock is given back.
Released(i) == [i EXCEPT !.pending = FALSE, !.shared = FALSE, !.reserved = FALSE]

Refuse == insp' = [Released(insp) EXCEPT !.at = "failed"] /\ UNCHANGED world
Advance(i, at) == insp' = [i EXCEPT !.at = at] /\ UNCHANGED world

\* The caller's own look at the file.
Preflight ==
    /\ insp.at = "idle"
    /\ Advance([insp EXCEPT !.expected = Named], "identity")

CheckIdentity ==
    /\ insp.at = "identity"
    /\ IF Named = insp.expected THEN Advance(insp, "pin") ELSE Refuse

PinsExpected(found) == found = insp.expected
Pin ==
    /\ insp.at = "pin"
    /\ IF PinsExpected(Named) THEN Advance([insp EXCEPT !.pinned = Named], "sidecars")
       ELSE Refuse

\* A WAL or a journal beside the path: its content is not in the file alone.
Blocked == wal \/ journal
LookForSidecars ==
    /\ insp.at = "sidecars"
    /\ IF Blocked THEN Refuse ELSE Advance(insp, "header")

ReadHeader ==
    /\ insp.at = "header"
    /\ Advance([insp EXCEPT !.uses = IF insp.pinned = "A" THEN header ELSE "wal"], "lock")

\* The file is opened once more under its name, to write: if that succeeds it
\* must be the pinned one.  A shared lock is taken under the pending byte, as
\* SQLite takes its own.
LockPending ==
    /\ insp.at = "lock"
    /\ \/ Named # insp.pinned /\ Refuse
       \/ IF insp.pinned = "A" /\ Pending # {} THEN Refuse
          ELSE \E writable \in BOOLEAN :
                  /\ writable => Named = insp.pinned
                  /\ Advance([insp EXCEPT !.pending = TRUE, !.available = writable], "shared")

SharedTaken == TRUE
LockShared ==
    /\ insp.at = "shared"
    /\ IF insp.pinned = "A" /\ Exclusive # {} THEN Refuse
       ELSE Advance([insp EXCEPT !.pending = FALSE, !.shared = SharedTaken], "reserve")

WriterLockFree == insp.pinned = "B" \/ Reserving = {}
\* The writer lock is asked for where the file and its directory may be
\* written, and in rollback mode is RESERVED.
Reserve ==
    /\ insp.at = "reserve"
    /\ LET reserved == insp.available /\ insp.uses = "delete" /\ WriterLockFree
       IN Advance([insp EXCEPT !.reserved = reserved,
                               !.available = insp.available /\ (insp.uses = "wal" \/ reserved)],
                  "copy1")

Page(n) == IF insp.pinned = "A" THEN pages[n] ELSE 0
CopyFirst == insp.at = "copy1" /\ Advance([insp EXCEPT !.copy[1] = Page(1)], "copy2")
CopySecond == insp.at = "copy2" /\ Advance([insp EXCEPT !.copy[2] = Page(2)], "again")

\* The five seconds an inspection may take are over.
Deadline == insp.at \in {"copy1", "copy2", "again"} /\ Refuse

\* Mutant: the sidecars are not looked for again.
BlockedOnce == FALSE
StillBlocked == Blocked
LookAgain ==
    /\ insp.at = "again"
    /\ IF StillBlocked THEN Refuse
       ELSE Advance([insp EXCEPT
                       !.asof = IF insp.pinned = "A" THEN committed ELSE 0,
                       !.writers = IF insp.pinned = "A" THEN Reserving \cup Connected ELSE {}],
                    "read")

\* The opened file is looked at, not the path: its links are part of its
\* identity and show that it was removed, not that it was moved away.
SameFile == insp.pinned = "A" => path # "B"
Finish ==
    /\ insp.at = "read"
    /\ IF SameFile
       THEN insp' = [Released(insp) EXCEPT !.at = "done"] /\ UNCHANGED world
       ELSE Refuse

Inspect ==
    \/ CheckIdentity \/ Pin \/ LookForSidecars \/ ReadHeader \/ LockPending
    \/ LockShared \/ Reserve \/ CopyFirst \/ CopySecond \/ LookAgain \/ Finish

----------------------------------------------------------------------------
(* Clients of the file, through SQLite *)

Becomes(c, state) == client' = [client EXCEPT ![c] = state]

\* Rollback mode: RESERVED, the journal, PENDING, EXCLUSIVE, the pages.
BeginWrite(c) ==
    /\ client[c] = "none" /\ path = "A" /\ header = "delete"
    /\ Reserving = {} /\ ~insp.reserved /\ ~journal /\ committed < MaxCommits
    /\ Becomes(c, "reserved")
    /\ UNCHANGED <<path, header, pages, committed, wal, journal, target, insp>>
OpenJournal(c) ==
    /\ client[c] = "reserved"
    /\ journal' = (path = "A")
    /\ Becomes(c, "journal")
    /\ UNCHANGED <<path, header, pages, committed, wal, target, insp>>
TakePending(c) ==
    /\ client[c] = "journal" /\ ~insp.pending
    /\ Becomes(c, "pending")
    /\ UNCHANGED <<path, header, pages, committed, wal, journal, target, insp>>
TakeExclusive(c) ==
    /\ client[c] = "pending" /\ ~insp.shared
    /\ Becomes(c, "exclusive")
    /\ UNCHANGED <<path, header, pages, committed, wal, journal, target, insp>>
WriteFirst(c) ==
    /\ client[c] = "exclusive"
    /\ pages' = [pages EXCEPT ![1] = committed + 1]
    /\ Becomes(c, "half")
    /\ UNCHANGED <<path, header, committed, wal, journal, target, insp>>
WriteSecond(c) ==
    /\ client[c] = "half"
    /\ pages' = [pages EXCEPT ![2] = committed + 1]
    /\ committed' = committed + 1
    /\ journal' = FALSE
    /\ Becomes(c, "none")
    /\ UNCHANGED <<path, header, wal, target, insp>>
\* A journal nobody holds is rolled back by the next client.
Recover(c) ==
    /\ client[c] = "none" /\ path = "A" /\ journal /\ Reserving = {} /\ ~insp.shared
    /\ ~insp.reserved
    /\ pages' = <<committed, committed>>
    /\ journal' = FALSE
    /\ UNCHANGED <<path, header, committed, wal, client, target, insp>>
SwitchToWal(c) ==
    /\ client[c] = "none" /\ path = "A" /\ header = "delete"
    /\ Reserving = {} /\ ~insp.shared /\ ~insp.reserved /\ ~journal
    /\ header' = "wal"
    /\ UNCHANGED <<path, pages, committed, wal, journal, client, target, insp>>

\* WAL mode: commits go to the WAL; a checkpoint copies them page by page while
\* others read; the last connection to close checkpoints and removes the WAL,
\* if it can lock the file exclusively.
Connect(c) ==
    /\ client[c] = "none" /\ path = "A" /\ header = "wal"
    /\ Becomes(c, "wal")
    /\ wal' = TRUE
    /\ UNCHANGED <<path, header, pages, committed, journal, target, insp>>
CommitToWal(c) ==
    /\ client[c] = "wal" /\ committed < MaxCommits
    /\ committed' = committed + 1
    /\ UNCHANGED <<path, header, pages, wal, journal, client, target, insp>>
CheckpointFirst(c) ==
    /\ client[c] = "wal" /\ target = 0 /\ pages[1] < committed
    /\ pages' = [pages EXCEPT ![1] = committed]
    /\ target' = committed
    /\ UNCHANGED <<path, header, committed, wal, journal, client, insp>>
CheckpointSecond(c) ==
    /\ client[c] = "wal" /\ target # 0
    /\ pages' = [pages EXCEPT ![2] = target]
    /\ target' = 0
    /\ UNCHANGED <<path, header, committed, wal, journal, client, insp>>
Close(c) ==
    /\ client[c] = "wal" /\ target = 0
    /\ Becomes(c, "none")
    /\ IF Connected = {c} /\ ~insp.shared
       THEN wal' = FALSE /\ pages' = <<committed, committed>>
       ELSE UNCHANGED <<wal, pages>>
    /\ UNCHANGED <<path, header, committed, journal, target, insp>>

\* A dead client leaves its sidecars; its half done checkpoint is done again.
Die(c) ==
    /\ client[c] # "none"
    /\ Becomes(c, "none")
    /\ target' = IF client[c] = "wal" THEN 0 ELSE target
    /\ UNCHANGED <<path, header, pages, committed, wal, journal, insp>>

\* The store is removed or moved away and another one takes its path.
Replace ==
    /\ path = "A"
    /\ path' \in {"B", "C"}
    /\ wal' = FALSE /\ journal' = FALSE
    /\ UNCHANGED <<header, pages, committed, client, target, insp>>

IInit ==
    /\ path = "A" /\ header \in {"wal", "delete"} /\ pages = <<0, 0>> /\ committed = 0
    /\ wal = FALSE /\ journal = FALSE /\ target = 0
    /\ client = [c \in Client |-> "none"]
    /\ insp = Idle

INext ==
    \/ Preflight \/ Inspect \/ Deadline
    \/ \E c \in Client :
          \/ BeginWrite(c) \/ OpenJournal(c) \/ TakePending(c) \/ TakeExclusive(c)
          \/ WriteFirst(c) \/ WriteSecond(c) \/ Recover(c) \/ SwitchToWal(c)
          \/ Connect(c) \/ CommitToWal(c) \/ CheckpointFirst(c)
          \/ CheckpointSecond(c) \/ Close(c) \/ Die(c)
    \/ Replace

ISpec == IInit /\ [][INext]_ivars
----------------------------------------------------------------------------
(* Properties *)

\* The sidecars of a file that is moved away go with it, and the inspection
\* looks for them under the old path: nothing is claimed for that file.
MovedAway == insp.pinned = "A" /\ path = "C"

\* An inspection that reports anything has read the file the caller had looked
\* at, and exactly the state that was committed when it looked for sidecars
\* again: not pages of two commits, not a file whose last commits are still in
\* a WAL, whatever clients did between the two looks (recovery_sidecar_blocker,
\* acquire_unix_shared_snapshot_lock, private_database_snapshot).
ReportsOneCommit ==
    insp.at = "done" /\ ~MovedAway =>
       /\ insp.pinned = insp.expected
       /\ insp.copy = <<insp.asof, insp.asof>>

\* When it reports the writer lock as available, nobody was writing: in
\* rollback mode because it held the lock, in WAL mode, where it takes none,
\* because a writer would have left a WAL (acquire_unix_snapshot_guard).
AvailableMeansFree ==
    insp.at = "done" /\ ~MovedAway /\ insp.available => insp.writers = {}

\* What an inspection reports is true: of one commit of the right file, and of
\* the writer lock (inspect_database_at_identity).
ReportIsTrue == ReportsOneCommit /\ AvailableMeansFree
=============================================================================
