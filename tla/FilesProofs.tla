---------------------------- MODULE FilesProofs ----------------------------
(***************************************************************************)
(* Theorems about the operations on whole files, for any number of         *)
(* processes, clients, commits and memories: an inspection reports one     *)
(* commit, a file is whole however many open it, and what is imported is   *)
(* the store that was exported.                                            *)
(***************************************************************************)
EXTENDS MCFiles, MemoryStoreProofs, SequenceTheorems, FiniteSetTheorems,
        WellFoundedInduction

----------------------------------------------------------------------------
(* Inspection *)

LookTypes ==
    /\ path \in {"A", "B", "C"} /\ header \in {"delete", "wal"}
    /\ pages = <<pages[1], pages[2]>> /\ committed \in Nat /\ checkpoint \in Nat
    /\ wal \in BOOLEAN /\ journal \in BOOLEAN
    /\ client \in [Client -> {"none", "reserved", "journal", "pending", "exclusive", "half",
                              "wal"}]
    /\ insp = [f \in DOMAIN Look!Idle |-> insp[f]]
    /\ insp.copy = <<insp.copy[1], insp.copy[2]>>
    /\ insp.at \in {"idle", "identity", "pin", "sidecars", "header", "lock", "shared", "reserve",
                    "copy1", "copy2", "again", "read", "done", "failed"}
    /\ insp.pinned \in {"A", "B"} /\ insp.uses \in {"delete", "wal"}
    /\ insp.shared \in BOOLEAN /\ insp.reserved \in BOOLEAN /\ insp.available \in BOOLEAN

\* The file is as its last commit left it.
Settled == pages[1] = committed /\ pages[2] = committed

\* SQLite's protocol, while the path names the file: one writer, whose journal
\* is there as long as pages may be of two commits, and a WAL as long as
\* commits may be missing from the pages.
Protocol ==
    path = "A" =>
       /\ \A c, d \in Look!Reserving : c = d
       /\ header = "wal" => Look!Reserving = {} /\ ~journal
       /\ header = "wal" /\ ~wal => Look!Connected = {} /\ Settled
       /\ header = "delete" => Look!Connected = {} /\ ~wal
       /\ header = "delete" /\ ~journal =>
             Settled /\ Look!Holding({"journal", "pending", "exclusive", "half"}) = {}
       /\ \A c \in Look!Holding({"half"}) : pages[1] = committed + 1

Locked == {"reserve", "copy1", "copy2", "again", "read"}
\* What the inspection has is the named file's, and its locks are respected.
Guarded ==
    /\ insp.at \notin {"idle", "identity", "pin"} \cup {"failed"} => insp.pinned = insp.expected
    /\ insp.at \in Locked <=> insp.shared
    /\ insp.reserved => insp.shared
    /\ insp.at \in {"idle", "identity", "pin"} => insp.pinned = "A"
    /\ insp.pinned = "B" => path # "A"
    /\ insp.pinned = "A" /\ path = "A" =>
          /\ insp.shared => Look!Exclusive = {}
          /\ insp.reserved => Look!Reserving = {}
          /\ insp.at \in Locked \ {"reserve"} /\ insp.available =>
                insp.reserved \/ insp.uses = "wal"
          /\ insp.at \in {"lock", "shared"} \cup Locked /\ insp.uses = "wal" => header = "wal"

\* The copy so far is of the pages as they are, unless a WAL has appeared; at
\* the end it is of the last commit there was.
Copied ==
    IF insp.pinned = "B"
    THEN /\ insp.at \in {"copy2", "again", "read"} => insp.copy[1] = 0
         /\ insp.at \in {"again", "read"} => insp.copy[2] = 0
         /\ insp.at = "read" => insp.asof = 0 /\ insp.writers = {}
    ELSE path = "A" =>
         /\ insp.at \in {"copy2", "again"} /\ ~wal => insp.copy[1] = pages[1]
         /\ insp.at = "again" /\ ~wal => insp.copy[2] = pages[2]
         /\ insp.at = "read" => /\ insp.copy[1] = insp.asof /\ insp.copy[2] = insp.asof
                                /\ insp.available => insp.writers = {}

LookInv == LookTypes /\ Protocol /\ Guarded /\ Copied /\ ReportIsTrue


\* A step of the inspection changes the given fields and nothing of the world.
Others(changed) ==
    /\ UNCHANGED Look!world
    /\ insp' = [f \in DOMAIN Look!Idle |-> insp'[f]]
    /\ \A f \in DOMAIN Look!Idle \ changed : insp'[f] = insp[f]

LEMMA Fields ==
    ASSUME LookTypes, NEW S \in SUBSET DOMAIN Look!Idle, Others(S)
    PROVE  /\ UNCHANGED <<path, header, pages, committed, wal, journal, client, checkpoint>>
           /\ insp' = [f \in DOMAIN Look!Idle |-> insp'[f]]
           /\ "at" \notin S => insp'.at = insp.at
           /\ "expected" \notin S => insp'.expected = insp.expected
           /\ "pinned" \notin S => insp'.pinned = insp.pinned
           /\ "uses" \notin S => insp'.uses = insp.uses
           /\ "shared" \notin S => insp'.shared = insp.shared
           /\ "reserved" \notin S => insp'.reserved = insp.reserved
           /\ "available" \notin S => insp'.available = insp.available
           /\ "copy" \notin S => insp'.copy = insp.copy
           /\ "asof" \notin S => insp'.asof = insp.asof
           /\ "writers" \notin S => insp'.writers = insp.writers
BY DEF Others, Look!Idle, Look!world

LEMMA WorldStands ==
    ASSUME Protocol, UNCHANGED Look!world
    PROVE  /\ Protocol'
           /\ UNCHANGED <<Look!Reserving, Look!Exclusive, Look!Connected>>
BY DEF Protocol, Settled, Look!world, Look!Holding, Look!Reserving, Look!Exclusive, Look!Connected

LEMMA RefuseStep ==
    ASSUME LookInv, Look!Refuse
    PROVE  LookInv'
<1>1. /\ Others({"at", "pending", "shared", "reserved"})
      /\ insp'.at = "failed" /\ insp'.shared = FALSE /\ insp'.reserved = FALSE
  BY DEF Look!Refuse, Look!Released, Others, LookInv, LookTypes, Look!Idle
<1>2. /\ UNCHANGED <<path, header, pages, committed, wal, journal, client, checkpoint>>
      /\ insp' = [f \in DOMAIN Look!Idle |-> insp'[f]]
      /\ insp'.expected = insp.expected /\ insp'.pinned = insp.pinned /\ insp'.uses = insp.uses
      /\ insp'.available = insp.available /\ insp'.copy = insp.copy /\ insp'.asof = insp.asof
      /\ insp'.writers = insp.writers
  BY <1>1, Fields DEF LookInv, Look!Idle
<1>3. LookTypes'
  BY <1>1, <1>2 DEF LookInv, LookTypes
<1>4. Protocol' /\ UNCHANGED <<Look!Reserving, Look!Exclusive, Look!Connected>>
  BY <1>1, WorldStands DEF LookInv, Others
<1>5. Guarded'
  BY <1>1, <1>2, <1>4 DEF LookInv, Guarded, LookTypes, Locked
<1>6. Copied'
  BY <1>1, <1>2 DEF LookInv, Copied, Guarded, Locked, LookTypes
<1>7. ReportIsTrue'
  BY <1>1, <1>2 DEF LookInv, Copied, Guarded, LookTypes, ReportIsTrue, Look!ReportIsTrue, Look!ReportsOneCommit, Look!AvailableMeansFree, Look!MovedAway
<1>8. QED BY <1>3, <1>4, <1>5, <1>6, <1>7 DEF LookInv

LEMMA PreflightStep ==
    ASSUME LookInv, Look!Preflight
    PROVE  LookInv'
<1>1. /\ Others({"at", "expected"})
      /\ insp.at = "idle" /\ insp'.at = "identity"
  BY DEF Look!Preflight, Look!Advance, Others, LookInv, LookTypes, Look!Idle
<1>2. /\ UNCHANGED <<path, header, pages, committed, wal, journal, client, checkpoint>>
      /\ insp' = [f \in DOMAIN Look!Idle |-> insp'[f]]
      /\ insp'.pinned = insp.pinned /\ insp'.uses = insp.uses /\ insp'.shared = insp.shared
      /\ insp'.reserved = insp.reserved /\ insp'.available = insp.available /\ insp'.copy = insp.copy
      /\ insp'.asof = insp.asof /\ insp'.writers = insp.writers
  BY <1>1, Fields DEF LookInv, Look!Idle
<1>3. LookTypes'
  BY <1>1, <1>2 DEF LookInv, LookTypes
<1>4. Protocol' /\ UNCHANGED <<Look!Reserving, Look!Exclusive, Look!Connected>>
  BY <1>1, WorldStands DEF LookInv, Others
<1>5. Guarded'
  BY <1>1, <1>2, <1>4 DEF LookInv, Guarded, LookTypes, Locked
<1>6. Copied'
  BY <1>1, <1>2 DEF LookInv, Copied, Guarded, Locked, LookTypes
<1>7. ReportIsTrue'
  BY <1>1, <1>2 DEF LookInv, Copied, Guarded, LookTypes, ReportIsTrue, Look!ReportIsTrue, Look!ReportsOneCommit, Look!AvailableMeansFree, Look!MovedAway
<1>8. QED BY <1>3, <1>4, <1>5, <1>6, <1>7 DEF LookInv

LEMMA CheckIdentityStep ==
    ASSUME LookInv, Look!CheckIdentity, ~Look!Refuse
    PROVE  LookInv'
<1>1. /\ Others({"at"})
      /\ insp.at = "identity" /\ insp'.at = "pin"
  BY DEF Look!CheckIdentity, Look!Advance, Others, LookInv, LookTypes, Look!Idle
<1>2. /\ UNCHANGED <<path, header, pages, committed, wal, journal, client, checkpoint>>
      /\ insp' = [f \in DOMAIN Look!Idle |-> insp'[f]]
      /\ insp'.expected = insp.expected /\ insp'.pinned = insp.pinned /\ insp'.uses = insp.uses
      /\ insp'.shared = insp.shared /\ insp'.reserved = insp.reserved /\ insp'.available = insp.available
      /\ insp'.copy = insp.copy /\ insp'.asof = insp.asof /\ insp'.writers = insp.writers
  BY <1>1, Fields DEF LookInv, Look!Idle
<1>3. LookTypes'
  BY <1>1, <1>2 DEF LookInv, LookTypes
<1>4. Protocol' /\ UNCHANGED <<Look!Reserving, Look!Exclusive, Look!Connected>>
  BY <1>1, WorldStands DEF LookInv, Others
<1>5. Guarded'
  BY <1>1, <1>2, <1>4 DEF LookInv, Guarded, LookTypes, Locked
<1>6. Copied'
  BY <1>1, <1>2 DEF LookInv, Copied, Guarded, Locked, LookTypes
<1>7. ReportIsTrue'
  BY <1>1, <1>2 DEF LookInv, Copied, Guarded, LookTypes, ReportIsTrue, Look!ReportIsTrue, Look!ReportsOneCommit, Look!AvailableMeansFree, Look!MovedAway
<1>8. QED BY <1>3, <1>4, <1>5, <1>6, <1>7 DEF LookInv

LEMMA PinStep ==
    ASSUME LookInv, Look!Pin, ~Look!Refuse
    PROVE  LookInv'
<1>1. /\ Others({"at", "pinned"})
      /\ insp.at = "pin" /\ insp'.at = "sidecars"
      /\ insp'.pinned = Look!Named /\ Look!Named = insp.expected
  BY DEF Look!Pin, Look!Advance, Look!PinsExpected, Look!Named, Others, LookInv, LookTypes, Look!Idle
<1>2. /\ UNCHANGED <<path, header, pages, committed, wal, journal, client, checkpoint>>
      /\ insp' = [f \in DOMAIN Look!Idle |-> insp'[f]]
      /\ insp'.expected = insp.expected /\ insp'.uses = insp.uses /\ insp'.shared = insp.shared
      /\ insp'.reserved = insp.reserved /\ insp'.available = insp.available /\ insp'.copy = insp.copy
      /\ insp'.asof = insp.asof /\ insp'.writers = insp.writers
  BY <1>1, Fields DEF LookInv, Look!Idle
<1>3. LookTypes'
  BY <1>1, <1>2 DEF LookInv, LookTypes, Look!Named
<1>4. Protocol' /\ UNCHANGED <<Look!Reserving, Look!Exclusive, Look!Connected>>
  BY <1>1, WorldStands DEF LookInv, Others
<1>5. Guarded'
  BY <1>1, <1>2, <1>4 DEF LookInv, Guarded, LookTypes, Locked, Look!Named
<1>6. Copied'
  BY <1>1, <1>2 DEF LookInv, Copied, Guarded, Locked, LookTypes, Look!Named
<1>7. ReportIsTrue'
  BY <1>1, <1>2 DEF LookInv, Copied, Guarded, LookTypes, ReportIsTrue, Look!ReportIsTrue, Look!ReportsOneCommit, Look!AvailableMeansFree, Look!MovedAway
<1>8. QED BY <1>3, <1>4, <1>5, <1>6, <1>7 DEF LookInv

LEMMA LookForSidecarsStep ==
    ASSUME LookInv, Look!LookForSidecars, ~Look!Refuse
    PROVE  LookInv'
<1>1. /\ Others({"at"})
      /\ insp.at = "sidecars" /\ insp'.at = "header"
  BY DEF Look!LookForSidecars, Look!Advance, Others, LookInv, LookTypes, Look!Idle
<1>2. /\ UNCHANGED <<path, header, pages, committed, wal, journal, client, checkpoint>>
      /\ insp' = [f \in DOMAIN Look!Idle |-> insp'[f]]
      /\ insp'.expected = insp.expected /\ insp'.pinned = insp.pinned /\ insp'.uses = insp.uses
      /\ insp'.shared = insp.shared /\ insp'.reserved = insp.reserved /\ insp'.available = insp.available
      /\ insp'.copy = insp.copy /\ insp'.asof = insp.asof /\ insp'.writers = insp.writers
  BY <1>1, Fields DEF LookInv, Look!Idle
<1>3. LookTypes'
  BY <1>1, <1>2 DEF LookInv, LookTypes
<1>4. Protocol' /\ UNCHANGED <<Look!Reserving, Look!Exclusive, Look!Connected>>
  BY <1>1, WorldStands DEF LookInv, Others
<1>5. Guarded'
  BY <1>1, <1>2, <1>4 DEF LookInv, Guarded, LookTypes, Locked
<1>6. Copied'
  BY <1>1, <1>2 DEF LookInv, Copied, Guarded, Locked, LookTypes
<1>7. ReportIsTrue'
  BY <1>1, <1>2 DEF LookInv, Copied, Guarded, LookTypes, ReportIsTrue, Look!ReportIsTrue, Look!ReportsOneCommit, Look!AvailableMeansFree, Look!MovedAway
<1>8. QED BY <1>3, <1>4, <1>5, <1>6, <1>7 DEF LookInv

LEMMA ReadHeaderStep ==
    ASSUME LookInv, Look!ReadHeader
    PROVE  LookInv'
<1>1. /\ Others({"at", "uses"})
      /\ insp.at = "header" /\ insp'.at = "lock"
      /\ insp'.uses = IF insp.pinned = "A" THEN header ELSE "wal"
  BY DEF Look!ReadHeader, Look!Advance, Others, LookInv, LookTypes, Look!Idle
<1>2. /\ UNCHANGED <<path, header, pages, committed, wal, journal, client, checkpoint>>
      /\ insp' = [f \in DOMAIN Look!Idle |-> insp'[f]]
      /\ insp'.expected = insp.expected /\ insp'.pinned = insp.pinned /\ insp'.shared = insp.shared
      /\ insp'.reserved = insp.reserved /\ insp'.available = insp.available /\ insp'.copy = insp.copy
      /\ insp'.asof = insp.asof /\ insp'.writers = insp.writers
  BY <1>1, Fields DEF LookInv, Look!Idle
<1>3. LookTypes'
  BY <1>1, <1>2 DEF LookInv, LookTypes
<1>4. Protocol' /\ UNCHANGED <<Look!Reserving, Look!Exclusive, Look!Connected>>
  BY <1>1, WorldStands DEF LookInv, Others
<1>5. Guarded'
  BY <1>1, <1>2, <1>4 DEF LookInv, Guarded, LookTypes, Locked
<1>6. Copied'
  BY <1>1, <1>2 DEF LookInv, Copied, Guarded, Locked, LookTypes
<1>7. ReportIsTrue'
  BY <1>1, <1>2 DEF LookInv, Copied, Guarded, LookTypes, ReportIsTrue, Look!ReportIsTrue, Look!ReportsOneCommit, Look!AvailableMeansFree, Look!MovedAway
<1>8. QED BY <1>3, <1>4, <1>5, <1>6, <1>7 DEF LookInv

LEMMA LockPendingStep ==
    ASSUME LookInv, Look!LockPending, ~Look!Refuse
    PROVE  LookInv'
<1>1. /\ Others({"at", "pending", "available"})
      /\ insp.at = "lock" /\ insp'.at = "shared" /\ insp'.available \in BOOLEAN
  BY DEF Look!LockPending, Look!Advance, Others, LookInv, LookTypes, Look!Idle
<1>2. /\ UNCHANGED <<path, header, pages, committed, wal, journal, client, checkpoint>>
      /\ insp' = [f \in DOMAIN Look!Idle |-> insp'[f]]
      /\ insp'.expected = insp.expected /\ insp'.pinned = insp.pinned /\ insp'.uses = insp.uses
      /\ insp'.shared = insp.shared /\ insp'.reserved = insp.reserved
      /\ insp'.copy = insp.copy /\ insp'.asof = insp.asof /\ insp'.writers = insp.writers
  BY <1>1, Fields DEF LookInv, Look!Idle
<1>3. LookTypes'
  BY <1>1, <1>2 DEF LookInv, LookTypes
<1>4. Protocol' /\ UNCHANGED <<Look!Reserving, Look!Exclusive, Look!Connected>>
  BY <1>1, WorldStands DEF LookInv, Others
<1>5. Guarded'
  BY <1>1, <1>2, <1>4 DEF LookInv, Guarded, LookTypes, Locked
<1>6. Copied'
  BY <1>1, <1>2 DEF LookInv, Copied, Guarded, Locked, LookTypes
<1>7. ReportIsTrue'
  BY <1>1, <1>2 DEF LookInv, Copied, Guarded, LookTypes, ReportIsTrue, Look!ReportIsTrue, Look!ReportsOneCommit, Look!AvailableMeansFree, Look!MovedAway
<1>8. QED BY <1>3, <1>4, <1>5, <1>6, <1>7 DEF LookInv

LEMMA LockSharedStep ==
    ASSUME LookInv, Look!LockShared, ~Look!Refuse
    PROVE  LookInv'
<1>1. /\ Others({"at", "pending", "shared"})
      /\ insp.at = "shared" /\ insp'.at = "reserve"
      /\ insp'.shared = TRUE
      /\ insp.pinned = "A" => Look!Exclusive = {}
  BY DEF Look!LockShared, Look!Advance, Look!SharedTaken, Others, LookInv, LookTypes, Look!Idle
<1>2. /\ UNCHANGED <<path, header, pages, committed, wal, journal, client, checkpoint>>
      /\ insp' = [f \in DOMAIN Look!Idle |-> insp'[f]]
      /\ insp'.expected = insp.expected /\ insp'.pinned = insp.pinned /\ insp'.uses = insp.uses
      /\ insp'.reserved = insp.reserved /\ insp'.available = insp.available /\ insp'.copy = insp.copy
      /\ insp'.asof = insp.asof /\ insp'.writers = insp.writers
  BY <1>1, Fields DEF LookInv, Look!Idle
<1>3. LookTypes'
  BY <1>1, <1>2 DEF LookInv, LookTypes
<1>4. Protocol' /\ UNCHANGED <<Look!Reserving, Look!Exclusive, Look!Connected>>
  BY <1>1, WorldStands DEF LookInv, Others
<1>5. Guarded'
  BY <1>1, <1>2, <1>4 DEF LookInv, Guarded, LookTypes, Locked
<1>6. Copied'
  BY <1>1, <1>2 DEF LookInv, Copied, Guarded, Locked, LookTypes
<1>7. ReportIsTrue'
  BY <1>1, <1>2 DEF LookInv, Copied, Guarded, LookTypes, ReportIsTrue, Look!ReportIsTrue, Look!ReportsOneCommit, Look!AvailableMeansFree, Look!MovedAway
<1>8. QED BY <1>3, <1>4, <1>5, <1>6, <1>7 DEF LookInv

LEMMA ReserveStep ==
    ASSUME LookInv, Look!Reserve
    PROVE  LookInv'
<1>1. /\ Others({"at", "reserved", "available"})
      /\ insp.at = "reserve" /\ insp'.at = "copy1"
      /\ insp'.reserved \in BOOLEAN /\ insp'.available \in BOOLEAN
      /\ insp'.reserved => insp.pinned = "B" \/ Look!Reserving = {}
      /\ insp'.available => insp'.reserved \/ insp.uses = "wal"
  BY DEF Look!Reserve, Look!WriterLockFree, Look!Advance, Others, LookInv, LookTypes, Look!Idle
<1>2. /\ UNCHANGED <<path, header, pages, committed, wal, journal, client, checkpoint>>
      /\ insp' = [f \in DOMAIN Look!Idle |-> insp'[f]]
      /\ insp'.expected = insp.expected /\ insp'.pinned = insp.pinned /\ insp'.uses = insp.uses
      /\ insp'.shared = insp.shared /\ insp'.copy = insp.copy /\ insp'.asof = insp.asof
      /\ insp'.writers = insp.writers
  BY <1>1, Fields DEF LookInv, Look!Idle
<1>3. LookTypes'
  BY <1>1, <1>2 DEF LookInv, LookTypes
<1>4. Protocol' /\ UNCHANGED <<Look!Reserving, Look!Exclusive, Look!Connected>>
  BY <1>1, WorldStands DEF LookInv, Others
<1>5. Guarded'
  BY <1>1, <1>2, <1>4 DEF LookInv, Guarded, LookTypes, Locked
<1>6. Copied'
  BY <1>1, <1>2 DEF LookInv, Copied, Guarded, Locked, LookTypes
<1>7. ReportIsTrue'
  BY <1>1, <1>2 DEF LookInv, Copied, Guarded, LookTypes, ReportIsTrue, Look!ReportIsTrue, Look!ReportsOneCommit, Look!AvailableMeansFree, Look!MovedAway
<1>8. QED BY <1>3, <1>4, <1>5, <1>6, <1>7 DEF LookInv

LEMMA CopyFirstStep ==
    ASSUME LookInv, Look!CopyFirst
    PROVE  LookInv'
<1>1. /\ Others({"at", "copy"})
      /\ insp.at = "copy1" /\ insp'.at = "copy2"
      /\ insp'.copy = <<Look!Page(1), insp.copy[2]>>
  <2>1. insp.copy = <<insp.copy[1], insp.copy[2]>> /\ insp = [f \in DOMAIN Look!Idle |-> insp[f]]
    BY DEF LookInv, LookTypes
  <2>2. [insp.copy EXCEPT ![1] = Look!Page(1)] = <<Look!Page(1), insp.copy[2]>>
    BY <2>1
  <2>3. insp' = [[insp EXCEPT !.copy = [insp.copy EXCEPT ![1] = Look!Page(1)]] EXCEPT !.at = "copy2"]
    BY DEF Look!CopyFirst, Look!Advance
  <2>4. insp' = [[insp EXCEPT !.copy = <<Look!Page(1), insp.copy[2]>>] EXCEPT !.at = "copy2"]
    BY <2>2, <2>3
  <2>5. QED BY <2>1, <2>4 DEF Look!CopyFirst, Look!Advance, Others, Look!Idle
<1>2. /\ UNCHANGED <<path, header, pages, committed, wal, journal, client, checkpoint>>
      /\ insp' = [f \in DOMAIN Look!Idle |-> insp'[f]]
      /\ insp'.expected = insp.expected /\ insp'.pinned = insp.pinned /\ insp'.uses = insp.uses
      /\ insp'.shared = insp.shared /\ insp'.reserved = insp.reserved /\ insp'.available = insp.available
      /\ insp'.asof = insp.asof /\ insp'.writers = insp.writers
  BY <1>1, Fields DEF LookInv, Look!Idle
<1>3. LookTypes'
  BY <1>1, <1>2 DEF LookInv, LookTypes
<1>4. Protocol' /\ UNCHANGED <<Look!Reserving, Look!Exclusive, Look!Connected>>
  BY <1>1, WorldStands DEF LookInv, Others
<1>5. Guarded'
  BY <1>1, <1>2, <1>4 DEF LookInv, Guarded, LookTypes, Locked, Look!Page
<1>6. Copied'
  BY <1>1, <1>2 DEF LookInv, Copied, Guarded, Locked, LookTypes, Look!Page
<1>7. ReportIsTrue'
  BY <1>1, <1>2 DEF LookInv, Copied, Guarded, LookTypes, ReportIsTrue, Look!ReportIsTrue, Look!ReportsOneCommit, Look!AvailableMeansFree, Look!MovedAway
<1>8. QED BY <1>3, <1>4, <1>5, <1>6, <1>7 DEF LookInv

LEMMA CopySecondStep ==
    ASSUME LookInv, Look!CopySecond
    PROVE  LookInv'
<1>1. /\ Others({"at", "copy"})
      /\ insp.at = "copy2" /\ insp'.at = "again"
      /\ insp'.copy = <<insp.copy[1], Look!Page(2)>>
  <2>1. insp.copy = <<insp.copy[1], insp.copy[2]>> /\ insp = [f \in DOMAIN Look!Idle |-> insp[f]]
    BY DEF LookInv, LookTypes
  <2>2. [insp.copy EXCEPT ![2] = Look!Page(2)] = <<insp.copy[1], Look!Page(2)>>
    BY <2>1
  <2>3. insp' = [[insp EXCEPT !.copy = [insp.copy EXCEPT ![2] = Look!Page(2)]] EXCEPT !.at = "again"]
    BY DEF Look!CopySecond, Look!Advance
  <2>4. insp' = [[insp EXCEPT !.copy = <<insp.copy[1], Look!Page(2)>>] EXCEPT !.at = "again"]
    BY <2>2, <2>3
  <2>5. QED BY <2>1, <2>4 DEF Look!CopySecond, Look!Advance, Others, Look!Idle
<1>2. /\ UNCHANGED <<path, header, pages, committed, wal, journal, client, checkpoint>>
      /\ insp' = [f \in DOMAIN Look!Idle |-> insp'[f]]
      /\ insp'.expected = insp.expected /\ insp'.pinned = insp.pinned /\ insp'.uses = insp.uses
      /\ insp'.shared = insp.shared /\ insp'.reserved = insp.reserved /\ insp'.available = insp.available
      /\ insp'.asof = insp.asof /\ insp'.writers = insp.writers
  BY <1>1, Fields DEF LookInv, Look!Idle
<1>3. LookTypes'
  BY <1>1, <1>2 DEF LookInv, LookTypes
<1>4. Protocol' /\ UNCHANGED <<Look!Reserving, Look!Exclusive, Look!Connected>>
  BY <1>1, WorldStands DEF LookInv, Others
<1>5. Guarded'
  BY <1>1, <1>2, <1>4 DEF LookInv, Guarded, LookTypes, Locked, Look!Page
<1>6. Copied'
  BY <1>1, <1>2 DEF LookInv, Copied, Guarded, Locked, LookTypes, Look!Page
<1>7. ReportIsTrue'
  BY <1>1, <1>2 DEF LookInv, Copied, Guarded, LookTypes, ReportIsTrue, Look!ReportIsTrue, Look!ReportsOneCommit, Look!AvailableMeansFree, Look!MovedAway
<1>8. QED BY <1>3, <1>4, <1>5, <1>6, <1>7 DEF LookInv

LEMMA LookAgainStep ==
    ASSUME LookInv, Look!LookAgain, ~Look!Refuse
    PROVE  LookInv'
<1>1. /\ Others({"at", "asof", "writers"})
      /\ insp.at = "again" /\ insp'.at = "read"
      /\ ~wal /\ ~journal
      /\ insp'.asof = IF insp.pinned = "A" THEN committed ELSE 0
      /\ insp'.writers = IF insp.pinned = "A" THEN Look!Reserving \cup Look!Connected ELSE {}
  BY DEF Look!LookAgain, Look!Advance, Look!StillBlocked, Look!Blocked, Others, LookInv, LookTypes, Look!Idle
<1>2. /\ UNCHANGED <<path, header, pages, committed, wal, journal, client, checkpoint>>
      /\ insp' = [f \in DOMAIN Look!Idle |-> insp'[f]]
      /\ insp'.expected = insp.expected /\ insp'.pinned = insp.pinned /\ insp'.uses = insp.uses
      /\ insp'.shared = insp.shared /\ insp'.reserved = insp.reserved /\ insp'.available = insp.available
      /\ insp'.copy = insp.copy
  BY <1>1, Fields DEF LookInv, Look!Idle
<1>3. LookTypes'
  BY <1>1, <1>2 DEF LookInv, LookTypes
<1>4. Protocol' /\ UNCHANGED <<Look!Reserving, Look!Exclusive, Look!Connected>>
  BY <1>1, WorldStands DEF LookInv, Others
<1>5. Guarded'
  BY <1>1, <1>2, <1>4 DEF LookInv, Guarded, LookTypes, Locked, Protocol, Settled
<1>6. Copied'
  BY <1>1, <1>2 DEF LookInv, Copied, Guarded, Locked, LookTypes, Protocol, Settled
<1>7. ReportIsTrue'
  BY <1>1, <1>2 DEF LookInv, Copied, Guarded, LookTypes, ReportIsTrue, Look!ReportIsTrue, Look!ReportsOneCommit, Look!AvailableMeansFree, Look!MovedAway
<1>8. QED BY <1>3, <1>4, <1>5, <1>6, <1>7 DEF LookInv

LEMMA FinishStep ==
    ASSUME LookInv, Look!Finish, ~Look!Refuse
    PROVE  LookInv'
<1>1. /\ Others({"at", "pending", "shared", "reserved"})
      /\ insp.at = "read" /\ insp'.at = "done" /\ (insp.pinned = "A" => path # "B")
      /\ insp'.shared = FALSE /\ insp'.reserved = FALSE
  BY DEF Look!Finish, Look!Released, Look!SameFile, Look!world, Others, LookInv, LookTypes, Look!Idle
<1>2. /\ UNCHANGED <<path, header, pages, committed, wal, journal, client, checkpoint>>
      /\ insp' = [f \in DOMAIN Look!Idle |-> insp'[f]]
      /\ insp'.expected = insp.expected /\ insp'.pinned = insp.pinned /\ insp'.uses = insp.uses
      /\ insp'.available = insp.available /\ insp'.copy = insp.copy /\ insp'.asof = insp.asof
      /\ insp'.writers = insp.writers
  BY <1>1, Fields DEF LookInv, Look!Idle
<1>3. LookTypes'
  BY <1>1, <1>2 DEF LookInv, LookTypes
<1>4. Protocol' /\ UNCHANGED <<Look!Reserving, Look!Exclusive, Look!Connected>>
  BY <1>1, WorldStands DEF LookInv, Others
<1>5. Guarded'
  BY <1>1, <1>2, <1>4 DEF LookInv, Guarded, LookTypes, Locked
<1>6. Copied'
  BY <1>1, <1>2 DEF LookInv, Copied, Guarded, Locked, LookTypes
<1>7. ReportIsTrue'
  BY <1>1, <1>2 DEF LookInv, Copied, Guarded, LookTypes, ReportIsTrue, Look!ReportIsTrue, Look!ReportsOneCommit, Look!AvailableMeansFree, Look!MovedAway
<1>8. QED BY <1>3, <1>4, <1>5, <1>6, <1>7 DEF LookInv

LEMMA ClientStep ==
    ASSUME LookInv, NEW c \in Client,
           \/ Look!BeginWrite(c) \/ Look!OpenJournal(c) \/ Look!TakePending(c) \/ Look!TakeExclusive(c)
           \/ Look!WriteFirst(c) \/ Look!WriteSecond(c) \/ Look!Recover(c) \/ Look!SwitchToWal(c)
           \/ Look!Connect(c) \/ Look!CommitToWal(c) \/ Look!CheckpointFirst(c) \/ Look!CheckpointSecond(c)
           \/ Look!Close(c) \/ Look!Die(c)
    PROVE  LookInv'
<1> USE DEF Look!Holding, Look!Reserving, Look!Exclusive, Look!Pending, Look!Connected, Look!Becomes
<1>1. CASE Look!BeginWrite(c)
  <2> USE <1>1 DEF Look!BeginWrite, LookInv
  <2>1. LookTypes'
    BY DEF LookTypes
  <2>2. Protocol'
    BY DEF LookTypes, Protocol, Settled, Guarded
  <2>3. Guarded'
    BY DEF LookTypes, Guarded, Protocol
  <2>4. Copied'
    BY DEF LookTypes, Copied, Guarded, Locked, Protocol, Settled
  <2>5. ReportIsTrue'
    BY DEF ReportIsTrue, Look!ReportIsTrue, Look!ReportsOneCommit, Look!AvailableMeansFree, Look!MovedAway
  <2>6. QED BY <2>1, <2>2, <2>3, <2>4, <2>5
<1>2. CASE Look!OpenJournal(c)
  <2> USE <1>2 DEF Look!OpenJournal, LookInv
  <2>1. LookTypes'
    BY DEF LookTypes
  <2>2. Protocol'
    <3>1. CASE path # "A"
      BY <3>1 DEF LookTypes, Protocol
    <3>2. CASE path = "A"
      <4>1. header = "delete" /\ Look!Reserving = {c} /\ Look!Connected = {} /\ ~wal
        BY <3>2 DEF LookTypes, Protocol
      <4>2. \A d \in Client \ {c} : client[d] \notin {"reserved", "journal", "pending", "exclusive", "half"}
        BY <4>1
      <4>3. QED BY <3>2, <4>1, <4>2 DEF LookTypes, Protocol, Settled
    <3>3. QED BY <3>1, <3>2
  <2>3. Guarded'
    BY DEF LookTypes, Guarded, Protocol
  <2>4. Copied'
    BY DEF LookTypes, Copied, Guarded, Locked, Protocol, Settled
  <2>5. ReportIsTrue'
    BY DEF ReportIsTrue, Look!ReportIsTrue, Look!ReportsOneCommit, Look!AvailableMeansFree, Look!MovedAway
  <2>6. QED BY <2>1, <2>2, <2>3, <2>4, <2>5
<1>3. CASE Look!TakePending(c)
  <2> USE <1>3 DEF Look!TakePending, LookInv
  <2>1. LookTypes'
    BY DEF LookTypes
  <2>2. Protocol'
    BY DEF LookTypes, Protocol, Settled, Guarded
  <2>3. Guarded'
    BY DEF LookTypes, Guarded, Protocol
  <2>4. Copied'
    BY DEF LookTypes, Copied, Guarded, Locked, Protocol, Settled
  <2>5. ReportIsTrue'
    BY DEF ReportIsTrue, Look!ReportIsTrue, Look!ReportsOneCommit, Look!AvailableMeansFree, Look!MovedAway
  <2>6. QED BY <2>1, <2>2, <2>3, <2>4, <2>5
<1>4. CASE Look!TakeExclusive(c)
  <2> USE <1>4 DEF Look!TakeExclusive, LookInv
  <2>1. LookTypes'
    BY DEF LookTypes
  <2>2. Protocol'
    BY DEF LookTypes, Protocol, Settled, Guarded
  <2>3. Guarded'
    BY DEF LookTypes, Guarded, Protocol
  <2>4. Copied'
    BY DEF LookTypes, Copied, Guarded, Locked, Protocol, Settled
  <2>5. ReportIsTrue'
    BY DEF ReportIsTrue, Look!ReportIsTrue, Look!ReportsOneCommit, Look!AvailableMeansFree, Look!MovedAway
  <2>6. QED BY <2>1, <2>2, <2>3, <2>4, <2>5
<1>5. CASE Look!WriteFirst(c)
  <2> USE <1>5 DEF Look!WriteFirst, LookInv
  <2>1. LookTypes'
    BY DEF LookTypes
  <2>2. Protocol'
    BY DEF LookTypes, Protocol, Settled, Guarded
  <2>3. Guarded'
    BY DEF LookTypes, Guarded, Protocol
  <2>4. Copied'
    BY DEF LookTypes, Copied, Guarded, Locked, Protocol, Settled
  <2>5. ReportIsTrue'
    BY DEF ReportIsTrue, Look!ReportIsTrue, Look!ReportsOneCommit, Look!AvailableMeansFree, Look!MovedAway
  <2>6. QED BY <2>1, <2>2, <2>3, <2>4, <2>5
<1>6. CASE Look!WriteSecond(c)
  <2> USE <1>6 DEF Look!WriteSecond, LookInv
  <2>1. LookTypes'
    <3>1. pages' = <<pages'[1], pages'[2]>>
      BY DEF LookTypes
    <3>2. committed' \in Nat /\ client' = [client EXCEPT ![c] = "none"] /\ journal' = FALSE
      BY DEF LookTypes
    <3>3. UNCHANGED <<path, header, wal, checkpoint, insp>>
      OBVIOUS
    <3> HIDE <1>6
    <3>4. client' \in [Client -> {"none", "reserved", "journal", "pending", "exclusive", "half",
                              "wal"}]
      BY <3>2 DEF LookTypes
    <3>5. insp' = [f \in DOMAIN Look!Idle |-> insp'[f]] /\ insp'.copy = <<insp'.copy[1], insp'.copy[2]>>
      BY <3>3 DEF LookTypes
    <3>6. insp'.pinned \in {"A", "B"} /\ insp'.uses \in {"delete", "wal"}
    /\ insp'.shared \in BOOLEAN /\ insp'.reserved \in BOOLEAN /\ insp'.available \in BOOLEAN
      BY <3>3 DEF LookTypes
    <3>7. QED BY <3>1, <3>2, <3>3, <3>4, <3>5, <3>6 DEF LookTypes
  <2>2. Protocol'
    <3>1. CASE path # "A"
      BY <3>1 DEF LookTypes, Protocol
    <3>2. CASE path = "A"
      <4>1. header = "delete" /\ Look!Reserving = {c} /\ Look!Connected = {} /\ ~wal
        BY <3>2 DEF LookTypes, Protocol
      <4>2. \A d \in Client \ {c} : client[d] \notin {"reserved", "journal", "pending", "exclusive", "half"}
        BY <4>1
      <4>3. pages[1] = committed + 1
        BY <3>2 DEF LookTypes, Protocol
      <4>4. Settled'
        BY <4>3 DEF Settled, LookTypes
      <4>5. \A d \in Client : client'[d] \notin {"reserved", "journal", "pending", "exclusive", "half"}
        BY <4>2 DEF LookTypes
      <4>6. QED BY <3>2, <4>1, <4>4, <4>5 DEF LookTypes, Protocol
    <3>3. QED BY <3>1, <3>2
  <2>3. Guarded'
    BY DEF LookTypes, Guarded, Protocol
  <2>4. Copied'
    BY DEF LookTypes, Copied, Guarded, Locked, Protocol, Settled
  <2>5. ReportIsTrue'
    BY DEF ReportIsTrue, Look!ReportIsTrue, Look!ReportsOneCommit, Look!AvailableMeansFree, Look!MovedAway
  <2>6. QED BY <2>1, <2>2, <2>3, <2>4, <2>5
<1>7. CASE Look!Recover(c)
  <2> USE <1>7 DEF Look!Recover, LookInv
  <2>1. LookTypes'
    BY DEF LookTypes
  <2>2. Protocol'
    BY DEF LookTypes, Protocol, Settled, Guarded
  <2>3. Guarded'
    BY DEF LookTypes, Guarded, Protocol
  <2>4. Copied'
    BY DEF LookTypes, Copied, Guarded, Locked, Protocol, Settled
  <2>5. ReportIsTrue'
    BY DEF ReportIsTrue, Look!ReportIsTrue, Look!ReportsOneCommit, Look!AvailableMeansFree, Look!MovedAway
  <2>6. QED BY <2>1, <2>2, <2>3, <2>4, <2>5
<1>8. CASE Look!SwitchToWal(c)
  <2> USE <1>8 DEF Look!SwitchToWal, LookInv
  <2>1. LookTypes'
    BY DEF LookTypes
  <2>2. Protocol'
    BY DEF LookTypes, Protocol, Settled, Guarded
  <2>3. Guarded'
    BY DEF LookTypes, Guarded, Protocol
  <2>4. Copied'
    BY DEF LookTypes, Copied, Guarded, Locked, Protocol, Settled
  <2>5. ReportIsTrue'
    BY DEF ReportIsTrue, Look!ReportIsTrue, Look!ReportsOneCommit, Look!AvailableMeansFree, Look!MovedAway
  <2>6. QED BY <2>1, <2>2, <2>3, <2>4, <2>5
<1>9. CASE Look!Connect(c)
  <2> USE <1>9 DEF Look!Connect, LookInv
  <2>1. LookTypes'
    BY DEF LookTypes
  <2>2. Protocol'
    BY DEF LookTypes, Protocol, Settled, Guarded
  <2>3. Guarded'
    BY DEF LookTypes, Guarded, Protocol
  <2>4. Copied'
    BY DEF LookTypes, Copied, Guarded, Locked, Protocol, Settled
  <2>5. ReportIsTrue'
    BY DEF ReportIsTrue, Look!ReportIsTrue, Look!ReportsOneCommit, Look!AvailableMeansFree, Look!MovedAway
  <2>6. QED BY <2>1, <2>2, <2>3, <2>4, <2>5
<1>10. CASE Look!CommitToWal(c)
  <2> USE <1>10 DEF Look!CommitToWal, LookInv
  <2>1. LookTypes'
    BY DEF LookTypes
  <2>2. Protocol'
    BY DEF LookTypes, Protocol, Settled, Guarded
  <2>3. Guarded'
    BY DEF LookTypes, Guarded, Protocol
  <2>4. Copied'
    BY DEF LookTypes, Copied, Guarded, Locked, Protocol, Settled
  <2>5. ReportIsTrue'
    BY DEF ReportIsTrue, Look!ReportIsTrue, Look!ReportsOneCommit, Look!AvailableMeansFree, Look!MovedAway
  <2>6. QED BY <2>1, <2>2, <2>3, <2>4, <2>5
<1>11. CASE Look!CheckpointFirst(c)
  <2> USE <1>11 DEF Look!CheckpointFirst, LookInv
  <2>1. LookTypes'
    BY DEF LookTypes
  <2>2. Protocol'
    BY DEF LookTypes, Protocol, Settled, Guarded
  <2>3. Guarded'
    BY DEF LookTypes, Guarded, Protocol
  <2>4. Copied'
    BY DEF LookTypes, Copied, Guarded, Locked, Protocol, Settled
  <2>5. ReportIsTrue'
    BY DEF ReportIsTrue, Look!ReportIsTrue, Look!ReportsOneCommit, Look!AvailableMeansFree, Look!MovedAway
  <2>6. QED BY <2>1, <2>2, <2>3, <2>4, <2>5
<1>12. CASE Look!CheckpointSecond(c)
  <2> USE <1>12 DEF Look!CheckpointSecond, LookInv
  <2>1. LookTypes'
    BY DEF LookTypes
  <2>2. Protocol'
    BY DEF LookTypes, Protocol, Settled, Guarded
  <2>3. Guarded'
    BY DEF LookTypes, Guarded, Protocol
  <2>4. Copied'
    BY DEF LookTypes, Copied, Guarded, Locked, Protocol, Settled
  <2>5. ReportIsTrue'
    BY DEF ReportIsTrue, Look!ReportIsTrue, Look!ReportsOneCommit, Look!AvailableMeansFree, Look!MovedAway
  <2>6. QED BY <2>1, <2>2, <2>3, <2>4, <2>5
<1>13. CASE Look!Close(c)
  <2> USE <1>13 DEF Look!Close, LookInv
  <2>1. LookTypes'
    <3>1. pages' = pages \/ pages' = <<committed, committed>>
      OBVIOUS
    <3>2. pages' = <<pages'[1], pages'[2]>>
      BY <3>1 DEF LookTypes
    <3>3. wal' \in BOOLEAN /\ client' = [client EXCEPT ![c] = "none"]
      BY DEF LookTypes
    <3>4. QED BY <3>2, <3>3 DEF LookTypes
  <2>2. Protocol'
    BY DEF LookTypes, Protocol, Settled, Guarded
  <2>3. Guarded'
    BY DEF LookTypes, Guarded, Protocol
  <2>4. Copied'
    BY DEF LookTypes, Copied, Guarded, Locked, Protocol, Settled
  <2>5. ReportIsTrue'
    BY DEF ReportIsTrue, Look!ReportIsTrue, Look!ReportsOneCommit, Look!AvailableMeansFree, Look!MovedAway
  <2>6. QED BY <2>1, <2>2, <2>3, <2>4, <2>5
<1>14. CASE Look!Die(c)
  <2> USE <1>14 DEF Look!Die, LookInv
  <2>1. LookTypes'
    BY DEF LookTypes
  <2>2. Protocol'
    BY DEF LookTypes, Protocol, Settled, Guarded
  <2>3. Guarded'
    BY DEF LookTypes, Guarded, Protocol
  <2>4. Copied'
    BY DEF LookTypes, Copied, Guarded, Locked, Protocol, Settled
  <2>5. ReportIsTrue'
    BY DEF ReportIsTrue, Look!ReportIsTrue, Look!ReportsOneCommit, Look!AvailableMeansFree, Look!MovedAway
  <2>6. QED BY <2>1, <2>2, <2>3, <2>4, <2>5
<1>15. QED BY <1>1, <1>2, <1>3, <1>4, <1>5, <1>6, <1>7, <1>8, <1>9, <1>10, <1>11, <1>12, <1>13, <1>14

LEMMA ReplaceStep ==
    ASSUME LookInv, Look!Replace
    PROVE  LookInv'
<1> USE DEF Look!Replace, LookInv
<1>1. LookTypes'
  BY DEF LookTypes
<1>2. Protocol' /\ Copied' /\ Guarded'
  BY DEF LookTypes, Protocol, Copied, Guarded, Locked, Look!Holding, Look!Exclusive, Look!Reserving
<1>3. ReportIsTrue'
  BY DEF ReportIsTrue, Look!ReportIsTrue, Look!ReportsOneCommit, Look!AvailableMeansFree, Look!MovedAway
<1>4. QED BY <1>1, <1>2, <1>3

LEMMA LookStarts == Look!IInit => LookInv
<1> SUFFICES ASSUME Look!IInit PROVE LookInv
  OBVIOUS
<1> USE DEF Look!IInit
<1>1. LookTypes
  BY DEF LookTypes, Look!Idle
<1>2. Protocol
  BY DEF Protocol, Settled, Look!Holding, Look!Reserving, Look!Connected
<1>3. Guarded /\ Copied /\ ReportIsTrue
  BY DEF Guarded, Locked, Copied, Look!Idle, ReportIsTrue, Look!ReportIsTrue,
         Look!ReportsOneCommit, Look!AvailableMeansFree, Look!MovedAway
<1>4. QED BY <1>1, <1>2, <1>3 DEF LookInv

LEMMA LookStep ==
    ASSUME LookInv, Look!INext
    PROVE  LookInv'
<1>1. CASE Look!Refuse
  BY <1>1, RefuseStep
<1>2. CASE Look!Inspect /\ ~Look!Refuse
  BY <1>2, CheckIdentityStep, PinStep, LookForSidecarsStep, ReadHeaderStep, LockPendingStep, LockSharedStep, ReserveStep, CopyFirstStep, CopySecondStep, LookAgainStep, FinishStep DEF Look!Inspect
<1>3. CASE Look!Preflight
  BY <1>3, PreflightStep
<1>4. CASE Look!Deadline
  BY <1>4, RefuseStep DEF Look!Deadline
<1>5. CASE Look!Replace
  BY <1>5, ReplaceStep
<1>6. ASSUME NEW c \in Client,
             \/ Look!BeginWrite(c) \/ Look!OpenJournal(c) \/ Look!TakePending(c)
             \/ Look!TakeExclusive(c) \/ Look!WriteFirst(c) \/ Look!WriteSecond(c)
             \/ Look!Recover(c) \/ Look!SwitchToWal(c) \/ Look!Connect(c)
             \/ Look!CommitToWal(c) \/ Look!CheckpointFirst(c) \/ Look!CheckpointSecond(c)
             \/ Look!Close(c) \/ Look!Die(c)
      PROVE  LookInv'
  BY <1>6, ClientStep
<1>7. QED BY <1>1, <1>2, <1>3, <1>4, <1>5, <1>6 DEF Look!INext

----------------------------------------------------------------------------
(* Opening *)

\* What migration v creates, in its own definition.
Created(v) == Open!Named(Open!Added(v) \cup Open!Replaced(v), v)

LEMMA ObjectsOf ==
    ASSUME NEW v \in 0..7, NEW o
    PROVE  o \in Open!Manifest[v] <=>
              \E u \in 1..v : \E n \in Open!Added(u) \cup Open!Replaced(u) :
                 /\ o = [name |-> n, def |-> u]
                 /\ \A w \in u + 1..v : n \notin Open!Replaced(w)
<1>1. Open!Manifest[v] = {p \in UNION {Open!Named(Open!Added(u) \cup Open!Replaced(u), u) : u \in 1..v} :
            \A w \in p.def + 1..v : p.name \notin Open!Replaced(w)}
  <2>1. v \in 0..Open!SchemaVersion + 1
    BY DEF Open!SchemaVersion
  <2>2. QED BY <2>1, Zenon DEF Open!Manifest
<1>2. \A u : o \in Open!Named(Open!Added(u) \cup Open!Replaced(u), u) <=>
        \E n \in Open!Added(u) \cup Open!Replaced(u) : o = [name |-> n, def |-> u]
  BY DEF Open!Named
<1>3. o \in UNION {Open!Named(Open!Added(u) \cup Open!Replaced(u), u) : u \in 1..v} <=>
        \E u \in 1..v : o \in Open!Named(Open!Added(u) \cup Open!Replaced(u), u)
  BY Zenon
<1>4. o \in Open!Manifest[v] <=>
        /\ \E u \in 1..v : \E n \in Open!Added(u) \cup Open!Replaced(u) : o = [name |-> n, def |-> u]
        /\ \A w \in o.def + 1..v : o.name \notin Open!Replaced(w)
  BY <1>1, <1>2, <1>3, Zenon
<1>5. QED BY <1>4

LEMMA ManifestGrows ==
    ASSUME NEW v \in 0..5
    PROVE  Open!Manifest[v + 1] =
              {o \in Open!Manifest[v] : o.name \notin Open!Replaced(v + 1)} \cup Created(v + 1)
<1>1. ASSUME NEW o
      PROVE  o \in Open!Manifest[v + 1] <=>
                \/ o \in Open!Manifest[v] /\ o.name \notin Open!Replaced(v + 1)
                \/ o \in Created(v + 1)
  <2>1. o \in Created(v + 1) <=>
        \E n \in Open!Added(v + 1) \cup Open!Replaced(v + 1) : o = [name |-> n, def |-> v + 1]
    BY DEF Created, Open!Named
  <2>2. ASSUME NEW u \in 1..v, NEW n
        PROVE  (\A w \in u + 1..v + 1 : n \notin Open!Replaced(w)) <=>
               (\A w \in u + 1..v : n \notin Open!Replaced(w)) /\ n \notin Open!Replaced(v + 1)
    <3>1. u + 1..v + 1 = (u + 1..v) \cup {v + 1}
      OBVIOUS
    <3>2. QED BY <3>1
  <2>3. v + 1 + 1..v + 1 = {}
    OBVIOUS
  <2>4. 1..v + 1 = (1..v) \cup {v + 1} /\ v \in 0..7 /\ v + 1 \in 0..7
    OBVIOUS
  <2>5. QED BY <2>1, <2>2, <2>3, <2>4, ObjectsOf
<1>2. QED BY <1>1

LEMMA MigrationApplies ==
    ASSUME NEW d, NEW v \in 0..5, d.objects = Open!Manifest[v]
    PROVE  Open!CanMigrate(d, v + 1)
<1> DEFINE Names == {o.name : o \in d.objects}
<1>1. \A n : n \in Names <=> \E u \in 1..v : /\ n \in Open!Added(u) \cup Open!Replaced(u)
                                             /\ \A w \in u + 1..v : n \notin Open!Replaced(w)
  <2>1. v \in 0..7
    OBVIOUS
  <2>2. ASSUME NEW n \in Names
        PROVE  \E u \in 1..v : /\ n \in Open!Added(u) \cup Open!Replaced(u)
                               /\ \A w \in u + 1..v : n \notin Open!Replaced(w)
    <3>1. PICK o \in Open!Manifest[v] : n = o.name
      OBVIOUS
    <3>2. QED BY <2>1, <3>1, ObjectsOf
  <2>3. ASSUME NEW n, NEW u \in 1..v, n \in Open!Added(u) \cup Open!Replaced(u),
               \A w \in u + 1..v : n \notin Open!Replaced(w)
        PROVE  n \in Names
    <3>1. [name |-> n, def |-> u] \in Open!Manifest[v]
      BY <2>1, <2>3, ObjectsOf
    <3>2. QED BY <3>1
  <2>4. QED BY <2>2, <2>3
<1>2. Open!Replaced(v + 1) \subseteq Names
  <2>1. CASE v \in {0, 3, 5}
    BY <2>1 DEF Open!Replaced
  <2>2. CASE v \in {1, 2}
    <3>1. \A n \in Open!Replaced(v + 1) : n \in Open!Added(1) /\ \A w \in 2..v : n \notin Open!Replaced(w)
      BY <2>2 DEF Open!Replaced, Open!Added, Open!V1
    <3>2. 1 \in 1..v /\ 1 + 1 = 2
      BY <2>2
    <3>3. QED BY <1>1, <3>1, <3>2
  <2>3. CASE v = 4
    <3>1. \A n \in Open!Replaced(v + 1) : n \in Open!Replaced(2) /\ \A w \in 3..v : n \notin Open!Replaced(w)
      BY <2>3 DEF Open!Replaced
    <3>2. 2 \in 1..v /\ 2 + 1 = 3
      BY <2>3
    <3>3. QED BY <1>1, <3>1, <3>2
  <2>4. QED BY <2>1, <2>2, <2>3
<1>3. Open!Added(v + 1) \cap Names = {}
  <2>1. \A u, w \in 1..6 : u < w => (Open!Added(u) \cup Open!Replaced(u)) \cap Open!Added(w) = {}
    BY DEF Open!Replaced, Open!Added, Open!V1, Open!V2Indexes, Open!V4, Open!V5, Open!V5Triggers, Open!V6, Open!V6Triggers
  <2>2. QED BY <2>1, <1>1
<1>4. QED BY <1>2, <1>3 DEF Open!CanMigrate

(***************************************************************************)
(* The inductive invariant of opening                                      *)
(***************************************************************************)

\* A file as some release left it, or a stranger's, or an empty one.
Whole(d) ==
    /\ d \in Open!Database
    /\ d.app => /\ d.version # 0 /\ d.objects = Open!Manifest[d.version]
                /\ d.live \subseteq d.heads /\ d.live \subseteq d.fts
                /\ d.version >= 4 => d.metadata = d.heads
                /\ d.version >= 6 => d.fingerprints = d.heads
    /\ ~d.app => d.version = 0 /\ d.heads = {} /\ d.live = {}

Upgradable(d) == d.app \/ d.objects = {}
Latest(d) == d.app /\ d.version = 6
Searchable(d) == Latest(d) /\ d.mode = "wal" /\ d.live \subseteq d.fts /\ d.live \subseteq d.aliases

Inside == {"recheck", "migrate", "repairing", "writing"}
AfterMigration == {"check", "repair", "repairing", "open", "writing"}

OpenTypes ==
    /\ lock \in Process \cup {None}
    /\ pc \in [Process -> Open!Step]
    /\ seen = [p \in Process |-> seen[p]] /\ \A p \in Process : "version" \in DOMAIN seen[p]
    /\ Whole(database) /\ Whole(work)

\* Who holds the write lock is inside a transaction; from then on the file is
\* in WAL mode.
Locking ==
    /\ \A p \in Process : pc[p] \in Inside <=> lock = p
    /\ \A p \in Process : pc[p] \in {"begin", "recheck", "migrate"} \cup AfterMigration =>
                            database.mode = "wal"
    /\ lock # None => work.mode = "wal"

\* What a process knows of the file, and of its private copy, at each step.
Known(p) ==
    /\ pc[p] = "identify" => seen[p] = Open!Unread
    /\ pc[p] \in AfterMigration => Latest(database)
    /\ pc[p] \in {"open", "writing"} => Searchable(database)
    /\ pc[p] \in {"repairing", "writing"} => Searchable(work)
    /\ pc[p] = "recheck" => work = database
    /\ pc[p] = "migrate" =>
          /\ Upgradable(database) /\ Upgradable(work)
          /\ database.version <= 6
          /\ seen[p].version = work.version /\ work.version <= 6
          /\ database.version = 6 => work = database
    /\ pc[p] # "exists"
    /\ pc[p] = "identity" => Open!Refused(Open!IdentityOf(database))

OpenInv == OpenTypes /\ Locking /\ \A p \in Process : Known(p)

\* The schema objects a file can have.
Objects == {[name |-> "foreign", def |-> 0]} \cup Open!Manifest[7]
              \cup UNION {Open!Manifest[u] : u \in 1..6}

LEMMA ManifestKnown ==
    ASSUME NEW v \in 0..7
    PROVE  Open!Manifest[v] \subseteq Objects
<1>1. Open!Manifest[0] = {}
  BY ObjectsOf, 0 \in 0..7
<1>2. v = 0 \/ v = 7 \/ v \in 1..6
  OBVIOUS
<1>3. QED BY <1>1, <1>2, Zenon DEF Objects

Rows == [app: BOOLEAN, version: 0..7, objects: SUBSET Objects, mode: {"delete", "wal"},
         heads: SUBSET Held, live: SUBSET Held, fts: SUBSET Held, metadata: SUBSET Held,
         aliases: SUBSET Held, fingerprints: SUBSET Held]

LEMMA DatabaseIs == Open!Database = Rows
<1>1. Open!SchemaVersion = 6 /\ 6 + 1 = 7
  BY DEF Open!SchemaVersion
<1>2. QED BY <1>1, Zenon DEF Open!Database, Objects, Rows

\* The header's mode changes alone.
LEMMA ModeChanges ==
    ASSUME NEW d, Whole(d), NEW e, e = [d EXCEPT !.mode = "wal"]
    PROVE  /\ Whole(e) /\ e.mode = "wal" /\ (d.mode = "wal" => e = d)
           /\ e.app = d.app /\ e.version = d.version /\ e.objects = d.objects /\ e.live = d.live
           /\ e.fts = d.fts /\ e.aliases = d.aliases
BY DatabaseIs DEF Whole, Rows

LEMMA RepairStep ==
    ASSUME NEW d, Whole(d), Latest(d), d.mode = "wal"
    PROVE  LET e == IF Open!AliasesIncomplete(d) THEN Open!Repaired(d) ELSE d
           IN Whole(e) /\ Searchable(e)
<1>1. CASE Open!AliasesIncomplete(d)
  <2>1. PICK e : e = [d EXCEPT !.fts = @ \cup d.live, !.aliases = @ \cup d.live]
    OBVIOUS
  <2>2. e \in Rows
    BY <2>1, DatabaseIs DEF Whole, Rows
  <2>3. /\ e.app = d.app /\ e.version = d.version /\ e.objects = d.objects /\ e.mode = d.mode
        /\ e.heads = d.heads /\ e.live = d.live /\ e.metadata = d.metadata
        /\ e.fingerprints = d.fingerprints
        /\ e.fts = d.fts \cup d.live /\ e.aliases = d.aliases \cup d.live
    BY <2>1, DatabaseIs DEF Whole, Rows
  <2>4. Whole(e) /\ Searchable(e)
    BY <2>2, <2>3, DatabaseIs DEF Whole, Searchable, Latest
  <2>5. QED BY <1>1, <2>1, <2>4 DEF Open!Repaired
<1>2. CASE ~Open!AliasesIncomplete(d)
  BY <1>2 DEF Open!AliasesIncomplete, Whole, Searchable, Latest
<1>3. QED BY <1>1, <1>2

LEMMA WriteStep ==
    ASSUME NEW d, Whole(d), Searchable(d), NEW m \in Held, NEW e,
           \/ e = [d EXCEPT !.heads = @ \cup {m}, !.live = @ \cup {m}, !.fts = @ \cup {m},
                            !.metadata = @ \cup {m}, !.aliases = @ \cup {m},
                            !.fingerprints = @ \cup {m}]
           \/ e = [d EXCEPT !.live = @ \ {m}, !.fts = @ \ {m}, !.aliases = @ \ {m}]
    PROVE  Whole(e) /\ Searchable(e)
<1>1. e \in Rows
  <2>1. d \in Rows
    BY DatabaseIs DEF Whole
  <2>2. CASE e = [d EXCEPT !.live = @ \ {m}, !.fts = @ \ {m}, !.aliases = @ \ {m}]
    BY <2>1, <2>2 DEF Rows
  <2>3. CASE e = [d EXCEPT !.heads = @ \cup {m}, !.live = @ \cup {m}, !.fts = @ \cup {m},
                           !.metadata = @ \cup {m}, !.aliases = @ \cup {m},
                           !.fingerprints = @ \cup {m}]
    BY <2>1, <2>3 DEF Rows
  <2>4. QED BY <2>2, <2>3
<1>2. e.app = d.app /\ e.version = d.version /\ e.objects = d.objects /\ e.mode = d.mode
  BY DatabaseIs DEF Whole, Rows
<1>3. \/ /\ e.heads = d.heads \cup {m} /\ e.live = d.live \cup {m} /\ e.fts = d.fts \cup {m}
         /\ e.metadata = d.metadata \cup {m} /\ e.aliases = d.aliases \cup {m}
         /\ e.fingerprints = d.fingerprints \cup {m}
      \/ /\ e.heads = d.heads /\ e.live = d.live \ {m} /\ e.fts = d.fts \ {m}
         /\ e.metadata = d.metadata /\ e.aliases = d.aliases \ {m}
         /\ e.fingerprints = d.fingerprints
  BY DatabaseIs DEF Whole, Rows
<1>4. QED BY <1>1, <1>2, <1>3, DatabaseIs DEF Whole, Searchable, Latest

LEMMA MigrationStep ==
    ASSUME NEW d, Whole(d), Upgradable(d), d.version <= 5
    PROVE  /\ Open!CanMigrate(d, d.version + 1)
           /\ Whole(Open!Migrated(d, d.version + 1))
           /\ Open!Migrated(d, d.version + 1).version = d.version + 1
           /\ Open!Migrated(d, d.version + 1).app
           /\ Open!Migrated(d, d.version + 1).mode = d.mode
<1> DEFINE v == d.version
           O == Open!Upgraded(d, v + 1)
           M == Open!Migrated(d, v + 1)
<1>1. v \in 0..5 /\ v + 1 \in 1..6 /\ d.objects = Open!Manifest[v]
  <2>1. v \in 0..5
    BY DatabaseIs DEF Rows, Whole
  <2>2. Open!Manifest[0] = {}
    BY ObjectsOf, 0 \in 0..7
  <2>3. QED BY <2>1, <2>2 DEF Whole, Upgradable
<1>2. Open!CanMigrate(d, v + 1)
  BY <1>1, MigrationApplies
<1>3. Open!Manifest[v + 1] =
         {o \in d.objects : o.name \notin Open!Replaced(v + 1)}
            \cup Open!Named(Open!Added(v + 1) \cup Open!Replaced(v + 1), v + 1)
  BY <1>1, ManifestGrows DEF Created
<1>4. O = [d EXCEPT !.app = TRUE, !.version = v + 1, !.objects = Open!Manifest[v + 1]]
  BY <1>3 DEF Open!Upgraded
<1>5. Open!Manifest[v + 1] \subseteq Objects
  BY <1>1, ManifestKnown
<1>6. O \in Open!Database
  <2>1. d \in Open!Database /\ v + 1 \in 0..7 /\ Open!Manifest[v + 1] \in SUBSET Objects
    BY <1>1, <1>5 DEF Whole
  <2> HIDE DEF v
  <2>2. QED BY <2>1, <1>4, DatabaseIs DEF Rows
<1>7. /\ O.app /\ O.version = v + 1 /\ O.objects = Open!Manifest[v + 1] /\ O.mode = d.mode
      /\ O.heads = d.heads /\ O.live = d.live /\ O.fts = d.fts /\ O.metadata = d.metadata
      /\ O.fingerprints = d.fingerprints
  BY <1>4, DatabaseIs DEF Rows, Whole
<1>8. /\ d.heads \in SUBSET Held /\ d.live \in SUBSET Held
      /\ d.live \subseteq d.heads
      /\ v + 1 # 1 => d.live \subseteq d.fts
      /\ v + 1 > 4 => d.metadata = d.heads
      /\ v = 0 => d.live = {}
  BY <1>1, DatabaseIs DEF Rows, Whole
<1> HIDE DEF O
<1>9. /\ v + 1 = 2 => M = [O EXCEPT !.fts = d.heads]
      /\ v + 1 = 4 => M = [O EXCEPT !.metadata = d.heads]
      /\ v + 1 = 5 => M = [O EXCEPT !.fts = d.live, !.aliases = {}]
      /\ v + 1 = 6 => M = [O EXCEPT !.fingerprints = d.heads]
      /\ v + 1 \in {1, 3} => M = O
  BY DEF Open!Migrated, O
<1> HIDE DEF M
<1> DEFINE Done ==
        /\ M \in Open!Database /\ M.version = v + 1 /\ M.app
        /\ M.objects = Open!Manifest[v + 1] /\ M.mode = d.mode
        /\ M.live = d.live /\ M.heads = d.heads
        /\ IF v + 1 \in {2, 5} THEN d.live \subseteq M.fts ELSE M.fts = d.fts
        /\ M.metadata = IF v + 1 = 4 THEN d.heads ELSE d.metadata
        /\ v + 1 = 6 => M.fingerprints = d.heads
<1>10. Done
  <2> USE <1>6, <1>7, <1>8, DatabaseIs DEF Rows
  <2>1. CASE v + 1 = 2 BY <1>9, <2>1
  <2>2. CASE v + 1 = 4 BY <1>9, <2>2
  <2>3. CASE v + 1 = 5
    <3>1. M = [O EXCEPT !.fts = d.live, !.aliases = {}] BY <1>9, <2>3
    <3>2. M \in Open!Database BY <3>1
    <3>3. /\ M.app = O.app /\ M.version = O.version /\ M.objects = O.objects /\ M.mode = O.mode
          /\ M.live = O.live /\ M.heads = O.heads /\ M.metadata = O.metadata
          /\ M.fts = d.live
      BY <3>1
    <3>4. QED BY <3>2, <3>3, <2>3, <1>1
  <2>4. CASE v + 1 = 6 BY <1>9, <2>4
  <2>5. CASE v + 1 \in {1, 3}
    <3>1. M = O BY <1>9, <2>5
    <3>2. QED BY <3>1, <2>5, <1>1
  <2>6. QED BY <1>1, <2>1, <2>2, <2>3, <2>4, <2>5
<1>12. Whole(M)
  BY <1>1, <1>8, <1>10 DEF Whole
<1>13. QED BY <1>2, <1>10, <1>12 DEF M

LEMMA RefusedIs ==
    ASSUME NEW d, Whole(d)
    PROVE  /\ Open!Refused(Open!IdentityOf(d)) <=> ~(Upgradable(d) /\ d.version <= 6)
           /\ "version" \in DOMAIN Open!IdentityOf(d)
           /\ Open!IdentityOf(d).version = d.version
<1>1. d.app \in BOOLEAN /\ d.version \in 0..7 /\ (~d.app => d.version = 0)
  BY DatabaseIs DEF Whole, Rows
<1>2. PICK empty : empty = (d.objects = {})
  BY Zenon
<1>3. Open!IdentityOf(d) = [reads |-> 1, app |-> d.app, version |-> d.version, empty |-> empty]
  BY <1>2, Zenon DEF Open!IdentityOf
<1> DEFINE i == Open!IdentityOf(d)
<1>4. i.app = d.app /\ i.version = d.version /\ i.empty = empty /\ "version" \in DOMAIN i
  BY <1>3
<1>5. empty <=> d.objects = {}
  BY <1>2
<1> HIDE DEF i
<1>6. Open!Refused(i) <=> ~(Upgradable(d) /\ d.version <= 6)
  BY <1>1, <1>4, <1>5 DEF Upgradable, Open!Refused, Open!SchemaVersion
<1>7. QED BY <1>4, <1>6 DEF i

LEMMA ReadAtOnce ==
    ASSUME NEW p, seen[p] = Open!Unread, NEW d
    PROVE  Open!Read(p, d) = Open!IdentityOf(d) /\ Open!Read(p, d).reads = 1
<1>1. seen[p].reads + 1 = 1
  BY DEF Open!Unread
<1>2. Open!IdentityReads[1] = Open!Fields
  BY DEF Open!IdentityReads
<1>3. {"app", "version", "objects"} = Open!Fields
  BY DEF Open!Fields
<1>4. Open!Read(p, d) = [reads |-> 1, app |-> d.app, version |-> d.version, empty |-> d.objects = {}]
  BY <1>1, <1>2, <1>3 DEF Open!Read
<1>5. QED BY <1>4 DEF Open!IdentityOf

LEMMA OpenStarts == Open!OInit => OpenInv
<1> SUFFICES ASSUME Open!OInit PROVE OpenInv
  OBVIOUS
<1>1. PICK v \in Left : database \in IF v = -1 THEN {Open!Foreign} ELSE Open!LeftBehind(v)
  BY DEF Open!OInit
<1>2. v \in -1..7
  BY <1>1, OpeningAssumption DEF Open!OpeningAssumption, Open!SchemaVersion
<1>3. Whole(database)
  <2>1. CASE v = -1
    <3>1. database = Open!Foreign
      BY <1>1, <2>1
    <3>2. {[name |-> "foreign", def |-> 0]} \in SUBSET Objects
      BY DEF Objects
    <3>3. database \in Rows
      BY <3>1, <3>2 DEF Rows, Open!Foreign
    <3>4. ~database.app /\ database.version = 0 /\ database.heads = {} /\ database.live = {}
      BY <3>1 DEF Open!Foreign
    <3>5. QED BY <3>3, <3>4, DatabaseIs DEF Whole
  <2>2. CASE v = 0
    <3>1. database = [app |-> FALSE, version |-> 0, objects |-> Open!Manifest[0],
                 mode |-> "delete", heads |-> {}, live |-> {}, fts |-> {},
                 metadata |-> {}, aliases |-> {}, fingerprints |-> {}]
      <4>1. (0 > 0) = FALSE /\ (0 >= 4) = FALSE /\ (0 >= 5) = FALSE /\ (0 >= 6) = FALSE
        OBVIOUS
      <4>2. database = Open!OfRelease(0, {}, {}, {}, "delete")
        BY <1>1, <2>2 DEF Open!LeftBehind
      <4>3. QED BY <4>1, <4>2, Zenon DEF Open!OfRelease
    <3>2. Open!Manifest[0] \in SUBSET Objects
      BY ManifestKnown, 0 \in 0..7
    <3>3. database \in Rows
      BY <3>1, <3>2 DEF Rows
    <3>4. QED BY <3>1, <3>3, DatabaseIs DEF Whole
  <2>3. CASE v \in 1..7
    <3>1. PICK H \in SUBSET Held, L \in SUBSET Held, A \in SUBSET Held, mode \in {"delete", "wal"} :
             /\ L \subseteq H
             /\ database = [app |-> TRUE, version |-> v, objects |-> Open!Manifest[v], mode |-> mode,
                            heads |-> H, live |-> L, fts |-> L,
                            metadata |-> IF v >= 4 THEN H ELSE {},
                            aliases |-> IF v >= 5 THEN A \cap L ELSE {},
                            fingerprints |-> IF v >= 6 THEN H ELSE {}]
      <4>1. (v > 0) = TRUE /\ v # 0 /\ v # -1
        BY <2>3
      <4>2. PICK x \in {y \in (SUBSET Held) \X (SUBSET Held) : y[2] \subseteq y[1]},
                 A \in SUBSET Held, mode \in {"delete", "wal"} :
               database = Open!OfRelease(v, x[1], x[2], A, mode)
        BY <1>1, <4>1 DEF Open!LeftBehind
      <4>3. x[1] \in SUBSET Held /\ x[2] \in SUBSET Held /\ x[2] \subseteq x[1]
        OBVIOUS
      <4>4. database = [app |-> TRUE, version |-> v, objects |-> Open!Manifest[v], mode |-> mode,
                            heads |-> x[1], live |-> x[2], fts |-> x[2],
                            metadata |-> IF v >= 4 THEN x[1] ELSE {},
                            aliases |-> IF v >= 5 THEN A \cap x[2] ELSE {},
                            fingerprints |-> IF v >= 6 THEN x[1] ELSE {}]
        BY <4>1, <4>2, Zenon DEF Open!OfRelease
      <4>5. QED BY <4>3, <4>4
    <3>2. Open!Manifest[v] \in SUBSET Objects
      BY <2>3, ManifestKnown
    <3>3. v \in 0..7
      BY <2>3
    <3>4. database \in Rows
      BY <3>3, <3>1, <3>2 DEF Rows
    <3>5. QED BY <2>3, <3>1, <3>4, DatabaseIs DEF Whole
  <2>4. QED BY <1>2, <2>1, <2>2, <2>3
<1>4. None \notin Process
  BY OpeningAssumption DEF Open!OpeningAssumption
<1>5. "version" \in DOMAIN Open!Unread
  BY DEF Open!Unread
<1>6. OpenTypes
  BY <1>3, <1>5 DEF OpenTypes, Open!OInit, Open!Step
<1>7. Locking /\ \A p \in Process : Known(p)
  BY <1>4 DEF Locking, Known, Open!OInit, Inside, AfterMigration
<1>8. QED BY <1>6, <1>7 DEF OpenInv

LEMMA OpenProcessStep ==
    ASSUME OpenInv, NEW p \in Process,
           \/ Open!Start(p) \/ Open!Identify(p) \/ Open!Expire(p) \/ Open!GiveUp(p)
           \/ Open!SwitchToWal(p) \/ Open!BeginImmediate(p) \/ Open!Recheck(p) \/ Open!Migrate(p)
           \/ Open!Commit(p) \/ Open!CheckIndexes(p) \/ Open!BeginRepair(p) \/ Open!CommitRepair(p)
           \/ Open!BeginWrite(p) \/ Open!CommitWrite(p) \/ Open!Fail(p) \/ Open!Crash(p)
    PROVE  OpenInv'
<1> None \notin Process
  BY OpeningAssumption DEF Open!OpeningAssumption
<1> USE DEF OpenInv, Open!Goto, Inside, AfterMigration, Latest
<1>1. CASE Open!Start(p)
  <2> USE <1>1 DEF Open!Start
  <2>1. OpenTypes'
    BY DEF OpenTypes, Open!Unread, Open!Step, Open!Failure
  <2>2. Locking'
    BY DEF OpenTypes, Locking, Known
  <2>3. Known(p)'
    BY RefusedIs DEF OpenTypes, Locking, Known, Searchable
  <2>4. \A q \in Process \ {p} : Known(q)'
    BY DEF OpenTypes, Locking, Known, Searchable
  <2>5. QED BY <2>1, <2>2, <2>3, <2>4
<1>2. CASE Open!Identify(p)
  <2> USE <1>2 DEF Open!Identify, Open!IdentityReads
  <2>0. /\ seen' = [seen EXCEPT ![p] = Open!IdentityOf(database)]
        /\ pc' = [pc EXCEPT ![p] = IF Open!Refused(Open!IdentityOf(database)) THEN "identity"
                                   ELSE "wal"]
    <3>1. Open!Read(p, database) = Open!IdentityOf(database) /\ Open!Read(p, database).reads = 1
      BY ReadAtOnce DEF Known
    <3>2. Len(Open!IdentityReads) = 1
      BY DEF Open!IdentityReads
    <3>3. seen'[p] = Open!IdentityOf(database) /\ seen'[p].reads = 1
      BY <3>1 DEF OpenTypes
    <3>4. pc' = [pc EXCEPT ![p] = IF seen'[p].reads < Len(Open!IdentityReads) THEN "identify"
                                  ELSE IF Open!Refused(seen'[p]) THEN "identity" ELSE "wal"]
      OBVIOUS
    <3>5. ~(seen'[p].reads < Len(Open!IdentityReads))
      BY <3>2, <3>3
    <3>6. QED BY <3>1, <3>3, <3>4, <3>5
  <2>1. OpenTypes'
    BY <2>0, RefusedIs DEF OpenTypes, Known, Open!Step, Open!Failure
  <2>2. Locking'
    BY <2>0 DEF OpenTypes, Locking, Known
  <2>3. Known(p)'
    BY <2>0, RefusedIs DEF OpenTypes, Locking, Known, Searchable
  <2>4. \A q \in Process \ {p} : Known(q)'
    BY <2>0 DEF OpenTypes, Locking, Known, Searchable
  <2>5. QED BY <2>1, <2>2, <2>3, <2>4
<1>3. CASE Open!Expire(p)
  <2> USE <1>3 DEF Open!Expire
  <2>1. OpenTypes'
    BY RefusedIs DEF OpenTypes, Known, Open!Step, Open!Failure
  <2>2. Locking'
    BY DEF OpenTypes, Locking, Known
  <2>3. Known(p)'
    BY RefusedIs DEF OpenTypes, Locking, Known, Searchable
  <2>4. \A q \in Process \ {p} : Known(q)'
    BY DEF OpenTypes, Locking, Known, Searchable
  <2>5. QED BY <2>1, <2>2, <2>3, <2>4
<1>4. CASE Open!GiveUp(p)
  <2> USE <1>4 DEF Open!GiveUp, Open!Waiting
  <2>1. OpenTypes'
    BY RefusedIs DEF OpenTypes, Known, Open!Step, Open!Failure
  <2>2. Locking'
    BY DEF OpenTypes, Locking, Known
  <2>3. Known(p)'
    BY RefusedIs DEF OpenTypes, Locking, Known, Searchable
  <2>4. \A q \in Process \ {p} : Known(q)'
    BY DEF OpenTypes, Locking, Known, Searchable
  <2>5. QED BY <2>1, <2>2, <2>3, <2>4
<1>5. CASE Open!SwitchToWal(p)
  <2> USE <1>5 DEF Open!SwitchToWal
  <2>0. /\ Whole(database') /\ database'.mode = "wal"
        /\ database'.app = database.app /\ database'.version = database.version
        /\ database'.objects = database.objects /\ database'.live = database.live
        /\ database'.fts = database.fts /\ database'.aliases = database.aliases
        /\ Open!Refused(Open!IdentityOf(database)) => Open!Refused(Open!IdentityOf(database'))
        /\ database.mode = "wal" => database' = database
    <3>1. Whole(database) /\ database' = [database EXCEPT !.mode = "wal"]
      BY DEF OpenTypes
    <3>2. PICK e : e = database'
      OBVIOUS
    <3>3. /\ Whole(e) /\ e.mode = "wal" /\ (database.mode = "wal" => e = database)
          /\ e.app = database.app /\ e.version = database.version /\ e.objects = database.objects
          /\ e.live = database.live /\ e.fts = database.fts /\ e.aliases = database.aliases
      BY <3>1, <3>2, ModeChanges
    <3>4. Open!Refused(Open!IdentityOf(database)) => Open!Refused(Open!IdentityOf(e))
      BY <3>1, <3>3, RefusedIs DEF Upgradable
    <3>5. QED BY <3>2, <3>3, <3>4
  <2>1. OpenTypes'
    BY <2>0, RefusedIs DEF OpenTypes, Known, Open!Step, Open!Failure
  <2>2. Locking'
    BY <2>0 DEF OpenTypes, Locking, Known
  <2>3. Known(p)'
    BY <2>0, RefusedIs DEF OpenTypes, Locking, Known, Searchable
  <2>4. \A q \in Process \ {p} : Known(q)'
    BY <2>0 DEF OpenTypes, Locking, Known, Searchable
  <2>5. QED BY <2>1, <2>2, <2>3, <2>4
<1>6. CASE Open!BeginImmediate(p)
  <2> USE <1>6 DEF Open!BeginImmediate
  <2>1. OpenTypes'
    BY RefusedIs DEF OpenTypes, Known, Open!Step, Open!Failure
  <2>2. Locking'
    BY DEF OpenTypes, Locking, Known
  <2>3. Known(p)'
    BY RefusedIs DEF OpenTypes, Locking, Known, Searchable
  <2>4. \A q \in Process \ {p} : Known(q)'
    BY DEF OpenTypes, Locking, Known, Searchable
  <2>5. QED BY <2>1, <2>2, <2>3, <2>4
<1>7. CASE Open!Recheck(p)
  <2> USE <1>7 DEF Open!Recheck, Open!VersionRead, Open!AfterRollback
  <2>1. OpenTypes'
    BY RefusedIs DEF OpenTypes, Known, Open!Step, Open!Failure
  <2>2. Locking'
    BY DEF OpenTypes, Locking, Known
  <2>3. Known(p)'
    BY RefusedIs DEF OpenTypes, Locking, Known, Searchable
  <2>4. \A q \in Process \ {p} : Known(q)'
    BY DEF OpenTypes, Locking, Known, Searchable
  <2>5. QED BY <2>1, <2>2, <2>3, <2>4
<1>8. CASE Open!Migrate(p)
  <2> USE <1>8 DEF Open!Migrate, Open!AfterRollback, Open!SchemaVersion
  <2>0. /\ work.version <= 5 => 
           /\ Open!CanMigrate(work, work.version + 1)
           /\ Whole(Open!Migrated(work, work.version + 1))
           /\ Open!Migrated(work, work.version + 1).version = work.version + 1
           /\ Open!Migrated(work, work.version + 1).app
           /\ Open!Migrated(work, work.version + 1).mode = work.mode
    BY MigrationStep DEF OpenTypes, Known
  <2>6. /\ work' = Open!Migrated(work, work.version + 1) /\ work.version <= 5
        /\ seen' = [seen EXCEPT ![p].version = work.version + 1]
        /\ UNCHANGED <<lock, pc, database, expired, faults>>
    <3>1. seen[p].version = work.version /\ work.version \in 0..7
      BY DatabaseIs DEF OpenTypes, Known, Whole, Rows
    <3>2. QED BY <2>0, <3>1
  <2>7. Whole(work') /\ work'.version = work.version + 1 /\ work'.app /\ work'.mode = work.mode
        /\ work.version \in 0..7
    BY <2>0, <2>6, DatabaseIs DEF OpenTypes, Whole, Rows
  <2>8. /\ seen' = [q \in Process |-> seen'[q]] /\ "version" \in DOMAIN seen'[p]
        /\ seen'[p].version = work.version + 1
        /\ \A q \in Process \ {p} : seen'[q] = seen[q]
    BY <2>6 DEF OpenTypes
  <2> HIDE <1>8
  <2>9. pc[p] = "migrate" /\ lock = p
    BY <1>8 DEF Locking
  <2>1. OpenTypes'
    BY <2>6, <2>7, <2>8 DEF OpenTypes
  <2>2. Locking'
    BY <2>6, <2>7 DEF Locking
  <2>3. Known(p)'
    BY <2>6, <2>7, <2>8, <2>9, DatabaseIs DEF OpenTypes, Locking, Known, Upgradable, Whole, Rows
  <2>4. \A q \in Process \ {p} : Known(q)'
    BY <2>6, <2>8, <2>9 DEF OpenTypes, Locking, Known
  <2>5. QED BY <2>1, <2>2, <2>3, <2>4
<1>9. CASE Open!Commit(p)
  <2> USE <1>9 DEF Open!Commit, Open!AllMigrated, Open!SchemaVersion
  <2>0. /\ work.app /\ work.version = 6 /\ lock = p
        /\ database.version = 6 => work = database
        /\ ~Open!Refused(Open!IdentityOf(database))
    BY RefusedIs, DatabaseIs DEF OpenTypes, Known, Locking, Upgradable, Whole, Rows
  <2>1. OpenTypes'
    BY <2>0, RefusedIs DEF OpenTypes, Known, Open!Step, Open!Failure
  <2>2. Locking'
    BY <2>0 DEF OpenTypes, Locking, Known
  <2>3. Known(p)'
    BY <2>0, RefusedIs DEF OpenTypes, Locking, Known, Searchable
  <2>4. \A q \in Process \ {p} : Known(q)'
    BY <2>0 DEF OpenTypes, Locking, Known, Searchable
  <2>5. QED BY <2>1, <2>2, <2>3, <2>4
<1>10. CASE Open!CheckIndexes(p)
  <2> USE <1>10 DEF Open!CheckIndexes, Open!NeedsRepair, Open!AliasesIncomplete
  <2>0. /\ Latest(database) /\ database.mode = "wal" /\ database.live \subseteq database.fts
        /\ Open!NeedsRepair(database) \/ database.live \subseteq database.aliases
    BY DEF OpenTypes, Known, Locking, Whole
  <2>1. OpenTypes'
    BY <2>0, RefusedIs DEF OpenTypes, Known, Open!Step, Open!Failure
  <2>2. Locking'
    BY <2>0 DEF OpenTypes, Locking, Known
  <2>3. Known(p)'
    BY <2>0, RefusedIs DEF OpenTypes, Locking, Known, Searchable
  <2>4. \A q \in Process \ {p} : Known(q)'
    BY <2>0 DEF OpenTypes, Locking, Known, Searchable
  <2>5. QED BY <2>1, <2>2, <2>3, <2>4
<1>11. CASE Open!BeginRepair(p)
  <2> USE <1>11 DEF Open!BeginRepair, Open!AliasesIncomplete
  <2>0. Whole(work') /\ Searchable(work')
    <3>1. Whole(database) /\ Latest(database) /\ database.mode = "wal"
      BY DEF OpenTypes, Known, Locking
    <3>2. work' = IF Open!AliasesIncomplete(database) THEN Open!Repaired(database) ELSE database
      OBVIOUS
    <3>3. QED BY <3>1, <3>2, RepairStep
  <2>1. OpenTypes'
    BY <2>0, RefusedIs DEF OpenTypes, Known, Open!Step, Open!Failure
  <2>2. Locking'
    BY <2>0 DEF OpenTypes, Locking, Known, Searchable
  <2>3. Known(p)'
    BY <2>0, RefusedIs DEF OpenTypes, Locking, Known, Searchable
  <2>4. \A q \in Process \ {p} : Known(q)'
    BY <2>0 DEF OpenTypes, Locking, Known, Searchable
  <2>5. QED BY <2>1, <2>2, <2>3, <2>4
<1>12. CASE Open!CommitRepair(p)
  <2> USE <1>12 DEF Open!CommitRepair
  <2>0. /\ Searchable(work) /\ lock = p
        /\ ~Open!Refused(Open!IdentityOf(database))
    BY RefusedIs DEF OpenTypes, Known, Locking, Upgradable
  <2>1. OpenTypes'
    BY <2>0, RefusedIs DEF OpenTypes, Known, Open!Step, Open!Failure
  <2>2. Locking'
    BY <2>0 DEF OpenTypes, Locking, Known
  <2>3. Known(p)'
    BY <2>0, RefusedIs DEF OpenTypes, Locking, Known, Searchable
  <2>4. \A q \in Process \ {p} : Known(q)'
    BY <2>0 DEF OpenTypes, Locking, Known, Searchable
  <2>5. QED BY <2>1, <2>2, <2>3, <2>4
<1>13. CASE Open!BeginWrite(p)
  <2> USE <1>13 DEF Open!BeginWrite
  <2>0. Whole(work') /\ Searchable(work')
    <3>1. Whole(database) /\ Searchable(database)
      BY DEF OpenTypes, Known
    <3>2. PICK e : e = work'
      OBVIOUS
    <3>3. QED BY <3>1, <3>2, WriteStep
  <2>1. OpenTypes'
    BY <2>0, RefusedIs DEF OpenTypes, Known, Open!Step, Open!Failure
  <2>2. Locking'
    BY <2>0 DEF OpenTypes, Locking, Known, Searchable
  <2>3. Known(p)'
    BY <2>0, RefusedIs DEF OpenTypes, Locking, Known, Searchable
  <2>4. \A q \in Process \ {p} : Known(q)'
    BY <2>0 DEF OpenTypes, Locking, Known, Searchable
  <2>5. QED BY <2>1, <2>2, <2>3, <2>4
<1>14. CASE Open!CommitWrite(p)
  <2> USE <1>14 DEF Open!CommitWrite
  <2>0. /\ Searchable(work) /\ lock = p
        /\ ~Open!Refused(Open!IdentityOf(database))
    BY RefusedIs DEF OpenTypes, Known, Locking, Upgradable
  <2>1. OpenTypes'
    BY <2>0, RefusedIs DEF OpenTypes, Known, Open!Step, Open!Failure
  <2>2. Locking'
    BY <2>0 DEF OpenTypes, Locking, Known
  <2>3. Known(p)'
    BY <2>0, RefusedIs DEF OpenTypes, Locking, Known, Searchable
  <2>4. \A q \in Process \ {p} : Known(q)'
    BY <2>0 DEF OpenTypes, Locking, Known, Searchable
  <2>5. QED BY <2>1, <2>2, <2>3, <2>4
<1>15. CASE Open!Fail(p)
  <2> USE <1>15 DEF Open!Fail, Open!AfterRollback
  <2>1. OpenTypes'
    BY RefusedIs DEF OpenTypes, Known, Open!Step, Open!Failure
  <2>2. Locking'
    BY DEF OpenTypes, Locking, Known
  <2>3. Known(p)'
    BY RefusedIs DEF OpenTypes, Locking, Known, Searchable
  <2>4. \A q \in Process \ {p} : Known(q)'
    BY DEF OpenTypes, Locking, Known, Searchable
  <2>5. QED BY <2>1, <2>2, <2>3, <2>4
<1>16. CASE Open!Crash(p)
  <2> USE <1>16 DEF Open!Crash, Open!Failure
  <2>1. OpenTypes'
    BY RefusedIs DEF OpenTypes, Known, Open!Step, Open!Failure
  <2>2. Locking'
    BY DEF OpenTypes, Locking, Known
  <2>3. Known(p)'
    BY RefusedIs DEF OpenTypes, Locking, Known, Searchable
  <2>4. \A q \in Process \ {p} : Known(q)'
    BY DEF OpenTypes, Locking, Known, Searchable
  <2>5. QED BY <2>1, <2>2, <2>3, <2>4
<1>17. QED BY <1>1, <1>2, <1>3, <1>4, <1>5, <1>6, <1>7, <1>8, <1>9, <1>10, <1>11, <1>12, <1>13, <1>14, <1>15, <1>16

LEMMA IntrudeStep ==
    ASSUME OpenInv, Open!Intrude
    PROVE  OpenInv'
<1> USE DEF OpenInv, Open!Intrude, Inside, AfterMigration
<1>1. None \notin Process
  BY OpeningAssumption DEF Open!OpeningAssumption
<1>2. ~database.app /\ database.objects = {} /\ database.version = 0 /\ database.mode \in {"delete", "wal"}
  BY DatabaseIs DEF OpenTypes, Whole, Rows
<1>3. Whole(database') /\ database'.mode = database.mode
  <2>1. {[name |-> "foreign", def |-> 0]} \in SUBSET Objects
    BY DEF Objects
  <2>2. Open!Foreign \in Rows
    BY <2>1 DEF Rows, Open!Foreign
  <2>3. PICK e : e = [Open!Foreign EXCEPT !.mode = database.mode]
    OBVIOUS
  <2>4. e \in Rows /\ e.mode = database.mode /\ ~e.app /\ e.version = 0 /\ e.heads = {} /\ e.live = {}
    BY <1>2, <2>2, <2>3 DEF Rows, Open!Foreign
  <2>5. QED BY <2>3, <2>4, DatabaseIs DEF Whole
<1>4. ~Open!Refused(Open!IdentityOf(database))
  BY <1>2, RefusedIs DEF OpenTypes, Upgradable
<1>5. OpenTypes'
  BY <1>3 DEF OpenTypes
<1>6. Locking'
  BY <1>3 DEF Locking
<1>7. ASSUME NEW q \in Process
      PROVE  Known(q)'
  <2>1. pc[q] \notin {"recheck", "migrate", "identity", "exists"} \cup AfterMigration
    BY <1>1, <1>2, <1>4 DEF Known, Locking, Latest
  <2>2. QED BY <2>1 DEF Known
<1>8. QED BY <1>5, <1>6, <1>7

LEMMA OpenStep ==
    ASSUME OpenInv, Open!ONext
    PROVE  OpenInv'
<1>1. CASE Open!Intrude
  BY <1>1, IntrudeStep
<1>2. ASSUME NEW p \in Process,
             \/ Open!Start(p) \/ Open!Identify(p) \/ Open!SwitchToWal(p) \/ Open!BeginImmediate(p)
             \/ Open!Recheck(p) \/ Open!Migrate(p) \/ Open!Commit(p) \/ Open!CheckIndexes(p)
             \/ Open!BeginRepair(p) \/ Open!CommitRepair(p) \/ Open!Expire(p) \/ Open!GiveUp(p)
             \/ Open!BeginWrite(p) \/ Open!CommitWrite(p) \/ Open!Fail(p) \/ Open!Crash(p)
      PROVE  OpenInv'
  BY <1>2, OpenProcessStep
<1>3. QED BY <1>1, <1>2 DEF Open!ONext

LEMMA OpenInvShows ==
    ASSUME OpenInv
    PROVE  Open!FileIsWhole /\ Open!NobodyFailsByTheRace
<1>1. database \in Open!Database /\ Open!VersionNamesSchema
  BY DEF OpenInv, OpenTypes, Whole, Open!VersionNamesSchema
<1>2. Open!OpenIsComplete
  BY DEF OpenInv, Known, Searchable, Latest, Open!OpenIsComplete, Open!SchemaVersion
<1>3. Open!NobodyFailsByTheRace
  BY DEF OpenInv, Known, Open!NobodyFailsByTheRace
<1>4. QED BY <1>1, <1>2, <1>3 DEF Open!FileIsWhole

----------------------------------------------------------------------------
(* Snapshots *)

\* A file with a version, as it is written; a store an export may see.
FileShape ==
    /\ file = [version |-> file.version, tables |-> file.tables, digest |-> file.digest,
               origin |-> file.origin]
    /\ file.version \in {1, 2}
    /\ file.tables = [t \in TableName |-> file.tables[t]]
Visible(d) ==
    /\ d \in Store
    /\ Grounded(d) /\ LogInv(d) /\ Explained(d) /\ ReceiptsTellTheTruthOf(d)
    /\ Told(d) /\ Retraceable(d)

\* The rows a file of a version has, and a target that was filled from it.
LegacyRows(d) ==
    [t \in TableName |-> IF \E i \in DOMAIN V1Tables : V1Tables[i] = t THEN RowsOf(d, t) ELSE {}]
FileRows(v, d) == IF v = 1 THEN LegacyRows(d) ELSE AllRows(d)
TargetRows(v, d) == IF v = 1 THEN Backfill(LegacyRows(d)) ELSE AllRows(d)

\* What is in the file of a running export is of one store, the tables that
\* are left excepted.
Exporting ==
    /\ FileShape /\ file.version = 2 /\ file.digest = None
    /\ export = [view |-> export.view, todo |-> export.todo]
    /\ export.todo \in Seq(TableName)
    /\ IF export.view = None
       THEN export.todo = V2Tables /\ file.origin = None
       ELSE /\ export.view = file.origin /\ Visible(file.origin)
            /\ \A t \in TableName :
                  \/ \E i \in DOMAIN export.todo : export.todo[i] = t
                  \/ file.tables[t] = RowsOf(file.origin, t)

\* An undamaged file is one store.
Written ==
    file # None =>
       /\ FileShape
       /\ Intact(file) =>
             Visible(file.origin) /\ file.tables = FileRows(file.version, file.origin)

\* The private copy of an import has the rows of the tables that are done; those
\* of an older file come in the same order.
Importing ==
    /\ file # None /\ export = None /\ Intact(file)
    /\ import = [done |-> import.done, work |-> import.work]
    /\ import.done \in 0..Len(ImportOrder(file.version))
    /\ import.work = [t \in TableName |->
                        IF \E i \in 1..import.done : V2Tables[i] = t THEN file.tables[t]
                        ELSE {}]

TargetIs ==
    /\ target = [tables |-> target.tables, index |-> target.index, by |-> target.by]
    /\ target.tables = [t \in TableName |-> target.tables[t]]
    /\ IF Restored
       THEN /\ file # None /\ export = None /\ Intact(file)
            /\ target.tables = TargetRows(file.version, file.origin)
            /\ target.index = file.origin.index
       ELSE /\ target.index = EmptyTarget.index
            /\ IF target.by = "nobody" THEN target.tables = NoRows
               ELSE target.tables["events"] # {}
            /\ \A t \in TableName \ {"events"} : target.tables[t] = {}

SnapInv ==
    /\ export # None => Exporting
    /\ Written
    /\ import # None => Importing
    /\ TargetIs

LEMMA FunctionIsSequence ==
    ASSUME NEW S, NEW n \in Nat, NEW f \in [1..n -> S]
    PROVE  f \in Seq(S) /\ Len(f) = n
OBVIOUS

LEMMA TablesInOrder ==
    /\ DOMAIN V1Tables = 1..7 /\ \A i \in 1..7 : V1Tables[i] = V2Tables[i]
    /\ V2Tables[1] = "events" /\ V2Tables[2] = "memory_heads"
    /\ V2Tables[3] = "memory_revisions" /\ V2Tables[4] = "memory_evidence"
    /\ V2Tables[5] = "memory_links" /\ V2Tables[6] = "event_memories"
    /\ V2Tables[7] = "idempotency" /\ V2Tables[8] = "memory_revision_metadata"
    /\ V2Tables[9] = "memory_link_revisions"
BY DEF V1Tables, V2Tables

LEMMA TablesAre ==
    /\ Len(V2Tables) = 9 /\ V2Tables \in Seq(TableName)
    /\ TableName = {V2Tables[i] : i \in 1..9}
    /\ TableName = {"events", "memory_heads", "memory_revisions", "memory_evidence",
                    "memory_links", "event_memories", "idempotency",
                    "memory_revision_metadata", "memory_link_revisions"}
    /\ \A i, j \in 1..9 : V2Tables[i] = V2Tables[j] => i = j
<1> DEFINE Nine == {"events", "memory_heads", "memory_revisions", "memory_evidence",
                    "memory_links", "event_memories", "idempotency",
                    "memory_revision_metadata", "memory_link_revisions"}
           two == <<"memory_revision_metadata", "memory_link_revisions">>
<1>1. V1Tables \in Seq(Nine) /\ Len(V1Tables) = 7 /\ two \in Seq(Nine) /\ Len(two) = 2
  <2>1. DOMAIN V1Tables = 1..7 /\ DOMAIN two = 1..2
    BY DEF V1Tables
  <2>2. V1Tables = [i \in 1..7 |-> V1Tables[i]]
    BY DEF V1Tables
  <2>6. two = [i \in 1..2 |-> two[i]]
    OBVIOUS
  <2>3. /\ \A i \in 1..7 : V1Tables[i] \in Nine
        /\ \A i \in 1..2 : two[i] \in Nine
    <3>1. (\A i \in 1..7 : i \in {1, 2, 3, 4, 5, 6, 7}) /\ (\A i \in 1..2 : i \in {1, 2})
      OBVIOUS
    <3>2. /\ V1Tables[1] = "events" /\ V1Tables[2] = "memory_heads"
          /\ V1Tables[3] = "memory_revisions" /\ V1Tables[4] = "memory_evidence"
          /\ V1Tables[5] = "memory_links" /\ V1Tables[6] = "event_memories"
          /\ V1Tables[7] = "idempotency"
      BY DEF V1Tables
    <3>3. two[1] = "memory_revision_metadata" /\ two[2] = "memory_link_revisions"
      OBVIOUS
    <3> HIDE DEF two
    <3>4. QED BY <3>1, <3>2, <3>3
  <2>4. V1Tables \in [1..7 -> Nine] /\ two \in [1..2 -> Nine]
    BY <2>2, <2>3, <2>6
  <2>5. 7 \in Nat /\ 2 \in Nat
    OBVIOUS
  <2> HIDE DEF two, Nine
  <2>7. V1Tables \in Seq(Nine) /\ Len(V1Tables) = 7
    BY <2>4, <2>5, FunctionIsSequence, Zenon
  <2>8. two \in Seq(Nine) /\ Len(two) = 2
    BY <2>4, <2>5, FunctionIsSequence, Zenon
  <2>9. QED BY <2>7, <2>8
<1>2. V2Tables = V1Tables \o two
  BY DEF V2Tables
<1> HIDE DEF two, Nine
<1>3. /\ V2Tables \in Seq(Nine) /\ Len(V2Tables) = 9
      /\ \A i \in 1..9 : V2Tables[i] = IF i <= 7 THEN V1Tables[i] ELSE two[i - 7]
  <2>1. /\ V2Tables \in Seq(Nine) /\ Len(V2Tables) = Len(V1Tables) + Len(two)
        /\ \A i \in 1..Len(V1Tables) + Len(two) :
              V2Tables[i] = IF i <= Len(V1Tables) THEN V1Tables[i] ELSE two[i - Len(V1Tables)]
    BY <1>1, <1>2, ConcatProperties, Zenon
  <2>2. Len(V1Tables) = 7 /\ Len(two) = 2
    BY <1>1
  <2>3. Len(V1Tables) + Len(two) = 9
    BY <2>2
  <2>4. \A i \in 1..9 : V2Tables[i] = IF i <= 7 THEN V1Tables[i] ELSE two[i - 7]
    BY <2>1, <2>2, <2>3, Zenon
  <2>5. QED BY <2>1, <2>3, <2>4
<1>4. /\ V2Tables[1] = "events" /\ V2Tables[2] = "memory_heads"
      /\ V2Tables[3] = "memory_revisions" /\ V2Tables[4] = "memory_evidence"
      /\ V2Tables[5] = "memory_links" /\ V2Tables[6] = "event_memories"
      /\ V2Tables[7] = "idempotency" /\ V2Tables[8] = "memory_revision_metadata"
      /\ V2Tables[9] = "memory_link_revisions"
  BY <1>3 DEF V1Tables, two
<1>5. DOMAIN V2Tables = 1..9
  BY <1>3
<1>6. TableName = {V2Tables[i] : i \in 1..9}
  BY <1>5, Zenon DEF TableName
<1>7. \A i \in 1..9 : i \in {1, 2, 3, 4, 5, 6, 7, 8, 9}
  OBVIOUS
<1>8. {V2Tables[i] : i \in 1..9} =
        {"events", "memory_heads", "memory_revisions", "memory_evidence",
         "memory_links", "event_memories", "idempotency",
         "memory_revision_metadata", "memory_link_revisions"}
  BY <1>4, <1>7
<1>9. \A i, j \in 1..9 : V2Tables[i] = V2Tables[j] => i = j
  BY <1>4, <1>7
<1>10. V2Tables \in Seq(TableName)
  <2>1. V2Tables = [i \in 1..9 |-> V2Tables[i]]
    BY <1>3
  <2>2. V2Tables \in [1..9 -> TableName]
    BY <1>6, <2>1
  <2>3. QED BY <2>2, FunctionIsSequence
<1>11. QED BY <1>3, <1>6, <1>8, <1>9, <1>10

\* One element is taken from the front of a sequence.
LEMMA TailKeeps ==
    ASSUME NEW S, NEW q \in Seq(S), q # <<>>
    PROVE  /\ Tail(q) \in Seq(S) /\ Head(q) \in S
           /\ \A i \in DOMAIN q : q[i] = Head(q) \/ \E j \in DOMAIN Tail(q) : Tail(q)[j] = q[i]
<1>1. Tail(q) \in Seq(S) /\ Head(q) \in S /\ Head(q) = q[1] /\ Len(q) \in Nat
  OBVIOUS
<1>2. ASSUME NEW i \in DOMAIN q, i # 1
      PROVE  \E j \in DOMAIN Tail(q) : Tail(q)[j] = q[i]
  <2>1. i - 1 \in DOMAIN Tail(q) /\ Tail(q)[i - 1] = q[i]
    BY <1>2
  <2>2. QED BY <2>1
<1>3. QED BY <1>1, <1>2

\* The index rebuilt from the rows of a store is the store's.
LEMMA IndexRebuilt ==
    ASSUME NEW d, Visible(d), NEW t, t["memory_heads"] = RowsOf(d, "memory_heads")
    PROVE  IndexOf(t) = d.index
<1> DEFINE H == t["memory_heads"]
<1>1. H = {[mem |-> m, head |-> d.heads[m]] : m \in {x \in Memory : Exists(d, x)}}
  BY DEF RowsOf
<1> HIDE DEF H
<1>2. ASSUME NEW m \in Memory
      PROVE  d.index[m] = IF \E h \in H : h.mem = m /\ h.head.state # "retracted"
                          THEN (CHOOSE h \in H : h.mem = m).head.rev ELSE 0
  <2>1. CASE Exists(d, m)
    <3>1. [mem |-> m, head |-> d.heads[m]] \in H /\ \A h \in H : h.mem = m => h.head = d.heads[m]
      BY <1>1, <2>1
    <3>2. (CHOOSE h \in H : h.mem = m).head = d.heads[m]
      BY <3>1
    <3>3. QED BY <2>1, <3>1, <3>2 DEF Visible, Explained, IndexCoversKnowledgeOf
  <2>2. CASE ~Exists(d, m)
    <3>1. \A h \in H : h.mem # m
      BY <1>1, <2>2
    <3>2. QED BY <2>2, <3>1 DEF Visible, Explained, IndexCoversKnowledgeOf
  <2>3. QED BY <2>1, <2>2
<1>3. d.index = [m \in Memory |-> d.index[m]]
  BY DEF Visible, Store
<1>4. IndexOf(t) = [m \in Memory |-> IF \E h \in H : h.mem = m /\ h.head.state # "retracted"
                                THEN (CHOOSE h \in H : h.mem = m).head.rev ELSE 0]
  BY Zenon DEF IndexOf, H
<1>5. QED BY <1>2, <1>3, <1>4

\* The seven tables every release has, as they come back.
LEMMA RowsFilled ==
    ASSUME NEW v \in {1, 2}, NEW d, NEW i \in 1..7
    PROVE  /\ FileRows(v, d)[V2Tables[i]] = RowsOf(d, V2Tables[i])
           /\ TargetRows(v, d)[V2Tables[i]] = RowsOf(d, V2Tables[i])
           /\ TargetRows(v, d)["memory_heads"] = RowsOf(d, "memory_heads")
<1>1. ASSUME NEW j \in 1..7
      PROVE  /\ LegacyRows(d)[V2Tables[j]] = RowsOf(d, V2Tables[j])
             /\ Backfill(LegacyRows(d))[V2Tables[j]] = RowsOf(d, V2Tables[j])
             /\ AllRows(d)[V2Tables[j]] = RowsOf(d, V2Tables[j])
  <2>1. V2Tables[j] \in TableName
    BY TablesAre
  <2>2. \E k \in DOMAIN V1Tables : V1Tables[k] = V2Tables[j]
    BY TablesInOrder
  <2>3. LegacyRows(d)[V2Tables[j]] = RowsOf(d, V2Tables[j])
    BY <2>1, <2>2 DEF LegacyRows
  <2>4. V2Tables[j] # "memory_revision_metadata" /\ V2Tables[j] # "memory_link_revisions"
    <3>1. 8 \in 1..9 /\ 9 \in 1..9 /\ j \in 1..9 /\ j # 8 /\ j # 9
      OBVIOUS
    <3>2. QED BY <3>1, TablesAre, TablesInOrder
  <2>5. Backfill(LegacyRows(d))[V2Tables[j]] = LegacyRows(d)[V2Tables[j]]
    <3>1. LegacyRows(d) = [t \in TableName |-> LegacyRows(d)[t]]
      BY DEF LegacyRows
    <3>2. QED BY <2>1, <2>4, <3>1 DEF Backfill
  <2>6. QED BY <2>1, <2>3, <2>5 DEF AllRows
<1>2. 2 \in 1..7 /\ V2Tables[2] = "memory_heads"
  BY TablesInOrder
<1>3. QED BY <1>1, <1>2 DEF FileRows, TargetRows

\* What schema 4 added is derived from the revisions and the links.
LEMMA OlderFilled ==
    ASSUME NEW d, NEW b, b = Backfill(LegacyRows(d))
    PROVE  /\ \A x : x \in b["memory_revision_metadata"] <=>
                 \E r \in b["memory_revisions"] : \E h \in b["memory_heads"] :
                    /\ h.mem = r.mem
                    /\ x = [mem |-> r.mem, num |-> r.num, kind |-> h.head.kind,
                            state |-> h.head.state, key |-> h.head.key,
                            complete |-> Complete(r, h.head)]
           /\ \A x : x \in b["memory_link_revisions"] <=>
                 \E l \in b["memory_links"] : \E n \in LinkSources(b, l) :
                    x = [src |-> l.src, srcRev |-> n, dst |-> l.dst, rel |-> l.rel,
                         seq |-> l.seq]
<1> DEFINE t == LegacyRows(d)
           M(r, h) == [mem |-> r.mem, num |-> r.num, kind |-> h.head.kind,
                       state |-> h.head.state, key |-> h.head.key,
                       complete |-> Complete(r, h.head)]
           K(l, n) == [src |-> l.src, srcRev |-> n, dst |-> l.dst, rel |-> l.rel, seq |-> l.seq]
<1>1. t = [x \in TableName |-> t[x]]
  BY DEF LegacyRows
<1>2. {"memory_heads", "memory_revisions", "memory_links", "memory_revision_metadata",
       "memory_link_revisions"} \subseteq TableName
  BY TablesAre
<1> HIDE DEF t
<1>3. /\ b["memory_heads"] = t["memory_heads"] /\ b["memory_revisions"] = t["memory_revisions"]
      /\ b["memory_links"] = t["memory_links"]
  BY <1>1, <1>2 DEF Backfill, t
<1>4. b["memory_revision_metadata"] =
         UNION {{M(r, h) : h \in {x \in t["memory_heads"] : x.mem = r.mem}} :
                r \in t["memory_revisions"]}
  BY <1>1, <1>2 DEF Backfill, t
<1>5. b["memory_link_revisions"] =
         UNION {{K(l, n) : n \in LinkSources(t, l)} : l \in t["memory_links"]}
  BY <1>1, <1>2 DEF Backfill, t
<1>6. \A l : LinkSources(b, l) = LinkSources(t, l)
  BY <1>3 DEF LinkSources
<1> HIDE DEF M, K
<1>7. \A x : x \in b["memory_revision_metadata"] <=>
         \E r \in t["memory_revisions"] : \E h \in t["memory_heads"] :
            h.mem = r.mem /\ x = M(r, h)
  BY <1>4
<1>8. \A x : x \in b["memory_link_revisions"] <=>
         \E l \in t["memory_links"] : \E n \in LinkSources(t, l) : x = K(l, n)
  BY <1>5
<1>9. QED BY <1>3, <1>6, <1>7, <1>8 DEF M, K

LEMMA SnapStarts == SInit => SnapInv
<1> SUFFICES ASSUME SInit PROVE SnapInv
  OBVIOUS
<1>1. TargetIs
  BY TablesAre DEF SInit, TargetIs, EmptyTarget, NoRows, Restored
<1>2. QED BY <1>1 DEF SInit, SnapInv, Written

\* What the store does while a snapshot is written changes nothing of it.
LEMMA SnapRests ==
    ASSUME SnapInv, UNCHANGED <<export, file, import, target>>
    PROVE  SnapInv'
BY DEF SnapInv, Exporting, FileShape, Written, Importing, TargetIs, Restored

LEMMA BeginExportSnap ==
    ASSUME SnapInv, BeginExport
    PROVE  SnapInv'
<1> USE DEF BeginExport
<1>1. file' = NewFile(2) /\ file = None /\ export' = [view |-> None, todo |-> V2Tables]
  OBVIOUS
<1>2. FileShape'
  BY <1>1 DEF FileShape, NewFile, NoRows
<1>3. import = None /\ ~Restored
  BY DEF SnapInv, Importing, TargetIs
<1>4. Exporting'
  BY <1>1, <1>2, TablesAre DEF Exporting, NewFile
<1>5. Written'
  BY <1>1, <1>2 DEF Written, Intact, NewFile
<1>6. TargetIs'
  BY <1>3 DEF SnapInv, TargetIs, Restored
<1>7. QED BY <1>3, <1>4, <1>5, <1>6 DEF SnapInv

LEMMA ExportTableSnap ==
    ASSUME SnapInv, ExportTable, Visible(db)
    PROVE  SnapInv'
<1> DEFINE s == export.todo
           v == IF export.view = None THEN db ELSE export.view
<1>1. Exporting /\ export # None /\ s # <<>>
      /\ export' = [view |-> v, todo |-> Tail(s)]
      /\ file' = [file EXCEPT !.tables[Head(s)] = RowsOf(v, Head(s)),
                              !.origin = IF @ = None THEN db ELSE @]
      /\ UNCHANGED <<import, target>>
  BY DEF ExportTable, ExportView, SnapInv
<1>2. s \in Seq(TableName) /\ Tail(s) \in Seq(TableName) /\ Head(s) \in TableName
      /\ \A i \in DOMAIN s : s[i] = Head(s) \/ \E j \in DOMAIN Tail(s) : Tail(s)[j] = s[i]
  <2>1. s \in Seq(TableName)
    BY <1>1 DEF Exporting
  <2>2. QED BY <1>1, <2>1, TailKeeps
<1>3. Visible(v) /\ v # None
  BY <1>1, ViewAssumption DEF Exporting, Visible
<1>4. /\ file' = [version |-> file'.version, tables |-> file'.tables, digest |-> file'.digest,
                  origin |-> file'.origin]
      /\ file'.version = 2 /\ file'.digest = None /\ file'.origin = v
      /\ file'.tables = [file.tables EXCEPT ![Head(s)] = RowsOf(v, Head(s))]
  <2>1. file.origin = None => v = db
    BY <1>1, ViewAssumption DEF Exporting, Visible
  <2>2. file.origin # None => v = file.origin
    BY <1>1 DEF Exporting
  <2> HIDE DEF v
  <2>3. QED BY <1>1, <2>1, <2>2 DEF Exporting, FileShape
<1>5. FileShape'
  BY <1>1, <1>4 DEF FileShape, Exporting
<1>6. ASSUME NEW t \in TableName
      PROVE  \/ \E i \in DOMAIN Tail(s) : Tail(s)[i] = t
             \/ file'.tables[t] = RowsOf(v, t)
  <2>1. CASE t = Head(s)
    BY <1>1, <1>4, <2>1 DEF Exporting, FileShape
  <2>2. CASE t # Head(s)
    <3>1. file'.tables[t] = file.tables[t]
      BY <1>1, <1>4, <2>2 DEF Exporting, FileShape
    <3>2. (\E i \in DOMAIN s : s[i] = t) \/ file.tables[t] = RowsOf(v, t)
      <4>1. CASE export.view = None
        <5>1. s = V2Tables
          BY <1>1, <4>1 DEF Exporting
        <5>2. DOMAIN V2Tables = 1..9 /\ \E i \in 1..9 : V2Tables[i] = t
          BY TablesAre
        <5>3. QED BY <5>1, <5>2
      <4>2. CASE export.view # None
        BY <1>1, <4>2 DEF Exporting
      <4>3. QED BY <4>1, <4>2
    <3>3. QED BY <1>2, <2>2, <3>1, <3>2
  <2>3. QED BY <2>1, <2>2
<1> HIDE DEF v
<1>7. Exporting'
  BY <1>1, <1>2, <1>3, <1>4, <1>5, <1>6 DEF Exporting
<1>8. import = None /\ ~Restored
  BY <1>1 DEF SnapInv, Importing, TargetIs
<1>9. Written'
  BY <1>4, <1>5 DEF Written, Intact
<1>10. TargetIs'
  BY <1>1, <1>8 DEF SnapInv, TargetIs, Restored
<1>11. QED BY <1>1, <1>7, <1>8, <1>9, <1>10 DEF SnapInv

LEMMA EndExportSnap ==
    ASSUME SnapInv, EndExport
    PROVE  SnapInv'
<1>1. /\ Exporting /\ export # None /\ export.todo = <<>> /\ export' = None
      /\ file' = [file EXCEPT !.digest = file.tables] /\ UNCHANGED <<import, target>>
  BY DEF EndExport, SnapInv
<1>2. import = None /\ ~Restored
  BY <1>1 DEF SnapInv, Importing, TargetIs
<1>3. /\ file' = [version |-> file'.version, tables |-> file'.tables, digest |-> file'.digest,
                  origin |-> file'.origin]
      /\ file'.version = 2 /\ file'.origin = file.origin /\ file'.tables = file.tables
  BY <1>1 DEF Exporting, FileShape
<1>4. FileShape'
  BY <1>1, <1>3 DEF FileShape, Exporting
<1>5. V2Tables # <<>>
  BY DEF V2Tables, V1Tables
<1>6. Visible(file.origin) /\ \A t \in TableName : file.tables[t] = RowsOf(file.origin, t)
  BY <1>1, <1>5 DEF Exporting
<1>7. file.tables = AllRows(file.origin)
  BY <1>1, <1>6 DEF AllRows, Exporting, FileShape
<1>8. Written'
  BY <1>3, <1>4, <1>6, <1>7 DEF Written, FileRows
<1>9. TargetIs'
  BY <1>1, <1>2 DEF SnapInv, TargetIs, Restored
<1>10. QED BY <1>1, <1>2, <1>8, <1>9 DEF SnapInv

LEMMA TearExportSnap ==
    ASSUME SnapInv, TearExport
    PROVE  SnapInv'
<1>1. export # None /\ export' = None /\ UNCHANGED <<file, import, target>>
  BY DEF TearExport
<1>2. import = None /\ ~Restored
  BY <1>1 DEF SnapInv, Importing, TargetIs
<1>3. QED BY <1>1, <1>2 DEF SnapInv, Written, FileShape, TargetIs, Restored

LEMMA LegacyExportSnap ==
    ASSUME SnapInv, LegacyExport, Visible(db)
    PROVE  SnapInv'
<1>1. /\ file = None /\ export = None /\ UNCHANGED <<export, import, target>>
      /\ file' = [version |-> 1, tables |-> LegacyRows(db), digest |-> LegacyRows(db),
                  origin |-> db]
  BY DEF LegacyExport, LegacyRows
<1>2. import = None /\ ~Restored
  BY <1>1 DEF SnapInv, Importing, TargetIs
<1>3. FileShape' /\ file'.version = 1 /\ file'.tables = LegacyRows(db) /\ file'.origin = db
  BY <1>1 DEF FileShape, LegacyRows
<1>4. Written'
  BY <1>3 DEF Written, FileRows
<1>5. TargetIs'
  BY <1>1, <1>2 DEF SnapInv, TargetIs, Restored
<1>6. QED BY <1>1, <1>2, <1>4, <1>5 DEF SnapInv

LEMMA LoseRowSnap ==
    ASSUME SnapInv, LoseRow
    PROVE  SnapInv'
<1>0. PICK t \in TableName :
         \E row \in file.tables[t] : file' = [file EXCEPT !.tables[t] = @ \ {row}]
  BY DEF LoseRow
<1>1. PICK row \in file.tables[t] : file' = [file EXCEPT !.tables[t] = @ \ {row}]
  BY <1>0
<1>2. /\ file # None /\ export = None /\ import = None /\ target.by = "nobody"
      /\ file.tables = file.digest /\ FileShape /\ UNCHANGED <<export, import, target>>
  BY DEF LoseRow, SnapInv, Written
<1>3. /\ file' = [version |-> file'.version, tables |-> file'.tables, digest |-> file'.digest,
                  origin |-> file'.origin]
      /\ file'.version = file.version /\ file'.digest = file.tables
      /\ file'.tables = [file.tables EXCEPT ![t] = @ \ {row}]
  BY <1>1, <1>2 DEF FileShape
<1>4. FileShape' /\ file'.tables # file'.digest
  BY <1>2, <1>3 DEF FileShape
<1>5. QED BY <1>2, <1>4 DEF SnapInv, Written, Intact, TargetIs, Restored

LEMMA BeginImportSnap ==
    ASSUME SnapInv, BeginImport
    PROVE  SnapInv'
<1>1. /\ file # None /\ export = None /\ Intact(file) /\ TargetIsEmpty(file.version)
      /\ import' = [done |-> 0, work |-> target.tables] /\ UNCHANGED <<export, file, target>>
  BY DEF BeginImport
<1>2. \A i \in 1..7 : target.tables[V2Tables[i]] = {}
  <2>1. \A i \in 1..7 : TablesOfVersion(file.version)[i] = V2Tables[i]
                        /\ i \in DOMAIN TablesOfVersion(file.version)
    BY TablesAre, TablesInOrder DEF TablesOfVersion
  <2>2. QED BY <1>1, <2>1 DEF TargetIsEmpty
<1>3. \A t \in TableName : target.tables[t] = {}
  <2>1. target.tables["events"] = {} /\ target.tables["memory_revisions"] = {}
        /\ target.tables["memory_links"] = {}
    <3>1. 1 \in 1..7 /\ 3 \in 1..7 /\ 5 \in 1..7
      OBVIOUS
    <3>2. QED BY <1>2, <3>1, TablesInOrder
  <2>2. CASE ~Restored
    BY <2>1, <2>2 DEF SnapInv, TargetIs
  <2>3. CASE Restored
    <3>1. target.tables = TargetRows(file.version, file.origin) /\ file.version \in {1, 2}
      BY <1>1, <2>3 DEF SnapInv, TargetIs, Written, FileShape
    <3>2. CASE file.version = 2
      BY <1>1, <3>2, TablesAre DEF TargetIsEmpty, TablesOfVersion
    <3>3. CASE file.version = 1
      <4>1. target.tables = Backfill(LegacyRows(file.origin))
        BY <3>1, <3>3 DEF TargetRows
      <4>2. /\ target.tables["memory_revision_metadata"] = {}
            /\ target.tables["memory_link_revisions"] = {}
        BY <2>1, <4>1, OlderFilled
      <4>3. target.tables[V2Tables[8]] = {} /\ target.tables[V2Tables[9]] = {}
        BY <4>2, TablesInOrder
      <4>4. \A i \in 1..9 : i \in 1..7 \/ i = 8 \/ i = 9
        OBVIOUS
      <4>5. QED BY <1>2, <4>3, <4>4, TablesAre
    <3>4. QED BY <3>1, <3>2, <3>3
  <2>4. QED BY <2>2, <2>3
<1>4. Len(ImportOrder(file.version)) \in Nat
  BY <1>1, TablesAre DEF ImportOrder, TablesOfVersion, V1Tables
<1>5. target.tables = [t \in TableName |-> target.tables[t]]
  BY DEF SnapInv, TargetIs
<1>6. Importing'
  <2>1. target.tables = [t \in TableName |->
           IF \E i \in 1..0 : V2Tables[i] = t THEN file.tables[t] ELSE {}]
    BY <1>3, <1>5
  <2>2. QED BY <1>1, <1>4, <2>1 DEF Importing, Intact
<1>7. QED BY <1>1, <1>6 DEF SnapInv, Written, FileShape, TargetIs, Restored

LEMMA ImportTableSnap ==
    ASSUME SnapInv, ImportTable
    PROVE  SnapInv'
<1> DEFINE n == import.done + 1
           table == ImportOrder(file.version)[n]
<1>1. /\ Importing /\ import # None /\ import.done < Len(ImportOrder(file.version))
      /\ import' = [done |-> n, work |-> [import.work EXCEPT ![table] = @ \cup file.tables[table]]]
      /\ UNCHANGED <<export, file, target>>
  BY DEF ImportTable, SnapInv
<1>2. import.done \in Nat /\ n \in 1..Len(ImportOrder(file.version)) /\ n \in 0..Len(ImportOrder(file.version))
  <2>1. Len(ImportOrder(file.version)) \in Nat
    BY TablesAre DEF ImportOrder, TablesOfVersion, V1Tables
  <2>2. QED BY <1>1, <2>1 DEF Importing
<1>3. [import.work EXCEPT ![table] = @ \cup file.tables[table]] =
         [t \in TableName |-> IF \E i \in 1..n : V2Tables[i] = t THEN file.tables[t] ELSE {}]
  <2>1. n \in 1..9 /\ table = V2Tables[n] /\ table \in TableName
    <3>1. CASE ImportOrder(file.version) = V2Tables
      BY <1>2, <3>1, TablesAre
    <3>2. CASE ImportOrder(file.version) = V1Tables
      <4>1. n \in 1..7
        BY <1>2, <3>2, TablesInOrder DEF V1Tables
      <4>2. QED BY <3>2, <4>1, TablesAre, TablesInOrder
    <3>3. QED BY <3>1, <3>2 DEF ImportOrder, TablesOfVersion
  <2>2. \A t \in TableName : (\E i \in 1..n : V2Tables[i] = t) <=>
                             t = table \/ \E i \in 1..import.done : V2Tables[i] = t
    <3>1. 1..n = (1..import.done) \cup {n}
      BY <1>2
    <3>2. QED BY <2>1, <3>1
  <2>3. import.work = [t \in TableName |->
                         IF \E i \in 1..import.done : V2Tables[i] = t THEN file.tables[t] ELSE {}]
    BY <1>1 DEF Importing
  <2> HIDE DEF n, table
  <2> DEFINE W(t) == IF \E i \in 1..import.done : V2Tables[i] = t THEN file.tables[t] ELSE {}
             V(t) == IF \E i \in 1..n : V2Tables[i] = t THEN file.tables[t] ELSE {}
  <2>4. \A t \in TableName : V(t) = IF t = table THEN W(table) \cup file.tables[table] ELSE W(t)
    BY <2>1, <2>2
  <2>5. import.work = [t \in TableName |-> W(t)]
    BY <2>3
  <2> HIDE DEF W, V
  <2>6. [import.work EXCEPT ![table] = @ \cup file.tables[table]] = [t \in TableName |-> V(t)]
    BY <2>1, <2>4, <2>5
  <2>7. QED BY <2>6 DEF V
<1> HIDE DEF table
<1>4. Importing'
  BY <1>1, <1>2, <1>3 DEF Importing, Intact
<1>5. QED BY <1>1, <1>4 DEF SnapInv, Exporting, Written, FileShape, TargetIs, Restored

LEMMA CommitImportSnap ==
    ASSUME SnapInv, CommitImport
    PROVE  SnapInv'
<1> DEFINE rows == IF file.version = 1 THEN Backfill(import.work) ELSE import.work
<1>1. /\ Importing /\ import # None /\ import.done = Len(ImportOrder(file.version)) /\ import' = None
      /\ target' = [tables |-> rows, index |-> IndexOf(rows), by |-> "import"]
      /\ UNCHANGED <<export, file>>
  BY DEF CommitImport, CommitReady, SnapInv
<1>2. file # None /\ export = None /\ Intact(file)
  BY <1>1 DEF Importing
<1>3. Visible(file.origin) /\ file.tables = FileRows(file.version, file.origin)
      /\ file.version \in {1, 2}
  BY <1>2 DEF SnapInv, Written, FileShape
<1>7. import.work = FileRows(file.version, file.origin)
  <2>1. import.work = [t \in TableName |->
                         IF \E i \in 1..import.done : V2Tables[i] = t THEN file.tables[t] ELSE {}]
    BY <1>1 DEF Importing
  <2>2. CASE file.version = 2
    <3>1. import.done = 9
      BY <1>1, <2>2, TablesAre DEF ImportOrder, TablesOfVersion
    <3>2. \A t \in TableName : \E i \in 1..import.done : V2Tables[i] = t
      BY <3>1, TablesAre
    <3>3. import.work = [t \in TableName |-> file.tables[t]]
      BY <2>1, <3>2
    <3>4. QED BY <1>3, <2>2, <3>3 DEF FileRows, AllRows
  <2>3. CASE file.version = 1
    <3>1. import.done = 7
      BY <1>1, <2>3, TablesInOrder DEF ImportOrder, TablesOfVersion, V1Tables
    <3>2. \A t \in TableName : (\E i \in 1..import.done : V2Tables[i] = t)
                               <=> \E i \in DOMAIN V1Tables : V1Tables[i] = t
      BY <3>1, TablesInOrder
    <3>3. file.tables = LegacyRows(file.origin)
      BY <1>3, <2>3 DEF FileRows
    <3>4. import.work = [t \in TableName |->
             IF \E i \in DOMAIN V1Tables : V1Tables[i] = t THEN file.tables[t] ELSE {}]
      BY <2>1, <3>2
    <3>5. \A t \in TableName :
             (IF \E i \in DOMAIN V1Tables : V1Tables[i] = t THEN file.tables[t] ELSE {})
             = file.tables[t]
      BY <3>3 DEF LegacyRows
    <3>6. QED BY <2>3, <3>3, <3>4, <3>5 DEF FileRows, LegacyRows
  <2>4. QED BY <1>3, <2>2, <2>3
<1>8. rows = TargetRows(file.version, file.origin)
  BY <1>7 DEF TargetRows, FileRows
<1>9. IndexOf(rows) = file.origin.index
  BY <1>3, <1>8, IndexRebuilt, RowsFilled
<1>4. rows = [t \in TableName |-> rows[t]]
  <2>1. import.work = [t \in TableName |-> import.work[t]]
    BY <1>1 DEF Importing
  <2>2. Backfill(import.work) = [t \in TableName |-> Backfill(import.work)[t]]
    BY <2>1 DEF Backfill
  <2>3. QED BY <2>1, <2>2
<1> HIDE DEF rows
<1>5. TargetIs'
  BY <1>1, <1>2, <1>4, <1>8, <1>9 DEF TargetIs, Restored, Intact
<1>6. QED BY <1>1, <1>2, <1>5 DEF SnapInv, Written, FileShape

LEMMA AbortImportSnap ==
    ASSUME SnapInv, AbortImport
    PROVE  SnapInv'
BY DEF AbortImport, SnapInv, Exporting, Written, FileShape, TargetIs, Restored

LEMMA UseTargetSnap ==
    ASSUME SnapInv, UseTarget
    PROVE  SnapInv'
<1>1. PICK call \in ObserveCalls :
         target' = [target EXCEPT !.tables["events"] = {[seq |-> 1, call |-> call]}, !.by = "client"]
  BY DEF UseTarget
<1>2. import = None /\ target.by = "nobody" /\ UNCHANGED <<export, file, import>>
  BY DEF UseTarget
<1>3. TargetIs'
  <2>1. TargetIs /\ target.index = EmptyTarget.index
    BY <1>2 DEF SnapInv, TargetIs, Restored
  <2>2. target'.by = "client" /\ target'.index = target.index
        /\ target' = [tables |-> target'.tables, index |-> target'.index, by |-> target'.by]
        /\ target'.tables = [t \in TableName |-> target'.tables[t]]
        /\ target'.tables["events"] = {[seq |-> 1, call |-> call]}
        /\ \A t \in TableName \ {"events"} : target'.tables[t] = target.tables[t]
    BY <1>1, <2>1, TablesAre DEF TargetIs
  <2>3. \A t \in TableName \ {"events"} : target.tables[t] = {}
    BY <1>2 DEF SnapInv, TargetIs, Restored
  <2>4. QED BY <2>1, <2>2, <2>3 DEF TargetIs, Restored
<1>4. QED BY <1>2, <1>3 DEF SnapInv, Exporting, Written, FileShape

LEMMA SnapStep ==
    ASSUME SnapInv, Visible(db), SNext
    PROVE  SnapInv'
<1>1. CASE SourceMoves
  BY <1>1, SnapRests DEF SourceMoves
<1>2. QED BY <1>1, BeginExportSnap, ExportTableSnap, EndExportSnap, TearExportSnap, LegacyExportSnap,
             LoseRowSnap, BeginImportSnap, ImportTableSnap, CommitImportSnap, AbortImportSnap,
             UseTargetSnap DEF SNext

\* The steps of a snapshot that are not the store's leave it alone.
LEMMA StoreGoesOn ==
    ASSUME SNext
    PROVE  [Next]_vars
BY DEF SNext, SourceMoves, BeginExport, ExportTable, EndExport, TearExport, LegacyExport, LoseRow,
       BeginImport, ImportTable, CommitImport, AbortImport, UseTarget

----------------------------------------------------------------------------
(***************************************************************************)
(* What is made of the rows.  The tables every release has come back as    *)
(* they were; of the two that schema 4 added it is enough that there is    *)
(* metadata of exactly the revisions, and links only a revision made.      *)
(***************************************************************************)
Rebuilt(d, t) ==
    /\ t["events"] = RowsOf(d, "events")
    /\ t["memory_heads"] = RowsOf(d, "memory_heads")
    /\ t["memory_revisions"] = RowsOf(d, "memory_revisions")
    /\ t["memory_evidence"] = RowsOf(d, "memory_evidence")
    /\ t["memory_links"] = RowsOf(d, "memory_links")
    /\ t["event_memories"] = d.touched
    /\ t["idempotency"] = d.receipts
    /\ \A x \in t["memory_revision_metadata"] :
          \E r \in d.revisions : r.mem = x.mem /\ r.num = x.num
    /\ \A r \in d.revisions :
          \E x \in t["memory_revision_metadata"] : x.mem = r.mem /\ x.num = r.num
    /\ \A x, y \in t["memory_revision_metadata"] : x.mem = y.mem /\ x.num = y.num => x = y
    /\ t["memory_link_revisions"] \subseteq d.links

\* Memories with their heads, and revisions, are each one row.
LEMMA RowsOfStore ==
    ASSUME NEW d, Visible(d)
    PROVE  /\ RowsOf(d, "events") = {[seq |-> i, call |-> d.events[i]] : i \in DOMAIN d.events}
           /\ RowsOf(d, "memory_heads") =
                 {[mem |-> m, head |-> d.heads[m]] : m \in {x \in Memory : Exists(d, x)}}
           /\ RowsOf(d, "memory_revisions") =
                 {[mem |-> r.mem, num |-> r.num, body |-> r.body, seq |-> r.seq,
                   retired |-> r.retired] : r \in d.revisions}
           /\ RowsOf(d, "memory_evidence") =
                 UNION {{[mem |-> r.mem, num |-> r.num, event |-> e] : e \in r.evidence}
                          : r \in d.revisions}
           /\ RowsOf(d, "memory_links") = LatestLinks(d)
           /\ RowsOf(d, "event_memories") = d.touched
           /\ RowsOf(d, "idempotency") = d.receipts
           /\ RowsOf(d, "memory_revision_metadata") =
                 {[mem |-> r.mem, num |-> r.num, kind |-> r.kind, state |-> r.state,
                   key |-> r.key, complete |-> TRUE] : r \in d.revisions}
           /\ RowsOf(d, "memory_link_revisions") = d.links
           /\ \A r, q \in d.revisions : r.mem = q.mem /\ r.num = q.num => r = q
           /\ \A r \in d.revisions : r.mem \in Memory /\ Exists(d, r.mem)
                                     /\ r.seq \in DOMAIN d.events
<1>1. \A r \in d.revisions : r.mem \in Memory /\ Exists(d, r.mem) /\ r.seq \in DOMAIN d.events
  BY DEF Visible, Store, RevisionRow, Grounded, ScopeClosedOf
<1>2. ASSUME NEW r \in d.revisions, NEW q \in d.revisions, r.mem = q.mem, r.num = q.num
      PROVE  r = q
  <2>1. r \in RevisionsOf(d, r.mem) /\ q \in RevisionsOf(d, r.mem)
    BY <1>2 DEF RevisionsOf
  <2>2. QED BY <1>1, <1>2, <2>1 DEF Visible, Grounded, RevisionChainOf
<1>3. QED BY <1>1, <1>2 DEF RowsOf

LEMMA TargetIsRebuilt ==
    ASSUME NEW v \in {1, 2}, NEW d, Visible(d)
    PROVE  Rebuilt(d, TargetRows(v, d))
<1> DEFINE t == TargetRows(v, d)
<1>1. /\ t["events"] = RowsOf(d, "events")
      /\ t["memory_heads"] = RowsOf(d, "memory_heads")
      /\ t["memory_revisions"] = RowsOf(d, "memory_revisions")
      /\ t["memory_evidence"] = RowsOf(d, "memory_evidence")
      /\ t["memory_links"] = RowsOf(d, "memory_links")
      /\ t["event_memories"] = RowsOf(d, "event_memories")
      /\ t["idempotency"] = RowsOf(d, "idempotency")
  <2>1. \A i \in 1..7 : t[V2Tables[i]] = RowsOf(d, V2Tables[i])
    BY RowsFilled
  <2> HIDE DEF t
  <2>2. 1 \in 1..7 /\ 2 \in 1..7 /\ 3 \in 1..7 /\ 4 \in 1..7 /\ 5 \in 1..7 /\ 6 \in 1..7
        /\ 7 \in 1..7
    OBVIOUS
  <2>3. QED BY <2>1, <2>2, TablesInOrder
<1>2. CASE v = 2
  <2>1. /\ t["memory_revision_metadata"] = RowsOf(d, "memory_revision_metadata")
        /\ t["memory_link_revisions"] = RowsOf(d, "memory_link_revisions")
    <3>1. t = AllRows(d)
      BY <1>2 DEF TargetRows
    <3>2. "memory_revision_metadata" \in TableName /\ "memory_link_revisions" \in TableName
      BY TablesAre
    <3> HIDE DEF t
    <3>3. QED BY <3>1, <3>2 DEF AllRows
  <2> HIDE DEF t
  <2>2. \A r \in d.revisions :
            [mem |-> r.mem, num |-> r.num, kind |-> r.kind, state |-> r.state, key |-> r.key,
             complete |-> TRUE] \in t["memory_revision_metadata"]
    BY <2>1, RowsOfStore
  <2>4. \A x \in t["memory_revision_metadata"] : \E r \in d.revisions :
            x = [mem |-> r.mem, num |-> r.num, kind |-> r.kind, state |-> r.state,
                 key |-> r.key, complete |-> TRUE]
    BY <2>1, RowsOfStore
  <2>5. t["memory_link_revisions"] = d.links
    BY <2>1, RowsOfStore
  <2>6. ASSUME NEW r \in d.revisions
        PROVE  \E x \in t["memory_revision_metadata"] : x.mem = r.mem /\ x.num = r.num
    BY <2>2
  <2>7. ASSUME NEW x \in t["memory_revision_metadata"]
        PROVE  \E r \in d.revisions : r.mem = x.mem /\ r.num = x.num
    BY <2>4
  <2>8. \A x, y \in t["memory_revision_metadata"] : x.mem = y.mem /\ x.num = y.num => x = y
    <3>1. \A r, q \in d.revisions : r.mem = q.mem /\ r.num = q.num => r = q
      BY RowsOfStore
    <3> SUFFICES ASSUME NEW x \in t["memory_revision_metadata"],
                        NEW y \in t["memory_revision_metadata"], x.mem = y.mem, x.num = y.num
                 PROVE  x = y
      OBVIOUS
    <3>2. PICK r \in d.revisions :
            x = [mem |-> r.mem, num |-> r.num, kind |-> r.kind, state |-> r.state,
                 key |-> r.key, complete |-> TRUE]
      BY <2>4
    <3>3. PICK q \in d.revisions :
            y = [mem |-> q.mem, num |-> q.num, kind |-> q.kind, state |-> q.state,
                 key |-> q.key, complete |-> TRUE]
      BY <2>4
    <3>4. r = q
      BY <3>1, <3>2, <3>3
    <3>5. QED BY <3>2, <3>3, <3>4
  <2>3. QED BY <1>1, <2>5, <2>6, <2>7, <2>8, RowsOfStore DEF Rebuilt, t
<1>3. CASE v = 1
  <2>1. t = Backfill(LegacyRows(d))
    BY <1>3 DEF TargetRows
  <2>2. /\ \A x : x \in t["memory_revision_metadata"] <=>
              \E r \in t["memory_revisions"] : \E h \in t["memory_heads"] :
                 /\ h.mem = r.mem
                 /\ x = [mem |-> r.mem, num |-> r.num, kind |-> h.head.kind,
                         state |-> h.head.state, key |-> h.head.key,
                         complete |-> Complete(r, h.head)]
        /\ \A x : x \in t["memory_link_revisions"] <=>
              \E l \in t["memory_links"] : \E n \in LinkSources(t, l) :
                 x = [src |-> l.src, srcRev |-> n, dst |-> l.dst, rel |-> l.rel, seq |-> l.seq]
    BY <2>1, OlderFilled
  <2> HIDE DEF t
  <2>3. ASSUME NEW x \in t["memory_revision_metadata"]
        PROVE  \E r \in d.revisions : r.mem = x.mem /\ r.num = x.num
    <3>1. PICK r \in t["memory_revisions"] : x.mem = r.mem /\ x.num = r.num
      BY <2>2
    <3>2. QED BY <1>1, <3>1, RowsOfStore
  <2>4. ASSUME NEW r \in d.revisions
        PROVE  \E x \in t["memory_revision_metadata"] : x.mem = r.mem /\ x.num = r.num
    <3>1. PICK q \in t["memory_revisions"] : q.mem = r.mem /\ q.num = r.num
      <4>1. t["memory_revisions"] =
              {[mem |-> p.mem, num |-> p.num, body |-> p.body, seq |-> p.seq,
                retired |-> p.retired] : p \in d.revisions}
        BY <1>1, RowsOfStore
      <4>2. [mem |-> r.mem, num |-> r.num, body |-> r.body, seq |-> r.seq,
             retired |-> r.retired] \in t["memory_revisions"]
        BY <4>1
      <4>3. QED BY <4>2
    <3>2. PICK h \in t["memory_heads"] : h.mem = q.mem
      <4>1. r.mem \in {x \in Memory : Exists(d, x)}
        BY RowsOfStore
      <4>2. [mem |-> r.mem, head |-> d.heads[r.mem]] \in t["memory_heads"]
        BY <1>1, <4>1, RowsOfStore
      <4>3. QED BY <3>1, <4>2
    <3>3. [mem |-> q.mem, num |-> q.num, kind |-> h.head.kind, state |-> h.head.state,
           key |-> h.head.key, complete |-> Complete(q, h.head)]
             \in t["memory_revision_metadata"]
      BY <2>2, <3>2
    <3>4. QED BY <3>1, <3>3
  <2>5. t["memory_link_revisions"] \subseteq d.links
    <3> SUFFICES ASSUME NEW k \in t["memory_link_revisions"] PROVE k \in d.links
      OBVIOUS
    <3>0. PICK l \in t["memory_links"] : \E n \in LinkSources(t, l) :
             k = [src |-> l.src, srcRev |-> n, dst |-> l.dst, rel |-> l.rel, seq |-> l.seq]
      BY <2>2
    <3>1. PICK n \in LinkSources(t, l) :
             k = [src |-> l.src, srcRev |-> n, dst |-> l.dst, rel |-> l.rel, seq |-> l.seq]
      BY <3>0
    <3>2. PICK j \in d.links : l = [src |-> j.src, dst |-> j.dst, rel |-> j.rel, seq |-> j.seq]
      BY <1>1, RowsOfStore DEF LatestLinks
    <3>3. PICK q \in t["memory_revisions"] : q.mem = l.src /\ q.seq = l.seq /\ n = q.num
      BY DEF LinkSources
    <3>4. PICK r \in d.revisions : r.mem = q.mem /\ r.num = q.num /\ r.seq = q.seq
      BY <1>1, RowsOfStore
    <3>5. [j EXCEPT !.srcRev = r.num] \in d.links
      <4>1. r \in RevisionsOf(d, j.src) /\ r.seq = j.seq
        BY <3>2, <3>3, <3>4 DEF RevisionsOf
      <4>2. QED BY <4>1 DEF Visible, Retraceable
    <3>6. [j EXCEPT !.srcRev = r.num] = k
      <4>1. j = [src |-> j.src, srcRev |-> j.srcRev, dst |-> j.dst, rel |-> j.rel,
                 seq |-> j.seq]
        BY DEF Visible, Store, LinkRow
      <4>2. QED BY <3>1, <3>2, <3>3, <3>4, <4>1
    <3>7. QED BY <3>5, <3>6
  <2>6. \A x, y \in t["memory_revision_metadata"] : x.mem = y.mem /\ x.num = y.num => x = y
    <3>1. \A r, q \in t["memory_revisions"] : r.mem = q.mem /\ r.num = q.num => r = q
      <4>1. t["memory_revisions"] =
              {[mem |-> p.mem, num |-> p.num, body |-> p.body, seq |-> p.seq,
                retired |-> p.retired] : p \in d.revisions}
        BY <1>1, RowsOfStore
      <4>2. \A r, q \in d.revisions : r.mem = q.mem /\ r.num = q.num => r = q
        BY RowsOfStore
      <4>3. QED BY <4>1, <4>2
    <3>2. \A h, k \in t["memory_heads"] : h.mem = k.mem => h = k
      <4>1. t["memory_heads"] =
              {[mem |-> m, head |-> d.heads[m]] : m \in {x \in Memory : Exists(d, x)}}
        BY <1>1, RowsOfStore
      <4>2. QED BY <4>1
    <3>3. QED BY <2>2, <3>1, <3>2
  <2>7. QED BY <1>1, <2>3, <2>4, <2>5, <2>6, RowsOfStore DEF Rebuilt, t
<1>4. QED BY <1>2, <1>3

\* The store in rebuilt tables.  It has the log, the heads, the mapping and
\* the receipts of the source; its revisions are the source's but for what is
\* reconstructed, and its links are links of the source.
SameRevision(p, r) ==
    /\ p.mem = r.mem /\ p.num = r.num /\ p.body = r.body /\ p.seq = r.seq
    /\ p.retired = r.retired /\ p.evidence = r.evidence

\* Events are numbered from 1, so that their number is the last one's.
LEMMA EventsBack ==
    ASSUME NEW d, Visible(d), NEW rows, rows = RowsOf(d, "events")
    PROVE  [i \in 1..Cardinality(rows) |-> (CHOOSE e \in rows : e.seq = i).call] = d.events
<1> DEFINE Row(i) == [seq |-> i, call |-> d.events[i]]
<1>1. PICK n \in Nat : n = Len(d.events) /\ DOMAIN d.events = 1..n
                       /\ d.events = [i \in 1..n |-> d.events[i]]
  <2>1. d.events \in Seq(Request)
    BY DEF Visible, Store
  <2>2. Len(d.events) \in Nat /\ DOMAIN d.events = 1..Len(d.events)
    BY <2>1
  <2>3. d.events = [i \in 1..Len(d.events) |-> d.events[i]]
    BY <2>1
  <2>4. QED BY <2>2, <2>3
<1>2. rows = {Row(i) : i \in 1..n}
  BY <1>1, RowsOfStore
<1>3. Cardinality(rows) = n
  <2> DEFINE f == [i \in 1..n |-> Row(i)]
  <2>1. IsFiniteSet(1..n) /\ Cardinality(1..n) = n
    BY FS_Interval
  <2>2. f \in Surjection(1..n, rows) /\ f \in Injection(1..n, rows)
    <3>1. f \in [1..n -> rows] /\ \A i, j \in 1..n : f[i] = f[j] => i = j
      BY <1>2
    <3>2. \A x \in rows : \E i \in 1..n : f[i] = x
      BY <1>2
    <3> HIDE DEF f
    <3>3. QED BY <3>1, <3>2 DEF Injection, IsInjective, Surjection
  <2> HIDE DEF f
  <2>3. QED BY <2>1, <2>2, FS_Surjection
<1>4. ASSUME NEW i \in 1..n
      PROVE  (CHOOSE e \in rows : e.seq = i).call = d.events[i]
  <2>1. Row(i) \in rows /\ Row(i).seq = i /\ \A e \in rows : e.seq = i => e.call = d.events[i]
    BY <1>2
  <2> HIDE DEF Row
  <2>2. (CHOOSE e \in rows : e.seq = i) \in rows /\ (CHOOSE e \in rows : e.seq = i).seq = i
    BY <2>1
  <2>3. QED BY <2>1, <2>2
<1>5. [i \in 1..n |-> (CHOOSE e \in rows : e.seq = i).call] = [i \in 1..n |-> d.events[i]]
  BY <1>4
<1>6. QED BY <1>1, <1>3, <1>5

LEMMA HeadsBack ==
    ASSUME NEW d, Visible(d), NEW rows, rows = RowsOf(d, "memory_heads")
    PROVE  [m \in Memory |-> IF \E h \in rows : h.mem = m
                             THEN (CHOOSE h \in rows : h.mem = m).head ELSE None] = d.heads
<1>1. rows = {[mem |-> m, head |-> d.heads[m]] : m \in {x \in Memory : Exists(d, x)}}
  BY RowsOfStore
<1>2. ASSUME NEW m \in Memory
      PROVE  (IF \E h \in rows : h.mem = m THEN (CHOOSE h \in rows : h.mem = m).head ELSE None)
             = d.heads[m]
  <2>1. CASE Exists(d, m)
    <3>1. [mem |-> m, head |-> d.heads[m]] \in rows /\ \A h \in rows : h.mem = m => h.head = d.heads[m]
      BY <1>1, <2>1
    <3>2. (CHOOSE h \in rows : h.mem = m) \in rows /\ (CHOOSE h \in rows : h.mem = m).mem = m
      BY <3>1
    <3>3. QED BY <3>1, <3>2
  <2>2. CASE ~Exists(d, m)
    BY <1>1, <2>2 DEF Exists
  <2>3. QED BY <2>1, <2>2
<1>3. d.heads = [m \in Memory |-> d.heads[m]]
  BY DEF Visible, Store
<1>4. QED BY <1>2, <1>3

\* The row of a revision and the events it cites are found by its memory and
\* number.
LEMMA RevisionBack ==
    ASSUME NEW d, Visible(d), NEW t, Rebuilt(d, t), NEW r \in d.revisions
    PROVE  LET q == CHOOSE p \in t["memory_revisions"] : p.mem = r.mem /\ p.num = r.num IN
           /\ q.mem = r.mem /\ q.num = r.num /\ q.body = r.body /\ q.seq = r.seq
           /\ q.retired = r.retired
           /\ {e.event : e \in {y \in t["memory_evidence"] :
                                  y.mem = q.mem /\ y.num = q.num}} = r.evidence
<1> DEFINE q == CHOOSE p \in t["memory_revisions"] : p.mem = r.mem /\ p.num = r.num
           Row(p) == [mem |-> p.mem, num |-> p.num, body |-> p.body, seq |-> p.seq,
                      retired |-> p.retired]
           Cites(p) == {[mem |-> p.mem, num |-> p.num, event |-> e] : e \in p.evidence}
<1>1. /\ t["memory_revisions"] = {Row(p) : p \in d.revisions}
      /\ t["memory_evidence"] = UNION {Cites(p) : p \in d.revisions}
      /\ \A p \in d.revisions : p.mem = r.mem /\ p.num = r.num => p = r
  BY RowsOfStore DEF Rebuilt
<1>2. Row(r) \in t["memory_revisions"] /\ Row(r).mem = r.mem /\ Row(r).num = r.num
  BY <1>1
<1>3. \A x \in t["memory_revisions"] : x.mem = r.mem /\ x.num = r.num => x = Row(r)
  BY <1>1
<1>4. q = Row(r)
  <2> HIDE DEF Row
  <2>1. q \in t["memory_revisions"] /\ q.mem = r.mem /\ q.num = r.num
    BY <1>2
  <2>2. QED BY <1>3, <2>1
<1> HIDE DEF q
<1>5. /\ q.mem = r.mem /\ q.num = r.num /\ q.body = r.body /\ q.seq = r.seq
      /\ q.retired = r.retired
  BY <1>4
<1>6. \A x : x \in t["memory_evidence"] /\ x.mem = r.mem /\ x.num = r.num <=>
             x \in Cites(r)
  <2>1. \A p \in d.revisions : \A x \in Cites(p) : x.mem = p.mem /\ x.num = p.num
    OBVIOUS
  <2> HIDE DEF Cites
  <2>2. QED BY <1>1, <2>1
<1>7. {y \in t["memory_evidence"] : y.mem = q.mem /\ y.num = q.num} = Cites(r)
  BY <1>5, <1>6
<1>8. {e.event : e \in Cites(r)} = r.evidence
  <2>1. \A e \in r.evidence : [mem |-> r.mem, num |-> r.num, event |-> e] \in Cites(r)
    OBVIOUS
  <2>2. \A x \in Cites(r) : x.event \in r.evidence
    OBVIOUS
  <2> HIDE DEF Cites
  <2>3. ASSUME NEW e \in r.evidence PROVE \E x \in Cites(r) : x.event = e
    <3>1. [mem |-> r.mem, num |-> r.num, event |-> e].event = e
      OBVIOUS
    <3>2. QED BY <2>1, <3>1
  <2>4. QED BY <2>2, <2>3
<1>9. QED BY <1>5, <1>7, <1>8 DEF q

LEMMA StoreBack ==
    ASSUME NEW d, Visible(d), NEW t, Rebuilt(d, t)
    PROVE  LET s == StoreOf(t, d.index) IN
           /\ s.events = d.events /\ s.heads = d.heads /\ s.touched = d.touched
           /\ s.index = d.index /\ s.receipts = d.receipts /\ s.links \subseteq d.links
           /\ \A p \in s.revisions : \E r \in d.revisions : SameRevision(p, r)
           /\ \A r \in d.revisions : \E p \in s.revisions : SameRevision(p, r)
           /\ \A p, q \in s.revisions : p.mem = q.mem /\ p.num = q.num => p = q
<1> DEFINE s == StoreOf(t, d.index)
           Of(x) == CHOOSE r \in t["memory_revisions"] : r.mem = x.mem /\ r.num = x.num
           Back(x) == [mem |-> Of(x).mem, num |-> Of(x).num, kind |-> x.kind,
                       state |-> x.state, key |-> x.key, body |-> Of(x).body,
                       seq |-> Of(x).seq, retired |-> Of(x).retired,
                       evidence |-> {e.event : e \in {y \in t["memory_evidence"] :
                                       y.mem = Of(x).mem /\ y.num = Of(x).num}}]
<1>1. s.events = d.events
  BY EventsBack DEF StoreOf, Rebuilt
<1>2. s.heads = d.heads
  BY HeadsBack DEF StoreOf, Rebuilt
<1>3. /\ s.touched = d.touched /\ s.index = d.index /\ s.receipts = d.receipts
      /\ s.links \subseteq d.links
  BY DEF StoreOf, Rebuilt
<1>4. s.revisions = {Back(x) : x \in t["memory_revision_metadata"]}
  BY DEF StoreOf
<1> HIDE DEF s
<1>5. ASSUME NEW x, NEW r \in d.revisions, r.mem = x.mem, r.num = x.num
      PROVE  SameRevision(Back(x), r)
  <2>1. Of(x) = CHOOSE p \in t["memory_revisions"] : p.mem = r.mem /\ p.num = r.num
    BY <1>5
  <2> HIDE DEF Of
  <2>2. /\ Of(x).mem = r.mem /\ Of(x).num = r.num /\ Of(x).body = r.body
        /\ Of(x).seq = r.seq /\ Of(x).retired = r.retired
        /\ {e.event : e \in {y \in t["memory_evidence"] :
                              y.mem = Of(x).mem /\ y.num = Of(x).num}} = r.evidence
    BY <2>1, RevisionBack
  <2>3. QED BY <2>2 DEF SameRevision
<1> HIDE DEF Back
<1>6. ASSUME NEW p \in s.revisions
      PROVE  \E r \in d.revisions : SameRevision(p, r)
  <2>1. PICK x \in t["memory_revision_metadata"] : p = Back(x)
    BY <1>4
  <2>2. PICK r \in d.revisions : r.mem = x.mem /\ r.num = x.num
    BY DEF Rebuilt
  <2>3. QED BY <1>5, <2>1, <2>2
<1>7. ASSUME NEW r \in d.revisions
      PROVE  \E p \in s.revisions : SameRevision(p, r)
  <2>1. PICK x \in t["memory_revision_metadata"] : x.mem = r.mem /\ x.num = r.num
    BY DEF Rebuilt
  <2>2. Back(x) \in s.revisions /\ SameRevision(Back(x), r)
    BY <1>4, <1>5, <2>1
  <2>3. QED BY <2>2
<1>8. ASSUME NEW p \in s.revisions, NEW q \in s.revisions, p.mem = q.mem, p.num = q.num
      PROVE  p = q
  <2>1. PICK x \in t["memory_revision_metadata"] : p = Back(x)
    BY <1>4
  <2>2. PICK y \in t["memory_revision_metadata"] : q = Back(y)
    BY <1>4
  <2>3. ASSUME NEW z \in t["memory_revision_metadata"]
        PROVE  Back(z).mem = z.mem /\ Back(z).num = z.num
    <3>1. PICK r \in d.revisions : r.mem = z.mem /\ r.num = z.num
      BY DEF Rebuilt
    <3>2. SameRevision(Back(z), r)
      BY <1>5, <3>1
    <3>3. QED BY <3>1, <3>2 DEF SameRevision
  <2>4. x = y
    BY <1>8, <2>1, <2>2, <2>3 DEF Rebuilt
  <2>5. QED BY <2>1, <2>2, <2>4
<1>9. QED BY <1>1, <1>2, <1>3, <1>6, <1>7, <1>8 DEF s

\* A store rebuilt from the rows of a sound one is sound.
LEMMA RebuiltIsSound ==
    ASSUME NEW d, Visible(d), NEW t, Rebuilt(d, t)
    PROVE  LET s == StoreOf(t, d.index) IN
           /\ Findings(t) = {}
           /\ RevisionChainOf(s) /\ ScopeClosedOf(s) /\ AtMostOnceOf(s)
           /\ \A i \in DOMAIN s.events : s.events[i].idem # None => Seen(s, s.events[i])
<1> DEFINE s == StoreOf(t, d.index)
<1>1. /\ s.events = d.events /\ s.heads = d.heads /\ s.touched = d.touched
      /\ s.index = d.index /\ s.receipts = d.receipts /\ s.links \subseteq d.links
      /\ \A p \in s.revisions : \E r \in d.revisions : SameRevision(p, r)
      /\ \A r \in d.revisions : \E p \in s.revisions : SameRevision(p, r)
      /\ \A p, q \in s.revisions : p.mem = q.mem /\ p.num = q.num => p = q
  BY StoreBack
<1> HIDE DEF s
<1>2. /\ d \in Store /\ RevisionChainOf(d) /\ ScopeClosedOf(d) /\ AtMostOnceOf(d)
      /\ ReceiptsTellTheTruthOf(d)
  BY DEF Visible, Grounded, LogInv
<1>3. RevisionChainOf(s)
  <2> SUFFICES ASSUME NEW m \in Memory
               PROVE  IF Exists(s, m)
                      THEN /\ {r.num : r \in RevisionsOf(s, m)} = 1..s.heads[m].rev
                           /\ \A p, q \in RevisionsOf(s, m) : p.num = q.num => p = q
                           /\ \A p \in RevisionsOf(s, m) : p.retired <=> p.num # s.heads[m].rev
                      ELSE RevisionsOf(s, m) = {}
    BY DEF RevisionChainOf
  <2>1. /\ \A p \in RevisionsOf(s, m) : \E r \in RevisionsOf(d, m) : SameRevision(p, r)
        /\ \A r \in RevisionsOf(d, m) : \E p \in RevisionsOf(s, m) : SameRevision(p, r)
    BY <1>1 DEF RevisionsOf, SameRevision
  <2>2. Exists(s, m) <=> Exists(d, m)
    BY <1>1 DEF Exists
  <2>3. {r.num : r \in RevisionsOf(s, m)} = {r.num : r \in RevisionsOf(d, m)}
    BY <2>1 DEF SameRevision
  <2>4. \A p, q \in RevisionsOf(s, m) : p.num = q.num => p = q
    BY <1>1 DEF RevisionsOf
  <2>5. CASE Exists(d, m)
    <3>1. /\ {r.num : r \in RevisionsOf(d, m)} = 1..d.heads[m].rev
          /\ \A r \in RevisionsOf(d, m) : r.retired <=> r.num # d.heads[m].rev
      BY <1>2, <2>5 DEF RevisionChainOf
    <3>2. \A p \in RevisionsOf(s, m) : p.retired <=> p.num # s.heads[m].rev
      BY <1>1, <2>1, <3>1 DEF SameRevision
    <3>3. QED BY <1>1, <2>2, <2>3, <2>4, <2>5, <3>1, <3>2
  <2>6. CASE ~Exists(d, m)
    <3>1. RevisionsOf(d, m) = {}
      BY <1>2, <2>6 DEF RevisionChainOf
    <3>2. QED BY <2>1, <2>2, <2>6, <3>1
  <2>7. QED BY <2>5, <2>6
<1>4. ScopeClosedOf(s)
  <2>1. \A m : Exists(s, m) <=> Exists(d, m)
    BY <1>1 DEF Exists
  <2>2. ASSUME NEW p \in s.revisions
        PROVE  Exists(s, p.mem) /\ \A e \in p.evidence :
                  e \in DOMAIN s.events /\ s.events[e].scope = s.heads[p.mem].scope
    <3>1. PICK r \in d.revisions : SameRevision(p, r)
      BY <1>1
    <3>2. QED BY <1>1, <1>2, <2>1, <3>1 DEF SameRevision, ScopeClosedOf
  <2>3. QED BY <1>1, <1>2, <2>1, <2>2 DEF ScopeClosedOf
<1>5. AtMostOnceOf(s)
  BY <1>1, <1>2 DEF AtMostOnceOf
<1>6. ASSUME NEW i \in DOMAIN s.events, s.events[i].idem # None
      PROVE  Seen(s, s.events[i])
  <2>1. PICK r \in d.receipts : r.seq = i
    BY <1>1, <1>2, <1>6 DEF ReceiptsTellTheTruthOf
  <2>2. Slot(d.events[i]) = r.slot /\ Fingerprint(d.events[i]) = r.hash
    BY <1>2, <2>1 DEF ReceiptsTellTheTruthOf
  <2>3. QED BY <1>1, <1>6, <2>1, <2>2 DEF Seen, Receipts
<1>7. Findings(t) = {}
  <2>1. t["memory_revisions"] =
          {[mem |-> p.mem, num |-> p.num, body |-> p.body, seq |-> p.seq,
            retired |-> p.retired] : p \in d.revisions}
    BY RowsOfStore DEF Rebuilt
  <2>2. t["memory_heads"] =
          {[mem |-> m, head |-> d.heads[m]] : m \in {x \in Memory : Exists(d, x)}}
    BY RowsOfStore DEF Rebuilt
  <2>3. ASSUME NEW x \in t["memory_heads"]
        PROVE  /\ \E r \in t["memory_revisions"] : r.mem = x.mem /\ r.num = x.head.rev
               /\ ~\E r \in t["memory_revisions"] : r.mem = x.mem /\ r.num > x.head.rev
    <3>1. x.mem \in Memory /\ Exists(d, x.mem) /\ x.head = d.heads[x.mem]
      BY <2>2
    <3>2. x.head.rev \in Nat \ {0}
      BY <1>2, <3>1 DEF Store, HeadRow, Exists
    <3>3. {r.num : r \in RevisionsOf(d, x.mem)} = 1..x.head.rev
      BY <1>2, <3>1 DEF RevisionChainOf
    <3>4. PICK r \in RevisionsOf(d, x.mem) : r.num = x.head.rev
      <4>1. x.head.rev \in 1..x.head.rev
        BY <3>2
      <4>2. QED BY <3>3, <4>1
    <3>5. [mem |-> r.mem, num |-> r.num, body |-> r.body, seq |-> r.seq,
           retired |-> r.retired] \in t["memory_revisions"]
      BY <2>1, <3>4 DEF RevisionsOf
    <3>6. \E q \in t["memory_revisions"] : q.mem = x.mem /\ q.num = x.head.rev
      <4>1. r.mem = x.mem
        BY DEF RevisionsOf
      <4>2. QED BY <3>4, <3>5, <4>1
    <3>7. ASSUME NEW q \in t["memory_revisions"], q.mem = x.mem, q.num > x.head.rev
          PROVE  FALSE
      <4>1. PICK p \in d.revisions : p.mem = q.mem /\ p.num = q.num
        BY <2>1
      <4>2. p.num \in 1..x.head.rev
        BY <3>3, <3>7, <4>1 DEF RevisionsOf
      <4>3. QED BY <3>2, <3>7, <4>1, <4>2
    <3>8. QED BY <3>6, <3>7
  <2>4. ASSUME NEW x \in t["memory_revisions"]
        PROVE  \E m \in t["memory_revision_metadata"] : m.mem = x.mem /\ m.num = x.num
    <3>1. PICK r \in d.revisions : r.mem = x.mem /\ r.num = x.num
      BY <2>1
    <3>2. QED BY <3>1 DEF Rebuilt
  <2>5. QED BY <2>3, <2>4 DEF Findings
<1>8. QED BY <1>3, <1>4, <1>5, <1>6, <1>7 DEF s

----------------------------------------------------------------------------
(* Importing in the order of the tables *)

\* Every row of a store names events, memories and revisions it has.
LEMMA RowsAreKeyed ==
    ASSUME NEW d, Visible(d)
    PROVE  /\ \A s : (\E e \in RowsOf(d, "events") : e.seq = s) <=> s \in DOMAIN d.events
           /\ \A m : (\E h \in RowsOf(d, "memory_heads") : h.mem = m)
                     <=> m \in Memory /\ Exists(d, m)
           /\ \A h \in RowsOf(d, "memory_heads") : h.head.updated \in DOMAIN d.events
           /\ \A r \in d.revisions : \E q \in RowsOf(d, "memory_revisions") :
                 q.mem = r.mem /\ q.num = r.num
           /\ \A q \in RowsOf(d, "memory_revisions") :
                 q.mem \in Memory /\ Exists(d, q.mem) /\ q.seq \in DOMAIN d.events
           /\ \A e \in RowsOf(d, "memory_evidence") :
                 /\ \E r \in d.revisions : r.mem = e.mem /\ r.num = e.num
                 /\ e.event \in DOMAIN d.events
           /\ \A l \in d.links :
                 /\ {l.src, l.dst} \subseteq {m \in Memory : Exists(d, m)}
                 /\ l.seq \in DOMAIN d.events
                 /\ \E r \in d.revisions : r.mem = l.src /\ r.num = l.srcRev
           /\ \A k \in RowsOf(d, "memory_links") : \E l \in d.links :
                 k.src = l.src /\ k.dst = l.dst /\ k.seq = l.seq
           /\ \A u \in RowsOf(d, "event_memories") :
                 u[1] \in DOMAIN d.events /\ u[2] \in Memory /\ Exists(d, u[2])
           /\ \A x \in RowsOf(d, "memory_revision_metadata") :
                 \E r \in d.revisions : r.mem = x.mem /\ r.num = x.num
<1>1. d \in Store /\ ScopeClosedOf(d) /\ Anchored(d) /\ EveryChangeHasEventOf(d)
  BY DEF Visible, Grounded, Explained
<1>2. \A r \in d.revisions : r.mem \in Memory /\ Exists(d, r.mem) /\ r.seq \in DOMAIN d.events
  BY RowsOfStore
<1>3. ASSUME NEW s
      PROVE  (\E e \in RowsOf(d, "events") : e.seq = s) <=> s \in DOMAIN d.events
  <2>1. RowsOf(d, "events") = {[seq |-> i, call |-> d.events[i]] : i \in DOMAIN d.events}
    BY RowsOfStore
  <2>2. ASSUME s \in DOMAIN d.events PROVE \E e \in RowsOf(d, "events") : e.seq = s
    <3>1. [seq |-> s, call |-> d.events[s]] \in RowsOf(d, "events")
      BY <2>1, <2>2
    <3>2. QED BY <3>1
  <2>3. QED BY <2>1, <2>2
<1>4. /\ \A m : (\E h \in RowsOf(d, "memory_heads") : h.mem = m) <=> m \in Memory /\ Exists(d, m)
      /\ \A h \in RowsOf(d, "memory_heads") : h.head.updated \in DOMAIN d.events
  <2>1. RowsOf(d, "memory_heads") =
          {[mem |-> m, head |-> d.heads[m]] : m \in {x \in Memory : Exists(d, x)}}
    BY RowsOfStore
  <2>2. ASSUME NEW m \in Memory, Exists(d, m)
        PROVE  /\ \E h \in RowsOf(d, "memory_heads") : h.mem = m
               /\ d.heads[m].updated \in DOMAIN d.events
    <3>1. [mem |-> m, head |-> d.heads[m]] \in RowsOf(d, "memory_heads")
      BY <2>1, <2>2
    <3>2. <<d.heads[m].updated, m>> \in d.touched
      BY <1>1, <2>2 DEF EveryChangeHasEventOf
    <3>3. <<d.heads[m].updated, m>>[1] \in DOMAIN d.events
      BY <1>1, <3>2 DEF ScopeClosedOf
    <3>4. QED BY <3>1, <3>3
  <2>3. QED BY <2>1, <2>2
<1>5. /\ \A r \in d.revisions : \E q \in RowsOf(d, "memory_revisions") :
            q.mem = r.mem /\ q.num = r.num
      /\ \A q \in RowsOf(d, "memory_revisions") :
            q.mem \in Memory /\ Exists(d, q.mem) /\ q.seq \in DOMAIN d.events
  <2>1. RowsOf(d, "memory_revisions") =
          {[mem |-> p.mem, num |-> p.num, body |-> p.body, seq |-> p.seq,
            retired |-> p.retired] : p \in d.revisions}
    BY RowsOfStore
  <2>2. ASSUME NEW r \in d.revisions
        PROVE  \E q \in RowsOf(d, "memory_revisions") : q.mem = r.mem /\ q.num = r.num
    <3>1. [mem |-> r.mem, num |-> r.num, body |-> r.body, seq |-> r.seq,
           retired |-> r.retired] \in RowsOf(d, "memory_revisions")
      BY <2>1
    <3>2. QED BY <3>1
  <2>3. QED BY <1>2, <2>1, <2>2
<1>6. ASSUME NEW e \in RowsOf(d, "memory_evidence")
      PROVE  (\E r \in d.revisions : r.mem = e.mem /\ r.num = e.num) /\ e.event \in DOMAIN d.events
  <2>1. PICK r \in d.revisions :
          e \in {[mem |-> r.mem, num |-> r.num, event |-> x] : x \in r.evidence}
    BY RowsOfStore
  <2>2. QED BY <1>1, <2>1 DEF ScopeClosedOf
<1>7. ASSUME NEW l \in d.links
      PROVE  /\ {l.src, l.dst} \subseteq {m \in Memory : Exists(d, m)}
             /\ l.seq \in DOMAIN d.events
             /\ \E r \in d.revisions : r.mem = l.src /\ r.num = l.srcRev
  <2>1. l.src \in Memory /\ l.dst \in Memory
    BY <1>1 DEF Store, LinkRow
  <2>2. Exists(d, l.src) /\ Exists(d, l.dst)
    BY <1>1 DEF ScopeClosedOf
  <2>3. PICK r \in RevisionsOf(d, l.src) : r.num = l.srcRev /\ r.seq = l.seq
    BY <1>1 DEF Anchored
  <2>4. QED BY <1>2, <2>1, <2>2, <2>3 DEF RevisionsOf
<1>8. ASSUME NEW k \in RowsOf(d, "memory_links")
      PROVE  \E l \in d.links : k.src = l.src /\ k.dst = l.dst /\ k.seq = l.seq
  BY RowsOfStore DEF LatestLinks
<1>9. ASSUME NEW u \in RowsOf(d, "event_memories")
      PROVE  u[1] \in DOMAIN d.events /\ u[2] \in Memory /\ Exists(d, u[2])
  <2>1. u \in d.touched
    BY RowsOfStore
  <2>2. QED BY <1>1, <2>1 DEF Store, ScopeClosedOf
<1>10. ASSUME NEW x \in RowsOf(d, "memory_revision_metadata")
       PROVE  \E r \in d.revisions : r.mem = x.mem /\ r.num = x.num
  BY RowsOfStore
<1>11. QED BY <1>3, <1>4, <1>5, <1>6, <1>7, <1>8, <1>9, <1>10

\* Tables that are filled in the order of the file never lack a row another
\* row refers to.
LEMMA OrderKeepsKeys ==
    ASSUME NEW d, Visible(d), NEW n \in 0..9, NEW rows,
           \A i \in 1..9 : rows[V2Tables[i]] = IF i <= n THEN RowsOf(d, V2Tables[i]) ELSE {}
    PROVE  ForeignKeysHold(rows)
<1>1. /\ rows["events"] = IF 1 <= n THEN RowsOf(d, "events") ELSE {}
      /\ rows["memory_heads"] = IF 2 <= n THEN RowsOf(d, "memory_heads") ELSE {}
      /\ rows["memory_revisions"] = IF 3 <= n THEN RowsOf(d, "memory_revisions") ELSE {}
      /\ rows["memory_evidence"] = IF 4 <= n THEN RowsOf(d, "memory_evidence") ELSE {}
      /\ rows["memory_links"] = IF 5 <= n THEN RowsOf(d, "memory_links") ELSE {}
      /\ rows["event_memories"] = IF 6 <= n THEN RowsOf(d, "event_memories") ELSE {}
      /\ rows["memory_revision_metadata"] =
            IF 8 <= n THEN RowsOf(d, "memory_revision_metadata") ELSE {}
      /\ rows["memory_link_revisions"] =
            IF 9 <= n THEN RowsOf(d, "memory_link_revisions") ELSE {}
  <2>1. 1 \in 1..9 /\ 2 \in 1..9 /\ 3 \in 1..9 /\ 4 \in 1..9 /\ 5 \in 1..9 /\ 6 \in 1..9
        /\ 8 \in 1..9 /\ 9 \in 1..9
    OBVIOUS
  <2>2. QED BY <2>1, TablesInOrder
<1> DEFINE seqs == {e.seq : e \in rows["events"]}
           heads == {h.mem : h \in rows["memory_heads"]}
           revisions == {<<r.mem, r.num>> : r \in rows["memory_revisions"]}
<1>2. \A s : s \in seqs <=> \E e \in rows["events"] : e.seq = s
  OBVIOUS
<1>3. \A m : m \in heads <=> \E h \in rows["memory_heads"] : h.mem = m
  OBVIOUS
<1>4. \A m, k : (\E r \in rows["memory_revisions"] : r.mem = m /\ r.num = k)
                => <<m, k>> \in revisions
  OBVIOUS
<1> HIDE DEF seqs, heads, revisions
<1>5. n >= 1 => \A s \in DOMAIN d.events : s \in seqs
  BY <1>1, <1>2, RowsAreKeyed
<1>6. n >= 2 => \A m \in Memory : Exists(d, m) => m \in heads
  BY <1>1, <1>3, RowsAreKeyed
<1>7. n >= 3 => \A r \in d.revisions : <<r.mem, r.num>> \in revisions
  <2> SUFFICES ASSUME n >= 3, NEW r \in d.revisions PROVE <<r.mem, r.num>> \in revisions
    OBVIOUS
  <2>1. PICK q \in rows["memory_revisions"] : q.mem = r.mem /\ q.num = r.num
    BY <1>1, RowsAreKeyed
  <2>2. QED BY <1>4, <2>1
<1>8. ASSUME NEW h \in rows["memory_heads"] PROVE h.head.updated \in seqs
  BY <1>1, <1>5, RowsAreKeyed
<1>9. ASSUME NEW r \in rows["memory_revisions"] PROVE r.mem \in heads /\ r.seq \in seqs
  BY <1>1, <1>5, <1>6, RowsAreKeyed
<1>10. ASSUME NEW e \in rows["memory_evidence"]
       PROVE  <<e.mem, e.num>> \in revisions /\ e.event \in seqs
  <2>1. n >= 4 /\ e \in RowsOf(d, "memory_evidence")
    BY <1>1
  <2>2. PICK r \in d.revisions : r.mem = e.mem /\ r.num = e.num
    BY <2>1, RowsAreKeyed
  <2>3. QED BY <1>5, <1>7, <2>1, <2>2, RowsAreKeyed
<1>11. ASSUME NEW k \in rows["memory_links"]
       PROVE  {k.src, k.dst} \subseteq heads /\ k.seq \in seqs
  <2>1. n >= 5 /\ k \in RowsOf(d, "memory_links")
    BY <1>1
  <2>2. PICK l \in d.links : k.src = l.src /\ k.dst = l.dst /\ k.seq = l.seq
    BY <2>1, RowsAreKeyed
  <2>3. {l.src, l.dst} \subseteq {m \in Memory : Exists(d, m)} /\ l.seq \in DOMAIN d.events
    BY RowsAreKeyed
  <2>4. QED BY <1>5, <1>6, <2>1, <2>2, <2>3
<1>12. ASSUME NEW u \in rows["event_memories"] PROVE u[1] \in seqs /\ u[2] \in heads
  BY <1>1, <1>5, <1>6, RowsAreKeyed
<1>13. ASSUME NEW x \in rows["memory_revision_metadata"] PROVE <<x.mem, x.num>> \in revisions
  <2>1. n >= 8 /\ x \in RowsOf(d, "memory_revision_metadata")
    BY <1>1
  <2>2. PICK r \in d.revisions : r.mem = x.mem /\ r.num = x.num
    BY <2>1, RowsAreKeyed
  <2>3. QED BY <1>7, <2>1, <2>2
<1>14. ASSUME NEW l \in rows["memory_link_revisions"]
       PROVE  <<l.src, l.srcRev>> \in revisions /\ l.dst \in heads /\ l.seq \in seqs
  <2>1. n >= 9 /\ l \in d.links
    BY <1>1, RowsOfStore
  <2>2. PICK r \in d.revisions : r.mem = l.src /\ r.num = l.srcRev
    BY <2>1, RowsAreKeyed
  <2>3. {l.src, l.dst} \subseteq {m \in Memory : Exists(d, m)} /\ l.seq \in DOMAIN d.events
    BY <2>1, RowsAreKeyed
  <2>4. QED BY <1>5, <1>6, <1>7, <2>1, <2>2, <2>3
<1>15. QED BY <1>8, <1>9, <1>10, <1>11, <1>12, <1>13, <1>14
          DEF ForeignKeysHold, seqs, heads, revisions

LEMMA ImportKeepsKeys ==
    ASSUME SnapInv
    PROVE  ReferencesAlreadyThere
<1> SUFFICES ASSUME import # None PROVE ForeignKeysHold(import.work)
  BY DEF ReferencesAlreadyThere
<1>1. Importing /\ Visible(file.origin) /\ file.version \in {1, 2}
      /\ file.tables = FileRows(file.version, file.origin)
  BY DEF SnapInv, Importing, Written, FileShape
<1>2. import.done \in 0..9 /\ (file.version = 1 => import.done \in 0..7)
  <2>1. import.done \in 0..Len(ImportOrder(file.version))
    BY <1>1 DEF Importing
  <2>2. CASE file.version = 1
    <3>1. Len(ImportOrder(file.version)) = 7
      BY <2>2 DEF ImportOrder, TablesOfVersion, V1Tables
    <3>2. QED BY <2>1, <3>1
  <2>3. CASE file.version = 2
    <3>1. Len(ImportOrder(file.version)) = 9
      BY <2>3, TablesAre DEF ImportOrder, TablesOfVersion
    <3>2. QED BY <2>1, <2>3, <3>1
  <2>4. QED BY <1>1, <2>2, <2>3
<1>3. ASSUME NEW i \in 1..9
      PROVE  import.work[V2Tables[i]] =
                IF i <= import.done THEN RowsOf(file.origin, V2Tables[i]) ELSE {}
  <2>1. V2Tables[i] \in TableName
    BY TablesAre
  <2>2. (\E j \in 1..import.done : V2Tables[j] = V2Tables[i]) <=> i <= import.done
    <3>1. \A j \in 1..import.done : j \in 1..9
      BY <1>2
    <3>2. QED BY <1>2, <3>1, TablesAre
  <2>3. import.work[V2Tables[i]] =
           IF i <= import.done THEN file.tables[V2Tables[i]] ELSE {}
    BY <1>1, <2>1, <2>2 DEF Importing
  <2>4. i <= import.done => file.tables[V2Tables[i]] = RowsOf(file.origin, V2Tables[i])
    <3>1. CASE file.version = 1
      <4>1. i <= import.done => i \in 1..7
        BY <1>2, <3>1
      <4>2. QED BY <1>1, <3>1, <4>1, RowsFilled
    <3>2. CASE file.version = 2
      BY <1>1, <2>1, <3>2 DEF FileRows, AllRows
    <3>3. QED BY <1>1, <3>1, <3>2
  <2>5. QED BY <2>3, <2>4
<1>4. QED BY <1>1, <1>2, <1>3, OrderKeepsKeys

\* The metadata of a revision that is marked complete is what the revision was
\* written with, and every head nothing happened to since keeps its metadata.
LEMMA MetadataIsHonest ==
    ASSUME NEW v \in {1, 2}, NEW d, Visible(d),
           NEW x \in TargetRows(v, d)["memory_revision_metadata"]
    PROVE  /\ x.complete =>
                 \E r \in RevisionsOf(d, x.mem) :
                    r.num = x.num /\ r.kind = x.kind /\ r.state = x.state /\ r.key = x.key
           /\ x.num = d.heads[x.mem].rev
              /\ HeadRevision(d, x.mem).seq = d.heads[x.mem].updated
              => x.complete
<1>1. CASE v = 2
  <2>1. x \in RowsOf(d, "memory_revision_metadata")
    <3>1. "memory_revision_metadata" \in TableName
      BY TablesAre
    <3>2. QED BY <1>1, <3>1 DEF TargetRows, AllRows
  <2>2. PICK r \in d.revisions :
          x = [mem |-> r.mem, num |-> r.num, kind |-> r.kind, state |-> r.state,
               key |-> r.key, complete |-> TRUE]
    BY <2>1, RowsOfStore
  <2>3. r \in RevisionsOf(d, x.mem)
    BY <2>2 DEF RevisionsOf
  <2>4. QED BY <2>2, <2>3
<1>2. CASE v = 1
  <2> DEFINE b == Backfill(LegacyRows(d))
  <2>1. x \in b["memory_revision_metadata"]
    BY <1>2 DEF TargetRows
  <2>2. \E q \in b["memory_revisions"] : \E h \in b["memory_heads"] :
          /\ h.mem = q.mem
          /\ x = [mem |-> q.mem, num |-> q.num, kind |-> h.head.kind, state |-> h.head.state,
                  key |-> h.head.key, complete |-> Complete(q, h.head)]
    BY <2>1, OlderFilled
  <2>3. b["memory_revisions"] = RowsOf(d, "memory_revisions")
        /\ b["memory_heads"] = RowsOf(d, "memory_heads")
    <3>1. 3 \in 1..7 /\ V2Tables[3] = "memory_revisions"
      BY TablesInOrder
    <3>2. TargetRows(1, d) = b
      BY DEF TargetRows
    <3>3. QED BY <3>1, <3>2, RowsFilled
  <2> HIDE DEF b
  <2>4. PICK r \in d.revisions :
          /\ x.mem = r.mem /\ x.num = r.num /\ x.kind = d.heads[r.mem].kind
          /\ x.state = d.heads[r.mem].state /\ x.key = d.heads[r.mem].key
          /\ x.complete <=> r.num = d.heads[r.mem].rev /\ r.seq = d.heads[r.mem].updated
    <3>1. PICK q \in RowsOf(d, "memory_revisions") : \E h \in RowsOf(d, "memory_heads") :
            /\ h.mem = q.mem
            /\ x = [mem |-> q.mem, num |-> q.num, kind |-> h.head.kind, state |-> h.head.state,
                    key |-> h.head.key, complete |-> Complete(q, h.head)]
      BY <2>2, <2>3
    <3>2. PICK h \in RowsOf(d, "memory_heads") :
            /\ h.mem = q.mem
            /\ x = [mem |-> q.mem, num |-> q.num, kind |-> h.head.kind, state |-> h.head.state,
                    key |-> h.head.key, complete |-> Complete(q, h.head)]
      BY <3>1
    <3>3. PICK r \in d.revisions : q.mem = r.mem /\ q.num = r.num /\ q.seq = r.seq
      BY RowsOfStore
    <3>4. h.head = d.heads[r.mem]
      BY <3>2, <3>3, RowsOfStore
    <3>5. QED BY <3>2, <3>3, <3>4 DEF Complete
  <2>5. r \in RevisionsOf(d, x.mem)
    BY <2>4 DEF RevisionsOf
  <2>6. ASSUME x.complete
        PROVE  r.kind = x.kind /\ r.state = x.state /\ r.key = x.key
    BY <2>4, <2>6 DEF Visible, Retraceable, Told
  <2>7. ASSUME x.num = d.heads[x.mem].rev,
               HeadRevision(d, x.mem).seq = d.heads[x.mem].updated
        PROVE  x.complete
    <3>1. r.num = d.heads[x.mem].rev
      BY <2>4, <2>7
    <3>2. \A q \in RevisionsOf(d, x.mem) : q.num = d.heads[x.mem].rev => q = r
      BY <2>4, <3>1, RowsOfStore DEF RevisionsOf
    <3>3. HeadRevision(d, x.mem) = r
      BY <2>5, <3>1, <3>2 DEF HeadRevision
    <3>4. QED BY <2>4, <2>7, <3>1, <3>3
  <2>8. QED BY <2>4, <2>5, <2>6, <2>7
<1>3. QED BY <1>1, <1>2

\* Of the links of a source, target and relation, one is the latest.
LEMMA LatestOf ==
    ASSUME NEW d \in Store, NEW l \in d.links
    PROVE  \E k \in d.links : /\ SameLink(k, l) /\ k.seq >= l.seq
                              /\ \A j \in d.links : SameLink(j, k) => j.seq <= k.seq
<1> DEFINE Same == {k \in d.links : SameLink(k, l)}
           Ages == {MaxSeq - k.seq : k \in Same}
<1>1. \A k \in d.links : k.seq \in 1..MaxSeq
  BY DEF Store, LinkRow
<1>2. MaxSeq \in Nat /\ l \in Same
  BY StoreAssumption DEF SameLink
<1>3. Ages \in SUBSET Nat /\ Ages # {}
  BY <1>1, <1>2
<1>4. PICK a \in Ages : \A b \in Ages : ~ (<<b, a>> \in OpToRel(<, Nat))
  BY <1>3, NatLessThanWellFounded, WFMin
<1>5. ASSUME NEW b \in Ages PROVE a <= b
  <2>1. a \in Nat /\ b \in Nat
    BY <1>3
  <2>2. ~ (<<b, a>> \in OpToRel(<, Nat))
    BY <1>4
  <2>3. ~ (b < a)
    BY <2>1, <2>2 DEF OpToRel
  <2>4. QED BY <2>1, <2>3
<1>6. PICK k \in Same : a = MaxSeq - k.seq
  OBVIOUS
<1>7. ASSUME NEW j \in d.links, SameLink(j, l) PROVE j.seq <= k.seq
  <2>1. MaxSeq - j.seq \in Ages
    BY <1>7
  <2>2. a <= MaxSeq - j.seq
    BY <1>5, <2>1
  <2>3. QED BY <1>1, <1>2, <1>6, <2>2
<1>8. k \in d.links /\ SameLink(k, l)
  OBVIOUS
<1>9. \A j : SameLink(j, k) => SameLink(j, l)
  BY <1>8 DEF SameLink
<1>10. SameLink(l, l)
  BY DEF SameLink
<1>11. QED BY <1>7, <1>8, <1>9, <1>10

LEMMA LatestLinksStay ==
    ASSUME NEW v \in {1, 2}, NEW d, Visible(d), NEW l \in d.links
    PROVE  \E k \in TargetRows(v, d)["memory_link_revisions"] : SameLink(k, l) /\ k.seq >= l.seq
<1>1. CASE v = 2
  <2>1. TargetRows(v, d)["memory_link_revisions"] = d.links
    <3>1. "memory_link_revisions" \in TableName
      BY TablesAre
    <3>2. QED BY <1>1, <3>1, RowsOfStore DEF TargetRows, AllRows
  <2>2. SameLink(l, l) /\ l.seq >= l.seq
    BY DEF SameLink, Visible, Store, LinkRow
  <2>3. QED BY <2>1, <2>2
<1>2. CASE v = 1
  <2> DEFINE b == Backfill(LegacyRows(d))
             Row(k) == [src |-> k.src, dst |-> k.dst, rel |-> k.rel, seq |-> k.seq]
  <2>1. b["memory_revisions"] = RowsOf(d, "memory_revisions")
        /\ b["memory_links"] = LatestLinks(d)
    <3>1. 3 \in 1..7 /\ V2Tables[3] = "memory_revisions"
          /\ 5 \in 1..7 /\ V2Tables[5] = "memory_links"
      BY TablesInOrder
    <3>2. TargetRows(1, d) = b
      BY DEF TargetRows
    <3>3. QED BY <3>1, <3>2, RowsFilled, RowsOfStore
  <2>2. \A y \in b["memory_links"] : \A n \in LinkSources(b, y) :
          [src |-> y.src, srcRev |-> n, dst |-> y.dst, rel |-> y.rel, seq |-> y.seq]
            \in b["memory_link_revisions"]
    BY OlderFilled
  <2>3. TargetRows(v, d) = b
    BY <1>2 DEF TargetRows
  <2> HIDE DEF b
  <2>4. PICK k \in d.links : /\ SameLink(k, l) /\ k.seq >= l.seq
                             /\ \A j \in d.links : SameLink(j, k) => j.seq <= k.seq
    BY LatestOf DEF Visible
  <2>5. Row(k) \in b["memory_links"]
    BY <2>1, <2>4 DEF LatestLinks
  <2>6. PICK r \in d.revisions : r.mem = k.src /\ r.seq = k.seq
    BY DEF Visible, Explained, Anchored, RevisionsOf
  <2>7. r.num \in LinkSources(b, Row(k))
    <3>1. [mem |-> r.mem, num |-> r.num, body |-> r.body, seq |-> r.seq,
           retired |-> r.retired] \in b["memory_revisions"]
      BY <2>1, RowsOfStore
    <3>2. QED BY <2>6, <3>1 DEF LinkSources
  <2>8. [src |-> k.src, srcRev |-> r.num, dst |-> k.dst, rel |-> k.rel, seq |-> k.seq]
           \in b["memory_link_revisions"]
    BY <2>2, <2>5, <2>7
  <2>9. QED BY <2>3, <2>4, <2>8 DEF SameLink
<1>3. QED BY <1>1, <1>2

LEMMA ImportShows ==
    ASSUME SnapInv
    PROVE  ImportIsSound
<1>1. ReferencesAlreadyThere
  BY ImportKeepsKeys
<1>2. ASSUME Restored
      PROVE  /\ file.version \in {1, 2} /\ Visible(file.origin)
             /\ target.tables = TargetRows(file.version, file.origin)
             /\ target.index = file.origin.index
  BY <1>2 DEF SnapInv, TargetIs, Written, FileShape
<1>3. ASSUME Restored
      PROVE  Rebuilt(file.origin, target.tables)
  BY <1>2, <1>3, TargetIsRebuilt
<1>4. RestoredIsSound
  BY <1>2, <1>3, RebuiltIsSound DEF RestoredIsSound, RestoredStore
<1>5. ReconstructionIsHonest
  BY <1>2, MetadataIsHonest DEF ReconstructionIsHonest
<1>6. LinksAreAttributed
  BY <1>2, <1>3, LatestLinksStay DEF LinksAreAttributed, Rebuilt
<1>7. QED BY <1>1, <1>4, <1>5, <1>6 DEF ImportIsSound

----------------------------------------------------------------------------
(* The operations together *)

FilesInv ==
    /\ IInv /\ Life /\ ToldInv /\ RetraceInv /\ SnapInv
    /\ part = "opening" => OpenInv
    /\ IF part = "inspection" THEN LookInv ELSE insp = Look!Idle

LEMMA FilesStart == FilesInit => FilesInv
<1> SUFFICES ASSUME FilesInit PROVE FilesInv
  OBVIOUS
<1>1. SInit /\ Init
  BY DEF FilesInit, SInit
<1>2. IInv /\ Life /\ ToldInv /\ RetraceInv /\ SnapInv
  BY <1>1, InitIInv, InitLife, InitTold, InitRetrace, SnapStarts
<1>3. /\ part = "opening" => OpenInv
      /\ IF part = "inspection" THEN LookInv ELSE insp = Look!Idle
  BY OpenStarts, LookStarts DEF FilesInit, NoInspection
<1>4. QED BY <1>2, <1>3 DEF FilesInv

LEMMA StoreInvStep ==
    ASSUME IInv, Life, ToldInv, RetraceInv, [Next]_vars
    PROVE  IInv' /\ Life' /\ ToldInv' /\ RetraceInv'
BY NextIsStoreStep, NextStep, LifeStep, ToldStep, RetraceStep

LEMMA FilesStand ==
    ASSUME FilesInv, UNCHANGED <<part, svars, openVars, lookVars>>
    PROVE  FilesInv'
<1>1. IInv' /\ Life' /\ ToldInv' /\ RetraceInv'
  BY StoreInvStep DEF FilesInv, svars
<1>2. SnapInv'
  BY SnapRests DEF FilesInv, svars
<1>3. OpenInv => OpenInv'
  BY DEF openVars, OpenInv, OpenTypes, Locking, Known
<1>4. ASSUME LookInv PROVE LookInv'
  <2>1. UNCHANGED Look!world /\ insp' = insp
    BY DEF lookVars, Look!world
  <2>2. Protocol' /\ UNCHANGED <<Look!Reserving, Look!Exclusive, Look!Connected>>
    BY <1>4, <2>1, WorldStands DEF LookInv
  <2>3. LookTypes'
    BY <1>4 DEF lookVars, LookInv, LookTypes
  <2>4. Guarded' /\ Copied' /\ ReportIsTrue'
    BY <1>4, <2>1, <2>2 DEF lookVars, LookInv, Guarded, Copied, ReportIsTrue,
       Look!ReportIsTrue, Look!ReportsOneCommit, Look!AvailableMeansFree, Look!MovedAway
  <2>5. QED BY <2>2, <2>3, <2>4 DEF LookInv
<1>5. QED BY <1>1, <1>2, <1>3, <1>4 DEF FilesInv, lookVars

LEMMA FilesStep ==
    ASSUME FilesInv, FilesNext
    PROVE  FilesInv'
<1>1. CASE part \in {"current", "old"} /\ SNext /\ UNCHANGED <<part, openVars, lookVars>>
  <2>1. IInv' /\ Life' /\ ToldInv' /\ RetraceInv'
    BY <1>1, StoreGoesOn, StoreInvStep DEF FilesInv
  <2>2. Visible(db)
    BY DEF FilesInv, IInv, TypeOK, Life, ToldInv, RetraceInv, Visible
  <2>3. SnapInv'
    BY <1>1, <2>2, SnapStep DEF FilesInv
  <2>4. QED BY <1>1, <2>1, <2>3 DEF FilesInv, lookVars
<1>2. CASE part = "opening" /\ Open!ONext /\ UNCHANGED <<part, svars, lookVars>>
  <2>1. IInv' /\ Life' /\ ToldInv' /\ RetraceInv' /\ SnapInv'
    BY <1>2, StoreInvStep, SnapRests DEF FilesInv, svars
  <2>2. OpenInv'
    BY <1>2, OpenStep DEF FilesInv
  <2>3. QED BY <1>2, <2>1, <2>2 DEF FilesInv, lookVars
<1>3. CASE part = "inspection" /\ Look!INext /\ UNCHANGED <<part, svars, openVars>>
  <2>1. IInv' /\ Life' /\ ToldInv' /\ RetraceInv' /\ SnapInv'
    BY <1>3, StoreInvStep, SnapRests DEF FilesInv, svars
  <2>2. LookInv'
    BY <1>3, LookStep DEF FilesInv
  <2>3. QED BY <1>3, <2>1, <2>2 DEF FilesInv
<1>4. QED BY <1>1, <1>2, <1>3 DEF FilesNext, Current, Old

\* What the proofs of this module rest on: the invariants of the store, of the
\* snapshot that is written or imported, of the processes that open a file and
\* of the inspection (engine.rs, schema.rs).
THEOREM FilesInductive == FilesSpec => []FilesInv
<1>1. FilesInv /\ [FilesNext]_<<part, svars, openVars, lookVars>> => FilesInv'
  BY FilesStep, FilesStand
<1>2. QED BY FilesStart, <1>1, PTL DEF FilesSpec

\* However many processes open a database of any release, migrate it, repair
\* its index, write, fail and die, the file holds exactly the schema its
\* version names, and whoever has it open finds it complete (schema.rs
\* initialize, engine.rs ensure_search_indexes).
THEOREM FilesAreWhole == FilesSpec => []FileIsWhole
<1>1. FilesInv => FileIsWhole
  BY OpenInvShows DEF FilesInv, FileIsWhole
<1>2. QED BY FilesInductive, <1>1, PTL

\* No opener is refused, and no migration meets objects that exist, because
\* another opener was faster (schema.rs validate_identity).
THEOREM RacesFailNobody == FilesSpec => []NobodyFailsByTheRace
<1>1. FilesInv => NobodyFailsByTheRace
  BY OpenInvShows DEF FilesInv, NobodyFailsByTheRace
<1>2. QED BY FilesInductive, <1>1, PTL

\* An inspection reports the pages of one commit of the very file it was asked
\* about, unless that is moved away meanwhile, and calls the writer lock available only if nobody was writing
\* (schema.rs inspect_database_at_identity).
THEOREM InspectionsAreTrue == FilesSpec => []ReportIsTrue
<1>1. Look!Idle.at = "idle"
  BY DEF Look!Idle
<1>2. FilesInv => ReportIsTrue
  BY <1>1 DEF FilesInv, LookInv, ReportIsTrue, Look!ReportIsTrue,
              Look!ReportsOneCommit, Look!AvailableMeansFree, Look!MovedAway
<1>3. QED BY FilesInductive, <1>2, PTL

\* A restored target is the committed store the first read of the export saw;
\* nothing else ever fills a target (engine.rs export_jsonl_to, import_jsonl).
THEOREM RestoredIsExported == FilesSpec => []RestoredExactly
<1>1. SnapInv => RestoredExactly
  BY DEF SnapInv, TargetIs, RestoredExactly, TargetRows
<1>2. FilesInv => RestoredExactly
  BY <1>1 DEF FilesInv
<1>3. QED BY FilesInductive, <1>2, PTL

\* No import fails on the order of its tables.  What one makes of a snapshot of
\* either version is a sound store: every inspection passes, chains, scopes and
\* receipts are those of the source, reconstructed metadata is marked complete
\* only where it is what was written, and links are given to a revision that
\* made them (engine.rs import_jsonl, backfill_revision_provenance).
THEOREM ImportsAreSound == FilesSpec => []ImportIsSound
<1>1. FilesInv => ImportIsSound
  BY ImportShows DEF FilesInv
<1>2. QED BY FilesInductive, <1>1, PTL
=============================================================================
