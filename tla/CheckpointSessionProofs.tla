---------------------- MODULE CheckpointSessionProofs ----------------------
(***************************************************************************)
(* Theorems about checkpoint_session.  The log only grows, so what a       *)
(* collection read up to a boundary is what the same collection would read *)
(* at any later time: the draft of a delivery and the print of a receipt   *)
(* are functions of a session and a boundary.                              *)
(***************************************************************************)
EXTENDS CheckpointSession, FiniteSetTheorems, WellFoundedInduction, TLAPS

(***************************************************************************)
(* Largest and smallest members                                            *)
(***************************************************************************)

LEMMA Smallest ==
    ASSUME NEW T \in SUBSET Nat, T # {}
    PROVE  Min(T) \in T /\ \A y \in T : Min(T) <= y
<1>1. \E x \in T : \A y \in T : ~ (<<y, x>> \in OpToRel(<, Nat))
  BY NatLessThanWellFounded, WFMin
<1>2. PICK x \in T : \A y \in T : ~ (<<y, x>> \in OpToRel(<, Nat))
  BY <1>1
<1>3. \A y \in T : x <= y
  <2> SUFFICES ASSUME NEW y \in T, y < x PROVE FALSE
    OBVIOUS
  <2>1. <<y, x>> \in OpToRel(<, Nat)
    BY DEF OpToRel
  <2>2. QED BY <1>2, <2>1
<1>4. QED BY <1>3 DEF Min

LEMMA Largest ==
    ASSUME NEW n \in Nat, NEW T \in SUBSET (0..n), T # {}
    PROVE  Max(T) \in T /\ \A y \in T : y <= Max(T)
<1> DEFINE U == {n - x : x \in T}
<1>1. U \in SUBSET Nat /\ U # {}
  OBVIOUS
<1>2. Min(U) \in U /\ \A y \in U : Min(U) <= y
  BY <1>1, Smallest
<1>3. PICK x \in T : Min(U) = n - x
  BY <1>2
<1>4. \A y \in T : n - x <= n - y
  BY <1>2, <1>3
<1>5. \A y \in T : x >= y
  BY <1>4
<1>6. QED BY <1>5 DEF Max

(***************************************************************************)
(* What a collection reads does not change afterwards                      *)
(***************************************************************************)

\* The operators of a collection over a given log and given outcomes.
In(log, revised) == INSTANCE CheckpointSession WITH events <- log, outcomes <- revised

\* A log and its outcomes, and what they are some time later.
Grown(log, revised, later, more) ==
    /\ log \in Seq(Event) /\ later \in Seq(Event)
    /\ Len(log) <= Len(later)
    /\ \A i \in 1..Len(log) : later[i] = log[i]
    /\ revised \subseteq more
    /\ \A o \in more \ revised : o.seq \in Nat /\ Len(log) < o.seq

LEMMA CollectionIn ==
    ASSUME NEW s, NEW b
    PROVE  Enrich(s, b) = In(events, outcomes)!Enrich(s, b)
BY DEF Enrich, Slice, Rows, IsPrompt, IsCheckpoint, Attempts, AttemptOf, PreviousFailure,
       Promoted, Runs, IsVerified, Failures, Max, Min, Cardinality,
       In!Enrich, In!Slice, In!Rows, In!IsPrompt, In!IsCheckpoint, In!Attempts, In!AttemptOf,
       In!PreviousFailure, In!Promoted, In!Runs, In!IsVerified, In!Failures, In!Max, In!Min,
       In!Cardinality

LEMMA CollectionInNext ==
    ASSUME NEW later, NEW more, later = events', more = outcomes', NEW s, NEW b
    PROVE  Enrich(s, b)' = In(later, more)!Enrich(s, b)
BY DEF Enrich, Slice, Rows, IsPrompt, IsCheckpoint, Attempts, AttemptOf, PreviousFailure,
       Promoted, Runs, IsVerified, Failures, Max, Min, Cardinality,
       In!Enrich, In!Slice, In!Rows, In!IsPrompt, In!IsCheckpoint, In!Attempts, In!AttemptOf,
       In!PreviousFailure, In!Promoted, In!Runs, In!IsVerified, In!Failures, In!Max, In!Min,
       In!Cardinality

LEMMA LibraryIn ==
    ASSUME NEW log, NEW revised, NEW T
    PROVE  /\ In(log, revised)!Max(T) = Max(T)
           /\ In(log, revised)!Min(T) = Min(T)
           /\ In(log, revised)!Cardinality(T) = Cardinality(T)
<1>1. In(log, revised)!Max(T) = Max(T) BY DEF Max, In!Max
<1>2. In(log, revised)!Min(T) = Min(T) BY DEF Min, In!Min
<1>3. In(log, revised)!Cardinality(T) = Cardinality(T) BY DEF Cardinality, In!Cardinality
<1>4. QED BY <1>1, <1>2, <1>3

LEMMA SameSlice ==
    ASSUME NEW log, NEW revised, NEW later, NEW more, Grown(log, revised, later, more),
           NEW s, NEW b \in 0..(Len(log) + 1)
    PROVE  /\ In(later, more)!Slice(s, b) = In(log, revised)!Slice(s, b)
           /\ In(log, revised)!Slice(s, b) \in SUBSET (1..Len(log))
<1> DEFINE all == {i \in DOMAIN log : log[i].session = s /\ i < b}
           allLater == {i \in DOMAIN later : later[i].session = s /\ i < b}
<1>1. /\ DOMAIN log = 1..Len(log) /\ DOMAIN later = 1..Len(later)
      /\ Len(log) \in Nat /\ Len(later) \in Nat /\ Len(log) <= Len(later)
      /\ \A i \in 1..Len(log) : later[i] = log[i]
  BY DEF Grown
<1>2. \A i : i \in allLater <=> i \in all
  BY <1>1
<1>3. allLater = all
  BY <1>2
<1>4. /\ In(log, revised)!Rows(s, b) = {i \in all : Cardinality({j \in all : j > i}) < SliceLimit}
      /\ In(later, more)!Rows(s, b)
            = {i \in allLater : Cardinality({j \in allLater : j > i}) < SliceLimit}
  BY LibraryIn, Zenon DEF In!Rows
<1>5. In(later, more)!Rows(s, b) = In(log, revised)!Rows(s, b)
  BY <1>3, <1>4
<1>6. In(log, revised)!Rows(s, b) \subseteq 1..Len(log)
  BY <1>1, <1>4
<1> DEFINE R == In(log, revised)!Rows(s, b)
<1>7. \A i \in R : /\ In(later, more)!IsCheckpoint(i) <=> In(log, revised)!IsCheckpoint(i)
                   /\ In(later, more)!IsPrompt(i) <=> In(log, revised)!IsPrompt(i)
  BY <1>1, <1>6 DEF In!IsCheckpoint, In!IsPrompt
<1>8. QED BY <1>5, <1>6, <1>7 DEF In!Slice

LEMMA SamePrevious ==
    ASSUME NEW log, NEW revised, NEW later, NEW more, Grown(log, revised, later, more),
           NEW c, NEW b \in 0..(Len(log) + 1)
    PROVE  In(later, more)!PreviousFailure(c, b) = In(log, revised)!PreviousFailure(c, b)
<1> DEFINE earlier == {o \in revised : o.command = c /\ o.seq < b}
           earlierLater == {o \in more : o.command = c /\ o.seq < b}
<1>1. \A o \in more \ revised : ~ (o.seq < b)
  BY DEF Grown
<1>2. earlierLater = earlier
  BY <1>1 DEF Grown
<1>3. QED BY <1>2, LibraryIn DEF In!PreviousFailure

\* The events of a slice are the same, so are the attempts they amount to.
LEMMA SameAttempt ==
    ASSUME NEW log, NEW revised, NEW later, NEW more, Grown(log, revised, later, more),
           NEW slice \in SUBSET (1..Len(log)), NEW c, NEW previous,
           \E i \in slice : log[i].command = c
    PROVE  /\ In(later, more)!Promoted(slice, c, previous)
                 <=> In(log, revised)!Promoted(slice, c, previous)
           /\ In(later, more)!AttemptOf(slice, c, previous)
                 = In(log, revised)!AttemptOf(slice, c, previous)
<1>1. Len(log) \in Nat /\ \A i \in slice : later[i] = log[i]
  BY DEF Grown
<1> DEFINE R == In(log, revised)!Runs(slice, c)
           F == In(log, revised)!Failures(slice, c)
<1>2. In(later, more)!Runs(slice, c) = R /\ R \subseteq slice /\ R # {}
  BY <1>1 DEF In!Runs
<1>3. In(later, more)!Failures(slice, c) = F
  BY <1>1, <1>2 DEF In!Failures
<1>4. In(later, more)!IsVerified(slice, c) <=> In(log, revised)!IsVerified(slice, c)
  BY <1>1, <1>2 DEF In!IsVerified
<1>5. Max(R) \in R
  <2> HIDE DEF R
  <2>1. 1..Len(log) \subseteq 0..Len(log)
    BY <1>1
  <2>2. R \in SUBSET (0..Len(log))
    BY <1>2, <2>1
  <2>3. QED BY <1>1, <1>2, <2>2, Largest
<1>6. later[Max(R)] = log[Max(R)]
  BY <1>1, <1>2, <1>5
<1>7. QED BY <1>2, <1>3, <1>4, <1>6, LibraryIn DEF In!Promoted, In!AttemptOf

LEMMA SameAttempts ==
    ASSUME NEW log, NEW revised, NEW later, NEW more, Grown(log, revised, later, more),
           NEW slice \in SUBSET (1..Len(log)), NEW b \in 0..(Len(log) + 1)
    PROVE  In(later, more)!Attempts(slice, b) = In(log, revised)!Attempts(slice, b)
<1> DEFINE commands == {log[i].command : i \in slice} \ {None}
           before(c) == In(log, revised)!PreviousFailure(c, b)
<1>1. {later[i].command : i \in slice} \ {None} = commands
  BY DEF Grown
<1>2. \A c : In(later, more)!PreviousFailure(c, b) = before(c)
  BY SamePrevious
<1>3. \A c \in commands :
         /\ In(later, more)!Promoted(slice, c, before(c))
               <=> In(log, revised)!Promoted(slice, c, before(c))
         /\ In(later, more)!AttemptOf(slice, c, before(c))
               = In(log, revised)!AttemptOf(slice, c, before(c))
  <2> SUFFICES ASSUME NEW c \in commands
               PROVE  /\ In(later, more)!Promoted(slice, c, before(c))
                            <=> In(log, revised)!Promoted(slice, c, before(c))
                      /\ In(later, more)!AttemptOf(slice, c, before(c))
                            = In(log, revised)!AttemptOf(slice, c, before(c))
    OBVIOUS
  <2>1. \E i \in slice : log[i].command = c
    OBVIOUS
  <2>2. QED BY <2>1, SameAttempt
<1>4. QED BY <1>1, <1>2, <1>3 DEF In!Attempts

LEMMA SameCollection ==
    ASSUME NEW log, NEW revised, NEW later, NEW more, Grown(log, revised, later, more),
           NEW s, NEW b \in 0..(Len(log) + 1)
    PROVE  In(later, more)!Enrich(s, b) = In(log, revised)!Enrich(s, b)
<1>1. PICK slice : slice = In(log, revised)!Slice(s, b)
  OBVIOUS
<1>2. slice \in SUBSET (1..Len(log)) /\ In(later, more)!Slice(s, b) = slice
  BY <1>1, SameSlice
<1>3. In(later, more)!Attempts(slice, b) = In(log, revised)!Attempts(slice, b)
  BY <1>2, SameAttempts
<1>4. QED BY <1>1, <1>2, <1>3 DEF In!Enrich

LEMMA CollectionStands ==
    ASSUME Grown(events, outcomes, events', outcomes'), NEW s, NEW b \in 0..(Len(events) + 1)
    PROVE  Enrich(s, b)' = Enrich(s, b)
<1>1. PICK log, revised : log = events /\ revised = outcomes
  OBVIOUS
<1>2. PICK later, more : later = events' /\ more = outcomes'
  OBVIOUS
<1>3. Grown(log, revised, later, more) /\ b \in 0..(Len(log) + 1)
  BY <1>1, <1>2
<1>4. In(later, more)!Enrich(s, b) = In(log, revised)!Enrich(s, b)
  BY <1>3, SameCollection
<1>5. Enrich(s, b) = In(log, revised)!Enrich(s, b)
  BY <1>1, CollectionIn
<1>6. Enrich(s, b)' = In(later, more)!Enrich(s, b)
  BY <1>2, CollectionInNext
<1>7. QED BY <1>4, <1>5, <1>6

(***************************************************************************)
(* The inductive invariant                                                 *)
(***************************************************************************)

\* Every row that names an event names one of the log.
Rowed ==
    /\ events \in Seq(Event)
    /\ \A o \in outcomes : o.seq \in 1..Len(events)
    /\ \A r \in receipts : /\ r.key \in StopKey
                           /\ r.seq \in 1..Len(events)
                           /\ r.collectedAt \in 0..(r.seq - 1)
    /\ phase \in [Delivery -> {"idle", "collected", "executed", "deduplicated", "conflict"}]
    /\ handling \in [Delivery -> StopKey \cup {None}]
    /\ collectedAt \in [Delivery -> 0..Len(events)]
    /\ DOMAIN draft = Delivery

\* A stop event is executed once.
ExecutedOnce == \A q, r \in receipts : q.key = r.key => q = r

\* The receipt fingerprints what was collected, its event is the checkpoint,
\* and every attempt of the request is a revision of an outcome.
IsTrue(r) ==
    /\ events[r.seq].kind = "checkpoint"
    /\ events[r.seq].session = SessionOf[r.key]
    /\ r.print = Enrich(SessionOf[r.key], r.collectedAt + 1)
    /\ \A a \in r.print.attempts :
          [command |-> a.command, ok |-> a.ok, seq |-> r.seq] \in outcomes
ReceiptIsTrue == \A r \in receipts : IsTrue(r)

\* A delivery collected before its key had a receipt, or again from one.
FirstCollection(d) ==
    /\ draft[d] = Enrich(SessionOf[handling[d]], collectedAt[d] + 1)
    /\ \A r \in ReceiptsOf(handling[d]) : collectedAt[d] < r.seq
CollectedAgain(d) ==
    \E r \in ReceiptsOf(handling[d]) : draft[d] = Enrich(SessionOf[handling[d]], r.seq)
Collected(d) == handling[d] \in StopKey /\ (FirstCollection(d) \/ CollectedAgain(d))
DraftIsTrue == \A d \in Delivery : phase[d] = "collected" => Collected(d)

\* Between the two collections something was written.
Intruded(d) ==
    \E r \in ReceiptsOf(handling[d]) : \E i \in DOMAIN events :
       Min({collectedAt[d], r.collectedAt}) < i /\ i < r.seq

Inv == Rowed /\ ExecutedOnce /\ ReceiptIsTrue /\ DraftIsTrue /\ ConflictNeedsIntrusion

(***************************************************************************)
(* The steps                                                               *)
(***************************************************************************)

LEMMA Established == Init => Inv
<1> SUFFICES ASSUME Init PROVE Inv
  OBVIOUS
<1>1. Rowed BY DEF Init, Rowed
<1>2. ExecutedOnce /\ ReceiptIsTrue BY DEF Init, ExecutedOnce, ReceiptIsTrue
<1>3. DraftIsTrue BY DEF Init, DraftIsTrue
<1>4. ConflictNeedsIntrusion BY DEF Init, ConflictNeedsIntrusion
<1>5. QED BY <1>1, <1>2, <1>3, <1>4 DEF Inv

LogGrows == Grown(events, outcomes, events', outcomes')

LEMMA Appending ==
    ASSUME Rowed, NEW e \in Event, events' = Append(events, e), outcomes \subseteq outcomes',
           \A o \in outcomes' \ outcomes : o.seq = Len(events) + 1
    PROVE  LogGrows /\ events'[Len(events) + 1] = e /\ Len(events') = Len(events) + 1
<1>1. events \in Seq(Event) /\ Len(events) \in Nat
  BY DEF Rowed
<1>2. /\ events' \in Seq(Event) /\ Len(events') = Len(events) + 1
      /\ events'[Len(events) + 1] = e
      /\ \A i \in 1..Len(events) : events'[i] = events[i]
  BY <1>1
<1>3. QED BY <1>1, <1>2 DEF LogGrows, Grown

LEMMA Standing ==
    ASSUME Rowed, events' = events, outcomes' = outcomes
    PROVE  LogGrows
BY DEF LogGrows, Grown, Rowed

\* A receipt stays true while the log grows.
LEMMA ReceiptStands ==
    ASSUME Rowed, LogGrows, NEW r \in receipts, IsTrue(r)
    PROVE  IsTrue(r)'
<1>1. /\ r.seq \in 1..Len(events) /\ r.collectedAt \in 0..(r.seq - 1) /\ Len(events) \in Nat
  BY DEF Rowed
<1>2. r.collectedAt + 1 \in 0..(Len(events) + 1)
  BY <1>1
<1>3. Enrich(SessionOf[r.key], r.collectedAt + 1)' = Enrich(SessionOf[r.key], r.collectedAt + 1)
  BY <1>2, CollectionStands DEF LogGrows
<1>4. events'[r.seq] = events[r.seq] /\ outcomes \subseteq outcomes'
  BY <1>1 DEF LogGrows, Grown
<1>5. QED BY <1>3, <1>4 DEF IsTrue

\* A draft stays what its collection would read, unless its own key got a receipt
\* that does not come after it.
LEMMA DraftStands ==
    ASSUME Rowed, LogGrows, receipts \subseteq receipts',
           \A r \in receipts' \ receipts : r.seq = Len(events) + 1,
           NEW d \in Delivery, Collected(d), draft'[d] = draft[d], handling'[d] = handling[d],
           collectedAt'[d] = collectedAt[d]
    PROVE  Collected(d)'
<1> DEFINE s == SessionOf[handling[d]]
<1>1. collectedAt[d] \in 0..Len(events) /\ Len(events) \in Nat /\ handling[d] \in StopKey
  BY DEF Rowed, Collected
<1>2. PICK S, c, k : S = s /\ c = collectedAt[d] /\ k = handling[d]
  OBVIOUS
<1>3. CASE FirstCollection(d)
  <2>1. c + 1 \in 0..(Len(events) + 1)
    BY <1>1, <1>2
  <2>2. Enrich(S, c + 1)' = Enrich(S, c + 1)
    BY <2>1, CollectionStands DEF LogGrows
  <2>3. draft[d] = Enrich(S, c + 1)
    BY <1>2, <1>3 DEF FirstCollection
  <2>4. \A r \in ReceiptsOf(k)' : c < r.seq
    BY <1>1, <1>2, <1>3 DEF FirstCollection, ReceiptsOf
  <2>5. draft'[d] = Enrich(S, c + 1)' /\ S = SessionOf[handling'[d]] /\ k = handling'[d] /\ c = collectedAt'[d]
    BY <1>2, <2>2, <2>3
  <2>6. FirstCollection(d)'
    BY <2>4, <2>5 DEF FirstCollection
  <2>7. QED BY <1>1, <2>6 DEF Collected
<1>4. CASE CollectedAgain(d)
  <2>1. PICK r \in ReceiptsOf(k) : draft[d] = Enrich(S, r.seq)
    BY <1>2, <1>4 DEF CollectedAgain
  <2>2. r \in receipts /\ r.seq \in 0..(Len(events) + 1)
    BY <1>1, <2>1 DEF ReceiptsOf, Rowed
  <2>3. Enrich(S, r.seq)' = Enrich(S, r.seq)
    BY <2>2, CollectionStands DEF LogGrows
  <2>4. CollectedAgain(d)'
    BY <1>2, <2>1, <2>2, <2>3 DEF CollectedAgain, ReceiptsOf
  <2>5. QED BY <1>1, <2>4 DEF Collected
<1>5. QED BY <1>3, <1>4 DEF Collected

\* What was written between two collections stays written.
LEMMA IntrusionStands ==
    ASSUME Rowed, LogGrows, receipts \subseteq receipts', NEW d \in Delivery, Intruded(d),
           handling'[d] = handling[d], collectedAt'[d] = collectedAt[d]
    PROVE  Intruded(d)'
<1>1. PICK r \in ReceiptsOf(handling[d]) : \E i \in DOMAIN events :
         Min({collectedAt[d], r.collectedAt}) < i /\ i < r.seq
  BY DEF Intruded
<1>2. r \in ReceiptsOf(handling[d])'
  BY <1>1 DEF ReceiptsOf
<1>3. DOMAIN events \subseteq DOMAIN events'
  BY DEF LogGrows, Grown
<1>4. QED BY <1>1, <1>2, <1>3 DEF Intruded

\* A step of a delivery that writes nothing: the receipts and the other
\* deliveries keep what they hold.
LEMMA Quiet ==
    ASSUME Inv, NEW d \in Delivery, events' = events, outcomes' = outcomes, receipts' = receipts,
           \A x \in Delivery \ {d} : /\ phase'[x] = phase[x] /\ handling'[x] = handling[x]
                                    /\ draft'[x] = draft[x] /\ collectedAt'[x] = collectedAt[x]
    PROVE  /\ ExecutedOnce' /\ ReceiptIsTrue'
           /\ \A x \in Delivery \ {d} : phase'[x] = "collected" => Collected(x)'
           /\ \A x \in Delivery \ {d} : phase'[x] = "conflict" => Intruded(x)'
<1>1. LogGrows /\ Rowed
  BY Standing DEF Inv
<1>2. ExecutedOnce'
  BY DEF Inv, ExecutedOnce
<1>3. ReceiptIsTrue'
  BY <1>1, ReceiptStands DEF Inv, ReceiptIsTrue
<1>4. ASSUME NEW x \in Delivery \ {d}, phase'[x] = "collected"
      PROVE  Collected(x)'
  <2>1. Collected(x)
    BY <1>4 DEF Inv, DraftIsTrue
  <2>2. QED BY <1>1, <2>1, DraftStands
<1>5. ASSUME NEW x \in Delivery \ {d}, phase'[x] = "conflict"
      PROVE  Intruded(x)'
  <2>1. Intruded(x)
    BY <1>5 DEF Inv, ConflictNeedsIntrusion, Intruded
  <2>2. QED BY <1>1, <2>1, IntrusionStands
<1>6. QED BY <1>2, <1>3, <1>4, <1>5

LEMMA ObserveStep == ASSUME Inv, Observe PROVE Inv'
<1>1. PICK e \in Observed : events' = Append(events, e)
  BY DEF Observe
<1>2. e \in Event
  BY <1>1, ObservedAssumption DEF Observable, Event, EventKind
<1>3. Rowed /\ outcomes' = outcomes /\ receipts' = receipts /\ phase' = phase
      /\ handling' = handling /\ draft' = draft /\ collectedAt' = collectedAt
  BY DEF Observe, Inv
<1>4. LogGrows /\ Len(events') = Len(events) + 1
  BY <1>1, <1>2, <1>3, Appending
<1>5. Rowed'
  BY <1>3, <1>4 DEF Rowed, LogGrows, Grown
<1>6. ExecutedOnce'
  BY <1>3 DEF Inv, ExecutedOnce
<1>7. ReceiptIsTrue'
  BY <1>3, <1>4, ReceiptStands DEF Inv, ReceiptIsTrue
<1>8. DraftIsTrue'
  BY <1>3, <1>4, DraftStands DEF Inv, DraftIsTrue
<1>9. ConflictNeedsIntrusion'
  <2> SUFFICES ASSUME NEW d \in Delivery, phase'[d] = "conflict" PROVE Intruded(d)'
    BY DEF ConflictNeedsIntrusion, Intruded
  <2>1. Intruded(d)
    BY <1>3 DEF Inv, ConflictNeedsIntrusion, Intruded
  <2>2. QED BY <1>3, <1>4, <2>1, IntrusionStands
<1>10. QED BY <1>5, <1>6, <1>7, <1>8, <1>9 DEF Inv

LEMMA CollectStep ==
    ASSUME Inv, NEW d \in Delivery, NEW k \in StopKey, Collect(d, k)
    PROVE  Inv'
<1>1. /\ events' = events /\ outcomes' = outcomes /\ receipts' = receipts /\ Rowed
      /\ handling' = [handling EXCEPT ![d] = k]
      /\ phase' = [phase EXCEPT ![d] = "collected"]
      /\ collectedAt' = [collectedAt EXCEPT ![d] = Len(events)]
      /\ DOMAIN draft' = Delivery /\ \A x \in Delivery \ {d} : draft'[x] = draft[x]
  BY DEF Collect, Inv, Rowed
<1>2. handling'[d] = k /\ phase'[d] = "collected" /\ collectedAt'[d] = Len(events)
  BY <1>1 DEF Rowed
<1>3. \A x \in Delivery \ {d} : /\ phase'[x] = phase[x] /\ handling'[x] = handling[x]
                                /\ draft'[x] = draft[x] /\ collectedAt'[x] = collectedAt[x]
  BY <1>1 DEF Rowed
<1>4. LogGrows
  BY <1>1, Standing
<1>5. Rowed'
  BY <1>1 DEF Rowed
<1>6. Collected(d)'
  <2>1. CASE ReceiptsOf(k) = {}
    <3> Len(events) \in Nat
      BY <1>1 DEF Rowed
    <3>1. PICK s, c : s = SessionOf[k] /\ c = Len(events) /\ c \in Nat
      OBVIOUS
    <3>2. draft'[d] = Enrich(s, c + 1)
      BY <1>1, <2>1, <3>1 DEF Collect, Rowed, Inv
    <3>3. Enrich(s, c + 1)' = Enrich(s, c + 1)
      BY <1>4, <3>1, CollectionStands DEF LogGrows
    <3>4. FirstCollection(d)'
      BY <1>1, <1>2, <2>1, <3>1, <3>2, <3>3 DEF FirstCollection, ReceiptsOf
    <3>5. QED BY <1>2, <3>4 DEF Collected
  <2>2. CASE ReceiptsOf(k) # {}
    <3>1. PICK r \in ReceiptsOf(k) : draft'[d] = Enrich(events[r.seq].session, r.seq)
      <4> DEFINE r == CHOOSE r \in ReceiptsOf(k) : TRUE
      <4>1. r \in ReceiptsOf(k)
        BY <2>2
      <4>2. draft'[d] = Enrich(events[r.seq].session, r.seq)
        BY <2>2 DEF Collect, Inv, Rowed
      <4>3. QED BY <4>1, <4>2
    <3>2. r \in receipts /\ r.key = k /\ r.seq \in 0..(Len(events) + 1)
      BY <1>1, <3>1 DEF ReceiptsOf, Rowed
    <3>3. PICK s : s = SessionOf[k]
      OBVIOUS
    <3>4. draft'[d] = Enrich(s, r.seq)
      <4>1. events[r.seq].session = s
        BY <3>2, <3>3 DEF Inv, ReceiptIsTrue, IsTrue
      <4>2. QED BY <3>1, <4>1
    <3>5. Enrich(s, r.seq)' = Enrich(s, r.seq)
      BY <1>4, <3>2, CollectionStands DEF LogGrows
    <3>6. CollectedAgain(d)'
      BY <1>1, <1>2, <3>2, <3>3, <3>4, <3>5 DEF CollectedAgain, ReceiptsOf
    <3>7. QED BY <1>2, <3>6 DEF Collected
  <2>3. QED BY <2>1, <2>2
<1>7. /\ ExecutedOnce' /\ ReceiptIsTrue'
      /\ \A x \in Delivery \ {d} : phase'[x] = "collected" => Collected(x)'
      /\ \A x \in Delivery \ {d} : phase'[x] = "conflict" => Intruded(x)'
  BY <1>1, <1>3, Quiet
<1>8. DraftIsTrue'
  BY <1>6, <1>7 DEF DraftIsTrue
<1>9. ConflictNeedsIntrusion'
  BY <1>2, <1>7 DEF ConflictNeedsIntrusion, Intruded
<1>10. QED BY <1>5, <1>7, <1>8, <1>9 DEF Inv

LEMMA ExecuteStep ==
    ASSUME Inv, NEW d \in Delivery, Execute(d)
    PROVE  Inv'
<1>1. /\ Rowed /\ Len(events) \in Nat /\ phase[d] = "collected" /\ ReceiptsOf(handling[d]) = {}
      /\ handling' = handling /\ draft' = draft /\ collectedAt' = collectedAt
      /\ phase' = [phase EXCEPT ![d] = "executed"]
  BY DEF Execute, Inv, Rowed
<1> DEFINE k == handling[d]
           s == SessionOf[k]
           seq == Len(events) + 1
           e == [session |-> s, kind |-> "checkpoint", command |-> None, ok |-> TRUE]
           made == {[command |-> a.command, ok |-> a.ok, seq |-> seq] : a \in draft[d].attempts}
           new == [key |-> k, print |-> draft[d], seq |-> seq, collectedAt |-> collectedAt[d]]
<1>2. /\ events' = Append(events, e)
      /\ outcomes' = outcomes \cup made
      /\ receipts' = receipts \cup {new}
  BY DEF Execute
<1>3. /\ k \in StopKey
      /\ draft[d] = Enrich(s, collectedAt[d] + 1)
      /\ collectedAt[d] \in 0..Len(events)
  BY <1>1 DEF Inv, DraftIsTrue, Collected, FirstCollection, CollectedAgain, Rowed
<1>4. e \in Event
  BY <1>3, SessionAssumption DEF Event, EventKind
<1>5. /\ outcomes \subseteq outcomes' /\ \A o \in outcomes' \ outcomes : o.seq = Len(events) + 1
  BY <1>2
<1>6. LogGrows /\ events'[seq] = e /\ Len(events') = seq
  BY <1>1, <1>2, <1>4, <1>5, Appending
<1>7. /\ \A r \in receipts' \ receipts : r.seq = Len(events) + 1
      /\ receipts \subseteq receipts'
  BY <1>2
<1>8. Rowed'
  <2>1. events' \in Seq(Event)
    BY <1>6 DEF LogGrows, Grown
  <2>2. \A o \in outcomes' : o.seq \in 1..Len(events')
    BY <1>1, <1>5, <1>6 DEF Rowed
  <2>3. \A r \in receipts' : /\ r.key \in StopKey /\ r.seq \in 1..Len(events')
                             /\ r.collectedAt \in 0..(r.seq - 1)
    <3> SUFFICES ASSUME NEW r \in receipts'
                 PROVE  /\ r.key \in StopKey /\ r.seq \in 1..Len(events')
                        /\ r.collectedAt \in 0..(r.seq - 1)
      OBVIOUS
    <3>1. CASE r \in receipts
      BY <1>1, <1>6, <3>1 DEF Rowed
    <3>2. CASE r = new
      <4>1. r.key = k /\ r.seq = seq /\ r.collectedAt = collectedAt[d]
        BY <3>2
      <4>2. QED BY <1>1, <1>3, <1>6, <4>1
    <3>3. QED BY <1>2, <3>1, <3>2
  <2>4. /\ phase' \in [Delivery -> {"idle", "collected", "executed", "deduplicated", "conflict"}]
        /\ handling' \in [Delivery -> StopKey \cup {None}] /\ DOMAIN draft' = Delivery
    BY <1>1 DEF Rowed
  <2>5. collectedAt' \in [Delivery -> 0..Len(events')]
    BY <1>1, <1>6 DEF Rowed
  <2>6. QED BY <2>1, <2>2, <2>3, <2>4, <2>5 DEF Rowed
<1>9. ExecutedOnce'
  <2>1. new.key = k
    OBVIOUS
  <2>2. \A r \in receipts : r.key # k
    BY <1>1 DEF ReceiptsOf
  <2>3. QED BY <1>2, <2>1, <2>2, Zenon DEF Inv, ExecutedOnce
<1>10. ReceiptIsTrue'
  <2> SUFFICES ASSUME NEW r \in receipts' PROVE IsTrue(r)'
    BY DEF ReceiptIsTrue
  <2>1. CASE r \in receipts
    BY <1>1, <1>6, <2>1, ReceiptStands DEF Inv, ReceiptIsTrue
  <2>2. CASE r = new
    <3>1. r.key = k /\ r.seq = seq /\ r.print = draft[d] /\ r.collectedAt = collectedAt[d]
      BY <2>2
    <3>2. r.collectedAt + 1 \in 0..(Len(events) + 1)
      BY <1>1, <1>3, <3>1
    <3>3. r.print = Enrich(SessionOf[r.key], r.collectedAt + 1)
      BY <1>3, <3>1
    <3>4. Enrich(SessionOf[r.key], r.collectedAt + 1)'
             = Enrich(SessionOf[r.key], r.collectedAt + 1)
      BY <1>6, <3>2, CollectionStands DEF LogGrows
    <3>5. events'[r.seq].kind = "checkpoint" /\ events'[r.seq].session = SessionOf[r.key]
      BY <1>6, <3>1
    <3>6. \A a \in r.print.attempts :
             [command |-> a.command, ok |-> a.ok, seq |-> r.seq] \in outcomes'
      BY <1>2, <3>1
    <3>7. QED BY <3>3, <3>4, <3>5, <3>6 DEF IsTrue
  <2>3. QED BY <1>2, <2>1, <2>2
<1>11. DraftIsTrue'
  <2> SUFFICES ASSUME NEW x \in Delivery, phase'[x] = "collected" PROVE Collected(x)'
    BY DEF DraftIsTrue
  <2>1. phase[x] = "collected"
    BY <1>1 DEF Rowed
  <2>2. Collected(x)
    BY <2>1 DEF Inv, DraftIsTrue
  <2>3. QED BY <1>1, <1>6, <1>7, <2>2, DraftStands
<1>12. ConflictNeedsIntrusion'
  <2> SUFFICES ASSUME NEW x \in Delivery, phase'[x] = "conflict" PROVE Intruded(x)'
    BY DEF ConflictNeedsIntrusion, Intruded
  <2>1. phase[x] = "conflict"
    BY <1>1 DEF Rowed
  <2>2. Intruded(x)
    BY <2>1 DEF Inv, ConflictNeedsIntrusion, Intruded
  <2>3. QED BY <1>1, <1>6, <1>7, <2>2, IntrusionStands
<1>13. QED BY <1>8, <1>9, <1>10, <1>11, <1>12 DEF Inv

\* Two collections of one stop event differ only if something lies between them.
LEMMA DifferenceIsIntrusion ==
    ASSUME Inv, NEW d \in Delivery, Collected(d), NEW r \in ReceiptsOf(handling[d]),
           r.print # draft[d]
    PROVE  Intruded(d)
<1> DEFINE m == Min({collectedAt[d], r.collectedAt})
           s == SessionOf[handling[d]]
<1>1. /\ r \in receipts /\ r.key = handling[d] /\ events \in Seq(Event) /\ Len(events) \in Nat
      /\ r.seq \in 1..Len(events) /\ r.collectedAt \in 0..(r.seq - 1)
      /\ collectedAt[d] \in 0..Len(events)
  BY DEF ReceiptsOf, Inv, Rowed
<1>2. r.print = Enrich(s, r.collectedAt + 1)
  BY <1>1 DEF Inv, ReceiptIsTrue, IsTrue
<1>3. m \in {collectedAt[d], r.collectedAt} /\ m <= collectedAt[d] /\ m <= r.collectedAt
  <2>1. {collectedAt[d], r.collectedAt} \in SUBSET Nat
    BY <1>1
  <2>2. QED BY <2>1, Smallest
<1> HIDE DEF m
<1>4. SUFFICES m + 1 < r.seq
  <2>1. m + 1 \in DOMAIN events /\ m < m + 1
    BY <1>1, <1>3, <1>4
  <2>2. QED BY <1>4, <2>1 DEF Intruded, m
<1>5. CASE FirstCollection(d)
  <2>1. draft[d] = Enrich(s, collectedAt[d] + 1) /\ collectedAt[d] < r.seq
    BY <1>5 DEF FirstCollection
  <2>2. collectedAt[d] # r.collectedAt
    BY <1>2, <2>1
  <2>3. QED BY <1>1, <1>3, <2>1, <2>2
<1>6. CASE CollectedAgain(d)
  <2>1. PICK q \in ReceiptsOf(handling[d]) : draft[d] = Enrich(s, q.seq)
    BY <1>6 DEF CollectedAgain
  <2>2. q = r
    BY <1>1, <2>1 DEF ReceiptsOf, Inv, ExecutedOnce
  <2>3. r.collectedAt + 1 # r.seq
    BY <1>2, <2>1, <2>2
  <2>4. QED BY <1>1, <1>3, <2>3
<1>7. QED BY <1>5, <1>6 DEF Collected

LEMMA AnswerStep ==
    ASSUME Inv, NEW d \in Delivery, Answer(d)
    PROVE  Inv'
<1>1. /\ Rowed /\ phase[d] = "collected"
      /\ events' = events /\ outcomes' = outcomes /\ receipts' = receipts
      /\ handling' = handling /\ draft' = draft /\ collectedAt' = collectedAt
  BY DEF Answer, Inv
<1>2. PICK r \in ReceiptsOf(handling[d]) :
         phase' = [phase EXCEPT ![d] = IF r.print = draft[d] THEN "deduplicated" ELSE "conflict"]
  BY DEF Answer
<1>3. /\ phase'[d] \in {"deduplicated", "conflict"}
      /\ phase'[d] = "conflict" => r.print # draft[d]
      /\ \A x \in Delivery \ {d} : phase'[x] = phase[x]
  BY <1>1, <1>2 DEF Rowed
<1>4. Rowed'
  BY <1>1, <1>2 DEF Rowed
<1>5. /\ ExecutedOnce' /\ ReceiptIsTrue'
      /\ \A x \in Delivery \ {d} : phase'[x] = "collected" => Collected(x)'
      /\ \A x \in Delivery \ {d} : phase'[x] = "conflict" => Intruded(x)'
  BY <1>1, <1>3, Quiet
<1>6. ASSUME phase'[d] = "conflict" PROVE Intruded(d)'
  <2>1. Collected(d)
    BY <1>1 DEF Inv, DraftIsTrue
  <2>2. Intruded(d)
    BY <1>3, <1>6, <2>1, DifferenceIsIntrusion
  <2>3. QED BY <1>1, <2>2, Standing, IntrusionStands
<1>7. DraftIsTrue'
  BY <1>3, <1>5 DEF DraftIsTrue
<1>8. ConflictNeedsIntrusion'
  BY <1>5, <1>6 DEF ConflictNeedsIntrusion, Intruded
<1>9. QED BY <1>4, <1>5, <1>7, <1>8 DEF Inv

LEMMA RestartStep ==
    ASSUME Inv, NEW d \in Delivery, Restart(d)
    PROVE  Inv'
<1>1. /\ Rowed /\ events' = events /\ outcomes' = outcomes /\ receipts' = receipts
      /\ phase' = [phase EXCEPT ![d] = "idle"]
      /\ handling' = [handling EXCEPT ![d] = None]
      /\ draft' = [draft EXCEPT ![d] = Nothing]
      /\ collectedAt' = [collectedAt EXCEPT ![d] = 0]
  BY DEF Restart, Inv
<1>2. phase'[d] = "idle"
  BY <1>1 DEF Rowed
<1>3. \A x \in Delivery \ {d} : /\ phase'[x] = phase[x] /\ handling'[x] = handling[x]
                                /\ draft'[x] = draft[x] /\ collectedAt'[x] = collectedAt[x]
  BY <1>1 DEF Rowed
<1>4. Rowed'
  BY <1>1 DEF Rowed
<1>5. /\ ExecutedOnce' /\ ReceiptIsTrue'
      /\ \A x \in Delivery \ {d} : phase'[x] = "collected" => Collected(x)'
      /\ \A x \in Delivery \ {d} : phase'[x] = "conflict" => Intruded(x)'
  BY <1>1, <1>3, Quiet
<1>6. DraftIsTrue'
  BY <1>2, <1>5 DEF DraftIsTrue
<1>7. ConflictNeedsIntrusion'
  BY <1>2, <1>5 DEF ConflictNeedsIntrusion, Intruded
<1>8. QED BY <1>4, <1>5, <1>6, <1>7 DEF Inv

LEMMA StutterStep == ASSUME Inv, UNCHANGED vars PROVE Inv'
<1>1. /\ Rowed /\ events' = events /\ outcomes' = outcomes /\ receipts' = receipts /\ phase' = phase
      /\ handling' = handling /\ draft' = draft /\ collectedAt' = collectedAt
  BY DEF vars, Inv
<1>2. LogGrows
  BY <1>1, Standing
<1>3. Rowed' /\ ExecutedOnce'
  BY <1>1 DEF Inv, Rowed, ExecutedOnce
<1>4. ReceiptIsTrue'
  BY <1>1, <1>2, ReceiptStands DEF Inv, ReceiptIsTrue
<1>5. DraftIsTrue'
  BY <1>1, <1>2, DraftStands DEF Inv, DraftIsTrue
<1>6. ConflictNeedsIntrusion'
  <2> SUFFICES ASSUME NEW d \in Delivery, phase'[d] = "conflict" PROVE Intruded(d)'
    BY DEF ConflictNeedsIntrusion, Intruded
  <2>1. Intruded(d)
    BY <1>1 DEF Inv, ConflictNeedsIntrusion, Intruded
  <2>2. QED BY <1>1, <1>2, <2>1, IntrusionStands
<1>7. QED BY <1>3, <1>4, <1>5, <1>6 DEF Inv

\* The draft of a delivery and the print of a receipt are what their collection
\* would read at any later time (checkpoint_session over an append-only log).
THEOREM CollectionsInductive == Spec => []Inv
<1>1. ASSUME Inv, [Next]_vars PROVE Inv'
  <2>1. CASE Observe
    BY <1>1, <2>1, ObserveStep
  <2>2. ASSUME NEW d \in Delivery, NEW k \in StopKey, Collect(d, k) PROVE Inv'
    BY <1>1, <2>2, CollectStep
  <2>3. ASSUME NEW d \in Delivery, Execute(d) PROVE Inv'
    BY <1>1, <2>3, ExecuteStep
  <2>4. ASSUME NEW d \in Delivery, Answer(d) PROVE Inv'
    BY <1>1, <2>4, AnswerStep
  <2>5. ASSUME NEW d \in Delivery, Restart(d) PROVE Inv'
    BY <1>1, <2>5, RestartStep
  <2>6. CASE UNCHANGED vars
    BY <1>1, <2>6, StutterStep
  <2>7. QED BY <1>1, <2>1, <2>2, <2>3, <2>4, <2>5, <2>6 DEF Next
<1>2. QED BY Established, <1>1, PTL DEF Spec

\* A delivery is refused only if something was written between the two
\* collections of its stop event (the fingerprint comparison of checkpoint).
THEOREM ConflictsAreIntrusions == Spec => []ConflictNeedsIntrusion
<1>1. Inv => ConflictNeedsIntrusion
  BY DEF Inv
<1>2. QED BY CollectionsInductive, <1>1, PTL

(***************************************************************************)
(* The slice                                                               *)
(***************************************************************************)

\* The events the slice query chooses from.
Of(s, b) == {i \in DOMAIN events : events[i].session = s /\ i < b}
After(s, b, i) == {j \in Of(s, b) : j > i}

LEMMA RowsAre ==
    ASSUME Rowed, NEW s, NEW b
    PROVE  /\ Rows(s, b) = {i \in Of(s, b) : Cardinality(After(s, b, i)) < SliceLimit}
           /\ Of(s, b) \in SUBSET (1..Len(events)) /\ Len(events) \in Nat
           /\ \A T \in SUBSET Of(s, b) : IsFiniteSet(T) /\ Cardinality(T) \in Nat
           /\ \A i : IsFiniteSet(After(s, b, i)) /\ Cardinality(After(s, b, i)) \in Nat
<1>1. Rows(s, b) = {i \in Of(s, b) : Cardinality(After(s, b, i)) < SliceLimit}
  BY Zenon DEF Rows, Of, After
<1>2. Of(s, b) \in SUBSET (1..Len(events)) /\ Len(events) \in Nat
  BY DEF Rowed, Of
<1>3. IsFiniteSet(1..Len(events))
  BY <1>2, FS_Interval
<1>4. ASSUME NEW T \in SUBSET Of(s, b)
      PROVE  IsFiniteSet(T) /\ Cardinality(T) \in Nat
  <2>1. T \in SUBSET (1..Len(events))
    BY <1>2
  <2>2. IsFiniteSet(T)
    BY <1>3, <2>1, FS_Subset
  <2>3. QED BY <2>2, FS_CardinalityType
<1>5. \A i : After(s, b, i) \in SUBSET Of(s, b)
  BY DEF After
<1>6. QED BY <1>1, <1>2, <1>4, <1>5

\* What follows a row in the session, before the boundary, is a row.
LEMMA LaterRows ==
    ASSUME Rowed, NEW s, NEW b, NEW i \in Rows(s, b), NEW j \in Of(s, b), i <= j
    PROVE  j \in Rows(s, b)
<1>1. i \in Of(s, b) /\ Cardinality(After(s, b, i)) < SliceLimit /\ i \in Nat /\ j \in Nat
  BY RowsAre
<1>2. After(s, b, j) \in SUBSET After(s, b, i)
  <2> SUFFICES ASSUME NEW k \in After(s, b, j) PROVE k \in After(s, b, i)
    OBVIOUS
  <2>1. k \in Of(s, b) /\ k > j
    BY DEF After
  <2>2. k \in Nat
    BY <2>1, RowsAre
  <2>3. k > i
    BY <1>1, <2>1, <2>2
  <2>4. QED BY <2>1, <2>3 DEF After
<1>3. Cardinality(After(s, b, j)) <= Cardinality(After(s, b, i))
  BY <1>2, RowsAre, FS_Subset
<1>4. Cardinality(After(s, b, j)) < SliceLimit
  BY <1>1, <1>3, RowsAre, SessionAssumption
<1>5. QED BY <1>4, RowsAre

LEMMA EvidenceOfReceipt ==
    ASSUME Inv, NEW r \in receipts
    PROVE  /\ r.print.evidence = Slice(SessionOf[r.key], r.collectedAt + 1)
           /\ r.print.attempts = Attempts(r.print.evidence, r.collectedAt + 1)
           /\ events[r.seq].session = SessionOf[r.key] /\ events[r.seq].kind = "checkpoint"
           /\ r.collectedAt + 1 <= r.seq /\ r.collectedAt \in Nat /\ r.seq \in 1..Len(events)
           /\ Len(events) \in Nat
<1>1. IsTrue(r)
  BY DEF Inv, ReceiptIsTrue
<1>2. r.collectedAt + 1 <= r.seq /\ r.collectedAt \in Nat /\ r.seq \in 1..Len(events) /\ Len(events) \in Nat
  BY DEF Inv, Rowed
<1>3. QED BY <1>1, <1>2 DEF IsTrue, Enrich

\* A slice is a stretch of rows that ends at the newest one.
LEMMA SliceIsStretch ==
    ASSUME Rowed, NEW s, NEW b, NEW i \in Slice(s, b)
    PROVE  /\ i \in Rows(s, b) /\ i \in Of(s, b) /\ i \in 1..Len(events) /\ i < b /\ ~IsCheckpoint(i)
           /\ events[i].session = s
           /\ \A j \in Of(s, b) : i <= j => j \in Slice(s, b)
           /\ \A j \in Of(s, b) : i < j => ~IsCheckpoint(j) /\ ~IsPrompt(j)
<1>1. /\ i \in Rows(s, b) /\ ~IsCheckpoint(i)
      /\ \A j \in Rows(s, b) : j > i => ~IsCheckpoint(j) /\ ~IsPrompt(j)
  BY DEF Slice
<1>2. i \in Of(s, b) /\ i \in 1..Len(events) /\ i < b /\ events[i].session = s
  BY <1>1, RowsAre DEF Of
<1>3. \A j \in Of(s, b) : i <= j => j \in Rows(s, b)
  BY <1>1, LaterRows
<1>4. \A j \in Of(s, b) : i < j => ~IsCheckpoint(j) /\ ~IsPrompt(j)
  BY <1>1, <1>2, <1>3, RowsAre
<1>5. ASSUME NEW j \in Of(s, b), i <= j PROVE j \in Slice(s, b)
  <2>1. j \in Rows(s, b) /\ j \in Nat /\ i \in Nat
    BY <1>2, <1>3, <1>5, RowsAre
  <2>2. ~IsCheckpoint(j)
    BY <1>1, <1>4, <1>5, <2>1
  <2>3. \A k \in Rows(s, b) : k > j => ~IsCheckpoint(k) /\ ~IsPrompt(k)
    <3>1. \A k \in Rows(s, b) : k \in Nat
      BY RowsAre
    <3>2. QED BY <1>1, <1>5, <2>1, <3>1
  <2>4. QED BY <2>1, <2>2, <2>3 DEF Slice
<1>6. QED BY <1>1, <1>2, <1>4, <1>5

\* A checkpoint cites one stretch of one turn of its session.
THEOREM EvidenceIsAStretch == Spec => []EvidenceIsOneTurn
<1>1. Inv => EvidenceIsOneTurn
  <2> SUFFICES ASSUME Inv, NEW r \in receipts, NEW i \in r.print.evidence
               PROVE  /\ events[i].session = events[r.seq].session
                      /\ ~IsCheckpoint(i)
                      /\ IsPrompt(i) => \A j \in r.print.evidence : i <= j
                      /\ \A j \in i..Max(r.print.evidence) :
                            events[j].session = events[r.seq].session => j \in r.print.evidence
    BY DEF EvidenceIsOneTurn
  <2> DEFINE s == SessionOf[r.key]
             b == r.collectedAt + 1
             E == r.print.evidence
  <2>1. /\ Rowed /\ E = Slice(s, b) /\ events[r.seq].session = s
        /\ DOMAIN events = 1..Len(events) /\ Len(events) \in Nat /\ b \in Nat
    BY EvidenceOfReceipt DEF Inv, Rowed
  <2> HIDE DEF s, b, E
  <2>2. events[i].session = s /\ ~IsCheckpoint(i) /\ i \in 1..Len(events)
    BY <2>1, SliceIsStretch DEF E
  <2>3. ASSUME IsPrompt(i), NEW j \in E PROVE i <= j
    <3>1. j \in 1..Len(events) /\ (j < i => ~IsPrompt(i))
      BY <2>1, SliceIsStretch DEF E
    <3>2. QED BY <2>2, <2>3, <3>1
  <2>4. ASSUME NEW j \in i..Max(E), events[j].session = s PROVE j \in E
    <3>1. E \in SUBSET (0..Len(events)) /\ E # {}
      <4>1. \A x \in E : x \in 1..Len(events)
        BY <2>1, SliceIsStretch
      <4>2. QED BY <2>1, <4>1 DEF E
    <3>2. Max(E) \in E
      BY <2>1, <3>1, Largest
    <3>3. Max(E) < b /\ Max(E) \in 1..Len(events)
      BY <2>1, <3>2, SliceIsStretch
    <3>4. j \in Of(s, b) /\ i <= j
      BY <2>1, <2>2, <2>4, <3>3 DEF Of
    <3>5. QED BY <2>1, <3>4, SliceIsStretch DEF E
  <2>5. QED BY <2>1, <2>2, <2>3, <2>4 DEF E
<1>2. QED BY CollectionsInductive, <1>1, PTL

\* An event of the turn that is left out makes way for a full slice.
LEMMA LeftOutOfAFullSlice ==
    ASSUME Rowed, NEW s, NEW b, NEW i \in Of(s, b), i \notin Slice(s, b), ~IsCheckpoint(i),
           \A j \in Of(s, b) : i < j => ~IsCheckpoint(j) /\ ~IsPrompt(j)
    PROVE  Cardinality(Slice(s, b)) >= SliceLimit
<1> DEFINE missing == Of(s, b) \ Rows(s, b)
           x == Max(missing)
<1>1. \A j \in Rows(s, b) : j \in Of(s, b)
  BY RowsAre
<1>2. Len(events) \in Nat /\ \A j \in Of(s, b) : j \in 1..Len(events)
  BY RowsAre
<1>3. i \in missing
  <2>1. ASSUME i \in Rows(s, b) PROVE i \in Slice(s, b)
    <3>1. \A j \in Rows(s, b) : j > i => ~IsCheckpoint(j) /\ ~IsPrompt(j)
      BY <1>1, <1>2
    <3>2. QED BY <2>1, <3>1 DEF Slice
  <2>2. QED BY <2>1
<1>4. x \in missing /\ \A j \in missing : j <= x
  <2>1. missing \in SUBSET (0..Len(events))
    BY <1>2
  <2>2. QED BY <1>2, <1>3, <2>1, Largest
<1> HIDE DEF x
<1>5. ASSUME NEW j \in After(s, b, x) PROVE j \in Slice(s, b)
  <2>1. j \in Of(s, b) /\ j > x /\ i <= x
    BY <1>3, <1>4, <1>5 DEF After
  <2>2. j \in Nat /\ x \in Nat /\ i \in Nat
    BY <1>2, <1>4, <2>1
  <2>3. j \in Rows(s, b)
    BY <1>4, <2>1, <2>2
  <2>4. i < j
    BY <2>1, <2>2
  <2>5. ~IsCheckpoint(j)
    BY <2>1, <2>4
  <2>6. ASSUME NEW k \in Rows(s, b), k > j PROVE ~IsCheckpoint(k) /\ ~IsPrompt(k)
    <3>1. k \in Of(s, b) /\ k \in Nat
      BY <1>1, <1>2
    <3>2. i < k
      BY <2>2, <2>4, <2>6, <3>1
    <3>3. QED BY <3>1, <3>2
  <2>7. QED BY <2>3, <2>5, <2>6 DEF Slice
<1>6. Cardinality(After(s, b, x)) \in Nat /\ ~ (Cardinality(After(s, b, x)) < SliceLimit)
  BY <1>4, RowsAre
<1>7. Slice(s, b) \in SUBSET Of(s, b)
  BY <1>1 DEF Slice
<1>8. IsFiniteSet(Slice(s, b)) /\ Cardinality(Slice(s, b)) \in Nat
  BY <1>7, RowsAre
<1>9. Cardinality(After(s, b, x)) <= Cardinality(Slice(s, b))
  BY <1>5, <1>8, FS_Subset
<1>10. QED BY <1>6, <1>8, <1>9, SessionAssumption

\* An undisturbed checkpoint leaves no event of its turn behind and cites none
\* that an earlier checkpoint cites.
THEOREM TurnsAreCheckpointedOnce == Spec => []TurnIsCheckpointedOnce
<1>1. Inv => TurnIsCheckpointedOnce
  <2> SUFFICES ASSUME Inv, NEW r \in receipts, Undisturbed(r)
               PROVE  /\ \A q \in receipts :
                            q.seq < r.seq => q.print.evidence \cap r.print.evidence = {}
                      /\ \A i \in 1..(r.seq - 1) :
                            \/ events[i].session # events[r.seq].session
                            \/ i \in r.print.evidence
                            \/ Cardinality(r.print.evidence) >= SliceLimit
                            \/ IsCheckpoint(i)
                            \/ \E j \in i + 1 .. r.seq - 1 :
                                  /\ events[j].session = events[r.seq].session
                                  /\ IsCheckpoint(j) \/ IsPrompt(j)
    BY DEF TurnIsCheckpointedOnce
  <2>1. PICK s : s = SessionOf[r.key]
    OBVIOUS
  <2>2. /\ Rowed /\ r.print.evidence = Slice(s, r.seq) /\ events[r.seq].session = s
        /\ r.seq \in 1..Len(events) /\ Len(events) \in Nat /\ DOMAIN events = 1..Len(events)
    BY <2>1, EvidenceOfReceipt DEF Inv, Rowed, Undisturbed
  <2>3. ASSUME NEW q \in receipts, q.seq < r.seq
        PROVE  q.print.evidence \cap r.print.evidence = {}
    <3> SUFFICES ASSUME NEW i \in q.print.evidence, i \in r.print.evidence PROVE FALSE
      OBVIOUS
    <3>1. /\ q.print.evidence = Slice(SessionOf[q.key], q.collectedAt + 1)
          /\ events[q.seq].session = SessionOf[q.key] /\ events[q.seq].kind = "checkpoint"
          /\ q.collectedAt + 1 <= q.seq /\ q.collectedAt \in Nat /\ q.seq \in 1..Len(events)
      BY EvidenceOfReceipt
    <3>2. events[i].session = SessionOf[q.key] /\ i \in 1..Len(events) /\ i < q.collectedAt + 1
      BY <2>2, <3>1, SliceIsStretch
    <3>3. events[i].session = s
      BY <2>2, SliceIsStretch
    <3>4. q.seq \in Of(s, r.seq) /\ i < q.seq
      BY <2>2, <2>3, <3>1, <3>2, <3>3 DEF Of
    <3>5. ~IsCheckpoint(q.seq)
      BY <2>2, <3>4, SliceIsStretch
    <3>6. QED BY <3>1, <3>5 DEF IsCheckpoint
  <2>4. ASSUME NEW i \in 1..(r.seq - 1), events[i].session = s, i \notin Slice(s, r.seq),
               ~IsCheckpoint(i),
               \A j \in i + 1 .. r.seq - 1 :
                  events[j].session = s => ~IsCheckpoint(j) /\ ~IsPrompt(j)
        PROVE  Cardinality(Slice(s, r.seq)) >= SliceLimit
    <3>1. i \in Of(s, r.seq)
      BY <2>2, <2>4 DEF Of
    <3>2. ASSUME NEW j \in Of(s, r.seq), i < j
          PROVE  ~IsCheckpoint(j) /\ ~IsPrompt(j)
      <4>1. j \in 1..Len(events) /\ j < r.seq /\ events[j].session = s
        BY <2>2 DEF Of
      <4>2. j \in i + 1 .. r.seq - 1
        BY <2>2, <3>2, <4>1
      <4>3. QED BY <2>4, <4>1, <4>2
    <3>3. QED BY <2>2, <2>4, <3>1, <3>2, LeftOutOfAFullSlice
  <2>5. QED BY <2>2, <2>3, <2>4
<1>2. QED BY CollectionsInductive, <1>1, PTL

\* A success after a recorded failure closes it: the undisturbed checkpoint that
\* cites it makes a revision of the outcome, and its attempt names the failure.
THEOREM FailuresAreClosed == Spec => []FailureIsClosed
<1>1. Inv => FailureIsClosed
  <2> DEFINE before(r, c) == {o \in outcomes : o.command = c /\ o.seq < r.seq}
             runs(r, c) == {i \in r.print.evidence : events[i].command = c}
  <2> SUFFICES ASSUME Inv, NEW r \in receipts, Undisturbed(r),
                      NEW c \in {events[i].command : i \in r.print.evidence} \ {None},
                      \E o \in before(r, c) : ~o.ok /\ \A p \in before(r, c) : p.seq <= o.seq,
                      events[Max(runs(r, c))].ok
               PROVE  /\ \E o \in outcomes : o.command = c /\ o.seq = r.seq /\ o.ok
                      /\ \E a \in r.print.attempts : a.command = c /\ a.firstFailure # 0
    BY Zenon DEF FailureIsClosed
  <2> DEFINE E == r.print.evidence
             a == AttemptOf(E, c, PreviousFailure(c, r.seq))
             failed == {o.seq : o \in {p \in before(r, c) : ~p.ok}}
  <2>1. /\ Rowed /\ r.print.attempts = Attempts(E, r.seq) /\ Len(events) \in Nat
    BY EvidenceOfReceipt DEF Inv, Undisturbed
  <2>2. PreviousFailure(c, r.seq) = Max(failed)
    BY Zenon DEF PreviousFailure
  <2>3. Max(failed) # 0
    <3>1. failed # {}
      OBVIOUS
    <3>2. failed \in SUBSET (1..Len(events))
      BY <2>1 DEF Rowed
    <3>3. failed \in SUBSET (0..Len(events))
      BY <2>1, <3>2
    <3> HIDE DEF failed
    <3>4. Max(failed) \in failed
      BY <2>1, <3>1, <3>3, Largest
    <3>5. QED BY <2>1, <3>2, <3>4
  <2>4. PreviousFailure(c, r.seq) # 0
    BY <2>2, <2>3
  <2>5. a \in Attempts(E, r.seq)
    <3>1. Promoted(E, c, PreviousFailure(c, r.seq))
      BY <2>4 DEF Promoted
    <3>2. QED BY <3>1 DEF Attempts
  <2>6. Runs(E, c) = runs(r, c)
    BY DEF Runs
  <2>7. a.command = c /\ a.ok = events[Max(Runs(E, c))].ok /\ a.firstFailure # 0
    BY <2>4 DEF AttemptOf
  <2>8. [command |-> a.command, ok |-> a.ok, seq |-> r.seq] \in outcomes
    BY <2>1, <2>5 DEF Inv, ReceiptIsTrue, IsTrue
  <2>9. QED BY <2>1, <2>5, <2>6, <2>7, <2>8
<1>2. QED BY CollectionsInductive, <1>1, PTL
=============================================================================
