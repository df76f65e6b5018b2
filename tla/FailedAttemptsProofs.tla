------------------------ MODULE FailedAttemptsProofs ------------------------
(***************************************************************************)
(* Theorems about FailedAttempts: the retry of a checkpoint reconstructs,  *)
(* from rows that never change, the failure its first execution read from  *)
(* the heads as they were.                                                 *)
(***************************************************************************)
EXTENDS FailedAttempts, MemoryStoreProofs

(***************************************************************************)
(* The past does not change: what a retry reads before a boundary is the   *)
(* same in every later store.                                              *)
(***************************************************************************)
SamePast(d, e, b) ==
    /\ \A r \in d.revisions : r.seq < b =>
          /\ \E q \in e.revisions : Alike(q, r)
          /\ e.heads[r.mem].scope = d.heads[r.mem].scope
    /\ \A r \in e.revisions : r.seq < b => \E q \in d.revisions : Alike(q, r)
    /\ \A t : t[1] < b => (t \in d.touched <=> t \in e.touched)
    /\ \A l : l.seq < b => (l \in d.links <=> l \in e.links)
    /\ \A t \in d.touched : t[1] < b => e.events[t[1]] = d.events[t[1]]

LEMMA PastIsMutual ==
    ASSUME NEW d, NEW e, NEW b, SamePast(d, e, b)
    PROVE  SamePast(e, d, b)
<1>1. ASSUME NEW r \in e.revisions, r.seq < b
      PROVE  /\ \E q \in d.revisions : Alike(q, r)
             /\ d.heads[r.mem].scope = e.heads[r.mem].scope
  BY <1>1 DEF SamePast, Alike
<1>2. QED BY <1>1 DEF SamePast

\* The rows of the two lookups.
RetryRows(d, scope, key, b) ==
    {x \in d.revisions : /\ d.heads[x.mem].scope = scope
                         /\ WasHeadRevision(d, x, b)
                         /\ x.kind = "outcome"
                         /\ ~RetractedBefore(d, x.mem, b)
                         /\ ~SupersededBefore(d, x.mem, b)
                         /\ x.key = key
                         /\ x.body \in FailedBody}
LiveRows(d, scope, key) ==
    {x \in d.revisions : /\ IsLive(d, x.mem)
                         /\ d.heads[x.mem].scope = scope
                         /\ d.heads[x.mem].kind = "outcome"
                         /\ d.heads[x.mem].key = key
                         /\ d.heads[x.mem].rev = x.num
                         /\ x.body \in FailedBody}

LEMMA PastRows ==
    ASSUME NEW d, NEW e, NEW b, SamePast(d, e, b), NEW scope, NEW key,
           NEW r \in RetryRows(d, scope, key, b)
    PROVE  \E q \in RetryRows(e, scope, key, b) :
              q.mem = r.mem /\ q.num = r.num /\ q.seq = r.seq
<1>1. /\ r \in d.revisions /\ d.heads[r.mem].scope = scope /\ r.seq < b
      /\ WasHeadRevision(d, r, b)
      /\ r.kind = "outcome" /\ r.key = key /\ r.body \in FailedBody
      /\ ~RetractedBefore(d, r.mem, b) /\ ~SupersededBefore(d, r.mem, b)
  BY DEF RetryRows, WasHeadRevision
<1>2. PICK q \in e.revisions : Alike(q, r)
  BY <1>1 DEF SamePast
<1>3. /\ q.mem = r.mem /\ q.num = r.num /\ q.seq = r.seq
      /\ q.kind = r.kind /\ q.key = r.key /\ q.body = r.body
  BY <1>2 DEF Alike
<1>4. WasHeadRevision(e, q, b)
  <2> SUFFICES ASSUME NEW s \in e.revisions, s.mem = q.mem, s.seq < b
      PROVE  s.seq < q.seq \/ (s.seq = q.seq /\ s.num <= q.num)
    BY <1>1, <1>3 DEF WasHeadRevision, RevisionsOf
  <2>1. PICK p \in d.revisions : p.mem = s.mem /\ p.num = s.num /\ p.seq = s.seq
    BY DEF SamePast, Alike
  <2>2. p \in RevisionsOf(d, r.mem)
    BY <1>3, <2>1 DEF RevisionsOf
  <2>3. QED BY <1>1, <1>3, <2>1, <2>2 DEF WasHeadRevision
<1>5. ~RetractedBefore(e, q.mem, b)
  BY <1>1, <1>3 DEF RetractedBefore, SamePast
<1>6. ~SupersededBefore(e, q.mem, b)
  BY <1>1, <1>3 DEF SupersededBefore, SamePast
<1>7. e.heads[q.mem].scope = scope
  BY <1>1, <1>3 DEF SamePast
<1>8. q \in RetryRows(e, scope, key, b)
  BY <1>1, <1>3, <1>4, <1>5, <1>6, <1>7 DEF RetryRows
<1>9. QED BY <1>3, <1>8

LEMMA PastIsRead ==
    ASSUME NEW d, NEW e, NEW b, SamePast(d, e, b), NEW scope, NEW key
    PROVE  HistoricalFailure(e, scope, key, b) = HistoricalFailure(d, scope, key, b)
<1> DEFINE R(x) == {[found |-> <<r.mem, r.num>>, at |-> r.seq] :
                       r \in RetryRows(x, scope, key, b)}
<1>1. R(d) \subseteq R(e)
  <2> SUFFICES ASSUME NEW r \in RetryRows(d, scope, key, b)
      PROVE  \E q \in RetryRows(e, scope, key, b) :
                [found |-> <<r.mem, r.num>>, at |-> r.seq]
                   = [found |-> <<q.mem, q.num>>, at |-> q.seq]
    OBVIOUS
  <2>1. PICK q \in RetryRows(e, scope, key, b) :
           q.mem = r.mem /\ q.num = r.num /\ q.seq = r.seq
    BY PastRows
  <2>2. QED BY <2>1
<1>2. R(e) \subseteq R(d)
  <2> SUFFICES ASSUME NEW r \in RetryRows(e, scope, key, b)
      PROVE  \E q \in RetryRows(d, scope, key, b) :
                [found |-> <<r.mem, r.num>>, at |-> r.seq]
                   = [found |-> <<q.mem, q.num>>, at |-> q.seq]
    OBVIOUS
  <2>1. SamePast(e, d, b)
    BY PastIsMutual
  <2>2. PICK q \in RetryRows(d, scope, key, b) :
           q.mem = r.mem /\ q.num = r.num /\ q.seq = r.seq
    BY <2>1, PastRows
  <2>3. QED BY <2>2
<1>3. R(d) = R(e)
  BY <1>1, <1>2
<1>4. /\ HistoricalFailure(d, scope, key, b) = FirstOf(R(d))
      /\ HistoricalFailure(e, scope, key, b) = FirstOf(R(e))
  BY DEF HistoricalFailure, RetryRows
<1>5. QED BY <1>3, <1>4

\* A store that advanced has the same past.
LEMMA AdvanceKeepsPast ==
    ASSUME NEW d \in Store, NEW e \in Store, Advances(d, e),
           ScopeClosedOf(d), ScopeClosedOf(e), EveryChangeHasEventOf(d),
           EveryChangeHasEventOf(e), NEW b \in 1..(Len(d.events) + 1)
    PROVE  SamePast(d, e, b)
<1>1. d.events \in Seq(Request)
  BY DEF Store
<1>2. PICK call \in Request :
         /\ e.events = Append(d.events, call)
         /\ \A i \in DOMAIN d.events : Effect(e, i) = Effect(d, i)
  BY DEF Advances
<1>3. \A i \in DOMAIN d.events : e.events[i] = d.events[i]
  BY <1>1, <1>2
<1>4. ASSUME NEW i \in DOMAIN d.events PROVE SameRecords(d, e, i)
  <2>1. Effect(e, i) = Effect(d, i)
    BY <1>2
  <2>2. /\ Effect(e, i).revisions = Effect(d, i).revisions
        /\ Effect(e, i).links = Effect(d, i).links
        /\ Effect(e, i).touched = Effect(d, i).touched
    BY <2>1
  <2>3. QED BY <2>2 DEF Effect, SameRecords
<1>5. \A i \in 1..MaxSeq : i < b => i \in DOMAIN d.events
  BY <1>1
<1>6. /\ \A r \in d.revisions \cup e.revisions : r \in RevisionRow /\ r.seq \in 1..MaxSeq
      /\ \A t \in d.touched \cup e.touched : t[1] \in 1..MaxSeq
      /\ \A l \in d.links \cup e.links : l.seq \in 1..MaxSeq
  BY DEF Store, RevisionRow, LinkRow
<1>7. ASSUME NEW r \in d.revisions, r.seq < b
      PROVE  \E q \in e.revisions : Alike(q, r)
  <2>1. SameRecords(d, e, r.seq)
    BY <1>4, <1>5, <1>6, <1>7
  <2>2. PICK q \in e.revisions : Recorded(q) = Recorded(r)
    BY <2>1, RecordsOfEvent
  <2>3. QED BY <1>6, <2>2, RecordedAlike
<1>8. ASSUME NEW r \in e.revisions, r.seq < b
      PROVE  \E q \in d.revisions : Alike(q, r)
  <2>1. SameRecords(d, e, r.seq)
    BY <1>4, <1>5, <1>6, <1>8
  <2>2. PICK q \in d.revisions : Recorded(q) = Recorded(r)
    BY <2>1, RecordsOfEvent
  <2>3. QED BY <1>6, <2>2, RecordedAlike
<1>9. ASSUME NEW r \in d.revisions, r.seq < b
      PROVE  e.heads[r.mem].scope = d.heads[r.mem].scope
  <2>1. d.events[r.seq].scope = d.heads[r.mem].scope
    <3>1. /\ <<r.seq, r.mem>> \in d.touched
          /\ \A t \in d.touched : d.events[t[1]].scope = d.heads[t[2]].scope
      BY DEF ScopeClosedOf, EveryChangeHasEventOf
    <3>2. QED BY <3>1
  <2>2. PICK q \in e.revisions : q.mem = r.mem /\ q.seq = r.seq
    BY <1>7, <1>9 DEF Alike
  <2>3. e.events[q.seq].scope = e.heads[q.mem].scope
    <3>1. q.seq \in q.evidence
      BY DEF EveryChangeHasEventOf
    <3>2. QED BY <3>1 DEF ScopeClosedOf
  <2>4. e.events[r.seq] = d.events[r.seq]
    BY <1>3, <1>5, <1>6, <1>9
  <2>5. QED BY <2>1, <2>2, <2>3, <2>4
<1>10. \A t : t[1] < b => (t \in d.touched <=> t \in e.touched)
  <2> SUFFICES ASSUME NEW t, t[1] < b, t \in d.touched \cup e.touched
      PROVE  t \in d.touched <=> t \in e.touched
    OBVIOUS
  <2>1. SameRecords(d, e, t[1])
    BY <1>4, <1>5, <1>6
  <2>2. QED BY <2>1, RecordsOfEvent
<1>11. \A l : l.seq < b => (l \in d.links <=> l \in e.links)
  <2> SUFFICES ASSUME NEW l, l.seq < b, l \in d.links \cup e.links
      PROVE  l \in d.links <=> l \in e.links
    OBVIOUS
  <2>1. SameRecords(d, e, l.seq)
    BY <1>4, <1>5, <1>6
  <2>2. QED BY <2>1, RecordsOfEvent
<1>12. \A t \in d.touched : t[1] < b => e.events[t[1]] = d.events[t[1]]
  BY <1>3, <1>5, <1>6
<1>13. QED BY <1>7, <1>8, <1>9, <1>10, <1>11, <1>12 DEF SamePast

(***************************************************************************)
(* At its boundary, the two lookups read the same rows.                    *)
(***************************************************************************)
LEMMA SameRowsAtBoundary ==
    ASSUME NEW d \in Store, Grounded(d), Explained(d), Told(d), NEW scope, NEW key
    PROVE  RetryRows(d, scope, key, Len(d.events) + 1) = LiveRows(d, scope, key)
<1> DEFINE b == Len(d.events) + 1
<1>1. d.events \in Seq(Request)
  BY DEF Store
<1>2. \A i \in DOMAIN d.events : i < b
  BY <1>1
<1>3. /\ \A r \in d.revisions : r.seq < b
      /\ \A t \in d.touched : t[1] < b
      /\ \A l \in d.links : l.seq < b
  <2>1. \A r \in d.revisions : r.seq \in DOMAIN d.events
    BY DEF Grounded
  <2>2. \A t \in d.touched : t[1] \in DOMAIN d.events
    BY DEF Grounded, ScopeClosedOf
  <2>3. \A l \in d.links : l.seq \in DOMAIN d.events
    BY <2>1 DEF Explained, Anchored, RevisionsOf
  <2>4. QED BY <1>2, <2>1, <2>2, <2>3
<1> HIDE DEF b
<1>4. ASSUME NEW r \in d.revisions
      PROVE  r \in RetryRows(d, scope, key, b) <=> r \in LiveRows(d, scope, key)
  <2> DEFINE m == r.mem
             h == HeadRevision(d, m)
  <2>1. /\ r \in RevisionRow /\ m \in Memory /\ Exists(d, m) /\ d.heads[m] \in HeadRow
    BY DEF Store, RevisionRow, Grounded, ScopeClosedOf, Exists
  <2>2. /\ h \in d.revisions /\ h.mem = m /\ h.num = d.heads[m].rev
        /\ r \in RevisionsOf(d, m) /\ h \in RevisionsOf(d, m)
    BY <2>1, HeadRevisionIs DEF Grounded, RevisionsOf
  <2> HIDE DEF h
  <2>3. \A s \in RevisionsOf(d, m) : s.num \in 1..d.heads[m].rev /\ s.seq \in 1..MaxSeq
                                     /\ s \in d.revisions
    BY <2>1 DEF Grounded, RevisionChainOf, RevisionsOf, Store, RevisionRow
  <2>4. d.heads[m].rev \in Nat
    BY <2>1 DEF HeadRow
  <2>5. WasHeadRevision(d, r, b) <=> r.num = d.heads[m].rev
    <3>1. ASSUME r.num = d.heads[m].rev, NEW s \in RevisionsOf(d, m)
          PROVE  s.seq < r.seq \/ (s.seq = r.seq /\ s.num <= r.num)
      <4>1. s.num <= r.num /\ r \in RevisionsOf(d, s.mem)
        BY <2>2, <2>3, <2>4, <3>1 DEF RevisionsOf
      <4>2. s.seq <= r.seq
        BY <2>3, <4>1 DEF Told
      <4>3. QED BY <2>2, <2>3, <4>1, <4>2
    <3>2. ASSUME WasHeadRevision(d, r, b) PROVE r.num = d.heads[m].rev
      <4>1. h.seq < r.seq \/ (h.seq = r.seq /\ h.num <= r.num)
        BY <1>3, <2>2, <3>2 DEF WasHeadRevision
      <4>2. r.num <= h.num
        BY <2>2, <2>3, <2>4
      <4>3. r.seq <= h.seq
        BY <2>2, <4>2 DEF Told
      <4>4. QED BY <2>2, <2>3, <2>4, <4>1, <4>2, <4>3
    <3>3. QED BY <1>3, <3>1, <3>2 DEF WasHeadRevision
  <2>6. r.num = d.heads[m].rev => r.kind = d.heads[m].kind /\ r.key = d.heads[m].key
    BY DEF Told
  <2>7. IsLive(d, m) <=> ~RetractedBefore(d, m, b) /\ ~SupersededBefore(d, m, b)
    <3>1. RetractedBefore(d, m, b) <=> d.heads[m].state = "retracted"
      BY <1>3, <2>1 DEF RetractedBefore, Told
    <3>2. d.heads[m].state = "superseded" => SupersededBefore(d, m, b)
      BY <1>3, <2>1 DEF SupersededBefore, Told
    <3>3. SupersededBefore(d, m, b) => d.heads[m].state \notin Live
      BY DEF SupersededBefore, Grounded, SupersessionGoesBackOf, LinksWith
    <3>4. d.heads[m].state \in Live \cup {"superseded", "retracted"}
      BY <2>1 DEF HeadRow, State
    <3>5. "retracted" \notin Live /\ "superseded" \notin Live
      BY DEF Live
    <3>6. QED BY <2>1, <3>1, <3>2, <3>3, <3>4, <3>5 DEF IsLive
  <2>8. QED BY <2>5, <2>6, <2>7 DEF RetryRows, LiveRows
<1>5. QED BY <1>4 DEF RetryRows, LiveRows, b

\* A key has at most one live failure while it has one live head.
LEMMA OneLiveRow ==
    ASSUME NEW d \in Store, Grounded(d), OneLiveHeadPerKeyOf(d), NEW scope, NEW key \in Key,
           NEW r \in LiveRows(d, scope, key), NEW s \in LiveRows(d, scope, key)
    PROVE  r = s
<1>1. /\ r \in d.revisions /\ s \in d.revisions /\ r.mem \in Memory /\ s.mem \in Memory
  BY DEF LiveRows, Store, RevisionRow
<1>2. key # None
  BY StoreAssumption
<1>3. r.mem = s.mem
  BY <1>1, <1>2 DEF LiveRows, OneLiveHeadPerKeyOf
<1>4. r.num = s.num /\ Exists(d, r.mem)
  BY <1>3 DEF LiveRows, IsLive
<1>5. r \in RevisionsOf(d, r.mem) /\ s \in RevisionsOf(d, r.mem)
  BY <1>1, <1>3 DEF RevisionsOf
<1>6. QED BY <1>1, <1>4, <1>5 DEF Grounded, RevisionChainOf

LEMMA SameAtBoundary ==
    ASSUME NEW d \in Store, Grounded(d), Explained(d), Told(d), OneLiveHeadPerKeyOf(d),
           NEW scope, NEW key \in Key
    PROVE  HistoricalFailure(d, scope, key, Len(d.events) + 1) = LiveFailure(d, scope, key)
<1> DEFINE b == Len(d.events) + 1
           rows == LiveRows(d, scope, key)
           Past == {[found |-> <<r.mem, r.num>>, at |-> r.seq] :
                       r \in RetryRows(d, scope, key, b)}
           Now == {[found |-> <<r.mem, r.num>>, at |-> d.heads[r.mem].updated] : r \in rows}
<1>1. /\ HistoricalFailure(d, scope, key, b) = FirstOf(Past)
      /\ LiveFailure(d, scope, key) = FirstOf(Now)
  BY DEF HistoricalFailure, LiveFailure, RetryRows, LiveRows
<1>2. RetryRows(d, scope, key, b) = rows
  BY SameRowsAtBoundary
<1>3. \A r, s \in rows : r = s
  BY OneLiveRow
<1>4. \A r \in rows : r.seq \in Nat /\ d.heads[r.mem].updated \in Nat
  BY DEF LiveRows, IsLive, Exists, Store, RevisionRow, HeadRow
<1> HIDE DEF rows, b
<1>5. CASE rows = {}
  <2>1. Past = {} /\ Now = {}
    BY <1>2, <1>5
  <2>2. FirstOf({}) = {}
    BY DEF FirstOf
  <2>3. QED BY <1>1, <2>1, <2>2 DEF b
<1>6. CASE rows # {}
  <2>1. PICK r \in rows : rows = {r}
    BY <1>3, <1>6
  <2> DEFINE p == [found |-> <<r.mem, r.num>>, at |-> r.seq]
             n == [found |-> <<r.mem, r.num>>, at |-> d.heads[r.mem].updated]
  <2>2. Past = {p} /\ Now = {n}
    BY <1>2, <2>1
  <2>3. \A x : x.at \in Nat => FirstOf({x}) = {x.found}
    BY DEF FirstOf
  <2>4. p.at \in Nat /\ n.at \in Nat /\ p.found = n.found
    BY <1>4
  <2> HIDE DEF p, n, Past, Now
  <2>5. QED BY <1>1, <2>2, <2>3, <2>4 DEF b
<1>7. QED BY <1>5, <1>6

(***************************************************************************)
(* The theorems                                                            *)
(***************************************************************************)

\* A first execution read, at a boundary in the log, what a retry reads of it.
FirstRead ==
    first # None =>
       /\ first.before \in 1..(Len(db.events) + 1)
       /\ \A s \in Scope : \A k \in Key :
             HistoricalFailure(db, s, k, first.before) = first.read[s][k]

LEMMA FirstReadStep ==
    ASSUME ExplicitId = {}, IInv, Life, ToldInv, IInv', Life', FirstRead,
           [FNext]_allVars
    PROVE  FirstRead'
<1>1. /\ db \in Store /\ Grounded(db) /\ Explained(db) /\ Told(db)
      /\ OneLiveHeadPerKeyOf(db) /\ db.events \in Seq(Request)
  BY DEF IInv, TypeOK, Life, ToldInv, Store
<1>2. CASE FirstExecution
  <2>1. /\ first' = [before |-> Len(db.events) + 1,
                     read |-> [s \in Scope |-> [k \in Key |-> LiveFailure(db, s, k)]]]
        /\ db' = db
    BY <1>2 DEF FirstExecution, vars
  <2>2. /\ first'.before = Len(db.events) + 1
        /\ \A s \in Scope : \A k \in Key : first'.read[s][k] = LiveFailure(db, s, k)
    BY <2>1
  <2>3. \A s \in Scope : \A k \in Key :
           HistoricalFailure(db, s, k, Len(db.events) + 1) = LiveFailure(db, s, k)
    BY <1>1, SameAtBoundary
  <2>4. Len(db.events) + 1 \in 1..(Len(db.events) + 1)
    BY <1>1
  <2>5. QED BY <2>1, <2>2, <2>3, <2>4 DEF FirstRead
<1>3. CASE first' = first /\ db' = db
  BY <1>3 DEF FirstRead
<1>4. CASE first' = first /\ Advances(db, db')
  <2> SUFFICES ASSUME first # None PROVE FirstRead'
    BY <1>4 DEF FirstRead
  <2>1. first.before \in 1..(Len(db.events) + 1)
    BY DEF FirstRead
  <2>2. /\ db' \in Store /\ ScopeClosedOf(db') /\ EveryChangeHasEventOf(db')
        /\ ScopeClosedOf(db) /\ EveryChangeHasEventOf(db)
    BY <1>1 DEF IInv, TypeOK, Grounded, Life, Explained
  <2>3. SamePast(db, db', first.before)
    BY <1>1, <1>4, <2>1, <2>2, AdvanceKeepsPast
  <2>4. \A s \in Scope : \A k \in Key :
           HistoricalFailure(db', s, k, first.before)
              = HistoricalFailure(db, s, k, first.before)
    BY <2>3, PastIsRead
  <2>5. Len(db'.events) = Len(db.events) + 1
    BY <1>1, <1>4 DEF Advances
  <2>6. first.before \in 1..(Len(db'.events) + 1)
    BY <1>1, <2>1, <2>5
  <2>7. QED BY <1>4, <2>4, <2>6 DEF FirstRead
<1>5. CASE [Next]_vars /\ first' = first
  BY <1>3, <1>4, <1>5, NextIsStoreStep, LifeStep
<1>6. QED BY <1>2, <1>5 DEF FNext, allVars

\* The recorded lookups change no table: the store beside them is MemoryStore.
LEMMA StoreBeside == FSpec => Spec
<1>1. FInit => Init
  BY DEF FInit
<1>2. [FNext]_allVars => [Next]_vars
  BY DEF FNext, FirstExecution, allVars, vars
<1>3. QED BY <1>1, <1>2, PTL DEF FSpec, Spec

\* A recorded lookup read the failure that the immutable rows name for its
\* sequence number, and later writes leave those rows alone: the historical
\* lookup returns it for ever (load_failed_checkpoint_attempts).
THEOREM RetryInductive ==
    ASSUME ExplicitId = {} PROVE FSpec => [](IInv /\ Life /\ ToldInv /\ FirstRead)
<1>1. FInit => ToldInv /\ FirstRead
  BY InitTold DEF FInit, FirstRead
<1>2. IInv /\ Life /\ (IInv /\ Life)' /\ ToldInv /\ FirstRead /\ [FNext]_allVars
         => (ToldInv /\ FirstRead)'
  <2>1. [FNext]_allVars => [Next]_vars
    BY DEF FNext, FirstExecution, allVars, vars
  <2>2. QED BY <2>1, NextIsStoreStep, ToldStep, FirstReadStep
<1>3. QED BY <1>1, <1>2, StoreBeside, LifeInductive, PTL DEF FSpec

\* Whatever is revised, contested, superseded or retracted after a checkpoint
\* was first executed, the retry reconstructs from immutable rows the failure
\* the first execution read from mutable heads, and none where it read none;
\* so its request has the fingerprint of the original.  This holds while keys
\* are what names a memory: with identifiers two live heads may share a key
\* (load_failed_checkpoint_attempts).
THEOREM RetriesReadTheSame ==
    ASSUME ExplicitId = {} PROVE FSpec => []RetryReadsTheSame
<1>1. FirstRead => RetryReadsTheSame
  BY DEF FirstRead, RetryReadsTheSame
<1>2. QED BY <1>1, RetryInductive, PTL
=============================================================================
