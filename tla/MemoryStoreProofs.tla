------------------------- MODULE MemoryStoreProofs -------------------------
(* Theorems about MemoryStore, for every instance of its constants. *)
EXTENDS MemoryStore, SequenceTheorems, WellFoundedInduction, TLAPS

\* A set of numbers that is not empty has a least member.
LEMMA LeastOfNaturals ==
    ASSUME NEW T \in SUBSET Nat, T # {}
    PROVE  \E x \in T : \A y \in T : x <= y
<1>1. PICK x \in T : \A y \in T : ~ (<<y, x>> \in OpToRel(<, Nat))
  BY NatLessThanWellFounded, WFMin
<1>2. ASSUME NEW y \in T, y < x PROVE FALSE
  <2>1. <<y, x>> \in OpToRel(<, Nat) BY <1>2 DEF OpToRel
  <2> QED BY <1>1, <2>1
<1>3. \A y \in T : x <= y BY <1>2
<1> QED BY <1>3

(***************************************************************************)
(* Types                                                                   *)
(***************************************************************************)

\* Every call a client can make is a request.
LEMMA CallsAreRequests ==
    /\ ObserveCalls \subseteq Request
    /\ RememberCalls \subseteq {c \in Request : c.kind \in MemoryKind}
    /\ RetractCalls \subseteq {c \in Request : c.id \in Memory}
    /\ CheckpointCalls \subseteq {c \in Request : c.kind \in MemoryKind}
<1>1. \A L \in LinkSets : L \in SUBSET Link
  BY DEF LinkSets, Link
<1>2. \A E \in EvidenceSets : E \in SUBSET (1..MaxSeq)
  BY DEF EvidenceSets
<1>3. <<>> \in Seq(Child)
  OBVIOUS
<1>4. ChildList \subseteq Seq(Child) /\ Kind \subseteq MemoryKind /\ ExplicitId \subseteq Memory
  BY StoreAssumption
<1>5. ObserveCalls \subseteq Request
  BY <1>3 DEF ObserveCalls, Request, Operations
<1>6. RememberCalls \subseteq {c \in Request : c.kind \in MemoryKind}
  BY <1>1, <1>2, <1>3, <1>4 DEF RememberCalls, Request, Operations
<1>7. RetractCalls \subseteq {c \in Request : c.id \in Memory}
  BY <1>3 DEF RetractCalls, Request, Operations
<1>8. CheckpointCalls \subseteq {c \in Request : c.kind \in MemoryKind}
  BY <1>2, <1>4 DEF CheckpointCalls, Request, Operations, MemoryKind
<1>9. QED BY <1>5, <1>6, <1>7, <1>8

\* The tables after an upsert, one by one.
LEMMA UpsertTables ==
    ASSUME NEW d \in Store, NEW w, NEW m \in Memory, NEW seq
    PROVE  LET u == Upsert(d, w, m, seq) IN
           /\ u.events = d.events
           /\ u.receipts = d.receipts
           /\ u.heads = [x \in Memory |-> IF x = m THEN WrittenHead(d, w, m, seq)
                                          ELSE Linked(d.heads[x], x, w, seq)]
           /\ u.revisions = Retired(d, m) \cup {WrittenRevision(d, w, m, seq)}
           /\ u.links = d.links \cup
                 {[src |-> m, srcRev |-> NextRevision(d, m), dst |-> l.dst,
                   rel |-> l.rel, seq |-> seq] : l \in w.links}
           /\ u.touched = d.touched \cup {<<seq, x>> : x \in Touched(w, m)}
           /\ u.index = [d.index EXCEPT ![m] = NextRevision(d, m)]
           /\ u = [events |-> u.events, heads |-> u.heads, revisions |-> u.revisions,
                   links |-> u.links, touched |-> u.touched, index |-> u.index,
                   receipts |-> u.receipts]
BY Zenon DEF Upsert

\* An accepted write gets a revision number within its width.
LEMMA NextRevisionInRange ==
    ASSUME NEW d \in Store, NEW w, NEW m \in Memory, Accepts(d, w, m)
    PROVE  NextRevision(d, m) \in 1..MaxRevision
<1>1. MaxRevision \in Nat \ {0}
  BY StoreAssumption
<1>2. CASE Exists(d, m)
  <2>1. d.heads[m] \in HeadRow
    BY <1>2 DEF Exists, Store
  <2>2. d.heads[m].rev \in 1..MaxRevision /\ d.heads[m].rev < MaxRevision
    BY <2>1, <1>2 DEF HeadRow, Accepts
  <2>3. QED BY <1>1, <1>2, <2>2 DEF NextRevision
<1>3. CASE ~Exists(d, m)
  BY <1>1, <1>3 DEF NextRevision
<1>4. QED BY <1>2, <1>3

LEMMA UpsertTyped ==
    ASSUME NEW d \in Store, NEW w \in Request, w.kind \in MemoryKind,
           NEW m \in Memory, NEW seq \in 1..MaxSeq, Accepts(d, w, m)
    PROVE  Upsert(d, w, m, seq) \in Store
<1> DEFINE u == Upsert(d, w, m, seq)
<1>0. /\ u.events = d.events /\ u.receipts = d.receipts
      /\ u.heads = [x \in Memory |-> IF x = m THEN WrittenHead(d, w, m, seq)
                                     ELSE Linked(d.heads[x], x, w, seq)]
      /\ u.revisions = Retired(d, m) \cup {WrittenRevision(d, w, m, seq)}
      /\ u.links = d.links \cup
            {[src |-> m, srcRev |-> NextRevision(d, m), dst |-> l.dst,
              rel |-> l.rel, seq |-> seq] : l \in w.links}
      /\ u.touched = d.touched \cup {<<seq, x>> : x \in Touched(w, m)}
      /\ u.index = [d.index EXCEPT ![m] = NextRevision(d, m)]
      /\ u = [events |-> u.events, heads |-> u.heads, revisions |-> u.revisions,
              links |-> u.links, touched |-> u.touched, index |-> u.index,
              receipts |-> u.receipts]
  BY Zenon DEF Upsert
<1> HIDE DEF u
<1>1. NextRevision(d, m) \in 1..MaxRevision
  BY NextRevisionInRange
<1>2. WrittenState(w) \in Live
  BY DEF WrittenState, Live
<1>3. /\ w.scope \in Scope /\ w.key \in Key \cup {None} /\ w.body \in Body
      /\ w.evidence \in SUBSET (1..MaxSeq) /\ w.links \in SUBSET Link
  BY DEF Request
<1>4. u.heads \in [Memory -> HeadRow \cup {None}]
  <2>1. WrittenHead(d, w, m, seq) \in HeadRow
    BY <1>1, <1>2, <1>3 DEF WrittenHead, HeadRow, State
  <2>2. ASSUME NEW x \in Memory
        PROVE  Linked(d.heads[x], x, w, seq) \in HeadRow \cup {None}
    <3>1. d.heads[x] \in HeadRow \cup {None}
      BY DEF Store
    <3>2. \A h \in HeadRow : /\ [h EXCEPT !.state = "superseded", !.updated = seq] \in HeadRow
                             /\ [h EXCEPT !.state = "contested", !.updated = seq] \in HeadRow
      BY DEF HeadRow, State, Live
    <3>3. QED BY <3>1, <3>2 DEF Linked
  <2>3. QED BY <2>1, <2>2, <1>0
<1>5. u.revisions \in SUBSET RevisionRow
  <2>1. WrittenRevision(d, w, m, seq) \in RevisionRow
    BY <1>1, <1>2, <1>3 DEF WrittenRevision, RevisionRow
  <2>2. Retired(d, m) \subseteq RevisionRow
    <3>1. ASSUME NEW r \in d.revisions, NEW b
          PROVE  [r EXCEPT !.retired = r.retired \/ b] \in RevisionRow
      <4>1. r \in RevisionRow
        BY DEF Store
      <4>2. (r.retired \/ b) \in BOOLEAN
        OBVIOUS
      <4>3. QED BY <4>1, <4>2 DEF RevisionRow
    <3>2. QED BY <3>1 DEF Retired
  <2>3. QED BY <2>1, <2>2, <1>0
<1>6. u.links \in SUBSET LinkRow
  <2>1. ASSUME NEW l \in w.links
        PROVE  [src |-> m, srcRev |-> NextRevision(d, m), dst |-> l.dst, rel |-> l.rel,
                seq |-> seq] \in LinkRow
    BY <1>1, <1>3 DEF Link, LinkRow
  <2>2. QED BY <2>1, <1>0 DEF Store
<1>7. u.touched \in SUBSET ((1..MaxSeq) \X Memory)
  BY <1>3, <1>0 DEF Store, Link, Touched
<1>8. u.index \in [Memory -> 0..MaxRevision]
  BY <1>1, <1>0 DEF Store
<1>9. u.events \in Seq(Request) /\ u.receipts \in SUBSET Receipt
  BY <1>0 DEF Store
<1>10. u \in Store
  BY <1>4, <1>5, <1>6, <1>7, <1>8, <1>9, <1>0 DEF Store
<1>11. QED BY <1>10 DEF u

\* Appending an event leaves the other tables alone.
LEMMA AppendTables ==
    ASSUME NEW d \in Store, NEW call \in Request
    PROVE  LET a == AppendEvent(d, call) IN
           /\ a \in Store
           /\ a.events = Append(d.events, call)
           /\ Len(a.events) = Len(d.events) + 1
           /\ DOMAIN a.events = DOMAIN d.events \cup {Len(d.events) + 1}
           /\ a.events[Len(d.events) + 1] = call
           /\ \A i \in DOMAIN d.events : a.events[i] = d.events[i]
           /\ a.heads = d.heads /\ a.revisions = d.revisions /\ a.links = d.links
           /\ a.touched = d.touched /\ a.index = d.index /\ a.receipts = d.receipts
<1>1. d.events \in Seq(Request)
  BY DEF Store
<1>2. AppendEvent(d, call).events = Append(d.events, call)
  BY DEF AppendEvent, Store
<1>3. /\ Append(d.events, call) \in Seq(Request)
      /\ Len(Append(d.events, call)) = Len(d.events) + 1
      /\ DOMAIN Append(d.events, call) = DOMAIN d.events \cup {Len(d.events) + 1}
      /\ Append(d.events, call)[Len(d.events) + 1] = call
      /\ \A i \in DOMAIN d.events : Append(d.events, call)[i] = d.events[i]
  BY <1>1
<1>4. AppendEvent(d, call) \in Store
  BY <1>3 DEF AppendEvent, Store
<1>5. QED BY <1>2, <1>3, <1>4 DEF AppendEvent, Store

ReceiptRow(call, seq, written) ==
    [slot |-> Slot(call), hash |-> Fingerprint(call), seq |-> seq, written |-> written]

\* Storing a receipt leaves the other tables alone.
LEMMA ReceiptTables ==
    ASSUME NEW d \in Store, NEW call \in Request, NEW seq \in 1..MaxSeq,
           NEW written \in SUBSET Memory, call.op = "retract" => call.id \in Memory
    PROVE  LET p == PutReceipt(d, call, seq, written) IN
           /\ p \in Store
           /\ p.events = d.events /\ p.heads = d.heads /\ p.revisions = d.revisions
           /\ p.links = d.links /\ p.touched = d.touched /\ p.index = d.index
           /\ call.idem = None => p.receipts = d.receipts
           /\ call.idem # None => p.receipts = d.receipts \cup {ReceiptRow(call, seq, written)}
<1>1. CASE call.idem = None
  BY <1>1 DEF PutReceipt
<1>2. CASE call.idem # None
  <2>1. Slot(call) \in Slots
    BY <1>2 DEF Slot, Slots, Request
  <2>2. Fingerprint(call) \in Request
    BY DEF Fingerprint, Request
  <2>3. ReceiptRow(call, seq, written) \in Receipt
    BY <2>1, <2>2 DEF Receipt, ReceiptRow
  <2>4. PutReceipt(d, call, seq, written) =
          [d EXCEPT !.receipts = @ \cup {ReceiptRow(call, seq, written)}]
    BY <1>2 DEF PutReceipt, ReceiptRow
  <2>5. QED BY <1>2, <2>3, <2>4 DEF Store
<1>3. QED BY <1>1, <1>2

RetractedRow(d, m, seq) == [d.heads[m] EXCEPT !.state = "retracted", !.updated = seq]

\* Retraction touches the head, the mapping and the index.
LEMMA RetractTables ==
    ASSUME NEW d \in Store, NEW m \in Memory, Exists(d, m), NEW seq \in 1..MaxSeq
    PROVE  LET t == RetractHead(d, m, seq) IN
           /\ t \in Store
           /\ t.events = d.events /\ t.revisions = d.revisions /\ t.links = d.links
           /\ t.receipts = d.receipts
           /\ t.touched = d.touched \cup {<<seq, m>>}
           /\ t.heads = [x \in Memory |-> IF x = m THEN RetractedRow(d, m, seq) ELSE d.heads[x]]
<1>1. d.heads[m] \in HeadRow
  BY DEF Store, Exists
<1>2. RetractedRow(d, m, seq) \in HeadRow
  BY <1>1 DEF HeadRow, State, RetractedRow
<1>3. d.heads \in [Memory -> HeadRow \cup {None}] /\ d.index \in [Memory -> 0..MaxRevision]
  BY DEF Store
<1>4. RetractHead(d, m, seq).heads =
        [x \in Memory |-> IF x = m THEN RetractedRow(d, m, seq) ELSE d.heads[x]]
  BY <1>3 DEF RetractHead, Store, RetractedRow
<1>5. RetractHead(d, m, seq).heads \in [Memory -> HeadRow \cup {None}]
  BY <1>2, <1>3, <1>4
<1>6. 0 \in 0..MaxRevision
  BY StoreAssumption
<1>7. RetractHead(d, m, seq).index \in [Memory -> 0..MaxRevision]
  BY <1>3, <1>6 DEF RetractHead, Store
<1>8. RetractHead(d, m, seq).touched = d.touched \cup {<<seq, m>>}
  BY DEF RetractHead, Store
<1>9. RetractHead(d, m, seq).touched \in SUBSET ((1..MaxSeq) \X Memory)
  BY <1>8 DEF Store
<1>10. /\ RetractHead(d, m, seq).events = d.events
       /\ RetractHead(d, m, seq).revisions = d.revisions
       /\ RetractHead(d, m, seq).links = d.links
       /\ RetractHead(d, m, seq).receipts = d.receipts
  BY DEF RetractHead, Store
<1>11. RetractHead(d, m, seq) \in Store
  BY <1>5, <1>7, <1>9, <1>10 DEF RetractHead, Store
<1>12. QED BY <1>4, <1>8, <1>10, <1>11

(***************************************************************************)
(* What an upsert does to heads and revisions                              *)
(***************************************************************************)

\* No head disappears or changes its scope, a terminal one does not change at
\* all, and the targets of supersedes links are terminal afterwards.
LEMMA UpsertHeads ==
    ASSUME NEW d \in Store, NEW w \in Request, w.kind \in MemoryKind,
           NEW m \in Memory, NEW seq \in 1..MaxSeq, Accepts(d, w, m)
    PROVE  LET u == Upsert(d, w, m, seq) IN
           /\ Exists(u, m) /\ u.heads[m].scope = w.scope
           /\ \A x \in Memory : Exists(d, x) =>
                 Exists(u, x) /\ u.heads[x].scope = d.heads[x].scope
           /\ \A x \in Memory : Exists(d, x) /\ ~IsLive(d, x) =>
                 x # m /\ u.heads[x] = d.heads[x]
           /\ \A x \in LinkTargets(w, "supersedes") : Exists(d, x) /\ ~IsLive(u, x)
<1> DEFINE u == Upsert(d, w, m, seq)
<1>1. /\ u.heads = [x \in Memory |-> IF x = m THEN WrittenHead(d, w, m, seq)
                                     ELSE Linked(d.heads[x], x, w, seq)]
  BY Zenon DEF Upsert
<1>2. u \in Store
  BY UpsertTyped
<1> HIDE DEF u
<1>3. \A x \in Memory : d.heads[x] \in HeadRow \cup {None} /\ u.heads[x] \in HeadRow \cup {None}
  BY <1>2 DEF Store
<1>4. WrittenHead(d, w, m, seq) \in HeadRow
  <2>1. NextRevision(d, m) \in 1..MaxRevision
    BY NextRevisionInRange
  <2>2. WrittenState(w) \in State
    BY DEF WrittenState, State, Live
  <2>3. QED BY <2>1, <2>2 DEF WrittenHead, HeadRow, Request
<1>5. Exists(u, m) /\ u.heads[m].scope = w.scope
  BY <1>1, <1>4, NoneAssumption DEF Exists, WrittenHead
<1>6. ASSUME NEW x \in Memory, x # m, Exists(d, x)
      PROVE  /\ Exists(u, x)
             /\ u.heads[x].scope = d.heads[x].scope
             /\ ~IsLive(d, x) => u.heads[x] = d.heads[x]
             /\ x \in LinkTargets(w, "supersedes") => ~IsLive(u, x)
  <2>1. u.heads[x] = Linked(d.heads[x], x, w, seq)
    BY <1>1, <1>6
  <2>2. d.heads[x] \in HeadRow
    BY <1>3, <1>6 DEF Exists
  <2>3. \A h \in HeadRow : /\ [h EXCEPT !.state = "superseded", !.updated = seq].scope = h.scope
                           /\ [h EXCEPT !.state = "contested", !.updated = seq].scope = h.scope
                           /\ [h EXCEPT !.state = "superseded", !.updated = seq].state = "superseded"
                           /\ [h EXCEPT !.state = "superseded", !.updated = seq] \in HeadRow
                           /\ [h EXCEPT !.state = "contested", !.updated = seq] \in HeadRow
    BY DEF HeadRow, State, Live
  <2>4. Linked(d.heads[x], x, w, seq) \in HeadRow
    BY <2>2, <2>3 DEF Linked
  <2>5. Exists(u, x)
    BY <2>1, <2>4, NoneAssumption DEF Exists
  <2>6. u.heads[x].scope = d.heads[x].scope
    BY <2>1, <2>2, <2>3 DEF Linked
  <2>7. ~IsLive(d, x) => u.heads[x] = d.heads[x]
    BY <1>6, <2>1 DEF Linked, IsLive, Live
  <2>8. x \in LinkTargets(w, "supersedes") => ~IsLive(u, x)
    BY <1>6, <2>1, <2>2, <2>3 DEF Linked, IsLive, Live, Exists
  <2>9. QED BY <2>5, <2>6, <2>7, <2>8
<1>7. Exists(d, m) => d.heads[m].scope = w.scope /\ IsLive(d, m)
  BY DEF Accepts, IsLive
<1>8. \A x \in LinkTargets(w, "supersedes") : x \in Memory /\ x # m /\ Exists(d, x)
  BY DEF LinkTargets, Accepts, ValidLinks, Request, Link
<1>9. QED BY <1>5, <1>6, <1>7, <1>8 DEF u

\* A revision is written once: an upsert adds one and at most marks another as
\* retired, and it leaves the revisions of other memories alone.
LEMMA UpsertRevisions ==
    ASSUME NEW d \in Store, NEW w \in Request, NEW m \in Memory, NEW seq \in 1..MaxSeq
    PROVE  LET u == Upsert(d, w, m, seq) IN
           /\ WrittenRevision(d, w, m, seq) \in u.revisions
           /\ \A r \in u.revisions :
                 \/ r = WrittenRevision(d, w, m, seq)
                 \/ \E q \in d.revisions : /\ q.mem = r.mem /\ q.num = r.num
                                           /\ q.seq = r.seq /\ q.evidence = r.evidence
           /\ \A q \in d.revisions :
                 \E r \in u.revisions : q.mem = r.mem /\ q.num = r.num /\ q.seq = r.seq
           /\ \A x \in Memory : x # m => RevisionsOf(u, x) = RevisionsOf(d, x)
<1> DEFINE u == Upsert(d, w, m, seq)
<1> DEFINE Mark(r) == [r EXCEPT !.retired =
                         @ \/ (r.mem = m /\ Exists(d, m) /\ r.num = d.heads[m].rev)]
<1>1. u.revisions = Retired(d, m) \cup {WrittenRevision(d, w, m, seq)}
  BY Zenon DEF Upsert
<1>2. Retired(d, m) = {Mark(r) : r \in d.revisions}
  BY DEF Retired
<1>3. WrittenRevision(d, w, m, seq).mem = m
  BY DEF WrittenRevision
<1> HIDE DEF u
<1>4. ASSUME NEW q \in d.revisions
      PROVE  /\ Mark(q).mem = q.mem /\ Mark(q).num = q.num
             /\ Mark(q).seq = q.seq /\ Mark(q).evidence = q.evidence
             /\ q.mem # m => Mark(q) = q
  <2>1. q \in RevisionRow
    BY DEF Store
  <2>2. Mark(q).mem = q.mem /\ Mark(q).num = q.num
        /\ Mark(q).seq = q.seq /\ Mark(q).evidence = q.evidence
    BY <2>1 DEF RevisionRow
  <2>3. q.mem # m => Mark(q) = q
    BY <2>1 DEF RevisionRow
  <2>4. QED BY <2>2, <2>3
<1> HIDE DEF Mark
<1>5. \A x \in Memory : x # m => RevisionsOf(u, x) = RevisionsOf(d, x)
  BY <1>1, <1>2, <1>3, <1>4 DEF RevisionsOf
<1>6. QED BY <1>1, <1>2, <1>4, <1>5 DEF u

(***************************************************************************)
(* Groundedness: the part of the inductive invariant about one copy of the *)
(* store.  Scopes are closed, supersession goes back in time, revisions    *)
(* form a chain and nothing was recorded by an event the log lacks.        *)
(***************************************************************************)
Grounded(d) ==
    /\ \A r \in d.revisions : r.seq \in DOMAIN d.events
    /\ RevisionChainOf(d)
    /\ ScopeClosedOf(d)
    /\ SupersessionGoesBackOf(d)

\* A chain depends on the revisions and on the heads' revision numbers.
LEMMA SameChain ==
    ASSUME NEW d, NEW e, RevisionChainOf(d), e.revisions = d.revisions,
           \A x \in Memory : /\ Exists(e, x) <=> Exists(d, x)
                             /\ Exists(d, x) => e.heads[x].rev = d.heads[x].rev
    PROVE  RevisionChainOf(e)
<1>1. \A x \in Memory : RevisionsOf(e, x) = RevisionsOf(d, x)
  BY DEF RevisionsOf
<1>2. QED BY <1>1 DEF RevisionChainOf

\* An upsert extends the chain of the memory it writes by one revision and
\* leaves the other chains alone.
LEMMA UpsertChain ==
    ASSUME NEW d \in Store, NEW w \in Request, w.kind \in MemoryKind,
           NEW m \in Memory, NEW seq \in 1..MaxSeq, Accepts(d, w, m), RevisionChainOf(d)
    PROVE  RevisionChainOf(Upsert(d, w, m, seq))
<1> DEFINE u == Upsert(d, w, m, seq)
           W == WrittenRevision(d, w, m, seq)
           Mark(r) == [r EXCEPT !.retired =
                         @ \/ (r.mem = m /\ Exists(d, m) /\ r.num = d.heads[m].rev)]
<1>1. /\ u.heads = [x \in Memory |-> IF x = m THEN WrittenHead(d, w, m, seq)
                                     ELSE Linked(d.heads[x], x, w, seq)]
      /\ u.revisions = Retired(d, m) \cup {W}
  BY Zenon DEF Upsert
<1>2. Retired(d, m) = {Mark(r) : r \in d.revisions}
  BY DEF Retired
<1>3. Exists(u, m) /\ \A x \in Memory : Exists(d, x) => Exists(u, x)
  BY UpsertHeads
<1>4. \A x \in Memory : x # m => RevisionsOf(u, x) = RevisionsOf(d, x)
  BY UpsertRevisions
<1>5. u.heads[m].rev = NextRevision(d, m)
  BY <1>1 DEF WrittenHead
<1>6. W.mem = m /\ W.num = NextRevision(d, m) /\ W.retired = FALSE
  BY DEF WrittenRevision
<1>7. \A x \in Memory : d.heads[x] \in HeadRow \cup {None}
  BY DEF Store
<1>8. \A r \in d.revisions : r \in RevisionRow
  BY DEF Store
<1> HIDE DEF u, W
<1>9. ASSUME NEW x \in Memory, x # m
      PROVE  /\ Exists(u, x) <=> Exists(d, x)
             /\ Exists(d, x) => u.heads[x].rev = d.heads[x].rev
  <2>1. u.heads[x] = Linked(d.heads[x], x, w, seq)
    BY <1>1, <1>9
  <2>2. CASE d.heads[x] = None
    BY <1>3, <2>1, <2>2 DEF Linked, Exists
  <2>3. CASE d.heads[x] \in HeadRow
    <3>1. \A h \in HeadRow : /\ [h EXCEPT !.state = "superseded", !.updated = seq].rev = h.rev
                             /\ [h EXCEPT !.state = "contested", !.updated = seq].rev = h.rev
      BY DEF HeadRow
    <3>2. u.heads[x].rev = d.heads[x].rev
      BY <2>1, <2>3, <3>1 DEF Linked
    <3>3. Exists(d, x)
      BY <2>3, NoneAssumption DEF Exists
    <3>4. QED BY <1>3, <3>2, <3>3
  <2>4. QED BY <1>7, <2>2, <2>3
<1>10. ASSUME NEW x \in Memory, x # m
       PROVE  IF Exists(u, x)
              THEN /\ {r.num : r \in RevisionsOf(u, x)} = 1..u.heads[x].rev
                   /\ \A r, s \in RevisionsOf(u, x) : r.num = s.num => r = s
                   /\ \A r \in RevisionsOf(u, x) : r.retired <=> r.num # u.heads[x].rev
              ELSE RevisionsOf(u, x) = {}
  BY <1>4, <1>9, <1>10 DEF RevisionChainOf
<1>11. RevisionsOf(u, m) = {Mark(r) : r \in RevisionsOf(d, m)} \cup {W}
  <2>1. \A r \in d.revisions : Mark(r).mem = r.mem
    BY <1>8 DEF RevisionRow
  <2> HIDE DEF Mark
  <2>2. QED BY <1>1, <1>2, <1>6, <2>1 DEF RevisionsOf
<1>12. CASE ~Exists(d, m)
  <2>1. RevisionsOf(d, m) = {}
    BY <1>12 DEF RevisionChainOf
  <2>2. RevisionsOf(u, m) = {W} /\ NextRevision(d, m) = 1
    BY <1>11, <1>12, <2>1 DEF NextRevision
  <2>3. {r.num : r \in RevisionsOf(u, m)} = 1..1
    BY <1>6, <2>2
  <2>4. QED BY <1>3, <1>5, <1>6, <1>10, <2>2, <2>3 DEF RevisionChainOf, u
<1>13. CASE Exists(d, m)
  <2> DEFINE n == d.heads[m].rev
  <2>1. n \in Nat \ {0} /\ NextRevision(d, m) = n + 1
    BY <1>7, <1>13, StoreAssumption DEF Exists, HeadRow, NextRevision
  <2>2. /\ {r.num : r \in RevisionsOf(d, m)} = 1..n
        /\ \A r, s \in RevisionsOf(d, m) : r.num = s.num => r = s
        /\ \A r \in RevisionsOf(d, m) : r.retired <=> r.num # n
    BY <1>13 DEF RevisionChainOf
  <2>3. \A r \in RevisionsOf(d, m) : r.num \in 1..n
    BY <2>2
  <2>4. \A r \in RevisionsOf(d, m) : Mark(r).num = r.num /\ Mark(r).retired
    BY <1>8, <1>13, <2>2 DEF RevisionsOf, RevisionRow
  <2>5. \A r, s \in RevisionsOf(d, m) : Mark(r).num = Mark(s).num => Mark(r) = Mark(s)
    BY <2>2, <2>4
  <2> HIDE DEF n, Mark
  <2>6. {r.num : r \in RevisionsOf(u, m)} = 1..(n + 1)
    <3>1. \A k \in 1..(n + 1) : \E r \in RevisionsOf(u, m) : r.num = k
      <4>1. ASSUME NEW k \in 1..(n + 1) PROVE \E r \in RevisionsOf(u, m) : r.num = k
        <5>1. CASE k = n + 1
          BY <1>6, <1>11, <2>1, <5>1
        <5>2. CASE k \in 1..n
          BY <1>11, <2>2, <2>4, <5>2
        <5>3. QED BY <2>1, <5>1, <5>2
      <4>2. QED BY <4>1
    <3>2. \A r \in RevisionsOf(u, m) : r.num \in 1..(n + 1)
      BY <1>6, <1>11, <2>1, <2>3, <2>4
    <3>3. QED BY <3>1, <3>2
  <2>7. \A r, s \in RevisionsOf(u, m) : r.num = s.num => r = s
    BY <1>6, <1>11, <2>1, <2>3, <2>4, <2>5
  <2>8. \A r \in RevisionsOf(u, m) : r.retired <=> r.num # n + 1
    BY <1>6, <1>11, <2>1, <2>3, <2>4
  <2>9. QED BY <1>3, <1>5, <1>10, <2>1, <2>6, <2>7, <2>8 DEF RevisionChainOf, u
<1>14. QED BY <1>12, <1>13

LEMMA EmptyGrounded == EmptyStore \in Store /\ Grounded(EmptyStore)
<1>1. EmptyStore \in Store
  BY StoreAssumption DEF EmptyStore, Store
<1>2. Grounded(EmptyStore)
  BY DEF EmptyStore, Grounded, ScopeClosedOf, SupersessionGoesBackOf, LinksWith,
         RevisionChainOf, RevisionsOf, Exists
<1>3. QED BY <1>1, <1>2

\* Groundedness depends on events, heads' scopes and states, revisions, links
\* and the mapping; a log that only grew keeps it.
LEMMA AppendGrounded ==
    ASSUME NEW d \in Store, NEW call \in Request, Grounded(d)
    PROVE  Grounded(AppendEvent(d, call))
<1> DEFINE a == AppendEvent(d, call)
<1>1. /\ \A i \in DOMAIN d.events : i \in DOMAIN a.events /\ a.events[i] = d.events[i]
      /\ a.heads = d.heads /\ a.revisions = d.revisions /\ a.links = d.links
      /\ a.touched = d.touched
  BY AppendTables
<1> HIDE DEF a
<1>2. ScopeClosedOf(a)
  BY <1>1 DEF Grounded, ScopeClosedOf, Exists
<1>3. SupersessionGoesBackOf(a)
  BY <1>1 DEF Grounded, SupersessionGoesBackOf, LinksWith, RevisionsOf
<1>4. RevisionChainOf(a)
  BY <1>1, SameChain DEF Grounded, Exists
<1>5. QED BY <1>1, <1>2, <1>3, <1>4 DEF Grounded, a

LEMMA UpsertGrounded ==
    ASSUME NEW d \in Store, NEW w \in Request, w.kind \in MemoryKind,
           NEW m \in Memory, NEW seq \in 1..MaxSeq, Accepts(d, w, m), Grounded(d),
           seq \in DOMAIN d.events, d.events[seq].scope = w.scope,
           LinkTargets(w, "supersedes") # {} => \A r \in d.revisions : r.seq < seq
    PROVE  Grounded(Upsert(d, w, m, seq))
<1> DEFINE u == Upsert(d, w, m, seq)
           W == WrittenRevision(d, w, m, seq)
           L(l) == [src |-> m, srcRev |-> NextRevision(d, m), dst |-> l.dst,
                    rel |-> l.rel, seq |-> seq]
<1>1. /\ u.events = d.events
      /\ u.links = d.links \cup {L(l) : l \in w.links}
      /\ u.touched = d.touched \cup {<<seq, x>> : x \in Touched(w, m)}
  BY Zenon DEF Upsert
<1>2. u \in Store
  BY UpsertTyped
<1>3. /\ Exists(u, m) /\ u.heads[m].scope = w.scope
      /\ \A x \in Memory : Exists(d, x) =>
            Exists(u, x) /\ u.heads[x].scope = d.heads[x].scope
      /\ \A x \in Memory : Exists(d, x) /\ ~IsLive(d, x) =>
            x # m /\ u.heads[x] = d.heads[x]
      /\ \A x \in LinkTargets(w, "supersedes") : Exists(d, x) /\ ~IsLive(u, x)
  BY UpsertHeads
<1>4. /\ W \in u.revisions
      /\ \A r \in u.revisions :
            \/ r = W
            \/ \E q \in d.revisions : /\ q.mem = r.mem /\ q.num = r.num
                                      /\ q.seq = r.seq /\ q.evidence = r.evidence
      /\ \A q \in d.revisions :
            \E r \in u.revisions : q.mem = r.mem /\ q.num = r.num /\ q.seq = r.seq
      /\ \A x \in Memory : x # m => RevisionsOf(u, x) = RevisionsOf(d, x)
  BY UpsertRevisions
<1>5. W.mem = m /\ W.num = NextRevision(d, m) /\ W.seq = seq /\ W.evidence = w.evidence \cup {seq}
  BY DEF WrittenRevision
<1> HIDE DEF u, W
<1>6. /\ \A r \in d.revisions : r.mem \in Memory
      /\ \A l \in d.links : l.src \in Memory /\ l.dst \in Memory
      /\ \A t \in d.touched : t[2] \in Memory
  BY DEF Store, RevisionRow, LinkRow
<1>7. \A l \in w.links : l.dst \in Memory /\ l.dst # m /\ Exists(d, l.dst)
                         /\ d.heads[l.dst].scope = w.scope
  BY DEF Accepts, ValidLinks, Request, Link
<1>8. \A e \in w.evidence \cup {seq} : e \in DOMAIN d.events /\ d.events[e].scope = w.scope
  BY DEF Accepts, ValidEvidence
<1>9. \A r \in u.revisions : r.seq \in DOMAIN u.events
  BY <1>1, <1>4, <1>5 DEF Grounded
<1>10. ScopeClosedOf(u)
  <2>1. \A r \in u.revisions : Exists(u, r.mem) /\ \A e \in r.evidence :
          e \in DOMAIN u.events /\ u.events[e].scope = u.heads[r.mem].scope
    BY <1>1, <1>3, <1>4, <1>5, <1>6, <1>8 DEF Grounded, ScopeClosedOf
  <2>2. ASSUME NEW l \in u.links
        PROVE  Exists(u, l.src) /\ Exists(u, l.dst)
               /\ u.heads[l.src].scope = u.heads[l.dst].scope
    <3>1. CASE l \in d.links
      BY <1>3, <1>6, <3>1 DEF Grounded, ScopeClosedOf
    <3>2. CASE \E k \in w.links : l = L(k)
      BY <1>3, <1>7, <3>2
    <3>3. QED BY <1>1, <2>2, <3>1, <3>2
  <2>3. ASSUME NEW t \in u.touched
        PROVE  Exists(u, t[2]) /\ t[1] \in DOMAIN u.events
               /\ u.events[t[1]].scope = u.heads[t[2]].scope
    <3>1. CASE t \in d.touched
      BY <1>1, <1>3, <1>6, <3>1 DEF Grounded, ScopeClosedOf
    <3>2. CASE \E x \in Touched(w, m) : t = <<seq, x>>
      <4>1. PICK x \in Touched(w, m) : t = <<seq, x>>
        BY <3>2
      <4>2. x \in Memory /\ Exists(u, x) /\ u.heads[x].scope = w.scope
        BY <1>3, <1>7 DEF Touched
      <4>3. QED BY <1>1, <1>8, <4>1, <4>2
    <3>3. QED BY <1>1, <2>3, <3>1, <3>2
  <2>4. QED BY <2>1, <2>2, <2>3 DEF ScopeClosedOf
<1>11. SupersessionGoesBackOf(u)
  <2> SUFFICES ASSUME NEW l \in u.links, l.rel = "supersedes"
      PROVE  /\ u.heads[l.dst].state \notin Live
             /\ \A r \in RevisionsOf(u, l.dst) : r.seq < l.seq
             /\ \E r \in RevisionsOf(u, l.src) : r.num = l.srcRev /\ r.seq = l.seq
    BY DEF SupersessionGoesBackOf, LinksWith
  <2>1. CASE l \in d.links
    <3>1. /\ Exists(d, l.dst) /\ d.heads[l.dst].state \notin Live
          /\ \A r \in RevisionsOf(d, l.dst) : r.seq < l.seq
          /\ \E r \in RevisionsOf(d, l.src) : r.num = l.srcRev /\ r.seq = l.seq
      BY <2>1 DEF Grounded, ScopeClosedOf, SupersessionGoesBackOf, LinksWith
    <3>2. l.dst # m /\ u.heads[l.dst] = d.heads[l.dst]
      BY <1>3, <1>6, <2>1, <3>1 DEF IsLive
    <3>3. RevisionsOf(u, l.dst) = RevisionsOf(d, l.dst)
      BY <1>4, <1>6, <2>1, <3>2
    <3>4. \E r \in RevisionsOf(u, l.src) : r.num = l.srcRev /\ r.seq = l.seq
      BY <1>4, <3>1 DEF RevisionsOf
    <3>5. QED BY <3>1, <3>2, <3>3, <3>4
  <2>2. CASE \E k \in w.links : l = L(k)
    <3>1. PICK k \in w.links : l = L(k)
      BY <2>2
    <3>2. l.dst = k.dst /\ k.dst \in LinkTargets(w, "supersedes")
          /\ l.src = m /\ l.srcRev = NextRevision(d, m) /\ l.seq = seq
      BY <3>1 DEF LinkTargets
    <3>3. u.heads[l.dst].state \notin Live
      BY <1>3, <1>7, <3>2 DEF IsLive
    <3>4. \A r \in RevisionsOf(u, l.dst) : r.seq < l.seq
      BY <1>4, <1>7, <3>2 DEF RevisionsOf
    <3>5. W \in RevisionsOf(u, l.src) /\ W.num = l.srcRev /\ W.seq = l.seq
      BY <1>4, <1>5, <3>2 DEF RevisionsOf
    <3>6. QED BY <3>3, <3>4, <3>5
  <2>3. QED BY <1>1, <2>1, <2>2
<1>12. RevisionChainOf(u)
  BY UpsertChain DEF Grounded, u
<1>13. QED BY <1>9, <1>10, <1>11, <1>12 DEF Grounded, u

LEMMA RetractGrounded ==
    ASSUME NEW d \in Store, NEW m \in Memory, Exists(d, m), NEW seq \in 1..MaxSeq,
           Grounded(d), seq \in DOMAIN d.events, d.events[seq].scope = d.heads[m].scope
    PROVE  Grounded(RetractHead(d, m, seq))
<1> DEFINE t == RetractHead(d, m, seq)
<1>1. /\ t.events = d.events /\ t.revisions = d.revisions /\ t.links = d.links
      /\ t.touched = d.touched \cup {<<seq, m>>}
      /\ t.heads = [x \in Memory |-> IF x = m THEN RetractedRow(d, m, seq) ELSE d.heads[x]]
      /\ t \in Store
  BY RetractTables
<1> HIDE DEF t
<1>2. d.heads[m] \in HeadRow /\ d.heads \in [Memory -> HeadRow \cup {None}]
  BY DEF Exists, Store
<1>3. \A x \in Memory : Exists(d, x) =>
         /\ Exists(t, x) /\ t.heads[x].scope = d.heads[x].scope
         /\ d.heads[x].state \notin Live => t.heads[x].state \notin Live
  <2>1. /\ RetractedRow(d, m, seq) \in HeadRow
        /\ RetractedRow(d, m, seq).scope = d.heads[m].scope
        /\ RetractedRow(d, m, seq).state = "retracted"
    BY <1>2 DEF HeadRow, State, RetractedRow
  <2>2. RetractedRow(d, m, seq) # None
    BY <2>1, NoneAssumption
  <2>3. QED BY <1>1, <2>1, <2>2 DEF Exists, Live
<1>4. /\ \A r \in d.revisions : r.mem \in Memory
      /\ \A l \in d.links : l.src \in Memory /\ l.dst \in Memory
      /\ \A p \in d.touched : p[2] \in Memory
  BY DEF Store, RevisionRow, LinkRow
<1>5. ScopeClosedOf(t)
  <2>1. \A r \in t.revisions : Exists(t, r.mem) /\ \A e \in r.evidence :
          e \in DOMAIN t.events /\ t.events[e].scope = t.heads[r.mem].scope
    BY <1>1, <1>3, <1>4 DEF Grounded, ScopeClosedOf
  <2>2. \A l \in t.links : Exists(t, l.src) /\ Exists(t, l.dst)
                          /\ t.heads[l.src].scope = t.heads[l.dst].scope
    BY <1>1, <1>3, <1>4 DEF Grounded, ScopeClosedOf
  <2>3. \A p \in t.touched : Exists(t, p[2]) /\ p[1] \in DOMAIN t.events
                            /\ t.events[p[1]].scope = t.heads[p[2]].scope
    BY <1>1, <1>3, <1>4 DEF Grounded, ScopeClosedOf
  <2>4. QED BY <2>1, <2>2, <2>3 DEF ScopeClosedOf
<1>6. SupersessionGoesBackOf(t)
  BY <1>1, <1>3, <1>4
  DEF Grounded, ScopeClosedOf, SupersessionGoesBackOf, LinksWith, RevisionsOf
<1>7. RevisionChainOf(t)
  <2>1. RetractedRow(d, m, seq) # None /\ RetractedRow(d, m, seq).rev = d.heads[m].rev
    <3>1. /\ RetractedRow(d, m, seq) \in HeadRow
          /\ RetractedRow(d, m, seq).rev = d.heads[m].rev
      BY <1>2 DEF HeadRow, State, RetractedRow
    <3>2. QED BY <3>1, NoneAssumption
  <2>2. \A x \in Memory : /\ Exists(t, x) <=> Exists(d, x)
                          /\ Exists(d, x) => t.heads[x].rev = d.heads[x].rev
    BY <1>1, <2>1 DEF Exists
  <2>3. QED BY <1>1, <2>2, SameChain DEF Grounded
<1>8. QED BY <1>1, <1>5, <1>6, <1>7 DEF Grounded, t

LEMMA ReceiptGrounded ==
    ASSUME NEW d \in Store, NEW call \in Request, NEW seq \in 1..MaxSeq,
           NEW written \in SUBSET Memory, call.op = "retract" => call.id \in Memory,
           Grounded(d)
    PROVE  Grounded(PutReceipt(d, call, seq, written))
<1> DEFINE p == PutReceipt(d, call, seq, written)
<1>1. /\ p.events = d.events /\ p.heads = d.heads /\ p.revisions = d.revisions
      /\ p.links = d.links /\ p.touched = d.touched
  BY ReceiptTables
<1> HIDE DEF p
<1>2. ScopeClosedOf(p)
  BY <1>1 DEF Grounded, ScopeClosedOf, Exists
<1>3. SupersessionGoesBackOf(p)
  BY <1>1 DEF Grounded, SupersessionGoesBackOf, LinksWith, RevisionsOf
<1>4. RevisionChainOf(p)
  BY <1>1, SameChain DEF Grounded, Exists
<1>5. QED BY <1>1, <1>2, <1>3, <1>4 DEF Grounded, p

(***************************************************************************)
(* The log: a keyed event has a receipt, and none was executed twice.      *)
(***************************************************************************)
LogInv(d) ==
    /\ \A i \in DOMAIN d.events :
          d.events[i].idem # None => \E r \in d.receipts : r.slot = Slot(d.events[i])
    /\ AtMostOnceOf(d)

\* What is terminal in one store stays as it is, or is retracted, in another.
KeepsTerminal(d, e) ==
    \A m \in Memory : Exists(d, m) /\ ~IsLive(d, m) =>
       /\ e.heads[m].state \in {d.heads[m].state, "retracted"}
       /\ e.heads[m].rev = d.heads[m].rev
       /\ RevisionsOf(e, m) = RevisionsOf(d, m)
\* It stays exactly as it is.
LeavesTerminal(d, e) ==
    \A m \in Memory : Exists(d, m) /\ ~IsLive(d, m) =>
       e.heads[m] = d.heads[m] /\ RevisionsOf(e, m) = RevisionsOf(d, m)

\* The event, the memory and the links of an accepted write.
LEMMA WriteFacts ==
    ASSUME NEW d \in Store, Grounded(d), Len(d.events) < MaxSeq,
           NEW call \in Request, call.kind \in MemoryKind,
           NEW m \in Memory, Accepts(d, call, m)
    PROVE  LET seq == Len(d.events) + 1
               u == Upsert(AppendEvent(d, call), call, m, seq) IN
           /\ seq \in 1..MaxSeq
           /\ u \in Store /\ Grounded(u)
           /\ u.events = Append(d.events, call) /\ u.receipts = d.receipts
           /\ LeavesTerminal(d, u)
<1> DEFINE seq == Len(d.events) + 1
           a == AppendEvent(d, call)
           u == Upsert(a, call, m, seq)
<1>1. d.events \in Seq(Request) /\ MaxSeq \in Nat
  BY StoreAssumption DEF Store
<1>2. seq \in 1..MaxSeq
  BY <1>1
<1>3. /\ a \in Store /\ a.events = Append(d.events, call)
      /\ DOMAIN a.events = DOMAIN d.events \cup {seq}
      /\ a.events[seq] = call
      /\ \A i \in DOMAIN d.events : a.events[i] = d.events[i]
      /\ a.heads = d.heads /\ a.revisions = d.revisions /\ a.receipts = d.receipts
  BY AppendTables
<1>4. \A i \in DOMAIN d.events : i < seq
  BY <1>1
<1>5. Grounded(a)
  BY AppendGrounded
<1> HIDE DEF a, seq
<1>6. Accepts(a, call, m)
  BY <1>3 DEF Accepts, ValidEvidence, ValidLinks, Exists
<1>7. \A r \in a.revisions : r.seq < seq
  BY <1>3, <1>4 DEF Grounded
<1>8. u \in Store
  BY <1>2, <1>3, <1>6, UpsertTyped
<1>9. Grounded(u)
  BY <1>2, <1>3, <1>5, <1>6, <1>7, UpsertGrounded
<1>10. u.events = a.events /\ u.receipts = a.receipts
  BY Zenon DEF Upsert
<1>11. LeavesTerminal(d, u)
  <2>1. \A x \in Memory : Exists(a, x) /\ ~IsLive(a, x) => x # m /\ u.heads[x] = a.heads[x]
    BY <1>2, <1>3, <1>6, UpsertHeads
  <2>2. \A x \in Memory : x # m => RevisionsOf(u, x) = RevisionsOf(a, x)
    BY <1>2, <1>3, UpsertRevisions
  <2> HIDE DEF u
  <2>3. QED BY <1>3, <2>1, <2>2 DEF LeavesTerminal, Exists, IsLive, RevisionsOf
<1>12. QED BY <1>2, <1>3, <1>8, <1>9, <1>10, <1>11 DEF a, seq

\* The targets of a request are memories.
LEMMA TargetsAreMemories ==
    ASSUME NEW d, NEW w \in Request PROVE Targets(d, w) \subseteq Memory
BY DEF Targets, CanonicalHeads, CanonicalMatches, Request

\* Committing the writes of a call together with its receipt.
LEMMA CommitFacts ==
    ASSUME NEW d \in Store, LogInv(d), NEW e \in Store, Grounded(e),
           NEW call \in Request, call.op = "retract" => call.id \in Memory,
           Unseen(d, call), NEW seq \in 1..MaxSeq, NEW written \in SUBSET Memory,
           e.events = Append(d.events, call), e.receipts = d.receipts, KeepsTerminal(d, e)
    PROVE  LET p == PutReceipt(e, call, seq, written) IN
           p \in Store /\ Grounded(p) /\ LogInv(p) /\ KeepsTerminal(d, p)
<1> DEFINE p == PutReceipt(e, call, seq, written)
<1>1. /\ p \in Store
      /\ p.events = e.events /\ p.heads = e.heads /\ p.revisions = e.revisions
      /\ call.idem = None => p.receipts = e.receipts
      /\ call.idem # None => p.receipts = e.receipts \cup {ReceiptRow(call, seq, written)}
  BY ReceiptTables
<1>2. Grounded(p)
  BY ReceiptGrounded
<1> HIDE DEF p
<1>3. d.events \in Seq(Request)
  BY DEF Store
<1>4. /\ DOMAIN p.events = DOMAIN d.events \cup {Len(d.events) + 1}
      /\ p.events[Len(d.events) + 1] = call
      /\ \A i \in DOMAIN d.events : p.events[i] = d.events[i]
  BY <1>1, <1>3
<1>5. \A i \in DOMAIN d.events : d.events[i].idem # None => Slot(d.events[i]) # Slot(call)
  <2> SUFFICES ASSUME NEW i \in DOMAIN d.events, d.events[i].idem # None,
                      Slot(d.events[i]) = Slot(call)
      PROVE  FALSE
    OBVIOUS
  <2>1. call.idem # None
    BY DEF Slot
  <2>2. PICK r \in d.receipts : r.slot = Slot(d.events[i])
    BY DEF LogInv
  <2>3. r \in Receipts(d, call)
    BY <2>1, <2>2 DEF Receipts
  <2>4. QED BY <2>3 DEF Unseen
<1>6. \A i \in DOMAIN p.events :
         p.events[i].idem # None => \E r \in p.receipts : r.slot = Slot(p.events[i])
  <2> SUFFICES ASSUME NEW i \in DOMAIN p.events, p.events[i].idem # None
      PROVE  \E r \in p.receipts : r.slot = Slot(p.events[i])
    OBVIOUS
  <2>1. CASE i \in DOMAIN d.events
    BY <1>1, <1>4, <2>1 DEF LogInv
  <2>2. CASE i = Len(d.events) + 1
    <3>1. p.events[i] = call /\ ReceiptRow(call, seq, written) \in p.receipts
      BY <1>1, <1>4, <2>2
    <3>2. ReceiptRow(call, seq, written).slot = Slot(call)
      BY DEF ReceiptRow
    <3>3. QED BY <3>1, <3>2
  <2>3. QED BY <1>4, <2>1, <2>2
<1>7. AtMostOnceOf(p)
  <2> SUFFICES ASSUME NEW i \in DOMAIN p.events, NEW j \in DOMAIN p.events,
                      p.events[i].idem # None, Slot(p.events[i]) = Slot(p.events[j])
      PROVE  i = j
    BY DEF AtMostOnceOf
  <2>1. p.events[j].idem # None
    BY DEF Slot
  <2>2. CASE i \in DOMAIN d.events /\ j \in DOMAIN d.events
    BY <1>4, <2>2 DEF LogInv, AtMostOnceOf
  <2>3. CASE i \in DOMAIN d.events /\ j = Len(d.events) + 1
    BY <1>4, <1>5, <2>3
  <2>4. CASE i = Len(d.events) + 1 /\ j \in DOMAIN d.events
    BY <1>4, <1>5, <2>1, <2>4
  <2>5. QED BY <1>4, <2>2, <2>3, <2>4
<1>8. KeepsTerminal(d, p)
  BY <1>1 DEF KeepsTerminal, RevisionsOf
<1>9. QED BY <1>1, <1>2, <1>6, <1>7, <1>8 DEF LogInv, p

(***************************************************************************)
(* The inductive invariant.  The properties of the committed store alone   *)
(* are not inductive: a commit installs the private copy of the open       *)
(* checkpoint, so the invariant says of that copy what it says of the      *)
(* store, and that it is the store with the checkpoint's event appended.   *)
(***************************************************************************)
TxnInv ==
    /\ Grounded(txn.work)
    /\ LeavesTerminal(db, txn.work)
    /\ txn.seq = Len(db.events) + 1
    /\ txn.work.events = Append(db.events, txn.call)
    /\ txn.work.receipts = db.receipts
    /\ Unseen(db, txn.call)
    /\ txn.call.op = "checkpoint"

IInv == TypeOK /\ Grounded(db) /\ LogInv(db) /\ (txn # None => TxnInv)

\* The request types of the operations.
LEMMA CallOps ==
    /\ \A c \in ObserveCalls \cup RememberCalls : c.op # "retract"
    /\ \A c \in CheckpointCalls : c.op = "checkpoint"
BY DEF ObserveCalls, RememberCalls, CheckpointCalls

LEMMA InitIInv == Init => IInv
<1> SUFFICES ASSUME Init PROVE IInv
  OBVIOUS
<1>1. db = EmptyStore /\ txn = None
  BY DEF Init
<1>2. db \in Store /\ Grounded(db)
  BY <1>1, EmptyGrounded
<1>3. LogInv(db)
  BY <1>1 DEF EmptyStore, LogInv, AtMostOnceOf
<1>4. QED BY <1>1, <1>2, <1>3 DEF IInv, TypeOK

LEMMA ObserveStep ==
    ASSUME IInv, NEW call \in ObserveCalls, Observe(call)
    PROVE  IInv' /\ KeepsTerminal(db, db')
<1> DEFINE seq == Len(db.events) + 1
           a == AppendEvent(db, call)
<1>1. /\ db \in Store /\ Grounded(db) /\ LogInv(db) /\ Unseen(db, call)
      /\ db' = PutReceipt(a, call, seq, {}) /\ txn = None /\ txn' = None
      /\ Len(db.events) < MaxSeq
  BY DEF IInv, TypeOK, Observe, MayExecute
<1>2. call \in Request /\ call.op # "retract"
  BY CallsAreRequests, CallOps
<1>3. seq \in 1..MaxSeq
  BY <1>1, StoreAssumption DEF Store
<1>4. /\ a \in Store /\ a.events = Append(db.events, call) /\ a.heads = db.heads
      /\ a.revisions = db.revisions /\ a.receipts = db.receipts
  BY <1>1, <1>2, AppendTables
<1>5. Grounded(a)
  BY <1>1, <1>2, AppendGrounded
<1>6. KeepsTerminal(db, a)
  BY <1>4 DEF KeepsTerminal, RevisionsOf
<1> HIDE DEF a, seq
<1>7. db' \in Store /\ Grounded(db') /\ LogInv(db') /\ KeepsTerminal(db, db')
  BY <1>1, <1>2, <1>3, <1>4, <1>5, <1>6, CommitFacts
<1>8. QED BY <1>1, <1>7 DEF IInv, TypeOK

LEMMA LeavingIsKeeping ==
    ASSUME NEW d, NEW e, LeavesTerminal(d, e) PROVE KeepsTerminal(d, e)
BY DEF LeavesTerminal, KeepsTerminal

LEMMA RememberStep ==
    ASSUME IInv, NEW call \in RememberCalls, Remember(call)
    PROVE  IInv' /\ KeepsTerminal(db, db')
<1> DEFINE seq == Len(db.events) + 1
           U(m) == Upsert(AppendEvent(db, call), call, m, seq)
<1>1. /\ db \in Store /\ Grounded(db) /\ LogInv(db) /\ Unseen(db, call)
      /\ txn = None /\ txn' = None /\ Len(db.events) < MaxSeq
  BY DEF IInv, TypeOK, Remember, MayExecute
<1>2. call \in Request /\ call.op # "retract" /\ call.kind \in MemoryKind
  BY CallsAreRequests, CallOps
<1>3. PICK m \in Targets(db, call) :
         Accepts(db, call, m) /\ db' = PutReceipt(U(m), call, seq, {m})
  BY DEF Remember
<1>4. m \in Memory
  BY <1>2, <1>3, TargetsAreMemories
<1>5. /\ seq \in 1..MaxSeq
      /\ U(m) \in Store /\ Grounded(U(m))
      /\ U(m).events = Append(db.events, call) /\ U(m).receipts = db.receipts
      /\ LeavesTerminal(db, U(m))
  BY <1>1, <1>2, <1>3, <1>4, WriteFacts
<1> HIDE DEF U, seq
<1>6. KeepsTerminal(db, U(m)) /\ {m} \in SUBSET Memory
  BY <1>4, <1>5, LeavingIsKeeping
<1>7. db' \in Store /\ Grounded(db') /\ LogInv(db') /\ KeepsTerminal(db, db')
  BY <1>1, <1>2, <1>3, <1>5, <1>6, CommitFacts
<1>8. QED BY <1>1, <1>7 DEF IInv, TypeOK

LEMMA RetractStep ==
    ASSUME IInv, NEW call \in RetractCalls, Retract(call)
    PROVE  IInv' /\ KeepsTerminal(db, db')
<1> DEFINE seq == Len(db.events) + 1
           a == AppendEvent(db, call)
           t == RetractHead(a, call.id, seq)
<1>1. /\ db \in Store /\ Grounded(db) /\ LogInv(db) /\ Unseen(db, call)
      /\ txn = None /\ txn' = None /\ Len(db.events) < MaxSeq
      /\ Exists(db, call.id) /\ call.scope = db.heads[call.id].scope
      /\ db' = PutReceipt(t, call, seq, {call.id})
  BY DEF IInv, TypeOK, Retract, MayExecute
<1>2. call \in Request /\ call.id \in Memory
  BY CallsAreRequests
<1>3. seq \in 1..MaxSeq
  BY <1>1, StoreAssumption DEF Store
<1>4. /\ a \in Store /\ a.events = Append(db.events, call) /\ a.heads = db.heads
      /\ a.revisions = db.revisions /\ a.receipts = db.receipts
      /\ DOMAIN a.events = DOMAIN db.events \cup {seq} /\ a.events[seq] = call
  BY <1>1, <1>2, AppendTables
<1>5. Grounded(a)
  BY <1>1, <1>2, AppendGrounded
<1>6. Exists(a, call.id) /\ seq \in DOMAIN a.events
      /\ a.events[seq].scope = a.heads[call.id].scope
  BY <1>1, <1>4 DEF Exists
<1> HIDE DEF a, seq
<1>7. /\ t \in Store /\ t.events = a.events /\ t.revisions = a.revisions
      /\ t.receipts = a.receipts
      /\ t.heads = [x \in Memory |-> IF x = call.id THEN RetractedRow(a, call.id, seq)
                                     ELSE a.heads[x]]
  BY <1>2, <1>3, <1>4, <1>6, RetractTables
<1>8. Grounded(t)
  BY <1>2, <1>3, <1>4, <1>5, <1>6, RetractGrounded
<1>9. KeepsTerminal(db, t)
  <2>1. a.heads[call.id] \in HeadRow
    BY <1>2, <1>4, <1>6 DEF Store, Exists
  <2>2. /\ RetractedRow(a, call.id, seq).state = "retracted"
        /\ RetractedRow(a, call.id, seq).rev = a.heads[call.id].rev
    BY <2>1 DEF RetractedRow, HeadRow
  <2> HIDE DEF t
  <2>3. QED BY <1>4, <1>7, <2>2 DEF KeepsTerminal, RevisionsOf
<1>10. {call.id} \in SUBSET Memory
  BY <1>2
<1> HIDE DEF t
<1>11. db' \in Store /\ Grounded(db') /\ LogInv(db') /\ KeepsTerminal(db, db')
  BY <1>1, <1>2, <1>3, <1>4, <1>7, <1>8, <1>9, <1>10, CommitFacts
<1>12. QED BY <1>1, <1>11 DEF IInv, TypeOK

LEMMA BeginCheckpointStep ==
    ASSUME IInv, NEW call \in CheckpointCalls, BeginCheckpoint(call)
    PROVE  IInv' /\ KeepsTerminal(db, db')
<1> DEFINE seq == Len(db.events) + 1
           U(m) == Upsert(AppendEvent(db, call), call, m, seq)
<1>1. /\ db \in Store /\ Grounded(db) /\ LogInv(db) /\ Unseen(db, call)
      /\ db' = db /\ Len(db.events) < MaxSeq
  BY DEF IInv, TypeOK, BeginCheckpoint, MayExecute
<1>2. /\ call \in Request /\ call.op = "checkpoint" /\ call.kind \in MemoryKind
      /\ call.children \in Seq(Child)
  BY CallsAreRequests, CallOps DEF Request
<1>3. PICK m \in Targets(db, call) :
         /\ Accepts(db, call, m)
         /\ txn' = [call |-> call, seq |-> seq, episode |-> m, todo |-> call.children,
                    written |-> {m}, work |-> U(m)]
  BY DEF BeginCheckpoint
<1>4. m \in Memory
  BY <1>2, <1>3, TargetsAreMemories
<1>5. /\ seq \in 1..MaxSeq
      /\ U(m) \in Store /\ Grounded(U(m))
      /\ U(m).events = Append(db.events, call) /\ U(m).receipts = db.receipts
      /\ LeavesTerminal(db, U(m))
  BY <1>1, <1>2, <1>3, <1>4, WriteFacts
<1>6. seq = Len(db.events) + 1
  OBVIOUS
<1> HIDE DEF U, seq
<1>7. /\ txn'.call = call /\ txn'.seq = seq /\ txn'.work = U(m)
      /\ txn' \in Transaction
  BY <1>2, <1>3, <1>4, <1>5 DEF Transaction
<1>8. TxnInv'
  BY <1>1, <1>2, <1>5, <1>6, <1>7 DEF TxnInv
<1>9. KeepsTerminal(db, db')
  BY <1>1 DEF KeepsTerminal
<1>10. QED BY <1>1, <1>7, <1>8, <1>9 DEF IInv, TypeOK

\* A child is written as an accepted request of the checkpoint's scope.
LEMMA ChildIsRequest ==
    ASSUME NEW call \in Request, NEW child \in Child, NEW episode \in Memory
    PROVE  LET w == ChildWrite(call, child, episode) IN
           /\ w \in Request /\ w.kind \in MemoryKind /\ w.scope = call.scope
           /\ LinkTargets(w, "supersedes") = {}
<1> DEFINE l == [dst |-> episode, rel |-> IF child.kind = "outcome" THEN "attempted_for"
                                          ELSE "belongs_to"]
           w == ChildWrite(call, child, episode)
<1>1. child.kind \in MemoryKind /\ child.key \in Key \cup {None}
  BY DEF Child, MemoryKind
<1>2. l \in Link /\ l.rel # "supersedes"
  BY DEF Link
<1>3. w = [call EXCEPT !.kind = child.kind, !.key = child.key, !.idem = None, !.links = {l}]
  BY DEF ChildWrite
<1> HIDE DEF l, w
<1>4. w \in Request /\ w.kind = child.kind /\ w.scope = call.scope /\ w.links = {l}
  BY <1>1, <1>2, <1>3 DEF Request
<1>5. LinkTargets(w, "supersedes") = {}
  BY <1>2, <1>4 DEF LinkTargets
<1>6. QED BY <1>1, <1>4, <1>5 DEF w

LEMMA WriteChildStep ==
    ASSUME IInv, WriteChild
    PROVE  IInv' /\ KeepsTerminal(db, db')
<1> DEFINE W == ChildWrite(txn.call, Head(txn.todo), txn.episode)
           U(m) == Upsert(txn.work, W, m, txn.seq)
<1>1. /\ db \in Store /\ Grounded(db) /\ LogInv(db) /\ db' = db
      /\ txn \in Transaction /\ TxnInv /\ txn.todo # <<>>
  BY DEF IInv, TypeOK, WriteChild
<1>2. /\ txn.call \in Request /\ txn.work \in Store /\ txn.episode \in Memory
      /\ txn.todo \in Seq(Child) /\ txn.seq \in 1..MaxSeq /\ txn.written \in SUBSET Memory
  BY <1>1 DEF Transaction
<1>3. Head(txn.todo) \in Child /\ Tail(txn.todo) \in Seq(Child)
  BY <1>1, <1>2
<1>4. /\ W \in Request /\ W.kind \in MemoryKind /\ W.scope = txn.call.scope
      /\ LinkTargets(W, "supersedes") = {}
  BY <1>2, <1>3, ChildIsRequest
<1>5. PICK m \in Targets(txn.work, W) :
         /\ Accepts(txn.work, W, m)
         /\ txn' = [txn EXCEPT !.work = U(m), !.todo = Tail(txn.todo),
                               !.written = txn.written \cup {m}]
  BY DEF WriteChild
<1> HIDE DEF W
<1>6. m \in Memory
  BY <1>4, <1>5, TargetsAreMemories
<1>7. U(m) \in Store
  BY <1>2, <1>4, <1>5, <1>6, UpsertTyped
<1>8. txn.seq \in DOMAIN txn.work.events /\ txn.work.events[txn.seq] = txn.call
  <2>1. db.events \in Seq(Request)
    BY <1>1 DEF Store
  <2>2. txn.seq = Len(db.events) + 1 /\ txn.work.events = Append(db.events, txn.call)
    BY <1>1 DEF TxnInv
  <2>3. QED BY <1>2, <2>1, <2>2
<1>9. Grounded(txn.work)
  BY <1>1 DEF TxnInv
<1>10. Grounded(U(m))
  BY <1>2, <1>4, <1>5, <1>6, <1>8, <1>9, UpsertGrounded
<1>11. U(m).events = txn.work.events /\ U(m).receipts = txn.work.receipts
  BY Zenon DEF Upsert
<1>12. LeavesTerminal(db, U(m))
  <2>1. \A x \in Memory : Exists(txn.work, x) /\ ~IsLive(txn.work, x) =>
           x # m /\ U(m).heads[x] = txn.work.heads[x]
    BY <1>2, <1>4, <1>5, <1>6, UpsertHeads
  <2>2. \A x \in Memory : x # m => RevisionsOf(U(m), x) = RevisionsOf(txn.work, x)
    BY <1>2, <1>4, <1>6, UpsertRevisions
  <2>3. LeavesTerminal(db, txn.work)
    BY <1>1 DEF TxnInv
  <2> HIDE DEF U
  <2>4. QED BY <2>1, <2>2, <2>3 DEF LeavesTerminal, Exists, IsLive
<1> HIDE DEF U
<1>13. /\ txn' \in Transaction /\ txn'.work = U(m) /\ txn'.call = txn.call
       /\ txn'.seq = txn.seq
  BY <1>1, <1>2, <1>3, <1>5, <1>6, <1>7 DEF Transaction
<1>14. TxnInv'
  BY <1>1, <1>10, <1>11, <1>12, <1>13 DEF TxnInv
<1>15. KeepsTerminal(db, db')
  BY <1>1 DEF KeepsTerminal
<1>16. QED BY <1>1, <1>13, <1>14, <1>15 DEF IInv, TypeOK

LEMMA CommitStep ==
    ASSUME IInv, CommitCheckpoint
    PROVE  IInv' /\ KeepsTerminal(db, db')
<1>1. /\ db \in Store /\ LogInv(db) /\ txn \in Transaction /\ TxnInv /\ txn' = None
      /\ db' = PutReceipt(txn.work, txn.call, txn.seq, txn.written)
  BY DEF IInv, TypeOK, CommitCheckpoint
<1>2. /\ txn.call \in Request /\ txn.work \in Store
      /\ txn.seq \in 1..MaxSeq /\ txn.written \in SUBSET Memory
  BY <1>1 DEF Transaction
<1>3. /\ Grounded(txn.work) /\ Unseen(db, txn.call) /\ txn.call.op # "retract"
      /\ txn.work.events = Append(db.events, txn.call)
      /\ txn.work.receipts = db.receipts /\ KeepsTerminal(db, txn.work)
  BY <1>1, LeavingIsKeeping DEF TxnInv
<1>4. db' \in Store /\ Grounded(db') /\ LogInv(db') /\ KeepsTerminal(db, db')
  BY <1>1, <1>2, <1>3, CommitFacts
<1>5. QED BY <1>1, <1>4 DEF IInv, TypeOK

\* Steps that leave the store alone: a rollback, a deduplicated retry.
LEMMA IdleStep ==
    ASSUME IInv, db' = db, txn' = txn \/ txn' = None
    PROVE  IInv' /\ KeepsTerminal(db, db')
BY DEF IInv, TypeOK, TxnInv, KeepsTerminal

\* A statement group of any operation, whoever asks for it, or none.
StoreStep ==
    \/ \E call \in ObserveCalls : Observe(call)
    \/ \E call \in RememberCalls : Remember(call)
    \/ \E call \in RetractCalls : Retract(call)
    \/ \E call \in CheckpointCalls : BeginCheckpoint(call)
    \/ WriteChild
    \/ CommitCheckpoint
    \/ Rollback
    \/ UNCHANGED vars

LEMMA NextIsStoreStep == ASSUME [Next]_vars PROVE StoreStep
BY DEF Next, StoreStep, Deduplicate

LEMMA NextStep ==
    ASSUME IInv, StoreStep
    PROVE  IInv' /\ KeepsTerminal(db, db')
<1>1. CASE \E call \in ObserveCalls : Observe(call)
  BY <1>1, ObserveStep
<1>2. CASE \E call \in RememberCalls : Remember(call)
  BY <1>2, RememberStep
<1>3. CASE \E call \in RetractCalls : Retract(call)
  BY <1>3, RetractStep
<1>4. CASE \E call \in CheckpointCalls : BeginCheckpoint(call)
  BY <1>4, BeginCheckpointStep
<1>5. CASE WriteChild
  BY <1>5, WriteChildStep
<1>6. CASE CommitCheckpoint
  BY <1>6, CommitStep
<1>7. CASE Rollback
  BY <1>7, IdleStep DEF Rollback
<1>8. CASE UNCHANGED vars
  BY <1>8, IdleStep DEF vars
<1>9. QED BY <1>1, <1>2, <1>3, <1>4, <1>5, <1>6, <1>7, <1>8 DEF StoreStep

(***************************************************************************)
(* The theorems                                                            *)
(***************************************************************************)

\* Every reachable store and open checkpoint satisfies the inductive invariant.
THEOREM Inductive == Spec => []IInv
<1>1. Init => IInv
  BY InitIInv
<1>2. IInv /\ [Next]_vars => IInv'
  BY NextIsStoreStep, NextStep
<1>3. QED BY <1>1, <1>2, PTL DEF Spec

\* Rows keep the types of the schema: above all, a revision number never
\* leaves its width, since a write that would is refused.
THEOREM TypeCorrect == Spec => []TypeOK
<1>1. IInv => TypeOK
  BY DEF IInv
<1>2. QED BY <1>1, Inductive, PTL

\* No revision cites an event of another durable scope, no link crosses one
\* and no event is mapped to a memory of another, whatever identifiers and
\* evidence clients of different scopes offer (validate_evidence,
\* validate_links, the identity check of upsert_memory).
THEOREM ScopesStayClosed == Spec => []ScopeClosed
<1>1. IInv => ScopeClosed
  BY DEF IInv, Grounded, ScopeClosed
<1>2. QED BY <1>1, Inductive, PTL

\* What was superseded stays so, and no memory replaces, directly or through
\* others, one that is newer (apply_link_lifecycle, upsert_memory).
THEOREM SupersessionIsOrdered == Spec => []SupersessionGoesBack
<1>1. IInv => SupersessionGoesBack
  BY DEF IInv, Grounded, SupersessionGoesBack
<1>2. QED BY <1>1, Inductive, PTL

\* In every reachable store each head points to the last of revisions 1..n,
\* with none missing, doubled or wrongly retired: what the integrity check of
\* schema.rs (inspect_application_invariants) would report never happens.
THEOREM RevisionsFormChains == Spec => []RevisionChain
<1>1. IInv => RevisionChain
  BY DEF IInv, Grounded, RevisionChain
<1>2. QED BY <1>1, Inductive, PTL

\* However calls with one idempotency key are repeated, from any process and
\* around any crash or rollback, the log holds one event of them
\* (get_idempotent and put_idempotent in the transaction that executes).
THEOREM KeyedCallsAtMostOnce == Spec => []AtMostOnce
<1>1. IInv => AtMostOnce
  BY DEF IInv, LogInv, AtMostOnce
<1>2. QED BY <1>1, Inductive, PTL

\* No step revives, revises or re-records a superseded or retracted memory,
\* the commit of a checkpoint with any number of children included
\* (the state check of upsert_memory, the guards of apply_link_lifecycle).
THEOREM TerminalStays == Spec => TerminalIsFinal
<1>1. IInv /\ [Next]_vars =>
        [\A m \in Memory : Exists(db, m) /\ ~IsLive(db, m) =>
            /\ db'.heads[m].state \in {db.heads[m].state, "retracted"}
            /\ db'.heads[m].rev = db.heads[m].rev
            /\ RevisionsOf(db', m) = RevisionsOf(db, m)]_vars
  BY NextIsStoreStep, NextStep DEF KeepsTerminal
<1>2. QED BY <1>1, Inductive, PTL DEF Spec, TerminalIsFinal

(***************************************************************************)
(* Heads and head revisions after an upsert                                *)
(***************************************************************************)

\* The chain has exactly one revision with the number of the head.
LEMMA HeadRevisionIs ==
    ASSUME NEW d \in Store, RevisionChainOf(d), NEW m \in Memory, Exists(d, m)
    PROVE  /\ HeadRevision(d, m) \in RevisionsOf(d, m)
           /\ HeadRevision(d, m).num = d.heads[m].rev
           /\ \A r \in RevisionsOf(d, m) : r.num = d.heads[m].rev => r = HeadRevision(d, m)
<1>1. d.heads[m].rev \in 1..d.heads[m].rev
  BY StoreAssumption DEF Exists, Store, HeadRow
<1>2. /\ {r.num : r \in RevisionsOf(d, m)} = 1..d.heads[m].rev
      /\ \A r, s \in RevisionsOf(d, m) : r.num = s.num => r = s
  BY DEF RevisionChainOf
<1>3. \E r \in RevisionsOf(d, m) : r.num = d.heads[m].rev
  BY <1>1, <1>2
<1>4. HeadRevision(d, m) \in RevisionsOf(d, m) /\ HeadRevision(d, m).num = d.heads[m].rev
  BY <1>3 DEF HeadRevision
<1>5. QED BY <1>2, <1>4

\* A link changes the state and the time of its target, and nothing else.
LEMMA UpsertOthers ==
    ASSUME NEW d \in Store, NEW w, NEW m \in Memory, NEW seq \in 1..MaxSeq,
           NEW x \in Memory, x # m
    PROVE  LET u == Upsert(d, w, m, seq) IN
           /\ Exists(u, x) <=> Exists(d, x)
           /\ Exists(d, x) =>
                 /\ u.heads[x].scope = d.heads[x].scope
                 /\ u.heads[x].kind = d.heads[x].kind
                 /\ u.heads[x].key = d.heads[x].key
                 /\ u.heads[x].rev = d.heads[x].rev
                 /\ u.heads[x].state = "retracted" <=> d.heads[x].state = "retracted"
           /\ \/ u.heads[x] = d.heads[x]
              \/ u.heads[x].updated = seq /\ \E l \in w.links : l.dst = x
           /\ IsLive(u, x) =>
                 /\ IsLive(d, x)
                 /\ u.heads[x].state = "contested" <=>
                       \/ d.heads[x].state = "contested"
                       \/ x \in LinkTargets(w, "contests")
<1> DEFINE u == Upsert(d, w, m, seq)
           h == d.heads[x]
           S == [h EXCEPT !.state = "superseded", !.updated = seq]
           C == [h EXCEPT !.state = "contested", !.updated = seq]
<1>1. u.heads = [y \in Memory |-> IF y = m THEN WrittenHead(d, w, m, seq)
                                  ELSE Linked(d.heads[y], y, w, seq)]
  BY Zenon DEF Upsert
<1>2. u.heads[x] = Linked(h, x, w, seq)
  BY <1>1
<1>3. h \in HeadRow \cup {None} /\ None \notin HeadRow
  BY NoneAssumption DEF Store
<1>4. CASE h = None
  BY <1>2, <1>4 DEF Linked, Exists, IsLive
<1>5. CASE h # None
  <2>1. h \in HeadRow
    BY <1>3, <1>5
  <2>2. /\ S \in HeadRow /\ S.scope = h.scope /\ S.kind = h.kind /\ S.key = h.key
        /\ S.rev = h.rev /\ S.updated = seq /\ S.state = "superseded"
    BY <2>1 DEF HeadRow, State, Live
  <2>3. /\ C \in HeadRow /\ C.scope = h.scope /\ C.kind = h.kind /\ C.key = h.key
        /\ C.rev = h.rev /\ C.updated = seq /\ C.state = "contested"
    BY <2>1 DEF HeadRow, State, Live
  <2>4. \A rel : x \in LinkTargets(w, rel) => \E l \in w.links : l.dst = x
    BY DEF LinkTargets
  <2> HIDE DEF S, C
  <2>5. CASE x \in LinkTargets(w, "supersedes") /\ h.state \in Live
    <3>1. u.heads[x] = S
      BY <1>2, <1>5, <2>5 DEF Linked, S
    <3>2. QED BY <1>3, <1>5, <2>2, <2>4, <2>5, <3>1 DEF Exists, IsLive, Live
  <2>6. CASE /\ ~(x \in LinkTargets(w, "supersedes") /\ h.state \in Live)
             /\ x \in LinkTargets(w, "contests") /\ h.state = "active"
    <3>1. u.heads[x] = C
      BY <1>2, <1>5, <2>6 DEF Linked, C
    <3>2. QED BY <1>3, <1>5, <2>3, <2>4, <2>6, <3>1 DEF Exists, IsLive, Live
  <2>7. CASE /\ ~(x \in LinkTargets(w, "supersedes") /\ h.state \in Live)
             /\ ~(x \in LinkTargets(w, "contests") /\ h.state = "active")
    <3>1. u.heads[x] = h
      BY <1>2, <1>5, <2>7 DEF Linked
    <3>2. QED BY <1>5, <2>7, <3>1 DEF Exists, IsLive, Live
  <2>8. QED BY <2>5, <2>6, <2>7
<1>6. QED BY <1>4, <1>5

(***************************************************************************)
(* What explains a store: links are made by a revision, a live head is     *)
(* contested while a contest is open, the index covers what is known and   *)
(* changes have events.  Each part is kept by an upsert on its own.        *)
(***************************************************************************)
Anchored(d) ==
    \A l \in d.links :
       \E r \in RevisionsOf(d, l.src) : r.num = l.srcRev /\ r.seq = l.seq

Explained(d) ==
    /\ Anchored(d)
    /\ ContestedWhileOpenOf(d)
    /\ IndexCoversKnowledgeOf(d)
    /\ EveryChangeHasEventOf(d)

LEMMA UpsertIndexed ==
    ASSUME NEW d \in Store, NEW w \in Request, w.kind \in MemoryKind, NEW m \in Memory,
           NEW seq \in 1..MaxSeq, Accepts(d, w, m), IndexCoversKnowledgeOf(d)
    PROVE  IndexCoversKnowledgeOf(Upsert(d, w, m, seq))
<1> DEFINE u == Upsert(d, w, m, seq)
<1>1. /\ u.heads = [y \in Memory |-> IF y = m THEN WrittenHead(d, w, m, seq)
                                     ELSE Linked(d.heads[y], y, w, seq)]
      /\ u.index = [d.index EXCEPT ![m] = NextRevision(d, m)]
  BY Zenon DEF Upsert
<1>2. d.index \in [Memory -> 0..MaxRevision]
  BY DEF Store
<1>3. u.heads[m] = WrittenHead(d, w, m, seq) /\ u.index[m] = NextRevision(d, m)
  BY <1>1, <1>2
<1>4. /\ u.heads[m].rev = NextRevision(d, m)
      /\ u.heads[m].state # "retracted"
  BY <1>3 DEF WrittenHead, WrittenState
<1>5. ASSUME NEW x \in Memory
      PROVE  u.index[x] = IF Exists(u, x) /\ u.heads[x].state # "retracted"
                          THEN u.heads[x].rev ELSE 0
  <2>1. CASE x = m
    <3>1. Exists(u, m)
      BY UpsertHeads
    <3>2. QED BY <1>3, <1>4, <2>1, <3>1
  <2>2. CASE x # m
    <3>1. u.index[x] = d.index[x]
      BY <1>1, <1>2, <2>2
    <3>2. /\ Exists(u, x) <=> Exists(d, x)
          /\ Exists(d, x) =>
                /\ u.heads[x].rev = d.heads[x].rev
                /\ u.heads[x].state = "retracted" <=> d.heads[x].state = "retracted"
      BY <2>2, UpsertOthers
    <3>3. QED BY <3>1, <3>2 DEF IndexCoversKnowledgeOf
  <2>3. QED BY <2>1, <2>2
<1>6. QED BY <1>5 DEF IndexCoversKnowledgeOf

LEMMA UpsertAnchored ==
    ASSUME NEW d \in Store, NEW w \in Request, NEW m \in Memory, NEW seq \in 1..MaxSeq,
           Anchored(d)
    PROVE  Anchored(Upsert(d, w, m, seq))
<1> DEFINE u == Upsert(d, w, m, seq)
           W == WrittenRevision(d, w, m, seq)
           L(l) == [src |-> m, srcRev |-> NextRevision(d, m), dst |-> l.dst,
                    rel |-> l.rel, seq |-> seq]
<1>1. u.links = d.links \cup {L(l) : l \in w.links}
  BY Zenon DEF Upsert
<1>2. /\ W \in u.revisions
      /\ \A q \in d.revisions :
            \E r \in u.revisions : q.mem = r.mem /\ q.num = r.num /\ q.seq = r.seq
  BY UpsertRevisions
<1>3. W.mem = m /\ W.num = NextRevision(d, m) /\ W.seq = seq
  BY DEF WrittenRevision
<1> HIDE DEF W
<1>4. ASSUME NEW l \in u.links
      PROVE  \E r \in RevisionsOf(u, l.src) : r.num = l.srcRev /\ r.seq = l.seq
  <2>1. CASE l \in d.links
    BY <1>2, <2>1 DEF Anchored, RevisionsOf
  <2>2. CASE \E k \in w.links : l = L(k)
    BY <1>2, <1>3, <2>2 DEF RevisionsOf
  <2>3. QED BY <1>1, <1>4, <2>1, <2>2
<1>5. QED BY <1>4 DEF Anchored

\* The event of an upsert is the last one of the log.
LEMMA UpsertHasEvent ==
    ASSUME NEW d \in Store, NEW w \in Request, w.kind \in MemoryKind, NEW m \in Memory,
           NEW seq \in 1..MaxSeq, Accepts(d, w, m), ScopeClosedOf(d),
           seq = Len(d.events), EveryChangeHasEventOf(d)
    PROVE  EveryChangeHasEventOf(Upsert(d, w, m, seq))
<1> DEFINE u == Upsert(d, w, m, seq)
           W == WrittenRevision(d, w, m, seq)
           L(l) == [src |-> m, srcRev |-> NextRevision(d, m), dst |-> l.dst,
                    rel |-> l.rel, seq |-> seq]
<1>1. /\ u.heads = [y \in Memory |-> IF y = m THEN WrittenHead(d, w, m, seq)
                                     ELSE Linked(d.heads[y], y, w, seq)]
      /\ u.links = d.links \cup {L(l) : l \in w.links}
      /\ u.touched = d.touched \cup {<<seq, x>> : x \in Touched(w, m)}
  BY Zenon DEF Upsert
<1>2. /\ \A r \in u.revisions :
            \/ r = W
            \/ \E q \in d.revisions : /\ q.mem = r.mem /\ q.num = r.num
                                      /\ q.seq = r.seq /\ q.evidence = r.evidence
  BY UpsertRevisions
<1>3. W.mem = m /\ W.seq = seq /\ W.evidence = w.evidence \cup {seq}
  BY DEF WrittenRevision
<1>4. u.heads[m].updated = seq
  BY <1>1 DEF WrittenHead
<1>5. \A x \in Touched(w, m) : <<seq, x>> \in u.touched
  BY <1>1
<1>6. \A t \in u.touched : t[1] \in Nat /\ t[1] <= seq
  <2>1. d.events \in Seq(Request)
    BY DEF Store
  <2>2. \A t \in d.touched : t[1] \in 1..Len(d.events)
    BY <2>1 DEF ScopeClosedOf
  <2>3. QED BY <1>1, <2>2
<1> HIDE DEF W
<1>7. ASSUME NEW r \in u.revisions
      PROVE  r.seq \in r.evidence /\ <<r.seq, r.mem>> \in u.touched
  <2>1. CASE r = W
    BY <1>3, <1>5, <2>1 DEF Touched
  <2>2. CASE \E q \in d.revisions : /\ q.mem = r.mem /\ q.num = r.num
                                    /\ q.seq = r.seq /\ q.evidence = r.evidence
    <3>1. PICK q \in d.revisions : /\ q.mem = r.mem /\ q.num = r.num
                                   /\ q.seq = r.seq /\ q.evidence = r.evidence
      BY <2>2
    <3>2. q.seq \in q.evidence /\ <<q.seq, q.mem>> \in d.touched
      BY DEF EveryChangeHasEventOf
    <3>3. QED BY <1>1, <3>1, <3>2
  <2>3. QED BY <1>2, <2>1, <2>2
<1>8. ASSUME NEW x \in Memory, Exists(u, x), x # m
      PROVE  /\ <<u.heads[x].updated, x>> \in u.touched
             /\ \A t \in u.touched : t[2] = x /\ t[1] > u.heads[x].updated =>
                   \E l \in u.links : l.dst = x /\ l.seq = t[1]
  <2>1. Exists(d, x) /\ \/ u.heads[x] = d.heads[x]
                        \/ u.heads[x].updated = seq /\ \E l \in w.links : l.dst = x
    BY <1>8, UpsertOthers
  <2>2. \A l \in w.links : L(l) \in u.links /\ L(l).dst = l.dst /\ L(l).seq = seq
    BY <1>1
  <2>3. CASE u.heads[x] = d.heads[x]
    <3>1. <<u.heads[x].updated, x>> \in u.touched
      BY <1>1, <2>1, <2>3 DEF EveryChangeHasEventOf
    <3>2. ASSUME NEW t \in u.touched, t[2] = x, t[1] > u.heads[x].updated
          PROVE  \E l \in u.links : l.dst = x /\ l.seq = t[1]
      <4>1. CASE t \in d.touched
        <5>1. \E l \in d.links : l.dst = x /\ l.seq = t[1]
          BY <2>1, <2>3, <3>2, <4>1 DEF EveryChangeHasEventOf
        <5>2. d.links \subseteq u.links
          BY <1>1
        <5>3. QED BY <5>1, <5>2
      <4>2. CASE \E y \in Touched(w, m) : t = <<seq, y>>
        <5>1. PICK y \in Touched(w, m) : t = <<seq, y>>
          BY <4>2
        <5>2. y = x /\ t[1] = seq
          BY <3>2, <5>1
        <5>3. PICK l \in w.links : l.dst = x
          BY <1>8, <5>1, <5>2 DEF Touched
        <5>4. QED BY <2>2, <5>2, <5>3
      <4>3. t \in d.touched \/ \E y \in Touched(w, m) : t = <<seq, y>>
        BY <1>1, <3>2
      <4>4. QED BY <4>1, <4>2, <4>3
    <3>3. QED BY <3>1, <3>2
  <2>4. CASE u.heads[x].updated = seq /\ \E l \in w.links : l.dst = x
    BY <1>5, <1>6, <2>4 DEF Touched
  <2>5. QED BY <2>1, <2>3, <2>4
<1>9. /\ <<u.heads[m].updated, m>> \in u.touched
      /\ \A t \in u.touched : ~(t[1] > u.heads[m].updated)
  BY <1>4, <1>5, <1>6 DEF Touched
<1>10. QED BY <1>7, <1>8, <1>9 DEF EveryChangeHasEventOf

\* An open contest stays open while neither of its ends is written again; the
\* written memory is contested by its own contests alone.
LEMMA UpsertContested ==
    ASSUME NEW d \in Store, NEW w \in Request, w.kind \in MemoryKind, NEW m \in Memory,
           NEW seq \in 1..MaxSeq, Accepts(d, w, m), Grounded(d), Anchored(d),
           seq = Len(d.events), ContestedWhileOpenOf(d),
           LinkTargets(w, "contests") # {} => \A r \in d.revisions : r.seq < seq
    PROVE  ContestedWhileOpenOf(Upsert(d, w, m, seq))
<1> DEFINE u == Upsert(d, w, m, seq)
           W == WrittenRevision(d, w, m, seq)
           L(l) == [src |-> m, srcRev |-> NextRevision(d, m), dst |-> l.dst,
                    rel |-> l.rel, seq |-> seq]
<1>1. /\ u.heads = [y \in Memory |-> IF y = m THEN WrittenHead(d, w, m, seq)
                                     ELSE Linked(d.heads[y], y, w, seq)]
      /\ u.links = d.links \cup {L(l) : l \in w.links}
  BY Zenon DEF Upsert
<1>2. u \in Store /\ RevisionChainOf(u) /\ Exists(u, m)
  BY UpsertTyped, UpsertChain, UpsertHeads DEF Grounded
<1>3. /\ W \in u.revisions
      /\ \A x \in Memory : x # m => RevisionsOf(u, x) = RevisionsOf(d, x)
  BY UpsertRevisions
<1>4. /\ W.mem = m /\ W.num = NextRevision(d, m) /\ W.seq = seq
      /\ u.heads[m].rev = NextRevision(d, m) /\ u.heads[m].state = WrittenState(w)
  BY <1>1 DEF WrittenRevision, WrittenHead
<1>5. NextRevision(d, m) \in 1..MaxRevision /\ d.events \in Seq(Request) /\ MaxRevision \in Nat
  BY NextRevisionInRange, StoreAssumption DEF Store
<1>6. \A l \in d.links : /\ l.seq \in 1..seq /\ l.src \in Memory /\ l.dst \in Memory
                         /\ \E r \in RevisionsOf(d, l.src) : r.num = l.srcRev /\ r.seq = l.seq
  <2>1. \A r \in d.revisions : r.seq \in 1..Len(d.events)
    BY <1>5 DEF Grounded
  <2>2. QED BY <2>1 DEF Anchored, RevisionsOf, Store, LinkRow
<1>7. /\ \A l \in d.links : l \in u.links
      /\ \A k \in w.links : /\ L(k) \in u.links /\ L(k).src = m /\ L(k).dst = k.dst
                            /\ L(k).srcRev = NextRevision(d, m) /\ L(k).rel = k.rel
                            /\ L(k).seq = seq
      /\ \A l \in u.links : l \in d.links \/ \E k \in w.links : l = L(k)
  BY <1>1
<1> HIDE DEF W, L
<1>8. OpenContest(u, m) <=> LinkTargets(w, "contests") # {}
  <2>1. HeadRevision(u, m).seq = seq
    <3>1. W \in RevisionsOf(u, m)
      BY <1>3, <1>4 DEF RevisionsOf
    <3>2. QED BY <1>2, <1>4, <3>1, HeadRevisionIs
  <2>2. ASSUME OpenContest(u, m) PROVE LinkTargets(w, "contests") # {}
    <3>1. PICK l \in u.links : /\ l.rel = "contests"
                               /\ \/ l.src = m /\ l.srcRev = NextRevision(d, m)
                                  \/ l.dst = m /\ l.seq > seq
      BY <1>4, <2>1, <2>2 DEF OpenContest, LinksWith
    <3>2. l \notin d.links
      <4>1. ASSUME l \in d.links, l.src = m, l.srcRev = NextRevision(d, m) PROVE FALSE
        <5>1. PICK r \in RevisionsOf(d, m) : r.num = NextRevision(d, m)
          BY <1>6, <4>1
        <5>2. CASE Exists(d, m)
          <6>1. r.num \in 1..d.heads[m].rev
            BY <5>2 DEF Grounded, RevisionChainOf
          <6>2. d.heads[m].rev \in 1..MaxRevision
            BY <5>2 DEF Exists, Store, HeadRow
          <6>3. QED BY <1>5, <5>1, <5>2, <6>1, <6>2 DEF NextRevision
        <5>3. CASE ~Exists(d, m)
          BY <5>1, <5>3 DEF Grounded, RevisionChainOf
        <5>4. QED BY <5>2, <5>3
      <4>2. l \in d.links => ~(l.seq > seq)
        BY <1>6
      <4>3. QED BY <3>1, <4>1, <4>2
    <3>3. PICK k \in w.links : l = L(k)
      BY <1>7, <3>2
    <3>4. QED BY <1>7, <3>1, <3>3 DEF LinkTargets
  <2>3. ASSUME LinkTargets(w, "contests") # {} PROVE OpenContest(u, m)
    <3>1. PICK k \in w.links : k.rel = "contests"
      BY <2>3 DEF LinkTargets
    <3>2. QED BY <1>4, <1>7, <3>1 DEF OpenContest, LinksWith
  <2>4. QED BY <2>2, <2>3
<1>9. IsLive(u, m) => (u.heads[m].state = "contested" <=> OpenContest(u, m))
  BY <1>4, <1>8 DEF WrittenState
<1>10. ASSUME NEW x \in Memory, x # m, IsLive(u, x)
       PROVE  u.heads[x].state = "contested" <=> OpenContest(u, x)
  <2>1. /\ IsLive(d, x) /\ Exists(d, x) /\ u.heads[x].rev = d.heads[x].rev
        /\ u.heads[x].state = "contested" <=>
              \/ d.heads[x].state = "contested"
              \/ x \in LinkTargets(w, "contests")
    BY <1>10, UpsertOthers DEF IsLive
  <2>2. d.heads[x].state = "contested" <=> OpenContest(d, x)
    BY <2>1 DEF ContestedWhileOpenOf
  <2>3. HeadRevision(u, x) = HeadRevision(d, x)
    BY <1>3, <1>10, <2>1 DEF HeadRevision
  <2>4. HeadRevision(d, x) \in d.revisions
    BY <2>1, HeadRevisionIs DEF Grounded, RevisionsOf
  <2>5. ASSUME x \in LinkTargets(w, "contests") PROVE OpenContest(u, x)
    <3>1. PICK k \in w.links : k.rel = "contests" /\ k.dst = x
      BY <2>5 DEF LinkTargets
    <3>2. HeadRevision(u, x).seq < seq
      BY <2>3, <2>4, <2>5
    <3>3. HeadRevision(u, x).seq \in Nat
      BY <2>3, <2>4 DEF Store, RevisionRow
    <3>4. L(k) \in LinksWith(u, "contests") /\ L(k).dst = x /\ L(k).seq > HeadRevision(u, x).seq
      BY <1>7, <3>1, <3>2, <3>3 DEF LinksWith
    <3>5. QED BY <3>4 DEF OpenContest
  <2>6. OpenContest(d, x) => OpenContest(u, x)
    BY <1>7, <2>1, <2>3 DEF OpenContest, LinksWith
  <2>7. ASSUME OpenContest(u, x), x \notin LinkTargets(w, "contests") PROVE OpenContest(d, x)
    <3>1. PICK l \in u.links : /\ l.rel = "contests"
                               /\ \/ l.src = x /\ l.srcRev = d.heads[x].rev
                                  \/ l.dst = x /\ l.seq > HeadRevision(d, x).seq
      BY <2>1, <2>3, <2>7 DEF OpenContest, LinksWith
    <3>2. ~\E k \in w.links : l = L(k)
      BY <1>7, <1>10, <2>7, <3>1 DEF LinkTargets
    <3>3. l \in d.links
      BY <1>7, <3>2
    <3>4. QED BY <3>1, <3>3 DEF OpenContest, LinksWith
  <2>8. QED BY <2>1, <2>2, <2>5, <2>6, <2>7
<1>11. QED BY <1>9, <1>10 DEF ContestedWhileOpenOf

LEMMA UpsertExplained ==
    ASSUME NEW d \in Store, NEW w \in Request, w.kind \in MemoryKind, NEW m \in Memory,
           NEW seq \in 1..MaxSeq, Accepts(d, w, m), Grounded(d), Explained(d),
           seq = Len(d.events),
           LinkTargets(w, "contests") # {} => \A r \in d.revisions : r.seq < seq
    PROVE  Explained(Upsert(d, w, m, seq))
<1>1. Anchored(Upsert(d, w, m, seq))
  BY UpsertAnchored DEF Explained
<1>2. ContestedWhileOpenOf(Upsert(d, w, m, seq))
  BY UpsertContested DEF Explained
<1>3. IndexCoversKnowledgeOf(Upsert(d, w, m, seq))
  BY UpsertIndexed DEF Explained
<1>4. EveryChangeHasEventOf(Upsert(d, w, m, seq))
  BY UpsertHasEvent DEF Explained, Grounded
<1>5. QED BY <1>1, <1>2, <1>3, <1>4 DEF Explained

\* Events and receipts explain nothing by themselves.
LEMMA SameExplained ==
    ASSUME NEW d, NEW e, Explained(d), e.heads = d.heads, e.revisions = d.revisions,
           e.links = d.links, e.touched = d.touched, e.index = d.index
    PROVE  Explained(e)
<1>1. \A x \in Memory : /\ RevisionsOf(e, x) = RevisionsOf(d, x)
                        /\ HeadRevision(e, x) = HeadRevision(d, x)
                        /\ Exists(e, x) <=> Exists(d, x)
                        /\ IsLive(e, x) <=> IsLive(d, x)
  BY DEF RevisionsOf, HeadRevision, Exists, IsLive
<1>2. \A x : RevisionsOf(e, x) = RevisionsOf(d, x)
  BY DEF RevisionsOf
<1>3. Anchored(e)
  BY <1>2 DEF Explained, Anchored
<1>4. ContestedWhileOpenOf(e)
  BY <1>1 DEF Explained, ContestedWhileOpenOf, OpenContest, LinksWith
<1>5. IndexCoversKnowledgeOf(e)
  BY <1>1 DEF Explained, IndexCoversKnowledgeOf
<1>6. EveryChangeHasEventOf(e)
  BY <1>1 DEF Explained, EveryChangeHasEventOf
<1>7. QED BY <1>3, <1>4, <1>5, <1>6 DEF Explained

LEMMA RetractExplained ==
    ASSUME NEW d \in Store, NEW m \in Memory, Exists(d, m), NEW seq \in 1..MaxSeq,
           Grounded(d), Explained(d), seq = Len(d.events)
    PROVE  Explained(RetractHead(d, m, seq))
<1> DEFINE t == RetractHead(d, m, seq)
<1>1. /\ t.revisions = d.revisions /\ t.links = d.links
      /\ t.touched = d.touched \cup {<<seq, m>>}
      /\ t.heads = [x \in Memory |-> IF x = m THEN RetractedRow(d, m, seq) ELSE d.heads[x]]
  BY RetractTables
<1>2. t.index = [d.index EXCEPT ![m] = 0] /\ d.index \in [Memory -> 0..MaxRevision]
  BY DEF RetractHead, Store
<1> HIDE DEF t
<1>3. /\ t.heads[m].state = "retracted" /\ t.heads[m].updated = seq /\ Exists(t, m)
      /\ ~IsLive(t, m)
  <2>1. d.heads[m] \in HeadRow
    BY DEF Exists, Store
  <2>2. /\ RetractedRow(d, m, seq) \in HeadRow
        /\ RetractedRow(d, m, seq).state = "retracted"
        /\ RetractedRow(d, m, seq).updated = seq
    BY <2>1 DEF RetractedRow, HeadRow, State
  <2>3. QED BY <1>1, <2>2, NoneAssumption DEF Exists, IsLive, Live
<1>4. \A x : RevisionsOf(t, x) = RevisionsOf(d, x)
  BY <1>1 DEF RevisionsOf
<1>5. \A x \in Memory : x # m =>
         /\ t.heads[x] = d.heads[x] /\ t.index[x] = d.index[x]
         /\ HeadRevision(t, x) = HeadRevision(d, x)
  BY <1>1, <1>2, <1>4 DEF HeadRevision
<1>6. Anchored(t)
  BY <1>1, <1>4 DEF Explained, Anchored
<1>7. ContestedWhileOpenOf(t)
  BY <1>1, <1>3, <1>5
  DEF Explained, ContestedWhileOpenOf, OpenContest, LinksWith, IsLive, Exists
<1>8. IndexCoversKnowledgeOf(t)
  BY <1>2, <1>3, <1>5 DEF Explained, IndexCoversKnowledgeOf, Exists
<1>9. EveryChangeHasEventOf(t)
  <2>1. \A r \in t.revisions : r.seq \in r.evidence /\ <<r.seq, r.mem>> \in t.touched
    BY <1>1 DEF Explained, EveryChangeHasEventOf
  <2>2. ASSUME NEW x \in Memory, x # m, Exists(t, x)
        PROVE  /\ <<t.heads[x].updated, x>> \in t.touched
               /\ \A p \in t.touched : p[2] = x /\ p[1] > t.heads[x].updated =>
                     \E l \in t.links : l.dst = x /\ l.seq = p[1]
    <3>1. Exists(d, x) /\ t.heads[x] = d.heads[x]
      BY <1>5, <2>2 DEF Exists
    <3>2. \A p \in t.touched : p[2] = x => p \in d.touched
      BY <1>1, <2>2
    <3>3. QED BY <1>1, <3>1, <3>2 DEF Explained, EveryChangeHasEventOf
  <2>3. \A p \in t.touched : ~(p[1] > seq)
    <3>1. d.events \in Seq(Request)
      BY DEF Store
    <3>2. \A p \in d.touched : p[1] \in 1..seq
      BY <3>1 DEF Grounded, ScopeClosedOf
    <3>3. QED BY <1>1, <3>2
  <2>4. <<t.heads[m].updated, m>> \in t.touched
    BY <1>1, <1>3
  <2>5. QED BY <1>3, <2>1, <2>2, <2>3, <2>4 DEF EveryChangeHasEventOf
<1>10. QED BY <1>6, <1>7, <1>8, <1>9 DEF Explained, t

(***************************************************************************)
(* Canonical keys                                                          *)
(***************************************************************************)

\* A request that names no memory writes the one live head of its key.
LEMMA UpsertKeyed ==
    ASSUME NEW d \in Store, NEW w \in Request, NEW m \in Memory, NEW seq \in 1..MaxSeq,
           w.id = None, m \in Targets(d, w), OneLiveHeadPerKeyOf(d)
    PROVE  OneLiveHeadPerKeyOf(Upsert(d, w, m, seq))
<1> DEFINE u == Upsert(d, w, m, seq)
<1>1. u.heads[m] = WrittenHead(d, w, m, seq)
  <2>1. u.heads = [y \in Memory |-> IF y = m THEN WrittenHead(d, w, m, seq)
                                    ELSE Linked(d.heads[y], y, w, seq)]
    BY Zenon DEF Upsert
  <2>2. QED BY <2>1
<1>2. u.heads[m].scope = w.scope /\ u.heads[m].kind = w.kind /\ u.heads[m].key = w.key
  BY <1>1 DEF WrittenHead
<1>3. \A x \in Memory : x # m /\ IsLive(u, x) =>
         /\ IsLive(d, x)
         /\ u.heads[x].scope = d.heads[x].scope
         /\ u.heads[x].kind = d.heads[x].kind
         /\ u.heads[x].key = d.heads[x].key
  BY UpsertOthers DEF IsLive
<1> HIDE DEF u
<1>4. \A x \in Memory : ~(/\ x # m /\ IsLive(u, x) /\ w.key # None
                          /\ u.heads[x].scope = w.scope
                          /\ u.heads[x].kind = w.kind
                          /\ u.heads[x].key = w.key)
  <2> SUFFICES ASSUME NEW x \in Memory, x # m, IsLive(u, x), w.key # None,
                      u.heads[x].scope = w.scope, u.heads[x].kind = w.kind,
                      u.heads[x].key = w.key
      PROVE  FALSE
    OBVIOUS
  <2>1. x \in CanonicalMatches(d, w)
    BY <1>3 DEF CanonicalMatches, IsLive
  <2>2. m \in CanonicalMatches(d, w)
    BY <2>1 DEF Targets, CanonicalHeads
  <2>3. QED BY <2>1, <2>2 DEF CanonicalMatches, OneLiveHeadPerKeyOf
<1>5. QED BY <1>2, <1>3, <1>4 DEF OneLiveHeadPerKeyOf, u

\* A store whose live heads are live heads of another with the same keys.
LEMMA FewerKeyed ==
    ASSUME NEW d, NEW e, OneLiveHeadPerKeyOf(d),
           \A x \in Memory : IsLive(e, x) => IsLive(d, x) /\ e.heads[x] = d.heads[x]
    PROVE  OneLiveHeadPerKeyOf(e)
BY DEF OneLiveHeadPerKeyOf

(***************************************************************************)
(* History: what an event recorded is what it recorded ever after.         *)
(***************************************************************************)
SameRecords(d, e, i) ==
    /\ {Recorded(r) : r \in {x \in d.revisions : x.seq = i}}
          = {Recorded(r) : r \in {x \in e.revisions : x.seq = i}}
    /\ {l \in d.links : l.seq = i} = {l \in e.links : l.seq = i}
    /\ {t \in d.touched : t[1] = i} = {t \in e.touched : t[1] = i}

Unchanged(d, e) ==
    /\ d.touched \subseteq e.touched
    /\ \A i \in DOMAIN d.events : SameRecords(d, e, i)

\* An upsert records at its own event only; retiring a revision is not part
\* of what its event recorded.
LEMMA UpsertRecords ==
    ASSUME NEW d \in Store, NEW w, NEW m \in Memory, NEW seq \in 1..MaxSeq, NEW i, i # seq
    PROVE  SameRecords(d, Upsert(d, w, m, seq), i)
<1> DEFINE u == Upsert(d, w, m, seq)
           W == WrittenRevision(d, w, m, seq)
           L(l) == [src |-> m, srcRev |-> NextRevision(d, m), dst |-> l.dst,
                    rel |-> l.rel, seq |-> seq]
           Mark(r) == [r EXCEPT !.retired =
                         @ \/ (r.mem = m /\ Exists(d, m) /\ r.num = d.heads[m].rev)]
<1>1. /\ u.revisions = Retired(d, m) \cup {W}
      /\ u.links = d.links \cup {L(l) : l \in w.links}
      /\ u.touched = d.touched \cup {<<seq, x>> : x \in Touched(w, m)}
  BY Zenon DEF Upsert
<1>2. Retired(d, m) = {Mark(r) : r \in d.revisions}
  BY DEF Retired
<1>3. W.seq = seq
  BY DEF WrittenRevision
<1>4. \A l \in w.links : L(l).seq = seq
  OBVIOUS
<1>5. ASSUME NEW r \in d.revisions
      PROVE  Mark(r).seq = r.seq /\ Recorded(Mark(r)) = Recorded(r)
  <2>1. r \in RevisionRow
    BY DEF Store
  <2>2. Mark(r).seq = r.seq
    BY <2>1 DEF RevisionRow
  <2>3. Recorded(Mark(r)) = Recorded(r)
    BY <2>1 DEF RevisionRow, Recorded
  <2>4. QED BY <2>2, <2>3
<1> HIDE DEF u, W, L, Mark
<1>6. \A x \in u.revisions : x.seq = i => \E r \in d.revisions : x = Mark(r)
  BY <1>1, <1>2, <1>3
<1>7. \A r \in d.revisions : Mark(r) \in u.revisions
  BY <1>1, <1>2
<1>8. {Recorded(r) : r \in {x \in d.revisions : x.seq = i}}
        \subseteq {Recorded(r) : r \in {x \in u.revisions : x.seq = i}}
  <2> SUFFICES ASSUME NEW r \in d.revisions, r.seq = i
      PROVE  \E x \in u.revisions : x.seq = i /\ Recorded(r) = Recorded(x)
    OBVIOUS
  <2>1. Mark(r) \in u.revisions /\ Mark(r).seq = i /\ Recorded(r) = Recorded(Mark(r))
    BY <1>5, <1>7
  <2>2. QED BY <2>1
<1>9. {Recorded(r) : r \in {x \in u.revisions : x.seq = i}}
        \subseteq {Recorded(r) : r \in {x \in d.revisions : x.seq = i}}
  <2> SUFFICES ASSUME NEW x \in u.revisions, x.seq = i
      PROVE  \E r \in d.revisions : r.seq = i /\ Recorded(x) = Recorded(r)
    OBVIOUS
  <2>1. PICK r \in d.revisions : x = Mark(r)
    BY <1>6
  <2>2. QED BY <1>5, <2>1
<1>10. {l \in d.links : l.seq = i} = {l \in u.links : l.seq = i}
  BY <1>1, <1>4
<1>11. {t \in d.touched : t[1] = i} = {t \in u.touched : t[1] = i}
  BY <1>1
<1>12. QED BY <1>8, <1>9, <1>10, <1>11 DEF u, SameRecords

(***************************************************************************)
(* Writes and commits                                                      *)
(***************************************************************************)

\* What the first write of a call adds to what the store says.
LEMMA WriteLife ==
    ASSUME NEW d \in Store, Grounded(d), Explained(d), Len(d.events) < MaxSeq,
           NEW call \in Request, call.kind \in MemoryKind,
           NEW m \in Targets(d, call), Accepts(d, call, m)
    PROVE  LET seq == Len(d.events) + 1
               u == Upsert(AppendEvent(d, call), call, m, seq) IN
           /\ Explained(u)
           /\ Unchanged(d, u)
           /\ <<seq, m>> \in u.touched
           /\ call.id = None /\ OneLiveHeadPerKeyOf(d) => OneLiveHeadPerKeyOf(u)
<1> DEFINE seq == Len(d.events) + 1
           a == AppendEvent(d, call)
           u == Upsert(a, call, m, seq)
<1>1. d.events \in Seq(Request) /\ MaxSeq \in Nat
  BY StoreAssumption DEF Store
<1>2. seq \in 1..MaxSeq /\ \A i \in DOMAIN d.events : i < seq
  BY <1>1
<1>3. /\ a \in Store /\ Len(a.events) = seq
      /\ DOMAIN a.events = DOMAIN d.events \cup {seq}
      /\ \A i \in DOMAIN d.events : a.events[i] = d.events[i]
      /\ a.heads = d.heads /\ a.revisions = d.revisions /\ a.links = d.links
      /\ a.touched = d.touched /\ a.index = d.index
  BY AppendTables
<1>4. m \in Memory
  BY TargetsAreMemories
<1>5. Grounded(a)
  BY AppendGrounded
<1> HIDE DEF a, seq
<1>6. Explained(a)
  BY <1>3, SameExplained
<1>7. Accepts(a, call, m)
  BY <1>3 DEF Accepts, ValidEvidence, ValidLinks, Exists
<1>8. m \in Targets(a, call)
  BY <1>3 DEF Targets, CanonicalHeads, CanonicalMatches, IsLive, Exists
<1>9. \A r \in a.revisions : r.seq < seq
  BY <1>2, <1>3 DEF Grounded
<1>10. Explained(u)
  BY <1>2, <1>3, <1>4, <1>5, <1>6, <1>7, <1>9, UpsertExplained
<1>11. u.touched = a.touched \cup {<<seq, x>> : x \in Touched(call, m)}
  BY Zenon DEF Upsert
<1>12. Unchanged(d, u)
  <2>1. \A i \in DOMAIN d.events : i # seq
    BY <1>2
  <2>2. ASSUME NEW i \in DOMAIN d.events PROVE SameRecords(a, u, i)
    BY <1>2, <1>3, <1>4, <2>1, UpsertRecords
  <2>3. ASSUME NEW i \in DOMAIN d.events PROVE SameRecords(d, u, i)
    <3> HIDE DEF u
    <3>1. QED BY <1>3, <2>2 DEF SameRecords
  <2>4. d.touched \subseteq u.touched
    <3> HIDE DEF u
    <3>1. QED BY <1>3, <1>11
  <2>5. QED BY <2>3, <2>4 DEF Unchanged
<1>13. <<seq, m>> \in u.touched
  BY <1>11 DEF Touched
<1>14. ASSUME call.id = None, OneLiveHeadPerKeyOf(d) PROVE OneLiveHeadPerKeyOf(u)
  <2>1. OneLiveHeadPerKeyOf(a)
    BY <1>3, <1>14 DEF OneLiveHeadPerKeyOf, IsLive, Exists
  <2>2. QED BY <1>2, <1>3, <1>4, <1>8, <1>14, <2>1, UpsertKeyed
<1>15. QED BY <1>10, <1>12, <1>13, <1>14 DEF a, seq

\* A commit appends one event and leaves what the others recorded alone.
Advances(d, e) ==
    \E call \in Request :
       /\ e.events = Append(d.events, call)
       /\ \A i \in DOMAIN d.events : Effect(e, i) = Effect(d, i)

LEMMA CommitLife ==
    ASSUME NEW d \in Store, ReceiptsTellTheTruthOf(d), NEW e \in Store, Explained(e),
           NEW call \in Request, call.op = "retract" => call.id \in Memory,
           Len(d.events) + 1 \in 1..MaxSeq, NEW written \in SUBSET Memory,
           e.events = Append(d.events, call), e.receipts = d.receipts, Unchanged(d, e),
           \A m \in written : <<Len(d.events) + 1, m>> \in e.touched
    PROVE  LET p == PutReceipt(e, call, Len(d.events) + 1, written) IN
           /\ Explained(p)
           /\ ReceiptsTellTheTruthOf(p)
           /\ OneLiveHeadPerKeyOf(e) => OneLiveHeadPerKeyOf(p)
           /\ Advances(d, p)
<1> DEFINE seq == Len(d.events) + 1
           p == PutReceipt(e, call, seq, written)
           R == ReceiptRow(call, seq, written)
<1>1. seq \in 1..MaxSeq /\ \A i \in DOMAIN d.events : i # seq
  <2>1. d.events \in Seq(Request)
    BY DEF Store
  <2>2. QED BY <2>1
<1>2. /\ p.events = e.events /\ p.heads = e.heads /\ p.revisions = e.revisions
      /\ p.links = e.links /\ p.touched = e.touched /\ p.index = e.index
      /\ call.idem = None => p.receipts = e.receipts
      /\ call.idem # None => p.receipts = e.receipts \cup {R}
  BY <1>1, ReceiptTables
<1>3. /\ DOMAIN p.events = DOMAIN d.events \cup {seq}
      /\ p.events[seq] = call
      /\ \A i \in DOMAIN d.events : p.events[i] = d.events[i]
  <2>1. d.events \in Seq(Request)
    BY DEF Store
  <2>2. /\ DOMAIN e.events = DOMAIN d.events \cup {seq} /\ e.events[seq] = call
        /\ \A i \in DOMAIN d.events : e.events[i] = d.events[i]
    BY <2>1
  <2> HIDE DEF p
  <2>3. QED BY <1>2, <2>2
<1>4. R.slot = Slot(call) /\ R.hash = Fingerprint(call) /\ R.seq = seq /\ R.written = written
  BY DEF ReceiptRow
<1> HIDE DEF p, R, seq
<1>5. Explained(p)
  BY <1>2, SameExplained
<1>6. ReceiptsTellTheTruthOf(p)
  <2>1. ASSUME NEW r \in p.receipts
        PROVE  /\ r.seq \in DOMAIN p.events
               /\ Slot(p.events[r.seq]) = r.slot
               /\ Fingerprint(p.events[r.seq]) = r.hash
               /\ r.written \subseteq {t[2] : t \in {u \in p.touched : u[1] = r.seq}}
    <3>1. CASE r \in d.receipts
      <4>1. /\ r.seq \in DOMAIN d.events /\ Slot(d.events[r.seq]) = r.slot
            /\ Fingerprint(d.events[r.seq]) = r.hash
            /\ r.written \subseteq {t[2] : t \in {u \in d.touched : u[1] = r.seq}}
        BY <3>1 DEF ReceiptsTellTheTruthOf
      <4>2. d.touched \subseteq p.touched
        BY <1>2 DEF Unchanged
      <4>3. QED BY <1>3, <4>1, <4>2
    <3>2. CASE r = R
      <4>1. \A m \in written : <<seq, m>> \in p.touched
        BY <1>2 DEF seq
      <4>2. \A m \in written : m \in {t[2] : t \in {u \in p.touched : u[1] = seq}}
        <5> SUFFICES ASSUME NEW m \in written
            PROVE  \E t \in p.touched : t[1] = seq /\ t[2] = m
          OBVIOUS
        <5>1. <<seq, m>> \in p.touched
          BY <4>1
        <5>2. QED BY <5>1
      <4>3. QED BY <1>3, <1>4, <3>2, <4>2
    <3>3. QED BY <1>2, <2>1, <3>1, <3>2
  <2>2. ASSUME NEW i \in DOMAIN p.events, p.events[i].idem # None
        PROVE  \E r \in p.receipts : r.seq = i
    <3>1. CASE i \in DOMAIN d.events
      <4>1. \E r \in d.receipts : r.seq = i
        BY <1>3, <2>2, <3>1 DEF ReceiptsTellTheTruthOf
      <4>2. d.receipts \subseteq p.receipts
        BY <1>2
      <4>3. QED BY <4>1, <4>2
    <3>2. CASE i = seq
      BY <1>2, <1>3, <1>4, <2>2, <3>2
    <3>3. QED BY <1>3, <3>1, <3>2
  <2>3. QED BY <2>1, <2>2 DEF ReceiptsTellTheTruthOf
<1>7. OneLiveHeadPerKeyOf(e) => OneLiveHeadPerKeyOf(p)
  BY <1>2 DEF OneLiveHeadPerKeyOf, IsLive, Exists
<1>8. Advances(d, p)
  <2>1. ASSUME NEW i \in DOMAIN d.events PROVE Effect(p, i) = Effect(d, i)
    <3>1. p.events[i] = d.events[i] /\ i # seq
      BY <1>1, <1>3
    <3>2. {r \in p.receipts : r.seq = i} = {r \in d.receipts : r.seq = i}
      BY <1>2, <1>4, <3>1
    <3>3. /\ {Recorded(r) : r \in {x \in p.revisions : x.seq = i}}
                = {Recorded(r) : r \in {x \in d.revisions : x.seq = i}}
          /\ {l \in p.links : l.seq = i} = {l \in d.links : l.seq = i}
          /\ {t \in p.touched : t[1] = i} = {t \in d.touched : t[1] = i}
      BY <1>2 DEF Unchanged, SameRecords
    <3>4. QED BY <3>1, <3>2, <3>3 DEF Effect
  <2>2. QED BY <1>2, <2>1 DEF Advances
<1>9. QED BY <1>5, <1>6, <1>7, <1>8 DEF p, seq

(***************************************************************************)
(* The inductive invariant.  Links must be anchored, because whether a     *)
(* contest is open depends on the revision that raised it; and, as for     *)
(* IInv, the private copy of an open checkpoint must satisfy what the      *)
(* store does, and differ from it by what its own event recorded.          *)
(***************************************************************************)
TxnLife ==
    /\ Explained(txn.work)
    /\ ExplicitId = {} => OneLiveHeadPerKeyOf(txn.work)
    /\ Unchanged(db, txn.work)
    /\ \A m \in txn.written : <<txn.seq, m>> \in txn.work.touched
    /\ txn.call.id = None

Life ==
    /\ Explained(db)
    /\ ExplicitId = {} => OneLiveHeadPerKeyOf(db)
    /\ ReceiptsTellTheTruthOf(db)
    /\ txn # None => TxnLife

LEMMA InitLife == Init => Life
<1> SUFFICES ASSUME Init PROVE Life
  OBVIOUS
<1>1. db = EmptyStore /\ txn = None
  BY DEF Init
<1>2. /\ db.heads = [m \in Memory |-> None] /\ db.index = [m \in Memory |-> 0]
      /\ db.revisions = {} /\ db.links = {} /\ db.touched = {} /\ db.receipts = {}
      /\ db.events = <<>>
  BY <1>1 DEF EmptyStore
<1>3. \A m \in Memory : ~Exists(db, m)
  BY <1>2 DEF Exists
<1>4. Explained(db)
  BY <1>2, <1>3 DEF Explained, Anchored, ContestedWhileOpenOf, IndexCoversKnowledgeOf,
                    EveryChangeHasEventOf, IsLive
<1>5. OneLiveHeadPerKeyOf(db)
  BY <1>3 DEF OneLiveHeadPerKeyOf, IsLive
<1>6. ReceiptsTellTheTruthOf(db)
  BY <1>2 DEF ReceiptsTellTheTruthOf
<1>7. QED BY <1>1, <1>4, <1>5, <1>6 DEF Life

\* Which calls name a memory.
LEMMA CallIds ==
    /\ ExplicitId = {} => \A c \in RememberCalls : c.id = None
    /\ \A c \in CheckpointCalls : c.id = None
BY DEF RememberCalls, CheckpointCalls

LEMMA ObserveLife ==
    ASSUME IInv, Life, NEW call \in ObserveCalls, Observe(call)
    PROVE  Life' /\ Advances(db, db')
<1> DEFINE a == AppendEvent(db, call)
<1>1. /\ db \in Store /\ txn' = None /\ Len(db.events) < MaxSeq
      /\ db' = PutReceipt(a, call, Len(db.events) + 1, {})
  BY DEF IInv, TypeOK, Observe, MayExecute
<1>2. call \in Request /\ call.op # "retract"
  BY CallsAreRequests, CallOps
<1>3. Len(db.events) + 1 \in 1..MaxSeq
  BY <1>1, StoreAssumption DEF Store
<1>4. /\ a \in Store /\ a.events = Append(db.events, call) /\ a.heads = db.heads
      /\ a.revisions = db.revisions /\ a.receipts = db.receipts /\ a.links = db.links
      /\ a.touched = db.touched /\ a.index = db.index
  BY <1>1, <1>2, AppendTables
<1> HIDE DEF a
<1>5. Explained(a)
  BY <1>4, SameExplained DEF Life
<1>6. Unchanged(db, a)
  BY <1>4 DEF Unchanged, SameRecords
<1>7. OneLiveHeadPerKeyOf(db) => OneLiveHeadPerKeyOf(a)
  BY <1>4 DEF OneLiveHeadPerKeyOf, IsLive, Exists
<1>8. /\ Explained(db') /\ ReceiptsTellTheTruthOf(db') /\ Advances(db, db')
      /\ OneLiveHeadPerKeyOf(a) => OneLiveHeadPerKeyOf(db')
  BY <1>1, <1>2, <1>3, <1>4, <1>5, <1>6, CommitLife DEF Life
<1>9. QED BY <1>1, <1>7, <1>8 DEF Life

LEMMA RememberLife ==
    ASSUME IInv, Life, NEW call \in RememberCalls, Remember(call)
    PROVE  Life' /\ Advances(db, db')
<1> DEFINE U(m) == Upsert(AppendEvent(db, call), call, m, Len(db.events) + 1)
<1>1. /\ db \in Store /\ Grounded(db) /\ txn' = None /\ Len(db.events) < MaxSeq
  BY DEF IInv, TypeOK, Remember, MayExecute
<1>2. /\ call \in Request /\ call.op # "retract" /\ call.kind \in MemoryKind
      /\ ExplicitId = {} => call.id = None
  BY CallsAreRequests, CallOps, CallIds
<1>3. PICK m \in Targets(db, call) :
         /\ Accepts(db, call, m)
         /\ db' = PutReceipt(U(m), call, Len(db.events) + 1, {m})
  BY DEF Remember
<1>4. m \in Memory
  BY <1>2, <1>3, TargetsAreMemories
<1>5. /\ Len(db.events) + 1 \in 1..MaxSeq
      /\ U(m) \in Store
      /\ U(m).events = Append(db.events, call) /\ U(m).receipts = db.receipts
  BY <1>1, <1>2, <1>3, <1>4, WriteFacts
<1>6. /\ Explained(U(m)) /\ Unchanged(db, U(m))
      /\ <<Len(db.events) + 1, m>> \in U(m).touched
      /\ call.id = None /\ OneLiveHeadPerKeyOf(db) => OneLiveHeadPerKeyOf(U(m))
  BY <1>1, <1>2, <1>3, WriteLife DEF Life
<1> HIDE DEF U
<1>7. {m} \in SUBSET Memory
  BY <1>4
<1>8. /\ Explained(db') /\ ReceiptsTellTheTruthOf(db') /\ Advances(db, db')
      /\ OneLiveHeadPerKeyOf(U(m)) => OneLiveHeadPerKeyOf(db')
  BY <1>1, <1>2, <1>3, <1>5, <1>6, <1>7, CommitLife DEF Life
<1>9. QED BY <1>1, <1>2, <1>6, <1>8 DEF Life

LEMMA RetractLife ==
    ASSUME IInv, Life, NEW call \in RetractCalls, Retract(call)
    PROVE  Life' /\ Advances(db, db')
<1> DEFINE seq == Len(db.events) + 1
           a == AppendEvent(db, call)
           t == RetractHead(a, call.id, seq)
<1>1. /\ db \in Store /\ Grounded(db) /\ txn' = None /\ Len(db.events) < MaxSeq
      /\ Exists(db, call.id)
      /\ db' = PutReceipt(t, call, seq, {call.id})
  BY DEF IInv, TypeOK, Retract, MayExecute
<1>2. call \in Request /\ call.id \in Memory
  BY CallsAreRequests
<1>3. seq \in 1..MaxSeq /\ \A i \in DOMAIN db.events : i # seq
  <2>1. db.events \in Seq(Request)
    BY <1>1 DEF Store
  <2>2. QED BY <1>1, <2>1, StoreAssumption
<1>4. /\ a \in Store /\ a.events = Append(db.events, call) /\ a.heads = db.heads
      /\ a.revisions = db.revisions /\ a.receipts = db.receipts /\ a.links = db.links
      /\ a.touched = db.touched /\ a.index = db.index /\ Len(a.events) = seq
  BY <1>1, <1>2, AppendTables
<1>5. Grounded(a)
  BY <1>1, <1>2, AppendGrounded
<1>6. Explained(a)
  BY <1>4, SameExplained DEF Life
<1>7. Exists(a, call.id)
  BY <1>1, <1>4 DEF Exists
<1> HIDE DEF a
<1>8. /\ t \in Store /\ t.events = a.events /\ t.revisions = a.revisions
      /\ t.links = a.links /\ t.receipts = a.receipts
      /\ t.touched = a.touched \cup {<<seq, call.id>>}
      /\ t.heads = [x \in Memory |-> IF x = call.id THEN RetractedRow(a, call.id, seq)
                                     ELSE a.heads[x]]
  BY <1>2, <1>3, <1>4, <1>7, RetractTables
<1>9. Explained(t)
  BY <1>2, <1>3, <1>4, <1>5, <1>6, <1>7, RetractExplained
<1> HIDE DEF t
<1>10. Unchanged(db, t)
  BY <1>3, <1>4, <1>8 DEF Unchanged, SameRecords
<1>11. OneLiveHeadPerKeyOf(db) => OneLiveHeadPerKeyOf(t)
  <2>1. RetractedRow(a, call.id, seq).state = "retracted"
    <3>1. a.heads[call.id] \in HeadRow
      BY <1>2, <1>4, <1>7 DEF Store, Exists
    <3>2. QED BY <3>1 DEF RetractedRow, HeadRow
  <2>2. \A x \in Memory : IsLive(t, x) => IsLive(db, x) /\ t.heads[x] = db.heads[x]
    BY <1>4, <1>8, <2>1 DEF IsLive, Exists, Live
  <2>3. QED BY <2>2, FewerKeyed
<1>12. {call.id} \in SUBSET Memory /\ \A m \in {call.id} : <<seq, m>> \in t.touched
  BY <1>2, <1>8
<1>13. /\ Explained(db') /\ ReceiptsTellTheTruthOf(db') /\ Advances(db, db')
       /\ OneLiveHeadPerKeyOf(t) => OneLiveHeadPerKeyOf(db')
  BY <1>1, <1>2, <1>3, <1>4, <1>8, <1>9, <1>10, <1>12, CommitLife DEF Life
<1>14. QED BY <1>1, <1>11, <1>13 DEF Life

LEMMA BeginCheckpointLife ==
    ASSUME IInv, Life, NEW call \in CheckpointCalls, BeginCheckpoint(call)
    PROVE  Life'
<1> DEFINE U(m) == Upsert(AppendEvent(db, call), call, m, Len(db.events) + 1)
<1>1. db \in Store /\ Grounded(db) /\ db' = db /\ Len(db.events) < MaxSeq
  BY DEF IInv, TypeOK, BeginCheckpoint, MayExecute
<1>2. call \in Request /\ call.kind \in MemoryKind /\ call.id = None
  BY CallsAreRequests, CallIds
<1>3. PICK m \in Targets(db, call) :
         /\ Accepts(db, call, m)
         /\ txn' = [call |-> call, seq |-> Len(db.events) + 1, episode |-> m,
                    todo |-> call.children, written |-> {m}, work |-> U(m)]
  BY DEF BeginCheckpoint
<1>4. /\ Explained(U(m)) /\ Unchanged(db, U(m))
      /\ <<Len(db.events) + 1, m>> \in U(m).touched
      /\ OneLiveHeadPerKeyOf(db) => OneLiveHeadPerKeyOf(U(m))
  BY <1>1, <1>2, <1>3, WriteLife DEF Life
<1> HIDE DEF U
<1>5. /\ txn'.work = U(m) /\ txn'.seq = Len(db.events) + 1 /\ txn'.written = {m}
      /\ txn'.call = call
  BY <1>3
<1>6. TxnLife'
  BY <1>1, <1>2, <1>4, <1>5 DEF TxnLife, Life
<1>7. QED BY <1>1, <1>6 DEF Life

LEMMA WriteChildLife ==
    ASSUME IInv, Life, WriteChild
    PROVE  Life'
<1> DEFINE W == ChildWrite(txn.call, Head(txn.todo), txn.episode)
           U(m) == Upsert(txn.work, W, m, txn.seq)
<1>1. /\ db \in Store /\ db' = db /\ txn \in Transaction /\ TxnInv /\ TxnLife
      /\ txn.todo # <<>>
  BY DEF IInv, TypeOK, Life, WriteChild
<1>2. /\ txn.call \in Request /\ txn.work \in Store /\ txn.episode \in Memory
      /\ txn.todo \in Seq(Child) /\ txn.seq \in 1..MaxSeq
  BY <1>1 DEF Transaction
<1>3. Head(txn.todo) \in Child
  BY <1>1, <1>2
<1>4. W \in Request /\ W.kind \in MemoryKind
  BY <1>2, <1>3, ChildIsRequest
<1>5. W.id = None
  BY <1>1, <1>2 DEF ChildWrite, TxnLife, Request
<1>6. LinkTargets(W, "contests") = {}
  <2> DEFINE l == [dst |-> txn.episode,
                   rel |-> IF Head(txn.todo).kind = "outcome" THEN "attempted_for"
                           ELSE "belongs_to"]
  <2>1. W.links = {l}
    BY <1>2 DEF ChildWrite, Request
  <2>2. l.rel # "contests"
    OBVIOUS
  <2>3. QED BY <2>1, <2>2 DEF LinkTargets
<1>7. PICK m \in Targets(txn.work, W) :
         /\ Accepts(txn.work, W, m)
         /\ txn' = [txn EXCEPT !.work = U(m), !.todo = Tail(txn.todo),
                               !.written = txn.written \cup {m}]
  BY DEF WriteChild
<1> HIDE DEF W
<1>8. m \in Memory
  BY <1>4, <1>7, TargetsAreMemories
<1>9. txn.seq = Len(txn.work.events) /\ \A i \in DOMAIN db.events : i # txn.seq
  <2>1. db.events \in Seq(Request)
    BY <1>1 DEF Store
  <2>2. txn.seq = Len(db.events) + 1 /\ txn.work.events = Append(db.events, txn.call)
    BY <1>1 DEF TxnInv
  <2>3. QED BY <1>2, <2>1, <2>2
<1>10. Grounded(txn.work) /\ Explained(txn.work) /\ Unchanged(db, txn.work)
  BY <1>1 DEF TxnInv, TxnLife
<1>11. Explained(U(m))
  BY <1>2, <1>4, <1>6, <1>7, <1>8, <1>9, <1>10, UpsertExplained
<1>12. ExplicitId = {} => OneLiveHeadPerKeyOf(U(m))
  BY <1>1, <1>2, <1>4, <1>5, <1>7, <1>8, UpsertKeyed DEF TxnLife
<1>13. U(m).touched = txn.work.touched \cup {<<txn.seq, x>> : x \in Touched(W, m)}
  BY Zenon DEF Upsert
<1>14. Unchanged(db, U(m))
  <2>1. ASSUME NEW i \in DOMAIN db.events PROVE SameRecords(db, U(m), i)
    <3>1. SameRecords(txn.work, U(m), i)
      BY <1>2, <1>8, <1>9, UpsertRecords
    <3>2. SameRecords(db, txn.work, i)
      BY <1>10 DEF Unchanged
    <3> HIDE DEF U
    <3>3. QED BY <3>1, <3>2 DEF SameRecords
  <2>2. db.touched \subseteq U(m).touched
    <3> HIDE DEF U
    <3>1. QED BY <1>10, <1>13 DEF Unchanged
  <2>3. QED BY <2>1, <2>2 DEF Unchanged
<1> HIDE DEF U
<1>15. /\ txn'.work = U(m) /\ txn'.call = txn.call /\ txn'.seq = txn.seq
       /\ txn'.written = txn.written \cup {m}
  BY <1>1, <1>7 DEF Transaction
<1>16. \A x \in txn'.written : <<txn'.seq, x>> \in txn'.work.touched
  BY <1>1, <1>13, <1>15 DEF TxnLife, Touched
<1>17. TxnLife'
  BY <1>1, <1>11, <1>12, <1>14, <1>15, <1>16 DEF TxnLife
<1>18. QED BY <1>1, <1>17 DEF Life

LEMMA CommitCheckpointLife ==
    ASSUME IInv, Life, CommitCheckpoint
    PROVE  Life' /\ Advances(db, db')
<1>1. /\ db \in Store /\ txn \in Transaction /\ TxnInv /\ TxnLife /\ txn' = None
      /\ db' = PutReceipt(txn.work, txn.call, txn.seq, txn.written)
      /\ ReceiptsTellTheTruthOf(db)
  BY DEF IInv, TypeOK, Life, CommitCheckpoint
<1>2. /\ txn.call \in Request /\ txn.work \in Store
      /\ txn.seq \in 1..MaxSeq /\ txn.written \in SUBSET Memory
  BY <1>1 DEF Transaction
<1>3. /\ txn.seq = Len(db.events) + 1 /\ txn.call.op # "retract"
      /\ txn.work.events = Append(db.events, txn.call)
      /\ txn.work.receipts = db.receipts
  BY <1>1 DEF TxnInv
<1>4. /\ Explained(txn.work) /\ Unchanged(db, txn.work)
      /\ \A m \in txn.written : <<txn.seq, m>> \in txn.work.touched
      /\ ExplicitId = {} => OneLiveHeadPerKeyOf(txn.work)
  BY <1>1 DEF TxnLife
<1>5. /\ Explained(db') /\ ReceiptsTellTheTruthOf(db') /\ Advances(db, db')
      /\ OneLiveHeadPerKeyOf(txn.work) => OneLiveHeadPerKeyOf(db')
  BY <1>1, <1>2, <1>3, <1>4, CommitLife
<1>6. QED BY <1>1, <1>4, <1>5 DEF Life

LEMMA IdleLife ==
    ASSUME Life, db' = db, txn' = txn \/ txn' = None
    PROVE  Life'
BY DEF Life, TxnLife

LEMMA LifeStep ==
    ASSUME IInv, Life, StoreStep
    PROVE  Life' /\ (db' = db \/ Advances(db, db'))
<1>1. CASE \E call \in ObserveCalls : Observe(call)
  BY <1>1, ObserveLife
<1>2. CASE \E call \in RememberCalls : Remember(call)
  BY <1>2, RememberLife
<1>3. CASE \E call \in RetractCalls : Retract(call)
  BY <1>3, RetractLife
<1>4. CASE \E call \in CheckpointCalls : BeginCheckpoint(call)
  BY <1>4, BeginCheckpointLife DEF BeginCheckpoint
<1>5. CASE WriteChild
  BY <1>5, WriteChildLife DEF WriteChild
<1>6. CASE CommitCheckpoint
  BY <1>6, CommitCheckpointLife
<1>7. CASE Rollback
  BY <1>7, IdleLife DEF Rollback
<1>8. CASE UNCHANGED vars
  BY <1>8, IdleLife DEF vars
<1>9. QED BY <1>1, <1>2, <1>3, <1>4, <1>5, <1>6, <1>7, <1>8 DEF StoreStep

(***************************************************************************)
(* The theorems                                                            *)
(***************************************************************************)

\* Every reachable store and open checkpoint satisfies both invariants.
THEOREM LifeInductive == Spec => [](IInv /\ Life)
<1>1. Init => IInv /\ Life
  BY InitIInv, InitLife
<1>2. IInv /\ Life /\ [Next]_vars => (IInv /\ Life)'
  BY NextIsStoreStep, NextStep, LifeStep
<1>3. QED BY <1>1, <1>2, PTL DEF Spec

\* However memories are written, linked, revised and retracted, a live one is
\* shown as contested exactly while a contest against it, or one that it
\* raised, is open (apply_link_lifecycle, the state reset of upsert_memory).
THEOREM ContestsStayVisible == Spec => []ContestedWhileOpen
<1>1. IInv /\ Life => ContestedWhileOpen
  BY DEF Life, Explained, ContestedWhileOpen
<1>2. QED BY <1>1, LifeInductive, PTL

\* A search finds the head revision of every memory that was not retracted,
\* and never an older revision or a retracted memory (rebuild_fts, retract).
THEOREM IndexIsComplete == Spec => []IndexCoversKnowledge
<1>1. IInv /\ Life => IndexCoversKnowledge
  BY DEF Life, Explained, IndexCoversKnowledge
<1>2. QED BY <1>1, LifeInductive, PTL

\* Every revision cites the event that recorded it and every change of a head
\* is mapped to its event, the writes of a checkpoint and the state changes by
\* links included (event_memories, upsert_memory, retract).
THEOREM ChangesAreExplained == Spec => []EveryChangeHasEvent
<1>1. IInv /\ Life => EveryChangeHasEvent
  BY DEF Life, Explained, EveryChangeHasEvent
<1>2. QED BY <1>1, LifeInductive, PTL

\* What a retry is told is true: its receipt names the event of that request
\* and memories which that event wrote, and no keyed event lacks a receipt
\* (get_idempotent, put_idempotent in the transaction that executes).
THEOREM ReceiptsAreTrue == Spec => []ReceiptsTellTheTruth
<1>1. IInv /\ Life => ReceiptsTellTheTruth
  BY DEF Life, ReceiptsTellTheTruth
<1>2. QED BY <1>1, LifeInductive, PTL

\* While no client names a memory by its identifier, a canonical key never has
\* two live heads in a scope, although no unique index says so and a
\* checkpoint looks keys up between its own writes (the canonical lookup of
\* upsert_memory).
THEOREM KeysNameOneHead ==
    ASSUME ExplicitId = {} PROVE Spec => []OneLiveHeadPerKey
<1>1. IInv /\ Life => OneLiveHeadPerKey
  BY DEF Life, OneLiveHeadPerKey
<1>2. QED BY <1>1, LifeInductive, PTL

(***************************************************************************)
(* The store implements the journal: a step of the store appends one entry *)
(* for an event and leaves the others as they were, or is a stutter.       *)
(***************************************************************************)

\* The journal of a store that advanced by an event.
LEMMA JournalAdvances ==
    ASSUME NEW d \in Store, NEW e \in Store, Advances(d, e), AtMostOnceOf(e)
    PROVE  /\ Len(JournalOf(e)) = Len(JournalOf(d)) + 1
           /\ SubSeq(JournalOf(e), 1, Len(JournalOf(d))) = JournalOf(d)
           /\ LET slot == JournalOf(e)[Len(JournalOf(e))].slot IN
              HasKey(slot) => \A i \in DOMAIN JournalOf(d) : JournalOf(d)[i].slot # slot
<1> DEFINE n == Len(d.events)
           Entry(x, i) == [slot |-> Slot(x.events[i]), effect |-> Effect(x, i)]
<1>1. PICK call \in Request :
         /\ e.events = Append(d.events, call)
         /\ \A i \in DOMAIN d.events : Effect(e, i) = Effect(d, i)
  BY DEF Advances
<1>2. d.events \in Seq(Request)
  BY DEF Store
<1>3. /\ n \in Nat /\ DOMAIN d.events = 1..n /\ Len(e.events) = n + 1
      /\ DOMAIN e.events = 1..(n + 1) /\ e.events[n + 1] = call
      /\ \A i \in 1..n : e.events[i] = d.events[i]
  BY <1>1, <1>2
<1> HIDE DEF n
<1>4. /\ JournalOf(d) = [i \in 1..n |-> Entry(d, i)]
      /\ JournalOf(e) = [i \in 1..(n + 1) |-> Entry(e, i)]
  BY <1>3 DEF JournalOf, n
<1>5. \A i \in 1..n : Entry(e, i) = Entry(d, i)
  BY <1>1, <1>3
<1>6. Entry(e, n + 1).slot = Slot(call) /\ \A i \in 1..n : Entry(d, i).slot = Slot(d.events[i])
  BY <1>3
<1> HIDE DEF Entry
<1>7. Len(JournalOf(d)) = n /\ Len(JournalOf(e)) = n + 1
  BY <1>3, <1>4
<1>8. SubSeq(JournalOf(e), 1, n) = JournalOf(d)
  BY <1>3, <1>4, <1>5
<1>9. ASSUME HasKey(Slot(call)), NEW i \in 1..n PROVE Slot(d.events[i]) # Slot(call)
  <2>1. call.idem # None
    BY <1>9 DEF HasKey, Slot
  <2>2. n + 1 \in DOMAIN e.events /\ i \in DOMAIN e.events /\ i # n + 1
    BY <1>3
  <2>3. QED BY <1>3, <2>1, <2>2 DEF AtMostOnceOf
<1>10. /\ DOMAIN JournalOf(d) = 1..n
       /\ JournalOf(e)[n + 1].slot = Slot(call)
       /\ \A i \in 1..n : JournalOf(d)[i].slot = Slot(d.events[i])
  BY <1>3, <1>4, <1>6
<1>11. HasKey(Slot(call)) => \A i \in DOMAIN JournalOf(d) : JournalOf(d)[i].slot # Slot(call)
  BY <1>9, <1>10
<1>12. QED BY <1>7, <1>8, <1>10, <1>11

\* A call takes effect in one step or not at all, the checkpoint with its many
\* writes included; a keyed call takes effect at most once; and what an event
\* recorded never changes afterwards (the transactions of engine.rs, the
\* append-only tables).
THEOREM StoreImplementsJournal == Spec => ImplementsJournal
<1>1. Init => J!Init
  <2> SUFFICES ASSUME Init PROVE J!Init
    OBVIOUS
  <2>1. db.events = <<>>
    BY DEF Init, EmptyStore
  <2>2. JournalOf(db) = <<>>
    BY <2>1 DEF JournalOf
  <2>3. QED BY <2>2 DEF J!Init
<1>2. IInv /\ Life /\ (IInv /\ Life)' /\ [Next]_vars => [J!Next]_(JournalOf(db))
  <2> SUFFICES ASSUME IInv, Life, IInv', [Next]_vars
      PROVE  [J!Next]_(JournalOf(db))
    OBVIOUS
  <2>1. db \in Store /\ db' \in Store /\ AtMostOnceOf(db')
    BY DEF IInv, TypeOK, LogInv
  <2>2. CASE db' = db
    BY <2>2
  <2>3. CASE Advances(db, db')
    BY <2>1, <2>3, JournalAdvances DEF J!Next, J!Extends, J!Fresh
  <2>4. QED BY <2>2, <2>3, NextIsStoreStep, LifeStep
<1>3. QED BY <1>1, <1>2, LifeInductive, PTL DEF Spec, ImplementsJournal, J!Spec

(***************************************************************************)
(* What a store tells about its past: revisions are recorded in the order  *)
(* of their numbers, the head revision says what the head says, and a      *)
(* terminal state has the event or the link that caused it.                *)
(***************************************************************************)
Told(d) ==
    /\ \A r \in d.revisions : \A s \in RevisionsOf(d, r.mem) :
          r.num <= s.num => r.seq <= s.seq
    /\ \A r \in d.revisions : r.num = d.heads[r.mem].rev =>
          r.kind = d.heads[r.mem].kind /\ r.key = d.heads[r.mem].key
    /\ \A m \in Memory : Exists(d, m) =>
          /\ d.heads[m].state = "retracted" <=>
                \E t \in d.touched : t[2] = m /\ d.events[t[1]].op = "retract"
          /\ d.heads[m].state = "superseded" =>
                \E l \in d.links : l.dst = m /\ l.rel = "supersedes"

\* The same revision, retired or not.
Alike(q, r) ==
    /\ q.mem = r.mem /\ q.num = r.num /\ q.seq = r.seq
    /\ q.kind = r.kind /\ q.key = r.key /\ q.body = r.body

LEMMA RecordedAlike ==
    ASSUME NEW q \in RevisionRow, NEW r \in RevisionRow, Recorded(q) = Recorded(r)
    PROVE  Alike(q, r)
<1>1. \A x \in RevisionRow :
         /\ Recorded(x).mem = x.mem /\ Recorded(x).num = x.num /\ Recorded(x).seq = x.seq
         /\ Recorded(x).kind = x.kind /\ Recorded(x).key = x.key /\ Recorded(x).body = x.body
  BY DEF RevisionRow, Recorded
<1>2. QED BY <1>1 DEF Alike

\* The log grows, the rest stays.
LEMMA AppendTold ==
    ASSUME NEW d \in Store, NEW call \in Request, ScopeClosedOf(d), Told(d)
    PROVE  Told(AppendEvent(d, call))
<1> DEFINE a == AppendEvent(d, call)
<1>1. /\ \A i \in DOMAIN d.events : a.events[i] = d.events[i]
      /\ a.heads = d.heads /\ a.revisions = d.revisions /\ a.links = d.links
      /\ a.touched = d.touched
  BY AppendTables
<1> HIDE DEF a
<1>2. \A t \in d.touched : t[1] \in DOMAIN d.events
  BY DEF ScopeClosedOf
<1>3. \A x : RevisionsOf(a, x) = RevisionsOf(d, x)
  BY <1>1 DEF RevisionsOf
<1>4. Told(a)
  BY <1>1, <1>2, <1>3 DEF Told, Exists
<1>5. QED BY <1>4 DEF a

LEMMA ReceiptTold ==
    ASSUME NEW d \in Store, NEW call \in Request, NEW seq \in 1..MaxSeq,
           NEW written \in SUBSET Memory, call.op = "retract" => call.id \in Memory,
           Told(d)
    PROVE  Told(PutReceipt(d, call, seq, written))
<1> DEFINE p == PutReceipt(d, call, seq, written)
<1>1. /\ p.events = d.events /\ p.heads = d.heads /\ p.revisions = d.revisions
      /\ p.links = d.links /\ p.touched = d.touched
  BY ReceiptTables
<1> HIDE DEF p
<1>2. Told(p)
  BY <1>1 DEF Told, Exists, RevisionsOf
<1>3. QED BY <1>2 DEF p

LEMMA RetractTold ==
    ASSUME NEW d \in Store, NEW m \in Memory, Exists(d, m), NEW seq \in 1..MaxSeq,
           d.events[seq].op = "retract", Told(d)
    PROVE  Told(RetractHead(d, m, seq))
<1> DEFINE t == RetractHead(d, m, seq)
<1>1. /\ t.events = d.events /\ t.revisions = d.revisions /\ t.links = d.links
      /\ t.touched = d.touched \cup {<<seq, m>>}
      /\ t.heads = [x \in Memory |-> IF x = m THEN RetractedRow(d, m, seq) ELSE d.heads[x]]
  BY RetractTables
<1> HIDE DEF t
<1>2. /\ t.heads[m].state = "retracted" /\ t.heads[m].rev = d.heads[m].rev
      /\ t.heads[m].kind = d.heads[m].kind /\ t.heads[m].key = d.heads[m].key
  <2>1. d.heads[m] \in HeadRow
    BY DEF Store, Exists
  <2>2. QED BY <1>1, <2>1 DEF RetractedRow, HeadRow
<1>3. \A x \in Memory : x # m => t.heads[x] = d.heads[x]
  BY <1>1
<1>4. \A r \in t.revisions : r.mem \in Memory
  BY <1>1 DEF Store, RevisionRow
<1>5. \A r \in t.revisions : \A s \in RevisionsOf(t, r.mem) : r.num <= s.num => r.seq <= s.seq
  BY <1>1 DEF Told, RevisionsOf
<1>6. \A r \in t.revisions : r.num = t.heads[r.mem].rev =>
         r.kind = t.heads[r.mem].kind /\ r.key = t.heads[r.mem].key
  BY <1>1, <1>2, <1>3, <1>4 DEF Told
<1>7. ASSUME NEW x \in Memory, x # m, Exists(t, x)
      PROVE  /\ t.heads[x].state = "retracted" <=>
                   \E u \in t.touched : u[2] = x /\ t.events[u[1]].op = "retract"
             /\ t.heads[x].state = "superseded" =>
                   \E l \in t.links : l.dst = x /\ l.rel = "supersedes"
  <2>1. Exists(d, x)
    BY <1>3, <1>7 DEF Exists
  <2>2. \A u : u \in t.touched /\ u[2] = x <=> u \in d.touched /\ u[2] = x
    BY <1>1, <1>7
  <2>3. QED BY <1>1, <1>3, <1>7, <2>1, <2>2 DEF Told
<1>8. \E u \in t.touched : u[2] = m /\ t.events[u[1]].op = "retract"
  <2>1. <<seq, m>> \in t.touched
    BY <1>1
  <2>2. QED BY <1>1, <2>1
<1>9. QED BY <1>2, <1>5, <1>6, <1>7, <1>8 DEF Told, t

LEMMA UpsertTold ==
    ASSUME NEW d \in Store, NEW w \in Request, w.kind \in MemoryKind, NEW m \in Memory,
           NEW seq \in 1..MaxSeq, Accepts(d, w, m), Grounded(d), seq = Len(d.events),
           d.events[seq].op # "retract", Told(d)
    PROVE  Told(Upsert(d, w, m, seq))
<1> DEFINE u == Upsert(d, w, m, seq)
           W == WrittenRevision(d, w, m, seq)
           L(l) == [src |-> m, srcRev |-> NextRevision(d, m), dst |-> l.dst,
                    rel |-> l.rel, seq |-> seq]
<1>1. /\ u.events = d.events
      /\ u.heads = [y \in Memory |-> IF y = m THEN WrittenHead(d, w, m, seq)
                                     ELSE Linked(d.heads[y], y, w, seq)]
      /\ u.links = d.links \cup {L(l) : l \in w.links}
      /\ u.touched = d.touched \cup {<<seq, x>> : x \in Touched(w, m)}
  BY Zenon DEF Upsert
<1>2. /\ u \in Store /\ RevisionChainOf(u) /\ Exists(u, m)
  BY UpsertTyped, UpsertChain, UpsertHeads DEF Grounded
<1>3. /\ W \in u.revisions
      /\ \A r \in u.revisions :
            \/ r = W
            \/ \E q \in d.revisions : /\ q.mem = r.mem /\ q.num = r.num
                                      /\ q.seq = r.seq /\ q.evidence = r.evidence
      /\ \A x \in Memory : x # m => RevisionsOf(u, x) = RevisionsOf(d, x)
  BY UpsertRevisions
<1>4. /\ W.mem = m /\ W.num = NextRevision(d, m) /\ W.seq = seq
      /\ W.kind = w.kind /\ W.key = w.key
  BY DEF WrittenRevision
<1>5. /\ u.heads[m].rev = NextRevision(d, m) /\ u.heads[m].kind = w.kind
      /\ u.heads[m].key = w.key /\ u.heads[m].state \in Live
  BY <1>1 DEF WrittenHead, WrittenState, Live
<1>6. \A r \in u.revisions : r.mem \in Memory /\ r.num \in Nat /\ r.seq \in Nat
  BY <1>2 DEF Store, RevisionRow
<1>7. d.events \in Seq(Request) /\ seq \in Nat
  BY DEF Store
<1>8. \A r \in u.revisions : r.seq <= seq
  <2>1. \A q \in d.revisions : q.seq \in 1..seq
    BY <1>7 DEF Grounded
  <2>2. QED BY <1>3, <1>4, <1>7, <2>1
<1>9. \A r \in RevisionsOf(u, m) : r.num \in 1..u.heads[m].rev /\
         (r.num = u.heads[m].rev => r = W)
  <2>1. W \in RevisionsOf(u, m) /\ W.num = u.heads[m].rev
    BY <1>3, <1>4, <1>5 DEF RevisionsOf
  <2>2. QED BY <1>2, <2>1 DEF RevisionChainOf
<1>10. \A r \in RevisionsOf(u, m) : r = W \/ r.num < W.num
  <2>1. u.heads[m].rev \in Nat
    BY <1>2 DEF Store, HeadRow, Exists
  <2>2. QED BY <1>4, <1>5, <1>9, <2>1
<1>11. \A x \in Memory : x # m =>
          /\ Exists(u, x) <=> Exists(d, x)
          /\ Exists(d, x) =>
                /\ u.heads[x].kind = d.heads[x].kind
                /\ u.heads[x].key = d.heads[x].key
                /\ u.heads[x].rev = d.heads[x].rev
                /\ u.heads[x].state = "retracted" <=> d.heads[x].state = "retracted"
  BY UpsertOthers
<1>12. \A r \in d.revisions : Exists(d, r.mem)
  BY DEF Grounded, ScopeClosedOf
<1> HIDE DEF W, L
<1>13. ASSUME NEW r \in u.revisions, NEW s \in RevisionsOf(u, r.mem), r.num <= s.num
       PROVE  r.seq <= s.seq
  <2>1. CASE r.mem = m
    <3>1. CASE s = W
      BY <1>4, <1>8, <3>1
    <3>2. CASE s # W
      <4>1. s.num < W.num /\ r \in RevisionsOf(u, m) /\ s \in RevisionsOf(u, m)
        BY <1>10, <2>1, <3>2 DEF RevisionsOf
      <4>2. r # W
        BY <1>6, <1>13, <4>1 DEF RevisionsOf
      <4>3. PICK q \in d.revisions : q.mem = r.mem /\ q.num = r.num /\ q.seq = r.seq
        BY <1>3, <4>2
      <4>4. PICK p \in d.revisions : p.mem = s.mem /\ p.num = s.num /\ p.seq = s.seq
        BY <1>3, <3>2, <4>1 DEF RevisionsOf
      <4>5. p \in RevisionsOf(d, q.mem)
        BY <4>3, <4>4 DEF RevisionsOf
      <4>6. QED BY <1>13, <4>3, <4>4, <4>5 DEF Told
    <3>3. QED BY <3>1, <3>2
  <2>2. CASE r.mem # m
    <3>1. RevisionsOf(u, r.mem) = RevisionsOf(d, r.mem)
      BY <1>3, <1>6, <2>2
    <3>2. r \in d.revisions /\ s \in RevisionsOf(d, r.mem)
      BY <3>1 DEF RevisionsOf
    <3>3. QED BY <1>13, <3>2 DEF Told
  <2>3. QED BY <2>1, <2>2
<1>14. ASSUME NEW r \in u.revisions, r.num = u.heads[r.mem].rev
       PROVE  r.kind = u.heads[r.mem].kind /\ r.key = u.heads[r.mem].key
  <2>1. CASE r.mem = m
    <3>1. r = W
      BY <1>9, <1>14, <2>1 DEF RevisionsOf
    <3>2. QED BY <1>4, <1>5, <2>1, <3>1
  <2>2. CASE r.mem # m
    <3>1. r \in d.revisions
      BY <1>3, <1>6, <2>2 DEF RevisionsOf
    <3>2. QED BY <1>6, <1>11, <1>12, <1>14, <2>2, <3>1 DEF Told
  <2>3. QED BY <2>1, <2>2
<1>15. \A t \in d.touched : Exists(d, t[2])
  BY DEF Grounded, ScopeClosedOf
<1>16. \A t \in u.touched : u.events[t[1]].op = "retract" => t \in d.touched
  BY <1>1
<1>17. ASSUME NEW x \in Memory, Exists(u, x), x # m
       PROVE  /\ u.heads[x].state = "retracted" <=>
                    \E t \in u.touched : t[2] = x /\ u.events[t[1]].op = "retract"
              /\ u.heads[x].state = "superseded" =>
                    \E l \in u.links : l.dst = x /\ l.rel = "supersedes"
  <2>1. Exists(d, x)
    BY <1>11, <1>17
  <2>2. u.heads[x].state = "retracted" <=>
           \E t \in u.touched : t[2] = x /\ u.events[t[1]].op = "retract"
    <3>1. d.touched \subseteq u.touched
      BY <1>1
    <3>2. QED BY <1>1, <1>11, <1>16, <1>17, <2>1, <3>1 DEF Told
  <2>3. ASSUME u.heads[x].state = "superseded"
        PROVE  \E l \in u.links : l.dst = x /\ l.rel = "supersedes"
    <3>1. CASE x \in LinkTargets(w, "supersedes")
      <4>1. PICK k \in w.links : k.rel = "supersedes" /\ k.dst = x
        BY <3>1 DEF LinkTargets
      <4>2. L(k) \in u.links /\ L(k).dst = x /\ L(k).rel = "supersedes"
        BY <1>1, <4>1 DEF L
      <4>3. QED BY <4>2
    <3>2. CASE x \notin LinkTargets(w, "supersedes")
      <4>1. u.heads[x] = Linked(d.heads[x], x, w, seq)
        BY <1>1, <1>17
      <4>2. d.heads[x] \in HeadRow
        BY <2>1 DEF Store, Exists
      <4>3. [d.heads[x] EXCEPT !.state = "contested", !.updated = seq].state = "contested"
        BY <4>2 DEF HeadRow
      <4>4. d.heads[x].state = "superseded"
        BY <2>3, <3>2, <4>1, <4>3 DEF Linked
      <4>5. PICK l \in d.links : l.dst = x /\ l.rel = "supersedes"
        BY <2>1, <4>4 DEF Told
      <4>6. l \in u.links
        BY <1>1
      <4>7. QED BY <4>5, <4>6
    <3>3. QED BY <3>1, <3>2
  <2>4. QED BY <2>2, <2>3
<1>18. /\ u.heads[m].state # "retracted" /\ u.heads[m].state # "superseded"
       /\ ~\E t \in u.touched : t[2] = m /\ u.events[t[1]].op = "retract"
  <2>1. u.heads[m].state # "retracted" /\ u.heads[m].state # "superseded"
    BY <1>5 DEF Live
  <2>2. ASSUME NEW t \in u.touched, t[2] = m, u.events[t[1]].op = "retract" PROVE FALSE
    <3>1. t \in d.touched /\ Exists(d, m)
      BY <1>15, <1>16, <2>2
    <3>2. d.heads[m].state = "retracted"
      BY <1>1, <2>2, <3>1 DEF Told
    <3>3. QED BY <3>1, <3>2 DEF Accepts, Live
  <2>3. QED BY <2>1, <2>2
<1> HIDE DEF u
<1>19. Told(u)
  BY <1>13, <1>14, <1>17, <1>18 DEF Told
<1>20. QED BY <1>19 DEF u

(***************************************************************************)
(* Every reachable store and open checkpoint is told.                      *)
(***************************************************************************)
ToldInv == Told(db) /\ (txn # None => Told(txn.work))

LEMMA WriteTold ==
    ASSUME NEW d \in Store, Grounded(d), Told(d), Len(d.events) < MaxSeq,
           NEW call \in Request, call.kind \in MemoryKind, call.op # "retract",
           NEW m \in Memory, Accepts(d, call, m)
    PROVE  Told(Upsert(AppendEvent(d, call), call, m, Len(d.events) + 1))
<1> DEFINE seq == Len(d.events) + 1
           a == AppendEvent(d, call)
<1>1. seq \in 1..MaxSeq
  BY StoreAssumption DEF Store
<1>2. /\ a \in Store /\ Len(a.events) = seq /\ a.events[seq] = call
      /\ DOMAIN a.events = DOMAIN d.events \cup {seq}
      /\ \A i \in DOMAIN d.events : a.events[i] = d.events[i]
      /\ a.heads = d.heads
  BY AppendTables
<1>3. Grounded(a) /\ Told(a)
  BY AppendGrounded, AppendTold DEF Grounded
<1> HIDE DEF a, seq
<1>4. Accepts(a, call, m)
  BY <1>2 DEF Accepts, ValidEvidence, ValidLinks, Exists
<1>5. Told(Upsert(a, call, m, seq))
  BY <1>1, <1>2, <1>3, <1>4, UpsertTold
<1>6. QED BY <1>5 DEF a, seq

LEMMA ToldStep ==
    ASSUME IInv, Life, ToldInv, StoreStep
    PROVE  ToldInv'
<1>1. db \in Store /\ Grounded(db) /\ Told(db)
  BY DEF IInv, TypeOK, ToldInv
<1>2. ASSUME NEW call \in ObserveCalls, Observe(call) PROVE ToldInv'
  <2>1. /\ call \in Request /\ call.op # "retract"
        /\ Len(db.events) + 1 \in 1..MaxSeq /\ txn' = None
        /\ db' = PutReceipt(AppendEvent(db, call), call, Len(db.events) + 1, {})
    BY <1>1, <1>2, CallsAreRequests, CallOps, StoreAssumption
    DEF Observe, MayExecute, Store
  <2>2. AppendEvent(db, call) \in Store /\ Told(AppendEvent(db, call))
    BY <1>1, <2>1, AppendTables, AppendTold DEF Grounded
  <2>3. Told(db')
    BY <2>1, <2>2, ReceiptTold
  <2>4. QED BY <2>1, <2>3 DEF ToldInv
<1>3. ASSUME NEW call \in RememberCalls, Remember(call) PROVE ToldInv'
  <2>1. /\ call \in Request /\ call.op # "retract" /\ call.kind \in MemoryKind
        /\ Len(db.events) < MaxSeq /\ txn' = None
    BY <1>3, CallsAreRequests, CallOps DEF Remember, MayExecute
  <2>2. PICK m \in Targets(db, call) :
           /\ Accepts(db, call, m)
           /\ db' = PutReceipt(Upsert(AppendEvent(db, call), call, m, Len(db.events) + 1),
                               call, Len(db.events) + 1, {m})
    BY <1>3 DEF Remember
  <2>3. m \in Memory
    BY <2>1, <2>2, TargetsAreMemories
  <2>4. /\ Len(db.events) + 1 \in 1..MaxSeq
        /\ Upsert(AppendEvent(db, call), call, m, Len(db.events) + 1) \in Store
    BY <1>1, <2>1, <2>2, <2>3, WriteFacts
  <2>5. Told(Upsert(AppendEvent(db, call), call, m, Len(db.events) + 1))
    BY <1>1, <2>1, <2>2, <2>3, WriteTold
  <2>6. {m} \in SUBSET Memory
    BY <2>3
  <2>7. Told(db')
    BY <2>1, <2>2, <2>4, <2>5, <2>6, ReceiptTold
  <2>8. QED BY <2>1, <2>7 DEF ToldInv
<1>4. ASSUME NEW call \in RetractCalls, Retract(call) PROVE ToldInv'
  <2> DEFINE seq == Len(db.events) + 1
             a == AppendEvent(db, call)
  <2>1. /\ call \in Request /\ call.id \in Memory /\ call.op = "retract"
        /\ seq \in 1..MaxSeq /\ txn' = None /\ Exists(db, call.id)
        /\ db' = PutReceipt(RetractHead(a, call.id, seq), call, seq, {call.id})
    BY <1>1, <1>4, CallsAreRequests, StoreAssumption
    DEF Retract, MayExecute, Store, RetractCalls
  <2>2. a \in Store /\ a.events[seq] = call /\ a.heads = db.heads
    BY <1>1, <2>1, AppendTables
  <2>3. Told(a)
    BY <1>1, <2>1, AppendTold DEF Grounded
  <2> HIDE DEF a, seq
  <2>4. Exists(a, call.id)
    BY <2>1, <2>2 DEF Exists
  <2>5. RetractHead(a, call.id, seq) \in Store /\ Told(RetractHead(a, call.id, seq))
    BY <2>1, <2>2, <2>3, <2>4, RetractTables, RetractTold
  <2>6. {call.id} \in SUBSET Memory
    BY <2>1
  <2>7. Told(db')
    BY <2>1, <2>5, <2>6, ReceiptTold
  <2>8. QED BY <2>1, <2>7 DEF ToldInv
<1>5. ASSUME NEW call \in CheckpointCalls, BeginCheckpoint(call) PROVE ToldInv'
  <2>1. /\ call \in Request /\ call.op # "retract" /\ call.kind \in MemoryKind
        /\ Len(db.events) < MaxSeq /\ db' = db
    BY <1>5, CallsAreRequests, CallOps DEF BeginCheckpoint, MayExecute
  <2>2. PICK m \in Targets(db, call) :
           /\ Accepts(db, call, m)
           /\ txn'.work = Upsert(AppendEvent(db, call), call, m, Len(db.events) + 1)
    BY <1>5 DEF BeginCheckpoint
  <2>3. m \in Memory
    BY <2>1, <2>2, TargetsAreMemories
  <2>4. Told(txn'.work)
    BY <1>1, <2>1, <2>2, <2>3, WriteTold
  <2>5. QED BY <1>1, <2>1, <2>4 DEF ToldInv
<1>6. CASE WriteChild
  <2> DEFINE W == ChildWrite(txn.call, Head(txn.todo), txn.episode)
  <2>1. /\ db' = db /\ txn \in Transaction /\ TxnInv /\ Told(txn.work) /\ txn.todo # <<>>
    BY <1>6 DEF IInv, TypeOK, ToldInv, WriteChild
  <2>2. /\ txn.call \in Request /\ txn.work \in Store /\ txn.episode \in Memory
        /\ txn.todo \in Seq(Child) /\ txn.seq \in 1..MaxSeq
    BY <2>1 DEF Transaction
  <2>3. Head(txn.todo) \in Child
    BY <2>1, <2>2
  <2>4. W \in Request /\ W.kind \in MemoryKind
    BY <2>2, <2>3, ChildIsRequest
  <2>5. PICK m \in Targets(txn.work, W) :
           /\ Accepts(txn.work, W, m)
           /\ txn' = [txn EXCEPT !.work = Upsert(txn.work, W, m, txn.seq),
                                 !.todo = Tail(txn.todo),
                                 !.written = txn.written \cup {m}]
    BY <1>6 DEF WriteChild
  <2> HIDE DEF W
  <2>6. m \in Memory
    BY <2>4, <2>5, TargetsAreMemories
  <2>7. txn.seq = Len(txn.work.events) /\ txn.work.events[txn.seq].op # "retract"
    <3>1. db.events \in Seq(Request)
      BY <1>1 DEF Store
    <3>2. /\ txn.seq = Len(db.events) + 1 /\ txn.work.events = Append(db.events, txn.call)
          /\ txn.call.op = "checkpoint"
      BY <2>1 DEF TxnInv
    <3>3. QED BY <2>2, <3>1, <3>2
  <2>8. Told(Upsert(txn.work, W, m, txn.seq))
    BY <2>1, <2>2, <2>4, <2>5, <2>6, <2>7, UpsertTold DEF TxnInv
  <2>9. txn'.work = Upsert(txn.work, W, m, txn.seq)
    BY <2>1, <2>5 DEF Transaction
  <2>10. QED BY <1>1, <2>1, <2>8, <2>9 DEF ToldInv
<1>7. CASE CommitCheckpoint
  <2>1. /\ txn \in Transaction /\ TxnInv /\ Told(txn.work) /\ txn' = None
        /\ db' = PutReceipt(txn.work, txn.call, txn.seq, txn.written)
    BY <1>7 DEF IInv, TypeOK, ToldInv, CommitCheckpoint
  <2>2. /\ txn.call \in Request /\ txn.work \in Store /\ txn.call.op # "retract"
        /\ txn.seq \in 1..MaxSeq /\ txn.written \in SUBSET Memory
    BY <2>1 DEF Transaction, TxnInv
  <2>3. Told(db')
    BY <2>1, <2>2, ReceiptTold
  <2>4. QED BY <2>1, <2>3 DEF ToldInv
<1>8. ASSUME db' = db, txn' = txn \/ txn' = None PROVE ToldInv'
  BY <1>8 DEF ToldInv
<1>9. CASE Rollback
  BY <1>8, <1>9 DEF Rollback
<1>10. CASE UNCHANGED vars
  BY <1>8, <1>10 DEF vars
<1>11. QED BY <1>2, <1>3, <1>4, <1>5, <1>6, <1>7, <1>9, <1>10 DEF StoreStep

LEMMA InitTold == Init => ToldInv
BY DEF Init, EmptyStore, ToldInv, Told, Exists

----------------------------------------------------------------------------
\* The rows of one event, one by one.
LEMMA RecordsOfEvent ==
    ASSUME NEW d, NEW e, NEW i, SameRecords(d, e, i)
    PROVE  /\ \A r \in d.revisions : r.seq = i =>
                 \E q \in e.revisions : q.seq = i /\ Recorded(q) = Recorded(r)
           /\ \A r \in e.revisions : r.seq = i =>
                 \E q \in d.revisions : q.seq = i /\ Recorded(q) = Recorded(r)
           /\ \A t : t[1] = i => (t \in d.touched <=> t \in e.touched)
           /\ \A l : l.seq = i => (l \in d.links <=> l \in e.links)
<1> DEFINE D == {Recorded(r) : r \in {x \in d.revisions : x.seq = i}}
           E == {Recorded(r) : r \in {x \in e.revisions : x.seq = i}}
<1>1. D = E
  BY DEF SameRecords
<1>2. ASSUME NEW r \in d.revisions, r.seq = i
      PROVE  \E q \in e.revisions : q.seq = i /\ Recorded(q) = Recorded(r)
  <2>1. Recorded(r) \in D
    BY <1>2
  <2>2. Recorded(r) \in E
    BY <1>1, <2>1
  <2>3. QED BY <2>2
<1>3. ASSUME NEW r \in e.revisions, r.seq = i
      PROVE  \E q \in d.revisions : q.seq = i /\ Recorded(q) = Recorded(r)
  <2>1. Recorded(r) \in E
    BY <1>3
  <2>2. Recorded(r) \in D
    BY <1>1, <2>1
  <2>3. QED BY <2>2
<1>4. \A t : t[1] = i => (t \in d.touched <=> t \in e.touched)
  <2> SUFFICES ASSUME NEW t, t[1] = i PROVE t \in d.touched <=> t \in e.touched
    OBVIOUS
  <2>1. t \in {x \in d.touched : x[1] = i} <=> t \in {x \in e.touched : x[1] = i}
    BY DEF SameRecords
  <2>2. QED BY <2>1
<1>5. \A l : l.seq = i => (l \in d.links <=> l \in e.links)
  <2> SUFFICES ASSUME NEW l, l.seq = i PROVE l \in d.links <=> l \in e.links
    OBVIOUS
  <2>1. l \in {x \in d.links : x.seq = i} <=> l \in {x \in e.links : x.seq = i}
    BY DEF SameRecords
  <2>2. QED BY <2>1
<1>6. QED BY <1>2, <1>3, <1>4, <1>5

(***************************************************************************)
(* Whose memories a write changes, and what the log says of them: the      *)
(* memories of the call's scope, and an event that retracts or links to a  *)
(* memory is mapped to it.                                                 *)
(***************************************************************************)
Moved(d, e, s) ==
    \A x \in Memory :
       \/ e.heads[x] = d.heads[x]
       \/ /\ Exists(e, x) /\ e.heads[x].scope = s
          /\ Exists(d, x) => d.heads[x].scope = s
Traced(d) ==
    \A i \in DOMAIN d.events :
       /\ d.events[i].op = "retract" => <<i, d.events[i].id>> \in d.touched
       /\ \A l \in d.events[i].links : <<i, l.dst>> \in d.touched
TracedInv ==
    /\ Traced(db)
    /\ txn # None => txn.call.links = {} /\ Moved(db, txn.work, txn.call.scope)

LEMMA UpsertMoves ==
    ASSUME NEW d \in Store, NEW w \in Request, w.kind \in MemoryKind, NEW m \in Memory,
           NEW seq \in 1..MaxSeq, Accepts(d, w, m)
    PROVE  Moved(d, Upsert(d, w, m, seq), w.scope)
<1> DEFINE u == Upsert(d, w, m, seq)
<1> SUFFICES ASSUME NEW x \in Memory, u.heads[x] # d.heads[x]
             PROVE  /\ Exists(u, x) /\ u.heads[x].scope = w.scope
                    /\ Exists(d, x) => d.heads[x].scope = w.scope
  BY DEF Moved
<1>1. CASE x = m
  BY <1>1, UpsertHeads DEF Accepts
<1>2. CASE x # m
  <2>1. /\ Exists(u, x) <=> Exists(d, x)
        /\ Exists(d, x) => u.heads[x].scope = d.heads[x].scope
        /\ u.heads[x] = d.heads[x] \/ \E l \in w.links : l.dst = x
    BY <1>2, UpsertOthers
  <2> HIDE DEF u
  <2>2. PICK l \in w.links : l.dst = x
    BY <2>1
  <2>3. Exists(d, x) /\ d.heads[x].scope = w.scope
    BY <2>2 DEF Accepts, ValidLinks
  <2>4. QED BY <2>1, <2>3
<1>3. QED BY <1>1, <1>2

LEMMA MovedOn ==
    ASSUME NEW d, NEW e, NEW f, NEW s, Moved(d, e, s), Moved(e, f, s)
    PROVE  Moved(d, f, s)
BY DEF Moved, Exists

\* A write as the operations make it, on the store with its event.
LEMMA WriteMoves ==
    ASSUME NEW d \in Store, NEW call \in Request, call.kind \in MemoryKind,
           NEW m \in Memory, Accepts(d, call, m), Len(d.events) < MaxSeq
    PROVE  Moved(d, Upsert(AppendEvent(d, call), call, m, Len(d.events) + 1), call.scope)
<1> DEFINE a == AppendEvent(d, call)
           seq == Len(d.events) + 1
<1>1. seq \in 1..MaxSeq
  BY StoreAssumption DEF Store
<1>2. a \in Store /\ a.heads = d.heads /\ DOMAIN a.events = DOMAIN d.events \cup {seq}
      /\ \A i \in DOMAIN d.events : a.events[i] = d.events[i]
  BY AppendTables
<1> HIDE DEF a, seq
<1>3. Accepts(a, call, m)
  BY <1>2 DEF Accepts, ValidEvidence, ValidLinks, Exists
<1>4. Moved(a, Upsert(a, call, m, seq), call.scope)
  BY <1>1, <1>2, <1>3, UpsertMoves
<1>5. Moved(d, Upsert(a, call, m, seq), call.scope)
  BY <1>2, <1>4 DEF Moved, Exists
<1>6. QED BY <1>5 DEF a, seq

LEMMA ReceiptMoves ==
    ASSUME NEW d, NEW e \in Store, NEW call \in Request, NEW seq \in 1..MaxSeq,
           NEW written \in SUBSET Memory, call.op = "retract" => call.id \in Memory,
           NEW s, Moved(d, e, s)
    PROVE  Moved(d, PutReceipt(e, call, seq, written), s)
<1> DEFINE p == PutReceipt(e, call, seq, written)
<1>1. p.heads = e.heads
  BY ReceiptTables
<1> HIDE DEF p
<1>2. Moved(d, p, s)
  BY <1>1 DEF Moved, Exists
<1>3. QED BY <1>2 DEF p

LEMMA TracedOn ==
    ASSUME NEW d \in Store, NEW e, NEW call, e.events = Append(d.events, call), Traced(d),
           d.touched \subseteq e.touched,
           call.op = "retract" => <<Len(d.events) + 1, call.id>> \in e.touched,
           \A l \in call.links : <<Len(d.events) + 1, l.dst>> \in e.touched
    PROVE  Traced(e)
<1>1. d.events \in Seq(Request)
  BY DEF Store
<1>2. ASSUME NEW i \in DOMAIN e.events
      PROVE  \/ i \in DOMAIN d.events /\ e.events[i] = d.events[i]
             \/ i = Len(d.events) + 1 /\ e.events[i] = call
  BY <1>1, <1>2
<1>3. QED BY <1>2 DEF Traced

\* What a receipt of a call adds.
LEMMA ReceiptAdds ==
    ASSUME NEW d \in Store, NEW e \in Store, e.receipts = d.receipts, NEW call \in Request,
           NEW seq \in 1..MaxSeq, NEW written \in SUBSET Memory,
           call.op = "retract" => call.id \in Memory
    PROVE  LET p == PutReceipt(e, call, seq, written) IN
           /\ d.receipts \subseteq p.receipts
           /\ \A r \in p.receipts \ d.receipts :
                 r.slot = Slot(call) /\ r.hash = Fingerprint(call)
<1> DEFINE p == PutReceipt(e, call, seq, written)
           R == ReceiptRow(call, seq, written)
<1>1. /\ call.idem = None => p.receipts = e.receipts
      /\ call.idem # None => p.receipts = e.receipts \cup {R}
  BY ReceiptTables
<1>2. R.slot = Slot(call) /\ R.hash = Fingerprint(call)
  BY DEF ReceiptRow
<1> HIDE DEF p, R
<1>3. /\ d.receipts \subseteq p.receipts
      /\ \A r \in p.receipts \ d.receipts : r.slot = Slot(call) /\ r.hash = Fingerprint(call)
  BY <1>1, <1>2
<1>4. QED BY <1>3 DEF p

\* The receipts a step of the store adds are those of one call.
ReceiptsOf(call) ==
    /\ db.receipts \subseteq db'.receipts
    /\ \A r \in db'.receipts \ db.receipts :
          r.slot = Slot(call) /\ r.hash = Fingerprint(call)

LEMMA ObserveMoves ==
    ASSUME IInv, Life, TracedInv, NEW call \in ObserveCalls, Observe(call)
    PROVE  TracedInv' /\ Moved(db, db', call.scope) /\ ReceiptsOf(call)
<1> DEFINE a == AppendEvent(db, call)
           seq == Len(db.events) + 1
<1>1. /\ db \in Store /\ Len(db.events) < MaxSeq /\ txn' = None
      /\ db' = PutReceipt(a, call, seq, {}) /\ Traced(db)
  BY DEF IInv, TypeOK, Observe, MayExecute, TracedInv
<1>2. call \in Request /\ call.op = "observe" /\ call.links = {}
  BY CallsAreRequests DEF ObserveCalls
<1>3. seq \in 1..MaxSeq
  BY <1>1, StoreAssumption DEF Store
<1>4. /\ a \in Store /\ a.events = Append(db.events, call) /\ a.heads = db.heads
      /\ a.touched = db.touched /\ a.receipts = db.receipts
  BY <1>1, <1>2, AppendTables
<1> HIDE DEF a, seq
<1>5. Moved(db, a, call.scope)
  BY <1>4 DEF Moved
<1>6. Moved(db, db', call.scope) /\ ReceiptsOf(call)
  BY <1>1, <1>2, <1>3, <1>4, <1>5, ReceiptMoves, ReceiptAdds DEF ReceiptsOf
<1>7. db'.events = Append(db.events, call) /\ db'.touched = db.touched
  BY <1>1, <1>2, <1>3, <1>4, ReceiptTables
<1>8. Traced(db')
  BY <1>1, <1>2, <1>7, TracedOn
<1>9. QED BY <1>1, <1>6, <1>8 DEF TracedInv

LEMMA RememberMoves ==
    ASSUME IInv, Life, TracedInv, NEW call \in RememberCalls, Remember(call)
    PROVE  TracedInv' /\ Moved(db, db', call.scope) /\ ReceiptsOf(call)
<1> DEFINE seq == Len(db.events) + 1
           U(m) == Upsert(AppendEvent(db, call), call, m, seq)
<1>1. /\ db \in Store /\ Grounded(db) /\ Len(db.events) < MaxSeq /\ txn' = None /\ Traced(db)
  BY DEF IInv, TypeOK, Remember, MayExecute, TracedInv
<1>2. call \in Request /\ call.op # "retract" /\ call.kind \in MemoryKind
  BY CallsAreRequests, CallOps
<1>3. PICK m \in Targets(db, call) :
         Accepts(db, call, m) /\ db' = PutReceipt(U(m), call, seq, {m})
  BY DEF Remember
<1>4. m \in Memory /\ {m} \in SUBSET Memory
  BY <1>2, <1>3, TargetsAreMemories
<1>5. /\ seq \in 1..MaxSeq /\ U(m) \in Store
      /\ U(m).events = Append(db.events, call) /\ U(m).receipts = db.receipts
  BY <1>1, <1>2, <1>3, <1>4, WriteFacts
<1>6. Moved(db, U(m), call.scope)
  BY <1>1, <1>2, <1>3, <1>4, WriteMoves
<1>7. U(m).touched = db.touched \cup {<<seq, x>> : x \in Touched(call, m)}
  <2>1. U(m).touched = AppendEvent(db, call).touched \cup {<<seq, x>> : x \in Touched(call, m)}
    BY Zenon DEF Upsert
  <2>2. AppendEvent(db, call).touched = db.touched
    BY <1>1, <1>2, AppendTables
  <2>3. QED BY <2>1, <2>2
<1> DEFINE u == U(m)
<1> HIDE DEF U, seq, u
<1>8. \A l \in call.links : <<seq, l.dst>> \in u.touched
  BY <1>7 DEF Touched, u
<1>9. Moved(db, db', call.scope) /\ ReceiptsOf(call)
  BY <1>1, <1>2, <1>3, <1>4, <1>5, <1>6, ReceiptMoves, ReceiptAdds DEF ReceiptsOf
<1>10. db'.events = Append(db.events, call) /\ db'.touched = u.touched
  BY <1>2, <1>3, <1>4, <1>5, ReceiptTables DEF u
<1>11. Traced(db')
  BY <1>1, <1>2, <1>7, <1>8, <1>10, TracedOn DEF seq, u
<1>12. QED BY <1>1, <1>9, <1>11 DEF TracedInv

LEMMA RetractMoves ==
    ASSUME IInv, Life, TracedInv, NEW call \in RetractCalls, Retract(call)
    PROVE  TracedInv' /\ Moved(db, db', call.scope) /\ ReceiptsOf(call)
<1> DEFINE seq == Len(db.events) + 1
           a == AppendEvent(db, call)
           t == RetractHead(a, call.id, seq)
<1>1. /\ db \in Store /\ Len(db.events) < MaxSeq /\ txn' = None /\ Traced(db)
      /\ Exists(db, call.id) /\ call.scope = db.heads[call.id].scope
      /\ db' = PutReceipt(t, call, seq, {call.id})
  BY DEF IInv, TypeOK, Retract, MayExecute, TracedInv
<1>2. call \in Request /\ call.id \in Memory /\ call.links = {}
  BY CallsAreRequests DEF RetractCalls
<1>3. seq \in 1..MaxSeq /\ {call.id} \in SUBSET Memory
  BY <1>1, <1>2, StoreAssumption DEF Store
<1>4. /\ a \in Store /\ a.events = Append(db.events, call) /\ a.heads = db.heads
      /\ a.touched = db.touched /\ a.receipts = db.receipts
  BY <1>1, <1>2, AppendTables
<1> HIDE DEF a, seq
<1>5. /\ t \in Store /\ t.events = a.events /\ t.receipts = a.receipts
      /\ t.touched = a.touched \cup {<<seq, call.id>>}
      /\ t.heads = [x \in Memory |-> IF x = call.id THEN RetractedRow(a, call.id, seq)
                                     ELSE a.heads[x]]
  BY <1>1, <1>2, <1>3, <1>4, RetractTables DEF Exists
<1> HIDE DEF t
<1>6. Moved(db, t, call.scope)
  <2>1. a.heads[call.id] \in HeadRow
    BY <1>1, <1>2, <1>4 DEF Store, Exists
  <2>2. RetractedRow(a, call.id, seq).scope = call.scope
    BY <1>1, <1>4, <2>1 DEF RetractedRow, HeadRow
  <2>3. t.heads[call.id].scope = call.scope
    BY <1>2, <1>5, <2>2
  <2>4. t.heads[call.id] # None
    <3>1. RetractedRow(a, call.id, seq) \in HeadRow
      BY <1>3, <2>1 DEF RetractedRow, HeadRow, State
    <3>2. QED BY <1>2, <1>5, <3>1, NoneAssumption
  <2>5. QED BY <1>1, <1>4, <1>5, <2>3, <2>4 DEF Moved, Exists
<1>7. Moved(db, db', call.scope) /\ ReceiptsOf(call)
  BY <1>1, <1>2, <1>3, <1>4, <1>5, <1>6, ReceiptMoves, ReceiptAdds DEF ReceiptsOf
<1>8. db'.events = Append(db.events, call) /\ db'.touched = t.touched
  BY <1>1, <1>2, <1>3, <1>4, <1>5, ReceiptTables
<1>9. Traced(db')
  <2>1. seq = Len(db.events) + 1
    BY DEF seq
  <2>2. call.op = "retract" => <<seq, call.id>> \in db'.touched
    BY <1>5, <1>8
  <2>3. db.touched \subseteq db'.touched
    BY <1>4, <1>5, <1>8
  <2>4. QED BY <1>1, <1>2, <1>8, <2>1, <2>2, <2>3, TracedOn
<1>10. QED BY <1>1, <1>7, <1>9 DEF TracedInv

LEMMA BeginCheckpointMoves ==
    ASSUME IInv, Life, TracedInv, NEW call \in CheckpointCalls, BeginCheckpoint(call)
    PROVE  TracedInv' /\ txn' # None /\ txn'.call = call
<1> DEFINE U(m) == Upsert(AppendEvent(db, call), call, m, Len(db.events) + 1)
<1>1. db \in Store /\ Len(db.events) < MaxSeq /\ db' = db /\ Traced(db)
  BY DEF IInv, TypeOK, BeginCheckpoint, MayExecute, TracedInv
<1>2. call \in Request /\ call.kind \in MemoryKind /\ call.links = {}
  BY CallsAreRequests DEF CheckpointCalls
<1>3. PICK m \in Targets(db, call) :
         /\ Accepts(db, call, m)
         /\ txn' = [call |-> call, seq |-> Len(db.events) + 1, episode |-> m,
                    todo |-> call.children, written |-> {m}, work |-> U(m)]
  BY DEF BeginCheckpoint
<1>4. m \in Memory
  BY <1>2, <1>3, TargetsAreMemories
<1>5. Moved(db, U(m), call.scope)
  BY <1>1, <1>2, <1>3, <1>4, WriteMoves
<1>6. txn' # None
  <2>3. U(m) \in Store /\ Len(db.events) + 1 \in 1..MaxSeq
    BY <1>1, <1>2, <1>3, <1>4, WriteFacts DEF IInv
  <2>4. call.children \in Seq(Child)
    BY <1>2 DEF Request
  <2> HIDE DEF U
  <2>5. txn' \in Transaction
    BY <1>2, <1>3, <1>4, <2>3, <2>4 DEF Transaction
  <2>6. QED BY <2>5, NoneAssumption
<1> HIDE DEF U
<1>7. txn'.call = call /\ txn'.work = U(m)
  BY <1>3
<1>8. QED BY <1>1, <1>2, <1>5, <1>6, <1>7 DEF TracedInv

LEMMA WriteChildMoves ==
    ASSUME IInv, Life, TracedInv, WriteChild
    PROVE  TracedInv' /\ txn' # None /\ txn'.call = txn.call
<1> DEFINE W == ChildWrite(txn.call, Head(txn.todo), txn.episode)
           U(m) == Upsert(txn.work, W, m, txn.seq)
<1>1. /\ db' = db /\ txn \in Transaction /\ txn # None /\ TxnInv /\ txn.todo # <<>>
      /\ Traced(db)
      /\ txn.call.links = {} /\ Moved(db, txn.work, txn.call.scope)
  BY DEF IInv, TypeOK, TracedInv, WriteChild
<1>2. /\ txn.call \in Request /\ txn.work \in Store /\ txn.episode \in Memory
      /\ txn.todo \in Seq(Child) /\ txn.seq \in 1..MaxSeq
  BY <1>1 DEF Transaction
<1>3. Head(txn.todo) \in Child
  BY <1>1, <1>2
<1>4. W \in Request /\ W.kind \in MemoryKind /\ W.scope = txn.call.scope
  BY <1>2, <1>3, ChildIsRequest
<1>5. PICK m \in Targets(txn.work, W) :
         /\ Accepts(txn.work, W, m)
         /\ txn' = [txn EXCEPT !.work = U(m), !.todo = Tail(txn.todo),
                               !.written = txn.written \cup {m}]
  BY DEF WriteChild
<1> HIDE DEF W
<1>6. m \in Memory
  BY <1>4, <1>5, TargetsAreMemories
<1>7. Moved(txn.work, U(m), txn.call.scope)
  BY <1>2, <1>4, <1>5, <1>6, UpsertMoves
<1> HIDE DEF U
<1>8. Moved(db, U(m), txn.call.scope)
  BY <1>1, <1>7, MovedOn
<1>9. txn'.work = U(m) /\ txn'.call = txn.call
  BY <1>1, <1>5 DEF Transaction
<1>10. txn' # None
  <2>1. U(m) \in Store
    BY <1>2, <1>4, <1>5, <1>6, UpsertTyped DEF U
  <2>2. Tail(txn.todo) \in Seq(Child) /\ txn.written \in SUBSET Memory
    BY <1>1, <1>2 DEF Transaction
  <2>3. txn' \in Transaction
    BY <1>1, <1>2, <1>5, <1>6, <2>1, <2>2 DEF Transaction
  <2>4. QED BY <2>3, NoneAssumption
<1>11. QED BY <1>1, <1>8, <1>9, <1>10 DEF TracedInv

LEMMA CommitMoves ==
    ASSUME IInv, Life, TracedInv, CommitCheckpoint
    PROVE  TracedInv' /\ Moved(db, db', txn.call.scope) /\ ReceiptsOf(txn.call)
           /\ txn.call.op = "checkpoint" /\ txn' = None
<1>1. /\ db \in Store /\ txn \in Transaction /\ TxnInv /\ TxnLife /\ txn' = None /\ txn # None
      /\ db' = PutReceipt(txn.work, txn.call, txn.seq, txn.written)
      /\ Traced(db) /\ txn.call.links = {} /\ Moved(db, txn.work, txn.call.scope)
  BY DEF IInv, TypeOK, Life, CommitCheckpoint, TracedInv
<1>2. /\ txn.call \in Request /\ txn.work \in Store
      /\ txn.seq \in 1..MaxSeq /\ txn.written \in SUBSET Memory
  BY <1>1 DEF Transaction
<1>3. /\ txn.call.op = "checkpoint" /\ txn.work.events = Append(db.events, txn.call)
      /\ txn.work.receipts = db.receipts /\ db.touched \subseteq txn.work.touched
  BY <1>1 DEF TxnInv, TxnLife, Unchanged
<1>4. Moved(db, db', txn.call.scope) /\ ReceiptsOf(txn.call)
  BY <1>1, <1>2, <1>3, ReceiptMoves, ReceiptAdds DEF ReceiptsOf
<1>5. db'.events = Append(db.events, txn.call) /\ db'.touched = txn.work.touched
  BY <1>1, <1>2, <1>3, ReceiptTables
<1>6. Traced(db')
  BY <1>1, <1>3, <1>5, TracedOn
<1>7. QED BY <1>1, <1>3, <1>4, <1>6 DEF TracedInv

\* Any step: heads keep their scope, receipts stay, and a new receipt of a
\* retraction is one of a retraction that was carried out.
LEMMA MovesStep ==
    ASSUME IInv, Life, TracedInv, StoreStep
    PROVE  /\ TracedInv'
           /\ \E s : Moved(db, db', s)
           /\ db.receipts \subseteq db'.receipts
           /\ \A r \in db'.receipts \ db.receipts : r.slot.op = "retract" =>
                 \E call \in RetractCalls :
                    Retract(call) /\ r.slot = Slot(call) /\ r.hash = Fingerprint(call)
<1>0. \A call : Slot(call).op = call.op
  BY DEF Slot
<1> DEFINE New ==
       \A r \in db'.receipts \ db.receipts : r.slot.op = "retract" =>
          \E call \in RetractCalls :
             Retract(call) /\ r.slot = Slot(call) /\ r.hash = Fingerprint(call)
<1>1. ASSUME NEW call, ReceiptsOf(call), call.op # "retract"
      PROVE  db.receipts \subseteq db'.receipts /\ New
  BY <1>0, <1>1 DEF ReceiptsOf
<1>2. ASSUME NEW call \in RetractCalls, Retract(call), ReceiptsOf(call)
      PROVE  db.receipts \subseteq db'.receipts /\ New
  BY <1>2 DEF ReceiptsOf
<1> HIDE DEF New
<1>3. ASSUME db' = db PROVE (\E s : Moved(db, db', s)) /\ db.receipts \subseteq db'.receipts /\ New
  BY <1>3 DEF Moved, New
<1>4. CASE \E call \in ObserveCalls : Observe(call)
  BY <1>1, <1>4, ObserveMoves, CallOps DEF New
<1>5. CASE \E call \in RememberCalls : Remember(call)
  BY <1>1, <1>5, RememberMoves, CallOps DEF New
<1>6. CASE \E call \in RetractCalls : Retract(call)
  BY <1>2, <1>6, RetractMoves DEF New
<1>7. CASE \E call \in CheckpointCalls : BeginCheckpoint(call)
  BY <1>3, <1>7, BeginCheckpointMoves DEF BeginCheckpoint, New
<1>8. CASE WriteChild
  BY <1>3, <1>8, WriteChildMoves DEF WriteChild, New
<1>9. CASE CommitCheckpoint
  BY <1>1, <1>9, CommitMoves DEF New
<1>10. CASE db' = db /\ (txn' = txn \/ txn' = None)
  BY <1>3, <1>10 DEF TracedInv, New
<1>11. QED
  BY <1>4, <1>5, <1>6, <1>7, <1>8, <1>9, <1>10 DEF StoreStep, Rollback, vars

LEMMA InitTraced == Init => TracedInv
BY DEF Init, EmptyStore, TracedInv, Traced

(***************************************************************************)
(* What older tables tell: they have neither the kind, the state and the   *)
(* key of a revision nor the revision that made a link, and these can be   *)
(* found again.  A revision has its memory's kind; the head keeps the      *)
(* state it was written with until an event changes it; and all revisions  *)
(* of a memory one event wrote made the same links, which takes a          *)
(* checkpoint, whose children link the episode and nothing else.           *)
(***************************************************************************)
ChildRelation(kind) == IF kind = "outcome" THEN "attempted_for" ELSE "belongs_to"
Retraceable(d) ==
    /\ \A r \in d.revisions :
          /\ r.kind = d.heads[r.mem].kind
          /\ r.num = d.heads[r.mem].rev /\ r.seq = d.heads[r.mem].updated =>
                r.state = d.heads[r.mem].state
    /\ \A l \in d.links : \A r \in RevisionsOf(d, l.src) : r.seq = l.seq =>
          [l EXCEPT !.srcRev = r.num] \in d.links
Children(d, seq, episode) ==
    /\ \A r \in d.revisions : r.seq = seq /\ r.mem # episode =>
          [src |-> r.mem, srcRev |-> r.num, dst |-> episode, rel |-> ChildRelation(r.kind),
           seq |-> seq] \in d.links
    /\ \A l \in d.links : l.seq = seq =>
          /\ l.src # episode /\ l.dst = episode
          /\ l.rel = ChildRelation(d.heads[l.src].kind)
RetraceInv ==
    /\ Retraceable(db)
    /\ txn # None => Retraceable(txn.work) /\ Children(txn.work, txn.seq, txn.episode)

\* Tables a step leaves alone tell what they told.
LEMMA SameRetraceable ==
    ASSUME NEW d, NEW e, e.heads = d.heads, e.revisions = d.revisions, e.links = d.links,
           Retraceable(d)
    PROVE  Retraceable(e)
BY DEF Retraceable, RevisionsOf

LEMMA AppendRetraceable ==
    ASSUME NEW d \in Store, NEW call \in Request, Retraceable(d)
    PROVE  Retraceable(AppendEvent(d, call))
<1>1. /\ AppendEvent(d, call).heads = d.heads /\ AppendEvent(d, call).revisions = d.revisions
      /\ AppendEvent(d, call).links = d.links
  BY AppendTables
<1>2. QED BY <1>1, SameRetraceable

LEMMA ReceiptRetraceable ==
    ASSUME NEW d \in Store, NEW call \in Request, NEW seq \in 1..MaxSeq,
           NEW written \in SUBSET Memory, call.op = "retract" => call.id \in Memory,
           Retraceable(d)
    PROVE  Retraceable(PutReceipt(d, call, seq, written))
<1>1. /\ PutReceipt(d, call, seq, written).heads = d.heads
      /\ PutReceipt(d, call, seq, written).revisions = d.revisions
      /\ PutReceipt(d, call, seq, written).links = d.links
  BY ReceiptTables
<1>2. QED BY <1>1, SameRetraceable

\* A retraction is newer than every revision of its memory.
LEMMA RetractRetraceable ==
    ASSUME NEW d \in Store, NEW m \in Memory, Exists(d, m), NEW seq \in 1..MaxSeq,
           \A r \in d.revisions : r.seq < seq, Retraceable(d)
    PROVE  Retraceable(RetractHead(d, m, seq))
<1> DEFINE t == RetractHead(d, m, seq)
<1>1. /\ t.revisions = d.revisions /\ t.links = d.links
      /\ t.heads = [x \in Memory |-> IF x = m THEN RetractedRow(d, m, seq) ELSE d.heads[x]]
  BY RetractTables
<1> HIDE DEF t
<1>2. t.heads[m].kind = d.heads[m].kind /\ t.heads[m].updated = seq
  <2>1. d.heads[m] \in HeadRow
    BY DEF Store, Exists
  <2>2. QED BY <1>1, <2>1 DEF RetractedRow, HeadRow
<1>3. \A r \in d.revisions : r.mem \in Memory /\ r.seq \in Int
  BY DEF Store, RevisionRow
<1>4. ASSUME NEW r \in t.revisions
      PROVE  /\ r.kind = t.heads[r.mem].kind
             /\ r.num = t.heads[r.mem].rev /\ r.seq = t.heads[r.mem].updated =>
                   r.state = t.heads[r.mem].state
  <2>1. CASE r.mem = m
    BY <1>1, <1>2, <1>3, <2>1 DEF Retraceable
  <2>2. CASE r.mem # m
    BY <1>1, <1>3, <2>2 DEF Retraceable
  <2>3. QED BY <2>1, <2>2
<1>5. \A x : RevisionsOf(t, x) = RevisionsOf(d, x)
  BY <1>1 DEF RevisionsOf
<1>6. Retraceable(t)
  BY <1>1, <1>4, <1>5 DEF Retraceable
<1>7. QED BY <1>6 DEF t

\* An upsert adds one revision; the others keep all they were written with.
LEMMA UpsertKeeps ==
    ASSUME NEW d \in Store, NEW w \in Request, NEW m \in Memory, NEW seq \in 1..MaxSeq
    PROVE  \A r \in Upsert(d, w, m, seq).revisions :
              \/ r = WrittenRevision(d, w, m, seq)
              \/ \E q \in d.revisions : /\ q.mem = r.mem /\ q.num = r.num /\ q.seq = r.seq
                                        /\ q.kind = r.kind /\ q.state = r.state
<1> DEFINE u == Upsert(d, w, m, seq)
           Mark(r) == [r EXCEPT !.retired =
                         @ \/ (r.mem = m /\ Exists(d, m) /\ r.num = d.heads[m].rev)]
<1>1. u.revisions = Retired(d, m) \cup {WrittenRevision(d, w, m, seq)}
  BY Zenon DEF Upsert
<1>2. Retired(d, m) = {Mark(r) : r \in d.revisions}
  BY DEF Retired
<1> HIDE DEF u
<1>3. ASSUME NEW q \in d.revisions
      PROVE  /\ Mark(q).mem = q.mem /\ Mark(q).num = q.num /\ Mark(q).seq = q.seq
             /\ Mark(q).kind = q.kind /\ Mark(q).state = q.state
  <2>1. q \in RevisionRow
    BY DEF Store
  <2>2. QED BY <2>1 DEF RevisionRow
<1> HIDE DEF Mark
<1>4. QED BY <1>1, <1>2, <1>3 DEF u

\* The kinds and states after a write: a head another revision's event changed
\* is newer than its revisions.
LEMMA UpsertStates ==
    ASSUME NEW d \in Store, NEW w \in Request, w.kind \in MemoryKind, NEW m \in Memory,
           NEW seq \in 1..MaxSeq, Accepts(d, w, m), Grounded(d), Retraceable(d),
           \/ \A r \in d.revisions : r.seq < seq
           \/ LinkTargets(w, "supersedes") = {} /\ LinkTargets(w, "contests") = {}
    PROVE  LET u == Upsert(d, w, m, seq) IN
           \A r \in u.revisions :
              /\ r.kind = u.heads[r.mem].kind
              /\ r.num = u.heads[r.mem].rev /\ r.seq = u.heads[r.mem].updated =>
                    r.state = u.heads[r.mem].state
<1> DEFINE u == Upsert(d, w, m, seq)
           W == WrittenRevision(d, w, m, seq)
<1>1. u.heads = [y \in Memory |-> IF y = m THEN WrittenHead(d, w, m, seq)
                                  ELSE Linked(d.heads[y], y, w, seq)]
  BY Zenon DEF Upsert
<1>2. /\ u \in Store /\ RevisionChainOf(u) /\ Exists(u, m)
  BY UpsertTyped, UpsertChain, UpsertHeads DEF Grounded
<1>3. /\ W \in u.revisions
      /\ \A x \in Memory : x # m => RevisionsOf(u, x) = RevisionsOf(d, x)
      /\ \A r \in u.revisions :
            \/ r = W
            \/ \E q \in d.revisions : /\ q.mem = r.mem /\ q.num = r.num /\ q.seq = r.seq
                                      /\ q.kind = r.kind /\ q.state = r.state
  BY UpsertRevisions, UpsertKeeps
<1>4. /\ W.mem = m /\ W.num = u.heads[m].rev /\ W.kind = w.kind /\ u.heads[m].kind = w.kind
      /\ W.state = u.heads[m].state
  BY <1>1 DEF WrittenRevision, WrittenHead
<1>5. \A x \in Memory : x # m =>
         /\ Exists(d, x) =>
               u.heads[x].kind = d.heads[x].kind /\ u.heads[x].rev = d.heads[x].rev
         /\ u.heads[x] = d.heads[x] \/ u.heads[x].updated = seq
  BY UpsertOthers
<1>6. \A x \in Memory : x # m /\ LinkTargets(w, "supersedes") = {}
                              /\ LinkTargets(w, "contests") = {} => u.heads[x] = d.heads[x]
  BY <1>1 DEF Linked
<1>7. \A q \in d.revisions : q.mem \in Memory /\ q.seq \in Int /\ Exists(d, q.mem)
  BY DEF Store, RevisionRow, Grounded, ScopeClosedOf
<1>8. \A r \in u.revisions : r.mem \in Memory
  BY <1>2 DEF Store, RevisionRow
<1>9. Exists(d, m) => d.heads[m].kind = w.kind
  BY DEF Accepts
<1>10. \A r \in RevisionsOf(u, m) : r.num = u.heads[m].rev => r = W
  BY <1>2, <1>3, <1>4 DEF RevisionChainOf, RevisionsOf
<1> HIDE DEF u, W
<1>11. ASSUME NEW r \in u.revisions
       PROVE  /\ r.kind = u.heads[r.mem].kind
              /\ r.num = u.heads[r.mem].rev /\ r.seq = u.heads[r.mem].updated =>
                    r.state = u.heads[r.mem].state
  <2>1. CASE r.mem = m
    <3>1. r.kind = w.kind
      BY <1>3, <1>4, <1>7, <1>9, <2>1 DEF Retraceable
    <3>2. r.num = u.heads[m].rev => r = W
      BY <1>10, <2>1 DEF RevisionsOf
    <3>3. QED BY <1>4, <2>1, <3>1, <3>2
  <2>2. CASE r.mem # m
    <3>1. r \in d.revisions
      BY <1>3, <1>8, <2>2 DEF RevisionsOf
    <3>2. u.heads[r.mem] = d.heads[r.mem] \/ r.seq # u.heads[r.mem].updated
      BY <1>5, <1>6, <1>7, <2>2, <3>1
    <3>3. QED BY <1>5, <1>7, <2>2, <3>1, <3>2 DEF Retraceable
  <2>3. QED BY <2>1, <2>2
<1>12. QED BY <1>11 DEF u

\* The links of earlier events after a write.
LEMMA UpsertEarlierLinks ==
    ASSUME NEW d \in Store, NEW w \in Request, NEW m \in Memory, NEW seq \in 1..MaxSeq,
           Retraceable(d), NEW l \in d.links, l.seq # seq,
           NEW r \in RevisionsOf(Upsert(d, w, m, seq), l.src), r.seq = l.seq
    PROVE  [l EXCEPT !.srcRev = r.num] \in Upsert(d, w, m, seq).links
<1> DEFINE u == Upsert(d, w, m, seq)
<1>1. d.links \subseteq u.links
  <2>1. u.links = d.links \cup {[src |-> m, srcRev |-> NextRevision(d, m), dst |-> k.dst,
                                 rel |-> k.rel, seq |-> seq] : k \in w.links}
    BY Zenon DEF Upsert
  <2> HIDE DEF u
  <2>2. QED BY <2>1
<1>2. PICK q \in d.revisions : q.mem = r.mem /\ q.num = r.num /\ q.seq = r.seq
  <2>1. WrittenRevision(d, w, m, seq).seq = seq
    BY DEF WrittenRevision
  <2>2. r \in u.revisions
    BY DEF RevisionsOf
  <2>3. QED BY <2>1, <2>2, UpsertKeeps
<1>3. q \in RevisionsOf(d, l.src)
  <2>1. r.mem = l.src
    BY DEF RevisionsOf
  <2>2. QED BY <1>2, <2>1 DEF RevisionsOf
<1> HIDE DEF u
<1>4. [l EXCEPT !.srcRev = r.num] \in d.links
  BY <1>2, <1>3 DEF Retraceable
<1>5. QED BY <1>1, <1>4 DEF u

\* A write of an event of its own: whatever it links, every link of the event
\* was made by the one revision the event wrote.
LEMMA WriteRetraceable ==
    ASSUME NEW d \in Store, NEW w \in Request, w.kind \in MemoryKind, NEW m \in Memory,
           NEW seq \in 1..MaxSeq, Accepts(d, w, m), Grounded(d), Anchored(d), Retraceable(d),
           \A r \in d.revisions : r.seq < seq
    PROVE  LET u == Upsert(d, w, m, seq) IN
           /\ Retraceable(u)
           /\ \A r \in u.revisions : r.seq = seq => r.mem = m
           /\ w.links = {} => \A l \in u.links : l.seq # seq
<1> DEFINE u == Upsert(d, w, m, seq)
           W == WrittenRevision(d, w, m, seq)
           L(l) == [src |-> m, srcRev |-> NextRevision(d, m), dst |-> l.dst,
                    rel |-> l.rel, seq |-> seq]
<1>1. u.links = d.links \cup {L(l) : l \in w.links}
  BY Zenon DEF Upsert
<1>2. /\ W.mem = m /\ W.num = NextRevision(d, m) /\ W.seq = seq
      /\ \A l : L(l).src = m /\ L(l).seq = seq /\ [L(l) EXCEPT !.srcRev = W.num] = L(l)
  BY DEF WrittenRevision
<1>3. \A r \in u.revisions : r = W \/ r.seq < seq
  BY UpsertKeeps
<1>4. \A l \in d.links : l.seq < seq
  BY DEF Anchored, RevisionsOf
<1>5. seq \in Int
  OBVIOUS
<1> HIDE DEF L, W
<1>6. ASSUME NEW l \in u.links, NEW r \in RevisionsOf(u, l.src), r.seq = l.seq
      PROVE  [l EXCEPT !.srcRev = r.num] \in u.links
  <2>1. CASE l \in d.links
    <3>1. l.seq # seq
      BY <1>4, <1>5, <2>1
    <3>2. QED BY <1>6, <2>1, <3>1, UpsertEarlierLinks
  <2>2. CASE l \notin d.links
    <3>1. PICK k \in w.links : l = L(k)
      BY <1>1, <2>2
    <3>2. r = W
      <4>1. r \in u.revisions /\ r.seq = seq
        BY <1>2, <1>6, <3>1 DEF RevisionsOf
      <4>2. QED BY <1>3, <1>5, <4>1
    <3>3. QED BY <1>2, <3>1, <3>2
  <2>3. QED BY <2>1, <2>2
<1>7. \A r \in u.revisions :
         /\ r.kind = u.heads[r.mem].kind
         /\ r.num = u.heads[r.mem].rev /\ r.seq = u.heads[r.mem].updated =>
               r.state = u.heads[r.mem].state
  BY UpsertStates
<1>8. \A r \in u.revisions : r.seq = seq => r.mem = m
  BY <1>2, <1>3, <1>5
<1>9. w.links = {} => \A l \in u.links : l.seq # seq
  BY <1>1, <1>4, <1>5
<1> HIDE DEF u
<1>10. Retraceable(u)
  BY <1>6, <1>7 DEF Retraceable
<1>11. QED BY <1>8, <1>9, <1>10 DEF u

\* A child of a checkpoint: however often its event revises a memory, each
\* revision links the episode in the one way its kind has.
LEMMA ChildRetraceable ==
    ASSUME NEW d \in Store, NEW w \in Request, w.kind \in MemoryKind, NEW m \in Memory,
           NEW seq \in 1..MaxSeq, NEW episode \in Memory, Accepts(d, w, m), Grounded(d),
           Retraceable(d), Children(d, seq, episode),
           w.links = {[dst |-> episode, rel |-> ChildRelation(w.kind)]}
    PROVE  LET u == Upsert(d, w, m, seq) IN Retraceable(u) /\ Children(u, seq, episode)
<1> DEFINE u == Upsert(d, w, m, seq)
           W == WrittenRevision(d, w, m, seq)
           K(mem, num, kind) == [src |-> mem, srcRev |-> num, dst |-> episode,
                                 rel |-> ChildRelation(kind), seq |-> seq]
<1>1. /\ u.links = d.links \cup {K(m, W.num, w.kind)}
      /\ u.heads = [y \in Memory |-> IF y = m THEN WrittenHead(d, w, m, seq)
                                     ELSE Linked(d.heads[y], y, w, seq)]
  <2>1. /\ u.links = d.links \cup {[src |-> m, srcRev |-> NextRevision(d, m), dst |-> l.dst,
                                    rel |-> l.rel, seq |-> seq] : l \in w.links}
        /\ u.heads = [y \in Memory |-> IF y = m THEN WrittenHead(d, w, m, seq)
                                       ELSE Linked(d.heads[y], y, w, seq)]
    BY Zenon DEF Upsert
  <2>2. W.num = NextRevision(d, m)
    BY DEF WrittenRevision
  <2> HIDE DEF u, W
  <2>3. QED BY <2>1, <2>2
<1>2. W.mem = m /\ W.seq = seq /\ W.kind = w.kind /\ W \in u.revisions
  BY UpsertRevisions DEF WrittenRevision
<1>3. \A r \in u.revisions :
         \/ r = W
         \/ \E q \in d.revisions : /\ q.mem = r.mem /\ q.num = r.num /\ q.seq = r.seq
                                   /\ q.kind = r.kind /\ q.state = r.state
  BY UpsertKeeps
<1>4. m # episode
  BY DEF Accepts
<1>5. LinkTargets(w, "supersedes") = {} /\ LinkTargets(w, "contests") = {}
  BY DEF LinkTargets, ChildRelation
<1>6. \A r \in u.revisions :
         /\ r.kind = u.heads[r.mem].kind
         /\ r.num = u.heads[r.mem].rev /\ r.seq = u.heads[r.mem].updated =>
               r.state = u.heads[r.mem].state
  BY <1>5, UpsertStates
<1>7. \A l \in d.links : l.src \in Memory /\ l.dst \in Memory /\ Exists(d, l.src)
  BY DEF Store, LinkRow, Grounded, ScopeClosedOf
<1>8. /\ u.heads[m].kind = w.kind
      /\ Exists(d, m) => d.heads[m].kind = w.kind
      /\ \A x \in Memory : x # m /\ Exists(d, x) => u.heads[x].kind = d.heads[x].kind
  <2>1. u.heads[m].kind = w.kind
    BY <1>1 DEF WrittenHead
  <2>2. QED BY <2>1, UpsertOthers DEF Accepts
<1> HIDE DEF u, W
<1>9. ASSUME NEW r \in u.revisions, r.seq = seq, r.mem # episode
      PROVE  K(r.mem, r.num, r.kind) \in u.links
  <2>1. CASE r = W
    BY <1>1, <1>2, <2>1
  <2>2. CASE r # W
    <3>1. PICK q \in d.revisions : q.mem = r.mem /\ q.num = r.num /\ q.seq = r.seq
                                   /\ q.kind = r.kind
      BY <1>3, <2>2
    <3>2. K(q.mem, q.num, q.kind) \in d.links
      BY <1>9, <3>1 DEF Children
    <3>3. QED BY <1>1, <3>1, <3>2
  <2>3. QED BY <2>1, <2>2
<1>10. ASSUME NEW l \in u.links, l.seq = seq
       PROVE  /\ l.src # episode /\ l.dst = episode
              /\ l.rel = ChildRelation(u.heads[l.src].kind)
  <2>1. CASE l = K(m, W.num, w.kind)
    BY <1>4, <1>8, <2>1
  <2>2. CASE l \in d.links
    <3>1. l.src # episode /\ l.dst = episode /\ l.rel = ChildRelation(d.heads[l.src].kind)
      BY <1>10, <2>2 DEF Children
    <3>2. u.heads[l.src].kind = d.heads[l.src].kind
      BY <1>7, <1>8, <2>2
    <3>3. QED BY <3>1, <3>2
  <2>3. QED BY <1>1, <2>1, <2>2
<1>11. Children(u, seq, episode)
  BY <1>9, <1>10 DEF Children
<1>12. ASSUME NEW l \in u.links, NEW r \in RevisionsOf(u, l.src), r.seq = l.seq
       PROVE  [l EXCEPT !.srcRev = r.num] \in u.links
  <2>1. CASE l.seq = seq
    <3>1. r \in u.revisions /\ r.mem = l.src
      BY DEF RevisionsOf
    <3>2. K(r.mem, r.num, r.kind) \in u.links
      BY <1>9, <1>10, <1>12, <2>1, <3>1
    <3>3. l.dst = episode /\ l.rel = ChildRelation(r.kind)
      BY <1>6, <1>10, <2>1, <3>1
    <3>4. l = [src |-> l.src, srcRev |-> l.srcRev, dst |-> l.dst, rel |-> l.rel, seq |-> l.seq]
      BY <1>1, <2>1 DEF Store, LinkRow
    <3>5. [l EXCEPT !.srcRev = r.num] = K(r.mem, r.num, r.kind)
      BY <2>1, <3>1, <3>3, <3>4
    <3>6. QED BY <3>2, <3>5
  <2>2. CASE l.seq # seq
    <3>1. l \in d.links
      BY <1>1, <2>2
    <3>2. QED BY <1>12, <2>2, <3>1, UpsertEarlierLinks DEF u
  <2>3. QED BY <2>1, <2>2
<1>13. Retraceable(u)
  BY <1>6, <1>12 DEF Retraceable
<1>14. QED BY <1>11, <1>13 DEF u

\* Every step of the store leaves the store, and the copy of an open
\* checkpoint, retraceable.
LEMMA WriteOfEvent ==
    ASSUME NEW call \in Request, NEW m \in Memory, db \in Store, Grounded(db), Anchored(db),
           Retraceable(db), call.kind \in MemoryKind, Len(db.events) < MaxSeq,
           Accepts(db, call, m)
    PROVE  LET seq == Len(db.events) + 1
               u == Upsert(AppendEvent(db, call), call, m, seq) IN
           /\ Retraceable(u)
           /\ \A r \in u.revisions : r.seq = seq => r.mem = m
           /\ call.links = {} => \A l \in u.links : l.seq # seq
<1> DEFINE seq == Len(db.events) + 1
           a == AppendEvent(db, call)
<1>1. seq \in 1..MaxSeq /\ \A i \in DOMAIN db.events : i < seq
  <2>1. db.events \in Seq(Request)
    BY DEF Store
  <2>2. QED BY <2>1, StoreAssumption
<1>2. /\ a \in Store /\ a.heads = db.heads /\ a.revisions = db.revisions /\ a.links = db.links
      /\ DOMAIN a.events = DOMAIN db.events \cup {seq}
      /\ \A i \in DOMAIN db.events : a.events[i] = db.events[i]
  BY AppendTables
<1>3. Grounded(a) /\ Retraceable(a)
  BY AppendGrounded, AppendRetraceable
<1> HIDE DEF a, seq
<1>4. Accepts(a, call, m) /\ Anchored(a)
  BY <1>2 DEF Accepts, ValidEvidence, ValidLinks, Exists, Anchored, RevisionsOf
<1>5. \A r \in a.revisions : r.seq < seq
  BY <1>1, <1>2 DEF Grounded
<1>6. QED BY <1>1, <1>2, <1>3, <1>4, <1>5, WriteRetraceable DEF a, seq

LEMMA ChildIsLinked ==
    ASSUME NEW call \in Request, NEW child \in Child, NEW episode
    PROVE  LET w == ChildWrite(call, child, episode) IN
           w.links = {[dst |-> episode, rel |-> ChildRelation(w.kind)]}
BY DEF ChildWrite, ChildRelation, Request

LEMMA RetraceStep ==
    ASSUME IInv, Life, RetraceInv, StoreStep
    PROVE  RetraceInv'
<1>1. db \in Store /\ Grounded(db) /\ Anchored(db) /\ Retraceable(db)
  BY DEF IInv, TypeOK, Life, Explained, RetraceInv
<1>2. ASSUME NEW call \in ObserveCalls, Observe(call) PROVE RetraceInv'
  <2>1. /\ call \in Request /\ call.op # "retract"
        /\ Len(db.events) + 1 \in 1..MaxSeq /\ txn' = None
        /\ db' = PutReceipt(AppendEvent(db, call), call, Len(db.events) + 1, {})
    BY <1>1, <1>2, CallsAreRequests, CallOps, StoreAssumption
    DEF Observe, MayExecute, Store
  <2>2. AppendEvent(db, call) \in Store /\ Retraceable(AppendEvent(db, call))
    BY <1>1, <2>1, AppendTables, AppendRetraceable
  <2>3. Retraceable(db')
    BY <2>1, <2>2, ReceiptRetraceable
  <2>4. QED BY <2>1, <2>3 DEF RetraceInv
<1>3. ASSUME NEW call \in RememberCalls, Remember(call) PROVE RetraceInv'
  <2>1. /\ call \in Request /\ call.op # "retract" /\ call.kind \in MemoryKind
        /\ Len(db.events) < MaxSeq /\ txn' = None
    BY <1>3, CallsAreRequests, CallOps DEF Remember, MayExecute
  <2>2. PICK m \in Targets(db, call) :
           /\ Accepts(db, call, m)
           /\ db' = PutReceipt(Upsert(AppendEvent(db, call), call, m, Len(db.events) + 1),
                               call, Len(db.events) + 1, {m})
    BY <1>3 DEF Remember
  <2>3. m \in Memory
    BY <2>1, <2>2, TargetsAreMemories
  <2>4. /\ Len(db.events) + 1 \in 1..MaxSeq
        /\ Upsert(AppendEvent(db, call), call, m, Len(db.events) + 1) \in Store
    BY <1>1, <2>1, <2>2, <2>3, WriteFacts
  <2>5. Retraceable(Upsert(AppendEvent(db, call), call, m, Len(db.events) + 1))
    BY <1>1, <2>1, <2>2, <2>3, WriteOfEvent
  <2>6. {m} \in SUBSET Memory
    BY <2>3
  <2>7. Retraceable(db')
    BY <2>1, <2>2, <2>4, <2>5, <2>6, ReceiptRetraceable
  <2>8. QED BY <2>1, <2>7 DEF RetraceInv
<1>4. ASSUME NEW call \in RetractCalls, Retract(call) PROVE RetraceInv'
  <2> DEFINE seq == Len(db.events) + 1
             a == AppendEvent(db, call)
  <2>1. /\ call \in Request /\ call.id \in Memory /\ call.op = "retract"
        /\ seq \in 1..MaxSeq /\ txn' = None /\ Exists(db, call.id)
        /\ db' = PutReceipt(RetractHead(a, call.id, seq), call, seq, {call.id})
    BY <1>1, <1>4, CallsAreRequests, StoreAssumption
    DEF Retract, MayExecute, Store, RetractCalls
  <2>2. a \in Store /\ a.heads = db.heads /\ a.revisions = db.revisions /\ Retraceable(a)
    BY <1>1, <2>1, AppendTables, AppendRetraceable
  <2>3. \A r \in a.revisions : r.seq < seq
    <3>1. db.events \in Seq(Request)
      BY <1>1 DEF Store
    <3>2. \A r \in db.revisions : r.seq \in DOMAIN db.events
      BY <1>1 DEF Grounded
    <3>3. QED BY <2>2, <3>1, <3>2
  <2> HIDE DEF a, seq
  <2>4. Exists(a, call.id)
    BY <2>1, <2>2 DEF Exists
  <2>5. /\ RetractHead(a, call.id, seq) \in Store
        /\ Retraceable(RetractHead(a, call.id, seq))
    BY <2>1, <2>2, <2>3, <2>4, RetractTables, RetractRetraceable
  <2>6. {call.id} \in SUBSET Memory
    BY <2>1
  <2>7. Retraceable(db')
    BY <2>1, <2>5, <2>6, ReceiptRetraceable
  <2>8. QED BY <2>1, <2>7 DEF RetraceInv
<1>5. ASSUME NEW call \in CheckpointCalls, BeginCheckpoint(call) PROVE RetraceInv'
  <2>1. /\ call \in Request /\ call.kind \in MemoryKind /\ call.links = {}
        /\ Len(db.events) < MaxSeq /\ db' = db
    BY <1>5, CallsAreRequests DEF BeginCheckpoint, MayExecute, CheckpointCalls
  <2>2. PICK m \in Targets(db, call) :
           /\ Accepts(db, call, m)
           /\ txn'.work = Upsert(AppendEvent(db, call), call, m, Len(db.events) + 1)
           /\ txn'.seq = Len(db.events) + 1 /\ txn'.episode = m
    BY <1>5 DEF BeginCheckpoint
  <2>3. m \in Memory
    BY <2>1, <2>2, TargetsAreMemories
  <2>4. /\ Retraceable(txn'.work)
        /\ \A r \in txn'.work.revisions : r.seq = txn'.seq => r.mem = m
        /\ \A l \in txn'.work.links : l.seq # txn'.seq
    BY <1>1, <2>1, <2>2, <2>3, WriteOfEvent
  <2>5. Children(txn'.work, txn'.seq, txn'.episode)
    BY <2>2, <2>4 DEF Children
  <2>6. QED BY <1>1, <2>1, <2>4, <2>5 DEF RetraceInv
<1>6. CASE WriteChild
  <2> DEFINE W == ChildWrite(txn.call, Head(txn.todo), txn.episode)
  <2>1. /\ db' = db /\ txn \in Transaction /\ TxnInv /\ txn.todo # <<>>
        /\ Retraceable(txn.work) /\ Children(txn.work, txn.seq, txn.episode)
    BY <1>6 DEF IInv, TypeOK, RetraceInv, WriteChild
  <2>2. /\ txn.call \in Request /\ txn.work \in Store /\ txn.episode \in Memory
        /\ txn.todo \in Seq(Child) /\ txn.seq \in 1..MaxSeq
    BY <2>1 DEF Transaction
  <2>3. Head(txn.todo) \in Child
    BY <2>1, <2>2
  <2>4. /\ W \in Request /\ W.kind \in MemoryKind
        /\ W.links = {[dst |-> txn.episode, rel |-> ChildRelation(W.kind)]}
    BY <2>2, <2>3, ChildIsRequest, ChildIsLinked
  <2>5. PICK m \in Targets(txn.work, W) :
           /\ Accepts(txn.work, W, m)
           /\ txn' = [txn EXCEPT !.work = Upsert(txn.work, W, m, txn.seq),
                                 !.todo = Tail(txn.todo),
                                 !.written = txn.written \cup {m}]
    BY <1>6 DEF WriteChild
  <2> HIDE DEF W
  <2>6. m \in Memory
    BY <2>4, <2>5, TargetsAreMemories
  <2>7. /\ Retraceable(Upsert(txn.work, W, m, txn.seq))
        /\ Children(Upsert(txn.work, W, m, txn.seq), txn.seq, txn.episode)
    BY <2>1, <2>2, <2>4, <2>5, <2>6, ChildRetraceable DEF TxnInv
  <2>8. /\ txn'.work = Upsert(txn.work, W, m, txn.seq) /\ txn'.seq = txn.seq
        /\ txn'.episode = txn.episode
    BY <2>1, <2>5 DEF Transaction
  <2>9. QED BY <1>1, <2>1, <2>7, <2>8 DEF RetraceInv
<1>7. CASE CommitCheckpoint
  <2>1. /\ txn \in Transaction /\ TxnInv /\ Retraceable(txn.work) /\ txn' = None
        /\ db' = PutReceipt(txn.work, txn.call, txn.seq, txn.written)
    BY <1>7 DEF IInv, TypeOK, RetraceInv, CommitCheckpoint
  <2>2. /\ txn.call \in Request /\ txn.work \in Store /\ txn.call.op # "retract"
        /\ txn.seq \in 1..MaxSeq /\ txn.written \in SUBSET Memory
    BY <2>1 DEF Transaction, TxnInv
  <2>3. Retraceable(db')
    BY <2>1, <2>2, ReceiptRetraceable
  <2>4. QED BY <2>1, <2>3 DEF RetraceInv
<1>8. CASE db' = db /\ (txn' = txn \/ txn' = None)
  BY <1>8 DEF RetraceInv
<1>9. QED BY <1>2, <1>3, <1>4, <1>5, <1>6, <1>7, <1>8 DEF StoreStep, Rollback, vars

LEMMA InitRetrace == Init => RetraceInv
BY DEF Init, EmptyStore, RetraceInv, Retraceable
=============================================================================
