---------------------------- MODULE RecallProofs ----------------------------
(***************************************************************************)
(* Theorems about search and recall beside the writers of the store: what  *)
(* a projection says of a memory, what one answer shows, which of its hits *)
(* are selected, and how they are packed.                                  *)
(***************************************************************************)
EXTENDS Recall, Diversity, ContextPack, MemoryStoreProofs, FiniteSetTheorems

(***************************************************************************)
(* What a write of the store leaves to those who read beside it            *)
(***************************************************************************)

\* Every revision of d is one of e, with the same content.
KeepsRevisions(d, e) ==
    \A q \in d.revisions : \E s \in e.revisions :
       s.mem = q.mem /\ s.num = q.num /\ s.body = q.body
\* No memory of d is lost or retracted in e, except m.
KeepsKnowledge(d, e, m) ==
    \A x \in Memory \ {m} : Exists(d, x) /\ d.heads[x].state # "retracted" =>
       Exists(e, x) /\ e.heads[x].state # "retracted"

LEMMA AdvanceKeepsRevisions ==
    ASSUME NEW d \in Store, NEW e \in Store, Grounded(d), Advances(d, e)
    PROVE  KeepsRevisions(d, e)
<1> SUFFICES ASSUME NEW q \in d.revisions
             PROVE  \E s \in e.revisions : s.mem = q.mem /\ s.num = q.num /\ s.body = q.body
  BY DEF KeepsRevisions
<1> DEFINE D == {Recorded(r) : r \in {x \in d.revisions : x.seq = q.seq}}
           E == {Recorded(r) : r \in {x \in e.revisions : x.seq = q.seq}}
<1>1. q.seq \in DOMAIN d.events
  BY DEF Grounded
<1>2. Effect(e, q.seq) = Effect(d, q.seq)
  BY <1>1 DEF Advances
<1>3. Effect(e, q.seq).revisions = E /\ Effect(d, q.seq).revisions = D
  BY DEF Effect
<1>4. Recorded(q) \in D
  OBVIOUS
<1>5. PICK s \in e.revisions : Recorded(s) = Recorded(q)
  BY <1>2, <1>3, <1>4
<1>6. q \in RevisionRow /\ s \in RevisionRow
  BY DEF Store
<1>7. /\ Recorded(q).mem = q.mem /\ Recorded(q).num = q.num /\ Recorded(q).body = q.body
      /\ Recorded(s).mem = s.mem /\ Recorded(s).num = s.num /\ Recorded(s).body = s.body
  BY <1>6 DEF Recorded, RevisionRow
<1>8. QED BY <1>5, <1>7

LEMMA KeepsTransitive ==
    ASSUME NEW d, NEW e, NEW f, KeepsRevisions(d, e), KeepsRevisions(e, f)
    PROVE  KeepsRevisions(d, f)
<1> SUFFICES ASSUME NEW q \in d.revisions
             PROVE  \E s \in f.revisions : s.mem = q.mem /\ s.num = q.num /\ s.body = q.body
  BY DEF KeepsRevisions
<1>1. PICK r \in e.revisions : r.mem = q.mem /\ r.num = q.num /\ r.body = q.body
  BY DEF KeepsRevisions
<1>2. PICK s \in f.revisions : s.mem = r.mem /\ s.num = r.num /\ s.body = r.body
  BY DEF KeepsRevisions
<1>3. QED BY <1>1, <1>2

\* A link retracts nothing.
LEMMA UpsertKnows ==
    ASSUME NEW d \in Store, NEW w, NEW m \in Memory, NEW seq \in 1..MaxSeq
    PROVE  LET u == Upsert(d, w, m, seq) IN
           \A x \in Memory \ {m} : Exists(d, x) /\ d.heads[x].state # "retracted" =>
              Exists(u, x) /\ u.heads[x].state # "retracted"
<1>1. ASSUME NEW x \in Memory, x # m
      PROVE  LET u == Upsert(d, w, m, seq) IN
             /\ Exists(u, x) <=> Exists(d, x)
             /\ Exists(d, x) =>
                   /\ u.heads[x].scope = d.heads[x].scope
                   /\ u.heads[x].kind = d.heads[x].kind
                   /\ u.heads[x].key = d.heads[x].key
                   /\ u.heads[x].rev = d.heads[x].rev
                   /\ u.heads[x].state = "retracted" <=> d.heads[x].state = "retracted"
  BY <1>1, UpsertOthers
<1>2. QED BY <1>1

\* remember neither retracts a memory nor takes a revision away.
LEMMA RememberKeeps ==
    ASSUME IInv, Life, NEW call \in RememberCalls, Remember(call), NEW m
    PROVE  IInv' /\ Life' /\ txn' = None /\ KeepsRevisions(db, db') /\ KeepsKnowledge(db, db', m)
<1>1. IInv' /\ Life' /\ Advances(db, db')
  BY RememberStep, RememberLife
<1>2. /\ db \in Store /\ db' \in Store /\ Grounded(db)
      /\ txn = None /\ txn' = None /\ Len(db.events) < MaxSeq
  BY <1>1 DEF IInv, TypeOK, Remember, MayExecute
<1>3. KeepsRevisions(db, db')
  BY <1>1, <1>2, AdvanceKeepsRevisions
<1> DEFINE a == AppendEvent(db, call)
           seq == Len(db.events) + 1
           U(t) == Upsert(a, call, t, seq)
<1>4. call \in Request /\ call.op # "retract" /\ call.kind \in MemoryKind
  BY CallsAreRequests, CallOps
<1>5. PICK t \in Targets(db, call) :
         Accepts(db, call, t) /\ db' = PutReceipt(U(t), call, seq, {t})
  BY DEF Remember
<1>6. t \in Memory
  BY <1>4, <1>5, TargetsAreMemories
<1>7. seq \in 1..MaxSeq /\ U(t) \in Store
  BY <1>2, <1>4, <1>5, <1>6, WriteFacts
<1>8. a \in Store /\ a.events = Append(db.events, call) /\ a.heads = db.heads
      /\ \A i \in DOMAIN db.events : i \in DOMAIN a.events /\ a.events[i] = db.events[i]
  BY <1>2, <1>4, AppendTables
<1> HIDE DEF a, seq
<1>9. Accepts(a, call, t)
  BY <1>5, <1>8 DEF Accepts, ValidEvidence, ValidLinks, Exists
<1>10. Exists(U(t), t) /\ U(t).heads[t].state # "retracted"
  <2>1. U(t).heads = [y \in Memory |-> IF y = t THEN WrittenHead(a, call, t, seq)
                                       ELSE Linked(a.heads[y], y, call, seq)]
    BY Zenon DEF Upsert
  <2>2. U(t).heads[t].state = WrittenState(call)
    BY <1>6, <2>1 DEF WrittenHead
  <2>3. Exists(U(t), t)
    BY <1>4, <1>6, <1>7, <1>8, <1>9, UpsertHeads
  <2>4. QED BY <2>2, <2>3 DEF WrittenState
<1>11. \A x \in Memory \ {t} : Exists(a, x) /\ a.heads[x].state # "retracted" =>
          Exists(U(t), x) /\ U(t).heads[x].state # "retracted"
  BY <1>6, <1>7, <1>8, UpsertKnows
<1> HIDE DEF U
<1>12. db'.heads = U(t).heads
  <2>1. {t} \in SUBSET Memory
    BY <1>6
  <2>2. QED BY <1>4, <1>5, <1>7, <2>1, ReceiptTables
<1>13. KeepsKnowledge(db, db', m)
  BY <1>8, <1>10, <1>11, <1>12 DEF KeepsKnowledge, Exists
<1>14. QED BY <1>1, <1>2, <1>3, <1>13

LEMMA RetractKeeps ==
    ASSUME IInv, Life, NEW call \in RetractCalls, Retract(call)
    PROVE  /\ IInv' /\ Life' /\ txn' = None
           /\ KeepsRevisions(db, db') /\ KeepsKnowledge(db, db', call.id)
           /\ call.id \in Memory
<1>1. IInv' /\ Life' /\ Advances(db, db')
  BY RetractStep, RetractLife
<1> DEFINE a == AppendEvent(db, call)
           seq == Len(db.events) + 1
           t == RetractHead(a, call.id, seq)
<1>2. /\ db \in Store /\ db' \in Store /\ Grounded(db)
      /\ txn = None /\ txn' = None /\ Len(db.events) < MaxSeq
      /\ Exists(db, call.id) /\ db' = PutReceipt(t, call, seq, {call.id})
  BY <1>1 DEF IInv, TypeOK, Retract, MayExecute
<1>3. KeepsRevisions(db, db')
  BY <1>1, <1>2, AdvanceKeepsRevisions
<1>4. call \in Request /\ call.id \in Memory
  BY CallsAreRequests
<1>5. seq \in 1..MaxSeq
  <2>1. db.events \in Seq(Request)
    BY <1>2 DEF Store
  <2>2. QED BY <1>2, <2>1, StoreAssumption
<1>6. a \in Store /\ a.heads = db.heads
  BY <1>2, <1>4, AppendTables
<1>7. Exists(a, call.id)
  BY <1>2, <1>6 DEF Exists
<1> HIDE DEF a, seq
<1>8. t \in Store /\ t.heads = [x \in Memory |-> IF x = call.id THEN RetractedRow(a, call.id, seq)
                                                 ELSE a.heads[x]]
  BY <1>4, <1>5, <1>6, <1>7, RetractTables
<1> HIDE DEF t
<1>9. db'.heads = t.heads
  <2>1. {call.id} \in SUBSET Memory
    BY <1>4
  <2>2. QED BY <1>2, <1>4, <1>5, <1>8, <2>1, ReceiptTables
<1>10. KeepsKnowledge(db, db', call.id)
  BY <1>6, <1>8, <1>9 DEF KeepsKnowledge, Exists
<1>11. QED BY <1>1, <1>2, <1>3, <1>4, <1>10
(***************************************************************************)
(* The invariant of the search side                                        *)
(***************************************************************************)
WorkerRow == [at: {"idle", "working", "calling"}, profile: Profile \cup {None},
              docs: SUBSET Document, loaded: Settings \cup {None}]

\* A worker that holds documents knows its profile, and one that calls has
\* loaded settings.
WorkersReady ==
    \A w \in Worker :
       /\ workers[w].at # "idle" => workers[w].profile \in Profile
       /\ workers[w].at = "calling" => workers[w].loaded \in Settings

SearchTyped ==
    /\ profiles \in [Profile -> ProfileRow \cup {None}]
    /\ projections \in [Profile -> [Memory -> Projection \cup {None}]]
    /\ expansions \in [Profile -> [Memory -> Text \cup {None}]]
    /\ workers \in [Worker -> WorkerRow]

SearchInv ==
    /\ IInv /\ Life /\ txn = None
    /\ SearchTyped /\ WorkersReady
    /\ ProjectionsAreTrue
    /\ expansions = RebuiltExpansions

\* What ProjectionsAreTrue says of one row.
RowIsTrue(row, profile, d, m) ==
    /\ profile # None /\ row.made = profile.settings
    /\ row.vector = profile.settings.dims
    /\ Exists(d, m) /\ d.heads[m].state # "retracted"
    /\ \E r \in RevisionsOf(d, m) : r.num = row.rev /\ r.body = row.hash

LEMMA RowsAreTrue ==
    ProjectionsAreTrue <=>
       \A p \in Profile, m \in Memory :
          projections[p][m] # None => RowIsTrue(projections[p][m], profiles[p], db, m)
BY DEF ProjectionsAreTrue, RowIsTrue

LEMMA RowsStayTrue ==
    ASSUME NEW d, NEW e, KeepsRevisions(d, e), NEW x, KeepsKnowledge(d, e, x),
           NEW m \in Memory, m # x, NEW row, NEW profile, RowIsTrue(row, profile, d, m)
    PROVE  RowIsTrue(row, profile, e, m)
<1>1. Exists(e, m) /\ e.heads[m].state # "retracted"
  BY DEF RowIsTrue, KeepsKnowledge
<1>2. PICK r \in RevisionsOf(d, m) : r.num = row.rev /\ r.body = row.hash
  BY DEF RowIsTrue
<1>3. PICK s \in e.revisions : s.mem = r.mem /\ s.num = r.num /\ s.body = r.body
  BY <1>2 DEF KeepsRevisions, RevisionsOf
<1>4. s \in RevisionsOf(e, m)
  BY <1>2, <1>3 DEF RevisionsOf
<1>5. QED BY <1>1, <1>2, <1>3, <1>4 DEF RowIsTrue

LEMMA KeepsItself == ASSUME NEW d PROVE KeepsRevisions(d, d)
BY DEF KeepsRevisions

\* The lexical index is what rebuilding it would give.
LEMMA IndexIsRebuilt ==
    ASSUME db \in Store, IndexCoversKnowledgeOf(db) PROVE db.index = RebuiltIndex
<1>1. db.index \in [Memory -> 0..MaxRevision]
  BY DEF Store
<1>2. QED BY <1>1 DEF IndexCoversKnowledgeOf, RebuiltIndex

\* The invariant makes search sound.
LEMMA SearchInvIsSound == SearchInv => SearchIsSound
<1> SUFFICES ASSUME SearchInv PROVE SearchIsSound
  OBVIOUS
<1>1. db \in Store /\ IndexCoversKnowledgeOf(db)
  BY DEF SearchInv, IInv, TypeOK, Life, Explained
<1>2. IndexesAreDerived
  BY <1>1, IndexIsRebuilt DEF SearchInv, IndexesAreDerived
<1>3. SearchTypes
  <2>1. \A w \in Worker : workers[w].docs \subseteq Document
    BY DEF SearchInv, SearchTyped, WorkerRow
  <2>2. QED BY <2>1 DEF SearchInv, SearchTyped, SearchTypes
<1>4. ASSUME NEW p \in Profile, NEW s \in Scope, profiles[p] # None
      PROVE  Pending(p, s) = Eligible(s) \ Indexed(p, s) /\ Stale(p, s) \subseteq Pending(p, s)
  <2>1. Pending(p, s) = Eligible(s) \ Indexed(p, s)
    BY DEF Pending, Indexed
  <2>2. Stale(p, s) \subseteq Pending(p, s)
    <3> SUFFICES ASSUME NEW m \in Stale(p, s) PROVE m \in Pending(p, s)
      OBVIOUS
    <3>1. m \in Memory /\ projections[p][m] # None /\ db.heads[m].scope = s
      BY DEF Stale
    <3>2. Exists(db, m) /\ db.heads[m].state # "retracted"
      BY <3>1 DEF SearchInv, ProjectionsAreTrue
    <3>3. m \in Eligible(s)
      BY <3>1, <3>2 DEF Eligible
    <3>4. QED BY <3>2, <3>3 DEF Stale, Pending
  <2>3. QED BY <2>1, <2>2
<1>5. QED BY <1>2, <1>3, <1>4 DEF SearchIsSound, StatusAddsUp, SearchInv

LEMMA InitSearch == SInit => SearchInv
<1> SUFFICES ASSUME SInit PROVE SearchInv
  OBVIOUS
<1>1. IInv /\ Life /\ txn = None
  BY InitIInv, InitLife DEF SInit, Init
<1>2. NoWork \in WorkerRow
  BY DEF NoWork, WorkerRow
<1>3. SearchTyped
  BY <1>2 DEF SInit, SearchTyped
<1>4. WorkersReady
  BY DEF SInit, WorkersReady, NoWork
<1>5. ProjectionsAreTrue /\ expansions = RebuiltExpansions
  BY DEF SInit, ProjectionsAreTrue, RebuiltExpansions
<1>6. QED BY <1>1, <1>3, <1>4, <1>5 DEF SearchInv

LEMMA ReviseSearch ==
    ASSUME SearchInv, NEW call \in RememberCalls, Revise(call)
    PROVE  SearchInv' /\ KeepsRevisions(db, db')
<1>1. PICK x : x \notin Memory
  BY NoSetContainsEverything
<1>2. /\ IInv' /\ Life' /\ txn' = None
      /\ KeepsRevisions(db, db') /\ KeepsKnowledge(db, db', x)
  BY RememberKeeps DEF SearchInv, Revise
<1>3. UNCHANGED searchVars
  BY DEF Revise
<1>4. ASSUME NEW p \in Profile, NEW m \in Memory, projections'[p][m] # None
      PROVE  RowIsTrue(projections'[p][m], profiles'[p], db', m)
  <2>1. RowIsTrue(projections[p][m], profiles[p], db, m)
    BY <1>3, <1>4, RowsAreTrue DEF SearchInv, searchVars
  <2>2. RowIsTrue(projections[p][m], profiles[p], db', m)
    BY <1>1, <1>2, <2>1, RowsStayTrue
  <2>3. QED BY <1>3, <2>2 DEF searchVars
<1>5. ProjectionsAreTrue'
  BY <1>4 DEF ProjectionsAreTrue, RowIsTrue
<1>6. SearchTyped' /\ WorkersReady' /\ (expansions = RebuiltExpansions)'
  BY <1>3 DEF SearchInv, searchVars, SearchTyped, WorkersReady, RebuiltExpansions
<1>7. QED BY <1>2, <1>5, <1>6 DEF SearchInv

LEMMA RetractSearch ==
    ASSUME SearchInv, NEW call \in RetractCalls, RetractDocument(call)
    PROVE  SearchInv' /\ KeepsRevisions(db, db')
<1>1. /\ IInv' /\ Life' /\ txn' = None /\ call.id \in Memory
      /\ KeepsRevisions(db, db') /\ KeepsKnowledge(db, db', call.id)
  BY RetractKeeps DEF SearchInv, RetractDocument
<1>2. /\ projections' = [p \in Profile |-> [projections[p] EXCEPT ![call.id] = None]]
      /\ expansions' = [p \in Profile |-> [expansions[p] EXCEPT ![call.id] = None]]
      /\ UNCHANGED <<profiles, workers, admin>>
  BY DEF RetractDocument
<1>3. SearchTyped
  BY DEF SearchInv
<1>4. ASSUME NEW p \in Profile, NEW m \in Memory
      PROVE  /\ projections'[p][m] = IF m = call.id THEN None ELSE projections[p][m]
             /\ expansions'[p][m] = IF m = call.id THEN None ELSE expansions[p][m]
  BY <1>2, <1>3 DEF SearchTyped
<1>5. ASSUME NEW p \in Profile, NEW m \in Memory, projections'[p][m] # None
      PROVE  RowIsTrue(projections'[p][m], profiles'[p], db', m)
  <2>1. m # call.id /\ projections'[p][m] = projections[p][m]
    BY <1>4, <1>5
  <2>2. RowIsTrue(projections[p][m], profiles[p], db, m)
    BY <1>5, <2>1, RowsAreTrue DEF SearchInv
  <2>3. RowIsTrue(projections[p][m], profiles[p], db', m)
    BY <1>1, <2>1, <2>2, RowsStayTrue
  <2>4. QED BY <1>2, <2>1, <2>3
<1>6. ProjectionsAreTrue'
  BY <1>5 DEF ProjectionsAreTrue, RowIsTrue
<1>7. SearchTyped' /\ WorkersReady'
  BY <1>2, <1>3 DEF SearchInv, SearchTyped, WorkersReady
<1>8. (expansions = RebuiltExpansions)'
  <2>1. \A p \in Profile, m \in Memory :
           expansions[p][m] = IF projections[p][m] = None THEN None
                              ELSE projections[p][m].expansion
    BY DEF SearchInv, RebuiltExpansions
  <2>2. \A p \in Profile, m \in Memory :
           expansions'[p][m] = IF projections'[p][m] = None THEN None
                               ELSE projections'[p][m].expansion
    BY <1>4, <2>1
  <2>3. expansions' \in [Profile -> [Memory -> Text \cup {None}]]
    BY <1>7 DEF SearchTyped
  <2>4. QED BY <2>2, <2>3 DEF RebuiltExpansions
<1>9. QED BY <1>1, <1>6, <1>7, <1>8 DEF SearchInv
\* Steps that leave the store and the rows alone.
LEMMA StoreStays ==
    ASSUME SearchInv, UNCHANGED vars
    PROVE  IInv' /\ Life' /\ txn' = None /\ KeepsRevisions(db, db')
<1>1. db' = db /\ txn' = txn
  BY DEF vars
<1>2. IInv'
  BY <1>1, IdleStep DEF SearchInv
<1>3. Life'
  BY <1>1, IdleLife DEF SearchInv
<1>4. QED BY <1>1, <1>2, <1>3, KeepsItself DEF SearchInv

LEMMA ProfileSearch ==
    ASSUME SearchInv, NEW p \in Profile,
           \/ \E settings \in Settings : RegisterProfile(p, settings)
           \/ \E active \in BOOLEAN : SetProfileActive(p, active)
    PROVE  SearchInv' /\ KeepsRevisions(db, db')
<1>1. UNCHANGED <<vars, projections, expansions, workers>>
  BY DEF RegisterProfile, SetProfileActive
<1>2. IInv' /\ Life' /\ txn' = None /\ KeepsRevisions(db, db') /\ db' = db
  BY <1>1, StoreStays DEF vars
<1>3. SearchTyped
  BY DEF SearchInv
<1>4. /\ profiles' \in [Profile -> ProfileRow \cup {None}]
      /\ \A x \in Profile : profiles[x] # None =>
            profiles'[x] # None /\ profiles'[x].settings = profiles[x].settings
  <2>1. CASE \E settings \in Settings : RegisterProfile(p, settings)
    <3>1. PICK settings \in Settings : RegisterProfile(p, settings)
      BY <2>1
    <3>2. /\ profiles[p] = None
          /\ profiles' = [profiles EXCEPT ![p] = [settings |-> settings, active |-> TRUE]]
      BY <3>1 DEF RegisterProfile
    <3>3. [settings |-> settings, active |-> TRUE] \in ProfileRow
      BY DEF ProfileRow
    <3>4. QED BY <1>3, <3>2, <3>3 DEF SearchTyped
  <2>2. CASE \E active \in BOOLEAN : SetProfileActive(p, active)
    <3>1. PICK active \in BOOLEAN : SetProfileActive(p, active)
      BY <2>2
    <3> DEFINE row == [profiles[p] EXCEPT !.active = active]
    <3>2. /\ profiles[p] # None
          /\ profiles' = [profiles EXCEPT ![p] = row]
      BY <3>1 DEF SetProfileActive
    <3>3. profiles[p] \in ProfileRow
      BY <1>3, <3>2 DEF SearchTyped
    <3>4. row \in ProfileRow /\ row.settings = profiles[p].settings
      BY <3>3 DEF ProfileRow
    <3>5. row # None
      BY <3>4, NoRowAssumption
    <3> HIDE DEF row
    <3>6. QED BY <1>3, <3>2, <3>4, <3>5 DEF SearchTyped
  <2>3. QED BY <2>1, <2>2
<1>5. ASSUME NEW x \in Profile, NEW m \in Memory, projections'[x][m] # None
      PROVE  RowIsTrue(projections'[x][m], profiles'[x], db', m)
  <2>1. RowIsTrue(projections[x][m], profiles[x], db, m)
    BY <1>1, <1>5, RowsAreTrue DEF SearchInv
  <2>2. QED BY <1>1, <1>2, <1>4, <2>1 DEF RowIsTrue
<1>6. ProjectionsAreTrue'
  BY <1>5 DEF ProjectionsAreTrue, RowIsTrue
<1>7. SearchTyped' /\ WorkersReady' /\ (expansions = RebuiltExpansions)'
  BY <1>1, <1>4 DEF SearchInv, SearchTyped, WorkersReady, RebuiltExpansions
<1>8. QED BY <1>2, <1>6, <1>7 DEF SearchInv

LEMMA RemoveSearch ==
    ASSUME SearchInv, NEW p \in Profile, RemoveProfile(p)
    PROVE  SearchInv' /\ KeepsRevisions(db, db')
<1>1. /\ UNCHANGED <<vars, workers>>
      /\ profiles' = [profiles EXCEPT ![p] = None]
      /\ projections' = [projections EXCEPT ![p] = [m \in Memory |-> None]]
      /\ expansions' = [expansions EXCEPT ![p] = [m \in Memory |-> None]]
  BY DEF RemoveProfile
<1>2. IInv' /\ Life' /\ txn' = None /\ KeepsRevisions(db, db') /\ db' = db
  BY <1>1, StoreStays DEF vars
<1>3. SearchTyped' /\ WorkersReady'
  BY <1>1 DEF SearchInv, SearchTyped, WorkersReady
<1>4. ASSUME NEW x \in Profile, NEW m \in Memory
      PROVE  /\ projections'[x][m] = IF x = p THEN None ELSE projections[x][m]
             /\ expansions'[x][m] = IF x = p THEN None ELSE expansions[x][m]
             /\ x # p => profiles'[x] = profiles[x]
  BY <1>1 DEF SearchInv, SearchTyped
<1>5. ASSUME NEW x \in Profile, NEW m \in Memory, projections'[x][m] # None
      PROVE  RowIsTrue(projections'[x][m], profiles'[x], db', m)
  <2>1. x # p /\ projections'[x][m] = projections[x][m] /\ profiles'[x] = profiles[x]
    BY <1>4, <1>5
  <2>2. RowIsTrue(projections[x][m], profiles[x], db, m)
    BY <1>5, <2>1, RowsAreTrue DEF SearchInv
  <2>3. QED BY <1>2, <2>1, <2>2
<1>6. ProjectionsAreTrue'
  BY <1>5 DEF ProjectionsAreTrue, RowIsTrue
<1>7. (expansions = RebuiltExpansions)'
  <2>1. \A x \in Profile, m \in Memory :
           expansions[x][m] = IF projections[x][m] = None THEN None
                              ELSE projections[x][m].expansion
    BY DEF SearchInv, RebuiltExpansions
  <2>2. \A x \in Profile, m \in Memory :
           expansions'[x][m] = IF projections'[x][m] = None THEN None
                               ELSE projections'[x][m].expansion
    BY <1>4, <2>1
  <2>3. expansions' \in [Profile -> [Memory -> Text \cup {None}]]
    BY <1>3 DEF SearchTyped
  <2>4. QED BY <2>2, <2>3 DEF RebuiltExpansions
<1>8. QED BY <1>2, <1>3, <1>6, <1>7 DEF SearchInv

\* Steps of a worker outside the database.
LEMMA WorkersOnly ==
    ASSUME SearchInv, UNCHANGED <<vars, profiles, projections, expansions>>,
           workers' \in [Worker -> WorkerRow], WorkersReady'
    PROVE  SearchInv' /\ KeepsRevisions(db, db')
<1>1. IInv' /\ Life' /\ txn' = None /\ KeepsRevisions(db, db') /\ db' = db
  BY StoreStays DEF vars
<1>2. SearchTyped' /\ (expansions = RebuiltExpansions)' /\ ProjectionsAreTrue'
  BY <1>1 DEF SearchInv, SearchTyped, RebuiltExpansions, ProjectionsAreTrue
<1>3. QED BY <1>1, <1>2 DEF SearchInv

\* What a listing shows of a memory is a document.
LEMMA CurrentIsDocument ==
    ASSUME NEW m \in Memory, db \in Store, RevisionChainOf(db), Exists(db, m)
    PROVE  /\ Current(m) \in Document /\ Current(m).mem = m
           /\ Current(m).rev = db.heads[m].rev /\ Current(m).hash = HeadRevision(db, m).body
           /\ HeadRevision(db, m) \in RevisionsOf(db, m)
           /\ HeadRevision(db, m).num = db.heads[m].rev
<1>1. /\ HeadRevision(db, m) \in RevisionsOf(db, m)
      /\ HeadRevision(db, m).num = db.heads[m].rev
  BY HeadRevisionIs
<1>2. HeadRevision(db, m).body \in Body
  BY <1>1 DEF RevisionsOf, Store, RevisionRow
<1>3. db.heads[m].rev \in 1..MaxRevision
  BY DEF Exists, Store, HeadRow
<1>4. QED BY <1>1, <1>2, <1>3 DEF Current, Document

LEMMA NoWorkIsReady ==
    ASSUME SearchInv, NEW w \in Worker, workers' = [workers EXCEPT ![w] = NoWork]
    PROVE  workers' \in [Worker -> WorkerRow] /\ WorkersReady'
<1>1. NoWork \in WorkerRow /\ NoWork.at = "idle"
  BY DEF NoWork, WorkerRow
<1>2. QED BY <1>1 DEF SearchInv, SearchTyped, WorkersReady

LEMMA ListSearch ==
    ASSUME SearchInv, NEW w \in Worker, NEW p \in Profile, NEW s \in Scope,
           ListPending(w, p, s)
    PROVE  SearchInv' /\ KeepsRevisions(db, db')
<1> DEFINE docs(L) == {Current(m) : m \in L}
           row(L) == [at |-> "working", profile |-> p, docs |-> docs(L), loaded |-> None]
<1>1. PICK L \in Listings(p, s) : workers' = [workers EXCEPT ![w] = row(L)]
  BY DEF ListPending
<1>2. UNCHANGED <<vars, profiles, projections, expansions>>
  BY DEF ListPending
<1>3. db \in Store /\ RevisionChainOf(db)
  BY DEF SearchInv, IInv, TypeOK, Grounded
<1>4. \A m \in L : m \in Memory /\ Exists(db, m)
  BY DEF Listings, Pending, Eligible
<1>5. docs(L) \in SUBSET Document
  BY <1>3, <1>4, CurrentIsDocument
<1> HIDE DEF docs
<1>6. row(L) \in WorkerRow /\ row(L).profile \in Profile /\ row(L).at = "working"
  BY <1>5 DEF WorkerRow
<1> HIDE DEF row
<1>7. workers' \in [Worker -> WorkerRow] /\ WorkersReady'
  BY <1>1, <1>6 DEF SearchInv, SearchTyped, WorkersReady
<1>8. QED BY <1>2, <1>7, WorkersOnly

LEMMA LoadSearch ==
    ASSUME SearchInv, NEW w \in Worker, LoadProfile(w)
    PROVE  SearchInv' /\ KeepsRevisions(db, db')
<1> DEFINE profile == profiles[workers[w].profile]
           row == [workers[w] EXCEPT !.at = "calling", !.loaded = profile.settings]
<1>1. /\ workers[w].at = "working" /\ UNCHANGED <<vars, profiles, projections, expansions>>
      /\ workers' = IF profile = None THEN [workers EXCEPT ![w] = NoWork]
                    ELSE [workers EXCEPT ![w].at = "calling", ![w].loaded = profile.settings]
  BY DEF LoadProfile
<1>2. workers \in [Worker -> WorkerRow] /\ workers[w].profile \in Profile
  BY <1>1 DEF SearchInv, SearchTyped, WorkersReady
<1>3. profile # None => profile.settings \in Settings
  BY <1>2 DEF SearchInv, SearchTyped, ProfileRow
<1>4. CASE profile = None
  BY <1>1, <1>4, NoWorkIsReady, WorkersOnly
<1>5. CASE profile # None
  <2>1. workers' = [workers EXCEPT ![w] = row]
    BY <1>1, <1>2, <1>5
  <2>2. row \in WorkerRow /\ row.profile \in Profile /\ row.loaded \in Settings
    BY <1>2, <1>3, <1>5 DEF WorkerRow
  <2> HIDE DEF row
  <2>3. workers' \in [Worker -> WorkerRow] /\ WorkersReady'
    BY <1>2, <2>1, <2>2 DEF SearchInv, WorkersReady
  <2>4. QED BY <1>1, <2>3, WorkersOnly
<1>6. QED BY <1>4, <1>5

LEMMA RebuildSearch ==
    ASSUME SearchInv, RebuildIndexes
    PROVE  SearchInv' /\ KeepsRevisions(db, db')
<1>1. db \in Store /\ db.index = RebuiltIndex
  BY IndexIsRebuilt DEF SearchInv, IInv, TypeOK, Life, Explained
<1>2. db' = db
  <2>1. db' = [db EXCEPT !.index = db.index]
    BY <1>1 DEF RebuildIndexes
  <2>2. QED BY <1>1, <2>1 DEF Store
<1>3. UNCHANGED <<vars, profiles, projections, expansions, workers>>
  BY <1>2 DEF RebuildIndexes, SearchInv, vars
<1>4. workers' \in [Worker -> WorkerRow] /\ WorkersReady'
  BY <1>3 DEF SearchInv, SearchTyped, WorkersReady
<1>5. QED BY <1>3, <1>4, WorkersOnly
\* A prepared row is that of a document the worker holds, under the settings
\* it has loaded.
LEMMA PreparedRows ==
    ASSUME SearchInv, NEW w \in Worker, workers[w].at = "calling",
           NEW new \in Prepared(w), NEW m \in DOMAIN new
    PROVE  /\ m \in Memory
           /\ new[m] \in Projection
           /\ new[m].made = workers[w].loaded /\ new[m].vector = workers[w].loaded.dims
           /\ \E d \in workers[w].docs : /\ d.mem = m
                                         /\ new[m].rev = d.rev /\ new[m].hash = d.hash
<1> DEFINE docs == workers[w].docs
           loaded == workers[w].loaded
           mems == {d.mem : d \in docs}
           document(x) == CHOOSE d \in docs : d.mem = x
           row(d, text) == [rev |-> d.rev, hash |-> d.hash, expansion |-> text,
                            vector |-> loaded.dims, made |-> loaded]
<1>1. PICK text \in [mems -> Text \cup {None}] :
         new = [x \in mems |-> row(document(x), text[x])]
  BY DEF Prepared
<1>2. docs \in SUBSET Document /\ loaded \in Settings
  BY DEF SearchInv, SearchTyped, WorkerRow, WorkersReady
<1>3. m \in mems /\ new[m] = row(document(m), text[m]) /\ text[m] \in Text \cup {None}
  BY <1>1
<1>4. document(m) \in docs /\ document(m).mem = m
  BY <1>3
<1> HIDE DEF document, docs, loaded, mems
<1>5. document(m) \in Document /\ loaded.dims \in Dimension \cup {None}
  BY <1>2, <1>4 DEF Settings
<1>6. m \in Memory
  BY <1>4, <1>5 DEF Document
<1>7. new[m] \in Projection
  BY <1>2, <1>3, <1>5 DEF Projection, Document
<1>8. QED BY <1>3, <1>4, <1>6, <1>7 DEF docs, loaded

LEMMA RegisterSearch ==
    ASSUME SearchInv, NEW w \in Worker, RegisterProjections(w)
    PROVE  SearchInv' /\ KeepsRevisions(db, db')
<1> DEFINE p == workers[w].profile
           rows(new) == [m \in Memory |-> IF m \in DOMAIN new THEN new[m] ELSE projections[p][m]]
           texts(new) == [m \in Memory |-> IF m \in DOMAIN new
                                           THEN Reindexed(expansions[p][m], new[m])
                                           ELSE expansions[p][m]]
<1>1. /\ workers[w].at = "calling" /\ workers' = [workers EXCEPT ![w] = NoWork]
      /\ UNCHANGED <<vars, profiles, admin>>
  BY DEF RegisterProjections
<1>2. IInv' /\ Life' /\ txn' = None /\ KeepsRevisions(db, db') /\ db' = db
  BY <1>1, StoreStays DEF vars
<1>3. workers' \in [Worker -> WorkerRow] /\ WorkersReady'
  BY <1>1, NoWorkIsReady
<1>4. p \in Profile
  BY <1>1 DEF SearchInv, WorkersReady
<1>5. PICK new \in Prepared(w) :
         IF /\ SameSettings(w)
            /\ \A d \in workers[w].docs :
                  IsCurrent(d) /\ SameBytes(projections[p][d.mem], new[d.mem])
         THEN /\ projections' = [projections EXCEPT ![p] = rows(new)]
              /\ expansions' = [expansions EXCEPT ![p] = texts(new)]
         ELSE UNCHANGED <<projections, expansions>>
  BY DEF RegisterProjections
<1>6. CASE UNCHANGED <<projections, expansions>>
  BY <1>1, <1>3, <1>6, WorkersOnly
<1>7. CASE /\ SameSettings(w)
           /\ \A d \in workers[w].docs : IsCurrent(d)
           /\ projections' = [projections EXCEPT ![p] = rows(new)]
           /\ expansions' = [expansions EXCEPT ![p] = texts(new)]
  <2>1. SearchTyped
    BY DEF SearchInv
  <2>2. ASSUME NEW x \in Profile, NEW m \in Memory
        PROVE  \/ /\ x = p /\ m \in DOMAIN new
                  /\ projections'[x][m] = new[m] /\ expansions'[x][m] = new[m].expansion
               \/ /\ projections'[x][m] = projections[x][m]
                  /\ expansions'[x][m] = expansions[x][m]
    BY <1>4, <1>7, <2>1 DEF SearchTyped, Reindexed
  <2>3. ASSUME NEW m \in DOMAIN new
        PROVE  /\ new[m] \in Projection /\ new[m] # None
               /\ new[m].expansion \in Text \cup {None}
    <3>1. new[m] \in Projection
      BY <1>1, PreparedRows
    <3>2. QED BY <3>1, NoRowAssumption DEF Projection
  <2>4. rows(new) \in [Memory -> Projection \cup {None}]
    BY <1>4, <2>1, <2>3 DEF SearchTyped
  <2>5. texts(new) \in [Memory -> Text \cup {None}]
    BY <1>4, <2>1, <2>3 DEF SearchTyped, Reindexed
  <2> HIDE DEF rows, texts
  <2>6. SearchTyped'
    BY <1>1, <1>3, <1>4, <1>7, <2>1, <2>4, <2>5 DEF SearchTyped
  <2>7. ASSUME NEW m \in DOMAIN new, m \in Memory
        PROVE  RowIsTrue(new[m], profiles[p], db, m)
    <3>1. PICK d \in workers[w].docs : /\ d.mem = m
                                       /\ new[m].rev = d.rev /\ new[m].hash = d.hash
      BY <1>1, PreparedRows
    <3>2. new[m].made = workers[w].loaded /\ new[m].vector = workers[w].loaded.dims
      BY <1>1, PreparedRows
    <3>3. profiles[p] # None /\ profiles[p].settings = workers[w].loaded
      BY <1>7 DEF SameSettings
    <3>4. Exists(db, m) /\ db.heads[m].state # "retracted" /\ Current(m) = d
      BY <1>7, <3>1 DEF IsCurrent
    <3>5. db \in Store /\ RevisionChainOf(db)
      BY DEF SearchInv, IInv, TypeOK, Grounded
    <3>6. /\ HeadRevision(db, m) \in RevisionsOf(db, m)
          /\ HeadRevision(db, m).num = d.rev /\ HeadRevision(db, m).body = d.hash
      BY <2>7, <3>4, <3>5, CurrentIsDocument
    <3>7. QED BY <3>1, <3>2, <3>3, <3>4, <3>6 DEF RowIsTrue
  <2>8. ASSUME NEW x \in Profile, NEW m \in Memory, projections'[x][m] # None
        PROVE  RowIsTrue(projections'[x][m], profiles'[x], db', m)
    <3>1. CASE x = p /\ m \in DOMAIN new /\ projections'[x][m] = new[m]
      BY <1>1, <1>2, <2>7, <3>1
    <3>2. CASE projections'[x][m] = projections[x][m]
      <4>1. RowIsTrue(projections[x][m], profiles[x], db, m)
        BY <2>8, <3>2, RowsAreTrue DEF SearchInv
      <4>2. QED BY <1>1, <1>2, <3>2, <4>1
    <3>3. QED BY <2>2, <3>1, <3>2
  <2>9. ProjectionsAreTrue'
    BY <2>8 DEF ProjectionsAreTrue, RowIsTrue
  <2>10. (expansions = RebuiltExpansions)'
    <3>1. \A x \in Profile, m \in Memory :
             expansions[x][m] = IF projections[x][m] = None THEN None
                                ELSE projections[x][m].expansion
      BY DEF SearchInv, RebuiltExpansions
    <3>2. \A x \in Profile, m \in Memory :
             expansions'[x][m] = IF projections'[x][m] = None THEN None
                                 ELSE projections'[x][m].expansion
      BY <2>2, <2>3, <3>1
    <3>3. expansions' \in [Profile -> [Memory -> Text \cup {None}]]
      BY <2>6 DEF SearchTyped
    <3>4. QED BY <3>2, <3>3 DEF RebuiltExpansions
  <2>11. QED BY <1>2, <1>3, <2>6, <2>9, <2>10 DEF SearchInv
<1>8. QED BY <1>5, <1>6, <1>7

LEMMA SearchStep ==
    ASSUME SearchInv, [SNext]_allVars
    PROVE  SearchInv' /\ KeepsRevisions(db, db')
<1>1. CASE \E call \in RememberCalls : Revise(call)
  BY <1>1, ReviseSearch
<1>2. CASE \E call \in RetractCalls : RetractDocument(call)
  BY <1>2, RetractSearch
<1>3. CASE \E p \in Profile : \/ \E settings \in Settings : RegisterProfile(p, settings)
                              \/ \E active \in BOOLEAN : SetProfileActive(p, active)
  BY <1>3, ProfileSearch
<1>4. CASE \E p \in Profile : RemoveProfile(p)
  BY <1>4, RemoveSearch
<1>5. CASE \E w \in Worker, p \in Profile, s \in Scope : ListPending(w, p, s)
  BY <1>5, ListSearch
<1>6. CASE \E w \in Worker : LoadProfile(w)
  BY <1>6, LoadSearch
<1>7. CASE \E w \in Worker : RegisterProjections(w)
  BY <1>7, RegisterSearch
<1>8. CASE \E w \in Worker : Abandon(w)
  <2>1. PICK w \in Worker : Abandon(w)
    BY <1>8
  <2>2. /\ UNCHANGED <<vars, profiles, projections, expansions>>
        /\ workers' = [workers EXCEPT ![w] = NoWork]
    BY <2>1 DEF Abandon
  <2>3. QED BY <2>2, NoWorkIsReady, WorkersOnly
<1>9. CASE RebuildIndexes
  BY <1>9, RebuildSearch
<1>10. CASE UNCHANGED allVars
  <2>1. UNCHANGED <<vars, profiles, projections, expansions, workers>>
    BY <1>10 DEF allVars, searchVars
  <2>2. workers' \in [Worker -> WorkerRow] /\ WorkersReady'
    BY <2>1 DEF SearchInv, SearchTyped, WorkersReady
  <2>3. QED BY <2>1, <2>2, WorkersOnly
<1>11. QED
  BY <1>1, <1>2, <1>3, <1>4, <1>5, <1>6, <1>7, <1>8, <1>9, <1>10 DEF SNext, WorkerStep

\* However long a worker takes, and whatever clients and operators do to the
\* memories and the profile meanwhile, a registered projection belongs to a
\* revision and a profile as they are, the indexes are what a rebuild would
\* give, and nothing stale is reported as up to date
\* (register_search_projections, the triggers of migrate_v5 and migrate_v6).
THEOREM SearchNeverLies == SSpec => []SearchIsSound
<1>1. SInit => SearchInv
  BY InitSearch
<1>2. SearchInv /\ [SNext]_allVars => SearchInv'
  BY SearchStep
<1>3. SearchInv => SearchIsSound
  BY SearchInvIsSound
<1>4. QED BY <1>1, <1>2, <1>3, PTL DEF SSpec
(***************************************************************************)
(* What a recall has in hand                                               *)
(***************************************************************************)
Shaped(x) ==
    /\ DOMAIN x = {"at", "query", "view", "next", "found", "rows", "relations", "hits", "pack"}
    /\ x = [field \in DOMAIN x |-> x[field]]

\* The snapshot of the first transaction was a store, and its revisions are
\* still there.
ViewRight(v, d) == v.db \in Store /\ RevisionChainOf(v.db) /\ KeepsRevisions(v.db, d)

\* What the channels that were read returned is among the candidates.
Collected(v, q, channel, found) ==
    \A i \in 1..(channel - 1) : \E T \in Returned(v, q, Channels[i]) : T \subseteq found

\* OnlyPeersCrowdOut, of one reader.
Crowded(v, q, found) ==
    \A m \in Memory \ found : \A c \in Channel :
       CandidateEligible(v, q, m) /\ Matches(v, q, c, m) =>
          \/ Cardinality(ChannelRows(v, q, c) \ {m}) >= ChannelLimit[c]
          \/ c = "dense" /\ Cardinality(Vectored(v, q) \ {m}) >= Shortlist
          \/ Cardinality(found) = MaxCandidates

RowRight(v, q, row) ==
    row.mem \in Memory /\ CandidateEligible(v, q, row.mem) /\ row = Staged(v, row.mem)

\* The verdict of a hit is the one the recall keeps for its commit.
HitRight(v, q, relations, h) ==
    /\ RowRight(v, q, h.row)
    /\ h.verdict.ctx = h.row.ctx
    /\ Versioned(h.row, q) /\ h.verdict.relation \in GitRelation =>
          h.row.ctx \in DOMAIN relations /\ h.verdict.relation = relations[h.row.ctx]

ItemRight(v, item) ==
    /\ Exists(v.db, item.mem)
    /\ item.rev = v.db.heads[item.mem].rev
    /\ item.body = HeadRevision(v.db, item.mem).body
    /\ item.state = v.db.heads[item.mem].state
    /\ item.updated = v.db.heads[item.mem].updated

ReaderRight(x, d) ==
    /\ Shaped(x)
    /\ x.at \in {"idle", "collecting", "judging", "hydrating", "done"}
    /\ x.at = "idle" => x = Idle
    /\ x.at # "idle" => ViewRight(x.view, d) /\ x.query \in Query
    /\ x.at = "collecting" => x.next \in Nat \ {0} /\ Collected(x.view, x.query, x.next, x.found)
    /\ x.at = "judging" => Crowded(x.view, x.query, x.found)
    /\ \A m \in x.found : m \in Memory /\ CandidateEligible(x.view, x.query, m)
    /\ \A row \in x.rows : RowRight(x.view, x.query, row)
    /\ \A h \in x.hits : HitRight(x.view, x.query, x.relations, h)
    /\ x.at = "done" => \A item \in x.pack : ItemRight(x.view, item)

RecallInv ==
    /\ SearchInv
    /\ readers = [r \in Reader |-> readers[r]]
    /\ \A r \in Reader : ReaderRight(readers[r], db)

\* What SQL let through, Rust wants.
LEMMA RightRowIsWanted ==
    ASSUME NEW d, NEW v, ViewRight(v, d), NEW q \in Query, NEW row, RowRight(v, q, row)
    PROVE  StillWanted(row, q)
<1>1. /\ row.kind = v.db.heads[row.mem].kind /\ row.state = v.db.heads[row.mem].state
      /\ row.scope = v.db.heads[row.mem].scope /\ row.window = Validity[BodyOf(v, row.mem)]
  BY DEF RowRight, Staged
<1>2. /\ Visible(Place[row.scope], Place[q.scope])
      /\ SqlLifecycle(row.state, q) /\ SqlKind(row.kind, q)
      /\ SqlValid(row.window, q)
      /\ row.mem \in Memory /\ Exists(v.db, row.mem)
  BY <1>1 DEF RowRight, CandidateEligible
<1>3. ~Inapplicable(Place[row.scope], Place[q.scope])
  BY <1>2 DEF Visible, Inapplicable
<1>4. /\ q.asOf \in Int
      /\ {row.window.from, row.window.until, row.window.expires} \subseteq Int \cup {None}
  <2>1. HeadRevision(v.db, row.mem) \in RevisionsOf(v.db, row.mem)
    BY <1>2, HeadRevisionIs DEF ViewRight
  <2>2. BodyOf(v, row.mem) \in Body
    BY <2>1 DEF ViewRight, Store, RevisionsOf, RevisionRow, BodyOf
  <2>3. QED BY <1>1, <2>2, RecallAssumption
<1>5. ~Outdated(row.window, q)
  <2>1. PICK from, until, expires : /\ from = row.window.from /\ until = row.window.until
                                    /\ expires = row.window.expires
    OBVIOUS
  <2>2. PICK at : at = q.asOf
    OBVIOUS
  <2>3. /\ from = None \/ from <= at \div 2
        /\ until = None \/ at \div 2 < until
        /\ expires = None \/ at \div 2 < expires
    BY <1>2, <2>1, <2>2 DEF SqlValid, Halves
  <2>4. at \in Int /\ {from, until, expires} \subseteq Int \cup {None}
    BY <1>4, <2>1, <2>2
  <2>5. ~(from # None /\ from * 2 > at)
    BY <2>3, <2>4
  <2>6. ~(until # None /\ at >= until * 2)
    BY <2>3, <2>4
  <2>7. ~(expires # None /\ at >= expires * 2)
    BY <2>3, <2>4
  <2>8. QED BY <2>1, <2>2, <2>5, <2>6, <2>7 DEF Outdated, Halves
<1>6. ~StateDropped(row.state, q) /\ ~KindDropped(row.kind, q)
  BY <1>2 DEF SqlLifecycle, SqlKind, StateDropped, KindDropped
<1>7. QED BY <1>3, <1>5, <1>6 DEF StillWanted

\* A row left out of the best n has n others before it.
LEMMA BestCrowdsOut ==
    ASSUME NEW S, IsFiniteSet(S), NEW n \in Nat, NEW T \in Best(S, n), NEW m \in S \ T
    PROVE  Cardinality(T) = n /\ Cardinality(S \ {m}) >= n
<1>1. T \in SUBSET S /\ Cardinality(T) = Least(n, Cardinality(S))
  BY DEF Best
<1>2. /\ IsFiniteSet(S \ {m})
      /\ Cardinality(S \ {m}) = Cardinality(S) - 1
  BY FS_RemoveElement
<1>3. T \subseteq S \ {m}
  BY <1>1
<1>4. Cardinality(T) <= Cardinality(S \ {m})
  BY <1>2, <1>3, FS_Subset
<1>5. Cardinality(S) \in Nat /\ Cardinality(S \ {m}) \in Nat
  BY <1>2, FS_CardinalityType
<1>6. QED BY <1>1, <1>2, <1>4, <1>5 DEF Least

LEMMA ReturnedAreRows ==
    ASSUME NEW v, NEW q, NEW c, NEW T \in Returned(v, q, c)
    PROVE  T \subseteq ChannelRows(v, q, c)
BY DEF Returned, Ordered, Latest, Best

\* A row that matches is left out of what a channel returns only where the limit
\* or the shortlist was filled by others.
LEMMA LeftOutByPeers ==
    ASSUME NEW v, NEW q, NEW c \in Channel, NEW T \in Returned(v, q, c),
           NEW m \in ChannelRows(v, q, c) \ T
    PROVE  \/ Cardinality(ChannelRows(v, q, c) \ {m}) >= ChannelLimit[c]
           \/ c = "dense" /\ Cardinality(Vectored(v, q) \ {m}) >= Shortlist
<1> DEFINE Rows == ChannelRows(v, q, c)
           All == Vectored(v, q)
<1>1. IsFiniteSet(Memory) /\ Shortlist \in Nat /\ ChannelLimit[c] \in Nat
  BY RecallAssumption
<1>2. Rows \in SUBSET Memory /\ All \in SUBSET Memory
  BY DEF ChannelRows, Vectored
<1>3. IsFiniteSet(Rows) /\ IsFiniteSet(All)
  BY <1>1, <1>2, FS_Subset
<1>4. PICK S \in Compared(v, q, c) : T \in Ordered(v, Rows \cap S, c, ChannelLimit[c])
  BY DEF Returned
<1>5. T \in Best(Rows \cap S, ChannelLimit[c])
  BY <1>4 DEF Ordered, Latest
<1>6. c = "dense" => m \in All
  BY DEF ChannelRows, Vectored, Matches
<1>7. m \in Memory
  BY DEF ChannelRows
<1> HIDE DEF Rows, All
<1>8. CASE m \in S
  <2>1. IsFiniteSet(Rows \cap S) /\ m \in (Rows \cap S) \ T
    BY <1>3, <1>8, FS_Subset DEF Rows
  <2>2. Cardinality((Rows \cap S) \ {m}) >= ChannelLimit[c]
    BY <1>1, <1>5, <2>1, BestCrowdsOut
  <2>3. IsFiniteSet(Rows \ {m}) /\ (Rows \cap S) \ {m} \subseteq Rows \ {m}
    BY <1>3, FS_Subset
  <2>4. Cardinality((Rows \cap S) \ {m}) <= Cardinality(Rows \ {m})
    BY <2>3, FS_Subset
  <2>5. Cardinality((Rows \cap S) \ {m}) \in Nat /\ Cardinality(Rows \ {m}) \in Nat
    BY <2>3, FS_Subset, FS_CardinalityType
  <2>6. Cardinality(Rows \ {m}) >= ChannelLimit[c]
    BY <1>1, <2>2, <2>4, <2>5
  <2>7. QED BY <2>6 DEF Rows
<1>9. CASE m \notin S
  <2>1. c = "dense" /\ S \in Best(All, Shortlist)
    BY <1>4, <1>6, <1>7, <1>9 DEF Compared, All
  <2>2. m \in All \ S
    BY <1>6, <1>9, <2>1
  <2>3. Cardinality(All \ {m}) >= Shortlist
    BY <1>1, <1>3, <2>1, <2>2, BestCrowdsOut
  <2>4. QED BY <2>1, <2>3 DEF All
<1>10. QED BY <1>8, <1>9

LEMMA ChannelsAre ==
    /\ DOMAIN Channels = 1..5
    /\ \A c \in Channel : \E i \in 1..5 : c = Channels[i]
    /\ \A i \in 1..5 : Channels[i] \in Channel
<1>1. DOMAIN Channels = 1..5
  BY DEF Channels
<1>2. QED BY <1>1 DEF Channel

\* Once all channels are read, a candidate set of the best leaves only rows
\* out that others crowded out.
LEMMA StagedIsCrowded ==
    ASSUME NEW v, NEW q, NEW channel \in Nat \ {0}, channel \notin 1..5,
           NEW found \in SUBSET Memory, Collected(v, q, channel, found),
           NEW T \in Best(found, MaxCandidates)
    PROVE  Crowded(v, q, T)
<1> SUFFICES ASSUME NEW m \in Memory \ T, NEW c \in Channel,
                    CandidateEligible(v, q, m), Matches(v, q, c, m)
             PROVE  \/ Cardinality(ChannelRows(v, q, c) \ {m}) >= ChannelLimit[c]
                    \/ c = "dense" /\ Cardinality(Vectored(v, q) \ {m}) >= Shortlist
                    \/ Cardinality(T) = MaxCandidates
  BY DEF Crowded
<1>1. IsFiniteSet(Memory) /\ MaxCandidates \in Nat /\ ChannelLimit[c] \in Nat
  BY RecallAssumption
<1>2. CASE m \in found
  <2>1. IsFiniteSet(found)
    BY <1>1, FS_Subset
  <2>2. QED BY <1>1, <1>2, <2>1, BestCrowdsOut
<1>3. CASE m \notin found
  <2>1. PICK i \in 1..5 : c = Channels[i]
    BY ChannelsAre
  <2>2. i \in 1..(channel - 1)
    OBVIOUS
  <2>3. PICK R \in Returned(v, q, c) : R \subseteq found
    BY <2>1, <2>2 DEF Collected
  <2>4. m \in ChannelRows(v, q, c) \ R
    BY <1>3, <2>3 DEF ChannelRows
  <2>5. QED BY <2>4, LeftOutByPeers
<1>4. QED BY <1>2, <1>3

\* What a staged row pins is found later, unchanged.
LEMMA HydratedIsRight ==
    ASSUME NEW v, NEW q, NEW row, RowRight(v, q, row),
           NEW d \in Store, RevisionChainOf(d), ViewRight(v, d)
    PROVE  /\ \E s \in RevisionsOf(d, row.mem) : s.num = row.rev
           /\ ItemRight(v, Hydrated(d, row))
<1> DEFINE m == row.mem
           H == HeadRevision(v.db, m)
           s == CHOOSE x \in RevisionsOf(d, m) : x.num = row.rev
<1>1. /\ m \in Memory /\ Exists(v.db, m)
      /\ row.rev = v.db.heads[m].rev /\ row.state = v.db.heads[m].state
      /\ row.updated = v.db.heads[m].updated
  BY DEF RowRight, CandidateEligible, Staged
<1>2. H \in RevisionsOf(v.db, m) /\ H.num = row.rev
  BY <1>1, HeadRevisionIs DEF ViewRight
<1>3. H \in v.db.revisions /\ H.mem = m
  BY <1>2 DEF RevisionsOf
<1> HIDE DEF H, m
<1>4. PICK r \in d.revisions : r.mem = m /\ r.num = row.rev /\ r.body = H.body
  BY <1>2, <1>3 DEF ViewRight, KeepsRevisions
<1>5. r \in RevisionsOf(d, m)
  BY <1>4 DEF RevisionsOf
<1>6. s \in RevisionsOf(d, m) /\ s.num = row.rev
  BY <1>4, <1>5
<1> HIDE DEF s
<1>7. s = r
  <2>1. Exists(d, m)
    BY <1>1, <1>5 DEF RevisionChainOf
  <2>2. QED BY <1>1, <1>4, <1>5, <1>6, <2>1 DEF RevisionChainOf
<1>8. /\ Hydrated(d, row).mem = m /\ Hydrated(d, row).rev = row.rev
      /\ Hydrated(d, row).body = s.body /\ Hydrated(d, row).state = row.state
      /\ Hydrated(d, row).updated = row.updated
  BY DEF Hydrated, s, m
<1>9. ItemRight(v, Hydrated(d, row))
  BY <1>1, <1>4, <1>7, <1>8 DEF ItemRight, H
<1>10. QED BY <1>4, <1>5, <1>9 DEF m
\* A step of one reader.
LEMMA ReaderMoves ==
    ASSUME RecallInv, NEW r \in Reader, UNCHANGED allVars,
           NEW y, ReaderRight(y, db), readers' = [readers EXCEPT ![r] = y]
    PROVE  RecallInv'
<1>1. UNCHANGED <<vars, profiles, projections, expansions, workers>> /\ db' = db
  BY DEF allVars, searchVars, vars
<1>2. SearchInv'
  BY SearchStep DEF RecallInv
<1>3. readers' = [k \in Reader |-> IF k = r THEN y ELSE readers[k]]
  BY DEF RecallInv
<1>4. readers' = [k \in Reader |-> readers'[k]]
  BY <1>3
<1>5. \A k \in Reader : ReaderRight(readers'[k], db')
  BY <1>1, <1>3 DEF RecallInv
<1>6. QED BY <1>2, <1>4, <1>5 DEF RecallInv

LEMMA IdleIsRight == ASSUME NEW d PROVE ReaderRight(Idle, d)
BY DEF Idle, ReaderRight, Shaped

LEMMA BeginRecall ==
    ASSUME RecallInv, NEW r \in Reader, NEW q \in Query, Begin(r, q)
    PROVE  RecallInv'
<1> DEFINE y == [Idle EXCEPT !.at = "collecting", !.query = q, !.view = View]
<1>1. UNCHANGED allVars /\ readers' = [readers EXCEPT ![r] = y]
  BY DEF Begin
<1>2. /\ Shaped(y) /\ y.at = "collecting" /\ y.view = View /\ y.next = 1 /\ y.found = {}
      /\ y.rows = {} /\ y.hits = {} /\ y.query = q
  <2>1. Shaped(Idle)
    BY DEF Idle, Shaped
  <2>2. Idle.next = 1 /\ Idle.found = {} /\ Idle.rows = {} /\ Idle.hits = {}
    BY DEF Idle
  <2>3. QED BY <2>1, <2>2 DEF Shaped
<1>3. ViewRight(View, db)
  <2>1. db \in Store /\ RevisionChainOf(db) /\ KeepsRevisions(db, db)
    BY KeepsItself DEF RecallInv, SearchInv, IInv, TypeOK, Grounded
  <2>2. QED BY <2>1 DEF ViewRight, View
<1>4. Collected(y.view, y.query, y.next, y.found)
  BY <1>2 DEF Collected
<1> HIDE DEF y
<1>5. ReaderRight(y, db)
  BY <1>2, <1>3, <1>4 DEF ReaderRight
<1>6. QED BY <1>1, <1>5, ReaderMoves

LEMMA CollectRecall ==
    ASSUME RecallInv, NEW r \in Reader, Collect(r)
    PROVE  RecallInv'
<1>1. PICK x : x = readers[r]
  OBVIOUS
<1> DEFINE c == Channels[x.next]
           y(T) == [x EXCEPT !.next = x.next + 1, !.found = x.found \cup T]
<1>2. ReaderRight(x, db) /\ x.at = "collecting" /\ x.next \in 1..5 /\ UNCHANGED allVars
  BY <1>1, ChannelsAre DEF RecallInv, Collect
<1>3. \/ readers' = [readers EXCEPT ![r] = Idle]
      \/ \E T \in Returned(x.view, x.query, c) : readers' = [readers EXCEPT ![r] = y(T)]
  <2>1. \/ readers' = [readers EXCEPT ![r] = Idle]
        \/ \E T \in Returned(x.view, x.query, c) :
              readers' = [readers EXCEPT ![r].next = @ + 1, ![r].found = @ \cup T]
    BY <1>1 DEF Collect, ReadView
  <2>2. readers = [k \in Reader |-> readers[k]]
    BY DEF RecallInv
  <2>3. ASSUME NEW T,
               readers' = [readers EXCEPT ![r].next = @ + 1, ![r].found = @ \cup T]
        PROVE  readers' = [readers EXCEPT ![r] = y(T)]
    BY <1>1, <2>2, <2>3
  <2> HIDE DEF y, c
  <2>4. QED BY <2>1, <2>3
<1>4. CASE readers' = [readers EXCEPT ![r] = Idle]
  BY <1>2, <1>4, IdleIsRight, ReaderMoves
<1>5. ASSUME NEW T \in Returned(x.view, x.query, c), readers' = [readers EXCEPT ![r] = y(T)]
      PROVE  RecallInv'
  <2>1. Shaped(x)
    BY <1>2 DEF ReaderRight
  <2>2. /\ Shaped(y(T)) /\ y(T).at = x.at /\ y(T).view = x.view /\ y(T).query = x.query
        /\ y(T).next = x.next + 1 /\ y(T).found = x.found \cup T /\ y(T).rows = x.rows
        /\ y(T).hits = x.hits /\ y(T).relations = x.relations /\ y(T).pack = x.pack
    BY <2>1 DEF Shaped
  <2>3. T \in SUBSET ChannelRows(x.view, x.query, c)
    BY ReturnedAreRows
  <2>4. \A m \in T : m \in Memory /\ CandidateEligible(x.view, x.query, m)
    BY <2>3 DEF ChannelRows
  <2>5. Collected(x.view, x.query, x.next + 1, x.found \cup T)
    <3> SUFFICES ASSUME NEW i \in 1..x.next
                 PROVE  \E R \in Returned(x.view, x.query, Channels[i]) :
                           R \subseteq x.found \cup T
      BY <1>2 DEF Collected
    <3>1. CASE i = x.next
      BY <3>1
    <3>2. CASE i # x.next
      <4>1. i \in 1..(x.next - 1)
        BY <1>2, <3>2
      <4>2. Collected(x.view, x.query, x.next, x.found)
        BY <1>2 DEF ReaderRight
      <4>3. QED BY <4>1, <4>2 DEF Collected
    <3>3. QED BY <3>1, <3>2
  <2> HIDE DEF y
  <2>6. ReaderRight(y(T), db)
    BY <1>2, <2>2, <2>4, <2>5 DEF ReaderRight
  <2>7. QED BY <1>2, <1>5, <2>6, ReaderMoves
<1>6. QED BY <1>3, <1>4, <1>5

LEMMA StageRecall ==
    ASSUME RecallInv, NEW r \in Reader, Stage(r)
    PROVE  RecallInv'
<1>1. PICK x : x = readers[r]
  OBVIOUS
<1> DEFINE rows(T) == {Staged(ReadView(r), m) : m \in T}
           y(T) == [x EXCEPT !.at = "judging", !.found = T, !.rows = rows(T)]
<1>2. /\ ReaderRight(x, db) /\ x.at = "collecting" /\ x.next \notin 1..5
      /\ x.next \in Nat \ {0} /\ UNCHANGED allVars
  BY <1>1, ChannelsAre DEF RecallInv, Stage, ReaderRight
<1>3. PICK T \in Best(x.found, MaxCandidates) : readers' = [readers EXCEPT ![r] = y(T)]
  <2>1. \E T \in Best(x.found, MaxCandidates) :
           readers' = [readers EXCEPT ![r].at = "judging", ![r].found = T, ![r].rows = rows(T)]
    BY <1>1 DEF Stage
  <2>2. readers = [k \in Reader |-> readers[k]]
    BY DEF RecallInv
  <2> HIDE DEF rows
  <2>3. ASSUME NEW T, readers' = [readers EXCEPT ![r].at = "judging", ![r].found = T,
                                                 ![r].rows = rows(T)]
        PROVE  readers' = [readers EXCEPT ![r] = y(T)]
    BY <1>1, <2>2, <2>3
  <2> HIDE DEF y
  <2>4. QED BY <2>1, <2>3
<1>4. T \in SUBSET x.found
  BY DEF Best
<1>5. \A m \in T : m \in Memory /\ CandidateEligible(x.view, x.query, m)
  BY <1>2, <1>4 DEF ReaderRight
<1>6. ASSUME NEW row \in rows(T) PROVE RowRight(x.view, x.query, row)
  <2>1. PICK m \in T : row = Staged(x.view, m)
    BY <1>1, <1>6 DEF ReadView
  <2>2. row.mem = m
    BY <2>1 DEF Staged
  <2>3. QED BY <1>5, <2>1, <2>2 DEF RowRight
<1>7. Crowded(x.view, x.query, T)
  <2>1. x.found \in SUBSET Memory /\ Collected(x.view, x.query, x.next, x.found)
    BY <1>2 DEF ReaderRight
  <2>2. QED BY <1>2, <2>1, StagedIsCrowded
<1> HIDE DEF rows
<1>8. /\ Shaped(y(T)) /\ y(T).at = "judging" /\ y(T).view = x.view /\ y(T).query = x.query
      /\ y(T).found = T /\ y(T).rows = rows(T)
      /\ y(T).hits = x.hits /\ y(T).relations = x.relations
  BY <1>2 DEF ReaderRight, Shaped
<1> HIDE DEF y
<1>9. ReaderRight(y(T), db)
  BY <1>2, <1>5, <1>6, <1>7, <1>8 DEF ReaderRight
<1>10. QED BY <1>2, <1>3, <1>9, ReaderMoves
\* A row is judged, and the relations learnt before are kept.
LEMMA JudgedIsRight ==
    ASSUME NEW d, NEW x, ReaderRight(x, d), x.at = "judging",
           NEW y, Shaped(y), y.at = "judging", y.view = x.view, y.query = x.query,
           y.found = x.found, y.rows \subseteq x.rows,
           \A c \in DOMAIN x.relations :
              c \in DOMAIN y.relations /\ y.relations[c] = x.relations[c],
           NEW h, y.hits \subseteq x.hits \cup {h},
           h \in y.hits => HitRight(x.view, x.query, y.relations, h)
    PROVE  ReaderRight(y, d)
<1>1. ASSUME NEW g \in y.hits PROVE HitRight(y.view, y.query, y.relations, g)
  <2>1. CASE g = h
    BY <2>1
  <2>2. CASE g \in x.hits
    <3>1. HitRight(x.view, x.query, x.relations, g)
      BY <2>2 DEF ReaderRight
    <3>2. QED BY <3>1 DEF HitRight
  <2>3. QED BY <2>1, <2>2
<1>2. QED BY <1>1 DEF ReaderRight

LEMMA JudgeRecall ==
    ASSUME RecallInv, NEW r \in Reader, NEW row, Judge(r, row)
    PROVE  RecallInv'
<1>1. PICK x : x = readers[r]
  OBVIOUS
<1> DEFINE rest == x.rows \ {row}
           hit(relation) == [row |-> row, verdict |-> Verdict(row, relation)]
           learnt(relation) == Learnt(x.relations, row.ctx, relation)
           drop == [x EXCEPT !.rows = rest]
           shown(relation) == Admitted(x.hits, readers[r].query, row, relation)
           take(verdict) == [x EXCEPT !.rows = rest, !.hits = shown(verdict)]
           learn(relation) == [x EXCEPT !.rows = rest, !.relations = learnt(relation),
                                        !.hits = shown(relation)]
<1>2. /\ ReaderRight(x, db) /\ x.at = "judging" /\ row \in x.rows /\ UNCHANGED allVars
      /\ readers = [k \in Reader |-> readers[k]]
  BY <1>1 DEF RecallInv, Judge
<1>3. Shaped(x) /\ RowRight(x.view, x.query, row)
  BY <1>2 DEF ReaderRight
<1>4. \/ readers' = [readers EXCEPT ![r] = drop]
      \/ ~Versioned(row, readers[r].query) /\ readers' = [readers EXCEPT ![r] = take("unknown")]
      \/ \E verdict \in Settled : readers' = [readers EXCEPT ![r] = take(verdict)]
      \/ \E relation \in Resolved(r, row.ctx) : readers' = [readers EXCEPT ![r] = learn(relation)]
  <2> DEFINE judged == [readers EXCEPT ![r].rows = @ \ {row}]
  <2>1. IF ~StillWanted(row, readers[r].query)
        THEN readers' = judged
        ELSE IF ~Versioned(row, readers[r].query)
        THEN readers' = [judged EXCEPT ![r].hits = Admitted(@, readers[r].query, row, "unknown")]
        ELSE \/ \E verdict \in Settled :
                   readers' = [judged EXCEPT ![r].hits = Admitted(@, readers[r].query, row, verdict)]
             \/ \E relation \in Resolved(r, row.ctx) :
                   readers' = [judged EXCEPT
                      ![r].relations = Learnt(@, row.ctx, relation),
                      ![r].hits = Admitted(@, readers[r].query, row, relation)]
    BY DEF Judge
  <2>2. judged = [readers EXCEPT ![r] = drop]
    BY <1>1, <1>2
  <2>3. judged = [k \in Reader |-> judged[k]] /\ judged[r] = drop
    BY <1>2, <2>2
  <2>4. /\ drop.hits = x.hits /\ drop.relations = x.relations
    BY <1>3 DEF Shaped
  <2> HIDE DEF judged
  <2>5. ASSUME NEW verdict,
               readers' = [judged EXCEPT ![r].hits = Admitted(@, readers[r].query, row, verdict)]
        PROVE  readers' = [readers EXCEPT ![r] = take(verdict)]
    <3>1. take(verdict) =
             [drop EXCEPT !.hits = Admitted(drop.hits, readers[r].query, row, verdict)]
      BY <2>4
    <3> HIDE DEF take, drop
    <3>2. readers' = [judged EXCEPT ![r] = take(verdict)]
      BY <2>3, <2>5, <3>1
    <3>3. QED BY <1>2, <2>2, <3>2
  <2>6. ASSUME NEW relation,
               readers' = [judged EXCEPT
                   ![r].relations = Learnt(@, row.ctx, relation),
                   ![r].hits = Admitted(@, readers[r].query, row, relation)]
        PROVE  readers' = [readers EXCEPT ![r] = learn(relation)]
    <3> DEFINE y == [drop EXCEPT !.relations = learnt(relation), !.hits = shown(relation)]
    <3>1. learn(relation) = y
      BY <2>4
    <3>2. y = [drop EXCEPT !.relations = Learnt(drop.relations, row.ctx, relation),
                           !.hits = Admitted(drop.hits, readers[r].query, row, relation)]
      BY <2>4
    <3> HIDE DEF learn, y, drop
    <3>3. readers' = [judged EXCEPT ![r] = y]
      BY <2>3, <2>6, <3>2
    <3>4. QED BY <1>2, <2>2, <3>1, <3>3
  <2> HIDE DEF take, drop, learn
  <2>7. QED BY <2>1, <2>2, <2>5, <2>6
<1>5. CASE readers' = [readers EXCEPT ![r] = drop]
  <2>1. /\ Shaped(drop) /\ drop.at = x.at /\ drop.view = x.view /\ drop.query = x.query
        /\ drop.found = x.found /\ drop.rows = rest /\ drop.hits = x.hits
        /\ drop.relations = x.relations
    BY <1>3 DEF Shaped
  <2> HIDE DEF drop
  <2>2. ReaderRight(drop, db)
    <3>1. PICK h : h \notin drop.hits
      BY NoSetContainsEverything
    <3>2. QED BY <1>2, <2>1, <3>1, JudgedIsRight
  <2>3. QED BY <1>2, <1>5, <2>2, ReaderMoves
<1>6. ASSUME NEW verdict, ~Versioned(row, readers[r].query) \/ verdict \in Settled,
             readers' = [readers EXCEPT ![r] = take(verdict)]
      PROVE  RecallInv'
  <2>1. /\ Shaped(take(verdict)) /\ take(verdict).at = x.at /\ take(verdict).view = x.view
        /\ take(verdict).query = x.query /\ take(verdict).found = x.found
        /\ take(verdict).rows = rest /\ take(verdict).hits = shown(verdict)
        /\ take(verdict).relations = x.relations
    BY <1>3 DEF Shaped
  <2>2. verdict \in Settled => verdict \notin GitRelation
    BY DEF Settled, GitRelation
  <2>3. HitRight(x.view, x.query, x.relations, hit(verdict))
    BY <1>1, <1>3, <1>6, <2>2 DEF HitRight, Verdict
  <2>4. shown(verdict) \subseteq x.hits \cup {hit(verdict)}
    BY DEF Admitted
  <2> HIDE DEF take, hit, shown
  <2>5. ReaderRight(take(verdict), db)
    BY <1>2, <2>1, <2>3, <2>4, JudgedIsRight
  <2>6. QED BY <1>2, <1>6, <2>5, ReaderMoves
<1>7. ASSUME NEW relation \in Resolved(r, row.ctx),
             readers' = [readers EXCEPT ![r] = learn(relation)]
      PROVE  RecallInv'
  <2> DEFINE y == learn(relation)
  <2>1. /\ Shaped(y) /\ y.at = x.at /\ y.view = x.view /\ y.query = x.query
        /\ y.found = x.found /\ y.rows = rest /\ y.hits = shown(relation)
        /\ y.relations = learnt(relation)
    BY <1>3 DEF Shaped
  <2>2. row.ctx \in DOMAIN x.relations => relation = x.relations[row.ctx]
    BY <1>1, <1>7 DEF Resolved
  <2>3. /\ \A c \in DOMAIN x.relations :
              c \in DOMAIN learnt(relation) /\ learnt(relation)[c] = x.relations[c]
        /\ row.ctx \in DOMAIN learnt(relation) /\ learnt(relation)[row.ctx] = relation
    BY <2>2 DEF Learnt
  <2> HIDE DEF learnt
  <2>4. HitRight(x.view, x.query, learnt(relation), hit(relation))
    BY <1>3, <2>3 DEF HitRight, Verdict
  <2>5. shown(relation) \subseteq x.hits \cup {hit(relation)}
    BY DEF Admitted
  <2> HIDE DEF learn, y, hit, shown
  <2>6. ReaderRight(y, db)
    <3>1. /\ y.rows \subseteq x.rows /\ y.hits \subseteq x.hits \cup {hit(relation)}
          /\ \A c \in DOMAIN x.relations :
                c \in DOMAIN y.relations /\ y.relations[c] = x.relations[c]
          /\ HitRight(x.view, x.query, y.relations, hit(relation))
      BY <2>1, <2>3, <2>4, <2>5
    <3>2. QED BY <1>2, <2>1, <3>1, JudgedIsRight
  <2>7. QED BY <1>2, <1>7, <2>6, ReaderMoves DEF y
<1> HIDE DEF drop, take, learn
<1>8. QED BY <1>4, <1>5, <1>6, <1>7
LEMMA SelectRecall ==
    ASSUME RecallInv, NEW r \in Reader, Select(r)
    PROVE  RecallInv'
<1>1. PICK x : x = readers[r]
  OBVIOUS
<1> DEFINE y(picked) == [x EXCEPT !.at = "hydrating", !.hits = picked]
<1>2. /\ ReaderRight(x, db) /\ x.at = "judging" /\ UNCHANGED allVars
      /\ readers = [k \in Reader |-> readers[k]]
  BY <1>1 DEF RecallInv, Select
<1>3. PICK pool \in Best(x.hits, PoolLimit) : \E picked \in Best(pool, ResultLimit) :
         readers' = [readers EXCEPT ![r].at = "hydrating", ![r].hits = picked]
  BY <1>1 DEF Select
<1>4. PICK picked \in Best(pool, ResultLimit) :
         readers' = [readers EXCEPT ![r].at = "hydrating", ![r].hits = picked]
  BY <1>3
<1>5. readers' = [readers EXCEPT ![r] = y(picked)]
  BY <1>1, <1>2, <1>4
<1>6. picked \subseteq x.hits
  BY DEF Best
<1>7. /\ Shaped(y(picked)) /\ y(picked).at = "hydrating" /\ y(picked).view = x.view
      /\ y(picked).query = x.query /\ y(picked).found = x.found
      /\ y(picked).rows = x.rows /\ y(picked).hits = picked
      /\ y(picked).relations = x.relations
  BY <1>2 DEF ReaderRight, Shaped
<1> HIDE DEF y
<1>8. ReaderRight(y(picked), db)
  BY <1>2, <1>6, <1>7 DEF ReaderRight
<1>9. QED BY <1>2, <1>5, <1>8, ReaderMoves

LEMMA HydrateRecall ==
    ASSUME RecallInv, NEW r \in Reader, Hydrate(r)
    PROVE  RecallInv'
<1>1. PICK x : x = readers[r]
  OBVIOUS
<1> DEFINE rows == {h.row : h \in x.hits}
           pack == {Hydrated(db, row) : row \in rows}
           y == [x EXCEPT !.at = "done", !.pack = pack]
<1>2. /\ ReaderRight(x, db) /\ x.at = "hydrating" /\ UNCHANGED allVars
      /\ readers = [k \in Reader |-> readers[k]]
  BY <1>1 DEF RecallInv, Hydrate
<1>3. db \in Store /\ RevisionChainOf(db) /\ ViewRight(x.view, db)
  BY <1>2 DEF ReaderRight, RecallInv, SearchInv, IInv, TypeOK, Grounded
<1>4. ASSUME NEW row \in rows
      PROVE  /\ \E s \in RevisionsOf(db, row.mem) : s.num = row.rev
             /\ ItemRight(x.view, Hydrated(db, row))
  <2>1. RowRight(x.view, x.query, row)
    BY <1>2 DEF ReaderRight, HitRight
  <2>2. QED BY <1>3, <2>1, HydratedIsRight
<1>5. readers' = [readers EXCEPT ![r] = y]
  <2> DEFINE all == \A row \in rows : \E s \in RevisionsOf(db, row.mem) : s.num = row.rev
  <2>1. readers' = [readers EXCEPT ![r].at = IF all THEN "done" ELSE "not found",
                                   ![r].pack = IF all THEN pack ELSE @]
    BY <1>1 DEF Hydrate
  <2>2. all
    BY <1>4
  <2> HIDE DEF all, pack
  <2>3. readers' = [readers EXCEPT ![r].at = "done", ![r].pack = pack]
    BY <2>1, <2>2
  <2>4. QED BY <1>1, <1>2, <2>3
<1>6. \A item \in pack : ItemRight(x.view, item)
  BY <1>4
<1> HIDE DEF pack, rows
<1>7. /\ Shaped(y) /\ y.at = "done" /\ y.view = x.view /\ y.query = x.query
      /\ y.found = x.found /\ y.rows = x.rows /\ y.hits = x.hits
      /\ y.relations = x.relations /\ y.pack = pack
  BY <1>2 DEF ReaderRight, Shaped
<1> HIDE DEF y
<1>8. ReaderRight(y, db)
  BY <1>2, <1>6, <1>7 DEF ReaderRight
<1>9. QED BY <1>2, <1>5, <1>8, ReaderMoves

\* The writers of the store move: every reader keeps what it has.
LEMMA WriterRecall ==
    ASSUME RecallInv, [SNext]_allVars, UNCHANGED readers
    PROVE  RecallInv'
<1>1. SearchInv' /\ KeepsRevisions(db, db')
  BY SearchStep DEF RecallInv
<1>2. ASSUME NEW r \in Reader PROVE ReaderRight(readers[r], db')
  <2>1. PICK x : x = readers[r]
    OBVIOUS
  <2>2. ReaderRight(x, db)
    BY <2>1 DEF RecallInv
  <2>3. ViewRight(x.view, db) => ViewRight(x.view, db')
    BY <1>1, KeepsTransitive DEF ViewRight
  <2>4. ReaderRight(x, db')
    BY <2>2, <2>3 DEF ReaderRight
  <2>5. QED BY <2>1, <2>4
<1>3. QED BY <1>1, <1>2 DEF RecallInv

LEMMA RecallStep ==
    ASSUME RecallInv, [RNext]_recallVars
    PROVE  RecallInv'
<1>1. CASE SNext /\ UNCHANGED readers
  BY <1>1, WriterRecall
<1>2. CASE \E r \in Reader, q \in Query : Begin(r, q)
  BY <1>2, BeginRecall
<1>3. CASE \E r \in Reader : Collect(r)
  BY <1>3, CollectRecall
<1>4. CASE \E r \in Reader : Stage(r)
  BY <1>4, StageRecall
<1>5. CASE \E r \in Reader : \E row \in readers[r].rows : Judge(r, row)
  BY <1>5, JudgeRecall
<1>6. CASE \E r \in Reader : Select(r)
  BY <1>6, SelectRecall
<1>7. CASE \E r \in Reader : Hydrate(r)
  BY <1>7, HydrateRecall
<1>8. CASE \E r \in Reader : Return(r)
  <2>1. PICK r \in Reader : Return(r)
    BY <1>8
  <2>2. readers' = [readers EXCEPT ![r] = Idle] /\ UNCHANGED allVars
    BY <2>1 DEF Return
  <2>3. QED BY <2>2, IdleIsRight, ReaderMoves
<1>9. CASE UNCHANGED recallVars
  BY <1>9, WriterRecall DEF recallVars
<1>10. QED
  BY <1>1, <1>2, <1>3, <1>4, <1>5, <1>6, <1>7, <1>8, <1>9 DEF RNext

\* Together with the search side: what every reader has in hand stays true of
\* the snapshot it read, whatever is written meanwhile.
THEOREM RecallInductive == RSpec => []RecallInv
<1>1. RInit => RecallInv
  <2> SUFFICES ASSUME RInit PROVE RecallInv
    OBVIOUS
  <2>1. SearchInv
    BY InitSearch DEF RInit
  <2>2. readers = [r \in Reader |-> Idle]
    BY DEF RInit
  <2>3. QED BY <2>1, <2>2, IdleIsRight DEF RecallInv
<1>2. RecallInv /\ [RNext]_recallVars => RecallInv'
  BY RecallStep
<1>3. QED BY <1>1, <1>2, PTL DEF RSpec

\* A context pack is one committed state of the store and one state of the
\* repository, however many writers and workers move between the two
\* transactions of recall, and hydration finds what was pinned (recall,
\* load_memory_revisions_bounded, cached_git_relation).
THEOREM PackIsOneState == RSpec => []AnswersFromOneView
<1>1. RecallInv => AnswersFromOneView
  <2> SUFFICES ASSUME RecallInv PROVE AnswersFromOneView
    OBVIOUS
  <2>1. \A r \in Reader : ReaderRight(readers[r], db)
    BY DEF RecallInv
  <2>2. PackIsOneSnapshot
    BY <2>1 DEF PackIsOneSnapshot, Done, ReaderRight, ItemRight
  <2>3. HydrationFindsRevisions
    BY <2>1 DEF HydrationFindsRevisions, ReaderRight
  <2>4. OneVerdictPerCommit
    BY <2>1 DEF OneVerdictPerCommit, ReaderRight, HitRight
  <2>5. QED BY <2>2, <2>3, <2>4 DEF AnswersFromOneView
<1>2. QED BY <1>1, RecallInductive, PTL

\* No row that the SQL of a collector let through is dropped by the rules
\* written again in Rust (the SQL of the collectors against recall's filters,
\* valid_at and classify_applicability).
THEOREM SqlAndRustAgree == RSpec => []SqlAgreesWithRust
<1>1. RecallInv => SqlAgreesWithRust
  <2> SUFFICES ASSUME RecallInv, NEW r \in Reader, NEW row \in readers[r].rows
               PROVE  StillWanted(row, readers[r].query)
    BY DEF SqlAgreesWithRust
  <2>1. ReaderRight(readers[r], db) /\ readers[r].at # "idle"
    BY DEF RecallInv, ReaderRight, Idle
  <2>2. /\ ViewRight(readers[r].view, db) /\ readers[r].query \in Query
        /\ RowRight(readers[r].view, readers[r].query, row)
    BY <2>1 DEF ReaderRight
  <2>3. QED BY <2>2, RightRowIsWanted
<1>2. QED BY <1>1, RecallInductive, PTL

\* A memory is missing from the candidates only because as many others the
\* request may see were returned (the collectors, prune_candidates).
THEOREM OnlyPeersCrowd == RSpec => []OnlyPeersCrowdOut
<1>1. RecallInv => OnlyPeersCrowdOut
  BY DEF RecallInv, ReaderRight, Crowded, OnlyPeersCrowdOut
<1>2. QED BY <1>1, RecallInductive, PTL
----------------------------------------------------------------------------
(***************************************************************************)
(* The selection of diverse hits (Diversity)                               *)
(***************************************************************************)

\* Those before x in a strict order are more than those before anything that
\* comes before x.
Earlier(A, R, x) == {y \in A : <<y, x>> \in R}
StrictOn(A, R) ==
    /\ \A x \in A : <<x, x>> \notin R
    /\ \A x, y, z \in A : <<x, y>> \in R /\ <<y, z>> \in R => <<x, z>> \in R

LEMMA EarlierAreFewer ==
    ASSUME NEW A, IsFiniteSet(A), NEW R, StrictOn(A, R), NEW x \in A, NEW y \in A, <<y, x>> \in R
    PROVE  /\ Cardinality(Earlier(A, R, y)) < Cardinality(Earlier(A, R, x))
           /\ Cardinality(Earlier(A, R, y)) \in Nat /\ Cardinality(Earlier(A, R, x)) \in Nat
<1> DEFINE X == Earlier(A, R, x)
           Y == Earlier(A, R, y)
<1>1. Y \in SUBSET X /\ X \in SUBSET A /\ y \in X /\ y \notin Y BY DEF Earlier, StrictOn
<1> HIDE DEF X, Y
<1>2. IsFiniteSet(X) BY <1>1, FS_Subset
<1>3. IsFiniteSet(Y) /\ Cardinality(Y) <= Cardinality(X) /\ Cardinality(Y) # Cardinality(X)
  BY <1>1, <1>2, FS_Subset
<1>4. Cardinality(X) \in Nat /\ Cardinality(Y) \in Nat BY <1>2, <1>3, FS_CardinalityType
<1>5. Cardinality(Y) < Cardinality(X) BY <1>3, <1>4
<1> QED BY <1>4, <1>5 DEF X, Y

LEMMA HasFirst ==
    ASSUME NEW A, IsFiniteSet(A), A # {}, NEW R, StrictOn(A, R)
    PROVE  \E x \in A : \A y \in A : <<y, x>> \notin R
<1> DEFINE count(x) == Cardinality(Earlier(A, R, x))
           T == {count(x) : x \in A}
<1>1. \A x \in A : count(x) \in Nat
  <2>1. TAKE x \in A
  <2>2. Earlier(A, R, x) \in SUBSET A BY DEF Earlier
  <2> QED BY <2>2, FS_Subset, FS_CardinalityType
<1>2. T \in SUBSET Nat /\ T # {} BY <1>1
<1> HIDE DEF count
<1>3. PICK n \in T : \A m \in T : n <= m BY <1>2, LeastOfNaturals
<1>4. PICK x \in A : n = count(x) BY <1>3
<1>5. ASSUME NEW y \in A, <<y, x>> \in R PROVE FALSE
  <2>1. count(y) < count(x) /\ count(y) \in Nat /\ count(x) \in Nat
    BY <1>5, EarlierAreFewer DEF count
  <2>2. count(x) <= count(y) BY <1>3, <1>4
  <2> QED BY <2>1, <2>2
<1> QED BY <1>5

LEMMA MaxOfInts ==
    ASSUME NEW S \in SUBSET Int, IsFiniteSet(S), S # {}
    PROVE  Max(S) \in S /\ \A y \in S : Max(S) >= y
<1> DEFINE R == {p \in Int \X Int : p[1] > p[2]}
<1>1. \A x, y \in Int : <<x, y>> \in R <=> x > y OBVIOUS
<1> HIDE DEF R
<1>2. StrictOn(S, R) BY <1>1 DEF StrictOn
<1>3. PICK x \in S : \A y \in S : <<y, x>> \notin R BY <1>2, HasFirst
<1>4. ASSUME NEW y \in S PROVE x >= y
  <2>1. x \in Int /\ y \in Int /\ <<y, x>> \notin R BY <1>3
  <2>2. ~(y > x) BY <1>1, <2>1
  <2> QED BY <2>1, <2>2
<1> QED BY <1>4 DEF Max

LEMMA MaxIs ==
    ASSUME NEW S \in SUBSET Int, NEW x \in S, \A y \in S : x >= y
    PROVE  Max(S) = x
<1>1. Max(S) \in S /\ \A y \in S : Max(S) >= y BY DEF Max
<1>2. Max(S) \in Int /\ x \in Int /\ Max(S) >= x /\ x >= Max(S) BY <1>1
<1> QED BY <1>2

LEMMA MaxAdded ==
    ASSUME NEW S \in SUBSET Int, IsFiniteSet(S), S # {}, NEW j \in Int
    PROVE  Max(S \cup {j}) = Max({Max(S), j})
<1>1. Max(S) \in S /\ \A y \in S : Max(S) >= y BY MaxOfInts
<1> DEFINE m == Max(S)
           larger == IF m >= j THEN m ELSE j
<1>2. m \in Int BY <1>1
<1> HIDE DEF m
<1>3. Max(S \cup {j}) = larger
  <2>1. larger \in S \cup {j} /\ \A y \in S \cup {j} : larger >= y BY <1>1, <1>2 DEF m
  <2>2. S \cup {j} \in SUBSET Int OBVIOUS
  <2> QED BY <2>1, <2>2, MaxIs
<1>4. Max({m, j}) = larger
  <2>1. larger \in {m, j} /\ \A y \in {m, j} : larger >= y BY <1>2
  <2>2. {m, j} \in SUBSET Int BY <1>2
  <2> QED BY <2>1, <2>2, MaxIs
<1> QED BY <1>3, <1>4 DEF m

\* The array is a permutation of the hits not chosen yet, and redundancies in
\* place are what recomputing them would give.
Chosen == {selected[i] : i \in DOMAIN selected}
Distinct(s) == \A i, j \in DOMAIN s : s[i] = s[j] => i = j
DiversityTypes ==
    /\ score \in [HitId -> Score] /\ tokens \in [HitId -> SUBSET Token]
    /\ available \in Seq(HitId) /\ redundancy \in [HitId -> Int]
    /\ selected \in Seq(HitId)
Remaining ==
    /\ Distinct(available)
    /\ {available[i] : i \in DOMAIN available} = HitId \ Chosen
UpToDate ==
    \A i \in DOMAIN available :
       redundancy[available[i]] = RedundancyAfter(available[i], Len(selected))
DiversityInv == DiversityTypes /\ Remaining /\ UpToDate /\ GreedyAsDefined

LEMMA ScoresCompare ==
    ASSUME score \in [HitId -> Score]
    PROVE  \A x, y, z \in HitId :
              /\ ~Before(x, x)
              /\ Before(x, y) /\ Before(y, z) => Before(x, z)
              /\ x # y => Before(x, y) \/ Before(y, x)
<1>1. \A x \in HitId : score[x] \in Nat /\ x \in Int BY DiversityAssumption
<1> QED BY <1>1 DEF Before

LEMMA TopScoreType ==
    ASSUME score \in [HitId -> Score]
    PROVE  TopScore \in Int
<1> DEFINE T == {score[x] : x \in HitId}
<1>1. [x \in HitId |-> score[x]] \in Surjection(HitId, T) BY DEF Surjection
<1>2. IsFiniteSet(T) BY <1>1, FS_Surjection, DiversityAssumption
<1>3. T \in SUBSET Int
  <2>1. \A x \in HitId : score[x] \in Nat BY DiversityAssumption
  <2> QED BY <2>1
<1> HIDE DEF T
<1>4. IsFiniteSet(T \cup {1}) BY <1>2, FS_AddElement
<1>5. T \cup {1} \in SUBSET Int /\ T \cup {1} # {} BY <1>3
<1>6. Max(T \cup {1}) \in T \cup {1} BY <1>4, <1>5, MaxOfInts
<1>7. Max(T \cup {1}) \in Int BY <1>5, <1>6
<1> QED BY <1>7 DEF TopScore, T

LEMMA MarginalType ==
    ASSUME score \in [HitId -> Score], NEW x \in HitId, NEW red \in Int
    PROVE  Marginal(x, red) \in Int
<1>1. score[x] \in Int /\ Lambda \in Int /\ Parts \in Int /\ TopScore \in Int
  <2>1. score[x] \in Nat BY DiversityAssumption
  <2>2. Lambda \in Int /\ Parts \in Int BY DiversityAssumption
  <2> QED BY <2>1, <2>2, TopScoreType
<1>2. Lambda * score[x] \in Int /\ (100 - Lambda) * red \in Int BY <1>1
<1>3. (Lambda * score[x]) * Parts \in Int /\ ((100 - Lambda) * red) * TopScore \in Int
  BY <1>1, <1>2
<1> DEFINE a == (Lambda * score[x]) * Parts
           b == ((100 - Lambda) * red) * TopScore
<1>4. Marginal(x, red) = a - b BY DEF Marginal
<1> HIDE DEF a, b
<1>5. a \in Int /\ b \in Int BY <1>3 DEF a, b
<1> QED BY <1>4, <1>5

LEMMA JaccardType ==
    ASSUME tokens \in [HitId -> SUBSET Token], NEW x \in HitId, NEW y \in HitId
    PROVE  Jaccard(x, y) \in Int
<1> DEFINE both == tokens[x] \cap tokens[y]
           all == tokens[x] \cup tokens[y]
<1>1. both \in SUBSET Token /\ all \in SUBSET Token OBVIOUS
<1> HIDE DEF both, all
<1>2. IsFiniteSet(both) /\ IsFiniteSet(all) BY <1>1, FS_Subset, DiversityAssumption
<1>3. Cardinality(both) \in Nat /\ Cardinality(all) \in Nat BY <1>2, FS_CardinalityType
<1>4. CASE all = {} BY <1>4 DEF Jaccard, all
<1>5. CASE all # {}
  <2>1. Cardinality(all) # 0 BY <1>2, <1>5, FS_EmptySet
  <2>2. Parts * Cardinality(both) \in Int BY <1>3, DiversityAssumption
  <2> DEFINE a == Parts * Cardinality(both)
             b == Cardinality(all)
  <2>3. a \in Int /\ b \in Nat \ {0} BY <1>3, <2>1, <2>2
  <2>4. Jaccard(x, y) = a \div b BY <1>5 DEF Jaccard, both, all
  <2> HIDE DEF a, b
  <2> QED BY <2>3, <2>4
<1> QED BY <1>4, <1>5

\* Sorting is possible: the hits before another are fewer the earlier it is.
LEMMA SortedRight ==
    ASSUME score \in [HitId -> Score]
    PROVE  /\ SortedHits \in Seq(HitId) /\ Distinct(SortedHits)
           /\ {SortedHits[i] : i \in DOMAIN SortedHits} = HitId
<1> DEFINE n == Cardinality(HitId)
           R == {p \in HitId \X HitId : Before(p[1], p[2])}
           rank == [x \in HitId |-> Cardinality(Earlier(HitId, R, x)) + 1]
           sorted(s) == \A i, j \in DOMAIN s : i < j => Before(s[i], s[j])
<1>1. IsFiniteSet(HitId) /\ n \in Nat BY FS_CardinalityType, DiversityAssumption
<1>2. \A x, y \in HitId : <<x, y>> \in R <=> Before(x, y) OBVIOUS
<1> HIDE DEF R
<1>3. StrictOn(HitId, R) BY <1>2, ScoresCompare DEF StrictOn
<1>4. \A x \in HitId : rank[x] \in 1..n
  <2>1. TAKE x \in HitId
  <2>2. Earlier(HitId, R, x) \in SUBSET HitId /\ Earlier(HitId, R, x) # HitId
    BY <1>3 DEF Earlier, StrictOn
  <2>3. IsFiniteSet(Earlier(HitId, R, x)) /\ Cardinality(Earlier(HitId, R, x)) <= n
        /\ Cardinality(Earlier(HitId, R, x)) # n
    BY <1>1, <2>2, FS_Subset
  <2>4. Cardinality(Earlier(HitId, R, x)) \in Nat BY <2>3, FS_CardinalityType
  <2> QED BY <1>1, <2>3, <2>4
<1>5. \A x, y \in HitId : Before(x, y) => rank[x] < rank[y]
  <2>1. TAKE x, y \in HitId
  <2>2. HAVE Before(x, y)
  <2>3. <<x, y>> \in R BY <1>2, <2>2
  <2>4. /\ Cardinality(Earlier(HitId, R, x)) < Cardinality(Earlier(HitId, R, y))
        /\ Cardinality(Earlier(HitId, R, x)) \in Nat /\ Cardinality(Earlier(HitId, R, y)) \in Nat
    BY <1>1, <1>3, <2>3, EarlierAreFewer
  <2> QED BY <2>4
<1>6. rank \in [HitId -> 1..n] BY <1>4
<1> HIDE DEF rank
<1>7. \A x, y \in HitId : x # y => rank[x] # rank[y]
  <2>1. TAKE x, y \in HitId
  <2>2. rank[x] \in Int /\ rank[y] \in Int BY <1>1, <1>6
  <2> QED BY <1>5, <2>2, ScoresCompare
<1>8. rank \in Injection(HitId, 1..n) BY <1>6, <1>7 DEF Injection, IsInjective
<1>9. IsFiniteSet(1..n) /\ Cardinality(1..n) = n
  <2>1. 1 \in Int /\ n \in Int /\ n >= 0 BY <1>1
  <2> HIDE DEF n
  <2>2. IsFiniteSet(1..n) /\ Cardinality(1..n) = IF 1 > n THEN 0 ELSE n-1+1 BY <2>1, FS_Interval
  <2> QED BY <2>1, <2>2
<1>10. rank \in Surjection(HitId, 1..n) BY <1>8, <1>9, FS_Injection
<1> DEFINE inverse == [k \in 1..n |-> CHOOSE x \in HitId : rank[x] = k]
<1>11. \A k \in 1..n : inverse[k] \in HitId /\ rank[inverse[k]] = k
  BY <1>10 DEF Surjection
<1>12. inverse \in [1..n -> HitId] BY <1>11
<1> HIDE DEF inverse
<1>13. sorted(inverse)
  <2> SUFFICES ASSUME NEW i \in 1..n, NEW j \in 1..n, i < j
               PROVE  Before(inverse[i], inverse[j])
    BY <1>12
  <2>1. i \in Int /\ j \in Int BY <1>1
  <2>2. inverse[i] # inverse[j] BY <1>11, <2>1
  <2>3. ~Before(inverse[j], inverse[i]) BY <1>5, <1>11, <2>1
  <2> QED BY <1>11, <2>2, <2>3, ScoresCompare
<1>14. SortedHits \in [1..n -> HitId] /\ sorted(SortedHits)
  BY <1>12, <1>13 DEF SortedHits
<1> DEFINE s == SortedHits
<1> HIDE DEF s
<1>15. s \in [1..n -> HitId] /\ sorted(s) BY <1>14 DEF s
<1>16. s \in Seq(HitId) BY <1>1, <1>15
<1>17. Distinct(s)
  <2> SUFFICES ASSUME NEW i \in 1..n, NEW j \in 1..n, s[i] = s[j], i # j PROVE FALSE
    BY <1>15 DEF Distinct
  <2>1. i < j \/ j < i BY <1>1
  <2> QED BY <1>15, <2>1, ScoresCompare
<1>18. s \in Injection(1..n, HitId) BY <1>15, <1>17 DEF Injection, IsInjective, Distinct
<1>19. s \in Surjection(1..n, HitId) BY <1>1, <1>9, <1>18, FS_Injection
<1>20. {s[i] : i \in DOMAIN s} = HitId BY <1>15, <1>19 DEF Surjection
<1> QED BY <1>16, <1>17, <1>20 DEF s

LEMMA BestRight ==
    ASSUME DiversityTypes, Distinct(available), available # <<>>
    PROVE  /\ BestPosition \in DOMAIN available
           /\ \A i \in DOMAIN available :
                 i # BestPosition => Better(available[BestPosition], available[i])
<1> DEFINE value(i) == Marginal(available[i], redundancy[available[i]])
           D == DOMAIN available
           over(i, j) == value(i) > value(j) \/ (value(i) = value(j) /\ available[i] < available[j])
           R == {p \in D \X D : over(p[1], p[2])}
<1>1. \A i \in D : available[i] \in HitId /\ available[i] \in Int
  <2>1. \A i \in D : available[i] \in HitId BY DEF DiversityTypes
  <2> QED BY <2>1, DiversityAssumption
<1>2. \A i \in D : value(i) \in Int
  <2>1. TAKE i \in D
  <2>2. redundancy[available[i]] \in Int BY <1>1 DEF DiversityTypes
  <2> QED BY <1>1, <2>2, MarginalType DEF DiversityTypes
<1>3. \A i, j \in D : Better(available[i], available[j]) <=> over(i, j)
  BY DEF Better
<1> HIDE DEF value
<1>4. \A i, j \in D : <<i, j>> \in R <=> over(i, j) OBVIOUS
<1> HIDE DEF R
<1>5. StrictOn(D, R)
  <2>1. \A i \in D : ~over(i, i) BY <1>1, <1>2
  <2>2. \A i, j, k \in D : over(i, j) /\ over(j, k) => over(i, k) BY <1>1, <1>2
  <2> QED BY <1>4, <2>1, <2>2 DEF StrictOn
<1>6. IsFiniteSet(D) /\ D # {}
  <2>1. Len(available) \in Nat /\ D = 1..Len(available) /\ Len(available) # 0
    BY DEF DiversityTypes
  <2>2. IsFiniteSet(1..Len(available)) BY <2>1, FS_Interval
  <2> QED BY <2>1, <2>2
<1>7. PICK p \in D : \A i \in D : <<i, p>> \notin R BY <1>5, <1>6, HasFirst
<1>8. \A i \in D : i # p => over(p, i)
  <2>1. TAKE i \in D
  <2>2. HAVE i # p
  <2>3. available[i] # available[p] BY <2>2 DEF Distinct
  <2>4. ~over(i, p) BY <1>4, <1>7
  <2> QED BY <1>1, <1>2, <2>3, <2>4
<1>9. /\ \A i \in D : ~Better(available[i], available[p])
      /\ \A i \in 1..(p - 1) : Better(available[p], available[i])
  <2>1. \A i \in D : ~Better(available[i], available[p]) BY <1>3, <1>4, <1>7
  <2>2. \A i \in 1..(p - 1) : i \in D /\ i # p BY DEF DiversityTypes
  <2> QED BY <1>3, <1>8, <2>1, <2>2
<1>10. /\ BestPosition \in D
       /\ \A i \in D : ~Better(available[i], available[BestPosition])
  BY <1>9 DEF BestPosition
<1>11. \A i \in D : i # BestPosition => over(BestPosition, i)
  <2>1. TAKE i \in D
  <2>2. HAVE i # BestPosition
  <2>3. available[i] # available[BestPosition] BY <1>10, <2>2 DEF Distinct
  <2>4. ~over(i, BestPosition) BY <1>3, <1>10
  <2> QED BY <1>1, <1>2, <1>10, <2>3, <2>4
<1> QED BY <1>3, <1>10, <1>11

\* swap_remove takes away the one element and keeps the others.
LEMMA SwapRemoved ==
    ASSUME NEW s \in Seq(HitId), Distinct(s), NEW p \in DOMAIN s
    PROVE  LET t == SwapRemove(s, p) IN
           /\ t \in Seq(HitId) /\ Distinct(t)
           /\ {t[i] : i \in DOMAIN t} = {s[i] : i \in DOMAIN s} \ {s[p]}
<1> DEFINE n == Len(s)
           t == SwapRemove(s, p)
           from(i) == IF i = p THEN n ELSE i
<1>1. n \in Nat /\ DOMAIN s = 1..n /\ p \in 1..n OBVIOUS
<1>2. t = [i \in 1..(n - 1) |-> s[from(i)]] BY DEF SwapRemove
<1> HIDE DEF t, n
<1>3. \A i \in 1..(n - 1) : from(i) \in 1..n /\ from(i) # p BY <1>1
<1>4. \A i, j \in 1..(n - 1) : from(i) = from(j) => i = j BY <1>1
<1>5. \A k \in 1..n : k # p => \E i \in 1..(n - 1) : from(i) = k
  <2>1. TAKE k \in 1..n
  <2>2. HAVE k # p
  <2>3. CASE k = n
    <3>1. p \in 1..(n - 1) /\ from(p) = k BY <1>1, <2>2, <2>3
    <3> QED BY <3>1
  <2>4. CASE k # n
    <3>1. k \in 1..(n - 1) BY <1>1, <2>4
    <3>2. from(k) = k BY <2>2
    <3> QED BY <3>1, <3>2
  <2> QED BY <2>3, <2>4
<1> HIDE DEF from
<1>6. DOMAIN t = 1..(n - 1) /\ \A i \in 1..(n - 1) : t[i] = s[from(i)] /\ t[i] \in HitId
  BY <1>1, <1>2, <1>3
<1>7. t \in Seq(HitId)
  <2>1. t \in [1..(n - 1) -> HitId] BY <1>2, <1>6
  <2>2. n - 1 \in Nat BY <1>1
  <2> QED BY <2>1, <2>2
<1>8. Distinct(t) BY <1>1, <1>3, <1>4, <1>6 DEF Distinct
<1>9. {t[i] : i \in DOMAIN t} = {s[i] : i \in DOMAIN s} \ {s[p]}
  <2>1. ASSUME NEW i \in DOMAIN t PROVE t[i] \in {s[k] : k \in DOMAIN s} /\ t[i] # s[p]
    BY <1>1, <1>3, <1>6, <2>1 DEF Distinct
  <2>2. ASSUME NEW k \in DOMAIN s, s[k] # s[p] PROVE \E i \in DOMAIN t : t[i] = s[k]
    BY <1>1, <1>5, <1>6, <2>2
  <2> QED BY <2>1, <2>2
<1> QED BY <1>7, <1>8, <1>9 DEF t

LEMMA RedundancyType ==
    ASSUME DiversityTypes, NEW x \in HitId, NEW n \in 0..Len(selected)
    PROVE  LET S == {Jaccard(x, selected[i]) : i \in 1..n} \cup {0}
           IN S \in SUBSET Int /\ IsFiniteSet(S) /\ RedundancyAfter(x, n) \in Int
<1> DEFINE T == {Jaccard(x, selected[i]) : i \in 1..n}
           S == T \cup {0}
<1>1. n \in Nat /\ \A i \in 1..n : selected[i] \in HitId BY DEF DiversityTypes
<1>2. \A i \in 1..n : Jaccard(x, selected[i]) \in Int BY <1>1, JaccardType DEF DiversityTypes
<1>3. IsFiniteSet(T)
  <2>1. [i \in 1..n |-> Jaccard(x, selected[i])] \in Surjection(1..n, T) BY DEF Surjection
  <2>2. IsFiniteSet(1..n) BY <1>1, FS_Interval
  <2> QED BY <2>1, <2>2, FS_Surjection
<1>4. T \in SUBSET Int BY <1>2
<1> HIDE DEF T
<1>5. S \in SUBSET Int /\ IsFiniteSet(S) /\ S # {}
  <2>1. IsFiniteSet(S) BY <1>3, FS_AddElement
  <2> QED BY <1>4, <2>1
<1>6. Max(S) \in Int BY <1>5, MaxOfInts
<1> QED BY <1>5, <1>6 DEF RedundancyAfter, T

LEMMA SelectionBegins ==
    ASSUME DInit
    PROVE  DiversityInv
<1>1. /\ score \in [HitId -> Score] /\ tokens \in [HitId -> SUBSET Token]
      /\ available = SortedHits /\ redundancy = [x \in HitId |-> 0] /\ selected = <<>>
  BY DEF DInit
<1>2. /\ available \in Seq(HitId) /\ Distinct(available)
      /\ {available[i] : i \in DOMAIN available} = HitId
  BY <1>1, SortedRight
<1>3. DiversityTypes BY <1>1, <1>2 DEF DiversityTypes
<1>4. Remaining BY <1>1, <1>2 DEF Remaining, Chosen
<1>5. UpToDate
  <2>1. \A x \in HitId : RedundancyAfter(x, 0) = 0
    <3>1. TAKE x \in HitId
    <3>2. {Jaccard(x, selected[i]) : i \in 1..0} \cup {0} = {0} OBVIOUS
    <3>3. Max({0}) = 0
      <4>1. {0} \in SUBSET Int /\ 0 \in {0} /\ \A y \in {0} : 0 >= y OBVIOUS
      <4> QED BY <4>1, MaxIs
    <3> QED BY <3>2, <3>3 DEF RedundancyAfter
  <2>2. Len(selected) = 0 BY <1>1
  <2>3. \A i \in DOMAIN available : available[i] \in HitId BY <1>2
  <2> QED BY <1>1, <2>1, <2>2, <2>3 DEF UpToDate
<1>6. GreedyAsDefined BY <1>1 DEF GreedyAsDefined
<1> QED BY <1>3, <1>4, <1>5, <1>6 DEF DiversityInv

LEMMA SelectionSteps ==
    ASSUME DiversityInv, SelectBest
    PROVE  DiversityInv'
<1> DEFINE p == BestPosition
           chosen == available[p]
<1>0. PICK n : n = Len(selected) OBVIOUS
<1>1. /\ available # <<>> /\ selected' = Append(selected, chosen)
      /\ available' = SwapRemove(available, p) /\ redundancy' = Raised(chosen)
      /\ score' = score /\ tokens' = tokens
  BY DEF SelectBest
<1>2. /\ score \in [HitId -> Score] /\ tokens \in [HitId -> SUBSET Token]
      /\ available \in Seq(HitId) /\ redundancy \in [HitId -> Int] /\ selected \in Seq(HitId)
      /\ Distinct(available) /\ {available[i] : i \in DOMAIN available} = HitId \ Chosen
      /\ DiversityTypes
  BY DEF DiversityInv, DiversityTypes, Remaining
<1>3. /\ p \in DOMAIN available
      /\ \A i \in DOMAIN available : i # p => Better(chosen, available[i])
  BY <1>1, <1>2, BestRight
<1> HIDE DEF p
<1>4. chosen \in HitId /\ chosen \notin Chosen BY <1>2, <1>3
<1>5. /\ available' \in Seq(HitId) /\ Distinct(available')
      /\ {available'[i] : i \in DOMAIN available'} =
            {available[i] : i \in DOMAIN available} \ {chosen}
  BY <1>1, <1>2, <1>3, SwapRemoved
<1>6. /\ n \in Nat /\ selected' \in Seq(HitId) /\ Len(selected') = n + 1
      /\ selected'[n + 1] = chosen
      /\ \A i \in 1..n : selected'[i] = selected[i] /\ selected[i] \in HitId
  BY <1>0, <1>1, <1>2, <1>4
<1>7. \A x, y \in HitId : Jaccard(x, y)' = Jaccard(x, y) BY <1>1 DEF Jaccard
<1>8. \A x \in HitId, red \in Int : Marginal(x, red)' = Marginal(x, red)
  BY <1>1 DEF Marginal, TopScore
<1> HIDE DEF chosen
<1>9. ASSUME NEW x \in HitId, NEW k \in 0..n
      PROVE  RedundancyAfter(x, k)' = RedundancyAfter(x, k)
  <2>1. \A i \in 1..k : Jaccard(x, selected[i])' = Jaccard(x, selected[i])
    <3>1. \A i \in 1..k : selected'[i] = selected[i] BY <1>6
    <3> QED BY <1>1, <3>1 DEF Jaccard
  <2> QED BY <2>1 DEF RedundancyAfter
<1>10. DiversityTypes'
  <2>1. \A x \in HitId : Raised(chosen)[x] \in Int
    <3>1. TAKE x \in HitId
    <3>2. redundancy[x] \in Int /\ Jaccard(x, chosen) \in Int BY <1>2, <1>4, JaccardType
    <3>3. Max({redundancy[x], Jaccard(x, chosen)}) \in Int
      <4> DEFINE S == {redundancy[x], Jaccard(x, chosen)}
      <4>1. S \in SUBSET Int /\ S # {} BY <3>2
      <4>2. IsFiniteSet(S)
        <5>1. S = {redundancy[x]} \cup {Jaccard(x, chosen)} OBVIOUS
        <5> HIDE DEF S
        <5> QED BY <5>1, FS_Singleton, FS_AddElement
      <4> HIDE DEF S
      <4>3. Max(S) \in S BY <4>1, <4>2, MaxOfInts
      <4>4. Max(S) \in Int BY <4>1, <4>3
      <4> QED BY <4>4 DEF S
    <3> QED BY <3>2, <3>3 DEF Raised
  <2>2. redundancy' \in [HitId -> Int] BY <1>1, <2>1 DEF Raised, chosen
  <2> QED BY <1>1, <1>2, <1>5, <1>6, <2>2 DEF DiversityTypes
<1>11. Chosen' = Chosen \cup {chosen}
  <2>1. DOMAIN selected' = 1..(n + 1) /\ DOMAIN selected = 1..n BY <1>0, <1>2, <1>6
  <2>2. \A i \in 1..(n + 1) : i \in 1..n \/ i = n + 1 BY <1>6
  <2>3. \A i \in 1..n : i \in 1..(n + 1) BY <1>6
  <2>4. n + 1 \in 1..(n + 1) BY <1>6
  <2> QED BY <1>6, <2>1, <2>2, <2>3, <2>4 DEF Chosen
<1>12. Remaining' BY <1>2, <1>5, <1>11 DEF Remaining
<1>13. UpToDate'
  <2> SUFFICES ASSUME NEW i \in DOMAIN available', NEW x, x = available'[i]
               PROVE  redundancy'[x] = RedundancyAfter(x, Len(selected))'
    BY DEF UpToDate, RedundancyAfter, Jaccard
  <2>1. x \in HitId /\ \E k \in DOMAIN available : available[k] = x
    <3>1. x \in {available[k] : k \in DOMAIN available} BY <1>5
    <3> QED BY <1>2, <3>1
  <2>2. redundancy[x] = RedundancyAfter(x, n) BY <1>0, <2>1 DEF DiversityInv, UpToDate
  <2> DEFINE S == {Jaccard(x, selected[k]) : k \in 1..n} \cup {0}
             j == Jaccard(x, chosen)
  <2>3. redundancy'[x] = Max({redundancy[x], j}) BY <1>1, <2>1 DEF Raised, chosen
  <2>4. S \in SUBSET Int /\ IsFiniteSet(S) /\ redundancy[x] = Max(S)
    <3>1. n \in 0..Len(selected) BY <1>0, <1>6
    <3> QED BY <1>2, <2>1, <2>2, <3>1, RedundancyType DEF RedundancyAfter
  <2>5. {Jaccard(x, selected[k])' : k \in 1..(n + 1)} \cup {0} = S \cup {j}
    <3>1. \A k \in 1..(n + 1) : k \in 1..n \/ k = n + 1 BY <1>6
    <3>2. \A k \in 1..n : k \in 1..(n + 1) BY <1>6
    <3>3. \A k \in 1..n : Jaccard(x, selected[k])' = Jaccard(x, selected[k])
      <4>1. \A k \in 1..n : selected'[k] = selected[k] BY <1>6
      <4> QED BY <1>1, <4>1 DEF Jaccard
    <3>4. n + 1 \in 1..(n + 1) BY <1>6
    <3>5. Jaccard(x, selected[n + 1])' = Jaccard(x, chosen)
      <4>1. selected'[n + 1] = chosen /\ tokens' = tokens BY <1>1, <1>6
      <4> QED BY <4>1 DEF Jaccard
    <3> QED BY <3>1, <3>2, <3>3, <3>4, <3>5
  <2>6. Max({Jaccard(x, selected[k])' : k \in 1..(n + 1)} \cup {0}) = Max(S \cup {j}) BY <2>5
  <2>7. j \in Int BY <1>2, <1>4, <2>1, JaccardType
  <2>8. Max(S \cup {j}) = Max({Max(S), j})
    <3>1. S # {} OBVIOUS
    <3> HIDE DEF S, j
    <3> QED BY <2>4, <2>7, <3>1, MaxAdded
  <2>9. redundancy'[x] = Max({Jaccard(x, selected[k])' : k \in 1..(n + 1)} \cup {0})
    BY <2>3, <2>4, <2>6, <2>8
  <2>10. RedundancyAfter(x, Len(selected))'
           = Max({Jaccard(x, selected[k])' : k \in 1..(n + 1)} \cup {0})
    BY <1>6 DEF RedundancyAfter
  <2> QED BY <2>9, <2>10
<1>14. GreedyAsDefined'
  <2> SUFFICES ASSUME NEW k \in DOMAIN selected', NEW c, c = selected'[k],
                      NEW x \in HitId \ {selected'[i] : i \in 1..k}
               PROVE  LET best == Marginal(c, RedundancyAfter(c, k - 1))'
                          other == Marginal(x, RedundancyAfter(x, k - 1))'
                      IN best > other \/ (best = other /\ c < x)
    BY DEF GreedyAsDefined, Marginal, RedundancyAfter, Jaccard, TopScore
  <2>1. k \in 1..(n + 1) /\ k - 1 \in 0..n BY <1>6
  <2>2. c \in HitId BY <1>6
  <2>3. ASSUME NEW y \in HitId
        PROVE  Marginal(y, RedundancyAfter(y, k - 1))' = Marginal(y, RedundancyAfter(y, k - 1))
    <3>1. RedundancyAfter(y, k - 1)' = RedundancyAfter(y, k - 1) BY <1>9, <2>1
    <3>2. Marginal(y, RedundancyAfter(y, k - 1))' = Marginal(y, RedundancyAfter(y, k - 1)')
      BY <1>1 DEF Marginal, TopScore
    <3> QED BY <3>1, <3>2
  <2>4. CASE k \in 1..n
    <3>1. /\ k \in DOMAIN selected /\ selected'[k] = selected[k]
          /\ x \in HitId \ {selected[i] : i \in 1..k}
      <4>1. \A i \in 1..k : selected'[i] = selected[i] BY <1>6, <2>4
      <4> QED BY <1>0, <1>2, <1>6, <2>4, <4>1
    <3>2. LET best == Marginal(selected[k], RedundancyAfter(selected[k], k - 1))
              other == Marginal(x, RedundancyAfter(x, k - 1))
          IN best > other \/ (best = other /\ selected[k] < x)
      BY <3>1 DEF DiversityInv, GreedyAsDefined
    <3> QED BY <2>2, <2>3, <3>1, <3>2
  <2>5. CASE k = n + 1
    <3>1. selected'[k] = chosen /\ k - 1 = n BY <1>6, <2>5
    <3>2. x \notin Chosen /\ x # chosen
      <4>1. \A i \in DOMAIN selected : i \in 1..k /\ selected'[i] = selected[i]
        <5>1. DOMAIN selected = 1..n BY <1>0, <1>2
        <5> QED BY <1>6, <2>5, <5>1
      <4>2. k \in 1..k BY <1>6, <2>5
      <4> QED BY <3>1, <4>1, <4>2 DEF Chosen
    <3>3. PICK i \in DOMAIN available : available[i] = x BY <1>2, <3>2
    <3>4. Better(chosen, x) BY <1>3, <3>2, <3>3 DEF chosen
    <3>5. /\ redundancy[chosen] = RedundancyAfter(chosen, n)
          /\ redundancy[x] = RedundancyAfter(x, n)
      BY <1>0, <1>3, <3>3 DEF DiversityInv, UpToDate, chosen
    <3> QED BY <1>4, <2>3, <3>1, <3>4, <3>5 DEF Better
  <2> QED BY <1>6, <2>1, <2>4, <2>5
<1> QED BY <1>10, <1>12, <1>13, <1>14 DEF DiversityInv

\* Raising redundancies in place and permuting the array change nothing:
\* every choice is the one the plain definition of MMR makes (select_mmr
\* against reference_select_mmr of its tests).
THEOREM SelectionIsGreedy == DSpec => []GreedyAsDefined
<1>1. DInit => DiversityInv BY SelectionBegins
<1>2. DiversityInv /\ [SelectBest]_mmrVars => DiversityInv'
  <2>1. ASSUME DiversityInv, UNCHANGED mmrVars PROVE DiversityInv'
    <3>1. /\ score' = score /\ tokens' = tokens /\ available' = available
          /\ redundancy' = redundancy /\ selected' = selected
      BY <2>1 DEF mmrVars
    <3>2. DiversityTypes' /\ Remaining'
      BY <2>1, <3>1 DEF DiversityInv, DiversityTypes, Remaining, Chosen
    <3>3. ASSUME NEW x, NEW n
          PROVE  RedundancyAfter(x, n)' = RedundancyAfter(x, n)
      <4>1. \A i : Jaccard(x, selected[i])' = Jaccard(x, selected[i]) BY <3>1 DEF Jaccard
      <4> QED BY <4>1 DEF RedundancyAfter
    <3>4. ASSUME NEW x, NEW n
          PROVE  Marginal(x, RedundancyAfter(x, n))' = Marginal(x, RedundancyAfter(x, n))
      <4>1. Marginal(x, RedundancyAfter(x, n))' = Marginal(x, RedundancyAfter(x, n)')
        BY <3>1 DEF Marginal, TopScore
      <4> QED BY <3>3, <4>1
    <3>5. UpToDate'
      <4> SUFFICES ASSUME NEW i \in DOMAIN available', NEW x, x = available'[i],
                          NEW n, n = Len(selected')
                   PROVE  redundancy'[x] = RedundancyAfter(x, n)'
        BY DEF UpToDate, RedundancyAfter, Jaccard
      <4> QED BY <2>1, <3>1, <3>3 DEF DiversityInv, UpToDate
    <3>6. GreedyAsDefined'
      <4> SUFFICES ASSUME NEW k \in DOMAIN selected', NEW c, c = selected'[k],
                          NEW x \in HitId \ {selected'[i] : i \in 1..k}
                   PROVE  LET best == Marginal(c, RedundancyAfter(c, k - 1))'
                              other == Marginal(x, RedundancyAfter(x, k - 1))'
                          IN best > other \/ (best = other /\ c < x)
        BY DEF GreedyAsDefined, Marginal, RedundancyAfter, Jaccard, TopScore
      <4> QED BY <2>1, <3>1, <3>4 DEF DiversityInv, GreedyAsDefined
    <3> QED BY <3>2, <3>5, <3>6 DEF DiversityInv
  <2> QED BY <2>1, SelectionSteps
<1>3. DiversityInv => GreedyAsDefined BY DEF DiversityInv
<1> QED BY <1>1, <1>2, <1>3, PTL DEF DSpec

(***************************************************************************)
(* Sums (ContextPack)                                                      *)
(***************************************************************************)

\* s holds the sums of f up to each i of 0..n.
Sums(f, s, n) == s = [i \in 0..n |-> IF i = 0 THEN 0 ELSE s[i - 1] + f[i]]

LEMMA SumsExist ==
    ASSUME NEW f, NEW n \in Nat
    PROVE  \E s : Sums(f, s, n)
<1> DEFINE Missing == {k \in Nat : ~\E s : Sums(f, s, k)}
<1>1. \E s : Sums(f, s, 0)
  <2>1. Sums(f, [i \in 0..0 |-> 0], 0)
    BY DEF Sums
  <2>2. QED BY <2>1
<1>2. ASSUME NEW k \in Nat, NEW s, Sums(f, s, k)
      PROVE  \E h : Sums(f, h, k + 1)
  <2> DEFINE h == [i \in 0..(k + 1) |-> IF i = 0 THEN 0 ELSE s[i - 1] + f[i]]
  <2>1. \A i \in 0..k : h[i] = s[i]
    BY <1>2 DEF Sums
  <2>2. \A i \in 0..(k + 1) : i # 0 => h[i - 1] = s[i - 1]
    <3>1. \A i \in 0..(k + 1) : i # 0 => i - 1 \in 0..k
      OBVIOUS
    <3> HIDE DEF h
    <3>2. QED BY <2>1, <3>1
  <2>3. h = [i \in 0..(k + 1) |-> IF i = 0 THEN 0 ELSE h[i - 1] + f[i]]
    BY <2>2
  <2> HIDE DEF h
  <2>4. Sums(f, h, k + 1)
    BY <2>3 DEF Sums
  <2>5. QED BY <2>4
<1>3. Missing = {}
  <2> SUFFICES ASSUME Missing # {} PROVE FALSE
    OBVIOUS
  <2>1. PICK k \in Missing : \A m \in Missing : k <= m
    <3>1. Missing \in SUBSET Nat
      OBVIOUS
    <3> HIDE DEF Missing
    <3>2. QED BY <3>1, LeastOfNaturals
  <2>2. k \in Nat /\ k # 0
    BY <1>1
  <2>3. k - 1 \in Nat /\ k - 1 \notin Missing
    BY <2>1, <2>2
  <2>4. PICK s : Sums(f, s, k - 1)
    BY <2>3
  <2>5. \E h : Sums(f, h, (k - 1) + 1)
    BY <1>2, <2>3, <2>4
  <2>6. (k - 1) + 1 = k
    BY <2>2
  <2>7. QED BY <2>5, <2>6
<1>4. QED BY <1>3

LEMMA SumsAgree ==
    ASSUME NEW f, NEW g, NEW s, NEW t, NEW n \in Nat, NEW m \in Nat, n <= m,
           Sums(f, s, n), Sums(g, t, m), \A i \in 1..n : f[i] = g[i]
    PROVE  \A i \in 0..n : s[i] = t[i]
<1> DEFINE Apart == {i \in 0..n : s[i] # t[i]}
<1> SUFFICES ASSUME Apart # {} PROVE FALSE
  OBVIOUS
<1>1. PICK i \in Apart : \A j \in Apart : i <= j
  <2>1. Apart \in SUBSET Nat
    OBVIOUS
  <2> HIDE DEF Apart
  <2>2. QED BY <2>1, LeastOfNaturals
<1>2. s[0] = 0 /\ t[0] = 0
  BY DEF Sums
<1>3. i \in 1..n /\ i - 1 \in 0..n /\ i - 1 \notin Apart
  BY <1>1, <1>2
<1>4. s[i] = s[i - 1] + f[i] /\ t[i] = t[i - 1] + g[i]
  BY <1>3 DEF Sums
<1>5. QED BY <1>1, <1>3, <1>4

LEMMA TotalSums ==
    ASSUME NEW f, NEW n \in Nat
    PROVE  \E s : Sums(f, s, n) /\ Total(f, n) = s[n]
<1> DEFINE s == CHOOSE x : Sums(f, x, n)
<1>1. Sums(f, s, n)
  BY SumsExist
<1>2. Total(f, n) = s[n]
  BY Zenon DEF Total, Sums
<1>3. QED BY <1>1, <1>2

\* The recursion of a total.
LEMMA TotalNext ==
    ASSUME NEW f, NEW n \in Nat
    PROVE  Total(f, 0) = 0 /\ Total(f, n + 1) = Total(f, n) + f[n + 1]
<1>1. Total(f, 0) = 0
  <2>1. PICK s : Sums(f, s, 0) /\ Total(f, 0) = s[0]
    BY TotalSums
  <2>2. QED BY <2>1 DEF Sums
<1>2. PICK s : Sums(f, s, n) /\ Total(f, n) = s[n]
  BY TotalSums
<1>3. PICK t : Sums(f, t, n + 1) /\ Total(f, n + 1) = t[n + 1]
  BY TotalSums
<1>4. s[n] = t[n]
  BY <1>2, <1>3, SumsAgree
<1>5. t[n + 1] = t[n] + f[n + 1]
  BY <1>3 DEF Sums
<1>6. QED BY <1>1, <1>2, <1>3, <1>4, <1>5

LEMMA TotalSame ==
    ASSUME NEW f, NEW g, NEW n \in Nat, \A i \in 1..n : f[i] = g[i]
    PROVE  Total(f, n) = Total(g, n)
<1>1. PICK s : Sums(f, s, n) /\ Total(f, n) = s[n]
  BY TotalSums
<1>2. PICK t : Sums(g, t, n) /\ Total(g, n) = t[n]
  BY TotalSums
<1>3. \A i \in 0..n : s[i] = t[i]
  BY <1>1, <1>2, SumsAgree
<1>4. QED BY <1>1, <1>2, <1>3

LEMMA TotalIsNat ==
    ASSUME NEW f, NEW n \in Nat, \A i \in 1..n : f[i] \in Nat
    PROVE  Total(f, n) \in Nat
<1> DEFINE Bad == {k \in 0..n : Total(f, k) \notin Nat}
<1> SUFFICES ASSUME Bad # {} PROVE FALSE
  OBVIOUS
<1>1. PICK k \in Bad : \A j \in Bad : k <= j
  <2>1. Bad \in SUBSET Nat
    OBVIOUS
  <2> HIDE DEF Bad
  <2>2. QED BY <2>1, LeastOfNaturals
<1>2. k # 0
  BY TotalNext
<1>3. k - 1 \in Nat /\ k - 1 \notin Bad /\ k - 1 \in 0..n
  BY <1>1, <1>2
<1>4. Total(f, (k - 1) + 1) = Total(f, k - 1) + f[(k - 1) + 1]
  BY <1>3, TotalNext
<1>5. (k - 1) + 1 = k /\ k \in 1..n
  BY <1>3
<1>6. QED BY <1>3, <1>4, <1>5

\* Of things that each count one at least, more count more.
LEMMA TotalGrows ==
    ASSUME NEW f, NEW n \in Nat, NEW m \in Nat, n < m, \A i \in 1..m : f[i] \in Nat \ {0}
    PROVE  Total(f, n) + 1 <= Total(f, m)
<1> DEFINE Bad == {k \in (n + 1)..m : ~(Total(f, n) + 1 <= Total(f, k))}
<1> SUFFICES ASSUME Bad # {} PROVE FALSE
  OBVIOUS
<1>1. PICK k \in Bad : \A j \in Bad : k <= j
  <2>1. Bad \in SUBSET Nat
    OBVIOUS
  <2> HIDE DEF Bad
  <2>2. QED BY <2>1, LeastOfNaturals
<1>2. k - 1 \in Nat /\ (k - 1) + 1 = k /\ k \in 1..m
  OBVIOUS
<1>3. Total(f, k) = Total(f, k - 1) + f[k]
  <2>1. Total(f, (k - 1) + 1) = Total(f, k - 1) + f[(k - 1) + 1]
    BY <1>2, TotalNext
  <2>2. QED BY <1>2, <2>1
<1>4. Total(f, n) \in Nat /\ Total(f, k - 1) \in Nat /\ f[k] \in Nat \ {0}
  <2>1. /\ \A i \in 1..n : f[i] \in Nat
        /\ \A i \in 1..(k - 1) : f[i] \in Nat
    BY <1>2
  <2>2. QED BY <1>2, <2>1, TotalIsNat
<1>5. CASE k = n + 1
  BY <1>3, <1>4, <1>5
<1>6. CASE k # n + 1
  <2>1. k - 1 \in (n + 1)..m /\ k - 1 \notin Bad
    BY <1>1, <1>2, <1>6
  <2>2. QED BY <1>3, <1>4, <2>1
<1>7. QED BY <1>5, <1>6

(***************************************************************************)
(* Excerpts: more tokens never show less (ContextPack)                     *)
(***************************************************************************)

LEMMA TokensCount ==
    ASSUME NEW n \in Nat
    PROVE  /\ Tokens(n) \in Nat \ {0} /\ n <= 3 * Tokens(n)
           /\ \A m \in Nat : n <= m => Tokens(n) <= Tokens(m)
           /\ \A t \in Nat \ {0} : n <= 3 * t => Tokens(n) <= t
BY DEF Tokens, Larger

\* Where the second half of a text of c characters may end.
Stops(body, c) == {i \in 1..c : body[i] \in {"stop", "break"} /\ i - 1 >= c \div 2}

\* What truncate_to_tokens keeps of a body that is too long.
LEMMA KeptOfLong ==
    ASSUME NEW body \in Seq(Char), NEW t \in Nat \ {0}, Len(body) > t * 3
    PROVE  LET c == t * 3 - 1 IN
           /\ Kept(body, t) \in 1..c
           /\ Stops(body, c) = {} => Kept(body, t) = c
           /\ Stops(body, c) # {} => /\ Kept(body, t) \in Stops(body, c)
                                     /\ \A j \in Stops(body, c) : j <= Kept(body, t)
<1> DEFINE c == t * 3 - 1
<1>1. c \in Nat \ {0} /\ Larger(t * 3 - 1, 0) = c /\ Smaller(c, Len(body)) = c
  BY DEF Larger, Smaller
<1>2. Kept(body, t) = IF Stops(body, c) = {} THEN c
                      ELSE CHOOSE i \in Stops(body, c) : \A j \in Stops(body, c) : j <= i
  <2> DEFINE cut == Larger(t * 3 - 1, 0)
             stops == {i \in 1..Smaller(cut, Len(body)) :
                         body[i] \in {"stop", "break"} /\ i - 1 >= cut \div 2}
  <2>1. Kept(body, t) = IF Len(body) <= t * 3 THEN Len(body)
                        ELSE IF stops = {} THEN cut
                        ELSE CHOOSE i \in stops : \A j \in stops : j <= i
    BY Zenon DEF Kept
  <2>2. cut = c
    BY <1>1
  <2> HIDE DEF c, cut
  <2>3. stops = Stops(body, c)
    BY <1>1, <2>2 DEF Stops, cut
  <2>4. ~(Len(body) <= t * 3)
    OBVIOUS
  <2> HIDE DEF stops
  <2>5. QED BY <2>1, <2>2, <2>3, <2>4
<1> HIDE DEF c
<1>3. Stops(body, c) \subseteq 1..c
  BY DEF Stops
<1>4. CASE Stops(body, c) = {}
  BY <1>1, <1>2, <1>4 DEF c
<1>5. CASE Stops(body, c) # {}
  <2> DEFINE Behind == {c - i : i \in Stops(body, c)}
  <2>1. Behind \in SUBSET Nat /\ Behind # {}
    BY <1>1, <1>3, <1>5
  <2>2. PICK b \in Behind : \A x \in Behind : b <= x
    <3> HIDE DEF Behind
    <3>1. QED BY <2>1, LeastOfNaturals
  <2>3. PICK i \in Stops(body, c) : b = c - i
    BY <2>2
  <2>4. ASSUME NEW j \in Stops(body, c) PROVE j <= i
    <3>1. c - i <= c - j
      BY <2>2, <2>3
    <3>2. c \in Nat /\ i \in Nat /\ j \in Nat
      BY <1>1, <1>3
    <3>3. QED BY <3>1, <3>2
  <2>5. /\ Kept(body, t) \in Stops(body, c)
        /\ \A j \in Stops(body, c) : j <= Kept(body, t)
    BY <1>2, <1>5, <2>4
  <2>6. QED BY <1>3, <1>5, <2>5 DEF c
<1>6. QED BY <1>4, <1>5

LEMMA KeptIsPart ==
    ASSUME NEW body \in Seq(Char), NEW t \in Nat \ {0}
    PROVE  /\ Kept(body, t) \in 0..Len(body)
           /\ Len(body) <= t * 3 => Kept(body, t) = Len(body)
<1>1. Len(body) \in Nat
  OBVIOUS
<1>2. CASE Len(body) <= t * 3
  BY <1>1, <1>2 DEF Kept
<1>3. CASE Len(body) > t * 3
  BY <1>1, <1>3, KeptOfLong
<1>4. QED BY <1>1, <1>2, <1>3

LEMMA KeptGrows ==
    ASSUME NEW body \in Seq(Char), NEW t \in Nat \ {0}, NEW u \in Nat \ {0}, t <= u
    PROVE  Kept(body, t) <= Kept(body, u)
<1> DEFINE c == t * 3 - 1
           d == u * 3 - 1
<1>1. Len(body) \in Nat /\ Kept(body, t) \in 0..Len(body) /\ Kept(body, u) \in 0..Len(body)
  BY KeptIsPart
<1>2. CASE Len(body) <= u * 3
  BY <1>1, <1>2, KeptIsPart
<1>3. CASE Len(body) > u * 3
  <2>1. Len(body) > t * 3 /\ c \in Nat /\ d \in Nat /\ c <= d /\ c \div 2 <= d \div 2
    BY <1>1, <1>3
  <2>2. /\ Kept(body, t) \in 1..c
        /\ Stops(body, c) = {} => Kept(body, t) = c
        /\ Stops(body, c) # {} => /\ Kept(body, t) \in Stops(body, c)
                                  /\ \A j \in Stops(body, c) : j <= Kept(body, t)
    BY <2>1, KeptOfLong
  <2>3. /\ Kept(body, u) \in 1..d
        /\ Stops(body, d) = {} => Kept(body, u) = d
        /\ Stops(body, d) # {} => /\ Kept(body, u) \in Stops(body, d)
                                  /\ \A j \in Stops(body, d) : j <= Kept(body, u)
    BY <1>3, KeptOfLong
  <2> HIDE DEF c, d
  <2>4. CASE Stops(body, d) = {}
    BY <2>1, <2>2, <2>3, <2>4
  <2>5. CASE Stops(body, d) # {} /\ Kept(body, u) > c
    BY <2>1, <2>2, <2>3, <2>5
  <2>6. CASE Stops(body, d) # {} /\ Kept(body, u) <= c
    <3>1. Kept(body, u) \in Stops(body, c)
      BY <2>1, <2>3, <2>6 DEF Stops
    <3>2. Kept(body, t) \in Stops(body, c)
      BY <2>2, <3>1
    <3>3. CASE Kept(body, t) \in Stops(body, d)
      BY <2>3, <3>3
    <3>4. CASE Kept(body, t) \notin Stops(body, d)
      <4>1. Kept(body, t) - 1 < d \div 2
        BY <2>1, <2>2, <3>2, <3>4 DEF Stops
      <4>2. Kept(body, u) - 1 >= d \div 2
        BY <2>3, <2>6 DEF Stops
      <4>3. QED BY <2>1, <2>2, <2>3, <4>1, <4>2
    <3>5. QED BY <3>3, <3>4
  <2>7. QED BY <2>1, <2>3, <2>4, <2>5, <2>6
<1>4. QED BY <1>1, <1>2, <1>3

LEMMA CharsCount == \A c \in Char : CharLength(c) \in Nat \ {0}
BY DEF Char, CharLength

\* The ellipsis is no longer than the character it stands for.
LEMMA TextGrows ==
    ASSUME NEW body \in Seq(Char), NEW n \in 0..Len(body), NEW m \in 0..Len(body), n <= m
    PROVE  /\ TextLength(body, n) \in Nat /\ TextLength(body, m) \in Nat
           /\ TextLength(body, n) <= TextLength(body, m)
<1> DEFINE f(k) == [i \in 1..k |-> CharLength(body[i])]
<1>1. Len(body) \in Nat /\ \A i \in 1..Len(body) : body[i] \in Char
  OBVIOUS
<1>2. /\ \A i \in 1..n : f(n)[i] = f(m)[i]
      /\ \A i \in 1..n : f(n)[i] \in Nat
      /\ \A i \in 1..m : f(m)[i] \in Nat \ {0}
  BY <1>1, CharsCount
<1>3. /\ TextLength(body, n) = Total(f(n), n) + (IF n < Len(body) THEN 1 ELSE 0)
      /\ TextLength(body, m) = Total(f(m), m) + (IF m < Len(body) THEN 1 ELSE 0)
  BY DEF TextLength
<1> HIDE DEF f
<1>4. Total(f(n), n) = Total(f(m), n) /\ Total(f(n), n) \in Nat /\ Total(f(m), m) \in Nat
  BY <1>1, <1>2, TotalSame, TotalIsNat
<1>5. CASE n = m
  BY <1>3, <1>4, <1>5
<1>6. CASE n < m
  <2>1. Total(f(m), n) + 1 <= Total(f(m), m)
    BY <1>1, <1>2, <1>6, TotalGrows
  <2>2. QED BY <1>1, <1>3, <1>4, <1>6, <2>1
<1>7. QED BY <1>1, <1>5, <1>6

LEMMA FragmentGrows ==
    ASSUME PackAssumption, NEW hit \in Hit, NEW t \in Nat \ {0}, NEW u \in Nat \ {0}, t <= u
    PROVE  /\ FragmentTokens(hit, t) \in Nat \ {0} /\ FragmentTokens(hit, u) \in Nat \ {0}
           /\ FragmentTokens(hit, t) <= FragmentTokens(hit, u)
           /\ FrameLength + TextLength(hit.body, Kept(hit.body, t)) <= 3 * FragmentTokens(hit, t)
<1> DEFINE n == Kept(hit.body, t)
           m == Kept(hit.body, u)
           x == FrameLength + TextLength(hit.body, n)
           y == FrameLength + TextLength(hit.body, m)
<1>1. hit.body \in Seq(Char) /\ FrameLength \in Nat
  BY DEF Hit, PackAssumption
<1>2. n \in 0..Len(hit.body) /\ m \in 0..Len(hit.body) /\ n <= m
  BY <1>1, KeptIsPart, KeptGrows
<1>3. x \in Nat /\ y \in Nat /\ x <= y
  <2> HIDE DEF n, m
  <2>1. /\ TextLength(hit.body, n) \in Nat /\ TextLength(hit.body, m) \in Nat
        /\ TextLength(hit.body, n) <= TextLength(hit.body, m)
    BY <1>1, <1>2, TextGrows
  <2>2. QED BY <1>1, <2>1
<1>4. FragmentTokens(hit, t) = Tokens(x) /\ FragmentTokens(hit, u) = Tokens(y)
  BY DEF FragmentTokens
<1> HIDE DEF x, y
<1>5. /\ Tokens(x) \in Nat \ {0} /\ Tokens(y) \in Nat \ {0} /\ Tokens(x) <= Tokens(y)
      /\ x <= 3 * Tokens(x)
  BY <1>3, TokensCount
<1>6. QED BY <1>4, <1>5 DEF x

(***************************************************************************)
(* The binary search (ContextPack)                                         *)
(***************************************************************************)

\* f holds what the search knows after each of its first n turns.
Turns(hit, room, top, f, n) ==
    f = [i \in 0..n |-> IF i = 0 THEN [low |-> 1, high |-> top, best |-> 0]
                        ELSE Halved(hit, room, f[i - 1])]

LEMMA TurnsExist ==
    ASSUME NEW hit, NEW room, NEW top, NEW n \in Nat
    PROVE  \E f : Turns(hit, room, top, f, n)
<1> DEFINE Missing == {k \in Nat : ~\E f : Turns(hit, room, top, f, k)}
           begin == [low |-> 1, high |-> top, best |-> 0]
<1>1. \E f : Turns(hit, room, top, f, 0)
  <2>1. Turns(hit, room, top, [i \in 0..0 |-> begin], 0)
    BY DEF Turns
  <2>2. QED BY <2>1
<1>2. ASSUME NEW k \in Nat, NEW f, Turns(hit, room, top, f, k)
      PROVE  \E h : Turns(hit, room, top, h, k + 1)
  <2> DEFINE h == [i \in 0..(k + 1) |-> IF i = 0 THEN begin ELSE Halved(hit, room, f[i - 1])]
  <2> HIDE DEF begin
  <2>1. \A i \in 0..k : h[i] = f[i]
    BY <1>2 DEF Turns, begin
  <2>2. \A i \in 0..(k + 1) : i # 0 => h[i - 1] = f[i - 1]
    <3>1. \A i \in 0..(k + 1) : i # 0 => i - 1 \in 0..k
      OBVIOUS
    <3> HIDE DEF h
    <3>2. QED BY <2>1, <3>1
  <2>3. h = [i \in 0..(k + 1) |-> IF i = 0 THEN begin ELSE Halved(hit, room, h[i - 1])]
    BY <2>2
  <2> HIDE DEF h
  <2>4. Turns(hit, room, top, h, k + 1)
    BY <2>3 DEF Turns, begin
  <2>5. QED BY <2>4
<1>3. Missing = {}
  <2> SUFFICES ASSUME Missing # {} PROVE FALSE
    OBVIOUS
  <2>1. PICK k \in Missing : \A m \in Missing : k <= m
    <3>1. Missing \in SUBSET Nat
      OBVIOUS
    <3> HIDE DEF Missing
    <3>2. QED BY <3>1, LeastOfNaturals
  <2>2. k \in Nat /\ k # 0
    BY <1>1
  <2>3. k - 1 \in Nat /\ k - 1 \notin Missing
    BY <2>1, <2>2
  <2>4. PICK f : Turns(hit, room, top, f, k - 1)
    BY <2>3
  <2>5. \E h : Turns(hit, room, top, h, (k - 1) + 1)
    BY <1>2, <2>3, <2>4
  <2>6. (k - 1) + 1 = k
    BY <2>2
  <2>7. QED BY <2>5, <2>6
<1>4. QED BY <1>3

Fits(hit, room, t) == FragmentTokens(hit, t) <= room

\* Below low everything fits, above high nothing does, and after i turns top - i
\* lengths are left at most.
Narrowed(hit, room, top, s, i) ==
    /\ s = [low |-> s.low, high |-> s.high, best |-> s.low - 1]
    /\ s.low \in Nat \ {0} /\ s.high \in 0..top /\ s.low <= s.high + 1
    /\ \A t \in 1..(s.low - 1) : Fits(hit, room, t)
    /\ \A t \in (s.high + 1)..top : ~Fits(hit, room, t)
    /\ s.low <= s.high => s.high - s.low + 1 <= top - i

LEMMA MiddleIsBetween ==
    ASSUME NEW a \in Nat \ {0}, NEW b \in Nat, NEW top \in Nat, a <= b, b <= top, NEW m,
           m = a + (b - a) \div 2
    PROVE  m \in a..b /\ m \in Nat \ {0} /\ m \in 1..top
<1>1. \A d \in Nat : d \div 2 \in Nat /\ d \div 2 <= d
  OBVIOUS
<1>2. b - a \in Nat
  OBVIOUS
<1>3. (b - a) \div 2 \in Nat /\ (b - a) \div 2 <= b - a
  BY <1>1, <1>2
<1>4. QED BY <1>3

LEMMA HalvesAreSmaller ==
    ASSUME NEW a \in Nat \ {0}, NEW b \in Nat, NEW m \in a..b, NEW top \in Nat, NEW i \in Nat,
           b <= top, b - a + 1 <= top - i
    PROVE  /\ b - (m + 1) + 1 <= top - (i + 1) /\ (m - 1) - a + 1 <= top - (i + 1)
           /\ m + 1 \in Nat \ {0} /\ b \in 0..top /\ m + 1 <= b + 1 /\ (m + 1) - 1 = m
           /\ m - 1 \in 0..top /\ a <= (m - 1) + 1 /\ (m - 1) + 1 = m
OBVIOUS

LEMMA HalvedNarrows ==
    ASSUME PackAssumption, NEW hit \in Hit, NEW room \in Nat, NEW top \in Nat \ {0},
           NEW i \in Nat, NEW s, Narrowed(hit, room, top, s, i)
    PROVE  Narrowed(hit, room, top, Halved(hit, room, s), i + 1)
<1> DEFINE middle == s.low + (s.high - s.low) \div 2
           h == Halved(hit, room, s)
<1>1. /\ s.low \in Nat \ {0} /\ s.high \in 0..top /\ s.low <= s.high + 1
      /\ \A t \in 1..(s.low - 1) : Fits(hit, room, t)
      /\ \A t \in (s.high + 1)..top : ~Fits(hit, room, t)
      /\ s.low <= s.high => s.high - s.low + 1 <= top - i
  BY DEF Narrowed
<1>2. CASE s.low > s.high
  <2>1. h = s
    BY <1>2 DEF Halved
  <2> HIDE DEF h
  <2>2. Narrowed(hit, room, top, h, i + 1)
    BY <1>1, <1>2, <2>1 DEF Narrowed
  <2>3. QED BY <2>2 DEF h
<1>3. CASE s.low <= s.high
  <2>1. /\ s.low \in Nat \ {0} /\ s.high \in Nat /\ s.high <= top
        /\ s.high - s.low + 1 <= top - i
        /\ middle \in s.low..s.high /\ middle \in Nat \ {0} /\ middle \in 1..top
        /\ top \in Nat
    <3>1. s.low \in Nat \ {0} /\ s.high \in Nat /\ s.high <= top /\ top \in Nat
      BY <1>1
    <3>2. middle \in s.low..s.high /\ middle \in Nat \ {0} /\ middle \in 1..top
      BY Zenon, <1>3, <3>1, MiddleIsBetween
    <3>3. s.high - s.low + 1 <= top - i
      BY <1>1, <1>3
    <3> HIDE DEF middle
    <3>4. QED BY <3>1, <3>2, <3>3
  <2>2. ~(s.low > s.high)
    BY <1>1, <1>3
  <2>3. h = IF Fits(hit, room, middle) THEN [low |-> middle + 1, high |-> s.high, best |-> middle]
            ELSE [low |-> s.low, high |-> middle - 1, best |-> s.best]
    BY <2>2 DEF Halved, Fits
  <2> HIDE DEF middle, h
  <2>4. ASSUME NEW t \in Nat \ {0}, NEW u \in Nat \ {0}, t <= u, Fits(hit, room, u)
        PROVE  Fits(hit, room, t)
    <3>1. /\ FragmentTokens(hit, t) \in Nat /\ FragmentTokens(hit, u) \in Nat
          /\ FragmentTokens(hit, t) <= FragmentTokens(hit, u)
      BY <2>4, FragmentGrows
    <3>2. QED BY <2>4, <3>1 DEF Fits
  <2>5. /\ s.high - (middle + 1) + 1 <= top - (i + 1) /\ (middle - 1) - s.low + 1 <= top - (i + 1)
        /\ middle + 1 \in Nat \ {0} /\ s.high \in 0..top /\ middle + 1 <= s.high + 1
        /\ (middle + 1) - 1 = middle
        /\ middle - 1 \in 0..top /\ s.low <= (middle - 1) + 1 /\ (middle - 1) + 1 = middle
    <3>1. PICK lo \in Nat \ {0} : lo = s.low
      BY <2>1
    <3>2. PICK hi \in Nat : hi = s.high
      BY <2>1
    <3>3. PICK m \in Nat : m = middle
      BY <2>1
    <3>4. m \in lo..hi /\ top \in Nat /\ hi <= top /\ hi - lo + 1 <= top - i
      BY <2>1, <3>1, <3>2, <3>3
    <3>5. /\ hi - (m + 1) + 1 <= top - (i + 1) /\ (m - 1) - lo + 1 <= top - (i + 1)
          /\ m + 1 \in Nat \ {0} /\ hi \in 0..top /\ m + 1 <= hi + 1 /\ (m + 1) - 1 = m
          /\ m - 1 \in 0..top /\ lo <= (m - 1) + 1 /\ (m - 1) + 1 = m
      BY <3>4, HalvesAreSmaller
    <3>6. QED BY <3>1, <3>2, <3>3, <3>5
  <2>6. CASE Fits(hit, room, middle)
    <3>1. h.low = middle + 1 /\ h.high = s.high /\ h.best = middle
          /\ h = [low |-> middle + 1, high |-> s.high, best |-> (middle + 1) - 1]
      <4>1. h = [low |-> middle + 1, high |-> s.high, best |-> middle]
        BY <2>3, <2>6
      <4>2. (middle + 1) - 1 = middle
        BY <2>5
      <4>3. QED BY <4>1, <4>2
    <3>2. ASSUME NEW t \in 1..middle PROVE Fits(hit, room, t)
      <4>1. middle \in Nat \ {0}
        BY <2>1
      <4>2. t \in Nat \ {0} /\ t <= middle
        BY <4>1
      <4>3. QED BY Zenon, <2>4, <2>6, <4>1, <4>2
    <3>3. h.low <= h.high => h.high - h.low + 1 <= top - (i + 1)
      <4>1. s.high - (middle + 1) + 1 <= top - (i + 1)
        BY <2>5
      <4>2. QED BY <3>1, <4>1
    <3>4. /\ h.low \in Nat \ {0} /\ h.high \in 0..top /\ h.low <= h.high + 1 /\ h.low - 1 = middle
      <4>1. /\ middle + 1 \in Nat \ {0} /\ s.high \in 0..top /\ middle + 1 <= s.high + 1
            /\ (middle + 1) - 1 = middle
        BY <2>5
      <4>2. QED BY <3>1, <4>1
    <3>5. \A t \in (h.high + 1)..top : ~Fits(hit, room, t)
      BY <1>1, <3>1
    <3>6. Narrowed(hit, room, top, h, i + 1)
      BY <3>1, <3>2, <3>3, <3>4, <3>5 DEF Narrowed
    <3>7. QED BY <3>6 DEF h
  <2>7. CASE ~Fits(hit, room, middle)
    <3>1. /\ h.low = s.low /\ h.high = middle - 1 /\ s.best = s.low - 1
          /\ h = [low |-> s.low, high |-> middle - 1, best |-> s.low - 1]
      BY <2>3, <2>7 DEF Narrowed
    <3>2. \A t \in middle..top : ~Fits(hit, room, t)
      <4> SUFFICES ASSUME NEW t \in middle..top, Fits(hit, room, t) PROVE FALSE
        OBVIOUS
      <4>1. t \in Nat \ {0} /\ middle <= t
        BY <2>1
      <4>2. QED BY <2>1, <2>4, <2>7, <4>1
    <3>3. h.low <= h.high => h.high - h.low + 1 <= top - (i + 1)
      <4>1. (middle - 1) - s.low + 1 <= top - (i + 1)
        BY <2>5
      <4>2. QED BY <3>1, <4>1
    <3>4. /\ h.low \in Nat \ {0} /\ h.high \in 0..top /\ h.low <= h.high + 1 /\ h.high + 1 = middle
      <4>1. /\ middle - 1 \in 0..top /\ s.low <= (middle - 1) + 1 /\ (middle - 1) + 1 = middle
        BY <2>5
      <4>2. QED BY <2>1, <3>1, <4>1
    <3>5. \A t \in 1..(h.low - 1) : Fits(hit, room, t)
      BY <1>1, <3>1
    <3>6. Narrowed(hit, room, top, h, i + 1)
      BY <3>1, <3>2, <3>3, <3>4, <3>5 DEF Narrowed
    <3>7. QED BY <3>6 DEF h
  <2>8. QED BY <2>6, <2>7
<1>4. QED BY <1>1, <1>2, <1>3

\* The search ends, with the longest that fits.
LEMMA SearchFinds ==
    ASSUME PackAssumption, NEW hit \in Hit, NEW room \in Nat
    PROVE  LET fits == {t \in 1..Larger(room, 1) : FragmentTokens(hit, t) <= room} IN
           /\ fits = {} => Search(hit, room) = 0
           /\ fits # {} => /\ Search(hit, room) \in fits
                           /\ \A u \in fits : u <= Search(hit, room)
<1> DEFINE top == Larger(room, 1)
           f == CHOOSE x : Turns(hit, room, top, x, top)
           fits == {t \in 1..top : FragmentTokens(hit, t) <= room}
           Bad == {i \in 0..top : ~Narrowed(hit, room, top, f[i], i)}
<1>1. top \in Nat \ {0}
  BY DEF Larger
<1>2. Search(hit, room) = f[top].best
  BY Zenon DEF Search, Turns
<1> HIDE DEF top
<1>3. Turns(hit, room, top, f, top)
  BY <1>1, TurnsExist
<1> HIDE DEF f
<1>4. /\ f[0] = [low |-> 1, high |-> top, best |-> 0]
      /\ \A i \in 1..top : f[i] = Halved(hit, room, f[i - 1])
  BY <1>1, <1>3 DEF Turns
<1>5. Narrowed(hit, room, top, f[0], 0)
  BY <1>1, <1>4 DEF Narrowed
<1>6. Bad = {}
  <2> SUFFICES ASSUME Bad # {} PROVE FALSE
    OBVIOUS
  <2>1. PICK i \in Bad : \A j \in Bad : i <= j
    <3>1. Bad \in SUBSET Nat
      BY <1>1
    <3> HIDE DEF Bad
    <3>2. QED BY <3>1, LeastOfNaturals
  <2>2. i # 0
    BY <1>5
  <2>3. i \in 1..top /\ i - 1 \in Nat /\ i - 1 \in 0..top /\ (i - 1) + 1 = i /\ i - 1 \notin Bad
    BY <1>1, <2>1, <2>2
  <2>4. Narrowed(hit, room, top, f[i - 1], i - 1)
    BY <2>3
  <2>5. Narrowed(hit, room, top, Halved(hit, room, f[i - 1]), (i - 1) + 1)
    BY <1>1, <2>3, <2>4, HalvedNarrows
  <2>6. QED BY <1>4, <2>1, <2>3, <2>5
<1>7. Narrowed(hit, room, top, f[top], top)
  BY <1>1, <1>6
<1> DEFINE s == f[top]
<1>8. s.low = s.high + 1 /\ s.high \in 0..top /\ s.best = s.high
  BY <1>1, <1>7 DEF Narrowed
<1>9. /\ \A t \in 1..s.high : Fits(hit, room, t)
      /\ \A t \in (s.high + 1)..top : ~Fits(hit, room, t)
  BY <1>7, <1>8 DEF Narrowed
<1>10. Search(hit, room) = s.high
  BY <1>2, <1>8
<1> HIDE DEF s
<1>11. fits = 1..s.high
  BY <1>1, <1>8, <1>9 DEF Fits
<1>12. /\ fits = {} => Search(hit, room) = 0
       /\ fits # {} => /\ Search(hit, room) \in fits
                       /\ \A u \in fits : u <= Search(hit, room)
  <2>1. PICK m \in Nat : m = s.high
    BY <1>1, <1>8
  <2> HIDE DEF fits
  <2>2. fits = 1..m /\ Search(hit, room) = m
    BY <1>10, <1>11, <2>1
  <2>3. QED BY <2>2
<1> HIDE DEF fits
<1>13. QED BY <1>12 DEF fits, top

(***************************************************************************)
(* What is rendered, and what was budgeted for it (ContextPack)            *)
(***************************************************************************)

Shown == [hit: Nat, kept: Nat, tokens: Nat]
\* An item of one of the first n - 1 hits, with a part of its body.
ItemOf(h, n, item) == item.hit \in 1..(n - 1) /\ item.kept \in 0..Len(h[item.hit].body)
ItemLength(h, item) == FrameLength + TextLength(h[item.hit].body, item.kept)
\* SectionLength, of the items g of hits h.
LengthOf(h, g) ==
    IF g = <<>> THEN 0
    ELSE HeaderLength + Total([i \in DOMAIN g |-> ItemLength(h, g[i])], Len(g))

LEMMA ItemLengthIsNat ==
    ASSUME PackAssumption, NEW h \in Seq(Hit), NEW n \in Nat, n <= Len(h) + 1,
           NEW item, ItemOf(h, n, item)
    PROVE  ItemLength(h, item) \in Nat
<1> DEFINE body == h[item.hit].body
<1>1. item.hit \in 1..Len(h)
  BY DEF ItemOf
<1>2. body \in Seq(Char) /\ item.kept \in 0..Len(body) /\ FrameLength \in Nat
  <2>1. h[item.hit] \in Hit
    BY <1>1
  <2>2. body \in Seq(Char)
    BY <2>1 DEF Hit
  <2>3. item.kept \in 0..Len(body)
    BY DEF ItemOf
  <2>4. FrameLength \in Nat
    BY DEF PackAssumption
  <2>5. QED BY <2>2, <2>3, <2>4
<1> HIDE DEF body
<1>3. item.kept <= item.kept
  BY <1>2
<1>4. TextLength(body, item.kept) \in Nat
  BY <1>2, <1>3, TextGrows
<1>5. QED BY <1>2, <1>4 DEF ItemLength, body

LEMMA LengthIsNat ==
    ASSUME PackAssumption, NEW h \in Seq(Hit), NEW n \in Nat, n <= Len(h) + 1,
           NEW g \in Seq(Shown), \A i \in DOMAIN g : ItemOf(h, n, g[i])
    PROVE  LengthOf(h, g) \in Nat
<1> DEFINE f == [i \in DOMAIN g |-> ItemLength(h, g[i])]
<1>1. Len(g) \in Nat /\ DOMAIN g = 1..Len(g) /\ HeaderLength \in Nat
  BY DEF PackAssumption
<1>2. \A i \in 1..Len(g) : f[i] \in Nat
  BY <1>1, ItemLengthIsNat
<1> HIDE DEF f
<1>3. Total(f, Len(g)) \in Nat
  BY <1>1, <1>2, TotalIsNat
<1>4. QED BY <1>1, <1>3 DEF LengthOf, f

LEMMA LengthOfAppend ==
    ASSUME NEW h, NEW g \in Seq(Shown), NEW item \in Shown,
           HeaderLength \in Nat, ItemLength(h, item) \in Nat,
           \A i \in DOMAIN g : ItemLength(h, g[i]) \in Nat
    PROVE  LengthOf(h, Append(g, item)) =
              LengthOf(h, g) + (IF g = <<>> THEN HeaderLength ELSE 0) + ItemLength(h, item)
<1> DEFINE n == Len(g)
           k == Append(g, item)
           f == [i \in DOMAIN g |-> ItemLength(h, g[i])]
           e == [i \in DOMAIN k |-> ItemLength(h, k[i])]
<1>1. /\ n \in Nat /\ DOMAIN g = 1..n /\ DOMAIN k = 1..(n + 1) /\ Len(k) = n + 1
      /\ k[n + 1] = item /\ \A i \in 1..n : k[i] = g[i]
  OBVIOUS
<1>2. k # <<>>
  BY <1>1
<1>3. e[n + 1] = ItemLength(h, item) /\ \A i \in 1..n : e[i] = f[i]
  BY <1>1
<1>4. LengthOf(h, k) = HeaderLength + Total(e, n + 1)
  BY <1>1, <1>2 DEF LengthOf
<1>5. LengthOf(h, g) = IF g = <<>> THEN 0 ELSE HeaderLength + Total(f, n)
  BY DEF LengthOf
<1>6. g = <<>> <=> n = 0
  BY <1>1
<1> HIDE DEF e, f, k, n
<1>7. Total(e, n + 1) = Total(e, n) + e[n + 1] /\ Total(e, 0) = 0
  BY <1>1, TotalNext
<1>8. Total(e, n) = Total(f, n)
  BY <1>1, <1>3, TotalSame
<1>9. CASE g = <<>>
  BY <1>3, <1>4, <1>5, <1>6, <1>7, <1>9 DEF k
<1>10. CASE g # <<>>
  <2>1. LengthOf(h, k) = HeaderLength + (Total(f, n) + ItemLength(h, item))
    BY <1>3, <1>4, <1>7, <1>8
  <2>2. LengthOf(h, g) = HeaderLength + Total(f, n)
    BY <1>5, <1>10
  <2>3. Total(f, n) \in Int
    <3>1. \A i \in 1..n : f[i] \in Nat
      BY <1>1 DEF f
    <3>2. QED BY <1>1, <3>1, TotalIsNat
  <2>4. QED BY <1>10, <2>1, <2>2, <2>3 DEF k
<1>11. QED BY <1>9, <1>10

LEMMA SixSections ==
    ASSUME NEW x, \A i \in 1..6 : x[i] \in Nat
    PROVE  Total(x, 6) = x[1] + x[2] + x[3] + x[4] + x[5] + x[6]
<1>1. /\ Total(x, 0) = 0 /\ Total(x, 0 + 1) = Total(x, 0) + x[0 + 1]
      /\ Total(x, 1 + 1) = Total(x, 1) + x[1 + 1]
      /\ Total(x, 2 + 1) = Total(x, 2) + x[2 + 1]
      /\ Total(x, 3 + 1) = Total(x, 3) + x[3 + 1]
      /\ Total(x, 4 + 1) = Total(x, 4) + x[4 + 1]
      /\ Total(x, 5 + 1) = Total(x, 5) + x[5 + 1]
  BY TotalNext
<1>2. 0 + 1 = 1 /\ 1 + 1 = 2 /\ 2 + 1 = 3 /\ 3 + 1 = 4 /\ 4 + 1 = 5 /\ 5 + 1 = 6
  OBVIOUS
<1>3. /\ Total(x, 0) = 0 /\ Total(x, 1) = Total(x, 0) + x[1]
      /\ Total(x, 2) = Total(x, 1) + x[2] /\ Total(x, 3) = Total(x, 2) + x[3]
      /\ Total(x, 4) = Total(x, 3) + x[4] /\ Total(x, 5) = Total(x, 4) + x[5]
      /\ Total(x, 6) = Total(x, 5) + x[6]
  BY <1>1, <1>2
<1>4. /\ x[1] \in Nat /\ x[2] \in Nat /\ x[3] \in Nat /\ x[4] \in Nat
      /\ x[5] \in Nat /\ x[6] \in Nat
  OBVIOUS
<1>5. QED BY <1>3, <1>4

\* One section of six grows.
LEMMA SixTotals ==
    ASSUME NEW f, NEW g, NEW k \in 1..6, NEW d \in Nat, \A i \in 1..6 : f[i] \in Nat,
           g[k] = f[k] + d, \A i \in 1..6 \ {k} : g[i] = f[i]
    PROVE  Total(f, 6) \in Nat /\ Total(g, 6) = Total(f, 6) + d
<1>2. \A i \in 1..6 : g[i] \in Nat
  OBVIOUS
<1>3. /\ f[1] \in Nat /\ f[2] \in Nat /\ f[3] \in Nat /\ f[4] \in Nat /\ f[5] \in Nat /\ f[6] \in Nat
      /\ g[1] = f[1] + (IF k = 1 THEN d ELSE 0) /\ g[2] = f[2] + (IF k = 2 THEN d ELSE 0)
      /\ g[3] = f[3] + (IF k = 3 THEN d ELSE 0) /\ g[4] = f[4] + (IF k = 4 THEN d ELSE 0)
      /\ g[5] = f[5] + (IF k = 5 THEN d ELSE 0) /\ g[6] = f[6] + (IF k = 6 THEN d ELSE 0)
  OBVIOUS
<1>4. /\ Total(f, 6) = f[1] + f[2] + f[3] + f[4] + f[5] + f[6]
      /\ Total(g, 6) = g[1] + g[2] + g[3] + g[4] + g[5] + g[6]
  BY <1>2, SixSections
<1>5. k = 1 \/ k = 2 \/ k = 3 \/ k = 4 \/ k = 5 \/ k = 6
  OBVIOUS
<1>6. QED BY <1>3, <1>4, <1>5

(***************************************************************************)
(* The pack                                                                *)
(***************************************************************************)

PackTypes ==
    /\ hits \in Seq(Hit) /\ budget \in Nat
    /\ next \in Nat \ {0} /\ next <= Len(hits) + 1 /\ rendered \in Nat
    /\ grouped \in [0..5 -> Seq(Shown)]
    /\ \A s \in 0..5 : \A i \in DOMAIN grouped[s] : ItemOf(hits, next, grouped[s][i])
    /\ warnings \in Seq(Nat) /\ \A k \in DOMAIN warnings : warnings[k] \in 1..(next - 1)
    /\ accepted \in Seq([hit : Nat, kept : Nat])

\* Every character that is rendered was budgeted for.
Budgeted ==
    /\ rendered <= RenderBudget /\ Rendered <= 3 * rendered
    /\ rendered = 0 => Empty

PackInv == PackTypes /\ Budgeted /\ ViewsAgree

LEMMA SectionLengthIs ==
    /\ \A s \in 0..5 : SectionLength(s) = LengthOf(hits, grouped[s])
    /\ \A s \in 0..5 : SectionLength(s)' = LengthOf(hits', grouped'[s])
BY DEF SectionLength, LengthOf, ItemLength

\* Characters of n warnings.
WarningLength(n) == IF n = 0 THEN 0 ELSE WarnHeader + WarnLength * n

LEMMA WarningsLengthen ==
    ASSUME NEW n \in Nat, NEW w \in 0..2, WarnLength \in Nat, WarnHeader \in Nat
    PROVE  /\ WarningLength(n) \in Nat
           /\ WarningLength(n + w) = WarningLength(n)
                 + (IF w > 0 /\ n = 0 THEN WarnHeader ELSE 0) + w * WarnLength
<1>1. WarnLength * n \in Nat
  OBVIOUS
<1>2. /\ WarnLength * (n + 0) = WarnLength * n
      /\ WarnLength * (n + 1) = WarnLength * n + WarnLength
      /\ WarnLength * (n + 2) = WarnLength * n + 2 * WarnLength
  OBVIOUS
<1>3. WarnLength * 0 = 0
  OBVIOUS
<1>4. w = 0 \/ w = 1 \/ w = 2
  OBVIOUS
<1>5. CASE w = 0
  BY <1>1, <1>5 DEF WarningLength
<1>6. CASE w = 1
  BY <1>1, <1>2, <1>3, <1>6 DEF WarningLength
<1>7. CASE w = 2
  BY <1>1, <1>2, <1>3, <1>7 DEF WarningLength
<1>8. QED BY <1>4, <1>5, <1>6, <1>7

LEMMA PackBegins == ASSUME PackAssumption, PInit PROVE PackInv
<1>1. hits \in Seq(Hit) /\ budget \in Nat
  BY DEF PInit, PackAssumption
<1>2. /\ next = 1 /\ rendered = 0 /\ warnings = <<>> /\ accepted = <<>>
      /\ grouped = [s \in 0..5 |-> <<>>]
  BY DEF PInit
<1>3. PackTypes
  BY <1>1, <1>2 DEF PackTypes
<1>4. Budgeted
  <2> DEFINE f == [s \in 1..6 |-> SectionLength(s - 1)]
  <2>1. \A s \in 1..6 : f[s] = 0
    BY <1>2 DEF SectionLength
  <2>2. Rendered = Total(f, 6) + 0
    BY <1>2 DEF Rendered
  <2> HIDE DEF f
  <2>3. Total(f, 6) = 0
    <3>1. \A i \in 1..6 : f[i] \in Nat
      BY <2>1
    <3>2. Total(f, 6) = f[1] + f[2] + f[3] + f[4] + f[5] + f[6]
      BY <3>1, SixSections
    <3>3. QED BY <2>1, <3>2
  <2>4. RenderBudget \in Nat
    BY <1>1 DEF RenderBudget, Larger, PackAssumption
  <2>5. QED BY <1>2, <2>2, <2>3, <2>4 DEF Budgeted, Empty
<1>5. ViewsAgree
  <2>1. {k \in DOMAIN warnings : TRUE} = {} /\ DOMAIN accepted = {}
    BY <1>2
  <2>2. \A s \in 0..5 : DOMAIN grouped[s] = {}
    BY <1>2
  <2>3. UNION {{[hit |-> grouped[s][i].hit, kept |-> grouped[s][i].kept] :
                   i \in DOMAIN grouped[s]} : s \in 0..5} = {}
    BY <2>2
  <2>4. \A i : Cardinality({k \in DOMAIN warnings : warnings[k] = i}) = 0
    <3>1. \A i : {k \in DOMAIN warnings : warnings[k] = i} = {}
      BY <2>1
    <3>2. QED BY <3>1, FS_EmptySet
  <2> DEFINE items == UNION {{[hit |-> grouped[s][i].hit, kept |-> grouped[s][i].kept] :
                                 i \in DOMAIN grouped[s]} : s \in 0..5}
  <2>5. items = {accepted[i] : i \in DOMAIN accepted}
    BY <2>1, <2>3
  <2>6. ASSUME NEW i \in DOMAIN hits
        PROVE  Cardinality({k \in DOMAIN warnings : warnings[k] = i}) =
                  IF \E x \in items : x.hit = i THEN WarningsOf(hits[i]) ELSE 0
    BY <2>3, <2>4
  <2> HIDE DEF items
  <2>7. QED BY <2>5, <2>6 DEF ViewsAgree, items
<1>6. QED BY <1>3, <1>4, <1>5 DEF PackInv

\* w warnings of hit x.
Repeated(x, w) == [j \in 1..w |-> x]

LEMMA MoreWarnings ==
    ASSUME NEW W \in Seq(Nat), NEW x \in Nat, NEW w \in 0..2
    PROVE  LET V == W \o Repeated(x, w) IN
           /\ V \in Seq(Nat) /\ Len(V) = Len(W) + w /\ DOMAIN V = 1..(Len(W) + w)
           /\ \A k \in 1..Len(W) : V[k] = W[k]
           /\ \A k \in (Len(W) + 1)..(Len(W) + w) : V[k] = x
<1> DEFINE more == Repeated(x, w)
           V == W \o more
<1>1. more \in Seq(Nat) /\ Len(more) = w /\ (\A j \in 1..w : more[j] = x)
  BY DEF Repeated
<1>2. Len(W) \in Nat
  OBVIOUS
<1> HIDE DEF more
<1>3. V \in Seq(Nat) /\ Len(V) = Len(W) + w /\ DOMAIN V = 1..(Len(W) + w)
  BY <1>1, <1>2
<1>4. \A k \in 1..Len(W) : V[k] = W[k]
  BY <1>1, <1>2
<1>5. ASSUME NEW k \in (Len(W) + 1)..(Len(W) + w) PROVE V[k] = x
  <2>1. k - Len(W) \in 1..w /\ k \in 1..(Len(W) + w) /\ ~(k <= Len(W))
    BY <1>2
  <2>2. V[k] = more[k - Len(W)]
    BY <1>1, <1>2, <2>1
  <2>3. QED BY <1>1, <2>1, <2>2
<1>6. QED BY <1>3, <1>4, <1>5 DEF more

\* V is W and w more warnings of hit x.
Warned(W, V, x, w) ==
    /\ V \in Seq(Nat) /\ Len(V) = Len(W) + w /\ DOMAIN V = 1..(Len(W) + w)
    /\ \A k \in 1..Len(W) : V[k] = W[k]
    /\ \A k \in (Len(W) + 1)..(Len(W) + w) : V[k] = x

LEMMA WarningsGrow ==
    ASSUME NEW W \in Seq(Nat), NEW x \in Nat, NEW w \in 0..2
    PROVE  Warned(W, W \o Repeated(x, w), x, w)
<1> DEFINE V == W \o Repeated(x, w)
<1>1. /\ V \in Seq(Nat) /\ Len(V) = Len(W) + w /\ DOMAIN V = 1..(Len(W) + w)
      /\ \A k \in 1..Len(W) : V[k] = W[k]
      /\ \A k \in (Len(W) + 1)..(Len(W) + w) : V[k] = x
  BY MoreWarnings
<1> HIDE DEF V
<1>2. Warned(W, V, x, w)
  BY Zenon, <1>1 DEF Warned
<1>3. QED BY <1>2 DEF V

LEMMA WarningsAre == \A hit : WarningsOf(hit) \in 0..2
BY DEF WarningsOf

LEMMA FixedIsNat ==
    ASSUME PackAssumption, NEW hit
    PROVE  /\ FixedTokens(hit) \in Nat
           /\ (IF grouped[SectionFor(hit.kind)] = <<>> THEN HeaderLength ELSE 0)
              + (IF WarningsOf(hit) > 0 /\ warnings = <<>> THEN WarnHeader ELSE 0)
              + WarningsOf(hit) * WarnLength <= 3 * FixedTokens(hit)
<1> DEFINE w == WarningsOf(hit)
           H == Tokens(HeaderLength)
           V == Tokens(WarnHeader)
           W == Tokens(WarnLength)
           first == grouped[SectionFor(hit.kind)] = <<>>
           warned == w > 0 /\ warnings = <<>>
<1>1. HeaderLength \in Nat /\ WarnHeader \in Nat /\ WarnLength \in Nat
  BY DEF PackAssumption
<1>2. /\ H \in Nat /\ HeaderLength <= 3 * H /\ V \in Nat /\ WarnHeader <= 3 * V
      /\ W \in Nat /\ WarnLength <= 3 * W
  BY <1>1, TokensCount
<1>3. w = 0 \/ w = 1 \/ w = 2
  BY WarningsAre
<1>4. FixedTokens(hit) = (IF first THEN H ELSE 0) + (IF warned THEN V ELSE 0) + w * W
  BY DEF FixedTokens
<1> HIDE DEF w, H, V, W, first, warned
<1>5. w * W \in Nat /\ w * WarnLength \in Nat /\ w * WarnLength <= 3 * (w * W)
  <2>1. /\ 0 * W = 0 /\ 1 * W = W /\ 2 * W = W + W
        /\ 0 * WarnLength = 0 /\ 1 * WarnLength = WarnLength
        /\ 2 * WarnLength = WarnLength + WarnLength
    BY <1>1, <1>2
  <2>2. CASE w = 0
    BY <2>1, <2>2
  <2>3. CASE w = 1
    BY <1>1, <1>2, <2>1, <2>3
  <2>4. CASE w = 2
    BY <1>1, <1>2, <2>1, <2>4
  <2>5. QED BY <1>3, <2>2, <2>3, <2>4
<1> DEFINE a == IF first THEN H ELSE 0
           b == IF warned THEN V ELSE 0
           x == IF first THEN HeaderLength ELSE 0
           y == IF warned THEN WarnHeader ELSE 0
<1>6. a \in Nat /\ b \in Nat /\ x \in Nat /\ y \in Nat /\ x <= 3 * a /\ y <= 3 * b
  BY <1>1, <1>2
<1>7. FixedTokens(hit) = a + b + w * W
  BY <1>4
<1> HIDE DEF a, b, x, y
<1>8. FixedTokens(hit) \in Nat /\ x + y + w * WarnLength <= 3 * FixedTokens(hit)
  <2> DEFINE c == w * W
             z == w * WarnLength
  <2>1. c \in Nat /\ z \in Nat /\ z <= 3 * c
    BY <1>5
  <2>2. FixedTokens(hit) = a + b + c
    BY <1>7
  <2> HIDE DEF c, z
  <2>3. FixedTokens(hit) \in Nat /\ x + y + z <= 3 * FixedTokens(hit)
    BY <1>6, <2>1, <2>2
  <2>4. QED BY <2>3 DEF z
<1>9. QED BY <1>8 DEF x, y, w, first, warned

LEMMA BudgetsAreNat ==
    ASSUME PackAssumption, PackTypes
    PROVE  /\ RenderBudget \in Nat /\ rendered \in Nat
           /\ \A hit : RenderBudget - rendered - FixedTokens(hit) \in Int
<1>1. budget \in Nat /\ Envelope \in Nat /\ rendered \in Nat
  BY DEF PackTypes, PackAssumption
<1>2. RenderBudget \in Nat
  BY <1>1 DEF RenderBudget, Larger
<1>3. \A hit : FixedTokens(hit) \in Nat
  BY FixedIsNat
<1>4. QED BY <1>1, <1>2, <1>3

\* A hit that is taken: t tokens of its body fit into the room that is left.
Takes(room, t) ==
    /\ next \in DOMAIN hits /\ room = RenderBudget - rendered - FixedTokens(hits[next])
    /\ t \in Nat \ {0} /\ FragmentTokens(hits[next], t) <= room
    /\ Accept(next, t) /\ next' = next + 1 /\ UNCHANGED <<hits, budget>>

LEMMA SectionsAre == \A kind : SectionFor(kind) \in 0..5
BY DEF SectionFor

LEMMA TakenItem ==
    ASSUME PackAssumption, PackTypes, NEW room, NEW t, Takes(room, t)
    PROVE  LET hit == hits[next]
               s == SectionFor(hit.kind)
               item == [hit |-> next, kept |-> Kept(hit.body, t), tokens |-> FragmentTokens(hit, t)]
           IN /\ hit \in Hit /\ s \in 0..5 /\ item \in Shown /\ ItemOf(hits, next + 1, item)
              /\ ItemLength(hits, item) \in Nat /\ ItemLength(hits, item) <= 3 * item.tokens
              /\ item.tokens \in Nat \ {0}
              /\ rendered' = rendered + FixedTokens(hit) + item.tokens
              /\ grouped' = [grouped EXCEPT ![s] = Append(grouped[s], item)]
              /\ warnings' = warnings \o Repeated(next, WarningsOf(hit))
              /\ accepted' = Append(accepted, [hit |-> next, kept |-> item.kept])
<1> DEFINE hit == hits[next]
           item == [hit |-> next, kept |-> Kept(hit.body, t), tokens |-> FragmentTokens(hit, t)]
<1>1. hit \in Hit /\ t \in Nat \ {0} /\ next \in Nat \ {0} /\ next \in 1..Len(hits)
  <2>1. hits \in Seq(Hit) /\ next \in Nat \ {0}
    BY DEF PackTypes
  <2>2. next \in DOMAIN hits /\ t \in Nat \ {0}
    BY DEF Takes
  <2>3. QED BY <2>1, <2>2
<1>2. hit.body \in Seq(Char) /\ Len(hit.body) \in Nat
  BY <1>1 DEF Hit
<1>3. Kept(hit.body, t) \in 0..Len(hit.body)
  BY <1>1, <1>2, KeptIsPart
<1>4. /\ FragmentTokens(hit, t) \in Nat \ {0}
      /\ FrameLength + TextLength(hit.body, Kept(hit.body, t)) <= 3 * FragmentTokens(hit, t)
  <2>1. t <= t
    BY <1>1
  <2>2. QED BY <1>1, <2>1, FragmentGrows
<1>5. /\ item.hit = next /\ item.kept = Kept(hit.body, t) /\ item.tokens = FragmentTokens(hit, t)
      /\ item \in Shown
  BY <1>1, <1>2, <1>3, <1>4 DEF Shown
<1>6. ItemOf(hits, next + 1, item)
  BY <1>1, <1>3, <1>5 DEF ItemOf
<1>7. ItemLength(hits, item) <= 3 * item.tokens
  BY <1>4, <1>5 DEF ItemLength
<1>8. ItemLength(hits, item) \in Nat
  <2>1. hits \in Seq(Hit) /\ next + 1 \in Nat /\ next + 1 <= Len(hits) + 1
    BY <1>1 DEF PackTypes
  <2>2. QED BY <1>6, <2>1, ItemLengthIsNat
<1>9. SectionFor(hit.kind) \in 0..5
  BY SectionsAre
<1>10. /\ rendered' = rendered + FixedTokens(hit) + item.tokens
       /\ grouped' = [grouped EXCEPT ![SectionFor(hit.kind)] = Append(grouped[SectionFor(hit.kind)], item)]
       /\ warnings' = warnings \o Repeated(next, WarningsOf(hit))
       /\ accepted' = Append(accepted, [hit |-> next, kept |-> item.kept])
  BY DEF Takes, Accept, Repeated
<1> HIDE DEF hit, item
<1>11. QED BY <1>1, <1>4, <1>5, <1>6, <1>7, <1>8, <1>9, <1>10 DEF hit, item

LEMMA TakingKeepsTypes ==
    ASSUME PackAssumption, PackTypes, NEW room, NEW t, Takes(room, t)
    PROVE  PackTypes'
<1> DEFINE hit == hits[next]
           s == SectionFor(hit.kind)
           w == WarningsOf(hit)
           item == [hit |-> next, kept |-> Kept(hit.body, t), tokens |-> FragmentTokens(hit, t)]
<1>1. /\ hit \in Hit /\ s \in 0..5 /\ item \in Shown /\ ItemOf(hits, next + 1, item)
      /\ item.tokens \in Nat \ {0}
      /\ rendered' = rendered + FixedTokens(hit) + item.tokens
      /\ grouped' = [grouped EXCEPT ![s] = Append(grouped[s], item)]
      /\ warnings' = warnings \o Repeated(next, w)
      /\ accepted' = Append(accepted, [hit |-> next, kept |-> item.kept])
  BY TakenItem
<1>2. /\ hits' = hits /\ budget' = budget /\ next' = next + 1
      /\ next \in DOMAIN hits /\ w \in 0..2
  BY WarningsAre DEF Takes
<1>3. item.kept \in Nat
  BY <1>1 DEF Shown
<1> HIDE DEF hit, s, w, item
<1>4. /\ hits' \in Seq(Hit) /\ budget' \in Nat
      /\ next' \in Nat \ {0} /\ next' <= Len(hits') + 1 /\ rendered' \in Nat
  <2>1. FixedTokens(hit) \in Nat
    BY FixedIsNat
  <2>2. rendered \in Nat /\ hits \in Seq(Hit) /\ next \in Nat \ {0} /\ next \in 1..Len(hits)
    <3>1. rendered \in Nat /\ hits \in Seq(Hit) /\ next \in Nat \ {0}
      BY DEF PackTypes
    <3>2. QED BY <1>2, <3>1
  <2>3. rendered' \in Nat
    <3>1. rendered' = rendered + FixedTokens(hit) + item.tokens /\ item.tokens \in Nat
      BY <1>1
    <3>2. QED BY <2>1, <2>2, <3>1
  <2>4. next' \in Nat \ {0} /\ next' <= Len(hits') + 1
    BY <1>2, <2>2
  <2>5. budget' \in Nat
    BY <1>2 DEF PackTypes
  <2>6. QED BY <1>2, <2>2, <2>3, <2>4, <2>5
<1>5. grouped' \in [0..5 -> Seq(Shown)]
  <2>1. grouped \in [0..5 -> Seq(Shown)]
    BY DEF PackTypes
  <2>2. s \in 0..5 /\ item \in Shown /\ grouped' = [grouped EXCEPT ![s] = Append(grouped[s], item)]
    BY <1>1
  <2>3. grouped[s] \in Seq(Shown)
    BY <2>1, <2>2
  <2>4. Append(grouped[s], item) \in Seq(Shown)
    BY <2>2, <2>3
  <2>5. QED BY <2>1, <2>2, <2>4
<1>6. ASSUME NEW p \in 0..5, NEW i \in DOMAIN grouped'[p]
      PROVE  ItemOf(hits', next', grouped'[p][i])
  <2>1. \A x : ItemOf(hits, next, x) => ItemOf(hits, next + 1, x)
    <3>1. next \in Nat
      BY DEF PackTypes
    <3>2. \A j \in 1..(next - 1) : j \in 1..((next + 1) - 1)
      BY <3>1
    <3>3. QED BY <3>2 DEF ItemOf
  <2>2. CASE p # s
    <3>1. grouped'[p] = grouped[p]
      BY <1>1, <2>2 DEF PackTypes
    <3>2. QED BY <1>2, <1>6, <2>1, <3>1 DEF PackTypes
  <2>3. CASE p = s
    <3>1. grouped'[p] = Append(grouped[p], item) /\ grouped[p] \in Seq(Shown)
      BY <1>1, <2>3 DEF PackTypes
    <3>2. CASE i \in DOMAIN grouped[p]
      <4>1. grouped'[p][i] = grouped[p][i]
        BY <1>1, <3>1, <3>2
      <4>2. QED BY <1>2, <2>1, <3>2, <4>1 DEF PackTypes
    <3>3. CASE i \notin DOMAIN grouped[p]
      <4>1. grouped'[p][i] = item
        BY <1>1, <1>6, <3>1, <3>3
      <4>2. QED BY <1>1, <1>2, <4>1
    <3>4. QED BY <3>2, <3>3
  <2>4. QED BY <2>2, <2>3
<1>7. warnings' \in Seq(Nat) /\ \A k \in DOMAIN warnings' : warnings'[k] \in 1..(next' - 1)
  <2>1. next \in Nat \ {0} /\ warnings \in Seq(Nat)
    BY DEF PackTypes
  <2>2. warnings' = warnings \o Repeated(next, w)
    BY <1>1
  <2>3. /\ warnings' \in Seq(Nat) /\ DOMAIN warnings' = 1..(Len(warnings) + w)
        /\ \A k \in 1..Len(warnings) : warnings'[k] = warnings[k]
        /\ \A k \in (Len(warnings) + 1)..(Len(warnings) + w) : warnings'[k] = next
    <3>1. warnings \in Seq(Nat) /\ next \in Nat /\ w \in 0..2
      BY <1>2, <2>1
    <3>2. Warned(warnings, warnings \o Repeated(next, w), next, w)
      BY Zenon, <3>1, WarningsGrow
    <3>3. Warned(warnings, warnings', next, w)
      BY Zenon, <2>2, <3>2
    <3>4. QED BY Zenon, <3>3 DEF Warned
  <2>4. ASSUME NEW k \in DOMAIN warnings' PROVE warnings'[k] \in 1..(next' - 1)
    <3>1. Len(warnings) \in Nat /\ DOMAIN warnings = 1..Len(warnings)
      BY <2>1
    <3>2. CASE k \in 1..Len(warnings)
      <4>1. warnings'[k] \in 1..(next - 1)
        BY <2>3, <3>1, <3>2 DEF PackTypes
      <4>2. QED BY <1>2, <2>1, <4>1
    <3>3. CASE k \notin 1..Len(warnings)
      <4>1. k \in (Len(warnings) + 1)..(Len(warnings) + w)
        BY <1>2, <2>3, <3>1, <3>3
      <4>2. warnings'[k] = next
        BY <2>3, <4>1
      <4>3. QED BY <1>2, <2>1, <4>2
    <3>4. QED BY <3>2, <3>3
  <2>5. QED BY <2>3, <2>4
<1>8. accepted' \in Seq([hit : Nat, kept : Nat])
  <2>1. [hit |-> next, kept |-> item.kept] \in [hit : Nat, kept : Nat]
    BY <1>3 DEF PackTypes
  <2>2. QED BY <1>1, <2>1 DEF PackTypes
<1>9. QED BY <1>4, <1>5, <1>6, <1>7, <1>8 DEF PackTypes

LEMMA SumsFit ==
    ASSUME NEW F \in Nat, NEW U \in Nat, NEW L \in Nat, NEW W \in Nat, NEW header \in Nat,
           NEW warned \in Nat, NEW before \in Nat, NEW fixed \in Nat, NEW cost \in Nat,
           F + U <= 3 * before, L <= 3 * cost, header + warned + W <= 3 * fixed
    PROVE  (F + (header + L)) + (U + warned + W) <= 3 * (before + fixed + cost)
OBVIOUS

LEMMA TakingIsBudgeted ==
    ASSUME PackAssumption, PackTypes, Budgeted, NEW room, NEW t, Takes(room, t)
    PROVE  Budgeted'
<1> DEFINE hit == hits[next]
           s == SectionFor(hit.kind)
           w == WarningsOf(hit)
           item == [hit |-> next, kept |-> Kept(hit.body, t), tokens |-> FragmentTokens(hit, t)]
           header == IF grouped[s] = <<>> THEN HeaderLength ELSE 0
           warned == IF w > 0 /\ warnings = <<>> THEN WarnHeader ELSE 0
           d == header + ItemLength(hits, item)
           f == [i \in 1..6 |-> SectionLength(i - 1)]
           g == [i \in 1..6 |-> SectionLength(i - 1)']
<1>1. /\ s \in 0..5 /\ item \in Shown /\ item.tokens \in Nat \ {0}
      /\ ItemLength(hits, item) \in Nat /\ ItemLength(hits, item) <= 3 * item.tokens
      /\ rendered' = rendered + FixedTokens(hit) + item.tokens
      /\ grouped' = [grouped EXCEPT ![s] = Append(grouped[s], item)]
      /\ warnings' = warnings \o Repeated(next, w)
  BY TakenItem
<1>2. /\ hits' = hits /\ budget' = budget /\ w \in 0..2
      /\ item.tokens <= RenderBudget - rendered - FixedTokens(hit)
  BY WarningsAre DEF Takes
<1>3. /\ FixedTokens(hit) \in Nat
      /\ header + warned + w * WarnLength <= 3 * FixedTokens(hit)
  BY FixedIsNat
<1>4. /\ HeaderLength \in Nat /\ WarnHeader \in Nat /\ WarnLength \in Nat
      /\ header \in Nat /\ warned \in Nat /\ d \in Nat
  <2>1. HeaderLength \in Nat /\ WarnHeader \in Nat /\ WarnLength \in Nat
    BY DEF PackAssumption
  <2>2. header \in Nat /\ warned \in Nat /\ ItemLength(hits, item) \in Nat
    BY <1>1, <2>1
  <2> HIDE DEF header, warned, item
  <2>3. QED BY <2>1, <2>2
<1>5. /\ rendered \in Nat /\ hits \in Seq(Hit) /\ next \in Nat /\ next <= Len(hits) + 1
      /\ grouped \in [0..5 -> Seq(Shown)] /\ warnings \in Seq(Nat) /\ budget \in Nat
      /\ \A p \in 0..5 : \A i \in DOMAIN grouped[p] : ItemOf(hits, next, grouped[p][i])
  BY DEF PackTypes
<1> HIDE DEF hit, s, w, item, header, warned
<1>6. ASSUME NEW p \in 0..5
      PROVE  /\ SectionLength(p) \in Nat
             /\ SectionLength(p)' = IF p = s THEN SectionLength(p) + d ELSE SectionLength(p)
  <2>1. grouped[p] \in Seq(Shown) /\ \A i \in DOMAIN grouped[p] : ItemLength(hits, grouped[p][i]) \in Nat
    BY <1>5, ItemLengthIsNat
  <2>2. SectionLength(p) = LengthOf(hits, grouped[p]) /\ SectionLength(p)' = LengthOf(hits, grouped'[p])
    BY <1>2, SectionLengthIs
  <2>3. LengthOf(hits, grouped[p]) \in Nat
    BY <1>5, LengthIsNat
  <2>4. CASE p = s
    <3>1. grouped'[p] = Append(grouped[p], item)
      BY <1>1, <1>5, <2>4
    <3>2. LengthOf(hits, Append(grouped[p], item)) =
             LengthOf(hits, grouped[p]) + (IF grouped[p] = <<>> THEN HeaderLength ELSE 0)
               + ItemLength(hits, item)
      BY <1>1, <1>4, <2>1, LengthOfAppend
    <3>3. (IF grouped[p] = <<>> THEN HeaderLength ELSE 0) = header
      BY <2>4 DEF header
    <3>4. LengthOf(hits, grouped'[p]) = LengthOf(hits, grouped[p]) + header + ItemLength(hits, item)
      BY <3>1, <3>2, <3>3
    <3>5. ItemLength(hits, item) \in Nat
      BY <1>1
    <3>6. QED BY <1>4, <2>2, <2>3, <2>4, <3>4, <3>5
  <2>5. CASE p # s
    <3>1. grouped'[p] = grouped[p]
      BY <1>1, <1>5, <2>5
    <3>2. QED BY <2>2, <2>3, <2>5, <3>1
  <2>6. QED BY <2>4, <2>5
<1>7. Total(f, 6) \in Nat /\ Total(g, 6) = Total(f, 6) + d
  <2> HIDE DEF d
  <2>1. ASSUME NEW i \in 1..6 PROVE f[i] \in Nat
    <3>1. i - 1 \in 0..5
      OBVIOUS
    <3>2. SectionLength(i - 1) \in Nat
      BY <1>6, <3>1
    <3>3. QED BY <3>2
  <2>2. s + 1 \in 1..6 /\ (s + 1) - 1 = s
    BY <1>1
  <2>3. g[s + 1] = f[s + 1] + d
    BY <1>1, <1>6, <2>2
  <2>4. \A i \in 1..6 \ {s + 1} : g[i] = f[i]
    <3> SUFFICES ASSUME NEW i \in 1..6, i # s + 1 PROVE g[i] = f[i]
      OBVIOUS
    <3>1. i - 1 \in 0..5 /\ i - 1 # s
      BY <1>1
    <3>2. QED BY <1>6, <3>1
  <2>5. d \in Nat
    BY <1>4
  <2> HIDE DEF f, g
  <2>6. QED BY Zenon, <2>1, <2>2, <2>3, <2>4, <2>5, SixTotals
<1>8. /\ WarningLength(Len(warnings)) \in Nat
      /\ WarningLength(Len(warnings')) = WarningLength(Len(warnings)) + warned + w * WarnLength
  <2>1. warnings \in Seq(Nat) /\ next \in Nat
    BY <1>5
  <2>2. warnings' = warnings \o Repeated(next, w)
    BY <1>1
  <2>3. Len(warnings) \in Nat /\ Len(warnings') = Len(warnings) + w
    <3>1. w \in 0..2
      BY <1>2
    <3>2. Warned(warnings, warnings \o Repeated(next, w), next, w)
      BY Zenon, <2>1, <3>1, WarningsGrow
    <3>3. Warned(warnings, warnings', next, w)
      BY Zenon, <2>2, <3>2
    <3>4. Len(warnings) \in Nat
      BY <2>1
    <3>5. QED BY Zenon, <3>3, <3>4 DEF Warned
  <2>4. /\ WarningLength(Len(warnings)) \in Nat
        /\ WarningLength(Len(warnings) + w) = WarningLength(Len(warnings))
              + (IF w > 0 /\ Len(warnings) = 0 THEN WarnHeader ELSE 0) + w * WarnLength
    BY <1>2, <1>4, <2>3, WarningsLengthen
  <2>5. warnings = <<>> <=> Len(warnings) = 0
    BY <1>5
  <2>6. (IF w > 0 /\ Len(warnings) = 0 THEN WarnHeader ELSE 0) = warned
    BY <2>5 DEF warned
  <2>7. QED BY <2>3, <2>4, <2>6
<1>9. Rendered = Total(f, 6) + WarningLength(Len(warnings))
  <2>1. warnings = <<>> <=> Len(warnings) = 0
    BY <1>5
  <2>2. QED BY <2>1 DEF Rendered, WarningLength
<1>10. Rendered' = Total(g, 6) + WarningLength(Len(warnings'))
  <2>1. warnings' \in Seq(Nat)
    <3>1. warnings \in Seq(Nat) /\ next \in Nat
      BY <1>5
    <3>2. warnings' = warnings \o Repeated(next, w)
      BY <1>1
    <3>3. w \in 0..2
      BY <1>2
    <3>4. Warned(warnings, warnings \o Repeated(next, w), next, w)
      BY Zenon, <3>1, <3>3, WarningsGrow
    <3>5. Warned(warnings, warnings', next, w)
      BY Zenon, <3>2, <3>4
    <3>6. QED BY Zenon, <3>5 DEF Warned
  <2>2. warnings' = <<>> <=> Len(warnings') = 0
    BY <2>1
  <2>3. QED BY <2>2 DEF Rendered, WarningLength
<1> DEFINE F == Total(f, 6)
           G == Total(g, 6)
           U == WarningLength(Len(warnings))
           V == WarningLength(Len(warnings'))
           W == w * WarnLength
           L == ItemLength(hits, item)
<1>11. Rendered = F + U /\ Rendered' = G + V /\ G = F + (header + L) /\ V = U + warned + W
  BY <1>7, <1>8, <1>9, <1>10
<1>12. F \in Nat /\ U \in Nat /\ L \in Nat /\ L <= 3 * item.tokens /\ W \in Nat
  <2>1. W \in Nat
    BY <1>2, <1>4
  <2>2. QED BY <1>1, <1>7, <1>8, <2>1
<1>13. header + warned + W <= 3 * FixedTokens(hit)
  BY <1>3
<1> HIDE DEF F, G, U, V, W, L, d
<1>14. Rendered' <= 3 * (rendered + FixedTokens(hit) + item.tokens)
  <2>1. F + U <= 3 * rendered
    BY <1>11 DEF Budgeted
  <2>2. item.tokens \in Nat
    BY <1>1
  <2>3. Rendered' = (F + (header + L)) + (U + warned + W)
    BY <1>11
  <2>4. /\ FixedTokens(hit) \in Nat /\ header \in Nat /\ warned \in Nat /\ rendered \in Nat
        /\ L <= 3 * item.tokens /\ F \in Nat /\ U \in Nat /\ L \in Nat /\ W \in Nat
    BY <1>3, <1>4, <1>5, <1>12
  <2>5. (F + (header + L)) + (U + warned + W) <= 3 * (rendered + FixedTokens(hit) + item.tokens)
    <3>1. PICK cost \in Nat : cost = item.tokens
      BY <2>2
    <3>2. PICK fixed \in Nat : fixed = FixedTokens(hit)
      BY <2>4
    <3>3. L <= 3 * cost /\ header + warned + W <= 3 * fixed
      BY <1>13, <2>4, <3>1, <3>2
    <3>4. (F + (header + L)) + (U + warned + W) <= 3 * (rendered + fixed + cost)
      BY <2>1, <2>4, <3>3, SumsFit
    <3>5. QED BY <3>1, <3>2, <3>4
  <2>6. QED BY <2>3, <2>5
<1>15. rendered' = rendered + FixedTokens(hit) + item.tokens /\ item.tokens \in Nat \ {0}
  BY <1>1
<1>16. RenderBudget' = RenderBudget /\ RenderBudget \in Nat
  <2>1. budget' = budget /\ budget \in Nat /\ Envelope \in Nat
    BY <1>2, <1>5 DEF PackAssumption
  <2>2. QED BY <2>1 DEF RenderBudget, Larger
<1>17. rendered' <= RenderBudget' /\ rendered' # 0
  <2>1. rendered \in Nat /\ FixedTokens(hit) \in Nat
    BY <1>3, <1>5
  <2>2. item.tokens <= RenderBudget - rendered - FixedTokens(hit)
    BY <1>2
  <2>3. QED BY <1>15, <1>16, <2>1, <2>2
<1>18. QED BY <1>14, <1>15, <1>17 DEF Budgeted

\* r is q with x after it.
Longer(q, r, x) ==
    /\ DOMAIN r = DOMAIN q \cup {Len(q) + 1} /\ r[Len(q) + 1] = x
    /\ \A i \in DOMAIN q : r[i] = q[i]

LEMMA AppendedOne ==
    ASSUME NEW S, NEW q \in Seq(S), NEW x \in S
    PROVE  Longer(q, Append(q, x), x)
<1> DEFINE r == Append(q, x)
<1>1. DOMAIN r = DOMAIN q \cup {Len(q) + 1} /\ r[Len(q) + 1] = x
  OBVIOUS
<1>2. \A i \in DOMAIN q : r[i] = q[i]
  OBVIOUS
<1> HIDE DEF r
<1>3. Longer(q, r, x)
  BY Zenon, <1>1, <1>2 DEF Longer
<1>4. QED BY <1>3 DEF r

LEMMA TakingKeepsViews ==
    ASSUME PackAssumption, PackTypes, ViewsAgree, NEW room, NEW t, Takes(room, t)
    PROVE  ViewsAgree'
<1> DEFINE hit == hits[next]
           s == SectionFor(hit.kind)
           w == WarningsOf(hit)
           item == [hit |-> next, kept |-> Kept(hit.body, t), tokens |-> FragmentTokens(hit, t)]
           Excerpt(x) == [hit |-> x.hit, kept |-> x.kept]
           new == Excerpt(item)
           P(p) == {Excerpt(grouped'[p][i]) : i \in DOMAIN grouped'[p]}
           Q(p) == {Excerpt(grouped[p][i]) : i \in DOMAIN grouped[p]}
           items == UNION {Q(p) : p \in 0..5}
           after == UNION {P(p) : p \in 0..5}
           Of(i) == {k \in DOMAIN warnings : warnings[k] = i}
           Now(i) == {k \in DOMAIN warnings' : warnings'[k] = i}
<1>1. /\ s \in 0..5 /\ item \in Shown
      /\ grouped' = [grouped EXCEPT ![s] = Append(grouped[s], item)]
      /\ warnings' = warnings \o Repeated(next, w)
      /\ accepted' = Append(accepted, [hit |-> next, kept |-> item.kept])
  BY TakenItem
<1>2. hits' = hits /\ next \in DOMAIN hits /\ w \in 0..2 /\ w = WarningsOf(hits[next])
  BY WarningsAre DEF Takes
<1>3. new = [hit |-> next, kept |-> item.kept] /\ new.hit = next
  OBVIOUS
<1>4. /\ next \in Nat \ {0} /\ grouped \in [0..5 -> Seq(Shown)] /\ warnings \in Seq(Nat)
      /\ accepted \in Seq([hit : Nat, kept : Nat])
      /\ \A p \in 0..5 : \A i \in DOMAIN grouped[p] : grouped[p][i].hit \in 1..(next - 1)
      /\ \A k \in DOMAIN warnings : warnings[k] \in 1..(next - 1)
  BY DEF PackTypes, ItemOf
<1>5. /\ items = {accepted[i] : i \in DOMAIN accepted}
      /\ \A i \in DOMAIN hits : Cardinality(Of(i)) =
            IF \E x \in items : x.hit = i THEN WarningsOf(hits[i]) ELSE 0
  BY DEF ViewsAgree
<1> HIDE DEF hit, s, w, item, new
<1>6. after = items \cup {new}
  <2>1. ASSUME NEW p \in 0..5 PROVE P(p) = Q(p) \cup (IF p = s THEN {new} ELSE {})
    <3>1. CASE p # s
      <4>1. grouped'[p] = grouped[p]
        BY <1>1, <1>4, <3>1
      <4>2. QED BY <3>1, <4>1
    <3>2. CASE p = s
      <4> DEFINE old == grouped[p]
                 n == Len(old)
                 longer == grouped'[p]
      <4>1. longer = Append(old, item) /\ old \in Seq(Shown)
        BY <1>1, <1>4, <3>2
      <4> HIDE DEF old, longer
      <4>2. /\ DOMAIN longer = DOMAIN old \cup {n + 1} /\ longer[n + 1] = item
            /\ \A i \in DOMAIN old : longer[i] = old[i]
        BY <1>1, <4>1
      <4> HIDE DEF n
      <4>3. {Excerpt(longer[i]) : i \in DOMAIN longer} = {Excerpt(old[i]) : i \in DOMAIN old} \cup {Excerpt(item)}
        BY <4>2
      <4>4. QED BY <3>2, <4>3 DEF old, longer, new
    <3>3. QED BY <3>1, <3>2
  <2>2. \A p \in 0..5 : P(p) = Q(p) \cup (IF p = s THEN {new} ELSE {})
    BY <2>1
  <2>3. s \in 0..5
    BY <1>1
  <2> HIDE DEF P, Q
  <2>4. ASSUME NEW x
        PROVE  x \in after <=> x \in items \cup {new}
    <3>1. ASSUME NEW p \in 0..5, x \in P(p) PROVE x = new \/ x \in Q(p)
      BY <2>2, <3>1
    <3>2. ASSUME NEW p \in 0..5, x \in Q(p) PROVE x \in P(p)
      BY <2>2, <3>2
    <3>3. new \in P(s)
      BY <2>2, <2>3
    <3>4. /\ x \in after <=> \E p \in 0..5 : x \in P(p)
          /\ x \in items <=> \E p \in 0..5 : x \in Q(p)
      BY Zenon
    <3> HIDE DEF after, items
    <3>5. QED BY <2>3, <3>1, <3>2, <3>3, <3>4
  <2> HIDE DEF after, items
  <2>5. QED BY <2>4
<1>7. {accepted'[i] : i \in DOMAIN accepted'} = {accepted[i] : i \in DOMAIN accepted} \cup {new}
  <2>1. accepted' = Append(accepted, new)
    BY <1>1, <1>3
  <2>2. new \in [hit : Nat, kept : Nat]
    <3>1. item.kept \in Nat /\ next \in Nat
      BY <1>1, <1>4 DEF Shown
    <3>2. QED BY <1>3, <3>1
  <2>3. /\ DOMAIN accepted' = DOMAIN accepted \cup {Len(accepted) + 1}
        /\ accepted'[Len(accepted) + 1] = new
        /\ \A i \in DOMAIN accepted : accepted'[i] = accepted[i]
    <3>1. accepted \in Seq([hit : Nat, kept : Nat])
      BY <1>4
    <3> DEFINE S == [hit : Nat, kept : Nat]
    <3> HIDE DEF S
    <3>2. accepted \in Seq(S) /\ new \in S
      BY <2>2, <3>1 DEF S
    <3>3. Longer(accepted, Append(accepted, new), new)
      BY Zenon, <3>2, AppendedOne
    <3>4. Longer(accepted, accepted', new)
      BY Zenon, <2>1, <3>3
    <3>5. QED BY Zenon, <3>4 DEF Longer
  <2>4. QED BY <2>3
<1>8. \A x \in items : x.hit # next
  <2>1. ASSUME NEW x \in items PROVE x.hit # next
    <3>1. PICK p \in 0..5 : \E i \in DOMAIN grouped[p] : x = Excerpt(grouped[p][i])
      BY <2>1
    <3>2. PICK i \in DOMAIN grouped[p] : x = Excerpt(grouped[p][i])
      BY <3>1
    <3>3. x.hit = grouped[p][i].hit
      BY <3>2
    <3>4. grouped[p][i].hit \in 1..(next - 1)
      BY <1>4
    <3>5. next \in Nat /\ next \notin 1..(next - 1)
      <4>1. next \in Nat
        BY <1>4
      <4>2. QED BY <4>1
    <3>6. QED BY <3>3, <3>4, <3>5
  <2>2. QED BY <2>1
<1> DEFINE n == Len(warnings)
<1>9. /\ n \in Nat /\ DOMAIN warnings = 1..n /\ DOMAIN warnings' = 1..(n + w)
      /\ \A k \in 1..n : warnings'[k] = warnings[k]
      /\ \A k \in (n + 1)..(n + w) : warnings'[k] = next
  <2>1. warnings \in Seq(Nat) /\ next \in Nat
    BY <1>4
  <2>2. warnings' = warnings \o Repeated(next, w)
    BY <1>1
  <2>3. n \in Nat /\ DOMAIN warnings = 1..n
    BY <2>1
  <2>4. /\ DOMAIN warnings' = 1..(n + w)
        /\ \A k \in 1..n : warnings'[k] = warnings[k]
        /\ \A k \in (n + 1)..(n + w) : warnings'[k] = next
    <3>1. w \in 0..2
      BY <1>2
    <3>2. Warned(warnings, warnings \o Repeated(next, w), next, w)
      BY Zenon, <2>1, <3>1, WarningsGrow
    <3>3. Warned(warnings, warnings', next, w)
      BY Zenon, <2>2, <3>2
    <3>4. QED BY Zenon, <3>3 DEF Warned
  <2>5. QED BY <2>3, <2>4
<1> HIDE DEF n
<1>10. ASSUME NEW i \in DOMAIN hits', i # next PROVE Now(i) = Of(i)
  <2>1. ASSUME NEW k \in 1..(n + w), k \notin 1..n PROVE warnings'[k] = next
    <3>1. k \in (n + 1)..(n + w)
      BY <1>2, <1>9, <2>1
    <3>2. QED BY <1>9, <3>1
  <2>2. 1..n \subseteq 1..(n + w)
    BY <1>2, <1>9
  <2>3. QED BY <1>9, <1>10, <2>1, <2>2
<1>11. Now(next) = (n + 1)..(n + w)
  <2>1. \A k \in 1..n : warnings'[k] # next
    <3>1. next \in Nat /\ \A k \in DOMAIN warnings : warnings[k] \in 1..(next - 1)
      BY <1>4
    <3>2. next \notin 1..(next - 1)
      BY <3>1
    <3>3. QED BY <1>9, <3>1, <3>2
  <2>2. QED BY <1>2, <1>9, <2>1
<1>12. Cardinality(Now(next)) = w
  <2>1. n + 1 \in Int /\ n + w \in Int
    BY <1>2, <1>9
  <2>2. Cardinality((n + 1)..(n + w)) = IF n + 1 > n + w THEN 0 ELSE (n + w) - (n + 1) + 1
    BY <2>1, FS_Interval
  <2>3. n \in Nat /\ w \in 0..2
    BY <1>2, <1>9
  <2>4. (IF n + 1 > n + w THEN 0 ELSE (n + w) - (n + 1) + 1) = w
    BY <2>3
  <2>5. QED BY <1>11, <2>2, <2>4
<1>13. after = {accepted'[i] : i \in DOMAIN accepted'}
  BY <1>5, <1>6, <1>7
<1>14. ASSUME NEW i \in DOMAIN hits'
       PROVE  Cardinality(Now(i)) =
                 IF \E x \in after : x.hit = i THEN WarningsOf(hits'[i]) ELSE 0
  <2> HIDE DEF Of, Now, items, after
  <2>1. CASE i = next
    <3>1. \E x \in after : x.hit = next
      BY <1>3, <1>6
    <3>2. WarningsOf(hits'[next]) = w
      BY <1>2
    <3>3. QED BY <1>12, <2>1, <3>1, <3>2
  <2>2. CASE i # next
    <3>1. (\E x \in after : x.hit = i) <=> (\E x \in items : x.hit = i)
      BY <1>3, <1>6, <2>2
    <3>2. WarningsOf(hits'[i]) = WarningsOf(hits[i]) /\ i \in DOMAIN hits
      BY <1>2
    <3>3. QED BY <1>5, <1>10, <2>2, <3>1, <3>2
  <2>3. QED BY <2>1, <2>2
<1> HIDE DEF after
<1>15. QED BY <1>13, <1>14 DEF ViewsAgree, after

\* ViewsAgree, of these hits, sections, warnings and accepted hits.
AgreeOn(h, g, w, a) ==
    LET items == UNION {{[hit |-> g[s][i].hit, kept |-> g[s][i].kept] : i \in DOMAIN g[s]} :
                        s \in 0..5}
    IN /\ items = {a[i] : i \in DOMAIN a}
       /\ \A i \in DOMAIN h :
             Cardinality({k \in DOMAIN w : w[k] = i}) =
                IF \E x \in items : x.hit = i THEN WarningsOf(h[i]) ELSE 0

LEMMA ViewsAgreeOn ==
    /\ ViewsAgree <=> AgreeOn(hits, grouped, warnings, accepted)
    /\ ViewsAgree' <=> AgreeOn(hits', grouped', warnings', accepted')
BY Zenon DEF ViewsAgree, AgreeOn

LEMMA PackStep ==
    ASSUME PackAssumption, PackInv, Pack
    PROVE  PackInv'
<1> DEFINE hit == hits[next]
           room == RenderBudget - rendered - FixedTokens(hit)
           t == Search(hit, room)
<1>1. next \in DOMAIN hits /\ next' = next + 1 /\ UNCHANGED <<hits, budget>>
  BY DEF Pack
<1>2. PackTypes /\ Budgeted /\ ViewsAgree
  BY DEF PackInv
<1>3. \/ UNCHANGED <<rendered, grouped, warnings, accepted>>
      \/ room >= 0 /\ t # 0 /\ Accept(next, t)
  <2>1. IF room < 0 \/ t = 0 THEN Skip ELSE Accept(next, t)
    BY DEF Pack
  <2>2. room \in Int
    BY <1>2, BudgetsAreNat
  <2> HIDE DEF room, t
  <2>3. QED BY <2>1, <2>2 DEF Skip
<1>4. CASE UNCHANGED <<rendered, grouped, warnings, accepted>>
  <2>1. /\ hits' = hits /\ budget' = budget /\ rendered' = rendered /\ grouped' = grouped
        /\ warnings' = warnings /\ accepted' = accepted
    BY <1>1, <1>4
  <2>2. next \in Nat \ {0} /\ next \in 1..Len(hits)
    <3>1. next \in Nat \ {0} /\ hits \in Seq(Hit)
      BY <1>2 DEF PackTypes
    <3>2. QED BY <1>1, <3>1
  <2>3. \A x : ItemOf(hits, next, x) => ItemOf(hits, next + 1, x)
    <3>1. \A i \in 1..(next - 1) : i \in 1..((next + 1) - 1)
      BY <2>2
    <3>2. QED BY <3>1 DEF ItemOf
  <2>4. \A i \in 1..(next - 1) : i \in 1..(next' - 1)
    BY <1>1, <2>2
  <2>5. next' \in Nat \ {0} /\ next' <= Len(hits) + 1
    BY <1>1, <2>2
  <2>6. PackTypes'
    BY <1>1, <1>2, <2>1, <2>3, <2>4, <2>5 DEF PackTypes
  <2>7. Budgeted'
    <3>1. RenderBudget' = RenderBudget
      BY <2>1 DEF RenderBudget
    <3>2. Rendered' = Rendered
      BY <2>1 DEF Rendered, SectionLength
    <3>3. Empty' = Empty
      BY <2>1 DEF Empty
    <3>4. QED BY <1>2, <2>1, <3>1, <3>2, <3>3 DEF Budgeted
  <2>8. ViewsAgree'
    BY <1>2, <2>1, ViewsAgreeOn
  <2>9. QED BY <2>6, <2>7, <2>8 DEF PackInv
<1>5. CASE room >= 0 /\ t # 0 /\ Accept(next, t)
  <2>1. hit \in Hit
    <3>1. hits \in Seq(Hit)
      BY <1>2 DEF PackTypes
    <3>2. QED BY <1>1, <3>1
  <2>2. room \in Nat
    <3>1. room \in Int
      BY <1>2, BudgetsAreNat
    <3>2. QED BY <1>5, <3>1
  <2>3. t \in 1..Larger(room, 1) /\ FragmentTokens(hit, t) <= room
    <3> DEFINE fits == {u \in 1..Larger(room, 1) : FragmentTokens(hit, u) <= room}
    <3> HIDE DEF room
    <3>1. fits = {} => Search(hit, room) = 0
      BY <2>1, <2>2, SearchFinds
    <3>2. fits # {} => Search(hit, room) \in fits
      BY <2>1, <2>2, SearchFinds
    <3>3. QED BY <1>5, <3>1, <3>2
  <2>4. t \in Nat \ {0}
    <3>1. Larger(room, 1) \in Nat
      BY <2>2 DEF Larger
    <3> HIDE DEF t, room
    <3>2. QED BY <2>3, <3>1
  <2>5. Takes(room, t)
    <3> HIDE DEF t
    <3>1. QED BY <1>1, <1>5, <2>3, <2>4 DEF Takes
  <2> HIDE DEF room, t
  <2>6. QED BY <1>2, <2>5, TakingKeepsTypes, TakingIsBudgeted, TakingKeepsViews DEF PackInv
<1>6. QED BY <1>3, <1>4, <1>5

LEMMA BudgetIsKept == ASSUME PackAssumption, PackInv PROVE BudgetHolds
<1>1. budget \in Nat /\ Envelope \in Nat /\ rendered \in Nat
  BY DEF PackInv, PackTypes, PackAssumption
<1>2. rendered <= RenderBudget /\ Rendered <= 3 * rendered /\ (rendered = 0 => Empty)
  BY DEF PackInv, Budgeted
<1>3. CASE Empty
  BY <1>1, <1>3 DEF BudgetHolds, EstimatedTokens
<1>4. CASE ~Empty
  <2>1. rendered \in Nat \ {0}
    BY <1>1, <1>2, <1>4
  <2>2. Rendered \in Nat
    <3> DEFINE f == [s \in 1..6 |-> SectionLength(s - 1)]
    <3>1. PackTypes
      BY DEF PackInv
    <3>2. \A s \in 0..5 : SectionLength(s) \in Nat
      <4>1. /\ hits \in Seq(Hit) /\ next \in Nat /\ next <= Len(hits) + 1
            /\ grouped \in [0..5 -> Seq(Shown)]
            /\ \A p \in 0..5 : \A i \in DOMAIN grouped[p] : ItemOf(hits, next, grouped[p][i])
        BY <3>1 DEF PackTypes
      <4>2. \A s \in 0..5 : LengthOf(hits, grouped[s]) \in Nat
        BY <4>1, LengthIsNat
      <4>3. QED BY <4>2, SectionLengthIs
    <3>3. ASSUME NEW i \in 1..6 PROVE f[i] \in Nat
      <4>1. i - 1 \in 0..5
        OBVIOUS
      <4>2. SectionLength(i - 1) \in Nat
        BY <3>2, <4>1
      <4>3. QED BY <4>2
    <3> HIDE DEF f
    <3>4. Total(f, 6) \in Nat
      BY <3>3, TotalIsNat
    <3>5. Len(warnings) \in Nat /\ WarnHeader \in Nat /\ WarnLength \in Nat
      BY <3>1 DEF PackTypes, PackAssumption
    <3>6. WarnLength * Len(warnings) \in Nat
      BY <3>5
    <3>7. Rendered = Total(f, 6) + (IF warnings = <<>> THEN 0 ELSE WarnHeader + WarnLength * Len(warnings))
      BY DEF Rendered, f
    <3>8. QED BY <3>4, <3>5, <3>6, <3>7
  <2>3. Tokens(Rendered) <= rendered
    BY <1>2, <2>1, <2>2, TokensCount
  <2>4. Tokens(Rendered) \in Nat
    BY <2>2, TokensCount
  <2>5. EstimatedTokens = Tokens(Rendered) + Smaller(Envelope, budget)
    BY <1>4 DEF EstimatedTokens
  <2>6. rendered <= budget - Envelope /\ Envelope <= budget
    BY <1>1, <1>2, <2>1 DEF RenderBudget, Larger
  <2>7. Smaller(Envelope, budget) = Envelope
    BY <1>1, <2>6 DEF Smaller
  <2> HIDE DEF Tokens, Rendered
  <2>8. QED BY <1>1, <2>3, <2>4, <2>5, <2>6, <2>7 DEF BudgetHolds
<1>5. QED BY <1>3, <1>4

LEMMA ExcerptsAreLongest == ASSUME PackAssumption, PackInv PROVE ExcerptIsLongest
<1> SUFFICES ASSUME next \in DOMAIN hits, RenderBudget - rendered - FixedTokens(hits[next]) >= 0
             PROVE  LET room == RenderBudget - rendered - FixedTokens(hits[next])
                        fits == {t \in 1..Larger(room, 1) : FragmentTokens(hits[next], t) <= room}
                    IN Search(hits[next], room) = IF fits = {} THEN 0
                                                  ELSE CHOOSE t \in fits : \A u \in fits : u <= t
  BY DEF ExcerptIsLongest
<1> DEFINE room == RenderBudget - rendered - FixedTokens(hits[next])
           fits == {t \in 1..Larger(room, 1) : FragmentTokens(hits[next], t) <= room}
<1>1. hits[next] \in Hit
  <2>1. hits \in Seq(Hit)
    BY DEF PackInv, PackTypes
  <2>2. QED BY <2>1
<1>2. room \in Nat
  <2>1. room \in Int
    BY BudgetsAreNat DEF PackInv
  <2>2. QED BY <2>1
<1> HIDE DEF room
<1>3. Larger(room, 1) \in Nat
  BY <1>2 DEF Larger
<1>4. /\ fits = {} => Search(hits[next], room) = 0
      /\ fits # {} => /\ Search(hits[next], room) \in fits
                      /\ \A u \in fits : u <= Search(hits[next], room)
  BY <1>1, <1>2, SearchFinds
<1>5. fits \subseteq Nat
  BY <1>3
<1> HIDE DEF fits
<1>6. ASSUME fits # {}
      PROVE  (CHOOSE t \in fits : \A u \in fits : u <= t) = Search(hits[next], room)
  <2> DEFINE c == CHOOSE t \in fits : \A u \in fits : u <= t
  <2>1. c \in fits /\ \A u \in fits : u <= c
    BY <1>4, <1>6
  <2> HIDE DEF c
  <2>2. c \in Nat /\ Search(hits[next], room) \in Nat
    BY <1>4, <1>5, <1>6, <2>1
  <2>3. c <= Search(hits[next], room) /\ Search(hits[next], room) <= c
    BY <1>4, <1>6, <2>1
  <2>4. c = Search(hits[next], room)
    BY <2>2, <2>3
  <2>5. QED BY <2>4 DEF c
<1>7. Search(hits[next], room) = IF fits = {} THEN 0
                                 ELSE CHOOSE t \in fits : \A u \in fits : u <= t
  BY <1>4, <1>6
<1>8. QED BY <1>7 DEF fits, room

\* PackIsFaithful of ContextPack, for any hits, bodies and budgets: what is
\* rendered fits the budget with the envelope, each excerpt is the longest that
\* fits where it is packed, and hits, sections and warnings show the same
\* memories (engine.rs compile_context).
THEOREM PacksAreFaithful == PSpec => []PackIsFaithful
<1>1. PInit => PackInv
  BY PackBegins, PackAssumption
<1>2. PackInv /\ [Pack]_packVars => PackInv'
  <2>1. ASSUME PackInv, UNCHANGED packVars PROVE PackInv'
    <3>1. /\ hits' = hits /\ budget' = budget /\ rendered' = rendered /\ grouped' = grouped
          /\ warnings' = warnings /\ accepted' = accepted /\ next' = next
      BY <2>1 DEF packVars
    <3>2. PackTypes' /\ ViewsAgree'
      BY <2>1, <3>1, ViewsAgreeOn DEF PackInv, PackTypes
    <3>3. RenderBudget' = RenderBudget /\ Rendered' = Rendered /\ Empty' = Empty
      BY <3>1 DEF RenderBudget, Rendered, SectionLength, Empty
    <3>4. Budgeted'
      BY <2>1, <3>1, <3>3 DEF PackInv, Budgeted
    <3>5. QED BY <3>2, <3>4 DEF PackInv
  <2>2. QED BY <2>1, PackStep, PackAssumption
<1>3. PackInv => PackIsFaithful
  BY PackAssumption, BudgetIsKept, ExcerptsAreLongest DEF PackInv, PackIsFaithful
<1>4. QED BY <1>1, <1>2, <1>3, PTL DEF PSpec
=============================================================================
