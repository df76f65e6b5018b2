---------------------------- MODULE MemoryStore ----------------------------
(***************************************************************************)
(* The canonical store of super-mem-core (engine.rs): the append-only      *)
(* event log, memory heads with their revisions, the revision-scoped link  *)
(* ledger, the event_memories mapping, the lexical index marker and the    *)
(* idempotency table, with the four writing operations observe, remember,  *)
(* checkpoint and retract.                                                 *)
(*                                                                         *)
(* A writer holds SQLite's write lock from BEGIN IMMEDIATE to COMMIT, so   *)
(* the writing operations of all processes are serialised.  observe,       *)
(* remember and retract each write one memory at most and are one step;    *)
(* checkpoint writes several memories in one transaction and is modelled   *)
(* statement group by statement group on a private copy of the store that  *)
(* is installed by COMMIT or dropped by ROLLBACK or a crash.               *)
(***************************************************************************)
EXTENDS Integers, Sequences, FiniteSets

CONSTANTS
    Memory,        \* memory identifiers
    Scope,         \* durable scopes: (namespace, repository, branch, workspace)
    Context,       \* volatile context of a call: session, HEAD, dirty hash, root
    Kind,          \* the memory kinds clients use with remember
    Key,           \* canonical keys
    Body,          \* contents
    IdemKey,       \* idempotency keys
    ExplicitId,    \* the memory identifiers clients may name in remember
    Relation,      \* link relations clients use with remember
    ChildList,     \* what a checkpoint carries: sequences of child memories
    Operation,     \* the operations the instance exercises
    None,          \* absent optional value
    MaxSeq,        \* bound: events in the log
    MaxRevision,   \* the largest revision number (u32::MAX)
    MaxLinks,      \* bound: links in one request
    MaxEvidence    \* bound: evidence references in one request

MemoryKind == {"fact", "preference", "constraint", "decision", "procedure",
               "episode", "outcome", "task", "observation"}
Operations == {"observe", "remember", "checkpoint", "retract"}
Live == {"active", "contested"}
State == Live \cup {"superseded", "retracted"}

\* One decision, attempt or open task of a checkpoint.
Child == [kind: {"decision", "outcome", "task"}, key: Key \cup {None}]
Link == [dst: Memory, rel: Relation \cup {"belongs_to", "attempted_for"}]

ASSUME StoreAssumption ==
    /\ None \notin Memory \cup Scope \cup Context \cup Key \cup Body \cup IdemKey
    /\ Kind \subseteq MemoryKind
    /\ ExplicitId \subseteq Memory
    /\ ChildList \subseteq Seq(Child)
    /\ Operation \subseteq Operations
    /\ MaxSeq \in Nat
    /\ MaxRevision \in Nat \ {0}

(***************************************************************************)
(* A request.  The four request types share one record; the fields an      *)
(* operation does not have are None or empty.                              *)
(***************************************************************************)
Request ==
    [op: Operations, scope: Scope, ctx: Context \cup {None},
     id: Memory \cup {None}, kind: MemoryKind \cup {None},
     key: Key \cup {None}, body: Body,
     links: SUBSET Link, evidence: SUBSET (1..MaxSeq),
     children: Seq(Child), idem: IdemKey \cup {None}]

LinkSets == {L \in SUBSET [dst: Memory, rel: Relation] : Cardinality(L) <= MaxLinks}
EvidenceSets == {E \in SUBSET (1..MaxSeq) : Cardinality(E) <= MaxEvidence}

ObserveCalls ==
    [op: {"observe"}, scope: Scope, ctx: Context, id: {None}, kind: {None},
     key: {None}, body: Body, links: {{}}, evidence: {{}}, children: {<<>>},
     idem: IdemKey \cup {None}]
RememberCalls ==
    [op: {"remember"}, scope: Scope, ctx: Context, id: ExplicitId \cup {None},
     kind: Kind, key: Key \cup {None}, body: Body, links: LinkSets,
     evidence: EvidenceSets, children: {<<>>}, idem: IdemKey \cup {None}]
CheckpointCalls ==
    [op: {"checkpoint"}, scope: Scope, ctx: Context, id: {None}, kind: {"episode"},
     key: {None}, body: Body, links: {{}}, evidence: EvidenceSets,
     children: ChildList, idem: IdemKey \cup {None}]
\* retract has no scope of its own: the event takes the scope of the head.
RetractCalls ==
    [op: {"retract"}, scope: Scope, ctx: Context, id: Memory, kind: {None},
     key: {None}, body: Body, links: {{}}, evidence: {{}}, children: {<<>>},
     idem: IdemKey \cup {None}]

\* What the idempotency table hashes: the request without its volatile
\* context and without the key itself.
Fingerprint(call) == [call EXCEPT !.ctx = None, !.idem = None]

\* The primary key of the idempotency row of a call.
Slot(call) ==
    [op |-> call.op,
     owner |-> IF call.op = "retract" THEN call.id ELSE call.scope,
     idem |-> call.idem]
Slots == [op: Operations, owner: Scope \cup Memory, idem: IdemKey]

(***************************************************************************)
(* The tables.  Events are named by their sequence number; an event row    *)
(* is a function of the request that appended it, so the log keeps the     *)
(* request.                                                                *)
(***************************************************************************)
HeadRow == [scope: Scope, kind: MemoryKind, state: State, key: Key \cup {None},
            rev: 1..MaxRevision, updated: 1..MaxSeq]
RevisionRow == [mem: Memory, num: 1..MaxRevision, kind: MemoryKind, state: Live,
                key: Key \cup {None}, body: Body, seq: 1..MaxSeq,
                evidence: SUBSET (1..MaxSeq), retired: BOOLEAN]
LinkRow == [src: Memory, srcRev: 1..MaxRevision, dst: Memory,
            rel: Relation \cup {"belongs_to", "attempted_for"}, seq: 1..MaxSeq]
Receipt == [slot: Slots, hash: Request, seq: 1..MaxSeq, written: SUBSET Memory]

Store == [events: Seq(Request),
          heads: [Memory -> HeadRow \cup {None}],
          revisions: SUBSET RevisionRow,
          links: SUBSET LinkRow,
          touched: SUBSET ((1..MaxSeq) \X Memory),
          index: [Memory -> 0..MaxRevision],
          receipts: SUBSET Receipt]

EmptyStore == [events |-> <<>>, heads |-> [m \in Memory |-> None],
               revisions |-> {}, links |-> {}, touched |-> {},
               index |-> [m \in Memory |-> 0], receipts |-> {}]

VARIABLES
    db,     \* the committed store
    txn     \* the open checkpoint transaction, or None

vars == <<db, txn>>

Transaction == [call: Request, seq: 1..MaxSeq, episode: Memory,
                todo: Seq(Child), written: SUBSET Memory, work: Store]

\* None is neither a row nor a transaction.
ASSUME NoneAssumption == None \notin HeadRow /\ None \notin Transaction

Exists(d, m) == d.heads[m] # None
IsLive(d, m) == Exists(d, m) /\ d.heads[m].state \in Live

----------------------------------------------------------------------------
(* Idempotency *)

Receipts(d, call) == {r \in d.receipts : call.idem # None /\ r.slot = Slot(call)}
\* Mutant: a key that was used for another request does not stop the call.
UnseenByHash(d, call) ==
    \A r \in Receipts(d, call) : r.hash # Fingerprint(call)
\* get_idempotent finds nothing: the call has to be executed.
Unseen(d, call) == Receipts(d, call) = {}
\* get_idempotent finds the receipt of the same request.
Seen(d, call) == \E r \in Receipts(d, call) : r.hash = Fingerprint(call)

PutReceipt(d, call, seq, written) ==
    IF call.idem = None THEN d
    ELSE [d EXCEPT !.receipts = @ \cup
            {[slot |-> Slot(call), hash |-> Fingerprint(call), seq |-> seq,
              written |-> written]}]

AppendEvent(d, call) == [d EXCEPT !.events = Append(@, call)]

----------------------------------------------------------------------------
(* upsert_memory *)

ValidEvidence(d, w) ==
    \A e \in w.evidence : e \in DOMAIN d.events /\ d.events[e].scope = w.scope
\* Mutant: link targets are looked up but their scope is not compared.
ValidLinksAnywhere(d, w) == \A l \in w.links : Exists(d, l.dst)
ValidLinks(d, w) ==
    \A l \in w.links : Exists(d, l.dst) /\ d.heads[l.dst].scope = w.scope

\* Mutant: the canonical lookup forgets contested heads.
CanonicalMatchesActive(d, w) ==
    {m \in Memory : /\ w.key # None
                    /\ Exists(d, m)
                    /\ d.heads[m].state = "active"
                    /\ d.heads[m].scope = w.scope
                    /\ d.heads[m].kind = w.kind
                    /\ d.heads[m].key = w.key}
\* The live heads a canonical key names, and the ones the query may return:
\* the latest updated; equal ones are ordered by their identifiers.
CanonicalMatches(d, w) ==
    {m \in Memory : /\ w.key # None
                    /\ IsLive(d, m)
                    /\ d.heads[m].scope = w.scope
                    /\ d.heads[m].kind = w.kind
                    /\ d.heads[m].key = w.key}
CanonicalHeads(d, w) ==
    {m \in CanonicalMatches(d, w) :
        \A n \in CanonicalMatches(d, w) : d.heads[n].updated <= d.heads[m].updated}

\* The memory the request writes: the one it names, else the one its canonical
\* key names, else a new one.
Targets(d, w) ==
    IF w.id # None THEN {w.id}
    ELSE IF CanonicalMatches(d, w) # {} THEN CanonicalHeads(d, w)
    ELSE {m \in Memory : ~Exists(d, m)}

\* Mutants: the revision number may pass its width; a superseded memory may be
\* revised.
AcceptsUnbounded(d, w, m) ==
    /\ ValidEvidence(d, w) /\ ValidLinks(d, w)
    /\ \A l \in w.links : l.dst # m
    /\ Exists(d, m) => /\ d.heads[m].scope = w.scope /\ d.heads[m].kind = w.kind
                       /\ d.heads[m].state \in Live
AcceptsSuperseded(d, w, m) ==
    /\ ValidEvidence(d, w) /\ ValidLinks(d, w)
    /\ \A l \in w.links : l.dst # m
    /\ Exists(d, m) => /\ d.heads[m].scope = w.scope /\ d.heads[m].kind = w.kind
                       /\ d.heads[m].state # "retracted"
                       /\ d.heads[m].rev < MaxRevision
Accepts(d, w, m) ==
    /\ ValidEvidence(d, w)
    /\ ValidLinks(d, w)
    /\ \A l \in w.links : l.dst # m
    /\ Exists(d, m) => /\ d.heads[m].scope = w.scope
                       /\ d.heads[m].kind = w.kind
                       /\ d.heads[m].state \in Live
                       \* saturating_add: the next revision row would violate
                       \* the primary key and the transaction is rolled back
                       /\ d.heads[m].rev < MaxRevision

NextRevision(d, m) == IF Exists(d, m) THEN d.heads[m].rev + 1 ELSE 1
LinkTargets(w, rel) == {l.dst : l \in {k \in w.links : k.rel = rel}}
WrittenState(w) == IF LinkTargets(w, "contests") # {} THEN "contested" ELSE "active"

\* Mutants: a contest marks its source only; supersedes ignores the state of
\* its target.
LinkedSupersedesOnly(h, m, w, seq) ==
    IF m \in LinkTargets(w, "supersedes") /\ h # None /\ h.state \in Live
    THEN [h EXCEPT !.state = "superseded", !.updated = seq] ELSE h
LinkedUnguarded(h, m, w, seq) ==
    IF m \in LinkTargets(w, "supersedes") /\ h # None
    THEN [h EXCEPT !.state = "superseded", !.updated = seq]
    ELSE IF m \in LinkTargets(w, "contests") /\ h # None /\ h.state = "active"
    THEN [h EXCEPT !.state = "contested", !.updated = seq]
    ELSE h
\* apply_link_lifecycle on the head of a link's target.
Linked(h, m, w, seq) ==
    IF m \in LinkTargets(w, "supersedes") /\ h # None /\ h.state \in Live
    THEN [h EXCEPT !.state = "superseded", !.updated = seq]
    ELSE IF m \in LinkTargets(w, "contests") /\ h # None /\ h.state = "active"
    THEN [h EXCEPT !.state = "contested", !.updated = seq]
    ELSE h

WrittenHead(d, w, m, seq) ==
    [scope |-> w.scope, kind |-> w.kind, state |-> WrittenState(w), key |-> w.key,
     rev |-> NextRevision(d, m), updated |-> seq]
WrittenRevision(d, w, m, seq) ==
    [mem |-> m, num |-> NextRevision(d, m), kind |-> w.kind, state |-> WrittenState(w),
     key |-> w.key, body |-> w.body, seq |-> seq, evidence |-> w.evidence \cup {seq},
     retired |-> FALSE]
\* Mutant: the previous revision is not retired.
RetiredNever(d, m) == d.revisions
Retired(d, m) ==
    {[r EXCEPT !.retired = @ \/ (r.mem = m /\ Exists(d, m) /\ r.num = d.heads[m].rev)]
        : r \in d.revisions}

\* Mutant: the event is mapped to the written memory only.
TouchedSelf(w, m) == {m}
\* The memories event_memories maps the event to: the written one and the
\* targets of its links.
Touched(w, m) == {m} \cup {l.dst : l \in w.links}

Upsert(d, w, m, seq) ==
    [events |-> d.events,
     heads |-> [x \in Memory |-> IF x = m THEN WrittenHead(d, w, m, seq)
                                 ELSE Linked(d.heads[x], x, w, seq)],
     revisions |-> Retired(d, m) \cup {WrittenRevision(d, w, m, seq)},
     links |-> d.links \cup {[src |-> m, srcRev |-> NextRevision(d, m), dst |-> l.dst,
                              rel |-> l.rel, seq |-> seq] : l \in w.links},
     touched |-> d.touched \cup {<<seq, x>> : x \in Touched(w, m)},
     index |-> [d.index EXCEPT ![m] = NextRevision(d, m)],
     receipts |-> d.receipts]

----------------------------------------------------------------------------
(* The operations *)

\* The retry of a call that was executed: its receipt is returned.
Deduplicate(call) == txn = None /\ Seen(db, call) /\ UNCHANGED vars

\* Room in the bounded log, the write lock, and no receipt of the call.
MayExecute(call) ==
    /\ txn = None
    /\ Unseen(db, call)
    /\ Len(db.events) < MaxSeq

Observe(call) ==
    /\ MayExecute(call)
    /\ LET seq == Len(db.events) + 1 IN
       db' = PutReceipt(AppendEvent(db, call), call, seq, {})
    /\ UNCHANGED txn

Remember(call) ==
    /\ MayExecute(call)
    /\ LET seq == Len(db.events) + 1 IN
       \E m \in Targets(db, call) :
          /\ Accepts(db, call, m)
          /\ db' = PutReceipt(Upsert(AppendEvent(db, call), call, m, seq),
                              call, seq, {m})
    /\ UNCHANGED txn

\* Mutant: the index rows of a retracted memory stay.
RetractHeadIndexed(d, m, seq) ==
    [d EXCEPT !.heads[m].state = "retracted", !.heads[m].updated = seq,
              !.touched = @ \cup {<<seq, m>>}]
\* The lifecycle event, the head, the mapping and the index rows.
RetractHead(d, m, seq) ==
    [d EXCEPT !.heads[m].state = "retracted",
              !.heads[m].updated = seq,
              !.touched = @ \cup {<<seq, m>>},
              !.index[m] = 0]

Retract(call) ==
    /\ MayExecute(call)
    /\ Exists(db, call.id)
    /\ call.scope = db.heads[call.id].scope
    /\ db.heads[call.id].state # "retracted"
    /\ LET seq == Len(db.events) + 1 IN
       db' = PutReceipt(RetractHead(AppendEvent(db, call), call.id, seq),
                        call, seq, {call.id})
    /\ UNCHANGED txn

\* Mutant: the episode is committed before the children are written.
BeginCheckpointAutocommit(call) ==
    /\ MayExecute(call)
    /\ LET seq == Len(db.events) + 1 IN
       \E m \in Targets(db, call) :
          /\ Accepts(db, call, m)
          /\ db' = Upsert(AppendEvent(db, call), call, m, seq)
          /\ txn' = [call |-> call, seq |-> seq, episode |-> m, todo |-> call.children,
                     written |-> {m}, work |-> db']
\* BEGIN IMMEDIATE, idempotency lookup, evidence check, event, episode.
BeginCheckpoint(call) ==
    /\ MayExecute(call)
    /\ LET seq == Len(db.events) + 1 IN
       \E m \in Targets(db, call) :
          /\ Accepts(db, call, m)
          /\ txn' = [call |-> call, seq |-> seq, episode |-> m, todo |-> call.children,
                     written |-> {m},
                     work |-> Upsert(AppendEvent(db, call), call, m, seq)]
    /\ UNCHANGED db

\* The remember request checkpoint builds for a decision, attempt or task.
ChildWrite(call, child, episode) ==
    [call EXCEPT !.kind = child.kind, !.key = child.key, !.idem = None,
                 !.links = {[dst |-> episode,
                             rel |-> IF child.kind = "outcome" THEN "attempted_for"
                                     ELSE "belongs_to"]}]

WriteChild ==
    /\ txn # None
    /\ txn.todo # <<>>
    /\ LET w == ChildWrite(txn.call, Head(txn.todo), txn.episode) IN
       \E m \in Targets(txn.work, w) :
          /\ Accepts(txn.work, w, m)
          /\ txn' = [txn EXCEPT !.work = Upsert(@, w, m, txn.seq),
                                !.todo = Tail(@),
                                !.written = @ \cup {m}]
    /\ UNCHANGED db

\* Mutant: the receipt of a checkpoint is not stored with it.
CommitWithoutReceipt ==
    /\ txn # None
    /\ txn.todo = <<>>
    /\ db' = txn.work
    /\ txn' = None
CommitCheckpoint ==
    /\ txn # None
    /\ txn.todo = <<>>
    /\ db' = PutReceipt(txn.work, txn.call, txn.seq, txn.written)
    /\ txn' = None

\* An error in a later statement, or the death of the process.
Rollback == txn # None /\ txn' = None /\ UNCHANGED db

Init == db = EmptyStore /\ txn = None

Next ==
    \/ \E call \in ObserveCalls : "observe" \in Operation /\ Observe(call)
    \/ \E call \in RememberCalls : "remember" \in Operation /\ Remember(call)
    \/ \E call \in RetractCalls : "retract" \in Operation /\ Retract(call)
    \/ \E call \in CheckpointCalls : "checkpoint" \in Operation /\ BeginCheckpoint(call)
    \/ WriteChild
    \/ CommitCheckpoint
    \/ Rollback
    \/ \E call \in ObserveCalls \cup RememberCalls \cup RetractCalls \cup CheckpointCalls :
          call.op \in Operation /\ Deduplicate(call)

Spec == Init /\ [][Next]_vars
----------------------------------------------------------------------------
(* Properties *)

\* Types of the committed store and of the transaction's private copy
\* (schema of engine.rs and schema.rs).
TypeOK == /\ db \in Store
          /\ txn \in Transaction \cup {None}

RevisionsOf(d, m) == {r \in d.revisions : r.mem = m}
HeadRevision(d, m) == CHOOSE r \in RevisionsOf(d, m) : r.num = d.heads[m].rev
LinksWith(d, rel) == {l \in d.links : l.rel = rel}

\* A head points to the latest of revisions 1..n, none is missing or doubled,
\* and exactly the one it points to is not retired (upsert_memory; what
\* inspect_application_invariants of schema.rs reports when it fails).
RevisionChainOf(d) ==
    \A m \in Memory :
       IF Exists(d, m)
       THEN /\ {r.num : r \in RevisionsOf(d, m)} = 1..d.heads[m].rev
            /\ \A r, s \in RevisionsOf(d, m) : r.num = s.num => r = s
            /\ \A r \in RevisionsOf(d, m) : r.retired <=> r.num # d.heads[m].rev
       ELSE RevisionsOf(d, m) = {}
RevisionChain == RevisionChainOf(db)

\* Nothing is derived from, linked to or caused by anything of another
\* namespace, repository, workspace or branch (validate_evidence,
\* validate_links, the explicit identifier check of upsert_memory).
ScopeClosedOf(d) ==
    /\ \A r \in d.revisions : Exists(d, r.mem) /\ \A e \in r.evidence :
          e \in DOMAIN d.events /\ d.events[e].scope = d.heads[r.mem].scope
    /\ \A l \in d.links : Exists(d, l.src) /\ Exists(d, l.dst)
                          /\ d.heads[l.src].scope = d.heads[l.dst].scope
    /\ \A t \in d.touched : Exists(d, t[2]) /\ t[1] \in DOMAIN d.events
                            /\ d.events[t[1]].scope = d.heads[t[2]].scope
ScopeClosed == ScopeClosedOf(db)

\* A supersedes link ends its target for good: the target is superseded or
\* retracted and every revision of it is older than the link, which is one of
\* a revision of the source.  So supersession always goes back in time and no
\* chain of knowledge replaces itself (apply_link_lifecycle, upsert_memory).
SupersessionGoesBackOf(d) ==
    \A l \in LinksWith(d, "supersedes") :
       /\ d.heads[l.dst].state \notin Live
       /\ \A r \in RevisionsOf(d, l.dst) : r.seq < l.seq
       /\ \E r \in RevisionsOf(d, l.src) : r.num = l.srcRev /\ r.seq = l.seq
SupersessionGoesBack == SupersessionGoesBackOf(db)

\* A contest is open for its source while the revision that raised it is the
\* head's, and for its target until the target is revised.  A live head is
\* contested exactly while a contest is open for it (apply_link_lifecycle and
\* the state reset of upsert_memory).
OpenContest(d, m) ==
    \E l \in LinksWith(d, "contests") :
       \/ l.src = m /\ l.srcRev = d.heads[m].rev
       \/ l.dst = m /\ l.seq > HeadRevision(d, m).seq
ContestedWhileOpenOf(d) ==
    \A m \in Memory :
       IsLive(d, m) => (d.heads[m].state = "contested" <=> OpenContest(d, m))
ContestedWhileOpen == ContestedWhileOpenOf(db)

\* The lexical index holds the head revision of every memory that is not
\* retracted and nothing else (rebuild_fts, retract).
IndexCoversKnowledgeOf(d) ==
    \A m \in Memory :
       d.index[m] = IF Exists(d, m) /\ d.heads[m].state # "retracted"
                    THEN d.heads[m].rev ELSE 0
IndexCoversKnowledge == IndexCoversKnowledgeOf(db)

\* Every revision cites the event that recorded it, and the last change of a
\* head is mapped to its event, so history can explain it (event_memories).
EveryChangeHasEventOf(d) ==
    /\ \A r \in d.revisions : r.seq \in r.evidence /\ <<r.seq, r.mem>> \in d.touched
    /\ \A m \in Memory : Exists(d, m) =>
          /\ <<d.heads[m].updated, m>> \in d.touched
          /\ \A t \in d.touched : t[2] = m /\ t[1] > d.heads[m].updated =>
                \* only a link that changed no state is newer than the head
                \E l \in d.links : l.dst = m /\ l.seq = t[1]
EveryChangeHasEvent == EveryChangeHasEventOf(db)

\* A keyed call was executed at most once, and its receipt names the event
\* of that very request and the memories it wrote (get_idempotent,
\* put_idempotent).
AtMostOnceOf(d) ==
    \A i, j \in DOMAIN d.events :
       /\ d.events[i].idem # None
       /\ Slot(d.events[i]) = Slot(d.events[j])
       => i = j
AtMostOnce == AtMostOnceOf(db)
ReceiptsTellTheTruthOf(d) ==
    /\ \A r \in d.receipts :
          /\ r.seq \in DOMAIN d.events
          /\ Slot(d.events[r.seq]) = r.slot
          /\ Fingerprint(d.events[r.seq]) = r.hash
          /\ r.written \subseteq {t[2] : t \in {u \in d.touched : u[1] = r.seq}}
    /\ \A i \in DOMAIN d.events :
          d.events[i].idem # None => \E r \in d.receipts : r.seq = i
ReceiptsTellTheTruth == ReceiptsTellTheTruthOf(db)

\* While clients name memories by canonical key only, a key names at most one
\* live head of a scope and kind (the canonical lookup of upsert_memory; the
\* index is not unique, schema.rs migrate_v3).
OneLiveHeadPerKeyOf(d) ==
    \A m, n \in Memory :
       /\ IsLive(d, m) /\ IsLive(d, n)
       /\ d.heads[m].key # None
       /\ d.heads[m].key = d.heads[n].key
       /\ d.heads[m].kind = d.heads[n].kind
       /\ d.heads[m].scope = d.heads[n].scope
       => m = n
OneLiveHeadPerKey == OneLiveHeadPerKeyOf(db)

\* A retracted memory stays retracted with its revisions, a superseded one is
\* only ever retracted: neither is revised again (upsert_memory, retract).
TerminalIsFinal ==
    [][\A m \in Memory : Exists(db, m) /\ ~IsLive(db, m) =>
          /\ db'.heads[m].state \in {db.heads[m].state, "retracted"}
          /\ db'.heads[m].rev = db.heads[m].rev
          /\ RevisionsOf(db', m) = RevisionsOf(db, m)]_vars

(***************************************************************************)
(* The store as a journal: entry i holds everything event i caused.        *)
(***************************************************************************)
Recorded(r) == [r EXCEPT !.retired = TRUE]
Effect(d, i) ==
    [hash |-> Fingerprint(d.events[i]),
     revisions |-> {Recorded(r) : r \in {x \in d.revisions : x.seq = i}},
     links |-> {l \in d.links : l.seq = i},
     touched |-> {t \in d.touched : t[1] = i},
     receipts |-> {r \in d.receipts : r.seq = i}]
JournalOf(d) == [i \in 1..Len(d.events) |->
                   [slot |-> Slot(d.events[i]), effect |-> Effect(d, i)]]
HasKey(slot) == slot.idem # None
J == INSTANCE Journal WITH log <- JournalOf(db), Keyed <- HasKey

\* Every execution of the store is one of the journal: calls are atomic,
\* executed at most once per key, and history is append-only.
ImplementsJournal == J!Spec
=============================================================================
