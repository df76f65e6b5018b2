--------------------------- MODULE AdaptersProofs ---------------------------
(***************************************************************************)
(* Proofs about the adapters between a harness and the store.  For the MCP *)
(* server (McpServer, on MemoryStore): every act of a call stays in the    *)
(* scope pinned at launch, no retry is a conflict with itself and no       *)
(* history leaves an event out.  For the command hooks (Hooks): what they  *)
(* record is what happened.  For the attempts of a session checkpoint      *)
(* (CheckpointAttempts): what is promoted is what was run.                 *)
(***************************************************************************)
EXTENDS MCAdapters, MemoryStoreProofs, FiniteSetTheorems

----------------------------------------------------------------------------
(***************************************************************************)
(* What a step of the store leaves to the calls of the server: where a     *)
(* memory lies, that it was retracted, the receipts, and what the events   *)
(* that have been recorded.                                                *)
(***************************************************************************)
Stays ==
    /\ \A m \in Memory : Exists(db, m) =>
          /\ Exists(db', m) /\ db'.heads[m].scope = db.heads[m].scope
          /\ db.heads[m].state = "retracted" => db'.heads[m].state = "retracted"
    /\ db.receipts \subseteq db'.receipts
    /\ \A r \in db'.receipts \ db.receipts : r.slot.op = "retract" =>
          \E call \in RetractCalls :
             Retract(call) /\ r.slot = Slot(call) /\ r.hash = Fingerprint(call)
    /\ Len(db.events) \in Nat /\ Len(db'.events) \in Nat
    /\ Len(db.events) <= Len(db'.events)
    /\ \A i \in 1..Len(db.events) :
          /\ db'.events[i] = db.events[i]
          /\ \A m \in Memory : \A r \in RevisionsOf(db', m) :
                r.seq = i => \E q \in RevisionsOf(db, m) : q.seq = i

LEMMA StoreStays ==
    ASSUME IInv, Life, TracedInv, StoreStep
    PROVE  IInv' /\ Life' /\ TracedInv' /\ Stays
<1>1. IInv' /\ KeepsTerminal(db, db') /\ Life' /\ (db' = db \/ Advances(db, db'))
  BY NextStep, LifeStep
<1>2. /\ TracedInv' /\ \E s : Moved(db, db', s)
      /\ db.receipts \subseteq db'.receipts
      /\ \A r \in db'.receipts \ db.receipts : r.slot.op = "retract" =>
            \E call \in RetractCalls :
               Retract(call) /\ r.slot = Slot(call) /\ r.hash = Fingerprint(call)
  BY MovesStep
<1>3. db \in Store /\ db' \in Store
  BY <1>1 DEF IInv, TypeOK
<1>4. ASSUME NEW m \in Memory, Exists(db, m)
      PROVE  /\ Exists(db', m) /\ db'.heads[m].scope = db.heads[m].scope
             /\ db.heads[m].state = "retracted" => db'.heads[m].state = "retracted"
  <2>1. Exists(db', m) /\ db'.heads[m].scope = db.heads[m].scope
    BY <1>2, <1>4 DEF Moved, Exists
  <2>2. db.heads[m].state = "retracted" => db'.heads[m].state = "retracted"
    BY <1>1, <1>4 DEF KeepsTerminal, IsLive, Live
  <2>3. QED BY <2>1, <2>2
<1>5. /\ Len(db.events) \in Nat /\ Len(db'.events) \in Nat
      /\ Len(db.events) <= Len(db'.events)
      /\ \A i \in 1..Len(db.events) : db'.events[i] = db.events[i]
  <2>1. db.events \in Seq(Request)
    BY <1>3 DEF Store
  <2>2. CASE db' = db
    BY <2>1, <2>2
  <2>3. CASE Advances(db, db')
    BY <2>1, <2>3 DEF Advances
  <2>4. QED BY <1>1, <2>2, <2>3
<1>6. ASSUME NEW i \in 1..Len(db.events), NEW m \in Memory,
             NEW r \in RevisionsOf(db', m), r.seq = i
      PROVE  \E q \in RevisionsOf(db, m) : q.seq = i
  <2>1. CASE db' = db
    BY <1>6, <2>1
  <2>2. CASE Advances(db, db')
    <3>1. Effect(db', i) = Effect(db, i)
      <4>1. i \in DOMAIN db.events
        BY <1>3, <1>6 DEF Store
      <4>2. QED BY <2>2, <4>1 DEF Advances
    <3>2. {Recorded(x) : x \in {y \in db'.revisions : y.seq = i}}
             = {Recorded(x) : x \in {y \in db.revisions : y.seq = i}}
      BY <3>1 DEF Effect
    <3>3. r \in db'.revisions /\ r.mem = m
      BY DEF RevisionsOf
    <3>4. Recorded(r) \in {Recorded(x) : x \in {y \in db.revisions : y.seq = i}}
      BY <1>6, <3>2, <3>3
    <3>5. PICK q \in db.revisions : q.seq = i /\ Recorded(q) = Recorded(r)
      BY <3>4
    <3>6. q \in RevisionRow /\ r \in RevisionRow
      BY <1>3, <3>3 DEF Store
    <3>7. q.mem = m
      BY <3>3, <3>5, <3>6, RecordedAlike DEF Alike
    <3>8. QED BY <3>5, <3>7 DEF RevisionsOf
  <2>3. QED BY <1>1, <2>1, <2>2
<1>7. QED BY <1>1, <1>2, <1>4, <1>5, <1>6 DEF Stays

(***************************************************************************)
(* The invariant of the server                                             *)
(***************************************************************************)
CallRow(H) ==
    [at: {"free", "asked", "look", "act", "writing", "answered"},
     tool: Tool \cup {None}, mem: Memory \cup {None}, idem: IdemKey \cup {None},
     found: Repository \cup {None}, answer: Answer \cup {None}, history: H]

\* A memory that recall shows the server, and one that it does not.
InPin(m) == /\ m \in Memory /\ Exists(db, m)
            /\ Recalled(Place[db.heads[m].scope], Pinned)
Aside(m) == /\ m \in Memory /\ Exists(db, m)
            /\ ~Recalled(Place[db.heads[m].scope], Pinned)

\* The request that conflicts was not carried out and never will be.
Conflicts(k) ==
    \E call \in RetractCalls :
       /\ k.history = Fingerprint(call) /\ k.idem = call.idem
       /\ Exists(db, call.id)
       /\ Receipts(db, call) # {} \/ db.heads[call.id].state = "retracted"
       /\ ~\E r \in db.receipts : /\ r.hash = k.history
                                  /\ r.slot.idem = k.idem /\ r.slot.op = "retract"
Concerns(i, m) ==
    \/ db.events[i].op = "retract" /\ db.events[i].id = m
    \/ \E l \in db.events[i].links : l.dst = m
    \/ \E r \in RevisionsOf(db, m) : r.seq = i
Complete(k) ==
    /\ k.mem \in Memory /\ k.history.length \in 0..Len(db.events)
    /\ \A i \in 1..k.history.length : Concerns(i, k.mem) => i \in k.history.events

Sound(k) ==
    /\ k.answer # None => k.at = "answered"
    /\ k.at \in {"look", "act", "writing"} => k.found = pin
    /\ k.at = "look" => k.mem # None
    /\ k.at = "writing" => k.tool = "checkpoint"
    /\ k.tool \in {"feedback", "inspect", "history", "retract"} => k.mem # None
    /\ k.at = "act" /\ k.mem # None => InPin(k.mem)
    /\ k.answer = "outside" => Aside(k.mem)
    /\ k.answer = "conflict" => Conflicts(k)
    /\ k.tool = "history" /\ k.answer = "done" => Complete(k)

StoreInv == IInv /\ Life /\ TracedInv
CallsInv ==
    /\ \E H : calls \in [Caller -> CallRow(H)]
    /\ \A c \in Caller : \A k : k = calls[c] => Sound(k)
ActsInv == \A a \in acts : InPin(a.mem) /\ a.found = pin
McpInv ==
    /\ StoreInv
    /\ root \in Repository \cup {None} /\ pin \in Repository \cup {None}
    /\ txn # None => Place[txn.call.scope] = Pinned
    /\ CallsInv
    /\ ActsInv

\* The check of the tools and the SQL of recall agree.
LEMMA BelongsIsRecalled ==
    ASSUME NEW memory, NEW current
    PROVE  Belongs(memory, current) <=> Recalled(memory, current)
BY DEF Belongs, Recalled

\* What is known of a call outlasts every step of the store.
LEMMA SoundStays ==
    ASSUME StoreInv, Stays, pin' = pin, NEW k, Sound(k)
    PROVE  Sound(k)'
<1>1. \A m : InPin(m) => InPin(m)'
  BY DEF Stays, InPin, Pinned
<1>2. \A m : Aside(m) => Aside(m)'
  BY DEF Stays, Aside, Pinned
<1>3. Conflicts(k) => Conflicts(k)'
  <2> SUFFICES ASSUME Conflicts(k) PROVE Conflicts(k)'
    OBVIOUS
  <2>1. PICK call \in RetractCalls :
           /\ k.history = Fingerprint(call) /\ k.idem = call.idem
           /\ Exists(db, call.id)
           /\ Receipts(db, call) # {} \/ db.heads[call.id].state = "retracted"
           /\ ~\E r \in db.receipts : /\ r.hash = k.history
                                      /\ r.slot.idem = k.idem /\ r.slot.op = "retract"
    BY DEF Conflicts
  <2>2. call.id \in Memory
    BY DEF RetractCalls
  <2>3. Exists(db', call.id)
        /\ (db.heads[call.id].state = "retracted" => db'.heads[call.id].state = "retracted")
    BY <2>1, <2>2 DEF Stays
  <2>4. Receipts(db, call) # {} => Receipts(db', call) # {}
    BY DEF Stays, Receipts
  <2>5. ASSUME NEW r \in db'.receipts, r.hash = k.history, r.slot.idem = k.idem,
               r.slot.op = "retract"
        PROVE  FALSE
    <3>1. r \notin db.receipts
      BY <2>1, <2>5
    <3>2. PICK again \in RetractCalls :
             Retract(again) /\ r.slot = Slot(again) /\ r.hash = Fingerprint(again)
      BY <2>5, <3>1 DEF Stays
    <3>3. again.id = call.id /\ again.op = "retract" /\ call.op = "retract"
      <4>1. again.id = Fingerprint(again).id /\ call.id = Fingerprint(call).id
        BY DEF RetractCalls, Fingerprint
      <4>2. Fingerprint(again) = Fingerprint(call)
        BY <2>1, <2>5, <3>2
      <4>3. again.op = "retract" /\ call.op = "retract"
        BY DEF RetractCalls
      <4>4. QED BY <4>1, <4>2, <4>3
    <3>4. again.idem = call.idem
      BY <2>1, <2>5, <3>2 DEF Slot
    <3>5. Slot(again) = Slot(call)
      BY <3>3, <3>4 DEF Slot
    <3>6. Receipts(db, again) = Receipts(db, call)
      BY <3>4, <3>5 DEF Receipts
    <3>7. Receipts(db, again) = {} /\ db.heads[again.id].state # "retracted"
      BY <3>2 DEF Retract, MayExecute, Unseen
    <3>8. QED BY <2>1, <3>3, <3>6, <3>7
  <2>6. QED BY <2>1, <2>3, <2>4, <2>5 DEF Conflicts
<1>4. Complete(k) => Complete(k)'
  <2> SUFFICES ASSUME Complete(k) PROVE Complete(k)'
    OBVIOUS
  <2>1. k.mem \in Memory /\ k.history.length \in 0..Len(db.events)
    BY DEF Complete
  <2>2. k.history.length \in 0..Len(db'.events)
    BY <2>1 DEF Stays
  <2>3. ASSUME NEW i \in 1..k.history.length, Concerns(i, k.mem)'
        PROVE  i \in k.history.events
    <3>1. i \in 1..Len(db.events)
      BY <2>1 DEF Stays
    <3>2. Concerns(i, k.mem)
      BY <2>1, <2>3, <3>1 DEF Concerns, Stays
    <3>3. QED BY <3>2 DEF Complete
  <2>4. QED BY <2>1, <2>2, <2>3 DEF Complete
<1>5. QED BY <1>1, <1>2, <1>3, <1>4 DEF Sound

(***************************************************************************)
(* A step of one call, or of none                                          *)
(***************************************************************************)

\* What an operation of the store found of new acts, and what it keeps.
LEMMA ActsStay ==
    ASSUME McpInv, StoreStep, Stays, UNCHANGED pin,
           \A a \in acts' \ acts : InPin(a.mem)' /\ a.found = pin
    PROVE  ActsInv'
<1>1. \A m : InPin(m) => InPin(m)'
  BY DEF Stays, InPin, Pinned
<1>2. ASSUME NEW a \in acts' PROVE InPin(a.mem)' /\ a.found = pin
  <2>1. CASE a \in acts
    BY <1>1, <2>1 DEF McpInv, ActsInv
  <2>2. QED BY <2>1
<1>3. QED BY <1>2 DEF ActsInv

LEMMA CallStep ==
    ASSUME McpInv, StoreStep, UNCHANGED pin, root' \in Repository \cup {None},
           (txn # None => Place[txn.call.scope] = Pinned)',
           NEW c \in Caller, NEW k, Sound(k),
           NEW H, calls' \in [Caller -> CallRow(H)],
           calls'[c] = k, \A d \in Caller \ {c} : calls'[d] = calls[d],
           Stays => \A a \in acts' \ acts : InPin(a.mem)' /\ a.found = pin
    PROVE  McpInv'
<1>1. StoreInv' /\ Stays
  BY StoreStays DEF McpInv, StoreInv
<1>2. ActsInv'
  BY <1>1, ActsStay
<1>3. ASSUME NEW d \in Caller, NEW j, j = calls'[d] PROVE Sound(j)'
  <2>1. Sound(j)
    BY <1>3 DEF McpInv, CallsInv
  <2>2. QED BY <1>1, <2>1, SoundStays DEF McpInv
<1>4. CallsInv'
  BY <1>3 DEF CallsInv
<1>5. QED BY <1>1, <1>2, <1>4 DEF McpInv

\* A step of the store that concerns no call.
LEMMA WorldStep ==
    ASSUME McpInv, StoreStep, UNCHANGED <<pin, calls, acts>>, root' \in Repository \cup {None},
           (txn # None => Place[txn.call.scope] = Pinned)'
    PROVE  McpInv'
<1>1. StoreInv' /\ Stays
  BY StoreStays DEF McpInv, StoreInv
<1>2. ActsInv'
  BY <1>1, ActsStay
<1>3. ASSUME NEW d \in Caller, NEW j, j = calls'[d] PROVE Sound(j)'
  <2>1. Sound(j)
    BY <1>3 DEF McpInv, CallsInv
  <2>2. QED BY <1>1, <2>1, SoundStays DEF McpInv
<1>4. CallsInv'
  BY <1>3 DEF McpInv, CallsInv
<1>5. QED BY <1>1, <1>2, <1>4 DEF McpInv

\* The row of a call whose answer is there.
LEMMA AnswerRow ==
    ASSUME NEW H, calls \in [Caller -> CallRow(H)], NEW c \in Caller, NEW answer \in Answer
    PROVE  /\ Answered(c, answer) \in [Caller -> CallRow(H)]
           /\ \A d \in Caller \ {c} : Answered(c, answer)[d] = calls[d]
           /\ Answered(c, answer)[c] =
                 [calls[c] EXCEPT !.at = "answered", !.answer = answer]
<1>1. calls[c] \in CallRow(H)
  OBVIOUS
<1>2. [calls[c] EXCEPT !.at = "answered", !.answer = answer] \in CallRow(H)
  BY <1>1 DEF CallRow
<1>3. QED BY <1>2 DEF Answered

LEMMA AnswerFields ==
    ASSUME NEW H, NEW k \in CallRow(H), NEW answer
    PROVE  LET a == [k EXCEPT !.at = "answered", !.answer = answer] IN
           /\ a.at = "answered" /\ a.answer = answer /\ a.tool = k.tool /\ a.mem = k.mem
           /\ a.idem = k.idem /\ a.found = k.found /\ a.history = k.history
BY DEF CallRow

\* An answer that claims nothing.
LEMMA AnswerStep ==
    ASSUME McpAssumption, McpInv, StoreStep, UNCHANGED <<root, pin>>,
           (txn # None => Place[txn.call.scope] = Pinned)', NEW c \in Caller,
           NEW answer \in {"done", "identity", "not_found", "error"},
           answer = "done" => calls[c].tool # "history",
           calls' = Answered(c, answer),
           Stays => \A a \in acts' \ acts : InPin(a.mem)' /\ a.found = pin
    PROVE  McpInv'
<1> DEFINE k == [calls[c] EXCEPT !.at = "answered", !.answer = answer]
<1>1. PICK H : calls \in [Caller -> CallRow(H)]
  BY DEF McpInv, CallsInv
<1>2. calls[c] \in CallRow(H) /\ Sound(calls[c]) /\ answer \in Answer
  BY <1>1 DEF McpInv, CallsInv, Answer
<1>3. /\ k.at = "answered" /\ k.answer = answer /\ k.tool = calls[c].tool
      /\ k.mem = calls[c].mem
  BY <1>2, AnswerFields
<1>4. /\ calls' \in [Caller -> CallRow(H)] /\ calls'[c] = k
      /\ \A d \in Caller \ {c} : calls'[d] = calls[d]
  <2>1. /\ Answered(c, answer) \in [Caller -> CallRow(H)]
        /\ \A d \in Caller \ {c} : Answered(c, answer)[d] = calls[d]
        /\ Answered(c, answer)[c] = k
    BY <1>1, <1>2, AnswerRow
  <2> HIDE DEF k
  <2>2. QED BY <2>1
<1> HIDE DEF k
<1>5. Sound(k)
  BY <1>2, <1>3 DEF Sound
<1>6. \A j : j = k => Sound(j)
  BY <1>5
<1>7. root' \in Repository \cup {None}
  BY DEF McpInv
<1>8. ASSUME NEW j, j = k PROVE McpInv'
  BY <1>4, <1>6, <1>7, <1>8, CallStep
<1>9. QED BY <1>8

LEMMA PinRecallsItself == Recalled(Pinned, Pinned)
BY DEF Recalled

\* The memories a write of the pinned scope changed.
LEMMA WroteInPin ==
    ASSUME NEW c, NEW s, Moved(db, db', s), Place[s] = Pinned, pin' = pin,
           calls[c].found = pin, Wrote(c)
    PROVE  \A a \in acts' \ acts : InPin(a.mem)' /\ a.found = pin
<1> SUFFICES ASSUME NEW a \in acts', a \notin acts PROVE InPin(a.mem)' /\ a.found = pin
  OBVIOUS
<1>1. PICK m \in Memory : /\ db'.heads[m] # db.heads[m]
                          /\ a = [tool |-> calls[c].tool, mem |-> m, found |-> calls[c].found]
  BY DEF Wrote
<1>2. a.mem = m /\ a.found = pin
  BY <1>1
<1>3. Exists(db', m) /\ db'.heads[m].scope = s
  BY <1>1 DEF Moved
<1>4. Recalled(Place[db'.heads[m].scope], Pinned)
  BY <1>3, PinRecallsItself
<1>5. QED BY <1>2, <1>3, <1>4 DEF InPin, Pinned

LEMMA SameStore ==
    ASSUME McpInv, UNCHANGED <<db, txn, pin>>
    PROVE  StoreStep /\ (txn # None => Place[txn.call.scope] = Pinned)'
BY DEF StoreStep, vars, McpInv, Pinned

LEMMA AskStep ==
    ASSUME McpAssumption, ToolsAssumption, McpInv, NEW c \in Caller, NEW t \in Tools,
           NEW m \in Memory \cup {None}, NEW i \in IdemKey \cup {None}, Ask(c, t, m, i)
    PROVE  McpInv'
<1> DEFINE k == [Free EXCEPT !.at = "asked", !.tool = t, !.mem = m, !.idem = i]
<1>1. PICK H : calls \in [Caller -> CallRow(H)]
  BY DEF McpInv, CallsInv
<1>2. calls' = [calls EXCEPT ![c] = k]
  BY DEF Ask
<1>3. k \in CallRow(H \cup {None}) /\ CallRow(H) \subseteq CallRow(H \cup {None})
  <2>1. Free \in CallRow(H \cup {None})
    BY DEF Free, CallRow
  <2>2. QED BY <2>1 DEF CallRow, ToolsAssumption
<1>4. /\ k.at = "asked" /\ k.tool = t /\ k.mem = m /\ k.answer = None
      /\ m = None <=> t \in Writer \cup {"context"}
  BY DEF Ask, Free
<1> HIDE DEF k
<1>5. /\ calls' \in [Caller -> CallRow(H \cup {None})] /\ calls'[c] = k
      /\ \A d \in Caller \ {c} : calls'[d] = calls[d]
  BY <1>1, <1>2, <1>3
<1>6. Sound(k)
  BY <1>4 DEF Sound, McpAssumption, Answer, Writer
<1>7. /\ StoreStep /\ (txn # None => Place[txn.call.scope] = Pinned)'
      /\ UNCHANGED <<pin, root, acts>>
  BY SameStore DEF Ask
<1>8. root' \in Repository \cup {None}
  BY <1>7 DEF McpInv
<1>9. ASSUME NEW j, j = k PROVE McpInv'
  BY <1>5, <1>6, <1>7, <1>8, <1>9, CallStep
<1>10. QED BY <1>9

LEMMA RediscoverStep ==
    ASSUME McpAssumption, McpInv, NEW c \in Caller, Rediscover(c)
    PROVE  McpInv'
<1> DEFINE n == IF calls[c].mem = None THEN "act" ELSE "look"
           k == [calls[c] EXCEPT !.at = n, !.found = root]
<1>1. /\ StoreStep /\ (txn # None => Place[txn.call.scope] = Pinned)'
      /\ UNCHANGED <<pin, root, acts>> /\ root' \in Repository \cup {None}
  BY SameStore DEF Rediscover, McpInv
<1>2. CASE Verified(root)
  <2>1. PICK H : calls \in [Caller -> CallRow(H)]
    BY DEF McpInv, CallsInv
  <2>2. calls' = [calls EXCEPT ![c].at = n, ![c].found = root] /\ calls[c].at = "asked"
    BY <1>2 DEF Rediscover
  <2>3. calls[c] \in CallRow(H) /\ Sound(calls[c])
    BY <2>1 DEF McpInv, CallsInv
  <2>4. n \in {"act", "look"} /\ (n = "act" <=> calls[c].mem = None)
    OBVIOUS
  <2> HIDE DEF n
  <2>5. /\ k \in CallRow(H) /\ k.at = n /\ k.tool = calls[c].tool /\ k.mem = calls[c].mem
        /\ k.found = root /\ k.answer = calls[c].answer
    BY <2>3, <2>4 DEF CallRow, McpInv
  <2>6. /\ calls' \in [Caller -> CallRow(H)] /\ calls'[c] = k
        /\ \A d \in Caller \ {c} : calls'[d] = calls[d]
    BY <2>1, <2>2, <2>5
  <2> HIDE DEF k
  <2>7. Sound(k)
    <3>1. k.answer = None
      BY <2>2, <2>3, <2>5 DEF Sound
    <3>2. QED BY <1>2, <2>2, <2>3, <2>4, <2>5, <3>1 DEF Sound, Verified, McpAssumption, Answer
  <2>8. ASSUME NEW j, j = k PROVE McpInv'
    BY <1>1, <2>6, <2>7, <2>8, CallStep
  <2>9. QED BY <2>8
<1>3. CASE ~Verified(root)
  <2>1. calls' = Answered(c, "identity")
    BY <1>3 DEF Rediscover
  <2>2. QED BY <1>1, <2>1, AnswerStep
<1>4. QED BY <1>2, <1>3

LEMMA LookStep ==
    ASSUME McpAssumption, McpInv, NEW c \in Caller, Look(c)
    PROVE  McpInv'
<1> DEFINE m == calls[c].mem
           Found == Place[db.heads[m].scope]
<1>1. /\ StoreStep /\ (txn # None => Place[txn.call.scope] = Pinned)'
      /\ UNCHANGED <<pin, root, acts>> /\ root' \in Repository \cup {None}
  BY SameStore DEF Look, McpInv
<1>2. PICK H : calls \in [Caller -> CallRow(H)]
  BY DEF McpInv, CallsInv
<1>3. calls[c] \in CallRow(H) /\ Sound(calls[c]) /\ calls[c].at = "look"
  BY <1>2 DEF McpInv, CallsInv, Look
<1>4. m \in Memory /\ calls[c].found = pin
  BY <1>3 DEF CallRow, Sound
<1>5. Belongs(Found, ScopeOf(calls[c].found)) <=> Recalled(Found, Pinned)
  BY <1>4, BelongsIsRecalled DEF Pinned
<1> HIDE DEF m, Found
<1>6. CASE ~Exists(db, m)
  <2>1. calls' = Answered(c, "not_found")
    BY <1>6 DEF Look, m
  <2>2. QED BY <1>1, <2>1, AnswerStep
<1>7. CASE Exists(db, m) /\ ~Recalled(Found, Pinned)
  <2> DEFINE k == [calls[c] EXCEPT !.at = "answered", !.answer = "outside"]
  <2>1. calls' = Answered(c, "outside") /\ "outside" \in Answer
    BY <1>5, <1>7 DEF Look, m, Found, Answer
  <2>2. /\ k.at = "answered" /\ k.answer = "outside" /\ k.tool = calls[c].tool
        /\ k.mem = m
    BY <1>3, AnswerFields DEF m
  <2>3. /\ calls' \in [Caller -> CallRow(H)] /\ calls'[c] = k
        /\ \A d \in Caller \ {c} : calls'[d] = calls[d]
    <3>1. /\ Answered(c, "outside") \in [Caller -> CallRow(H)]
          /\ \A d \in Caller \ {c} : Answered(c, "outside")[d] = calls[d]
          /\ Answered(c, "outside")[c] = k
      BY <1>2, <2>1, AnswerRow
    <3> HIDE DEF k
    <3>2. QED BY <2>1, <3>1
  <2> HIDE DEF k
  <2>4. Aside(m)
    BY <1>4, <1>7 DEF Aside, Found
  <2>5. Sound(k)
    BY <1>3, <2>2, <2>4 DEF Sound, m
  <2>6. ASSUME NEW j, j = k PROVE McpInv'
    BY <1>1, <2>3, <2>5, <2>6, CallStep
  <2>7. QED BY <2>6
<1>8. CASE Exists(db, m) /\ Recalled(Found, Pinned) /\ calls[c].tool = "inspect"
  <2>1. calls' = Answered(c, "done")
    BY <1>5, <1>8 DEF Look, m, Found
  <2>2. QED BY <1>1, <1>8, <2>1, AnswerStep
<1>9. CASE Exists(db, m) /\ Recalled(Found, Pinned) /\ calls[c].tool # "inspect"
  <2> DEFINE k == [calls[c] EXCEPT !.at = "act"]
  <2>1. calls' = [calls EXCEPT ![c].at = "act"]
    BY <1>5, <1>9 DEF Look, m, Found
  <2>2. /\ k \in CallRow(H) /\ k.at = "act" /\ k.tool = calls[c].tool /\ k.mem = m
        /\ k.found = pin /\ k.answer = calls[c].answer
    BY <1>3, <1>4 DEF CallRow, m
  <2>3. /\ calls' \in [Caller -> CallRow(H)] /\ calls'[c] = k
        /\ \A d \in Caller \ {c} : calls'[d] = calls[d]
    BY <1>2, <2>1, <2>2
  <2> HIDE DEF k
  <2>4. InPin(m)
    BY <1>4, <1>9 DEF InPin, Found
  <2>5. k.answer = None
    BY <1>3, <2>2 DEF Sound
  <2>6. Sound(k)
    BY <1>3, <2>2, <2>4, <2>5 DEF Sound, m, McpAssumption, Answer
  <2>7. ASSUME NEW j, j = k PROVE McpInv'
    BY <1>1, <2>3, <2>6, <2>7, CallStep
  <2>8. QED BY <2>7
<1>10. QED BY <1>6, <1>7, <1>8, <1>9

\* What a call that acts has found.
LEMMA Acting ==
    ASSUME McpInv, NEW c \in Caller, calls[c].at \in {"act", "writing"}
    PROVE  calls[c].found = pin /\ ScopeOf(calls[c].found) = Pinned
BY DEF McpInv, CallsInv, Sound, Pinned

LEMMA ContextStep ==
    ASSUME McpAssumption, McpInv, NEW c \in Caller, Context_(c)
    PROVE  McpInv'
<1>1. /\ StoreStep /\ (txn # None => Place[txn.call.scope] = Pinned)'
      /\ UNCHANGED <<pin, root, db>> /\ calls' = Answered(c, "done")
      /\ calls[c].tool # "history"
  BY SameStore DEF Context_
<1>2. calls[c].found = pin /\ ScopeOf(calls[c].found) = Pinned
  BY Acting DEF Context_
<1>3. ASSUME NEW a \in acts' \ acts PROVE InPin(a.mem)' /\ a.found = pin
  <2>1. PICK m \in Memory :
           /\ IsLive(db, m) /\ Recalled(Place[db.heads[m].scope], Pinned)
           /\ a = [tool |-> "context", mem |-> m, found |-> calls[c].found]
    BY <1>2, <1>3 DEF Context_
  <2>2. a.mem = m /\ a.found = pin
    BY <1>2, <2>1
  <2>3. InPin(m)
    BY <2>1 DEF InPin, IsLive
  <2>4. InPin(m)'
    BY <1>1, <2>3 DEF InPin, Pinned
  <2>5. QED BY <2>2, <2>4
<1>4. QED BY <1>1, <1>3, AnswerStep

LEMMA RecordStep ==
    ASSUME McpAssumption, McpInv, NEW c \in Caller, Record(c)
    PROVE  McpInv'
<1>1. PICK call \in RememberCalls :
         /\ InFoundScope(c, call)
         /\ (Remember(call) /\ Wrote(c)) \/ (Deduplicate(call) /\ UNCHANGED acts)
  BY DEF Record
<1>2. /\ UNCHANGED <<pin, root>> /\ calls' = Answered(c, "done") /\ calls[c].tool # "history"
      /\ calls[c].at = "act"
  BY DEF Record
<1>3. calls[c].found = pin /\ Place[call.scope] = Pinned
  BY <1>1, <1>2, Acting DEF InFoundScope
<1>4. CASE Remember(call) /\ Wrote(c)
  <2>1. StoreStep /\ txn' = None
    BY <1>4 DEF StoreStep, Remember, MayExecute
  <2>2. Moved(db, db', call.scope)
    BY <1>4, RememberMoves DEF McpInv, StoreInv
  <2>3. \A a \in acts' \ acts : InPin(a.mem)' /\ a.found = pin
    BY <1>2, <1>3, <1>4, <2>2, WroteInPin
  <2>4. QED BY <1>2, <2>1, <2>3, AnswerStep
<1>5. CASE Deduplicate(call) /\ UNCHANGED acts
  <2>1. StoreStep /\ (txn # None => Place[txn.call.scope] = Pinned)'
    BY <1>2, <1>5, SameStore DEF Deduplicate, vars
  <2>2. QED BY <1>2, <1>5, <2>1, AnswerStep
<1>6. QED BY <1>1, <1>4, <1>5

LEMMA ObservationStep ==
    ASSUME McpAssumption, McpInv, NEW c \in Caller, Observation(c)
    PROVE  McpInv'
<1>1. PICK call \in ObserveCalls : Observe(call) \/ Deduplicate(call)
  BY DEF Observation
<1>2. /\ UNCHANGED <<pin, root, acts>> /\ calls' = Answered(c, "done")
      /\ calls[c].tool # "history"
  BY DEF Observation
<1>3. CASE Observe(call)
  <2>1. StoreStep /\ txn' = None
    BY <1>3 DEF StoreStep, Observe, MayExecute
  <2>2. QED BY <1>2, <2>1, AnswerStep
<1>4. CASE Deduplicate(call)
  <2>1. StoreStep /\ (txn # None => Place[txn.call.scope] = Pinned)'
    BY <1>2, <1>4, SameStore DEF Deduplicate, vars
  <2>2. QED BY <1>2, <2>1, AnswerStep
<1>5. QED BY <1>1, <1>3, <1>4

\* A call goes on.
LEMMA MoveStep ==
    ASSUME McpAssumption, McpInv, StoreStep, UNCHANGED <<root, pin, acts>>,
           (txn # None => Place[txn.call.scope] = Pinned)', NEW c \in Caller,
           calls[c].at = "act", calls[c].tool = "checkpoint",
           calls' = [calls EXCEPT ![c].at = "writing"]
    PROVE  McpInv'
<1> DEFINE k == [calls[c] EXCEPT !.at = "writing"]
<1>1. PICK H : calls \in [Caller -> CallRow(H)]
  BY DEF McpInv, CallsInv
<1>2. calls[c] \in CallRow(H) /\ Sound(calls[c])
  BY <1>1 DEF McpInv, CallsInv
<1>3. /\ k \in CallRow(H) /\ k.at = "writing" /\ k.tool = calls[c].tool
      /\ k.mem = calls[c].mem /\ k.found = calls[c].found /\ k.answer = calls[c].answer
  BY <1>2 DEF CallRow
<1>4. /\ calls' \in [Caller -> CallRow(H)] /\ calls'[c] = k
      /\ \A d \in Caller \ {c} : calls'[d] = calls[d]
  BY <1>1, <1>3
<1> HIDE DEF k
<1>5. k.answer = None
  BY <1>2, <1>3 DEF Sound
<1>6. Sound(k)
  BY <1>2, <1>3, <1>5 DEF Sound, McpAssumption, Answer
<1>7. root' \in Repository \cup {None}
  BY DEF McpInv
<1>8. ASSUME NEW j, j = k PROVE McpInv'
  BY <1>4, <1>6, <1>7, <1>8, CallStep
<1>9. QED BY <1>8

LEMMA CheckpointStep ==
    ASSUME McpAssumption, McpInv, NEW c \in Caller, Checkpoint(c)
    PROVE  McpInv'
<1>1. PICK call \in CheckpointCalls :
         /\ InFoundScope(c, call)
         /\ \/ BeginCheckpoint(call) /\ calls' = [calls EXCEPT ![c].at = "writing"]
            \/ Deduplicate(call) /\ calls' = Answered(c, "done")
  BY DEF Checkpoint
<1>2. /\ UNCHANGED <<pin, root, acts>> /\ calls[c].tool = "checkpoint" /\ calls[c].at = "act"
  BY DEF Checkpoint
<1>3. Place[call.scope] = Pinned
  BY <1>1, <1>2, Acting DEF InFoundScope
<1>4. CASE BeginCheckpoint(call) /\ calls' = [calls EXCEPT ![c].at = "writing"]
  <2>1. StoreStep /\ txn'.call = call
    BY <1>4, BeginCheckpointMoves DEF StoreStep, McpInv, StoreInv
  <2>2. (txn # None => Place[txn.call.scope] = Pinned)'
    BY <1>2, <1>3, <2>1 DEF Pinned
  <2>3. QED BY <1>2, <1>4, <2>1, <2>2, MoveStep
<1>5. CASE Deduplicate(call) /\ calls' = Answered(c, "done")
  <2>1. StoreStep /\ (txn # None => Place[txn.call.scope] = Pinned)'
    BY <1>2, <1>5, SameStore DEF Deduplicate, vars
  <2>2. QED BY <1>2, <1>5, <2>1, AnswerStep
<1>6. QED BY <1>1, <1>4, <1>5

LEMMA WritingStep ==
    ASSUME McpAssumption, McpInv, NEW c \in Caller, Writing(c)
    PROVE  McpInv'
<1>1. UNCHANGED <<pin, root>> /\ calls[c].at = "writing"
  BY DEF Writing
<1>2. calls[c].found = pin
  BY <1>1, Acting
<1>3. CASE WriteChild /\ UNCHANGED <<calls, acts>>
  <2>1. StoreStep /\ txn # None /\ txn'.call = txn.call
    BY <1>3, WriteChildMoves DEF StoreStep, McpInv, StoreInv, WriteChild
  <2>2. (txn # None => Place[txn.call.scope] = Pinned)'
    BY <1>1, <2>1 DEF McpInv, Pinned
  <2>3. root' \in Repository \cup {None}
    BY <1>1 DEF McpInv
  <2>4. QED BY <1>1, <1>3, <2>1, <2>2, <2>3, WorldStep
<1>4. CASE CommitCheckpoint /\ Wrote(c) /\ calls' = Answered(c, "done")
  <2>1. /\ StoreStep /\ txn' = None /\ Place[txn.call.scope] = Pinned
        /\ Moved(db, db', txn.call.scope)
    BY <1>4, CommitMoves DEF StoreStep, McpInv, StoreInv, CommitCheckpoint
  <2>2. ASSUME NEW s, s = txn.call.scope
        PROVE  \A a \in acts' \ acts : InPin(a.mem)' /\ a.found = pin
    BY <1>1, <1>2, <1>4, <2>1, <2>2, WroteInPin
  <2>3. calls[c].tool # "history"
    BY <1>1 DEF McpInv, CallsInv, Sound
  <2>4. QED BY <1>1, <1>4, <2>1, <2>2, <2>3, AnswerStep
<1>5. CASE Rollback /\ calls' = Answered(c, "error") /\ UNCHANGED acts
  <2>1. StoreStep /\ txn' = None
    BY <1>5 DEF StoreStep, Rollback
  <2>2. QED BY <1>1, <1>5, <2>1, AnswerStep
<1>6. QED BY <1>3, <1>4, <1>5 DEF Writing

LEMMA FailStep ==
    ASSUME McpAssumption, McpInv, NEW c \in Caller, Fail(c)
    PROVE  McpInv'
<1>1. /\ StoreStep /\ (txn # None => Place[txn.call.scope] = Pinned)'
      /\ UNCHANGED <<pin, root, acts>> /\ calls' = Answered(c, "error")
  BY SameStore DEF Fail
<1>2. QED BY <1>1, AnswerStep

\* The act of a tool on the memory it was checked for.
LEMMA DidInPin ==
    ASSUME McpAssumption, McpInv, Stays, pin' = pin, NEW c \in Caller, calls[c].at = "act",
           calls[c].tool \in {"feedback", "history", "retract"}, Did(c, calls[c].mem)
    PROVE  \A a \in acts' \ acts : InPin(a.mem)' /\ a.found = pin
<1>1. InPin(calls[c].mem) /\ calls[c].found = pin
  BY DEF McpInv, CallsInv, Sound
<1>2. \A m : InPin(m) => InPin(m)'
  BY DEF Stays, InPin, Pinned
<1> SUFFICES ASSUME NEW a \in acts', a \notin acts PROVE InPin(a.mem)' /\ a.found = pin
  OBVIOUS
<1>3. a.mem = calls[c].mem /\ a.found = pin
  BY <1>1 DEF Did
<1>4. ASSUME NEW m, m = calls[c].mem PROVE InPin(m)'
  BY <1>1, <1>2, <1>4
<1>5. QED BY <1>3, <1>4

LEMMA FeedbackStep ==
    ASSUME McpAssumption, McpInv, NEW c \in Caller, Feedback(c)
    PROVE  McpInv'
<1>1. /\ StoreStep /\ (txn # None => Place[txn.call.scope] = Pinned)'
      /\ UNCHANGED <<pin, root>> /\ calls' = Answered(c, "done")
      /\ calls[c].tool = "feedback" /\ calls[c].at = "act" /\ Did(c, calls[c].mem)
  BY SameStore DEF Feedback
<1>2. Stays => \A a \in acts' \ acts : InPin(a.mem)' /\ a.found = pin
  BY <1>1, DidInPin
<1>3. QED BY <1>1, <1>2, AnswerStep

\* The row of a call whose answer carries something.
LEMMA LoadedRow ==
    ASSUME NEW H, calls \in [Caller -> CallRow(H)], NEW c \in Caller, NEW answer \in Answer,
           NEW h, calls' = [Answered(c, answer) EXCEPT ![c].history = h]
    PROVE  /\ \E G : calls' \in [Caller -> CallRow(G)]
           /\ \A d \in Caller \ {c} : calls'[d] = calls[d]
           /\ calls'[c].at = "answered" /\ calls'[c].answer = answer
           /\ calls'[c].tool = calls[c].tool /\ calls'[c].mem = calls[c].mem
           /\ calls'[c].idem = calls[c].idem /\ calls'[c].history = h
<1> DEFINE f == Answered(c, answer)
           k == [calls[c] EXCEPT !.at = "answered", !.answer = answer]
<1>1. f \in [Caller -> CallRow(H)] /\ f[c] = k /\ \A d \in Caller \ {c} : f[d] = calls[d]
  BY AnswerRow
<1>2. /\ k.at = "answered" /\ k.answer = answer /\ k.tool = calls[c].tool
      /\ k.mem = calls[c].mem /\ k.idem = calls[c].idem
  BY AnswerFields
<1>3. calls' = [f EXCEPT ![c].history = h]
  OBVIOUS
<1> HIDE DEF f, k
<1>4. CallRow(H) \subseteq CallRow(H \cup {h})
  BY DEF CallRow
<1>5. f \in [Caller -> CallRow(H \cup {h})] /\ f[c] \in CallRow(H \cup {h})
  BY <1>1, <1>4
<1>6. /\ [f[c] EXCEPT !.history = h] \in CallRow(H \cup {h})
      /\ [f[c] EXCEPT !.history = h].history = h
      /\ [f[c] EXCEPT !.history = h].at = f[c].at
      /\ [f[c] EXCEPT !.history = h].answer = f[c].answer
      /\ [f[c] EXCEPT !.history = h].tool = f[c].tool
      /\ [f[c] EXCEPT !.history = h].mem = f[c].mem
      /\ [f[c] EXCEPT !.history = h].idem = f[c].idem
  BY <1>5 DEF CallRow
<1>7. calls'[c] = [f[c] EXCEPT !.history = h] /\ \A d \in Caller \ {c} : calls'[d] = f[d]
  BY <1>3, <1>5
<1>8. calls' \in [Caller -> CallRow(H \cup {h})]
  BY <1>3, <1>5, <1>6
<1>9. QED BY <1>1, <1>2, <1>6, <1>7, <1>8

\* What engine.history reads of a memory leaves nothing out.
LEMMA HistoryComplete ==
    ASSUME StoreInv, NEW m \in Memory, NEW i \in 1..Len(db.events), Concerns(i, m)
    PROVE  i \in HistoryOf(db, m).events
<1>1. db.events \in Seq(Request) /\ Traced(db) /\ EveryChangeHasEventOf(db)
  BY DEF StoreInv, IInv, TypeOK, Store, TracedInv, Life, Explained
<1>2. i \in DOMAIN db.events
  BY <1>1
<1>3. HistoryOf(db, m).events =
         (UNION {r.evidence : r \in RevisionsOf(db, m)})
            \cup {j \in 1..Len(db.events) : <<j, m>> \in db.touched}
            \cup {l.seq : l \in {k \in db.links : m \in {k.src, k.dst}}}
  BY DEF HistoryOf
<1>4. CASE <<i, m>> \in db.touched
  BY <1>3, <1>4
<1>5. CASE db.events[i].op = "retract" /\ db.events[i].id = m
  BY <1>1, <1>2, <1>4, <1>5 DEF Traced
<1>6. CASE \E l \in db.events[i].links : l.dst = m
  BY <1>1, <1>2, <1>4, <1>6 DEF Traced
<1>7. CASE \E r \in RevisionsOf(db, m) : r.seq = i
  <2>1. PICK r \in RevisionsOf(db, m) : r.seq = i
    BY <1>7
  <2>2. i \in r.evidence
    BY <1>1, <2>1 DEF EveryChangeHasEventOf, RevisionsOf
  <2>3. QED BY <1>3, <2>1, <2>2
<1>8. QED BY <1>5, <1>6, <1>7 DEF Concerns

LEMMA HistoryStep ==
    ASSUME McpAssumption, McpInv, NEW c \in Caller, History(c)
    PROVE  McpInv'
<1> DEFINE h == HistoryOf(db, calls[c].mem)
<1>1. /\ StoreStep /\ (txn # None => Place[txn.call.scope] = Pinned)'
      /\ UNCHANGED <<pin, root>> /\ root' \in Repository \cup {None}
      /\ calls' = [Answered(c, "done") EXCEPT ![c].history = h]
      /\ calls[c].tool = "history" /\ calls[c].at = "act" /\ Did(c, calls[c].mem)
  BY SameStore DEF History, McpInv
<1>2. PICK H : calls \in [Caller -> CallRow(H)]
  BY DEF McpInv, CallsInv
<1>3. /\ calls[c].mem \in Memory /\ "done" \in Answer
  <2>1. calls[c] \in CallRow(H) /\ calls[c].mem # None
    BY <1>1, <1>2 DEF McpInv, CallsInv, Sound
  <2>2. QED BY <2>1 DEF CallRow, Answer
<1>4. h.length = Len(db.events) /\ Len(db.events) \in Nat
  BY DEF HistoryOf, McpInv, StoreInv, IInv, TypeOK, Store
<1>5. \A i \in 1..h.length : Concerns(i, calls[c].mem) => i \in h.events
  BY <1>3, <1>4, HistoryComplete DEF McpInv
<1> HIDE DEF h
<1>6. PICK G : calls' \in [Caller -> CallRow(G)]
  BY <1>1, <1>2, <1>3, LoadedRow
<1>7. /\ \A d \in Caller \ {c} : calls'[d] = calls[d]
      /\ calls'[c].at = "answered" /\ calls'[c].answer = "done"
      /\ calls'[c].tool = "history" /\ calls'[c].mem = calls[c].mem
      /\ calls'[c].history = h
  BY <1>1, <1>2, <1>3, LoadedRow
<1>8. calls[c].mem # None
  BY <1>1 DEF McpInv, CallsInv, Sound
<1>9. ASSUME NEW k, k = calls'[c] PROVE McpInv'
  <2>1. Complete(k)
    BY <1>3, <1>4, <1>5, <1>7, <1>9 DEF Complete
  <2>2. Sound(k)
    BY <1>7, <1>8, <1>9, <2>1 DEF Sound
  <2>3. Stays => \A a \in acts' \ acts : InPin(a.mem)' /\ a.found = pin
    BY <1>1, DidInPin
  <2>4. QED BY <1>1, <1>6, <1>7, <1>9, <2>2, <2>3, CallStep
<1>10. QED BY <1>9

\* A request that is refused was never carried out.
LEMMA RefusedConflicts ==
    ASSUME StoreInv, NEW call \in RetractCalls, Exists(db, call.id), Refused(call),
           NEW k, k.history = Fingerprint(call), k.idem = call.idem
    PROVE  Conflicts(k)
<1>1. /\ ~Seen(db, call)
      /\ Receipts(db, call) # {} \/ db.heads[call.id].state = "retracted"
  BY DEF Refused, Unseen
<1>2. ReceiptsTellTheTruthOf(db) /\ db \in Store
  BY DEF StoreInv, Life, IInv, TypeOK
<1>3. call.op = "retract"
  BY DEF RetractCalls
<1>4. ASSUME NEW r \in db.receipts, r.hash = k.history, r.slot.idem = k.idem,
             r.slot.op = "retract"
      PROVE  FALSE
  <2>1. r.slot.idem \in IdemKey
    BY <1>2 DEF Store, Receipt, Slots
  <2>2. call.idem # None
    BY <1>4, <2>1, StoreAssumption
  <2> DEFINE done == db.events[r.seq]
  <2>3. Slot(done) = r.slot /\ Fingerprint(done) = Fingerprint(call) /\ done \in Request
    BY <1>2, <1>4 DEF ReceiptsTellTheTruthOf, Store
  <2> HIDE DEF done
  <2>4. done.id = call.id
    <3>1. Fingerprint(done).id = done.id
      BY <2>3 DEF Fingerprint, Request
    <3>2. Fingerprint(call).id = call.id
      BY DEF Fingerprint, RetractCalls
    <3>3. QED BY <2>3, <3>1, <3>2
  <2>5. done.op = "retract" /\ done.idem = call.idem
    BY <1>4, <2>3 DEF Slot
  <2>6. r.slot = Slot(call)
    BY <1>3, <2>3, <2>4, <2>5 DEF Slot
  <2>7. r \in Receipts(db, call) /\ r.hash = Fingerprint(call)
    BY <1>4, <2>2, <2>6 DEF Receipts
  <2>8. QED BY <1>1, <2>7 DEF Seen
<1>5. QED BY <1>1, <1>4 DEF Conflicts

LEMMA RetractToolStep ==
    ASSUME McpAssumption, McpInv, NEW c \in Caller, RetractTool(c)
    PROVE  McpInv'
<1>1. PICK call \in RetractCalls :
         /\ RetractCall(c, call)
         /\ \/ /\ Retract(call)
               /\ Did(c, call.id)
               /\ calls' = Answered(c, "done")
            \/ /\ ~Refused(call) /\ Deduplicate(call)
               /\ calls' = Answered(c, "done")
               /\ UNCHANGED acts
            \/ /\ Refused(call)
               /\ calls' = [Answered(c, "conflict") EXCEPT ![c].history = Fingerprint(call)]
               /\ UNCHANGED <<db, txn, acts>>
  BY DEF RetractTool
<1>2. /\ UNCHANGED <<pin, root>> /\ calls[c].tool = "retract" /\ calls[c].at = "act"
      /\ call.id = calls[c].mem /\ call.idem = calls[c].idem
      /\ root' \in Repository \cup {None}
  BY <1>1 DEF RetractTool, RetractCall, McpInv
<1>3. CASE Retract(call) /\ Did(c, call.id) /\ calls' = Answered(c, "done")
  <2>1. StoreStep /\ txn' = None
    BY <1>3 DEF StoreStep, Retract, MayExecute
  <2>2. Stays => \A a \in acts' \ acts : InPin(a.mem)' /\ a.found = pin
    BY <1>2, <1>3, DidInPin
  <2>3. QED BY <1>2, <1>3, <2>1, <2>2, AnswerStep
<1>4. CASE Deduplicate(call) /\ calls' = Answered(c, "done") /\ UNCHANGED acts
  <2>1. StoreStep /\ (txn # None => Place[txn.call.scope] = Pinned)'
    BY <1>2, <1>4, SameStore DEF Deduplicate, vars
  <2>2. QED BY <1>2, <1>4, <2>1, AnswerStep
<1>5. CASE /\ Refused(call)
           /\ calls' = [Answered(c, "conflict") EXCEPT ![c].history = Fingerprint(call)]
           /\ UNCHANGED <<db, txn, acts>>
  <2>1. StoreStep /\ (txn # None => Place[txn.call.scope] = Pinned)'
    BY <1>2, <1>5, SameStore
  <2>2. PICK H : calls \in [Caller -> CallRow(H)]
    BY DEF McpInv, CallsInv
  <2>3. "conflict" \in Answer
    BY DEF Answer
  <2>4. /\ \E G : calls' \in [Caller -> CallRow(G)]
        /\ \A d \in Caller \ {c} : calls'[d] = calls[d]
        /\ calls'[c].at = "answered" /\ calls'[c].answer = "conflict"
        /\ calls'[c].tool = "retract" /\ calls'[c].mem = calls[c].mem
        /\ calls'[c].idem = call.idem /\ calls'[c].history = Fingerprint(call)
    BY <1>2, <1>5, <2>2, <2>3, LoadedRow
  <2>5. PICK G : calls' \in [Caller -> CallRow(G)]
    BY <2>4
  <2>6. Exists(db, call.id) /\ calls[c].mem # None
    BY <1>2 DEF McpInv, CallsInv, Sound, InPin
  <2>7. ASSUME NEW k, k = calls'[c] PROVE McpInv'
    <3>1. k.history = Fingerprint(call) /\ k.idem = call.idem
      BY <2>4, <2>7
    <3>2. Conflicts(k)
      BY <1>5, <2>6, <3>1, RefusedConflicts DEF McpInv
    <3>3. Sound(k)
      BY <2>4, <2>6, <2>7, <3>2 DEF Sound
    <3>4. QED BY <1>2, <1>5, <2>1, <2>4, <2>5, <2>7, <3>3, CallStep
  <2>8. QED BY <2>7
<1>6. QED BY <1>1, <1>3, <1>4, <1>5

LEMMA FinishStep ==
    ASSUME McpAssumption, McpInv, NEW c \in Caller, Finish(c)
    PROVE  McpInv'
<1>1. PICK H : calls \in [Caller -> CallRow(H)]
  BY DEF McpInv, CallsInv
<1>2. /\ StoreStep /\ (txn # None => Place[txn.call.scope] = Pinned)'
      /\ UNCHANGED <<pin, root, acts>> /\ root' \in Repository \cup {None}
      /\ calls' = [calls EXCEPT ![c] = Free]
  BY SameStore DEF Finish, McpInv
<1>3. /\ Free \in CallRow(H \cup {None}) /\ CallRow(H) \subseteq CallRow(H \cup {None})
      /\ Free.at = "free" /\ Free.answer = None /\ Free.tool = None
  BY DEF Free, CallRow
<1>4. Sound(Free)
  BY <1>3 DEF Sound, McpAssumption, Answer, Tool
<1>5. /\ calls' \in [Caller -> CallRow(H \cup {None})] /\ calls'[c] = Free
      /\ \A d \in Caller \ {c} : calls'[d] = calls[d]
  BY <1>1, <1>2, <1>3
<1>6. ASSUME NEW k, k = Free PROVE McpInv'
  BY <1>2, <1>4, <1>5, <1>6, CallStep
<1>7. QED BY <1>6

LEMMA ReplaceStep ==
    ASSUME McpInv, NEW r \in Repository \cup {None}, Replace(r)
    PROVE  McpInv'
<1>1. /\ StoreStep /\ (txn # None => Place[txn.call.scope] = Pinned)'
      /\ UNCHANGED <<pin, calls, acts>> /\ root' \in Repository \cup {None}
  BY SameStore DEF Replace
<1>2. QED BY <1>1, WorldStep

LEMMA ElsewhereStep ==
    ASSUME McpInv, Elsewhere
    PROVE  McpInv'
<1>1. /\ UNCHANGED <<pin, calls, acts>> /\ root' \in Repository \cup {None}
      /\ \/ \E call \in RememberCalls : Remember(call)
         \/ \E call \in RetractCalls : Retract(call)
  BY DEF Elsewhere, serverVars, McpInv
<1>2. StoreStep /\ txn' = None
  BY <1>1 DEF StoreStep, Remember, Retract, MayExecute
<1>3. QED BY <1>1, <1>2, WorldStep

LEMMA McpStep ==
    ASSUME McpAssumption, ToolsAssumption, McpInv, [McpNext]_mcpVars
    PROVE  McpInv'
<1>1. ASSUME NEW c \in Caller, Step(c) PROVE McpInv'
  BY <1>1, RediscoverStep, LookStep, ContextStep, RecordStep, ObservationStep,
     CheckpointStep, WritingStep, FailStep, FeedbackStep, HistoryStep, RetractToolStep,
     FinishStep DEF Step
<1>2. CASE UNCHANGED mcpVars
  <2>1. /\ StoreStep /\ (txn # None => Place[txn.call.scope] = Pinned)'
        /\ UNCHANGED <<pin, calls, acts>> /\ root' \in Repository \cup {None}
    BY <1>2, SameStore DEF mcpVars, McpInv
  <2>2. QED BY <2>1, WorldStep
<1>3. QED BY <1>1, <1>2, AskStep, ReplaceStep, ElsewhereStep DEF McpNext

LEMMA InitMcp == ASSUME McpAssumption, McpInit PROVE McpInv
<1>1. StoreInv /\ txn = None
  BY InitIInv, InitLife, InitTraced DEF McpInit, StoreInv, Init
<1>2. /\ Free \in CallRow({None})
      /\ Free.at = "free" /\ Free.answer = None /\ Free.tool = None
  BY DEF Free, CallRow
<1>3. Sound(Free)
  BY <1>2 DEF Sound, McpAssumption, Answer, Tool
<1>4. calls \in [Caller -> CallRow({None})] /\ \A c \in Caller : calls[c] = Free
  BY <1>2 DEF McpInit
<1>5. CallsInv
  BY <1>3, <1>4 DEF CallsInv
<1>6. QED BY <1>1, <1>5 DEF McpInv, McpInit, ActsInv

THEOREM ServerInductive ==
    ASSUME McpAssumption, ToolsAssumption PROVE McpSpec => []McpInv
<1>1. McpInit => McpInv
  BY InitMcp
<1>2. McpInv /\ [McpNext]_mcpVars => McpInv'
  BY McpStep
<1>3. QED BY <1>1, <1>2, PTL DEF McpSpec

\* Whatever a tool call reads, writes, rates or retracts lies in what recall
\* calls the scope pinned at launch, when it is checked, when it is done and ever
\* after, although the check and the act are two transactions and other
\* processes write between them; and what the server recalled, it also manages
\* (ensure_memory_in_scope, PinnedRepository::verify, load_candidate_memories).
THEOREM ServerStaysInScope ==
    ASSUME McpAssumption, ToolsAssumption PROVE McpSpec => []ScopeHolds
<1>1. McpInv => ScopeHolds
  <2> SUFFICES ASSUME McpInv PROVE ScopeHolds
    OBVIOUS
  <2>1. ActsStayInThePin
    BY DEF McpInv, ActsInv, InPin, ActsStayInThePin
  <2>2. RecalledIsManageable
    <3> SUFFICES ASSUME NEW c \in Caller, calls[c].answer = "outside",
                        NEW a \in acts, a.mem = calls[c].mem
                 PROVE  FALSE
      BY DEF RecalledIsManageable
    <3>1. InPin(a.mem) /\ Aside(a.mem)
      BY DEF McpInv, ActsInv, CallsInv, Sound
    <3>2. QED BY <3>1 DEF InPin, Aside
  <2>3. QED BY <2>1, <2>2 DEF ScopeHolds
<1>2. QED BY <1>1, ServerInductive, PTL

\* A retraction that is answered with a conflict was carried out by nobody
\* under its key, so a retry after a lost answer is never told of a conflict
\* with itself; and a history lists every event that made, contested,
\* superseded or retracted the memory until it was read, whatever other
\* processes wrote meanwhile (engine.rs retract, history).
THEOREM ServerAnswersAreTrue ==
    ASSUME McpAssumption, ToolsAssumption PROVE McpSpec => []AnswersAreTrue
<1>1. McpInv => AnswersAreTrue
  <2> SUFFICES ASSUME McpInv PROVE AnswersAreTrue
    OBVIOUS
  <2>1. RetryIsNoConflict
    BY DEF McpInv, CallsInv, Sound, Conflicts, RetryIsNoConflict
  <2>2. HistoryIsComplete
    BY DEF McpInv, CallsInv, Sound, Complete, Concerns, HistoryIsComplete
  <2>3. QED BY <2>1, <2>2 DEF AnswersAreTrue
<1>2. QED BY <1>1, ServerInductive, PTL

----------------------------------------------------------------------------
(* The hooks *)

PayloadRow == [event: Hook!HookEvent, session: Session, ids: [Hook!IdKey -> Nat],
               text: Text \cup {None}, tool: Hook!Tool \cup {None}, report: Hook!Report]
HookTypes ==
    /\ happened \in Seq(PayloadRow) /\ turn \in [Session -> Nat]
    /\ \E R : rows \in Seq(R)
    /\ hook \in [Proc -> [pc: {"idle", "open", "files", "write", "recall", "answered"},
                          of: Nat, tree: Int \cup {None},
                          wrote: {"nothing", "inserted", "known", "conflict"},
                          answer: {None, "neutral", "context"}]]
    /\ tree \in Nat

\* Two rows of one operation and key.
Twins(r, q) == rows[r].operation = rows[q].operation /\ rows[r].key = rows[q].key
RowOf(r, pl) == rows[r].operation = Hook!OperationOf(pl) /\ rows[r].key = Hook!IdempotencyKey(pl, None)

\* An identifier of a tool's use is the place of the event in the session's log,
\* where the harness gives one.
IdsInv ==
    \A i \in DOMAIN happened : LET pl == happened[i] IN
       /\ pl.ids["tool_use_id"] = IF "tool_use_id" \in Given /\ pl.event \in Hook!ToolEvent
                                  THEN i ELSE 0
       /\ pl.report \in ToolReport \cup {Hook!Silent}
RowsInv ==
    /\ \A r \in DOMAIN rows :
          /\ rows[r].of \in DOMAIN happened
          /\ RowOf(r, happened[rows[r].of])
          /\ rows[r].operation = "observe" =>
                rows[r].print.ok = Hook!Succeeded(happened[rows[r].of])
    /\ \A r, q \in DOMAIN rows : Twins(r, q) => r = q
ProcInv ==
    \A p \in Proc :
       /\ hook[p].pc # "idle" => hook[p].of \in DOMAIN happened
       /\ hook[p].wrote # "nothing" =>
             /\ hook[p].of \in DOMAIN happened
             /\ \E r \in DOMAIN rows : RowOf(r, happened[hook[p].of])
HookInv == Len(happened) <= MaxHappened /\ HookTypes /\ IdsInv /\ RowsInv /\ ProcInv

\* The key of an event does not depend on the worktree.
LEMMA KeyOfEvent ==
    ASSUME NEW pl, NEW seen PROVE Hook!IdempotencyKey(pl, seen) = Hook!IdempotencyKey(pl, None)
BY DEF Hook!IdempotencyKey

LEMMA FirstOfFour ==
    ASSUME NEW S \in SUBSET (1..4), S # {}
    PROVE  \E i \in S : \A j \in S : i <= j
<1>1. CASE 1 \in S
  BY <1>1
<1>2. CASE 1 \notin S /\ 2 \in S
  BY <1>2
<1>3. CASE 1 \notin S /\ 2 \notin S /\ 3 \in S
  BY <1>3
<1>4. CASE S = {4}
  BY <1>4
<1>5. \A i \in S : i \in {1, 2, 3, 4}
  OBVIOUS
<1> QED
  BY <1>1, <1>2, <1>3, <1>4, <1>5
LEMMA FirstOfFive ==
    ASSUME NEW S \in SUBSET (1..5), S # {}
    PROVE  \E i \in S : \A j \in S : i <= j
<1>1. CASE 1 \in S
  BY <1>1
<1>2. CASE 1 \notin S /\ S \cap (1..4) # {}
  <2>1. PICK i \in S \cap (1..4) : \A j \in S \cap (1..4) : i <= j
    BY <1>2, FirstOfFour
  <2> QED
    BY <2>1
<1>3. CASE S = {5}
  BY <1>3
<1>4. \A i \in S : i \in (1..4) \cup {5}
  OBVIOUS
<1> QED
  BY <1>1, <1>2, <1>3, <1>4

\* What the key of an event tells of it: its tool's use, if that has an
\* identifier, and its turn.
LEMMA KeyTells ==
    ASSUME NEW a, NEW b, a.ids \in [Hook!IdKey -> Nat], b.ids \in [Hook!IdKey -> Nat],
           Hook!IdempotencyKey(a, None) = Hook!IdempotencyKey(b, None)
    PROVE  /\ a.event = b.event /\ a.session = b.session /\ a.text = b.text /\ a.tool = b.tool
           /\ a.ids["tool_use_id"] = b.ids["tool_use_id"]
           /\ a.ids["tool_use_id"] = 0 => a.ids["turn_id"] = b.ids["turn_id"]
<1> DEFINE order == <<"tool_use_id", "turn_id", "prompt_id", "agent_id">>
           known(x) == {i \in 1..4 : x.ids[order[i]] # 0}
           first(x) == CHOOSE i \in known(x) : \A j \in known(x) : i <= j
<1>1. /\ a.event = b.event /\ a.session = b.session
      /\ Hook!FirstId(a.ids) = Hook!FirstId(b.ids) /\ <<a.tool, a.text>> = <<b.tool, b.text>>
  BY DEF Hook!IdempotencyKey
<1>2. ASSUME NEW x, x.ids \in [Hook!IdKey -> Nat]
      PROVE  /\ known(x) = {} => Hook!FirstId(x.ids) = <<"missing", 0>>
             /\ known(x) # {} => /\ Hook!FirstId(x.ids) = <<order[first(x)], x.ids[order[first(x)]]>>
                                 /\ first(x) \in known(x) /\ \A j \in known(x) : first(x) <= j
  <2>1. Hook!FirstId(x.ids) = IF known(x) = {} THEN <<"missing", 0>>
                              ELSE <<order[first(x)], x.ids[order[first(x)]]>>
    BY DEF Hook!FirstId
  <2>2. known(x) # {} => first(x) \in known(x) /\ \A j \in known(x) : first(x) <= j
    <3>1. known(x) \in SUBSET (1..4)
      OBVIOUS
    <3>2. known(x) # {} => \E i \in known(x) : \A j \in known(x) : i <= j
      BY <3>1, FirstOfFour
    <3> QED
      BY <3>2
  <2> QED
    BY <2>1, <2>2
<1>3. /\ order[1] = "tool_use_id" /\ order[2] = "turn_id" /\ order[3] = "prompt_id"
      /\ order[4] = "agent_id"
  OBVIOUS
<1>4. \A x : /\ x.ids["tool_use_id"] # 0 <=> 1 \in known(x)
             /\ x.ids["turn_id"] # 0 <=> 2 \in known(x)
  BY <1>3
<1> HIDE DEF first, order
<1>5. \A x : known(x) \subseteq 1..4
  OBVIOUS
<1> HIDE DEF known
<1>6. known(a) = {} <=> known(b) = {}
  BY <1>1, <1>2, <1>3, <1>5
<1>7. known(a) # {} => first(a) = first(b) /\ a.ids[order[first(a)]] = b.ids[order[first(a)]]
  BY <1>1, <1>2, <1>3, <1>5, <1>6
<1>8. a.ids["tool_use_id"] = b.ids["tool_use_id"]
  <2>1. CASE 1 \in known(a)
    BY <2>1, <1>2, <1>5, <1>7, <1>3
  <2>2. CASE 1 \in known(b)
    BY <2>2, <1>2, <1>5, <1>6, <1>7, <1>3
  <2> QED
    BY <2>1, <2>2, <1>4
<1>9. ASSUME a.ids["tool_use_id"] = 0 PROVE a.ids["turn_id"] = b.ids["turn_id"]
  <2>1. 1 \notin known(a) /\ 1 \notin known(b)
    BY <1>4, <1>8, <1>9
  <2>2. CASE 2 \in known(a)
    <3>1. first(a) = 2
      BY <2>1, <2>2, <1>2, <1>5
    <3> QED
      BY <3>1, <2>2, <1>7, <1>3
  <2>3. CASE 2 \in known(b)
    <3>1. first(b) = 2
      BY <2>1, <2>3, <1>2, <1>5
    <3> QED
      BY <3>1, <2>3, <1>6, <1>7, <1>3
  <2> QED
    BY <2>2, <2>3, <1>4
<1> QED
  BY <1>1, <1>8, <1>9

LEMMA HookInit ==
    ASSUME Hook!Init, Hook!HooksAssumption PROVE HookInv
<1> USE DEF Hook!Init
<1>1. HookTypes
  <2>1. happened \in Seq(PayloadRow)
    OBVIOUS
  <2>2. turn \in [Session -> Nat] /\ rows \in Seq({}) /\ tree \in Nat
    OBVIOUS
  <2> QED
    BY <2>1, <2>2 DEF HookTypes, Hook!Idle
<1>2. IdsInv /\ RowsInv
  BY DEF IdsInv, RowsInv
<1>3. ProcInv
  BY DEF ProcInv, Hook!Idle
<1> QED
  BY <1>1, <1>2, <1>3 DEF HookInv, Hook!HooksAssumption

\* An event: the payload fits the types and its identifiers are those of its place.
LEMMA HappenInv ==
    ASSUME HookInv, NEW s \in Session, NEW e \in Hook!HookEvent, Hook!Happen(e, s),
           Hook!HooksAssumption, Hook!ReportAssumption
    PROVE  HookInv'
<1>1. PICK pl \in Hook!Payloads(e, s) : happened' = Append(happened, pl)
  BY DEF Hook!Happen
<1>2. /\ Len(happened) < MaxHappened /\ UNCHANGED <<tree, rows, hook>>
      /\ turn' = IF e = "UserPromptSubmit" THEN [turn EXCEPT ![s] = @ + 1] ELSE turn
  BY DEF Hook!Happen
<1>3. /\ happened \in Seq(PayloadRow) /\ turn \in [Session -> Nat] /\ Len(happened) \in Nat
  BY DEF HookInv, HookTypes
<1>4. /\ pl.ids \in [Hook!IdKey -> Nat]
      /\ pl.ids["tool_use_id"] = IF "tool_use_id" \in Given /\ e \in Hook!ToolEvent
                                 THEN Len(happened) + 1 ELSE 0
  <2>1. pl.ids = Hook!Ids(e, s)
    BY DEF Hook!Payloads
  <2>2. Hook!Ids(e, s) \in [Hook!IdKey -> Nat]
    BY <1>3 DEF Hook!Ids, Hook!IdKey
  <2> QED
    BY <2>1, <2>2 DEF Hook!Ids, Hook!IdKey
<1>5. Hook!Silent \in Hook!Report /\ ToolReport \subseteq Hook!Report
  BY DEF Hook!Silent, Hook!Report, Hook!ExitPlace, Hook!ReportAssumption
<1>6. pl \in PayloadRow /\ pl.event = e /\ pl.report \in ToolReport \cup {Hook!Silent}
  <2>1. pl = [event |-> pl.event, session |-> pl.session, ids |-> pl.ids, text |-> pl.text,
              tool |-> pl.tool, report |-> pl.report]
        /\ pl.event = e /\ pl.session = s /\ pl.text \in Text \cup {None}
        /\ pl.tool \in Hook!Tool \cup {None} /\ pl.report \in ToolReport \cup {Hook!Silent}
    BY DEF Hook!Payloads
  <2> QED
    BY <2>1, <1>4, <1>5 DEF PayloadRow
<1>7. /\ happened' \in Seq(PayloadRow) /\ Len(happened') = Len(happened) + 1
      /\ happened'[Len(happened) + 1] = pl
      /\ \A i \in DOMAIN happened : i \in DOMAIN happened' /\ happened'[i] = happened[i]
      /\ DOMAIN happened' = 1..(Len(happened) + 1) /\ DOMAIN happened = 1..Len(happened)
  BY <1>1, <1>3, <1>6
<1>8. HookTypes'
  <2>1. turn' \in [Session -> Nat]
    BY <1>2, <1>3
  <2> QED
    BY <2>1, <1>2, <1>7 DEF HookInv, HookTypes
<1>9. IdsInv'
  <2> SUFFICES ASSUME NEW i \in DOMAIN happened'
               PROVE  /\ happened'[i].ids["tool_use_id"] =
                            IF "tool_use_id" \in Given /\ happened'[i].event \in Hook!ToolEvent
                            THEN i ELSE 0
                      /\ happened'[i].report \in ToolReport \cup {Hook!Silent}
    BY DEF IdsInv
  <2>1. CASE i \in DOMAIN happened
    BY <2>1, <1>7 DEF HookInv, IdsInv
  <2>2. CASE i = Len(happened) + 1
    BY <2>2, <1>4, <1>6, <1>7
  <2> QED
    BY <2>1, <2>2, <1>7, <1>3
<1>10. RowsInv'
  BY <1>2, <1>7 DEF HookInv, RowsInv, RowOf, Twins
<1>11. ProcInv'
  BY <1>2, <1>7 DEF HookInv, ProcInv, RowOf
<1> QED
  BY <1>7, <1>8, <1>9, <1>10, <1>11, <1>2, <1>3 DEF HookInv, Hook!HooksAssumption

\* A step of a process that writes nothing.
LEMMA GoInv ==
    ASSUME HookInv, NEW p \in Proc, UNCHANGED <<happened, turn, rows>>, tree' \in Nat,
           NEW h, hook' = [hook EXCEPT ![p] = h],
           h \in [pc: {"idle", "open", "files", "write", "recall", "answered"},
                  of: Nat, tree: Int \cup {None},
                  wrote: {"nothing", "inserted", "known", "conflict"},
                  answer: {None, "neutral", "context"}],
           h.pc # "idle" => h.of \in DOMAIN happened,
           h.wrote # "nothing" => h.wrote = hook[p].wrote /\ h.of = hook[p].of
    PROVE  HookInv'
<1>1. HookTypes'
  BY DEF HookInv, HookTypes
<1>2. IdsInv' /\ RowsInv'
  BY DEF HookInv, IdsInv, RowsInv, RowOf, Twins
<1>3. ProcInv'
  <2>1. \A q \in Proc : hook'[q] = IF q = p THEN h ELSE hook[q]
    BY DEF HookInv, HookTypes
  <2> QED
    BY <2>1 DEF HookInv, ProcInv, RowOf
<1> QED
  BY <1>1, <1>2, <1>3 DEF HookInv

LEMMA WriteInv ==
    ASSUME HookInv, NEW p \in Proc, Hook!Write(p), Hook!HooksAssumption
    PROVE  HookInv'
<1> DEFINE pl == happened[hook[p].of]
           row == Hook!Row(p)
           known == Hook!Known(p)
<1>1. /\ hook[p].pc = "write" /\ hook[p].of \in DOMAIN happened
      /\ UNCHANGED <<happened, turn, tree>> /\ Hook!Payload(p) = pl
  BY DEF Hook!Write, HookInv, ProcInv, Hook!Payload
<1>2. /\ row.operation = Hook!OperationOf(pl) /\ row.key = Hook!IdempotencyKey(pl, None)
      /\ row.of = hook[p].of
      /\ row.operation = "observe" => row.print.ok = Hook!Succeeded(pl)
  <2>1. /\ row.operation = Hook!OperationOf(pl) /\ row.key = Hook!IdempotencyKey(pl, None)
        /\ row.of = hook[p].of /\ row.print = Hook!Fingerprint(pl, hook[p].tree)
    BY <1>1, KeyOfEvent DEF Hook!Row
  <2>2. ASSUME Hook!OperationOf(pl) = "observe"
        PROVE  Hook!Fingerprint(pl, hook[p].tree).ok = Hook!Succeeded(pl)
    <3>1. Hook!OperationOf(pl) # "checkpoint"
      BY <2>2
    <3>2. Hook!Fingerprint(pl, hook[p].tree) =
             [text |-> pl.text, files |-> None, ids |-> <<pl.ids>>, ok |-> Hook!Succeeded(pl)]
      BY <3>1, Zenon DEF Hook!Fingerprint
    <3> QED
      BY <3>2
  <2> QED
    BY <2>1, <2>2
<1>3. known = {r \in DOMAIN rows : RowOf(r, pl)}
  BY <1>1, KeyOfEvent DEF Hook!Known, RowOf
<1>4. PICK h : /\ hook' = [hook EXCEPT ![p] = h] /\ h.of = hook[p].of
               /\ h \in [pc: {"idle", "open", "files", "write", "recall", "answered"},
                         of: Nat, tree: Int \cup {None},
                         wrote: {"nothing", "inserted", "known", "conflict"},
                         answer: {None, "neutral", "context"}]
  <2>1. PICK same, told, new : hook' = [hook EXCEPT
                ![p].pc = IF ~same \/ told THEN "answered" ELSE "recall",
                ![p].wrote = IF new THEN "inserted" ELSE IF same THEN "known" ELSE "conflict",
                ![p].answer = IF ~same \/ told THEN "neutral" ELSE None]
    BY DEF Hook!Write
  <2> DEFINE k == [hook[p] EXCEPT
                !.pc = IF ~same \/ told THEN "answered" ELSE "recall",
                !.wrote = IF new THEN "inserted" ELSE IF same THEN "known" ELSE "conflict",
                !.answer = IF ~same \/ told THEN "neutral" ELSE None]
  <2>2. hook[p] \in [pc: {"idle", "open", "files", "write", "recall", "answered"},
                         of: Nat, tree: Int \cup {None},
                         wrote: {"nothing", "inserted", "known", "conflict"},
                         answer: {None, "neutral", "context"}]
        /\ hook \in [Proc -> [pc: {"idle", "open", "files", "write", "recall", "answered"},
                          of: Nat, tree: Int \cup {None},
                          wrote: {"nothing", "inserted", "known", "conflict"},
                          answer: {None, "neutral", "context"}]]
    BY DEF HookInv, HookTypes
  <2>3. k \in [pc: {"idle", "open", "files", "write", "recall", "answered"},
                         of: Nat, tree: Int \cup {None},
                         wrote: {"nothing", "inserted", "known", "conflict"},
                         answer: {None, "neutral", "context"}] /\ k.of = hook[p].of
    BY <2>2
  <2>4. hook' = [hook EXCEPT ![p] = k]
    BY <2>1, <2>2
  <2> QED
    BY <2>3, <2>4
<1>5. rows' = IF known = {} THEN Append(rows, row) ELSE rows
  BY DEF Hook!Write
<1> HIDE DEF row, known
<1>6. /\ DOMAIN rows' = 1..Len(rows') /\ Len(rows') \in Nat
      /\ \A r \in DOMAIN rows : r \in DOMAIN rows' /\ rows'[r] = rows[r]
      /\ \A r \in DOMAIN rows' \ DOMAIN rows :
            known = {} /\ r = Len(rows) + 1 /\ rows'[r] = row
      /\ known = {} => Len(rows) + 1 \in DOMAIN rows' /\ rows'[Len(rows) + 1] = row
      /\ \E R : rows' \in Seq(R)
  <2>0. PICK R : rows \in Seq(R)
    BY DEF HookInv, HookTypes
  <2>1. rows \in Seq(R \cup {row})
    BY <2>0
  <2>2. CASE known # {}
    BY <2>1, <2>2, <1>5
  <2>3. CASE known = {}
    BY <2>1, <2>3, <1>5
  <2> QED
    BY <2>2, <2>3
<1>7. HookTypes'
  BY <1>1, <1>4, <1>6 DEF HookInv, HookTypes
<1>8. IdsInv'
  BY <1>1 DEF HookInv, IdsInv
<1>9. RowsInv'
  <2>1. ASSUME NEW r \in DOMAIN rows'
        PROVE  /\ rows'[r].of \in DOMAIN happened'
               /\ rows'[r].operation = Hook!OperationOf(happened'[rows'[r].of])
               /\ rows'[r].key = Hook!IdempotencyKey(happened'[rows'[r].of], None)
               /\ rows'[r].operation = "observe" =>
                     rows'[r].print.ok = Hook!Succeeded(happened'[rows'[r].of])
    <3>1. CASE r \in DOMAIN rows
      BY <3>1, <1>1, <1>6 DEF HookInv, RowsInv, RowOf
    <3>2. CASE rows'[r] = row
      <4>1. rows'[r].of = hook[p].of /\ rows'[r].of \in DOMAIN happened'
            /\ happened'[rows'[r].of] = pl
        BY <3>2, <1>1, <1>2
      <4> QED
        BY <4>1, <3>2, <1>2
    <3> QED
      BY <2>1, <3>1, <3>2, <1>6
  <2>2. ASSUME NEW r \in DOMAIN rows', NEW q \in DOMAIN rows',
               rows'[r].operation = rows'[q].operation, rows'[r].key = rows'[q].key
        PROVE  r = q
    <3>1. CASE r \in DOMAIN rows /\ q \in DOMAIN rows
      BY <3>1, <2>2, <1>6 DEF HookInv, RowsInv, Twins
    <3>2. ASSUME NEW a \in DOMAIN rows, rows[a].operation = row.operation,
                 rows[a].key = row.key, known = {}
          PROVE FALSE
      BY <3>2, <1>2, <1>3 DEF RowOf
    <3> QED
      BY <3>1, <3>2, <2>2, <1>6
  <2> QED
    BY <2>1, <2>2 DEF RowsInv, RowOf, Twins
<1>10. ProcInv'
  <2>1. \E r \in DOMAIN rows' : /\ rows'[r].operation = Hook!OperationOf(pl)
                                /\ rows'[r].key = Hook!IdempotencyKey(pl, None)
    <3>1. CASE known = {}
      BY <3>1, <1>2, <1>6
    <3>2. CASE known # {}
      BY <3>2, <1>3, <1>5 DEF RowOf
    <3> QED
      BY <3>1, <3>2
  <2>2. \A q \in Proc : hook'[q] = IF q = p THEN h ELSE hook[q]
    BY <1>4 DEF HookInv, HookTypes
  <2> SUFFICES ASSUME NEW q \in Proc
               PROVE  /\ hook'[q].pc # "idle" => hook'[q].of \in DOMAIN happened'
                      /\ hook'[q].wrote # "nothing" =>
                            /\ hook'[q].of \in DOMAIN happened'
                            /\ \E r \in DOMAIN rows' :
                                  /\ rows'[r].operation = Hook!OperationOf(happened'[hook'[q].of])
                                  /\ rows'[r].key = Hook!IdempotencyKey(happened'[hook'[q].of], None)
    BY DEF ProcInv, RowOf
  <2>3. CASE q = p
    BY <2>1, <2>2, <2>3, <1>1, <1>4
  <2>4. CASE q # p
    BY <2>2, <2>4, <1>1, <1>6 DEF HookInv, ProcInv, RowOf
  <2> QED
    BY <2>3, <2>4
<1> QED
  BY <1>1, <1>7, <1>8, <1>9, <1>10 DEF HookInv

LEMMA HookStep ==
    ASSUME HookInv, [Hook!Next]_(Hook!vars), Hook!HooksAssumption, Hook!ReportAssumption
    PROVE  HookInv'
<1>0. /\ None \notin {}
      /\ \A p \in Proc : hook[p] \in [pc: {"idle", "open", "files", "write", "recall", "answered"},
                  of: Nat, tree: Int \cup {None},
                  wrote: {"nothing", "inserted", "known", "conflict"},
                  answer: {None, "neutral", "context"}]
      /\ \A p \in Proc : hook[p].pc # "idle" => hook[p].of \in DOMAIN happened
      /\ tree \in Nat /\ DOMAIN hook = Proc
  BY DEF HookInv, HookTypes, ProcInv
<1>1. CASE \E s \in Session, e \in Hook!HookEvent : Hook!Happen(e, s)
  BY <1>1, HappenInv
<1>2. CASE Hook!EditFiles
  BY <1>2 DEF Hook!EditFiles, HookInv, HookTypes, IdsInv, RowsInv, ProcInv, RowOf, Twins
<1>3. ASSUME NEW p \in Proc, NEW i \in DOMAIN happened, Hook!Deliver(p, i)
      PROVE  HookInv'
  <2>1. i \in Nat
    BY <1>3 DEF HookInv, HookTypes
  <2> QED
    BY <1>0, <1>3, <2>1, GoInv DEF Hook!Deliver, Hook!Idle
<1>4. ASSUME NEW p \in Proc, Hook!Leave(p) PROVE HookInv'
  BY <1>0, <1>4, GoInv DEF Hook!Leave, Hook!Idle
<1>5. ASSUME NEW p \in Proc, NEW a \in {"neutral", "context"}, hook[p].pc # "idle",
             Hook!Answer(p, a), UNCHANGED <<happened, turn, tree, rows>>
      PROVE HookInv'
  <2> DEFINE h == [hook[p] EXCEPT !.pc = "answered", !.answer = a]
  <2>1. hook' = [hook EXCEPT ![p] = h]
    BY <1>0, <1>5 DEF Hook!Answer
  <2> QED
    BY <1>0, <1>5, <2>1, GoInv
<1>6. ASSUME NEW p \in Proc, NEW l \in {"files", "write", "recall"}, hook[p].pc # "idle",
             Hook!Goto(p, l), UNCHANGED <<happened, turn, tree, rows>>
      PROVE HookInv'
  <2> DEFINE h == [hook[p] EXCEPT !.pc = l]
  <2>1. hook' = [hook EXCEPT ![p] = h]
    BY <1>0, <1>6 DEF Hook!Goto
  <2> QED
    BY <1>0, <1>6, <2>1, GoInv
<1>7. ASSUME NEW p \in Proc, Hook!CaptureFiles(p) PROVE HookInv'
  <2>1. PICK seen \in {tree, None} : hook' = [hook EXCEPT ![p].pc = "write", ![p].tree = seen]
    BY <1>7 DEF Hook!CaptureFiles
  <2> DEFINE h == [hook[p] EXCEPT !.pc = "write", !.tree = seen]
  <2>2. hook' = [hook EXCEPT ![p] = h]
    BY <1>0, <2>1
  <2>3. hook[p].pc = "files" /\ UNCHANGED <<happened, turn, tree, rows>>
    BY <1>7 DEF Hook!CaptureFiles
  <2> QED
    <3>1. seen \in Int \cup {None} /\ h.of = hook[p].of /\ h.wrote = hook[p].wrote
          /\ h.pc = "write"
      BY <1>0, <2>1
    <3>2. h \in [pc: {"idle", "open", "files", "write", "recall", "answered"},
                  of: Nat, tree: Int \cup {None},
                  wrote: {"nothing", "inserted", "known", "conflict"},
                  answer: {None, "neutral", "context"}]
      BY <1>0, <3>1
    <3>3. tree' \in Nat /\ h.of \in DOMAIN happened
      BY <1>0, <2>3, <3>1
    <3> HIDE DEF h
    <3> QED
      BY <2>2, <2>3, <3>1, <3>2, <3>3, GoInv
<1>8. ASSUME NEW p \in Proc,
             Hook!FailOpen(p) \/ Hook!OpenStore(p) \/ Hook!Recall(p)
      PROVE  HookInv'
  BY <1>8, <1>5, <1>6 DEF Hook!FailOpen, Hook!OpenStore, Hook!Recall
<1>9. CASE UNCHANGED Hook!vars
  BY <1>9 DEF Hook!vars, HookInv, HookTypes, IdsInv, RowsInv, ProcInv, RowOf, Twins
<1> QED
  BY <1>1, <1>2, <1>3, <1>4, <1>7, <1>8, <1>9, WriteInv DEF Hook!Next

LEMMA OutcomesAreTold ==
    ASSUME HookInv, Hook!HooksAssumption, Hook!ReportAssumption, Hook!ReportsAgree,
           Hook!FlagsAreRead
    PROVE  Hook!FailuresAreTold
<1> SUFFICES ASSUME NEW r \in DOMAIN rows, rows[r].operation = "observe"
             PROVE  LET pl == happened[rows[r].of]
                    IN rows[r].print.ok <=> ~(\/ pl.event = "PostToolUseFailure"
                                    \/ Hook!Says(pl.report, 1) \/ pl.report.flags # {})
  BY DEF Hook!FailuresAreTold
<1> DEFINE pl == happened[rows[r].of]
           report == pl.report
<1>1. rows[r].of \in DOMAIN happened /\ rows[r].print.ok = Hook!Succeeded(pl)
  BY DEF HookInv, RowsInv
<1>2. report \in ToolReport \cup {Hook!Silent}
  BY <1>1 DEF HookInv, IdsInv
<1>3. report.exit \in [1..5 -> {None, 0, 1}] /\ DOMAIN Hook!ExitPlace = 1..5
  BY <1>2 DEF Hook!Report, Hook!Silent, Hook!ReportAssumption, Hook!ExitPlace
<1>4. ~(Hook!Says(report, 0) /\ Hook!Says(report, 1))
  BY <1>2, <1>3 DEF Hook!ReportsAgree, Hook!Says, Hook!Silent, Hook!HooksAssumption, Hook!ExitPlace
<1> DEFINE codes == Hook!ExitCodes(report)
<1> HIDE DEF report, pl
<1>5. codes = {i \in 1..5 : report.exit[i] # None}
  BY <1>3 DEF Hook!ExitCodes
<1>6. codes # {} => /\ Hook!ExitCode(report) \in {0, 1}
                    /\ Hook!Says(report, Hook!ExitCode(report))
  <2>1. ASSUME codes # {}
        PROVE  (CHOOSE i \in codes : \A j \in codes : i <= j) \in codes
    <3>1. codes \in SUBSET (1..5)
      BY <1>5
    <3>2. \E i \in codes : \A j \in codes : i <= j
      BY <2>1, <3>1, FirstOfFive
    <3> QED
      BY <3>2
  <2> QED
    BY <2>1, <1>3, <1>5 DEF Hook!ExitCode, Hook!Says
<1>7. Hook!Says(report, 1) => codes # {} /\ Hook!ExitCode(report) # 0
  BY <1>3, <1>4, <1>5, <1>6 DEF Hook!Says, Hook!HooksAssumption
<1>8. codes # {} /\ Hook!ExitCode(report) # 0 => Hook!Says(report, 1)
  BY <1>6
<1>9. (codes # {} => Hook!ExitCode(report) = 0) <=> ~Hook!Says(report, 1)
  BY <1>7, <1>8
<1>10. Hook!Succeeded(pl) <=> /\ pl.event # "PostToolUseFailure"
                              /\ codes # {} => Hook!ExitCode(report) = 0
                              /\ report.flags \cap Hook!FlagRead = {}
  BY DEF Hook!Succeeded, report
<1>11. report.flags # {} => Hook!Says(report, 1) \/ report.flags \cap Hook!FlagRead # {}
  BY <1>2 DEF Hook!FlagsAreRead, Hook!Silent
<1>12. report.flags = {} => report.flags \cap Hook!FlagRead = {}
  OBVIOUS
<1> QED
  BY <1>1, <1>9, <1>10, <1>11, <1>12, Zenon DEF pl, report

LEMMA NoneIsSwallowed ==
    ASSUME HookInv, Hook!HooksAssumption, Hook!UsesAreTold
    PROVE  Hook!NothingIsSwallowed
<1> SUFFICES ASSUME NEW p \in Proc, hook[p].wrote # "nothing"
             PROVE  \E r \in DOMAIN rows : Hook!Same(happened[rows[r].of], Hook!Payload(p))
  BY DEF Hook!NothingIsSwallowed
<1>1. PICK r \in DOMAIN rows : RowOf(r, happened[hook[p].of])
  BY DEF HookInv, ProcInv
<1> DEFINE i == rows[r].of
           j == hook[p].of
<1>2. i \in DOMAIN happened /\ j \in DOMAIN happened /\ RowOf(r, happened[i])
  BY DEF HookInv, RowsInv, ProcInv
<1> HIDE DEF i, j
<1>3. Hook!IdempotencyKey(happened[i], None) = Hook!IdempotencyKey(happened[j], None)
  BY <1>1, <1>2 DEF RowOf, j
<1>4. happened[i].ids \in [Hook!IdKey -> Nat] /\ happened[j].ids \in [Hook!IdKey -> Nat]
      /\ i \in 1..Len(happened) /\ j \in 1..Len(happened) /\ Len(happened) <= MaxHappened
  <2>1. happened \in Seq(PayloadRow) /\ Len(happened) <= MaxHappened
    BY DEF HookInv, HookTypes
  <2>2. happened[i] \in PayloadRow /\ happened[j] \in PayloadRow
    BY <1>2, <2>1
  <2>3. \A x \in PayloadRow : x.ids \in [Hook!IdKey -> Nat]
    BY DEF PayloadRow
  <2> HIDE DEF PayloadRow
  <2> QED
    BY <1>2, <2>1, <2>2, <2>3
<1>5. /\ happened[i].event = happened[j].event /\ happened[i].session = happened[j].session
      /\ happened[i].text = happened[j].text
      /\ happened[i].ids["tool_use_id"] = happened[j].ids["tool_use_id"]
      /\ happened[i].ids["tool_use_id"] = 0 =>
            happened[i].ids["turn_id"] = happened[j].ids["turn_id"]
  BY <1>3, <1>4, KeyTells, Zenon
<1>6. CASE happened[i].event \in Hook!ToolEvent
  <2>1. i = j
    <3>1. CASE "tool_use_id" \in Given
      BY <3>1, <1>2, <1>5, <1>6 DEF HookInv, IdsInv
    <3>2. CASE MaxHappened <= 1
      BY <3>2, <1>4 DEF Hook!HooksAssumption
    <3> QED
      BY <3>1, <3>2 DEF Hook!UsesAreTold
  <2> QED
    BY <2>1, <1>6 DEF Hook!Same, Hook!Payload, i, j
<1>7. CASE happened[i].event \notin Hook!ToolEvent
  <2>1. happened[i].ids["tool_use_id"] = 0
    BY <1>2, <1>7 DEF HookInv, IdsInv
  <2> QED
    BY <2>1, <1>5, <1>7 DEF Hook!Same, Hook!Payload, i, j
<1> QED
  BY <1>6, <1>7

\* WhatHappened of Hooks, for any number of sessions, processes, events and
\* changes of the worktree: every event is recorded once however often it is
\* delivered, none is taken for another, and failures are recorded as failures
\* (hook.rs hook_idempotency_key, hook_success).  The harness has to tell the
\* uses of its tools apart, must not contradict itself within one report and
\* must report an error where the hook looks for one.
THEOREM HooksRecordWhatHappened ==
    ASSUME Hook!HooksAssumption, Hook!ReportAssumption, Hook!UsesAreTold, Hook!ReportsAgree,
           Hook!FlagsAreRead
    PROVE  Hook!Spec => []WhatHappened
<1>1. Hook!Init => HookInv
  BY HookInit
<1>2. HookInv /\ [Hook!Next]_(Hook!vars) => HookInv'
  BY HookStep
<1>3. HookInv => Hook!WhatHappened
  <2>1. HookInv => Hook!RecordedOnce
    BY DEF HookInv, RowsInv, RowOf, Twins, Hook!RecordedOnce
  <2> QED
    BY <2>1, OutcomesAreTold, NoneIsSwallowed DEF Hook!WhatHappened
<1> QED
  BY <1>1, <1>2, <1>3, PTL DEF Hook!Spec, WhatHappened
----------------------------------------------------------------------------
(***************************************************************************)
(* What a checkpoint promotes.  A group is computed run by run; what is    *)
(* known of it after n runs is shown of the least n it would not hold for. *)
(***************************************************************************)
Reasons == {"failed_execution", "explicit_salience", "verification"}

LEMMA StrongerReason ==
    ASSUME Attempts!AttemptsAssumption, NEW a \in Reasons \cup {None}, NEW b \in Reasons \cup {None}
    PROVE  /\ Attempts!Stronger(a, b) \in Reasons \cup {None}
           /\ Attempts!Stronger(a, b) = "verification" <=> a = "verification" \/ b = "verification"
<1> DEFINE rank(r) == CHOOSE i \in DOMAIN Attempts!Strength : Attempts!Strength[i] = r
<1>1. DOMAIN Attempts!Strength = 1..3 /\ Attempts!Strength[1] = "failed_execution"
      /\ Attempts!Strength[2] = "explicit_salience" /\ Attempts!Strength[3] = "verification"
  BY DEF Attempts!Strength
<1>2. rank("failed_execution") = 1 /\ rank("explicit_salience") = 2 /\ rank("verification") = 3
  BY <1>1
<1>3. None \notin Reasons
  BY DEF Attempts!AttemptsAssumption, Reasons
<1>4. Attempts!Stronger(a, b) = IF a = None THEN b ELSE IF b = None THEN a
                                ELSE IF rank(a) >= rank(b) THEN a ELSE b
  BY DEF Attempts!Stronger
<1> HIDE DEF rank
<1>5. QED BY <1>2, <1>3, <1>4 DEF Reasons

LEMMA ReasonOf ==
    ASSUME NEW e PROVE Attempts!Classify(e) \in Reasons \cup {None}
BY DEF Attempts!Classify, Reasons

\* The group is what its recursion says.
LEMMA GroupingIs ==
    ASSUME NEW rs, Len(rs) \in Nat, NEW k, NEW failed
    PROVE  LET g == Attempts!Grouping(rs, k, failed) IN
           /\ g[0] = Attempts!NewGroup(k, failed)
           /\ \A n \in 1..Len(rs) :
                 g[n] = IF n \in Attempts!Promoted(rs, k)
                        THEN Attempts!WithRun(g[n - 1], rs[n], n) ELSE g[n - 1]
<1> DEFINE Steps(f, n) ==
             f = [i \in 0..n |->
                    IF i = 0 THEN Attempts!NewGroup(k, failed)
                    ELSE IF i \in Attempts!Promoted(rs, k)
                    THEN Attempts!WithRun(f[i - 1], rs[i], i) ELSE f[i - 1]]
           Missing == {n \in Nat : ~\E f : Steps(f, n)}
<1>1. \E f : Steps(f, 0)
  <2>1. Steps([i \in 0..0 |-> Attempts!NewGroup(k, failed)], 0)
    OBVIOUS
  <2> HIDE DEF Steps
  <2>2. QED BY <2>1
<1>2. ASSUME NEW n \in Nat, NEW f, Steps(f, n)
      PROVE  \E h : Steps(h, n + 1)
  <2> DEFINE h == [i \in 0..(n + 1) |->
                     IF i = 0 THEN Attempts!NewGroup(k, failed)
                     ELSE IF i \in Attempts!Promoted(rs, k)
                     THEN Attempts!WithRun(f[i - 1], rs[i], i) ELSE f[i - 1]]
  <2>1. \A i \in 0..n : h[i] = f[i]
    BY <1>2
  <2>2. \A i \in 0..(n + 1) : i # 0 => h[i - 1] = f[i - 1]
    BY <2>1
  <2>3. h = [i \in 0..(n + 1) |->
               IF i = 0 THEN Attempts!NewGroup(k, failed)
               ELSE IF i \in Attempts!Promoted(rs, k)
               THEN Attempts!WithRun(h[i - 1], rs[i], i) ELSE h[i - 1]]
    BY <2>2
  <2> HIDE DEF h
  <2>4. Steps(h, n + 1)
    BY <2>3
  <2> HIDE DEF Steps
  <2>5. QED BY <2>4
<1> HIDE DEF Steps
<1>3. Missing = {}
  <2> SUFFICES ASSUME Missing # {} PROVE FALSE
    OBVIOUS
  <2>1. PICK n \in Missing : \A m \in Missing : n <= m
    <3>1. Missing \in SUBSET Nat
      OBVIOUS
    <3> HIDE DEF Missing
    <3>2. QED BY <3>1, LeastOfNaturals
  <2>2. n \in Nat /\ n # 0
    BY <1>1
  <2>3. n - 1 \in Nat /\ n - 1 \notin Missing
    BY <2>1, <2>2
  <2>4. PICK f : Steps(f, n - 1)
    BY <2>3
  <2>5. \E h : Steps(h, (n - 1) + 1)
    BY <1>2, <2>3, <2>4
  <2>6. (n - 1) + 1 = n
    BY <2>2
  <2>7. QED BY <2>5, <2>6
<1>4. \E f : Steps(f, Len(rs))
  BY <1>3
<1>5. Attempts!Grouping(rs, k, failed) = CHOOSE f : Steps(f, Len(rs))
  BY Zenon DEF Attempts!Grouping, Steps
<1>6. Steps(Attempts!Grouping(rs, k, failed), Len(rs))
  BY <1>4, <1>5
<1>7. QED BY <1>6 DEF Steps

(***************************************************************************)
(* A group tells of the runs promoted under its key so far: how the last   *)
(* one ended, the first failure known, whether one was a verification.     *)
(***************************************************************************)
QuotedText == [quotes: Seq(Output), composed: BOOLEAN]
GroupRow(k) ==
    [key: {k}, ok: BOOLEAN, final: QuotedText, reason: Reasons \cup {None}, last: Nat,
     previously: BOOLEAN, first: QuotedText, runs: Nat]
Ran(rs, k, n) == {i \in Attempts!Promoted(rs, k) : i <= n}
FirstOf(i, I) == i \in I /\ \A j \in I : i <= j
LastOf(i, I) == i \in I /\ \A j \in I : j <= i
Failed(rs, I) == {i \in I : ~rs[i].ok}
FirstFailure(rs, k, failed, I, first) ==
    IF k \in DOMAIN failed THEN first = failed[k]
    ELSE IF Failed(rs, I) = {} THEN first = Attempts!NoText
    ELSE \E i \in I : FirstOf(i, Failed(rs, I)) /\ first = Attempts!Raw(rs[i].output)
Counted(k, failed, I, n) ==
    /\ k \in DOMAIN failed => n >= 1
    /\ I # {} => n >= 1
    /\ k \in DOMAIN failed /\ I # {} => n >= 2
    /\ n <= 1 => \A i, j \in I : i = j
Ended(rs, I, g) ==
    IF I = {} THEN g.ok /\ g.last = 0
    ELSE LastOf(g.last, I) /\ g.ok = rs[g.last].ok /\ g.final = Attempts!Raw(rs[g.last].output)
Verifies(rs, I) == \E i \in I : Attempts!Classify(rs[i]) = "verification"
Tells(rs, k, failed, I, g) ==
    /\ g \in GroupRow(k)
    /\ g.previously = (k \in DOMAIN failed)
    /\ g.reason = "verification" <=> Verifies(rs, I)
    /\ FirstFailure(rs, k, failed, I, g.first)
    /\ Counted(k, failed, I, g.runs)
    /\ Ended(rs, I, g)

LEMMA NewGroupTells ==
    ASSUME Attempts!AttemptsAssumption, NEW rs, NEW k, NEW failed,
           k \in DOMAIN failed => failed[k] \in QuotedText
    PROVE  Tells(rs, k, failed, {}, Attempts!NewGroup(k, failed))
<1> DEFINE g == Attempts!NewGroup(k, failed)
<1>1. Attempts!NoText \in QuotedText
  BY DEF Attempts!NoText, QuotedText
<1>2. g \in GroupRow(k)
  BY <1>1 DEF Attempts!NewGroup, GroupRow
<1>3. /\ g.previously = (k \in DOMAIN failed) /\ g.reason = None /\ g.ok /\ g.last = 0
      /\ g.first = IF k \in DOMAIN failed THEN failed[k] ELSE Attempts!NoText
      /\ g.runs = IF k \in DOMAIN failed THEN 1 ELSE 0
  BY DEF Attempts!NewGroup
<1>4. None # "verification"
  BY DEF Attempts!AttemptsAssumption
<1> HIDE DEF g
<1>5. g.reason = "verification" <=> Verifies(rs, {})
  BY <1>3, <1>4 DEF Verifies
<1>6. FirstFailure(rs, k, failed, {}, g.first)
  BY <1>3 DEF FirstFailure, Failed
<1>7. Counted(k, failed, {}, g.runs)
  BY <1>3 DEF Counted
<1>8. Ended(rs, {}, g)
  BY <1>3 DEF Ended
<1>9. Tells(rs, k, failed, {}, g)
  BY <1>2, <1>3, <1>5, <1>6, <1>7, <1>8 DEF Tells
<1>10. QED BY <1>9 DEF g

LEMMA WithRunTells ==
    ASSUME Attempts!AttemptsAssumption, NEW rs, NEW k, NEW failed, NEW I \in SUBSET Nat,
           NEW n \in Nat, \A i \in I : i < n, NEW g, Tells(rs, k, failed, I, g),
           rs[n] \in Attempts!RunEvent,
           k \in DOMAIN failed => failed[k] # Attempts!NoText
    PROVE  Tells(rs, k, failed, I \cup {n}, Attempts!WithRun(g, rs[n], n))
<1> DEFINE h == Attempts!WithRun(g, rs[n], n)
           e == rs[n]
           More == I \cup {n}
<1>1. g \in GroupRow(k)
  BY DEF Tells
<1>2. h = [key |-> g.key, ok |-> e.ok, final |-> Attempts!Raw(e.output), last |-> n,
           reason |-> Attempts!Stronger(g.reason, Attempts!Classify(e)),
           previously |-> g.previously,
           first |-> IF e.ok \/ g.first # Attempts!NoText THEN g.first
                     ELSE Attempts!Raw(e.output),
           runs |-> g.runs + 1]
  BY DEF Attempts!WithRun
<1>3. e.ok \in BOOLEAN /\ e.output \in Output
  BY DEF Attempts!RunEvent
<1>4. /\ Attempts!Raw(e.output) \in QuotedText /\ Attempts!Raw(e.output) # Attempts!NoText
  BY <1>3 DEF Attempts!Raw, Attempts!NoText, QuotedText
<1>5. /\ Attempts!Stronger(g.reason, Attempts!Classify(e)) \in Reasons \cup {None}
      /\ Attempts!Stronger(g.reason, Attempts!Classify(e)) = "verification"
            <=> g.reason = "verification" \/ Attempts!Classify(e) = "verification"
  BY <1>1, StrongerReason, ReasonOf DEF GroupRow
<1> HIDE DEF h, e
<1>6. /\ h \in GroupRow(k)
      /\ h.ok = e.ok /\ h.final = Attempts!Raw(e.output) /\ h.last = n
      /\ h.runs = g.runs + 1 /\ h.previously = g.previously
      /\ h.reason = Attempts!Stronger(g.reason, Attempts!Classify(e))
      /\ h.first = IF e.ok \/ g.first # Attempts!NoText THEN g.first ELSE Attempts!Raw(e.output)
  BY <1>1, <1>2, <1>3, <1>4, <1>5 DEF GroupRow
<1>7. h.previously = (k \in DOMAIN failed)
  BY <1>6, Zenon DEF Tells
<1>8. h.reason = "verification" <=> Verifies(rs, More)
  BY <1>5, <1>6 DEF Tells, Verifies, e
<1>9. FirstFailure(rs, k, failed, More, h.first)
  <2>1. CASE k \in DOMAIN failed
    BY <1>6, <2>1 DEF Tells, FirstFailure
  <2>2. CASE k \notin DOMAIN failed /\ Failed(rs, I) = {}
    <3>1. g.first = Attempts!NoText
      BY <2>2 DEF Tells, FirstFailure
    <3>2. CASE e.ok
      <4>1. Failed(rs, More) = {}
        BY <2>2, <3>2 DEF Failed, e
      <4>2. QED BY <1>6, <2>2, <3>1, <3>2, <4>1 DEF FirstFailure
    <3>3. CASE ~e.ok
      <4>1. Failed(rs, More) = {n}
        BY <2>2, <3>3 DEF Failed, e
      <4>2. FirstOf(n, Failed(rs, More)) /\ n \in More
        BY <4>1 DEF FirstOf
      <4>3. QED BY <1>6, <2>2, <3>1, <3>3, <4>1, <4>2 DEF FirstFailure, e
    <3>4. QED BY <3>2, <3>3
  <2>3. CASE k \notin DOMAIN failed /\ Failed(rs, I) # {}
    <3>1. PICK i \in I : FirstOf(i, Failed(rs, I)) /\ g.first = Attempts!Raw(rs[i].output)
      BY <2>3 DEF Tells, FirstFailure
    <3>2. g.first # Attempts!NoText
      BY <3>1 DEF Attempts!Raw, Attempts!NoText
    <3>3. FirstOf(i, Failed(rs, More)) /\ i \in More
      BY <3>1 DEF FirstOf, Failed
    <3>4. QED BY <1>6, <2>3, <3>1, <3>2, <3>3 DEF FirstFailure, FirstOf
  <2>4. QED BY <2>1, <2>2, <2>3
<1>10. Counted(k, failed, More, h.runs)
  <2>1. g.runs \in Nat /\ Counted(k, failed, I, g.runs)
    BY <1>1 DEF Tells, GroupRow
  <2>2. h.runs <= 1 => I = {}
    BY <1>6, <2>1 DEF Counted
  <2>3. QED BY <1>6, <2>1, <2>2 DEF Counted
<1>11. Ended(rs, More, h)
  <2>1. LastOf(n, More)
    BY DEF LastOf
  <2>2. QED BY <1>6, <2>1 DEF Ended, e
<1>12. Tells(rs, k, failed, More, h)
  BY <1>6, <1>7, <1>8, <1>9, <1>10, <1>11 DEF Tells
<1>13. QED BY <1>12 DEF h, e

LEMMA GroupTells ==
    ASSUME Attempts!AttemptsAssumption, NEW rs \in Seq(Attempts!RunEvent), NEW k, NEW failed,
           k \in DOMAIN failed => failed[k] \in QuotedText /\ failed[k].quotes # <<>>
    PROVE  Tells(rs, k, failed, Attempts!Promoted(rs, k), Attempts!Group(rs, k, failed))
<1> DEFINE g == Attempts!Grouping(rs, k, failed)
           Wrong == {n \in 0..Len(rs) : ~Tells(rs, k, failed, Ran(rs, k, n), g[n])}
<1>1. Len(rs) \in Nat /\ DOMAIN rs = 1..Len(rs)
  OBVIOUS
<1>2. /\ g[0] = Attempts!NewGroup(k, failed)
      /\ \A n \in 1..Len(rs) :
            g[n] = IF n \in Attempts!Promoted(rs, k)
                   THEN Attempts!WithRun(g[n - 1], rs[n], n) ELSE g[n - 1]
  BY <1>1, GroupingIs
<1>3. Attempts!Promoted(rs, k) \in SUBSET (1..Len(rs))
  BY <1>1 DEF Attempts!Promoted
<1>4. k \in DOMAIN failed => failed[k] \in QuotedText /\ failed[k] # Attempts!NoText
  BY DEF Attempts!NoText
<1> HIDE DEF g
<1>5. Tells(rs, k, failed, Ran(rs, k, 0), g[0])
  <2>1. Ran(rs, k, 0) = {}
    BY <1>3 DEF Ran
  <2>2. QED BY <1>2, <1>4, <2>1, NewGroupTells
<1>6. ASSUME NEW n \in 1..Len(rs), Tells(rs, k, failed, Ran(rs, k, n - 1), g[n - 1])
      PROVE  Tells(rs, k, failed, Ran(rs, k, n), g[n])
  <2>1. CASE n \notin Attempts!Promoted(rs, k)
    <3>1. Ran(rs, k, n) = Ran(rs, k, n - 1)
      BY <1>3, <2>1 DEF Ran
    <3>2. g[n] = g[n - 1]
      BY <1>2, <2>1
    <3>3. QED BY <1>6, <3>1, <3>2
  <2>2. CASE n \in Attempts!Promoted(rs, k)
    <3>1. Ran(rs, k, n) = Ran(rs, k, n - 1) \cup {n}
      BY <1>3, <2>2 DEF Ran
    <3>2. Ran(rs, k, n - 1) \in SUBSET Nat /\ \A i \in Ran(rs, k, n - 1) : i < n
      BY <1>3 DEF Ran
    <3>3. rs[n] \in Attempts!RunEvent /\ n \in Nat
      BY <1>1
    <3>4. Tells(rs, k, failed, Ran(rs, k, n - 1) \cup {n}, Attempts!WithRun(g[n - 1], rs[n], n))
      BY <1>4, <1>6, <3>2, <3>3, WithRunTells
    <3>5. g[n] = Attempts!WithRun(g[n - 1], rs[n], n)
      BY <1>2, <2>2
    <3>6. QED BY <3>1, <3>4, <3>5
  <2>3. QED BY <2>1, <2>2
<1>7. Wrong = {}
  <2> SUFFICES ASSUME Wrong # {} PROVE FALSE
    OBVIOUS
  <2>1. PICK n \in Wrong : \A m \in Wrong : n <= m
    <3>1. Wrong \in SUBSET Nat
      BY <1>1
    <3> HIDE DEF Wrong
    <3>2. QED BY <3>1, LeastOfNaturals
  <2>2. n \in 1..Len(rs) /\ n - 1 \in 0..Len(rs)
    BY <1>1, <1>5
  <2>3. n - 1 \notin Wrong
    BY <2>1, <2>2
  <2>4. Tells(rs, k, failed, Ran(rs, k, n - 1), g[n - 1])
    BY <2>2, <2>3
  <2>5. Tells(rs, k, failed, Ran(rs, k, n), g[n])
    BY <1>6, <2>2, <2>4
  <2>6. QED BY <2>1, <2>5
<1>8. Tells(rs, k, failed, Ran(rs, k, Len(rs)), g[Len(rs)])
  BY <1>1, <1>7
<1>9. Ran(rs, k, Len(rs)) = Attempts!Promoted(rs, k)
  BY <1>3 DEF Ran
<1>10. QED BY <1>8, <1>9 DEF Attempts!Group, g

\* The text of a group quotes its first failure, if it has one, and ends with
\* what its last run printed.
Quotes(rs, k, failed, I, output, t) ==
    /\ t \in QuotedText /\ t.quotes # <<>>
    /\ t.quotes[Len(t.quotes)] = output
    /\ k \in DOMAIN failed => t.quotes[1] = failed[k].quotes[1]
    /\ k \notin DOMAIN failed =>
          \A i \in I : FirstOf(i, Failed(rs, I)) => t.quotes[1] = rs[i].output
LEMMA ResultQuotes ==
    ASSUME NEW rs, NEW k, NEW failed, NEW I \in SUBSET Nat, I # {}, NEW g,
           Tells(rs, k, failed, I, g),
           \A i \in I : rs[i] \in Attempts!RunEvent,
           k \in DOMAIN failed => failed[k] \in QuotedText /\ failed[k].quotes # <<>>
    PROVE  Quotes(rs, k, failed, I, rs[g.last].output, Attempts!ResultText(g))
<1> DEFINE t == Attempts!ResultText(g)
           output == rs[g.last].output
<1>1. g \in GroupRow(k) /\ FirstFailure(rs, k, failed, I, g.first)
      /\ Counted(k, failed, I, g.runs)
  BY DEF Tells
<1>2. LastOf(g.last, I) /\ g.final = Attempts!Raw(output)
  BY DEF Tells, Ended
<1>3. output \in Output
  BY <1>2 DEF LastOf, Attempts!RunEvent
<1>4. g.final \in QuotedText /\ g.final.quotes = <<output>>
  BY <1>2, <1>3 DEF Attempts!Raw, QuotedText
<1>5. g.first \in QuotedText /\ g.first.quotes \in Seq(Output) /\ g.runs \in Nat
  BY <1>1 DEF GroupRow, QuotedText
<1>6. t = IF g.runs = 1 THEN g.final
          ELSE [composed |-> TRUE,
                quotes |-> IF g.first = Attempts!NoText \/ (~g.ok /\ g.first = g.final)
                           THEN g.final.quotes ELSE g.first.quotes \o g.final.quotes]
  BY DEF Attempts!ResultText
<1> HIDE DEF Quotes, t, output
<1>7. CASE k \in DOMAIN failed
  <2>1. g.runs # 1 /\ g.first = failed[k] /\ failed[k].quotes # <<>>
    BY <1>1, <1>7 DEF Counted, FirstFailure
  <2>2. g.first # Attempts!NoText
    BY <2>1 DEF Attempts!NoText
  <2>3. CASE ~g.ok /\ g.first = g.final
    <3>1. t.quotes = <<output>> /\ t \in QuotedText
      BY <1>3, <1>4, <1>6, <2>1, <2>3 DEF QuotedText
    <3>2. failed[k].quotes = <<output>>
      BY <1>4, <2>1, <2>3
    <3>3. QED BY <1>7, <3>1, <3>2 DEF Quotes, t, output
  <2>4. CASE ~(~g.ok /\ g.first = g.final)
    <3>1. t = [composed |-> TRUE, quotes |-> g.first.quotes \o g.final.quotes]
      BY <1>6, <2>1, <2>2, <2>4
    <3>2. t.quotes = failed[k].quotes \o <<output>>
      BY <1>4, <2>1, <3>1
    <3>3. failed[k].quotes \in Seq(Output)
      BY <1>5, <2>1
    <3>4. /\ t.quotes \in Seq(Output) /\ t.quotes # <<>>
          /\ t.quotes[Len(t.quotes)] = output /\ t.quotes[1] = failed[k].quotes[1]
      BY <1>3, <2>1, <3>2, <3>3
    <3>5. t \in QuotedText
      BY <3>1, <3>4 DEF QuotedText
    <3>6. QED BY <1>7, <3>4, <3>5 DEF Quotes, t, output
  <2>5. QED BY <2>3, <2>4
<1>8. CASE k \notin DOMAIN failed /\ Failed(rs, I) = {}
  <2>1. g.first = Attempts!NoText
    BY <1>1, <1>8 DEF FirstFailure
  <2>2. t.quotes = <<output>> /\ t \in QuotedText
    BY <1>3, <1>4, <1>6, <2>1 DEF QuotedText
  <2>3. \A i : ~FirstOf(i, Failed(rs, I))
    BY <1>8 DEF FirstOf
  <2>4. QED BY <1>8, <2>2, <2>3 DEF Quotes, t, output
<1>9. CASE k \notin DOMAIN failed /\ Failed(rs, I) # {}
  <2>1. PICK i \in I : FirstOf(i, Failed(rs, I)) /\ g.first = Attempts!Raw(rs[i].output)
    BY <1>1, <1>9 DEF FirstFailure
  <2>2. rs[i].output \in Output /\ g.first.quotes = <<rs[i].output>>
    BY <2>1 DEF Attempts!Raw, Attempts!RunEvent
  <2>3. \A j \in I : FirstOf(j, Failed(rs, I)) => rs[j].output = rs[i].output
    <3> SUFFICES ASSUME NEW j \in I, FirstOf(j, Failed(rs, I)) PROVE j = i
      OBVIOUS
    <3>1. i <= j /\ j <= i
      BY <2>1 DEF FirstOf
    <3>2. QED BY <3>1
  <2>4. t \in QuotedText /\ t.quotes[1] = rs[i].output /\ t.quotes # <<>>
        /\ t.quotes[Len(t.quotes)] = output
    <3>1. CASE g.runs = 1
      <4>1. i = g.last
        BY <1>1, <1>2, <3>1 DEF Counted, LastOf
      <4>2. t = g.final /\ output = rs[i].output
        BY <1>6, <3>1, <4>1 DEF output
      <4>3. QED BY <1>3, <1>4, <4>2
    <3>2. CASE g.runs # 1 /\ ~g.ok /\ g.first = g.final
      <4>1. t.quotes = <<output>> /\ t \in QuotedText
        BY <1>3, <1>4, <1>6, <3>2 DEF QuotedText
      <4>2. output = rs[i].output
        BY <1>4, <2>2, <3>2
      <4>3. QED BY <4>1, <4>2
    <3>3. CASE g.runs # 1 /\ ~(~g.ok /\ g.first = g.final)
      <4>1. g.first # Attempts!NoText
        BY <2>2 DEF Attempts!NoText
      <4>2. t = [composed |-> TRUE, quotes |-> <<rs[i].output>> \o <<output>>]
        BY <1>4, <1>6, <2>2, <3>3, <4>1
      <4>3. QED BY <1>3, <2>2, <4>2 DEF QuotedText
    <3>4. QED BY <3>1, <3>2, <3>3
  <2>5. QED BY <1>9, <2>3, <2>4 DEF Quotes, t, output
<1>10. QED BY <1>7, <1>8, <1>9

(***************************************************************************)
(* The attempts of the last checkpoint are those of the runs it read, and  *)
(* every outcome memory quotes something.                                  *)
(***************************************************************************)
Texts(h) == \A k \in DOMAIN h : h[k].result \in QuotedText /\ h[k].result.quotes # <<>>
LastIsTrue ==
    /\ last.runs \in Seq(Attempts!RunEvent) /\ Texts(last.before)
    /\ last.attempts = Attempts!Coalesced(last.runs, Attempts!PreviouslyFailed(last.before))
AttemptsInv ==
    /\ runs \in Seq(Attempts!RunEvent) /\ observed \in Nat /\ Texts(heads)
    /\ LastIsTrue

LEMMA EarlierFailures ==
    ASSUME NEW h, Texts(h), NEW k
    PROVE  LET failed == Attempts!PreviouslyFailed(h) IN
           /\ k \in DOMAIN failed <=> k \in DOMAIN h /\ ~h[k].ok
           /\ k \in DOMAIN failed =>
                 failed[k] = h[k].result /\ failed[k] \in QuotedText /\ failed[k].quotes # <<>>
BY DEF Attempts!PreviouslyFailed, Texts

LEMMA KeysAreRun ==
    ASSUME NEW rs \in Seq(Attempts!RunEvent), NEW k
    PROVE  /\ k \in Attempts!Keys(rs) <=> Attempts!Promoted(rs, k) # {}
           /\ Attempts!Promoted(rs, k) \in SUBSET Nat
           /\ Attempts!Promoted(rs, k) \in SUBSET (DOMAIN rs)
BY DEF Attempts!Keys, Attempts!Promoted

\* The group of a key that was run, and what it says.
GroupFacts(rs, failed, k, g) ==
    /\ g = Attempts!Group(rs, k, failed)
    /\ Tells(rs, k, failed, Attempts!Promoted(rs, k), g)
    /\ g.key = k /\ LastOf(g.last, Attempts!Promoted(rs, k))
    /\ g.ok = rs[g.last].ok
LEMMA GroupOfKey ==
    ASSUME Attempts!AttemptsAssumption, NEW rs \in Seq(Attempts!RunEvent), NEW h, Texts(h),
           NEW k \in Attempts!Keys(rs)
    PROVE  LET failed == Attempts!PreviouslyFailed(h) IN
           /\ GroupFacts(rs, failed, k, Attempts!Group(rs, k, failed))
           /\ Attempts!Group(rs, k, failed) \in Attempts!Groups(rs, failed)
<1> DEFINE failed == Attempts!PreviouslyFailed(h)
           g == Attempts!Group(rs, k, failed)
<1>1. Tells(rs, k, failed, Attempts!Promoted(rs, k), g)
  BY EarlierFailures, GroupTells
<1>2. Attempts!Promoted(rs, k) # {}
  BY KeysAreRun
<1>3. g \in Attempts!Groups(rs, failed)
  BY DEF Attempts!Groups
<1> HIDE DEF g
<1>4. g.key = k
  BY <1>1 DEF Tells, GroupRow
<1>5. LastOf(g.last, Attempts!Promoted(rs, k)) /\ g.ok = rs[g.last].ok
  BY <1>1, <1>2 DEF Tells, Ended
<1>6. QED BY <1>1, <1>3, <1>4, <1>5 DEF GroupFacts, g

LEMMA AttemptOfGroup ==
    ASSUME NEW g
    PROVE  LET a == Attempts!AttemptOf(g) IN
           a.key = g.key /\ a.ok = g.ok /\ a.result = Attempts!ResultText(g)
BY DEF Attempts!AttemptOf

LEMMA AttemptsAreGroups ==
    ASSUME Attempts!AttemptsAssumption, NEW rs \in Seq(Attempts!RunEvent), NEW h, Texts(h),
           NEW a \in Attempts!Coalesced(rs, Attempts!PreviouslyFailed(h))
    PROVE  \E k \in Attempts!Keys(rs) : \E g :
              /\ GroupFacts(rs, Attempts!PreviouslyFailed(h), k, g)
              /\ a.key = k /\ a.ok = g.ok /\ a.result = Attempts!ResultText(g)
<1> DEFINE failed == Attempts!PreviouslyFailed(h)
<1>1. PICK g \in Attempts!Kept(Attempts!Groups(rs, failed)) : a = Attempts!AttemptOf(g)
  BY DEF Attempts!Coalesced
<1>2. g \in Attempts!Groups(rs, failed)
  BY <1>1 DEF Attempts!Kept
<1>3. PICK k \in Attempts!Keys(rs) : g = Attempts!Group(rs, k, failed)
  BY <1>2 DEF Attempts!Groups
<1>4. GroupFacts(rs, failed, k, g) /\ g.key = k
  BY <1>3, GroupOfKey DEF GroupFacts
<1>5. a.key = k /\ a.ok = g.ok /\ a.result = Attempts!ResultText(g)
  BY <1>1, <1>4, AttemptOfGroup
<1>6. QED BY <1>4, <1>5

LEMMA EndpointsKept == ASSUME Attempts!AttemptsAssumption, LastIsTrue
                       PROVE  Attempts!EndpointsAreKept
<1> DEFINE rs == last.runs
           failed == Attempts!PreviouslyFailed(last.before)
<1> SUFFICES ASSUME NEW k \in Attempts!Keys(rs),
                    Attempts!Failing(k) # {} \/ Attempts!FailedBefore(k)
             PROVE  \E a \in last.attempts :
                       LET quotes == a.result.quotes IN
                       /\ a.key = k
                       /\ \A i \in DOMAIN rs : Attempts!IsLast(i, Attempts!RunsOf(k)) =>
                             a.ok = rs[i].ok /\ quotes[Len(quotes)] = rs[i].output
                       /\ IF Attempts!FailedBefore(k)
                          THEN quotes[1] = last.before[k].result.quotes[1]
                          ELSE \A i \in DOMAIN rs : Attempts!IsFirst(i, Attempts!Failing(k)) =>
                                  quotes[1] = rs[i].output
  BY Zenon DEF Attempts!EndpointsAreKept
<1> DEFINE I == Attempts!Promoted(rs, k)
           g == Attempts!Group(rs, k, failed)
           a == Attempts!AttemptOf(g)
<1>1. rs \in Seq(Attempts!RunEvent) /\ Texts(last.before)
      /\ last.attempts = Attempts!Coalesced(rs, failed)
  BY DEF LastIsTrue
<1>2. GroupFacts(rs, failed, k, g) /\ g \in Attempts!Groups(rs, failed)
  BY <1>1, GroupOfKey
<1>3. /\ k \in DOMAIN failed <=> Attempts!FailedBefore(k)
      /\ k \in DOMAIN failed =>
            failed[k] = last.before[k].result /\ failed[k] \in QuotedText
            /\ failed[k].quotes # <<>>
  BY <1>1, EarlierFailures DEF Attempts!FailedBefore
<1>4. I # {} /\ I \in SUBSET Nat /\ I \in SUBSET (DOMAIN rs)
  BY <1>1, KeysAreRun
<1>5. Attempts!Failing(k) = Failed(rs, I) /\ Attempts!RunsOf(k) = I
  BY DEF Attempts!Failing, Attempts!RunsOf, Failed
<1>6. a.key = g.key /\ a.ok = g.ok /\ a.result = Attempts!ResultText(g)
  BY AttemptOfGroup
<1> HIDE DEF g, I, failed
<1>7. Attempts!MustKeep(g)
  <2>1. CASE k \in DOMAIN failed
    BY <1>2, <2>1 DEF Attempts!MustKeep, GroupFacts, Tells
  <2>2. CASE k \notin DOMAIN failed
    <3>1. Failed(rs, I) # {}
      BY <1>3, <1>5, <2>2
    <3>2. PICK i \in I : g.first = Attempts!Raw(rs[i].output)
      BY <1>2, <2>2, <3>1 DEF GroupFacts, Tells, FirstFailure, I
    <3>3. g.first # Attempts!NoText
      BY <3>2 DEF Attempts!Raw, Attempts!NoText
    <3>4. QED BY <3>3 DEF Attempts!MustKeep
  <2>3. QED BY <2>1, <2>2
<1>8. a \in last.attempts
  BY <1>1, <1>2, <1>7 DEF Attempts!Coalesced, Attempts!Kept, failed
<1>9. \A i \in I : rs[i] \in Attempts!RunEvent
  BY <1>1, <1>4
<1>10. Quotes(rs, k, failed, I, rs[g.last].output, Attempts!ResultText(g))
  <2>1. Tells(rs, k, failed, I, g)
    BY <1>2 DEF GroupFacts, I
  <2>2. k \in DOMAIN failed => failed[k] \in QuotedText /\ failed[k].quotes # <<>>
    BY <1>3
  <2>3. I \in SUBSET Nat /\ I # {}
    BY <1>4
  <2> HIDE DEF rs
  <2>4. QED BY <1>9, <2>1, <2>2, <2>3, ResultQuotes
<1> HIDE DEF a, rs
<1>11. \A i \in DOMAIN rs : Attempts!IsLast(i, I) => i = g.last
  <2>1. LastOf(g.last, I)
    BY <1>2 DEF GroupFacts, I
  <2> SUFFICES ASSUME NEW i \in DOMAIN rs, Attempts!IsLast(i, I) PROVE i = g.last
    OBVIOUS
  <2>2. i \in I /\ g.last \in I /\ i <= g.last /\ g.last <= i
    BY <2>1 DEF LastOf, Attempts!IsLast
  <2>3. i \in Nat /\ g.last \in Nat
    BY <1>4, <2>2
  <2>4. QED BY <2>2, <2>3
<1>12. \A i \in DOMAIN rs : Attempts!IsLast(i, Attempts!RunsOf(k)) =>
          a.ok = rs[i].ok /\ a.result.quotes[Len(a.result.quotes)] = rs[i].output
  BY <1>2, <1>5, <1>6, <1>10, <1>11 DEF GroupFacts, Quotes
<1>13. IF Attempts!FailedBefore(k)
       THEN a.result.quotes[1] = last.before[k].result.quotes[1]
       ELSE \A i \in DOMAIN rs : Attempts!IsFirst(i, Attempts!Failing(k)) =>
               a.result.quotes[1] = rs[i].output
  BY <1>3, <1>5, <1>6, <1>10 DEF Attempts!IsFirst, FirstOf, Failed, Quotes
<1>14. a.key = k
  BY <1>2, <1>6 DEF GroupFacts
<1>15. QED BY <1>8, <1>12, <1>13, <1>14, Zenon DEF rs

LEMMA FailuresFailed == ASSUME Attempts!AttemptsAssumption, LastIsTrue
                        PROVE  Attempts!OnlyFailuresFail
<1> SUFFICES ASSUME NEW a \in last.attempts, ~a.ok
             PROVE  \E i \in Attempts!RunsOf(a.key) :
                       LET e == last.runs[i] IN
                       ~e.ok /\ (e.probe /\ e.kind = "command_result" =>
                                    e.verification \/ e.salient)
  BY Zenon DEF Attempts!OnlyFailuresFail
<1>1. last.runs \in Seq(Attempts!RunEvent)
  BY DEF LastIsTrue
<1>2. PICK k \in Attempts!Keys(last.runs) : \E g :
         /\ GroupFacts(last.runs, Attempts!PreviouslyFailed(last.before), k, g)
         /\ a.key = k /\ a.ok = g.ok
  BY AttemptsAreGroups DEF LastIsTrue
<1>3. PICK g :
         /\ GroupFacts(last.runs, Attempts!PreviouslyFailed(last.before), k, g)
         /\ a.key = k /\ a.ok = g.ok
  BY <1>2
<1>4. g.last \in Attempts!Promoted(last.runs, k) /\ ~last.runs[g.last].ok
  BY <1>3 DEF GroupFacts, LastOf
<1> DEFINE e == last.runs[g.last]
<1>5. e \in Attempts!RunEvent /\ Attempts!Considered(e)
  BY <1>1, <1>4 DEF Attempts!Promoted
<1> HIDE DEF e
<1>6. Attempts!Classify(e) # None /\ ~e.ok
  BY <1>4, <1>5 DEF Attempts!Considered, Attempts!ClosesFailure, e
<1>7. e.probe /\ e.kind = "command_result" => e.verification \/ e.salient
  BY <1>5, <1>6 DEF Attempts!Classify, Attempts!NeutralProbe, Attempts!RunEvent
<1>8. QED BY <1>3, <1>4, <1>6, <1>7 DEF Attempts!RunsOf, e

\* Of things that come one after the other, each kept unless enough come later:
\* if there are enough of them, then enough are kept.
LEMMA EnoughAreKept ==
    ASSUME NEW H, IsFiniteSet(H), NEW K \in SUBSET H, NEW q \in Nat, Cardinality(H) >= q,
           NEW n \in Nat, \A h \in H : h.last \in Nat /\ h.last <= n,
           \A h \in H : Cardinality({x \in H : x.last > h.last}) < q => h \in K
    PROVE  Cardinality(K) >= q
<1>1. CASE H \ K = {}
  BY <1>1, K = H
<1>2. CASE H \ K # {}
  <2> DEFINE Ranks == {n - x.last : x \in H \ K}
  <2>1. Ranks \in SUBSET Nat /\ Ranks # {}
    BY <1>2
  <2>2. PICK p \in Ranks : \A m \in Ranks : p <= m
    BY <2>1, LeastOfNaturals
  <2>3. PICK h \in H \ K : p = n - h.last
    OBVIOUS
  <2>4. \A x \in H \ K : n - h.last <= n - x.last
    BY <2>2, <2>3
  <2>5. \A x \in H \ K : x.last <= h.last
    BY <2>4
  <2> DEFINE L == {x \in H : x.last > h.last}
  <2>6. L \in SUBSET K
    BY <2>5
  <2>7. IsFiniteSet(K)
    BY FS_Subset
  <2>8. Cardinality(L) <= Cardinality(K)
    BY <2>6, <2>7, FS_Subset
  <2>9. IsFiniteSet(L)
    BY <2>6, <2>7, FS_Subset
  <2>10. ~(Cardinality(L) < q)
    BY <2>3
  <2> HIDE DEF L
  <2>11. Cardinality(L) \in Nat /\ Cardinality(K) \in Nat
    BY <2>7, <2>9, FS_CardinalityType
  <2>12. QED BY <2>8, <2>10, <2>11
<1>3. QED BY <1>1, <1>2

LEMMA GroupsAreFinite ==
    ASSUME NEW rs \in Seq(Attempts!RunEvent), NEW failed
    PROVE  IsFiniteSet(Attempts!Keys(rs)) /\ IsFiniteSet(Attempts!Groups(rs, failed))
<1> DEFINE D == {i \in DOMAIN rs : Attempts!Considered(rs[i])}
           f == [i \in D |-> Attempts!AttemptKey(rs[i])]
           g == [k \in Attempts!Keys(rs) |-> Attempts!Group(rs, k, failed)]
<1>1. IsFiniteSet(D)
  <2>1. DOMAIN rs = 1..Len(rs) /\ Len(rs) \in Int
    OBVIOUS
  <2>2. IsFiniteSet(DOMAIN rs)
    BY <2>1, FS_Interval
  <2>3. QED BY <2>2, FS_Subset
<1>2. f \in Surjection(D, Attempts!Keys(rs))
  BY DEF Surjection, Attempts!Keys
<1> HIDE DEF D, f
<1>3. IsFiniteSet(Attempts!Keys(rs))
  BY <1>1, <1>2, FS_Surjection
<1>4. g \in Surjection(Attempts!Keys(rs), Attempts!Groups(rs, failed))
  BY DEF Surjection, Attempts!Groups
<1> HIDE DEF g
<1>5. IsFiniteSet(Attempts!Groups(rs, failed))
  BY <1>3, <1>4, FS_Surjection
<1>6. QED BY <1>3, <1>5

\* What need not be kept never failed, now or before.
LEMMA PlainGroups ==
    ASSUME NEW rs, NEW failed, NEW k, NEW g, GroupFacts(rs, failed, k, g)
    PROVE  ~Attempts!MustKeep(g)
              <=> k \notin DOMAIN failed /\ Failed(rs, Attempts!Promoted(rs, k)) = {}
<1> DEFINE I == Attempts!Promoted(rs, k)
<1>1. g.previously = (k \in DOMAIN failed) /\ FirstFailure(rs, k, failed, I, g.first)
  BY DEF GroupFacts, Tells
<1>2. g.last \in I /\ g.ok = rs[g.last].ok
  BY DEF GroupFacts, LastOf
<1> HIDE DEF I
<1>3. CASE k \in DOMAIN failed
  BY <1>1, <1>3 DEF Attempts!MustKeep
<1>4. CASE k \notin DOMAIN failed /\ Failed(rs, I) # {}
  <2>1. PICK i \in I : g.first = Attempts!Raw(rs[i].output)
    BY <1>1, <1>4 DEF FirstFailure
  <2>2. g.first # Attempts!NoText
    BY <2>1 DEF Attempts!Raw, Attempts!NoText
  <2>3. QED BY <1>4, <2>2 DEF Attempts!MustKeep, I
<1>5. CASE k \notin DOMAIN failed /\ Failed(rs, I) = {}
  <2>1. g.first = Attempts!NoText
    BY <1>1, <1>5 DEF FirstFailure
  <2>2. g.ok
    BY <1>2, <1>5 DEF Failed
  <2>3. QED BY <1>1, <1>5, <2>1, <2>2 DEF Attempts!MustKeep, I
<1>6. QED BY <1>3, <1>4, <1>5 DEF I

\* Successful verifications come in the order of their last runs.
LEMMA VerificationsByTime ==
    ASSUME NEW g, NEW h, ~Attempts!MustKeep(g), ~Attempts!MustKeep(h),
           g.reason = "verification", h.reason = "verification"
    PROVE  Attempts!Before(g, h) <=> g.last > h.last
<1>1. Attempts!Priority(g) = 2 /\ Attempts!Priority(h) = 2
  BY DEF Attempts!MustKeep, Attempts!Priority
<1>2. QED BY <1>1 DEF Attempts!Before

\* CheckpointAttempts counts as this module does.
LEMMA SameCount == \A S : Attempts!Cardinality(S) = Cardinality(S)
BY Zenon DEF Attempts!Cardinality, Cardinality

\* A successful verification is kept unless enough others come later.
LEMMA KeptVerification ==
    ASSUME NEW G, NEW g \in G, ~Attempts!MustKeep(g), g.reason = "verification"
    PROVE  g \in Attempts!Kept(G)
              <=> Cardinality({h \in G : /\ ~Attempts!MustKeep(h) /\ h.reason = g.reason
                                         /\ Attempts!Before(h, g)}) < Quota
<1> DEFINE later(x) == {h \in G : /\ ~Attempts!MustKeep(h) /\ h.reason = x.reason
                                  /\ Attempts!Before(h, x)}
<1>1. Attempts!Kept(G) =
         {x \in G : \/ Attempts!MustKeep(x)
                    \/ /\ x.reason \in {"verification", "explicit_salience"}
                       /\ Attempts!Cardinality(later(x)) < Quota}
  BY Zenon DEF Attempts!Kept
<1> HIDE DEF later
<1>2. g \in Attempts!Kept(G) <=> Cardinality(later(g)) < Quota
  BY <1>1, SameCount
<1>3. QED BY <1>2 DEF later

LEMMA QuotaIsFair == ASSUME Attempts!AttemptsAssumption, LastIsTrue
                     PROVE  Attempts!QuotaDropsTheOldest
<1> DEFINE rs == last.runs
           failed == Attempts!PreviouslyFailed(last.before)
           recorded == {a.key : a \in last.attempts}
           plain(j) == Attempts!Failing(j) = {} /\ ~Attempts!FailedBefore(j)
           verified(j) == \E i \in Attempts!RunsOf(j) : Attempts!Classify(rs[i]) = "verification"
           later(j, m) == \E i \in Attempts!RunsOf(j) : \A n \in Attempts!RunsOf(m) : n < i
<1> SUFFICES ASSUME NEW k \in Attempts!Keys(rs) \ recorded, plain(k), verified(k)
             PROVE  Attempts!Cardinality({j \in recorded :
                                            plain(j) /\ verified(j) /\ later(j, k)})
                       >= Quota
  BY Zenon DEF Attempts!QuotaDropsTheOldest
<1> DEFINE G == Attempts!Groups(rs, failed)
           g == Attempts!Group(rs, k, failed)
           H == {h \in G : /\ ~Attempts!MustKeep(h) /\ h.reason = g.reason
                           /\ Attempts!Before(h, g)}
           K == H \cap Attempts!Kept(G)
           T == {j \in recorded : plain(j) /\ verified(j) /\ later(j, k)}
<1>1. rs \in Seq(Attempts!RunEvent) /\ Texts(last.before)
      /\ last.attempts = {Attempts!AttemptOf(h) : h \in Attempts!Kept(G)}
  BY DEF LastIsTrue, Attempts!Coalesced
<1>2. \A j \in Attempts!Keys(rs) : /\ GroupFacts(rs, failed, j, Attempts!Group(rs, j, failed))
                                  /\ Attempts!Group(rs, j, failed) \in G
  BY <1>1, GroupOfKey
<1>3. \A j, h : GroupFacts(rs, failed, j, h) =>
         /\ ~Attempts!MustKeep(h) <=> plain(j)
         /\ h.reason = "verification" <=> verified(j)
  <2> SUFFICES ASSUME NEW j, NEW h, GroupFacts(rs, failed, j, h)
               PROVE  /\ ~Attempts!MustKeep(h) <=> plain(j)
                      /\ h.reason = "verification" <=> verified(j)
    OBVIOUS
  <2>1. j \in DOMAIN failed <=> Attempts!FailedBefore(j)
    BY <1>1, EarlierFailures DEF Attempts!FailedBefore
  <2>2. Attempts!Failing(j) = Failed(rs, Attempts!Promoted(rs, j))
    BY DEF Attempts!Failing, Attempts!RunsOf, Failed
  <2>3. ~Attempts!MustKeep(h) <=> plain(j)
    BY <2>1, <2>2, PlainGroups
  <2>4. h.reason = "verification" <=> verified(j)
    BY DEF GroupFacts, Tells, Verifies, Attempts!RunsOf
  <2>5. QED BY <2>3, <2>4
<1>4. \A h \in G : \E j \in Attempts!Keys(rs) : GroupFacts(rs, failed, j, h)
  BY <1>2 DEF Attempts!Groups
<1>5. Quota \in Nat
  BY DEF Attempts!AttemptsAssumption
<1>6. IsFiniteSet(G) /\ IsFiniteSet(Attempts!Keys(rs))
  BY <1>1, GroupsAreFinite
<1>7. IsFiniteSet(H) /\ Cardinality(H) \in Nat
  <2>1. IsFiniteSet(H)
    BY <1>6, FS_Subset
  <2> HIDE DEF H
  <2>2. QED BY <2>1, FS_CardinalityType
<1>8. GroupFacts(rs, failed, k, g) /\ g \in G /\ ~Attempts!MustKeep(g)
      /\ g.reason = "verification"
  BY <1>2, <1>3
<1>9. Cardinality(H) >= Quota
  <2>1. g \notin Attempts!Kept(G)
    <3> SUFFICES ASSUME g \in Attempts!Kept(G) PROVE FALSE
      OBVIOUS
    <3>1. Attempts!AttemptOf(g) \in last.attempts
      BY <1>1
    <3>2. Attempts!AttemptOf(g).key = k
      BY <1>8, AttemptOfGroup DEF GroupFacts
    <3>3. k \in recorded
      BY <3>1, <3>2
    <3>4. QED BY <3>3
  <2>2. ~(Cardinality(H) < Quota)
    BY <1>8, <2>1, KeptVerification
  <2> HIDE DEF H
  <2>3. QED BY <1>5, <1>7, <2>2
<1> HIDE DEF g, G, rs, failed
<1>10. \A h \in H : /\ ~Attempts!MustKeep(h) /\ h.reason = "verification" /\ h \in G
                    /\ h.last > g.last
  BY <1>8, VerificationsByTime
<1>11. \A h \in G : h.last \in Nat /\ h.last <= Len(rs)
  <2> SUFFICES ASSUME NEW h \in G PROVE h.last \in Nat /\ h.last <= Len(rs)
    OBVIOUS
  <2>1. PICK j \in Attempts!Keys(rs) : GroupFacts(rs, failed, j, h)
    BY <1>4
  <2>2. h.last \in DOMAIN rs
    BY <1>1, <2>1, KeysAreRun DEF GroupFacts, LastOf
  <2>3. QED BY <1>1, <2>2
<1>12. \A h \in H : Cardinality({x \in H : x.last > h.last}) < Quota => h \in K
  <2> SUFFICES ASSUME NEW h \in H, Cardinality({x \in H : x.last > h.last}) < Quota
               PROVE  h \in K
    OBVIOUS
  <2>1. {x \in G : /\ ~Attempts!MustKeep(x) /\ x.reason = h.reason /\ Attempts!Before(x, h)}
           = {x \in H : x.last > h.last}
    <3>1. \A x \in H : x.last > h.last <=> Attempts!Before(x, h)
      BY <1>10, VerificationsByTime
    <3>2. \A x \in G : ~Attempts!MustKeep(x) /\ x.reason = h.reason /\ Attempts!Before(x, h)
                          => x \in H
      <4> SUFFICES ASSUME NEW x \in G, ~Attempts!MustKeep(x), x.reason = h.reason,
                          Attempts!Before(x, h)
                   PROVE  x \in H
        OBVIOUS
      <4>1. x.reason = "verification" /\ x.last > h.last /\ h.last > g.last
        BY <1>10, VerificationsByTime
      <4>2. x.last > g.last
        BY <1>8, <1>10, <1>11, <4>1
      <4>3. QED BY <1>8, <4>1, <4>2, VerificationsByTime
    <3>3. \A x \in H : ~Attempts!MustKeep(x) /\ x.reason = h.reason /\ x \in G
      BY <1>10
    <3> HIDE DEF H
    <3>4. QED BY <3>1, <3>2, <3>3
  <2>2. h \in G /\ h.reason = "verification"
    BY <1>10
  <2>3. h \in Attempts!Kept(G)
    BY <1>10, <2>1, <2>2, KeptVerification
  <2>4. QED BY <2>3
<1>13. Cardinality(K) >= Quota
  <2>1. Len(rs) \in Nat
    BY <1>1
  <2>2. \A h \in H : h.last \in Nat /\ h.last <= Len(rs)
    BY <1>10, <1>11
  <2>3. K \in SUBSET H
    OBVIOUS
  <2> HIDE DEF H, K
  <2>4. QED BY <1>5, <1>7, <1>9, <1>12, <2>1, <2>2, <2>3, EnoughAreKept
<1>14. Cardinality(K) <= Cardinality(T) /\ Cardinality(K) \in Nat /\ Cardinality(T) \in Nat
  <2>1. \A h \in K : GroupFacts(rs, failed, h.key, h) /\ h.key \in Attempts!Keys(rs)
    BY <1>4, <1>10 DEF GroupFacts
  <2>2. recorded \in SUBSET Attempts!Keys(rs)
    <3> SUFFICES ASSUME NEW a \in last.attempts PROVE a.key \in Attempts!Keys(rs)
      OBVIOUS
    <3>1. PICK h \in Attempts!Kept(G) : a = Attempts!AttemptOf(h)
      BY <1>1
    <3>2. h \in G
      BY <3>1 DEF Attempts!Kept
    <3>3. QED BY <1>4, <3>1, <3>2, AttemptOfGroup DEF GroupFacts
  <2>3. IsFiniteSet(T)
    <3>1. T \in SUBSET Attempts!Keys(rs)
      BY <2>2
    <3> HIDE DEF T
    <3>2. QED BY <1>6, <3>1, FS_Subset
  <2>4. ASSUME NEW h \in K PROVE h.key \in T
    <3>1. GroupFacts(rs, failed, h.key, h) /\ h \in Attempts!Kept(G)
      BY <2>1
    <3>2. h.key \in recorded
      BY <1>1, <3>1, AttemptOfGroup
    <3>3. plain(h.key) /\ verified(h.key)
      BY <1>3, <1>10, <3>1
    <3>4. later(h.key, k)
      <4>1. h.last \in Attempts!RunsOf(h.key)
        BY <3>1 DEF GroupFacts, LastOf, Attempts!RunsOf, rs
      <4>2. \A n \in Attempts!RunsOf(k) : n <= g.last
        BY <1>8 DEF GroupFacts, LastOf, Attempts!RunsOf, rs
      <4>3. Attempts!RunsOf(k) \in SUBSET Nat
        BY <1>1, KeysAreRun DEF Attempts!RunsOf, rs
      <4>4. h.last \in Nat /\ g.last \in Nat /\ h.last > g.last
        BY <1>8, <1>10, <1>11
      <4>5. \A n \in Attempts!RunsOf(k) : n < h.last
        BY <4>2, <4>3, <4>4
      <4>6. QED BY <4>1, <4>5
    <3>5. QED BY <3>2, <3>3, <3>4
  <2> DEFINE f == [h \in K |-> h.key]
  <2>5. \A x, y \in K : x.key = y.key => x = y
    BY <2>1 DEF GroupFacts
  <2> HIDE DEF K, T
  <2>6. f \in Injection(K, T)
    BY <2>4, <2>5 DEF Injection, IsInjective
  <2> HIDE DEF f
  <2>7. IsFiniteSet(K) /\ Cardinality(K) <= Cardinality(T)
    BY <2>3, <2>6, FS_Injection
  <2>8. QED BY <2>3, <2>7, FS_CardinalityType
<1> HIDE DEF K
<1>15. Attempts!Cardinality(T) >= Quota
  <2> HIDE DEF T
  <2> QED BY <1>5, <1>13, <1>14, SameCount
<1>16. QED BY <1>15 DEF rs, T

LEMMA AttemptsInit == ASSUME Attempts!Init PROVE AttemptsInv
<1>1. /\ runs = <<>> /\ heads = <<>> /\ observed = 0
      /\ last.runs = <<>> /\ last.before = <<>> /\ last.attempts = {}
  BY DEF Attempts!Init, Attempts!NoCheckpoint
<1>2. Texts(heads) /\ Texts(last.before)
  BY <1>1 DEF Texts
<1>3. \A failed : Attempts!Coalesced(<<>>, failed) = {}
  BY DEF Attempts!Coalesced, Attempts!Kept, Attempts!Groups, Attempts!Keys
<1>4. QED BY <1>1, <1>2, <1>3 DEF AttemptsInv, LastIsTrue

LEMMA RecordedTexts ==
    ASSUME Attempts!AttemptsAssumption, NEW rs \in Seq(Attempts!RunEvent), NEW h, Texts(h),
           NEW A, A = Attempts!Coalesced(rs, Attempts!PreviouslyFailed(h))
    PROVE  Texts(Attempts!Recorded(h, A))
<1> DEFINE keys == {a.key : a \in A}
           of(k) == CHOOSE a \in A : a.key = k
           new == Attempts!Recorded(h, A)
<1>1. new = [k \in keys \cup DOMAIN h |->
                IF k \in keys THEN [ok |-> of(k).ok, result |-> of(k).result] ELSE h[k]]
  BY Zenon DEF Attempts!Recorded
<1>2. \A k \in keys : of(k) \in A
  OBVIOUS
<1>3. ASSUME NEW a \in A PROVE a.result \in QuotedText /\ a.result.quotes # <<>>
  <2>1. PICK k \in Attempts!Keys(rs) : \E g :
           /\ GroupFacts(rs, Attempts!PreviouslyFailed(h), k, g)
           /\ a.result = Attempts!ResultText(g)
    BY AttemptsAreGroups
  <2>2. PICK g : /\ GroupFacts(rs, Attempts!PreviouslyFailed(h), k, g)
                 /\ a.result = Attempts!ResultText(g)
    BY <2>1
  <2> DEFINE I == Attempts!Promoted(rs, k)
             failed == Attempts!PreviouslyFailed(h)
  <2>3. I # {} /\ I \in SUBSET Nat /\ I \in SUBSET (DOMAIN rs)
    BY KeysAreRun
  <2>4. \A i \in I : rs[i] \in Attempts!RunEvent
    BY <2>3
  <2>5. k \in DOMAIN failed => failed[k] \in QuotedText /\ failed[k].quotes # <<>>
    BY EarlierFailures
  <2>6. Tells(rs, k, failed, I, g)
    BY <2>2 DEF GroupFacts
  <2> HIDE DEF I, failed
  <2>7. Quotes(rs, k, failed, I, rs[g.last].output, Attempts!ResultText(g))
    BY <2>3, <2>4, <2>5, <2>6, ResultQuotes
  <2>8. QED BY <2>2, <2>7 DEF Quotes
<1> HIDE DEF keys, of, new
<1>4. ASSUME NEW k \in DOMAIN new
      PROVE  new[k].result \in QuotedText /\ new[k].result.quotes # <<>>
  <2>1. CASE k \in keys
    <3>1. new[k] = [ok |-> of(k).ok, result |-> of(k).result]
      BY <1>1, <2>1
    <3>2. QED BY <1>2, <1>3, <2>1, <3>1
  <2>2. CASE k \notin keys
    <3>1. k \in DOMAIN h /\ new[k] = h[k]
      BY <1>1, <1>4, <2>2
    <3>2. QED BY <3>1 DEF Texts
  <2>3. QED BY <2>1, <2>2
<1>5. QED BY <1>4 DEF Texts, new

\* A run that gets its event is a run.
LEMMA StoredRun ==
    ASSUME NEW e \in Attempts!RunEvent, NEW n \in Nat
    PROVE  [e EXCEPT !.id = n] \in Attempts!RunEvent
<1> DEFINE r == [e EXCEPT !.id = n]
<1>1. e = [id |-> e.id, kind |-> e.kind, command |-> e.command, fingerprint |-> e.fingerprint,
           ok |-> e.ok, probe |-> e.probe, verification |-> e.verification,
           salient |-> e.salient, output |-> e.output]
  BY DEF Attempts!RunEvent
<1>2. r = [id |-> n, kind |-> e.kind, command |-> e.command, fingerprint |-> e.fingerprint,
           ok |-> e.ok, probe |-> e.probe, verification |-> e.verification,
           salient |-> e.salient, output |-> e.output]
  BY <1>1
<1> HIDE DEF r
<1>3. r \in Attempts!RunEvent
  BY <1>2 DEF Attempts!RunEvent
<1>4. QED BY <1>3 DEF r

LEMMA AttemptsStep ==
    ASSUME Attempts!AttemptsAssumption, AttemptsInv, [Attempts!Next]_(Attempts!vars)
    PROVE  AttemptsInv'
<1>1. CASE UNCHANGED Attempts!vars
  BY <1>1 DEF AttemptsInv, LastIsTrue, Attempts!vars
<1>2. ASSUME NEW e \in Observed, Attempts!Observe(e) PROVE AttemptsInv'
  <2>1. /\ observed' = observed + 1 /\ heads' = heads /\ last' = last
        /\ runs' = Append(runs, [e EXCEPT !.id = observed + 1])
    BY <1>2 DEF Attempts!Observe
  <2>2. e \in Attempts!RunEvent /\ observed \in Nat /\ runs \in Seq(Attempts!RunEvent)
    BY DEF Attempts!AttemptsAssumption, AttemptsInv
  <2>3. [e EXCEPT !.id = observed + 1] \in Attempts!RunEvent
    BY <2>2, StoredRun
  <2>4. runs' \in Seq(Attempts!RunEvent) /\ observed' \in Nat
    BY <2>1, <2>2, <2>3
  <2>5. Texts(heads') /\ LastIsTrue'
    BY <2>1 DEF AttemptsInv, LastIsTrue
  <2>6. QED BY <2>4, <2>5 DEF AttemptsInv
<1>3. CASE Attempts!Prompt
  BY <1>3 DEF Attempts!Prompt, AttemptsInv, LastIsTrue
<1>4. CASE Attempts!Checkpoint
  <2> DEFINE A == Attempts!Coalesced(runs, Attempts!PreviouslyFailed(heads))
             refused == \E a \in A : Len(a.result.quotes) > MaxText
  <2>1. /\ last' = [runs |-> runs, before |-> heads, attempts |-> A, refused |-> refused]
        /\ heads' = IF refused THEN heads ELSE Attempts!Recorded(heads, A)
        /\ runs' = IF refused THEN runs ELSE <<>>
        /\ observed' = observed
    BY <1>4, Zenon DEF Attempts!Checkpoint
  <2> HIDE DEF A, refused
  <2>2. runs \in Seq(Attempts!RunEvent) /\ observed \in Nat /\ Texts(heads)
    BY DEF AttemptsInv
  <2>3. Texts(Attempts!Recorded(heads, A))
    BY <2>2, RecordedTexts DEF A
  <2>4. LastIsTrue'
    BY <2>1, <2>2 DEF LastIsTrue, A
  <2>5. Texts(heads') /\ runs' \in Seq(Attempts!RunEvent)
    BY <2>1, <2>2, <2>3
  <2>6. QED BY <2>1, <2>2, <2>4, <2>5 DEF AttemptsInv
<1>5. QED BY <1>1, <1>2, <1>3, <1>4 DEF Attempts!Next

\* PromotionIsFaithful of CheckpointAttempts, for any commands, outputs and
\* quota and for turns and sessions of any length: the memory of what failed,
\* now or before, quotes its first failure and its last output and says how the
\* last run ended; nothing is recorded as failed that was not a failure; and a
\* success is left out only for enough later ones of its kind (engine.rs
\* coalesce_checkpoint_attempts).
THEOREM CheckpointsPromoteFaithfully ==
    ASSUME Attempts!AttemptsAssumption
    PROVE  Attempts!Spec => []PromotionIsFaithful
<1>1. Attempts!Init => AttemptsInv
  BY AttemptsInit
<1>2. AttemptsInv /\ [Attempts!Next]_(Attempts!vars) => AttemptsInv'
  BY AttemptsStep
<1>3. AttemptsInv => PromotionIsFaithful
  BY EndpointsKept, FailuresFailed, QuotaIsFair
     DEF AttemptsInv, PromotionIsFaithful, Attempts!PromotionIsFaithful
<1>4. QED BY <1>1, <1>2, <1>3, PTL DEF Attempts!Spec
=============================================================================
