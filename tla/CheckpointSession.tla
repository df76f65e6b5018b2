------------------------- MODULE CheckpointSession -------------------------
(***************************************************************************)
(* checkpoint_session of engine.rs, as the Stop hooks of a coding harness  *)
(* drive it.  A delivery first collects, holding the engine's lock but no  *)
(* transaction, the slice of session events it will cite and the attempts  *)
(* they amount to; the lock is dropped; then checkpoint compares the       *)
(* fingerprint of the enriched request with the receipt of its idempotency *)
(* key and inserts, all in one transaction.  Other processes of the same   *)
(* harness keep appending events in between, a process may die before it   *)
(* commits, and a harness may deliver the same stop event again.           *)
(*                                                                         *)
(* One durable scope.  The key of a delivery fixes its session and summary *)
(* (hook_idempotency_key); the artifacts a hook captures from the worktree *)
(* are assumed to be the same at every delivery.                           *)
(***************************************************************************)
EXTENDS Integers, Sequences, FiniteSets, FiniteSetsExt

CONSTANTS
    Session,      \* session identifiers
    Delivery,     \* hook processes that deliver a stop event
    StopKey,      \* idempotency keys of stop events
    SessionOf,    \* the session of each stop event
    Command,      \* command identities of tool results
    Observed,     \* the events the hooks of the instance observe
    None,         \* no command, no stop event
    SliceLimit,   \* LIMIT 128 of the slice query
    MaxEvents     \* bound: events in the log

ASSUME SessionAssumption ==
    /\ SessionOf \in [StopKey -> Session]
    /\ None \notin Command \cup StopKey
    /\ SliceLimit \in Nat \ {0}
    /\ MaxEvents \in Nat

EventKind == {"conversation_turn", "command_result", "verification", "checkpoint"}
Event == [session: Session, kind: EventKind, command: Command \cup {None}, ok: BOOLEAN]

\* What harness hooks can observe: a user prompt, a command, a test run.
Observable ==
    [session: Session, kind: {"conversation_turn"}, command: {None}, ok: {TRUE}] \cup
    [session: Session, kind: {"command_result", "verification"}, command: Command, ok: BOOLEAN]

ASSUME ObservedAssumption == Observed \subseteq Observable

Seqs == 1..MaxEvents
\* A coalesced attempt: the final result of a command, its first failure (the
\* event or earlier outcome that holds it, 0 if none) and the observed runs.
Attempt == [command: Command, ok: BOOLEAN, firstFailure: 0..MaxEvents, runs: Seqs]
\* What of the enriched request differs between two deliveries of one key.
Enriched == [evidence: SUBSET Seqs, attempts: SUBSET Attempt]
\* A revision of the outcome memory of a command.
Outcome == [command: Command, ok: BOOLEAN, seq: Seqs]
Receipt == [key: StopKey, print: Enriched, seq: Seqs, collectedAt: 0..MaxEvents]

VARIABLES
    events,       \* the event log
    outcomes,     \* revisions of the outcome memories, one head per command
    receipts,     \* idempotency rows of operation 'checkpoint'
    phase,        \* progress of each delivery
    handling,     \* the stop event a delivery handles, or None
    draft,        \* the enriched request of a delivery that collected
    collectedAt   \* history: the length of the log when a delivery collected

vars == <<events, outcomes, receipts, phase, handling, draft, collectedAt>>

Nothing == [evidence |-> {}, attempts |-> {}]

----------------------------------------------------------------------------
(* Collecting the slice *)

\* The rows of the slice query: the latest SliceLimit events of the session
\* before the boundary.
Rows(s, before) ==
    LET all == {i \in DOMAIN events : events[i].session = s /\ i < before}
    IN {i \in all : Cardinality({j \in all : j > i}) < SliceLimit}

IsPrompt(i) == events[i].kind = "conversation_turn"
IsCheckpoint(i) == events[i].kind = "checkpoint"

\* Mutants: the walk goes past a checkpoint; past the prompt.
SlicePastCheckpoint(s, before) ==
    {i \in Rows(s, before) :
        ~IsCheckpoint(i) /\ \A j \in Rows(s, before) : j > i => ~IsPrompt(j)}
SlicePastPrompt(s, before) ==
    {i \in Rows(s, before) :
        ~IsCheckpoint(i) /\ \A j \in Rows(s, before) : j > i => ~IsCheckpoint(j)}
\* Walking back from the newest row: up to a checkpoint, which is left out, or
\* a user prompt, which is the last one taken.
Slice(s, before) ==
    {i \in Rows(s, before) :
        /\ ~IsCheckpoint(i)
        /\ \A j \in Rows(s, before) : j > i => ~IsCheckpoint(j) /\ ~IsPrompt(j)}

\* The seq of the failed outcome a command has before the boundary, or 0:
\* the latest revision counts, and only while it is a failure.
\* (load_failed_checkpoint_attempts; one head per command and none retracted.
\* FailedAttempts models the lookup over heads that are.)
PreviousFailure(c, before) ==
    LET earlier == {o \in outcomes : o.command = c /\ o.seq < before}
        failed == {o.seq : o \in {p \in earlier : ~p.ok}}
    IN IF \E o \in earlier : ~o.ok /\ \A p \in earlier : p.seq <= o.seq
       THEN Max(failed) ELSE 0

Runs(slice, c) == {i \in slice : events[i].command = c}
IsVerified(slice, c) == \E i \in Runs(slice, c) : events[i].kind = "verification"
Failures(slice, c) == {i \in Runs(slice, c) : ~events[i].ok}

\* Mutant: a success of a command that failed before is an ordinary success.
PromotedUnclosed(slice, c, previous) ==
    IsVerified(slice, c) \/ Failures(slice, c) # {}
\* A command becomes an attempt if it was verified, failed, or has failed
\* before; an ordinary success stays evidence.
Promoted(slice, c, previous) ==
    IsVerified(slice, c) \/ Failures(slice, c) # {} \/ previous # 0

AttemptOf(slice, c, previous) ==
    [command |-> c,
     ok |-> events[Max(Runs(slice, c))].ok,
     firstFailure |-> IF previous # 0 THEN previous
                      ELSE IF Failures(slice, c) # {} THEN Min(Failures(slice, c)) ELSE 0,
     runs |-> Cardinality(Runs(slice, c)) + (IF previous # 0 THEN 1 ELSE 0)]

\* coalesce_checkpoint_attempts: one attempt for each command of the slice.
Attempts(slice, before) ==
    {AttemptOf(slice, c, PreviousFailure(c, before)) :
        c \in {k \in {events[i].command : i \in slice} \ {None} :
                 Promoted(slice, k, PreviousFailure(k, before))}}

Enrich(s, before) ==
    [evidence |-> Slice(s, before), attempts |-> Attempts(Slice(s, before), before)]

ReceiptsOf(k) == {r \in receipts : r.key = k}

----------------------------------------------------------------------------
(* Actions *)

\* observe, called by a prompt or tool hook of any session.
Observe ==
    /\ Len(events) < MaxEvents
    /\ \E e \in Observed : events' = Append(events, e)
    /\ UNCHANGED <<outcomes, receipts, phase, handling, draft, collectedAt>>

\* Mutant: a retry collects like a first execution.
CollectAfresh(d, k) ==
    /\ phase[d] = "idle"
    /\ handling' = [handling EXCEPT ![d] = k]
    /\ draft' = [draft EXCEPT ![d] = Enrich(SessionOf[k], Len(events) + 1)]
    /\ phase' = [phase EXCEPT ![d] = "collected"]
    /\ collectedAt' = [collectedAt EXCEPT ![d] = Len(events)]
    /\ UNCHANGED <<events, outcomes, receipts>>

\* First half of checkpoint_session.  Without a receipt the slice ends at the
\* newest event; with one it ends before the original checkpoint and is of the
\* original's session.
Collect(d, k) ==
    /\ phase[d] = "idle"
    /\ handling' = [handling EXCEPT ![d] = k]
    /\ draft' = [draft EXCEPT ![d] =
          IF ReceiptsOf(k) = {}
          THEN Enrich(SessionOf[k], Len(events) + 1)
          ELSE LET r == CHOOSE r \in ReceiptsOf(k) : TRUE
               IN Enrich(events[r.seq].session, r.seq)]
    /\ phase' = [phase EXCEPT ![d] = "collected"]
    /\ collectedAt' = [collectedAt EXCEPT ![d] = Len(events)]
    /\ UNCHANGED <<events, outcomes, receipts>>

\* Second half: the transaction of checkpoint.
Execute(d) ==
    /\ phase[d] = "collected"
    /\ ReceiptsOf(handling[d]) = {}
    /\ Len(events) < MaxEvents
    /\ LET seq == Len(events) + 1 IN
       /\ events' = Append(events, [session |-> SessionOf[handling[d]], kind |-> "checkpoint",
                                    command |-> None, ok |-> TRUE])
       /\ outcomes' = outcomes \cup
             {[command |-> a.command, ok |-> a.ok, seq |-> seq] : a \in draft[d].attempts}
       /\ receipts' = receipts \cup {[key |-> handling[d], print |-> draft[d], seq |-> seq,
                                      collectedAt |-> collectedAt[d]]}
    /\ phase' = [phase EXCEPT ![d] = "executed"]
    /\ UNCHANGED <<handling, draft, collectedAt>>

\* The key has a receipt: of this request, or of a different one.
Answer(d) ==
    /\ phase[d] = "collected"
    /\ \E r \in ReceiptsOf(handling[d]) :
          phase' = [phase EXCEPT ![d] = IF r.print = draft[d] THEN "deduplicated"
                                        ELSE "conflict"]
    /\ UNCHANGED <<events, outcomes, receipts, handling, draft, collectedAt>>

\* The hook process ends or dies; its stop event may be delivered again.
Restart(d) ==
    /\ phase[d] # "idle"
    /\ phase' = [phase EXCEPT ![d] = "idle"]
    /\ handling' = [handling EXCEPT ![d] = None]
    /\ draft' = [draft EXCEPT ![d] = Nothing]
    /\ collectedAt' = [collectedAt EXCEPT ![d] = 0]
    /\ UNCHANGED <<events, outcomes, receipts>>

Init ==
    /\ events = <<>>
    /\ outcomes = {}
    /\ receipts = {}
    /\ phase = [d \in Delivery |-> "idle"]
    /\ handling = [d \in Delivery |-> None]
    /\ draft = [d \in Delivery |-> Nothing]
    /\ collectedAt = [d \in Delivery |-> 0]

Next ==
    \/ Observe
    \/ \E d \in Delivery, k \in StopKey : Collect(d, k)
    \/ \E d \in Delivery : Execute(d)
    \/ \E d \in Delivery : Answer(d)
    \/ \E d \in Delivery : Restart(d)

Spec == Init /\ [][Next]_vars

----------------------------------------------------------------------------
(* Properties *)

\* A stop event that is delivered again, with the same key and body, is
\* recognised: it is deduplicated and never refused as a different request.
RetryIsDeduplicated == \A d \in Delivery : phase[d] # "conflict"

\* A delivery is refused only if something was written between a collection
\* and the commit: by this delivery's collection or by the one that executed.
\* In a harness that writes nothing meanwhile every retry is deduplicated,
\* however many events, checkpoints and outcome revisions follow the original.
ConflictNeedsIntrusion ==
    \A d \in Delivery : phase[d] = "conflict" =>
       \E r \in ReceiptsOf(handling[d]) : \E i \in DOMAIN events :
          Min({collectedAt[d], r.collectedAt}) < i /\ i < r.seq

\* What a checkpoint cites is one stretch of one turn: consecutive events of
\* its session, none a checkpoint, and a prompt only as the first.
EvidenceIsOneTurn ==
    \A r \in receipts : \A i \in r.print.evidence :
       /\ events[i].session = events[r.seq].session
       /\ ~IsCheckpoint(i)
       /\ IsPrompt(i) => \A j \in r.print.evidence : i <= j
       /\ \A j \in i..Max(r.print.evidence) :
             events[j].session = events[r.seq].session => j \in r.print.evidence

\* Nothing was written between the collection and the commit.
Undisturbed(r) == r.seq = r.collectedAt + 1

\* An undisturbed checkpoint leaves no event of its turn behind, except those
\* beyond the limit, and cites none that an earlier checkpoint cites.
TurnIsCheckpointedOnce ==
    \A r \in receipts : Undisturbed(r) =>
       /\ \A q \in receipts : q.seq < r.seq => q.print.evidence \cap r.print.evidence = {}
       /\ \A i \in 1..(r.seq - 1) :
             \/ events[i].session # events[r.seq].session
             \/ i \in r.print.evidence
             \/ Cardinality(r.print.evidence) >= SliceLimit
             \/ IsCheckpoint(i)
             \/ \E j \in i + 1 .. r.seq - 1 :
                   events[j].session = events[r.seq].session /\ (IsCheckpoint(j) \/ IsPrompt(j))

\* A recorded failure is closed by the first undisturbed checkpoint that cites
\* a later success of the command, and the transition keeps the failure.
FailureIsClosed ==
    \A r \in receipts : Undisturbed(r) =>
       \A c \in {events[i].command : i \in r.print.evidence} \ {None} :
          LET before == {o \in outcomes : o.command = c /\ o.seq < r.seq}
              runs == {i \in r.print.evidence : events[i].command = c}
          IN (/\ \E o \in before : ~o.ok /\ \A p \in before : p.seq <= o.seq
              /\ events[Max(runs)].ok)
             => /\ \E o \in outcomes : o.command = c /\ o.seq = r.seq /\ o.ok
                /\ \E a \in r.print.attempts : a.command = c /\ a.firstFailure # 0
=============================================================================
