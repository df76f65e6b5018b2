------------------------ MODULE CheckpointAttempts ------------------------
(***************************************************************************)
(* What a session checkpoint makes of the runs of a turn (engine.rs        *)
(* classify_checkpoint_event to coalesce_checkpoint_attempts) and what the *)
(* outcome memories say after turns and turns of it.  CheckpointSession    *)
(* keeps one event per run and knows which events a checkpoint cites; here *)
(* a run has an output, several ways of being promoted and of being        *)
(* grouped with other runs, and the outcome's text is what a later         *)
(* checkpoint reads back.                                                  *)
(*                                                                         *)
(* A text is known by the outputs it quotes, and by whether it is one of   *)
(* the texts a checkpoint composes of them.                                *)
(***************************************************************************)
EXTENDS Integers, Sequences, FiniteSets

CONSTANTS
    Command,        \* command lines, equal up to white space
    Diagnostic,     \* fingerprints of diagnostics
    Output,         \* what a run prints (at most 768 tokens)
    None,
    Observed,       \* bound: the runs of the instance
    Quota,          \* successes of each reason a checkpoint keeps (4)
    MaxText,        \* outputs that fit in an attempt's result (16 KiB)
    MaxEvents       \* bound: runs of a behaviour

\* id is the event the store gives the run, 0 before it has one.
RunEvent == [id: Nat, kind: {"command_result", "tool_result", "verification", "file_change"},
             command: Command \cup {None}, fingerprint: Diagnostic \cup {None},
             ok: BOOLEAN, probe: BOOLEAN, verification: BOOLEAN, salient: BOOLEAN,
             output: Output]

AttemptsAssumption ==
    /\ Observed \subseteq RunEvent
    /\ None \notin {"failed_execution", "explicit_salience", "verification"}
    /\ Quota \in Nat /\ MaxText \in Nat \ {0} /\ MaxEvents \in Nat

VARIABLES
    turn,       \* the runs since the prompt or the last checkpoint
    heads,      \* the outcome memory of each key, where there is one
    observed,   \* runs so far
    last        \* the last checkpoint: the runs it read, what it recorded
vars == <<turn, heads, observed, last>>

Raw(output) == [quotes |-> <<output>>, composed |-> FALSE]
NoText == [quotes |-> <<>>, composed |-> FALSE]
NoCheckpoint == [runs |-> <<>>, before |-> <<>>, attempts |-> {}, refused |-> FALSE]

----------------------------------------------------------------------------
(* Classification *)

\* grep that found nothing: exit status 1 and no word of an error.
NeutralProbe(e) == e.kind = "command_result" /\ e.probe
Executed(e) == e.kind \in {"command_result", "tool_result", "verification"}

Classify(e) ==
    IF e.kind = "verification" \/ e.verification THEN "verification"
    ELSE IF ~e.ok /\ Executed(e) /\ ~NeutralProbe(e) THEN "failed_execution"
    ELSE IF e.salient THEN "explicit_salience" ELSE None

ClosesFailure(e) == Classify(e) = None /\ e.ok /\ Executed(e) /\ e.command # None
Considered(e) == Classify(e) # None \/ ClosesFailure(e)

\* Runs of one command are one attempt; so are failures of one diagnostic;
\* any other run is an attempt of its own (id is its event).
AttemptKey(e) ==
    IF e.command # None THEN <<"command", e.command>>
    ELSE IF ~e.ok /\ e.fingerprint # None THEN <<"diagnostic", e.fingerprint>>
    ELSE <<"event", e.id>>
\* The runs of a turn that are promoted under a key.
Promoted(runs, key) == {i \in DOMAIN runs : Considered(runs[i]) /\ AttemptKey(runs[i]) = key}
Keys(runs) == {AttemptKey(runs[i]) : i \in {j \in DOMAIN runs : Considered(runs[j])}}

----------------------------------------------------------------------------
(* Coalescing *)

Strength == <<"failed_execution", "explicit_salience", "verification">>
Stronger(a, b) ==
    IF a = None THEN b ELSE IF b = None THEN a
    ELSE LET rank(r) == CHOOSE i \in DOMAIN Strength : Strength[i] = r
         IN IF rank(a) >= rank(b) THEN a ELSE b

\* load_failed_checkpoint_attempts: the results of failures that are live.
PreviouslyFailed(h) == [k \in {j \in DOMAIN h : ~h[j].ok} |-> h[k].result]

NewGroup(key, failed) ==
    [key |-> key, ok |-> TRUE, final |-> NoText, reason |-> None, last |-> 0,
     previously |-> key \in DOMAIN failed,
     first |-> IF key \in DOMAIN failed THEN failed[key] ELSE NoText,
     runs |-> IF key \in DOMAIN failed THEN 1 ELSE 0]
\* Mutant: the latest failure replaces the first one.
WithRunLatest(g, e, order) ==
    [key |-> g.key, ok |-> e.ok, final |-> Raw(e.output), last |-> order,
     reason |-> Stronger(g.reason, Classify(e)), previously |-> g.previously,
     first |-> IF e.ok THEN g.first ELSE Raw(e.output), runs |-> g.runs + 1]
WithRun(g, e, order) ==
    [key |-> g.key, ok |-> e.ok, final |-> Raw(e.output), last |-> order,
     reason |-> Stronger(g.reason, Classify(e)), previously |-> g.previously,
     first |-> IF e.ok \/ g.first # NoText THEN g.first ELSE Raw(e.output),
     runs |-> g.runs + 1]

\* The group after each of the runs, in their order.
Grouping(runs, key, failed) ==
    LET group[n \in 0..Len(runs)] ==
          IF n = 0 THEN NewGroup(key, failed)
          ELSE IF n \in Promoted(runs, key) THEN WithRun(group[n - 1], runs[n], n)
          ELSE group[n - 1]
    IN group
Group(runs, key, failed) == Grouping(runs, key, failed)[Len(runs)]
Groups(runs, failed) == {Group(runs, k, failed) : k \in Keys(runs)}

Priority(g) ==
    IF ~g.ok THEN 0 ELSE IF g.first # NoText THEN 1
    ELSE IF g.reason = "verification" THEN 2 ELSE 3
\* Failures first, then the latest.
Before(g, h) == Priority(g) < Priority(h) \/ (Priority(g) = Priority(h) /\ g.last > h.last)

MustKeep(g) == g.previously \/ g.first # NoText \/ ~g.ok
Kept(G) ==
    {g \in G : \/ MustKeep(g)
               \/ /\ g.reason \in {"verification", "explicit_salience"}
                  /\ Cardinality({h \in G : /\ ~MustKeep(h) /\ h.reason = g.reason
                                            /\ Before(h, g)}) < Quota}

\* One run is quoted as it is; several as first failure and final result, or
\* as a result and the number of equivalent runs.
ResultText(g) ==
    IF g.runs = 1 THEN g.final
    ELSE [composed |-> TRUE,
          quotes |-> IF g.first = NoText \/ (~g.ok /\ g.first = g.final) THEN g.final.quotes
                     ELSE g.first.quotes \o g.final.quotes]
AttemptOf(g) == [key |-> g.key, ok |-> g.ok, result |-> ResultText(g), runs |-> g.runs,
                 reason |-> IF g.reason = None THEN "failed_execution" ELSE g.reason]
\* In which order they are recorded makes no difference to what is.
Coalesced(runs, failed) == {AttemptOf(g) : g \in Kept(Groups(runs, failed))}

----------------------------------------------------------------------------
(* A session *)

Observe(e) ==
    /\ observed < MaxEvents
    /\ observed' = observed + 1
    /\ turn' = Append(turn, [e EXCEPT !.id = observed + 1])
    /\ UNCHANGED <<heads, last>>
\* The next prompt: the walk back through the log ends there.
Prompt ==
    /\ turn # <<>>
    /\ turn' = <<>>
    /\ UNCHANGED <<heads, observed, last>>

\* An attempt's outcome memory is found by its key and revised.
Recorded(h, attempts) ==
    LET keys == {a.key : a \in attempts}
        of(k) == CHOOSE a \in attempts : a.key = k
    IN [k \in keys \cup DOMAIN h |->
          IF k \in keys THEN [ok |-> of(k).ok, result |-> of(k).result] ELSE h[k]]
Checkpoint ==
    /\ turn # <<>>
    /\ LET attempts == Coalesced(turn, PreviouslyFailed(heads))
           refused == \E a \in attempts : Len(a.result.quotes) > MaxText
       IN /\ last' = [runs |-> turn, before |-> heads, attempts |-> attempts,
                      refused |-> refused]
          /\ heads' = IF refused THEN heads ELSE Recorded(heads, attempts)
          /\ turn' = IF refused THEN turn ELSE <<>>
    /\ UNCHANGED observed

Init == turn = <<>> /\ heads = <<>> /\ observed = 0 /\ last = NoCheckpoint
Next == (\E e \in Observed : Observe(e)) \/ Prompt \/ Checkpoint
Spec == Init /\ [][Next]_vars

----------------------------------------------------------------------------
(* Properties *)

RunsOf(k) == Promoted(last.runs, k)
Failing(k) == {i \in RunsOf(k) : ~last.runs[i].ok}
FailedBefore(k) == k \in DOMAIN last.before /\ ~last.before[k].ok
IsFirst(i, I) == i \in I /\ \A j \in I : i <= j
IsLast(i, I) == i \in I /\ \A j \in I : j <= i

\* After a checkpoint the memory of everything that was run and failed, now or
\* before, says how its last run ended, and quotes the first failure known of
\* it and the last output: "fail-to-pass transitions retain both endpoints".
EndpointsAreKept ==
    ~last.refused =>
        \A k \in Keys(last.runs) : Failing(k) # {} \/ FailedBefore(k) =>
            \E a \in last.attempts :
               LET quotes == a.result.quotes IN
               /\ a.key = k
               /\ \A i \in DOMAIN last.runs : IsLast(i, RunsOf(k)) =>
                     a.ok = last.runs[i].ok /\ quotes[Len(quotes)] = last.runs[i].output
               /\ IF FailedBefore(k) THEN quotes[1] = last.before[k].result.quotes[1]
                  ELSE \A i \in DOMAIN last.runs :
                          IsFirst(i, Failing(k)) => quotes[1] = last.runs[i].output

\* A success that is left out leaves out nothing newer of its reason, and only
\* when the quota is full; a resolved or open failure never counts against it.
QuotaDropsTheOldest ==
    LET recorded == {a.key : a \in last.attempts}
        plain(k) == Failing(k) = {} /\ ~FailedBefore(k)
        verified(k) == \E i \in RunsOf(k) : Classify(last.runs[i]) = "verification"
        later(j, k) == \E i \in RunsOf(j) : \A n \in RunsOf(k) : n < i
    IN \A k \in Keys(last.runs) \ recorded : plain(k) /\ verified(k) =>
           Cardinality({j \in recorded : plain(j) /\ verified(j) /\ later(j, k)}) >= Quota

\* A search that finds nothing is no failure: a key has a failed memory only if
\* a run of it was a failure by the classification or was to be kept.
OnlyFailuresFail ==
    \A a \in last.attempts : ~a.ok =>
        \E i \in RunsOf(a.key) :
            LET e == last.runs[i] IN
            ~e.ok /\ (e.probe /\ e.kind = "command_result" => e.verification \/ e.salient)

\* What a checkpoint promotes is what was run: resolved failures with both ends,
\* open ones as failures, and of the plain successes the latest
\* (coalesce_checkpoint_attempts).
PromotionIsFaithful == EndpointsAreKept /\ OnlyFailuresFail /\ QuotaDropsTheOldest
=============================================================================
