------------------------------- MODULE Hooks -------------------------------
(***************************************************************************)
(* The command hooks of a coding harness (hook.rs).  Each event of a       *)
(* session starts a process that captures it in the store and, for some    *)
(* events, recalls a context.  A harness may start two processes for one   *)
(* event, runs those of several events side by side, and kills one that    *)
(* takes too long; a hook that fails answers neutrally ("{}").             *)
(*                                                                         *)
(* What a checkpoint draws from the session's log is CheckpointSession's;  *)
(* here it is the row it leaves under its key.                             *)
(***************************************************************************)
EXTENDS Integers, Sequences, FiniteSets

CONSTANTS
    Session,      \* session identifiers
    Text,         \* prompts, messages, and results of tools
    ToolReport,   \* how harnesses report the end of a tool, see Report
    Given,        \* the identifiers the harness sends
    Proc,         \* hook processes
    None,
    MaxHappened,  \* bound: events of the harness
    MaxTree       \* bound: changes of the worktree

HooksAssumption == /\ None \notin Text \cup Session /\ None \notin {0, 1}
                   /\ MaxHappened \in Nat /\ MaxTree \in Nat

IdKey == {"tool_use_id", "turn_id", "prompt_id", "agent_id"}
PromptEvent == {"SessionStart", "UserPromptSubmit", "SubagentStart"}
StopEvent == {"Stop", "SubagentStop", "PostCompact"}
ToolEvent == {"PostToolUse", "PostToolUseFailure"}
HookEvent == PromptEvent \cup StopEvent \cup ToolEvent
Tool == {"own", "shell", "edit", "other"}

\* The places an exit code may be in, in the order they are read, and those
\* of an error flag, of which the last is not read.
ExitPlace == <<"payload", "response", "response_metadata", "result", "result_metadata">>
FlagPlace == {"payload", "response", "result"}
FlagRead == {"payload", "response"}
Report == [exit: [1..Len(ExitPlace) -> {None, 0, 1}], flags: SUBSET FlagPlace]
ReportAssumption == ToolReport \subseteq Report
\* The reports of a harness do not contradict themselves: no payload has the
\* exit code 0 in one place and 1 in another.
Says(r, code) == \E i \in DOMAIN ExitPlace : r.exit[i] = code
ReportsAgree == \A r \in ToolReport : ~(Says(r, 0) /\ Says(r, 1))
\* A flag that is not read comes with one that is, or with an exit code.
FlagsAreRead ==
    \A r \in ToolReport : r.flags # {} => Says(r, 1) \/ r.flags \cap FlagRead # {}
\* The harness tells one use of a tool from another (or there is only one event).
UsesAreTold == "tool_use_id" \in Given \/ MaxHappened <= 1
Silent == [exit |-> [i \in 1..Len(ExitPlace) |-> None], flags |-> {}]

VARIABLES
    happened,   \* the events of the harness, in order
    turn,       \* per session, the turn under way
    tree,       \* the state of the worktree
    rows,       \* what the hooks recorded, in order
    hook        \* per process: what it handles and where it is

vars == <<happened, turn, tree, rows, hook>>
Idle == [pc |-> "idle", of |-> 0, tree |-> None, wrote |-> "nothing", answer |-> None]

----------------------------------------------------------------------------
(* What a hook makes of a payload *)

ExitCodes(r) == {i \in DOMAIN ExitPlace : r.exit[i] # None}
ExitCode(r) == r.exit[CHOOSE i \in ExitCodes(r) : \A j \in ExitCodes(r) : i <= j]
Succeeded(pl) ==
    /\ pl.event # "PostToolUseFailure"
    /\ ExitCodes(pl.report) # {} => ExitCode(pl.report) = 0
    /\ pl.report.flags \cap FlagRead = {}

KindOf(pl) == CASE pl.event = "UserPromptSubmit" -> "conversation_turn"
                [] pl.event \in StopEvent -> "checkpoint"
                [] pl.tool = "shell" -> "command_result"
                [] pl.tool = "edit" -> "file_change"
                [] OTHER -> "tool_result"
\* Blank texts, and results of the memory's own tools, are not captured.
Captured(pl) == \/ pl.event \in StopEvent \cup {"UserPromptSubmit"} /\ pl.text # None
                \/ pl.event \in ToolEvent /\ pl.tool # "own"
OperationOf(pl) == IF pl.event \in StopEvent THEN "checkpoint" ELSE "observe"

FirstId(ids) ==
    LET order == <<"tool_use_id", "turn_id", "prompt_id", "agent_id">>
        known == {i \in 1..4 : ids[order[i]] # 0}
    IN IF known = {} THEN <<"missing", 0>>
       ELSE LET i == CHOOSE i \in known : \A j \in known : i <= j IN <<order[i], ids[order[i]]>>
\* Mutant: the files of the moment are a part of the key.
KeyWithTree(pl, seen) ==
    [session |-> pl.session, id |-> FirstId(pl.ids), event |-> pl.event,
     content |-> <<pl.tool, pl.text>>, tree |-> seen]
\* The content of a key is the text, or the tool, its input and its result.
IdempotencyKey(pl, seen) ==
    [session |-> pl.session, id |-> FirstId(pl.ids), event |-> pl.event,
     content |-> <<pl.tool, pl.text>>, tree |-> None]
\* What the store compares when the key is known: all of an observation, the
\* text and the files of a checkpoint.
Fingerprint(pl, seen) ==
    IF OperationOf(pl) = "checkpoint"
    THEN [text |-> pl.text, files |-> seen, ids |-> None, ok |-> TRUE]
    ELSE [text |-> pl.text, files |-> None, ids |-> <<pl.ids>>, ok |-> Succeeded(pl)]

----------------------------------------------------------------------------
(* The harness *)

\* A prompt begins a turn; every use of a tool and every subagent is new.
Ids(event, s) ==
    [k \in IdKey |->
        IF k \notin Given THEN 0
        ELSE CASE k = "tool_use_id" -> IF event \in ToolEvent THEN Len(happened) + 1 ELSE 0
               [] k = "agent_id" -> IF event = "SubagentStop" THEN Len(happened) + 1 ELSE 0
               [] OTHER -> IF event = "UserPromptSubmit" THEN turn[s] + 1 ELSE turn[s]]
Payloads(event, s) ==
    [event: {event}, session: {s}, ids: {Ids(event, s)},
     text: IF event \in ToolEvent THEN Text ELSE Text \cup {None},
     tool: IF event \in ToolEvent THEN Tool ELSE {None},
     report: IF event \in ToolEvent THEN ToolReport ELSE {Silent}]
Happen(event, s) ==
    /\ Len(happened) < MaxHappened
    /\ \E pl \in Payloads(event, s) : happened' = Append(happened, pl)
    /\ turn' = IF event = "UserPromptSubmit" THEN [turn EXCEPT ![s] = @ + 1] ELSE turn
    /\ UNCHANGED <<tree, rows, hook>>
EditFiles == /\ tree < MaxTree /\ tree' = tree + 1
             /\ UNCHANGED <<happened, turn, rows, hook>>
\* A first or another process for an event.
Deliver(p, i) == /\ hook[p].pc = "idle"
                 /\ hook' = [hook EXCEPT ![p] = [Idle EXCEPT !.pc = "open", !.of = i]]
                 /\ UNCHANGED <<happened, turn, tree, rows>>
\* It is done, or the harness kills it.
Leave(p) == /\ hook[p].pc # "idle"
            /\ hook' = [hook EXCEPT ![p] = Idle]
            /\ UNCHANGED <<happened, turn, tree, rows>>

----------------------------------------------------------------------------
(* A hook process *)

Payload(p) == happened[hook[p].of]
Goto(p, l) == hook' = [hook EXCEPT ![p].pc = l]
Answer(p, a) == hook' = [hook EXCEPT ![p].pc = "answered", ![p].answer = a]
\* Any failure on the way: the answer is neutral, what was written stays.
FailOpen(p) == /\ hook[p].pc \in {"open", "write", "recall"}
               /\ Answer(p, "neutral")
               /\ UNCHANGED <<happened, turn, tree, rows>>
OpenStore(p) ==
    /\ hook[p].pc = "open"
    /\ IF Captured(Payload(p))
       THEN Goto(p, IF OperationOf(Payload(p)) = "checkpoint" THEN "files" ELSE "write")
       ELSE IF Payload(p).event \in PromptEvent THEN Goto(p, "recall") ELSE Answer(p, "neutral")
    /\ UNCHANGED <<happened, turn, tree, rows>>
\* Files that cannot be captured are left out.
CaptureFiles(p) ==
    /\ hook[p].pc = "files"
    /\ \E seen \in {tree, None} :
          hook' = [hook EXCEPT ![p].pc = "write", ![p].tree = seen]
    /\ UNCHANGED <<happened, turn, tree, rows>>
Known(p) == {r \in DOMAIN rows : /\ rows[r].operation = OperationOf(Payload(p))
                                 /\ rows[r].key = IdempotencyKey(Payload(p), hook[p].tree)}
Row(p) == LET pl == Payload(p)
          IN [operation |-> OperationOf(pl), kind |-> KindOf(pl),
              key |-> IdempotencyKey(pl, hook[p].tree),
              print |-> Fingerprint(pl, hook[p].tree), of |-> hook[p].of]
\* One call of the engine, one transaction.
Write(p) ==
    /\ hook[p].pc = "write"
    /\ LET new == Known(p) = {}
           same == \A r \in Known(p) : rows[r].print = Row(p).print
           told == Payload(p).event \notin PromptEvent
       IN /\ rows' = IF new THEN Append(rows, Row(p)) ELSE rows
          /\ hook' = [hook EXCEPT
                ![p].pc = IF ~same \/ told THEN "answered" ELSE "recall",
                ![p].wrote = IF new THEN "inserted" ELSE IF same THEN "known" ELSE "conflict",
                ![p].answer = IF ~same \/ told THEN "neutral" ELSE None]
    /\ UNCHANGED <<happened, turn, tree>>
Recall(p) == /\ hook[p].pc = "recall"
             /\ \E a \in {"context", "neutral"} : Answer(p, a)
             /\ UNCHANGED <<happened, turn, tree, rows>>

\* The hooks may be installed while a session is under way.
Init == /\ happened = <<>> /\ turn \in [Session -> {0, 1}] /\ tree = 0
        /\ rows = <<>> /\ hook = [p \in Proc |-> Idle]
Next == \/ \E s \in Session, e \in HookEvent : Happen(e, s)
        \/ EditFiles
        \/ \E p \in Proc : \/ \E i \in DOMAIN happened : Deliver(p, i)
                           \/ Leave(p) \/ FailOpen(p) \/ OpenStore(p) \/ CaptureFiles(p)
                           \/ Write(p) \/ Recall(p)
Spec == Init /\ [][Next]_vars

----------------------------------------------------------------------------
(* Properties *)

\* However often an event is delivered, by processes side by side or after one
\* was killed or failed, and whatever happens to the files meanwhile, it is
\* recorded once (docs/architecture.md: "Reprocessing a stable harness event
\* is idempotent").
RecordedOnce == \A r, q \in DOMAIN rows : rows[r].of = rows[q].of => r = q

\* One event the harness can tell from another is never taken for a delivery
\* of it: after a hook wrote, or was refused as a conflict, the store has the
\* row of its own event.  Messages that end the same turn with the same text
\* count as one.
Same(pl, other) ==
    /\ pl.event = other.event /\ pl.session = other.session /\ pl.text = other.text
    /\ IF pl.event \in ToolEvent THEN pl = other
       ELSE pl.ids["turn_id"] = other.ids["turn_id"]
NothingIsSwallowed ==
    \A p \in Proc : hook[p].wrote # "nothing" =>
        \E r \in DOMAIN rows : Same(happened[rows[r].of], Payload(p))

\* A failure is recorded as one and a success as a success, if the harness
\* reports it in a form the hook reads (FlagsAreRead) and does not contradict
\* itself (ReportsAgree): what a checkpoint promotes and what later looks up an
\* earlier failure both start from this flag.
FailuresAreTold ==
    \A r \in DOMAIN rows : LET pl == happened[rows[r].of] IN
        rows[r].operation = "observe" =>
            (rows[r].print.ok <=> ~(\/ pl.event = "PostToolUseFailure"
                                    \/ Says(pl.report, 1) \/ pl.report.flags # {}))

\* What the store has of a session is what happened there: every event once,
\* none for another, each with its outcome (hook.rs hook_idempotency_key).
WhatHappened == RecordedOnce /\ NothingIsSwallowed /\ FailuresAreTold
=============================================================================
