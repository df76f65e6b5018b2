----------------------------- MODULE MCAdapters -----------------------------
(***************************************************************************)
(* The adapters that stand between a harness and the store, one of them in *)
(* each behaviour: the MCP server, pinned to its repository or called      *)
(* again; the command hooks, with events delivered twice or with every     *)
(* form of failure report; and what a checkpoint promotes.                 *)
(***************************************************************************)
EXTENDS McpServer, TLC

CONSTANTS
    s1, s2, s3, s4, r1, r2, make, grep, red, blue, oops,
    Session, Text, ToolReport, Given, Proc, MaxHappened, MaxTree,              \* Hooks
    Command, Diagnostic, Output, Observed, Quota, MaxText, MaxEvents   \* CheckpointAttempts

VARIABLES
    part,
    happened, turn, tree, rows, hook,   \* Hooks
    runs, heads, observed, last         \* CheckpointAttempts

hookVars == <<happened, turn, tree, rows, hook>>
attemptVars == <<runs, heads, observed, last>>

----------------------------------------------------------------------------
(* The MCP server *)

\* Two clones of one repository.
Clone(r, d) == [id |-> r, dir |-> d]
Clones == {Clone(r1, "d1"), Clone(r1, "d2")}
Placed(r, w) == [namespace |-> "n", repo |-> r, workspace |-> w]
\* s1 is the first repository, s2 the second, s3 a workspace of the first, s4
\* the namespace alone.
Places == [s \in {s1, s2, s3, s4} |->
              IF s = s1 THEN Placed(r1, None) ELSE IF s = s2 THEN Placed(r2, None)
              ELSE IF s = s3 THEN Placed(r1, "w") ELSE Placed(None, None)]
OneDecision == {<<[kind |-> "decision", key |-> None]>>}

\* One call at a time among other processes, in a root whose repository is
\* replaced; and calls with the same key, at the same time or one after the
\* other, in one repository.
Busy == {c \in Caller : calls'[c].at # "free"}
Pinning ==
    /\ McpNext
    /\ Cardinality(Busy) <= 1
    /\ \A c \in Busy : calls'[c].idem = None
    /\ Len(db'.events) <= 2 /\ db'.receipts = {}
    /\ \A i \in DOMAIN db'.events : db'.events[i].op = "remember" => db'.events[i].links = {}
    /\ txn' # None => Len(txn'.work.events) <= 2
Retrying ==
    /\ McpNext
    /\ root' \in {pin, None}
    /\ \A c \in Busy : calls'[c].tool \in {"history", "retract"}
    /\ \A i \in DOMAIN db'.events : db'.events[i].scope = s1

----------------------------------------------------------------------------
(* The hooks *)

Hook == INSTANCE Hooks

\* One exit code at each place, or one flag; and the flag that is not read,
\* beside a flag or an exit code that is.
Silent == [exit |-> [i \in 1..5 |-> None], flags |-> {}]
Reports == {Silent} \cup {[Silent EXCEPT !.exit[i] = code] : i \in 1..5, code \in {0, 1}}
                    \cup {[Silent EXCEPT !.flags = F] : F \in {{"payload"}, {"response"},
                                                              {"response", "result"}}}
                    \cup {[Silent EXCEPT !.exit[4] = 1, !.flags = {"result"}]}
\* Two processes and the events of a session, told by the calls alone, with
\* files that change when one of them is a checkpoint; one process and one
\* event, in whichever form its outcome is reported.
Deliveries ==
    /\ Hook!Next
    /\ tree' # tree => \E i \in DOMAIN happened : happened[i].event \in Hook!StopEvent
    /\ \A i \in DOMAIN happened' : LET pl == happened'[i] IN
          pl.session = "s1" /\ pl.report = Silent /\ pl.tool \in {"shell", "edit", None}
Reporting ==
    /\ Hook!Next
    /\ Len(happened') <= 1 /\ tree' = 0
    /\ \A p, q \in Proc : hook'[p].pc # "idle" /\ hook'[q].pc # "idle" => p = q

----------------------------------------------------------------------------
(* What a checkpoint promotes *)

\* Tests that pass or fail, searches that find nothing, tool results without a
\* command, outputs worth keeping.
Result(kind, command, ok, output) ==
    [id |-> 0, kind |-> kind, command |-> command, fingerprint |-> None, ok |-> ok,
     probe |-> FALSE, verification |-> FALSE, salient |-> FALSE, output |-> output]
Probe == [Result("command_result", grep, FALSE, blue) EXCEPT !.probe = TRUE]
Outcomes ==
    {Result("command_result", make, FALSE, o) : o \in {red, blue}} \cup
    {Result("command_result", make, TRUE, blue), Probe, Result("command_result", grep, FALSE, red),
     Result("verification", grep, TRUE, blue), Result("verification", make, TRUE, red),
     [Result("tool_result", None, FALSE, red) EXCEPT !.fingerprint = oops],
     [Probe EXCEPT !.salient = TRUE]}
Attempts == INSTANCE CheckpointAttempts WITH turn <- runs

ASSUME McpServerAssumption == McpAssumption /\ ToolsAssumption
ASSUME HooksOfAdapters ==
    /\ Hook!HooksAssumption /\ Hook!ReportAssumption /\ Hook!UsesAreTold
    /\ Hook!ReportsAgree /\ Hook!FlagsAreRead
ASSUME AttemptsOfAdapters == Attempts!AttemptsAssumption

----------------------------------------------------------------------------
(* One part moves *)

Symmetry == Permutations(Proc) \cup Permutations(Caller)

AdaptersInit ==
    /\ McpInit /\ Hook!Init /\ Attempts!Init
    /\ \/ part \in {"pinning", "retrying"} /\ root \in {Clone(r1, "d1"), None}
       \/ part \in {"deliveries", "reporting", "attempts"} /\ root = None
    /\ \A s \in Session : turn[s] = 1 =>
          part = "reporting" \/ (part = "deliveries" /\ s = "s1")
AdaptersNext ==
    /\ UNCHANGED part
    /\ \/ (part = "pinning" /\ Pinning) /\ UNCHANGED <<hookVars, attemptVars>>
       \/ (part = "retrying" /\ Retrying) /\ UNCHANGED <<hookVars, attemptVars>>
       \/ (part = "deliveries" /\ Deliveries) /\ UNCHANGED <<mcpVars, attemptVars>>
       \/ (part = "reporting" /\ Reporting) /\ UNCHANGED <<mcpVars, attemptVars>>
       \/ part = "attempts" /\ Attempts!Next /\ UNCHANGED <<mcpVars, hookVars>>
AdaptersSpec == AdaptersInit /\ [][AdaptersNext]_<<part, mcpVars, hookVars, attemptVars>>
----------------------------------------------------------------------------
(* Properties *)

\* WhatHappened of Hooks (hook.rs hook_idempotency_key, hook_success).
WhatHappened == Hook!WhatHappened
\* PromotionIsFaithful of CheckpointAttempts (engine.rs coalesce_checkpoint_attempts).
PromotionIsFaithful == Attempts!PromotionIsFaithful
=============================================================================
