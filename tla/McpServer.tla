----------------------------- MODULE McpServer -----------------------------
(***************************************************************************)
(* The MCP server (mcp.rs) beside other processes that write the store.    *)
(* Its scope is pinned at launch: namespace, workspace, and the identity   *)
(* of the repository at its root.  A tool call rediscovers the repository  *)
(* and compares it with the pin, reads the memory it names in one          *)
(* transaction, checks that it belongs to the scope, and acts in another.  *)
(* Calls run on worker threads and overlap.                                *)
(*                                                                         *)
(* acts is the history of what calls did, to state the properties.         *)
(***************************************************************************)
EXTENDS MemoryStore

CONSTANTS
    Caller,         \* tool calls that may be under way at once
    Tools,          \* the tools the instance exercises
    Repository,     \* repositories that may be found at the root
    Place,          \* namespace, repository and workspace of each scope
    PinNamespace,
    PinWorkspace,   \* --workspace, or None
    PathWorkspace,  \* the workspace a root without a repository stands for
    MaxCalls        \* bound: tool calls

\* The tools, with the modes of memory_record and the actions of memory_manage,
\* and their answers, the ways to fail told apart.
Writer == {"record", "observation", "checkpoint"}
Tool == Writer \cup {"context", "feedback", "inspect", "history", "retract"}
Answer == {"done", "identity", "not_found", "outside", "conflict", "error"}
ToolsAssumption == Tools \subseteq Tool

McpAssumption ==
    /\ \A r \in Repository : DOMAIN r = {"id", "dir"}
    /\ \A s \in Scope : DOMAIN Place[s] = {"namespace", "repo", "workspace"}
    /\ None \notin Repository /\ None \notin Tool \cup Answer

VARIABLES
    root,       \* the repository at the server's root
    pin,        \* the one that was there at launch
    calls,      \* the tool calls under way
    feedback,   \* rows of the feedback table
    acts, issued

mcpVars == <<db, txn, root, pin, calls, feedback, acts, issued>>
serverVars == <<root, pin, calls, feedback, acts, issued>>

Free == [at |-> "free", tool |-> None, mem |-> None, idem |-> None, found |-> None,
         answer |-> None, history |-> None]

----------------------------------------------------------------------------
(* Scope *)

\* The scope of a call: a root without a repository is its own workspace.
ScopeOf(repository) ==
    [namespace |-> PinNamespace,
     repo |-> IF repository = None THEN None ELSE repository.id,
     workspace |-> IF PinWorkspace # None THEN PinWorkspace
                   ELSE IF repository = None THEN PathWorkspace ELSE None]
Pinned == ScopeOf(pin)

\* PinnedRepository::verify: remote identity and Git directory.
Verified(repository) == repository = pin

\* Mutant: the workspace of a memory is not compared.
BelongsAnyWorkspace(memory, current) ==
    /\ memory.namespace = current.namespace
    /\ memory.repo \in {None, current.repo}
\* ensure_memory_in_scope; the applicability test adds nothing to it.
Belongs(memory, current) ==
    /\ memory.namespace = current.namespace
    /\ memory.workspace \in {None, current.workspace}
    /\ memory.repo \in {None, current.repo}

\* The scope predicate of recall's SQL.
Recalled(memory, current) ==
    /\ memory.namespace = current.namespace
    /\ memory.workspace \in {None, current.workspace}
    /\ \/ current.repo # None /\ memory.repo \in {None, current.repo}
       \/ current.repo = None /\ memory.repo = None

----------------------------------------------------------------------------
(* A tool call *)

Ask(c, tool, m, k) ==
    /\ calls[c].at = "free"
    /\ issued < MaxCalls
    /\ m = None <=> tool \in Writer \cup {"context"}
    /\ k # None => tool \in Writer \cup {"retract"}
    /\ calls' = [calls EXCEPT ![c] = [Free EXCEPT !.at = "asked", !.tool = tool,
                                                  !.mem = m, !.idem = k]]
    /\ issued' = issued + 1
    /\ UNCHANGED <<db, txn, root, pin, feedback, acts>>

Answered(c, answer) == [calls EXCEPT ![c].at = "answered", ![c].answer = answer]

Rediscover(c) ==
    /\ calls[c].at = "asked"
    /\ calls' = IF Verified(root)
                THEN [calls EXCEPT ![c].at = IF calls[c].mem = None THEN "act" ELSE "look",
                                   ![c].found = root]
                ELSE Answered(c, "identity")
    /\ UNCHANGED <<db, txn, root, pin, feedback, acts, issued>>

\* engine.get and ensure_memory_in_scope; inspect has its answer then.
Look(c) ==
    /\ calls[c].at = "look"
    /\ LET m == calls[c].mem IN
       calls' = IF ~Exists(db, m) THEN Answered(c, "not_found")
                ELSE IF ~Belongs(Place[db.heads[m].scope], ScopeOf(calls[c].found))
                THEN Answered(c, "outside")
                ELSE IF calls[c].tool = "inspect" THEN Answered(c, "done")
                ELSE [calls EXCEPT ![c].at = "act"]
    /\ UNCHANGED <<db, txn, root, pin, feedback, acts, issued>>

Did(c, m) == acts' = acts \cup {[tool |-> calls[c].tool, mem |-> m, found |-> calls[c].found]}

\* memory_context: live memories of the scope, read by one of the pool's engines.
Context_(c) ==
    /\ calls[c].at = "act" /\ calls[c].tool = "context"
    /\ acts' = acts \cup
           {[tool |-> "context", mem |-> m, found |-> calls[c].found] :
               m \in {n \in Memory : IsLive(db, n)
                                     /\ Recalled(Place[db.heads[n].scope],
                                                 ScopeOf(calls[c].found))}}
    /\ calls' = Answered(c, "done")
    /\ UNCHANGED <<db, txn, root, pin, feedback, issued>>

\* The memories a write of the call changed.
Wrote(c) == acts' = acts \cup
    {[tool |-> calls[c].tool, mem |-> m, found |-> calls[c].found] :
        m \in {n \in Memory : db'.heads[n] # db.heads[n]}}
InFoundScope(c, call) ==
    Place[call.scope] = ScopeOf(calls[c].found) /\ call.idem = calls[c].idem
\* memory_record: remember without identifier, evidence or links.
Record(c) ==
    /\ calls[c].at = "act" /\ calls[c].tool = "record"
    /\ \E call \in RememberCalls :
          /\ InFoundScope(c, call)
          /\ call.id = None /\ call.links = {} /\ call.evidence = {}
          /\ (Remember(call) /\ Wrote(c)) \/ (Deduplicate(call) /\ UNCHANGED acts)
    /\ calls' = Answered(c, "done")
    /\ UNCHANGED <<root, pin, feedback, issued>>
Observation(c) ==
    /\ calls[c].at = "act" /\ calls[c].tool = "observation"
    /\ \E call \in ObserveCalls : InFoundScope(c, call) /\ (Observe(call) \/ Deduplicate(call))
    /\ calls' = Answered(c, "done")
    /\ UNCHANGED <<root, pin, feedback, acts, issued>>
\* checkpoint mode: the transaction begins and goes on statement by statement.
Checkpoint(c) ==
    /\ calls[c].at = "act" /\ calls[c].tool = "checkpoint"
    /\ \E call \in CheckpointCalls :
          /\ InFoundScope(c, call) /\ call.evidence = {}
          /\ \/ BeginCheckpoint(call) /\ calls' = [calls EXCEPT ![c].at = "writing"]
             \/ Deduplicate(call) /\ calls' = Answered(c, "done")
    /\ UNCHANGED <<root, pin, feedback, acts, issued>>
Writing(c) ==
    /\ calls[c].at = "writing"
    /\ \/ WriteChild /\ UNCHANGED <<calls, acts>>
       \/ CommitCheckpoint /\ Wrote(c) /\ calls' = Answered(c, "done")
       \/ Rollback /\ calls' = Answered(c, "error") /\ UNCHANGED acts
    /\ UNCHANGED <<root, pin, feedback, issued>>
\* The engine refuses a write, or fails: nothing is changed.
Fail(c) ==
    /\ calls[c].at = "act" /\ calls[c].tool # "retract"
    /\ calls' = Answered(c, "error")
    /\ UNCHANGED <<db, txn, root, pin, feedback, acts, issued>>

\* feedback: the memory exists, one more row.
Feedback(c) ==
    /\ calls[c].at = "act" /\ calls[c].tool = "feedback"
    /\ Exists(db, calls[c].mem)
    /\ feedback' = Append(feedback, calls[c].mem)
    /\ Did(c, calls[c].mem)
    /\ calls' = Answered(c, "done")
    /\ UNCHANGED <<db, txn, root, pin, issued>>

\* history: the revisions, what they cite, what touched the memory, and every
\* link from or to it.
HistoryOf(d, m) ==
    [length |-> Len(d.events), revisions |-> {r.num : r \in RevisionsOf(d, m)},
     events |-> (UNION {r.evidence : r \in RevisionsOf(d, m)})
                \cup {i \in 1..Len(d.events) : <<i, m>> \in d.touched}
                \cup {l.seq : l \in {k \in d.links : m \in {k.src, k.dst}}}]
History(c) ==
    /\ calls[c].at = "act" /\ calls[c].tool = "history"
    /\ calls' = [Answered(c, "done") EXCEPT ![c].history = HistoryOf(db, calls[c].mem)]
    /\ Did(c, calls[c].mem)
    /\ UNCHANGED <<db, txn, root, pin, feedback, issued>>

RetractCall(c, call) ==
    call.id = calls[c].mem /\ call.idem = calls[c].idem
    /\ call.scope = db.heads[call.id].scope
\* Mutant: a retracted memory is a conflict before the receipts are looked at.
RefusedFirst(call) == txn = None /\ db.heads[call.id].state = "retracted"
\* The memory is retracted already, by another request, or the key names one.
Refused(call) ==
    /\ txn = None
    /\ ~Seen(db, call)
    /\ Unseen(db, call) => db.heads[call.id].state = "retracted"
RetractTool(c) ==
    /\ calls[c].at = "act" /\ calls[c].tool = "retract"
    /\ \E call \in RetractCalls :
          /\ RetractCall(c, call)
          /\ \/ /\ Retract(call)
                /\ Did(c, call.id)
                /\ calls' = Answered(c, "done")
             \/ /\ ~Refused(call) /\ Deduplicate(call)
                /\ calls' = Answered(c, "done")
                /\ UNCHANGED acts
             \/ /\ Refused(call)
                /\ calls' = [Answered(c, "conflict") EXCEPT ![c].history = Fingerprint(call)]
                /\ UNCHANGED <<db, txn, acts>>
    /\ UNCHANGED <<root, pin, feedback, issued>>

\* The answer is delivered, or lost, in which case the client may ask again.
Finish(c) ==
    /\ calls[c].at = "answered"
    /\ calls' = [calls EXCEPT ![c] = Free]
    /\ UNCHANGED <<db, txn, root, pin, feedback, acts, issued>>

----------------------------------------------------------------------------
(* The world: the directory gets another repository; other processes write *)

Replace(r) ==
    /\ root # r
    /\ root' = r
    /\ UNCHANGED <<db, txn, pin, calls, feedback, acts, issued>>
\* Other processes do not use this server's idempotency keys.
Elsewhere ==
    /\ \/ \E call \in RememberCalls : call.idem = None /\ Remember(call)
       \/ \E call \in RetractCalls : call.idem = None /\ Retract(call)
    /\ UNCHANGED serverVars

McpInit ==
    /\ Init
    /\ root \in Repository \cup {None} /\ pin = root
    /\ calls = [c \in Caller |-> Free]
    /\ feedback = <<>> /\ acts = {} /\ issued = 0
Step(c) ==
    \/ Rediscover(c) \/ Look(c) \/ Context_(c) \/ Record(c) \/ Observation(c)
    \/ Checkpoint(c) \/ Writing(c) \/ Fail(c) \/ Feedback(c) \/ History(c)
    \/ RetractTool(c) \/ Finish(c)
McpNext ==
    \/ \E c \in Caller : \/ \E t \in Tools, m \in Memory \cup {None}, k \in IdemKey \cup {None} :
                               Ask(c, t, m, k)
                         \/ Step(c)
    \/ \E r \in Repository \cup {None} : Replace(r)
    \/ Elsewhere
McpSpec == McpInit /\ [][McpNext]_mcpVars

----------------------------------------------------------------------------
(* Properties *)

\* Whatever a call did was done to a memory that lies, now as when it was
\* checked, in what recall calls the scope pinned at launch, and by a call that
\* found the repository of the launch at the root: the check and the act are
\* two transactions, and other processes write between them
\* (ensure_memory_in_scope and PinnedRepository::verify).
ActsStayInThePin ==
    \A a \in acts : /\ Exists(db, a.mem)
                    /\ Recalled(Place[db.heads[a.mem].scope], Pinned)
                    /\ a.found = pin

\* What a recall of this server returned it will also inspect, rate and
\* retract: the SQL of recall (load_candidate_memories) and the check of the
\* tools (ensure_memory_in_scope) agree on it.
RecalledIsManageable ==
    \A c \in Caller : calls[c].answer = "outside" =>
        [tool |-> "context", mem |-> calls[c].mem, found |-> calls[c].found] \notin acts

\* A retraction sent again under its key, because its answer was lost or while
\* it is still under way, is not a conflict with itself (retract).
RetryIsNoConflict ==
    \A c \in Caller : calls[c].answer = "conflict" =>
        ~\E r \in db.receipts : /\ r.hash = calls[c].history
                                /\ r.slot.idem = calls[c].idem /\ r.slot.op = "retract"

\* A history names every event that made, contested, superseded or retracted
\* the memory up to the moment it was read (engine.history).
HistoryIsComplete ==
    \A c \in Caller : calls[c].tool = "history" /\ calls[c].answer = "done" =>
        LET h == calls[c].history m == calls[c].mem IN
        \A i \in 1..h.length :
            \/ db.events[i].op = "retract" /\ db.events[i].id = m
            \/ \E l \in db.events[i].links : l.dst = m
            \/ \E r \in RevisionsOf(db, m) : r.seq = i
            => i \in h.events

\* The scope pinned at launch bounds what calls do, and hides nothing recall
\* shows (mcp.rs).
ScopeHolds == ActsStayInThePin /\ RecalledIsManageable

\* What a call answers is so: a conflict is one, a history leaves out nothing.
AnswersAreTrue == RetryIsNoConflict /\ HistoryIsComplete
=============================================================================
