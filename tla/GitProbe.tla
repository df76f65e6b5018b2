------------------------------ MODULE GitProbe ------------------------------
(***************************************************************************)
(* The Git probes of `doctor` (repository_diagnostics and run_git_probe of *)
(* app.rs): a sequence of Git processes under one deadline.  Of each, two  *)
(* threads drain the pipes while the prober polls the child, kills its     *)
(* process group when it is late or says too much, and joins the threads.  *)
(* Git may start a helper that keeps running, keeps a pipe open, or leaves *)
(* the process group.                                                      *)
(***************************************************************************)
EXTENDS Integers, Sequences

CONSTANTS
    Stages,     \* the probes, in order; "root" and "remote" judge their exit code
    Limit,      \* what of a pipe is kept, in chunks
    MaxSent,    \* bound: chunks written to one pipe
    Capacity    \* chunks a pipe holds before its writer blocks

ASSUME ProbeAssumption == /\ Stages \in Seq(STRING) /\ Stages # <<>>
                          /\ Limit \in Nat /\ MaxSent \in Nat /\ Capacity \in Nat \ {0}

Pipe == {"out", "err"}
Code == {"zero", "one", "more"}     \* exit codes, or a signal
Answer == {"none", "whole", "spawn", "timeout", "output_limit", "io"}
Report == {"none", "repository", "not_repository", "repository_error", "git_timeout",
           "git_output_limit", "git_unavailable", "git_error"}

VARIABLES
    stage, pc,      \* the probe under way, and where the prober is in it
    child, code,    \* the Git process and its exit code
    helper,         \* a process it started: where it is, and the pipes it holds
    pipes,          \* per pipe: chunks sent and taken, whether its reader ended, and by an error
    overflow,       \* a reader had to drop something
    late,           \* the deadline has passed
    stranger,       \* another group that got the number of the reaped child
    answer, report

vars == <<stage, pc, child, code, helper, pipes, overflow, late, stranger, answer, report>>

Fresh == [p \in Pipe |-> [sent |-> 0, taken |-> 0, eof |-> FALSE, failed |-> FALSE]]
NoHelper == [at |-> "none", holds |-> {}]
Grouped == helper.at = "group"
Open(p) == child = "running" \/ (helper.at \in {"group", "away"} /\ p \in helper.holds)
Finished == \A p \in Pipe : pipes[p].eof
Broken == \E p \in Pipe : pipes[p].failed

----------------------------------------------------------------------------
(* Git and its helper *)

\* A pipe whose reader has gone takes nothing: its writer gets a signal.
Write(p) ==
    /\ Open(p) /\ ~pipes[p].eof
    /\ pipes[p].sent < MaxSent
    /\ pipes[p].sent - pipes[p].taken < Capacity
    /\ pipes' = [pipes EXCEPT ![p].sent = @ + 1]
    /\ UNCHANGED <<stage, pc, child, code, helper, overflow, late, stranger, answer, report>>
Fork ==
    /\ child = "running" /\ helper = NoHelper
    /\ helper' \in [at: {"group", "away"}, holds: SUBSET Pipe]
    /\ UNCHANGED <<stage, pc, child, code, pipes, overflow, late, stranger, answer, report>>
Exit ==
    /\ child = "running"
    /\ child' = "zombie" /\ code' \in Code
    /\ UNCHANGED <<stage, pc, helper, pipes, overflow, late, stranger, answer, report>>
HelperEnds ==
    /\ helper.at \in {"group", "away"}
    /\ helper' = [at |-> "gone", holds |-> {}]
    /\ UNCHANGED <<stage, pc, child, code, pipes, overflow, late, stranger, answer, report>>
\* A reaped process and an empty group free the number for somebody else.
Reuse ==
    /\ child = "reaped" /\ ~Grouped /\ stranger = "none"
    /\ stranger' = "running"
    /\ UNCHANGED <<stage, pc, child, code, helper, pipes, overflow, late, answer, report>>
Tick ==
    /\ ~late /\ late' = TRUE
    /\ UNCHANGED <<stage, pc, child, code, helper, pipes, overflow, stranger, answer, report>>

----------------------------------------------------------------------------
(* The two readers *)

\* One read: what is beyond the limit is dropped, and said to be.
Take(p) ==
    /\ ~pipes[p].eof /\ pipes[p].taken < pipes[p].sent
    /\ \E n \in pipes[p].taken + 1 .. pipes[p].sent :
          /\ pipes' = [pipes EXCEPT ![p].taken = n]
          /\ overflow' = (overflow \/ n > Limit)
    /\ UNCHANGED <<stage, pc, child, code, helper, late, stranger, answer, report>>
EndOfFile(p) ==
    /\ child # "none" /\ ~Open(p)
    /\ pipes[p].taken = pipes[p].sent /\ ~pipes[p].eof
    /\ pipes' = [pipes EXCEPT ![p].eof = TRUE]
    /\ UNCHANGED <<stage, pc, child, code, helper, overflow, late, stranger, answer, report>>
\* A read that fails, or a panic, ends the thread and closes its end of the pipe.
ReadFails(p) ==
    /\ child # "none" /\ ~pipes[p].eof
    /\ pipes' = [pipes EXCEPT ![p].eof = TRUE, ![p].failed = TRUE]
    /\ UNCHANGED <<stage, pc, child, code, helper, overflow, late, stranger, answer, report>>

----------------------------------------------------------------------------
(* The prober *)

Goto(l) == pc' = l
Start ==
    /\ pc = "start"
    /\ IF late THEN Goto("done") /\ answer' = "timeout" /\ UNCHANGED child
       ELSE \/ Goto("poll") /\ child' = "running" /\ UNCHANGED answer
            \/ Goto("done") /\ answer' = "spawn" /\ UNCHANGED child
    /\ UNCHANGED <<stage, code, helper, pipes, overflow, late, stranger, report>>
\* The flag is looked at before the child, the child before the clock.
Poll ==
    /\ pc = "poll"
    /\ IF overflow THEN Goto("kill") /\ answer' = "output_limit"
       ELSE Goto("wait") /\ UNCHANGED answer
    /\ UNCHANGED <<stage, child, code, helper, pipes, overflow, late, stranger, report>>
TryWait ==
    /\ pc = "wait"
    /\ \/ child = "zombie" /\ child' = "reaped" /\ Goto("settle") /\ UNCHANGED answer
       \/ child = "running" /\ late /\ Goto("kill") /\ answer' = "timeout" /\ UNCHANGED child
       \/ child = "running" /\ ~late /\ Goto("poll") /\ UNCHANGED <<answer, child>>
       \/ Goto("kill") /\ answer' = "io" /\ UNCHANGED child
    /\ UNCHANGED <<stage, code, helper, pipes, overflow, late, stranger, report>>
Ended(h) == IF h.at = "group" THEN [at |-> "gone", holds |-> {}] ELSE h
\* Mutant: only the child is killed.
KillChild == /\ pc = "kill"
             /\ child' = "zombie" /\ Goto("reap")
             /\ UNCHANGED <<stage, code, helper, pipes, overflow, late, stranger, answer, report>>
\* terminate_child: the group is killed, then the child is waited for.
Kill == /\ pc = "kill"
        /\ child' = "zombie" /\ helper' = Ended(helper) /\ Goto("reap")
        /\ UNCHANGED <<stage, code, pipes, overflow, late, stranger, answer, report>>
Reap == /\ pc = "reap"
        /\ child' = "reaped" /\ Goto("drain")
        /\ UNCHANGED <<stage, code, helper, pipes, overflow, late, stranger, answer, report>>
\* The readers get 100 ms; the answer is an error either way.
Drain == /\ pc = "drain" /\ Goto("done")
         /\ UNCHANGED <<stage, child, code, helper, pipes, overflow, late, stranger, answer, report>>
Settle ==
    /\ pc = "settle"
    /\ Goto(IF Finished THEN "join" ELSE "terminate")
    /\ UNCHANGED <<stage, child, code, helper, pipes, overflow, late, stranger, answer, report>>
\* terminate_process_group: whatever has the number of the reaped child now.
Terminate ==
    /\ pc = "terminate" /\ Goto("join")
    /\ helper' = Ended(helper)
    /\ stranger' = IF stranger = "running" THEN "killed" ELSE stranger
    /\ UNCHANGED <<stage, child, code, pipes, overflow, late, answer, report>>
\* Mutant: a flag that was raised after the last poll is not looked at.
JoinedUnchecked == IF Broken THEN "io" ELSE "whole"
\* What the joined threads returned comes before what they raised.
Joined == IF Broken THEN "io" ELSE IF overflow THEN "output_limit" ELSE "whole"
\* Mutant: join_pipe_readers without the deadline.
JoinUnbounded ==
    /\ pc = "join" /\ Finished /\ Goto("done") /\ answer' = Joined
    /\ UNCHANGED <<stage, child, code, helper, pipes, overflow, late, stranger, report>>
Join ==
    /\ pc = "join" /\ Goto("done")
    /\ \/ Finished /\ answer' = Joined
       \/ ~Finished /\ late /\ answer' = "timeout"
    /\ UNCHANGED <<stage, child, code, helper, pipes, overflow, late, stranger, report>>

\* repository_diagnostics: what an answer makes of the report; a value that
\* cannot be read is an error as well.
Accepted == answer = "whole" /\ (code = "zero" \/ (code = "one" /\ Stages[stage] = "remote"))
Failed == CASE answer = "timeout" -> {"git_timeout"}
            [] answer = "output_limit" -> {"git_output_limit"}
            [] answer = "spawn" -> {"git_unavailable", "git_error"}
            [] answer = "io" -> {"git_error"}
            [] OTHER -> IF Stages[stage] = "root" /\ code # "zero"
                        THEN {"not_repository", "repository_error"} ELSE {"repository_error"}
Advance ==
    /\ pc = "done" /\ Accepted /\ stage < Len(Stages)
    /\ stage' = stage + 1 /\ Goto("start")
    /\ child' = "none" /\ code' = "zero" /\ helper' = NoHelper /\ pipes' = Fresh
    /\ overflow' = FALSE /\ answer' = "none" /\ stranger' = "none"
    /\ UNCHANGED <<late, report>>
Conclude ==
    /\ pc = "done"
    /\ \/ Accepted /\ stage = Len(Stages) /\ report' = "repository"
       \/ report' \in Failed
    /\ Goto("reported")
    /\ UNCHANGED <<stage, child, code, helper, pipes, overflow, late, stranger, answer>>

Prober == \/ Start \/ Poll \/ TryWait \/ Kill \/ Reap \/ Drain \/ Settle \/ Terminate
          \/ Join \/ Advance \/ Conclude
Reader(p) == Take(p) \/ EndOfFile(p) \/ ReadFails(p)
Git == (\E p \in Pipe : Write(p)) \/ Fork \/ Exit \/ HelperEnds

Init ==
    /\ stage = 1 /\ pc = "start" /\ child = "none" /\ code = "zero" /\ helper = NoHelper
    /\ pipes = Fresh /\ overflow = FALSE /\ late = FALSE /\ stranger = "none"
    /\ answer = "none" /\ report = "none"
Next == Prober \/ (\E p \in Pipe : Reader(p)) \/ Git \/ Reuse \/ Tick
Spec == Init /\ [][Next]_vars
\* The prober's thread runs and time passes; Git, its helper and even the
\* readers may do nothing at all.
Fairness == WF_vars(Prober) /\ WF_vars(Tick)

----------------------------------------------------------------------------
(* Properties *)

\* Types of the prober's state.
TypeOK ==
    /\ stage \in 1..Len(Stages)
    /\ pc \in {"start", "poll", "wait", "kill", "reap", "drain", "settle", "terminate",
               "join", "done", "reported"}
    /\ child \in {"none", "running", "zombie", "reaped"} /\ code \in Code
    /\ helper \in [at: {"none", "group", "away", "gone"}, holds: SUBSET Pipe]
    /\ pipes \in [Pipe -> [sent: 0..MaxSent, taken: 0..MaxSent, eof: BOOLEAN,
                       failed: BOOLEAN]]
    /\ overflow \in BOOLEAN /\ late \in BOOLEAN
    /\ stranger \in {"none", "running", "killed"} /\ answer \in Answer /\ report \in Report

\* An answer is everything Git and its helper wrote, to the last chunk, and
\* nobody can write more: no race of the readers with the poll or the deadline
\* lets a part pass for the whole (run_git_probe).
WholeIsWhole ==
    answer = "whole" => \A p \in Pipe : /\ ~Open(p)
                                        /\ pipes[p].taken = pipes[p].sent
                                        /\ pipes[p].taken <= Limit

\* A probe that failed after Git was started leaves no zombie, and one that
\* was late or cut off nothing that runs in its group (terminate_child and
\* terminate_process_group).
NothingIsLeft ==
    pc = "done" =>
        /\ child \in {"none", "reaped"}
        /\ answer = "timeout" \/ (answer = "output_limit" /\ ~Finished) => ~Grouped

\* All probes together end, whatever Git, its helpers and the readers do: the
\* deadline of two seconds is one for all of them (repository_diagnostics).
DiagnosisEnds == <>(pc = "reported")
=============================================================================
