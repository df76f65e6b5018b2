--------------------------- MODULE GitProbeProofs ---------------------------
(***************************************************************************)
(* Theorems about GitProbe, for any sequence of probes and any bounds.     *)
(***************************************************************************)
EXTENDS GitProbe, TLAPS

----------------------------------------------------------------------------
(* The invariant *)

\* Where the child is at each step of the prober.
ChildInv ==
    /\ pc = "start" => child = "none" /\ helper = NoHelper /\ pipes = Fresh
    /\ pc \in {"poll", "wait", "kill"} => child \in {"running", "zombie"}
    /\ pc = "reap" => child = "zombie"
    /\ pc \in {"drain", "settle", "terminate", "join"} => child = "reaped"
    /\ pc \in {"done", "reported"} => child \in {"none", "reaped"}
\* A reader that ended, and not by an error, has read all that was written and
\* all that will be.
PipeInv ==
    \A p \in Pipe : /\ pipes[p].taken <= pipes[p].sent
                    /\ pipes[p].failed => pipes[p].eof
                    /\ pipes[p].eof /\ ~pipes[p].failed =>
                                       /\ child \in {"zombie", "reaped"} /\ ~Open(p)
                                       /\ pipes[p].taken = pipes[p].sent
                    /\ pipes[p].taken > Limit => overflow
\* What an answer, and a place short of one, says of the readers and the group.
AnswerInv ==
    /\ answer = "whole" => pc \in {"done", "reported"} /\ Finished /\ ~overflow /\ ~Broken
    /\ pc \in {"kill", "reap", "drain"} => answer \in {"timeout", "output_limit", "io"}
    /\ pc \in {"reap", "drain"} => ~Grouped
    /\ pc = "join" => Finished \/ ~Grouped
    /\ pc = "done" /\ answer = "timeout" => ~Grouped
    /\ pc = "done" /\ answer = "output_limit" => Finished \/ ~Grouped
ProbeInv == TypeOK /\ ChildInv /\ PipeInv /\ AnswerInv

----------------------------------------------------------------------------
(* Lemmas *)

\* A step of another thread or process leaves the prober where it is; a reader
\* that ended stays so, and a group that is empty stays so once the child does
\* not run.
Aside ==
    /\ UNCHANGED <<stage, pc, answer, report>>
    /\ child' = child \/ (child = "running" /\ child' = "zombie")
    /\ \A p \in Pipe : pipes[p].eof => pipes'[p].eof /\ pipes'[p].failed = pipes[p].failed
    /\ child # "running" /\ ~Grouped => ~Grouped'
    /\ Finished => overflow' = overflow
    /\ pc = "start" => UNCHANGED <<child, helper, pipes>>

LEMMA AsideKeepsControl ==
    ASSUME ChildInv, AnswerInv, Aside
    PROVE  ChildInv' /\ AnswerInv'
<1>1. ChildInv' BY DEF ChildInv, Aside, NoHelper, Fresh
<1>2. Finished => Finished' BY DEF Finished, Aside
<1>3. pc = "done" => child # "running" BY DEF ChildInv
<1>4. pc \in {"reap", "drain", "join"} => child # "running" BY DEF ChildInv
<1>5. AnswerInv'
  <2>1. UNCHANGED <<pc, answer>> BY DEF Aside
  <2>2. answer = "whole" => pc \in {"done", "reported"} /\ Finished' /\ overflow' = overflow
                            /\ ~overflow /\ ~Broken'
    BY <1>2 DEF AnswerInv, Aside, Finished, Broken
  <2>3. pc \in {"kill", "reap", "drain"} => answer \in {"timeout", "output_limit", "io"}
    BY DEF AnswerInv
  <2>4. pc \in {"reap", "drain"} => ~Grouped' BY <1>4 DEF AnswerInv, Aside
  <2>5. pc = "join" => Finished' \/ ~Grouped' BY <1>2, <1>4 DEF AnswerInv, Aside
  <2>6. pc = "done" /\ answer = "timeout" => ~Grouped' BY <1>3 DEF AnswerInv, Aside
  <2>7. pc = "done" /\ answer = "output_limit" => Finished' \/ ~Grouped'
    BY <1>2, <1>3 DEF AnswerInv, Aside
  <2> QED BY <2>1, <2>2, <2>3, <2>4, <2>5, <2>6, <2>7 DEF AnswerInv
<1> QED BY <1>1, <1>5

LEMMA InitProbe == Init => ProbeInv
<1> SUFFICES ASSUME Init PROVE ProbeInv
  OBVIOUS
<1>1. Len(Stages) \in Nat /\ Len(Stages) >= 1 /\ Limit \in Nat /\ MaxSent \in Nat
  BY ProbeAssumption
<1>2. TypeOK
  <2>1. pipes \in [Pipe -> [sent: 0..MaxSent, taken: 0..MaxSent, eof: BOOLEAN,
                         failed: BOOLEAN]]
    BY <1>1 DEF Init, Fresh
  <2>2. helper \in [at: {"none", "group", "away", "gone"}, holds: SUBSET Pipe]
    BY DEF Init, NoHelper
  <2>3. stage \in 1..Len(Stages) BY <1>1 DEF Init
  <2> QED BY <2>1, <2>2, <2>3 DEF Init, TypeOK, Code, Answer, Report
<1>3. ChildInv /\ PipeInv /\ AnswerInv
  BY <1>1 DEF Init, ChildInv, PipeInv, AnswerInv, Fresh, Broken
<1> QED BY <1>2, <1>3 DEF ProbeInv

----------------------------------------------------------------------------
(* Git, its helper, the clock and the readers *)

LEMMA GitKeepsProbe ==
    ASSUME ProbeInv, Git \/ Reuse \/ Tick PROVE ProbeInv'
<1> USE DEF ProbeInv
<1>1. ASSUME NEW p \in Pipe, Write(p) PROVE ProbeInv'
  <2>1. ~pipes[p].eof /\ pipes[p].sent \in Nat /\ pipes[p].sent < MaxSent
    BY <1>1 DEF Write, PipeInv, TypeOK
  <2>2. TypeOK'
    <3>1. pipes[p].sent + 1 \in 0..MaxSent BY <2>1, ProbeAssumption
    <3>2. pipes' = [pipes EXCEPT ![p].sent = pipes[p].sent + 1] BY <1>1 DEF Write
    <3>3. pipes' \in [Pipe -> [sent: 0..MaxSent, taken: 0..MaxSent, eof: BOOLEAN,
                              failed: BOOLEAN]]
      BY <3>1, <3>2 DEF TypeOK
    <3> QED BY <1>1, <3>3 DEF Write, TypeOK
  <2>3. PipeInv' BY <1>1, <2>1 DEF Write, PipeInv, TypeOK, Open
  <2>4. Aside
    BY <1>1 DEF Write, Aside, Grouped, ChildInv, NoHelper, TypeOK, Finished, Open
  <2> QED BY <2>2, <2>3, <2>4, AsideKeepsControl
<1>2. CASE Fork
  <2>1. TypeOK' BY <1>2 DEF Fork, TypeOK
  <2>2. PipeInv' BY <1>2 DEF Fork, PipeInv, Open
  <2>3. Aside BY <1>2 DEF Fork, Aside, ChildInv, Grouped
  <2> QED BY <2>1, <2>2, <2>3, AsideKeepsControl
<1>3. CASE Exit
  <2>1. TypeOK' BY <1>3 DEF Exit, TypeOK
  <2>2. PipeInv' BY <1>3 DEF Exit, PipeInv, Open
  <2>3. Aside BY <1>3 DEF Exit, Aside, ChildInv, Grouped
  <2> QED BY <2>1, <2>2, <2>3, AsideKeepsControl
<1>4. CASE HelperEnds
  <2>1. TypeOK' BY <1>4 DEF HelperEnds, TypeOK
  <2>2. PipeInv' BY <1>4 DEF HelperEnds, PipeInv, Open
  <2>3. Aside BY <1>4 DEF HelperEnds, Aside, ChildInv, Grouped, NoHelper
  <2> QED BY <2>1, <2>2, <2>3, AsideKeepsControl
<1>5. CASE Reuse
  <2>1. TypeOK' /\ PipeInv' BY <1>5 DEF Reuse, TypeOK, PipeInv, Open
  <2>2. Aside BY <1>5 DEF Reuse, Aside, Grouped
  <2> QED BY <2>1, <2>2, AsideKeepsControl
<1>6. CASE Tick
  <2>1. TypeOK' /\ PipeInv' BY <1>6 DEF Tick, TypeOK, PipeInv, Open
  <2>2. Aside BY <1>6 DEF Tick, Aside, Grouped
  <2> QED BY <2>1, <2>2, AsideKeepsControl
<1> QED BY <1>1, <1>2, <1>3, <1>4, <1>5, <1>6 DEF Git

LEMMA ReaderKeepsProbe ==
    ASSUME ProbeInv, NEW p \in Pipe, Reader(p) PROVE ProbeInv'
<1> USE DEF ProbeInv
<1>1. CASE Take(p)
  <2>1. PICK n \in pipes[p].taken + 1 .. pipes[p].sent :
            /\ pipes' = [pipes EXCEPT ![p].taken = n]
            /\ overflow' = (overflow \/ n > Limit)
    BY <1>1 DEF Take
  <2>2. ~pipes[p].eof BY <1>1 DEF Take
  <2>a. /\ pipes[p].taken \in 0..MaxSent /\ pipes[p].sent \in 0..MaxSent
        /\ MaxSent \in Nat /\ Limit \in Nat /\ overflow \in BOOLEAN
    BY ProbeAssumption DEF TypeOK
  <2>b. n \in 0..MaxSent /\ n <= pipes[p].sent BY <2>a
  <2>c. UNCHANGED <<stage, pc, child, code, helper, late, stranger, answer, report>>
    BY <1>1 DEF Take
  <2>d. pipes' \in [Pipe -> [sent: 0..MaxSent, taken: 0..MaxSent, eof: BOOLEAN,
                         failed: BOOLEAN]]
    BY <2>1, <2>b DEF TypeOK
  <2>3. TypeOK'
    <3>1. overflow' \in BOOLEAN BY <2>1, <2>a
    <3> QED BY <2>c, <2>d, <3>1 DEF TypeOK
  <2>4. PipeInv'
    <3>1. \A q \in Pipe : Open(q)' = Open(q) BY <2>c DEF Open
    <3>2. pipes'[p].taken = n /\ pipes'[p].sent = pipes[p].sent /\ ~pipes'[p].eof
      /\ pipes'[p].failed = pipes[p].failed
      BY <2>1, <2>2 DEF TypeOK
    <3>3. \A q \in Pipe \ {p} : pipes'[q] = pipes[q] BY <2>1 DEF TypeOK
    <3>4. (overflow => overflow') /\ (n > Limit => overflow') BY <2>1
    <3>5. ~pipes'[p].failed BY <2>2, <3>2 DEF PipeInv
    <3> QED BY <2>b, <2>c, <3>1, <3>2, <3>3, <3>4, <3>5 DEF PipeInv
  <2>5. Aside
    BY <1>1, <2>1, <2>2
    DEF Take, Aside, TypeOK, Grouped, Finished, ChildInv, Fresh
  <2> QED BY <2>3, <2>4, <2>5, AsideKeepsControl
<1>2. CASE EndOfFile(p)
  <2>1. child \in {"zombie", "reaped"} BY <1>2 DEF EndOfFile, TypeOK, Open
  <2>2. TypeOK' BY <1>2 DEF EndOfFile, TypeOK
  <2>3. PipeInv' BY <1>2, <2>1 DEF EndOfFile, PipeInv, TypeOK, Open
  <2>4. Aside BY <1>2 DEF EndOfFile, Aside, TypeOK, Grouped, ChildInv
  <2> QED BY <2>2, <2>3, <2>4, AsideKeepsControl
<1>3. CASE ReadFails(p)
  <2>1. /\ child # "none" /\ ~pipes[p].eof
        /\ pipes' = [pipes EXCEPT ![p].eof = TRUE, ![p].failed = TRUE]
        /\ UNCHANGED <<stage, pc, child, code, helper, overflow, late, stranger, answer, report>>
    BY <1>3 DEF ReadFails
  <2>2. TypeOK' BY <2>1 DEF TypeOK
  <2>3. PipeInv' BY <2>1 DEF PipeInv, TypeOK, Open
  <2>4. Aside BY <2>1 DEF Aside, TypeOK, Grouped, ChildInv
  <2> QED BY <2>2, <2>3, <2>4, AsideKeepsControl
<1> QED BY <1>1, <1>2, <1>3 DEF Reader

----------------------------------------------------------------------------
(* The prober *)

\* A step of the prober that leaves the processes and pipes alone keeps what
\* is known of the readers.
LEMMA QuietKeepsPipes ==
    ASSUME PipeInv, UNCHANGED <<child, helper, pipes, overflow>> PROVE PipeInv'
BY DEF PipeInv, Open

\* To start, to poll and to ask whether the child has ended.
LEMMA PollingKeepsProbe ==
    ASSUME ProbeInv, Start \/ Poll \/ TryWait PROVE ProbeInv'
<1> USE DEF ProbeInv
<1>1. CASE Start
  <2>1. TypeOK' BY <1>1 DEF Start, Goto, TypeOK, Answer
  <2>2. child = "none" /\ helper = NoHelper /\ pipes = Fresh BY <1>1 DEF Start, ChildInv
  <2>3. ChildInv' BY <1>1, <2>2 DEF Start, Goto, ChildInv
  <2>4. \A p \in Pipe : ~pipes'[p].eof /\ pipes'[p] = pipes[p] /\ overflow' = overflow
    BY <1>1, <2>2 DEF Start, Fresh
  <2>5. PipeInv' BY <2>4 DEF PipeInv
  <2>6. ~Grouped' BY <1>1, <2>2 DEF Start, Grouped, NoHelper
  <2>7. AnswerInv' BY <1>1, <2>6 DEF Start, Goto, AnswerInv
  <2> QED BY <2>1, <2>3, <2>5, <2>7
<1>2. CASE Poll
  <2>1. TypeOK' BY <1>2 DEF Poll, Goto, TypeOK, Answer
  <2>2. ChildInv' BY <1>2 DEF Poll, Goto, ChildInv
  <2>3. PipeInv' BY <1>2, QuietKeepsPipes DEF Poll
  <2>4. AnswerInv' BY <1>2 DEF Poll, Goto, AnswerInv
  <2> QED BY <2>1, <2>2, <2>3, <2>4
<1>3. CASE TryWait
  <2>1. TypeOK' BY <1>3 DEF TryWait, Goto, TypeOK, Answer
  <2>2. ChildInv' BY <1>3 DEF TryWait, Goto, ChildInv
  <2>3. PipeInv'
    <3>1. child' = child \/ (child = "zombie" /\ child' = "reaped") BY <1>3 DEF TryWait
    <3>2. UNCHANGED <<helper, pipes, overflow>> BY <1>3 DEF TryWait
    <3> QED BY <3>1, <3>2 DEF PipeInv, Open
  <2>4. AnswerInv' BY <1>3 DEF TryWait, Goto, AnswerInv
  <2> QED BY <2>1, <2>2, <2>3, <2>4
<1> QED BY <1>1, <1>2, <1>3

\* To kill the group, to wait for the child and to drain the pipes.
LEMMA KillingKeepsProbe ==
    ASSUME ProbeInv, Kill \/ Reap \/ Drain PROVE ProbeInv'
<1> USE DEF ProbeInv
<1>1. CASE Kill
  <2>1. Ended(helper) \in [at: {"none", "group", "away", "gone"}, holds: SUBSET Pipe]
    BY DEF TypeOK, Ended
  <2>2. TypeOK' BY <1>1, <2>1 DEF Kill, Goto, TypeOK
  <2>3. ChildInv' BY <1>1 DEF Kill, Goto, ChildInv
  <2>4. \A p \in Pipe : ~Open(p) => ~Open(p)' BY <1>1 DEF Kill, Open, Ended
  <2>5. PipeInv' BY <1>1, <2>4 DEF Kill, PipeInv
  <2>6. ~Grouped' BY <1>1 DEF Kill, Grouped, Ended
  <2>7. AnswerInv' BY <1>1, <2>6 DEF Kill, Goto, AnswerInv
  <2> QED BY <2>2, <2>3, <2>5, <2>7
<1>2. CASE Reap
  <2>1. TypeOK' BY <1>2 DEF Reap, Goto, TypeOK
  <2>2. ChildInv' BY <1>2 DEF Reap, Goto, ChildInv
  <2>3. child = "zombie" BY <1>2 DEF Reap, ChildInv
  <2>4. PipeInv' BY <1>2, <2>3 DEF Reap, PipeInv, Open
  <2>5. Grouped' = Grouped BY <1>2 DEF Reap, Grouped
  <2>6. AnswerInv' BY <1>2, <2>5 DEF Reap, Goto, AnswerInv
  <2> QED BY <2>1, <2>2, <2>4, <2>6
<1>3. CASE Drain
  <2>1. TypeOK' BY <1>3 DEF Drain, Goto, TypeOK
  <2>2. ChildInv' BY <1>3 DEF Drain, Goto, ChildInv
  <2>3. PipeInv' BY <1>3, QuietKeepsPipes DEF Drain
  <2>4. Grouped' = Grouped BY <1>3 DEF Drain, Grouped
  <2>5. AnswerInv' BY <1>3, <2>4 DEF Drain, Goto, AnswerInv
  <2> QED BY <2>1, <2>2, <2>3, <2>5
<1> QED BY <1>1, <1>2, <1>3

\* After the child ended: to kill what is left of its group, to join the readers.
LEMMA JoiningKeepsProbe ==
    ASSUME ProbeInv, Settle \/ Terminate \/ Join PROVE ProbeInv'
<1> USE DEF ProbeInv
<1>1. CASE Settle
  <2>1. TypeOK' BY <1>1 DEF Settle, Goto, TypeOK
  <2>2. ChildInv' BY <1>1 DEF Settle, Goto, ChildInv
  <2>3. PipeInv' BY <1>1, QuietKeepsPipes DEF Settle
  <2>4. Finished' = Finished BY <1>1 DEF Settle, Finished
  <2>5. (pc' = "join" => Finished) /\ pc' \in {"join", "terminate"} /\ answer' = answer
    BY <1>1 DEF Settle, Goto
  <2>6. answer # "whole" BY <1>1 DEF Settle, AnswerInv
  <2>7. AnswerInv' BY <2>4, <2>5, <2>6 DEF AnswerInv
  <2> QED BY <2>1, <2>2, <2>3, <2>7
<1>2. CASE Terminate
  <2>1. Ended(helper) \in [at: {"none", "group", "away", "gone"}, holds: SUBSET Pipe]
    BY DEF TypeOK, Ended
  <2>2. TypeOK' BY <1>2, <2>1 DEF Terminate, Goto, TypeOK
  <2>3. ChildInv' BY <1>2 DEF Terminate, Goto, ChildInv
  <2>4. \A p \in Pipe : ~Open(p) => ~Open(p)' BY <1>2 DEF Terminate, Open, Ended
  <2>5. PipeInv' BY <1>2, <2>4 DEF Terminate, PipeInv
  <2>6. ~Grouped' BY <1>2 DEF Terminate, Grouped, Ended
  <2>7. answer # "whole" BY <1>2 DEF Terminate, AnswerInv
  <2>8. AnswerInv' BY <1>2, <2>6, <2>7 DEF Terminate, Goto, AnswerInv
  <2> QED BY <2>2, <2>3, <2>5, <2>8
<1>3. CASE Join
  <2>1. TypeOK' BY <1>3 DEF Join, Joined, Goto, TypeOK, Answer
  <2>2. ChildInv' BY <1>3 DEF Join, Goto, ChildInv
  <2>3. PipeInv' BY <1>3, QuietKeepsPipes DEF Join
  <2>4. /\ Finished' = Finished /\ Grouped' = Grouped /\ Broken' = Broken
        /\ overflow' = overflow /\ pc' = "done"
    BY <1>3 DEF Join, Goto, Finished, Grouped, Broken
  <2>5. Finished \/ ~Grouped BY <1>3 DEF Join, AnswerInv
  <2>6. (Finished /\ answer' = Joined) \/ (~Finished /\ answer' = "timeout")
    BY <1>3 DEF Join
  <2>7. CASE Finished
    <3>1. \/ Broken /\ answer' = "io"
          \/ ~Broken /\ overflow /\ answer' = "output_limit"
          \/ ~Broken /\ ~overflow /\ answer' = "whole"
      BY <2>6, <2>7 DEF Joined
    <3> QED BY <2>1, <2>2, <2>3, <2>4, <2>7, <3>1 DEF AnswerInv
  <2>8. CASE ~Finished
    <3>1. answer' = "timeout" BY <2>6, <2>8
    <3> QED BY <2>1, <2>2, <2>3, <2>4, <2>5, <2>8, <3>1 DEF AnswerInv
  <2> QED BY <2>1, <2>2, <2>3, <2>7, <2>8
<1> QED BY <1>1, <1>2, <1>3

\* To go on to the next probe, or to report.
LEMMA AdvancingKeepsProbe ==
    ASSUME ProbeInv, Advance \/ Conclude PROVE ProbeInv'
<1> USE DEF ProbeInv
<1>1. CASE Advance
  <2>1. /\ Len(Stages) \in Nat /\ Limit \in Nat /\ MaxSent \in Nat BY ProbeAssumption
  <2>2. /\ pc' = "start" /\ child' = "none" /\ code' = "zero" /\ helper' = NoHelper
        /\ pipes' = Fresh /\ overflow' = FALSE /\ answer' = "none" /\ stranger' = "none"
        /\ stage' = stage + 1 /\ stage < Len(Stages) /\ UNCHANGED <<late, report>>
    BY <1>1 DEF Advance, Goto
  <2>3. TypeOK'
    <3>1. pipes' \in [Pipe -> [sent: 0..MaxSent, taken: 0..MaxSent, eof: BOOLEAN,
                         failed: BOOLEAN]]
      BY <2>1, <2>2 DEF Fresh
    <3>2. helper' \in [at: {"none", "group", "away", "gone"}, holds: SUBSET Pipe]
      BY <2>2 DEF NoHelper
    <3>3. stage' \in 1..Len(Stages) BY <2>1, <2>2 DEF TypeOK
    <3> QED BY <2>2, <3>1, <3>2, <3>3 DEF TypeOK, Code, Answer
  <2>4. ChildInv' BY <2>2 DEF ChildInv, NoHelper, Fresh
  <2>5. PipeInv' BY <2>1, <2>2 DEF PipeInv, Fresh
  <2>6. AnswerInv' BY <2>2 DEF AnswerInv
  <2> QED BY <2>3, <2>4, <2>5, <2>6
<1>2. CASE Conclude
  <2>1. report' \in Report
    <3>1. Failed \subseteq Report
      <4>1. Failed \in {{"git_timeout"}, {"git_output_limit"}, {"git_error"}, {"repository_error"},
                        {"git_unavailable", "git_error"},
                        {"not_repository", "repository_error"}}
        BY DEF Failed
      <4> QED BY <4>1 DEF Report
    <3>2. report' = "repository" \/ report' \in Failed BY <1>2 DEF Conclude
    <3> QED BY <3>1, <3>2 DEF Report
  <2>2. TypeOK' BY <1>2, <2>1 DEF Conclude, Goto, TypeOK
  <2>3. ChildInv' BY <1>2 DEF Conclude, Goto, ChildInv
  <2>4. PipeInv' BY <1>2, QuietKeepsPipes DEF Conclude
  <2>5. /\ Finished' = Finished /\ overflow' = overflow /\ Broken' = Broken
        /\ answer' = answer /\ pc' = "reported"
    BY <1>2 DEF Conclude, Goto, Finished, Broken
  <2>6. AnswerInv' BY <2>5 DEF AnswerInv
  <2> QED BY <2>2, <2>3, <2>4, <2>6
<1> QED BY <1>1, <1>2

----------------------------------------------------------------------------
(* Theorems *)

LEMMA NextProbe == ProbeInv /\ [Next]_vars => ProbeInv'
<1> SUFFICES ASSUME ProbeInv, [Next]_vars PROVE ProbeInv'
  OBVIOUS
<1>1. CASE Prober
  BY <1>1, PollingKeepsProbe, KillingKeepsProbe, JoiningKeepsProbe, AdvancingKeepsProbe
  DEF Prober
<1>2. CASE \E p \in Pipe : Reader(p)
  BY <1>2, ReaderKeepsProbe
<1>3. CASE Git \/ Reuse \/ Tick
  BY <1>3, GitKeepsProbe
<1>4. CASE UNCHANGED vars
  <2>1. TypeOK' /\ ChildInv' BY <1>4 DEF vars, ProbeInv, TypeOK, ChildInv
  <2>2. PipeInv' BY <1>4, QuietKeepsPipes DEF vars, ProbeInv
  <2>3. AnswerInv' BY <1>4 DEF vars, ProbeInv, AnswerInv, Finished, Grouped, Broken
  <2> QED BY <2>1, <2>2, <2>3 DEF ProbeInv
<1> QED BY <1>1, <1>2, <1>3, <1>4 DEF Next

LEMMA ProbeInvariant == Spec => []ProbeInv
BY InitProbe, NextProbe, PTL DEF Spec

\* The types of the prober's state, for any probes, limits and pipes.
THEOREM ProbeTypes == Spec => []TypeOK
BY ProbeInvariant, PTL DEF ProbeInv

\* A whole answer is everything that was written, and within the limit
\* (run_git_probe).
THEOREM WholeAnswers == Spec => []WholeIsWhole
<1>1. ProbeInv => WholeIsWhole
  <2> SUFFICES ASSUME ProbeInv, answer = "whole", NEW p \in Pipe
               PROVE  /\ ~Open(p) /\ pipes[p].taken = pipes[p].sent
                      /\ pipes[p].taken <= Limit
    BY DEF WholeIsWhole
  <2>1. Finished /\ ~overflow /\ ~Broken BY DEF ProbeInv, AnswerInv
  <2>2. pipes[p].eof /\ ~pipes[p].failed BY <2>1 DEF Finished, Broken
  <2>3. pipes[p].taken \in Nat /\ Limit \in Nat BY ProbeAssumption DEF ProbeInv, TypeOK
  <2> QED BY <2>1, <2>2, <2>3 DEF ProbeInv, PipeInv
<1> QED BY <1>1, ProbeInvariant, PTL

\* A probe that ends leaves no zombie, and one that was late or cut off no
\* process of its group (terminate_child, terminate_process_group).
THEOREM NoLeftovers == Spec => []NothingIsLeft
<1>1. ProbeInv => NothingIsLeft
  BY DEF ProbeInv, NothingIsLeft, ChildInv, AnswerInv
<1> QED BY <1>1, ProbeInvariant, PTL
=============================================================================
