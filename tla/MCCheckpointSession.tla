------------------------ MODULE MCCheckpointSession ------------------------
(* Instances of CheckpointSession for TLC: the stop events are of session s1,  *)
(* session s2 shares its commands.                                           *)
EXTENDS CheckpointSession, TLC

CONSTANTS s1, s2, c1

OfFirstSession == [k \in StopKey |-> s1]

AnEvent(s, kind, c, ok) == [session |-> s, kind |-> kind, command |-> c, ok |-> ok]
\* A prompt, a command that fails or succeeds, a passing test; noise of s2.
FewEvents ==
    {AnEvent(s1, "conversation_turn", None, TRUE),
     AnEvent(s1, "command_result", c1, FALSE),
     AnEvent(s1, "command_result", c1, TRUE),
     AnEvent(s1, "verification", c1, TRUE),
     AnEvent(s2, "command_result", c1, FALSE)}

Interchangeable == Permutations(Delivery) \cup Permutations(StopKey)
=============================================================================
