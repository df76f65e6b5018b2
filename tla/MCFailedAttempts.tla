------------------------- MODULE MCFailedAttempts -------------------------
(* Instances of FailedAttempts for TLC. *)
EXTENDS FailedAttempts, TLC

Interchangeable == Permutations(Memory)

\* Checkpoints that record a failed outcome.
OneOutcome == {<<[kind |-> "outcome", key |-> CHOOSE k \in Key : TRUE]>>}

\* Checkpoints with nothing, with one outcome that may revise an earlier one,
\* with a keyed outcome twice, and with a decision of the same key.
Outcomes ==
    LET keyed(kind) == [kind |-> kind, key |-> CHOOSE k \in Key : TRUE]
    IN {<<>>, <<keyed("outcome")>>, <<keyed("outcome"), keyed("outcome")>>,
        <<keyed("outcome"), keyed("decision")>>}
=============================================================================
