--------------------------- MODULE MCMemoryStore ---------------------------
(* Instances of MemoryStore for TLC. *)
EXTENDS MemoryStore, TLC

Interchangeable == Permutations(Memory) \cup Permutations(Context) \cup Permutations(Body)

NoChildren == {<<>>}

\* Checkpoints with nothing, with one decision that may revise an earlier one,
\* and with a keyed decision twice, as two decisions of one checkpoint may be.
FewChildren ==
    LET keyed == [kind |-> "decision", key |-> CHOOSE k \in Key : TRUE]
        task == [kind |-> "task", key |-> None]
    IN {<<>>, <<keyed>>, <<keyed, keyed>>, <<keyed, task>>}
=============================================================================
