------------------------------ MODULE Journal ------------------------------
(***************************************************************************)
(* What the store promises to its clients: a journal of executed calls.    *)
(* A call takes effect in one step or not at all, a keyed call takes       *)
(* effect at most once, and nothing that was journalled ever changes.      *)
(***************************************************************************)
EXTENDS Naturals, Sequences

CONSTANT Keyed(_)   \* whether a call identity carries an idempotency key

VARIABLE log        \* sequence of [slot, effect]: who asked, what was done

Init == log = <<>>

\* One entry more, after the ones that were there.
Extends == /\ Len(log') = Len(log) + 1
           /\ SubSeq(log', 1, Len(log)) = log

\* The new entry does not repeat a keyed call.
Fresh == LET slot == log'[Len(log')].slot IN
         Keyed(slot) => \A i \in DOMAIN log : log[i].slot # slot

Next == Extends /\ Fresh

Spec == Init /\ [][Next]_log
=============================================================================
