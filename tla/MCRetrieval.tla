---------------------------- MODULE MCRetrieval ----------------------------
(***************************************************************************)
(* The parts of recall, one at a time in each behaviour: workers that      *)
(* register projections, recalls among writers, the selection of diverse   *)
(* hits, and their packing.                                                *)
(***************************************************************************)
EXTENDS Recall, Diversity, ContextPack, TLC

CONSTANTS m1, m2, s1, c1, c2, b1, b2, p1, t1, d1, d2, w1, w2

NoChildren == {<<>>}
Symmetry == Permutations({m1, m2}) \cup Permutations({w1, w2}) \cup Permutations({d1, d2})

----------------------------------------------------------------------------
(* Recalls *)

Places == [s \in {s1} |-> [namespace |-> "n", repo |-> "r", workspace |-> None]]
\* b2 is valid from millisecond 1 on and expires at 2; requests name half ones.
Windows == [b \in {b1, b2} |-> IF b = b1 THEN [from |-> None, until |-> None, expires |-> None]
                              ELSE [from |-> 1, until |-> None, expires |-> 2]]
Finds(text, expansion, attribute) ==
    [text |-> text, expansion |-> expansion, attribute |-> attribute, dense |-> {b1}]
Ask(at, superseded, found) ==
    [scope |-> s1, ctx |-> c1, asOf |-> at, kinds |-> {}, superseded |-> superseded,
     stale |-> superseded, divergent |-> FALSE, finds |-> found, profile |-> None,
     dims |-> None]
LexicalQueries == {Ask(3, FALSE, Finds({b1}, {}, {b2})), Ask(4, TRUE, Finds({b1, b2}, {}, {}))}
LimitTwo == [c \in Channel |-> IF c = "recent" THEN 1 ELSE 2]

\* The part of Recall's instance a behaviour stays in: who acts, on what.
Within(contexts, queries, active, seqs, admins) ==
    /\ Len(db'.events) <= seqs /\ admin' <= admins
    /\ \A i \in DOMAIN db'.events : db'.events[i].body = b1 /\ db'.events[i].ctx \in contexts
    /\ \A w \in Worker \ active : workers'[w] = workers[w]
    /\ \A r \in Reader : readers'[r].query \in queries \cup {None}
Projecting == RNext /\ Within({c1}, {}, Worker, 3, 3)
Lexical == RNext /\ Within(Context, LexicalQueries, {}, 3, 0)

----------------------------------------------------------------------------
(* Hits to pack *)

Characters(n, stops, escapes) ==
    [i \in 1..n |-> IF i \in stops THEN "stop" ELSE IF i \in escapes THEN "escaped" ELSE "plain"]
Bodies == {Characters(2, {}, {}), Characters(10, {4, 6}, {}), Characters(10, {}, {3}),
           [i \in 1..9 |-> IF i = 5 THEN "break" ELSE "plain"]}
Packed == [kind: {"preference", "constraint", "fact"}, body: Bodies,
           contested: BOOLEAN, outdated: {FALSE}]
          \cup [kind: {"constraint"}, body: {Characters(10, {4, 6}, {})},
                contested: BOOLEAN, outdated: {TRUE}]
Sequences == {<<a, b>> : a \in Packed, b \in Packed}
             \cup {<<a, b, c>> : a \in Packed, b \in {h \in Packed : h.kind = "fact"},
                                 c \in {h \in Packed : h.outdated}}
Amounts == {3} \cup 6..22 \cup {30}

----------------------------------------------------------------------------
(* One part moves *)

VARIABLE part

NoSelection == /\ score = <<>> /\ tokens = <<>> /\ available = <<>> /\ redundancy = <<>>
               /\ selected = <<>>
NoPack == /\ hits = <<>> /\ budget = 0 /\ next = 1 /\ rendered = 0
          /\ grouped = [s \in 0..5 |-> <<>>] /\ warnings = <<>> /\ accepted = <<>>

RetrievalInit ==
    /\ RInit
    /\ \/ part \in {"projecting", "lexical"} /\ NoSelection /\ NoPack
       \/ part = "selection" /\ DInit /\ NoPack
       \/ part = "pack" /\ NoSelection /\ PInit
RetrievalNext ==
    /\ UNCHANGED part
    /\ \/ /\ \/ part = "projecting" /\ Projecting
             \/ part = "lexical" /\ Lexical
          /\ UNCHANGED <<mmrVars, packVars>>
       \/ part = "selection" /\ SelectBest /\ UNCHANGED <<recallVars, packVars>>
       \/ part = "pack" /\ Pack /\ UNCHANGED <<recallVars, mmrVars>>
RetrievalSpec == RetrievalInit /\ [][RetrievalNext]_<<part, recallVars, mmrVars, packVars>>
=============================================================================
