----------------------------- MODULE Diversity -----------------------------
(***************************************************************************)
(* select_mmr of ranking.rs: hits are chosen one by one, each time the one *)
(* with the best balance of score and novelty.  The redundancy of a hit    *)
(* with what was chosen is not recomputed but raised after every choice.   *)
(*                                                                         *)
(* Scores are integers and weights percentages.  Jaccard similarities are  *)
(* counted in Parts, a multiple of every union's size, so that comparisons *)
(* are exact.                                                              *)
(***************************************************************************)
EXTENDS Integers, Sequences, FiniteSets, FiniteSetsExt

CONSTANTS
    HitId,        \* the identifiers of the hits: integers, ordered
    Score,      \* the scores hits may have
    Token,      \* the tokens a title and body may have
    Parts,      \* a common multiple of 1..Cardinality(Token)
    Lambda,     \* weight of relevance, in percent (78)
    MaxSelect   \* hits to select

ASSUME DiversityAssumption ==
    /\ HitId \subseteq Int /\ IsFiniteSet(HitId)
    /\ Score \subseteq Nat /\ Score # {}
    /\ IsFiniteSet(Token)
    /\ Parts \in Nat \ {0} /\ \A n \in 1..Cardinality(Token) : Parts % n = 0
    /\ Lambda \in 0..100
    /\ MaxSelect \in Nat

VARIABLES
    score,       \* the score of each hit
    tokens,      \* the token set of each hit
    available,   \* hits not chosen yet, in the order of the array
    redundancy,  \* the highest similarity to a chosen hit seen so far
    selected     \* the chosen hits

mmrVars == <<score, tokens, available, redundancy, selected>>

Jaccard(x, y) ==
    IF tokens[x] \cup tokens[y] = {} THEN 0
    ELSE (Parts * Cardinality(tokens[x] \cap tokens[y]))
            \div Cardinality(tokens[x] \cup tokens[y])

\* Highest score first, equal ones by identifier.
Before(x, y) == score[x] > score[y] \/ (score[x] = score[y] /\ x < y)
SortedHits ==
    CHOOSE s \in [1..Cardinality(HitId) -> HitId] :
       \A i, j \in DOMAIN s : i < j => Before(s[i], s[j])
\* f64::EPSILON keeps the divisor positive; all scores are zero then.
TopScore == Max({score[x] : x \in HitId} \cup {1})

Marginal(x, red) == Lambda * score[x] * Parts - (100 - Lambda) * red * TopScore

Better(x, y) ==
    \/ Marginal(x, redundancy[x]) > Marginal(y, redundancy[y])
    \/ Marginal(x, redundancy[x]) = Marginal(y, redundancy[y]) /\ x < y
\* The position the scan of the array ends with: no earlier or later hit is
\* better, and the first of its equals.
BestPosition ==
    CHOOSE p \in DOMAIN available :
       /\ \A i \in DOMAIN available : ~Better(available[i], available[p])
       /\ \A i \in 1..(p - 1) : Better(available[p], available[i])

\* Vec::swap_remove: the last element takes the place of the removed one.
SwapRemove(s, p) ==
    [i \in 1..(Len(s) - 1) |-> IF i = p THEN s[Len(s)] ELSE s[i]]

\* Mutant: the similarity to the last chosen hit replaces the highest one.
RaisedToLast(chosen) ==
    [x \in HitId |-> IF \E i \in DOMAIN available : available[i] = x
                   THEN Jaccard(x, chosen) ELSE redundancy[x]]
Raised(chosen) ==
    [x \in HitId |-> IF \E i \in DOMAIN available : available[i] = x
                   THEN Max({redundancy[x], Jaccard(x, chosen)}) ELSE redundancy[x]]

SelectBest ==
    /\ Len(selected) < MaxSelect
    /\ available # <<>>
    /\ LET chosen == available[BestPosition] IN
       /\ selected' = Append(selected, chosen)
       /\ available' = SwapRemove(available, BestPosition)
       /\ redundancy' = Raised(chosen)
    /\ UNCHANGED <<score, tokens>>

DInit ==
    /\ score \in [HitId -> Score]
    /\ tokens \in [HitId -> SUBSET Token]
    /\ available = SortedHits
    /\ redundancy = [x \in HitId |-> 0]
    /\ selected = <<>>

DSpec == DInit /\ [][SelectBest]_mmrVars
----------------------------------------------------------------------------
(* Properties *)

\* Redundancy as the definition has it: the highest similarity to any of the
\* first n chosen hits.
RedundancyAfter(x, n) == Max({Jaccard(x, selected[i]) : i \in 1..n} \cup {0})

\* Every choice is the one the plain definition of MMR makes, with all
\* similarities recomputed, and the smallest identifier among equals: raising
\* redundancies in place and permuting the array change nothing (select_mmr
\* against reference_select_mmr of its tests).
GreedyAsDefined ==
    \A n \in DOMAIN selected :
       \A x \in HitId \ {selected[i] : i \in 1..n} :
          LET chosen == Marginal(selected[n], RedundancyAfter(selected[n], n - 1))
              other == Marginal(x, RedundancyAfter(x, n - 1))
          IN chosen > other \/ (chosen = other /\ selected[n] < x)
=============================================================================
