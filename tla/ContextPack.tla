---------------------------- MODULE ContextPack ----------------------------
(***************************************************************************)
(* compile_context of engine.rs: hits in MMR order are packed into a token *)
(* budget, then grouped by section for presentation.  A body that does not *)
(* fit is cut to the longest excerpt that does, found by binary search.    *)
(*                                                                         *)
(* A token is three characters, rounded up for every fragment.  A body is  *)
(* a sequence of characters of four classes: plain ones, sentence ends,    *)
(* those that are escaped (& < >) and line breaks, which rendering indents.*)
(***************************************************************************)
EXTENDS Integers, Sequences, FiniteSets

CONSTANTS
    Hits,            \* the sequences of hits MMR may return
    Budgets,         \* token budgets
    Envelope,        \* tokens reserved for the adapters' envelope (37)
    HeaderLength,    \* characters of a section header
    WarnHeader,      \* characters of the warnings header
    WarnLength,      \* characters of a warning
    FrameLength      \* characters of an item around its body

Char == {"plain", "stop", "escaped", "break"}
Hit == [kind: {"constraint", "preference", "decision", "outcome", "procedure",
               "task", "fact", "episode", "observation"},
        body: Seq(Char), contested: BOOLEAN, outdated: BOOLEAN]

ASSUME PackAssumption ==
    /\ Hits \subseteq Seq(Hit)
    /\ \A s \in Hits : \A i \in DOMAIN s : s[i].body # <<>>
    /\ Budgets \subseteq Nat
    /\ {Envelope, HeaderLength, WarnHeader, WarnLength, FrameLength} \subseteq Nat

VARIABLES
    hits,      \* what MMR returned
    budget,
    next,      \* the hit to be packed
    rendered,  \* tokens budgeted so far
    grouped,   \* the items of each section, in MMR order
    warnings,  \* the hits warned of, once for each warning
    accepted   \* the hits the structured result keeps, with their excerpts

packVars == <<hits, budget, next, rendered, grouped, warnings, accepted>>

SectionFor(kind) ==
    CASE kind \in {"constraint", "preference"} -> 0
      [] kind = "decision" -> 1
      [] kind = "outcome" -> 2
      [] kind = "procedure" -> 3
      [] kind = "task" -> 4
      [] OTHER -> 5

Larger(a, b) == IF a < b THEN b ELSE a
Smaller(a, b) == IF a < b THEN a ELSE b
\* estimate_tokens of a text of n characters.
Tokens(n) == Larger((n + 2) \div 3, 1)
RenderBudget == Larger(budget - Envelope, 0)
\* f[1] + ... + f[n].
Total(f, n) ==
    LET sum[i \in 0..n] == IF i = 0 THEN 0 ELSE sum[i - 1] + f[i] IN sum[n]

\* How many characters of the body truncate_to_tokens keeps: all of it, or a
\* prefix that ends at a sentence end if there is one in its second half.
Kept(body, tokens) ==
    LET limit == tokens * 3
        cut == Larger(limit - 1, 0)
        stops == {i \in 1..Smaller(cut, Len(body)) : body[i] \in {"stop", "break"} /\ i - 1 >= cut \div 2}
    IN IF Len(body) <= limit THEN Len(body)
       ELSE IF stops = {} THEN cut
       ELSE CHOOSE i \in stops : \A j \in stops : j <= i

\* The characters an excerpt of n characters is rendered with; an ellipsis
\* follows when something was cut off.
CharLength(c) == CASE c = "escaped" -> 5 [] c = "break" -> 3 [] OTHER -> 1
TextLength(body, n) ==
    Total([i \in 1..n |-> CharLength(body[i])], n) + (IF n < Len(body) THEN 1 ELSE 0)
\* Mutant: the text is measured before it is escaped.
RawTokens(hit, tokens) == Tokens(FrameLength + Kept(hit.body, tokens) + 1)
FragmentTokens(hit, tokens) ==
    Tokens(FrameLength + TextLength(hit.body, Kept(hit.body, tokens)))

\* The binary search for the largest number of body tokens whose fragment fits:
\* one turn of its loop, and what it has found when it ends.
Halved(hit, room, s) ==
    LET middle == s.low + (s.high - s.low) \div 2 IN
    IF s.low > s.high THEN s
    ELSE IF FragmentTokens(hit, middle) <= room
    THEN [low |-> middle + 1, high |-> s.high, best |-> middle]
    ELSE [low |-> s.low, high |-> middle - 1, best |-> s.best]
Search(hit, room) ==
    LET top == Larger(room, 1)
        turn[i \in 0..top] == IF i = 0 THEN [low |-> 1, high |-> top, best |-> 0]
                              ELSE Halved(hit, room, turn[i - 1])
    IN turn[top].best

WarningsOf(hit) == (IF hit.outdated THEN 1 ELSE 0) + (IF hit.contested THEN 1 ELSE 0)
\* What the hit costs beside its own fragment: its section's header if it is
\* the first there, its warnings and their header if they are the first.
FixedTokens(hit) ==
    (IF grouped[SectionFor(hit.kind)] = <<>> THEN Tokens(HeaderLength) ELSE 0)
    + (IF WarningsOf(hit) > 0 /\ warnings = <<>> THEN Tokens(WarnHeader) ELSE 0)
    + WarningsOf(hit) * Tokens(WarnLength)

Skip == UNCHANGED <<rendered, grouped, warnings, accepted>>
Accept(i, tokens) ==
    LET hit == hits[i]
        item == [hit |-> i, kept |-> Kept(hit.body, tokens),
                 tokens |-> FragmentTokens(hit, tokens)]
    IN /\ rendered' = rendered + FixedTokens(hit) + item.tokens
       /\ grouped' = [grouped EXCEPT ![SectionFor(hit.kind)] = Append(@, item)]
       /\ warnings' = warnings \o [n \in 1..WarningsOf(hit) |-> i]
       /\ accepted' = Append(accepted, [hit |-> i, kept |-> item.kept])

Pack ==
    /\ next \in DOMAIN hits
    /\ LET room == RenderBudget - rendered - FixedTokens(hits[next]) IN
       IF room < 0 \/ Search(hits[next], room) = 0 THEN Skip
       ELSE Accept(next, Search(hits[next], room))
    /\ next' = next + 1
    /\ UNCHANGED <<hits, budget>>

PInit ==
    /\ hits \in Hits
    /\ budget \in Budgets
    /\ next = 1
    /\ rendered = 0
    /\ grouped = [s \in 0..5 |-> <<>>]
    /\ warnings = <<>>
    /\ accepted = <<>>

PSpec == PInit /\ [][Pack]_packVars
----------------------------------------------------------------------------
(* The finished pack *)

\* Characters render_context writes, for a section and for all.
SectionLength(s) ==
    IF grouped[s] = <<>> THEN 0
    ELSE HeaderLength
         + Total([i \in DOMAIN grouped[s] |->
                    LET item == grouped[s][i]
                    IN FrameLength + TextLength(hits[item.hit].body, item.kept)],
                 Len(grouped[s]))
Rendered ==
    Total([s \in 1..6 |-> SectionLength(s - 1)], 6)
      + (IF warnings = <<>> THEN 0 ELSE WarnHeader + WarnLength * Len(warnings))
Empty == warnings = <<>> /\ \A s \in 0..5 : grouped[s] = <<>>
EstimatedTokens ==
    IF Empty THEN 0 ELSE Tokens(Rendered) + Smaller(Envelope, budget)

(* Properties *)

\* The pack never exceeds the budget the client asked for, envelope included,
\* measured on the text that is finally rendered and not on the sums it was
\* packed by (the debug assertion of compile_context).
BudgetHolds == EstimatedTokens <= budget

\* The binary search finds what trying every length would: no longer excerpt
\* of an accepted hit would have fitted where it was packed, and a hit is left
\* out only if not even its shortest excerpt fits.
ExcerptIsLongest ==
    next \in DOMAIN hits =>
       LET room == RenderBudget - rendered - FixedTokens(hits[next]) IN
       room >= 0 =>
          LET fits == {t \in 1..Larger(room, 1) : FragmentTokens(hits[next], t) <= room}
          IN Search(hits[next], room) = IF fits = {} THEN 0
                                        ELSE CHOOSE t \in fits : \A u \in fits : u <= t

\* Structured hits, sections, warnings and text show the same memories with
\* the same excerpts: what was dropped for the budget is in none of them, and a
\* contested or outdated memory is never shown without its warning.
ViewsAgree ==
    LET items == UNION {{[hit |-> grouped[s][i].hit, kept |-> grouped[s][i].kept] :
                            i \in DOMAIN grouped[s]} : s \in 0..5}
    IN /\ items = {accepted[i] : i \in DOMAIN accepted}
       /\ \A i \in DOMAIN hits :
             Cardinality({k \in DOMAIN warnings : warnings[k] = i}) =
                IF \E a \in items : a.hit = i THEN WarningsOf(hits[i]) ELSE 0

\* The pack fits, wastes nothing and shows one thing in all its forms
\* (compile_context).
PackIsFaithful == BudgetHolds /\ ExcerptIsLongest /\ ViewsAgree
=============================================================================
