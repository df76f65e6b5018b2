----------------------------- MODULE MCCrowding -----------------------------
(***************************************************************************)
(* Two scopes, and what the limits of a recall cut: writes that offer rows *)
(* of one scope to the other, recalls of two workspaces at several         *)
(* instants, recalls by a profile whose vectors are too many to compare,   *)
(* and more candidates than are kept.  Each behaviour is one of the four.  *)
(***************************************************************************)
EXTENDS Recall, TLC

CONSTANTS m1, m2, m3, s1, s2, c1, b1, b2, p1, t1, k1

NoChildren == {<<>>}
Symmetry == Permutations({m1, m2})

\* s1 is a repository; s2 the same repository in a workspace.
Places == [s \in {s1, s2} |->
    [namespace |-> "n", repo |-> "r", workspace |-> IF s = s1 THEN None ELSE "w"]]
\* b2 is valid from millisecond 1 on and expires at 2; requests name half ones.
Windows == [b \in {b1, b2} |-> IF b = b1 THEN [from |-> None, until |-> None, expires |-> None]
                              ELSE [from |-> 1, until |-> None, expires |-> 2]]
Ask(scope, at, text) ==
    [scope |-> scope, ctx |-> c1, asOf |-> at, kinds |-> {}, superseded |-> FALSE,
     stale |-> FALSE, divergent |-> FALSE,
     finds |-> [text |-> text, expansion |-> {t1}, attribute |-> {}, dense |-> {b1}],
     profile |-> None, dims |-> None]
PlaceQueries == {Ask(s1, 3, {b1}), Ask(s1, 1, {b2}), Ask(s2, 4, {b1, b2})}
DenseQueries == {[Ask(s1, 3, {}) EXCEPT !.profile = p1, !.dims = 3]}
CrowdedQueries == {[Ask(s1, 3, {}) EXCEPT !.finds.attribute = {b1}]}
AllQueries == PlaceQueries \cup DenseQueries \cup CrowdedQueries
Limits == [c \in Channel |-> IF c = "attribute" THEN 3 ELSE IF c = "recent" THEN 1 ELSE 2]

\* The part of Recall's instance a behaviour stays in.
Within(memories, scopes, bodies, queries, seqs, admins) ==
    /\ Len(db'.events) <= seqs /\ admin' <= admins
    /\ \A m \in Memory \ memories : db'.heads[m] = db.heads[m]
    /\ \A i \in DOMAIN db'.events :
          db'.events[i].scope \in scopes /\ db'.events[i].body \in bodies
    /\ \A r \in Reader : readers'[r].query \in queries \cup {None}
Workspaces == RNext /\ Within({m1, m2}, Scope, Body, PlaceQueries, 3, 0)
ByProfile == RNext /\ Within({m1, m2}, {s1}, {b1, b2}, DenseQueries, 2, 2)
Crowded == RNext /\ Within(Memory, {s1}, {b1}, CrowdedQueries, 3, 0)

\* Writes alone, with evidence, links, keys and identifiers of either scope.
Writes == INSTANCE MemoryStore WITH
    ExplicitId <- {m1, m2}, Key <- {k1}, Kind <- {"fact", "task"},
    Operation <- {"observe", "remember", "retract"},
    Relation <- {"supports"}, MaxLinks <- 1, MaxEvidence <- 1
ASSUME WritesAssumption == Writes!StoreAssumption

Scopes ==
    /\ Writes!Next /\ db'.heads[m3] = None
    /\ \A i \in DOMAIN db'.events : db'.events[i].body = b1
    /\ UNCHANGED <<searchVars, readers>>

VARIABLE part

CrowdingInit == RInit /\ part \in {"scopes", "workspaces", "profile", "crowded"}
CrowdingNext ==
    /\ UNCHANGED part
    /\ \/ part = "scopes" /\ Scopes
       \/ part = "workspaces" /\ Workspaces
       \/ part = "profile" /\ ByProfile
       \/ part = "crowded" /\ Crowded
CrowdingSpec == CrowdingInit /\ [][CrowdingNext]_<<part, recallVars>>
=============================================================================
