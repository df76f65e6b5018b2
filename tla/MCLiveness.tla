----------------------------- MODULE MCLiveness -----------------------------
(***************************************************************************)
(* What must end, one part in each behaviour: the Git probes of `doctor`,  *)
(* the enrichment of search profiles, the opening of a database file.      *)
(* A part that does not move rests in a state in which nothing of it is    *)
(* enabled, so that the fairness of each part concerns it alone.           *)
(***************************************************************************)
EXTENDS GitProbe

CONSTANTS
    \* SearchProjections and its store; PerListing is its Limit
    Memory, Scope, Context, Kind, Key, Body, IdemKey, ExplicitId, Relation, ChildList,
    Operation, None, MaxSeq, MaxRevision, MaxLinks, MaxEvidence,
    Profile, Digest, Dimension, Text, Worker, PerListing, MaxAdmin,
    \* Opening; Held is its Memory
    Process, Left, MaxFaults, Held

VARIABLES
    part,
    db, txn, profiles, projections, expansions, workers, admin,   \* SearchProjections
    file, lock, work, place, seen, expired, faults                \* Opening

Search == INSTANCE SearchProjections WITH Limit <- PerListing
Opens == INSTANCE Opening WITH pc <- place, Memory <- Held

ASSUME Search!StoreAssumption /\ Search!NoneAssumption /\ Search!SearchAssumption
ASSUME Opens!OpeningAssumption

searchVars == <<db, txn, profiles, projections, expansions, workers, admin>>
openVars == <<file, lock, work, place, seen, expired, faults>>

LastStages == <<"status", "remote">>
NoChildren == {<<>>}

NoProbe == /\ stage = 1 /\ pc = "reported" /\ child = "none" /\ code = "zero"
           /\ helper = NoHelper /\ pipes = Fresh /\ overflow = FALSE /\ late = TRUE
           /\ stranger = "none" /\ answer = "none" /\ report = "none"
NoOpening == /\ file = None /\ lock = None /\ work = None /\ expired = {} /\ faults = 0
             /\ place = [p \in Process |-> "down"] /\ seen = [p \in Process |-> Opens!Unread]

LiveInit ==
    /\ Search!SInit
    /\ \/ part = "probe" /\ Init /\ NoOpening
       \/ part = "search" /\ NoProbe /\ NoOpening
       \/ part = "opening" /\ NoProbe /\ Opens!OInit
\* Bound: of the probes, only the first starts a helper.
OneHelper == stage > 1 => helper' = NoHelper
LiveNext ==
    /\ UNCHANGED part
    /\ \/ part = "probe" /\ Next /\ OneHelper /\ UNCHANGED <<searchVars, openVars>>
       \/ part = "search" /\ Search!SNext /\ UNCHANGED <<vars, openVars>>
       \/ part = "opening" /\ Opens!ONext /\ UNCHANGED <<vars, searchVars>>
LiveSpec == /\ LiveInit /\ [][LiveNext]_<<part, vars, searchVars, openVars>>
            /\ Fairness /\ Search!SFairness /\ Opens!OFairness
----------------------------------------------------------------------------
(* Properties *)

\* EventuallyCovered of SearchProjections (pending_search_documents,
\* register_search_projections).
EventuallyCovered == Search!EventuallyCovered
\* OpeningEnds of Opening (schema.rs retry_busy).
OpeningEnds == Opens!OpeningEnds
=============================================================================
