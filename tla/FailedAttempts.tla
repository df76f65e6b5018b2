--------------------------- MODULE FailedAttempts ---------------------------
(***************************************************************************)
(* load_failed_checkpoint_attempts of engine.rs over the store: which      *)
(* failure a canonical key had when a checkpoint was first executed, and   *)
(* which one its retry reconstructs from immutable rows.  The two lookups  *)
(* are different queries: the first reads the heads as they are, the retry *)
(* reads revisions, links and lifecycle events before the checkpoint's own *)
(* event.  They must agree, for the result is part of the request that the *)
(* idempotency key is compared with.                                       *)
(***************************************************************************)
EXTENDS MemoryStore

CONSTANT FailedBody   \* the contents of outcomes with succeeded = false

ASSUME FailedAssumption == FailedBody \subseteq Body

VARIABLE first   \* None, or a first execution: its boundary and what it read

allVars == <<vars, first>>

\* The failures of a key a lookup may return: the revisions that come first in
\* its order.  Equal ones are ordered by their memory's identifier, which is
\* left open.  A revision stands for the attempt result it holds.
FirstOf(rows) ==
    {r.found : r \in {x \in rows : \A y \in rows : y.at <= x.at}}

\* The lookup of a first execution: live outcome heads whose head revision
\* failed, by the last update of the head.
LiveFailure(d, scope, key) ==
    FirstOf({[found |-> <<r.mem, r.num>>, at |-> d.heads[r.mem].updated] :
        r \in {x \in d.revisions :
                 /\ IsLive(d, x.mem)
                 /\ d.heads[x.mem].scope = scope
                 /\ d.heads[x.mem].kind = "outcome"
                 /\ d.heads[x.mem].key = key
                 /\ d.heads[x.mem].rev = x.num
                 /\ x.body \in FailedBody}})

\* Retracted before the boundary: a lifecycle event is mapped to the memory.
RetractedBefore(d, m, before) ==
    \E t \in d.touched : t[2] = m /\ t[1] < before /\ d.events[t[1]].op = "retract"
SupersededBefore(d, m, before) ==
    \E l \in d.links : l.dst = m /\ l.rel = "supersedes" /\ l.seq < before
\* Mutant: the retry reads the head's revision of today.
IsHeadRevision(d, r, before) == r.seq < before /\ d.heads[r.mem].rev = r.num
\* The latest revision recorded before the boundary.
WasHeadRevision(d, r, before) ==
    /\ r.seq < before
    /\ \A s \in RevisionsOf(d, r.mem) :
          s.seq < before => s.seq < r.seq \/ (s.seq = r.seq /\ s.num <= r.num)

\* The lookup of a retry: the same as of the boundary, by the time the
\* revision was recorded.
HistoricalFailure(d, scope, key, before) ==
    FirstOf({[found |-> <<r.mem, r.num>>, at |-> r.seq] :
        r \in {x \in d.revisions :
                 /\ d.heads[x.mem].scope = scope
                 /\ WasHeadRevision(d, x, before)
                 /\ x.kind = "outcome"
                 /\ ~RetractedBefore(d, x.mem, before)
                 /\ ~SupersededBefore(d, x.mem, before)
                 /\ x.key = key
                 /\ x.body \in FailedBody}})

\* A first execution: what it reads, and the sequence number its checkpoint
\* event gets when nothing is written in between.
FirstExecution ==
    /\ first = None
    /\ txn = None
    /\ first' = [before |-> Len(db.events) + 1,
                 read |-> [s \in Scope |-> [k \in Key |-> LiveFailure(db, s, k)]]]
    /\ UNCHANGED vars

FInit == Init /\ first = None
FNext == FirstExecution \/ (Next /\ UNCHANGED first)
FSpec == FInit /\ [][FNext]_allVars

\* Whatever is revised, contested, superseded or retracted afterwards, a retry
\* reconstructs a failure the first execution may have read: "Mutable head state,
\* keys, and update order must not change that request" (engine.rs,
\* load_failed_checkpoint_attempts).
RetryReadsTheSame ==
    first # None =>
       \A s \in Scope : \A k \in Key :
          LET now == HistoricalFailure(db, s, k, first.before)
              then == first.read[s][k]
          IN (now = {} /\ then = {}) \/ now \cap then # {}
=============================================================================
