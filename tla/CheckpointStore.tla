-------------------------- MODULE CheckpointStore --------------------------
(***************************************************************************)
(* The gateway's store of session checkpoints                              *)
(* (apps/gateway/internal/tunnel/checkpoint.go): compressed snapshots, at  *)
(* most two per session, under a bound on their total size that is kept by *)
(* evicting the oldest ones and measured by the running figure usedSize.   *)
(* Every operation holds the store's mutex for its whole length and is one *)
(* step.                                                                   *)
(*                                                                         *)
(* A session's list is ordered by the time of saving, so the lists are     *)
(* represented by one set of snapshots, each with the number of its save.  *)
(***************************************************************************)
EXTENDS Integers, FiniteSets

CONSTANTS
    SessionIds,
    StateSizes,      \* compressed sizes a snapshot can have
    MaxSize,    \* CheckpointStore.maxSize
    MaxSaves    \* bound on the number of saves in a behaviour

ASSUME CheckpointAssumption ==
    /\ IsFiniteSet(SessionIds)
    /\ StateSizes \subseteq Nat \ {0}
    /\ MaxSize \in Nat \ {0}
    /\ MaxSaves \in Nat

VARIABLES
    snapshots,  \* the snapshots in the store
    usedSize,   \* CheckpointStore.usedSize
    saves,      \* number of snapshots saved so far: the clock of this module
    warm,       \* saves up to this one are older than checkpointWarmTTL
    cold,       \* saves up to this one are older than checkpointColdTTL
    mixed       \* history: a delta has been saved

checkpointVars == <<snapshots, usedSize, saves, warm, cold, mixed>>

Snapshot == [id : SessionIds, size : StateSizes, delta : BOOLEAN, at : 1 .. MaxSaves]

\* The size of all of S, counted byte by byte: no snapshot is larger than the
\* store.
Total(S) == Cardinality({b \in S \X (1 .. MaxSize) : b[2] =< b[1].size})
Of(S, id) == {r \in S : r.id = id}
Oldest(S) == CHOOSE r \in S : \A q \in S : r.at =< q.at
Newest(S) == CHOOSE r \in S : \A q \in S : r.at >= q.at

CheckpointInit ==
    /\ snapshots = {}
    /\ usedSize = 0
    /\ saves = 0
    /\ warm = 0
    /\ cold = 0
    /\ mixed = FALSE

----------------------------------------------------------------------------

\* ensureCapacity: the snapshots it drops, oldest first, until the figure
\* leaves room for the new entry or nothing is left.
Evicted(needed) ==
    LET upTo(c) == {r \in snapshots : r.at =< c}
        enough(c) == usedSize - Total(upTo(c)) + needed =< MaxSize \/ upTo(c) = snapshots
        least == CHOOSE c \in 0 .. saves :
                     enough(c) /\ \A d \in 0 .. saves : enough(d) => c =< d
    IN  upTo(least)

\* Mutant of Replaced: a full save drops the session's list unsubtracted.
ReplacedFree(prior, delta) ==
    IF delta
    THEN [keep |-> prior, freed |-> IF prior = {} THEN 0 ELSE Newest(prior).size]
    ELSE [keep |-> {}, freed |-> 0]

\* The session's earlier snapshots at a save: a full one replaces them all, a
\* delta keeps them and takes the size of the last one off the figure.
Replaced(prior, delta) ==
    IF delta
    THEN [keep |-> prior, freed |-> IF prior = {} THEN 0 ELSE Newest(prior).size]
    ELSE [keep |-> {}, freed |-> Total(prior)]

\* Mutant of Surplus: lists are not cut.
NoSurplus(list) == {}

\* A list of more than two loses its first snapshot.
Surplus(list) == IF Cardinality(list) > 2 THEN {Oldest(list)} ELSE {}

\* An entry larger than the store is refused before anything is evicted.
Save(id, stateSize, delta) ==
    /\ saves < MaxSaves
    /\ stateSize =< MaxSize
    /\ LET entry == [id |-> id, size |-> stateSize, delta |-> delta, at |-> saves + 1]
           gone  == Evicted(stateSize)
           prior == Of(snapshots \ gone, id)
           done  == Replaced(prior, delta)
           list  == done.keep \cup {entry}
           cut   == Surplus(list)
       IN  /\ snapshots' = ((snapshots \ gone) \ prior) \cup (list \ cut)
           /\ usedSize' = usedSize - Total(gone) - done.freed - Total(cut) + stateSize
    /\ saves' = saves + 1
    /\ mixed' = (mixed \/ delta)
    /\ UNCHANGED <<warm, cold>>

Delete(id) ==
    /\ Of(snapshots, id) # {}
    /\ snapshots' = snapshots \ Of(snapshots, id)
    /\ usedSize' = usedSize - Total(Of(snapshots, id))
    /\ UNCHANGED <<saves, warm, cold, mixed>>

\* Snapshots grow older: past the warm limit, later past the cold one.
Age ==
    /\ \/ warm < saves /\ warm' = warm + 1 /\ UNCHANGED cold
       \/ cold < warm /\ cold' = cold + 1 /\ UNCHANGED warm
    /\ UNCHANGED <<snapshots, usedSize, saves, mixed>>

\* pruneExpired: everything cold goes, and deltas past the warm limit.
PruneExpired ==
    LET outOfDate == {r \in snapshots : r.at =< cold \/ (r.delta /\ r.at =< warm)} IN
    /\ outOfDate # {}
    /\ snapshots' = snapshots \ outOfDate
    /\ usedSize' = usedSize - Total(outOfDate)
    /\ UNCHANGED <<saves, warm, cold, mixed>>

CheckpointNext ==
    \/ \E id \in SessionIds, stateSize \in StateSizes, delta \in BOOLEAN : Save(id, stateSize, delta)
    \/ \E id \in SessionIds : Delete(id)
    \/ Age
    \/ PruneExpired

CheckpointSpec == CheckpointInit /\ [][CheckpointNext]_checkpointVars

----------------------------------------------------------------------------
\* Type invariant; a session has at most two snapshots and no two snapshots
\* are of the same moment.
CheckpointTypeOK ==
    /\ snapshots \subseteq Snapshot
    /\ usedSize \in Int
    /\ saves \in 0 .. MaxSaves
    /\ warm \in 0 .. saves
    /\ cold \in 0 .. warm
    /\ mixed \in BOOLEAN
    /\ \A id \in SessionIds : Cardinality(Of(snapshots, id)) =< 2
    /\ \A r, q \in snapshots : r.at = q.at => r = q

\* usedSize is the size of what the store holds, after any sequence of
\* saves, evictions, prunings and deletions (checkpoint.go:95).
UsedSizeExact == usedSize = Total(snapshots)

\* While clients send full snapshots only, the figure is exact (checkpoint.go:95-107) ...
ExactWithoutDeltas == ~mixed => UsedSizeExact

\* ... and what a save evicts is enough to keep the store within its bound
\* (checkpoint.go:91, 198-224).
BoundedWithoutDeltas == ~mixed => Total(snapshots) =< MaxSize

\* With deltas in any order the figure only errs downwards: no snapshot is
\* evicted to make room that was there (checkpoint.go:198-224).
NeverOverstated == usedSize =< Total(snapshots)

\* The running figure is right for whole snapshots, and never too high.
UsedSizeSound == CheckpointTypeOK /\ ExactWithoutDeltas /\ BoundedWithoutDeltas /\ NeverOverstated
=============================================================================
