------------------------------- MODULE Transfer -------------------------------
(***************************************************************************)
(* The gateway's transfer manager                                          *)
(* (apps/gateway/internal/transfer/transfer.go).  Every transfer holds one *)
(* slot of a shared limiter, a channel of capacity maxConcurrentTransfers, *)
(* from CreateTransfer until the call that ends it.  The slot is taken     *)
(* before the transfer is in the map, and given back under the transfer's  *)
(* own mutex by whichever of four operations ends the transfer first.      *)
(*                                                                         *)
(* A transfer is never deleted from the map and its operations hold its    *)
(* mutex, so each of them is one step.  The two halves of CreateTransfer   *)
(* hold no lock in common and are two steps.                               *)
(***************************************************************************)
EXTENDS Integers, FiniteSets

CONSTANTS
    Transfers,              \* ids generateTransferID can return
    Sizes,                  \* declared sizes CreateTransfer accepts
    MaxConcurrentTransfers  \* capacity of the limiter (10 in the code)

ASSUME TransferAssumption ==
    /\ IsFiniteSet(Transfers)
    /\ Sizes \subseteq Nat \ {0}
    /\ MaxConcurrentTransfers \in Nat \ {0}

VARIABLES
    state,      \* [Transfers -> phase of the transfer]
    size,       \* FileTransfer.Size
    bytes,      \* FileTransfer.BytesTransferred
    released,   \* FileTransfer.limiterReleased
    limiter     \* number of tokens in TransferManager.limiter

vars == <<state, size, bytes, released, limiter>>

Final == {"completed", "failed", "cancelled"}
InMap == {"pending", "active"} \cup Final
\* "none": the id is unused; "created": CreateTransfer holds a slot and has
\* not put the transfer in the map yet.
Phases == {"none", "created"} \cup InMap

\* Transfers that must own a slot.
Owners == {t \in Transfers : state[t] \in {"created", "pending", "active"}}

Init ==
    /\ state = [t \in Transfers |-> "none"]
    /\ size = [t \in Transfers |-> 0]
    /\ bytes = [t \in Transfers |-> 0]
    /\ released = [t \in Transfers |-> FALSE]
    /\ limiter = 0

----------------------------------------------------------------------------
\* Mutant of ReleaseLimiterLocked: every end drains a token.
ReleaseAlways(t) ==
    /\ released' = [released EXCEPT ![t] = TRUE]
    /\ limiter' = IF limiter = 0 THEN limiter ELSE limiter - 1

\* releaseLimiterLocked: the first end of t drains a token, later ones none.
\* The receive is a select with a default: it never waits.
ReleaseLimiterLocked(t) ==
    /\ released' = [released EXCEPT ![t] = TRUE]
    /\ limiter' = IF released[t] \/ limiter = 0 THEN limiter ELSE limiter - 1

\* CreateTransfer up to the limiter; a full limiter is an error, not a wait.
AcquireSlot(t) ==
    /\ state[t] = "none"
    /\ limiter < MaxConcurrentTransfers
    /\ limiter' = limiter + 1
    /\ state' = [state EXCEPT ![t] = "created"]
    /\ \E n \in Sizes : size' = [size EXCEPT ![t] = n]
    /\ UNCHANGED <<bytes, released>>

\* The rest of CreateTransfer: the transfer appears in the map.
Publish(t) ==
    /\ state[t] = "created"
    /\ state' = [state EXCEPT ![t] = "pending"]
    /\ UNCHANGED <<size, bytes, released, limiter>>

StartTransfer(t) ==
    /\ state[t] = "pending"
    /\ state' = [state EXCEPT ![t] = "active"]
    /\ UNCHANGED <<size, bytes, released, limiter>>

\* Arriving at total n ends an active transfer; a transfer in another state
\* keeps it (UpdateProgress and ProcessChunk share this ending).
Reach(t, n) ==
    /\ bytes' = [bytes EXCEPT ![t] = n]
    /\ UNCHANGED size
    /\ IF state[t] = "active" /\ n >= size[t]
       THEN /\ state' = [state EXCEPT ![t] = "completed"]
            /\ ReleaseLimiterLocked(t)
       ELSE UNCHANGED <<state, released, limiter>>

\* UpdateProgress stores the caller's figure in any state, smaller or larger
\* than the one before.  Figures past the declared size count as one.
UpdateProgress(t) ==
    /\ state[t] \in InMap
    /\ \E n \in 0 .. size[t] + 1 : Reach(t, n)

\* ProcessChunk: only an active transfer takes a chunk, and only one that
\* fits; the other answers leave the transfer alone.
ProcessChunk(t) ==
    /\ state[t] = "active"
    /\ \E len \in 0 .. size[t] :
          /\ bytes[t] + len =< size[t]
          /\ Reach(t, bytes[t] + len)

\* FailTransfer and CancelTransfer overwrite whatever state they find.
Terminate(t) ==
    /\ state[t] \in InMap
    /\ \E s \in {"failed", "cancelled"} : state' = [state EXCEPT ![t] = s]
    /\ ReleaseLimiterLocked(t)
    /\ UNCHANGED <<size, bytes>>

\* What the HTTP routes reach: creation and chunks (server.go registers no
\* route to the other operations).
RouteStep(t) == AcquireSlot(t) \/ Publish(t) \/ ProcessChunk(t)

Next == \E t \in Transfers :
    RouteStep(t) \/ StartTransfer(t) \/ UpdateProgress(t) \/ Terminate(t)

Spec == Init /\ [][Next]_vars

\* The gateway as it is wired, with clients that always send their next chunk.
GatewaySpec ==
    /\ Init
    /\ [][\E t \in Transfers : RouteStep(t)]_vars
    /\ \A t \in Transfers : WF_vars(Publish(t)) /\ WF_vars(ProcessChunk(t))

----------------------------------------------------------------------------
\* Type invariant: phases, sizes and counters stay in range.
TypeOK ==
    /\ state \in [Transfers -> Phases]
    /\ size \in [Transfers -> Nat]
    /\ bytes \in [Transfers -> Nat]
    /\ released \in [Transfers -> BOOLEAN]
    /\ limiter \in 0 .. MaxConcurrentTransfers

\* The limiter counts the transfers that are being created, waiting or
\* running, no more and no fewer, whatever order and however often the
\* operations that end a transfer are called on it (the promise of the
\* limiterReleased comment, transfer.go:39).
SlotsMatchOwners == limiter = Cardinality(Owners)

\* An ended transfer may be given another ending by a late Fail or Cancel
\* but is never pending or active again: a late StartTransfer, chunk or
\* progress report does not revive it.
EndedStaysEnded ==
    [][\A t \in Transfers : state[t] \in Final => state'[t] \in Final]_vars

\* A transfer ends once: it gives its slot back once, at its end, and stays
\* ended, whichever of the five endings come, late or twice
\* (transfer.go:95-104, 168-330).
EndsOnce == [](TypeOK /\ SlotsMatchOwners) /\ EndedStaysEnded

\* In the gateway as wired, uploads that keep arriving end and make room:
\* a full limiter has a free slot again (the comment of ProcessChunk says
\* the final chunk releases the slot, transfer.go:307).
FullLimiterDrains ==
    limiter = MaxConcurrentTransfers ~> limiter < MaxConcurrentTransfers
=============================================================================
