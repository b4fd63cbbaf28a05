------------------------------ MODULE Scheduler ------------------------------
(***************************************************************************)
(* The scheduler service (apps/scheduler): a queue of resource requests,   *)
(* the allocations made for them, and the cycle that ranks hosts and       *)
(* allocates.  The scheduler's mutex is held for a whole cycle, so         *)
(* Enqueue and Dequeue wait for it (pc = "idle"); the host registry has a  *)
(* mutex of its own, so registrations and heartbeats fall between any two  *)
(* steps of a cycle.  The cycle ranks through pointers to host records     *)
(* taken when it started, and reads them without the registry's mutex.     *)
(*                                                                         *)
(* A request's id is its arrival number: the slice `queue` is append-only  *)
(* at the end and cut anywhere, so its order is the order of the ids.      *)
(***************************************************************************)
EXTENDS HostManager, FiniteSets

CONSTANTS
    MaxQueueSize,    \* cfg.MaxQueueSize
    MaxRequests,     \* bound: requests ever enqueued
    Requests         \* the bodies POST /api/queue may carry

RequestIds == 1 .. MaxRequests
Request == [need : Amounts, gpu : Nat, lat : BOOLEAN, prio : Nat]

ASSUME SchedulerAssumption ==
    /\ MaxQueueSize \in Nat
    /\ MaxRequests \in Nat
    /\ Requests \subseteq Request
    /\ "none" \notin HostIds

VARIABLES
    queue,       \* queue[i]: the item, or NoItem when not (or no longer) queued
    allocations, \* allocations[i]: the lease of item i, or NoAlloc
    nextID,
    pc,          \* where the running cycle is; "idle": the mutex is free
    cursor,      \* the first item the cycle has not examined
    best,        \* the host ranked first for item `cursor`, at "commit"
    snap,        \* the hosts the running cycle considers
    orphan       \* orphan[h]: the record the cycle's pointer to h still
                 \* refers to after h was registered anew, or NoHost

cycleVars == <<pc, cursor, best, snap, orphan>>
vars == <<hosts, queue, allocations, nextID, cycleVars>>

NoItem  == [status |-> "none"]
NoAlloc == [host |-> "none"]

Positive == [Res -> Nat \ {0}]
Item == [status : {"queued", "allocated"}, need : Positive, gpu : Nat,
         lat : BOOLEAN, prio : Nat, host : HostIds \cup {"none"}]
Alloc == [host : HostIds, need : Positive, expired : BOOLEAN]

TypeOK ==
    /\ HostTypeOK
    /\ queue \in [RequestIds -> Item \cup {NoItem}]
    /\ allocations \in [RequestIds -> Alloc \cup {NoAlloc}]
    /\ nextID \in 1 .. MaxRequests + 1
    /\ pc \in {"idle", "rank", "commit", "cleanup"}
    /\ cursor \in 1 .. MaxRequests + 1
    /\ best \in HostIds \cup {"none"}
    /\ snap \in SUBSET HostIds
    /\ orphan \in [HostIds -> Host \cup {NoHost}]

Init ==
    /\ HostInit
    /\ queue = [i \in RequestIds |-> NoItem]
    /\ allocations = [i \in RequestIds |-> NoAlloc]
    /\ nextID = 1
    /\ pc = "idle"
    /\ cursor = 1
    /\ best = "none"
    /\ snap = {}
    /\ orphan = [h \in HostIds |-> NoHost]

Queue     == {i \in RequestIds : queue[i] # NoItem}
Queued    == {i \in Queue : queue[i].status = "queued"}
Leased    == {i \in RequestIds : allocations[i] # NoAlloc}
LeasedOn(h) == {i \in Leased : allocations[i].host = h}
Overdue   == {i \in Leased : allocations[i].expired}

----------------------------------------------------------------------------
\* The HTTP operations on the queue.

\* Mutant of OrDefault: what the body left out stays 0.
OrDefaultNot(n, default) == n

OrDefault(n, default) == IF n < 1 THEN default ELSE n

NewItem(req) ==
    [status |-> "queued",
     need   |-> [r \in Res |-> OrDefault(req.need[r], IF r = "cpu" THEN 2 ELSE 4)],
     gpu    |-> req.gpu, lat |-> req.lat,
     prio   |-> OrDefault(req.prio, 2), host |-> "none"]

Enqueue(req) ==
    /\ pc = "idle"
    /\ nextID =< MaxRequests
    /\ Cardinality(Queue) < MaxQueueSize
    /\ queue' = [queue EXCEPT ![nextID] = NewItem(req)]
    /\ nextID' = nextID + 1
    /\ UNCHANGED <<hosts, allocations, cycleVars>>

Dequeue(i) ==
    /\ pc = "idle"
    /\ i \in Queue
    /\ queue' = [queue EXCEPT ![i] = NoItem]
    /\ allocations' = [allocations EXCEPT ![i] = NoAlloc]
    /\ IF allocations[i] # NoAlloc
         THEN Release(allocations[i].host, allocations[i].need)
         ELSE UNCHANGED hosts
    /\ UNCHANGED <<nextID, cycleVars>>

----------------------------------------------------------------------------
\* scheduleCycle, run by the ticker or by POST /api/schedule.

\* An empty queue or no available host ends the cycle before it did anything,
\* cleanupExpired included.
CycleStart ==
    /\ pc = "idle"
    /\ Queue # {}
    /\ Available # {}
    /\ pc' = "rank"
    /\ cursor' = 1
    /\ snap' = Available
    /\ UNCHANGED <<hosts, queue, allocations, nextID, best, orphan>>

\* Mutant of View: the cycle looks hosts up by id instead of keeping pointers.
ViewLookup(h) == hosts[h]

\* What the cycle sees through its pointer to host h.
View(h) == IF orphan[h] # NoHost THEN orphan[h] ELSE hosts[h]

\* scoreHost > 0, for an item without a latency budget.  With a budget a
\* host that fits can still score 0 (a large LatencyMs).
Fits(item, rec) ==
    /\ \A r \in Res : item.need[r] =< rec.cap[r] - rec.used[r]
    /\ item.gpu =< rec.gpu

Ranked(i) == {h \in snap : Fits(queue[i], View(h))}

\* Mutant of Unexamined: the walk starts one item late.
UnexaminedLate == {i \in Queued : cursor < i}

Unexamined == {i \in Queued : cursor =< i}
IsNext(i) == i \in Unexamined /\ \A j \in Unexamined : i =< j

\* rankHosts returns some host first ...
RankFound(i) ==
    /\ pc = "rank"
    /\ IsNext(i)
    /\ \E h \in Ranked(i) : best' = h
    /\ cursor' = i
    /\ pc' = "commit"
    /\ UNCHANGED <<hosts, queue, allocations, nextID, snap, orphan>>

\* ... or none, and the item is passed over.
RankNone(i) ==
    /\ pc = "rank"
    /\ IsNext(i)
    /\ Ranked(i) = {} \/ queue[i].lat
    /\ cursor' = i + 1
    /\ UNCHANGED <<hosts, queue, allocations, nextID, pc, best, snap, orphan>>

\* The lease is recorded whatever Allocate answers: its result is dropped.
Commit ==
    /\ pc = "commit"
    /\ allocations' = [allocations EXCEPT ![cursor] =
           [host |-> best, need |-> queue[cursor].need, expired |-> FALSE]]
    /\ queue' = [queue EXCEPT ![cursor].status = "allocated",
                              ![cursor].host = best]
    /\ Allocate(best, queue[cursor].need)
    /\ cursor' = cursor + 1
    /\ pc' = "rank"
    /\ best' = "none"
    /\ UNCHANGED <<nextID, snap, orphan>>

\* Mutant of RankDone: a queue with nothing left to place ends the cycle early.
RankDoneEarly ==
    /\ pc = "rank"
    /\ Unexamined = {}
    /\ pc' = IF Queued = {} THEN "idle" ELSE "cleanup"
    /\ snap' = IF Queued = {} THEN {} ELSE snap
    /\ UNCHANGED <<hosts, queue, allocations, nextID, cursor, best, orphan>>

RankDone ==
    /\ pc = "rank"
    /\ Unexamined = {}
    /\ pc' = "cleanup"
    /\ UNCHANGED <<hosts, queue, allocations, nextID, cursor, best, snap, orphan>>

\* Mutant of CleanupExpired: the item is queued again.
CleanupRequeues(i) ==
    /\ pc = "cleanup"
    /\ i \in Overdue
    /\ Release(allocations[i].host, allocations[i].need)
    /\ allocations' = [allocations EXCEPT ![i] = NoAlloc]
    /\ queue' = [queue EXCEPT ![i].status = "queued"]
    /\ UNCHANGED <<nextID, cycleVars>>

\* cleanupExpired, one allocation of its loop.
CleanupExpired(i) ==
    /\ pc = "cleanup"
    /\ i \in Overdue
    /\ Release(allocations[i].host, allocations[i].need)
    /\ allocations' = [allocations EXCEPT ![i] = NoAlloc]
    /\ UNCHANGED <<queue, nextID, cycleVars>>

CycleEnd ==
    /\ pc = "cleanup"
    /\ Overdue = {}
    /\ pc' = "idle"
    /\ cursor' = 1
    /\ snap' = {}
    /\ orphan' = [h \in HostIds |-> NoHost]
    /\ UNCHANGED <<hosts, queue, allocations, nextID, best>>

----------------------------------------------------------------------------
\* What happens around the scheduler's mutex.

\* A lease outlives DefaultTTL.  cleanupExpired reads the clock once, before
\* its loop: a lease that runs out during the loop counts as running out
\* after it.
Expire(i) ==
    /\ pc # "cleanup"
    /\ i \in Leased \ Overdue
    /\ allocations' = [allocations EXCEPT ![i].expired = TRUE]
    /\ UNCHANGED <<hosts, queue, nextID, cycleVars>>

\* The first registration during a cycle leaves the cycle with the old record.
Register(h, offer) ==
    /\ RegisterHost(h, offer)
    /\ orphan' = IF h \in snap /\ orphan[h] = NoHost
                   THEN [orphan EXCEPT ![h] = hosts[h]]
                   ELSE orphan
    /\ UNCHANGED <<queue, allocations, nextID, pc, cursor, best, snap>>

HostStep(h) ==
    /\ \/ \E m \in Reports : Heartbeat(h, m)
       \/ FallSilent(h)
    /\ UNCHANGED <<queue, allocations, nextID, cycleVars>>

Cycle ==
    \/ CycleStart
    \/ \E i \in RequestIds : RankFound(i) \/ RankNone(i)
    \/ Commit
    \/ RankDone
    \/ \E i \in RequestIds : CleanupExpired(i)
    \/ CycleEnd

Next ==
    \/ \E req \in Requests : Enqueue(req)
    \/ \E i \in RequestIds : Dequeue(i) \/ Expire(i)
    \/ Cycle
    \/ \E h \in HostIds : HostStep(h) \/ \E offer \in Offers : Register(h, offer)

\* The ticker keeps starting cycles and a cycle that started runs on: neither
\* waits for anything but the two mutexes.  Clients and hosts owe nothing.
Fairness == WF_vars(Cycle)

Spec == Init /\ [][Next]_vars /\ Fairness

----------------------------------------------------------------------------
\* Properties.

\* A lease always belongs to an item that is still in the queue, marked
\* allocated on that very host with that very demand: DELETE of the item is
\* the only way a client can give a lease back, so a lease without its item
\* could only wait for its TTL.
LeasesMatchQueue ==
    \A i \in Leased :
        /\ i \in Queue
        /\ queue[i].status = "allocated"
        /\ queue[i].host = allocations[i].host
        /\ queue[i].need = allocations[i].need

\* What the live leases on h hold of resource r.  Each lease stands for as
\* many tokens <<i, k>> as it holds units.
Tokens(i, r) == {i} \X (1 .. allocations[i].need[r])
LoadOn(h, r) == Cardinality(UNION {Tokens(i, r) : i \in LeasedOn(h)})

\* What host h said was in use when it registered, as far as it adds to the
\* charge.
Announced(h, r) == IF hosts[h].base[r] > 0 THEN hosts[h].base[r] ELSE 0

\* The registry never charges a host for more than it announced and its live
\* leases hold, whatever registrations, refused Allocate calls and clamped
\* Release calls did in between: when all leases are gone the host has at
\* least as much free as it said.
NoPhantomLoad ==
    \A h \in Registered, r \in Res :
        hosts[h].used[r] =< Announced(h, r) + LoadOn(h, r)

\* Nor does it owe a host anything: the leases of an earlier registration,
\* released later (manager.go:161), leave no charge below zero that would let
\* in more than the host has.  Only the host itself can announce one.
NoCredit ==
    \A h \in Registered, r \in Res :
        hosts[h].used[r] >= 0 \/ hosts[h].used[r] >= hosts[h].base[r]

\* A steady host is charged for every lease on top of what it announced --
\* exactly that, unless it announced less than nothing -- and a host with
\* leases is not charged beyond its capacity, whatever the other hosts do,
\* although Allocate's answer is dropped and ranking reads the records
\* without the registry's lock (scheduler.go:127-145).
ExactAccounting ==
    \A h \in Registered \cap Steady, r \in Res :
        /\ hosts[h].base[r] + LoadOn(h, r) =< hosts[h].used[r]
        /\ hosts[h].base[r] >= 0 =>
              hosts[h].used[r] = hosts[h].base[r] + LoadOn(h, r)
        /\ LeasedOn(h) # {} => hosts[h].used[r] =< hosts[h].cap[r]

\* Leases, items and charges tell one story after every step of a cycle.
LeasesAccounted ==
    LeasesMatchQueue /\ NoPhantomLoad /\ NoCredit /\ ExactAccounting

Granted(i) == allocations[i] = NoAlloc /\ allocations'[i] # NoAlloc
NoLarger(i, j) == /\ \A r \in Res : queue[i].need[r] =< queue[j].need[r]
                  /\ queue[i].gpu =< queue[j].gpu

\* First come, first served: no request is granted past an older one that
\* asks for no more and sets no latency budget, although capacities shrink
\* and hosts re-register while the cycle walks down the queue.
NoOvertaking ==
    [][\A i, j \in RequestIds :
          i < j /\ i \in Queued /\ Granted(j) =>
              queue[i].lat \/ ~NoLarger(i, j)]_vars

\* The documented priority queue: no request is granted past one of higher
\* priority that asks for no more.
PriorityRespected ==
    [][\A i, j \in RequestIds :
          i \in Queued /\ Granted(j) /\ queue[i].prio > queue[j].prio =>
              queue[i].lat \/ ~NoLarger(i, j)]_vars

\* No starvation: a request without a latency budget does not wait forever
\* in front of a host that stays available with room for it.
FittingRequestServed ==
    \A i \in RequestIds, h \in HostIds :
        ~ <>[](i \in Queued /\ ~queue[i].lat /\ h \in Available
               /\ Fits(queue[i], hosts[h]))

\* A lease past its TTL is released, as long as some host has room and keeps
\* reporting: cleanupExpired runs only at the end of a full cycle.
OverdueLeaseReleased ==
    \A i \in RequestIds : ~ <>[](i \in Overdue /\ Available # {})

----------------------------------------------------------------------------
\* How the service's state shows one request's life.

PhaseOf(i) ==
    IF i >= nextID THEN "new"
    ELSE IF queue[i] = NoItem THEN "withdrawn"
    ELSE IF queue[i].status = "queued" THEN "waiting"
    ELSE IF allocations[i] # NoAlloc THEN "granted"
    ELSE "lapsed"

Lifecycle == INSTANCE RequestLifecycle WITH
    phase  <- [i \in RequestIds |-> PhaseOf(i)],
    holder <- [i \in RequestIds |-> IF allocations[i] = NoAlloc
                                      THEN "none" ELSE allocations[i].host]

\* The service implements the life cycle: no request is granted twice, moved
\* to another host, or revived after its lease lapsed or a client deleted it.
ImplementsLifecycle == Lifecycle!Spec

============================================================================
