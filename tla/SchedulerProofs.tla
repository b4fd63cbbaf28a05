--------------------------- MODULE SchedulerProofs ---------------------------
(***************************************************************************)
(* Proofs about module Scheduler, for every set of hosts, offers, reports  *)
(* and requests and every bound.                                           *)
(***************************************************************************)
EXTENDS Scheduler, TLAPS, FiniteSetTheorems

\* Ids not handed out yet name no item.
FreshIds == \A i \in RequestIds : nextID =< i => queue[i] = NoItem

\* Between ranking and committing the mutex protects the item: it is still
\* there and still queued, and a host was chosen for it.
CommitReady == pc = "commit" => cursor \in Queued /\ best \in HostIds

\* The inductive invariant.
SchedulerInv == TypeOK /\ FreshIds /\ CommitReady /\ LeasesMatchQueue

----------------------------------------------------------------------------
\* The sentinels are not values of the types they stand beside.
LEMMA Sentinels == NoHost \notin Host /\ NoItem \notin Item /\ NoAlloc \notin Alloc
BY SchedulerAssumption DEF NoHost, Host, NoItem, Item, NoAlloc, Alloc

\* Charging and refunding keep a host record a host record.
LEMMA ChargeType ==
    ASSUME NEW rec \in Host, NEW need \in Positive
    PROVE  Charge(rec, need) \in Host /\ Refund(rec, need) \in Host
<1>1. rec.used \in [Res -> Int] /\ need \in [Res -> Int]
  BY DEF Host, Charges, Positive
<1>2. [r \in Res |-> rec.used[r] + need[r]] \in Charges
  BY <1>1 DEF Charges
<1>3. [r \in Res |-> IF need[r] =< rec.used[r]
                       THEN rec.used[r] - need[r] ELSE 0] \in Charges
  BY <1>1 DEF Charges
<1>4. ASSUME NEW u \in Charges
      PROVE  [rec EXCEPT !.used = u] \in Host
  BY DEF Host
<1> QED BY <1>2, <1>3, <1>4 DEF Charge, Refund

\* Hence Allocate and Release keep the table's type.
LEMMA AllocateType ==
    ASSUME HostTypeOK, NEW h \in HostIds, NEW need \in Positive,
           Allocate(h, need) \/ Release(h, need)
    PROVE  HostTypeOK'
<1>1. hosts[h] # NoHost => hosts[h] \in Host
  BY DEF HostTypeOK
<1> QED BY <1>1, ChargeType DEF HostTypeOK, Allocate, Release

\* A registration stores a record of the right type.
LEMMA RegisterType ==
    ASSUME HostTypeOK, NEW h \in HostIds, NEW offer \in Offers,
           RegisterHost(h, offer)
    PROVE  HostTypeOK'
<1>1. offer.cap \in Amounts /\ offer.gpu \in Nat /\ offer.used \in Charges
  BY HostAssumption DEF Registrations
<1>2. NewHost(offer) \in Host
  BY <1>1 DEF NewHost, Host
<1> QED BY <1>2 DEF HostTypeOK, RegisterHost

\* A heartbeat keeps the type: a lowered capacity is still an amount.
LEMMA HeartbeatType ==
    ASSUME HostTypeOK, NEW h \in HostIds, NEW m \in Reports, Heartbeat(h, m)
    PROVE  HostTypeOK'
<1>1. hosts[h] \in Host
  BY DEF HostTypeOK, Heartbeat
<1>2. /\ hosts[h].cap \in [Res -> Nat] /\ hosts[h].gpu \in Nat
      /\ m.cap \in [Res -> Nat] /\ m.gpu \in Nat
  BY <1>1, HostAssumption DEF Host, Amounts, Capacities
<1>3. ASSUME NEW a \in Nat, NEW b \in Nat, NEW c \in Nat
      PROVE  Lowered(a, b, c) \in Nat
  BY DEF Lowered
<1>4. /\ LoweredCap(hosts[h], m) \in Amounts
      /\ Lowered(hosts[h].gpu, m.gpu, 0) \in Nat
  BY <1>2, <1>3 DEF Amounts, LoweredCap
<1> DEFINE new == [[[hosts[h] EXCEPT !.fresh = TRUE] EXCEPT
                      !.cap = LoweredCap(hosts[h], m)]
                    EXCEPT !.gpu = Lowered(hosts[h].gpu, m.gpu, 0)]
<1>5. new \in Host
  BY <1>1, <1>4 DEF Host
<1>6. hosts' = [hosts EXCEPT ![h] = new]
  BY DEF Heartbeat, HostTypeOK
<1> QED BY <1>5, <1>6 DEF HostTypeOK

\* A new item is of the item type whatever the body left out.
LEMMA NewItemType ==
    ASSUME NEW req \in Requests
    PROVE  NewItem(req) \in Item /\ NewItem(req).status = "queued"
<1>1. req \in Request
  BY SchedulerAssumption
<1>2. /\ req.need \in [Res -> Nat] /\ req.gpu \in Nat
      /\ req.lat \in BOOLEAN /\ req.prio \in Nat
  BY <1>1 DEF Request, Amounts
<1>3. ASSUME NEW n \in Nat, NEW d \in Nat \ {0}
      PROVE  OrDefault(n, d) \in Nat \ {0}
  BY DEF OrDefault
<1>4. [r \in Res |-> OrDefault(req.need[r], IF r = "cpu" THEN 2 ELSE 4)] \in Positive
  BY <1>2, <1>3 DEF Positive
<1>5. OrDefault(req.prio, 2) \in Nat
  BY <1>2, <1>3
<1> QED BY <1>2, <1>4, <1>5 DEF NewItem, Item

----------------------------------------------------------------------------
\* The inductive invariant holds initially ...
LEMMA InvInit == Init => SchedulerInv
<1> SUFFICES ASSUME Init PROVE SchedulerInv
  OBVIOUS
<1>1. TypeOK
  BY SchedulerAssumption DEF Init, TypeOK, HostInit, HostTypeOK
<1>2. Leased = {}
  BY DEF Init, Leased
<1> QED BY <1>1, <1>2 DEF Init, SchedulerInv, FreshIds, CommitReady,
                         LeasesMatchQueue

\* ... and every step keeps it.
LEMMA InvStep == SchedulerInv /\ [Next]_vars => SchedulerInv'
<1> SUFFICES ASSUME SchedulerInv, [Next]_vars PROVE SchedulerInv'
  OBVIOUS
<1> USE SchedulerAssumption, Sentinels DEF SchedulerInv
<1>1. ASSUME NEW req \in Requests, Enqueue(req) PROVE SchedulerInv'
  <2>1. nextID \in RequestIds /\ queue[nextID] = NoItem /\ NewItem(req) \in Item
    BY <1>1, NewItemType DEF Enqueue, TypeOK, RequestIds, FreshIds
  <2>2. TypeOK'
    BY <1>1, <2>1 DEF Enqueue, TypeOK, HostTypeOK, cycleVars, RequestIds
  <2>3. FreshIds'
    BY <1>1, <2>1 DEF Enqueue, TypeOK, FreshIds, RequestIds
  <2>4. CommitReady'
    BY <1>1 DEF Enqueue, CommitReady, cycleVars
  <2>5. LeasesMatchQueue'
    BY <1>1, <2>1 DEF Enqueue, TypeOK, LeasesMatchQueue, Leased, Queue
  <2> QED BY <2>2, <2>3, <2>4, <2>5
<1>2. ASSUME NEW i \in RequestIds, Dequeue(i) PROVE SchedulerInv'
  <2>1. HostTypeOK'
    <3>1. CASE allocations[i] = NoAlloc
      BY <1>2, <3>1 DEF Dequeue, TypeOK, HostTypeOK
    <3>2. CASE allocations[i] # NoAlloc
      <4>1. allocations[i].host \in HostIds /\ allocations[i].need \in Positive
        BY <3>2 DEF TypeOK, Alloc
      <4> QED BY <1>2, <3>2, <4>1, AllocateType DEF Dequeue, TypeOK
    <3> QED BY <3>1, <3>2
  <2>2. TypeOK'
    BY <1>2, <2>1 DEF Dequeue, TypeOK, cycleVars
  <2>3. FreshIds'
    BY <1>2 DEF Dequeue, TypeOK, FreshIds, RequestIds
  <2>4. CommitReady'
    BY <1>2 DEF Dequeue, CommitReady, cycleVars
  <2>5. LeasesMatchQueue'
    BY <1>2 DEF Dequeue, TypeOK, LeasesMatchQueue, Leased, Queue
  <2> QED BY <2>2, <2>3, <2>4, <2>5
<1>3. ASSUME NEW i \in RequestIds, Expire(i) PROVE SchedulerInv'
  <2>1. allocations[i] \in Alloc /\ i \in Leased
    BY <1>3 DEF Expire, TypeOK, Leased
  <2>2. /\ [allocations[i] EXCEPT !.expired = TRUE] \in Alloc
        /\ [allocations[i] EXCEPT !.expired = TRUE].host = allocations[i].host
        /\ [allocations[i] EXCEPT !.expired = TRUE].need = allocations[i].need
    BY <2>1 DEF Alloc
  <2>3. TypeOK'
    BY <1>3, <2>2 DEF Expire, TypeOK, HostTypeOK, cycleVars
  <2>4. FreshIds' /\ CommitReady'
    BY <1>3 DEF Expire, FreshIds, CommitReady, cycleVars, Queued, Queue
  <2>5. \A j \in RequestIds : allocations'[j] # NoAlloc =>
            /\ allocations[j] # NoAlloc
            /\ allocations'[j].host = allocations[j].host
            /\ allocations'[j].need = allocations[j].need
    BY <1>3, <2>1, <2>2 DEF Expire, TypeOK, Leased
  <2>6. LeasesMatchQueue'
    BY <1>3, <2>5 DEF Expire, LeasesMatchQueue, Leased, Queue
  <2> QED BY <2>3, <2>4, <2>6
<1>4. ASSUME CycleStart PROVE SchedulerInv'
  BY <1>4 DEF CycleStart, TypeOK, HostTypeOK, FreshIds, CommitReady,
     LeasesMatchQueue, Leased, Queue, Queued, Available, Registered, RequestIds
<1>5. ASSUME NEW i \in RequestIds, RankFound(i) PROVE SchedulerInv'
  <2>1. i \in Queued
    BY <1>5 DEF RankFound, IsNext, Unexamined
  <2>2. best' \in HostIds
    BY <1>5 DEF RankFound, Ranked, TypeOK
  <2>3. TypeOK' /\ FreshIds' /\ LeasesMatchQueue'
    BY <1>5, <2>2 DEF RankFound, TypeOK, HostTypeOK, FreshIds,
       LeasesMatchQueue, Leased, Queue, RequestIds
  <2>4. CommitReady'
    BY <1>5, <2>1, <2>2 DEF RankFound, CommitReady, Queued, Queue
  <2> QED BY <2>3, <2>4
<1>6. ASSUME NEW i \in RequestIds, RankNone(i) PROVE SchedulerInv'
  BY <1>6 DEF RankNone, TypeOK, HostTypeOK, FreshIds, CommitReady,
     LeasesMatchQueue, Leased, Queue, RequestIds
<1>7. ASSUME Commit PROVE SchedulerInv'
  <2> DEFINE lease == [host |-> best, need |-> queue[cursor].need, expired |-> FALSE]
             item == [[queue[cursor] EXCEPT !.status = "allocated"]
                        EXCEPT !.host = best]
  <2>1. /\ cursor \in RequestIds /\ queue[cursor] \in Item /\ best \in HostIds
        /\ queue[cursor] # NoItem
    BY <1>7 DEF Commit, CommitReady, Queued, Queue, TypeOK
  <2>2. queue[cursor].need \in Positive
    BY <2>1 DEF Item
  <2>3. HostTypeOK'
    BY <1>7, <2>1, <2>2, AllocateType DEF Commit, TypeOK
  <2>4. lease \in Alloc
    BY <2>1, <2>2 DEF Alloc
  <2>5. /\ item \in Item
        /\ item.status = "allocated" /\ item.host = best
        /\ item.need = queue[cursor].need
    BY <2>1 DEF Item
  <2>6. /\ allocations' = [allocations EXCEPT ![cursor] = lease]
        /\ queue' = [queue EXCEPT ![cursor] = item]
    BY <1>7, <2>1 DEF Commit, TypeOK
  <2> HIDE DEF lease, item
  <2>7. TypeOK'
    <3>1. cursor' \in 1 .. MaxRequests + 1
      BY <1>7, <2>1 DEF Commit, RequestIds
    <3>2. /\ queue' \in [RequestIds -> Item \cup {NoItem}]
          /\ allocations' \in [RequestIds -> Alloc \cup {NoAlloc}]
      BY <2>1, <2>4, <2>5, <2>6 DEF TypeOK
    <3> QED BY <1>7, <2>3, <3>1, <3>2 DEF Commit, TypeOK
  <2>8. FreshIds'
    BY <1>7, <2>1, <2>5, <2>6 DEF Commit, FreshIds, TypeOK
  <2>9. CommitReady'
    BY <1>7 DEF Commit, CommitReady
  <2>10. lease.host = best /\ lease.need = queue[cursor].need
    BY DEF lease
  <2>11. ASSUME NEW j \in Leased'
         PROVE  /\ j \in Queue'
                /\ queue'[j].status = "allocated"
                /\ queue'[j].host = allocations'[j].host
                /\ queue'[j].need = allocations'[j].need
    <3>1. CASE j = cursor
      BY <3>1, <2>1, <2>5, <2>6, <2>10 DEF Queue, TypeOK
    <3>2. CASE j # cursor
      BY <3>2, <2>6 DEF TypeOK, LeasesMatchQueue, Leased, Queue
    <3> QED BY <3>1, <3>2
  <2>12. LeasesMatchQueue'
    BY <2>11 DEF LeasesMatchQueue
  <2> QED BY <2>7, <2>8, <2>9, <2>12
<1>8. ASSUME RankDone PROVE SchedulerInv'
  BY <1>8 DEF RankDone, TypeOK, HostTypeOK, FreshIds, CommitReady,
     LeasesMatchQueue, Leased, Queue
<1>9. ASSUME NEW i \in RequestIds, CleanupExpired(i) PROVE SchedulerInv'
  <2>1. /\ allocations[i] \in Alloc
        /\ allocations[i].host \in HostIds /\ allocations[i].need \in Positive
    BY <1>9 DEF CleanupExpired, Overdue, Leased, TypeOK, Alloc
  <2>2. HostTypeOK'
    BY <1>9, <2>1, AllocateType DEF CleanupExpired, TypeOK
  <2>3. TypeOK'
    BY <1>9, <2>2 DEF CleanupExpired, TypeOK, cycleVars
  <2>4. FreshIds' /\ CommitReady'
    BY <1>9 DEF CleanupExpired, FreshIds, CommitReady, cycleVars
  <2>5. LeasesMatchQueue'
    BY <1>9 DEF CleanupExpired, TypeOK, LeasesMatchQueue, Leased, Queue
  <2> QED BY <2>3, <2>4, <2>5
<1>10. ASSUME CycleEnd PROVE SchedulerInv'
  BY <1>10 DEF CycleEnd, TypeOK, HostTypeOK, FreshIds, CommitReady,
     LeasesMatchQueue, Leased, Queue, RequestIds
<1>11. ASSUME NEW h \in HostIds, HostStep(h) PROVE SchedulerInv'
  <2>1. HostTypeOK'
    <3>1. ASSUME NEW m \in Reports, Heartbeat(h, m) PROVE HostTypeOK'
      BY <3>1, HeartbeatType DEF TypeOK
    <3>2. ASSUME FallSilent(h) PROVE HostTypeOK'
      <4>1. hosts[h] \in Host
        BY <3>2 DEF FallSilent, TypeOK, HostTypeOK
      <4>2. [hosts[h] EXCEPT !.fresh = FALSE] \in Host
        BY <4>1 DEF Host
      <4> QED BY <3>2, <4>2 DEF FallSilent, TypeOK, HostTypeOK
    <3> QED BY <1>11, <3>1, <3>2 DEF HostStep
  <2>2. TypeOK'
    BY <1>11, <2>1 DEF HostStep, TypeOK, cycleVars
  <2>3. FreshIds' /\ CommitReady' /\ LeasesMatchQueue'
    BY <1>11 DEF HostStep, FreshIds, CommitReady, LeasesMatchQueue, Leased,
       Queue, Queued, cycleVars
  <2> QED BY <2>2, <2>3
<1>12. ASSUME NEW h \in HostIds, NEW offer \in Offers, Register(h, offer)
       PROVE  SchedulerInv'
  <2>1. HostTypeOK'
    BY <1>12, RegisterType DEF Register, TypeOK
  <2>2. orphan' \in [HostIds -> Host \cup {NoHost}]
    BY <1>12 DEF Register, TypeOK, HostTypeOK
  <2>3. TypeOK'
    BY <1>12, <2>1, <2>2 DEF Register, TypeOK
  <2>4. FreshIds' /\ CommitReady' /\ LeasesMatchQueue'
    BY <1>12 DEF Register, FreshIds, CommitReady, LeasesMatchQueue, Leased,
       Queue, Queued
  <2> QED BY <2>3, <2>4
<1>13. CASE UNCHANGED vars
  BY <1>13 DEF vars, cycleVars, TypeOK, HostTypeOK, FreshIds, CommitReady,
     LeasesMatchQueue, Leased, Queue, Queued
<1> QED BY <1>1, <1>2, <1>3, <1>4, <1>5, <1>6, <1>7, <1>8, <1>9, <1>10,
           <1>11, <1>12, <1>13 DEF Next, Cycle

----------------------------------------------------------------------------
\* The inductive invariant holds of every behaviour.
LEMMA SchedulerInvariant == Spec => []SchedulerInv
BY InvInit, InvStep, PTL DEF Spec

\* Every state of the service is well typed: a ranked host is a known id, a
\* lease always names a host and a positive demand.
THEOREM TypeCorrect == Spec => []TypeOK
<1>1. SchedulerInv => TypeOK
  BY DEF SchedulerInv
<1> QED BY <1>1, SchedulerInvariant, PTL

\* A lease always belongs to an item still in the queue, marked allocated on
\* that host with that demand: DELETE of the item gives every lease back.
THEOREM LeasesCorrect == Spec => []LeasesMatchQueue
<1>1. SchedulerInv => LeasesMatchQueue
  BY DEF SchedulerInv
<1> QED BY <1>1, SchedulerInvariant, PTL

----------------------------------------------------------------------------
\* Accounting.  The load of a host is the number of tokens its leases hold.

\* The tokens that the leases of table `a` hold on h for resource r.
HeldBy(a, h, r) ==
    UNION {{i} \X (1 .. a[i].need[r]) :
              i \in {j \in RequestIds : a[j] # NoAlloc /\ a[j].host = h}}

\* One lease of n units holds n tokens.
LEMMA TokenCount ==
    ASSUME NEW i, NEW n \in Nat
    PROVE  /\ IsFiniteSet({i} \X (1 .. n))
           /\ Cardinality({i} \X (1 .. n)) = n
<1>1. IsFiniteSet({i}) /\ Cardinality({i}) = 1
  BY FS_Singleton
<1>2. IsFiniteSet(1 .. n) /\ Cardinality(1 .. n) = n
  BY FS_Interval
<1>3. /\ IsFiniteSet({i} \X (1 .. n))
      /\ Cardinality({i} \X (1 .. n)) = Cardinality({i}) * Cardinality(1 .. n)
  BY <1>1, <1>2, FS_Product
<1> QED BY <1>1, <1>2, <1>3

\* A host's tokens are finitely many.
LEMMA HeldFinite ==
    ASSUME NEW a \in [RequestIds -> Alloc \cup {NoAlloc}], NEW h, NEW r \in Res
    PROVE  IsFiniteSet(HeldBy(a, h, r)) /\ Cardinality(HeldBy(a, h, r)) \in Nat
<1> DEFINE on == {j \in RequestIds : a[j] # NoAlloc /\ a[j].host = h}
           tok == [i \in on |-> {i} \X (1 .. a[i].need[r])]
           all == {{i} \X (1 .. a[i].need[r]) : i \in on}
<1>1. IsFiniteSet(on)
  <2>1. IsFiniteSet(RequestIds)
    BY FS_Interval, SchedulerAssumption DEF RequestIds
  <2> QED BY <2>1, FS_Subset
<1>2. tok \in Surjection(on, all)
  BY DEF Surjection
<1>3. IsFiniteSet(all)
  BY <1>1, <1>2, FS_Surjection
<1>4. ASSUME NEW i \in on PROVE IsFiniteSet({i} \X (1 .. a[i].need[r]))
  <2>1. a[i].need[r] \in Nat
    BY DEF Alloc, Positive
  <2> QED BY <2>1, TokenCount
<1>5. IsFiniteSet(UNION all)
  BY <1>3, <1>4, FS_UNION
<1>6. HeldBy(a, h, r) = UNION all
  BY DEF HeldBy
<1> QED BY <1>5, <1>6, FS_CardinalityType

\* Two lease tables that differ in one lease differ by its demand in the load
\* of its host, and not at all in any other host's load.
LEMMA OneLeaseApart ==
    ASSUME NEW a \in [RequestIds -> Alloc \cup {NoAlloc}],
           NEW b \in [RequestIds -> Alloc \cup {NoAlloc}],
           NEW c \in RequestIds, a[c] = NoAlloc, b[c] # NoAlloc,
           \A j \in RequestIds : j # c => a[j] = b[j],
           NEW h \in HostIds, NEW r \in Res
    PROVE  Cardinality(HeldBy(b, h, r)) =
             IF b[c].host = h THEN Cardinality(HeldBy(a, h, r)) + b[c].need[r]
                              ELSE Cardinality(HeldBy(a, h, r))
<1> DEFINE new == {c} \X (1 .. b[c].need[r])
<1>1. b[c].need[r] \in Nat
  BY DEF Alloc, Positive
<1>2. CASE b[c].host = h
  <2>1. HeldBy(b, h, r) = HeldBy(a, h, r) \cup new
    BY <1>2 DEF HeldBy
  <2>2. HeldBy(a, h, r) \cap new = {}
    BY DEF HeldBy
  <2>3. /\ IsFiniteSet(HeldBy(a, h, r)) /\ Cardinality(HeldBy(a, h, r)) \in Nat
        /\ IsFiniteSet(new) /\ Cardinality(new) = b[c].need[r]
    BY <1>1, HeldFinite, TokenCount
  <2>4. Cardinality(HeldBy(a, h, r) \cup new) =
          Cardinality(HeldBy(a, h, r)) + Cardinality(new)
            - Cardinality(HeldBy(a, h, r) \cap new)
    BY <2>3, FS_Union
  <2>5. Cardinality(HeldBy(a, h, r) \cap new) = 0
    BY <2>2, FS_EmptySet
  <2> HIDE DEF new
  <2> QED BY <1>1, <1>2, <2>1, <2>3, <2>4, <2>5
<1>3. CASE b[c].host # h
  <2>1. HeldBy(b, h, r) = HeldBy(a, h, r)
    BY <1>3 DEF HeldBy
  <2> QED BY <1>3, <2>1
<1> QED BY <1>2, <1>3

\* LoadOn counts the tokens of the current lease table.
LEMMA LoadIsHeld ==
    ASSUME NEW h, NEW r
    PROVE  LoadOn(h, r) = Cardinality(HeldBy(allocations, h, r))
BY DEF LoadOn, HeldBy, Tokens, LeasedOn, Leased

\* What the registry may charge: no more than announced and leased, and never
\* less than nothing of its own accord.
ChargeInv == NoPhantomLoad /\ NoCredit

\* What both say of one host and resource.
ChargeBound(h, r) ==
    /\ hosts[h].used[r] =< Announced(h, r) + LoadOn(h, r)
    /\ hosts[h].used[r] >= 0 \/ hosts[h].used[r] >= hosts[h].base[r]

LEMMA ChargeInvIsBound == ChargeInv <=> \A h \in Registered, r \in Res : ChargeBound(h, r)
BY DEF ChargeInv, ChargeBound, NoPhantomLoad, NoCredit

\* The numbers of a record.
LEMMA RecordNumbers ==
    ASSUME NEW rec \in Host, NEW r \in Res
    PROVE  rec.used[r] \in Int /\ rec.base[r] \in Int /\ rec.cap[r] \in Nat
<1>1. rec.used \in [Res -> Int] /\ rec.base \in [Res -> Int] /\ rec.cap \in [Res -> Nat]
  BY DEF Host, Amounts, Charges
<1> QED BY <1>1

\* A well-typed step that keeps every load keeps ChargeInv when it leaves the
\* charges alone, or sets one to what the host announces.
LEMMA SameLoad ==
    ASSUME TypeOK, ChargeInv, HostTypeOK',
           \A h \in HostIds, r \in Res : LoadOn(h, r)' = LoadOn(h, r),
           \A h \in HostIds : hosts'[h] # NoHost =>
               \/ /\ hosts[h] # NoHost
                  /\ hosts'[h].used = hosts[h].used
                  /\ hosts'[h].base = hosts[h].base
               \/ hosts'[h].used = hosts'[h].base
    PROVE  ChargeInv'
<1> SUFFICES ASSUME NEW h \in Registered', NEW r \in Res
             PROVE  ChargeBound(h, r)'
  BY DEF ChargeInv, ChargeBound, NoPhantomLoad, NoCredit
<1>1. h \in HostIds /\ hosts'[h] # NoHost
  BY DEF Registered
<1>2. LoadOn(h, r) \in Nat /\ LoadOn(h, r)' = LoadOn(h, r)
  BY <1>1, HeldFinite, LoadIsHeld DEF TypeOK
<1>3. CASE /\ hosts[h] # NoHost
           /\ hosts'[h].used = hosts[h].used
           /\ hosts'[h].base = hosts[h].base
  <2>1. ChargeBound(h, r)
    BY <1>1, <1>3, ChargeInvIsBound DEF Registered
  <2> QED BY <1>2, <1>3, <2>1 DEF ChargeBound, Announced
<1>4. CASE hosts'[h].used = hosts'[h].base
  <2>1. hosts'[h].base[r] \in Int
    BY <1>1, RecordNumbers DEF HostTypeOK
  <2> QED BY <1>2, <1>4, <2>1 DEF ChargeBound, Announced
<1> QED BY <1>1, <1>3, <1>4

\* Dropping a lease lowers the load of its host by its demand and no other.
LEMMA DropLoad ==
    ASSUME TypeOK, NEW i \in RequestIds, allocations[i] # NoAlloc,
           allocations' = [allocations EXCEPT ![i] = NoAlloc],
           NEW h \in HostIds, NEW r \in Res
    PROVE  /\ LoadOn(h, r)' \in Nat
           /\ LoadOn(h, r) = IF allocations[i].host = h
                               THEN LoadOn(h, r)' + allocations[i].need[r]
                               ELSE LoadOn(h, r)'
<1> DEFINE after == [allocations EXCEPT ![i] = NoAlloc]
<1>1. after \in [RequestIds -> Alloc \cup {NoAlloc}]
  BY DEF TypeOK
<1>2. LoadOn(h, r)' = Cardinality(HeldBy(after, h, r))
  BY DEF LoadOn, HeldBy, Tokens, LeasedOn, Leased
<1>3. Cardinality(HeldBy(after, h, r)) \in Nat
  BY <1>1, HeldFinite
<1>4. Cardinality(HeldBy(allocations, h, r)) =
        IF allocations[i].host = h
          THEN Cardinality(HeldBy(after, h, r)) + allocations[i].need[r]
          ELSE Cardinality(HeldBy(after, h, r))
  <2>1. /\ after[i] = NoAlloc
        /\ \A j \in RequestIds : j # i => after[j] = allocations[j]
        /\ allocations \in [RequestIds -> Alloc \cup {NoAlloc}]
    BY DEF TypeOK
  <2> HIDE DEF after
  <2> QED BY <1>1, <2>1, OneLeaseApart
<1> HIDE DEF after
<1> QED BY <1>2, <1>3, <1>4, LoadIsHeld

\* Granting one raises the load of its host by its demand and no other.
LEMMA GrantLoad ==
    ASSUME TypeOK, NEW i \in RequestIds, allocations[i] = NoAlloc,
           NEW lease \in Alloc,
           allocations' = [allocations EXCEPT ![i] = lease],
           NEW h \in HostIds, NEW r \in Res
    PROVE  /\ LoadOn(h, r) \in Nat
           /\ LoadOn(h, r)' = IF lease.host = h THEN LoadOn(h, r) + lease.need[r]
                                                ELSE LoadOn(h, r)
<1> DEFINE after == [allocations EXCEPT ![i] = lease]
<1>1. LoadOn(h, r)' = Cardinality(HeldBy(after, h, r))
  BY DEF LoadOn, HeldBy, Tokens, LeasedOn, Leased
<1>2. LoadOn(h, r) \in Nat
  BY HeldFinite, LoadIsHeld DEF TypeOK
<1>3. Cardinality(HeldBy(after, h, r)) =
        IF lease.host = h
          THEN Cardinality(HeldBy(allocations, h, r)) + lease.need[r]
          ELSE Cardinality(HeldBy(allocations, h, r))
  <2>1. /\ after[i] = lease /\ lease # NoAlloc
        /\ \A j \in RequestIds : j # i => allocations[j] = after[j]
        /\ allocations \in [RequestIds -> Alloc \cup {NoAlloc}]
        /\ after \in [RequestIds -> Alloc \cup {NoAlloc}]
    BY Sentinels DEF TypeOK
  <2> HIDE DEF after
  <2> QED BY <2>1, OneLeaseApart
<1> HIDE DEF after
<1> QED BY <1>1, <1>2, <1>3, LoadIsHeld

\* Releasing a lease takes at least as much off the load as off the charge.
LEMMA DropKeepsChargeInv ==
    ASSUME TypeOK, ChargeInv, NEW i \in RequestIds, allocations[i] # NoAlloc,
           Release(allocations[i].host, allocations[i].need),
           allocations' = [allocations EXCEPT ![i] = NoAlloc]
    PROVE  ChargeInv'
<1> DEFINE g == allocations[i].host
           need == allocations[i].need
<1>1. g \in HostIds /\ need \in Positive
  BY DEF TypeOK, Alloc
<1> SUFFICES ASSUME NEW h \in Registered', NEW r \in Res
             PROVE  ChargeBound(h, r)'
  BY DEF ChargeInv, ChargeBound, NoPhantomLoad, NoCredit
<1>2. /\ h \in HostIds /\ hosts[h] # NoHost
      /\ hosts'[h] = IF h = g THEN Refund(hosts[h], need) ELSE hosts[h]
  BY <1>1 DEF Registered, Release, TypeOK, HostTypeOK
<1>3. hosts[h] \in Host
  BY <1>2 DEF TypeOK, HostTypeOK
<1>4. hosts[h].used[r] \in Int /\ hosts[h].base[r] \in Int /\ need[r] \in Nat
  BY <1>1, <1>3, RecordNumbers DEF Positive
<1>5. /\ hosts[h].used[r] =< Announced(h, r) + LoadOn(h, r)
      /\ hosts[h].used[r] >= 0 \/ hosts[h].used[r] >= hosts[h].base[r]
  BY <1>2, ChargeInvIsBound DEF Registered, ChargeBound
<1>6. Announced(h, r) \in Nat
  BY <1>4 DEF Announced
<1>7. /\ LoadOn(h, r)' \in Nat
      /\ LoadOn(h, r) = IF g = h THEN LoadOn(h, r)' + need[r] ELSE LoadOn(h, r)'
  BY <1>2, DropLoad
<1> HIDE DEF g, need
<1>8. CASE h = g
  <2>1. /\ Refund(hosts[h], need).used[r] =
             IF need[r] =< hosts[h].used[r] THEN hosts[h].used[r] - need[r] ELSE 0
        /\ Refund(hosts[h], need).base = hosts[h].base
    BY <1>3 DEF Refund, Host, Charges
  <2>2. Announced(h, r)' = Announced(h, r)
    BY <1>2, <1>8, <2>1 DEF Announced
  <2>3. /\ hosts'[h].used[r] = IF need[r] =< hosts[h].used[r]
                                 THEN hosts[h].used[r] - need[r] ELSE 0
        /\ LoadOn(h, r) = LoadOn(h, r)' + need[r]
    BY <1>2, <1>7, <1>8, <2>1
  <2>4. hosts'[h].used[r] >= 0
    BY <1>4, <2>3
  <2>5. hosts'[h].used[r] =< Announced(h, r) + LoadOn(h, r)'
    BY <1>4, <1>5, <1>6, <1>7, <2>3
  <2> QED BY <2>2, <2>4, <2>5 DEF ChargeBound
<1>9. CASE h # g
  <2>1. hosts'[h] = hosts[h] /\ LoadOn(h, r)' = LoadOn(h, r)
    BY <1>2, <1>7, <1>9
  <2> QED BY <1>5, <2>1 DEF ChargeBound, Announced
<1> QED BY <1>8, <1>9

\* Granting a lease adds its whole demand to the load, and at most that to the
\* charge: Allocate charges all of it or refuses.
LEMMA GrantKeepsChargeInv ==
    ASSUME SchedulerInv, ChargeInv, Commit
    PROVE  ChargeInv'
<1> DEFINE need == queue[cursor].need
           lease == [host |-> best, need |-> need, expired |-> FALSE]
<1>1. /\ cursor \in RequestIds /\ best \in HostIds /\ need \in Positive
      /\ allocations[cursor] = NoAlloc
  <2>1. cursor \in Queued /\ best \in HostIds
    BY DEF SchedulerInv, Commit, CommitReady
  <2>2. queue[cursor] \in Item
    BY <2>1 DEF SchedulerInv, TypeOK, Queued, Queue
  <2>3. cursor \notin Leased
    BY <2>1 DEF SchedulerInv, LeasesMatchQueue, Queued
  <2> QED BY <2>1, <2>2, <2>3 DEF Leased, Queued, Queue, Item
<1>2. lease \in Alloc /\ lease.host = best /\ lease.need = need
  BY <1>1 DEF Alloc
<1>3. allocations' = [allocations EXCEPT ![cursor] = lease]
  BY DEF Commit
<1> HIDE DEF lease
<1> SUFFICES ASSUME NEW h \in Registered', NEW r \in Res
             PROVE  ChargeBound(h, r)'
  BY DEF ChargeInv, ChargeBound, NoPhantomLoad, NoCredit
<1>4. /\ h \in HostIds /\ hosts[h] # NoHost
      /\ hosts'[h] = IF h = best THEN Charge(hosts[h], need) ELSE hosts[h]
  BY <1>1 DEF Registered, Commit, Allocate, SchedulerInv, TypeOK, HostTypeOK
<1>5. hosts[h] \in Host
  BY <1>4 DEF SchedulerInv, TypeOK, HostTypeOK
<1>6. hosts[h].used[r] \in Int /\ hosts[h].base[r] \in Int /\ need[r] \in Nat
  BY <1>1, <1>5, RecordNumbers DEF Positive
<1>7. /\ hosts[h].used[r] =< Announced(h, r) + LoadOn(h, r)
      /\ hosts[h].used[r] >= 0 \/ hosts[h].used[r] >= hosts[h].base[r]
  BY <1>4, ChargeInvIsBound DEF Registered, ChargeBound
<1>8. Announced(h, r) \in Nat
  BY <1>6 DEF Announced
<1>9. /\ LoadOn(h, r) \in Nat
      /\ LoadOn(h, r)' = IF best = h THEN LoadOn(h, r) + need[r] ELSE LoadOn(h, r)
  BY <1>1, <1>2, <1>3, <1>4, GrantLoad DEF SchedulerInv
<1> HIDE DEF need
<1>11. CASE h = best
  <2>1. /\ Charge(hosts[h], need).used[r] \in {hosts[h].used[r], hosts[h].used[r] + need[r]}
        /\ Charge(hosts[h], need).base = hosts[h].base
    BY <1>5 DEF Charge, Host, Charges
  <2>2. Announced(h, r)' = Announced(h, r) /\ hosts'[h].base = hosts[h].base
    BY <1>4, <1>11, <2>1 DEF Announced
  <2>3. /\ hosts'[h].used[r] \in {hosts[h].used[r], hosts[h].used[r] + need[r]}
        /\ LoadOn(h, r)' = LoadOn(h, r) + need[r]
    BY <1>4, <1>9, <1>11, <2>1
  <2>4. /\ hosts'[h].used[r] =< Announced(h, r) + LoadOn(h, r)'
        /\ hosts'[h].used[r] >= 0 \/ hosts'[h].used[r] >= hosts[h].base[r]
    BY <1>6, <1>7, <1>8, <1>9, <2>3
  <2> QED BY <2>2, <2>4 DEF ChargeBound
<1>12. CASE h # best
  <2>1. hosts'[h] = hosts[h] /\ LoadOn(h, r)' = LoadOn(h, r)
    BY <1>4, <1>9, <1>12
  <2> QED BY <1>7, <2>1 DEF ChargeBound, Announced
<1> QED BY <1>11, <1>12

\* Every step keeps ChargeInv, given the inductive invariant around it.
LEMMA ChargeInvStep ==
    SchedulerInv /\ SchedulerInv' /\ ChargeInv /\ [Next]_vars => ChargeInv'
<1> SUFFICES ASSUME SchedulerInv, SchedulerInv', ChargeInv, [Next]_vars
             PROVE  ChargeInv'
  OBVIOUS
<1> USE DEF SchedulerInv
<1>0. TypeOK /\ HostTypeOK'
  BY DEF TypeOK
<1>1. ASSUME UNCHANGED hosts, UNCHANGED allocations PROVE ChargeInv'
  BY <1>1 DEF ChargeInv, NoPhantomLoad, NoCredit, Announced, Registered,
              LoadOn, Tokens, LeasedOn, Leased
<1>2. ASSUME NEW i \in RequestIds, Dequeue(i) PROVE ChargeInv'
  <2>1. CASE allocations[i] = NoAlloc
    <3>1. UNCHANGED <<hosts, allocations>>
      BY <1>2, <2>1 DEF Dequeue, TypeOK
    <3> QED BY <1>1, <3>1
  <2>2. CASE allocations[i] # NoAlloc
    BY <1>2, <2>2, DropKeepsChargeInv DEF Dequeue
  <2> QED BY <2>1, <2>2
<1>3. ASSUME NEW i \in RequestIds, Expire(i) PROVE ChargeInv'
  <2>1. allocations[i] \in Alloc
    BY <1>3 DEF Expire, Leased, TypeOK
  <2>2. [allocations[i] EXCEPT !.expired = TRUE] \in Alloc
    BY <2>1 DEF Alloc
  <2>3. \A j \in RequestIds :
            /\ allocations'[j] # NoAlloc <=> allocations[j] # NoAlloc
            /\ allocations[j] # NoAlloc =>
                  /\ allocations'[j].host = allocations[j].host
                  /\ allocations'[j].need = allocations[j].need
    BY <1>3, <2>1, <2>2, Sentinels DEF Expire, Leased, TypeOK, Alloc
  <2>4. \A h \in HostIds : LeasedOn(h)' = LeasedOn(h)
    BY <2>3 DEF LeasedOn, Leased
  <2>5. \A h \in HostIds, r \in Res :
            \A j \in LeasedOn(h) : Tokens(j, r)' = Tokens(j, r)
    BY <2>3 DEF LeasedOn, Leased, Tokens
  <2>6. \A h \in HostIds, r \in Res : LoadOn(h, r)' = LoadOn(h, r)
    BY <2>4, <2>5 DEF LoadOn
  <2>7. UNCHANGED hosts
    BY <1>3 DEF Expire
  <2> QED BY <1>0, <2>6, <2>7, SameLoad
<1>4. ASSUME NEW i \in RequestIds, CleanupExpired(i) PROVE ChargeInv'
  BY <1>4, DropKeepsChargeInv DEF CleanupExpired, Overdue, Leased
<1>5. ASSUME Commit PROVE ChargeInv'
  BY <1>5, GrantKeepsChargeInv
<1>6. ASSUME UNCHANGED allocations,
             \A h \in HostIds : hosts'[h] # NoHost =>
                 \/ /\ hosts[h] # NoHost
                    /\ hosts'[h].used = hosts[h].used
                    /\ hosts'[h].base = hosts[h].base
                 \/ hosts'[h].used = hosts'[h].base
      PROVE  ChargeInv'
  <2>1. \A h \in HostIds, r \in Res : LoadOn(h, r)' = LoadOn(h, r)
    BY <1>6 DEF LoadOn, Tokens, LeasedOn, Leased
  <2> QED BY <1>0, <1>6, <2>1, SameLoad
<1>7. ASSUME NEW g \in HostIds, HostStep(g) PROVE ChargeInv'
  <2>1. hosts[g] \in Host
    BY <1>7 DEF HostStep, Heartbeat, FallSilent, TypeOK, HostTypeOK
  <2>2. ASSUME NEW h \in HostIds, hosts'[h] # NoHost
        PROVE  /\ hosts[h] # NoHost
               /\ hosts'[h].used = hosts[h].used
               /\ hosts'[h].base = hosts[h].base
    <3>1. CASE h = g
      <4>1. hosts[g] # NoHost
        BY <2>1, Sentinels
      <4>2. ASSUME NEW m \in Reports, Heartbeat(g, m)
            PROVE  hosts'[g].used = hosts[g].used /\ hosts'[g].base = hosts[g].base
        BY <2>1, <4>2 DEF Heartbeat, TypeOK, HostTypeOK, Host
      <4>3. ASSUME FallSilent(g)
            PROVE  hosts'[g].used = hosts[g].used /\ hosts'[g].base = hosts[g].base
        BY <2>1, <4>3 DEF FallSilent, TypeOK, HostTypeOK, Host
      <4> QED BY <1>7, <3>1, <4>1, <4>2, <4>3 DEF HostStep
    <3>2. CASE h # g
      BY <1>7, <2>2, <3>2 DEF HostStep, Heartbeat, FallSilent, TypeOK, HostTypeOK
    <3> QED BY <3>1, <3>2
  <2>3. UNCHANGED allocations
    BY <1>7 DEF HostStep
  <2> QED BY <1>6, <2>2, <2>3
<1>8. ASSUME NEW g \in HostIds, NEW offer \in Offers, Register(g, offer)
      PROVE  ChargeInv'
  <2>1. ASSUME NEW h \in HostIds, hosts'[h] # NoHost
        PROVE  \/ /\ hosts[h] # NoHost
                  /\ hosts'[h].used = hosts[h].used
                  /\ hosts'[h].base = hosts[h].base
               \/ hosts'[h].used = hosts'[h].base
    BY <1>8, <2>1 DEF Register, RegisterHost, NewHost, TypeOK, HostTypeOK
  <2>2. UNCHANGED allocations
    BY <1>8 DEF Register
  <2> QED BY <1>6, <2>1, <2>2
<1>9. ASSUME NEW req \in Requests, Enqueue(req) PROVE ChargeInv'
  BY <1>1, <1>9 DEF Enqueue
<1>10. ASSUME CycleStart \/ RankDone \/ CycleEnd PROVE ChargeInv'
  BY <1>1, <1>10 DEF CycleStart, RankDone, CycleEnd
<1>11. ASSUME NEW i \in RequestIds, RankFound(i) \/ RankNone(i) PROVE ChargeInv'
  BY <1>1, <1>11 DEF RankFound, RankNone
<1>12. CASE UNCHANGED vars
  BY <1>1, <1>12 DEF vars
<1> QED BY <1>2, <1>3, <1>4, <1>5, <1>7, <1>8, <1>9, <1>10, <1>11, <1>12
           DEF Next, Cycle

LEMMA ChargeInvHolds == Spec => []ChargeInv
<1>1. Init => ChargeInv
  BY DEF Init, HostInit, ChargeInv, NoPhantomLoad, NoCredit, Registered
<1> QED BY <1>1, ChargeInvStep, SchedulerInvariant, PTL DEF Spec

\* The registry never charges a host for more than it announced and its live
\* leases hold, for every number of hosts, announced charges, requests and
\* amounts: no sequence of registrations, refused Allocate calls and clamped
\* Release calls strands capacity (host/manager.go:133-163).
THEOREM NoPhantomLoadCorrect == Spec => []NoPhantomLoad
<1>1. ChargeInv => NoPhantomLoad
  BY DEF ChargeInv
<1> QED BY <1>1, ChargeInvHolds, PTL

\* No charge falls below zero, or below what the host itself announced,
\* whatever is released after it registered again (host/manager.go:161-162).
THEOREM NoCreditCorrect == Spec => []NoCredit
<1>1. ChargeInv => NoCredit
  BY DEF ChargeInv
<1> QED BY <1>1, ChargeInvHolds, PTL

-----------------------------------------------------------------------------
(***************************************************************************)
(* A steady host is charged for every lease on top of what it announced,    *)
(* although ranking and Allocate are separate steps and the answer of       *)
(* Allocate is dropped.                                                     *)
(***************************************************************************)
\* Every host the cycle or a lease refers to is in the table.
HostsKnown ==
    /\ snap \subseteq Registered
    /\ pc = "commit" => best \in Registered
    /\ \A i \in Leased : allocations[i].host \in Registered

\* The cycle sees a steady host as it is: its pointer is never left behind.
SteadyInTable == \A h \in Steady : orphan[h] = NoHost

\* What the ranking saw still holds at the commit, if the host is steady.
CommitRoom ==
    pc = "commit" /\ best \in Steady =>
        \A r \in Res : queue[cursor].need[r] =< hosts[best].cap[r] - hosts[best].used[r]

\* No lease of a steady host goes uncharged, and none takes it beyond its
\* capacity.  With NoPhantomLoad this is ExactAccounting.
LeaseCharged(h, r) ==
    /\ hosts[h].base[r] + LoadOn(h, r) =< hosts[h].used[r]
    /\ LeasedOn(h) # {} => hosts[h].used[r] =< hosts[h].cap[r]

SteadyCharged == \A h \in Registered \cap Steady, r \in Res : LeaseCharged(h, r)

\* The inductive invariant, around SchedulerInv.
ExactInv == HostsKnown /\ SteadyInTable /\ CommitRoom /\ SteadyCharged

----------------------------------------------------------------------------
\* A registered host's record is a record.
LEMMA KnownIsHost ==
    ASSUME TypeOK, NEW h \in Registered
    PROVE  /\ h \in HostIds /\ hosts[h] \in Host
           /\ hosts[h].cap \in [Res -> Nat] /\ hosts[h].used \in [Res -> Int]
           /\ hosts[h].base \in [Res -> Int]
<1>1. h \in HostIds /\ hosts[h] \in Host
  BY DEF TypeOK, HostTypeOK, Registered
<1> QED BY <1>1 DEF Host, Amounts, Charges

\* A host without leases has no load.
LEMMA NoLeaseNoLoad ==
    ASSUME NEW h, NEW r, \A i \in Leased : allocations[i].host # h
    PROVE  LoadOn(h, r) = 0
<1>1. UNION {Tokens(i, r) : i \in LeasedOn(h)} = {}
  BY DEF LeasedOn
<1> QED BY <1>1, FS_EmptySet DEF LoadOn

\* Steps that keep the loads and the record of every steady host, except
\* that a host without leases may enter the table.
LEMMA QuietKeepsCharged ==
    ASSUME TypeOK, SteadyCharged,
           \A h \in HostIds : LeasedOn(h)' = LeasedOn(h),
           \A h \in HostIds, r \in Res : LoadOn(h, r)' = LoadOn(h, r),
           \A h \in Steady \cap Registered' :
               \/ /\ h \in Registered
                  /\ hosts'[h].used = hosts[h].used
                  /\ hosts'[h].base = hosts[h].base
                  /\ hosts'[h].cap = hosts[h].cap
               \/ /\ hosts'[h].used \in [Res -> Int]
                  /\ hosts'[h].base = hosts'[h].used
                  /\ LeasedOn(h) = {}
                  /\ \A r \in Res : LoadOn(h, r) = 0
    PROVE  SteadyCharged'
<1> SUFFICES ASSUME NEW h \in Registered' \cap Steady, NEW r \in Res
             PROVE  LeaseCharged(h, r)'
  BY DEF SteadyCharged
<1>1. LoadOn(h, r)' = LoadOn(h, r) /\ LeasedOn(h)' = LeasedOn(h)
  BY DEF Registered
<1>2. CASE /\ h \in Registered
           /\ hosts'[h].used = hosts[h].used
           /\ hosts'[h].base = hosts[h].base
           /\ hosts'[h].cap = hosts[h].cap
  <2>1. LeaseCharged(h, r)
    BY <1>2 DEF SteadyCharged
  <2> QED BY <1>1, <1>2, <2>1 DEF LeaseCharged
<1>3. CASE /\ hosts'[h].used \in [Res -> Int]
           /\ hosts'[h].base = hosts'[h].used
           /\ LeasedOn(h) = {}
           /\ \A q \in Res : LoadOn(h, q) = 0
  <2>1. hosts'[h].used[r] \in Int /\ hosts'[h].base[r] = hosts'[h].used[r]
    BY <1>3
  <2>2. LoadOn(h, r)' = 0 /\ LeasedOn(h)' = {}
    BY <1>1, <1>3
  <2> QED BY <2>1, <2>2 DEF LeaseCharged
<1> QED BY <1>2, <1>3

\* Dropping a lease takes no more off the charge than off the load: where
\* Release clamps, it takes less.
LEMMA DropKeepsCharged ==
    ASSUME TypeOK, SteadyCharged, NEW i \in RequestIds, allocations[i] # NoAlloc,
           Release(allocations[i].host, allocations[i].need),
           allocations' = [allocations EXCEPT ![i] = NoAlloc]
    PROVE  SteadyCharged'
<1> DEFINE g == allocations[i].host
           need == allocations[i].need
<1>1. g \in HostIds /\ need \in [Res -> Nat]
  BY DEF TypeOK, Alloc, Positive
<1> SUFFICES ASSUME NEW h \in Registered' \cap Steady, NEW r \in Res
             PROVE  LeaseCharged(h, r)'
  BY DEF SteadyCharged
<1>2. /\ h \in HostIds /\ hosts[h] # NoHost /\ h \in Registered
      /\ hosts'[h] = IF h = g THEN Refund(hosts[h], need) ELSE hosts[h]
  BY <1>1 DEF Registered, Release, TypeOK, HostTypeOK
<1>3. /\ hosts[h] \in Host
      /\ hosts[h].used[r] \in Int /\ hosts[h].base[r] \in Int
      /\ hosts[h].cap[r] \in Nat /\ need[r] \in Nat
  BY <1>1, <1>2, KnownIsHost
<1>4. /\ hosts[h].base[r] + LoadOn(h, r) =< hosts[h].used[r]
      /\ LeasedOn(h) # {} => hosts[h].used[r] =< hosts[h].cap[r]
  BY <1>2 DEF SteadyCharged, LeaseCharged
<1>5. /\ LoadOn(h, r)' \in Nat
      /\ LoadOn(h, r) = IF g = h THEN LoadOn(h, r)' + need[r] ELSE LoadOn(h, r)'
  BY <1>2, DropLoad
<1>6. /\ LeasedOn(h)' \subseteq LeasedOn(h)
      /\ g = h => LeasedOn(h) # {}
  BY DEF LeasedOn, Leased, TypeOK
<1> HIDE DEF g, need
<1>7. CASE h = g
  <2>1. /\ Refund(hosts[h], need).used[r] =
             IF need[r] =< hosts[h].used[r] THEN hosts[h].used[r] - need[r] ELSE 0
        /\ Refund(hosts[h], need).cap = hosts[h].cap
        /\ Refund(hosts[h], need).base = hosts[h].base
    BY <1>3 DEF Refund, Host, Amounts, Charges
  <2>2. /\ hosts'[h].used[r] = IF need[r] =< hosts[h].used[r]
                                 THEN hosts[h].used[r] - need[r] ELSE 0
        /\ hosts'[h].cap[r] = hosts[h].cap[r] /\ hosts'[h].base[r] = hosts[h].base[r]
        /\ LoadOn(h, r) = LoadOn(h, r)' + need[r]
        /\ hosts[h].used[r] =< hosts[h].cap[r]
    BY <1>2, <1>4, <1>5, <1>6, <1>7, <2>1
  <2>3. hosts[h].base[r] + LoadOn(h, r)' =< hosts'[h].used[r]
    BY <1>3, <1>4, <1>5, <2>2
  <2>4. hosts'[h].used[r] =< hosts[h].cap[r]
    BY <1>3, <2>2
  <2> QED BY <2>2, <2>3, <2>4 DEF LeaseCharged
<1>8. CASE h # g
  <2>1. hosts'[h] = hosts[h] /\ LoadOn(h, r)' = LoadOn(h, r)
    BY <1>2, <1>5, <1>8
  <2> QED BY <1>4, <1>6, <2>1 DEF LeaseCharged
<1> QED BY <1>7, <1>8

\* Granting a lease on a steady host charges it: what the ranking saw is
\* still free, so Allocate does not refuse.
LEMMA GrantKeepsCharged ==
    ASSUME SchedulerInv, ExactInv, Commit
    PROVE  SteadyCharged'
<1> DEFINE need == queue[cursor].need
           lease == [host |-> best, need |-> need, expired |-> FALSE]
<1>1. /\ cursor \in RequestIds /\ best \in HostIds /\ need \in Positive
      /\ allocations[cursor] = NoAlloc
  <2>1. cursor \in Queued /\ best \in HostIds
    BY DEF SchedulerInv, Commit, CommitReady
  <2>2. queue[cursor] \in Item
    BY <2>1 DEF SchedulerInv, TypeOK, Queued, Queue
  <2>3. cursor \notin Leased
    BY <2>1 DEF SchedulerInv, LeasesMatchQueue, Queued
  <2> QED BY <2>1, <2>2, <2>3 DEF Leased, Queued, Queue, Item
<1>2. lease \in Alloc /\ lease.host = best /\ lease.need = need
  BY <1>1 DEF Alloc
<1>3. allocations' = [allocations EXCEPT ![cursor] = lease]
  BY DEF Commit
<1>4. need \in [Res -> Nat]
  BY <1>1 DEF Positive
<1> HIDE DEF lease
<1> SUFFICES ASSUME NEW h \in Registered' \cap Steady, NEW r \in Res
             PROVE  LeaseCharged(h, r)'
  BY DEF SteadyCharged
<1>5. /\ h \in HostIds /\ hosts[h] # NoHost /\ h \in Registered
      /\ hosts'[h] = IF h = best THEN Charge(hosts[h], need) ELSE hosts[h]
  BY <1>1 DEF Registered, Commit, Allocate, SchedulerInv, TypeOK, HostTypeOK
<1>6. /\ hosts[h] \in Host
      /\ hosts[h].cap \in [Res -> Nat] /\ hosts[h].used \in [Res -> Int]
      /\ hosts[h].base \in [Res -> Int]
  BY <1>5, KnownIsHost DEF SchedulerInv
<1>7. /\ hosts[h].base[r] + LoadOn(h, r) =< hosts[h].used[r]
      /\ LeasedOn(h) # {} => hosts[h].used[r] =< hosts[h].cap[r]
  BY <1>5 DEF ExactInv, SteadyCharged, LeaseCharged
<1>8. /\ LoadOn(h, r) \in Nat
      /\ LoadOn(h, r)' = IF best = h THEN LoadOn(h, r) + need[r] ELSE LoadOn(h, r)
  BY <1>1, <1>2, <1>3, <1>5, GrantLoad DEF SchedulerInv
<1>9. h = best => \A q \in Res : need[q] =< hosts[h].cap[q] - hosts[h].used[q]
  BY DEF ExactInv, CommitRoom, Commit
<1> HIDE DEF need
<1>10. CASE h = best
  <2>1. \A q \in Res : hosts[h].used[q] + need[q] =< hosts[h].cap[q]
    BY <1>4, <1>6, <1>9, <1>10
  <2>2. /\ Charge(hosts[h], need).used[r] = hosts[h].used[r] + need[r]
        /\ Charge(hosts[h], need).cap = hosts[h].cap
        /\ Charge(hosts[h], need).base = hosts[h].base
    BY <1>6, <2>1 DEF Charge, Host, Amounts, Charges
  <2>3. /\ hosts'[h].used[r] = hosts[h].used[r] + need[r]
        /\ hosts'[h].cap[r] = hosts[h].cap[r] /\ hosts'[h].base[r] = hosts[h].base[r]
        /\ LoadOn(h, r)' = LoadOn(h, r) + need[r]
    BY <1>5, <1>8, <1>10, <2>2
  <2>4. /\ hosts[h].used[r] \in Int /\ hosts[h].base[r] \in Int
        /\ hosts[h].cap[r] \in Nat /\ need[r] \in Nat
    BY <1>4, <1>6
  <2>5. hosts[h].base[r] + LoadOn(h, r)' =< hosts'[h].used[r]
    BY <1>7, <1>8, <2>3, <2>4
  <2>6. hosts'[h].used[r] =< hosts[h].cap[r]
    BY <2>1, <2>3
  <2> QED BY <2>3, <2>5, <2>6 DEF LeaseCharged
<1>11. CASE h # best
  <2>1. hosts'[h] = hosts[h] /\ LoadOn(h, r)' = LoadOn(h, r)
    BY <1>5, <1>8, <1>11
  <2>2. LeasedOn(h)' \subseteq LeasedOn(h)
    BY <1>2, <1>3, <1>11 DEF LeasedOn, Leased, SchedulerInv, TypeOK
  <2> QED BY <1>7, <2>1, <2>2 DEF LeaseCharged
<1> QED BY <1>10, <1>11

----------------------------------------------------------------------------
\* Steps that leave the leases alone leave the loads alone.
LEMMA SameLeasesSameLoad ==
    ASSUME UNCHANGED allocations
    PROVE  /\ \A h \in HostIds : LeasedOn(h)' = LeasedOn(h)
           /\ \A h \in HostIds, r \in Res : LoadOn(h, r)' = LoadOn(h, r)
<1>1. ASSUME NEW h \in HostIds PROVE LeasedOn(h)' = LeasedOn(h)
  BY DEF LeasedOn, Leased
<1>2. ASSUME NEW i, NEW r \in Res PROVE Tokens(i, r)' = Tokens(i, r)
  BY DEF Tokens
<1> QED BY <1>1, <1>2 DEF LoadOn

\* Steps that change neither the table, nor the leases, nor what a commit
\* relies on.
LEMMA QuietStep ==
    ASSUME TypeOK, ExactInv, UNCHANGED <<hosts, allocations, orphan>>,
           snap' \subseteq snap \cup Registered,
           pc' # "commit"
    PROVE  ExactInv'
<1>1. Registered' = Registered /\ Leased' = Leased
  BY DEF Registered, Leased
<1>2. SteadyCharged'
  BY <1>1, SameLeasesSameLoad, QuietKeepsCharged DEF ExactInv
<1>3. HostsKnown'
  BY <1>1 DEF ExactInv, HostsKnown
<1>4. SteadyInTable' /\ CommitRoom'
  BY DEF ExactInv, SteadyInTable, CommitRoom
<1> QED BY <1>2, <1>3, <1>4 DEF ExactInv

\* A lease dropped while no commit is under way.
LEMMA DropStep ==
    ASSUME TypeOK, ExactInv, NEW i \in RequestIds, allocations[i] # NoAlloc,
           Release(allocations[i].host, allocations[i].need),
           allocations' = [allocations EXCEPT ![i] = NoAlloc],
           UNCHANGED cycleVars, pc # "commit"
    PROVE  ExactInv'
<1>1. SteadyCharged'
  BY DropKeepsCharged DEF ExactInv
<1>2. allocations[i].host \in HostIds /\ allocations[i].need \in Positive
  BY DEF TypeOK, Alloc
<1>3. Registered' = Registered
  <2>1. ASSUME NEW h \in HostIds PROVE hosts'[h] = NoHost <=> hosts[h] = NoHost
    <3>1. hosts[h] # NoHost => Refund(hosts[h], allocations[i].need) \in Host
      BY <1>2, ChargeType DEF TypeOK, HostTypeOK
    <3> QED BY <3>1, <1>2, Sentinels DEF Release, TypeOK, HostTypeOK
  <2> QED BY <2>1 DEF Registered
<1>4. /\ Leased' \subseteq Leased
      /\ \A j \in Leased' : allocations'[j] = allocations[j]
  BY DEF Leased, TypeOK
<1>5. HostsKnown'
  BY <1>3, <1>4 DEF ExactInv, HostsKnown, cycleVars
<1>6. SteadyInTable' /\ CommitRoom'
  BY DEF ExactInv, SteadyInTable, CommitRoom, cycleVars
<1> QED BY <1>1, <1>5, <1>6 DEF ExactInv

\* The commit itself.
LEMMA CommitStep ==
    ASSUME SchedulerInv, ExactInv, Commit
    PROVE  ExactInv'
<1>1. SteadyCharged'
  BY GrantKeepsCharged
<1>2. /\ cursor \in RequestIds /\ best \in Registered
      /\ queue[cursor].need \in Positive
  BY DEF SchedulerInv, ExactInv, HostsKnown, CommitReady, Commit, TypeOK,
         Queued, Queue, Item
<1>3. Registered' = Registered
  <2>1. ASSUME NEW h \in HostIds PROVE hosts'[h] = NoHost <=> hosts[h] = NoHost
    <3>1. hosts[h] # NoHost => Charge(hosts[h], queue[cursor].need) \in Host
      BY <1>2, ChargeType DEF SchedulerInv, TypeOK, HostTypeOK
    <3> QED BY <3>1, <1>2, Sentinels
            DEF Commit, Allocate, SchedulerInv, TypeOK, HostTypeOK
  <2> QED BY <2>1 DEF Registered
<1>4. ASSUME NEW i \in Leased' PROVE allocations'[i].host \in Registered
  <2>1. CASE i = cursor
    BY <1>2, <2>1 DEF Commit, SchedulerInv, TypeOK
  <2>2. CASE i # cursor
    <3>1. allocations'[i] = allocations[i] /\ i \in Leased
      BY <1>4, <2>2 DEF Commit, Leased, SchedulerInv, TypeOK
    <3> QED BY <3>1 DEF ExactInv, HostsKnown
  <2> QED BY <2>1, <2>2
<1>5. HostsKnown'
  BY <1>3, <1>4 DEF HostsKnown, ExactInv, Commit
<1>6. SteadyInTable' /\ CommitRoom'
  BY DEF ExactInv, SteadyInTable, CommitRoom, Commit
<1> QED BY <1>1, <1>5, <1>6 DEF ExactInv

\* The ranking finds room on the host it chooses.
LEMMA RankStep ==
    ASSUME TypeOK, ExactInv, NEW i \in RequestIds, RankFound(i)
    PROVE  ExactInv'
<1>1. Registered' = Registered /\ Leased' = Leased
  BY DEF RankFound, Registered, Leased
<1>2. best' \in snap /\ Fits(queue[i], View(best'))
  BY DEF RankFound, Ranked
<1>3. SteadyCharged'
  BY <1>1, SameLeasesSameLoad, QuietKeepsCharged DEF ExactInv, RankFound
<1>4. HostsKnown'
  BY <1>1, <1>2 DEF ExactInv, HostsKnown, RankFound
<1>5. SteadyInTable'
  BY DEF ExactInv, SteadyInTable, RankFound
<1>6. CommitRoom'
  <2>1. best' \in Steady => View(best') = hosts[best']
    BY DEF View, ExactInv, SteadyInTable
  <2> QED BY <1>2, <2>1 DEF CommitRoom, Fits, RankFound
<1> QED BY <1>3, <1>4, <1>5, <1>6 DEF ExactInv

\* A registration: a steady host enters the table once, before anything
\* refers to it.
LEMMA RegisterStep ==
    ASSUME TypeOK, HostTypeOK', ExactInv, NEW g \in HostIds, NEW offer \in Offers,
           Register(g, offer)
    PROVE  ExactInv'
<1>1. /\ hosts' = [hosts EXCEPT ![g] = NewHost(offer)]
      /\ g \in Steady => hosts[g] = NoHost
      /\ UNCHANGED <<allocations, queue, pc, cursor, best, snap>>
  BY DEF Register, RegisterHost
<1>2. Registered' = Registered \cup {g}
  <2>1. hosts'[g] = NewHost(offer)
    BY <1>1 DEF TypeOK, HostTypeOK
  <2>2. NewHost(offer) # NoHost
    BY DEF NewHost, NoHost
  <2> QED BY <1>1, <2>1, <2>2 DEF Registered, TypeOK, HostTypeOK
<1>3. Leased' = Leased /\ \A i \in Leased : allocations'[i] = allocations[i]
  BY <1>1 DEF Leased
<1>4. HostsKnown'
  BY <1>1, <1>2, <1>3 DEF ExactInv, HostsKnown
<1>5. SteadyInTable'
  <2>1. g \in Steady => g \notin snap
    BY <1>1 DEF ExactInv, HostsKnown, Registered
  <2>2. ASSUME NEW h \in Steady PROVE orphan'[h] = orphan[h]
    <3>1. CASE h = g
      BY <2>1, <3>1 DEF Register
    <3>2. CASE h # g
      BY <3>2 DEF Register, TypeOK
    <3> QED BY <3>1, <3>2
  <2> QED BY <2>2 DEF ExactInv, SteadyInTable
<1>6. CommitRoom'
  <2>1. ASSUME pc = "commit", best \in Steady PROVE hosts'[best] = hosts[best]
    <3>1. best # g
      BY <1>1, <2>1 DEF ExactInv, HostsKnown, Registered
    <3> QED BY <1>1, <2>1, <3>1 DEF TypeOK, HostTypeOK
  <2> QED BY <1>1, <2>1 DEF ExactInv, CommitRoom
<1>7. SteadyCharged'
  <2>1. ASSUME NEW h \in Steady \cap Registered'
        PROVE  \/ /\ h \in Registered
                  /\ hosts'[h].used = hosts[h].used
                  /\ hosts'[h].base = hosts[h].base
                  /\ hosts'[h].cap = hosts[h].cap
               \/ /\ hosts'[h].used \in [Res -> Int]
                  /\ hosts'[h].base = hosts'[h].used
                  /\ LeasedOn(h) = {}
                  /\ \A r \in Res : LoadOn(h, r) = 0
    <3>1. CASE h = g
      <4>1. hosts'[h].used = offer.used /\ hosts'[h].base = offer.used
        BY <1>1, <3>1 DEF NewHost, TypeOK, HostTypeOK
      <4>2. offer.used \in [Res -> Int]
        BY HostAssumption DEF Registrations, Charges
      <4>3. \A i \in Leased : allocations[i].host # h
        BY <1>1, <3>1 DEF ExactInv, HostsKnown, Registered
      <4>4. LeasedOn(h) = {} /\ \A r \in Res : LoadOn(h, r) = 0
        BY <4>3, NoLeaseNoLoad DEF LeasedOn
      <4> QED BY <4>1, <4>2, <4>4
    <3>2. CASE h # g
      BY <1>1, <1>2, <3>2 DEF TypeOK, HostTypeOK, Registered
    <3> QED BY <3>1, <3>2
  <2> HIDE DEF Registered
  <2> QED BY <1>1, <2>1, SameLeasesSameLoad, QuietKeepsCharged DEF ExactInv
<1> QED BY <1>4, <1>5, <1>6, <1>7 DEF ExactInv

\* A lease runs out: it still holds what it held.
LEMMA ExpireStep ==
    ASSUME TypeOK, ExactInv, NEW i \in RequestIds, Expire(i)
    PROVE  ExactInv'
<1>1. allocations[i] \in Alloc
  BY DEF Expire, Leased, TypeOK
<1>2. [allocations[i] EXCEPT !.expired = TRUE] \in Alloc
  BY <1>1 DEF Alloc
<1>3. \A j \in RequestIds :
          /\ allocations'[j] # NoAlloc <=> allocations[j] # NoAlloc
          /\ allocations[j] # NoAlloc =>
                /\ allocations'[j].host = allocations[j].host
                /\ allocations'[j].need = allocations[j].need
  BY <1>1, <1>2, Sentinels DEF Expire, Leased, TypeOK, Alloc
<1>4. Leased' = Leased /\ \A h \in HostIds : LeasedOn(h)' = LeasedOn(h)
  BY <1>3 DEF LeasedOn, Leased
<1>5. \A h \in HostIds, r \in Res : LoadOn(h, r)' = LoadOn(h, r)
  <2>1. ASSUME NEW h \in HostIds, NEW r \in Res, NEW j \in LeasedOn(h)
        PROVE  Tokens(j, r)' = Tokens(j, r)
    BY <1>3, <2>1 DEF LeasedOn, Leased, Tokens
  <2> QED BY <1>4, <2>1 DEF LoadOn
<1>6. Registered' = Registered
  BY DEF Expire, Registered
<1>7. SteadyCharged'
  BY <1>4, <1>5, <1>6, QuietKeepsCharged DEF ExactInv, Expire
<1>8. HostsKnown'
  BY <1>3, <1>4, <1>6 DEF ExactInv, HostsKnown, Expire, cycleVars, Leased
<1>9. SteadyInTable' /\ CommitRoom'
  BY DEF ExactInv, SteadyInTable, CommitRoom, Expire, cycleVars
<1> QED BY <1>7, <1>8, <1>9 DEF ExactInv

\* A heartbeat or a silence: a steady host keeps its capacity and its charge.
LEMMA HostStepExact ==
    ASSUME TypeOK, HostTypeOK', ExactInv, NEW g \in HostIds, HostStep(g)
    PROVE  ExactInv'
<1>1. UNCHANGED <<queue, allocations, nextID, cycleVars>>
  BY DEF HostStep
<1>2. hosts[g] \in Host
  BY DEF HostStep, Heartbeat, FallSilent, TypeOK, HostTypeOK
<1>3. /\ hosts'[g] \in Host
      /\ hosts'[g].used = hosts[g].used /\ hosts'[g].base = hosts[g].base
      /\ g \in Steady => hosts'[g].cap = hosts[g].cap
      /\ \A h \in HostIds \ {g} : hosts'[h] = hosts[h]
  <2>1. ASSUME NEW m \in Reports, Heartbeat(g, m)
        PROVE  /\ hosts'[g] # NoHost
               /\ hosts'[g].used = hosts[g].used /\ hosts'[g].base = hosts[g].base
               /\ g \in Steady => hosts'[g].cap = hosts[g].cap
               /\ \A h \in HostIds \ {g} : hosts'[h] = hosts[h]
    BY <1>2, <2>1 DEF Heartbeat, TypeOK, HostTypeOK, Host, NoHost
  <2>2. ASSUME FallSilent(g)
        PROVE  /\ hosts'[g] # NoHost
               /\ hosts'[g].used = hosts[g].used /\ hosts'[g].base = hosts[g].base
               /\ hosts'[g].cap = hosts[g].cap
               /\ \A h \in HostIds \ {g} : hosts'[h] = hosts[h]
    BY <1>2, <2>2 DEF FallSilent, TypeOK, HostTypeOK, Host, NoHost
  <2> QED BY <2>1, <2>2 DEF HostStep, HostTypeOK
<1>4. Registered' = Registered
  BY <1>2, <1>3, Sentinels DEF Registered
<1>5. \A h \in Steady \cap HostIds :
          /\ hosts'[h].used = hosts[h].used /\ hosts'[h].base = hosts[h].base
          /\ hosts'[h].cap = hosts[h].cap
  BY <1>3
<1>6. SteadyCharged'
  <2>1. /\ \A h \in HostIds : LeasedOn(h)' = LeasedOn(h)
        /\ \A h \in HostIds, r \in Res : LoadOn(h, r)' = LoadOn(h, r)
    BY <1>1, SameLeasesSameLoad
  <2>2. \A h \in Steady \cap Registered' :
            /\ h \in Registered
            /\ hosts'[h].used = hosts[h].used /\ hosts'[h].base = hosts[h].base
            /\ hosts'[h].cap = hosts[h].cap
    BY <1>4, <1>5 DEF Registered
  <2> QED BY <2>1, <2>2, QuietKeepsCharged DEF ExactInv
<1>7. HostsKnown'
  BY <1>1, <1>4 DEF ExactInv, HostsKnown, Leased, cycleVars
<1>8. SteadyInTable'
  BY <1>1 DEF ExactInv, SteadyInTable, cycleVars
<1>9. CommitRoom'
  BY <1>1, <1>5 DEF ExactInv, CommitRoom, HostsKnown, Registered, cycleVars
<1> QED BY <1>6, <1>7, <1>8, <1>9 DEF ExactInv

----------------------------------------------------------------------------
\* Every step keeps the invariant ...
LEMMA ExactStep ==
    SchedulerInv /\ SchedulerInv' /\ ExactInv /\ [Next]_vars => ExactInv'
<1> SUFFICES ASSUME SchedulerInv, SchedulerInv', ExactInv, [Next]_vars
             PROVE  ExactInv'
  OBVIOUS
<1>0. TypeOK /\ HostTypeOK'
  BY DEF SchedulerInv, TypeOK
<1>1. ASSUME NEW req \in Requests, Enqueue(req) PROVE ExactInv'
  BY <1>0, <1>1, QuietStep DEF Enqueue, cycleVars
<1>2. ASSUME NEW i \in RequestIds, Dequeue(i) PROVE ExactInv'
  <2>1. CASE allocations[i] = NoAlloc
    <3>1. UNCHANGED <<hosts, allocations, cycleVars>>
      BY <1>0, <1>2, <2>1 DEF Dequeue, TypeOK
    <3> QED BY <1>0, <1>2, <3>1, QuietStep DEF Dequeue, cycleVars
  <2>2. CASE allocations[i] # NoAlloc
    BY <1>0, <1>2, <2>2, DropStep DEF Dequeue
  <2> QED BY <2>1, <2>2
<1>3. ASSUME NEW i \in RequestIds, Expire(i) PROVE ExactInv'
  BY <1>0, <1>3, ExpireStep
<1>4. ASSUME NEW i \in RequestIds, CleanupExpired(i) PROVE ExactInv'
  BY <1>0, <1>4, DropStep DEF CleanupExpired, Overdue, Leased
<1>5. ASSUME Commit PROVE ExactInv'
  BY <1>5, CommitStep
<1>6. ASSUME NEW i \in RequestIds, RankFound(i) PROVE ExactInv'
  BY <1>0, <1>6, RankStep
<1>7. ASSUME NEW i \in RequestIds, RankNone(i) PROVE ExactInv'
  BY <1>0, <1>7, QuietStep DEF RankNone
<1>8. ASSUME RankDone PROVE ExactInv'
  BY <1>0, <1>8, QuietStep DEF RankDone
<1>9. ASSUME CycleStart PROVE ExactInv'
  <2>1. Available \subseteq Registered
    BY DEF Available
  <2> QED BY <1>0, <1>9, <2>1, QuietStep DEF CycleStart
<1>10. ASSUME CycleEnd PROVE ExactInv'
  <2>1. Registered' = Registered /\ Leased' = Leased
    BY <1>10 DEF CycleEnd, Registered, Leased
  <2>2. SteadyCharged'
    BY <1>0, <1>10, <2>1, SameLeasesSameLoad, QuietKeepsCharged
       DEF ExactInv, CycleEnd
  <2>3. HostsKnown' /\ SteadyInTable' /\ CommitRoom'
    BY <1>10, <2>1, HostAssumption
       DEF ExactInv, HostsKnown, SteadyInTable, CommitRoom, CycleEnd
  <2> QED BY <2>2, <2>3 DEF ExactInv
<1>11. ASSUME NEW g \in HostIds, HostStep(g) PROVE ExactInv'
  BY <1>0, <1>11, HostStepExact
<1>12. ASSUME NEW g \in HostIds, NEW offer \in Offers, Register(g, offer)
       PROVE  ExactInv'
  BY <1>0, <1>12, RegisterStep
<1>13. CASE UNCHANGED vars
  <2>1. Registered' = Registered /\ Leased' = Leased
    BY <1>13 DEF vars, Registered, Leased
  <2>2. SteadyCharged'
    BY <1>0, <1>13, <2>1, SameLeasesSameLoad, QuietKeepsCharged
       DEF ExactInv, vars
  <2>3. HostsKnown' /\ SteadyInTable' /\ CommitRoom'
    BY <1>13, <2>1
       DEF ExactInv, HostsKnown, SteadyInTable, CommitRoom, vars, cycleVars
  <2> QED BY <2>2, <2>3 DEF ExactInv
<1> QED BY <1>1, <1>2, <1>3, <1>4, <1>5, <1>6, <1>7, <1>8, <1>9, <1>10,
           <1>11, <1>12, <1>13 DEF Next, Cycle

LEMMA ExactInvHolds == Spec => []ExactInv
<1>1. Init => ExactInv
  <2>1. Init => Registered = {} /\ Leased = {}
    BY DEF Init, HostInit, Registered, Leased
  <2> QED BY <2>1, HostAssumption
          DEF Init, ExactInv, HostsKnown, SteadyInTable, CommitRoom, SteadyCharged
<1> QED BY <1>1, ExactStep, SchedulerInvariant, PTL DEF Spec

\* A steady host is charged for every lease on top of what it announced,
\* exactly so unless it announced less than nothing, and not beyond its
\* capacity, for all hosts, announced charges, requests and amounts: dropping
\* the answer of Allocate (scheduler.go:142) loses nothing as long as a host
\* keeps what it offered.
THEOREM ExactAccountingCorrect == Spec => []ExactAccounting
<1>1. TypeOK /\ ExactInv /\ ChargeInv => ExactAccounting
  <2> SUFFICES ASSUME TypeOK, ExactInv, ChargeInv,
                      NEW h \in Registered \cap Steady, NEW r \in Res
               PROVE  /\ hosts[h].base[r] + LoadOn(h, r) =< hosts[h].used[r]
                      /\ hosts[h].base[r] >= 0 =>
                            hosts[h].used[r] = hosts[h].base[r] + LoadOn(h, r)
                      /\ LeasedOn(h) # {} => hosts[h].used[r] =< hosts[h].cap[r]
    BY DEF ExactAccounting
  <2>1. /\ hosts[h].base[r] + LoadOn(h, r) =< hosts[h].used[r]
        /\ LeasedOn(h) # {} => hosts[h].used[r] =< hosts[h].cap[r]
    BY DEF ExactInv, SteadyCharged, LeaseCharged
  <2>2. hosts[h].used[r] =< Announced(h, r) + LoadOn(h, r)
    BY DEF ChargeInv, NoPhantomLoad
  <2>3. hosts[h].base[r] \in Int /\ hosts[h].used[r] \in Int
    BY KnownIsHost
  <2>4. LoadOn(h, r) \in Nat
    BY HeldFinite, LoadIsHeld DEF TypeOK
  <2>5. hosts[h].base[r] >= 0 => Announced(h, r) = hosts[h].base[r]
    BY <2>3 DEF Announced
  <2> QED BY <2>1, <2>2, <2>3, <2>4, <2>5
<1> QED BY <1>1, ExactInvHolds, ChargeInvHolds, TypeCorrect, PTL

\* Leases have their items, no host is charged beyond what it announced and
\* its leases hold nor owed anything, and a steady one is charged for all of
\* them (scheduler.go:96-170, host/manager.go:109-172).
THEOREM LeasesAccountedCorrect == Spec => []LeasesAccounted
<1>1. LeasesMatchQueue /\ NoPhantomLoad /\ NoCredit /\ ExactAccounting => LeasesAccounted
  BY DEF LeasesAccounted
<1> QED BY <1>1, LeasesCorrect, NoPhantomLoadCorrect, NoCreditCorrect,
           ExactAccountingCorrect, PTL


============================================================================
