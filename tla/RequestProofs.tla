---------------------------- MODULE RequestProofs ----------------------------
(***************************************************************************)
(* Proofs about what becomes of requests: none is granted past an older    *)
(* one that asks for no more, and each follows RequestLifecycle.           *)
(***************************************************************************)
EXTENDS SchedulerProofs

\* What the cycle has examined and left waiting fits on none of its hosts ...
PassedOver ==
    pc \in {"rank", "commit"} =>
        \A i \in Queued, h \in snap :
            i < cursor => queue[i].lat \/ ~Fits(queue[i], View(h))

\* ... so the item about to be granted asks for more than each of them, or
\* did when it was ranked.
CommitInOrder ==
    pc = "commit" =>
        \A i \in Queued : i < cursor => queue[i].lat \/ ~NoLarger(i, cursor)

\* The cycle's hosts are in the table.
SnapKnown == snap \subseteq Registered

\* The inductive invariant, around SchedulerInv.
OrderInv == PassedOver /\ CommitInOrder /\ SnapKnown

----------------------------------------------------------------------------
\* An item and a host record have numbers for demands and capacities.
LEMMA Numbers ==
    ASSUME TypeOK
    PROVE  /\ \A i \in Queue : /\ queue[i] \in Item /\ i \in RequestIds
                               /\ queue[i].need \in [Res -> Nat] /\ queue[i].gpu \in Nat
           /\ \A h \in Registered :
                 /\ h \in HostIds
                 /\ View(h) \in Host
                 /\ View(h).cap \in [Res -> Nat] /\ View(h).used \in [Res -> Int]
                 /\ View(h).gpu \in Nat
<1>1. ASSUME NEW i \in Queue
      PROVE  /\ queue[i] \in Item /\ i \in RequestIds
             /\ queue[i].need \in [Res -> Nat] /\ queue[i].gpu \in Nat
  <2>1. queue[i] \in Item /\ i \in RequestIds
    BY DEF Queue, TypeOK
  <2> QED BY <2>1 DEF Item, Positive
<1>2. ASSUME NEW h \in Registered
      PROVE  /\ h \in HostIds /\ View(h) \in Host
             /\ View(h).cap \in [Res -> Nat] /\ View(h).used \in [Res -> Int]
             /\ View(h).gpu \in Nat
  <2>1. h \in HostIds /\ View(h) \in Host
    BY DEF Registered, View, TypeOK, HostTypeOK
  <2> QED BY <2>1 DEF Host, Amounts, Charges
<1> QED BY <1>1, <1>2

\* An item that asks for no more fits wherever the other one fits.
LEMMA FitsSmaller ==
    ASSUME TypeOK, NEW i \in Queue, NEW j \in Queue, NEW h \in Registered,
           NoLarger(i, j), Fits(queue[j], View(h))
    PROVE  Fits(queue[i], View(h))
<1>1. /\ queue[i].need \in [Res -> Nat] /\ queue[i].gpu \in Nat
      /\ queue[j].need \in [Res -> Nat] /\ queue[j].gpu \in Nat
      /\ View(h).cap \in [Res -> Nat] /\ View(h).used \in [Res -> Int]
      /\ View(h).gpu \in Nat
  BY Numbers
<1>2. ASSUME NEW r \in Res
      PROVE  queue[i].need[r] =< View(h).cap[r] - View(h).used[r]
  <2>1. /\ queue[i].need[r] \in Nat /\ queue[j].need[r] \in Nat
        /\ View(h).cap[r] \in Nat /\ View(h).used[r] \in Int
    BY <1>1
  <2>2. /\ queue[i].need[r] =< queue[j].need[r]
        /\ queue[j].need[r] =< View(h).cap[r] - View(h).used[r]
    BY DEF NoLarger, Fits
  <2> QED BY <2>1, <2>2
<1>3. queue[i].gpu =< View(h).gpu
  BY <1>1 DEF NoLarger, Fits
<1> QED BY <1>2, <1>3 DEF Fits

\* A record that lost capacity or took a charge takes nothing it did not take.
LEMMA FitsShrunk ==
    ASSUME NEW item \in Item, NEW old \in Host, NEW new \in Host,
           \A r \in Res : new.cap[r] =< old.cap[r] /\ old.used[r] =< new.used[r],
           new.gpu =< old.gpu, Fits(item, new)
    PROVE  Fits(item, old)
<1>1. /\ item.need \in [Res -> Nat] /\ item.gpu \in Nat
      /\ old.cap \in [Res -> Nat] /\ old.used \in [Res -> Int] /\ old.gpu \in Nat
      /\ new.cap \in [Res -> Nat] /\ new.used \in [Res -> Int] /\ new.gpu \in Nat
  BY DEF Item, Positive, Host, Amounts, Charges
<1>2. ASSUME NEW r \in Res PROVE item.need[r] =< old.cap[r] - old.used[r]
  <2>1. /\ item.need[r] \in Nat
        /\ old.cap[r] \in Nat /\ old.used[r] \in Int
        /\ new.cap[r] \in Nat /\ new.used[r] \in Int
    BY <1>1
  <2>2. item.need[r] =< new.cap[r] - new.used[r]
    BY DEF Fits
  <2> QED BY <2>1, <2>2
<1>3. item.gpu =< old.gpu
  BY <1>1 DEF Fits
<1> QED BY <1>2, <1>3 DEF Fits

\* Steps that leave the queue and the cursor alone, and only shrink what the
\* cycle sees, keep what has been passed over.
LEMMA ShrinkKeepsOrder ==
    ASSUME TypeOK, TypeOK', OrderInv,
           UNCHANGED <<queue, pc, cursor, snap>>,
           Registered \subseteq Registered',
           \A h \in snap :
               /\ \A r \in Res : /\ View(h)'.cap[r] =< View(h).cap[r]
                                 /\ View(h).used[r] =< View(h)'.used[r]
               /\ View(h)'.gpu =< View(h).gpu
    PROVE  OrderInv'
<1>1. SnapKnown'
  BY DEF OrderInv, SnapKnown
<1>2. Queued' = Queued /\ Queue' = Queue
  BY DEF Queued, Queue
<1>3. ASSUME NEW i \in Queued, NEW h \in snap, pc \in {"rank", "commit"},
             i < cursor, Fits(queue[i], View(h)')
      PROVE  queue[i].lat
  <2>1. queue[i] \in Item
    BY Numbers DEF Queued
  <2>2. h \in Registered /\ h \in Registered'
    BY DEF OrderInv, SnapKnown
  <2>3. View(h) \in Host
    BY <2>2, Numbers
  <2>4. View(h)' \in Host
    BY <2>2 DEF View, Registered, TypeOK, HostTypeOK
  <2>5. Fits(queue[i], View(h))
    BY <1>3, <2>1, <2>3, <2>4, FitsShrunk
  <2> QED BY <1>3, <2>5 DEF OrderInv, PassedOver
<1>4. PassedOver'
  BY <1>2, <1>3 DEF PassedOver, Fits
<1>5. CommitInOrder'
  BY <1>2 DEF OrderInv, CommitInOrder, NoLarger
<1> QED BY <1>1, <1>4, <1>5 DEF OrderInv

\* Outside the ranking there is nothing to keep but the table.
LEMMA OutsideRanking ==
    ASSUME pc' \notin {"rank", "commit"}, snap' \subseteq Registered'
    PROVE  OrderInv'
BY DEF OrderInv, PassedOver, CommitInOrder, SnapKnown

\* Release and Charge leave every host in the table.
LEMMA TableStays ==
    ASSUME TypeOK, HostTypeOK', NEW h \in HostIds, NEW need \in Positive,
           Allocate(h, need) \/ Release(h, need)
    PROVE  Registered \subseteq Registered'
<1> SUFFICES ASSUME NEW g \in Registered PROVE hosts'[g] # NoHost
  BY DEF Registered
<1>1. g \in HostIds /\ hosts[g] \in Host
  BY DEF Registered, TypeOK, HostTypeOK
<1>2. Charge(hosts[g], need) \in Host /\ Refund(hosts[g], need) \in Host
  BY <1>1, ChargeType
<1> QED BY <1>1, <1>2, Sentinels DEF Allocate, Release, TypeOK, HostTypeOK

\* The ranking chooses a host: everything before the item was passed over.
LEMMA FoundKeepsOrder ==
    ASSUME TypeOK, OrderInv, NEW i \in RequestIds, RankFound(i)
    PROVE  OrderInv'
<1>1. /\ pc = "rank" /\ IsNext(i) /\ cursor' = i
      /\ best' \in snap /\ Fits(queue[i], View(best'))
      /\ UNCHANGED <<hosts, queue, snap, orphan>>
  BY DEF RankFound, Ranked
<1>2. /\ Queued' = Queued /\ Queue' = Queue /\ Registered' = Registered
      /\ \A h \in snap : View(h)' = View(h)
  BY <1>1 DEF Queued, Queue, Registered, View
<1>3. ASSUME NEW j \in Queued, j < i PROVE j < cursor
  BY <1>1, <1>3 DEF IsNext, Unexamined, TypeOK, RequestIds, Queued, Queue
<1>4. PassedOver'
  BY <1>1, <1>2, <1>3 DEF OrderInv, PassedOver, Fits
<1>5. ASSUME NEW j \in Queued, j < i, ~queue[j].lat PROVE ~NoLarger(j, i)
  <2>1. ~Fits(queue[j], View(best'))
    BY <1>1, <1>3, <1>5 DEF OrderInv, PassedOver
  <2>2. j \in Queue /\ i \in Queue /\ best' \in Registered
    BY <1>1 DEF Queued, IsNext, Unexamined, OrderInv, SnapKnown
  <2> QED BY <1>1, <2>1, <2>2, FitsSmaller
<1>6. CommitInOrder'
  BY <1>1, <1>2, <1>5 DEF CommitInOrder, NoLarger
<1>7. SnapKnown'
  BY <1>1, <1>2 DEF OrderInv, SnapKnown
<1> QED BY <1>4, <1>6, <1>7 DEF OrderInv

\* The ranking finds none, or drops an item with a latency budget.
LEMMA NoneKeepsOrder ==
    ASSUME TypeOK, OrderInv, NEW i \in RequestIds, RankNone(i)
    PROVE  OrderInv'
<1>1. /\ pc = "rank" /\ IsNext(i) /\ cursor' = i + 1 /\ pc' = "rank"
      /\ (\A h \in snap : ~Fits(queue[i], View(h))) \/ queue[i].lat
      /\ UNCHANGED <<hosts, queue, snap, orphan>>
  BY DEF RankNone, Ranked
<1>2. /\ Queued' = Queued /\ Registered' = Registered
      /\ \A h \in snap : View(h)' = View(h)
  BY <1>1 DEF Queued, Queue, Registered, View
<1>3. ASSUME NEW j \in Queued, j < i + 1 PROVE j < cursor \/ j = i
  BY <1>1, <1>3 DEF IsNext, Unexamined, TypeOK, RequestIds, Queued, Queue
<1>4. PassedOver'
  BY <1>1, <1>2, <1>3 DEF OrderInv, PassedOver, Fits
<1> QED BY <1>1, <1>2, <1>4 DEF OrderInv, CommitInOrder, SnapKnown

\* The commit takes the item out of those that wait, and room off one host.
LEMMA CommitKeepsOrder ==
    ASSUME SchedulerInv, SchedulerInv', OrderInv, Commit
    PROVE  OrderInv'
<1>0. TypeOK /\ TypeOK' /\ HostTypeOK'
  BY DEF SchedulerInv, TypeOK
<1>1. /\ cursor \in Queued /\ cursor \in RequestIds /\ best \in HostIds
      /\ queue[cursor].need \in Positive
      /\ pc = "commit" /\ cursor' = cursor + 1 /\ pc' = "rank"
      /\ Allocate(best, queue[cursor].need)
      /\ UNCHANGED <<snap, orphan>>
  BY DEF SchedulerInv, CommitReady, Commit, TypeOK, Queued, Queue, Item
<1>2. Registered \subseteq Registered'
  BY <1>0, <1>1, TableStays
<1>3. /\ \A i \in Queued' : i \in Queued /\ i # cursor /\ queue'[i] = queue[i]
      /\ \A i \in Queued' : i \in RequestIds
  BY <1>0, <1>1 DEF Commit, Queued, Queue, TypeOK
<1>4. ASSUME NEW h \in snap
      PROVE  /\ View(h) \in Host /\ View(h)' \in Host
             /\ \A r \in Res : /\ View(h)'.cap[r] =< View(h).cap[r]
                               /\ View(h).used[r] =< View(h)'.used[r]
             /\ View(h)'.gpu =< View(h).gpu
  <2>1. h \in Registered /\ h \in Registered' /\ h \in HostIds
    BY <1>2 DEF OrderInv, SnapKnown, Registered
  <2>2. View(h) \in Host /\ View(h)' \in Host /\ hosts[h] \in Host
    BY <1>0, <2>1 DEF View, Registered, TypeOK, HostTypeOK
  <2>3. View(h)' \in {View(h), Charge(View(h), queue[cursor].need)}
    BY <1>0, <1>1, <2>1 DEF View, Allocate, Registered, TypeOK, HostTypeOK
  <2>4. /\ View(h).cap \in [Res -> Nat] /\ View(h).used \in [Res -> Int]
        /\ View(h).gpu \in Nat /\ queue[cursor].need \in [Res -> Nat]
    BY <1>1, <2>2 DEF Host, Amounts, Charges, Positive
  <2>5. CASE View(h)' = View(h)
    BY <2>2, <2>4, <2>5
  <2>6. CASE View(h)' = Charge(View(h), queue[cursor].need)
    <3> DEFINE old == View(h)
               need == queue[cursor].need
    <3>1. /\ Charge(old, need).cap = old.cap /\ Charge(old, need).gpu = old.gpu
          /\ \A r \in Res : Charge(old, need).used[r] \in {old.used[r], old.used[r] + need[r]}
      BY <2>2, <2>4 DEF Charge, Host, Amounts, Charges
    <3> HIDE DEF old, need
    <3>2. ASSUME NEW r \in Res
          PROVE  old.cap[r] =< old.cap[r] /\ old.used[r] =< Charge(old, need).used[r]
      <4>1. old.used[r] \in Int /\ need[r] \in Nat /\ old.cap[r] \in Nat
        BY <2>4 DEF old, need
      <4> QED BY <3>1, <4>1
    <3>3. old.gpu =< old.gpu
      BY <2>4 DEF old
    <3> QED BY <2>2, <2>6, <3>1, <3>2, <3>3 DEF old, need
  <2> QED BY <2>3, <2>5, <2>6
<1>5. ASSUME NEW i \in Queued', NEW h \in snap, i < cursor + 1,
             Fits(queue[i], View(h)')
      PROVE  queue[i].lat
  <2>1. i < cursor
    BY <1>1, <1>3, <1>5 DEF RequestIds
  <2>2. queue[i] \in Item
    BY <1>0, <1>3, Numbers DEF Queued
  <2>3. Fits(queue[i], View(h))
    BY <1>4, <1>5, <2>2, FitsShrunk
  <2> QED BY <1>1, <1>3, <2>1, <2>3 DEF OrderInv, PassedOver
<1>6. PassedOver'
  BY <1>1, <1>3, <1>5 DEF PassedOver, Fits
<1> QED BY <1>1, <1>2, <1>6 DEF OrderInv, CommitInOrder, SnapKnown

\* A heartbeat only lowers what a record offers.
LEMMA HostStepShrinks ==
    ASSUME TypeOK, HostTypeOK', NEW g \in HostIds, HostStep(g), NEW h \in HostIds,
           hosts[h] # NoHost
    PROVE  /\ hosts'[h] # NoHost
           /\ \A r \in Res : /\ hosts'[h].cap[r] =< hosts[h].cap[r]
                             /\ hosts[h].used[r] =< hosts'[h].used[r]
           /\ hosts'[h].gpu =< hosts[h].gpu
<1>1. /\ hosts[h] \in Host
      /\ hosts[h].cap \in [Res -> Nat] /\ hosts[h].used \in [Res -> Int]
      /\ hosts[h].gpu \in Nat
  <2>1. hosts[h] \in Host
    BY DEF TypeOK, HostTypeOK
  <2> QED BY <2>1 DEF Host, Amounts, Charges
<1>2. /\ \A r \in Res : /\ hosts[h].cap[r] =< hosts[h].cap[r]
                        /\ hosts[h].used[r] =< hosts[h].used[r]
      /\ hosts[h].gpu =< hosts[h].gpu
  BY <1>1
<1>3. CASE h # g
  BY <1>2, <1>3 DEF HostStep, Heartbeat, FallSilent, TypeOK, HostTypeOK
<1>4. CASE h = g
  <2>1. ASSUME FallSilent(g)
        PROVE  /\ hosts'[h].cap = hosts[h].cap /\ hosts'[h].used = hosts[h].used
               /\ hosts'[h].gpu = hosts[h].gpu /\ hosts'[h] # NoHost
    BY <1>1, <1>4, <2>1 DEF FallSilent, TypeOK, HostTypeOK, Host, NoHost
  <2>2. ASSUME NEW m \in Reports, Heartbeat(g, m)
        PROVE  /\ hosts'[h].cap = LoweredCap(hosts[h], m)
               /\ hosts'[h].used = hosts[h].used
               /\ hosts'[h].gpu = Lowered(hosts[h].gpu, m.gpu, 0)
               /\ hosts'[h] # NoHost
    BY <1>1, <1>4, <2>2 DEF Heartbeat, TypeOK, HostTypeOK, Host, NoHost
  <2>3. ASSUME NEW m \in Reports
        PROVE  /\ \A r \in Res : LoweredCap(hosts[h], m)[r] =< hosts[h].cap[r]
               /\ Lowered(hosts[h].gpu, m.gpu, 0) =< hosts[h].gpu
    <3>1. m.cap \in [Res -> Nat] /\ m.gpu \in Nat
      BY HostAssumption DEF Capacities, Amounts
    <3> QED BY <1>1, <3>1 DEF LoweredCap, Lowered
  <2> QED BY <1>2, <2>1, <2>2, <2>3 DEF HostStep
<1> QED BY <1>3, <1>4

LEMMA HostStepKeepsOrder ==
    ASSUME TypeOK, TypeOK', OrderInv, NEW g \in HostIds, HostStep(g)
    PROVE  OrderInv'
<1>1. HostTypeOK'
  BY DEF TypeOK
<1>2. UNCHANGED <<queue, pc, cursor, snap, orphan>>
  BY DEF HostStep, cycleVars
<1>3. Registered \subseteq Registered'
  BY <1>1, HostStepShrinks DEF Registered
<1>4. ASSUME NEW h \in snap
      PROVE  /\ \A r \in Res : /\ View(h)'.cap[r] =< View(h).cap[r]
                               /\ View(h).used[r] =< View(h)'.used[r]
             /\ View(h)'.gpu =< View(h).gpu
  <2>1. h \in Registered /\ h \in HostIds /\ hosts[h] # NoHost
    BY DEF OrderInv, SnapKnown, Registered
  <2>2. CASE orphan[h] # NoHost
    <3>1. View(h)' = View(h)
      BY <1>2, <2>2 DEF View
    <3>2. /\ View(h).cap \in [Res -> Nat] /\ View(h).used \in [Res -> Int]
          /\ View(h).gpu \in Nat
      BY <2>1, Numbers
    <3> QED BY <3>1, <3>2
  <2>3. CASE orphan[h] = NoHost
    <3>1. View(h)' = hosts'[h] /\ View(h) = hosts[h]
      BY <1>2, <2>3 DEF View
    <3> QED BY <1>1, <2>1, <3>1, HostStepShrinks
  <2> QED BY <2>2, <2>3
<1> QED BY <1>2, <1>3, <1>4, ShrinkKeepsOrder

\* A registration changes nothing the cycle sees: it keeps its pointer.
LEMMA RegisterKeepsOrder ==
    ASSUME TypeOK, TypeOK', OrderInv, NEW g \in HostIds, NEW offer \in Offers,
           Register(g, offer)
    PROVE  OrderInv'
<1>1. /\ hosts' = [hosts EXCEPT ![g] = NewHost(offer)]
      /\ UNCHANGED <<queue, pc, cursor, snap>>
  BY DEF Register, RegisterHost
<1>2. Registered \subseteq Registered'
  <2>1. NewHost(offer) # NoHost
    BY DEF NewHost, NoHost
  <2> QED BY <1>1, <2>1 DEF Registered, TypeOK, HostTypeOK
<1>3. ASSUME NEW h \in snap PROVE View(h)' = View(h)
  <2>1. h \in Registered /\ h \in HostIds /\ hosts[h] # NoHost
    BY DEF OrderInv, SnapKnown, Registered
  <2>2. CASE h = g
    BY <2>1, <2>2 DEF View, Register, TypeOK
  <2>3. CASE h # g
    BY <1>1, <2>1, <2>3 DEF View, Register, TypeOK, HostTypeOK
  <2> QED BY <2>2, <2>3
<1>4. \A h \in snap :
          /\ View(h).cap \in [Res -> Nat] /\ View(h).used \in [Res -> Int]
          /\ View(h).gpu \in Nat
  BY Numbers DEF OrderInv, SnapKnown
<1>5. \A h \in snap :
          /\ \A r \in Res : /\ View(h)'.cap[r] =< View(h).cap[r]
                            /\ View(h).used[r] =< View(h)'.used[r]
          /\ View(h)'.gpu =< View(h).gpu
  BY <1>3, <1>4
<1> QED BY <1>1, <1>2, <1>5, ShrinkKeepsOrder

----------------------------------------------------------------------------
\* Every step keeps the invariant.
LEMMA OrderStep ==
    SchedulerInv /\ SchedulerInv' /\ OrderInv /\ [Next]_vars => OrderInv'
<1> SUFFICES ASSUME SchedulerInv, SchedulerInv', OrderInv, [Next]_vars
             PROVE  OrderInv'
  OBVIOUS
<1>0. TypeOK /\ TypeOK' /\ HostTypeOK'
  BY DEF SchedulerInv, TypeOK
<1>1. ASSUME NEW req \in Requests, Enqueue(req) PROVE OrderInv'
  BY <1>1, OutsideRanking DEF Enqueue, cycleVars, OrderInv, SnapKnown, Registered
<1>2. ASSUME NEW i \in RequestIds, Dequeue(i) PROVE OrderInv'
  <2>1. Registered \subseteq Registered'
    <3>1. CASE allocations[i] = NoAlloc
      BY <1>2, <3>1 DEF Dequeue, Registered
    <3>2. CASE allocations[i] # NoAlloc
      <4>1. /\ allocations[i].host \in HostIds /\ allocations[i].need \in Positive
        BY <1>0, <3>2 DEF TypeOK, Alloc
      <4> QED BY <1>0, <1>2, <3>2, <4>1, TableStays DEF Dequeue
    <3> QED BY <3>1, <3>2
  <2> QED BY <1>2, <2>1, OutsideRanking DEF Dequeue, cycleVars, OrderInv, SnapKnown
<1>3. ASSUME NEW i \in RequestIds, CleanupExpired(i) PROVE OrderInv'
  <2>1. allocations[i].host \in HostIds /\ allocations[i].need \in Positive
    BY <1>0, <1>3 DEF CleanupExpired, Overdue, Leased, TypeOK, Alloc
  <2>2. Registered \subseteq Registered'
    BY <1>0, <1>3, <2>1, TableStays DEF CleanupExpired
  <2> QED BY <1>3, <2>2, OutsideRanking
          DEF CleanupExpired, cycleVars, OrderInv, SnapKnown
<1>4. ASSUME CycleStart PROVE OrderInv'
  <2>1. snap' \subseteq Registered'
    BY <1>4 DEF CycleStart, Available, Registered
  <2>2. \A i \in Queued' : ~(i < 1)
    BY DEF Queued, Queue, RequestIds
  <2> QED BY <1>4, <2>1, <2>2
          DEF CycleStart, OrderInv, PassedOver, CommitInOrder, SnapKnown
<1>5. ASSUME RankDone \/ CycleEnd PROVE OrderInv'
  BY <1>5, OutsideRanking DEF RankDone, CycleEnd, OrderInv, SnapKnown, Registered
<1>6. ASSUME NEW i \in RequestIds, RankFound(i) PROVE OrderInv'
  BY <1>0, <1>6, FoundKeepsOrder
<1>7. ASSUME NEW i \in RequestIds, RankNone(i) PROVE OrderInv'
  BY <1>0, <1>7, NoneKeepsOrder
<1>8. ASSUME Commit PROVE OrderInv'
  BY <1>8, CommitKeepsOrder
<1>9. ASSUME NEW g \in HostIds, HostStep(g) PROVE OrderInv'
  BY <1>0, <1>9, HostStepKeepsOrder
<1>10. ASSUME NEW g \in HostIds, NEW offer \in Offers, Register(g, offer)
       PROVE  OrderInv'
  BY <1>0, <1>10, RegisterKeepsOrder
<1>11. ASSUME UNCHANGED <<hosts, queue, cycleVars>> PROVE OrderInv'
  <2>1. /\ Queued' = Queued /\ Registered' = Registered
        /\ \A h \in snap : View(h)' = View(h)
    BY <1>11 DEF Queued, Queue, Registered, View, cycleVars
  <2> QED BY <1>11, <2>1
          DEF OrderInv, PassedOver, CommitInOrder, SnapKnown, Fits, NoLarger, cycleVars
<1>12. ASSUME NEW i \in RequestIds, Expire(i) PROVE OrderInv'
  BY <1>11, <1>12 DEF Expire
<1>13. CASE UNCHANGED vars
  BY <1>11, <1>13 DEF vars
<1> QED BY <1>1, <1>2, <1>3, <1>4, <1>5, <1>6, <1>7, <1>8, <1>9, <1>10, <1>12,
           <1>13 DEF Next, Cycle

\* Only the commit grants, and only the item under the cursor.
LEMMA OnlyCommitGrants ==
    ASSUME TypeOK, [Next]_vars, NEW j \in RequestIds, Granted(j)
    PROVE  pc = "commit" /\ j = cursor
<1>1. Commit
  BY DEF Next, Cycle, vars, Granted, Enqueue, Dequeue, Expire, CycleStart, RankFound,
         RankNone, RankDone, CleanupExpired, CycleEnd, HostStep, Register, TypeOK, Leased
<1> QED BY <1>1 DEF Commit, Granted, TypeOK

\* No request is granted past an older one that asks for no more and sets no
\* latency budget, for all hosts, requests and amounts: neither heartbeats
\* nor registrations in mid-cycle (scheduler.go:117-145) let a newer request
\* slip through.
THEOREM NoOvertakingCorrect == Spec => NoOvertaking
<1>1. Init => OrderInv
  <2>1. Init => pc = "idle" /\ snap = {}
    BY DEF Init
  <2> QED BY <2>1 DEF OrderInv, PassedOver, CommitInOrder, SnapKnown
<1>2. SchedulerInv /\ OrderInv /\ [Next]_vars =>
        [\A i, j \in RequestIds :
            i < j /\ i \in Queued /\ Granted(j) =>
                queue[i].lat \/ ~NoLarger(i, j)]_vars
  BY OnlyCommitGrants DEF SchedulerInv, OrderInv, CommitInOrder
<1> QED BY <1>1, <1>2, OrderStep, SchedulerInvariant, PTL DEF Spec, NoOvertaking

----------------------------------------------------------------------------
\* The service implements the life cycle: how each step looks from outside.
Phases == [i \in RequestIds |-> PhaseOf(i)]
Holders == [i \in RequestIds |-> IF allocations[i] = NoAlloc
                                   THEN "none" ELSE allocations[i].host]

\* A step that touches neither item nor lease of i, nor makes i arrive,
\* leaves i's phase and holder.
LEMMA SameRequest ==
    ASSUME NEW i \in RequestIds, queue'[i] = queue[i],
           allocations'[i] = allocations[i], (i >= nextID)' = (i >= nextID)
    PROVE  Phases'[i] = Phases[i] /\ Holders'[i] = Holders[i]
BY DEF Phases, Holders, PhaseOf

\* A step that changes one request only changes its phase and holder only.
LEMMA OneRequest ==
    ASSUME NEW i \in RequestIds,
           \A j \in RequestIds \ {i} :
               /\ queue'[j] = queue[j] /\ allocations'[j] = allocations[j]
               /\ (j >= nextID)' = (j >= nextID)
    PROVE  /\ Phases' = [Phases EXCEPT ![i] = Phases'[i]]
           /\ Holders' = [Holders EXCEPT ![i] = Holders'[i]]
<1>1. \A j \in RequestIds \ {i} : Phases'[j] = Phases[j] /\ Holders'[j] = Holders[j]
  BY SameRequest
<1>2. Phases' = [j \in RequestIds |-> Phases'[j]] /\ Phases = [j \in RequestIds |-> Phases[j]]
  BY DEF Phases
<1>3. Holders' = [j \in RequestIds |-> Holders'[j]] /\ Holders = [j \in RequestIds |-> Holders[j]]
  BY DEF Holders
<1> HIDE DEF Phases, Holders
<1> QED BY <1>1, <1>2, <1>3

\* Enqueue submits the next request.
LEMMA EnqueueSubmits ==
    ASSUME SchedulerInv, SchedulerInv', NEW req \in Requests, Enqueue(req)
    PROVE  Lifecycle!Submit(nextID)
<1>1. /\ nextID \in RequestIds /\ nextID' = nextID + 1 /\ nextID \in Nat
      /\ queue'[nextID] = NewItem(req) /\ NewItem(req) # NoItem
      /\ NewItem(req).status = "queued" /\ allocations' = allocations
  BY NewItemType, Sentinels DEF SchedulerInv, Enqueue, TypeOK, RequestIds
<1>2. \A j \in RequestIds \ {nextID} :
          /\ queue'[j] = queue[j] /\ allocations'[j] = allocations[j]
          /\ (j >= nextID)' = (j >= nextID)
  BY <1>1 DEF Enqueue, SchedulerInv, TypeOK, RequestIds
<1>3. Phases[nextID] = "new" /\ Phases'[nextID] = "waiting"
  BY <1>1 DEF Phases, PhaseOf
<1>4. Holders'[nextID] = Holders[nextID]
  BY <1>1 DEF Holders
<1>5. \A j \in RequestIds : j < nextID => Phases[j] # "new"
  BY <1>1 DEF Phases, PhaseOf, RequestIds
<1>6. Phases' = [Phases EXCEPT ![nextID] = "waiting"] /\ Holders' = Holders
  BY <1>1, <1>2, <1>3, <1>4, OneRequest DEF Holders
<1> QED BY <1>3, <1>5, <1>6 DEF Lifecycle!Submit, Lifecycle!RequestIds, RequestIds,
                                Phases, Holders

\* Dequeue withdraws a request, whatever became of it.
LEMMA DequeueWithdraws ==
    ASSUME SchedulerInv, NEW i \in RequestIds, Dequeue(i)
    PROVE  Lifecycle!Withdraw(i)
<1>1. /\ queue[i] # NoItem /\ i < nextID /\ nextID' = nextID
      /\ queue'[i] = NoItem /\ allocations'[i] = NoAlloc
  BY DEF SchedulerInv, FreshIds, Dequeue, Queue, TypeOK, RequestIds
<1>2. \A j \in RequestIds \ {i} :
          /\ queue'[j] = queue[j] /\ allocations'[j] = allocations[j]
          /\ (j >= nextID)' = (j >= nextID)
  BY <1>1 DEF Dequeue, SchedulerInv, TypeOK
<1>3. ~(i >= nextID)
  BY <1>1 DEF SchedulerInv, TypeOK, RequestIds
<1>4. Phases[i] \in {"waiting", "granted", "lapsed"}
  BY <1>1, <1>3 DEF Phases, PhaseOf
<1>5. Phases'[i] = "withdrawn" /\ Holders'[i] = "none"
  BY <1>1, <1>3 DEF Phases, Holders, PhaseOf
<1>6. /\ Phases' = [Phases EXCEPT ![i] = "withdrawn"]
      /\ Holders' = [Holders EXCEPT ![i] = "none"]
  BY <1>2, <1>5, OneRequest
<1> QED BY <1>4, <1>6 DEF Lifecycle!Withdraw, Phases, Holders

\* A commit grants the request under the cursor on the host ranked first.
LEMMA CommitGrants ==
    ASSUME SchedulerInv, Commit
    PROVE  cursor \in RequestIds /\ best \in HostIds /\ Lifecycle!Grant(cursor, best)
<1>1. /\ cursor \in RequestIds /\ best \in HostIds /\ nextID' = nextID
      /\ queue[cursor] # NoItem /\ queue[cursor].status = "queued"
      /\ queue[cursor] \in Item
      /\ ~(cursor >= nextID)
  BY DEF SchedulerInv, CommitReady, Commit, FreshIds, Queued, Queue, TypeOK, RequestIds
<1>2. /\ queue'[cursor] # NoItem /\ queue'[cursor].status = "allocated"
      /\ allocations'[cursor] # NoAlloc /\ allocations'[cursor].host = best
  BY <1>1, SchedulerAssumption DEF Commit, SchedulerInv, TypeOK, Item, NoItem, NoAlloc
<1>3. \A j \in RequestIds \ {cursor} :
          /\ queue'[j] = queue[j] /\ allocations'[j] = allocations[j]
          /\ (j >= nextID)' = (j >= nextID)
  BY <1>1 DEF Commit, SchedulerInv, TypeOK
<1>4. Phases[cursor] = "waiting" /\ Phases'[cursor] = "granted"
  BY <1>1, <1>2 DEF Phases, PhaseOf
<1>5. Holders'[cursor] = best
  BY <1>1, <1>2 DEF Holders
<1>6. /\ Phases' = [Phases EXCEPT ![cursor] = "granted"]
      /\ Holders' = [Holders EXCEPT ![cursor] = best]
  BY <1>1, <1>3, <1>4, <1>5, OneRequest
<1> QED BY <1>1, <1>4, <1>6 DEF Lifecycle!Grant, Phases, Holders

\* Cleaning up lets a granted request lapse: its item stays, "allocated".
LEMMA CleanupLapses ==
    ASSUME SchedulerInv, NEW i \in RequestIds, CleanupExpired(i)
    PROVE  Lifecycle!Lapse(i)
<1>1. /\ allocations[i] # NoAlloc /\ allocations'[i] = NoAlloc
      /\ queue[i] # NoItem /\ queue[i].status = "allocated" /\ queue' = queue
      /\ nextID' = nextID /\ ~(i >= nextID)
  BY DEF SchedulerInv, LeasesMatchQueue, FreshIds, CleanupExpired, Overdue, Leased,
         Queue, TypeOK, RequestIds
<1>2. \A j \in RequestIds \ {i} :
          /\ queue'[j] = queue[j] /\ allocations'[j] = allocations[j]
          /\ (j >= nextID)' = (j >= nextID)
  BY <1>1 DEF CleanupExpired, SchedulerInv, TypeOK
<1>3. Phases[i] = "granted" /\ Phases'[i] = "lapsed" /\ Holders'[i] = "none"
  BY <1>1 DEF Phases, Holders, PhaseOf
<1>4. /\ Phases' = [Phases EXCEPT ![i] = "lapsed"]
      /\ Holders' = [Holders EXCEPT ![i] = "none"]
  BY <1>2, <1>3, OneRequest
<1> QED BY <1>3, <1>4 DEF Lifecycle!Lapse, Phases, Holders

\* Everything else is invisible, the expiry of a lease included: it counts
\* once it is cleaned up.
LEMMA ExpireHides ==
    ASSUME SchedulerInv, NEW i \in RequestIds, Expire(i)
    PROVE  Phases' = Phases /\ Holders' = Holders
<1>1. /\ allocations[i] # NoAlloc /\ allocations[i] \in Alloc
      /\ allocations'[i] # NoAlloc /\ allocations'[i].host = allocations[i].host
      /\ queue' = queue /\ nextID' = nextID
  BY SchedulerAssumption
     DEF Expire, Leased, SchedulerInv, TypeOK, Alloc, NoAlloc
<1>2. \A j \in RequestIds \ {i} : allocations'[j] = allocations[j]
  BY DEF Expire, SchedulerInv, TypeOK
<1> QED BY <1>1, <1>2 DEF Phases, Holders, PhaseOf

\* Every step of the service is a step of the life cycle, or none.
LEMMA StepImplements ==
    ASSUME SchedulerInv, SchedulerInv', [Next]_vars
    PROVE  [Lifecycle!Next]_<<Phases, Holders>>
<1>1. ASSUME NEW req \in Requests, Enqueue(req) PROVE Lifecycle!Next
  <2>1. nextID \in RequestIds
    BY <1>1 DEF Enqueue, SchedulerInv, TypeOK, RequestIds
  <2> QED BY <1>1, <2>1, EnqueueSubmits
          DEF Lifecycle!Next, Lifecycle!RequestIds, RequestIds
<1>2. ASSUME NEW i \in RequestIds, Dequeue(i) PROVE Lifecycle!Next
  BY <1>2, DequeueWithdraws DEF Lifecycle!Next, Lifecycle!RequestIds, RequestIds
<1>3. ASSUME Commit PROVE Lifecycle!Next
  <2>1. cursor \in Lifecycle!RequestIds
    BY <1>3, CommitGrants DEF Lifecycle!RequestIds, RequestIds
  <2>2. \E h \in HostIds : Lifecycle!Grant(cursor, h)
    BY <1>3, CommitGrants DEF Lifecycle!Grant
  <2> QED BY <2>1, <2>2 DEF Lifecycle!Next, Lifecycle!Grant
<1>4. ASSUME NEW i \in RequestIds, CleanupExpired(i) PROVE Lifecycle!Next
  BY <1>4, CleanupLapses DEF Lifecycle!Next, Lifecycle!RequestIds, RequestIds
<1>5. ASSUME NEW i \in RequestIds, Expire(i)
      PROVE  UNCHANGED <<Phases, Holders>>
  BY <1>5, ExpireHides
<1>6. ASSUME UNCHANGED <<queue, allocations, nextID>>
      PROVE  UNCHANGED <<Phases, Holders>>
  BY <1>6 DEF Phases, Holders, PhaseOf
<1> QED BY <1>1, <1>2, <1>3, <1>4, <1>5, <1>6
        DEF Next, Cycle, vars, CycleStart, RankFound, RankNone, RankDone, CycleEnd,
            HostStep, Register

\* The service implements RequestLifecycle for all hosts and requests: no
\* request is granted twice, moved to another host, or revived after its
\* lease lapsed or a client deleted it.
THEOREM LifecycleCorrect == Spec => ImplementsLifecycle
<1>1. Init => Lifecycle!Init
  BY DEF Init, PhaseOf, NoAlloc, Lifecycle!Init, Lifecycle!RequestIds, RequestIds
<1>2. SchedulerInv /\ SchedulerInv' /\ [Next]_vars =>
        [Lifecycle!Next]_<<[i \in RequestIds |-> PhaseOf(i)],
                           [i \in RequestIds |-> IF allocations[i] = NoAlloc
                                THEN "none" ELSE allocations[i].host]>>
  BY StepImplements DEF Phases, Holders
<1> QED BY <1>1, <1>2, SchedulerInvariant, PTL
        DEF Spec, ImplementsLifecycle, Lifecycle!Spec

============================================================================
