---------------------------- MODULE SessionProofs ---------------------------
(***************************************************************************)
(* Proofs about HostAllocator and SessionManager, for every set of hosts,   *)
(* regions, classes, sessions, people and orders, every limit of failures   *)
(* and every length of the audit log.                                       *)
(***************************************************************************)
EXTENDS SessionManager, TLAPS, FiniteSetTheorems

-----------------------------------------------------------------------------
(***************************************************************************)
(* The host allocator.                                                      *)
(***************************************************************************)
\* The values the variables keep to.
AllocatorTypes ==
  /\ hosts \in [Hosts -> HostRecords \cup {NoHost}]
  /\ byRegion \in [Regions -> SUBSET Hosts] /\ byClass \in [Classes -> SUBSET Hosts]
  /\ byOnline \subseteq Hosts
  /\ waiting \subseteq QueueItems /\ popped \in QueueItems \cup {NoJob}
  /\ fate \in [Jobs -> {"new", "waiting", "scheduled", "removed", "dropped"}]

Held == waiting \cup ({popped} \ {NoJob})

\* IndexesAgree for one host.
AgreesOnRegion(h, r) == h \in byRegion[r] <=> hosts[h] # NoHost /\ hosts[h].region = r
AgreesOnClass(h, c) == h \in byClass[c] <=> hosts[h] # NoHost /\ c \in hosts[h].classes
AgreesOnline(h) == h \in byOnline <=> hosts[h] # NoHost /\ hosts[h].online
Agrees(h) == /\ \A r \in Regions : AgreesOnRegion(h, r)
             /\ \A c \in Classes : AgreesOnClass(h, c)
             /\ AgreesOnline(h)

AllAgree == \A h \in Hosts : Agrees(h)

\* OneFate without cardinalities: the items held have sessions of their own,
\* these are the sessions whose fate is open, and the popped item is not queued.
FateInv ==
  /\ \A a, b \in Held : a.job = b.job => a = b
  /\ \A j \in Jobs : fate[j] = "waiting" <=> \E a \in Held : a.job = j
  /\ popped \notin waiting

AllocatorInv == AllocatorTypes /\ AllAgree /\ FateInv

-----------------------------------------------------------------------------
LEMMA NewItem ==
  ASSUME NEW j \in Jobs, NEW ask \in Asks
  PROVE  [job |-> j, ask |-> ask, failed |-> 0, priority |-> calculatePriority(ask)] \in QueueItems
BY DEF QueueItems, calculatePriority

\* An item that is put back is an item of the same session.
LEMMA ItemPutBack ==
  ASSUME NEW item \in QueueItems
  PROVE  LET back == [item EXCEPT !.failed = @ + 1, !.priority = Max({@ - 1, 0})]
         IN  back \in QueueItems /\ back.job = item.job
<1>1. Max({item.priority - 1, 0}) \in Nat
  <2>1. PICK m \in {item.priority - 1, 0} : \A y \in {item.priority - 1, 0} : m >= y
    BY DEF QueueItems
  <2>2. /\ Max({item.priority - 1, 0}) \in {item.priority - 1, 0}
        /\ \A y \in {item.priority - 1, 0} : Max({item.priority - 1, 0}) >= y
    BY <2>1 DEF Max
  <2> QED
    BY <2>2 DEF QueueItems
<1> DEFINE less == Max({item.priority - 1, 0})
<1> HIDE DEF less
<1>2. less \in Nat
  BY <1>1 DEF less
<1>3. [item EXCEPT !.failed = @ + 1] \in QueueItems /\ [item EXCEPT !.failed = @ + 1].job = item.job
  BY DEF QueueItems
<1>4. \A a \in QueueItems :
        [a EXCEPT !.priority = less] \in QueueItems /\ [a EXCEPT !.priority = less].job = a.job
  BY <1>2 DEF QueueItems
<1>5. LET back == [[item EXCEPT !.failed = @ + 1] EXCEPT !.priority = less]
      IN  back \in QueueItems /\ back.job = item.job
  BY <1>3, <1>4
<1> QED
  BY <1>5 DEF less

\* With sessions of their own, the items of one session are one or none.
LEMMA FateInvGivesOneFate == AllocatorTypes /\ FateInv => OneFate
<1> SUFFICES ASSUME AllocatorTypes, FateInv, NEW j \in Jobs
             PROVE  Cardinality({item \in Held : item.job = j})
                      = (IF fate[j] = "waiting" THEN 1 ELSE 0)
  BY DEF OneFate, FateInv, Held
<1>1. CASE fate[j] = "waiting"
  <2>1. PICK a \in Held : a.job = j
    BY <1>1 DEF FateInv
  <2>2. {item \in Held : item.job = j} = {a}
    BY <2>1 DEF FateInv
  <2> QED
    BY <1>1, <2>2, FS_Singleton
<1>2. CASE fate[j] # "waiting"
  <2>1. {item \in Held : item.job = j} = {}
    BY <1>2 DEF FateInv
  <2> QED
    BY <1>2, <2>1, FS_EmptySet
<1> QED
  BY <1>1, <1>2

-----------------------------------------------------------------------------
LEMMA AllocatorInitInv == AllocatorInit => AllocatorInv
<1> SUFFICES ASSUME AllocatorInit PROVE AllocatorInv
  OBVIOUS
<1>1. AllocatorTypes
  BY DEF AllocatorInit, AllocatorTypes
<1>2. AllAgree
  BY DEF AllocatorInit, AllAgree, Agrees, AgreesOnRegion, AgreesOnClass, AgreesOnline
<1>3. FateInv
  BY DEF AllocatorInit, FateInv, Held
<1> QED
  BY <1>1, <1>2, <1>3 DEF AllocatorInv

\* Every step of the registry keeps the indexes in agreement with it.
LEMMA RegistryInv ==
  ASSUME AllocatorTypes, AllAgree, RegistryStep, UNCHANGED jobVars
  PROVE  AllocatorTypes' /\ AllAgree'
<1> USE AllocatorAssumption
<1> PICK h \in Hosts : \/ \E d \in Descriptions : RegisterHost(h, d)
                       \/ UnregisterHost(h) \/ GoSilent(h)
                       \/ \E load \in Loads : UpdateHostLoad(h, load)
  BY DEF RegistryStep
<1>1. ASSUME NEW d \in Descriptions, RegisterHost(h, d)
      PROVE  AllocatorTypes' /\ AllAgree'
  <2>1. d \in HostRecords /\ d # NoHost
    OBVIOUS
  <2>2. AllocatorTypes'
    BY <1>1, <2>1 DEF RegisterHost, AllocatorTypes, jobVars
  <2>6. /\ \A g \in Hosts : hosts'[g] = IF g = h THEN d ELSE hosts[g]
        /\ hosts[h] = NoHost
    BY <1>1 DEF RegisterHost, AllocatorTypes
  <2>3. ASSUME NEW g \in Hosts, NEW r \in Regions PROVE AgreesOnRegion(g, r)'
    <3>1. AgreesOnRegion(g, r)
      BY DEF AllAgree, Agrees
    <3>2. byRegion'[r] = byRegion[r] \cup (IF r = d.region THEN {h} ELSE {})
      BY <1>1 DEF RegisterHost
    <3> QED
      BY <2>1, <2>6, <3>1, <3>2 DEF AgreesOnRegion
  <2>5. ASSUME NEW g \in Hosts, NEW c \in Classes PROVE AgreesOnClass(g, c)'
    <3>1. AgreesOnClass(g, c)
      BY DEF AllAgree, Agrees
    <3>2. byClass'[c] = byClass[c] \cup (IF c \in d.classes THEN {h} ELSE {})
      BY <1>1 DEF RegisterHost
    <3> QED
      BY <2>1, <2>6, <3>1, <3>2 DEF AgreesOnClass
  <2>4. ASSUME NEW g \in Hosts PROVE AgreesOnline(g)'
    BY <1>1, <2>1 DEF RegisterHost, AllocatorTypes, AllAgree, Agrees, AgreesOnline
  <2> QED
    BY <2>2, <2>3, <2>4, <2>5 DEF AllAgree, Agrees
<1>2. CASE UnregisterHost(h)
  <2>1. AllocatorTypes'
    BY <1>2 DEF UnregisterHost, AllocatorTypes, jobVars
  <2>2. AllAgree'
    <3>0. /\ \A g \in Hosts : hosts'[g] = IF g = h THEN NoHost ELSE hosts[g]
          /\ hosts[h] # NoHost
      BY <1>2 DEF UnregisterHost, AllocatorTypes
    <3>1. ASSUME NEW g \in Hosts, NEW r \in Regions PROVE AgreesOnRegion(g, r)'
      <4>1. AgreesOnRegion(g, r) /\ AgreesOnRegion(h, r)
        BY DEF AllAgree, Agrees
      <4>2. byRegion'[r] = byRegion[r] \ (IF r = hosts[h].region THEN {h} ELSE {})
        BY <1>2 DEF UnregisterHost
      <4> QED
        BY <3>0, <4>1, <4>2 DEF AgreesOnRegion
    <3>3. ASSUME NEW g \in Hosts, NEW c \in Classes PROVE AgreesOnClass(g, c)'
      <4>1. AgreesOnClass(g, c) /\ AgreesOnClass(h, c)
        BY DEF AllAgree, Agrees
      <4>2. byClass'[c] = byClass[c] \ (IF c \in hosts[h].classes THEN {h} ELSE {})
        BY <1>2 DEF UnregisterHost
      <4> QED
        BY <3>0, <4>1, <4>2 DEF AgreesOnClass
    <3>2. ASSUME NEW g \in Hosts PROVE AgreesOnline(g)'
      BY <1>2 DEF UnregisterHost, AllocatorTypes, AllAgree, Agrees, AgreesOnline
    <3> QED
      BY <3>1, <3>2, <3>3 DEF AllAgree, Agrees
  <2> QED
    BY <2>1, <2>2
<1>3. CASE GoSilent(h)
  <2> DEFINE kept == [hosts[h] EXCEPT !.fresh = FALSE]
  <2>1. hosts[h] \in HostRecords
    BY <1>3 DEF GoSilent, AllocatorTypes
  <2>2. /\ kept \in HostRecords /\ kept # NoHost /\ kept.region = hosts[h].region
        /\ kept.classes = hosts[h].classes /\ kept.online = hosts[h].online
    BY <2>1 DEF HostRecords
  <2>3. hosts' = [hosts EXCEPT ![h] = kept] /\ UNCHANGED <<byRegion, byClass, byOnline>>
    BY <1>3 DEF GoSilent
  <2> HIDE DEF kept
  <2>4. AllocatorTypes'
    BY <2>2, <2>3 DEF AllocatorTypes, jobVars
  <2>5. AllAgree'
    <3>4. ASSUME NEW g \in Hosts
          PROVE  /\ hosts'[g] # NoHost <=> hosts[g] # NoHost
                 /\ hosts'[g].region = hosts[g].region /\ hosts'[g].classes = hosts[g].classes
      BY <1>3, <2>2, <2>3 DEF GoSilent, AllocatorTypes
    <3>1. ASSUME NEW g \in Hosts, NEW r \in Regions PROVE AgreesOnRegion(g, r)'
      <4>1. AgreesOnRegion(g, r)
        BY DEF AllAgree, Agrees
      <4>2. byRegion' = byRegion
        BY <2>3
      <4> QED
        BY <3>4, <4>1, <4>2 DEF AgreesOnRegion
    <3>3. ASSUME NEW g \in Hosts, NEW c \in Classes PROVE AgreesOnClass(g, c)'
      <4>1. AgreesOnClass(g, c)
        BY DEF AllAgree, Agrees
      <4>2. byClass' = byClass
        BY <2>3
      <4> QED
        BY <3>4, <4>1, <4>2 DEF AgreesOnClass
    <3>2. ASSUME NEW g \in Hosts PROVE AgreesOnline(g)'
      BY <1>3, <2>2, <2>3 DEF GoSilent, AllocatorTypes, AllAgree, Agrees, AgreesOnline
    <3> QED
      BY <3>1, <3>2, <3>3 DEF AllAgree, Agrees
  <2> QED
    BY <2>4, <2>5
<1>4. ASSUME NEW load \in Loads, UpdateHostLoad(h, load)
      PROVE  AllocatorTypes' /\ AllAgree'
  <2> DEFINE kept == [hosts[h] EXCEPT !.load = load, !.fresh = TRUE, !.online = TRUE]
  <2>1. hosts[h] \in HostRecords
    BY <1>4 DEF UpdateHostLoad, AllocatorTypes
  <2>2. /\ kept \in HostRecords /\ kept # NoHost /\ kept.region = hosts[h].region
        /\ kept.classes = hosts[h].classes /\ kept.online
    BY <2>1 DEF HostRecords
  <2>3. /\ hosts' = [hosts EXCEPT ![h] = kept] /\ UNCHANGED <<byRegion, byClass>>
        /\ hosts[h] # NoHost
        /\ byOnline' = IF hosts[h].online THEN byOnline ELSE byOnline \cup {h}
    BY <1>4 DEF UpdateHostLoad, AllocatorTypes
  <2> HIDE DEF kept
  <2>4. AllocatorTypes'
    BY <2>2, <2>3 DEF AllocatorTypes, jobVars
  <2>5. AllAgree'
    <3>4. ASSUME NEW g \in Hosts
          PROVE  /\ hosts'[g] # NoHost <=> hosts[g] # NoHost
                 /\ hosts'[g].region = hosts[g].region /\ hosts'[g].classes = hosts[g].classes
      BY <2>2, <2>3 DEF AllocatorTypes
    <3>1. ASSUME NEW g \in Hosts, NEW r \in Regions PROVE AgreesOnRegion(g, r)'
      <4>1. AgreesOnRegion(g, r)
        BY DEF AllAgree, Agrees
      <4>2. byRegion' = byRegion
        BY <2>3
      <4> QED
        BY <3>4, <4>1, <4>2 DEF AgreesOnRegion
    <3>3. ASSUME NEW g \in Hosts, NEW c \in Classes PROVE AgreesOnClass(g, c)'
      <4>1. AgreesOnClass(g, c)
        BY DEF AllAgree, Agrees
      <4>2. byClass' = byClass
        BY <2>3
      <4> QED
        BY <3>4, <4>1, <4>2 DEF AgreesOnClass
    <3>2. ASSUME NEW g \in Hosts PROVE AgreesOnline(g)'
      BY <2>2, <2>3 DEF AllocatorTypes, AllAgree, Agrees, AgreesOnline
    <3> QED
      BY <3>1, <3>2, <3>3 DEF AllAgree, Agrees
  <2> QED
    BY <2>4, <2>5
<1> QED
  BY <1>1, <1>2, <1>3, <1>4

\* An item that leaves for good takes the open fate of its session along.
LEMMA ItemLeaves ==
  ASSUME AllocatorTypes, FateInv, NEW a \in Held, a.job \in Jobs, Held' = Held \ {a},
         NEW f \in {"scheduled", "removed", "dropped"}, fate' = [fate EXCEPT ![a.job] = f],
         popped' \notin waiting'
  PROVE  FateInv'
<1>1. \A b, c \in Held' : b.job = c.job => b = c
  BY DEF FateInv
<1>2. ASSUME NEW j \in Jobs PROVE fate'[j] = "waiting" => \E b \in Held' : b.job = j
  <2>1. fate'[j] = "waiting" => fate[j] = "waiting" /\ j # a.job
    BY DEF AllocatorTypes
  <2> QED
    BY <2>1 DEF FateInv
<1>3. ASSUME NEW j \in Jobs, NEW b \in Held', b.job = j PROVE fate'[j] = "waiting"
  <2>1. fate[j] = "waiting" /\ j # a.job
    BY <1>3 DEF FateInv
  <2> QED
    BY <2>1 DEF AllocatorTypes
<1> QED
  BY <1>1, <1>2, <1>3 DEF FateInv

\* Every step of the queue keeps each session in one place.
LEMMA QueueInv ==
  ASSUME AllocatorTypes, FateInv,
         \/ \E j \in Jobs : Dequeue(j) \/ \E ask \in Asks : Enqueue(j, ask)
         \/ processQueue
  PROVE  AllocatorTypes' /\ FateInv' /\ UNCHANGED registry
<1> USE AllocatorAssumption
<1>1. ASSUME NEW j \in Jobs, Dequeue(j)
      PROVE  AllocatorTypes' /\ FateInv' /\ UNCHANGED registry
  <2>1. PICK item \in waiting : /\ item.job = j /\ waiting' = waiting \ {item}
                                /\ fate' = [fate EXCEPT ![j] = "removed"]
                                /\ UNCHANGED <<registry, popped>>
    BY <1>1 DEF Dequeue
  <2>2. AllocatorTypes' /\ UNCHANGED registry
    BY <2>1 DEF AllocatorTypes, registry
  <2>3. item \in Held /\ Held' = Held \ {item} /\ popped' \notin waiting'
    BY <2>1 DEF Held, FateInv
  <2>4. FateInv'
    BY <2>1, <2>3, ItemLeaves
  <2> QED
    BY <2>2, <2>4
<1>2. ASSUME NEW j \in Jobs, NEW ask \in Asks, Enqueue(j, ask)
      PROVE  AllocatorTypes' /\ FateInv' /\ UNCHANGED registry
  <2> DEFINE new == [job |-> j, ask |-> ask, failed |-> 0, priority |-> calculatePriority(ask)]
  <2>1. new \in QueueItems /\ new.job = j
    BY NewItem
  <2> HIDE DEF new
  <2>2. AllocatorTypes' /\ UNCHANGED registry
    BY <1>2, <2>1 DEF Enqueue, AllocatorTypes, registry, new
  <2>3. Held' = Held \cup {new} /\ popped' = popped /\ fate' = [fate EXCEPT ![j] = "waiting"]
        /\ waiting' = waiting \cup {new}
    BY <1>2 DEF Enqueue, Held, new
  <2>4. \A a \in Held : a.job # j
    BY <1>2 DEF Enqueue, FateInv
  <2>5. popped # new
    BY <2>1, <2>4 DEF Held
  <2>6. FateInv'
    BY <2>1, <2>3, <2>4, <2>5 DEF FateInv, AllocatorTypes
  <2> QED
    BY <2>2, <2>6
<1>3. CASE Pop
  <2>1. Held' = Held
    BY <1>3 DEF Pop, Held, AllocatorTypes
  <2> QED
    BY <1>3, <2>1 DEF Pop, AllocatorTypes, FateInv, registry
<1>4. CASE Scheduled
  <2>1. popped \in QueueItems /\ popped \in Held
    BY <1>4 DEF Scheduled, AllocatorTypes, Held
  <2>2. Held' = Held \ {popped}
    BY <1>4 DEF Scheduled, Held, FateInv
  <2>3. AllocatorTypes' /\ UNCHANGED registry
    BY <1>4, <2>1 DEF Scheduled, AllocatorTypes, registry, QueueItems
  <2>4. FateInv'
    <3>1. /\ popped.job \in Jobs /\ fate' = [fate EXCEPT ![popped.job] = "scheduled"]
          /\ popped' \notin waiting'
      BY <1>4, <2>1 DEF Scheduled, QueueItems, AllocatorTypes
    <3> QED
      BY <2>1, <2>2, <3>1, ItemLeaves
  <2> QED
    BY <2>3, <2>4
<1>5. CASE Failed
  <2>1. popped \in QueueItems /\ popped \in Held
    BY <1>5 DEF Failed, AllocatorTypes, Held
  <2>2. CASE popped.failed + 1 >= MaxFailed
    <3>1. Held' = Held \ {popped}
      BY <1>5, <2>2 DEF Failed, Held, FateInv
    <3>2. AllocatorTypes' /\ UNCHANGED registry
      <4>1. /\ popped' = NoJob /\ UNCHANGED <<registry, waiting>>
            /\ fate' = [fate EXCEPT ![popped.job] = "dropped"]
        BY <1>5, <2>2 DEF Failed
      <4> QED
        BY <2>1, <4>1 DEF AllocatorTypes, registry, QueueItems
    <3>3. FateInv'
      <4>1. /\ popped.job \in Jobs /\ fate' = [fate EXCEPT ![popped.job] = "dropped"]
            /\ popped' \notin waiting'
        BY <1>5, <2>1, <2>2 DEF Failed, QueueItems, AllocatorTypes
      <4> QED
        BY <2>1, <3>1, <4>1, ItemLeaves
    <3> QED
      BY <3>2, <3>3
  <2>3. CASE ~ (popped.failed + 1 >= MaxFailed)
    <3> DEFINE back == [popped EXCEPT !.failed = @ + 1, !.priority = Max({@ - 1, 0})]
    <3>1. back \in QueueItems /\ back.job = popped.job
      BY <2>1, ItemPutBack
    <3> HIDE DEF back
    <3>2. /\ waiting' = waiting \cup {back} /\ popped' = NoJob /\ fate' = fate
          /\ UNCHANGED registry
      BY <1>5, <2>3 DEF Failed, back
    <3>3. Held' = (Held \ {popped}) \cup {back}
      BY <3>1, <3>2, <2>1 DEF Held, FateInv
    <3>4. AllocatorTypes'
      BY <3>1, <3>2 DEF AllocatorTypes, registry
    <3>5. FateInv'
      <4>1. \A b, c \in Held' : b.job = c.job => b = c
        <5>1. \A b \in Held \ {popped} : b.job # back.job
          BY <2>1, <3>1 DEF FateInv
        <5> QED
          BY <3>3, <5>1 DEF FateInv
      <4>2. ASSUME NEW j \in Jobs PROVE (\E b \in Held' : b.job = j) <=> (\E b \in Held : b.job = j)
        BY <2>1, <3>1, <3>3 DEF FateInv
      <4>3. popped' \notin waiting'
        BY <3>1, <3>2 DEF AllocatorTypes
      <4> QED
        BY <3>2, <4>1, <4>2, <4>3 DEF FateInv
    <3> QED
      BY <3>2, <3>4, <3>5
  <2> QED
    BY <2>2, <2>3
<1> QED
  BY <1>1, <1>2, <1>3, <1>4, <1>5 DEF processQueue

LEMMA AllocatorNextInv == AllocatorInv /\ [AllocatorNext]_allocatorVars => AllocatorInv'
<1> SUFFICES ASSUME AllocatorInv, [AllocatorNext]_allocatorVars PROVE AllocatorInv'
  OBVIOUS
<1> USE DEF AllocatorInv
<1>1. CASE RegistryStep /\ UNCHANGED jobVars
  <2>1. FateInv'
    BY <1>1 DEF FateInv, Held, jobVars
  <2> QED
    BY <1>1, <2>1, RegistryInv
<1>2. CASE \/ \E j \in Jobs : Dequeue(j) \/ \E ask \in Asks : Enqueue(j, ask)
           \/ processQueue
  <2>1. AllocatorTypes' /\ FateInv' /\ UNCHANGED registry
    BY <1>2, QueueInv
  <2>2. AllAgree'
    BY <2>1 DEF AllAgree, Agrees, AgreesOnRegion, AgreesOnClass, AgreesOnline, registry
  <2> QED
    BY <2>1, <2>2
<1>3. CASE UNCHANGED allocatorVars
  BY <1>3 DEF allocatorVars, registry, jobVars, AllocatorTypes, AllAgree, Agrees, AgreesOnRegion, AgreesOnClass, AgreesOnline, FateInv, Held
<1> QED
  BY <1>1, <1>2, <1>3 DEF AllocatorNext

LEMMA AllocatorInvariant == AllocatorSpec => []AllocatorInv
<1> QED
  BY AllocatorInitInv, AllocatorNextInv, PTL DEF AllocatorSpec

\* Whatever hosts register, leave and report, the indexes the allocator reads
\* say what the registry says (allocator.go:119-206).
THEOREM IndexesAgreeHolds == AllocatorSpec => []IndexesAgree
<1>1. AllocatorInv => IndexesAgree
  BY DEF AllocatorInv, AllocatorTypes, AllAgree, Agrees, AgreesOnRegion, AgreesOnClass, AgreesOnline, IndexesAgree
<1> QED
  BY <1>1, AllocatorInvariant, PTL

\* Every session is in the queue, or in the hands of processQueue, once and
\* exactly while its fate is open, however many there are and however often
\* they are put back (scheduler.go:105-116, 138-175).
THEOREM OneFateHolds == AllocatorSpec => []OneFate
<1>1. AllocatorInv => OneFate
  BY FateInvGivesOneFate DEF AllocatorInv
<1> QED
  BY <1>1, AllocatorInvariant, PTL

-----------------------------------------------------------------------------
(***************************************************************************)
(* The session manager.                                                     *)
(***************************************************************************)
SessionTypes ==
  /\ session \in [Ids -> SessionRecords \cup {NoSession}]
  /\ sessions \subseteq Ids /\ pendingApprovals \subseteq Ids /\ timers \subseteq Ids
  /\ creating \in [Ids -> {"none", "made", "published", "done"}]
  /\ provisioning \in [Ids -> {"none", "started", "waits", "done"}]
  /\ entries \in Seq(Ids \X {"created", "approved", "temporary-link-created", "ended"})
  /\ trimmed \in BOOLEAN
  /\ fallback \in [Ids -> People \cup {Nobody}]

\* How far a session has come: a fallback belongs to the WebRTC server alone,
\* what is listed was made, and only a session without a host waits for an
\* approval, before it has an end.  One with a host is provisioned by no one
\* but the step that follows its publication.
Stages(i) ==
  /\ session[i] = NoSession => i \notin sessions /\ creating[i] = "none"
  /\ session[i] # NoSession => fallback[i] = Nobody
  /\ session[i] # NoSession /\ session[i].state = "waiting-for-approval" =>
       session[i].host = NoHost /\ ~ session[i].endedAt
  /\ session[i] # NoSession /\ session[i].host # NoHost /\ creating[i] # "done" =>
       provisioning[i] = "none"
  /\ session[i] = NoSession => provisioning[i] = "none"

\* The properties for one session.
NotRevived(i) ==
  session[i] # NoSession /\ session[i].endedAt /\ session[i].state \notin Final /\ i \notin touched
    => provisioning[i] \in {"waits", "done"}
Findable(i) ==
  i \in sessions /\ creating[i] = "done" /\ session[i].state = "waiting-for-approval"
    => i \in pendingApprovals

logged == {entries[n] : n \in 1 .. Len(entries)}
Explained(i) ==
  /\ provisioning[i] # "none" => <<i, "created">> \in logged \/ <<i, "approved">> \in logged
  /\ i \in timers => <<i, "ended">> \in logged

SessionInv ==
  /\ SessionTypes
  /\ \A i \in Ids : Stages(i) /\ NotRevived(i) /\ Findable(i)
  /\ trimmed \/ \A i \in Ids : Explained(i)

-----------------------------------------------------------------------------
\* The audit log gains an entry and, until it is full, loses none.
LEMMA LogGrows ==
  ASSUME SessionTypes, NEW i \in Ids,
         NEW a \in {"created", "approved", "temporary-link-created", "ended"}, Log(i, a)
  PROVE  /\ entries' \in Seq(Ids \X {"created", "approved", "temporary-link-created", "ended"})
         /\ trimmed' \in BOOLEAN
         /\ ~ trimmed' => ~ trimmed /\ logged' = logged \cup {<<i, a>>}
<1> DEFINE E == Ids \X {"created", "approved", "temporary-link-created", "ended"}
           longer == Append(entries, <<i, a>>)
<1>1. entries \in Seq(E) /\ <<i, a>> \in E
  BY DEF SessionTypes
<1>2. /\ longer \in Seq(E) /\ longer # << >> /\ Len(longer) = Len(entries) + 1
      /\ Len(entries) \in Nat /\ longer[Len(entries) + 1] = <<i, a>>
      /\ \A k \in 1 .. Len(entries) : longer[k] = entries[k]
  BY <1>1
<1>3. \/ entries' = Tail(longer) /\ trimmed' = TRUE
      \/ entries' = longer /\ trimmed' = trimmed
  BY DEF Log
<1>4. entries' \in Seq(E) /\ trimmed' \in BOOLEAN
  <2> HIDE DEF longer, E
  <2>1. Tail(longer) \in Seq(E)
    BY <1>2
  <2> QED
    BY <2>1, <1>2, <1>3 DEF SessionTypes
<1>5. ASSUME ~ trimmed' PROVE ~ trimmed /\ logged' = logged \cup {<<i, a>>}
  <2>1. entries' = longer /\ ~ trimmed
    BY <1>3, <1>5
  <2> HIDE DEF longer
  <2>2. ASSUME NEW x PROVE x \in logged' <=> x \in logged \/ x = <<i, a>>
    <3>1. x \in logged' <=> \E n \in 1 .. Len(entries) + 1 : x = longer[n]
      BY <1>2, <2>1 DEF logged
    <3>2. ASSUME NEW n \in 1 .. Len(entries) + 1
          PROVE  n \in 1 .. Len(entries) \/ n = Len(entries) + 1
      BY <1>2
    <3>3. x \in logged => \E n \in 1 .. Len(entries) + 1 : x = longer[n]
      BY <1>2 DEF logged
    <3>4. Len(entries) + 1 \in 1 .. Len(entries) + 1
      BY <1>2
    <3>5. ASSUME NEW n \in 1 .. Len(entries) + 1, x = longer[n]
          PROVE  x \in logged \/ x = <<i, a>>
      BY <1>2, <3>2, <3>5 DEF logged
    <3> QED
      BY <1>2, <3>1, <3>3, <3>4, <3>5
  <2> QED
    BY <2>1, <2>2
<1> QED
  BY <1>4, <1>5

LEMMA NewSessionType ==
  ASSUME NEW u \in People, NEW host \in Hosts \cup {NoHost}, NEW order \in Orders,
         host = NoHost <=> needsApproval(order)
  PROVE  /\ newSession(u, order, host) \in SessionRecords
         /\ newSession(u, order, host).host = host
         /\ newSession(u, order, host).state = "waiting-for-approval" => host = NoHost
         /\ ~ newSession(u, order, host).endedAt
BY DEF newSession, SessionRecords, SessionStates

LEMMA LinkAdded ==
  ASSUME NEW old \in SessionRecords
  PROVE  LET new == [old EXCEPT !.links = @ + 1]
         IN  /\ new \in SessionRecords /\ new.host = old.host /\ new.owner = old.owner
             /\ new.endedAt = old.endedAt /\ new.state = old.state
<1> DEFINE n == old.links + 1
<1>1. n \in Nat
  BY DEF SessionRecords
<1> HIDE DEF n
<1> QED
  BY <1>1 DEF SessionRecords, n

LEMMA AllocatedIsHost ==
  ASSUME AllocatorTypes, NEW order \in Orders, NEW h \in AllocateHost(order)
  PROVE  h \in Hosts
BY SessionAssumption DEF AllocatorTypes, AllocateHost, selectBestHost, candidates

LEMMA SessionsInitInv == SessionsInit => SessionInv
<1> SUFFICES ASSUME SessionsInit PROVE SessionInv
  OBVIOUS
<1>1. SessionTypes
  <2>1. entries \in Seq(Ids \X {"created", "approved", "temporary-link-created", "ended"})
    BY DEF SessionsInit
  <2> QED
    BY <2>1 DEF SessionsInit, SessionTypes
<1>2. \A i \in Ids : Stages(i) /\ NotRevived(i) /\ Findable(i) /\ Explained(i)
  BY DEF SessionsInit, Stages, NotRevived, Findable, Explained
<1> QED
  BY <1>1, <1>2 DEF SessionInv

LEMMA PublishedInv == ASSUME SessionInv, NEW i \in Ids, Published(i) PROVE SessionInv'
<1> USE SessionAssumption DEF SessionInv
<1>1. SessionTypes'
  BY DEF SessionTypes, Published
<1>2. ASSUME NEW j \in Ids PROVE Stages(j)' /\ NotRevived(j)' /\ Findable(j)'
  BY DEF SessionTypes, Stages, NotRevived, Findable, Published
<1>8. logged' = logged
  BY DEF logged, Published
<1>3. trimmed' \/ \A j \in Ids : Explained(j)'
  BY <1>8 DEF SessionTypes, Explained, Published
<1> QED
  BY <1>1, <1>2, <1>3

LEMMA CreatedInv == ASSUME SessionInv, NEW i \in Ids, Created(i) PROVE SessionInv'
<1> USE SessionAssumption DEF SessionInv
<1>1. /\ entries' \in Seq(Ids \X {"created", "approved", "temporary-link-created", "ended"})
      /\ trimmed' \in BOOLEAN
      /\ ~ trimmed' => ~ trimmed /\ logged' = logged \cup {<<i, "created">>}
  BY LogGrows DEF Created
<1>2. SessionTypes'
  BY <1>1 DEF SessionTypes, Created
<1>3. ASSUME NEW j \in Ids PROVE Stages(j)' /\ NotRevived(j)' /\ Findable(j)'
  BY DEF SessionTypes, Stages, NotRevived, Findable, Created
<1>4. trimmed' \/ \A j \in Ids : Explained(j)'
  BY <1>1 DEF SessionTypes, Explained, Created
<1> QED
  BY <1>2, <1>3, <1>4

LEMMA createSessionRequiringApprovalInv == ASSUME SessionInv, NEW i \in Ids, createSessionRequiringApproval(i) PROVE SessionInv'
<1> USE SessionAssumption DEF SessionInv
<1>1. SessionTypes'
  BY DEF SessionTypes, createSessionRequiringApproval
<1>2. ASSUME NEW j \in Ids PROVE Stages(j)' /\ NotRevived(j)' /\ Findable(j)'
  BY DEF SessionTypes, Stages, NotRevived, Findable, createSessionRequiringApproval
<1>8. logged' = logged
  BY DEF logged, createSessionRequiringApproval
<1>3. trimmed' \/ \A j \in Ids : Explained(j)'
  BY <1>8 DEF SessionTypes, Explained, createSessionRequiringApproval
<1> QED
  BY <1>1, <1>2, <1>3

LEMMA ForgetInv == ASSUME SessionInv, NEW i \in Ids, Forget(i) PROVE SessionInv'
<1> USE SessionAssumption DEF SessionInv
<1>1. SessionTypes'
  BY DEF SessionTypes, Forget
<1>2. ASSUME NEW j \in Ids PROVE Stages(j)' /\ NotRevived(j)' /\ Findable(j)'
  BY DEF SessionTypes, Stages, NotRevived, Findable, Forget
<1>8. logged' = logged
  BY DEF logged, Forget
<1>3. trimmed' \/ \A j \in Ids : Explained(j)'
  BY <1>8 DEF SessionTypes, Explained, Forget
<1> QED
  BY <1>1, <1>2, <1>3

LEMMA provisionSessionInv == ASSUME SessionInv, NEW i \in Ids, provisionSession(i) PROVE SessionInv'
<1> USE SessionAssumption DEF SessionInv
<1> DEFINE old == session[i]
           new == [old EXCEPT !.state = IF provisioning[i] = "started" THEN "provisioning" ELSE "connecting"]
<1>1. old \in SessionRecords
  BY DEF SessionTypes, Stages, provisionSession
<1>2. new \in SessionRecords /\ new.host = old.host /\ new.owner = old.owner
      /\ new.endedAt = old.endedAt /\ new.state \in {"provisioning", "connecting"}
  BY <1>1 DEF SessionTypes, SessionRecords, SessionStates, Final
<1>3. /\ session' = [session EXCEPT ![i] = new]
      /\ UNCHANGED <<sessions, pendingApprovals, creating, timers, entries, trimmed, touched, fallback>>
      /\ provisioning[i] \in {"started", "waits"}
      /\ provisioning' = [provisioning EXCEPT ![i] = IF @ = "started" THEN "waits" ELSE "done"]
  BY <1>1 DEF SessionTypes, SessionRecords, provisionSession
<1> HIDE DEF new
<1>5. SessionTypes'
  BY <1>2, <1>3 DEF SessionTypes
<1>6. ASSUME NEW j \in Ids PROVE Stages(j)' /\ NotRevived(j)' /\ Findable(j)'
  <2>1. CASE j = i
    <3>1. Stages(j)'
      BY <2>1, <1>1, <1>2, <1>3 DEF SessionTypes, Stages, Final
    <3>2. NotRevived(j)'
      BY <2>1, <1>1, <1>2, <1>3 DEF SessionTypes, Stages, NotRevived, Final
    <3>3. Findable(j)'
      BY <2>1, <1>1, <1>2, <1>3 DEF SessionTypes, Stages, Findable, Final
    <3> QED
      BY <3>1, <3>2, <3>3
  <2>2. CASE j # i
    BY <2>2, <1>3 DEF SessionTypes, Stages, NotRevived, Findable
  <2> QED
    BY <2>1, <2>2
<1>8. logged' = logged
  BY DEF logged, provisionSession
<1>7. trimmed' \/ \A j \in Ids : Explained(j)'
  BY <1>8 DEF SessionTypes, Explained, provisionSession
<1> QED
  BY <1>5, <1>6, <1>7

LEMMA ApproveSessionInv == ASSUME SessionInv, NEW i \in Ids, ApproveSession(i) PROVE SessionInv'
<1> USE SessionAssumption DEF SessionInv
<1> DEFINE old == session[i]
           new == [old EXCEPT !.state = "queued"]
<1>1. old \in SessionRecords
  BY DEF SessionTypes, Stages, ApproveSession
<1>2. new \in SessionRecords /\ new.host = old.host /\ new.owner = old.owner
      /\ new.endedAt = old.endedAt /\ new.state = "queued"
  BY <1>1 DEF SessionTypes, SessionRecords, SessionStates, Final
<1>3. session' = [session EXCEPT ![i] = new]
  BY <1>1 DEF SessionTypes, SessionRecords, ApproveSession
<1> HIDE DEF new
<1>4. /\ entries' \in Seq(Ids \X {"created", "approved", "temporary-link-created", "ended"})
      /\ trimmed' \in BOOLEAN
      /\ ~ trimmed' => ~ trimmed /\ logged' = logged \cup {<<i, "approved">>}
  BY LogGrows DEF ApproveSession
<1>5. SessionTypes'
  <2>1. session' \in [Ids -> SessionRecords \cup {NoSession}]
    BY <1>2, <1>3 DEF SessionTypes
  <2> QED
    BY <2>1, <1>4 DEF SessionTypes, ApproveSession
<1>6. ASSUME NEW j \in Ids PROVE Stages(j)' /\ NotRevived(j)' /\ Findable(j)'
  <2>1. CASE j = i
    <3>1. Stages(j)'
      <4>1. /\ session'[i] = new /\ i \in sessions /\ session[i] # NoSession
            /\ UNCHANGED <<sessions, creating, fallback>> /\ provisioning'[i] = "started" /\ Stages(i)
        BY <1>1, <1>3 DEF SessionTypes, Stages, ApproveSession
      <4>2. session[i].state = "waiting-for-approval"
        BY DEF ApproveSession
      <4> QED
        BY <2>1, <1>1, <1>2, <4>1, <4>2 DEF Stages, SessionRecords
    <3>2. NotRevived(j)'
      BY <2>1, <1>1, <1>2, <1>3 DEF SessionTypes, Stages, NotRevived, Final, ApproveSession
    <3>3. Findable(j)'
      BY <2>1, <1>1, <1>2, <1>3 DEF SessionTypes, Stages, Findable, Final, ApproveSession
    <3> QED
      BY <3>1, <3>2, <3>3
  <2>2. CASE j # i
    BY <2>2, <1>3 DEF SessionTypes, Stages, NotRevived, Findable, ApproveSession
  <2> QED
    BY <2>1, <2>2
<1>7. trimmed' \/ \A j \in Ids : Explained(j)'
  BY <1>4 DEF SessionTypes, Explained, ApproveSession
<1> QED
  BY <1>5, <1>6, <1>7

LEMMA UpdateSessionStateInv == ASSUME SessionInv, NEW i \in Ids, NEW state \in NewStates, UpdateSessionState(i, state) PROVE SessionInv'
<1> USE SessionAssumption DEF SessionInv
<1> DEFINE old == session[i]
           new == [old EXCEPT !.state = state, !.endedAt = @ \/ state \in Final]
<1>1. old \in SessionRecords
  BY DEF SessionTypes, Stages, UpdateSessionState
<1>2. new \in SessionRecords /\ new.host = old.host /\ new.owner = old.owner
      /\ new.endedAt = (old.endedAt \/ state \in Final) /\ new.state = state
  BY <1>1 DEF SessionTypes, SessionRecords, SessionStates, Final
<1>3. /\ session' = [session EXCEPT ![i] = new]
      /\ UNCHANGED <<sessions, pendingApprovals, creating, provisioning, timers, entries, trimmed, fallback>>
      /\ i \in sessions /\ touched' = IF old.endedAt THEN touched \cup {i} ELSE touched
  BY <1>1 DEF SessionTypes, SessionRecords, UpdateSessionState
<1> HIDE DEF new
<1>5. SessionTypes'
  BY <1>2, <1>3 DEF SessionTypes
<1>6. ASSUME NEW j \in Ids PROVE Stages(j)' /\ NotRevived(j)' /\ Findable(j)'
  <2>1. CASE j = i
    <3>1. Stages(j)'
      BY <2>1, <1>1, <1>2, <1>3 DEF SessionTypes, Stages, Final
    <3>2. NotRevived(j)'
      BY <2>1, <1>1, <1>2, <1>3 DEF SessionTypes, Stages, NotRevived, Final
    <3>3. Findable(j)'
      BY <2>1, <1>1, <1>2, <1>3 DEF SessionTypes, Stages, Findable, Final
    <3> QED
      BY <3>1, <3>2, <3>3
  <2>2. CASE j # i
    BY <2>2, <1>3 DEF SessionTypes, Stages, NotRevived, Findable
  <2> QED
    BY <2>1, <2>2
<1>8. logged' = logged
  BY DEF logged, UpdateSessionState
<1>7. trimmed' \/ \A j \in Ids : Explained(j)'
  BY <1>8 DEF SessionTypes, Explained, UpdateSessionState
<1> QED
  BY <1>5, <1>6, <1>7

LEMMA CreateTemporaryAccessLinkInv == ASSUME SessionInv, NEW i \in Ids, CreateTemporaryAccessLink(i) PROVE SessionInv'
<1> USE SessionAssumption DEF SessionInv
<1> DEFINE old == session[i]
           new == [old EXCEPT !.links = @ + 1]
<1>1. old \in SessionRecords
  BY DEF SessionTypes, Stages, CreateTemporaryAccessLink
<1>2. new \in SessionRecords /\ new.host = old.host /\ new.owner = old.owner
      /\ new.endedAt = old.endedAt /\ new.state = old.state
  BY <1>1, LinkAdded
<1>3. session' = [session EXCEPT ![i] = new]
  BY <1>1 DEF SessionTypes, SessionRecords, CreateTemporaryAccessLink
<1> HIDE DEF new
<1>4. /\ entries' \in Seq(Ids \X {"created", "approved", "temporary-link-created", "ended"})
      /\ trimmed' \in BOOLEAN
      /\ ~ trimmed' => ~ trimmed /\ logged' = logged \cup {<<i, "temporary-link-created">>}
  BY LogGrows DEF CreateTemporaryAccessLink
<1>5. SessionTypes'
  <2>1. session' \in [Ids -> SessionRecords \cup {NoSession}]
    BY <1>2, <1>3 DEF SessionTypes
  <2> QED
    BY <2>1, <1>4 DEF SessionTypes, CreateTemporaryAccessLink
<1>6. ASSUME NEW j \in Ids PROVE Stages(j)' /\ NotRevived(j)' /\ Findable(j)'
  <2>1. CASE j = i
    <3>1. Stages(j)'
      <4>1. /\ session'[i] = new /\ i \in sessions /\ session[i] # NoSession
            /\ UNCHANGED <<sessions, creating, fallback>> /\ UNCHANGED provisioning /\ Stages(i)
        BY <1>1, <1>3 DEF SessionTypes, Stages, CreateTemporaryAccessLink
      <4> QED
        BY <2>1, <1>1, <1>2, <4>1 DEF Stages, SessionRecords
    <3>2. NotRevived(j)'
      BY <2>1, <1>1, <1>2, <1>3 DEF SessionTypes, Stages, NotRevived, Final, CreateTemporaryAccessLink
    <3>3. Findable(j)'
      BY <2>1, <1>1, <1>2, <1>3 DEF SessionTypes, Stages, Findable, Final, CreateTemporaryAccessLink
    <3> QED
      BY <3>1, <3>2, <3>3
  <2>2. CASE j # i
    BY <2>2, <1>3 DEF SessionTypes, Stages, NotRevived, Findable, CreateTemporaryAccessLink
  <2> QED
    BY <2>1, <2>2
<1>7. trimmed' \/ \A j \in Ids : Explained(j)'
  BY <1>4 DEF SessionTypes, Explained, CreateTemporaryAccessLink
<1> QED
  BY <1>5, <1>6, <1>7

LEMMA EndSessionInv == ASSUME SessionInv, NEW i \in Ids, EndSession(i) PROVE SessionInv'
<1> USE SessionAssumption DEF SessionInv
<1> DEFINE old == session[i]
           new == [old EXCEPT !.state = "ended", !.endedAt = TRUE]
<1>1. old \in SessionRecords
  BY DEF SessionTypes, Stages, EndSession
<1>2. new \in SessionRecords /\ new.host = old.host /\ new.owner = old.owner
      /\ new.endedAt /\ new.state = "ended"
  BY <1>1 DEF SessionTypes, SessionRecords, SessionStates, Final
<1>3. /\ session' = [session EXCEPT ![i] = new]
      /\ UNCHANGED <<sessions, pendingApprovals, creating, provisioning, touched, fallback>>
      /\ i \in sessions /\ timers' = timers \cup {i}
  BY <1>1 DEF SessionTypes, SessionRecords, EndSession
<1> HIDE DEF new
<1>4. /\ entries' \in Seq(Ids \X {"created", "approved", "temporary-link-created", "ended"})
      /\ trimmed' \in BOOLEAN
      /\ ~ trimmed' => ~ trimmed /\ logged' = logged \cup {<<i, "ended">>}
  BY LogGrows DEF EndSession
<1>5. SessionTypes'
  <2>1. session' \in [Ids -> SessionRecords \cup {NoSession}] /\ timers' \subseteq Ids
    BY <1>2, <1>3 DEF SessionTypes
  <2> QED
    BY <2>1, <1>3, <1>4 DEF SessionTypes
<1>6. ASSUME NEW j \in Ids PROVE Stages(j)' /\ NotRevived(j)' /\ Findable(j)'
  <2>1. CASE j = i
    <3>1. Stages(j)'
      BY <2>1, <1>1, <1>2, <1>3 DEF SessionTypes, Stages, Final
    <3>2. NotRevived(j)'
      BY <2>1, <1>1, <1>2, <1>3 DEF SessionTypes, Stages, NotRevived, Final
    <3>3. Findable(j)'
      BY <2>1, <1>1, <1>2, <1>3 DEF SessionTypes, Stages, Findable, Final
    <3> QED
      BY <3>1, <3>2, <3>3
  <2>2. CASE j # i
    BY <2>2, <1>3 DEF SessionTypes, Stages, NotRevived, Findable
  <2> QED
    BY <2>1, <2>2
<1>7. trimmed' \/ \A j \in Ids : Explained(j)'
  BY <1>4 DEF SessionTypes, Explained, EndSession
<1> QED
  BY <1>5, <1>6, <1>7

LEMMA webrtcCreateSessionInv ==
  ASSUME SessionInv, NEW i \in Ids, NEW u \in People, webrtcCreateSession(i, u)
  PROVE  SessionInv'
<1> USE SessionAssumption DEF SessionInv
<1>1. SessionTypes'
  BY DEF SessionTypes, webrtcCreateSession
<1>2. ASSUME NEW j \in Ids PROVE Stages(j)' /\ NotRevived(j)' /\ Findable(j)'
  BY DEF SessionTypes, Stages, NotRevived, Findable, webrtcCreateSession
<1>3. logged' = logged /\ UNCHANGED <<trimmed, provisioning, timers>>
  BY DEF logged, webrtcCreateSession
<1>4. trimmed' \/ \A j \in Ids : Explained(j)'
  BY <1>3 DEF Explained
<1> QED
  BY <1>1, <1>2, <1>4

LEMMA CreateSessionInv ==
  ASSUME SessionInv, NEW i \in Ids, NEW u \in People, NEW order \in Orders,
         NEW host \in Hosts \cup {NoHost}, host = NoHost <=> needsApproval(order),
         CreateSession(i, u, host, order)
  PROVE  SessionInv'
<1> USE SessionAssumption DEF SessionInv
<1> DEFINE new == newSession(u, order, host)
<1>1. /\ new \in SessionRecords /\ new.host = host /\ ~ new.endedAt
      /\ new.state = "waiting-for-approval" => host = NoHost
  BY NewSessionType
<1>2. session' = [session EXCEPT ![i] = new]
  BY DEF CreateSession
<1> HIDE DEF new
<1>3. SessionTypes'
  <2>1. session' \in [Ids -> SessionRecords \cup {NoSession}]
    BY <1>1, <1>2 DEF SessionTypes
  <2> QED
    BY <2>1 DEF SessionTypes, CreateSession
<1>4. ASSUME NEW j \in Ids PROVE Stages(j)' /\ NotRevived(j)' /\ Findable(j)'
  <2>1. CASE j = i
    <3>1. Stages(j)'
      <4>1. /\ session'[i] = new /\ session[i] = NoSession /\ fallback'[i] = Nobody
            /\ UNCHANGED <<sessions, provisioning>> /\ creating'[i] = "made" /\ Stages(i)
        BY <1>2 DEF SessionTypes, CreateSession
      <4> QED
        BY <2>1, <1>1, <4>1 DEF Stages
    <3>2. NotRevived(j)'
      BY <2>1, <1>1, <1>2 DEF SessionTypes, Stages, NotRevived, CreateSession
    <3>3. Findable(j)'
      BY <2>1, <1>1, <1>2 DEF SessionTypes, Stages, Findable, CreateSession
    <3> QED
      BY <3>1, <3>2, <3>3
  <2>2. CASE j # i
    BY <2>2, <1>2 DEF SessionTypes, Stages, NotRevived, Findable, CreateSession
  <2> QED
    BY <2>1, <2>2
<1>5. logged' = logged /\ UNCHANGED <<trimmed, provisioning, timers>>
  BY DEF logged, CreateSession
<1>6. trimmed' \/ \A j \in Ids : Explained(j)'
  BY <1>5 DEF Explained
<1> QED
  BY <1>3, <1>4, <1>6

LEMMA SessionsNextInv ==
  AllocatorTypes /\ AllAgree /\ SessionInv /\ [SessionsNext]_<<allocatorVars, sessionVars>>
    => AllocatorTypes' /\ AllAgree' /\ SessionInv'
<1> SUFFICES ASSUME AllocatorTypes, AllAgree, SessionInv,
                    [SessionsNext]_<<allocatorVars, sessionVars>>
             PROVE  AllocatorTypes' /\ AllAgree' /\ SessionInv'
  OBVIOUS
<1>1. UNCHANGED allocatorVars => AllocatorTypes' /\ AllAgree'
  BY DEF AllocatorTypes, AllAgree, Agrees, AgreesOnRegion, AgreesOnClass, AgreesOnline,
         allocatorVars, registry, jobVars
<1>2. UNCHANGED sessionVars => SessionInv'
  <2> SUFFICES ASSUME UNCHANGED sessionVars PROVE SessionInv'
    OBVIOUS
  <2>1. SessionTypes' /\ logged' = logged
    BY DEF SessionInv, SessionTypes, logged, sessionVars
  <2>2. \A j \in Ids : /\ Stages(j)' /\ NotRevived(j)' /\ Findable(j)'
                       /\ Explained(j) => Explained(j)'
    BY <2>1 DEF SessionInv, Stages, NotRevived, Findable, Explained, sessionVars
  <2> QED
    BY <2>1, <2>2 DEF SessionInv, sessionVars
<1>3. ASSUME NEW i \in Ids, SessionsStep(i) PROVE SessionInv'
  <2>1. ASSUME NEW u \in People, NEW order \in Orders, handleCreateSession(i, u, order)
        PROVE  SessionInv'
    <3>1. CASE needsApproval(order)
      BY <2>1, <3>1, CreateSessionInv DEF handleCreateSession
    <3>2. CASE ~ needsApproval(order) /\ AllocateHost(order) = {}
      BY <2>1, <3>2, webrtcCreateSessionInv DEF handleCreateSession
    <3>3. CASE ~ needsApproval(order) /\ AllocateHost(order) # {}
      <4>1. PICK h \in AllocateHost(order) : CreateSession(i, u, h, order)
        BY <2>1, <3>3 DEF handleCreateSession
      <4>2. h \in Hosts /\ h # NoHost
        BY AllocatedIsHost, SessionAssumption
      <4> QED
        BY <3>3, <4>1, <4>2, CreateSessionInv
    <3> QED
      BY <3>1, <3>2, <3>3
  <2>2. ASSUME NEW u \in People, handleEndSession(i, u) PROVE SessionInv'
    BY <2>2, EndSessionInv DEF handleEndSession
  <2> QED
    BY <1>3, <2>1, <2>2, PublishedInv, CreatedInv, createSessionRequiringApprovalInv,
       provisionSessionInv, ApproveSessionInv, CreateTemporaryAccessLinkInv,
       UpdateSessionStateInv, ForgetInv DEF SessionsStep
<1>4. CASE RegistryStep /\ UNCHANGED <<jobVars, sessionVars>>
  BY <1>4, <1>2, RegistryInv
<1> QED
  BY <1>1, <1>2, <1>3, <1>4 DEF SessionsNext

LEMMA SessionsAlways == SessionsSpec => []SessionInv
<1>1. AllocatorInit /\ SessionsInit => AllocatorTypes /\ AllAgree /\ SessionInv
  BY AllocatorInitInv, SessionsInitInv DEF AllocatorInv
<1>2. AllocatorTypes /\ AllAgree /\ SessionInv /\ [SessionsNext]_<<allocatorVars, sessionVars>>
        => AllocatorTypes' /\ AllAgree' /\ SessionInv'
  BY SessionsNextInv
<1> QED
  BY <1>1, <1>2, PTL DEF SessionsSpec

\* An end is undone by nobody but the goroutine that was provisioning and the
\* callers of UpdateSessionState: an approval never revives a session.
THEOREM RevivedOnlyByProvisioningHolds == SessionsSpec => []RevivedOnlyByProvisioning
<1>1. SessionInv => RevivedOnlyByProvisioning
  BY DEF SessionInv, NotRevived, RevivedOnlyByProvisioning
<1> QED
  BY <1>1, SessionsAlways, PTL

\* Every session that waits for an approval is among those an approver is shown.
THEOREM WaitingIsPendingHolds == SessionsSpec => []WaitingIsPending
<1>1. SessionInv => WaitingIsPending
  BY DEF SessionInv, SessionTypes, Findable, WaitingIsPending
<1> QED
  BY <1>1, SessionsAlways, PTL

\* Until the log has dropped an entry it explains every provisioning and
\* every deletion timer.
THEOREM AuditExplainsHolds == SessionsSpec => []AuditExplains
<1>1. SessionInv => AuditExplains
  BY DEF SessionInv, Explained, logged, AuditExplains
<1> QED
  BY <1>1, SessionsAlways, PTL

\* Whoever sees a session in the list may end it, whichever manager holds it.
THEOREM ListedMayBeEndedHolds == SessionsSpec => []ListedMayBeEnded
<1>1. ASSUME SessionInv PROVE ListedMayBeEnded
  <2> SUFFICES ASSUME NEW u \in People, NEW i \in handleListSessions(u)
               PROVE  requireSessionOwner(i, u)
    BY DEF ListedMayBeEnded
  <2>1. CASE i \in sessions
    <3>1. session[i] \in SessionRecords /\ fallback[i] = Nobody
      BY <1>1, <2>1 DEF SessionInv, SessionTypes, Stages
    <3>2. session[i].owner \in People
      BY <3>1 DEF SessionRecords
    <3> QED
      BY <2>1, <3>1, <3>2, SessionAssumption
      DEF handleListSessions, requireSessionOwner, sessionOwnerFromPath
  <2>2. CASE i \notin sessions
    BY <2>2 DEF handleListSessions, requireSessionOwner, sessionOwnerFromPath
  <2> QED
    BY <2>1, <2>2
<1> QED
  BY <1>1, SessionsAlways, PTL

\* Every session can be accounted for: why it lives after its end, who has to
\* approve it, what the log says of it, and who may end it.
THEOREM SessionsAccountableHolds == SessionsSpec => []SessionsAccountable
<1>1. RevivedOnlyByProvisioning /\ WaitingIsPending /\ AuditExplains /\ ListedMayBeEnded => SessionsAccountable
  BY DEF SessionsAccountable
<1> QED
  BY <1>1, RevivedOnlyByProvisioningHolds, WaitingIsPendingHolds, AuditExplainsHolds, ListedMayBeEndedHolds, PTL
=============================================================================
