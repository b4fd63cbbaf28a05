---------------------------- MODULE HostAllocator ----------------------------
(***************************************************************************)
(* The host allocator and the session queue of the gateway's session        *)
(* package (internal/session/allocator.go, scheduler.go).                   *)
(*                                                                          *)
(* The gateway itself registers no host and queues no session: this is the  *)
(* package as its exported functions can be called.  Every registry         *)
(* operation holds hostsMutex throughout; processQueue holds queueMutex     *)
(* while it pops and while it puts back, and not while it allocates.        *)
(*                                                                          *)
(* Left out: what a host reports and nothing reads.                         *)
(***************************************************************************)
EXTENDS Integers, FiniteSets, FiniteSetsExt

CONSTANTS Hosts, NoHost,
          Descriptions,  \* what hosts register with
          Loads,         \* the loads they report
          Regions, Classes,
          Jobs,          \* ids of the sessions put in the queue
          Asks,          \* their requests
          NoJob,
          MaxFailed      \* maxFailures

\* What is kept of a host, and of a queued session.
HostRecords ==
  [region : Regions \cup {""}, classes : SUBSET Classes, gpu : BOOLEAN, latency : Int,
   online : BOOLEAN, fresh : BOOLEAN, load : Loads]
QueueItems == [job : Jobs, ask : Asks, failed : Nat, priority : Nat]

ASSUME AllocatorAssumption ==
  /\ Descriptions \subseteq HostRecords /\ NoHost \notin HostRecords
  /\ NoJob \notin QueueItems /\ "" \notin Regions /\ MaxFailed \in Nat \ {0}

VARIABLES
  hosts,       \* HostAllocator.hosts: [Hosts -> description or NoHost]
  byRegion,    \* an index without an entry and one with an empty map
  byClass,     \*   are both {}: the code deletes empty maps
  byOnline,
  waiting,     \* SessionScheduler.queue
  popped,      \* the item processQueue has taken out
  fate         \* [Jobs -> what became of it]

registry == <<hosts, byRegion, byClass, byOnline>>
jobVars == <<waiting, popped, fate>>
allocatorVars == <<registry, jobVars>>

(***************************************************************************)
(* The registry and its indexes.                                            *)
(***************************************************************************)
RegisterHost(h, d) ==
  /\ hosts[h] = NoHost
  /\ hosts' = [hosts EXCEPT ![h] = d]
  /\ byRegion' = [r \in Regions |-> byRegion[r] \cup (IF r = d.region THEN {h} ELSE {})]
  /\ byClass' = [c \in Classes |-> byClass[c] \cup (IF c \in d.classes THEN {h} ELSE {})]
  /\ byOnline' = byOnline \cup (IF d.online THEN {h} ELSE {})

\* Mutant: only the region's index is cleaned.
UnregisterFromRegion(h) ==
  /\ hosts[h] # NoHost
  /\ hosts' = [hosts EXCEPT ![h] = NoHost]
  /\ byRegion' = [byRegion EXCEPT ![hosts[h].region] = @ \ {h}]
  /\ UNCHANGED <<byClass, byOnline>>

\* Only the entries the record of the host names are taken out.
UnregisterHost(h) ==
  /\ hosts[h] # NoHost
  /\ hosts' = [hosts EXCEPT ![h] = NoHost]
  /\ byRegion' = [r \in Regions |-> byRegion[r] \ (IF r = hosts[h].region THEN {h} ELSE {})]
  /\ byClass' = [c \in Classes |-> byClass[c] \ (IF c \in hosts[h].classes THEN {h} ELSE {})]
  /\ byOnline' = byOnline \ {h}

UpdateHostLoad(h, load) ==
  /\ hosts[h] # NoHost
  /\ hosts' = [hosts EXCEPT ![h].load = load, ![h].fresh = TRUE, ![h].online = TRUE]
  /\ byOnline' = IF hosts[h].online THEN byOnline ELSE byOnline \cup {h}
  /\ UNCHANGED <<byRegion, byClass>>

\* Five minutes pass without a report.
GoSilent(h) ==
  /\ hosts[h] # NoHost
  /\ hosts' = [hosts EXCEPT ![h].fresh = FALSE]
  /\ UNCHANGED <<byRegion, byClass, byOnline>>

(***************************************************************************)
(* AllocateHost reserves nothing.  A class no host has is no restriction:   *)
(* its map is nil then, and the test is skipped.                            *)
(***************************************************************************)
hasCapacity(load, type) ==
  /\ load.cpu <= 80 /\ load.ram <= 80 /\ load.streams < 10
  /\ type = "gaming" => load.gpu <= 70 /\ load.encoder <= 80

candidates(ask) ==
  {h \in IF ask.region = "" THEN byOnline ELSE byRegion[ask.region] :
     /\ hosts[h].online /\ hosts[h].fresh
     /\ byClass[ask.class] # {} => h \in byClass[ask.class]
     /\ ask.gpu => hosts[h].gpu
     /\ hasCapacity(hosts[h].load, ask.type)}

\* In tenths of the code's points.
scoreHost(h, ask) ==
  LET d == hosts[h] IN
  (100 - d.load.cpu) * 3 + (100 - d.load.ram) * 2
  + (IF (ask.type = "gaming" \/ ask.gpu) /\ d.gpu
       THEN (100 - d.load.gpu) * 3 + (100 - d.load.encoder) * 2 ELSE 0)
  + (IF d.latency > 0 THEN 100 - d.latency ELSE 0)
  + (IF ask.class \in d.classes THEN 100 ELSE 0)

\* Candidates come in the order of a map: any of the best may be the first.
selectBestHost(found, ask) ==
  {h \in found : \A g \in found : scoreHost(g, ask) <= scoreHost(h, ask)}

AllocateHost(ask) == selectBestHost(candidates(ask), ask)

(***************************************************************************)
(* The queue.  A session is put in it at most once.                         *)
(***************************************************************************)
calculatePriority(ask) ==
  CASE ask.type = "gaming" -> 100 [] ask.type = "remote-support" -> 75
    [] ask.type = "desktop" -> 50 [] ask.type = "host" -> 25 [] OTHER -> 10

Enqueue(j, ask) ==
  /\ fate[j] = "new"
  /\ waiting' = waiting \cup {[job |-> j, ask |-> ask, failed |-> 0,
                               priority |-> calculatePriority(ask)]}
  /\ fate' = [fate EXCEPT ![j] = "waiting"]
  /\ UNCHANGED <<registry, popped>>

\* Finds nothing while the item is popped, and does nothing then.
Dequeue(j) ==
  \E item \in waiting :
    /\ item.job = j
    /\ waiting' = waiting \ {item}
    /\ fate' = [fate EXCEPT ![j] = "removed"]
    /\ UNCHANGED <<registry, popped>>

\* Mutant: the item stays in the queue while a host is sought.
Peek ==
  \E item \in waiting :
    /\ popped = NoJob
    /\ \A other \in waiting : other.priority <= item.priority
    /\ popped' = item
    /\ UNCHANGED <<registry, waiting, fate>>

Pop ==
  \E item \in waiting :
    /\ popped = NoJob
    /\ \A other \in waiting : other.priority <= item.priority
    /\ popped' = item /\ waiting' = waiting \ {item}
    /\ UNCHANGED <<registry, fate>>

Scheduled ==
  /\ popped # NoJob /\ AllocateHost(popped.ask) # {}
  /\ fate' = [fate EXCEPT ![popped.job] = "scheduled"]
  /\ popped' = NoJob
  /\ UNCHANGED <<registry, waiting>>

\* Mutant: the item is not put back.
LoseOnFailure ==
  /\ popped # NoJob /\ AllocateHost(popped.ask) = {}
  /\ fate' = IF popped.failed + 1 >= MaxFailed THEN [fate EXCEPT ![popped.job] = "dropped"] ELSE fate
  /\ popped' = NoJob
  /\ UNCHANGED <<registry, waiting>>

Failed ==
  /\ popped # NoJob /\ AllocateHost(popped.ask) = {}
  /\ IF popped.failed + 1 >= MaxFailed
       THEN fate' = [fate EXCEPT ![popped.job] = "dropped"] /\ UNCHANGED waiting
       ELSE /\ waiting' = waiting \cup {[popped EXCEPT !.failed = @ + 1,
                                                       !.priority = Max({@ - 1, 0})]}
            /\ UNCHANGED fate
  /\ popped' = NoJob
  /\ UNCHANGED registry

processQueue == Pop \/ Scheduled \/ Failed

RegistryStep ==
  \E h \in Hosts :
    \/ \E d \in Descriptions : RegisterHost(h, d)
    \/ UnregisterHost(h) \/ GoSilent(h)
    \/ \E load \in Loads : UpdateHostLoad(h, load)

AllocatorInit ==
  /\ hosts = [h \in Hosts |-> NoHost]
  /\ byRegion = [r \in Regions |-> {}] /\ byClass = [c \in Classes |-> {}]
  /\ byOnline = {}
  /\ waiting = {} /\ popped = NoJob
  /\ fate = [j \in Jobs |-> "new"]

AllocatorNext ==
  \/ RegistryStep /\ UNCHANGED jobVars
  \/ \E j \in Jobs : Dequeue(j) \/ \E ask \in Asks : Enqueue(j, ask)
  \/ processQueue

\* The ticker keeps firing until Stop, and nothing in the loop blocks.
AllocatorFairness == WF_allocatorVars(processQueue)

AllocatorSpec == AllocatorInit /\ [][AllocatorNext]_allocatorVars /\ AllocatorFairness

(***************************************************************************)
(* Properties.                                                              *)
(***************************************************************************)
\* The three indexes AllocateHost reads say of every host what the registry
\* says, whatever was registered, removed, registered anew with another
\* description and reported in between (allocator.go:119-206).
IndexesAgree ==
  LET registered == {h \in Hosts : hosts[h] # NoHost} IN
  /\ \A r \in Regions : byRegion[r] = {h \in registered : hosts[h].region = r}
  /\ \A c \in Classes : byClass[c] = {h \in registered : c \in hosts[h].classes}
  /\ byOnline = {h \in registered : hosts[h].online}

\* A session is in the queue, or in the hands of processQueue, exactly while
\* its fate is open: one that Dequeue found never comes back with the item
\* processQueue puts back (scheduler.go:105-116, 138-175).
OneFate ==
  LET held == waiting \cup ({popped} \ {NoJob}) IN
  /\ \A j \in Jobs : Cardinality({item \in held : item.job = j})
                       = (IF fate[j] = "waiting" THEN 1 ELSE 0)
  /\ popped \notin waiting

\* "Drop after 10 consecutive failures - otherwise a job that no host can
\* satisfy ... blocks every other job" (scheduler.go:158-160): every queued
\* session is scheduled, removed or dropped.
QueueIsServed == \A j \in Jobs : fate[j] = "waiting" ~> fate[j] # "waiting"

=============================================================================
