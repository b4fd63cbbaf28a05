---------------------------- MODULE TunnelProofs ----------------------------
(***************************************************************************)
(* Theorems about the tunnels: the Tailscale mappings of a user, the        *)
(* attempts of the host agent's slots, the sockets of a UDP route, the long *)
(* polls of a signaling room and the frames of the WebSocket bridge, for    *)
(* every number of slots, addresses, clients and frames.                    *)
(***************************************************************************)
EXTENDS AgentLoop, UDPClients, WebSocketBridge, SignalRooms, TailscaleHosts,
        TLAPS, FiniteSetTheorems, SequenceTheorems

(***************************************************************************)
(* Tailscale mappings.                                                      *)
(***************************************************************************)

\* A mapping is the newest one or forgotten; one that a look found outdated is
\* outdated still, or made under that look.
MappingInv ==
  /\ mapped \in Nat /\ mapping \in {0, mapped}
  /\ looked # 0 /\ mapping # 0 => mapping \in outdated \cup excused
  /\ MappingKept

\* Every step that touches the mappings keeps the invariant.
LEMMA MappingStep ==
  ASSUME MappingInv, TailscaleNext
  PROVE  MappingInv'
<1>1. CASE GatewayStops
  BY <1>1 DEF MappingInv, MappingKept, GatewayStops
<1>2. CASE UNCHANGED mappingVars
  BY <1>2 DEF MappingInv, MappingKept, mappingVars
<1>3. CASE MapAddress
  BY <1>3 DEF MappingInv, MappingKept, MapAddress
<1>4. CASE DayOver
  BY <1>4 DEF MappingInv, MappingKept, DayOver
<1>5. CASE LookUp
  BY <1>5 DEF MappingInv, MappingKept, LookUp
<1>6. CASE DeleteOutdated
  BY <1>6 DEF MappingInv, MappingKept, DeleteOutdated
<1>. QED
  BY <1>1, <1>2, <1>3, <1>4, <1>5, <1>6 DEF TailscaleNext

\* A user's mapping is there until its day is over or the gateway restarts,
\* unless it was made under a look that was about to delete the one before it
\* (server.go:1740-1774).
THEOREM MappingKeptHolds == TailscaleSpec => []MappingKept
<1>1. TailscaleInit => MappingInv
  BY DEF TailscaleInit, MappingInv, MappingKept
<1>2. MappingInv /\ [TailscaleNext]_tailscaleVars => MappingInv'
  <2>1. CASE UNCHANGED tailscaleVars
    BY <2>1 DEF MappingInv, MappingKept, tailscaleVars, mappingVars
  <2>. QED
    BY <2>1, MappingStep
<1>3. MappingInv => MappingKept
  BY DEF MappingInv
<1>. QED
  BY <1>1, <1>2, <1>3, PTL DEF TailscaleSpec

(***************************************************************************)
(* The attempts of a slot.                                                  *)
(***************************************************************************)
SlotState == [step : {"none", "dial", "connect", "request", "bridge", "delay", "exited"}, attempt : 0..MaxAttempt]
Resting == {"none", "delay", "dial", "exited"}

AttemptTypes ==
  /\ slot \in [Slots -> SlotState]
  /\ local \in [Slots -> {"none", "open", "broken"}]
  /\ uplink \in [Slots -> {"none", "open", "broken"}]

\* While a slot connects to the gateway it has no connection to it yet.
AttemptInv ==
  /\ AttemptTypes
  /\ NothingLeft
  /\ \A s \in Slots : slot[s].step = "connect" => uplink[s] = "none"

\* Every slot has a delay, and waited it.
DelayInv ==
  /\ delay = [s \in Slots |-> delay[s]] /\ baseDelay \in BaseDelays
  /\ NeverSpins

\* No delay that is computed is shorter than the shortest, as long as doubling
\* the first one stays in the word.
LEMMA BackoffBounded ==
  ASSUME AgentAssumption, baseDelay \in BaseDelays, NEW n \in 0..MaxAttempt, ~outOfRange(n)
  PROVE  computeBackoff(n) >= shortest
<1>0. baseDelay \in (-Word)..(Word - 1)
  BY DEF AgentAssumption
<1>1. PICK d \in baseDelay..(Word - 1) : d = baseDelay * 2^n
  BY DEF outOfRange
<1>2. wrapped(d) = d
  <2>1. d + Word \in 0..(2 * Word - 1)
    BY <1>0, <1>1 DEF AgentAssumption
  <2>2. (d + Word) % (2 * Word) = d + Word
    BY <2>1, <1>0, <1>1 DEF AgentAssumption
  <2>. QED
    BY <2>2, <1>0, <1>1 DEF wrapped, AgentAssumption
<1>3. computeBackoff(n) = IF d > MaxDelay THEN MaxDelay ELSE d
  BY <1>1, <1>2 DEF computeBackoff
<1>. QED
  BY <1>3, <1>0, <1>1 DEF shortest, AgentAssumption

\* Changing one field of a slot, or both, changes the slot to a whole state.
LEMMA OneSlotChanges ==
  ASSUME slot \in [Slots -> SlotState], NEW s \in Slots,
         NEW c \in {"none", "dial", "connect", "request", "bridge", "delay", "exited"}, NEW n \in 0..MaxAttempt,
         \/ slot' = [slot EXCEPT ![s].step = c, ![s].attempt = n]
         \/ slot' = [slot EXCEPT ![s].step = c]
  PROVE  /\ slot' \in [Slots -> SlotState]
         /\ slot'[s].step = c
         /\ \A t \in Slots \ {s} : slot'[t] = slot[t]
<1>. DEFINE both == [slot[s] EXCEPT !.step = c, !.attempt = n]
            one == [slot[s] EXCEPT !.step = c]
<1>1. slot[s] \in SlotState
  OBVIOUS
<1>2. both \in SlotState /\ both.step = c
  BY <1>1 DEF SlotState
<1>3. one \in SlotState /\ one.step = c
  BY <1>1 DEF SlotState
<1>4. slot' = [slot EXCEPT ![s] = both] \/ slot' = [slot EXCEPT ![s] = one]
  OBVIOUS
<1>. HIDE DEF both, one
<1>. QED
  BY <1>2, <1>3, <1>4

\* What returns does to the slot.
LEMMA ReturnsRests ==
  ASSUME AgentAssumption, AttemptTypes, NEW s \in Slots, NEW failed \in BOOLEAN, returns(s, failed)
  PROVE  /\ slot' \in [Slots -> SlotState]
         /\ slot'[s].step \in {"delay", "exited"}
         /\ \A t \in Slots \ {s} : slot'[t] = slot[t]
<1>. DEFINE c == IF stopping THEN "exited" ELSE "delay"
            n == IF ~failed /\ ~stopping THEN 0 ELSE slot[s].attempt
<1>1. slot \in [Slots -> SlotState] /\ slot[s].attempt \in 0..MaxAttempt
  BY DEF AttemptTypes, SlotState
<1>2. c \in {"delay", "exited"} /\ n \in 0..MaxAttempt
  BY <1>1 DEF AgentAssumption
<1>3. slot' = [slot EXCEPT ![s].step = c, ![s].attempt = n]
  BY DEF returns, AttemptTypes, SlotState
<1>. HIDE DEF c, n
<1>. QED
  BY <1>1, <1>2, <1>3, OneSlotChanges

\* What goes does to the slot.
LEMMA GoesThere ==
  ASSUME AttemptTypes, NEW s \in Slots,
         NEW c \in {"none", "dial", "connect", "request", "bridge", "delay", "exited"}, goes(s, c)
  PROVE  /\ slot' \in [Slots -> SlotState]
         /\ slot'[s].step = c
         /\ \A t \in Slots \ {s} : slot'[t] = slot[t]
<1>1. slot \in [Slots -> SlotState] /\ slot[s].attempt \in 0..MaxAttempt
  BY DEF AttemptTypes, SlotState
<1>. QED
  BY <1>1, OneSlotChanges DEF goes

\* Every step of a slot keeps the invariant.
LEMMA SlotStepKeeps ==
  ASSUME AgentAssumption, AttemptInv, NEW s \in Slots, SlotStep(s) \/ copyConn(s)
  PROVE  AttemptInv'
<1>. USE DEF AttemptInv, AttemptTypes, NothingLeft, agentEnvironment
<1>1. CASE dialLocalTarget(s)
  <2>1. CASE localTarget /\ ~stopping
    BY <1>1, <2>1, GoesThere DEF dialLocalTarget, at
  <2>2. CASE ~(localTarget /\ ~stopping)
    BY <1>1, <2>2, ReturnsRests DEF dialLocalTarget, at
  <2>. QED
    BY <2>1, <2>2
<1>2. CASE connectToGateway(s)
  <2>1. CASE gateway # "down" /\ ~stopping
    <3>1. goes(s, "request") /\ uplink' = [uplink EXCEPT ![s] = "open"] /\ local' = local
      BY <1>2, <2>1 DEF connectToGateway
    <3>2. /\ slot' \in [Slots -> SlotState] /\ slot'[s].step = "request"
          /\ \A t \in Slots \ {s} : slot'[t] = slot[t]
      BY <3>1, GoesThere
    <3>. QED
      BY <3>1, <3>2
  <2>2. CASE ~(gateway # "down" /\ ~stopping)
    <3>1. returns(s, TRUE) /\ closedBoth(s) /\ UNCHANGED delay
      BY <1>2, <2>2 DEF connectToGateway
    <3>. QED
      BY <3>1, ReturnsRests DEF closedBoth
  <2>. QED
    BY <2>1, <2>2
<1>3. CASE ReadResponse(s)
  <2>1. CASE goes(s, "bridge") /\ UNCHANGED <<local, uplink>>
    BY <1>3, <2>1, GoesThere DEF ReadResponse
  <2>2. CASE returns(s, TRUE) /\ closedBoth(s)
    BY <1>3, <2>2, ReturnsRests DEF ReadResponse, closedBoth
  <2>. QED
    BY <1>3, <2>1, <2>2 DEF ReadResponse
<1>4. CASE bridge(s)
  BY <1>4, ReturnsRests DEF bridge, closedBoth
<1>5. CASE DelayEnds(s)
  <2>1. slot[s] \in SlotState /\ slot[s].step = "delay"
    BY <1>5 DEF DelayEnds, at
  <2> DEFINE n == IF slot[s].attempt < MaxAttempt THEN slot[s].attempt + 1 ELSE slot[s].attempt
  <2>2. n \in 0..MaxAttempt
    BY <2>1 DEF SlotState, AgentAssumption
  <2>3. slot' \in [Slots -> SlotState] /\ slot'[s].step = "dial" /\ \A t \in Slots \ {s} : slot'[t] = slot[t]
    <3>1. slot' = [slot EXCEPT ![s].step = "dial", ![s].attempt = n]
      BY <1>5 DEF DelayEnds
    <3> HIDE DEF n
    <3>. QED
      BY <2>2, <3>1, OneSlotChanges
  <2>. QED
    BY <1>5, <2>1, <2>3 DEF DelayEnds
<1>6. CASE DelayStops(s)
  <2>1. goes(s, "exited") /\ UNCHANGED <<local, uplink>> /\ slot[s].step = "delay"
    BY <1>6 DEF DelayStops, at
  <2>2. /\ slot' \in [Slots -> SlotState] /\ slot'[s].step = "exited"
        /\ \A t \in Slots \ {s} : slot'[t] = slot[t]
    BY <2>1, GoesThere
  <2>. QED
    BY <2>1, <2>2
<1>7. CASE copyConn(s)
  BY <1>7 DEF copyConn
<1>. QED
  BY <1>1, <1>2, <1>3, <1>4, <1>5, <1>6, <1>7 DEF SlotStep

\* A step that computes no delay keeps those there are.
LEMMA DelaysSame ==
  ASSUME DelayInv, UNCHANGED <<delay, baseDelay>>
  PROVE  DelayInv'
BY DEF DelayInv, NeverSpins, outOfRange, shortest

LEMMA DelayEndsKeeps ==
  ASSUME AgentAssumption, AttemptTypes, DelayInv, NEW s \in Slots, DelayEnds(s)
  PROVE  DelayInv'
<1>1. slot[s].attempt \in 0..MaxAttempt
  BY DEF AttemptTypes, SlotState
<1>2. /\ delay' = [delay EXCEPT ![s] = [length |-> computeBackoff(slot[s].attempt), of |-> slot[s].attempt]]
      /\ baseDelay' = baseDelay
  BY DEF DelayEnds, agentEnvironment
<1>3. /\ delay'[s].of = slot[s].attempt /\ delay'[s].length = computeBackoff(slot[s].attempt)
      /\ \A t \in Slots \ {s} : delay'[t] = delay[t]
      /\ delay' = [t \in Slots |-> delay'[t]]
  BY <1>2 DEF DelayInv
<1>4. outOfRange(slot[s].attempt) \/ computeBackoff(slot[s].attempt) >= shortest
  BY <1>1, BackoffBounded DEF DelayInv
<1>5. shortest' = shortest /\ \A n : outOfRange(n)' = outOfRange(n)
  BY <1>2 DEF shortest, outOfRange
<1>6. ASSUME NEW t \in Slots
      PROVE  delay'[t].of \in 0..MaxAttempt /\ (outOfRange(delay'[t].of) \/ delay'[t].length >= shortest)
  BY <1>1, <1>3, <1>4 DEF DelayInv, NeverSpins
<1>. QED
  BY <1>2, <1>3, <1>6 DEF DelayInv, NeverSpins, outOfRange, shortest

\* Between two attempts a slot holds no connection, whichever way the one
\* before failed; and whatever the first delay is, it tries again without the
\* shortest delay only after failures enough to double the first one out of the
\* word, at most 30 times (main.go:188-251, 296-311, 388-398).
THEOREM BetweenAttemptsHolds == AgentSpec => []BetweenAttempts
<1>. USE AgentAssumption
<1>1. AgentInit => AttemptInv /\ DelayInv
  <2> SUFFICES ASSUME AgentInit PROVE AttemptInv /\ DelayInv
    OBVIOUS
  <2>1. AttemptInv
    BY DEF AgentInit, AttemptInv, AttemptTypes, NothingLeft, SlotState, AgentAssumption
  <2>2. baseDelay >= shortest
    BY DEF AgentInit, AgentAssumption, shortest
  <2>3. DelayInv
    BY <2>2 DEF AgentInit, DelayInv, NeverSpins, AgentAssumption
  <2>. QED
    BY <2>1, <2>3
<1>2. AttemptInv /\ DelayInv /\ [AgentNext]_agentVars => DelayInv'
  <2> SUFFICES ASSUME AttemptInv, DelayInv, [AgentNext]_agentVars PROVE DelayInv'
    OBVIOUS
  <2>1. CASE \E s \in Slots : DelayEnds(s)
    BY <2>1, DelayEndsKeeps DEF AttemptInv
  <2>2. CASE ~\E s \in Slots : DelayEnds(s)
    <3>1. UNCHANGED <<delay, baseDelay>>
      BY <2>2 DEF AgentNext, agentVars, agentEnvironment, SlotStep, dialLocalTarget, connectToGateway,
           ReadResponse, bridge, DelayStops, copyConn, StartSlots, TargetChanges, GatewayChanges, Signal
    <3>. QED
      BY <3>1, DelaysSame
  <2>. QED
    BY <2>1, <2>2
<1>3. AttemptInv /\ [AgentNext]_agentVars => AttemptInv'
  <2> SUFFICES ASSUME AttemptInv, [AgentNext]_agentVars PROVE AttemptInv'
    OBVIOUS
  <2>1. CASE \E s \in Slots : SlotStep(s) \/ copyConn(s)
    BY <2>1, SlotStepKeeps
  <2>2. CASE StartSlots
    <3>1. slot' \in [Slots -> SlotState] /\ \A s \in Slots : slot'[s].step = "dial" /\ slot[s].step = "none"
      BY <2>2 DEF StartSlots, at, SlotState, AgentAssumption
    <3>. QED
      BY <2>2, <3>1 DEF StartSlots, AttemptInv, AttemptTypes, NothingLeft
  <2>3. CASE TargetChanges
    BY <2>3 DEF TargetChanges, AttemptInv, AttemptTypes, NothingLeft
  <2>4. CASE GatewayChanges
    BY <2>4 DEF GatewayChanges, AttemptInv, AttemptTypes, NothingLeft
  <2>5. CASE Signal \/ UNCHANGED agentVars
    BY <2>5 DEF Signal, agentVars, AttemptInv, AttemptTypes, NothingLeft
  <2>. QED
    BY <2>1, <2>2, <2>3, <2>4, <2>5 DEF AgentNext
<1>4. AttemptInv /\ DelayInv => BetweenAttempts
  BY DEF AttemptInv, DelayInv, BetweenAttempts
<1>. QED
  BY <1>1, <1>2, <1>3, <1>4, PTL DEF AgentSpec
(***************************************************************************)
(* The sockets of a UDP route.                                              *)
(***************************************************************************)
SocketState == [address : Addresses \cup {""}, open : BOOLEAN, copy : {"none", "reading", "cleanup", "done"}]
LoopState == [step : {"read", "dial", "touch", "write"}, address : Addresses \cup {""}, socket : Nat]

SocketTypes ==
  /\ dialled \in 0..MaxDialled
  /\ sockets \in [1..MaxDialled -> SocketState]
  /\ clients \in [Addresses -> 0..dialled]
  /\ loop \in LoopState
  /\ stale \subseteq Addresses
  /\ sweeps \in [Addresses -> Nat]

\* Sockets of a client that have a goroutine still and are not in the table:
\* those a sweep took out, and those such a one's goroutine took out.
Strays(a) ==
  {n \in 1..MaxDialled : /\ sockets[n].address = a /\ n # clients[a]
                         /\ sockets[n].copy \in {"reading", "cleanup"}}

\* What the table lists has a goroutine and belongs to the client.
Entry(a) ==
  clients[a] # 0 =>
    /\ sockets[clients[a]].address = a
    /\ \/ sockets[clients[a]].copy = "cleanup"
       \/ sockets[clients[a]].copy = "reading" /\ sockets[clients[a]].open
ListedInv == \A a \in Addresses : Entry(a)

\* A socket is open only while its goroutine reads, and unused ones are closed.
OpenInv ==
  /\ \A n \in 1..MaxDialled : sockets[n].open => sockets[n].copy = "reading"
  /\ \A n \in 1..MaxDialled : n > dialled => sockets[n].copy = "none"

\* The loop dials for a client the table does not list.
DialInv == loop.step = "dial" => loop.address \in Addresses /\ clients[loop.address] = 0

StrayInv == \A a \in Addresses : Cardinality(Strays(a)) <= sweeps[a]

SocketInv == SocketTypes /\ ListedInv /\ OpenInv /\ DialInv /\ StrayInv

LEMMA StraysFinite ==
  ASSUME UDPAssumption, NEW a
  PROVE  IsFiniteSet(Strays(a)) /\ Cardinality(Strays(a)) \in Nat
<1>1. IsFiniteSet(1..MaxDialled)
  BY FS_Interval DEF UDPAssumption
<1>2. Strays(a) \in SUBSET (1..MaxDialled)
  BY DEF Strays
<1>. QED
  BY <1>1, <1>2, FS_Subset, FS_CardinalityType

\* One element more is at most one more.
LEMMA GrowsByOne ==
  ASSUME NEW S, NEW T, NEW y, IsFiniteSet(S), T \subseteq S \cup {y}
  PROVE  Cardinality(T) <= Cardinality(S) + 1
<1>1. Cardinality(S) \in Nat
  BY FS_CardinalityType
<1>4. /\ IsFiniteSet(S \cup {y})
      /\ Cardinality(S \cup {y}) = IF y \in S THEN Cardinality(S) ELSE Cardinality(S) + 1
  BY FS_AddElement
<1>2. T \in SUBSET (S \cup {y})
  OBVIOUS
<1>3. IsFiniteSet(T) /\ Cardinality(T) <= Cardinality(S \cup {y})
  BY <1>4, <1>2, FS_Subset
<1>5. Cardinality(T) \in Nat
  BY <1>3, FS_CardinalityType
<1>. QED
  BY <1>1, <1>3, <1>4, <1>5

\* One element for another leaves no more.
LEMMA SwapsOne ==
  ASSUME NEW S, NEW T, NEW x \in S, NEW y, IsFiniteSet(S), T \subseteq (S \ {x}) \cup {y}
  PROVE  Cardinality(T) <= Cardinality(S)
<1>1. IsFiniteSet(S \ {x}) /\ Cardinality(S \ {x}) = Cardinality(S) - 1
  BY FS_RemoveElement
<1>2. Cardinality(T) <= Cardinality(S \ {x}) + 1
  BY <1>1, GrowsByOne
<1>. QED
  BY <1>1, <1>2, FS_CardinalityType

\* Steps that leave the sockets alone.
LEMMA LoopSteps ==
  ASSUME UDPAssumption, SocketInv,
         \/ \E a \in Addresses : ReadFromUDP(a) \/ AgeClient(a)
         \/ dialFails \/ touch \/ Write \/ StopServing \/ UNCHANGED udpVars
  PROVE  SocketInv'
<1>1. UNCHANGED <<sockets, dialled, clients, sweeps>>
  BY DEF ReadFromUDP, AgeClient, dialFails, touch, Write, StopServing, udpVars
<1>2. stale' \subseteq Addresses
  BY DEF ReadFromUDP, AgeClient, dialFails, touch, Write, StopServing, udpVars, SocketInv, SocketTypes
<1>3. loop' \in LoopState /\ DialInv'
  <2>1. loop \in LoopState /\ clients \in [Addresses -> Nat]
    BY DEF SocketInv, SocketTypes
  <2>2. CASE UNCHANGED loop
    BY <1>1, <2>1, <2>2 DEF SocketInv, DialInv
  <2>3. CASE loop' = Waiting
    BY <2>3 DEF Waiting, LoopState, DialInv
  <2>4. CASE touch
    BY <2>1, <2>4 DEF touch, LoopState, DialInv
  <2>5. CASE \E a \in Addresses : ReadFromUDP(a)
    <3>1. PICK a \in Addresses :
            loop' = [step |-> IF clients[a] = 0 THEN "dial" ELSE "touch", address |-> a, socket |-> clients[a]]
      BY <2>5 DEF ReadFromUDP
    <3>2. loop' \in LoopState
      BY <2>1, <3>1 DEF LoopState
    <3>3. loop'.address = a /\ (loop'.step = "dial" => clients[a] = 0)
      BY <3>1
    <3>. QED
      BY <1>1, <3>2, <3>3 DEF DialInv
  <2>. QED
    BY <2>2, <2>3, <2>4, <2>5 DEF AgeClient, dialFails, Write, StopServing, udpVars
<1>4. \A a : Strays(a)' = Strays(a)
  BY <1>1 DEF Strays
<1>. QED
  BY <1>1, <1>2, <1>3, <1>4 DEF SocketInv, SocketTypes, ListedInv, Entry, OpenInv, StrayInv

\* A new socket takes its client's place in the table, which was empty.
LEMMA DialKeeps ==
  ASSUME UDPAssumption, SocketInv, dialUDP
  PROVE  SocketInv'
<1>. DEFINE n == dialled + 1
            c == loop.address
            new == [address |-> c, open |-> TRUE, copy |-> "reading"]
<1>1. /\ dialled \in Nat /\ n \in 1..MaxDialled /\ dialled' = n /\ c \in Addresses /\ clients[c] = 0
      /\ clients \in [Addresses -> 0..dialled] /\ sockets \in [1..MaxDialled -> SocketState]
  BY DEF dialUDP, SocketInv, SocketTypes, DialInv, UDPAssumption
<1>2. new \in SocketState /\ new.address = c /\ new.open /\ new.copy = "reading"
  BY <1>1 DEF SocketState
<1>3. sockets' = [sockets EXCEPT ![n] = new] /\ clients' = [clients EXCEPT ![c] = n] /\ UNCHANGED sweeps
  BY DEF dialUDP
<1>. HIDE DEF new
<1>4. loop' \in LoopState /\ loop'.step = "write"
  <2>1. loop \in LoopState /\ n \in Nat
    BY <1>1 DEF SocketInv, SocketTypes
  <2>2. loop' = [loop EXCEPT !.step = "write", !.socket = n]
    BY DEF dialUDP
  <2>. HIDE DEF n
  <2>. QED
    BY <2>1, <2>2 DEF LoopState
<1>. HIDE DEF c
<1>5. SocketTypes'
  BY <1>1, <1>2, <1>3, <1>4 DEF SocketInv, SocketTypes, dialUDP
<1>6. ListedInv'
  <2> SUFFICES ASSUME NEW a \in Addresses PROVE Entry(a)'
    BY DEF ListedInv
  <2>1. CASE a = c
    BY <1>1, <1>2, <1>3, <2>1 DEF Entry
  <2>2. CASE a # c
    <3>1. clients'[a] = clients[a] /\ clients[a] \in 0..dialled
      BY <1>1, <1>3, <2>2
    <3>2. clients[a] # 0 => sockets'[clients[a]] = sockets[clients[a]]
      BY <1>1, <1>3, <3>1
    <3>. QED
      BY <3>1, <3>2 DEF Entry, SocketInv, ListedInv
  <2>. QED
    BY <2>1, <2>2
<1>7. OpenInv'
  <2>1. ASSUME NEW m \in 1..MaxDialled
        PROVE  (sockets'[m].open => sockets'[m].copy = "reading") /\ (m > dialled' => sockets'[m].copy = "none")
    <3>1. m = n \/ sockets'[m] = sockets[m]
      BY <1>1, <1>3
    <3>2. m > dialled' => m > dialled /\ m # n
      BY <1>1
    <3>. QED
      BY <1>2, <1>3, <1>1, <3>1, <3>2 DEF SocketInv, OpenInv
  <2>. QED
    BY <2>1 DEF OpenInv
<1>8. DialInv'
  BY <1>4 DEF DialInv
<1>9. ASSUME NEW a \in Addresses PROVE Strays(a)' \subseteq Strays(a)
  BY <1>1, <1>2, <1>3 DEF Strays
<1>10. StrayInv'
  <2> SUFFICES ASSUME NEW a \in Addresses PROVE Cardinality(Strays(a)') <= sweeps[a]
    BY <1>3 DEF StrayInv
  <2>1. Strays(a)' \in SUBSET Strays(a) /\ IsFiniteSet(Strays(a))
    BY <1>9, StraysFinite
  <2>2. Cardinality(Strays(a)') <= Cardinality(Strays(a)) /\ Cardinality(Strays(a)') \in Nat
    BY <2>1, FS_Subset, FS_CardinalityType
  <2>3. Cardinality(Strays(a)) \in Nat /\ Cardinality(Strays(a)) <= sweeps[a] /\ sweeps[a] \in Nat
    BY StraysFinite DEF SocketInv, StrayInv, SocketTypes
  <2>. QED
    BY <2>2, <2>3
<1>. QED
  BY <1>5, <1>6, <1>7, <1>8, <1>10 DEF SocketInv

\* A sweep adds the sockets it took out to the strays, one for each client.
LEMMA SweepKeeps ==
  ASSUME UDPAssumption, SocketInv, sweepClients
  PROVE  SocketInv'
<1>1. /\ clients \in [Addresses -> 0..dialled] /\ sockets \in [1..MaxDialled -> SocketState]
      /\ dialled \in 0..MaxDialled /\ sweeps \in [Addresses -> Nat] /\ UNCHANGED <<dialled, loop>>
  BY DEF sweepClients, SocketInv, SocketTypes
<1>2. /\ clients' = [a \in Addresses |-> IF a \in stale THEN 0 ELSE clients[a]]
      /\ sweeps' = [a \in Addresses |-> IF a \in stale THEN sweeps[a] + 1 ELSE sweeps[a]]
      /\ stale' = {}
  BY DEF sweepClients
<1>3. ASSUME NEW n \in 1..MaxDialled
      PROVE  /\ sockets'[n] \in SocketState
             /\ sockets'[n].address = sockets[n].address /\ sockets'[n].copy = sockets[n].copy
             /\ sockets'[n].open => sockets[n].open
             /\ (\A a \in stale : clients[a] # n) => sockets'[n] = sockets[n]
  <2>1. sockets[n] \in SocketState
    BY <1>1
  <2>2. sockets'[n] = [sockets[n] EXCEPT !.open = FALSE] \/ sockets'[n] = sockets[n]
    BY <1>1 DEF sweepClients
  <2>3. (\A a \in stale : clients[a] # n) => sockets'[n] = sockets[n]
    BY <1>1 DEF sweepClients
  <2>. QED
    BY <2>1, <2>2, <2>3 DEF SocketState
<1>4. sockets' \in [1..MaxDialled -> SocketState]
  BY <1>1, <1>3 DEF sweepClients
<1>5. SocketTypes'
  BY <1>1, <1>2, <1>4 DEF SocketInv, SocketTypes
<1>6. ListedInv'
  <2> SUFFICES ASSUME NEW a \in Addresses, clients'[a] # 0
               PROVE  Entry(a)'
    BY DEF ListedInv, Entry
  <2>1. a \notin stale /\ clients'[a] = clients[a] /\ clients[a] \in 1..MaxDialled
    BY <1>1, <1>2
  <2>2. \A b \in stale : clients[b] # clients[a]
    BY <1>1, <2>1 DEF SocketInv, SocketTypes, ListedInv, Entry
  <2>. QED
    BY <1>3, <2>1, <2>2 DEF SocketInv, ListedInv, Entry
<1>7. OpenInv'
  BY <1>1, <1>3 DEF SocketInv, OpenInv
<1>8. DialInv'
  BY <1>1, <1>2 DEF SocketInv, DialInv
<1>9. StrayInv'
  <2> SUFFICES ASSUME NEW a \in Addresses PROVE Cardinality(Strays(a)') <= sweeps'[a]
    BY DEF StrayInv
  <2>1. IsFiniteSet(Strays(a)) /\ Cardinality(Strays(a)) \in Nat /\ Cardinality(Strays(a)) <= sweeps[a]
    BY StraysFinite DEF SocketInv, StrayInv
  <2>2. CASE a \in stale
    <3>1. Strays(a)' \subseteq Strays(a) \cup {clients[a]}
      BY <1>1, <1>3 DEF Strays
    <3>2. Cardinality(Strays(a)') <= Cardinality(Strays(a)) + 1 /\ Cardinality(Strays(a)') \in Nat
      <4>1. IsFiniteSet(Strays(a)')
        BY <1>1, <2>1, <3>1, FS_AddElement, FS_Subset
      <4>. QED
        BY <4>1, <2>1, <3>1, GrowsByOne, FS_CardinalityType
    <3>3. sweeps'[a] = sweeps[a] + 1 /\ sweeps[a] \in Nat
      BY <1>1, <1>2, <2>2
    <3>. QED
      BY <2>1, <3>2, <3>3
  <2>3. CASE a \notin stale
    <3>1. Strays(a)' = Strays(a)
      BY <1>1, <1>2, <1>3, <2>3 DEF Strays
    <3>. QED
      BY <1>2, <2>1, <2>3, <3>1
  <2>. QED
    BY <2>2, <2>3
<1>. QED
  BY <1>5, <1>6, <1>7, <1>8, <1>9 DEF SocketInv

\* A goroutine that ends closes its socket, and is counted as before.
LEMMA CopyKeeps ==
  ASSUME UDPAssumption, SocketInv, NEW n \in 1..MaxDialled, copyEnds(n)
  PROVE  SocketInv'
<1>1. /\ clients \in [Addresses -> 0..dialled] /\ sockets \in [1..MaxDialled -> SocketState]
      /\ dialled \in 0..MaxDialled /\ UNCHANGED <<dialled, clients, stale, loop, sweeps>>
  BY DEF copyEnds, SocketInv, SocketTypes
<1>. DEFINE new == [sockets[n] EXCEPT !.open = FALSE, !.copy = "cleanup"]
<1>2. /\ new \in SocketState /\ new.address = sockets[n].address /\ new.copy = "cleanup" /\ ~new.open
      /\ sockets[n].copy = "reading"
  BY <1>1 DEF SocketState, copyEnds
<1>3. sockets' = [sockets EXCEPT ![n] = new]
  BY DEF copyEnds
<1>. HIDE DEF new
<1>4. SocketTypes'
  BY <1>1, <1>2, <1>3 DEF SocketInv, SocketTypes
<1>5. ListedInv' /\ OpenInv' /\ DialInv'
  <2>1. \A m \in 1..MaxDialled : m # n => sockets'[m] = sockets[m]
    BY <1>1, <1>3
  <2>2. sockets'[n] = new
    BY <1>1, <1>3
  <2>3. ListedInv'
    <3> SUFFICES ASSUME NEW a \in Addresses PROVE Entry(a)'
      BY DEF ListedInv
    <3>1. Entry(a) /\ (clients[a] # 0 => clients[a] \in 1..MaxDialled)
      BY <1>1 DEF SocketInv, ListedInv
    <3>. QED
      <4>1. CASE clients[a] = n
        <5>1. sockets[n].address = a
          BY <3>1, <4>1 DEF Entry
        <5>2. new.address = a /\ new.copy = "cleanup"
          BY <1>2, <5>1
        <5>3. clients'[a] = n /\ sockets'[n] = new
          BY <1>1, <2>2, <4>1
        <5>4. sockets'[clients'[a]].address = a /\ sockets'[clients'[a]].copy = "cleanup"
          BY <5>2, <5>3
        <5>. QED
          BY <5>4 DEF Entry
      <4>2. CASE clients[a] # n
        BY <1>1, <2>1, <3>1, <4>2 DEF Entry
      <4>. QED
        BY <4>1, <4>2
  <2>4. OpenInv'
    BY <1>1, <1>2, <2>1, <2>2 DEF SocketInv, OpenInv
  <2>5. DialInv'
    BY <1>1 DEF SocketInv, DialInv
  <2>. QED
    BY <2>3, <2>4, <2>5
<1>6. \A a \in Addresses : Strays(a)' = Strays(a)
  BY <1>1, <1>2, <1>3 DEF Strays
<1>. QED
  BY <1>1, <1>4, <1>5, <1>6 DEF SocketInv, StrayInv

\* A goroutine that leaves takes the entry of its client along: its own, or, if
\* it was a stray, the one of its successor, which is a stray then.
LEMMA CleanupKeeps ==
  ASSUME UDPAssumption, SocketInv, NEW n \in 1..MaxDialled, cleanupClient(n)
  PROVE  SocketInv'
<1>. DEFINE c == sockets[n].address
<1>1. /\ clients \in [Addresses -> 0..dialled] /\ sockets \in [1..MaxDialled -> SocketState]
      /\ dialled \in 0..MaxDialled /\ stale \subseteq Addresses /\ UNCHANGED <<dialled, loop, sweeps>>
  BY DEF cleanupClient, SocketInv, SocketTypes
<1>. DEFINE new == [sockets[n] EXCEPT !.copy = "done"]
<1>2. /\ new \in SocketState /\ new.address = c /\ new.copy = "done" /\ new.open = sockets[n].open
      /\ sockets[n].copy = "cleanup"
  BY <1>1 DEF SocketState, cleanupClient
<1>3. /\ sockets' = [sockets EXCEPT ![n] = new]
      /\ clients' = [clients EXCEPT ![c] = 0] /\ stale' = stale \ {c}
  BY DEF cleanupClient
<1>4. ~sockets[n].open /\ n <= dialled
  BY <1>2 DEF SocketInv, OpenInv, SocketTypes
<1>. HIDE DEF new, c
<1>5. SocketTypes'
  <2>1. sockets' \in [1..MaxDialled -> SocketState]
    BY <1>1, <1>2, <1>3
  <2>2. clients' \in [Addresses -> 0..dialled]
    <3>1. 0 \in 0..dialled
      BY <1>1 DEF UDPAssumption
    <3>. QED
      BY <1>1, <1>3, <3>1
  <2>. QED
    BY <1>1, <1>3, <2>1, <2>2 DEF SocketInv, SocketTypes
<1>6. ListedInv'
  <2> SUFFICES ASSUME NEW a \in Addresses, clients'[a] # 0
               PROVE  Entry(a)'
    BY DEF ListedInv, Entry
  <2>1. a # c /\ clients'[a] = clients[a] /\ clients[a] \in 1..MaxDialled
    BY <1>1, <1>3
  <2>2. clients[a] # n
    BY <2>1 DEF SocketInv, ListedInv, Entry, c
  <2>. QED
    BY <1>1, <1>3, <2>1, <2>2 DEF SocketInv, ListedInv, Entry
<1>7. OpenInv'
  BY <1>1, <1>2, <1>3, <1>4 DEF SocketInv, OpenInv
<1>8. DialInv'
  BY <1>1, <1>3 DEF SocketInv, DialInv
<1>9. StrayInv'
  <2> SUFFICES ASSUME NEW a \in Addresses PROVE Cardinality(Strays(a)') <= sweeps[a]
    BY <1>1 DEF StrayInv
  <2>1. IsFiniteSet(Strays(a)) /\ Cardinality(Strays(a)) \in Nat /\ Cardinality(Strays(a)) <= sweeps[a]
    BY StraysFinite DEF SocketInv, StrayInv
  <2>2. CASE a # c
    <3>1. Strays(a)' = Strays(a)
      BY <1>1, <1>2, <1>3, <2>2 DEF Strays, c
    <3>. QED
      BY <2>1, <3>1
  <2>3. CASE a = c /\ clients[c] = n
    <3>1. Strays(a)' \subseteq Strays(a)
      BY <1>1, <1>2, <1>3, <2>3 DEF Strays, c
    <3>2. Cardinality(Strays(a)') <= Cardinality(Strays(a)) /\ Cardinality(Strays(a)') \in Nat
      BY <2>1, <3>1, FS_Subset, FS_CardinalityType
    <3>3. sweeps[a] \in Nat
      BY DEF SocketInv, SocketTypes
    <3>. QED
      BY <2>1, <3>2, <3>3
  <2>4. CASE a = c /\ clients[c] # n
    <3>1. Strays(a)' \subseteq (Strays(a) \ {n}) \cup {clients[c]} /\ n \in Strays(a)
      BY <1>1, <1>2, <1>3, <2>4 DEF Strays, c
    <3>2. Cardinality(Strays(a)') <= Cardinality(Strays(a))
      BY <2>1, <3>1, SwapsOne
    <3>3. IsFiniteSet((Strays(a) \ {n}) \cup {clients[c]})
      BY <2>1, FS_AddElement, FS_RemoveElement
    <3>4. Cardinality(Strays(a)') \in Nat /\ sweeps[a] \in Nat
      BY <3>1, <3>3, FS_Subset, FS_CardinalityType DEF SocketInv, SocketTypes
    <3>. QED
      BY <2>1, <3>2, <3>4
  <2>. QED
    BY <2>2, <2>3, <2>4
<1>. QED
  BY <1>5, <1>6, <1>7, <1>8, <1>9 DEF SocketInv

\* Open sockets are listed or strays.
LEMMA TrackedIfInv ==
  ASSUME UDPAssumption, SocketInv
  PROVE  SocketsTracked
<1>1. ClosedEntryLeaves
  BY DEF ClosedEntryLeaves, SocketInv, ListedInv, Entry
<1>2. ASSUME NEW a \in Addresses PROVE Cardinality(openSockets(a)) <= 1 + sweeps[a]
  <2>1. IsFiniteSet(Strays(a)) /\ Cardinality(Strays(a)) \in Nat /\ Cardinality(Strays(a)) <= sweeps[a] /\ sweeps[a] \in Nat
    BY StraysFinite DEF SocketInv, StrayInv, SocketTypes
  <2>2. openSockets(a) \subseteq Strays(a) \cup {clients[a]}
    BY DEF openSockets, Strays, SocketInv, OpenInv, SocketTypes
  <2>3. Cardinality(openSockets(a)) <= Cardinality(Strays(a)) + 1
    BY <2>1, <2>2, GrowsByOne
  <2>4. Cardinality(openSockets(a)) \in Nat
    BY <2>1, <2>2, FS_AddElement, FS_Subset, FS_CardinalityType
  <2>. QED
    BY <2>1, <2>3, <2>4
<1>. QED
  BY <1>1, <1>2 DEF SocketsTracked, OpenBounded

\* A client has one socket open, and one more for each that a sweep closed; and
\* a closed socket in the table is about to leave it (udp.go:80-101, 150-204).
THEOREM SocketsTrackedHolds == UDPSpec => []SocketsTracked
<1>. USE UDPAssumption
<1>1. UDPInit => SocketInv
  <2> SUFFICES ASSUME UDPInit PROVE SocketInv
    OBVIOUS
  <2>1. NoSocket \in SocketState /\ NoSocket.copy = "none" /\ ~NoSocket.open
    BY DEF NoSocket, SocketState
  <2>2. Waiting \in LoopState /\ Waiting.step = "read"
    BY DEF Waiting, LoopState
  <2>3. SocketTypes
    BY <2>1, <2>2 DEF UDPInit, SocketTypes, UDPAssumption
  <2>4. ListedInv /\ OpenInv /\ DialInv
    BY <2>1, <2>2 DEF UDPInit, ListedInv, Entry, OpenInv, DialInv
  <2>5. \A a \in Addresses : Strays(a) = {}
    BY <2>1 DEF UDPInit, Strays
  <2>6. StrayInv
    <3>1. \A a \in Addresses : sweeps[a] = 0
      BY DEF UDPInit
    <3>. QED
      BY <2>5, <3>1, FS_EmptySet DEF StrayInv
  <2>. QED
    BY <2>3, <2>4, <2>6 DEF SocketInv
<1>2. SocketInv /\ [UDPNext]_udpVars => SocketInv'
  BY LoopSteps, DialKeeps, SweepKeeps, CopyKeeps, CleanupKeeps DEF UDPNext
<1>3. SocketInv => SocketsTracked
  BY TrackedIfInv
<1>. QED
  BY <1>1, <1>2, <1>3, PTL DEF UDPSpec

(***************************************************************************)
(* The pollers of a signaling room.                                         *)
(***************************************************************************)
Message == [seq : Nat, id : Nat]
RoomState == [life : Nat, seq : Nat, messages : Seq(Message)]
Place == [life : Nat, seq : Nat, from : Nat]

SignalTypes ==
  /\ room \in RoomState /\ posted \in Nat /\ swept \in Nat
  /\ poll \in [Clients -> {"idle", "looking", "waiting", "woken", "pending"}]
  /\ after \in [Clients -> Place]
  /\ got \in [Clients -> SUBSET Nat]

\* A room's messages are numbered one after the other, the last with its number.
Numbered(r) == \A i \in 1..Len(r.messages) : r.messages[i].seq = r.seq - Len(r.messages) + i

\* A room's life is newer than every one that was swept.
Lives ==
  /\ room # NoRoom => room.life = swept + 1
  /\ \A c \in Clients : after[c].life <= swept + 1
  /\ room = NoRoom => \A c \in Clients : after[c].life <= swept

\* Of the room it polls a client was given what lies between the number it came
\* with and the one it polls with.
Given(c) ==
  room # NoRoom /\ after[c].life = room.life =>
    /\ after[c].seq <= room.seq
    /\ \A i \in 1..Len(room.messages) :
         after[c].from < room.messages[i].seq /\ room.messages[i].seq <= after[c].seq
           => room.messages[i].id \in got[c]

\* Who waits found nothing newer.
Caught(c) == poll[c] = "waiting" => \A i \in 1..Len(room.messages) : room.messages[i].seq <= after[c].seq

SignalInv ==
  /\ SignalTypes /\ Numbered(room) /\ Lives
  /\ \A c \in Clients : Given(c) /\ Caught(c)

\* The newest messages are the last ones.
LEMMA NewestAreLast ==
  ASSUME SignalAssumption, NEW m \in Seq(Message)
  PROVE  /\ newest(m) \in Seq(Message) /\ Len(newest(m)) <= Len(m)
         /\ \A i \in 1..Len(newest(m)) : newest(m)[i] = m[Len(m) - Len(newest(m)) + i]
<1>1. CASE Len(m) > MaxMessages
  <2>. DEFINE low == Len(m) - MaxMessages + 1
  <2>1. low \in 1..Len(m) + 1 /\ Len(m) \in low - 1..Len(m)
    BY <1>1 DEF SignalAssumption
  <2>2. newest(m) = SubSeq(m, low, Len(m))
    BY <1>1 DEF newest
  <2>3. /\ SubSeq(m, low, Len(m)) \in Seq(Message)
        /\ Len(SubSeq(m, low, Len(m))) = Len(m) - low + 1
        /\ \A i \in 1..Len(m) - low + 1 : SubSeq(m, low, Len(m))[i] = m[low + i - 1]
    BY <2>1, SubSeqProperties
  <2>. QED
    BY <2>1, <2>2, <2>3, <1>1 DEF SignalAssumption
<1>2. CASE ~(Len(m) > MaxMessages)
  BY <1>2 DEF newest
<1>. QED
  BY <1>1, <1>2

\* A post leaves the room with its messages numbered, the posted one last, and
\* before it messages it held.
LEMMA PostedLast ==
  ASSUME SignalAssumption, SignalInv, posts
  PROVE  /\ room' \in RoomState /\ room'.life = swept + 1 /\ Numbered(room')
         /\ room = NoRoom => room'.seq = 1
         /\ room # NoRoom => room'.seq = room.seq + 1
         /\ \A i \in 1..Len(room'.messages) :
              \/ room'.messages[i].seq = room'.seq
              \/ \E j \in 1..Len(room.messages) : room # NoRoom /\ room'.messages[i] = room.messages[j]
<1>. DEFINE f == IF room = NoRoom THEN [NoRoom EXCEPT !.life = swept + 1] ELSE room
            last == [seq |-> f.seq + 1, id |-> posted + 1]
            m == Append(f.messages, last)
<1>1. f \in RoomState /\ f.life = swept + 1 /\ Numbered(f) /\ (room = NoRoom => f.seq = 0 /\ f.messages = << >>)
  <2>1. CASE room = NoRoom
    <3>1. NoRoom \in RoomState /\ NoRoom.seq = 0 /\ NoRoom.messages = << >>
      BY EmptySeq DEF NoRoom, RoomState
    <3>2. f = [NoRoom EXCEPT !.life = swept + 1] /\ swept + 1 \in Nat
      BY <2>1 DEF SignalInv, SignalTypes
    <3>3. f \in RoomState /\ f.life = swept + 1 /\ f.seq = 0 /\ f.messages = << >>
      BY <3>1, <3>2 DEF RoomState
    <3>. HIDE DEF f
    <3>. QED
      BY <3>3 DEF Numbered
  <2>2. CASE room # NoRoom
    BY <2>2 DEF SignalInv, SignalTypes, Lives
  <2>. QED
    BY <2>1, <2>2
<1>2. room # NoRoom => f = room
  OBVIOUS
<1>3. posted \in Nat
  BY DEF SignalInv, SignalTypes
<1>4. room' = [f EXCEPT !.seq = @ + 1, !.messages = newest(m)]
  BY DEF posts
<1>. HIDE DEF f
<1>5. f.seq \in Nat /\ f.life \in Nat /\ f.messages \in Seq(Message)
  BY <1>1 DEF RoomState
<1>6. last \in Message /\ last.seq = f.seq + 1
  BY <1>3, <1>5 DEF Message
<1>. HIDE DEF last
<1>7. /\ m \in Seq(Message) /\ Len(m) = Len(f.messages) + 1
      /\ m[Len(m)] = last /\ \A i \in 1..Len(f.messages) : m[i] = f.messages[i]
  BY <1>5, <1>6, AppendProperties
<1>. HIDE DEF m
<1>8. /\ newest(m) \in Seq(Message) /\ Len(newest(m)) \in Nat /\ Len(newest(m)) <= Len(m) /\ Len(m) \in Nat
      /\ \A i \in 1..Len(newest(m)) : newest(m)[i] = m[Len(m) - Len(newest(m)) + i]
  BY <1>7, NewestAreLast
<1>9. /\ room' \in RoomState /\ room'.life = f.life /\ room'.seq = f.seq + 1 /\ room'.messages = newest(m)
  <2>. DEFINE kept == newest(m)
              next == f.seq + 1
  <2>1. kept \in Seq(Message) /\ next \in Nat /\ room' = [f EXCEPT !.seq = next, !.messages = kept]
    BY <1>4, <1>5, <1>8
  <2>. HIDE DEF kept, next
  <2>2. room' \in RoomState /\ room'.life = f.life /\ room'.seq = next /\ room'.messages = kept
    BY <1>1, <2>1 DEF RoomState
  <2>. QED
    BY <2>2 DEF kept, next
<1>10. \A k \in 1..Len(m) : m[k].seq = f.seq + 1 - Len(m) + k
  <2> SUFFICES ASSUME NEW k \in 1..Len(m) PROVE m[k].seq = f.seq + 1 - Len(m) + k
    OBVIOUS
  <2>1. CASE k = Len(m)
    BY <1>5, <1>6, <1>7, <2>1
  <2>2. CASE k # Len(m)
    <3>1. k \in 1..Len(f.messages) /\ Len(f.messages) \in Nat
      BY <1>5, <1>7, <2>2, <1>8
    <3>2. f.messages[k].seq = f.seq - Len(f.messages) + k
      BY <1>1, <3>1 DEF Numbered
    <3>. QED
      BY <1>5, <1>7, <3>1, <3>2
  <2>. QED
    BY <2>1, <2>2
<1>11. ASSUME NEW i \in 1..Len(newest(m))
       PROVE  /\ newest(m)[i].seq = f.seq + 1 - Len(newest(m)) + i
              /\ \/ newest(m)[i].seq = f.seq + 1
                 \/ \E j \in 1..Len(f.messages) : newest(m)[i] = f.messages[j]
  <2>. DEFINE k == Len(m) - Len(newest(m)) + i
  <2>1. k \in 1..Len(m) /\ newest(m)[i] = m[k] /\ f.seq + 1 - Len(m) + k = f.seq + 1 - Len(newest(m)) + i
    <3>1. k \in 1..Len(m)
      BY <1>8
    <3>2. newest(m)[i] = m[k]
      BY <1>8
    <3>3. f.seq + 1 - Len(m) + k = f.seq + 1 - Len(newest(m)) + i
      <4>. DEFINE p == Len(m)
                  q == Len(newest(m))
      <4>1. p \in Nat /\ q \in Nat /\ i \in 1..q /\ k = p - q + i
        BY <1>8
      <4>. HIDE DEF p, q, k
      <4>2. f.seq + 1 - p + k = f.seq + 1 - q + i
        BY <1>5, <4>1
      <4>. QED
        BY <4>2 DEF p, q
    <3>. QED
      BY <3>1, <3>2, <3>3
  <2>. HIDE DEF k
  <2>2. m[k].seq = f.seq + 1 - Len(m) + k
    BY <2>1, <1>10
  <2>3. k = Len(m) \/ k \in 1..Len(f.messages)
    <3>1. Len(f.messages) \in Nat /\ Len(m) = Len(f.messages) + 1
      BY <1>5, <1>7
    <3>. QED
      BY <2>1, <3>1
  <2>4. m[k] = last \/ \E j \in 1..Len(f.messages) : m[k] = f.messages[j]
    BY <1>7, <2>3
  <2>. QED
    BY <1>6, <2>1, <2>2, <2>4
<1>12. Numbered(room')
  <2> SUFFICES ASSUME NEW i \in 1..Len(newest(m))
               PROVE  newest(m)[i].seq = room'.seq - Len(newest(m)) + i
    BY <1>9 DEF Numbered
  <2>. QED
    BY <1>5, <1>8, <1>9, <1>11
<1>13. \A i \in 1..Len(room'.messages) :
         \/ room'.messages[i].seq = room'.seq
         \/ \E j \in 1..Len(room.messages) : room # NoRoom /\ room'.messages[i] = room.messages[j]
  <2> SUFFICES ASSUME NEW i \in 1..Len(newest(m))
               PROVE  \/ newest(m)[i].seq = f.seq + 1
                      \/ \E j \in 1..Len(room.messages) : room # NoRoom /\ newest(m)[i] = room.messages[j]
    BY <1>9
  <2>1. CASE room = NoRoom
    <3>1. Len(f.messages) = 0
      BY <1>1, <2>1
    <3>. QED
      BY <1>11, <3>1
  <2>2. CASE room # NoRoom
    BY <1>2, <1>11, <2>2
  <2>. QED
    BY <2>1, <2>2
<1>. QED
  BY <1>1, <1>2, <1>5, <1>9, <1>12, <1>13

\* A post wakes who waits, and what it leaves of the old messages is known to
\* the clients as before.
LEMMA AppendKeeps ==
  ASSUME SignalAssumption, SignalInv, append
  PROVE  SignalInv'
<1>1. posts /\ UNCHANGED <<after, got, swept>> /\ posted' = posted + 1
  BY DEF append, posts
<1>2. /\ room' \in RoomState /\ room'.life = swept + 1 /\ Numbered(room')
      /\ room = NoRoom => room'.seq = 1
      /\ room # NoRoom => room'.seq = room.seq + 1
      /\ \A i \in 1..Len(room'.messages) :
           \/ room'.messages[i].seq = room'.seq
           \/ \E j \in 1..Len(room.messages) : room # NoRoom /\ room'.messages[i] = room.messages[j]
  BY <1>1, PostedLast
<1>3. poll' \in [Clients -> {"idle", "looking", "waiting", "woken", "pending"}] /\ \A c \in Clients : poll'[c] # "waiting"
  BY DEF append, notified, SignalInv, SignalTypes
<1>4. SignalTypes'
  BY <1>1, <1>2, <1>3 DEF SignalInv, SignalTypes
<1>5. swept \in Nat /\ \A c \in Clients : after[c].life \in Nat /\ after[c].seq \in Nat
  BY DEF SignalInv, SignalTypes, Place
<1>6. Lives'
  <2>1. room' # NoRoom
    BY <1>2, <1>5 DEF NoRoom
  <2>. QED
    BY <1>1, <1>2, <2>1 DEF SignalInv, Lives
<1>7. ASSUME NEW c \in Clients PROVE Given(c)'
  <2> SUFFICES ASSUME after[c].life = swept + 1
               PROVE  /\ after[c].seq <= room'.seq
                      /\ \A i \in 1..Len(room'.messages) :
                           after[c].from < room'.messages[i].seq /\ room'.messages[i].seq <= after[c].seq
                             => room'.messages[i].id \in got[c]
    BY <1>1, <1>2 DEF Given
  <2>1. room # NoRoom /\ room.life = swept + 1
    BY <1>5 DEF SignalInv, Lives
  <2>2. Given(c) /\ room.seq \in Nat
    BY DEF SignalInv, SignalTypes, RoomState
  <2>3. after[c].seq < room'.seq /\ room'.seq = room.seq + 1
    BY <1>2, <1>5, <2>1, <2>2 DEF Given
  <2>4. ASSUME NEW i \in 1..Len(room'.messages), after[c].from < room'.messages[i].seq,
               room'.messages[i].seq <= after[c].seq
        PROVE  room'.messages[i].id \in got[c]
    <3>1. room'.messages[i].seq # room'.seq
      BY <1>2, <1>5, <2>2, <2>3, <2>4
    <3>2. PICK j \in 1..Len(room.messages) : room'.messages[i] = room.messages[j]
      BY <1>2, <3>1
    <3>. QED
      BY <2>1, <2>2, <2>4, <3>2 DEF Given
  <2>5. after[c].seq <= room'.seq
    BY <1>2, <1>5, <2>1, <2>2, <2>3
  <2>. QED
    BY <2>4, <2>5
<1>8. \A c \in Clients : Caught(c)'
  BY <1>3 DEF Caught
<1>. QED
  BY <1>2, <1>4, <1>6, <1>7, <1>8 DEF SignalInv, Numbered

\* A look gives a client all that is newer, or finds nothing newer.
LEMMA LookKeeps ==
  ASSUME SignalAssumption, SignalInv, NEW c \in Clients, messagesAfter(c)
  PROVE  SignalInv'
<1>. DEFINE found == unread(after[c].seq)
<1>1. UNCHANGED <<room, posted, swept>>
  BY DEF messagesAfter
<1>2. /\ room \in RoomState /\ after \in [Clients -> Place] /\ got \in [Clients -> SUBSET Nat]
      /\ poll \in [Clients -> {"idle", "looking", "waiting", "woken", "pending"}] /\ posted \in Nat /\ swept \in Nat
  BY DEF SignalInv, SignalTypes
<1>3. room.seq \in Nat /\ room.life \in Nat /\ room.messages \in Seq(Message) /\ Len(room.messages) \in Nat
  BY <1>2 DEF RoomState
<1>4. \A i \in 1..Len(room.messages) : room.messages[i].seq \in Nat /\ room.messages[i].id \in Nat
  <2>1. \A i \in 1..Len(room.messages) : room.messages[i] \in Message
    BY <1>3, ElementOfSeq
  <2>. QED
    BY <2>1 DEF Message
<1>5. CASE poll' = [poll EXCEPT ![c] = "pending"] /\ UNCHANGED <<after, got>>
  BY <1>1, <1>2, <1>5 DEF SignalInv, SignalTypes, Numbered, Lives, Given, Caught
<1>6. CASE found = {} /\ poll' = [poll EXCEPT ![c] = "waiting"] /\ UNCHANGED <<after, got>>
  <2>1. SignalTypes' /\ Numbered(room)' /\ Lives' /\ \A d \in Clients : Given(d)'
    BY <1>1, <1>2, <1>6 DEF SignalInv, SignalTypes, Numbered, Lives, Given
  <2>2. after[c].seq \in Nat
    BY <1>2 DEF Place
  <2>3. \A i \in 1..Len(room.messages) : room.messages[i].seq <= after[c].seq
    BY <1>4, <1>6, <2>2 DEF unread
  <2>4. \A d \in Clients : Caught(d)'
    BY <1>1, <1>2, <1>6, <2>3 DEF SignalInv, Caught
  <2>. QED
    BY <2>1, <2>4 DEF SignalInv
<1>7. CASE /\ found # {} /\ poll' = [poll EXCEPT ![c] = "idle"]
           /\ after' = [after EXCEPT ![c] =
                [life |-> room.life, seq |-> room.messages[Max(found)].seq,
                 from |-> IF after[c].life = room.life THEN after[c].from ELSE after[c].seq]]
           /\ got' = [got EXCEPT ![c] = @ \cup {room.messages[i].id : i \in found}]
  <2>. DEFINE n == Len(room.messages)
              from == IF after[c].life = room.life THEN after[c].from ELSE after[c].seq
              place == [life |-> room.life, seq |-> room.messages[Max(found)].seq, from |-> from]
              ids == {room.messages[i].id : i \in found}
  <2>1. after[c].seq \in Nat /\ after[c].life \in Nat /\ from \in Nat
    BY <1>2 DEF Place
  <2>2. \A i \in 1..n : room.messages[i].seq = room.seq - n + i
    BY DEF SignalInv, Numbered
  <2>3. found \subseteq 1..n /\ n \in found
    <3>1. found \subseteq 1..n
      BY DEF unread
    <3>2. PICK j \in 1..n : room.messages[j].seq > after[c].seq
      BY <1>7 DEF unread
    <3>3. n \in 1..n /\ room.messages[n].seq = room.seq /\ room.messages[j].seq <= room.seq
      <4>1. n \in Nat /\ j \in 1..n /\ room.messages[n].seq = room.seq - n + n /\ room.messages[j].seq = room.seq - n + j
        <5>1. n \in Nat /\ j \in 1..n
          BY <1>3, <3>2
        <5>. HIDE DEF n
        <5>2. n \in 1..n
          BY <5>1
        <5>. QED
          BY <2>2, <5>1, <5>2
      <4>. HIDE DEF n
      <4>2. room.messages[n].seq = room.seq /\ room.messages[j].seq <= room.seq /\ n \in 1..n
        BY <1>3, <4>1
      <4>. QED
        BY <4>2
    <3>4. room.messages[n].seq > after[c].seq
      BY <1>3, <1>4, <2>1, <3>2, <3>3
    <3>. QED
      BY <3>1, <3>3, <3>4 DEF unread
  <2>4. Max(found) = n
    BY <1>3, <2>3 DEF Max
  <2>5. room.messages[n].seq = room.seq
    BY <1>3, <2>2, <2>3
  <2>6. place \in Place /\ place.life = room.life /\ place.seq = room.seq /\ place.from = from
    BY <1>3, <2>1, <2>4, <2>5 DEF Place
  <2>7. ids \in SUBSET Nat
    BY <1>4, <2>3
  <2>8. after' = [after EXCEPT ![c] = place] /\ got' = [got EXCEPT ![c] = got[c] \cup ids]
    BY <1>7
  <2>9. room # NoRoom
    BY <1>3, <2>3 DEF NoRoom
  <2>10. \A i \in 1..n : from < room.messages[i].seq => room.messages[i].id \in got[c] \cup ids
    <3> SUFFICES ASSUME NEW i \in 1..n, from < room.messages[i].seq
                 PROVE  room.messages[i].id \in got[c] \cup ids
      OBVIOUS
    <3>1. CASE room.messages[i].seq > after[c].seq
      BY <3>1 DEF unread
    <3>2. CASE ~(room.messages[i].seq > after[c].seq)
      <4>1. after[c].life = room.life /\ after[c].from < room.messages[i].seq /\ room.messages[i].seq <= after[c].seq
        BY <1>4, <2>1, <3>2
      <4>. QED
        BY <2>9, <4>1 DEF SignalInv, Given
    <3>. QED
      BY <3>1, <3>2
  <2>. HIDE DEF place, ids, from, found
  <2>11. SignalTypes'
    BY <1>1, <1>2, <1>7, <2>6, <2>7, <2>8 DEF SignalTypes
  <2>12. Numbered(room)'
    BY <1>1 DEF SignalInv, Numbered
  <2>13. Lives'
    <3>1. room.life = swept + 1
      BY <2>9 DEF SignalInv, Lives
    <3>2. \A d \in Clients : after'[d].life <= swept + 1
      BY <1>2, <2>6, <2>8, <3>1 DEF SignalInv, Lives
    <3>. QED
      BY <1>1, <2>9, <3>1, <3>2 DEF Lives
  <2>14. ASSUME NEW d \in Clients PROVE Given(d)' /\ Caught(d)'
    <3>1. CASE d = c
      <4>1. after'[c] = place /\ got'[c] = got[c] \cup ids /\ poll'[c] = "idle"
        BY <1>2, <1>7, <2>8
      <4>. QED
        BY <1>1, <1>3, <2>6, <2>10, <3>1, <4>1 DEF Given, Caught
    <3>2. CASE d # c
      <4>1. after'[d] = after[d] /\ got'[d] = got[d] /\ poll'[d] = poll[d]
        BY <1>2, <1>7, <2>8, <3>2
      <4>. QED
        BY <1>1, <4>1 DEF SignalInv, Given, Caught
    <3>. QED
      BY <3>1, <3>2
  <2>. QED
    BY <2>11, <2>12, <2>13, <2>14 DEF SignalInv
<1>. QED
  BY <1>5, <1>6, <1>7 DEF messagesAfter

\* The other steps read and number nothing.
LEMMA RestOfRoomKeeps ==
  ASSUME SignalAssumption, SignalInv,
         \/ \E c \in Clients : handleSignalPoll(c) \/ Deadline(c)
         \/ AgeRoom \/ sweep \/ UNCHANGED signalVars
  PROVE  SignalInv'
<1>1. CASE \E c \in Clients : handleSignalPoll(c) \/ Deadline(c)
  BY <1>1 DEF handleSignalPoll, Deadline, SignalInv, SignalTypes, Numbered, Lives, Given, Caught
<1>2. CASE AgeRoom \/ UNCHANGED signalVars
  BY <1>2 DEF AgeRoom, signalVars, SignalInv, SignalTypes, Numbered, Lives, Given, Caught
<1>3. CASE sweep
  <2>1. /\ room' = NoRoom /\ swept' = swept + 1 /\ UNCHANGED <<after, got, posted>> /\ swept \in Nat
        /\ poll' \in [Clients -> {"idle", "looking", "waiting", "woken", "pending"}] /\ \A c \in Clients : poll'[c] # "waiting"
    BY <1>3 DEF sweep, notified, SignalInv, SignalTypes
  <2>2. NoRoom \in RoomState /\ Numbered(NoRoom)
    BY EmptySeq DEF NoRoom, RoomState, Numbered
  <2>3. SignalTypes'
    BY <2>1, <2>2 DEF SignalInv, SignalTypes
  <2>4. Lives'
    BY <2>1 DEF SignalInv, SignalTypes, Lives, Place
  <2>5. \A c \in Clients : Given(c)' /\ Caught(c)'
    BY <2>1 DEF Given, Caught
  <2>. QED
    BY <2>1, <2>2, <2>3, <2>4, <2>5 DEF SignalInv, Numbered
<1>. QED
  BY <1>1, <1>2, <1>3

\* A client that waits on a room's channel has been given everything the room
\* holds, but for what a new room numbered up to the number the client brought
\* from a swept one (signaling.go:145-197, 223).
THEOREM WaiterHasAllHolds == SignalSpec => []WaiterHasAll
<1>. USE SignalAssumption
<1>1. SignalInit => SignalInv
  <2> SUFFICES ASSUME SignalInit PROVE SignalInv
    OBVIOUS
  <2>1. NoRoom \in RoomState /\ Len(NoRoom.messages) = 0
    BY EmptySeq DEF NoRoom, RoomState
  <2>. QED
    BY <2>1 DEF SignalInit, SignalInv, SignalTypes, Numbered, Lives, Given, Caught, Place
<1>2. SignalInv /\ [SignalNext]_signalVars => SignalInv'
  BY AppendKeeps, LookKeeps, RestOfRoomKeeps DEF SignalNext
<1>3. SignalInv => WaiterHasAll
  <2> SUFFICES ASSUME SignalInv, NEW c \in Clients, poll[c] = "waiting",
                      NEW i \in 1..Len(room.messages),
                      room.messages[i].seq > IF after[c].life = room.life THEN after[c].from ELSE after[c].seq
               PROVE  room.messages[i].id \in got[c]
    BY DEF WaiterHasAll
  <2>1. room.messages[i].seq <= after[c].seq /\ room.messages[i].seq \in Nat /\ after[c].seq \in Nat
    <3>1. room.messages \in Seq(Message) /\ after[c] \in Place
      BY DEF SignalInv, SignalTypes, RoomState
    <3>2. room.messages[i] \in Message
      BY <3>1, ElementOfSeq
    <3>. QED
      BY <3>1, <3>2 DEF SignalInv, Caught, Place, Message
  <2>2. after[c].life = room.life /\ after[c].from < room.messages[i].seq
    BY <2>1 DEF SignalInv, SignalTypes, Place
  <2>3. room # NoRoom
    BY DEF NoRoom
  <2>. QED
    BY <2>1, <2>2, <2>3 DEF SignalInv, Given
<1>. QED
  BY <1>1, <1>2, <1>3, PTL DEF SignalSpec


(***************************************************************************)
(* The messages of a WebSocket tunnel.                                      *)
(***************************************************************************)
FrameState == [fin : BOOLEAN, opcode : STRING, size : Nat, masked : BOOLEAN]
Piece == [part : {"header", "payload"}, opcode : {"pong", "binary"}, of : Nat]
Live == {"read", "pong", "pongPayload", "deliver"}

BridgeTypes ==
  /\ reader \in Live \cup {"ended"} /\ copier \in {"read", "frame", "framePayload", "ended"}
  /\ taken \in Seq(FrameState) /\ delivered \in Seq(Nat) /\ fragments \in Seq(Nat)
  /\ wire \in Seq(Piece) /\ mu \in {"free", "reader", "copier"} /\ sent \in Nat
  /\ wireBroken \in BOOLEAN /\ fragmented \in BOOLEAN

collected(n) == \E j \in 1..Len(fragments) : fragments[j] = n

\* The message in the making: data frames in order, after those delivered, and
\* all there are since its first.
FragmentsInv ==
  /\ \A j \in 1..Len(fragments) : fragments[j] \in 1..Len(taken) /\ dataFrame(fragments[j])
  /\ \A i, j \in 1..Len(fragments) : i < j => fragments[i] < fragments[j]
  /\ \A i \in 1..Len(delivered), j \in 1..Len(fragments) : delivered[i] < fragments[j]
  /\ reader \in Live => \A j \in 1..Len(fragments) : \A n \in fragments[j]..Len(taken) :
       dataFrame(n) => collected(n)

\* What was delivered is whole so far.
DeliveredInv ==
  /\ \A i \in 1..Len(delivered) : delivered[i] \in 1..Len(taken) /\ dataFrame(delivered[i])
  /\ \A i, j \in 1..Len(delivered) : i < j => delivered[i] < delivered[j]
  /\ \A i \in 1..Len(delivered) : \A n \in 1..delivered[i] :
       dataFrame(n) /\ taken[n].size > 0 => given(n)
  /\ delivered # << >> => taken[delivered[Len(delivered)]].fin

\* While the reader goes on, no data frame that carries something is forgotten.
NoneForgotten ==
  reader \in Live =>
    \A n \in 1..Len(taken) : dataFrame(n) /\ taken[n].size > 0 => given(n) \/ collected(n)

\* Between messages nothing is collected, within one no frame ends it, and what
\* is about to be delivered ends with the frame that does.
EndsInv ==
  /\ reader \in Live \ {"deliver"} /\ ~fragmented => fragments = << >>
  /\ reader \in Live \ {"deliver"} => \A j \in 1..Len(fragments) : ~taken[fragments[j]].fin
  /\ reader = "deliver" => fragments # << >> /\ taken[fragments[Len(fragments)]].fin

ReaderInv == FragmentsInv /\ DeliveredInv /\ NoneForgotten /\ EndsInv

\* Steps that neither read a frame nor deliver one.
LEMMA OthersKeepReader ==
  ASSUME BridgeTypes, ReaderInv,
         UNCHANGED <<fragments, fragmented, taken, delivered>>,
         reader' = reader \/ reader' = "ended" \/ (reader \in Live \ {"deliver"} /\ reader' \in Live \ {"deliver"})
  PROVE  ReaderInv'
<1>1. \A n : dataFrame(n)' = dataFrame(n) /\ given(n)' = given(n) /\ collected(n)' = collected(n)
  BY DEF dataFrame, given, collected
<1>2. reader' \in Live => reader \in Live
  BY DEF Live
<1>3. FragmentsInv'
  BY <1>1, <1>2 DEF ReaderInv, FragmentsInv
<1>4. DeliveredInv'
  BY <1>1 DEF ReaderInv, DeliveredInv
<1>5. NoneForgotten'
  BY <1>1, <1>2 DEF ReaderInv, NoneForgotten
<1>6. EndsInv'
  BY DEF ReaderInv, EndsInv, Live
<1>. QED
  BY <1>3, <1>4, <1>5, <1>6 DEF ReaderInv

\* A frame is read: it is refused, is a control frame, or is collected.
LEMMA ReadKeepsReader ==
  ASSUME WebSocketAssumption, BridgeTypes, ReaderInv, readDataFrame
  PROVE  ReaderInv'
<1>1. PICK n \in Nat, f \in Frames :
        /\ n = Len(taken) + 1
        /\ reader = "read" /\ taken' = Append(taken, f) /\ UNCHANGED delivered
        /\ \/ /\ ~acceptable(f) \/ f.opcode = "close"
              /\ reader' = "ended" /\ UNCHANGED <<fragments, fragmented>>
           \/ /\ acceptable(f) /\ f.opcode \in {"ping", "pong"}
              /\ reader' \in {"read", "pong"} /\ UNCHANGED <<fragments, fragmented>>
           \/ /\ acceptable(f) /\ f.opcode \notin ControlOpcodes
              /\ fragments' = IF f.opcode = "continue" THEN Append(fragments, n) ELSE <<n>>
              /\ fragmented' = ~f.fin
              /\ reader' = IF f.fin THEN "deliver" ELSE "read"
  <2>1. PICK f \in Frames :
        /\ reader = "read" /\ taken' = Append(taken, f) /\ UNCHANGED delivered
        /\ \/ /\ ~acceptable(f) \/ f.opcode = "close"
              /\ reader' = "ended" /\ UNCHANGED <<fragments, fragmented>>
           \/ /\ acceptable(f) /\ f.opcode \in {"ping", "pong"}
              /\ reader' \in {"read", "pong"} /\ UNCHANGED <<fragments, fragmented>>
           \/ /\ acceptable(f) /\ f.opcode \notin ControlOpcodes
              /\ fragments' = IF f.opcode = "continue" THEN Append(fragments, Len(taken) + 1) ELSE <<Len(taken) + 1>>
              /\ fragmented' = ~f.fin
              /\ reader' = IF f.fin THEN "deliver" ELSE "read"
    BY DEF readDataFrame
  <2>2. Len(taken) + 1 \in Nat
    BY DEF BridgeTypes
  <2>. QED
    BY <2>1, <2>2
<1>2. f \in FrameState
  BY DEF WebSocketAssumption, FrameState
<1>3. /\ taken \in Seq(FrameState) /\ delivered \in Seq(Nat) /\ fragments \in Seq(Nat) /\ Len(taken) \in Nat
      /\ Len(fragments) \in Nat /\ Len(delivered) \in Nat /\ n = Len(taken) + 1
  BY <1>1 DEF BridgeTypes
<1>n. Len(taken) \in Nat /\ n = Len(taken) + 1
  BY <1>3
<1>0. UNCHANGED delivered /\ reader = "read"
  BY <1>1
<1>4. /\ Len(taken') = n /\ taken'[n] = f /\ \A k \in 1..Len(taken) : taken'[k] = taken[k]
  BY <1>1, <1>2, <1>3, AppendProperties
<1>5. \A k \in 1..Len(taken) : dataFrame(k)' = dataFrame(k)
  BY <1>4 DEF dataFrame
<1>6. \A k : given(k)' = given(k)
  BY <1>1 DEF given
<1>7. DeliveredInv'
  <2>1. \A i \in 1..Len(delivered) : delivered[i] \in 1..Len(taken)
    BY DEF ReaderInv, DeliveredInv
  <2>2. \A i \in 1..Len(delivered) : delivered[i] \in 1..Len(taken') /\ dataFrame(delivered[i])'
    <3> SUFFICES ASSUME NEW i \in 1..Len(delivered)
                 PROVE  delivered[i] \in 1..Len(taken') /\ dataFrame(delivered[i])'
      OBVIOUS
    <3>1. delivered[i] \in 1..Len(taken) /\ dataFrame(delivered[i])
      BY DEF ReaderInv, DeliveredInv
    <3>2. taken'[delivered[i]] = taken[delivered[i]] /\ delivered' = delivered /\ Len(taken') = Len(taken) + 1
      BY <1>0, <1>3, <1>4, <3>1
    <3>. QED
      <4>1. delivered[i] \in 1..Len(taken')
        BY <1>n, <3>1, <3>2
      <4>2. taken'[delivered'[i]].opcode \notin ControlOpcodes
        BY <3>1, <3>2 DEF dataFrame
      <4>. QED
        BY <4>1, <4>2 DEF dataFrame
  <2>3. \A i \in 1..Len(delivered) : \A k \in 1..delivered[i] :
          dataFrame(k)' /\ taken'[k].size > 0 => given(k)'
    <3> SUFFICES ASSUME NEW i \in 1..Len(delivered), NEW k \in 1..delivered[i], dataFrame(k)', taken'[k].size > 0
                 PROVE  given(k)
      BY <1>6
    <3>1. k \in 1..Len(taken)
      BY <1>3, <2>1
    <3>. QED
      BY <1>4, <1>5, <3>1 DEF ReaderInv, DeliveredInv
  <2>4. delivered # << >> => taken'[delivered[Len(delivered)]].fin
    <3> SUFFICES ASSUME delivered # << >> PROVE taken'[delivered[Len(delivered)]].fin
      OBVIOUS
    <3>1. Len(delivered) \in 1..Len(delivered)
      BY <1>3, EmptySeq
    <3>. QED
      BY <1>4, <2>1, <3>1 DEF ReaderInv, DeliveredInv
  <2>5. \A i, j \in 1..Len(delivered) : i < j => delivered[i] < delivered[j]
    BY DEF ReaderInv, DeliveredInv
  <2>. QED
    BY <1>1, <2>2, <2>3, <2>4, <2>5 DEF DeliveredInv
<1>8. \A j \in 1..Len(fragments) : fragments[j] \in 1..Len(taken)
  BY DEF ReaderInv, FragmentsInv
<1>9. CASE fragments' = fragments /\ (reader' = "ended" \/ (fragmented' = fragmented /\ reader' \in {"read", "pong"} /\ ~dataFrame(n)'))
  <2>1. \A k : collected(k)' = collected(k)
    BY <1>9 DEF collected
  <2>2. FragmentsInv'
    <3>1. \A j \in 1..Len(fragments) : fragments[j] \in 1..Len(taken') /\ dataFrame(fragments[j])'
      BY <1>3, <1>4, <1>5, <1>8, <1>9 DEF ReaderInv, FragmentsInv
    <3>2. reader' \in Live => \A j \in 1..Len(fragments) : \A k \in fragments[j]..Len(taken') :
            dataFrame(k)' => collected(k)'
      <4> SUFFICES ASSUME reader' \in Live, NEW j \in 1..Len(fragments), NEW k \in fragments[j]..Len(taken'), dataFrame(k)'
                   PROVE  collected(k)
        BY <2>1
      <4>1. k # n
        BY <1>9 DEF Live
      <4>2. k \in fragments[j]..Len(taken) /\ k \in 1..Len(taken)
        <5>1. fragments[j] \in 1..Len(taken) /\ Len(taken') = Len(taken) + 1 /\ k # Len(taken) + 1
          BY <1>3, <1>4, <1>8, <4>1
        <5>2. k \in fragments[j]..Len(taken')
          OBVIOUS
        <5>. QED
          BY <1>n, <5>1, <5>2
      <4>. QED
        BY <1>1, <1>5, <4>2 DEF ReaderInv, FragmentsInv, Live
    <3>. QED
      BY <1>1, <1>9, <3>1, <3>2 DEF ReaderInv, FragmentsInv
  <2>3. NoneForgotten'
    <3> SUFFICES ASSUME reader' \in Live, NEW k \in 1..Len(taken'), dataFrame(k)', taken'[k].size > 0
                 PROVE  given(k) \/ collected(k)
      BY <1>6, <2>1 DEF NoneForgotten
    <3>1. k # n
      BY <1>9 DEF Live
    <3>2. k \in 1..Len(taken)
      BY <1>3, <1>4, <3>1
    <3>. QED
      BY <1>1, <1>4, <1>5, <3>2 DEF ReaderInv, NoneForgotten, Live
  <2>4. EndsInv'
    <3>1. reader' # "deliver"
      BY <1>9
    <3>2. \A j \in 1..Len(fragments) : ~taken[fragments[j]].fin
      BY <1>1 DEF ReaderInv, EndsInv, Live
    <3>3. \A j \in 1..Len(fragments) : ~taken'[fragments[j]].fin
      BY <1>4, <1>8, <3>2
    <3>4. reader' \in Live => fragmented' = fragmented
      BY <1>9 DEF Live
    <3>5. ~fragmented => fragments = << >>
      BY <1>1 DEF ReaderInv, EndsInv, Live
    <3>. QED
      BY <1>9, <3>1, <3>3, <3>4, <3>5 DEF EndsInv
  <2>. QED
    BY <1>7, <2>2, <2>3, <2>4 DEF ReaderInv
<1>10. CASE /\ fragments' = Append(fragments, n) /\ dataFrame(n)'
            /\ reader' = (IF f.fin THEN "deliver" ELSE "read") /\ fragmented' = ~f.fin
  <2>1. /\ fragments' \in Seq(Nat) /\ Len(fragments') = Len(fragments) + 1 /\ fragments'[Len(fragments) + 1] = n
        /\ \A j \in 1..Len(fragments) : fragments'[j] = fragments[j]
    BY <1>3, <1>10, AppendProperties
  <2>2. \A k : collected(k)' <=> collected(k) \/ k = n
    <3> SUFFICES ASSUME NEW k PROVE collected(k)' <=> collected(k) \/ k = n
      OBVIOUS
    <3>1. ASSUME NEW j \in 1..Len(fragments'), fragments'[j] = k PROVE collected(k) \/ k = n
      <4>1. j \in 1..Len(fragments) \/ j = Len(fragments) + 1
        BY <1>3, <2>1
      <4>. QED
        BY <2>1, <3>1, <4>1 DEF collected
    <3>2. ASSUME NEW j \in 1..Len(fragments), fragments[j] = k PROVE collected(k)'
      <4>1. j \in 1..Len(fragments')
        BY <1>3, <2>1
      <4>. QED
        BY <2>1, <3>2, <4>1 DEF collected
    <3>3. collected(n)'
      <4>1. Len(fragments) + 1 \in 1..Len(fragments')
        BY <1>3, <2>1
      <4>. QED
        BY <2>1, <4>1 DEF collected
    <3>. QED
      BY <3>1, <3>2, <3>3 DEF collected
  <2>3. \A j \in 1..Len(fragments') : j \in 1..Len(fragments) \/ (j = Len(fragments) + 1 /\ fragments'[j] = n)
    BY <1>3, <2>1
  <2>4. FragmentsInv'
    <3>1. \A j \in 1..Len(fragments') : fragments'[j] \in 1..Len(taken') /\ dataFrame(fragments[j])'
      <4> SUFFICES ASSUME NEW j \in 1..Len(fragments')
                   PROVE  fragments'[j] \in 1..Len(taken') /\ dataFrame(fragments[j])'
        OBVIOUS
      <4>1. n \in 1..Len(taken') /\ 1..Len(taken) \subseteq 1..Len(taken')
        BY <1>3, <1>4
      <4>2. CASE fragments'[j] = n
        <5>1. taken'[n].opcode \notin ControlOpcodes
          BY <1>10 DEF dataFrame
        <5>. QED
          BY <4>1, <4>2, <5>1 DEF dataFrame
      <4>3. CASE j \in 1..Len(fragments)
        <5>1. fragments'[j] = fragments[j] /\ fragments[j] \in 1..Len(taken) /\ dataFrame(fragments[j])
          BY <1>8, <2>1, <4>3 DEF ReaderInv, FragmentsInv
        <5>2. taken'[fragments'[j]] = taken[fragments[j]]
          BY <1>4, <5>1
        <5>. QED
          BY <4>1, <5>1, <5>2 DEF dataFrame
      <4>. QED
        BY <2>3, <4>2, <4>3
    <3>2. \A i, j \in 1..Len(fragments') : i < j => fragments'[i] < fragments'[j]
      <4> SUFFICES ASSUME NEW i \in 1..Len(fragments'), NEW j \in 1..Len(fragments'), i < j
                   PROVE  fragments'[i] < fragments'[j]
        OBVIOUS
      <4>1. i \in 1..Len(fragments) /\ fragments'[i] = fragments[i]
        <5>1. i \in Nat /\ j \in Nat /\ j <= Len(fragments) + 1 /\ i >= 1
          BY <1>3, <2>1
        <5>2. i \in 1..Len(fragments)
          BY <1>3, <5>1
        <5>. QED
          BY <2>1, <5>2
      <4>2. CASE j \in 1..Len(fragments)
        BY <2>1, <4>1, <4>2 DEF ReaderInv, FragmentsInv
      <4>3. CASE fragments'[j] = n
        <5>1. fragments[i] \in 1..Len(taken)
          BY <1>8, <4>1
        <5>2. fragments[i] < n
          BY <1>3, <5>1
        <5>. QED
          BY <4>1, <4>3, <5>2
      <4>. QED
        BY <2>3, <4>2, <4>3
    <3>3. \A i \in 1..Len(delivered), j \in 1..Len(fragments') : delivered[i] < fragments'[j]
      <4>1. \A i \in 1..Len(delivered) : delivered[i] < n
        BY <1>3 DEF ReaderInv, DeliveredInv
      <4>. QED
        BY <2>1, <2>3, <4>1 DEF ReaderInv, FragmentsInv
    <3>4. \A j \in 1..Len(fragments') : \A k \in fragments'[j]..Len(taken') : dataFrame(k)' => collected(k)'
      <4> SUFFICES ASSUME NEW j \in 1..Len(fragments'), NEW k \in fragments'[j]..Len(taken'), dataFrame(k)'
                   PROVE  collected(k)'
        OBVIOUS
      <4>1. CASE k = n
        BY <2>2, <4>1
      <4>2. CASE k # n
        <5>1. fragments'[j] \in 1..Len(taken')
          BY <3>1
        <5>2. k \in 1..Len(taken) /\ fragments'[j] # n
          <6>1. Len(taken') = Len(taken) + 1 /\ n = Len(taken) + 1
            BY <1>3, <1>4
          <6>2. k \in fragments'[j]..Len(taken')
            OBVIOUS
          <6>. QED
            BY <1>n, <4>2, <5>1, <6>1, <6>2
        <5>3. j \in 1..Len(fragments) /\ fragments'[j] = fragments[j]
          BY <2>1, <2>3, <5>2
        <5>4. k \in fragments[j]..Len(taken) /\ dataFrame(k)
          BY <1>3, <1>4, <1>5, <5>2, <5>3
        <5>. QED
          BY <1>1, <2>2, <5>3, <5>4 DEF ReaderInv, FragmentsInv, Live
      <4>. QED
        BY <4>1, <4>2
    <3>. QED
      BY <1>0, <3>1, <3>2, <3>3, <3>4 DEF FragmentsInv
  <2>5. NoneForgotten'
    <3> SUFFICES ASSUME NEW k \in 1..Len(taken'), dataFrame(k)', taken'[k].size > 0, ~collected(k)'
                 PROVE  given(k)
      BY <1>6 DEF NoneForgotten
    <3>1. k # n /\ ~collected(k)
      BY <2>2
    <3>2. k \in 1..Len(taken)
      BY <1>3, <1>4, <3>1
    <3>. QED
      BY <1>1, <1>4, <1>5, <3>1, <3>2 DEF ReaderInv, NoneForgotten, Live
  <2>6. EndsInv'
    <3>1. CASE f.fin
      <4>1. reader' = "deliver" /\ Len(fragments') = Len(fragments) + 1 /\ taken'[fragments'[Len(fragments')]] = f
        BY <1>4, <1>10, <2>1, <3>1
      <4>2. fragments' # << >>
        BY <1>3, <4>1, EmptySeq
      <4>. QED
        BY <3>1, <4>1, <4>2 DEF EndsInv
    <3>2. CASE ~f.fin
      <4>1. reader' = "read" /\ fragmented'
        BY <1>10, <3>2
      <4>2. \A j \in 1..Len(fragments) : ~taken'[fragments[j]].fin
        BY <1>1, <1>4, <1>8 DEF ReaderInv, EndsInv, Live
      <4>3. \A j \in 1..Len(fragments') : ~taken'[fragments'[j]].fin
        BY <1>4, <2>1, <2>3, <3>2, <4>2
      <4>. QED
        BY <4>1, <4>3 DEF EndsInv
    <3>. QED
      BY <3>1, <3>2
  <2>. QED
    BY <1>7, <2>4, <2>5, <2>6 DEF ReaderInv
<1>11. \/ fragments' = fragments /\ (reader' = "ended" \/ (fragmented' = fragmented /\ reader' \in {"read", "pong"} /\ ~dataFrame(n)'))
       \/ /\ fragments' = Append(fragments, n) /\ dataFrame(n)'
          /\ reader' = (IF f.fin THEN "deliver" ELSE "read") /\ fragmented' = ~f.fin
  <2>1. dataFrame(n)' <=> f.opcode \notin ControlOpcodes
    BY <1>4 DEF dataFrame
  <2>2. CASE reader' = "ended" /\ UNCHANGED <<fragments, fragmented>>
    BY <2>2
  <2>3. CASE f.opcode \in {"ping", "pong"} /\ reader' \in {"read", "pong"} /\ UNCHANGED <<fragments, fragmented>>
    BY <2>1, <2>3 DEF ControlOpcodes
  <2>4. CASE /\ acceptable(f) /\ f.opcode \notin ControlOpcodes
             /\ fragments' = IF f.opcode = "continue" THEN Append(fragments, n) ELSE <<n>>
             /\ fragmented' = ~f.fin
             /\ reader' = IF f.fin THEN "deliver" ELSE "read"
    <3>2. f.opcode # "continue" => ~fragmented
      BY <2>4, <1>2 DEF acceptable, DataOpcodes, ControlOpcodes
    <3>3. f.opcode # "continue" => fragments = << >>
      BY <1>1, <3>2 DEF ReaderInv, EndsInv, Live
    <3>4. Append(<< >>, n) = <<n>>
      OBVIOUS
    <3>. QED
      BY <2>1, <2>4, <3>3, <3>4
  <2>. QED
    BY <1>1, <2>2, <2>3, <2>4
<1>. QED
  BY <1>9, <1>10, <1>11


\* A message is delivered, found empty or refused.
LEMMA DeliverKeepsReader ==
  ASSUME WebSocketAssumption, BridgeTypes, ReaderInv, deliver
  PROVE  ReaderInv'
<1>1. /\ reader = "deliver" /\ fragments' = << >> /\ UNCHANGED <<taken, fragmented>>
      /\ \/ reader' = "ended" /\ delivered' = delivered
         \/ /\ reader' = "read" /\ delivered' = delivered
            /\ \A j \in 1..Len(fragments) : taken[fragments[j]].size = 0
         \/ reader' = "read" /\ delivered' = delivered \o fragments
  BY DEF deliver
<1>2. delivered \in Seq(Nat) /\ fragments \in Seq(Nat) /\ Len(fragments) \in Nat /\ Len(delivered) \in Nat
  BY DEF BridgeTypes
<1>3. \A n : dataFrame(n)' = dataFrame(n)
  BY <1>1 DEF dataFrame
<1>4. Len(fragments') = 0
  BY <1>1, EmptySeq
<1>5. FragmentsInv' /\ EndsInv'
  <2>1. FragmentsInv'
    BY <1>4 DEF FragmentsInv
  <2>2. EndsInv'
    BY <1>1, <1>4 DEF EndsInv
  <2>. QED
    BY <2>1, <2>2
<1>6. \A n \in 1..Len(taken) : dataFrame(n) /\ taken[n].size > 0 => given(n) \/ collected(n)
  BY <1>1 DEF ReaderInv, NoneForgotten, Live
<1>7. CASE delivered' = delivered
  <2>1. \A n : given(n)' = given(n)
    BY <1>7 DEF given
  <2>2. DeliveredInv'
    BY <1>1, <1>3, <1>7, <2>1 DEF ReaderInv, DeliveredInv
  <2>3. CASE reader' = "ended"
    BY <1>5, <2>2, <2>3 DEF ReaderInv, NoneForgotten, Live
  <2>4. CASE \A j \in 1..Len(fragments) : taken[fragments[j]].size = 0
    <3>1. \A n : collected(n) => taken[n].size = 0
      BY <2>4 DEF collected
    <3>2. \A n \in 1..Len(taken) : dataFrame(n) /\ taken[n].size > 0 => given(n)
      BY <1>6, <3>1
    <3>3. NoneForgotten'
      BY <1>1, <1>3, <2>1, <3>2 DEF NoneForgotten
    <3>. QED
      BY <1>5, <2>2, <3>3 DEF ReaderInv
  <2>5. CASE delivered' = delivered \o fragments
    \* Then there was nothing to deliver; the reader had an ended message.
    <3>1. Len(delivered \o fragments) = Len(delivered) + Len(fragments)
      BY <1>2, ConcatProperties
    <3>2. Len(fragments) = 0
      BY <1>2, <1>7, <2>5, <3>1
    <3>3. fragments = << >>
      BY <1>2, <3>2, EmptySeq
    <3>. QED
      BY <1>1, <3>3 DEF ReaderInv, EndsInv
  <2>. QED
    BY <1>1, <2>3, <2>4, <2>5
<1>8. CASE reader' = "read" /\ delivered' = delivered \o fragments
  <2>1. /\ Len(delivered') = Len(delivered) + Len(fragments)
        /\ \A i \in 1..Len(delivered') :
             delivered'[i] = IF i <= Len(delivered) THEN delivered[i] ELSE fragments[i - Len(delivered)]
    BY <1>2, <1>8, ConcatProperties
  <2>. DEFINE old == Len(delivered)
              all == Len(delivered')
  <2>2. old \in Nat /\ Len(fragments) \in Nat /\ all = old + Len(fragments)
    BY <1>2, <2>1
  <2>3. \A i \in 1..all : \/ i \in 1..old /\ delivered'[i] = delivered[i]
                          \/ i - old \in 1..Len(fragments) /\ delivered'[i] = fragments[i - old]
    <3> SUFFICES ASSUME NEW i \in 1..all
                 PROVE  \/ i \in 1..old /\ delivered'[i] = delivered[i]
                        \/ i - old \in 1..Len(fragments) /\ delivered'[i] = fragments[i - old]
      OBVIOUS
    <3>1. delivered'[i] = IF i <= old THEN delivered[i] ELSE fragments[i - old]
      BY <2>1
    <3>2. IF i <= old THEN i \in 1..old ELSE i - old \in 1..Len(fragments)
      BY <2>2
    <3>. QED
      BY <3>1, <3>2
  <2>4. \A i \in 1..old : i \in 1..all /\ delivered'[i] = delivered[i]
    <3> SUFFICES ASSUME NEW i \in 1..old PROVE i \in 1..all /\ delivered'[i] = delivered[i]
      OBVIOUS
    <3>1. i \in 1..all /\ i <= old
      BY <2>2
    <3>. QED
      BY <2>1, <3>1
  <2>5. \A j \in 1..Len(fragments) : j + old \in 1..all /\ delivered'[j + old] = fragments[j]
    <3> SUFFICES ASSUME NEW j \in 1..Len(fragments) PROVE j + old \in 1..all /\ delivered'[j + old] = fragments[j]
      OBVIOUS
    <3>1. j + old \in 1..all /\ ~(j + old <= old) /\ (j + old) - old = j
      BY <2>2
    <3>. QED
      BY <2>1, <3>1
  <2>. HIDE DEF old, all
  <2>6. \A n : given(n) \/ collected(n) => given(n)'
    <3>1. \A n : given(n) => \E i \in 1..all : delivered'[i] = n
      BY <2>4 DEF given, old
    <3>2. \A n : collected(n) => \E i \in 1..all : delivered'[i] = n
      BY <2>5 DEF collected
    <3>. QED
      BY <3>1, <3>2 DEF given, all
  <2>7. \A i \in 1..old : delivered[i] \in 1..Len(taken) /\ dataFrame(delivered[i])
    BY DEF ReaderInv, DeliveredInv, old
  <2>8. \A j \in 1..Len(fragments) : fragments[j] \in 1..Len(taken) /\ dataFrame(fragments[j])
    BY DEF ReaderInv, FragmentsInv
  <2>9. \A i \in 1..all : delivered'[i] \in 1..Len(taken) /\ taken[delivered'[i]].opcode \notin ControlOpcodes
    BY <2>3, <2>7, <2>8 DEF dataFrame
  <2>10. \A i, j \in 1..all : i < j => delivered'[i] < delivered'[j]
    <3> SUFFICES ASSUME NEW i \in 1..all, NEW j \in 1..all, i < j
                 PROVE  delivered'[i] < delivered'[j]
      OBVIOUS
    <3>1. CASE i \in 1..old /\ delivered'[i] = delivered[i]
      <4>1. CASE j \in 1..old /\ delivered'[j] = delivered[j]
        BY <3>1, <4>1 DEF ReaderInv, DeliveredInv, old
      <4>2. CASE j - old \in 1..Len(fragments) /\ delivered'[j] = fragments[j - old]
        BY <3>1, <4>2 DEF ReaderInv, FragmentsInv, old
      <4>. QED
        BY <2>3, <4>1, <4>2
    <3>2. CASE i - old \in 1..Len(fragments) /\ delivered'[i] = fragments[i - old]
      <4>1. ~(j \in 1..old) /\ i - old < j - old
        BY <2>2, <3>2
      <4>2. j - old \in 1..Len(fragments) /\ delivered'[j] = fragments[j - old]
        BY <2>3, <4>1
      <4>. QED
        BY <3>2, <4>1, <4>2 DEF ReaderInv, FragmentsInv
    <3>. QED
      BY <2>3, <3>1, <3>2
  <2>11. \A i \in 1..all : \A n \in 1..delivered'[i] : dataFrame(n) /\ taken[n].size > 0 => given(n)'
    <3> SUFFICES ASSUME NEW i \in 1..all, NEW n \in 1..delivered'[i], dataFrame(n), taken[n].size > 0
                 PROVE  given(n)'
      OBVIOUS
    <3>1. n \in 1..Len(taken)
      <4>1. delivered'[i] \in 1..Len(taken) /\ Len(taken) \in Nat
        BY <2>9 DEF BridgeTypes
      <4>. QED
        BY <4>1
    <3>. QED
      BY <1>6, <2>6, <3>1
  <2>12. taken[delivered'[all]].fin
    <3>1. fragments # << >> /\ taken[fragments[Len(fragments)]].fin
      BY <1>1 DEF ReaderInv, EndsInv
    <3>2. Len(fragments) \in 1..Len(fragments)
      BY <1>2, <3>1, EmptySeq
    <3>3. Len(fragments) + old = all
      BY <2>2
    <3>. QED
      BY <2>5, <3>1, <3>2, <3>3
  <2>13. DeliveredInv'
    BY <1>1, <1>3, <2>9, <2>10, <2>11, <2>12 DEF DeliveredInv, dataFrame, all
  <2>14. NoneForgotten'
    BY <1>1, <1>3, <1>6, <2>6 DEF NoneForgotten
  <2>. QED
    BY <1>5, <2>13, <2>14 DEF ReaderInv
<1>. QED
  BY <1>1, <1>7, <1>8

\* What is delivered follows from what is collected.
LEMMA ReaderReassembles ==
  ASSUME BridgeTypes, ReaderInv
  PROVE  Reassembled
<1>1. ASSUME reader = "read", NEW m \in 1..Len(taken), dataFrame(m), taken[m].fin,
             NEW n \in 1..m, dataFrame(n), taken[n].size > 0, ~given(n)
      PROVE  FALSE
  <2>1. n \in 1..Len(taken) /\ Len(taken) \in Nat
    BY DEF BridgeTypes
  <2>2. collected(n)
    BY <1>1, <2>1 DEF ReaderInv, NoneForgotten, Live
  <2>3. PICK j \in 1..Len(fragments) : fragments[j] = n
    BY <2>2 DEF collected
  <2>4. m \in fragments[j]..Len(taken)
    BY <2>1, <2>3
  <2>5. collected(m)
    BY <1>1, <2>4 DEF ReaderInv, FragmentsInv, Live
  <2>. QED
    BY <1>1, <2>5 DEF ReaderInv, EndsInv, Live, collected
<1>2. DeliveredInv
  BY DEF ReaderInv
<1>. QED
  BY <1>1, <1>2 DEF Reassembled, DeliveredInv


\* Every step of the two goroutines keeps the types.
LEMMA BridgeTypesKept ==
  ASSUME WebSocketAssumption, BridgeTypes, [BridgeNext]_bridgeVars
  PROVE  BridgeTypes'
<1>. USE DEF BridgeTypes, Live
<1>1. CASE readDataFrame
  <2>1. PICK f \in Frames :
          /\ taken' = Append(taken, f)
          /\ reader' \in Live \cup {"ended"}
          /\ \/ UNCHANGED <<fragments, fragmented>>
             \/ fragmented' \in BOOLEAN /\ fragments' = Append(fragments, Len(taken) + 1)
             \/ fragmented' \in BOOLEAN /\ fragments' = <<Len(taken) + 1>>
    <3>1. PICK f \in Frames :
            /\ taken' = Append(taken, f)
            /\ \/ reader' = "ended" /\ UNCHANGED <<fragments, fragmented>>
               \/ reader' = (IF f.opcode = "ping" THEN "pong" ELSE "read") /\ UNCHANGED <<fragments, fragmented>>
               \/ /\ fragments' = IF f.opcode = "continue" THEN Append(fragments, Len(taken) + 1) ELSE <<Len(taken) + 1>>
                  /\ fragmented' = ~f.fin
                  /\ reader' = IF f.fin THEN "deliver" ELSE "read"
      BY <1>1 DEF readDataFrame
    <3>. QED
      BY <3>1
  <2>2. f \in FrameState /\ Len(taken) + 1 \in Nat
    BY DEF WebSocketAssumption, FrameState
  <2>3. taken' \in Seq(FrameState)
    BY <2>1, <2>2, AppendProperties
  <2>4. fragments' \in Seq(Nat)
    <3>1. Append(fragments, Len(taken) + 1) \in Seq(Nat)
      BY <2>2, AppendProperties
    <3>2. <<Len(taken) + 1>> \in Seq(Nat)
      BY <2>2
    <3>. QED
      BY <2>1, <3>1, <3>2
  <2>5. UNCHANGED <<copier, delivered, wire, mu, sent, wireBroken>>
    BY <1>1 DEF readDataFrame
  <2>6. fragmented' \in BOOLEAN
    BY <2>1
  <2>. QED
    BY <2>1, <2>3, <2>4, <2>5, <2>6
<1>2. CASE readFails \/ closeBoth \/ UNCHANGED bridgeVars
  BY <1>2 DEF readFails, closeBoth, bridgeVars
<1>3. CASE deliver
  <2>1. << >> \in Seq(Nat)
    BY EmptySeq
  <2>2. delivered \o fragments \in Seq(Nat)
    BY ConcatProperties
  <2>3. fragments' = << >> /\ reader' \in {"read", "ended"} /\ delivered' \in {delivered, delivered \o fragments}
        /\ UNCHANGED <<copier, fragmented, taken, wire, mu, sent, wireBroken>>
    BY <1>3 DEF deliver
  <2>. QED
    BY <2>1, <2>2, <2>3
<1>4. CASE writePong
  <2>1. /\ reader' \in {"read", "pongPayload", "ended"} /\ mu' \in {"free", "reader"}
        /\ wireBroken' \in BOOLEAN
        /\ \/ wire' = wire
           \/ wire' = Append(wire, [part |-> "header", opcode |-> "pong", of |-> Len(taken)])
           \/ wire' = Append(wire, [part |-> "payload", opcode |-> "pong", of |-> Len(taken)])
        /\ UNCHANGED <<copier, fragments, fragmented, taken, delivered, sent>>
    BY <1>4 DEF writePong, writeHeader, writePayload, writeFails
  <2>2. /\ [part |-> "header", opcode |-> "pong", of |-> Len(taken)] \in Piece
        /\ [part |-> "payload", opcode |-> "pong", of |-> Len(taken)] \in Piece
    BY DEF Piece
  <2>3. \A piece \in Piece : Append(wire, piece) \in Seq(Piece)
    BY AppendProperties
  <2>4. wire' \in Seq(Piece)
    <3>1. CASE wire' = wire
      BY <3>1
    <3>2. CASE wire' # wire
      BY <2>1, <2>2, <2>3, <3>2
    <3>. QED
      BY <3>1, <3>2
  <2>. QED
    BY <2>1, <2>4
<1>5. CASE writeBinary
  <2>1. /\ copier' \in {"read", "framePayload", "ended"} /\ mu' \in {"free", "copier"}
        /\ wireBroken' \in BOOLEAN
        /\ \/ wire' = wire
           \/ wire' = Append(wire, [part |-> "header", opcode |-> "binary", of |-> sent])
           \/ wire' = Append(wire, [part |-> "payload", opcode |-> "binary", of |-> sent])
        /\ UNCHANGED <<reader, fragments, fragmented, taken, delivered, sent>>
    BY <1>5 DEF writeBinary, writeHeader, writePayload, writeFails
  <2>2. /\ [part |-> "header", opcode |-> "binary", of |-> sent] \in Piece
        /\ [part |-> "payload", opcode |-> "binary", of |-> sent] \in Piece
    BY DEF Piece
  <2>3. \A piece \in Piece : Append(wire, piece) \in Seq(Piece)
    BY AppendProperties
  <2>4. wire' \in Seq(Piece)
    <3>1. CASE wire' = wire
      BY <3>1
    <3>2. CASE wire' # wire
      BY <2>1, <2>2, <2>3, <3>2
    <3>. QED
      BY <3>1, <3>2
  <2>. QED
    BY <2>1, <2>4
<1>6. CASE readUpstream
  BY <1>6 DEF readUpstream
<1>. QED
  BY <1>1, <1>2, <1>3, <1>4, <1>5, <1>6 DEF BridgeNext

\* The frames the client is sent: which are answers, and to what.
Pongs == {wire[i].of : i \in {k \in 1..Len(wire) : wire[k].opcode = "pong"}}
Pings == {n \in 1..Len(taken) : taken[n].opcode = "ping"}

Paired ==
  /\ \A i \in 1..Len(wire) :
       wire[i].part = "payload"
         => i > 1 /\ wire[i - 1] = [wire[i] EXCEPT !.part = "header"]
  /\ \A i \in 1..Len(wire) - 1 : wire[i].part = "header" => wire[i + 1] = [wire[i] EXCEPT !.part = "payload"]

lastIs(opcode, n) == wire # << >> /\ wire[Len(wire)] = [part |-> "header", opcode |-> opcode, of |-> n]

\* Whoever holds the lock has just written the header of its frame; while nobody
\* holds it, the last frame is complete.
LockInv ==
  /\ mu = "free" /\ ~wireBroken /\ wire # << >> => wire[Len(wire)].part = "payload"
  /\ mu = "reader" <=> reader = "pongPayload"
  /\ mu = "copier" <=> copier = "framePayload"
  /\ mu = "reader" => lastIs("pong", Len(taken))
  /\ mu = "copier" => lastIs("binary", sent)

\* Every ping is answered before the reader goes on.
PongInv ==
  /\ reader \in {"read", "deliver", "pongPayload"} => Pongs = Pings
  /\ reader = "pong" => Len(taken) \in Pings /\ Pongs = Pings \ {Len(taken)}

WireInv == Paired /\ LockInv /\ PongInv

\* A header follows a complete frame, and a payload its header.
LEMMA PairedAppend ==
  ASSUME BridgeTypes, Paired, NEW op \in {"pong", "binary"}, NEW n \in Nat, NEW p \in {"header", "payload"},
         wire' = Append(wire, [part |-> p, opcode |-> op, of |-> n]),
         p = "header" => (wire = << >> \/ wire[Len(wire)].part = "payload"),
         p = "payload" => lastIs(op, n)
  PROVE  /\ Paired'
         /\ wire' # << >> /\ wire'[Len(wire')] = [part |-> p, opcode |-> op, of |-> n]
         /\ Pongs' = IF op = "pong" THEN Pongs \cup {n} ELSE Pongs
<1>. DEFINE new == [part |-> p, opcode |-> op, of |-> n]
            old == Len(wire)
<1>1. new \in Piece /\ new.part = p /\ new.opcode = op /\ new.of = n
  BY DEF Piece
<1>2. new = [part |-> p, opcode |-> op, of |-> n] /\ wire' = Append(wire, new)
  OBVIOUS
<1>3. [new EXCEPT !.part = "header"] = [part |-> "header", opcode |-> op, of |-> n]
  OBVIOUS
<1>4. p = "payload" => old # 0 /\ wire[old] = [part |-> "header", opcode |-> op, of |-> n]
  BY EmptySeq DEF lastIs, BridgeTypes
<1>5. p = "payload" => [wire[old] EXCEPT !.part = "payload"] = new
  BY <1>4
<1>. HIDE DEF new
<1>6. /\ old \in Nat /\ Len(wire') = old + 1 /\ wire'[old + 1] = new
      /\ \A i \in 1..old : wire'[i] = wire[i]
  BY <1>1, <1>2, AppendProperties DEF BridgeTypes
<1>7. \A i \in 1..old + 1 : i \in 1..old \/ i = old + 1
  BY <1>6
<1>8. \A i \in 1..Len(wire') : wire'[i].part = "payload" => i > 1 /\ wire'[i - 1] = [wire'[i] EXCEPT !.part = "header"]
  <2> SUFFICES ASSUME NEW i \in 1..old + 1, wire'[i].part = "payload"
               PROVE  i > 1 /\ wire'[i - 1] = [wire'[i] EXCEPT !.part = "header"]
    BY <1>6
  <2>1. CASE i \in 1..old
    <3>1. i > 1 /\ wire[i - 1] = [wire[i] EXCEPT !.part = "header"] /\ wire'[i] = wire[i]
      BY <1>6, <2>1 DEF Paired
    <3>2. i - 1 \in 1..old
      BY <1>6, <2>1, <3>1
    <3>. QED
      BY <1>6, <3>1, <3>2
  <2>2. CASE i = old + 1
    <3>1. p = "payload"
      BY <1>1, <1>6, <2>2
    <3>2. old \in 1..old /\ i - 1 = old /\ i > 1
      BY <1>4, <1>6, <2>2, <3>1
    <3>3. wire'[i - 1] = [new EXCEPT !.part = "header"]
      BY <1>3, <1>4, <1>6, <3>1, <3>2
    <3>. QED
      BY <1>6, <2>2, <3>2, <3>3
  <2>. QED
    BY <1>7, <2>1, <2>2
<1>9. \A i \in 1..Len(wire') - 1 : wire'[i].part = "header" => wire'[i + 1] = [wire'[i] EXCEPT !.part = "payload"]
  <2> SUFFICES ASSUME NEW i \in 1..old, wire'[i].part = "header"
               PROVE  wire'[i + 1] = [wire'[i] EXCEPT !.part = "payload"]
    BY <1>6
  <2>1. wire'[i] = wire[i] /\ wire[i].part = "header"
    BY <1>6
  <2>2. CASE i = old
    <3>1. p # "header"
      <4>1. wire # << >>
        BY <2>2, <1>6, EmptySeq
      <4>. QED
        BY <2>1, <2>2, <4>1
    <3>. QED
      BY <1>5, <1>6, <2>1, <2>2, <3>1
  <2>3. CASE i # old
    <3>1. i \in 1..old - 1 /\ i + 1 \in 1..old
      BY <1>6, <2>3
    <3>2. wire[i + 1] = [wire[i] EXCEPT !.part = "payload"]
      BY <2>1, <3>1 DEF Paired
    <3>. QED
      BY <1>6, <2>1, <3>1, <3>2
  <2>. QED
    BY <2>2, <2>3
<1>10. Pongs' = IF op = "pong" THEN Pongs \cup {n} ELSE Pongs
  <2>1. Pongs' = {wire'[i].of : i \in {k \in 1..old + 1 : wire'[k].opcode = "pong"}}
    BY <1>6 DEF Pongs
  <2>2. \A x : x \in Pongs' <=> \E i \in 1..old + 1 : wire'[i].opcode = "pong" /\ x = wire'[i].of
    BY <2>1
  <2>3. \A x : x \in Pongs <=> \E i \in 1..old : wire[i].opcode = "pong" /\ x = wire[i].of
    BY DEF Pongs
  <2>4. \A x : x \in Pongs' <=> x \in Pongs \/ (op = "pong" /\ x = n)
    <3> SUFFICES ASSUME NEW x PROVE x \in Pongs' <=> x \in Pongs \/ (op = "pong" /\ x = n)
      OBVIOUS
    <3>1. ASSUME x \in Pongs' PROVE x \in Pongs \/ (op = "pong" /\ x = n)
      BY <1>1, <1>6, <1>7, <2>2, <2>3, <3>1
    <3>2. ASSUME x \in Pongs PROVE x \in Pongs'
      <4>1. PICK i \in 1..old : wire[i].opcode = "pong" /\ x = wire[i].of
        BY <2>3, <3>2
      <4>2. i \in 1..old + 1 /\ wire'[i] = wire[i]
        BY <1>6
      <4>. QED
        BY <2>2, <4>1, <4>2
    <3>3. ASSUME op = "pong", x = n PROVE x \in Pongs'
      <4>1. old + 1 \in 1..old + 1
        BY <1>6
      <4>. QED
        BY <1>1, <1>6, <2>2, <3>3, <4>1
    <3>. QED
      BY <3>1, <3>2, <3>3
  <2>. QED
    BY <2>4
<1>11. wire' # << >> /\ wire'[Len(wire')] = new
  BY <1>6, EmptySeq
<1>. QED
  BY <1>2, <1>8, <1>9, <1>10, <1>11 DEF Paired


\* A write of one goroutine, in its two steps, leaves the client whole frames.
LEMMA WireKept ==
  ASSUME WebSocketAssumption, BridgeTypes, WireInv, [BridgeNext]_bridgeVars
  PROVE  WireInv'
<1>. USE DEF WireInv
<1>0. wire \in Seq(Piece) /\ Len(taken) \in Nat /\ sent \in Nat
  BY DEF BridgeTypes
<1>1. CASE readDataFrame
  <2>1. PICK f \in Frames :
          /\ reader = "read" /\ taken' = Append(taken, f)
          /\ UNCHANGED <<copier, mu, wire, wireBroken, sent>>
          /\ \/ reader' = "ended"
             \/ f.opcode = "ping" /\ reader' = "pong"
             \/ f.opcode # "ping" /\ reader' \in {"read", "deliver"}
    BY <1>1 DEF readDataFrame, ControlOpcodes
  <2>. DEFINE n == Len(taken)
  <2>2. f \in FrameState /\ taken \in Seq(FrameState)
    BY DEF WebSocketAssumption, FrameState, BridgeTypes
  <2>3. n \in Nat /\ Len(taken') = n + 1 /\ taken'[n + 1] = f /\ \A k \in 1..n : taken'[k] = taken[k]
    BY <2>1, <2>2, AppendProperties, <1>0
  <2>. HIDE DEF n
  <2>4. \A k \in 1..n + 1 : k \in 1..n \/ k = n + 1
    BY <2>3
  <2>5. 1..n \subseteq 1..n + 1 /\ n + 1 \in 1..n + 1 /\ n + 1 \notin 1..n
    BY <2>3
  <2>6. Pings' = {k \in 1..n + 1 : taken'[k].opcode = "ping"} /\ Pings = {k \in 1..n : taken[k].opcode = "ping"}
    BY <2>3 DEF Pings, n
  <2>7. Pings' = (IF f.opcode = "ping" THEN Pings \cup {n + 1} ELSE Pings) /\ n + 1 \notin Pings
    BY <2>3, <2>4, <2>5, <2>6
  <2>8. Pongs' = Pongs /\ Paired'
    <3>1. wire' = wire
      BY <2>1
    <3>2. Pongs' = Pongs
      BY <3>1 DEF Pongs
    <3>3. Paired'
      BY <3>1 DEF Paired
    <3>. QED
      BY <3>2, <3>3
  <2>9. Pongs = Pings
    BY <2>1 DEF PongInv
  <2>10. PongInv'
    BY <2>1, <2>3, <2>7, <2>8, <2>9 DEF PongInv
  <2>11. LockInv'
    <3>1. mu # "reader" /\ reader' # "pongPayload"
      BY <2>1 DEF LockInv
    <3>. QED
      BY <2>1, <3>1 DEF LockInv, lastIs
  <2>. QED
    BY <2>8, <2>10, <2>11
<1>2. CASE readFails \/ deliver \/ closeBoth \/ readUpstream \/ UNCHANGED bridgeVars
  <2>1. /\ UNCHANGED <<taken, wire, mu, wireBroken>>
        /\ \/ reader' = reader
           \/ reader \in {"read", "deliver"} /\ reader' \in {"ended", "read"}
        /\ \/ UNCHANGED <<copier, sent>>
           \/ copier = "read" /\ copier' \in {"frame", "ended"}
    BY <1>2 DEF readFails, deliver, closeBoth, readUpstream, bridgeVars
  <2>2. Pongs' = Pongs /\ Pings' = Pings /\ Paired'
    BY <2>1 DEF Pongs, Pings, Paired
  <2>3. PongInv'
    BY <2>1, <2>2 DEF PongInv
  <2>4. LockInv'
    BY <2>1 DEF LockInv, lastIs
  <2>. QED
    BY <2>2, <2>3, <2>4
<1>3. CASE writePong
  <2>1. UNCHANGED <<taken, copier, sent>> /\ Pings' = Pings
    BY <1>3 DEF writePong, Pings
  <2>2. CASE reader = "pong" /\ writeHeader("reader", "pong", Len(taken)) /\ reader' = "pongPayload"
    <3>1. /\ wire' = Append(wire, [part |-> "header", opcode |-> "pong", of |-> Len(taken)])
          /\ mu = "free" /\ mu' = "reader" /\ (wire = << >> \/ wire[Len(wire)].part = "payload")
      BY <2>2 DEF writeHeader, LockInv
    <3>2. /\ Paired' /\ wire' # << >>
          /\ wire'[Len(wire')] = [part |-> "header", opcode |-> "pong", of |-> Len(taken)]
          /\ Pongs' = Pongs \cup {Len(taken)}
      BY <1>0, <3>1, PairedAppend
    <3>3. LockInv'
      BY <2>1, <2>2, <3>1, <3>2 DEF LockInv, lastIs
    <3>4. PongInv'
      BY <2>1, <2>2, <3>2 DEF PongInv
    <3>. QED
      BY <3>2, <3>3, <3>4
  <2>3. CASE reader = "pongPayload" /\ writePayload("reader", "pong", Len(taken)) /\ reader' = "read"
    <3>1. /\ wire' = Append(wire, [part |-> "payload", opcode |-> "pong", of |-> Len(taken)])
          /\ mu = "reader" /\ mu' = "free" /\ lastIs("pong", Len(taken))
      BY <2>3 DEF writePayload, LockInv
    <3>2. /\ Paired' /\ wire' # << >>
          /\ wire'[Len(wire')] = [part |-> "payload", opcode |-> "pong", of |-> Len(taken)]
          /\ Pongs' = Pongs \cup {Len(taken)}
      BY <1>0, <3>1, PairedAppend
    <3>3. Len(taken) \in Pongs /\ Pongs = Pings
      <4>1. Len(wire) \in 1..Len(wire) /\ wire[Len(wire)].opcode = "pong" /\ wire[Len(wire)].of = Len(taken)
        BY <1>0, <3>1, EmptySeq DEF lastIs
      <4>. QED
        BY <2>3, <4>1 DEF Pongs, PongInv
    <3>4. LockInv'
      BY <2>1, <2>3, <3>1, <3>2 DEF LockInv, lastIs
    <3>5. PongInv'
      BY <2>1, <2>3, <3>2, <3>3 DEF PongInv
    <3>. QED
      BY <3>2, <3>4, <3>5
  <2>4. CASE writeFails("reader") /\ reader' = "ended"
    <3>1. mu \in {"free", "reader"} /\ mu' = "free" /\ wireBroken' = TRUE /\ UNCHANGED wire
      BY <2>4 DEF writeFails
    <3>2. Pongs' = Pongs /\ Paired'
      BY <3>1 DEF Pongs, Paired
    <3>3. LockInv'
      BY <2>1, <2>4, <3>1 DEF LockInv, lastIs
    <3>4. PongInv'
      BY <2>4 DEF PongInv
    <3>. QED
      BY <3>2, <3>3, <3>4
  <2>. QED
    BY <1>3, <2>2, <2>3, <2>4 DEF writePong
<1>4. CASE writeBinary
  <2>1. UNCHANGED <<taken, reader, sent>> /\ Pings' = Pings
    BY <1>4 DEF writeBinary, Pings
  <2>2. CASE copier = "frame" /\ writeHeader("copier", "binary", sent) /\ copier' = "framePayload"
    <3>1. /\ wire' = Append(wire, [part |-> "header", opcode |-> "binary", of |-> sent])
          /\ mu = "free" /\ mu' = "copier" /\ (wire = << >> \/ wire[Len(wire)].part = "payload")
      BY <2>2 DEF writeHeader, LockInv
    <3>2. /\ Paired' /\ wire' # << >>
          /\ wire'[Len(wire')] = [part |-> "header", opcode |-> "binary", of |-> sent]
          /\ Pongs' = Pongs
      BY <1>0, <3>1, PairedAppend
    <3>3. LockInv'
      BY <2>1, <2>2, <3>1, <3>2 DEF LockInv, lastIs
    <3>4. PongInv'
      BY <2>1, <3>2 DEF PongInv
    <3>. QED
      BY <3>2, <3>3, <3>4
  <2>3. CASE copier = "framePayload" /\ writePayload("copier", "binary", sent) /\ copier' = "read"
    <3>1. /\ wire' = Append(wire, [part |-> "payload", opcode |-> "binary", of |-> sent])
          /\ mu = "copier" /\ mu' = "free" /\ lastIs("binary", sent)
      BY <2>3 DEF writePayload, LockInv
    <3>2. /\ Paired' /\ wire' # << >>
          /\ wire'[Len(wire')] = [part |-> "payload", opcode |-> "binary", of |-> sent]
          /\ Pongs' = Pongs
      BY <1>0, <3>1, PairedAppend
    <3>3. LockInv'
      BY <2>1, <2>3, <3>1, <3>2 DEF LockInv, lastIs
    <3>4. PongInv'
      BY <2>1, <3>2 DEF PongInv
    <3>. QED
      BY <3>2, <3>3, <3>4
  <2>4. CASE writeFails("copier") /\ copier' = "ended"
    <3>1. mu \in {"free", "copier"} /\ mu' = "free" /\ wireBroken' = TRUE /\ UNCHANGED wire
      BY <2>4 DEF writeFails
    <3>2. Pongs' = Pongs /\ Paired'
      BY <3>1 DEF Pongs, Paired
    <3>3. LockInv'
      BY <2>1, <2>4, <3>1 DEF LockInv, lastIs
    <3>4. PongInv'
      BY <2>1, <3>2 DEF PongInv
    <3>. QED
      BY <3>2, <3>3, <3>4
  <2>. QED
    BY <1>4, <2>2, <2>3, <2>4 DEF writeBinary
<1>. QED
  BY <1>1, <1>2, <1>3, <1>4 DEF BridgeNext

BridgeInv == BridgeTypes /\ ReaderInv /\ WireInv

\* Both ways of a WebSocket tunnel carry whole messages and whole frames, in
\* order, and every ping is answered before what comes after it is read, though
\* two goroutines write to the client (websocket.go:147-162, 319-366, 487-515).
THEOREM MessagesWholeHolds == BridgeSpec => []MessagesWhole
<1>. USE WebSocketAssumption
<1>1. BridgeInit => BridgeInv
  <2> SUFFICES ASSUME BridgeInit PROVE BridgeInv
    OBVIOUS
  <2>1. BridgeTypes
    BY EmptySeq DEF BridgeInit, BridgeTypes, Live
  <2>2. Len(taken) = 0 /\ Len(delivered) = 0 /\ Len(fragments) = 0 /\ Len(wire) = 0
    BY EmptySeq DEF BridgeInit
  <2>3. ReaderInv
    BY <2>2 DEF BridgeInit, ReaderInv, FragmentsInv, DeliveredInv, NoneForgotten, EndsInv
  <2>4. WireInv
    BY <2>2 DEF BridgeInit, WireInv, Paired, LockInv, PongInv, Pongs, Pings
  <2>. QED
    BY <2>1, <2>3, <2>4 DEF BridgeInv
<1>2. BridgeInv /\ [BridgeNext]_bridgeVars => BridgeInv'
  <2> SUFFICES ASSUME BridgeInv, [BridgeNext]_bridgeVars PROVE BridgeInv'
    OBVIOUS
  <2>1. BridgeTypes' /\ WireInv'
    BY BridgeTypesKept, WireKept DEF BridgeInv
  <2>2. ReaderInv'
    <3>1. CASE readDataFrame
      BY <3>1, ReadKeepsReader DEF BridgeInv
    <3>2. CASE deliver
      BY <3>2, DeliverKeepsReader DEF BridgeInv
    <3>3. CASE readFails \/ writePong \/ readUpstream \/ writeBinary \/ closeBoth \/ UNCHANGED bridgeVars
      <4>1. UNCHANGED <<fragments, fragmented, taken, delivered>>
        BY <3>3 DEF readFails, writePong, readUpstream, writeBinary, closeBoth, bridgeVars
      <4>2. reader' = reader \/ reader' = "ended" \/ (reader \in Live \ {"deliver"} /\ reader' \in Live \ {"deliver"})
        BY <3>3 DEF readFails, writePong, readUpstream, writeBinary, closeBoth, bridgeVars, Live
      <4>. QED
        BY <4>1, <4>2, OthersKeepReader DEF BridgeInv
    <3>. QED
      BY <3>1, <3>2, <3>3 DEF BridgeNext
  <2>. QED
    BY <2>1, <2>2 DEF BridgeInv
<1>3. BridgeInv => MessagesWhole
  <2> SUFFICES ASSUME BridgeInv PROVE MessagesWhole
    OBVIOUS
  <2>1. Reassembled
    BY ReaderReassembles DEF BridgeInv
  <2>2. FramesWhole
    BY DEF BridgeInv, WireInv, Paired, PongInv, Pongs, Pings, FramesWhole
  <2>. QED
    BY <2>1, <2>2 DEF MessagesWhole
<1>. QED
  BY <1>1, <1>2, <1>3, PTL DEF BridgeSpec


=============================================================================
