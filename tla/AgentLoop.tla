----------------------------- MODULE AgentLoop -----------------------------
(***************************************************************************)
(* The host agent's side of the tunnels (host-agent/cmd/host-agent/main.go): *)
(* each slot of a route dials the local target, then the gateway, sends the *)
(* CONNECT and waits for its answer, copies both ways until one way ends,   *)
(* and tries again after a delay that doubles with every failure.           *)
(*                                                                          *)
(* A signal cancels the context, which ends dials, copying and delays; the  *)
(* answer to the CONNECT is read without it and without a deadline.         *)
(*                                                                          *)
(* Delays are integers of a word that wraps at 2 * Word, as time.Duration   *)
(* does at 2^64 nanoseconds.  The first delay is what the environment of    *)
(* the process says, and nothing bounds it: its doublings may wrap.         *)
(***************************************************************************)
EXTENDS Integers, FiniteSets

CONSTANTS Slots,
          BaseDelays,    \* what cfg.ReconnectDelay may be
          MaxDelay, Word,
          MaxAttempt,    \* the 30 doublings after which the delay stays
          MaxLingering   \* bound of the copies of closed bridges still to end

ASSUME AgentAssumption ==
  /\ MaxDelay \in Nat \ {0} /\ MaxAttempt \in Nat /\ MaxLingering \in Nat
  /\ Word \in Nat /\ MaxDelay < Word
  /\ BaseDelays \subseteq (-Word)..(Word - 1)

VARIABLES
  slot,        \* [Slots -> where runTunnelLoop is, its attempt]
  local,       \* [Slots -> its connection to the target]
  uplink,      \* [Slots -> its connection to the gateway]
  copying,     \* [Slots -> number of copyConn of its bridge that run]
  lingering,   \* [Slots -> number of those of its earlier bridges]
  delay,       \* [Slots -> what computeBackoff gave last, without its jitter,
               \*  and for which attempt]
  localTarget, \* external: the target takes connections
  gateway,     \* external: "up", "mute", "rejects" or "down"
  stopping,    \* the context is cancelled
  baseDelay    \* cfg.ReconnectDelay

agentVars == <<slot, local, uplink, copying, lingering, delay, localTarget, gateway, stopping, baseDelay>>
agentEnvironment == <<localTarget, gateway, stopping, baseDelay>>

at(s, step) == slot[s].step = step
goes(s, step) == slot' = [slot EXCEPT ![s].step = step]

\* What the deferred Close calls leave behind.
closedBoth(s) ==
  /\ local' = [local EXCEPT ![s] = "none"] /\ uplink' = [uplink EXCEPT ![s] = "none"]

(***************************************************************************)
(* runTunnelOnce.                                                           *)
(***************************************************************************)
returns(s, failed) ==
  slot' = [slot EXCEPT ![s].step = IF stopping THEN "exited" ELSE "delay",
                       ![s].attempt = IF ~failed /\ ~stopping THEN 0 ELSE @]

\* Mutant: a slot whose target cannot be reached is given up.
dialGivesUp(s) ==
  /\ at(s, "dial")
  /\ IF localTarget /\ ~stopping
       THEN goes(s, "connect") /\ local' = [local EXCEPT ![s] = "open"]
       ELSE goes(s, "exited") /\ UNCHANGED local
  /\ UNCHANGED <<uplink, copying, lingering, delay, agentEnvironment>>

dialLocalTarget(s) ==
  /\ at(s, "dial")
  /\ IF localTarget /\ ~stopping
       THEN goes(s, "connect") /\ local' = [local EXCEPT ![s] = "open"]
       ELSE returns(s, TRUE) /\ UNCHANGED local
  /\ UNCHANGED <<uplink, copying, lingering, delay, agentEnvironment>>

\* Mutant: the local connection is closed only after a bridge.
connectLeavesLocal(s) ==
  /\ at(s, "connect")
  /\ IF gateway # "down" /\ ~stopping
       THEN goes(s, "request") /\ uplink' = [uplink EXCEPT ![s] = "open"] /\ UNCHANGED local
       ELSE returns(s, TRUE) /\ UNCHANGED <<local, uplink>>
  /\ UNCHANGED <<copying, lingering, delay, agentEnvironment>>

connectToGateway(s) ==
  /\ at(s, "connect")
  /\ IF gateway # "down" /\ ~stopping
       THEN goes(s, "request") /\ uplink' = [uplink EXCEPT ![s] = "open"] /\ UNCHANGED local
       ELSE returns(s, TRUE) /\ closedBoth(s)
  /\ UNCHANGED <<copying, lingering, delay, agentEnvironment>>

\* The answer, or the end of the connection.
ReadResponse(s) ==
  /\ at(s, "request")
  /\ \/ /\ uplink[s] = "open" /\ gateway = "up"
        /\ goes(s, "bridge")
        /\ copying' = [copying EXCEPT ![s] = 2]
        /\ UNCHANGED <<local, uplink>>
     \/ /\ uplink[s] = "broken" \/ gateway = "rejects"
        /\ returns(s, TRUE) /\ closedBoth(s)
        /\ UNCHANGED copying
  /\ UNCHANGED <<lingering, delay, agentEnvironment>>

\* One way of the bridge ends: its source did, or it was closed.
copyConn(s) ==
  /\ \/ /\ copying[s] > 0
        /\ copying' = [copying EXCEPT ![s] = @ - 1]
        /\ UNCHANGED lingering
     \/ /\ lingering[s] > 0
        /\ lingering' = [lingering EXCEPT ![s] = @ - 1]
        /\ UNCHANGED copying
  /\ UNCHANGED <<slot, local, uplink, delay, agentEnvironment>>

\* Mutant: only a copy that ends is waited for.
bridgeIgnoresSignal(s) ==
  /\ at(s, "bridge") /\ copying[s] < 2
  /\ returns(s, FALSE) /\ closedBoth(s)
  /\ copying' = [copying EXCEPT ![s] = 0]
  /\ lingering' = [lingering EXCEPT ![s] = @ + copying[s]]
  /\ UNCHANGED <<delay, agentEnvironment>>

\* bridge returns for the first copy that ended, or for the signal; nobody
\* waits for the other.
bridge(s) ==
  /\ at(s, "bridge") /\ (stopping \/ copying[s] < 2)
  /\ returns(s, FALSE) /\ closedBoth(s)
  /\ copying' = [copying EXCEPT ![s] = 0]
  /\ lingering' = [lingering EXCEPT ![s] = @ + copying[s]]
  /\ UNCHANGED <<delay, agentEnvironment>>

(***************************************************************************)
(* runTunnelLoop.                                                           *)
(***************************************************************************)
\* main starts a goroutine for every slot.
StartSlots ==
  /\ \A s \in Slots : at(s, "none")
  /\ slot' = [s \in Slots |-> [step |-> "dial", attempt |-> 0]]
  /\ UNCHANGED <<local, uplink, copying, lingering, delay, agentEnvironment>>

wrapped(d) == ((d + Word) % (2 * Word)) - Word

computeBackoff(attempt) ==
  LET d == wrapped(baseDelay * 2^attempt) IN IF d > MaxDelay THEN MaxDelay ELSE d

DelayEnds(s) ==
  /\ at(s, "delay") /\ lingering[s] <= MaxLingering
  /\ delay' = [delay EXCEPT ![s] = [length |-> computeBackoff(slot[s].attempt), of |-> slot[s].attempt]]
  /\ slot' = [slot EXCEPT ![s].step = "dial", ![s].attempt = IF @ < MaxAttempt THEN @ + 1 ELSE @]
  /\ UNCHANGED <<local, uplink, copying, lingering, agentEnvironment>>

DelayStops(s) ==
  /\ at(s, "delay") /\ stopping
  /\ goes(s, "exited")
  /\ UNCHANGED <<local, uplink, copying, lingering, delay, agentEnvironment>>

(***************************************************************************)
(* The environment.                                                         *)
(***************************************************************************)
TargetChanges ==
  /\ localTarget' = ~localTarget
  /\ local' = [s \in Slots |-> IF localTarget /\ local[s] = "open" THEN "broken" ELSE local[s]]
  /\ UNCHANGED <<slot, uplink, copying, lingering, delay, gateway, stopping, baseDelay>>

\* A gateway that goes down takes its connections along.
GatewayChanges ==
  /\ gateway' \in {"up", "mute", "rejects", "down"} \ {gateway}
  /\ uplink' = [s \in Slots |-> IF gateway' = "down" /\ uplink[s] = "open" THEN "broken" ELSE uplink[s]]
  /\ UNCHANGED <<slot, local, copying, lingering, delay, localTarget, stopping, baseDelay>>

Signal ==
  /\ ~stopping /\ stopping' = TRUE
  /\ UNCHANGED <<slot, local, uplink, copying, lingering, delay, localTarget, gateway, baseDelay>>

AgentInit ==
  /\ slot = [s \in Slots |-> [step |-> "none", attempt |-> 0]]
  /\ local = [s \in Slots |-> "none"] /\ uplink = local
  /\ copying = [s \in Slots |-> 0] /\ lingering = copying
  /\ baseDelay \in BaseDelays /\ delay = [s \in Slots |-> [length |-> baseDelay, of |-> 0]]
  /\ localTarget = TRUE /\ gateway = "up" /\ stopping = FALSE

SlotStep(s) ==
  \/ dialLocalTarget(s) \/ connectToGateway(s) \/ ReadResponse(s)
  \/ bridge(s) \/ DelayEnds(s) \/ DelayStops(s)

AgentNext ==
  \/ \E s \in Slots : SlotStep(s) \/ copyConn(s)
  \/ StartSlots \/ TargetChanges \/ GatewayChanges \/ Signal

\* Every slot is a goroutine of its own, every wait in it but one has an end;
\* a copy ends when a connection it works on was closed or broke.
copyMustEnd(s) == lingering[s] > 0 \/ "broken" \in {local[s], uplink[s]}
AgentFairness ==
  \A s \in Slots : /\ WF_agentVars(SlotStep(s))
                   /\ WF_agentVars(copyMustEnd(s) /\ copyConn(s))

AgentSpec == AgentInit /\ [][AgentNext]_agentVars /\ AgentFairness

\* A slot that waits, dials the target or is gone holds no connection: however
\* an attempt fails, it leaves none behind (main.go:235-251, 296-311).
NothingLeft ==
  \A s \in Slots : slot[s].step \in {"none", "delay", "dial", "exited"} => local[s] = "none" /\ uplink[s] = "none"

\* The delay of an attempt is below the first one or beyond the word.
outOfRange(attempt) == baseDelay * 2^attempt \notin baseDelay..(Word - 1)
shortest == IF baseDelay < MaxDelay THEN baseDelay ELSE MaxDelay

\* A slot tries again without its shortest delay only after so many failures in
\* a row that doubling the first one leaves the word, within the 30 doublings
\* that are made at most: never with one below nine seconds (main.go:213-231,
\* 388-398).
NeverSpins ==
  \A s \in Slots : /\ delay[s].of \in 0..MaxAttempt
                   /\ outOfRange(delay[s].of) \/ delay[s].length >= shortest

\* What holds between two attempts, whichever way the one before failed:
\* nothing is left open, and the next one waits as long as the word is wide
\* enough to say how long.
BetweenAttempts == NothingLeft /\ NeverSpins

\* Once target and gateway stay up, every started slot is bridged again and again, or
\* for good, whatever happened before (main.go:188-221).
AlwaysReconnects ==
  \A s \in Slots :
    <>[](~at(s, "none") /\ localTarget /\ gateway = "up" /\ ~stopping) => []<>at(s, "bridge")

\* After a signal every slot ends, and its copies do, unless the gateway keeps
\* a CONNECT unanswered (main.go:213-215, 301-306, 329-336).
StopsAll ==
  <>[](gateway # "mute") => \A s \in Slots : (stopping /\ ~at(s, "none") ~> at(s, "exited") /\ lingering[s] = 0)

=============================================================================
