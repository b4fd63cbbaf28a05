----------------------------- MODULE MCSessions -----------------------------
(***************************************************************************)
(* The gateway's sessions for TLC: the WebRTC sessions, the session manager *)
(* with the host registry, and the session queue with the host registry,    *)
(* side by side, one of them from the start.                                *)
(***************************************************************************)
EXTENDS WebRTCSessions, SessionManager

CONSTANTS h1, s1, s2, e1, e2

quiet == [cpu |-> 10, ram |-> 20, gpu |-> 0, encoder |-> 0, streams |-> 1]
MCLoads == {quiet, [quiet EXCEPT !.cpu = 90], [quiet EXCEPT !.gpu = 75]}
MCDescriptions ==
  {[region |-> "eu", classes |-> {"basic"}, gpu |-> FALSE, latency |-> 20,
    online |-> FALSE, fresh |-> FALSE, load |-> quiet],
   [region |-> "", classes |-> {"basic", "gaming"}, gpu |-> TRUE, latency |-> 0,
    online |-> TRUE, fresh |-> TRUE, load |-> quiet]}
MCAsks ==
  {[type |-> "desktop", class |-> "gaming", region |-> "eu", gpu |-> FALSE],
   [type |-> "gaming", class |-> "gaming", region |-> "", gpu |-> TRUE]}
MCOrders ==
  {[type |-> "desktop", class |-> "basic", region |-> "", gpu |-> FALSE,
    approval |-> FALSE, preset |-> "", mode |-> "gaming"],
   [type |-> "remote-support", class |-> "basic", region |-> "eu", gpu |-> FALSE,
    approval |-> TRUE, preset |-> "fast", mode |-> "remote-support"]}

VARIABLE part
gatewayVars == <<vars, allocatorVars, sessionVars, part>>

GatewayInit ==
  /\ part \in {"webrtc", "sessions", "queue"}
  /\ Init /\ AllocatorInit /\ SessionsInit

GatewayNext ==
  /\ \/ part = "webrtc" /\ Next /\ UNCHANGED <<allocatorVars, sessionVars>>
     \/ part = "sessions" /\ SessionsNext /\ UNCHANGED vars
     \/ part = "queue" /\ AllocatorNext /\ UNCHANGED <<vars, sessionVars>>
  /\ UNCHANGED part

GatewaySpec ==
  /\ GatewayInit /\ [][GatewayNext]_gatewayVars
  /\ Fairness /\ AllocatorFairness /\ SessionsFairness

\* A session that was told to stop leaves the map of the manager that holds it,
\* the WebRTC server or the session manager.
EndedLeaves == StoppedIsDeleted /\ EndedIsForgotten
=============================================================================
