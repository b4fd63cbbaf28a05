------------------------------ MODULE MCTunnels ------------------------------
(***************************************************************************)
(* The tunnels for TLC: the agent's loop, a UDP route, a WebSocket bridge,  *)
(* a signaling room and the Tailscale hosts.  They share no state and are   *)
(* checked side by side, one of them from the start; the others, as they    *)
(* are in the beginning, owe nothing by their fairness.                     *)
(***************************************************************************)
EXTENDS AgentLoop, UDPClients, WebSocketBridge, SignalRooms, TailscaleHosts

MCFrame(fin, opcode, bytes) == [fin |-> fin, opcode |-> opcode, size |-> bytes, masked |-> TRUE]

\* Whole, first, middle and last fragments, an empty message, control frames,
\* and frames that are refused: fragmented or too long control frames, a frame
\* over the limit, one without a mask.
MCFrames ==
  {MCFrame(TRUE, "text", 1), MCFrame(FALSE, "text", 1), MCFrame(FALSE, "continue", 1),
   MCFrame(TRUE, "continue", 1), MCFrame(TRUE, "binary", 0), MCFrame(TRUE, "ping", 1),
   MCFrame(TRUE, "pong", 0), MCFrame(TRUE, "close", 0), MCFrame(FALSE, "ping", 0),
   MCFrame(TRUE, "ping", 2), MCFrame(TRUE, "binary", 4),
   [MCFrame(TRUE, "text", 1) EXCEPT !.masked = FALSE]}

\* First delays whose doublings stay in the word, leave it, and are negative.
MCBaseDelays == {1, 2, -1}

VARIABLE part
tunnelVars ==
  <<agentVars, udpVars, bridgeVars, signalVars, tailscaleVars, part>>

TunnelsInit ==
  /\ part \in {"agent", "udp", "bridge", "signal", "tailscale"}
  /\ AgentInit /\ (part # "agent" => baseDelay = 1)
  /\ UDPInit /\ SignalInit
  /\ BridgeInit /\ (part # "bridge" => protocol = "tcp")
  /\ TailscaleInit /\ (part # "tailscale" => tailIP = {})

TunnelsNext ==
  /\ \/ part = "agent" /\ AgentNext
        /\ UNCHANGED <<udpVars, bridgeVars, signalVars, tailscaleVars>>
     \/ part = "udp" /\ UDPNext
        /\ UNCHANGED <<agentVars, bridgeVars, signalVars, tailscaleVars>>
     \/ part = "bridge" /\ BridgeNext
        /\ UNCHANGED <<agentVars, udpVars, signalVars, tailscaleVars>>
     \/ part = "signal" /\ SignalNext
        /\ UNCHANGED <<agentVars, udpVars, bridgeVars, tailscaleVars>>
     \/ part = "tailscale" /\ TailscaleNext
        /\ UNCHANGED <<agentVars, udpVars, bridgeVars, signalVars>>
  /\ UNCHANGED part

TunnelsSpec ==
  /\ TunnelsInit /\ [][TunnelsNext]_tunnelVars
  /\ AgentFairness /\ UDPFairness /\ BridgeFairness
  /\ SignalFairness /\ TailscaleFairness

\* Nothing of a tunnel waits for ever: a poll, the sockets of a route that
\* stopped, the other half of a WebSocket tunnel.
WaitsEnd == PollEnds /\ StoppedClosesAll /\ EndTogether
=============================================================================
