-------------------------- MODULE WebSocketBridge --------------------------
(***************************************************************************)
(* A WebSocket tunnel of the gateway (tunnel/websocket.go): one goroutine   *)
(* reads the client's frames, puts the messages together, answers pings and *)
(* writes to the target; another reads the target and writes frames to the  *)
(* client.  The two share the client's connection: a frame is written in    *)
(* two steps under a mutex.                                                 *)
(*                                                                          *)
(* A frame of the client is read as it arrives.  Payloads are sizes; of a   *)
(* message it is kept which frames it was put together from.                *)
(***************************************************************************)
EXTENDS Integers, SequencesExt

CONSTANTS Frames,         \* what a client may send
          Protocols,      \* of the route: "tcp", "udp"
          maxFrame, maxMessage, maxControl, maxDatagram,
          MaxTaken, MaxSent   \* bounds: frames of the client, reads of the target

ASSUME WebSocketAssumption ==
  /\ Frames \subseteq [fin : BOOLEAN, opcode : STRING, size : Nat, masked : BOOLEAN]
  /\ Protocols \subseteq {"tcp", "udp"}
  /\ {maxFrame, maxMessage, maxControl, maxDatagram, MaxTaken, MaxSent} \subseteq Nat

VARIABLES
  protocol,
  reader,       \* the goroutine that reads the client
  copier,       \* the goroutine that reads the target
  fragments,    \* readDataFrame: numbers of the frames of the message so far
  fragmented,
  mu,           \* who writes to the client, having written the header
  wire,         \* what the client was sent: headers and payloads
  wireBroken,   \* a write to it failed; the buffered writer keeps the error
  tunnelClosed, \* both connections are closed
  taken,        \* history: the frames read
  delivered,    \* history: numbers of the frames the target was given
  sent          \* history: number of reads of the target

bridgeVars == <<protocol, reader, copier, fragments, fragmented, mu, wire, wireBroken, tunnelClosed,
                taken, delivered, sent>>

DataOpcodes == {"text", "binary"}
ControlOpcodes == {"close", "ping", "pong"}
sizeOf(numbers) == FoldSeq(LAMBDA n, sum : taken[n].size + sum, 0, numbers)

(***************************************************************************)
(* The client's frames.                                                     *)
(***************************************************************************)
\* readFrame: what is refused before the payload is read.
wellFormed(f) ==
  /\ f.size <= maxFrame /\ f.masked
  /\ f.opcode \in ControlOpcodes => f.fin /\ f.size <= maxControl

\* Mutant: a new message may begin in the middle of another.
acceptableAnyTime(f) ==
  /\ wellFormed(f)
  /\ f.opcode \in DataOpcodes \cup {"continue"} \cup ControlOpcodes
  /\ f.opcode = "continue" => fragmented /\ sizeOf(fragments) + f.size <= maxMessage

\* What readDataFrame goes on from.
acceptable(f) ==
  /\ wellFormed(f)
  /\ f.opcode \in DataOpcodes \cup {"continue"} \cup ControlOpcodes
  /\ f.opcode \in DataOpcodes => ~fragmented
  /\ f.opcode = "continue" => fragmented /\ sizeOf(fragments) + f.size <= maxMessage

\* One turn of readDataFrame's loop.
readDataFrame ==
  \E f \in Frames :
    LET n == Len(taken) + 1 IN
    /\ reader = "read" /\ ~tunnelClosed /\ n <= MaxTaken
    /\ taken' = Append(taken, f)
    /\ \/ /\ ~acceptable(f) \/ f.opcode = "close"
          /\ reader' = "ended" /\ UNCHANGED <<fragments, fragmented>>
       \/ /\ acceptable(f) /\ f.opcode \in {"ping", "pong"}
          /\ reader' = IF f.opcode = "ping" THEN "pong" ELSE "read"
          /\ UNCHANGED <<fragments, fragmented>>
       \/ /\ acceptable(f) /\ f.opcode \notin ControlOpcodes
          /\ fragments' = IF f.opcode = "continue" THEN Append(fragments, n) ELSE <<n>>
          /\ fragmented' = ~f.fin
          /\ reader' = IF f.fin THEN "deliver" ELSE "read"
    /\ UNCHANGED <<protocol, copier, mu, wire, wireBroken, tunnelClosed, delivered, sent>>

\* The connection is closed or broken, or was idle too long.
readFails ==
  /\ reader = "read" /\ reader' = "ended"
  /\ UNCHANGED <<protocol, copier, fragments, fragmented, mu, wire, wireBroken, tunnelClosed, taken, delivered, sent>>

\* Nothing is written for an empty message.  A datagram may be too large and a
\* write fail, after a part of the message maybe, which is not counted as given.
deliver ==
  LET nothing == \A i \in 1..Len(fragments) : taken[fragments[i]].size = 0
      tooLarge == protocol = "udp" /\ sizeOf(fragments) > maxDatagram
  IN
  /\ reader = "deliver"
  /\ fragments' = << >>
  /\ \/ /\ ~nothing
        /\ reader' = "ended" /\ UNCHANGED delivered
     \/ /\ nothing \/ ~(tunnelClosed \/ tooLarge)
        /\ reader' = "read"
        /\ delivered' = IF nothing THEN delivered ELSE delivered \o fragments
  /\ UNCHANGED <<protocol, copier, fragmented, mu, wire, wireBroken, tunnelClosed, taken, sent>>

(***************************************************************************)
(* Frames for the client.                                                   *)
(***************************************************************************)

\* writeFrame takes the lock and writes the header, then the payload, flushes
\* and unlocks.
writeHeader(who, opcode, n) ==
  /\ ~tunnelClosed /\ ~wireBroken
  /\ mu = "free" /\ mu' = who
  /\ wire' = Append(wire, [part |-> "header", opcode |-> opcode, of |-> n])
  /\ UNCHANGED wireBroken

writePayload(who, opcode, n) ==
  /\ ~tunnelClosed /\ ~wireBroken
  /\ mu' = "free"
  /\ wire' = Append(wire, [part |-> "payload", opcode |-> opcode, of |-> n])
  /\ UNCHANGED wireBroken

writeFails(who) ==
  /\ mu \in {"free", who} /\ mu' = "free"
  /\ wireBroken' = TRUE
  /\ UNCHANGED wire

writePong ==
  /\ reader \in {"pong", "pongPayload"}
  /\ \/ /\ reader = "pong"
        /\ writeHeader("reader", "pong", Len(taken)) /\ reader' = "pongPayload"
     \/ /\ reader = "pongPayload"
        /\ writePayload("reader", "pong", Len(taken)) /\ reader' = "read"
     \/ writeFails("reader") /\ reader' = "ended"
  /\ UNCHANGED <<protocol, copier, fragments, fragmented, tunnelClosed, taken, delivered, sent>>

\* Something, the end, or nothing for too long from the target.
readUpstream ==
  /\ copier = "read"
  /\ \/ /\ ~tunnelClosed /\ sent < MaxSent
        /\ sent' = sent + 1 /\ copier' = "frame"
     \/ copier' = "ended" /\ UNCHANGED sent
  /\ UNCHANGED <<protocol, reader, fragments, fragmented, mu, wire, wireBroken, tunnelClosed, taken, delivered>>

writeBinary ==
  /\ copier \in {"frame", "framePayload"}
  /\ \/ /\ copier = "frame"
        /\ writeHeader("copier", "binary", sent) /\ copier' = "framePayload"
     \/ /\ copier = "framePayload"
        /\ writePayload("copier", "binary", sent) /\ copier' = "read"
     \/ writeFails("copier") /\ copier' = "ended"
  /\ UNCHANGED <<protocol, reader, fragments, fragmented, tunnelClosed, taken, delivered, sent>>

\* Mutant: the connections are closed when both errors are received.
closeAfterBoth ==
  /\ {reader, copier} = {"ended"} /\ ~tunnelClosed
  /\ tunnelClosed' = TRUE
  /\ UNCHANGED <<protocol, reader, copier, fragments, fragmented, mu, wire, wireBroken, taken, delivered, sent>>

\* The first error of the two is received.
closeBoth ==
  /\ "ended" \in {reader, copier} /\ ~tunnelClosed
  /\ tunnelClosed' = TRUE
  /\ UNCHANGED <<protocol, reader, copier, fragments, fragmented, mu, wire, wireBroken, taken, delivered, sent>>

BridgeInit ==
  /\ protocol \in Protocols /\ reader = "read" /\ copier = "read"
  /\ fragments = << >> /\ fragmented = FALSE /\ mu = "free" /\ wire = << >> /\ wireBroken = FALSE
  /\ tunnelClosed = FALSE /\ taken = << >> /\ delivered = << >> /\ sent = 0

BridgeNext ==
  readDataFrame \/ readFails \/ deliver \/ writePong \/ readUpstream \/ writeBinary \/ closeBoth

\* Nobody has to send anything; a closed connection ends every read and write.
BridgeFairness ==
  /\ WF_bridgeVars(closeBoth) /\ WF_bridgeVars(deliver)
  /\ WF_bridgeVars(tunnelClosed /\ readFails) /\ WF_bridgeVars(writePong)
  /\ WF_bridgeVars(tunnelClosed /\ readUpstream) /\ WF_bridgeVars(writeBinary)

BridgeSpec == BridgeInit /\ [][BridgeNext]_bridgeVars /\ BridgeFairness

\* Frames that carry something of a message, and their place in what was given.
dataFrame(n) == taken[n].opcode \notin ControlOpcodes
given(n) == \E i \in 1..Len(delivered) : delivered[i] = n

\* The target is given whole messages only, each put together from its own
\* frames in the order they came, whatever control frames come between them;
\* nothing is passed on of what is refused, or follows a write that failed, and
\* before the next frame is read every message that ended was given
\* (websocket.go:147-162, 319-366).
Reassembled ==
  /\ \A i \in 1..Len(delivered) : delivered[i] \in 1..Len(taken) /\ dataFrame(delivered[i])
  /\ \A i, j \in 1..Len(delivered) : i < j => delivered[i] < delivered[j]
  /\ \A i \in 1..Len(delivered) : \A n \in 1..delivered[i] :
       dataFrame(n) /\ taken[n].size > 0 => given(n)
  /\ delivered # << >> => taken[delivered[Len(delivered)]].fin
  /\ reader = "read" =>
       \A m \in 1..Len(taken) : dataFrame(m) /\ taken[m].fin =>
         \A n \in 1..m : dataFrame(n) /\ taken[n].size > 0 => given(n)

\* What the client is sent is a sequence of frames, the header of each followed
\* by its own payload, though two goroutines write; and a ping is answered
\* before anything that was read after it is (websocket.go:351-357, 487-515).
FramesWhole ==
  /\ \A i \in 1..Len(wire) :
       wire[i].part = "payload"
         => i > 1 /\ wire[i - 1] = [wire[i] EXCEPT !.part = "header"]
  /\ \A i \in 1..Len(wire) - 1 : wire[i].part = "header" => wire[i + 1] = [wire[i] EXCEPT !.part = "payload"]
  /\ reader = "read" =>
       {wire[i].of : i \in {k \in 1..Len(wire) : wire[k].opcode = "pong"}}
         = {n \in 1..Len(taken) : taken[n].opcode = "ping"}

\* Both directions of a tunnel carry whole messages and whole frames.
MessagesWhole == Reassembled /\ FramesWhole

\* When one of the two goroutines ends the other does, without waiting for the
\* idle timeout (websocket.go:164-169, 217-220).
EndTogether == "ended" \in {reader, copier} ~> {reader, copier} = {"ended"}

=============================================================================
