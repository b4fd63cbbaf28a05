----------------------------- MODULE UDPClients -----------------------------
(***************************************************************************)
(* A UDP route of the gateway (tunnel/udp.go): one loop reads the packets   *)
(* of all clients and keeps a table of their upstream sockets, a goroutine  *)
(* per socket copies the answers back and ends at a read deadline, and a    *)
(* sweep closes what was idle for a minute.  The table has a mutex; what    *)
(* the loop took out of it, it uses after the unlock.                       *)
(***************************************************************************)
EXTENDS Integers, FiniteSets

CONSTANTS Addresses,     \* of clients
          MaxDialled,    \* bound of the sockets dialled
          MaxSweeps      \* bound of the sweeps that close something

ASSUME UDPAssumption == MaxDialled \in Nat /\ MaxSweeps \in Nat

VARIABLES
  sockets,     \* [1..MaxDialled -> its client's address, open or closed, its goroutine]
  dialled,     \* number of sockets so far
  clients,     \* udpClientMap: [Addresses -> socket, or 0]
  stale,       \* addresses whose entry is a minute old
  loop,        \* what serveUDP is about to do
  serving,     \* the route's context
  sweeps       \* history: [Addresses -> sockets of it a sweep closed]

udpVars == <<sockets, dialled, clients, stale, loop, serving, sweeps>>

Waiting == [step |-> "read", address |-> "", socket |-> 0]
NoSocket == [address |-> "", open |-> FALSE, copy |-> "none"]

\* A packet comes in; clients.get.
ReadFromUDP(a) ==
  /\ loop = Waiting /\ serving
  /\ loop' = [step |-> IF clients[a] = 0 THEN "dial" ELSE "touch", address |-> a, socket |-> clients[a]]
  /\ UNCHANGED <<sockets, dialled, clients, stale, serving, sweeps>>

\* clients.set, and the goroutine starts.
dialUDP ==
  LET n == dialled + 1 IN
  /\ loop.step = "dial" /\ n <= MaxDialled
  /\ dialled' = n
  /\ sockets' = [sockets EXCEPT ![n] = [address |-> loop.address, open |-> TRUE, copy |-> "reading"]]
  /\ clients' = [clients EXCEPT ![loop.address] = n]
  /\ stale' = stale \ {loop.address}
  /\ loop' = [loop EXCEPT !.step = "write", !.socket = n]
  /\ UNCHANGED <<serving, sweeps>>

dialFails ==
  /\ loop.step = "dial"
  /\ loop' = Waiting
  /\ UNCHANGED <<sockets, dialled, clients, stale, serving, sweeps>>

touch ==
  /\ loop.step = "touch"
  /\ stale' = stale \ {loop.address}
  /\ loop' = [loop EXCEPT !.step = "write"]
  /\ UNCHANGED <<sockets, dialled, clients, serving, sweeps>>

\* To a socket that is closed by now the packet is lost, and the error logged.
Write ==
  /\ loop.step = "write"
  /\ loop' = Waiting
  /\ UNCHANGED <<sockets, dialled, clients, stale, serving, sweeps>>

AgeClient(a) ==
  /\ clients[a] # 0 /\ a \notin stale
  /\ stale' = stale \cup {a}
  /\ UNCHANGED <<sockets, dialled, clients, loop, serving, sweeps>>

sweepClients ==
  /\ serving /\ stale # {}
  /\ \A a \in stale : sweeps[a] < MaxSweeps
  /\ sockets' = [n \in DOMAIN sockets |->
                   IF \E a \in stale : clients[a] = n THEN [sockets[n] EXCEPT !.open = FALSE] ELSE sockets[n]]
  /\ clients' = [a \in Addresses |-> IF a \in stale THEN 0 ELSE clients[a]]
  /\ sweeps' = [a \in Addresses |-> IF a \in stale THEN sweeps[a] + 1 ELSE sweeps[a]]
  /\ stale' = {}
  /\ UNCHANGED <<dialled, loop, serving>>

\* Mutant: the goroutine forgets to close its socket.
copyLeavesOpen(n) ==
  /\ sockets[n].copy = "reading"
  /\ sockets' = [sockets EXCEPT ![n].copy = "cleanup"]
  /\ UNCHANGED <<dialled, clients, stale, loop, serving, sweeps>>

\* copyUDPToClient returns: the socket was closed, nothing came before the
\* read deadline, or the listener takes no answer any more.
copyEnds(n) ==
  /\ sockets[n].copy = "reading"
  /\ sockets' = [sockets EXCEPT ![n].open = FALSE, ![n].copy = "cleanup"]
  /\ UNCHANGED <<dialled, clients, stale, loop, serving, sweeps>>

\* clients.delete: by address, whichever socket is under it by now.
cleanupClient(n) ==
  LET a == sockets[n].address IN
  /\ sockets[n].copy = "cleanup"
  /\ sockets' = [sockets EXCEPT ![n].copy = "done"]
  /\ clients' = [clients EXCEPT ![a] = 0]
  /\ stale' = stale \ {a}
  /\ UNCHANGED <<dialled, loop, serving, sweeps>>

\* The listener is closed, so the next read ends the loop, and the sweeps; the
\* goroutines of the sockets are left to themselves.
StopServing ==
  /\ serving /\ serving' = FALSE
  /\ UNCHANGED <<sockets, dialled, clients, stale, loop, sweeps>>

UDPInit ==
  /\ sockets = [n \in 1..MaxDialled |-> NoSocket] /\ dialled = 0
  /\ clients = [a \in Addresses |-> 0] /\ stale = {}
  /\ loop = Waiting /\ serving = TRUE /\ sweeps = [a \in Addresses |-> 0]

UDPNext ==
  \/ \E a \in Addresses : ReadFromUDP(a) \/ AgeClient(a)
  \/ dialUDP \/ dialFails \/ touch \/ Write \/ sweepClients \/ StopServing
  \/ \E n \in 1..MaxDialled : copyEnds(n) \/ cleanupClient(n)

\* While the route serves, traffic keeps a goroutine going; afterwards its next
\* answer has no listener, or its read deadline comes.
UDPFairness == \A n \in 1..MaxDialled : WF_udpVars(~serving /\ copyEnds(n))

UDPSpec == UDPInit /\ [][UDPNext]_udpVars /\ UDPFairness

openSockets(a) == {n \in 1..dialled : sockets[n].address = a /\ sockets[n].open}

\* A client has one socket open, and one more for each that a sweep closed: the
\* goroutine of a swept socket deletes the entry of its successor, which then
\* works on, unknown to the table, beside the next one (udp.go:80-93, 150-161).
OpenBounded == \A a \in Addresses : Cardinality(openSockets(a)) <= 1 + sweeps[a]

\* A socket in the table that is closed is about to leave it: packets are not
\* written to a dead socket for good (udp.go:91-101, 189-204).
ClosedEntryLeaves ==
  \A a \in Addresses : clients[a] # 0 /\ ~sockets[clients[a]].open => sockets[clients[a]].copy = "cleanup"

\* The table of clients follows the sockets, and the sockets the table, as
\* closely as loop, goroutines and sweep let them.
SocketsTracked == OpenBounded /\ ClosedEntryLeaves

\* Once the route stopped, every socket is closed, also the ones the table
\* does not know (udp.go:189-212).
StoppedClosesAll == ~serving ~> []\A a \in Addresses : openSockets(a) = {}

=============================================================================
