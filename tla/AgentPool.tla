------------------------------ MODULE AgentPool ------------------------------
(***************************************************************************)
(* The gateway's pool of agent connections for one route                   *)
(* (apps/gateway/internal/tunnel): host agents park connections in it,     *)
(* callers take them out or wait for the next one.  Routes share nothing   *)
(* but the mutex, so one route is modelled.                                *)
(*                                                                         *)
(* Each agent connection and each caller lives once: an agent or a client  *)
(* that comes back does so with a new connection.  A step is what happens  *)
(* under one hold of the mutex, or one channel operation.  A caller's      *)
(* waiter channel is identified with the caller: it has at most one at a   *)
(* time, and an abandoned one is never replaced.                           *)
(***************************************************************************)
EXTENDS Naturals, Sequences, FiniteSets

CONSTANTS
    Conns,             \* connections agents may bring
    Callers,           \* calls of take
    None               \* "no connection"

ASSUME PoolAssumption == None \notin Conns

VARIABLES
    idle,       \* p.idle[route], oldest first
    waiters,    \* p.waiters[route]
    chan,       \* chan[t]: the connection in t's waiter channel, or None
    agent,      \* agent[c]: where the handler that brought c is
    target,     \* target[c]: the waiter c was matched with, while "sending"
    armed,      \* connections whose context watcher still runs
    caller,     \* caller[t]: where the caller is
    hold,       \* hold[t]: the connection t got, or None
    done,       \* connections whose done channel is closed
    closed      \* connections the gateway closed

poolVars == <<idle, waiters, chan>>
vars == <<poolVars, agent, target, armed, caller, hold, done, closed>>

Elements(s) == {s[k] : k \in DOMAIN s}

TypeOK ==
    /\ idle \in Seq(Conns)
    /\ waiters \subseteq Callers
    /\ chan \in [Callers -> Conns \cup {None}]
    /\ agent \in [Conns -> {"away", "arrived", "sending", "blocked", "returned"}]
    /\ target \in [Conns -> Callers \cup {None}]
    /\ armed \subseteq Conns
    /\ caller \in [Callers -> {"away", "take", "waiting", "leaving", "checking",
                               "using", "served", "failed"}]
    /\ hold \in [Callers -> Conns \cup {None}]
    /\ done \subseteq Conns /\ closed \subseteq Conns

Init ==
    /\ idle = <<>>
    /\ waiters = {}
    /\ chan = [t \in Callers |-> None]
    /\ agent = [c \in Conns |-> "away"]
    /\ target = [c \in Conns |-> None]
    /\ armed = {}
    /\ caller = [t \in Callers |-> "away"]
    /\ hold = [t \in Callers |-> None]
    /\ done = {} /\ closed = {}

----------------------------------------------------------------------------
\* handleAgentTunnel and agentPool.add

\* A request refused before the hijack (wrong route or method, no hijacker, no
\* hijack) leaves the pool alone.  Neither these handlers nor those of the
\* callers have a user: no middleware on their routes sets one, so the count
\* of a user's connections is not touched.
Arrive(c) ==
    /\ agent[c] = "away"
    /\ agent' = [agent EXCEPT ![c] = "arrived"]
    /\ UNCHANGED <<poolVars, target, armed, caller, hold, done, closed>>

\* The "200 Tunnel Ready" line cannot be written: the handler leaves at once.
ArriveFails(c) ==
    /\ agent[c] = "arrived"
    /\ agent' = [agent EXCEPT ![c] = "returned"]
    /\ closed' = closed \cup {c}
    /\ UNCHANGED <<poolVars, target, armed, caller, hold, done>>

\* Nobody waits: park the connection and start its context watcher.
AddIdle(c) ==
    /\ agent[c] = "arrived"
    /\ waiters = {}
    /\ idle' = Append(idle, c)
    /\ armed' = armed \cup {c}
    /\ agent' = [agent EXCEPT ![c] = "blocked"]
    /\ UNCHANGED <<waiters, chan, target, caller, hold, done, closed>>

\* Mutant of AddMatch: the chosen waiter stays in the table.
AddMatchKeepsWaiter(c) ==
    /\ agent[c] = "arrived"
    /\ \E t \in waiters : target' = [target EXCEPT ![c] = t]
    /\ agent' = [agent EXCEPT ![c] = "sending"]
    /\ UNCHANGED <<poolVars, armed, caller, hold, done, closed>>

\* Somebody waits: pick one waiter, under the mutex ...
AddMatch(c) ==
    /\ agent[c] = "arrived"
    /\ \E t \in waiters : /\ waiters' = waiters \ {t}
                          /\ target' = [target EXCEPT ![c] = t]
    /\ agent' = [agent EXCEPT ![c] = "sending"]
    /\ UNCHANGED <<idle, chan, armed, caller, hold, done, closed>>

\* ... and hand the connection over outside it.
AddSend(c) ==
    /\ agent[c] = "sending"
    /\ chan' = [chan EXCEPT ![target[c]] = c]
    /\ target' = [target EXCEPT ![c] = None]
    /\ agent' = [agent EXCEPT ![c] = "blocked"]
    /\ UNCHANGED <<idle, waiters, armed, caller, hold, done, closed>>

\* The handler waits for done; a hijacked request's context is not canceled
\* before the handler returns.
AgentReturn(c) ==
    /\ agent[c] = "blocked"
    /\ c \in done
    /\ agent' = [agent EXCEPT ![c] = "returned"]
    /\ closed' = closed \cup {c}
    /\ UNCHANGED <<poolVars, target, armed, caller, hold, done>>

\* The watcher add started, when the context ends: removeIdle and Close.
WatcherFires(c) ==
    /\ c \in armed
    /\ agent[c] = "returned"
    /\ armed' = armed \ {c}
    /\ IF c \in Elements(idle)
         THEN /\ idle' = SelectSeq(idle, LAMBDA d : d # c)
              /\ closed' = closed \cup {c}
         ELSE UNCHANGED <<idle, closed>>
    /\ UNCHANGED <<waiters, chan, agent, target, caller, hold, done>>

----------------------------------------------------------------------------
\* openTCP, agentPool.take and bridgeTCP

Call(t) ==
    /\ caller[t] = "away"
    /\ caller' = [caller EXCEPT ![t] = "take"]
    /\ UNCHANGED <<poolVars, agent, target, armed, hold, done, closed>>

TakeIdle(t) ==
    /\ caller[t] = "take"
    /\ idle # <<>>
    /\ hold' = [hold EXCEPT ![t] = Head(idle)]
    /\ idle' = Tail(idle)
    /\ caller' = [caller EXCEPT ![t] = "checking"]
    /\ UNCHANGED <<waiters, chan, agent, target, armed, done, closed>>

TakeWait(t) ==
    /\ caller[t] = "take"
    /\ idle = <<>>
    /\ waiters' = waiters \cup {t}
    /\ caller' = [caller EXCEPT ![t] = "waiting"]
    /\ UNCHANGED <<idle, chan, agent, target, armed, hold, done, closed>>

\* The select: a delivery and a timeout that are both ready are both possible.
Receive(t) ==
    /\ caller[t] = "waiting"
    /\ chan[t] # None
    /\ hold' = [hold EXCEPT ![t] = chan[t]]
    /\ chan' = [chan EXCEPT ![t] = None]
    /\ caller' = [caller EXCEPT ![t] = "checking"]
    /\ UNCHANGED <<idle, waiters, agent, target, armed, done, closed>>

Timeout(t) ==
    /\ caller[t] = "waiting"
    /\ caller' = [caller EXCEPT ![t] = "leaving"]
    /\ UNCHANGED <<poolVars, agent, target, armed, hold, done, closed>>

\* removeWaiter; what is in the channel, or still comes, is never looked at.
RemoveWaiter(t) ==
    /\ caller[t] = "leaving"
    /\ waiters' = waiters \ {t}
    /\ caller' = [caller EXCEPT ![t] = "failed"]
    /\ UNCHANGED <<idle, chan, agent, target, armed, hold, done, closed>>

\* liveAgentConn: the connection looks alive and is used ...
CheckLive(t) ==
    /\ caller[t] = "checking"
    /\ caller' = [caller EXCEPT ![t] = "using"]
    /\ UNCHANGED <<poolVars, agent, target, armed, hold, done, closed>>

\* ... or looks dead, is discarded, and the loop goes round.
CheckDead(t) ==
    /\ caller[t] = "checking"
    /\ done' = done \cup {hold[t]}
    /\ closed' = closed \cup {hold[t]}
    /\ hold' = [hold EXCEPT ![t] = None]
    /\ caller' = [caller EXCEPT ![t] = "take"]
    /\ UNCHANGED <<poolVars, agent, target, armed>>

\* Mutant of BridgeEnds: finish is not called.
BridgeEndsUnfinished(t) ==
    /\ caller[t] = "using"
    /\ closed' = closed \cup {hold[t]}
    /\ hold' = [hold EXCEPT ![t] = None]
    /\ caller' = [caller EXCEPT ![t] = "served"]
    /\ UNCHANGED <<poolVars, agent, target, armed, done>>

\* The bridge ends: cleanup (finish), then both connections are closed.
BridgeEnds(t) ==
    /\ caller[t] = "using"
    /\ done' = done \cup {hold[t]}
    /\ closed' = closed \cup {hold[t]}
    /\ hold' = [hold EXCEPT ![t] = None]
    /\ caller' = [caller EXCEPT ![t] = "served"]
    /\ UNCHANGED <<poolVars, agent, target, armed>>

----------------------------------------------------------------------------
AgentStep(c) == AddIdle(c) \/ AddMatch(c) \/ AddSend(c) \/ ArriveFails(c)
                \/ AgentReturn(c) \/ WatcherFires(c)
TakeStep(t) == TakeIdle(t) \/ TakeWait(t) \/ Receive(t) \/ Timeout(t)
               \/ RemoveWaiter(t) \/ CheckLive(t) \/ CheckDead(t)

Next == \/ \E c \in Conns : Arrive(c) \/ AgentStep(c)
        \/ \E t \in Callers : Call(t) \/ TakeStep(t) \/ BridgeEnds(t)

\* Goroutines that can run do run, and take's context has a deadline
\* (AgentWaitTimeout).  Agents and clients owe nothing, and a bridge may last.
Fairness ==
    /\ \A c \in Conns : WF_vars(AgentStep(c))
    /\ \A t \in Callers : WF_vars(TakeStep(t))

Spec == Init /\ [][Next]_vars /\ Fairness

----------------------------------------------------------------------------
\* Properties.

\* Nobody waits while a connection lies idle: the two branches of add and of
\* take never leave both tables non-empty.
NoIdleWhileWaiting == idle # <<>> => waiters = {}

\* The places a connection can be in after its agent added it.
Places(c) ==
    {<<"idle", k>> : k \in {k \in DOMAIN idle : idle[k] = c}}
    \cup {<<"sent to", t>> : t \in {t \in Callers : agent[c] = "sending" /\ target[c] = t}}
    \cup {<<"channel of", t>> : t \in {t \in Callers : chan[t] = c}}
    \cup {<<"held by", t>> : t \in {t \in Callers : hold[t] = c}}

\* A connection is in exactly one place until it is finished, and in none
\* afterwards: it is never used by two callers, never parked again after use,
\* and never vanishes while its agent waits.
OnePlace ==
    \A c \in Conns :
        Cardinality(Places(c)) =
            IF agent[c] \in {"sending", "blocked"} /\ c \notin done THEN 1 ELSE 0

\* A caller never loses its connection under its hands: no watcher, no agent
\* handler and no other caller closes it.
UsedStaysOpen == \A t \in Callers : caller[t] = "using" => hold[t] \notin closed

\* The hand-over from agents to callers, which crosses the mutex twice, loses
\* no connection, doubles none and strands no caller (agent_pool.go:41-110).
HandedOverOnce == TypeOK /\ NoIdleWhileWaiting /\ OnePlace /\ UsedStaysOpen

\* Every call of take ends: with a connection or with an error.
TakeEnds ==
    \A t \in Callers :
        caller[t] = "take" ~> caller[t] \in {"using", "served", "failed"}

\* A connection that left the idle list is used or given back to its agent,
\* unless it was handed to a caller that had given up: that one stays open,
\* its handler blocked, for good.
AddedIsFinished ==
    \A c \in Conns :
        agent[c] = "sending" \/ (agent[c] = "blocked" /\ c \notin Elements(idle)) ~>
            \/ agent[c] = "returned"
            \/ \E t \in Callers : \/ caller[t] = "using" /\ hold[t] = c
                                  \/ caller[t] = "failed" /\ chan[t] = c

\* Both sides of a hand-over come to an end.
HandOverEnds == TakeEnds /\ AddedIsFinished

============================================================================
