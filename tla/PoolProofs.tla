----------------------------- MODULE PoolProofs -----------------------------
(***************************************************************************)
(* Proofs about module AgentPool, for all sets of connections and callers,  *)
(* finite or not.                                                           *)
(***************************************************************************)
EXTENDS AgentPool, TLAPS, FiniteSetTheorems

\* TypeOK without the watchers.
PoolTypes ==
  /\ idle \in Seq(Conns) /\ waiters \subseteq Callers
  /\ chan \in [Callers -> Conns \cup {None}]
  /\ agent \in [Conns -> {"away", "arrived", "sending", "blocked", "returned"}]
  /\ target \in [Conns -> Callers \cup {None}]
  /\ caller \in [Callers -> {"away", "take", "waiting", "leaving", "checking", "using", "served", "failed"}]
  /\ hold \in [Callers -> Conns \cup {None}]
  /\ done \subseteq Conns /\ closed \subseteq Conns

IdleOnce == \A i, j \in 1 .. Len(idle) : idle[i] = idle[j] => i = j

\* A connection that was handed over lies in the idle list, in a channel or
\* with a caller ...
Located(c) == \/ c \in Elements(idle)
              \/ \E t \in Callers : chan[t] = c
              \/ \E t \in Callers : hold[t] = c

\* ... exactly while its agent's handler is blocked on it and it is not
\* finished; nobody closed it until then.
WhereBlocked(c) ==
  /\ Located(c) <=> agent[c] = "blocked" /\ c \notin done
  /\ c \in done => agent[c] \in {"blocked", "returned"}
  /\ c \in closed => c \in done \/ agent[c] = "returned"

\* It is there once.
Alone(c) ==
  /\ c \in Elements(idle) => \A t \in Callers : chan[t] # c /\ hold[t] # c
  /\ \A t, u \in Callers : chan[t] = c => hold[u] # c
  /\ \A t, u \in Callers : chan[t] = c /\ chan[u] = c => t = u
  /\ \A t, u \in Callers : hold[t] = c /\ hold[u] = c => t = u

SendingTo(c, t) == agent[c] = "sending" /\ target[c] = t

\* Only a caller that waits, or has given up, is matched with a connection,
\* once, and its channel is empty until that one arrives.
Matched(t) ==
  /\ t \in waiters => caller[t] \in {"waiting", "leaving"}
  /\ t \in waiters \/ caller[t] \notin {"waiting", "leaving", "failed"} =>
       chan[t] = None /\ \A c \in Conns : ~ SendingTo(c, t)
  /\ chan[t] # None => \A c \in Conns : ~ SendingTo(c, t)
  /\ \A c, d \in Conns : SendingTo(c, t) /\ SendingTo(d, t) => c = d
  /\ hold[t] # None <=> caller[t] \in {"checking", "using"}

HasTarget(c) == agent[c] = "sending" => target[c] \in Callers

PoolInv ==
  /\ PoolTypes /\ IdleOnce /\ NoIdleWhileWaiting
  /\ \A c \in Conns : WhereBlocked(c) /\ Alone(c) /\ HasTarget(c)
  /\ \A t \in Callers : Matched(t)

-----------------------------------------------------------------------------
\* The idle list as a set, at its two ends.
LEMMA IdleTail ==
  ASSUME idle \in Seq(Conns), IdleOnce, idle # << >>, idle' = Tail(idle)
  PROVE  /\ Head(idle) \in Elements(idle) /\ Elements(idle)' = Elements(idle) \ {Head(idle)}
         /\ idle' \in Seq(Conns) /\ IdleOnce'
<1>1. /\ Len(idle) \in Nat \ {0} /\ Head(idle) = idle[1] /\ idle' \in Seq(Conns)
      /\ Len(idle') = Len(idle) - 1 /\ \A k \in 1 .. Len(idle') : idle'[k] = idle[k + 1]
      /\ DOMAIN idle = 1 .. Len(idle) /\ DOMAIN idle' = 1 .. Len(idle')
  OBVIOUS
<1>2. IdleOnce'
  BY <1>1 DEF IdleOnce
<1>3. ASSUME NEW c PROVE c \in Elements(idle)' <=> c \in Elements(idle) /\ c # Head(idle)
  <2>1. c \in Elements(idle)' => c \in Elements(idle) /\ c # Head(idle)
    BY <1>1 DEF Elements, IdleOnce
  <2>2. ASSUME NEW k \in 1 .. Len(idle), idle[k] = c, c # Head(idle) PROVE c \in Elements(idle)'
    <3>1. k - 1 \in 1 .. Len(idle') /\ idle'[k - 1] = c
      BY <1>1, <2>2
    <3> QED
      BY <1>1, <3>1 DEF Elements
  <2> QED
    BY <1>1, <2>1, <2>2 DEF Elements
<1>4. Elements(idle)' = Elements(idle) \ {Head(idle)}
  <2> DEFINE E == Elements(idle)
             F == Elements(idle)'
             h == Head(idle)
  <2>1. \A c : c \in F <=> c \in E /\ c # h
    BY <1>3
  <2> HIDE DEF E, F, h
  <2>2. F = E \ {h}
    BY <2>1
  <2> QED
    BY <2>2 DEF E, F, h
<1>5. Head(idle) \in Elements(idle)
  BY <1>1 DEF Elements
<1> QED
  BY <1>1, <1>2, <1>4, <1>5

LEMMA IdleAppend ==
  ASSUME idle \in Seq(Conns), IdleOnce, NEW c \in Conns, c \notin Elements(idle), idle' = Append(idle, c)
  PROVE  Elements(idle)' = Elements(idle) \cup {c} /\ idle' \in Seq(Conns) /\ IdleOnce'
<1>1. /\ Len(idle) \in Nat /\ Len(idle') = Len(idle) + 1 /\ idle' \in Seq(Conns)
      /\ \A k \in 1 .. Len(idle) : idle'[k] = idle[k] /\ idle'[Len(idle) + 1] = c
      /\ DOMAIN idle = 1 .. Len(idle) /\ DOMAIN idle' = 1 .. Len(idle')
  OBVIOUS
<1>2. idle'[Len(idle) + 1] = c
  OBVIOUS
<1>3. \A k \in 1 .. Len(idle) : idle[k] # c
  BY <1>1 DEF Elements
<1>4. IdleOnce'
  BY <1>1, <1>2, <1>3 DEF IdleOnce
<1>5. ASSUME NEW d PROVE d \in Elements(idle)' <=> d \in Elements(idle) \/ d = c
  BY <1>1, <1>2 DEF Elements
<1> QED
  BY <1>1, <1>4, <1>5 DEF Elements

LEMMA PoolInitInv == Init => PoolInv
<1> SUFFICES ASSUME Init PROVE PoolInv
  OBVIOUS
<1> USE PoolAssumption
<1>1. PoolTypes /\ IdleOnce /\ NoIdleWhileWaiting
  BY DEF Init, PoolTypes, IdleOnce, NoIdleWhileWaiting
<1>2. Elements(idle) = {}
  BY DEF Init, Elements
<1>3. \A c \in Conns : WhereBlocked(c) /\ Alone(c) /\ HasTarget(c)
  BY <1>2 DEF Init, WhereBlocked, Located, Alone, HasTarget
<1>4. \A t \in Callers : Matched(t)
  BY DEF Init, Matched, SendingTo
<1> QED
  BY <1>1, <1>3, <1>4 DEF PoolInv

LEMMA ArriveInv == ASSUME PoolInv, NEW c \in Conns, Arrive(c) PROVE PoolInv'
<1> USE PoolAssumption DEF PoolInv
<1>1. PoolTypes'
  BY DEF PoolTypes, Arrive, poolVars
<1>2. IdleOnce' /\ NoIdleWhileWaiting' /\ Elements(idle)' = Elements(idle)
  BY DEF IdleOnce, NoIdleWhileWaiting, Elements, Arrive, poolVars
<1>3. ASSUME NEW d \in Conns PROVE WhereBlocked(d)' /\ Alone(d)' /\ HasTarget(d)'
  BY <1>2 DEF PoolTypes, WhereBlocked, Located, Alone, HasTarget, Matched, SendingTo, Arrive, poolVars
<1>4. ASSUME NEW u \in Callers PROVE Matched(u)'
  BY DEF PoolTypes, Matched, SendingTo, Arrive, poolVars
<1> QED
  BY <1>1, <1>2, <1>3, <1>4

LEMMA ArriveFailsInv == ASSUME PoolInv, NEW c \in Conns, ArriveFails(c) PROVE PoolInv'
<1> USE PoolAssumption DEF PoolInv
<1>1. PoolTypes'
  BY DEF PoolTypes, ArriveFails, poolVars
<1>2. IdleOnce' /\ NoIdleWhileWaiting' /\ Elements(idle)' = Elements(idle)
  BY DEF IdleOnce, NoIdleWhileWaiting, Elements, ArriveFails, poolVars
<1>3. ASSUME NEW d \in Conns PROVE WhereBlocked(d)' /\ Alone(d)' /\ HasTarget(d)'
  BY <1>2 DEF PoolTypes, WhereBlocked, Located, Alone, HasTarget, Matched, SendingTo, ArriveFails, poolVars
<1>4. ASSUME NEW u \in Callers PROVE Matched(u)'
  BY DEF PoolTypes, Matched, SendingTo, ArriveFails, poolVars
<1> QED
  BY <1>1, <1>2, <1>3, <1>4

LEMMA AddMatchInv == ASSUME PoolInv, NEW c \in Conns, AddMatch(c) PROVE PoolInv'
<1> USE PoolAssumption DEF PoolInv
<1>1. PoolTypes'
  BY DEF PoolTypes, AddMatch, poolVars
<1>2. IdleOnce' /\ NoIdleWhileWaiting' /\ Elements(idle)' = Elements(idle)
  BY DEF IdleOnce, NoIdleWhileWaiting, Elements, AddMatch, poolVars
<1>3. ASSUME NEW d \in Conns PROVE WhereBlocked(d)' /\ Alone(d)' /\ HasTarget(d)'
  BY <1>2 DEF PoolTypes, WhereBlocked, Located, Alone, HasTarget, Matched, SendingTo, AddMatch, poolVars
<1>4. ASSUME NEW u \in Callers PROVE Matched(u)'
  BY DEF PoolTypes, Matched, SendingTo, AddMatch, poolVars
<1> QED
  BY <1>1, <1>2, <1>3, <1>4

LEMMA AddSendInv == ASSUME PoolInv, NEW c \in Conns, AddSend(c) PROVE PoolInv'
<1> USE PoolAssumption DEF PoolInv
<1>1. PoolTypes'
  BY DEF PoolTypes, AddSend, poolVars
<1>2. IdleOnce' /\ NoIdleWhileWaiting' /\ Elements(idle)' = Elements(idle)
  BY DEF IdleOnce, NoIdleWhileWaiting, Elements, AddSend, poolVars
<1>3. ASSUME NEW d \in Conns PROVE WhereBlocked(d)' /\ Alone(d)' /\ HasTarget(d)'
  BY <1>2 DEF PoolTypes, WhereBlocked, Located, Alone, HasTarget, Matched, SendingTo, AddSend, poolVars
<1>4. ASSUME NEW u \in Callers PROVE Matched(u)'
  BY DEF PoolTypes, Matched, SendingTo, AddSend, poolVars
<1> QED
  BY <1>1, <1>2, <1>3, <1>4

LEMMA AgentReturnInv == ASSUME PoolInv, NEW c \in Conns, AgentReturn(c) PROVE PoolInv'
<1> USE PoolAssumption DEF PoolInv
<1>1. PoolTypes'
  BY DEF PoolTypes, AgentReturn, poolVars
<1>2. IdleOnce' /\ NoIdleWhileWaiting' /\ Elements(idle)' = Elements(idle)
  BY DEF IdleOnce, NoIdleWhileWaiting, Elements, AgentReturn, poolVars
<1>3. ASSUME NEW d \in Conns PROVE WhereBlocked(d)' /\ Alone(d)' /\ HasTarget(d)'
  BY <1>2 DEF PoolTypes, WhereBlocked, Located, Alone, HasTarget, Matched, SendingTo, AgentReturn, poolVars
<1>4. ASSUME NEW u \in Callers PROVE Matched(u)'
  BY DEF PoolTypes, Matched, SendingTo, AgentReturn, poolVars
<1> QED
  BY <1>1, <1>2, <1>3, <1>4

LEMMA ReceiveInv == ASSUME PoolInv, NEW t \in Callers, Receive(t) PROVE PoolInv'
<1> USE PoolAssumption DEF PoolInv
<1>1. PoolTypes'
  BY DEF PoolTypes, Receive, poolVars
<1>2. IdleOnce' /\ NoIdleWhileWaiting' /\ Elements(idle)' = Elements(idle)
  BY DEF IdleOnce, NoIdleWhileWaiting, Elements, Receive, poolVars
<1>3. ASSUME NEW d \in Conns PROVE WhereBlocked(d)' /\ Alone(d)' /\ HasTarget(d)'
  BY <1>2 DEF PoolTypes, WhereBlocked, Located, Alone, HasTarget, Matched, SendingTo, Receive, poolVars
<1>4. ASSUME NEW u \in Callers PROVE Matched(u)'
  BY DEF PoolTypes, Matched, SendingTo, Receive, poolVars
<1> QED
  BY <1>1, <1>2, <1>3, <1>4

LEMMA TimeoutInv == ASSUME PoolInv, NEW t \in Callers, Timeout(t) PROVE PoolInv'
<1> USE PoolAssumption DEF PoolInv
<1>1. PoolTypes'
  BY DEF PoolTypes, Timeout, poolVars
<1>2. IdleOnce' /\ NoIdleWhileWaiting' /\ Elements(idle)' = Elements(idle)
  BY DEF IdleOnce, NoIdleWhileWaiting, Elements, Timeout, poolVars
<1>3. ASSUME NEW d \in Conns PROVE WhereBlocked(d)' /\ Alone(d)' /\ HasTarget(d)'
  BY <1>2 DEF PoolTypes, WhereBlocked, Located, Alone, HasTarget, Matched, SendingTo, Timeout, poolVars
<1>4. ASSUME NEW u \in Callers PROVE Matched(u)'
  BY DEF PoolTypes, Matched, SendingTo, Timeout, poolVars
<1> QED
  BY <1>1, <1>2, <1>3, <1>4

LEMMA RemoveWaiterInv == ASSUME PoolInv, NEW t \in Callers, RemoveWaiter(t) PROVE PoolInv'
<1> USE PoolAssumption DEF PoolInv
<1>1. PoolTypes'
  BY DEF PoolTypes, RemoveWaiter, poolVars
<1>2. IdleOnce' /\ NoIdleWhileWaiting' /\ Elements(idle)' = Elements(idle)
  BY DEF IdleOnce, NoIdleWhileWaiting, Elements, RemoveWaiter, poolVars
<1>3. ASSUME NEW d \in Conns PROVE WhereBlocked(d)' /\ Alone(d)' /\ HasTarget(d)'
  BY <1>2 DEF PoolTypes, WhereBlocked, Located, Alone, HasTarget, Matched, SendingTo, RemoveWaiter, poolVars
<1>4. ASSUME NEW u \in Callers PROVE Matched(u)'
  BY DEF PoolTypes, Matched, SendingTo, RemoveWaiter, poolVars
<1> QED
  BY <1>1, <1>2, <1>3, <1>4

LEMMA TakeWaitInv == ASSUME PoolInv, NEW t \in Callers, TakeWait(t) PROVE PoolInv'
<1> USE PoolAssumption DEF PoolInv
<1>1. PoolTypes'
  BY DEF PoolTypes, TakeWait, poolVars
<1>2. IdleOnce' /\ NoIdleWhileWaiting' /\ Elements(idle)' = Elements(idle)
  BY DEF IdleOnce, NoIdleWhileWaiting, Elements, TakeWait, poolVars
<1>3. ASSUME NEW d \in Conns PROVE WhereBlocked(d)' /\ Alone(d)' /\ HasTarget(d)'
  BY <1>2 DEF PoolTypes, WhereBlocked, Located, Alone, HasTarget, Matched, SendingTo, TakeWait, poolVars
<1>4. ASSUME NEW u \in Callers PROVE Matched(u)'
  BY DEF PoolTypes, Matched, SendingTo, TakeWait, poolVars
<1> QED
  BY <1>1, <1>2, <1>3, <1>4

LEMMA CallInv == ASSUME PoolInv, NEW t \in Callers, Call(t) PROVE PoolInv'
<1> USE PoolAssumption DEF PoolInv
<1>1. PoolTypes'
  BY DEF PoolTypes, Call, poolVars
<1>2. IdleOnce' /\ NoIdleWhileWaiting' /\ Elements(idle)' = Elements(idle)
  BY DEF IdleOnce, NoIdleWhileWaiting, Elements, Call, poolVars
<1>3. ASSUME NEW d \in Conns PROVE WhereBlocked(d)' /\ Alone(d)' /\ HasTarget(d)'
  BY <1>2 DEF PoolTypes, WhereBlocked, Located, Alone, HasTarget, Matched, SendingTo, Call, poolVars
<1>4. ASSUME NEW u \in Callers PROVE Matched(u)'
  BY DEF PoolTypes, Matched, SendingTo, Call, poolVars
<1> QED
  BY <1>1, <1>2, <1>3, <1>4

LEMMA CheckLiveInv == ASSUME PoolInv, NEW t \in Callers, CheckLive(t) PROVE PoolInv'
<1> USE PoolAssumption DEF PoolInv
<1>1. PoolTypes'
  BY DEF PoolTypes, CheckLive, poolVars
<1>2. IdleOnce' /\ NoIdleWhileWaiting' /\ Elements(idle)' = Elements(idle)
  BY DEF IdleOnce, NoIdleWhileWaiting, Elements, CheckLive, poolVars
<1>3. ASSUME NEW d \in Conns PROVE WhereBlocked(d)' /\ Alone(d)' /\ HasTarget(d)'
  BY <1>2 DEF PoolTypes, WhereBlocked, Located, Alone, HasTarget, Matched, SendingTo, CheckLive, poolVars
<1>4. ASSUME NEW u \in Callers PROVE Matched(u)'
  BY DEF PoolTypes, Matched, SendingTo, CheckLive, poolVars
<1> QED
  BY <1>1, <1>2, <1>3, <1>4

LEMMA CheckDeadInv == ASSUME PoolInv, NEW t \in Callers, CheckDead(t) PROVE PoolInv'
<1> USE PoolAssumption DEF PoolInv
<1>1. PoolTypes'
  <2>1. hold[t] \in Conns
    BY DEF PoolTypes, Matched, CheckDead
  <2> QED
    BY <2>1 DEF PoolTypes, CheckDead, poolVars
<1>2. IdleOnce' /\ NoIdleWhileWaiting' /\ Elements(idle)' = Elements(idle)
  BY DEF IdleOnce, NoIdleWhileWaiting, Elements, CheckDead, poolVars
<1>3. ASSUME NEW d \in Conns PROVE WhereBlocked(d)' /\ Alone(d)' /\ HasTarget(d)'
  BY <1>2 DEF PoolTypes, WhereBlocked, Located, Alone, HasTarget, Matched, SendingTo, CheckDead, poolVars
<1>4. ASSUME NEW u \in Callers PROVE Matched(u)'
  BY DEF PoolTypes, Matched, SendingTo, CheckDead, poolVars
<1> QED
  BY <1>1, <1>2, <1>3, <1>4

LEMMA BridgeEndsInv == ASSUME PoolInv, NEW t \in Callers, BridgeEnds(t) PROVE PoolInv'
<1> USE PoolAssumption DEF PoolInv
<1>1. PoolTypes'
  <2>1. hold[t] \in Conns
    BY DEF PoolTypes, Matched, BridgeEnds
  <2> QED
    BY <2>1 DEF PoolTypes, BridgeEnds, poolVars
<1>2. IdleOnce' /\ NoIdleWhileWaiting' /\ Elements(idle)' = Elements(idle)
  BY DEF IdleOnce, NoIdleWhileWaiting, Elements, BridgeEnds, poolVars
<1>3. ASSUME NEW d \in Conns PROVE WhereBlocked(d)' /\ Alone(d)' /\ HasTarget(d)'
  BY <1>2 DEF PoolTypes, WhereBlocked, Located, Alone, HasTarget, Matched, SendingTo, BridgeEnds, poolVars
<1>4. ASSUME NEW u \in Callers PROVE Matched(u)'
  BY DEF PoolTypes, Matched, SendingTo, BridgeEnds, poolVars
<1> QED
  BY <1>1, <1>2, <1>3, <1>4

LEMMA TakeIdleInv == ASSUME PoolInv, NEW t \in Callers, TakeIdle(t) PROVE PoolInv'
<1> USE PoolAssumption DEF PoolInv
<1>1. /\ Head(idle) \in Elements(idle) /\ Elements(idle)' = Elements(idle) \ {Head(idle)}
      /\ idle' \in Seq(Conns) /\ IdleOnce'
  BY IdleTail DEF PoolTypes, TakeIdle
<1>2. Head(idle) \in Conns
  BY DEF PoolTypes, TakeIdle
<1>3. PoolTypes' /\ NoIdleWhileWaiting'
  BY <1>1, <1>2 DEF PoolTypes, NoIdleWhileWaiting, TakeIdle
<1> DEFINE h == Head(idle)
<1>4. hold' = [hold EXCEPT ![t] = h] /\ h \in Conns /\ h \in Elements(idle)
      /\ Elements(idle)' = Elements(idle) \ {h}
  BY <1>1, <1>2 DEF TakeIdle
<1> HIDE DEF h
<1>5. ASSUME NEW d \in Conns PROVE WhereBlocked(d)' /\ Alone(d)' /\ HasTarget(d)'
  BY <1>4 DEF PoolTypes, WhereBlocked, Located, Alone, HasTarget, Matched, TakeIdle
<1>6. ASSUME NEW u \in Callers PROVE Matched(u)'
  BY <1>4 DEF PoolTypes, Matched, SendingTo, TakeIdle
<1> QED
  BY <1>1, <1>3, <1>5, <1>6

LEMMA AddIdleInv == ASSUME PoolInv, NEW c \in Conns, AddIdle(c) PROVE PoolInv'
<1> USE PoolAssumption DEF PoolInv
<1>1. c \notin Elements(idle)
  BY DEF AddIdle, WhereBlocked, Located
<1>2. Elements(idle)' = Elements(idle) \cup {c} /\ idle' \in Seq(Conns) /\ IdleOnce'
  BY <1>1, IdleAppend DEF PoolTypes, AddIdle
<1>3. PoolTypes' /\ NoIdleWhileWaiting'
  BY <1>2 DEF PoolTypes, NoIdleWhileWaiting, AddIdle
<1>4. ASSUME NEW d \in Conns PROVE WhereBlocked(d)' /\ Alone(d)' /\ HasTarget(d)'
  BY <1>2 DEF PoolTypes, WhereBlocked, Located, Alone, HasTarget, AddIdle
<1>5. ASSUME NEW u \in Callers PROVE Matched(u)'
  BY DEF PoolTypes, Matched, SendingTo, AddIdle
<1> QED
  BY <1>2, <1>3, <1>4, <1>5

\* A watcher fires when its agent's handler has returned, which it does when
\* the connection is finished: the idle list no longer has it.
LEMMA WatcherFiresInv == ASSUME PoolInv, NEW c \in Conns, WatcherFires(c) PROVE PoolInv'
<1> USE PoolAssumption DEF PoolInv
<1>1. c \notin Elements(idle)
  BY DEF WatcherFires, WhereBlocked, Located
<1>2. UNCHANGED <<idle, waiters, chan, agent, target, caller, hold, done, closed>>
  BY <1>1 DEF WatcherFires
<1>3. PoolTypes' /\ IdleOnce' /\ NoIdleWhileWaiting' /\ Elements(idle)' = Elements(idle)
  BY <1>2 DEF PoolTypes, IdleOnce, NoIdleWhileWaiting, Elements
<1>4. ASSUME NEW d \in Conns PROVE WhereBlocked(d)' /\ Alone(d)' /\ HasTarget(d)'
  BY <1>2, <1>3 DEF WhereBlocked, Located, Alone, HasTarget
<1>5. ASSUME NEW u \in Callers PROVE Matched(u)'
  BY <1>2 DEF Matched, SendingTo
<1> QED
  BY <1>3, <1>4, <1>5

LEMMA PoolStutterInv == PoolInv /\ UNCHANGED vars => PoolInv'
<1> SUFFICES ASSUME PoolInv, UNCHANGED vars PROVE PoolInv'
  OBVIOUS
<1> USE DEF PoolInv, vars, poolVars
<1>1. PoolTypes' /\ IdleOnce' /\ NoIdleWhileWaiting' /\ Elements(idle)' = Elements(idle)
  BY DEF PoolTypes, IdleOnce, NoIdleWhileWaiting, Elements
<1>2. ASSUME NEW d \in Conns PROVE WhereBlocked(d)' /\ Alone(d)' /\ HasTarget(d)'
  BY <1>1 DEF WhereBlocked, Located, Alone, HasTarget
<1>3. ASSUME NEW u \in Callers PROVE Matched(u)'
  BY DEF Matched, SendingTo
<1> QED
  BY <1>1, <1>2, <1>3

LEMMA PoolInvInductive == PoolInv /\ [Next]_vars => PoolInv'
<1> SUFFICES ASSUME PoolInv, [Next]_vars PROVE PoolInv'
  OBVIOUS
<1>1. CASE \E c \in Conns : Arrive(c) \/ AgentStep(c)
  BY <1>1, ArriveInv, ArriveFailsInv, AddIdleInv, AddMatchInv, AddSendInv, AgentReturnInv,
     WatcherFiresInv DEF AgentStep
<1>2. CASE \E t \in Callers : Call(t) \/ TakeStep(t) \/ BridgeEnds(t)
  BY <1>2, CallInv, TakeIdleInv, TakeWaitInv, ReceiveInv, TimeoutInv, RemoveWaiterInv,
     CheckLiveInv, CheckDeadInv, BridgeEndsInv DEF TakeStep
<1>3. CASE UNCHANGED vars
  BY <1>3, PoolStutterInv
<1> QED
  BY <1>1, <1>2, <1>3 DEF Next

-----------------------------------------------------------------------------
\* The places of a connection: one when it is located or being sent, else none.
LEMMA PlacesOfSent ==
  ASSUME PoolInv, NEW c \in Conns, agent[c] = "sending"
  PROVE  Places(c) = {<<"sent to", target[c]>>}
<1>1. target[c] \in Callers /\ ~ Located(c)
  BY DEF PoolInv, HasTarget, WhereBlocked
<1>2. /\ {k \in DOMAIN idle : idle[k] = c} = {}
      /\ {t \in Callers : chan[t] = c} = {} /\ {t \in Callers : hold[t] = c} = {}
  BY <1>1 DEF Located, Elements
<1>3. {t \in Callers : agent[c] = "sending" /\ target[c] = t} = {target[c]}
  BY <1>1
<1> QED
  BY <1>2, <1>3 DEF Places

LEMMA PlacesOfIdle ==
  ASSUME PoolInv, NEW c \in Conns, c \in Elements(idle)
  PROVE  \E k \in DOMAIN idle : Places(c) = {<<"idle", k>>}
<1>1. agent[c] # "sending" /\ \A t \in Callers : chan[t] # c /\ hold[t] # c
  BY DEF PoolInv, WhereBlocked, Located, Alone
<1>2. PICK k \in DOMAIN idle : idle[k] = c
  BY DEF Elements
<1>3. {j \in DOMAIN idle : idle[j] = c} = {k}
  <2>1. DOMAIN idle = 1 .. Len(idle)
    BY DEF PoolInv, PoolTypes
  <2> QED
    BY <1>2, <2>1 DEF PoolInv, IdleOnce
<1>4. /\ {t \in Callers : agent[c] = "sending" /\ target[c] = t} = {}
      /\ {t \in Callers : chan[t] = c} = {} /\ {t \in Callers : hold[t] = c} = {}
  BY <1>1
<1>5. {<<"idle", j>> : j \in {j \in DOMAIN idle : idle[j] = c}} = {<<"idle", k>>}
  BY <1>3
<1> QED
  BY <1>4, <1>5 DEF Places

LEMMA PlacesOfDelivered ==
  ASSUME PoolInv, NEW c \in Conns, NEW t \in Callers, chan[t] = c
  PROVE  Places(c) = {<<"channel of", t>>}
<1>1. agent[c] # "sending" /\ c \notin Elements(idle)
  BY DEF PoolInv, WhereBlocked, Located, Alone
<1>2. {k \in DOMAIN idle : idle[k] = c} = {}
  BY <1>1 DEF Elements
<1>3. /\ {u \in Callers : agent[c] = "sending" /\ target[c] = u} = {}
      /\ {u \in Callers : chan[u] = c} = {t} /\ {u \in Callers : hold[u] = c} = {}
  BY <1>1 DEF PoolInv, Alone
<1> QED
  BY <1>2, <1>3 DEF Places

LEMMA PlacesOfHeld ==
  ASSUME PoolInv, NEW c \in Conns, NEW t \in Callers, hold[t] = c
  PROVE  Places(c) = {<<"held by", t>>}
<1>1. agent[c] # "sending" /\ c \notin Elements(idle)
  BY DEF PoolInv, WhereBlocked, Located, Alone
<1>2. {k \in DOMAIN idle : idle[k] = c} = {}
  BY <1>1 DEF Elements
<1>3. /\ {u \in Callers : agent[c] = "sending" /\ target[c] = u} = {}
      /\ {u \in Callers : chan[u] = c} = {} /\ {u \in Callers : hold[u] = c} = {t}
  BY <1>1 DEF PoolInv, Alone
<1> QED
  BY <1>2, <1>3 DEF Places

LEMMA NoPlaces ==
  ASSUME NEW c \in Conns, agent[c] # "sending", ~ Located(c)
  PROVE  Places(c) = {}
<1>1. /\ {k \in DOMAIN idle : idle[k] = c} = {}
      /\ {t \in Callers : chan[t] = c} = {} /\ {t \in Callers : hold[t] = c} = {}
  BY DEF Located, Elements
<1>2. {t \in Callers : agent[c] = "sending" /\ target[c] = t} = {}
  OBVIOUS
<1> QED
  BY <1>1, <1>2 DEF Places

LEMMA PoolInvOnePlace == PoolInv => OnePlace
<1> SUFFICES ASSUME PoolInv, NEW c \in Conns
             PROVE  Cardinality(Places(c)) =
                      IF agent[c] \in {"sending", "blocked"} /\ c \notin done THEN 1 ELSE 0
  BY DEF OnePlace
<1>1. WhereBlocked(c)
  BY DEF PoolInv
<1>2. CASE agent[c] = "sending"
  BY <1>1, <1>2, PlacesOfSent, FS_Singleton DEF WhereBlocked
<1>3. CASE Located(c)
  <2>1. \E x : Places(c) = {x}
    BY <1>3, PlacesOfIdle, PlacesOfDelivered, PlacesOfHeld DEF Located
  <2> QED
    BY <1>1, <1>3, <2>1, FS_Singleton DEF WhereBlocked
<1>4. CASE agent[c] # "sending" /\ ~ Located(c)
  BY <1>1, <1>4, NoPlaces, FS_EmptySet DEF WhereBlocked
<1> QED
  BY <1>2, <1>3, <1>4

LEMMA PoolInvUsedStaysOpen == PoolInv => UsedStaysOpen
<1> SUFFICES ASSUME PoolInv, NEW t \in Callers, caller[t] = "using" PROVE hold[t] \notin closed
  BY DEF UsedStaysOpen
<1>1. hold[t] \in Conns
  BY DEF PoolInv, PoolTypes, Matched
<1> QED
  BY <1>1 DEF PoolInv, WhereBlocked, Located

LEMMA PoolAlways == Spec => []PoolInv
<1>1. Init => PoolInv
  BY PoolInitInv
<1>2. PoolInv /\ [Next]_vars => PoolInv'
  BY PoolInvInductive
<1> QED
  BY <1>1, <1>2, PTL DEF Spec

\* No caller waits while a connection of the route lies idle: add and take
\* look at both tables under one hold of the mutex.
THEOREM NoIdleWhileWaitingHolds == Spec => []NoIdleWhileWaiting
<1>1. PoolInv => NoIdleWhileWaiting
  BY DEF PoolInv
<1> QED
  BY <1>1, PoolAlways, PTL

\* Every connection an agent handed over is in exactly one place until it is
\* finished, and in none afterwards: the hand-over outside the mutex neither
\* loses nor doubles one.
THEOREM OnePlaceHolds == Spec => []OnePlace
BY PoolInvOnePlace, PoolAlways, PTL

\* Nobody closes the connection a caller uses: neither its agent's handler, nor
\* the watcher of the time it was parked, nor another caller.
THEOREM UsedStaysOpenHolds == Spec => []UsedStaysOpen
BY PoolInvUsedStaysOpen, PoolAlways, PTL

-----------------------------------------------------------------------------
\* Only a connection's own handler arms its watcher.
ArmedInv == armed \subseteq Conns

LEMMA ArmedAlways == Spec => []ArmedInv
<1>1. Init => ArmedInv
  BY DEF Init, ArmedInv
<1>2. ArmedInv /\ [Next]_vars => ArmedInv'
  BY DEF ArmedInv, Next, vars, poolVars, Arrive, AgentStep, AddIdle, AddMatch, AddSend, ArriveFails, AgentReturn,
         WatcherFires, Call, TakeStep, TakeIdle, TakeWait, Receive, Timeout, RemoveWaiter, CheckLive,
         CheckDead, BridgeEnds
<1> QED
  BY <1>1, <1>2, PTL DEF Spec

\* The whole hand-over: types, no idle connection beside a waiter, one place
\* for each connection, and none closed in use (agent_pool.go:41-110).
THEOREM HandedOverOnceHolds == Spec => []HandedOverOnce
<1>1. PoolInv /\ ArmedInv => TypeOK
  BY DEF PoolInv, PoolTypes, ArmedInv, TypeOK
<1>2. TypeOK /\ NoIdleWhileWaiting /\ OnePlace /\ UsedStaysOpen => HandedOverOnce
  BY DEF HandedOverOnce
<1> QED
  BY <1>1, <1>2, PoolAlways, ArmedAlways, NoIdleWhileWaitingHolds, OnePlaceHolds,
     UsedStaysOpenHolds, PTL
=============================================================================
