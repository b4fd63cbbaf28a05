--------------------------- MODULE WebRTCSessions ---------------------------
(***************************************************************************)
(* The gateway's WebRTC sessions (apps/gateway/internal/webrtc/webrtc.go). *)
(* CreateSession takes a token of sessionLimiter, builds a peer connection *)
(* and puts the session in the map.  EndSession marks it ended under its   *)
(* mutex, closes the peer connection outside the mutex, gives the token    *)
(* back and arms a timer that deletes the session five minutes later.      *)
(* EndSession is called by HTTP requests, by "close" messages on the       *)
(* signaling socket and by the peer connection's own Closed callback,      *)
(* while offers and ICE callbacks write the session's state.               *)
(*                                                                         *)
(* A critical section of Session.Mutex is one step.  One of them can       *)
(* panic: closing stopCh twice.  The unlock is not deferred, so the mutex  *)
(* then stays locked.  net/http recovers the panic of a request's          *)
(* goroutine; on any other goroutine it ends the process.                  *)
(***************************************************************************)
EXTENDS Integers, FiniteSets

CONSTANTS
    Sessions,      \* ids generateSessionID can return
    Enders,        \* goroutines that can be inside EndSession at once
    MaxConcurrent  \* capacity of sessionLimiter

ASSUME WebRTCAssumption ==
    /\ IsFiniteSet(Sessions)
    /\ MaxConcurrent \in Nat \ {0}

VARIABLES
    place,     \* [Sessions -> where the session is in its life]
    state,     \* Session.State
    stopped,   \* Session.stopCh is closed
    pcOpen,    \* the peer connection is open
    locked,    \* Session.Mutex was abandoned by a panic
    writes,    \* sessions whose state a goroutine is about to overwrite
    timer,     \* [Sessions -> the deletion timer of EndSession]
    ender,     \* [Enders -> the EndSession call in progress]
    limiter,   \* number of tokens in sessionLimiter
    down       \* Server.shutdownCh is closed

vars == <<place, state, stopped, pcOpen, locked, writes, timer, ender,
          limiter, down>>

\* "none": the id is unused; "creating": CreateSession holds a token;
\* "mapped": in Server.sessions; "deleted": removed by the timer.
Places == {"none", "creating", "mapped", "deleted"}
\* "live" stands for what the offer handler and the ICE callbacks store:
\* connecting, active, reconnecting.  EndSession only asks for "ended".
States == {"created", "live", "ended"}
Timers == {"none", "armed", "fired", "stopped"}

\* An EndSession call: the session it found, the statement it is at, whether
\* it is (also) inside the callback that its own Close fired, and whether a
\* panic would be recovered.
Calls == [at : {"check", "close", "drain", "panic"}, s : Sessions,
          nested : BOOLEAN, recovered : BOOLEAN]
Idle == [at |-> "idle"]

Init ==
    /\ place = [s \in Sessions |-> "none"]
    /\ state = [s \in Sessions |-> "created"]
    /\ stopped = [s \in Sessions |-> FALSE]
    /\ pcOpen = [s \in Sessions |-> FALSE]
    /\ locked = [s \in Sessions |-> FALSE]
    /\ writes = {}
    /\ timer = [s \in Sessions |-> "none"]
    /\ ender = [e \in Enders |-> Idle]
    /\ limiter = 0
    /\ down = FALSE

----------------------------------------------------------------------------
(* CreateSession. *)

\* A full limiter is an error, not a wait.
Acquire(s) ==
    /\ place[s] = "none"
    /\ limiter < MaxConcurrent
    /\ limiter' = limiter + 1
    /\ place' = [place EXCEPT ![s] = "creating"]
    /\ UNCHANGED <<state, stopped, pcOpen, locked, writes, timer, ender, down>>

\* An error on the way: the deferred function gives the token back.
CreateFails(s) ==
    /\ place[s] = "creating"
    /\ limiter' = IF limiter = 0 THEN 0 ELSE limiter - 1
    /\ place' = [place EXCEPT ![s] = "none"]
    /\ UNCHANGED <<state, stopped, pcOpen, locked, writes, timer, ender, down>>

\* The session is in the map; releaseSlot = false keeps the token.
Publish(s) ==
    /\ place[s] = "creating"
    /\ place' = [place EXCEPT ![s] = "mapped"]
    /\ pcOpen' = [pcOpen EXCEPT ![s] = TRUE]
    /\ UNCHANGED <<state, stopped, locked, writes, timer, ender, limiter, down>>

----------------------------------------------------------------------------
(* Offers and ICE callbacks. *)

\* The peer connection has accepted an offer or changed its ICE state, and
\* the goroutine is on its way to Session.Mutex.  One of them stands for
\* all: a second store of the same kind finds what the first one left.
BeginWrite(s) ==
    /\ pcOpen[s]
    /\ writes' = writes \cup {s}
    /\ UNCHANGED <<place, state, stopped, pcOpen, locked, timer, ender,
                   limiter, down>>

\* It stores the new state without looking at the old one.
StoreState(s) ==
    /\ s \in writes
    /\ ~locked[s]
    /\ state' = [state EXCEPT ![s] = "live"]
    /\ writes' = writes \ {s}
    /\ UNCHANGED <<place, stopped, pcOpen, locked, timer, ender, limiter, down>>

----------------------------------------------------------------------------
(* EndSession. *)

\* A request, a "close" message or a Closed callback finds the session in
\* the map; an unknown id is an error and changes nothing.
Lookup(e, s) ==
    /\ ender[e] = Idle
    /\ place[s] = "mapped"
    /\ \E r \in BOOLEAN :
          ender' = [ender EXCEPT ![e] = [at |-> "check", s |-> s,
                                         nested |-> FALSE, recovered |-> r]]
    /\ UNCHANGED <<place, state, stopped, pcOpen, locked, writes, timer,
                   limiter, down>>

\* Mutant of Panic: a stopCh that is closed already is left alone.
CloseAgain(e) ==
    /\ ender' = [ender EXCEPT ![e].at = "close"]
    /\ UNCHANGED <<stopped, locked>>

\* close(stopCh) on a closed channel, with Session.Mutex held: everything the
\* goroutine was doing is lost, the outer EndSession of a callback included.
Panic(e) ==
    /\ locked' = [locked EXCEPT ![ender[e].s] = TRUE]
    /\ IF ender[e].recovered
       THEN ender' = [ender EXCEPT ![e] = Idle]
       ELSE ender' = [ender EXCEPT ![e].at = "panic"]
    /\ UNCHANGED stopped

\* Mutant of Return: the call inside the callback ends the outer one as well.
ReturnThrough(e) == ender' = [ender EXCEPT ![e] = Idle]

\* The call returns: to the outer EndSession if this is its callback.
Return(e) ==
    ender' = [ender EXCEPT ![e] = IF @.nested THEN [@ EXCEPT !.at = "drain"] ELSE Idle]

\* The critical section of EndSession.
Check(e) ==
    /\ ender[e].at = "check"
    /\ ~locked[ender[e].s]
    /\ LET s == ender[e].s IN
       IF state[s] = "ended"
       THEN /\ Return(e)
            /\ UNCHANGED <<state, stopped, locked>>
       ELSE /\ state' = [state EXCEPT ![s] = "ended"]
            /\ IF stopped[s]
               THEN Panic(e)
               ELSE /\ stopped' = [stopped EXCEPT ![s] = TRUE]
                    /\ ender' = [ender EXCEPT ![e].at = "close"]
                    /\ UNCHANGED locked
    /\ UNCHANGED <<place, pcOpen, writes, timer, limiter, down>>

\* pc.Close(), outside the mutex.  It may call the ICE callback with Closed
\* before it returns, which enters EndSession again; the lookup of that call
\* finds the session, which no timer deletes before the outer call is over.
Close(e) ==
    /\ ender[e].at = "close"
    /\ pcOpen' = [pcOpen EXCEPT ![ender[e].s] = FALSE]
    /\ \/ ender' = [ender EXCEPT ![e].at = "drain"]
       \/ ender' = [ender EXCEPT ![e].at = "check", ![e].nested = TRUE]
    /\ UNCHANGED <<place, state, stopped, locked, writes, timer, limiter, down>>

\* Take a token out of the limiter if there is one, and arm the timer.
Drain(e) ==
    /\ ender[e].at = "drain"
    /\ limiter' = IF limiter = 0 THEN 0 ELSE limiter - 1
    /\ timer' = [timer EXCEPT ![ender[e].s] = "armed"]
    /\ ender' = [ender EXCEPT ![e] = Idle]
    /\ UNCHANGED <<place, state, stopped, pcOpen, locked, writes, down>>

----------------------------------------------------------------------------
(* Deletion and shutdown. *)

Expire(s) ==
    /\ timer[s] = "armed"
    /\ timer' = [timer EXCEPT ![s] = "fired"]
    /\ place' = [place EXCEPT ![s] = "deleted"]
    /\ UNCHANGED <<state, stopped, pcOpen, locked, writes, ender, limiter, down>>

\* The goroutine beside the timer sees shutdownCh.
StopTimer(s) ==
    /\ down
    /\ timer[s] = "armed"
    /\ timer' = [timer EXCEPT ![s] = "stopped"]
    /\ UNCHANGED <<place, state, stopped, pcOpen, locked, writes, ender,
                   limiter, down>>

Shutdown ==
    /\ ~down
    /\ down' = TRUE
    /\ UNCHANGED <<place, state, stopped, pcOpen, locked, writes, timer,
                   ender, limiter>>

\* A panic that nobody recovers ends the process, a while after it began;
\* the gateway starts again with empty maps.
Crash(e) ==
    /\ ender[e].at = "panic"
    /\ place' = [s \in Sessions |-> "none"]
    /\ state' = [s \in Sessions |-> "created"]
    /\ stopped' = [s \in Sessions |-> FALSE]
    /\ pcOpen' = [s \in Sessions |-> FALSE]
    /\ locked' = [s \in Sessions |-> FALSE]
    /\ writes' = {}
    /\ timer' = [s \in Sessions |-> "none"]
    /\ ender' = [x \in Enders |-> Idle]
    /\ limiter' = 0
    /\ down' = FALSE

SessionStep(s) ==
    \/ Acquire(s) \/ CreateFails(s) \/ Publish(s)
    \/ BeginWrite(s) \/ StoreState(s)
    \/ Expire(s) \/ StopTimer(s)

EnderStep(e) == Check(e) \/ Close(e) \/ Drain(e) \/ Crash(e)

Next ==
    \/ \E s \in Sessions : SessionStep(s)
    \/ \E e \in Enders : EnderStep(e) \/ \E s \in Sessions : Lookup(e, s)
    \/ Shutdown

Spec == Init /\ [][Next]_vars

\* Goroutines inside EndSession keep running and timers fire.  Nobody is
\* obliged to call EndSession, to send an offer or to shut down.
Fairness ==
    /\ \A e \in Enders : WF_vars(EnderStep(e))
    /\ \A s \in Sessions : WF_vars(Expire(s))

FairSpec == Spec /\ Fairness

----------------------------------------------------------------------------
\* Type invariant; the limiter never holds more tokens than its capacity.
TypeOK ==
    /\ place \in [Sessions -> Places]
    /\ state \in [Sessions -> States]
    /\ stopped \in [Sessions -> BOOLEAN]
    /\ pcOpen \in [Sessions -> BOOLEAN]
    /\ locked \in [Sessions -> BOOLEAN]
    /\ writes \subseteq Sessions
    /\ timer \in [Sessions -> Timers]
    /\ ender \in [Enders -> Calls \cup {Idle}]
    /\ limiter \in 0 .. MaxConcurrent
    /\ down \in BOOLEAN

\* Sessions whose token is in the limiter: being created, or published and
\* not yet through the drain of EndSession (which arms the timer).
SlotHolders ==
    {s \in Sessions : \/ place[s] = "creating"
                      \/ place[s] = "mapped" /\ timer[s] = "none"}

\* However many EndSession calls meet on a session, and whatever revives its
\* state in between, its token is taken out at most once and no call takes
\* the token of another session (webrtc.go:759).
SlotsExact == limiter = Cardinality(SlotHolders)

\* A session leaves the map only when its peer connection is closed and its
\* stats collector is told to stop: nothing that still runs is forgotten
\* (webrtc.go:748-772).
DeletedIsStopped ==
    \A s \in Sessions : place[s] = "deleted" => stopped[s] /\ ~pcOpen[s]

\* The limiter and the map are right about every session, however calls of
\* EndSession meet, nest and panic (webrtc.go:731-787).
LimiterAndMapExact == TypeOK /\ SlotsExact /\ DeletedIsStopped

\* A session that was told to stop leaves the map, unless a panic abandoned
\* its mutex, the server is shutting down, or the process ended
\* (webrtc.go:766-785).
StoppedIsDeleted ==
    \A s \in Sessions :
        stopped[s] ~> place[s] \in {"deleted", "none"} \/ locked[s] \/ down

\* The EndSession that pc.Close() enters through the ICE callback finds the
\* session ended and returns at once (webrtc.go:751-754).
ReentryFindsEnded ==
    \A e \in Enders :
        ender[e].at = "check" /\ ender[e].nested => state[ender[e].s] = "ended"
=============================================================================
