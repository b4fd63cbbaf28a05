---------------------------- MODULE WebRTCProofs ----------------------------
(***************************************************************************)
(* Proofs about module WebRTCSessions, for every finite set of session ids, *)
(* every set of goroutines that end sessions and every capacity of the      *)
(* limiter.                                                                 *)
(***************************************************************************)
EXTENDS WebRTCSessions, TLAPS, FiniteSetTheorems

\* The call that marked its session ended and has still to drain the limiter:
\* at most one per session, as stopCh is closed once.
Owning(e) == \/ ender[e].at \in {"close", "drain"}
             \/ ender[e].at = "check" /\ ender[e].nested

OneOwner == \A e, f \in Enders : Owning(e) /\ Owning(f) /\ ender[e].s = ender[f].s => e = f

\* Until it is through, its session is in the map and no timer runs for it.
OwnerOK(e) ==
  Owning(e) => LET s == ender[e].s IN
                 /\ stopped[s] /\ place[s] = "mapped" /\ timer[s] = "none"
                 /\ ender[e].at # "close" => ~ pcOpen[s]

CallOK(e) == ender[e].at # "idle" => place[ender[e].s] \in {"mapped", "deleted"}

\* The timer is armed for sessions that were stopped, closed and published.
LifeOK(s) ==
  /\ timer[s] # "none" => stopped[s] /\ ~ pcOpen[s] /\ place[s] \in {"mapped", "deleted"}
  /\ place[s] = "deleted" => timer[s] = "fired"

WebRTCInv ==
  /\ TypeOK /\ OneOwner /\ SlotsExact
  /\ \A e \in Enders : CallOK(e) /\ OwnerOK(e)
  /\ \A s \in Sessions : LifeOK(s)

-----------------------------------------------------------------------------
LEMMA HolderCount ==
  ASSUME NEW s \in Sessions
  PROVE  /\ Cardinality(SlotHolders) \in Nat
         /\ s \notin SlotHolders => Cardinality(SlotHolders \cup {s}) = Cardinality(SlotHolders) + 1
         /\ s \in SlotHolders => /\ Cardinality(SlotHolders \ {s}) = Cardinality(SlotHolders) - 1
                                 /\ Cardinality(SlotHolders) >= 1
<1>1. IsFiniteSet(SlotHolders)
  BY WebRTCAssumption, FS_Subset DEF SlotHolders
<1>2. s \in SlotHolders => IsFiniteSet(SlotHolders \ {s}) /\ Cardinality(SlotHolders \ {s}) \in Nat
  BY <1>1, FS_RemoveElement, FS_CardinalityType
<1> QED
  BY <1>1, <1>2, FS_CardinalityType, FS_AddElement, FS_RemoveElement

\* A call that goes on to another statement, or into its callback.
LEMMA CallMoves ==
  ASSUME NEW c \in Calls, NEW a \in {"check", "close", "drain", "panic"}
  PROVE  /\ [c EXCEPT !.at = a] \in Calls
         /\ [c EXCEPT !.at = a].at = a /\ [c EXCEPT !.at = a].s = c.s
         /\ [c EXCEPT !.at = a].nested = c.nested
         /\ [c EXCEPT !.at = a, !.nested = TRUE] \in Calls
         /\ [c EXCEPT !.at = a, !.nested = TRUE].at = a
         /\ [c EXCEPT !.at = a, !.nested = TRUE].s = c.s
         /\ [c EXCEPT !.at = a, !.nested = TRUE].nested
BY DEF Calls

LEMMA WebRTCInitInv == Init => WebRTCInv
<1> SUFFICES ASSUME Init PROVE WebRTCInv
  OBVIOUS
<1>1. TypeOK
  <2>1. limiter \in 0 .. MaxConcurrent
    BY WebRTCAssumption DEF Init
  <2>2. ender \in [Enders -> Calls \cup {Idle}]
    BY DEF Init
  <2> QED
    BY <2>1, <2>2 DEF Init, TypeOK, Places, States, Timers
<1>2. SlotsExact
  <2>1. SlotHolders = {}
    BY DEF Init, SlotHolders
  <2> QED
    BY <2>1, FS_EmptySet DEF Init, SlotsExact
<1>3. \A e \in Enders : ender[e].at = "idle"
  BY DEF Init, Idle
<1>4. OneOwner /\ \A e \in Enders : CallOK(e) /\ OwnerOK(e)
  BY <1>3 DEF OneOwner, CallOK, OwnerOK, Owning
<1>5. \A s \in Sessions : LifeOK(s)
  BY DEF Init, LifeOK
<1> QED
  BY <1>1, <1>2, <1>4, <1>5 DEF WebRTCInv

-----------------------------------------------------------------------------
\* Creation, state changes and the timers: the calls of EndSession stand still.
LEMMA SessionStepInv ==
  ASSUME WebRTCInv, NEW s \in Sessions, SessionStep(s)
  PROVE  WebRTCInv'
<1> USE DEF WebRTCInv
<1>1. CASE Acquire(s)
  <2>1. TypeOK'
    BY <1>1, WebRTCAssumption DEF Acquire, TypeOK, Places
  <2>2. s \notin SlotHolders /\ SlotHolders' = SlotHolders \cup {s}
    BY <1>1 DEF Acquire, TypeOK, SlotHolders
  <2>3. SlotsExact'
    BY <1>1, <2>2, HolderCount DEF Acquire, SlotsExact
  <2>4. OneOwner' /\ \A e \in Enders : CallOK(e)' /\ OwnerOK(e)'
    BY <1>1 DEF Acquire, TypeOK, OneOwner, CallOK, OwnerOK, Owning, Calls, Idle
  <2>5. \A x \in Sessions : LifeOK(x)'
    BY <1>1 DEF Acquire, TypeOK, LifeOK
  <2> QED
    BY <2>1, <2>3, <2>4, <2>5
<1>2. CASE CreateFails(s)
  <2>1. s \in SlotHolders /\ SlotHolders' = SlotHolders \ {s}
    BY <1>2 DEF CreateFails, TypeOK, SlotHolders
  <2>2. SlotsExact' /\ limiter' \in 0 .. MaxConcurrent
    BY <1>2, <2>1, HolderCount, WebRTCAssumption DEF CreateFails, SlotsExact, TypeOK
  <2>3. TypeOK'
    BY <1>2, <2>2 DEF CreateFails, TypeOK, Places
  <2>4. OneOwner' /\ \A e \in Enders : CallOK(e)' /\ OwnerOK(e)'
    BY <1>2 DEF CreateFails, TypeOK, OneOwner, CallOK, OwnerOK, Owning, Calls, Idle
  <2>5. \A x \in Sessions : LifeOK(x)'
    BY <1>2 DEF CreateFails, TypeOK, LifeOK
  <2> QED
    BY <2>2, <2>3, <2>4, <2>5
<1>3. CASE Publish(s)
  <2>1. TypeOK'
    BY <1>3 DEF Publish, TypeOK, Places
  <2>2. SlotHolders' = SlotHolders
    BY <1>3 DEF Publish, TypeOK, SlotHolders, LifeOK
  <2>3. OneOwner' /\ \A e \in Enders : CallOK(e)' /\ OwnerOK(e)'
    BY <1>3 DEF Publish, TypeOK, OneOwner, CallOK, OwnerOK, Owning, Calls, Idle
  <2>4. \A x \in Sessions : LifeOK(x)'
    BY <1>3 DEF Publish, TypeOK, LifeOK
  <2> QED
    BY <1>3, <2>1, <2>2, <2>3, <2>4 DEF Publish, SlotsExact
<1>4. CASE BeginWrite(s) \/ StoreState(s)
  <2>1. TypeOK' /\ UNCHANGED <<place, stopped, pcOpen, timer, ender, limiter>>
    BY <1>4 DEF BeginWrite, StoreState, TypeOK, States
  <2> QED
    BY <2>1 DEF SlotHolders, SlotsExact, OneOwner, CallOK, OwnerOK, Owning, LifeOK
<1>5. CASE Expire(s) \/ StopTimer(s)
  <2>1. TypeOK'
    BY <1>5 DEF Expire, StopTimer, TypeOK, Places, Timers
  <2>2. SlotHolders' = SlotHolders
    BY <1>5 DEF Expire, StopTimer, TypeOK, SlotHolders, LifeOK
  <2>3. OneOwner' /\ \A e \in Enders : CallOK(e)' /\ OwnerOK(e)'
    BY <1>5 DEF Expire, StopTimer, TypeOK, OneOwner, CallOK, OwnerOK, Owning, Calls, Idle
  <2>4. \A x \in Sessions : LifeOK(x)'
    BY <1>5 DEF Expire, StopTimer, TypeOK, LifeOK
  <2> QED
    BY <1>5, <2>1, <2>2, <2>3, <2>4 DEF Expire, StopTimer, SlotsExact
<1> QED
  BY <1>1, <1>2, <1>3, <1>4, <1>5 DEF SessionStep

\* A call that is entered: it owns nothing yet.
LEMMA LookupInv ==
  ASSUME WebRTCInv, NEW e \in Enders, NEW s \in Sessions, Lookup(e, s)
  PROVE  WebRTCInv'
<1> USE DEF WebRTCInv
<1>1. PICK r \in BOOLEAN : ender' = [ender EXCEPT ![e] = [at |-> "check", s |-> s, nested |-> FALSE, recovered |-> r]]
  BY DEF Lookup
<1> DEFINE c == [at |-> "check", s |-> s, nested |-> FALSE, recovered |-> r]
<1>2. c \in Calls /\ c.at = "check" /\ c.s = s /\ ~ c.nested
  BY DEF Calls
<1>3. ender' = [ender EXCEPT ![e] = c]
  BY <1>1
<1> HIDE DEF c
<1>4. TypeOK' /\ UNCHANGED <<place, stopped, pcOpen, timer, limiter>>
  BY <1>2, <1>3 DEF Lookup, TypeOK
<1>5. ~ Owning(e)' /\ \A f \in Enders : f # e => ender'[f] = ender[f] /\ (Owning(f)' <=> Owning(f))
  BY <1>2, <1>3 DEF TypeOK, Owning
<1>6. OneOwner'
  BY <1>5 DEF OneOwner
<1>7. CallOK(e)' /\ OwnerOK(e)'
  BY <1>2, <1>3, <1>5 DEF Lookup, TypeOK, CallOK, OwnerOK
<1>8. ASSUME NEW f \in Enders, f # e PROVE CallOK(f)' /\ OwnerOK(f)'
  BY <1>4, <1>5, <1>8 DEF CallOK, OwnerOK
<1>9. SlotsExact' /\ \A x \in Sessions : LifeOK(x)'
  BY <1>4 DEF SlotsExact, SlotHolders, LifeOK
<1> QED
  BY <1>4, <1>6, <1>7, <1>8, <1>9

\* What a step of e must establish, given that the other calls stand still.
LEMMA OthersKeep ==
  ASSUME WebRTCInv, NEW e \in Enders, e \in DOMAIN ender, NEW c, ender' = [ender EXCEPT ![e] = c],
         UNCHANGED place,
         \A x \in Sessions : stopped[x] => stopped'[x],
         \A x \in Sessions : pcOpen'[x] => pcOpen[x],
         \A f \in Enders : f # e /\ Owning(f) => timer'[ender[f].s] = timer[ender[f].s],
         Owning(e)' => \A f \in Enders : f # e /\ Owning(f) => ender[f].s # c.s
  PROVE  OneOwner' /\ \A f \in Enders : f # e => CallOK(f)' /\ OwnerOK(f)'
<1> USE DEF WebRTCInv
<1>1. ender \in [Enders -> Calls \cup {Idle}]
  BY DEF TypeOK
<1>2. ender'[e] = c /\ \A f \in Enders : f # e => ender'[f] = ender[f] /\ (Owning(f)' <=> Owning(f))
  BY <1>1 DEF Owning
<1>3. OneOwner'
  BY <1>2 DEF OneOwner
<1>4. ASSUME NEW f \in Enders, f # e PROVE CallOK(f)' /\ OwnerOK(f)'
  <2>1. ender[f].at # "idle" => ender[f].s \in Sessions
    BY <1>1 DEF Calls, Idle
  <2>2. CallOK(f)'
    BY <1>2, <1>4 DEF CallOK
  <2>3. OwnerOK(f)'
    BY <1>2, <1>4, <2>1 DEF OwnerOK, Owning
  <2> QED
    BY <2>2, <2>3
<1> QED
  BY <1>3, <1>4

LEMMA CloseInv ==
  ASSUME WebRTCInv, NEW e \in Enders, Close(e)
  PROVE  WebRTCInv'
<1> USE DEF WebRTCInv
<1> DEFINE s == ender[e].s
<1>1. ender[e] \in Calls /\ s \in Sessions /\ Owning(e)
  BY DEF Close, TypeOK, Idle, Calls, Owning
<1>2. PICK c \in Calls : /\ ender' = [ender EXCEPT ![e] = c] /\ c.s = s
                         /\ c.at = "drain" \/ (c.at = "check" /\ c.nested)
  <2>1. CASE ender' = [ender EXCEPT ![e].at = "drain"]
    <3> DEFINE d == [ender[e] EXCEPT !.at = "drain"]
    <3>1. d \in Calls /\ d.s = s /\ d.at = "drain"
      BY <1>1, CallMoves
    <3>2. ender' = [ender EXCEPT ![e] = d]
      BY <2>1
    <3> HIDE DEF d
    <3> QED
      BY <3>1, <3>2
  <2>2. CASE ender' = [ender EXCEPT ![e].at = "check", ![e].nested = TRUE]
    <3> DEFINE d == [ender[e] EXCEPT !.at = "check", !.nested = TRUE]
    <3>1. d \in Calls /\ d.s = s /\ d.at = "check" /\ d.nested
      BY <1>1, CallMoves
    <3>2. ender' = [ender EXCEPT ![e] = d]
      BY <2>2 DEF TypeOK
    <3> HIDE DEF d
    <3> QED
      BY <3>1, <3>2
  <2> QED
    BY <2>1, <2>2 DEF Close
<1>3. /\ UNCHANGED <<place, stopped, timer, limiter>>
      /\ pcOpen' = [pcOpen EXCEPT ![s] = FALSE]
  BY DEF Close
<1>4. TypeOK'
  BY <1>1, <1>2 DEF Close, TypeOK
<1>5. OneOwner' /\ \A f \in Enders : f # e => CallOK(f)' /\ OwnerOK(f)'
  <2>1. \A f \in Enders : f # e /\ Owning(f) => ender[f].s # c.s
    BY <1>1, <1>2 DEF OneOwner
  <2>2. \A x \in Sessions : pcOpen'[x] => pcOpen[x]
    BY <1>1, <1>3 DEF TypeOK
  <2>3. e \in DOMAIN ender
    BY DEF TypeOK
  <2> QED
    BY <1>2, <1>3, <2>1, <2>2, <2>3, OthersKeep
<1>6. CallOK(e)' /\ OwnerOK(e)'
  <2>1. ender'[e] = c /\ ~ pcOpen'[s]
    BY <1>1, <1>2, <1>3 DEF TypeOK
  <2>2. place[s] = "mapped" /\ stopped[s] /\ timer[s] = "none"
    BY <1>1 DEF OwnerOK
  <2> QED
    BY <1>2, <1>3, <2>1, <2>2 DEF CallOK, OwnerOK
<1>7. SlotsExact' /\ \A x \in Sessions : LifeOK(x)'
  BY <1>1, <1>3 DEF SlotsExact, SlotHolders, LifeOK, TypeOK
<1> QED
  BY <1>4, <1>5, <1>6, <1>7

LEMMA DrainInv ==
  ASSUME WebRTCInv, NEW e \in Enders, Drain(e)
  PROVE  WebRTCInv'
<1> USE DEF WebRTCInv
<1> DEFINE s == ender[e].s
<1>1. ender[e] \in Calls /\ s \in Sessions /\ Owning(e)
  BY DEF Drain, TypeOK, Idle, Calls, Owning
<1>2. place[s] = "mapped" /\ stopped[s] /\ timer[s] = "none" /\ ~ pcOpen[s]
  BY <1>1 DEF OwnerOK, Drain
<1>3. /\ UNCHANGED <<place, stopped, pcOpen>> /\ ender' = [ender EXCEPT ![e] = Idle]
      /\ timer' = [timer EXCEPT ![s] = "armed"]
      /\ limiter' = IF limiter = 0 THEN 0 ELSE limiter - 1
  BY DEF Drain
<1>4. s \in SlotHolders /\ SlotHolders' = SlotHolders \ {s}
  BY <1>1, <1>2, <1>3 DEF SlotHolders, TypeOK
<1>5. SlotsExact' /\ limiter' \in 0 .. MaxConcurrent
  BY <1>1, <1>3, <1>4, HolderCount, WebRTCAssumption DEF SlotsExact, TypeOK
<1>6. TypeOK'
  BY <1>1, <1>5 DEF Drain, TypeOK, Timers
<1>7. ~ Owning(e)' /\ CallOK(e)' /\ OwnerOK(e)'
  BY <1>3 DEF TypeOK, Owning, CallOK, OwnerOK, Idle
<1>8. OneOwner' /\ \A f \in Enders : f # e => CallOK(f)' /\ OwnerOK(f)'
  <2>1. \A f \in Enders : f # e /\ Owning(f) => timer'[ender[f].s] = timer[ender[f].s]
    BY <1>1, <1>3 DEF OneOwner, TypeOK
  <2>2. e \in DOMAIN ender
    BY DEF TypeOK
  <2> QED
    BY <1>3, <1>7, <2>1, <2>2, OthersKeep
<1>9. \A x \in Sessions : LifeOK(x)'
  BY <1>1, <1>2, <1>3 DEF LifeOK, TypeOK
<1> QED
  BY <1>5, <1>6, <1>7, <1>8, <1>9

\* The critical section of EndSession: it returns, panics, or becomes the owner.
LEMMA CheckInv ==
  ASSUME WebRTCInv, NEW e \in Enders, Check(e)
  PROVE  WebRTCInv'
<1> USE DEF WebRTCInv
<1> DEFINE s == ender[e].s
<1>1. ender[e] \in Calls /\ s \in Sessions /\ ender[e].at = "check" /\ e \in DOMAIN ender
  BY DEF Check, TypeOK, Idle, Calls
<1>2. UNCHANGED <<place, pcOpen, timer, limiter>>
  BY DEF Check
<1>3. SlotsExact'
  BY <1>2 DEF SlotsExact, SlotHolders
<1>4. CASE state[s] = "ended" /\ ender[e].nested
  <2> DEFINE c == [ender[e] EXCEPT !.at = "drain"]
  <2>1. c \in Calls /\ c.s = s /\ c.at = "drain" /\ ender' = [ender EXCEPT ![e] = c]
    BY <1>1, <1>4, CallMoves DEF Check, Return
  <2> HIDE DEF c
  <2>2. TypeOK' /\ UNCHANGED stopped
    BY <1>4, <2>1 DEF Check, TypeOK
  <2>3. Owning(e) /\ \A f \in Enders : f # e /\ Owning(f) => ender[f].s # c.s
    BY <1>1, <1>4, <2>1 DEF Owning, OneOwner
  <2>4. OneOwner' /\ \A f \in Enders : f # e => CallOK(f)' /\ OwnerOK(f)'
    BY <1>1, <1>2, <2>1, <2>2, <2>3, OthersKeep
  <2>5. CallOK(e)' /\ OwnerOK(e)'
    BY <1>1, <1>2, <2>1, <2>2, <2>3 DEF CallOK, OwnerOK, TypeOK
  <2>6. \A x \in Sessions : LifeOK(x)'
    BY <1>2, <2>2 DEF LifeOK
  <2> QED
    BY <1>3, <2>2, <2>4, <2>5, <2>6
<1>5. CASE (state[s] = "ended" /\ ~ ender[e].nested) \/ (state[s] # "ended" /\ stopped[s])
  <2>1. PICK c \in Calls \cup {Idle} : /\ ender' = [ender EXCEPT ![e] = c]
                                       /\ c = Idle \/ (c.at = "panic" /\ c.s = s)
    <3> DEFINE d == [ender[e] EXCEPT !.at = "panic"]
    <3>1. d \in Calls /\ d.s = s /\ d.at = "panic"
      BY <1>1, CallMoves
    <3>2. ender' = [ender EXCEPT ![e] = Idle] \/ ender' = [ender EXCEPT ![e] = d]
      BY <1>5 DEF Check, Return, Panic
    <3> HIDE DEF d
    <3> QED
      BY <3>1, <3>2
  <2>2. TypeOK' /\ UNCHANGED stopped
    <3>1. state' \in [Sessions -> States] /\ locked' \in [Sessions -> BOOLEAN] /\ UNCHANGED stopped
      BY <1>1, <1>5 DEF Check, Panic, TypeOK, States
    <3>2. ender' \in [Enders -> Calls \cup {Idle}]
      BY <2>1 DEF TypeOK
    <3> QED
      BY <3>1, <3>2 DEF Check, TypeOK
  <2>3. c.at \notin {"check", "close", "drain"} /\ ender'[e] = c
    BY <1>1, <2>1 DEF Idle, TypeOK
  <2>4. ~ Owning(e)' /\ CallOK(e)' /\ OwnerOK(e)'
    BY <1>1, <1>2, <2>1, <2>3 DEF Owning, CallOK, OwnerOK, Idle
  <2>5. OneOwner' /\ \A f \in Enders : f # e => CallOK(f)' /\ OwnerOK(f)'
    <3>1. ender' = [ender EXCEPT ![e] = c] /\ (\A x \in Sessions : stopped[x] => stopped'[x])
      BY <2>1, <2>2
    <3> QED
      BY <1>1, <1>2, <2>4, <3>1, OthersKeep
  <2>6. \A x \in Sessions : LifeOK(x)'
    BY <1>2, <2>2 DEF LifeOK
  <2> QED
    BY <1>3, <2>2, <2>4, <2>5, <2>6
<1>6. CASE state[s] # "ended" /\ ~ stopped[s]
  <2> DEFINE c == [ender[e] EXCEPT !.at = "close"]
  <2>1. c \in Calls /\ c.s = s /\ c.at = "close" /\ ender' = [ender EXCEPT ![e] = c]
    BY <1>1, <1>6, CallMoves DEF Check
  <2> HIDE DEF c
  <2>2. stopped' = [stopped EXCEPT ![s] = TRUE] /\ TypeOK'
    BY <1>1, <1>6, <2>1 DEF Check, TypeOK, States
  <2>3. timer[s] = "none" /\ place[s] = "mapped"
    BY <1>1, <1>6 DEF LifeOK, CallOK
  <2>4. \A f \in Enders : f # e /\ Owning(f) => ender[f].s # c.s
    BY <1>6, <2>1 DEF OwnerOK
  <2>5. \A x \in Sessions : stopped[x] => stopped'[x]
    BY <2>2 DEF TypeOK
  <2>6. OneOwner' /\ \A f \in Enders : f # e => CallOK(f)' /\ OwnerOK(f)'
    BY <1>1, <1>2, <2>1, <2>4, <2>5, OthersKeep
  <2>7. CallOK(e)' /\ OwnerOK(e)'
    BY <1>1, <1>2, <2>1, <2>2, <2>3 DEF CallOK, OwnerOK, TypeOK
  <2>8. \A x \in Sessions : LifeOK(x)'
    BY <1>2, <2>5 DEF LifeOK
  <2> QED
    BY <1>3, <2>2, <2>6, <2>7, <2>8
<1> QED
  BY <1>4, <1>5, <1>6

LEMMA CrashInv ==
  ASSUME WebRTCInv, NEW e \in Enders, Crash(e)
  PROVE  WebRTCInv'
<1>1. Init'
  BY DEF Crash, Init
<1> QED
  BY <1>1, WebRTCInitInv, PTL

LEMMA WebRTCNextInv == WebRTCInv /\ [Next]_vars => WebRTCInv'
<1> SUFFICES ASSUME WebRTCInv, [Next]_vars PROVE WebRTCInv'
  OBVIOUS
<1>1. ASSUME NEW s \in Sessions, SessionStep(s) PROVE WebRTCInv'
  BY <1>1, SessionStepInv
<1>2. ASSUME NEW e \in Enders, EnderStep(e) PROVE WebRTCInv'
  BY <1>2, CheckInv, CloseInv, DrainInv, CrashInv DEF EnderStep
<1>3. ASSUME NEW e \in Enders, NEW s \in Sessions, Lookup(e, s) PROVE WebRTCInv'
  BY <1>3, LookupInv
<1>4. CASE Shutdown \/ UNCHANGED vars
  <2>1. TypeOK' /\ UNCHANGED <<place, stopped, pcOpen, timer, ender, limiter>>
    BY <1>4 DEF Shutdown, vars, TypeOK, WebRTCInv
  <2> QED
    BY <2>1 DEF WebRTCInv, SlotHolders, SlotsExact, OneOwner, CallOK, OwnerOK, Owning, LifeOK
<1> QED
  BY <1>1, <1>2, <1>3, <1>4 DEF Next

LEMMA WebRTCInvariant == Spec => []WebRTCInv
<1> QED
  BY WebRTCInitInv, WebRTCNextInv, PTL DEF Spec

\* The variables keep to their types; the limiter holds at most its capacity.
THEOREM WebRTCTypeOK == Spec => []TypeOK
<1>1. WebRTCInv => TypeOK
  BY DEF WebRTCInv
<1> QED
  BY <1>1, WebRTCInvariant, PTL

\* Every token in the limiter belongs to a session that is being created or
\* not yet through the drain of EndSession, however many calls of EndSession
\* meet, nest in each other or panic (webrtc.go:731-787).
THEOREM SlotsExactHolds == Spec => []SlotsExact
<1>1. WebRTCInv => SlotsExact
  BY DEF WebRTCInv
<1> QED
  BY <1>1, WebRTCInvariant, PTL

\* A session that left the map was told to stop and its connection is closed
\* (webrtc.go:748-772).
THEOREM DeletedIsStoppedHolds == Spec => []DeletedIsStopped
<1>1. WebRTCInv => DeletedIsStopped
  BY DEF WebRTCInv, LifeOK, DeletedIsStopped
<1> QED
  BY <1>1, WebRTCInvariant, PTL

\* The three together: what the limiter and the map say of the sessions.
THEOREM LimiterAndMapExactHolds == Spec => []LimiterAndMapExact
<1>1. TypeOK /\ SlotsExact /\ DeletedIsStopped => LimiterAndMapExact
  BY DEF LimiterAndMapExact
<1> QED
  BY <1>1, WebRTCTypeOK, SlotsExactHolds, DeletedIsStoppedHolds, PTL
=============================================================================
