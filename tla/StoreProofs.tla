--------------------------- MODULE StoreProofs ---------------------------
(***************************************************************************)
(* Proofs about the gateway's small stores, each for every value of its     *)
(* constants: transfers, checkpoints, the audio ring, recordings, usage,    *)
(* firewall rules, DNS answers, the rate limiter, the media path and files. *)
(***************************************************************************)
EXTENDS Transfer, CheckpointStore, AudioBuffer, SessionRecorder, UsageTracker, Firewall,
        DNSCache, RateLimit, MediaPath, FileStore, TLAPS, FiniteSetTheorems, SequenceTheorems,
        WellFoundedInduction

-----------------------------------------------------------------------------
(***************************************************************************)
(* Transfers.                                                               *)
(***************************************************************************)
\* The flag limiterReleased is set exactly on the transfers that ended.
ReleasedWhenEnded == \A t \in Transfers : released[t] <=> state[t] \in Final

\* The inductive invariant.
TransferInv == TypeOK /\ ReleasedWhenEnded /\ SlotsMatchOwners

----------------------------------------------------------------------------
\* Starting to own a slot adds one to the number of owners, giving it up
\* takes one away.
LEMMA OwnerCount ==
    ASSUME NEW t \in Transfers
    PROVE  /\ Cardinality(Owners) \in Nat
           /\ t \notin Owners => Cardinality(Owners \cup {t}) = Cardinality(Owners) + 1
           /\ t \in Owners => Cardinality(Owners \ {t}) = Cardinality(Owners) - 1
<1>1. IsFiniteSet(Owners)
  BY TransferAssumption, FS_Subset DEF Owners
<1> QED
  BY <1>1, FS_CardinalityType, FS_AddElement, FS_RemoveElement

\* An empty map owns nothing.
LEMMA InitInv == Init => TransferInv
<1> SUFFICES ASSUME Init PROVE TransferInv
  OBVIOUS
<1>1. TypeOK
  BY TransferAssumption DEF Init, TypeOK, Phases
<1>2. ReleasedWhenEnded
  BY DEF Init, ReleasedWhenEnded, Final
<1>3. SlotsMatchOwners
  <2>1. Owners = {}
    BY DEF Init, Owners
  <2> QED
    BY <2>1, FS_EmptySet DEF Init, SlotsMatchOwners
<1> QED
  BY <1>1, <1>2, <1>3 DEF TransferInv

\* Taking a slot and putting the transfer in the map.
LEMMA CreateStep ==
    ASSUME TransferInv, NEW t \in Transfers, AcquireSlot(t) \/ Publish(t)
    PROVE  TransferInv'
<1> USE DEF TransferInv
<1>1. CASE AcquireSlot(t)
  <2>1. TypeOK'
    BY <1>1, TransferAssumption DEF AcquireSlot, TypeOK, Phases, InMap, Final
  <2>2. ReleasedWhenEnded'
    BY <1>1 DEF AcquireSlot, TypeOK, ReleasedWhenEnded, Final
  <2>3. t \notin Owners /\ Owners' = Owners \cup {t}
    BY <1>1 DEF AcquireSlot, TypeOK, Owners
  <2>4. SlotsMatchOwners'
    BY <1>1, <2>3, OwnerCount DEF AcquireSlot, SlotsMatchOwners
  <2> QED
    BY <2>1, <2>2, <2>4
<1>2. CASE Publish(t)
  <2>1. TypeOK' /\ ReleasedWhenEnded'
    BY <1>2 DEF Publish, TypeOK, ReleasedWhenEnded, Phases, InMap, Final
  <2>2. Owners' = Owners
    BY <1>2 DEF Publish, TypeOK, Owners
  <2> QED
    BY <1>2, <2>1, <2>2 DEF Publish, SlotsMatchOwners
<1> QED
  BY <1>1, <1>2

\* Ending t, for the first time or again, keeps slots and owners in step.
LEMMA EndStep ==
    ASSUME TransferInv, NEW t \in Transfers, state[t] \in InMap,
           NEW s \in Final, state' = [state EXCEPT ![t] = s],
           ReleaseLimiterLocked(t),
           size' \in [Transfers -> Nat], bytes' \in [Transfers -> Nat]
    PROVE  TransferInv'
<1> USE DEF TransferInv
<1>1. ReleasedWhenEnded'
  BY DEF ReleaseLimiterLocked, TypeOK, ReleasedWhenEnded
<1>2. CASE released[t]
  <2>1. t \notin Owners /\ Owners' = Owners
    BY <1>2 DEF TypeOK, ReleasedWhenEnded, Owners, Final
  <2>2. limiter' = limiter
    BY <1>2 DEF ReleaseLimiterLocked
  <2>3. TypeOK'
    BY <2>2 DEF ReleaseLimiterLocked, TypeOK, Phases, InMap, Final
  <2> QED
    BY <1>1, <2>1, <2>2, <2>3 DEF SlotsMatchOwners
<1>3. CASE ~released[t]
  <2>1. t \in Owners /\ Owners' = Owners \ {t}
    BY <1>3 DEF TypeOK, ReleasedWhenEnded, Owners, Final, InMap
  <2>2. Cardinality(Owners \ {t}) = limiter - 1 /\ limiter - 1 \in Nat
    <3>1. Owners \ {t} \subseteq Owners /\ IsFiniteSet(Owners)
      BY TransferAssumption, FS_Subset DEF Owners
    <3>2. Cardinality(Owners \ {t}) \in Nat
      BY <3>1, FS_Subset, FS_CardinalityType
    <3> QED
      BY <2>1, <3>2, OwnerCount DEF SlotsMatchOwners
  <2>3. limiter' = limiter - 1
    BY <1>3, <2>2 DEF ReleaseLimiterLocked, TypeOK
  <2>4. TypeOK'
    <3>1. limiter' \in 0 .. MaxConcurrentTransfers
      BY <2>2, <2>3, TransferAssumption DEF TypeOK
    <3>2. /\ state' \in [Transfers -> Phases]
          /\ released' \in [Transfers -> BOOLEAN]
      BY DEF ReleaseLimiterLocked, TypeOK, Phases, InMap
    <3> QED
      BY <3>1, <3>2 DEF TypeOK
  <2> QED
    BY <1>1, <2>1, <2>2, <2>3, <2>4 DEF SlotsMatchOwners
<1> QED
  BY <1>2, <1>3

\* Progress and chunks: either they end an active transfer or they only move
\* its byte count.
LEMMA ReachStep ==
    ASSUME TransferInv, NEW t \in Transfers, state[t] \in InMap,
           NEW n \in Nat, Reach(t, n)
    PROVE  TransferInv'
<1>1. size' \in [Transfers -> Nat] /\ bytes' \in [Transfers -> Nat]
  BY DEF Reach, TransferInv, TypeOK
<1>2. CASE state[t] = "active" /\ n >= size[t]
  <2>1. "completed" \in Final
    BY DEF Final
  <2>2. state' = [state EXCEPT ![t] = "completed"] /\ ReleaseLimiterLocked(t)
    BY <1>2 DEF Reach
  <2> QED
    BY <1>1, <2>1, <2>2, EndStep
<1>3. CASE ~(state[t] = "active" /\ n >= size[t])
  <2>1. UNCHANGED <<state, released, limiter>>
    BY <1>3 DEF Reach
  <2>2. TypeOK' /\ ReleasedWhenEnded'
    BY <1>1, <2>1 DEF TransferInv, TypeOK, ReleasedWhenEnded
  <2>3. Owners' = Owners
    BY <2>1 DEF Owners
  <2> QED
    BY <2>1, <2>2, <2>3 DEF TransferInv, SlotsMatchOwners
<1> QED
  BY <1>2, <1>3

\* Every step keeps the inductive invariant.
LEMMA NextInv == TransferInv /\ [Next]_vars => TransferInv'
<1> SUFFICES ASSUME TransferInv, [Next]_vars PROVE TransferInv'
  OBVIOUS
<1>1. CASE UNCHANGED vars
  <2>1. Owners' = Owners
    BY <1>1 DEF vars, Owners
  <2> QED
    BY <1>1, <2>1 DEF vars, TransferInv, TypeOK, ReleasedWhenEnded, SlotsMatchOwners
<1>2. ASSUME NEW t \in Transfers,
             RouteStep(t) \/ StartTransfer(t) \/ UpdateProgress(t) \/ Terminate(t)
      PROVE  TransferInv'
  <2>0. size[t] \in Nat /\ bytes[t] \in Nat
    BY DEF TransferInv, TypeOK
  <2>1. CASE AcquireSlot(t) \/ Publish(t)
    BY <2>1, CreateStep
  <2>2. CASE StartTransfer(t)
    <3>1. TypeOK' /\ ReleasedWhenEnded'
      BY <2>2 DEF StartTransfer, TransferInv, TypeOK, ReleasedWhenEnded,
                  Phases, InMap, Final
    <3>2. Owners' = Owners
      BY <2>2 DEF StartTransfer, TransferInv, TypeOK, Owners
    <3> QED
      BY <2>2, <3>1, <3>2 DEF StartTransfer, TransferInv, SlotsMatchOwners
  <2>3. CASE UpdateProgress(t)
    <3>1. PICK n \in 0 .. size[t] + 1 : Reach(t, n)
      BY <2>3 DEF UpdateProgress
    <3>2. state[t] \in InMap /\ n \in Nat
      BY <2>0, <2>3 DEF UpdateProgress
    <3> QED
      BY <3>1, <3>2, ReachStep
  <2>4. CASE ProcessChunk(t)
    <3>1. PICK len \in 0 .. size[t] : Reach(t, bytes[t] + len)
      BY <2>4 DEF ProcessChunk
    <3>2. state[t] \in InMap /\ bytes[t] + len \in Nat
      BY <2>0, <2>4 DEF ProcessChunk, InMap
    <3> QED
      BY <3>1, <3>2, ReachStep
  <2>5. CASE Terminate(t)
    <3>1. PICK s \in {"failed", "cancelled"} : state' = [state EXCEPT ![t] = s]
      BY <2>5 DEF Terminate
    <3>2. /\ s \in Final
          /\ size' \in [Transfers -> Nat]
          /\ bytes' \in [Transfers -> Nat]
      BY <2>5 DEF Terminate, Final, TransferInv, TypeOK
    <3>3. state[t] \in InMap /\ ReleaseLimiterLocked(t)
      BY <2>5 DEF Terminate
    <3> QED
      BY <3>1, <3>2, <3>3, EndStep
  <2> QED
    BY <1>2, <2>1, <2>2, <2>3, <2>4, <2>5 DEF RouteStep
<1> QED
  BY <1>1, <1>2 DEF Next

----------------------------------------------------------------------------
\* The limiter counts exactly the transfers being created, waiting or running
\* in every behaviour of the manager (transfer.go).
THEOREM SlotsCorrect == Spec => []SlotsMatchOwners
<1>1. TransferInv => SlotsMatchOwners
  BY DEF TransferInv
<1> QED
  BY <1>1, InitInv, NextInv, PTL DEF Spec

\* Every value keeps its type, and the limiter stays between empty and full
\* although five operations fill and drain it.
THEOREM TransferTypeCorrect == Spec => []TypeOK
<1>1. TransferInv => TypeOK
  BY DEF TransferInv
<1> QED
  BY <1>1, InitInv, NextInv, PTL DEF Spec

\* An ended transfer is never pending or active again.
THEOREM EndedStaysEndedCorrect == Spec => EndedStaysEnded
<1>1. TransferInv /\ [Next]_vars =>
        [\A t \in Transfers : state[t] \in Final => state'[t] \in Final]_vars
  <2> SUFFICES ASSUME TransferInv, Next, NEW u \in Transfers, state[u] \in Final
               PROVE  state'[u] \in Final
    OBVIOUS
  <2>1. PICK t \in Transfers :
          RouteStep(t) \/ StartTransfer(t) \/ UpdateProgress(t) \/ Terminate(t)
    BY DEF Next
  <2> QED
    BY <2>1 DEF TransferInv, TypeOK, RouteStep, AcquireSlot, Publish, StartTransfer,
                UpdateProgress, ProcessChunk, Terminate, Reach, Final
<1> QED
  BY <1>1, InitInv, NextInv, PTL DEF Spec, EndedStaysEnded

\* A transfer ends once: the slot goes back once, and the end is for good.
THEOREM EndsOnceCorrect == Spec => EndsOnce
BY TransferTypeCorrect, SlotsCorrect, EndedStaysEndedCorrect, PTL DEF EndsOnce

-----------------------------------------------------------------------------
(***************************************************************************)
(* Session recordings.                                                      *)
(***************************************************************************)
RecordingSession == [state : {"idle", "active", "stopped"}, open : BOOLEAN, bytes : Nat, onDisk : Nat]
FrameState == [step : {"none", "write", "count", "add", "compare"}, of : Nat, id : SessionIDs \cup {""}, read : Nat]

opened == {n \in 1..MaxRecordings : recording[n].open}
stopped == {n \in 1..MaxRecordings : recording[n].state = "stopped"}

\* Recordings are numbered as they are started; an open one is neither stopped
\* nor unused.
Numbering ==
  /\ recording \in [1..MaxRecordings -> RecordingSession]
  /\ \E k \in 0..MaxRecordings : started = 1..k
  /\ recordings \in [SessionIDs -> {0} \cup started]
  /\ opened \cap stopped = {} /\ opened \subseteq started
  /\ \A n \in started : recording[n].state # "idle"

\* A writer works for a recording that was started, and knows the session of
\* one that is open.
FrameOf(w) ==
  frame[w] # NoFrame =>
    /\ frame[w].step # "none" /\ frame[w].of \in started /\ frame[w].id \in SessionIDs
    /\ frame[w].of \in opened => recordings[frame[w].id] = frame[w].of

Frames == frame \in [FrameWriters -> FrameState] /\ \A w \in FrameWriters : FrameOf(w)

\* What is counted and still to be counted was written, and nothing else was
\* unless two writers counted at once; what a writer read is the count then.
adding(n) == {w \in writersOf(n) : frame[w].step = "add"}

Counted(n) ==
  /\ recording[n].bytes + Cardinality(uncounted(n)) <= recording[n].onDisk
  /\ \A w \in adding(n) : frame[w].read + Cardinality(uncounted(n)) <= recording[n].onDisk
  /\ n \notin overlapped =>
       /\ recording[n].onDisk = recording[n].bytes + Cardinality(uncounted(n))
       /\ \A w \in adding(n) : frame[w].read = recording[n].bytes
       /\ \A v, w \in adding(n) : v = w

\* The writers of a recording that are past their write: an open recording is
\* over its limit by no more than these.
past(n) == {w \in writersOf(n) : frame[w].step \in {"count", "add", "compare"}}

Limited(n) ==
  n \notin overlapped =>
    /\ recording[n].onDisk <= MaxFrames + Cardinality(FrameWriters)
    /\ n \in opened => recording[n].onDisk <= MaxFrames + Cardinality(past(n))

RecorderInv ==
  /\ Numbering /\ Frames
  /\ \A n \in 1..MaxRecordings : Counted(n) /\ Limited(n)

\* The sets of writers are finite, and one more or less counts one.
LEMMA WriterSets ==
  ASSUME NEW S, S \subseteq FrameWriters, NEW w \in FrameWriters
  PROVE  /\ Cardinality(S) \in Nat /\ Cardinality(S) <= Cardinality(FrameWriters)
         /\ w \notin S => Cardinality(S \cup {w}) = Cardinality(S) + 1
         /\ w \in S => Cardinality(S \ {w}) = Cardinality(S) - 1
BY RecorderAssumption, FS_Subset, FS_CardinalityType, FS_AddElement, FS_RemoveElement

\* The sizes of a recording are numbers, and so is what a writer read.
LEMMA RecordedSizes ==
  ASSUME RecorderInv, NEW n \in 1..MaxRecordings
  PROVE  recording[n].bytes \in Nat /\ recording[n].onDisk \in Nat
BY DEF RecorderInv, Numbering, RecordingSession

LEMMA FrameReads ==
  ASSUME RecorderInv, NEW w \in FrameWriters
  PROVE  frame[w].read \in Nat
BY DEF RecorderInv, Frames, FrameState

\* Where nothing changes for a recording it stays counted and limited.
LEMMA Unmoved ==
  ASSUME NEW n \in 1..MaxRecordings, Counted(n), Limited(n),
         recording'[n].bytes = recording[n].bytes, recording'[n].onDisk = recording[n].onDisk,
         n \in opened' => n \in opened, n \in overlapped => n \in overlapped',
         writersOf(n)' = writersOf(n), \A w \in writersOf(n) : frame'[w] = frame[w]
  PROVE  Counted(n)' /\ Limited(n)'
<1>1. uncounted(n)' = uncounted(n) /\ adding(n)' = adding(n) /\ past(n)' = past(n)
  BY DEF uncounted, adding, past
<1>2. \A w \in adding(n) : frame'[w].read = frame[w].read
  BY DEF adding
<1> QED
  BY <1>1, <1>2 DEF Counted, Limited

LEMMA RecorderInitInv == RecorderInit => RecorderInv
<1> SUFFICES ASSUME RecorderInit PROVE RecorderInv
  OBVIOUS
<1>1. recording = [n \in 1..MaxRecordings |-> Unused] /\ \A w \in FrameWriters : frame[w] = NoFrame
  BY DEF RecorderInit
<1>2. Unused \in RecordingSession /\ ~ Unused.open /\ NoFrame \in FrameState
  BY DEF Unused, RecordingSession, NoFrame, FrameState
<1>3. started = {} /\ opened = {}
  BY <1>1, <1>2 DEF started, opened
<1>4. Numbering
  <2>1. started = 1..0 /\ 0 \in 0..MaxRecordings
    BY <1>3, RecorderAssumption
  <2>2. recording \in [1..MaxRecordings -> RecordingSession] /\ recordings \in [SessionIDs -> {0} \cup started]
    BY <1>1, <1>2 DEF RecorderInit
  <2> QED
    BY <1>3, <2>1, <2>2 DEF Numbering
<1>5. Frames
  BY <1>1, <1>2 DEF Frames, FrameOf, RecorderInit
<1>6. ASSUME NEW n \in 1..MaxRecordings PROVE Counted(n) /\ Limited(n)
  <2>1. writersOf(n) = {}
    <3>1. NoFrame.of = 0 /\ n # 0
      BY RecorderAssumption DEF NoFrame
    <3> QED
      BY <1>1, <3>1 DEF writersOf
  <2>2. uncounted(n) = {} /\ adding(n) = {} /\ past(n) = {} /\ Cardinality({}) = 0
    BY <2>1, FS_EmptySet DEF uncounted, adding, past
  <2>3. recording[n].bytes = 0 /\ recording[n].onDisk = 0
    BY <1>1 DEF Unused
  <2>4. MaxFrames \in Nat /\ Cardinality(FrameWriters) \in Nat
    BY RecorderAssumption, FS_CardinalityType
  <2> QED
    BY <1>3, <2>2, <2>3, <2>4 DEF Counted, Limited
<1> QED
  BY <1>4, <1>5, <1>6 DEF RecorderInv

\* A new recording is one nobody writes to yet.
LEMMA StartKeeps ==
  ASSUME RecorderInv, NEW id \in SessionIDs, StartRecording(id)
  PROVE  RecorderInv' /\ stopped' = stopped
<1> DEFINE fresh == [Unused EXCEPT !.state = "active", !.open = TRUE]
<1>1. PICK k \in 0..MaxRecordings : started = 1..k
  BY DEF RecorderInv, Numbering
<1>2. PICK n \in 1..MaxRecordings : n = k + 1 /\ n = Cardinality(started) + 1 /\ n \notin started
  <2>1. Cardinality(1..k) = k
    BY FS_Interval
  <2> QED
    BY <1>1, <2>1, RecorderAssumption DEF StartRecording
<1>3. /\ fresh \in RecordingSession /\ fresh # Unused /\ fresh.open
      /\ fresh.state = "active" /\ fresh.bytes = 0 /\ fresh.onDisk = 0
  BY DEF RecordingSession, Unused
<1> HIDE DEF fresh
<1>4. /\ recordings' = [recordings EXCEPT ![id] = n] /\ recordings[id] = 0
      /\ recording' = [recording EXCEPT ![n] = fresh] /\ frame' = frame /\ overlapped' = overlapped
  BY <1>2 DEF StartRecording, fresh
<1>5. /\ recording'[n] = fresh /\ recording' \in [1..MaxRecordings -> RecordingSession]
      /\ \A m \in 1..MaxRecordings : m # n => recording'[m] = recording[m]
  BY <1>2, <1>3, <1>4 DEF RecorderInv, Numbering
<1>6. started' = started \cup {n} /\ opened' = opened \cup {n} /\ stopped' = stopped \ {n}
  BY <1>2, <1>3, <1>5 DEF started, opened, stopped
<1>7. n \notin stopped /\ n \notin started /\ recording[n] = Unused
  BY <1>2 DEF stopped, started, Unused
<1>8. Numbering'
  <2>1. started' = 1..(k + 1) /\ k + 1 \in 0..MaxRecordings
    BY <1>1, <1>2, <1>6
  <2>2. recordings' \in [SessionIDs -> {0} \cup started']
    BY <1>4, <1>6 DEF RecorderInv, Numbering
  <2>3. \A m \in started' : recording'[m].state # "idle"
    BY <1>3, <1>5, <1>6, <1>7 DEF RecorderInv, Numbering, started
  <2>4. opened' \cap stopped' = {} /\ opened' \subseteq started'
    BY <1>6, <1>7 DEF RecorderInv, Numbering
  <2> QED
    BY <1>5, <2>1, <2>2, <2>3, <2>4 DEF Numbering
<1>9. Frames'
  <2>1. ASSUME NEW w \in FrameWriters PROVE FrameOf(w)'
    <3>1. FrameOf(w) /\ 0 \notin started
      BY <1>1 DEF RecorderInv, Frames
    <3> QED
      BY <1>4, <1>6, <1>7, <3>1 DEF FrameOf, RecorderInv, Numbering
  <2> QED
    BY <1>4, <2>1 DEF RecorderInv, Frames
<1>10. ASSUME NEW m \in 1..MaxRecordings PROVE Counted(m)' /\ Limited(m)'
  <2>1. CASE m # n
    <3>1. writersOf(m)' = writersOf(m)
      BY <1>4 DEF writersOf
    <3> QED
      BY <1>4, <1>5, <1>6, <2>1, <3>1, Unmoved DEF RecorderInv
  <2>2. CASE m = n
    <3>1. writersOf(n)' = {}
      <4>1. NoFrame.of = 0 /\ n # 0
        BY <1>2 DEF NoFrame
      <4>2. ASSUME NEW w \in FrameWriters PROVE frame[w].of # n
        BY <1>7, <4>1, <4>2 DEF RecorderInv, Frames, FrameOf
      <4> QED
        BY <1>4, <4>2 DEF writersOf
    <3>2. uncounted(n)' = {} /\ adding(n)' = {} /\ past(n)' = {} /\ Cardinality({}) = 0
      BY <3>1, FS_EmptySet DEF uncounted, adding, past
    <3>3. recording'[n].bytes = 0 /\ recording'[n].onDisk = 0
      BY <1>3, <1>5
    <3>4. MaxFrames \in Nat /\ Cardinality(FrameWriters) \in Nat
      BY RecorderAssumption, FS_CardinalityType
    <3>5. Counted(n)'
      BY <3>2, <3>3 DEF Counted
    <3>6. Limited(n)'
      BY <3>2, <3>3, <3>4 DEF Limited
    <3> QED
      BY <2>2, <3>5, <3>6
  <2> QED
    BY <2>1, <2>2
<1> QED
  BY <1>6, <1>7, <1>8, <1>9, <1>10 DEF RecorderInv

\* What a closed recording keeps.
LEMMA ClosedRecord ==
  ASSUME NEW r \in RecordingSession, r.state # "idle", NEW c,
         c \in {[r EXCEPT !.open = FALSE], [[r EXCEPT !.state = "stopped"] EXCEPT !.open = FALSE]}
  PROVE  /\ c \in RecordingSession /\ c.bytes = r.bytes /\ c.onDisk = r.onDisk
         /\ ~ c.open /\ c.state \in {r.state, "stopped"} /\ c # Unused
<1> DEFINE a == [r EXCEPT !.open = FALSE]
           b == [[r EXCEPT !.state = "stopped"] EXCEPT !.open = FALSE]
<1>1. /\ a \in RecordingSession /\ a.bytes = r.bytes /\ a.onDisk = r.onDisk
      /\ ~ a.open /\ a.state = r.state
  BY DEF RecordingSession
<1>2. /\ b \in RecordingSession /\ b.bytes = r.bytes /\ b.onDisk = r.onDisk
      /\ ~ b.open /\ b.state = "stopped"
  BY DEF RecordingSession
<1>3. c = a \/ c = b
  OBVIOUS
<1> HIDE DEF a, b
<1> QED
  BY <1>1, <1>2, <1>3 DEF Unused

\* Closing a recording, stopped or not, changes no count.
LEMMA CloseKeeps ==
  ASSUME RecorderInv, NEW n \in started,
         recording' = [recording EXCEPT ![n].open = FALSE] \/ recording' = closed(n),
         \/ recordings' = recordings
         \/ \E id \in SessionIDs : recordings[id] = n /\ recordings' = [recordings EXCEPT ![id] = 0]
  PROVE  /\ Numbering' /\ started' = started /\ opened' = opened \ {n} /\ stopped \subseteq stopped'
         /\ \A m \in 1..MaxRecordings :
              recording'[m].bytes = recording[m].bytes /\ recording'[m].onDisk = recording[m].onDisk
         /\ \A m \in opened' : \A id \in SessionIDs : recordings[id] = m => recordings'[id] = m
<1>1. n \in 1..MaxRecordings
  BY DEF started
<1>2. /\ recording' \in [1..MaxRecordings -> RecordingSession]
      /\ \A m \in 1..MaxRecordings : m # n => recording'[m] = recording[m]
      /\ recording'[n].bytes = recording[n].bytes /\ recording'[n].onDisk = recording[n].onDisk
      /\ ~ recording'[n].open /\ recording'[n].state \in {recording[n].state, "stopped"}
      /\ recording[n] # Unused /\ recording'[n] # Unused
  <2>1. recording[n] \in RecordingSession /\ recording[n].state # "idle" /\ recording[n] # Unused
    BY <1>1 DEF RecorderInv, Numbering, started
  <2>2. /\ recording'[n] \in {[recording[n] EXCEPT !.open = FALSE],
                               [[recording[n] EXCEPT !.state = "stopped"] EXCEPT !.open = FALSE]}
        /\ DOMAIN recording' = 1..MaxRecordings
        /\ \A m \in 1..MaxRecordings : m # n => recording'[m] = recording[m]
    BY <1>1 DEF RecorderInv, Numbering, closed
  <2>3. /\ recording'[n] \in RecordingSession
        /\ recording'[n].bytes = recording[n].bytes /\ recording'[n].onDisk = recording[n].onDisk
        /\ ~ recording'[n].open /\ recording'[n].state \in {recording[n].state, "stopped"}
        /\ recording'[n] # Unused
    <3>1. PICK r, c : r = recording[n] /\ c = recording'[n]
      OBVIOUS
    <3>2. /\ r \in RecordingSession /\ r.state # "idle" /\ r # Unused
          /\ c \in {[r EXCEPT !.open = FALSE], [[r EXCEPT !.state = "stopped"] EXCEPT !.open = FALSE]}
      BY <2>1, <2>2, <3>1, Zenon
    <3>3. /\ c \in RecordingSession /\ c.bytes = r.bytes /\ c.onDisk = r.onDisk
          /\ ~ c.open /\ c.state \in {r.state, "stopped"} /\ c # Unused
      BY <3>2, ClosedRecord
    <3> QED
      BY <3>1, <3>3, Zenon
  <2>4. recording' = [m \in 1..MaxRecordings |-> recording'[m]]
    BY DEF closed, RecorderInv, Numbering
  <2> QED
    BY <2>1, <2>2, <2>3, <2>4 DEF RecorderInv, Numbering
<1>3. recording'[n].state # "idle"
  BY <1>1, <1>2 DEF RecorderInv, Numbering
<1>4. started' = started /\ opened' = opened \ {n} /\ stopped \subseteq stopped' /\ stopped' \subseteq stopped \cup {n}
  BY <1>1, <1>2, <1>3 DEF started, opened, stopped
<1>5. recordings' \in [SessionIDs -> {0} \cup started']
  BY <1>4 DEF RecorderInv, Numbering
<1>6. Numbering'
  <2>1. \A m \in started' : recording'[m].state # "idle"
    BY <1>2, <1>3, <1>4 DEF RecorderInv, Numbering, started
  <2>2. opened' \cap stopped' = {} /\ opened' \subseteq started'
    BY <1>4 DEF RecorderInv, Numbering
  <2> QED
    BY <1>2, <1>4, <1>5, <2>1, <2>2 DEF RecorderInv, Numbering
<1>7. \A m \in opened' : \A id \in SessionIDs : recordings[id] = m => recordings'[id] = m
  BY <1>4 DEF RecorderInv, Numbering
<1> QED
  BY <1>2, <1>4, <1>6, <1>7

LEMMA EndKeeps ==
  ASSUME RecorderInv, NEW id \in SessionIDs, StopRecording(id) \/ DeleteRecording(id)
  PROVE  RecorderInv' /\ \A m \in 1..MaxRecordings : recording'[m].onDisk = recording[m].onDisk
<1> DEFINE n == recordings[id]
<1>1. n \in started
  BY DEF RecorderInv, Numbering, StopRecording, DeleteRecording
<1>2. /\ frame' = frame /\ overlapped' = overlapped
      /\ recording' = [recording EXCEPT ![n].open = FALSE] \/ recording' = closed(n)
      /\ \/ recordings' = recordings
         \/ \E i \in SessionIDs : recordings[i] = n /\ recordings' = [recordings EXCEPT ![i] = 0]
  BY DEF StopRecording, DeleteRecording
<1> HIDE DEF n
<1>3. /\ Numbering' /\ started' = started /\ opened' = opened \ {n}
      /\ \A m \in 1..MaxRecordings :
           recording'[m].bytes = recording[m].bytes /\ recording'[m].onDisk = recording[m].onDisk
      /\ \A m \in opened' : \A i \in SessionIDs : recordings[i] = m => recordings'[i] = m
  BY <1>1, <1>2, CloseKeeps
<1>5. Frames'
  <2>1. ASSUME NEW w \in FrameWriters PROVE FrameOf(w)'
    BY <1>2, <1>3 DEF RecorderInv, Frames, FrameOf
  <2> QED
    BY <1>2, <2>1 DEF RecorderInv, Frames
<1>6. ASSUME NEW m \in 1..MaxRecordings PROVE Counted(m)' /\ Limited(m)'
  <2>1. writersOf(m)' = writersOf(m)
    BY <1>2 DEF writersOf
  <2> QED
    BY <1>2, <1>3, <2>1, Unmoved DEF RecorderInv
<1> QED
  BY <1>3, <1>5, <1>6 DEF RecorderInv

\* A writer's step concerns its own recording only.
LEMMA Elsewhere ==
  ASSUME RecorderInv, NEW w \in FrameWriters, NEW n \in 1..MaxRecordings,
         NEW m \in 1..MaxRecordings, m # n,
         \A v \in FrameWriters : v # w => frame'[v] = frame[v],
         frame[w].of \in {0, n}, frame'[w].of \in {0, n},
         recording'[m].bytes = recording[m].bytes, recording'[m].onDisk = recording[m].onDisk,
         opened' \subseteq opened, m \in overlapped => m \in overlapped'
  PROVE  Counted(m)' /\ Limited(m)'
<1>0. m # 0
  BY RecorderAssumption
<1>1. writersOf(m)' = writersOf(m)
  BY <1>0 DEF writersOf
<1>2. \A v \in writersOf(m) : frame'[v] = frame[v]
  BY <1>0 DEF writersOf
<1> QED
  BY <1>1, <1>2, Unmoved DEF RecorderInv

LEMMA NoFrameFacts ==
  /\ NoFrame \in FrameState /\ NoFrame.of = 0 /\ NoFrame.step = "none"
  /\ \A n \in 1..MaxRecordings : n # 0
BY RecorderAssumption DEF NoFrame, FrameState

\* A frame begins: the writer has still to write it.
LEMMA BeginKeeps ==
  ASSUME RecorderInv, NEW w \in FrameWriters, NEW id \in SessionIDs, RecordFrame(w, id)
  PROVE  RecorderInv'
<1>1. PICK n \in started : n = recordings[id] /\ n \in opened /\ n \in 1..MaxRecordings
  BY DEF RecorderInv, Numbering, RecordFrame, opened, started
<1> DEFINE f == [step |-> "write", of |-> n, id |-> id, read |-> 0]
<1>2. f \in FrameState /\ f.step = "write" /\ f.of = n /\ f.id = id
  <2>1. n \in Nat
    BY <1>1, RecorderAssumption
  <2> QED
    BY <2>1 DEF FrameState
<1>3. /\ frame[w] = NoFrame /\ frame' = [frame EXCEPT ![w] = f]
      /\ recordings' = recordings /\ recording' = recording /\ overlapped' = overlapped
  BY <1>1 DEF RecordFrame
<1> HIDE DEF f
<1>4. frame' \in [FrameWriters -> FrameState] /\ frame'[w] = f /\ \A v \in FrameWriters : v # w => frame'[v] = frame[v]
  BY <1>2, <1>3 DEF RecorderInv, Frames
<1>5. opened' = opened /\ stopped' = stopped /\ started' = started
  BY <1>3 DEF opened, stopped, started
<1>6. Numbering'
  BY <1>3, <1>5 DEF RecorderInv, Numbering
<1>7. Frames'
  <2>1. ASSUME NEW v \in FrameWriters PROVE FrameOf(v)'
    BY <1>1, <1>2, <1>3, <1>4, <1>5 DEF RecorderInv, Frames, FrameOf
  <2> QED
    BY <1>4, <2>1 DEF Frames
<1>8. ASSUME NEW m \in 1..MaxRecordings PROVE Counted(m)' /\ Limited(m)'
  <2>1. CASE m # n
    BY <1>1, <1>2, <1>3, <1>4, <1>5, <2>1, NoFrameFacts, Elsewhere
  <2>2. CASE m = n
    <3>1. uncounted(n)' = uncounted(n) /\ adding(n)' = adding(n) /\ past(n)' = past(n)
      BY <1>1, <1>2, <1>3, <1>4, NoFrameFacts DEF uncounted, adding, past, writersOf
    <3>2. \A v \in adding(n) : frame'[v] = frame[v]
      BY <1>3, <1>4, NoFrameFacts DEF adding
    <3> QED
      BY <1>1, <1>3, <1>5, <2>2, <3>1, <3>2 DEF RecorderInv, Counted, Limited
  <2> QED
    BY <2>1, <2>2
<1> QED
  BY <1>6, <1>7, <1>8 DEF RecorderInv

\* A step of a frame under way: the recording it is for.
LEMMA FrameUnderWay ==
  ASSUME RecorderInv, NEW w \in FrameWriters, frame[w].step # "none"
  PROVE  /\ frame[w] # NoFrame /\ frame[w].of \in started /\ frame[w].of \in 1..MaxRecordings
         /\ frame[w].id \in SessionIDs
         /\ frame[w].of \in opened => recordings[frame[w].id] = frame[w].of
         /\ frame[w] \in FrameState
BY NoFrameFacts DEF RecorderInv, Frames, FrameOf, started

\* A frame moves on, and nothing about the recordings that others know changes.
LEMMA MovesOn ==
  ASSUME RecorderInv, NEW w \in FrameWriters, frame[w].step # "none",
         NEW f \in FrameState, f.step # "none", f.of = frame[w].of, f.id = frame[w].id,
         frame' = [frame EXCEPT ![w] = f], recordings' = recordings,
         started' = started, opened' = opened
  PROVE  Frames'
<1>1. ASSUME NEW v \in FrameWriters PROVE FrameOf(v)'
  <2>1. FrameOf(v)
    BY DEF RecorderInv, Frames
  <2>2. CASE v # w
    BY <2>1, <2>2 DEF RecorderInv, Frames, FrameOf
  <2>3. CASE v = w
    BY <2>3, FrameUnderWay DEF RecorderInv, Frames, FrameOf
  <2> QED
    BY <2>2, <2>3
<1> QED
  BY <1>1 DEF RecorderInv, Frames

\* A frame is written, or is not.
LEMMA WriteKeeps ==
  ASSUME RecorderInv, NEW w \in FrameWriters, WriteFrame(w)
  PROVE  /\ RecorderInv'
         /\ \A m \in stopped : recording'[m].onDisk = recording[m].onDisk
<1>1. frame[w].step = "write"
  BY DEF WriteFrame
<1>2. PICK n \in 1..MaxRecordings : n = frame[w].of /\ n \in started
  BY <1>1, FrameUnderWay
<1>3. w \in writersOf(n) /\ w \notin uncounted(n) /\ w \notin adding(n) /\ w \notin past(n)
  BY <1>1, <1>2 DEF writersOf, uncounted, adding, past
<1>4. /\ uncounted(n) \subseteq FrameWriters /\ past(n) \subseteq FrameWriters
      /\ (past(n) \cup {w}) \subseteq FrameWriters
  BY DEF uncounted, past, writersOf
<1>5. /\ Cardinality(uncounted(n) \cup {w}) = Cardinality(uncounted(n)) + 1
      /\ Cardinality(past(n) \cup {w}) = Cardinality(past(n)) + 1
      /\ Cardinality(uncounted(n)) \in Nat /\ Cardinality(past(n)) \in Nat
      /\ Cardinality(past(n) \cup {w}) <= Cardinality(FrameWriters)
  BY <1>3, <1>4, WriterSets
<1>6. recordings' = recordings /\ overlapped' = overlapped
  BY DEF WriteFrame
<1>7. CASE /\ n \in opened
           /\ recording' = [recording EXCEPT ![n].onDisk = @ + 1]
           /\ frame' = [frame EXCEPT ![w].step = "count"]
  <2>1. recording[n].onDisk \in Nat
    BY RecordedSizes
  <2> DEFINE r == [recording[n] EXCEPT !.onDisk = recording[n].onDisk + 1]
             f == [frame[w] EXCEPT !.step = "count"]
  <2>2. /\ r \in RecordingSession /\ r.bytes = recording[n].bytes /\ r.onDisk = recording[n].onDisk + 1
        /\ r.open = recording[n].open /\ r.state = recording[n].state
    <3> DEFINE up == recording[n].onDisk + 1
    <3>1. up \in Nat
      BY <2>1
    <3> HIDE DEF up
    <3>2. [recording[n] EXCEPT !.onDisk = up] \in RecordingSession
      BY <3>1 DEF RecorderInv, Numbering, RecordingSession
    <3> QED
      BY <3>2 DEF up, RecorderInv, Numbering, RecordingSession
  <2>3. f \in FrameState /\ f.step = "count" /\ f.of = n /\ f.id = frame[w].id
    BY <1>2 DEF RecorderInv, Frames, FrameState
  <2>4. recording' = [recording EXCEPT ![n] = r] /\ frame' = [frame EXCEPT ![w] = f]
    BY <1>7
  <2> HIDE DEF r, f
  <2>5. /\ recording' \in [1..MaxRecordings -> RecordingSession] /\ recording'[n] = r
        /\ \A m \in 1..MaxRecordings : m # n => recording'[m] = recording[m]
    BY <2>2, <2>4 DEF RecorderInv, Numbering
  <2>6. frame'[w] = f /\ \A v \in FrameWriters : v # w => frame'[v] = frame[v]
    BY <2>4 DEF RecorderInv, Frames
  <2>7. opened' = opened /\ stopped' = stopped /\ started' = started
    <3>1. r # Unused /\ recording[n] # Unused
      BY <1>2, <2>2 DEF Unused, RecorderInv, Numbering, started
    <3> QED
      BY <2>2, <2>5, <3>1 DEF opened, stopped, started
  <2>8. Numbering'
    BY <1>6, <2>2, <2>5, <2>7 DEF RecorderInv, Numbering, started
  <2>9. Frames'
    BY <1>1, <1>2, <1>6, <2>3, <2>4, <2>7, MovesOn
  <2>10. /\ uncounted(n)' = uncounted(n) \cup {w} /\ adding(n)' = adding(n) /\ past(n)' = past(n) \cup {w}
         /\ \A v \in adding(n) : frame'[v] = frame[v]
    BY <1>2, <1>3, <2>3, <2>6 DEF uncounted, adding, past, writersOf
  <2>11. Counted(n)'
    <3>1. /\ Counted(n) /\ recording'[n].bytes = recording[n].bytes
          /\ recording'[n].onDisk = recording[n].onDisk + 1
      BY <2>2, <2>5 DEF RecorderInv
    <3>2. \A v \in adding(n) : frame[v].read \in Nat
      BY FrameReads DEF adding, writersOf
    <3>3. recording[n].bytes \in Nat
      BY RecordedSizes
    <3>4. /\ recording'[n].bytes + Cardinality(uncounted(n)') <= recording'[n].onDisk
          /\ n \notin overlapped =>
               recording'[n].onDisk = recording'[n].bytes + Cardinality(uncounted(n)')
      BY <1>5, <2>1, <2>10, <3>1, <3>3 DEF Counted
    <3>5. ASSUME NEW v \in adding(n)
          PROVE  frame[v].read + Cardinality(uncounted(n)') <= recording'[n].onDisk
      <4>1. frame[v].read + Cardinality(uncounted(n)) <= recording[n].onDisk
        BY <3>1 DEF Counted
      <4> QED
        BY <1>5, <2>1, <2>10, <3>1, <3>2, <4>1
    <3> QED
      BY <1>6, <2>10, <3>1, <3>4, <3>5 DEF Counted
  <2>12. Limited(n)'
    <3>1. Limited(n) /\ recording'[n].onDisk = recording[n].onDisk + 1
      BY <2>2, <2>5 DEF RecorderInv
    <3>2. MaxFrames \in Nat /\ Cardinality(FrameWriters) \in Nat
      BY RecorderAssumption, FS_CardinalityType
    <3> QED
      BY <1>5, <1>6, <1>7, <2>1, <2>7, <2>10, <3>1, <3>2 DEF Limited
  <2>13. ASSUME NEW m \in 1..MaxRecordings, m # n PROVE Counted(m)' /\ Limited(m)'
    BY <1>2, <1>6, <2>3, <2>5, <2>6, <2>7, <2>13, Elsewhere
  <2>14. \A m \in stopped : recording'[m].onDisk = recording[m].onDisk
    BY <1>7, <2>5 DEF RecorderInv, Numbering, stopped
  <2> QED
    BY <2>8, <2>9, <2>11, <2>12, <2>13, <2>14 DEF RecorderInv
<1>8. CASE recording' = recording /\ frame' = [frame EXCEPT ![w].step = "compare"]
  <2> DEFINE f == [frame[w] EXCEPT !.step = "compare"]
  <2>3. f \in FrameState /\ f.step = "compare" /\ f.of = n /\ f.id = frame[w].id
    BY <1>2 DEF RecorderInv, Frames, FrameState
  <2>4. frame' = [frame EXCEPT ![w] = f]
    BY <1>8
  <2> HIDE DEF f
  <2>6. frame'[w] = f /\ \A v \in FrameWriters : v # w => frame'[v] = frame[v]
    BY <2>4 DEF RecorderInv, Frames
  <2>7. opened' = opened /\ stopped' = stopped /\ started' = started
    BY <1>8 DEF opened, stopped, started
  <2>8. Numbering'
    BY <1>6, <1>8, <2>7 DEF RecorderInv, Numbering
  <2>9. Frames'
    BY <1>1, <1>2, <1>6, <2>3, <2>4, <2>7, MovesOn
  <2>10. /\ uncounted(n)' = uncounted(n) /\ adding(n)' = adding(n) /\ past(n)' = past(n) \cup {w}
         /\ \A v \in adding(n) : frame'[v] = frame[v]
    BY <1>2, <1>3, <2>3, <2>6 DEF uncounted, adding, past, writersOf
  <2>11. Counted(n)'
    BY <1>6, <1>8, <2>10 DEF RecorderInv, Counted
  <2>12. Limited(n)'
    <3>1. MaxFrames \in Nat /\ recording[n].onDisk \in Nat
      BY RecorderAssumption, RecordedSizes
    <3>2. n \notin overlapped /\ n \in opened => recording[n].onDisk <= MaxFrames + Cardinality(past(n) \cup {w})
      BY <1>5, <3>1 DEF RecorderInv, Limited
    <3> QED
      BY <1>6, <1>8, <2>7, <2>10, <3>2 DEF RecorderInv, Limited
  <2>13. ASSUME NEW m \in 1..MaxRecordings, m # n PROVE Counted(m)' /\ Limited(m)'
    BY <1>2, <1>6, <1>8, <2>3, <2>6, <2>7, <2>13, Elsewhere
  <2> QED
    BY <1>8, <2>8, <2>9, <2>11, <2>12, <2>13 DEF RecorderInv
<1> QED
  BY <1>2, <1>7, <1>8 DEF WriteFrame, opened

\* The count is read: what is on disk beyond it is on its way.
LEMMA ReadKeeps ==
  ASSUME RecorderInv, NEW w \in FrameWriters, ReadCount(w)
  PROVE  RecorderInv'
<1>1. frame[w].step = "count"
  BY DEF ReadCount
<1>2. PICK n \in 1..MaxRecordings : n = frame[w].of /\ n \in started
  BY <1>1, FrameUnderWay
<1> DEFINE f == [frame[w] EXCEPT !.step = "add", !.read = recording[n].bytes]
<1>3. /\ f \in FrameState /\ f.step = "add" /\ f.of = n /\ f.id = frame[w].id
      /\ f.read = recording[n].bytes
  BY <1>2, RecordedSizes DEF RecorderInv, Frames, FrameState
<1>4. /\ frame' = [frame EXCEPT ![w] = f] /\ recordings' = recordings /\ recording' = recording
      /\ overlapped' = IF \E v \in FrameWriters : frame[v].of = n /\ frame[v].step = "add"
                       THEN overlapped \cup {n} ELSE overlapped
  BY <1>2 DEF ReadCount
<1> HIDE DEF f
<1>5. frame'[w] = f /\ \A v \in FrameWriters : v # w => frame'[v] = frame[v]
  BY <1>4 DEF RecorderInv, Frames
<1>6. opened' = opened /\ stopped' = stopped /\ started' = started
  BY <1>4 DEF opened, stopped, started
<1>7. Numbering'
  BY <1>4, <1>6 DEF RecorderInv, Numbering
<1>8. Frames'
  BY <1>1, <1>2, <1>3, <1>4, <1>6, MovesOn
<1>9. /\ uncounted(n)' = uncounted(n) /\ adding(n)' = adding(n) \cup {w} /\ past(n)' = past(n)
      /\ w \notin adding(n) /\ \A v \in adding(n) : frame'[v] = frame[v]
  BY <1>1, <1>2, <1>3, <1>5 DEF uncounted, adding, past, writersOf
<1>10. n \notin overlapped' => n \notin overlapped /\ adding(n) = {}
  BY <1>4 DEF adding, writersOf
<1>11. Counted(n)'
  <2>1. Counted(n)
    BY DEF RecorderInv
  <2>2. \A v \in adding(n)' : frame'[v].read + Cardinality(uncounted(n)) <= recording[n].onDisk
    BY <1>3, <1>5, <1>9, <2>1 DEF Counted
  <2>3. n \notin overlapped' =>
          /\ \A v \in adding(n)' : frame'[v].read = recording[n].bytes
          /\ \A u, v \in adding(n)' : u = v
    BY <1>3, <1>5, <1>9, <1>10
  <2> QED
    BY <1>4, <1>9, <1>10, <2>1, <2>2, <2>3 DEF Counted
<1>12. Limited(n)'
  BY <1>4, <1>6, <1>9, <1>10 DEF RecorderInv, Limited
<1>13. ASSUME NEW m \in 1..MaxRecordings, m # n PROVE Counted(m)' /\ Limited(m)'
  BY <1>2, <1>3, <1>4, <1>5, <1>6, <1>13, Elsewhere
<1> QED
  BY <1>7, <1>8, <1>11, <1>12, <1>13 DEF RecorderInv

\* The count is written: what others counted meanwhile is lost, and then the
\* recording is one two writers counted in.
LEMMA AddKeeps ==
  ASSUME RecorderInv, NEW w \in FrameWriters, AddCount(w)
  PROVE  /\ RecorderInv'
         /\ \A m \in stopped : recording'[m].onDisk = recording[m].onDisk
<1>1. frame[w].step = "add"
  BY DEF AddCount
<1>2. PICK n \in 1..MaxRecordings : n = frame[w].of /\ n \in started
  BY <1>1, FrameUnderWay
<1>3. frame[w].read \in Nat /\ recording[n].bytes \in Nat /\ recording[n].onDisk \in Nat
  BY FrameReads, RecordedSizes
<1> DEFINE up == frame[w].read + 1
           f == [frame[w] EXCEPT !.step = "compare"]
           r == [recording[n] EXCEPT !.bytes = up]
<1>4. up \in Nat
  BY <1>3
<1>5. /\ frame' = [frame EXCEPT ![w] = f] /\ recordings' = recordings /\ overlapped' = overlapped
      /\ recording' = [recording EXCEPT ![n] = r]
  BY <1>2 DEF AddCount
<1> HIDE DEF up
<1>6. /\ f \in FrameState /\ f.step = "compare" /\ f.of = n /\ f.id = frame[w].id
  BY <1>2 DEF RecorderInv, Frames, FrameState
<1>7. /\ r \in RecordingSession /\ r.bytes = up /\ r.onDisk = recording[n].onDisk
      /\ r.open = recording[n].open /\ r.state = recording[n].state
  BY <1>4 DEF RecorderInv, Numbering, RecordingSession
<1> HIDE DEF f, r
<1>8. /\ recording' \in [1..MaxRecordings -> RecordingSession] /\ recording'[n] = r
      /\ \A m \in 1..MaxRecordings : m # n => recording'[m] = recording[m]
  BY <1>5, <1>7 DEF RecorderInv, Numbering
<1>9. frame'[w] = f /\ \A v \in FrameWriters : v # w => frame'[v] = frame[v]
  BY <1>5 DEF RecorderInv, Frames
<1>10. opened' = opened /\ stopped' = stopped /\ started' = started
  <2>1. recording[n].state # "idle" /\ Unused.state = "idle"
    BY <1>2 DEF Unused, RecorderInv, Numbering
  <2>2. r # Unused /\ recording[n] # Unused
    BY <1>7, <2>1
  <2> QED
    BY <1>7, <1>8, <2>2 DEF opened, stopped, started
<1>11. Numbering'
  BY <1>5, <1>7, <1>8, <1>10 DEF RecorderInv, Numbering, started
<1>12. Frames'
  BY <1>1, <1>2, <1>5, <1>6, <1>10, MovesOn
<1>13. /\ uncounted(n)' = uncounted(n) \ {w} /\ adding(n)' = adding(n) \ {w} /\ past(n)' = past(n)
       /\ w \in uncounted(n) /\ w \in adding(n)
       /\ \A v \in adding(n) : v # w => frame'[v] = frame[v]
  BY <1>1, <1>2, <1>6, <1>9 DEF uncounted, adding, past, writersOf
<1>14. /\ Cardinality(uncounted(n) \ {w}) = Cardinality(uncounted(n)) - 1
       /\ Cardinality(uncounted(n)) \in Nat
  <2>1. uncounted(n) \subseteq FrameWriters
    BY DEF uncounted, writersOf
  <2> QED
    BY <1>13, <2>1, WriterSets
<1>15. Counted(n)'
  <2>1. Counted(n)
    BY DEF RecorderInv
  <2>2. recording'[n].bytes = frame[w].read + 1 /\ recording'[n].onDisk = recording[n].onDisk
    BY <1>7, <1>8 DEF up
  <2>3. recording'[n].bytes + Cardinality(uncounted(n)') <= recording'[n].onDisk
    BY <1>3, <1>13, <1>14, <2>1, <2>2 DEF Counted
  <2>4. ASSUME NEW v \in adding(n)'
        PROVE  frame'[v].read + Cardinality(uncounted(n)') <= recording'[n].onDisk
    <3>1. v \in adding(n) /\ frame'[v] = frame[v] /\ v \in FrameWriters
      BY <1>13 DEF adding, writersOf
    <3>2. frame[v].read \in Nat /\ frame[v].read + Cardinality(uncounted(n)) <= recording[n].onDisk
      BY <2>1, <3>1, FrameReads DEF Counted
    <3> QED
      BY <1>3, <1>13, <1>14, <2>2, <3>1, <3>2
  <2>5. ASSUME n \notin overlapped
        PROVE  /\ recording'[n].onDisk = recording'[n].bytes + Cardinality(uncounted(n)')
               /\ adding(n)' = {}
    <3>1. recording[n].onDisk = recording[n].bytes + Cardinality(uncounted(n)) /\ frame[w].read = recording[n].bytes
      BY <1>13, <2>1, <2>5 DEF Counted
    <3>2. adding(n)' = {}
      BY <1>13, <2>1, <2>5 DEF Counted
    <3> QED
      BY <1>3, <1>13, <1>14, <2>2, <3>1, <3>2
  <2> QED
    BY <1>5, <2>3, <2>4, <2>5 DEF Counted
<1>16. Limited(n)'
  BY <1>5, <1>7, <1>8, <1>10, <1>13 DEF RecorderInv, Limited
<1>17. ASSUME NEW m \in 1..MaxRecordings, m # n PROVE Counted(m)' /\ Limited(m)'
  BY <1>2, <1>5, <1>6, <1>8, <1>9, <1>10, <1>17, Elsewhere
<1>18. \A m \in stopped : recording'[m].onDisk = recording[m].onDisk
  BY <1>7, <1>8 DEF stopped
<1> QED
  BY <1>11, <1>12, <1>15, <1>16, <1>17, <1>18 DEF RecorderInv

\* The end of a frame: a writer that finds its recording full closes it, if the
\* session still has it.
LEMMA CompareKeeps ==
  ASSUME RecorderInv, NEW w \in FrameWriters, CompareSize(w)
  PROVE  /\ RecorderInv'
         /\ \A m \in stopped : recording'[m].onDisk = recording[m].onDisk
<1>1. frame[w].step = "compare"
  BY DEF CompareSize
<1>2. PICK n \in 1..MaxRecordings : n = frame[w].of /\ n \in started
  BY <1>1, FrameUnderWay
<1> DEFINE current == recordings[frame[w].id]
           full == recording[n].bytes > MaxFrames
<1>3. current \in {0} \cup started /\ (n \in opened => current = n)
  BY <1>1, <1>2, FrameUnderWay DEF RecorderInv, Numbering
<1>4. /\ frame' = [frame EXCEPT ![w] = NoFrame] /\ recordings' = recordings /\ overlapped' = overlapped
      /\ recording' = IF full /\ current # 0 THEN closed(current) ELSE recording
  BY <1>2 DEF CompareSize
<1> HIDE DEF current
<1>5. frame'[w] = NoFrame /\ \A v \in FrameWriters : v # w => frame'[v] = frame[v]
  BY <1>4 DEF RecorderInv, Frames
<1>6. /\ Numbering' /\ started' = started /\ opened' \subseteq opened /\ stopped \subseteq stopped'
      /\ (full /\ current # 0 => opened' = opened \ {current})
      /\ \A m \in 1..MaxRecordings :
           recording'[m].bytes = recording[m].bytes /\ recording'[m].onDisk = recording[m].onDisk
  <2>1. CASE full /\ current # 0
    <3>1. current \in started /\ recording' = closed(current)
      BY <1>3, <1>4, <2>1
    <3> QED
      BY <1>4, <2>1, <3>1, CloseKeeps
  <2>2. CASE ~ (full /\ current # 0)
    <3>1. recording' = recording
      BY <1>4, <2>2
    <3>2. started' = started /\ opened' = opened /\ stopped' = stopped
      BY <3>1 DEF started, opened, stopped
    <3> QED
      BY <1>4, <2>2, <3>1, <3>2 DEF RecorderInv, Numbering
  <2> QED
    BY <2>1, <2>2
<1>7. Frames'
  <2>1. ASSUME NEW v \in FrameWriters PROVE FrameOf(v)'
    BY <1>4, <1>5, <1>6 DEF RecorderInv, Frames, FrameOf
  <2> QED
    BY <1>4, <2>1, NoFrameFacts DEF RecorderInv, Frames
<1>8. /\ uncounted(n)' = uncounted(n) /\ adding(n)' = adding(n) /\ past(n)' = past(n) \ {w}
      /\ w \in past(n) /\ uncounted(n) \subseteq past(n) \ {w}
      /\ \A v \in adding(n) : frame'[v] = frame[v]
  BY <1>1, <1>2, <1>5, NoFrameFacts DEF uncounted, adding, past, writersOf
<1>9. Counted(n)'
  BY <1>4, <1>6, <1>8 DEF RecorderInv, Counted
<1>10. Limited(n)'
  <2>1. SUFFICES ASSUME n \notin overlapped
                 PROVE  /\ recording[n].onDisk <= MaxFrames + Cardinality(FrameWriters)
                        /\ n \in opened' => recording[n].onDisk <= MaxFrames + Cardinality(past(n)')
    BY <1>4, <1>6 DEF Limited
  <2>2. recording[n].onDisk <= MaxFrames + Cardinality(FrameWriters)
    BY <2>1 DEF RecorderInv, Limited
  <2>3. ASSUME n \in opened' PROVE recording[n].onDisk <= MaxFrames + Cardinality(past(n)')
    <3>1. ~ full
      BY <1>2, <1>3, <1>6, <2>3, NoFrameFacts
    <3>2. recording[n].bytes <= MaxFrames /\ recording[n].bytes \in Nat /\ MaxFrames \in Nat
      BY <3>1, RecordedSizes, RecorderAssumption
    <3>3. recording[n].onDisk = recording[n].bytes + Cardinality(uncounted(n))
      BY <2>1 DEF RecorderInv, Counted
    <3>4. Cardinality(uncounted(n)) <= Cardinality(past(n)') /\ Cardinality(uncounted(n)) \in Nat
          /\ Cardinality(past(n)') \in Nat
      <4>1. past(n)' \subseteq FrameWriters /\ uncounted(n) \subseteq past(n)'
        BY <1>8 DEF past, writersOf
      <4>2. IsFiniteSet(past(n)')
        BY <4>1, FS_Subset, RecorderAssumption
      <4> QED
        BY <4>1, <4>2, FS_Subset, FS_CardinalityType
    <3> QED
      BY <3>2, <3>3, <3>4
  <2> QED
    BY <2>2, <2>3
<1>11. ASSUME NEW m \in 1..MaxRecordings, m # n PROVE Counted(m)' /\ Limited(m)'
  BY <1>2, <1>4, <1>5, <1>6, <1>11, NoFrameFacts, Elsewhere
<1>12. \A m \in stopped : recording'[m].onDisk = recording[m].onDisk
  BY <1>6 DEF stopped
<1> QED
  BY <1>6, <1>7, <1>9, <1>10, <1>11, <1>12 DEF RecorderInv

LEMMA RecorderNextInv ==
  ASSUME RecorderInv, RecorderNext
  PROVE  /\ RecorderInv'
         /\ \A m \in stopped : recording'[m].onDisk = recording[m].onDisk
<1>1. ASSUME NEW id \in SessionIDs, StartRecording(id)
      PROVE  RecorderInv' /\ \A m \in stopped : recording'[m].onDisk = recording[m].onDisk
  <2>1. RecorderInv' /\ stopped' = stopped
    BY <1>1, StartKeeps
  <2>2. \A m \in stopped : m # Cardinality(started) + 1
    <3>1. PICK k \in 0..MaxRecordings : started = 1..k
      BY DEF RecorderInv, Numbering
    <3>2. Cardinality(1..k) = k
      BY FS_Interval
    <3>3. \A m \in stopped : m \in started
      BY DEF stopped, started, Unused
    <3> QED
      BY <3>1, <3>2, <3>3
  <2>3. \A m \in stopped : recording'[m] = recording[m]
    BY <1>1, <2>2 DEF StartRecording, RecorderInv, Numbering, stopped
  <2> QED
    BY <2>1, <2>3
<1>2. ASSUME NEW id \in SessionIDs, StopRecording(id) \/ DeleteRecording(id)
      PROVE  RecorderInv' /\ \A m \in stopped : recording'[m].onDisk = recording[m].onDisk
  BY <1>2, EndKeeps DEF stopped
<1>3. ASSUME NEW w \in FrameWriters, NEW id \in SessionIDs, RecordFrame(w, id)
      PROVE  RecorderInv' /\ \A m \in stopped : recording'[m].onDisk = recording[m].onDisk
  BY <1>3, BeginKeeps DEF RecordFrame
<1>4. ASSUME NEW w \in FrameWriters, ReadCount(w)
      PROVE  RecorderInv' /\ \A m \in stopped : recording'[m].onDisk = recording[m].onDisk
  BY <1>4, ReadKeeps DEF ReadCount
<1> QED
  BY <1>1, <1>2, <1>3, <1>4, WriteKeeps, AddKeeps, CompareKeeps DEF RecorderNext

LEMMA RecorderStepInv == RecorderInv /\ [RecorderNext]_recorderVars => RecorderInv'
<1> SUFFICES ASSUME RecorderInv, UNCHANGED recorderVars PROVE RecorderInv'
  BY RecorderNextInv
<1>1. started' = started /\ opened' = opened /\ stopped' = stopped
  BY DEF started, opened, stopped, recorderVars
<1>2. Numbering'
  BY <1>1 DEF RecorderInv, Numbering, recorderVars
<1>3. Frames'
  BY <1>1 DEF RecorderInv, Frames, FrameOf, recorderVars
<1>4. ASSUME NEW n \in 1..MaxRecordings PROVE Counted(n)' /\ Limited(n)'
  <2>1. writersOf(n)' = writersOf(n)
    BY DEF writersOf, recorderVars
  <2>2. frame' = frame /\ recording' = recording /\ overlapped' = overlapped
    BY DEF recorderVars
  <2> QED
    BY <1>1, <2>1, <2>2, Unmoved DEF RecorderInv
<1> QED
  BY <1>2, <1>3, <1>4 DEF RecorderInv

\* However writers, stops and deletions interleave, a recording's count follows
\* what is on disk, its size its limit, and what was stopped stays as it is
\* (session_recording.go:63-133).
THEOREM RecordingSoundHolds == RecorderSpec => RecordingSound
<1>1. RecorderInv => CountFollowsDisk /\ RecordingBounded
  <2> SUFFICES ASSUME RecorderInv, NEW n \in 1..MaxRecordings
               PROVE  /\ recording[n].bytes <= recording[n].onDisk
                      /\ n \notin overlapped => recording[n].onDisk = recording[n].bytes + Cardinality(uncounted(n))
                      /\ n \notin overlapped => recording[n].onDisk <= MaxFrames + Cardinality(FrameWriters)
    BY DEF CountFollowsDisk, RecordingBounded
  <2>1. Cardinality(uncounted(n)) \in Nat
    <3>1. uncounted(n) \subseteq FrameWriters
      BY DEF uncounted, writersOf
    <3> QED
      BY <3>1, RecorderAssumption, FS_Subset, FS_CardinalityType
  <2>2. Counted(n) /\ Limited(n)
    BY DEF RecorderInv
  <2> QED
    BY <2>1, <2>2, RecordedSizes DEF Counted, Limited
<1>2. RecorderInv /\ [RecorderNext]_recorderVars =>
        [\A n \in 1..MaxRecordings :
           recording[n].state = "stopped" => recording'[n].onDisk = recording[n].onDisk]_recorderVars
  BY RecorderNextInv DEF stopped
<1> QED
  BY <1>1, <1>2, RecorderInitInv, RecorderStepInv, PTL DEF RecorderSpec, RecordingSound, StoppedIsFixed

-----------------------------------------------------------------------------
(***************************************************************************)
(* Firewall rules.                                                          *)
(***************************************************************************)
\* The rules are numbered.
LEMMA RuleNumbers ==
  /\ NumShared \in Nat /\ MaxRules \in Nat /\ NoRule \notin Rule
  /\ \A i \in RuleIds : i \in Nat
<1>1. NumShared \in Nat /\ MaxRules \in Nat /\ NoRule \notin Rule
  BY FirewallAssumption
<1> QED
  BY <1>1 DEF RuleIds

\* A list names a rule once at most.
Once(list, i) == \A m, n \in 1..Len(list) : list[m] = i /\ list[n] = i => m = n

\* Of some numbers one is the least.
LEMMA LeastOf ==
  ASSUME NEW T, T \subseteq Nat, T # {}
  PROVE  Min(T) \in T /\ \A n \in T : Min(T) <= n
<1> DEFINE R == {ss \in Nat \X Nat : ss[1] < ss[2]}
<1>1. IsWellFoundedOn(R, Nat)
  BY NatLessThanWellFounded DEF OpToRel
<1>2. \E x \in T : \A y \in T : ~ (<<y, x>> \in R)
  <2> HIDE DEF R
  <2> QED
    BY <1>1, WFMin
<1>3. \E x \in T : \A y \in T : x <= y
  <2>1. PICK x \in T : \A y \in T : ~ (<<y, x>> \in R)
    BY <1>2
  <2>2. ASSUME NEW y \in T PROVE x <= y
    <3>1. x \in Nat /\ y \in Nat
      OBVIOUS
    <3>2. y < x => <<y, x>> \in R
      BY <3>1
    <3> QED
      BY <2>1, <3>1, <3>2
  <2> QED
    BY <2>2
<1> QED
  BY <1>3 DEF Min

\* What is left of a list without the rule at d.
LEMMA RemovedAt ==
  ASSUME NEW S, NEW list \in Seq(S), NEW d \in 1..Len(list)
  PROVE  /\ RemoveAt(list, d) \in Seq(S) /\ Len(RemoveAt(list, d)) = Len(list) - 1
         /\ \A k \in 1..Len(list) - 1 : RemoveAt(list, d)[k] = IF k < d THEN list[k] ELSE list[k + 1]
<1> DEFINE l == SubSeq(list, 1, d - 1)  r == SubSeq(list, d + 1, Len(list))
<1>0. Len(list) \in Nat /\ d \in Nat
  BY LenProperties
<1>1. /\ l \in Seq(S) /\ Len(l) = d - 1
      /\ \A k \in 1..d - 1 : l[k] = list[k]
  BY <1>0
<1>2. /\ r \in Seq(S) /\ Len(r) = Len(list) - d
      /\ \A k \in 1..Len(list) - d : r[k] = list[k + d]
  BY <1>0
<1> HIDE DEF l, r
<1>3. /\ l \o r \in Seq(S) /\ Len(l \o r) = Len(list) - 1
      /\ \A k \in 1..Len(list) - 1 : (l \o r)[k] = IF k < d THEN list[k] ELSE list[k + 1]
  <2>1. l \o r \in Seq(S)
    BY <1>1, <1>2
  <2>2. ASSUME NEW k \in 1..Len(list) - 1
        PROVE  (l \o r)[k] = IF k < d THEN list[k] ELSE list[k + 1]
    <3>1. (l \o r)[k] = IF k <= Len(l) THEN l[k] ELSE r[k - Len(l)]
      BY <1>0, <1>1, <1>2, <2>2
    <3>2. CASE k < d
      BY <1>0, <1>1, <3>1, <3>2
    <3>3. CASE ~ (k < d)
      BY <1>0, <1>1, <1>2, <3>1, <3>3
    <3> QED
      BY <3>2, <3>3
  <2>3. Len(l \o r) = Len(list) - 1
    <3>1. Len(l \o r) = Len(l) + Len(r)
      BY <1>1, <1>2, ConcatProperties
    <3> QED
      BY <1>0, <1>1, <1>2, <3>1
  <2> QED
    BY <2>1, <2>2, <2>3
<1> QED
  BY <1>3 DEF RemoveAt, l, r

\* A rule listed once is not listed any more, and nothing is listed more often.
LEMMA WithoutRule ==
  ASSUME NEW S, NEW list \in Seq(S), NEW i
  PROVE  /\ without(list, i) \in Seq(S)
         /\ Once(list, i) => i \notin ToSet(without(list, i))
         /\ \A j : j \notin ToSet(list) => j \notin ToSet(without(list, i))
         /\ \A j : Once(list, j) => Once(without(list, i), j)
<1>0. Len(list) \in Nat
  BY LenProperties
<1> DEFINE at == {n \in DOMAIN list : list[n] = i}
<1>1. CASE at = {}
  BY <1>1 DEF without, ToSet, Once
<1>2. CASE at # {}
  <2> DEFINE d == Min(at)
             left == RemoveAt(list, d)
  <2>1. d \in 1..Len(list) /\ list[d] = i
    <3>1. at \subseteq Nat /\ at \subseteq 1..Len(list)
      BY LenProperties
    <3>2. d \in at
      BY <1>2, <3>1, LeastOf
    <3> QED
      BY <3>1, <3>2
  <2>2. without(list, i) = left
    BY <1>2 DEF without
  <2> HIDE DEF d, left
  <2>3. /\ left \in Seq(S) /\ Len(left) = Len(list) - 1
        /\ \A k \in 1..Len(list) - 1 : left[k] = IF k < d THEN list[k] ELSE list[k + 1]
    BY <2>1, RemovedAt DEF left
  <2>4. DOMAIN left = 1..Len(list) - 1 /\ DOMAIN list = 1..Len(list)
    BY <2>3, LenProperties
  <2>5. Once(list, i) => i \notin ToSet(left)
    BY <1>0, <2>1, <2>3, <2>4 DEF Once, ToSet
  <2>6. \A j : j \notin ToSet(list) => j \notin ToSet(left)
    BY <1>0, <2>1, <2>3, <2>4 DEF ToSet
  <2>7. ASSUME NEW j, Once(list, j) PROVE Once(left, j)
    <3>1. SUFFICES ASSUME NEW m \in 1..Len(list) - 1, NEW n \in 1..Len(list) - 1, left[m] = j, left[n] = j
                   PROVE  m = n
      BY <2>3 DEF Once
    <3> DEFINE was(k) == IF k < d THEN k ELSE k + 1
    <3>2. /\ was(m) \in 1..Len(list) /\ list[was(m)] = j
          /\ was(n) \in 1..Len(list) /\ list[was(n)] = j
      BY <1>0, <2>1, <2>3, <3>1
    <3>3. was(m) = was(n)
      BY <2>7, <3>2 DEF Once
    <3> QED
      BY <2>1, <3>3, <1>0
  <2> QED
    BY <2>2, <2>3, <2>5, <2>6, <2>7
<1> QED
  BY <1>1, <1>2

\* A group lists a rule once at most if it was given it once, and does not list
\* it any more once it is deleted; rules that are still to come are not there.
GroupKept(g) ==
  groups[g] # NoGroup =>
    /\ groups[g].rules \in Seq(0..MaxRules) /\ groups[g].once \subseteq RuleIds
    /\ \A i \in groups[g].once :
         Once(groups[g].rules, i) /\ (rules[i] = NoRule => i \notin ToSet(groups[g].rules))

FirewallInv ==
  /\ rules \in [RuleIds -> Rule \cup {NoRule}] /\ rulesMade \in Nat
  /\ \A i \in RuleIds : i > rulesMade => rules[i] = NoRule
  /\ DOMAIN groups = SecurityGroups
  /\ \A g \in SecurityGroups : GroupKept(g)

LEMMA FirewallInitInv == FirewallInit => FirewallInv
<1> SUFFICES ASSUME FirewallInit PROVE FirewallInv
  OBVIOUS
<1> DEFINE seeded == [owner |-> "", action |-> "allow", enabled |-> TRUE, priority |-> 100]
<1>1. seeded \in Rule
  BY DEF Rule
<1>2. rules = [i \in RuleIds |-> IF i <= NumShared THEN seeded ELSE NoRule]
  BY DEF FirewallInit, seedDefaults
<1> HIDE DEF seeded
<1>3. rules \in [RuleIds -> Rule \cup {NoRule}] /\ \A i \in RuleIds : i > NumShared => rules[i] = NoRule
  BY <1>1, <1>2, RuleNumbers
<1> QED
  BY <1>3, RuleNumbers DEF FirewallInit, FirewallInv, GroupKept

\* A new rule is in no group that was to follow its deletion.
LEMMA CreatedKeeps ==
  ASSUME FirewallInv, rulesMade < MaxRules, rulesMade' = rulesMade + 1, NEW new \in Rule,
         rules' = [rules EXCEPT ![rulesMade'] = new], groups' = groups
  PROVE  /\ FirewallInv'
         /\ \A i \in RuleIds : rules[i] # NoRule => rules'[i] = rules[i]
<1>0. MaxRules \in Nat /\ rulesMade \in Nat /\ \A i \in RuleIds : i \in Nat
  BY RuleNumbers DEF FirewallInv
<1>1. rulesMade + 1 \in RuleIds /\ rules[rulesMade + 1] = NoRule
  <2>1. rulesMade + 1 \in RuleIds
    BY <1>0 DEF RuleIds
  <2> QED
    BY <1>0, <2>1 DEF FirewallInv
<1>3. /\ rules' \in [RuleIds -> Rule \cup {NoRule}]
      /\ \A i \in RuleIds : i # rulesMade + 1 => rules'[i] = rules[i]
      /\ groups' = groups
  BY <1>1 DEF FirewallInv
<1>4. \A i \in RuleIds : i > rulesMade' => rules'[i] = NoRule
  BY <1>0, <1>1, <1>3 DEF FirewallInv
<1>5. ASSUME NEW g \in SecurityGroups PROVE GroupKept(g)'
  BY <1>1, <1>3 DEF FirewallInv, GroupKept
<1> QED
  BY <1>1, <1>3, <1>4, <1>5 DEF FirewallInv

\* A changed rule stays a rule.
LEMMA ChangedKeeps ==
  ASSUME FirewallInv, NEW j \in RuleIds, rules[j] \in Rule, NEW new \in Rule,
         rules' = [rules EXCEPT ![j] = new], rulesMade' = rulesMade, groups' = groups
  PROVE  /\ FirewallInv'
         /\ \A i \in RuleIds : i # j => rules'[i] = rules[i]
<1>3. /\ rules' \in [RuleIds -> Rule \cup {NoRule}]
      /\ \A i \in RuleIds : i # j => rules'[i] = rules[i]
      /\ \A i \in RuleIds : rules'[i] = NoRule <=> rules[i] = NoRule
  BY RuleNumbers DEF FirewallInv
<1>4. ASSUME NEW g \in SecurityGroups PROVE GroupKept(g)'
  BY <1>3, <1>4 DEF FirewallInv, GroupKept
<1> QED
  BY <1>3, <1>4 DEF FirewallInv

LEMMA DeletedKeeps ==
  ASSUME FirewallInv, NEW u \in Moderators, NEW j \in RuleIds, DeleteRule(u, j)
  PROVE  /\ FirewallInv'
         /\ \A i \in RuleIds : i # j => rules'[i] = rules[i]
<1>1. /\ rules' \in [RuleIds -> Rule \cup {NoRule}] /\ rulesMade' = rulesMade
      /\ \A i \in RuleIds : i # j => rules'[i] = rules[i]
      /\ rules'[j] = NoRule
  BY DEF DeleteRule, FirewallInv
<1>2. ASSUME NEW g \in SecurityGroups PROVE GroupKept(g)'
  <2> DEFINE list == groups[g].rules
  <2>1. groups'[g] = IF groups[g] = NoGroup THEN NoGroup ELSE [groups[g] EXCEPT !.rules = without(list, j)]
    BY DEF DeleteRule
  <2>2. CASE groups[g] = NoGroup
    BY <2>1, <2>2 DEF GroupKept
  <2>3. CASE groups[g] # NoGroup
    <3>1. /\ list \in Seq(0..MaxRules) /\ groups[g].once \subseteq RuleIds
          /\ \A i \in groups[g].once : Once(list, i) /\ (rules[i] = NoRule => i \notin ToSet(list))
      BY <2>3 DEF FirewallInv, GroupKept
    <3>2. groups'[g].rules = without(list, j) /\ groups'[g].once = groups[g].once
      BY <2>1, <2>3
    <3>3. ASSUME NEW i \in groups[g].once
          PROVE  /\ Once(without(list, j), i)
                 /\ rules'[i] = NoRule => i \notin ToSet(without(list, j))
      <4>1. CASE i = j
        BY <3>1, <4>1, WithoutRule
      <4>2. CASE i # j
        BY <1>1, <3>1, <4>2, WithoutRule
      <4> QED
        BY <4>1, <4>2
    <3>4. without(list, j) \in Seq(0..MaxRules)
      BY <3>1, WithoutRule
    <3> QED
      BY <3>1, <3>2, <3>3, <3>4 DEF GroupKept
  <2> QED
    BY <2>2, <2>3
<1>3. \A i \in RuleIds : i > rulesMade' => rules'[i] = NoRule
  BY <1>1 DEF FirewallInv
<1>4. DOMAIN groups' = SecurityGroups
  BY DEF DeleteRule
<1> QED
  BY <1>1, <1>2, <1>3, <1>4 DEF FirewallInv

\* A group may be made with any list; what is listed once is remembered.
LEMMA GroupMadeKeeps ==
  ASSUME FirewallInv, NEW u \in Moderators, NEW g \in SecurityGroups, NEW list \in RuleLists,
         NEW owner, CreateGroup(u, g, list, owner)
  PROVE  FirewallInv' /\ rules' = rules
<1> DEFINE once == {i \in RuleIds : rules[i] # NoRule /\ Cardinality({n \in DOMAIN list : list[n] = i}) = 1}
<1>1. rules' = rules /\ rulesMade' = rulesMade
  BY DEF CreateGroup
<1>2. PICK by : groups' = [groups EXCEPT ![g] = [owner |-> by, rules |-> list, vms |-> {}, once |-> once]]
  BY DEF CreateGroup
<1>3. ASSUME NEW i \in once PROVE Once(list, i)
  <2>1. PICK n : {k \in DOMAIN list : list[k] = i} = {n}
    <3>1. Cardinality({k \in DOMAIN list : list[k] = i}) = 1 /\ IsFiniteSet({k \in DOMAIN list : list[k] = i})
      <4>1. DOMAIN list = 1..Len(list) /\ Len(list) \in Nat
        BY FirewallAssumption, LenProperties
      <4>2. IsFiniteSet(1..Len(list))
        BY <4>1, FS_Interval
      <4> QED
        BY <4>1, <4>2, FS_Subset
    <3> QED
      BY <3>1, FS_Singleton
  <2> QED
    <3>1. DOMAIN list = 1..Len(list)
      BY FirewallAssumption, LenProperties
    <3> QED
      BY <2>1, <3>1 DEF Once
<1>4. \A i \in once : rules[i] # NoRule
  OBVIOUS
<1>5. once \subseteq RuleIds /\ list \in Seq(0..MaxRules)
  BY FirewallAssumption
<1> HIDE DEF once
<1>6. ASSUME NEW h \in SecurityGroups PROVE GroupKept(h)'
  <2>1. CASE h = g
    <3>1. groups'[g].rules = list /\ groups'[g].once = once
      BY <1>2 DEF FirewallInv
    <3> QED
      BY <1>1, <1>3, <1>4, <1>5, <2>1, <3>1 DEF GroupKept
  <2>2. CASE h # g
    <3>1. groups'[h] = groups[h]
      BY <1>2, <2>2 DEF FirewallInv
    <3> QED
      BY <1>1, <3>1 DEF FirewallInv, GroupKept
  <2> QED
    BY <2>1, <2>2
<1>7. DOMAIN groups' = SecurityGroups
  BY <1>2 DEF FirewallInv
<1> QED
  BY <1>1, <1>6, <1>7 DEF FirewallInv

LEMMA AssignedKeeps ==
  ASSUME FirewallInv, NEW g \in SecurityGroups, NEW vm, AssignGroupToVM(g, vm)
  PROVE  FirewallInv' /\ rules' = rules
<1>1. rules' = rules /\ rulesMade' = rulesMade /\ DOMAIN groups' = SecurityGroups
  BY DEF AssignGroupToVM, FirewallInv
<1>2. ASSUME NEW h \in SecurityGroups PROVE GroupKept(h)'
  <2>1. /\ groups'[h].rules = groups[h].rules /\ groups'[h].once = groups[h].once
        /\ groups'[h] # NoGroup => groups[h] # NoGroup
    BY DEF AssignGroupToVM, FirewallInv
  <2> QED
    BY <1>1, <2>1 DEF FirewallInv, GroupKept
<1> QED
  BY <1>1, <1>2 DEF FirewallInv

LEMMA Priorities ==
  /\ \A p \in {0, 1} : (IF p = 0 THEN 500 ELSE p) \in Int
  /\ \A p \in {1} : p \in Int
OBVIOUS

\* What CreateRule makes is a rule, and what UpdateRule leaves is one.
LEMMA CreatesRule ==
  ASSUME NEW u \in Moderators, NEW action \in {"", "bogus"}, NEW enabled \in BOOLEAN,
         NEW priority \in {0, 1}, CreateRule(u, action, enabled, priority)
  PROVE  \E new \in Rule : rules' = [rules EXCEPT ![rulesMade'] = new]
<1> DEFINE chosen == IF action = "" THEN "allow" ELSE action
           level == IF priority = 0 THEN 500 ELSE priority
           new == [owner |-> u, action |-> chosen, enabled |-> enabled, priority |-> level]
<1>1. rules' = [rules EXCEPT ![rulesMade'] = new]
  BY DEF CreateRule
<1>2. level \in Int
  BY Priorities
<1>3. chosen \in {"allow", "bogus"}
  OBVIOUS
<1> HIDE DEF chosen, level
<1>4. new \in Rule
  BY <1>2, <1>3 DEF Rule
<1> QED
  BY <1>1, <1>4

LEMMA UpdatesRule ==
  ASSUME FirewallInv, NEW u \in Moderators, NEW j \in RuleIds,
         NEW update \in [enabled : {FALSE}, action : {"", "deny", "bogus"}, priority : {1}],
         UpdateRule(u, j, update)
  PROVE  rules[j] \in Rule /\ \E new \in Rule : rules' = [rules EXCEPT ![j] = new]
<1> DEFINE switched == [rules[j] EXCEPT !.enabled = update.enabled]
           action == IF update.action = "" THEN rules[j].action ELSE update.action
           level == update.priority
           set == [switched EXCEPT !.action = action, !.priority = level]
<1>1. rules[j] \in Rule
  BY DEF UpdateRule, FirewallInv
<1>2. switched \in Rule
  BY <1>1 DEF Rule
<1>3. level \in Int
  <2>1. level \in {1}
    OBVIOUS
  <2> QED
    BY <2>1, Priorities
<1>4. update.action \in {"", "allow", "deny"} => action \in {"allow", "deny", "bogus"}
  BY <1>1 DEF Rule
<1>5. rules' = [rules EXCEPT ![j] = IF update.action \notin {"", "allow", "deny"} THEN switched ELSE set]
  BY DEF UpdateRule
<1> HIDE DEF switched, action, level
<1>6. update.action \in {"", "allow", "deny"} => set \in Rule
  BY <1>2, <1>3, <1>4 DEF Rule
<1> HIDE DEF set
<1> QED
  BY <1>1, <1>2, <1>5, <1>6

\* Every call keeps the invariant, and changes only a rule the caller may
\* change.
LEMMA CalledKeeps ==
  ASSUME FirewallInv, NEW u \in Moderators, Called(u)
  PROVE  /\ FirewallInv'
         /\ \A i \in RuleIds : rules[i] # NoRule /\ rules'[i] # rules[i] => mayChange(u, i)
<1>1. ASSUME NEW action \in {"", "bogus"}, NEW enabled \in BOOLEAN, NEW priority \in {0, 1},
             CreateRule(u, action, enabled, priority)
      PROVE  FirewallInv' /\ \A i \in RuleIds : rules[i] # NoRule => rules'[i] = rules[i]
  <2>1. PICK new \in Rule : rules' = [rules EXCEPT ![rulesMade'] = new]
    BY <1>1, CreatesRule
  <2>2. rulesMade < MaxRules /\ rulesMade' = rulesMade + 1 /\ groups' = groups
    BY <1>1 DEF CreateRule
  <2> QED
    BY <2>1, <2>2, CreatedKeeps
<1>2. ASSUME NEW j \in RuleIds,
             NEW update \in [enabled : {FALSE}, action : {"", "deny", "bogus"}, priority : {1}],
             UpdateRule(u, j, update)
      PROVE  FirewallInv' /\ mayChange(u, j) /\ \A i \in RuleIds : i # j => rules'[i] = rules[i]
  <2>1. PICK new \in Rule : rules[j] \in Rule /\ rules' = [rules EXCEPT ![j] = new]
    BY <1>2, UpdatesRule
  <2>2. rulesMade' = rulesMade /\ groups' = groups /\ mayChange(u, j)
    BY <1>2 DEF UpdateRule
  <2> QED
    BY <2>1, <2>2, ChangedKeeps
<1>3. ASSUME NEW j \in RuleIds, DeleteRule(u, j)
      PROVE  FirewallInv' /\ mayChange(u, j) /\ \A i \in RuleIds : i # j => rules'[i] = rules[i]
  BY <1>3, DeletedKeeps DEF DeleteRule
<1>4. ASSUME NEW g \in SecurityGroups, NEW list \in RuleLists, NEW owner, CreateGroup(u, g, list, owner)
      PROVE  FirewallInv' /\ rules' = rules
  BY <1>4, GroupMadeKeeps
<1>5. ASSUME NEW g \in SecurityGroups, NEW vm, AssignGroupToVM(g, vm)
      PROVE  FirewallInv' /\ rules' = rules
  BY <1>5, AssignedKeeps
<1> QED
  BY <1>1, <1>2, <1>3, <1>4, <1>5 DEF Called

LEMMA FirewallNextInv == FirewallInv /\ [FirewallNext]_firewallVars => FirewallInv'
<1>1. FirewallInv /\ FirewallNext => FirewallInv'
  BY CalledKeeps DEF FirewallNext
<1>2. FirewallInv /\ UNCHANGED firewallVars => FirewallInv'
  BY DEF FirewallInv, GroupKept, Once, ToSet, firewallVars
<1> QED
  BY <1>1, <1>2

\* A call changes no rule that is shared or another's unless an admin makes it,
\* and none the caller is not shown; a deleted rule leaves every group that
\* listed it once (firewall.go:138-323).
THEOREM RulesKeptHolds == FirewallSpec => RulesKept
<1>1. FirewallInv => GroupsFollowDeletion
  BY DEF FirewallInv, GroupKept, GroupsFollowDeletion
<1>2. FirewallInv /\ [FirewallNext]_firewallVars =>
        [\A i \in RuleIds :
           rules[i] # NoRule /\ rules'[i] # rules[i]
             => /\ caller' \in RuleAdmins \/ rules[i].owner = caller'
                /\ i \in ListRules(caller')]_firewallVars
  <2> SUFFICES ASSUME FirewallInv, FirewallNext, NEW i \in RuleIds, rules[i] # NoRule, rules'[i] # rules[i]
               PROVE  /\ caller' \in RuleAdmins \/ rules[i].owner = caller'
                      /\ i \in ListRules(caller')
    OBVIOUS
  <2>1. PICK u \in Moderators : Called(u)
    BY DEF FirewallNext
  <2>2. mayChange(u, i) /\ caller' = u
    BY <2>1, CalledKeeps DEF Called
  <2> QED
    BY <2>2 DEF mayChange, ListRules
<1> QED
  BY <1>1, <1>2, FirewallInitInv, FirewallNextInv, PTL DEF FirewallSpec, RulesKept, OthersRulesStay

-----------------------------------------------------------------------------
(***************************************************************************)
(* The cache of host names.                                                 *)
(***************************************************************************)
DNSTypes ==
  /\ address \in [Names -> Nat \ {0}] /\ entries \in [Names -> Nat] /\ dialledTo \in [Names -> Nat]
  /\ expired \subseteq Names /\ crossed \subseteq Names
  /\ looking \in [Lookers -> [name : Names \cup {NoName}, version : Nat]]
  /\ \A k \in Lookers : looking[k].version # 0 => looking[k].name # NoName

\* Nobody knows a version that is still to come.
NoneFromTheFuture ==
  /\ \A h \in Names : dialledTo[h] <= address[h] /\ entries[h] <= address[h]
  /\ \A k \in Lookers, h \in Names : looking[k].name = h => looking[k].version <= address[h]

\* Of a name that was never asked for twice at once one look-up at most is
\* under way, the cache does not answer for it meanwhile, and what the look-up
\* is about to store is as new as what was dialled.
OneLooks(h) ==
  /\ \A k, l \in Lookers : looking[k].name = h /\ looking[l].name = h => k = l
  /\ \A k \in Lookers : looking[k].name = h =>
       /\ h \in cached => h \in expired
       /\ looking[k].version # 0 => looking[k].version >= dialledTo[h]
  /\ h \in cached => entries[h] >= dialledTo[h]

DNSInv ==
  /\ DNSTypes /\ NoneFromTheFuture
  /\ \A h \in Names : h \notin crossed => OneLooks(h)
  /\ IsFiniteSet(cached) /\ DNSBounded

\* Making room leaves room for one.
LEMMA KeptLeavesRoom ==
  ASSUME IsFiniteSet(cached), DNSBounded, NEW others \in kept, NEW h
  PROVE  /\ others \subseteq cached /\ IsFiniteSet(others \cup {h})
         /\ Cardinality(others \cup {h}) <= MaxEntries
<1> DEFINE live == cached \ expired
<1>1. IsFiniteSet(live) /\ Cardinality(live) <= Cardinality(cached)
  BY FS_Subset
<1>2. others \subseteq cached /\ IsFiniteSet(others) /\ Cardinality(others) < MaxEntries
  <2>1. CASE others = cached /\ Cardinality(cached) < MaxEntries
    BY <2>1
  <2>2. CASE others = live /\ Cardinality(live) < MaxEntries
    BY <2>2, <1>1
  <2>3. ASSUME NEW g \in live, others = live \ {g} 
      PROVE  others \subseteq cached /\ IsFiniteSet(others) /\ Cardinality(others) < MaxEntries
    <3>1. Cardinality(others) = Cardinality(live) - 1 /\ IsFiniteSet(others)
      BY <1>1, <2>3, FS_RemoveElement
    <3>2. Cardinality(live) \in Nat /\ Cardinality(cached) \in Nat
      BY <1>1, FS_CardinalityType
    <3>3. Cardinality(others) < MaxEntries
      BY <3>1, <3>2, <1>1, DNSAssumption DEF DNSBounded
    <3> QED
      BY <2>3, <3>1, <3>3
  <2> QED
    BY <2>1, <2>2, <2>3 DEF kept
<1>3. IsFiniteSet(others \cup {h}) /\ Cardinality(others \cup {h}) <= Cardinality(others) + 1
  <2>0. Cardinality(others) \in Nat
    BY <1>2, FS_CardinalityType
  <2>1. CASE h \in others
    <3>1. others \cup {h} = others
      BY <2>1
    <3> QED
      BY <1>2, <2>0, <3>1
  <2>2. CASE h \notin others
    <3>1. IsFiniteSet(others \cup {h}) /\ Cardinality(others \cup {h}) = Cardinality(others) + 1
      BY <1>2, <2>2, FS_AddElement
    <3> QED
      BY <2>0, <3>1
  <2> QED
    BY <2>1, <2>2
<1> QED
  BY <1>2, <1>3, FS_CardinalityType, DNSAssumption

LEMMA DNSInitInv == DNSInit => DNSInv
<1> SUFFICES ASSUME DNSInit PROVE DNSInv
  OBVIOUS
<1>1. cached = {} /\ IsFiniteSet({}) /\ Cardinality({}) = 0
  BY FS_EmptySet DEF DNSInit, cached
<1>2. \A h \in Names : ~ (\E k \in Lookers : looking[k].name = h)
  BY DNSAssumption DEF DNSInit, NotLooking
<1>3. DNSTypes /\ NoneFromTheFuture
  BY <1>2 DEF DNSInit, DNSTypes, NoneFromTheFuture, NotLooking
<1>4. \A h \in Names : OneLooks(h)
  BY <1>1, <1>2 DEF OneLooks
<1> QED
  BY <1>1, <1>3, <1>4, DNSAssumption DEF DNSInv, DNSBounded

\* Steps outside the cache: what is dialled, asked, answered and moved.
LEMMA DNSOutside ==
  ASSUME DNSInv, entries' = entries,
         \/ \E h \in Names : LookupCached(h) \/ Move(h)
         \/ \E k \in Lookers :
              (\E h \in Names : AskResolver(k, h)) \/ ResolverAnswers(k) \/ ResolverFails(k)
  PROVE  DNSInv'
<1> USE DNSAssumption
<1>0. cached' = cached
  BY DEF cached
<1>1. ASSUME NEW h \in Names, LookupCached(h)
      PROVE  DNSInv'
  <2>1. DNSTypes' /\ NoneFromTheFuture'
    BY <1>1 DEF DNSInv, DNSTypes, NoneFromTheFuture, LookupCached, dial
  <2>2. ASSUME NEW g \in Names, g \notin crossed' PROVE OneLooks(g)'
    BY <1>0, <1>1, <2>2 DEF DNSInv, DNSTypes, OneLooks, LookupCached, dial
  <2> QED
    BY <1>0, <2>1, <2>2 DEF DNSInv, DNSBounded
<1>2. ASSUME NEW h \in Names, Move(h)
      PROVE  DNSInv'
  <2>1. DNSTypes' /\ NoneFromTheFuture'
    BY <1>2 DEF DNSInv, DNSTypes, NoneFromTheFuture, Move
  <2>2. ASSUME NEW g \in Names, g \notin crossed' PROVE OneLooks(g)'
    BY <1>0, <1>2, <2>2 DEF DNSInv, OneLooks, Move
  <2> QED
    BY <1>0, <2>1, <2>2 DEF DNSInv, DNSBounded
<1>3. ASSUME NEW k \in Lookers, NEW h \in Names, AskResolver(k, h)
      PROVE  DNSInv'
  <2>1. DNSTypes' /\ NoneFromTheFuture'
    BY <1>3 DEF DNSInv, DNSTypes, NoneFromTheFuture, AskResolver
  <2>2. ASSUME NEW g \in Names, g \notin crossed' PROVE OneLooks(g)'
    <3>1. OneLooks(g)
      BY <1>3, <2>2 DEF DNSInv, AskResolver
    <3>2. g = h => ~ (\E l \in Lookers : looking[l].name = h)
      BY <1>3, <2>2 DEF AskResolver
    <3> QED
      BY <1>0, <1>3, <3>1, <3>2 DEF DNSInv, DNSTypes, OneLooks, AskResolver
  <2> QED
    BY <1>0, <2>1, <2>2 DEF DNSInv, DNSBounded
<1>4. ASSUME NEW k \in Lookers, ResolverAnswers(k)
      PROVE  DNSInv'
  <2>1. DNSTypes' /\ NoneFromTheFuture'
    BY <1>4 DEF DNSInv, DNSTypes, NoneFromTheFuture, ResolverAnswers
  <2>2. ASSUME NEW g \in Names, g \notin crossed' PROVE OneLooks(g)'
    BY <1>0, <1>4, <2>2 DEF DNSInv, DNSTypes, NoneFromTheFuture, OneLooks, ResolverAnswers
  <2> QED
    BY <1>0, <2>1, <2>2 DEF DNSInv, DNSBounded
<1>5. ASSUME NEW k \in Lookers, ResolverFails(k)
      PROVE  DNSInv'
  <2>1. DNSTypes' /\ NoneFromTheFuture'
    BY <1>5 DEF DNSInv, DNSTypes, NoneFromTheFuture, ResolverFails, NotLooking
  <2>2. ASSUME NEW g \in Names, g \notin crossed' PROVE OneLooks(g)'
    BY <1>0, <1>5, <2>2 DEF DNSInv, DNSTypes, OneLooks, ResolverFails, NotLooking
  <2> QED
    BY <1>0, <2>1, <2>2 DEF DNSInv, DNSBounded
<1> QED
  BY <1>1, <1>2, <1>3, <1>4, <1>5

\* Entries that grow old or are thrown out.
LEMMA DNSForgets ==
  ASSUME DNSInv, NEW h \in Names, Expire(h) \/ Refresh(h)
  PROVE  DNSInv'
<1>1. cached' \subseteq cached /\ IsFiniteSet(cached') /\ DNSBounded'
  <2>1. cached' \subseteq cached
    BY DEF DNSInv, DNSTypes, cached, Expire, Refresh
  <2>2. Cardinality(cached') <= Cardinality(cached) /\ IsFiniteSet(cached')
    BY <2>1, FS_Subset DEF DNSInv
  <2>3. Cardinality(cached) \in Nat /\ Cardinality(cached') \in Nat
    BY <2>2, FS_CardinalityType DEF DNSInv
  <2> QED
    BY <2>1, <2>2, <2>3, DNSAssumption DEF DNSInv, DNSBounded
<1>2. DNSTypes' /\ NoneFromTheFuture'
  BY DEF DNSInv, DNSTypes, NoneFromTheFuture, Expire, Refresh
<1>3. ASSUME NEW g \in Names, g \notin crossed' PROVE OneLooks(g)'
  BY <1>3 DEF DNSInv, DNSTypes, OneLooks, Expire, Refresh, cached
<1> QED
  BY <1>1, <1>2, <1>3 DEF DNSInv

\* What the resolver said goes to the cache, in which there is room for it.
LEMMA DNSStores ==
  ASSUME DNSInv, NEW k \in Lookers, StoreAnswer(k)
  PROVE  DNSInv'
<1> DEFINE h == looking[k].name
<1>0. h \in Names /\ looking[k].version \in Nat \ {0} /\ looking[k].version <= address[h]
  BY DEF DNSInv, DNSTypes, NoneFromTheFuture, StoreAnswer
<1>1. PICK others \in kept :
        entries' = [g \in Names |-> IF g = h THEN looking[k].version
                                    ELSE IF g \in others THEN entries[g] ELSE 0]
  BY DEF StoreAnswer
<1> HIDE DEF h
<1>2. others \subseteq cached /\ IsFiniteSet(others \cup {h}) /\ Cardinality(others \cup {h}) <= MaxEntries
  BY KeptLeavesRoom DEF DNSInv
<1>3. cached' \subseteq others \cup {h} /\ IsFiniteSet(cached') /\ DNSBounded'
  <2>1. cached' \subseteq others \cup {h}
    BY <1>1 DEF cached
  <2>2. Cardinality(cached') <= Cardinality(others \cup {h}) /\ IsFiniteSet(cached')
    BY <1>2, <2>1, FS_Subset
  <2>3. Cardinality(others \cup {h}) \in Nat /\ Cardinality(cached') \in Nat
    BY <1>2, <2>2, FS_CardinalityType
  <2> QED
    BY <1>2, <2>1, <2>2, <2>3, DNSAssumption DEF DNSBounded
<1>4. /\ \A g \in Names : entries'[g] \in Nat /\ (g # h => entries'[g] \in {0, entries[g]})
      /\ entries'[h] = looking[k].version
  BY <1>0, <1>1 DEF DNSInv, DNSTypes
<1>5. /\ looking' = [looking EXCEPT ![k] = NotLooking] /\ dial(h, looking[k].version)
      /\ expired' = {g \in expired : entries'[g] # 0} \ {h} /\ UNCHANGED <<address, crossed>>
  BY DEF StoreAnswer, h
<1>6. /\ dialledTo' \in [Names -> Nat] /\ \A g \in Names : g # h => dialledTo'[g] = dialledTo[g]
      /\ dialledTo'[h] \in {dialledTo[h], looking[k].version} /\ dialledTo'[h] >= dialledTo[h]
      /\ dialledTo'[h] >= looking[k].version
  BY <1>0, <1>5 DEF DNSInv, DNSTypes, dial
<1>7. DNSTypes'
  BY <1>1, <1>4, <1>5, <1>6, DNSAssumption DEF DNSInv, DNSTypes, NotLooking
<1>8. NoneFromTheFuture'
  BY <1>0, <1>4, <1>5, <1>6, DNSAssumption DEF DNSInv, DNSTypes, NoneFromTheFuture, NotLooking
<1>9. ASSUME NEW g \in Names, g \notin crossed' PROVE OneLooks(g)'
  <2>1. OneLooks(g)
    BY <1>5, <1>9 DEF DNSInv
  <2>2. \A l \in Lookers : l # k => looking'[l] = looking[l]
    BY <1>5 DEF DNSInv, DNSTypes
  <2>3. looking'[k].name # g
    BY <1>5, DNSAssumption DEF DNSInv, DNSTypes, NotLooking
  <2>4. CASE g = h
    <3>1. \A l \in Lookers : looking'[l].name # g
      BY <2>1, <2>2, <2>3, <2>4 DEF OneLooks, h
    <3>2. dialledTo'[h] = looking[k].version
      BY <1>0, <1>6, <2>1, <2>4 DEF OneLooks, h, DNSInv, DNSTypes
    <3>3. entries'[g] >= dialledTo'[g]
      BY <1>0, <1>4, <2>4, <3>2 DEF DNSInv, DNSTypes
    <3> QED
      BY <3>1, <3>3 DEF OneLooks
  <2>5. CASE g # h
    <3>1. g \in cached' => g \in cached /\ entries'[g] = entries[g]
      BY <1>4, <2>5 DEF cached
    <3>2. g \in expired /\ g \in cached' => g \in expired'
      BY <1>5, <2>5 DEF cached
    <3> QED
      BY <1>6, <2>1, <2>2, <2>3, <2>5, <3>1, <3>2 DEF OneLooks
  <2> QED
    BY <2>4, <2>5
<1> QED
  BY <1>3, <1>5, <1>7, <1>8, <1>9 DEF DNSInv

LEMMA DNSNextInv == DNSInv /\ [DNSNext]_dnsVars => DNSInv'
<1> SUFFICES ASSUME DNSInv, [DNSNext]_dnsVars PROVE DNSInv'
  OBVIOUS
<1>1. CASE UNCHANGED dnsVars
  BY <1>1 DEF dnsVars, DNSInv, DNSTypes, NoneFromTheFuture, OneLooks, cached, DNSBounded
<1>2. CASE \E h \in Names : LookupCached(h) \/ Move(h)
  BY <1>2, DNSOutside DEF LookupCached, Move
<1>3. CASE \E k \in Lookers :
             (\E h \in Names : AskResolver(k, h)) \/ ResolverAnswers(k) \/ ResolverFails(k)
  BY <1>3, DNSOutside DEF AskResolver, ResolverAnswers, ResolverFails
<1>4. CASE \E h \in Names : Expire(h) \/ Refresh(h)
  BY <1>4, DNSForgets
<1>5. CASE \E k \in Lookers : StoreAnswer(k)
  BY <1>5, DNSStores
<1> QED
  BY <1>1, <1>2, <1>3, <1>4, <1>5 DEF DNSNext

\* However look-ups interleave, the cache keeps to its limit, and a name that
\* was never asked for twice at once is never answered with an address older
\* than one that was dialled (dns_cache.go:35-77).
THEOREM NamesSoundHolds == DNSSpec => []NamesSound
<1>1. DNSInv => NamesSound
  BY DEF DNSInv, NamesSound, NeverGoesBack, OneLooks, cached
<1> QED
  BY <1>1, DNSInitInv, DNSNextInv, PTL DEF DNSSpec

-----------------------------------------------------------------------------
(***************************************************************************)
(* Usage.                                                                   *)
(***************************************************************************)
\* A record that was pruned is older than the window, and stays so.
UsageInv ==
  /\ day \in Nat
  /\ records \in [UserIDs -> SUBSET [resource : Resources, startedAt : Nat]]
  /\ tracked \in [UserIDs -> SUBSET [resource : Resources, startedAt : Nat]]
  /\ \A u \in UserIDs :
       /\ records[u] \subseteq tracked[u]
       /\ \A r \in tracked[u] \ records[u] : r.startedAt < day - Window

LEMMA UsageStepInv == UsageInv /\ [UsageNext]_usageVars => UsageInv'
<1> SUFFICES ASSUME UsageInv, [UsageNext]_usageVars PROVE UsageInv'
  OBVIOUS
<1> USE DEF UsageInv
<1>1. Window \in Nat
  BY UsageAssumption
<1>2. ASSUME NEW u \in UserIDs, NEW resource \in Resources, Track(u, resource) PROVE UsageInv'
  <2> DEFINE one == record(resource)
  <2>1. one \in [resource : Resources, startedAt : Nat]
    BY DEF record
  <2> HIDE DEF one
  <2>2. /\ records' = [records EXCEPT ![u] = keptRecords(records[u] \cup {one})]
        /\ tracked' = [tracked EXCEPT ![u] = tracked[u] \cup {one}] /\ day' = day + 1
    BY <1>2 DEF Track, one
  <2>3. /\ keptRecords(records[u] \cup {one}) \subseteq records[u] \cup {one}
        /\ \A r \in records[u] \cup {one} :
             r \notin keptRecords(records[u] \cup {one}) => ~ (r.startedAt > day - Window)
    BY DEF keptRecords
  <2>4. \A r \in [resource : Resources, startedAt : Nat] : r.startedAt \in Nat
    OBVIOUS
  <2>5. ASSUME NEW v \in UserIDs
        PROVE  /\ records'[v] \subseteq tracked'[v]
               /\ \A r \in tracked'[v] \ records'[v] : r.startedAt < day' - Window
    <3>1. CASE v = u
      <4> DEFINE stay == keptRecords(records[u] \cup {one})
      <4>1. records'[v] = stay /\ tracked'[v] = tracked[u] \cup {one}
        BY <2>2, <3>1
      <4> HIDE DEF stay
      <4>2. \A r \in tracked[u] \ records[u] : r.startedAt \in Nat /\ r.startedAt < day - Window
        BY <2>4
      <4>3. \A r \in records[u] \cup {one} :
              r.startedAt \in Nat /\ (r \notin stay => ~ (r.startedAt > day - Window))
        BY <2>1, <2>3, <2>4 DEF stay
      <4>4. day' = day + 1
        BY <2>2
      <4>5. \A r \in (tracked[u] \cup {one}) \ stay : r.startedAt < day' - Window
        BY <1>1, <4>2, <4>3, <4>4
      <4>6. stay \subseteq tracked[u] \cup {one}
        BY <2>3 DEF stay
      <4> QED
        BY <4>1, <4>5, <4>6
    <3>2. CASE v # u
      BY <1>1, <2>2, <2>4, <3>2
    <3> QED
      BY <3>1, <3>2
  <2>6. /\ records' \in [UserIDs -> SUBSET [resource : Resources, startedAt : Nat]]
        /\ tracked' \in [UserIDs -> SUBSET [resource : Resources, startedAt : Nat]]
    <3> DEFINE stay == keptRecords(records[u] \cup {one})
    <3>1. stay \in SUBSET [resource : Resources, startedAt : Nat]
      BY <2>1, <2>3
    <3> HIDE DEF stay
    <3>2. records' = [records EXCEPT ![u] = stay]
      BY <2>2 DEF stay
    <3> QED
      BY <2>1, <2>2, <3>1, <3>2
  <2>7. day' \in Nat
    BY <2>2
  <2> QED
    BY <2>5, <2>6, <2>7
<1>3. CASE DayPasses
  <2>1. \A u \in UserIDs : \A r \in tracked[u] : r.startedAt \in Nat
    OBVIOUS
  <2> QED
    BY <1>1, <1>3, <2>1 DEF DayPasses
<1>4. ASSUME NEW u \in DOMAIN quotas, NEW resource \in Resources, NEW limit \in Limits,
             SetQuota(u, resource, limit)
      PROVE  UsageInv'
  BY <1>4 DEF SetQuota
<1>5. CASE UNCHANGED usageVars
  BY <1>5 DEF usageVars
<1> QED
  BY <1>2, <1>3, <1>4, <1>5 DEF UsageNext

\* However long records are tracked and pruned, quotas and invoices count what
\* was tracked within the window (usage.go:97-123, 151-204, 224-263).
THEOREM PruningKeepsBillsHolds == UsageSpec => []PruningKeepsBills
<1>1. UsageInit => UsageInv
  BY DEF UsageInit, UsageInv
<1>2. UsageInv => PruningKeepsBills
  <2> SUFFICES ASSUME UsageInv, NEW u \in UserIDs
               PROVE  /\ GenerateInvoice(records[u]) = GenerateInvoice(tracked[u])
                      /\ \A resource \in Resources :
                           Remaining(u)[resource]
                             = limitsOf(u)[resource] - usedSince(tracked[u], resource, day - Window)
    BY DEF PruningKeepsBills
  <2>1. ASSUME NEW resource
        PROVE  usedSince(records[u], resource, day - Window) = usedSince(tracked[u], resource, day - Window)
    <3>1. \A r \in tracked[u] : r.startedAt \in Nat
      BY DEF UsageInv
    <3>2. \A r \in tracked[u] : r.startedAt >= day - Window => r \in records[u]
      BY <3>1, UsageAssumption DEF UsageInv
    <3>3. {r \in records[u] : r.resource = resource /\ r.startedAt >= day - Window}
            = {r \in tracked[u] : r.resource = resource /\ r.startedAt >= day - Window}
      BY <3>2 DEF UsageInv
    <3> QED
      BY <3>3 DEF usedSince
  <2>2. GenerateInvoice(records[u]) = GenerateInvoice(tracked[u])
    BY <2>1 DEF GenerateInvoice
  <2> QED
    BY <2>1, <2>2 DEF Remaining, calculateUsage
<1> QED
  BY <1>1, <1>2, UsageStepInv, PTL DEF UsageSpec

-----------------------------------------------------------------------------
(***************************************************************************)
(* The rate limiter.                                                        *)
(***************************************************************************)
Bucket == [tokens : Int, lastSeen : Int]
Steps == {"none", "find", "take"}

\* What flows into a bucket in some ticks, and what a bucket would have held
\* at the first tick: it falls with every grant and never rises.
flow(ticks) == Rate * ticks
level(b) == b.tokens - flow(b.lastSeen)

\* A bucket belongs to one key, which whoever found the bucket knows.
RateTypes ==
  /\ clock \in Nat /\ since \in Nat
  /\ bucket \in Seq(Bucket)
  /\ items \in [Keys -> 0..Len(bucket)]
  /\ request \in [Requests -> [step : Steps, now : Nat, bucket : 0..Len(bucket), keys : Seq(Keys)]]
  /\ evicting \in [on : BOOLEAN, cutoff : Int, of : 0..Len(bucket)]
  /\ granted \in [Keys -> [number : Int, latest : Int, stray : Int]]
  /\ \A j, k \in Keys : items[j] # 0 /\ items[j] = items[k] => j = k

UnderWay(r) ==
  request[r] # NoRequest =>
    /\ request[r].step # "none" /\ request[r].keys # << >>
    /\ request[r].now <= clock /\ clock <= request[r].now + MaxLag
    /\ request[r].step = "take" =>
         /\ request[r].bucket # 0
         /\ \A k \in Keys : items[k] = request[r].bucket => k = keyOf(r)

\* The latest reading at which a bucket may have been empty is not far from
\* the last one.
Filled(b) == \E x \in 0..clock : level(b) >= 0 - flow(x) /\ b.lastSeen >= x - MaxLag

net(k) == granted[k].number - granted[k].stray
judged(k) == items[k] = 0 \/ evicting.of = items[k]

\* What a key was granted and what its bucket still holds is no more than a
\* full bucket at the first tick that counts; what it was granted when its
\* bucket was judged stale has flowed in again.
WithinFlow(k) ==
  /\ net(k) <= Burst + flow(granted[k].latest) - flow(since) /\ granted[k].latest >= since
  /\ net(k) # 0 =>
       IF judged(k) THEN net(k) <= flow(clock - MaxLag) - flow(since)
                    ELSE net(k) + level(bucket[items[k]]) <= Burst - flow(since)

\* A running sweep judges by a clock that was right.
RateInv ==
  /\ RateTypes
  /\ evicting.on \/ evicting = NotEvicting
  /\ evicting = NotEvicting \/ evicting.cutoff + StaleAfter <= clock
  /\ \A r \in Requests : UnderWay(r)
  /\ \A n \in 1..Len(bucket) : Filled(bucket[n])
  /\ \A k \in Keys : WithinFlow(k)

LEMMA LimiterNumbers ==
  Rate \in Nat /\ Rate >= 1 /\ MaxLag \in Nat /\ StaleAfter \in Nat /\ Burst \in Nat /\ Burst >= 1
BY RateAssumption

LEMMA FlowFacts ==
  /\ \A a \in Int : flow(a) \in Int
  /\ \A a, b \in Int : flow(a - b) = flow(a) - flow(b)
  /\ \A a, b \in Int : a <= b => flow(a) <= flow(b)
  /\ Burst <= flow(StaleAfter + 1 - 2 * MaxLag)
  /\ MaxLag \in Nat /\ StaleAfter \in Nat /\ Burst \in Nat /\ Burst >= 1
<1>1. Rate \in Nat /\ Rate >= 1 /\ MaxLag \in Nat /\ StaleAfter \in Nat /\ Burst \in Nat /\ Burst >= 1
  BY RateAssumption
<1>2. \A a, b \in Int : Rate * (a - b) = Rate * a - Rate * b
  BY <1>1
<1>3. ASSUME NEW a \in Int, NEW b \in Int, a <= b PROVE Rate * a <= Rate * b
  BY <1>1, <1>3
<1>4. Burst <= Rate * (StaleAfter + 1 - 2 * MaxLag)
  BY <1>1, RateAssumption
<1> QED
  BY <1>1, <1>2, <1>3, <1>4 DEF flow

\* What a request leaves of a bucket: less than it held by what it took.
LEMMA Taken ==
  ASSUME NEW b \in Bucket, NEW now \in Int,
         NEW t, t = refilled(b, now),
         NEW after, after = [tokens |-> IF t >= 1 THEN t - 1 ELSE t, lastSeen |-> now]
  PROVE  /\ t \in Int /\ after \in Bucket /\ after.lastSeen = now
         /\ level(b) \in Int /\ level(after) \in Int /\ level(after) <= level(b)
         /\ t >= 1 => /\ level(after) <= level(b) - 1 /\ level(after) <= Burst - 1 - flow(now)
                      /\ level(after) >= 0 - flow(now)
         /\ ~ (t >= 1) => level(after) = level(b)
<1>1. PICK seen \in Int, had \in Int : seen = b.lastSeen /\ had = b.tokens
  BY DEF Bucket
<1>2. flow(now) \in Int /\ flow(seen) \in Int /\ flow(now - seen) = flow(now) - flow(seen)
  BY FlowFacts
<1>3. t = IF had + flow(now - seen) > Burst THEN Burst ELSE had + flow(now - seen)
  BY <1>1 DEF refilled, flow
<1>4. Burst \in Nat /\ Burst >= 1
  BY FlowFacts
<1>5. t \in Int /\ t <= Burst /\ t - flow(now) <= had - flow(seen)
      /\ (~ (t >= 1) => t - flow(now) = had - flow(seen))
  BY <1>2, <1>3, <1>4
<1>6. /\ after \in Bucket /\ after.lastSeen = now
      /\ after.tokens = IF t >= 1 THEN t - 1 ELSE t
  BY <1>5 DEF Bucket
<1>7. level(b) = had - flow(seen) /\ level(after) = after.tokens - flow(now)
  BY <1>1, <1>6 DEF level
<1> QED
  BY <1>2, <1>4, <1>5, <1>6, <1>7

\* A bucket nobody takes from stays as it is while the clock moves on.
LEMMA FilledOn ==
  ASSUME NEW b \in Bucket, Filled(b), clock \in Nat, clock' \in Nat, clock <= clock'
  PROVE  Filled(b)'
BY DEF Filled

LEMMA LaggedFlow ==
  ASSUME NEW a \in Nat, NEW b \in Nat, a <= b
  PROVE  flow(a - MaxLag) \in Int /\ flow(b - MaxLag) \in Int /\ flow(a - MaxLag) <= flow(b - MaxLag)
<1>1. a - MaxLag \in Int /\ b - MaxLag \in Int /\ a - MaxLag <= b - MaxLag
  BY FlowFacts
<1> QED
  BY <1>1, FlowFacts

\* So does what a key was granted, while its bucket holds no more than it did.
LEMMA KeptLower ==
  ASSUME RateTypes, NEW k \in Keys, WithinFlow(k), since' = since, clock' \in Nat, clock <= clock',
         net(k)' = net(k), granted'[k].latest \in Int, granted[k].latest <= granted'[k].latest,
         judged(k)' <=> judged(k),
         ~ judged(k) => /\ level(bucket[items[k]]) \in Int /\ level(bucket'[items'[k]]) \in Int
                        /\ level(bucket'[items'[k]]) <= level(bucket[items[k]])
  PROVE  WithinFlow(k)'
<1>1. /\ net(k) \in Int /\ flow(since)' = flow(since) /\ flow(since) \in Int /\ since \in Nat
      /\ granted[k].latest \in Int
  <2>1. net(k) \in Int /\ granted[k].latest \in Int /\ since \in Nat
    BY DEF net, RateTypes
  <2>2. flow(since)' = flow(since)
    BY DEF flow
  <2>3. flow(since) \in Int
    BY <2>1, FlowFacts
  <2> QED
    BY <2>1, <2>2, <2>3
<1>2. level(bucket[items[k]])' = level(bucket'[items'[k]])
  BY DEF level, flow
<1>3. flow(clock - MaxLag) <= flow(clock' - MaxLag)
      /\ flow(clock - MaxLag) \in Int /\ flow(clock' - MaxLag) \in Int
  <2>1. PICK now \in Nat, later \in Nat : now = clock /\ later = clock'
    BY DEF RateTypes
  <2>2. /\ flow(now - MaxLag) \in Int /\ flow(later - MaxLag) \in Int
        /\ flow(now - MaxLag) <= flow(later - MaxLag)
    BY <2>1, LaggedFlow
  <2> QED
    BY <2>1, <2>2
<1>4. flow(clock - MaxLag)' = flow(clock' - MaxLag) /\ flow(granted[k].latest)' = flow(granted'[k].latest)
  BY DEF flow
<1>5. /\ net(k)' <= Burst + flow(granted[k].latest)' - flow(since)' /\ granted'[k].latest >= since'
  <2>1. PICK late \in Int, later \in Int : late = granted[k].latest /\ later = granted'[k].latest
    BY <1>1
  <2>2. flow(late) \in Int /\ flow(later) \in Int /\ flow(late) <= flow(later) /\ Burst \in Nat
    BY <2>1, FlowFacts
  <2>3. net(k) <= Burst + flow(late) - flow(since) /\ late >= since
    BY <2>1 DEF WithinFlow
  <2> QED
    BY <1>1, <1>4, <2>1, <2>2, <2>3
<1>6. CASE judged(k)
  <2>1. net(k) # 0 => net(k)' <= flow(clock' - MaxLag) - flow(since)
    BY <1>1, <1>3, <1>6 DEF WithinFlow
  <2> QED
    BY <1>1, <1>4, <1>5, <1>6, <2>1 DEF WithinFlow
<1>7. CASE ~ judged(k)
  <2>1. net(k) # 0 => net(k) + level(bucket[items[k]]) <= Burst - flow(since)
    BY <1>7 DEF WithinFlow
  <2>2. net(k) # 0 => net(k)' + level(bucket'[items'[k]]) <= Burst - flow(since)
    <3>1. PICK had \in Int, has \in Int :
            had = level(bucket[items[k]]) /\ has = level(bucket'[items'[k]]) /\ has <= had
      BY <1>7
    <3>2. Burst \in Nat
      BY FlowFacts
    <3>3. net(k) # 0 => net(k) + has <= Burst - flow(since)
      BY <1>1, <2>1, <3>1, <3>2
    <3> QED
      BY <3>1, <3>3
  <2> QED
    BY <1>1, <1>2, <1>5, <1>7, <2>2 DEF WithinFlow
<1> QED
  BY <1>6, <1>7

LEMMA Levels ==
  ASSUME NEW b \in Bucket
  PROVE  level(b) \in Int
<1>1. b.tokens \in Int /\ b.lastSeen \in Int
  BY DEF Bucket
<1>2. flow(b.lastSeen) \in Int
  BY <1>1, FlowFacts
<1> QED
  BY <1>1, <1>2 DEF level

\* And so it does where nothing happens to the bucket.
LEMMA KeptOn ==
  ASSUME RateTypes, NEW k \in Keys, WithinFlow(k), granted'[k] = granted[k], since' = since,
         clock' \in Nat, clock <= clock', judged(k)' <=> judged(k),
         ~ judged(k) => bucket'[items'[k]] = bucket[items[k]]
  PROVE  WithinFlow(k)'
<1>1. net(k)' = net(k) /\ granted[k].latest \in Int
  BY DEF net, RateTypes
<1>2. granted'[k].latest \in Int /\ granted[k].latest <= granted'[k].latest
  BY <1>1
<1>3. ASSUME ~ judged(k)
      PROVE  level(bucket[items[k]]) \in Int /\ level(bucket'[items'[k]]) = level(bucket[items[k]])
  <2>1. items[k] \in 1..Len(bucket)
    <3>1. items[k] \in 0..Len(bucket) /\ Len(bucket) \in Nat
      BY DEF RateTypes
    <3> QED
      BY <1>3, <3>1 DEF judged
  <2>2. bucket[items[k]] \in Bucket
    BY <2>1 DEF RateTypes
  <2> QED
    BY <1>3, <2>2, Levels
<1>4. ~ judged(k) => /\ level(bucket[items[k]]) \in Int /\ level(bucket'[items'[k]]) \in Int
                     /\ level(bucket'[items'[k]]) <= level(bucket[items[k]])
  BY <1>3
<1> QED
  BY <1>1, <1>2, <1>4, KeptLower

LEMMA RateInitInv == RateInit => RateInv
<1> SUFFICES ASSUME RateInit PROVE RateInv
  OBVIOUS
<1>1. bucket = << >> /\ Len(bucket) = 0 /\ clock = 0 /\ evicting = NotEvicting /\ since \in Nat
  BY RateAssumption DEF RateInit
<1>2. RateTypes
  <2>1. NoRequest \in [step : Steps, now : Nat, bucket : 0..Len(bucket), keys : Seq(Keys)]
    BY <1>1 DEF NoRequest, Steps
  <2>2. evicting \in [on : BOOLEAN, cutoff : Int, of : 0..Len(bucket)]
    BY <1>1 DEF NotEvicting
  <2>3. granted \in [Keys -> [number : Int, latest : Int, stray : Int]]
    BY <1>1 DEF RateInit
  <2>4. items \in [Keys -> 0..Len(bucket)] /\ \A k \in Keys : items[k] = 0
    BY <1>1 DEF RateInit
  <2>5. request \in [Requests -> [step : Steps, now : Nat, bucket : 0..Len(bucket), keys : Seq(Keys)]]
    BY <2>1 DEF RateInit
  <2>6. bucket \in Seq(Bucket)
    BY <1>1
  <2> QED
    BY <1>1, <2>2, <2>3, <2>4, <2>5, <2>6 DEF RateTypes
<1>3. ASSUME NEW k \in Keys PROVE WithinFlow(k)
  <2>1. net(k) = 0 /\ granted[k].latest = since
    BY DEF RateInit, net
  <2>2. flow(since) \in Int /\ Burst \in Nat
    BY <1>1, FlowFacts
  <2> QED
    BY <1>1, <2>1, <2>2 DEF WithinFlow
<1> QED
  BY <1>1, <1>2, <1>3 DEF RateInv, RateInit, UnderWay

\* A tick.
LEMMA TickKeeps == ASSUME RateInv, TickRate PROVE RateInv'
<1>1. /\ clock' = clock + 1 /\ clock \in Nat /\ items' = items /\ bucket' = bucket /\ request' = request
      /\ evicting' = evicting /\ since' = since /\ granted' = granted
  BY DEF RateInv, RateTypes, TickRate
<1>2. RateTypes'
  <2>1. clock' \in Nat
    BY <1>1
  <2> QED
    BY <1>1, <2>1 DEF RateInv, RateTypes
<1>3. evicting' = NotEvicting \/ evicting'.cutoff + StaleAfter <= clock'
  <2>1. evicting.cutoff \in Int /\ StaleAfter \in Nat
    BY FlowFacts DEF RateInv, RateTypes
  <2>2. evicting = NotEvicting \/ evicting.cutoff + StaleAfter <= clock
    BY DEF RateInv
  <2> QED
    BY <1>1, <2>1, <2>2
<1>4. ASSUME NEW r \in Requests, request[r] # NoRequest PROVE UnderWay(r)'
  <2>1. UnderWay(r) /\ request[r].now \in Nat /\ MaxLag \in Nat
    BY FlowFacts DEF RateInv, RateTypes
  <2>2. clock < request[r].now + MaxLag
    BY <1>4 DEF TickRate
  <2>3. request[r].now <= clock' /\ clock' <= request[r].now + MaxLag
    BY <1>1, <1>4, <2>1, <2>2 DEF UnderWay
  <2> QED
    BY <1>1, <1>4, <2>1, <2>3 DEF UnderWay, keyOf
<1>5. \A r \in Requests : UnderWay(r)'
  BY <1>1, <1>4 DEF UnderWay
<1>6. ASSUME NEW n \in 1..Len(bucket) PROVE Filled(bucket[n])'
  <2> DEFINE b == bucket[n]
  <2>1. b \in Bucket /\ Filled(b)
    BY DEF RateInv, RateTypes
  <2> HIDE DEF b
  <2>2. \E x \in 0..clock' : level(b) >= 0 - flow(x) /\ b.lastSeen >= x - MaxLag
    BY <1>1, <2>1 DEF Filled
  <2> QED
    BY <1>1, <2>2 DEF Filled, b, level, flow
<1>7. ASSUME NEW k \in Keys PROVE WithinFlow(k)'
  <2>1. clock <= clock' /\ clock' \in Nat /\ (judged(k)' <=> judged(k))
    BY <1>1 DEF judged
  <2> QED
    BY <1>1, <2>1, KeptOn DEF RateInv
<1> QED
  BY <1>1, <1>2, <1>3, <1>5, <1>6, <1>7 DEF RateInv

\* The sweep begins and ends.
LEMMA SweepKeeps == ASSUME RateInv, StartEvict \/ EndEvict PROVE RateInv'
<1>1. /\ clock' = clock /\ clock \in Nat /\ items' = items /\ bucket' = bucket /\ request' = request
      /\ since' = since /\ granted' = granted
  BY DEF RateInv, RateTypes, StartEvict, EndEvict
<1>2. /\ evicting' \in [on : BOOLEAN, cutoff : Int, of : 0..Len(bucket)]
      /\ evicting'.of = 0
  <2>1. Len(bucket) \in Nat /\ clock - StaleAfter \in Int
    BY <1>1, FlowFacts DEF RateInv, RateTypes
  <2>2. CASE StartEvict
    <3>1. evicting' = [on |-> TRUE, cutoff |-> clock - StaleAfter, of |-> 0]
      BY <2>2 DEF StartEvict
    <3>2. 0 \in 0..Len(bucket)
      BY <2>1
    <3> QED
      BY <2>1, <3>1, <3>2
  <2>3. CASE EndEvict
    <3>1. evicting' = [on |-> FALSE, cutoff |-> 0, of |-> 0] /\ 0 \in 0..Len(bucket)
      BY <2>1, <2>3 DEF EndEvict, NotEvicting
    <3> QED
      BY <3>1
  <2> QED
    BY <2>2, <2>3
<1>3. evicting' = NotEvicting \/ evicting'.cutoff + StaleAfter <= clock'
  <2>1. CASE StartEvict
    <3>1. evicting'.cutoff = clock - StaleAfter
      BY <2>1 DEF StartEvict
    <3> QED
      BY <1>1, <3>1, FlowFacts
  <2> QED
    BY <2>1 DEF EndEvict
<1>4. ASSUME NEW k \in Keys PROVE WithinFlow(k)'
  <2>1. evicting.of = 0
    BY DEF RateInv, StartEvict, EndEvict, NotEvicting, RateTypes
  <2>2. clock <= clock' /\ clock' \in Nat /\ (judged(k)' <=> judged(k))
    BY <1>1, <1>2, <2>1 DEF judged
  <2> QED
    BY <1>1, <2>2, KeptOn DEF RateInv
<1>5. RateTypes' /\ \A r \in Requests : UnderWay(r)'
  BY <1>1, <1>2 DEF RateInv, RateTypes, UnderWay, keyOf
<1>6. \A n \in 1..Len(bucket)' : Filled(bucket[n])'
  BY <1>1 DEF RateInv, Filled, level, flow
<1>7. evicting'.on \/ evicting' = NotEvicting
  BY DEF StartEvict, EndEvict
<1> QED
  BY <1>3, <1>4, <1>5, <1>6, <1>7 DEF RateInv

\* A request arrives.
LEMMA ArriveKeeps == ASSUME RateInv, NEW r \in Requests, RequestArrives(r) PROVE RateInv'
<1>1. PICK keys \in KeysOf :
        request' = [request EXCEPT ![r] = [step |-> "find", now |-> clock, bucket |-> 0, keys |-> keys]]
  BY DEF RequestArrives
<1> DEFINE q == [step |-> "find", now |-> clock, bucket |-> 0, keys |-> keys]
<1>2. /\ clock' = clock /\ clock \in Nat /\ items' = items /\ bucket' = bucket /\ evicting' = evicting
      /\ since' = since /\ granted' = granted
  BY DEF RateInv, RateTypes, RequestArrives
<1>3. keys \in Seq(Keys) /\ keys # << >> /\ Len(bucket) \in Nat /\ MaxLag \in Nat
  BY RateAssumption DEF RateInv, RateTypes
<1>4. q \in [step : Steps, now : Nat, bucket : 0..Len(bucket), keys : Seq(Keys)]
  BY <1>2, <1>3 DEF Steps
<1>5. q.step = "find" /\ q.keys # << >> /\ q.now <= clock /\ clock <= q.now + MaxLag
  BY <1>2, <1>3
<1> HIDE DEF q
<1>6. request' = [request EXCEPT ![r] = q]
  BY <1>1 DEF q
<1>7. RateTypes'
  BY <1>2, <1>4, <1>6 DEF RateInv, RateTypes
<1>8. ASSUME NEW v \in Requests PROVE UnderWay(v)'
  <2>1. CASE v = r
    <3>1. request'[v] = q
      BY <1>6, <2>1 DEF RateInv, RateTypes
    <3> QED
      BY <1>2, <1>5, <3>1 DEF UnderWay
  <2>2. CASE v # r
    BY <1>2, <1>6, <2>2 DEF RateInv, RateTypes, UnderWay, keyOf
  <2> QED
    BY <2>1, <2>2
<1>9. \A n \in 1..Len(bucket)' : Filled(bucket[n])'
  BY <1>2 DEF RateInv, Filled, level, flow
<1>10. ASSUME NEW k \in Keys PROVE WithinFlow(k)'
  <2>1. clock <= clock' /\ clock' \in Nat /\ (judged(k)' <=> judged(k))
    BY <1>2 DEF judged
  <2> QED
    BY <1>2, <2>1, KeptOn DEF RateInv
<1> QED
  BY <1>2, <1>7, <1>8, <1>9, <1>10 DEF RateInv

\* A bucket is found stale: what its key was granted has flowed in again.
LEMMA StaleKeeps == ASSUME RateInv, NEW k \in Keys, FindStale(k) PROVE RateInv'
<1>1. /\ clock' = clock /\ clock \in Nat /\ items' = items /\ bucket' = bucket /\ request' = request
      /\ since' = since /\ granted' = granted /\ evicting' = [evicting EXCEPT !.of = items[k]]
      /\ evicting.of = 0 /\ items[k] # 0 /\ items[k] \in 0..Len(bucket) /\ Len(bucket) \in Nat
      /\ evicting \in [on : BOOLEAN, cutoff : Int, of : 0..Len(bucket)]
  BY DEF RateInv, RateTypes, FindStale
<1>2. /\ evicting' \in [on : BOOLEAN, cutoff : Int, of : 0..Len(bucket)]
      /\ evicting'.of = items[k] /\ evicting'.cutoff = evicting.cutoff
  BY <1>1
<1>3. evicting.on /\ evicting'.on /\ evicting # NotEvicting
  BY <1>1 DEF FindStale, NotEvicting
<1>4. evicting.cutoff + StaleAfter <= clock
  BY <1>3 DEF RateInv
<1>5. RateTypes' /\ \A r \in Requests : UnderWay(r)'
  BY <1>1, <1>2 DEF RateInv, RateTypes, UnderWay, keyOf
<1>6. \A n \in 1..Len(bucket)' : Filled(bucket[n])'
  BY <1>1 DEF RateInv, Filled, level, flow
<1>7. ASSUME NEW j \in Keys, j # k PROVE WithinFlow(j)'
  <2>1. judged(j)' <=> judged(j)
    <3>1. items[j] # items[k] \/ items[j] = 0
      BY <1>1, <1>7 DEF RateInv, RateTypes
    <3> QED
      BY <1>1, <1>2, <3>1 DEF judged
  <2>2. clock <= clock' /\ clock' \in Nat
    BY <1>1
  <2> QED
    BY <1>1, <2>1, <2>2, KeptOn DEF RateInv
<1>8. WithinFlow(k)'
  <2> DEFINE b == bucket[items[k]]
  <2>1. items[k] \in 1..Len(bucket)
    BY <1>1
  <2>2. b \in Bucket /\ Filled(b)
    BY <1>1, <2>1 DEF RateInv, RateTypes
  <2>3. b.lastSeen < evicting.cutoff
    BY DEF FindStale
  <2>4. net(k) # 0 => net(k) + level(b) <= Burst - flow(since)
    BY <1>1 DEF RateInv, WithinFlow, judged
  <2> HIDE DEF b
  <2>5. PICK x \in 0..clock : level(b) >= 0 - flow(x) /\ b.lastSeen >= x - MaxLag
    BY <2>2 DEF Filled
  <2>6. b.lastSeen \in Int /\ b.tokens \in Int /\ since \in Nat /\ evicting.cutoff \in Int
    BY <1>1, <2>2 DEF Bucket, RateInv, RateTypes
  <2> DEFINE early == clock - MaxLag
             span == StaleAfter + 1 - 2 * MaxLag
             seen == b.lastSeen
  <2>7. x \in Int /\ early \in Int /\ span \in Int /\ early - x \in Int /\ span <= early - x
    <3>1. x \in Nat /\ MaxLag \in Nat /\ StaleAfter \in Nat /\ seen \in Int
      BY <1>1, <2>6, FlowFacts
    <3>2. x <= seen + MaxLag
      BY <2>5, <3>1
    <3>3. seen < evicting.cutoff /\ evicting.cutoff + StaleAfter <= clock
      BY <1>4, <2>3
    <3> HIDE DEF seen
    <3>4. x <= clock - StaleAfter - 1 + MaxLag
      BY <1>1, <2>6, <3>1, <3>2, <3>3
    <3>5. clock \in Nat
      BY <1>1
    <3>6. x \in Int /\ early \in Int /\ span \in Int
      BY <3>1, <3>5
    <3> QED
      BY <3>1, <3>4, <3>5, <3>6
  <2>8. /\ Burst <= flow(early) - flow(x) /\ flow(early) \in Int /\ flow(x) \in Int /\ flow(since) \in Int
        /\ Burst \in Nat /\ flow(seen) \in Int
    <3>1. Burst <= flow(span) /\ Burst \in Nat
      BY FlowFacts
    <3>2. since \in Int /\ seen \in Int
      BY <2>6
    <3> HIDE DEF early, span, seen
    <3>3. flow(span) <= flow(early - x) /\ flow(early - x) = flow(early) - flow(x)
      BY <2>7, FlowFacts
    <3>4. flow(span) \in Int /\ flow(early) \in Int /\ flow(x) \in Int /\ flow(since) \in Int /\ flow(seen) \in Int
      BY <2>7, <3>2, FlowFacts
    <3> QED
      BY <3>1, <3>3, <3>4
  <2>9. net(k) \in Int /\ level(b) \in Int
    <3>1. net(k) \in Int
      BY DEF net, RateInv, RateTypes
    <3>2. level(b) \in Int
      BY <2>6, <2>8 DEF level
    <3> QED
      BY <3>1, <3>2
  <2>10. net(k) # 0 => net(k) <= flow(clock - MaxLag) - flow(since)
    BY <2>4, <2>5, <2>8, <2>9
  <2>11. judged(k)' /\ net(k)' = net(k) /\ flow(clock - MaxLag)' = flow(clock - MaxLag)
         /\ flow(since)' = flow(since) /\ flow(granted[k].latest)' = flow(granted[k].latest)
    BY <1>1, <1>2 DEF judged, net, flow
  <2> QED
    BY <1>1, <2>10, <2>11 DEF WithinFlow, RateInv
<1> QED
  BY <1>1, <1>2, <1>3, <1>4, <1>5, <1>6, <1>7, <1>8 DEF RateInv

\* The bucket goes: its key had been judged before.
LEMMA DeleteKeeps == ASSUME RateInv, NEW k \in Keys, DeleteStale(k) PROVE RateInv'
<1>1. /\ clock' = clock /\ clock \in Nat /\ bucket' = bucket /\ request' = request
      /\ since' = since /\ granted' = granted /\ evicting' = [evicting EXCEPT !.of = 0]
      /\ items' = [items EXCEPT ![k] = 0] /\ items[k] = evicting.of /\ evicting.of # 0
      /\ items \in [Keys -> 0..Len(bucket)] /\ Len(bucket) \in Nat
      /\ evicting \in [on : BOOLEAN, cutoff : Int, of : 0..Len(bucket)]
  BY DEF RateInv, RateTypes, DeleteStale
<1>2. /\ evicting' \in [on : BOOLEAN, cutoff : Int, of : 0..Len(bucket)]
      /\ evicting'.of = 0 /\ evicting'.cutoff = evicting.cutoff /\ evicting'.on = evicting.on
  BY <1>1
<1>3. /\ items' \in [Keys -> 0..Len(bucket)] /\ items'[k] = 0
      /\ \A j \in Keys : j # k => items'[j] = items[j]
  BY <1>1
<1>4. evicting # NotEvicting /\ evicting.on /\ evicting.cutoff + StaleAfter <= clock
  BY <1>1 DEF RateInv, NotEvicting
<1>5. RateTypes'
  BY <1>1, <1>2, <1>3 DEF RateInv, RateTypes
<1>6. ASSUME NEW r \in Requests PROVE UnderWay(r)'
  <2>1. request[r].step = "take" /\ request[r] # NoRequest => request[r].bucket # 0 /\ request[r].bucket \in Nat
    BY DEF RateInv, RateTypes, UnderWay
  <2> QED
    BY <1>1, <1>3, <2>1 DEF RateInv, UnderWay, keyOf
<1>7. \A n \in 1..Len(bucket)' : Filled(bucket[n])'
  BY <1>1 DEF RateInv, Filled, level, flow
<1>8. ASSUME NEW j \in Keys PROVE WithinFlow(j)'
  <2>1. (judged(j)' <=> judged(j)) /\ (~ judged(j) => items'[j] = items[j])
    BY <1>1, <1>2, <1>3 DEF judged, RateInv, RateTypes
  <2>2. clock <= clock' /\ clock' \in Nat
    BY <1>1
  <2> QED
    BY <1>1, <2>1, <2>2, KeptOn DEF RateInv
<1> QED
  BY <1>1, <1>2, <1>4, <1>5, <1>6, <1>7, <1>8 DEF RateInv

\* A request knows the key it asks for.
LEMMA Asked ==
  ASSUME RateInv, NEW r \in Requests, request[r].step # "none"
  PROVE  /\ keyOf(r) \in Keys /\ request[r].keys \in Seq(Keys) /\ request[r].keys # << >>
         /\ request[r].now \in Nat /\ request[r].now <= clock /\ clock <= request[r].now + MaxLag
         /\ request[r] # NoRequest
<1>1. request[r] # NoRequest
  BY DEF NoRequest
<1>2. request[r].keys \in Seq(Keys) /\ request[r].keys # << >> /\ request[r].now \in Nat
  BY <1>1 DEF RateInv, RateTypes, UnderWay
<1>3. request[r].now <= clock /\ clock <= request[r].now + MaxLag
  BY <1>1 DEF RateInv, UnderWay
<1> QED
  BY <1>1, <1>2, <1>3 DEF keyOf

\* The bucket is found, or made full.
LEMMA FindKeeps == ASSUME RateInv, NEW r \in Requests, FindBucket(r) PROVE RateInv'
<1>1. PICK k \in Keys : k = keyOf(r) /\ request[r].step = "find"
  BY Asked DEF FindBucket
<1> DEFINE made == Len(bucket)
           c == items'[k]
           q == [step |-> "take", now |-> request[r].now, bucket |-> c, keys |-> request[r].keys]
           fresh == [tokens |-> Burst, lastSeen |-> request[r].now]
<1>2. /\ request[r].keys \in Seq(Keys) /\ request[r].keys # << >> /\ request[r].now \in Nat
      /\ request[r].now <= clock /\ clock <= request[r].now + MaxLag
  BY <1>1, Asked
<1>3. /\ clock' = clock /\ evicting' = evicting /\ since' = since /\ granted' = granted
      /\ request' = [request EXCEPT ![r] = q]
      /\ \/ items[k] # 0 /\ items' = items /\ bucket' = bucket
         \/ /\ items[k] = 0 /\ bucket' = Append(bucket, fresh)
            /\ items' = [items EXCEPT ![k] = made + 1]
  BY <1>1 DEF FindBucket
<1>4. made \in Nat /\ bucket \in Seq(Bucket) /\ items \in [Keys -> 0..made] /\ clock \in Nat
  BY DEF RateInv, RateTypes
<1>5. fresh \in Bucket /\ level(fresh) = Burst - flow(request[r].now) /\ fresh.lastSeen = request[r].now
  <2>1. Burst \in Int /\ request[r].now \in Int
    BY <1>2, LimiterNumbers
  <2> QED
    BY <2>1 DEF Bucket, level
<1>6. request[r] \in [step : Steps, now : Nat, bucket : 0..made, keys : Seq(Keys)]
  BY DEF RateInv, RateTypes
<1>7. /\ bucket' \in Seq(Bucket) /\ Len(bucket') \in Nat /\ made <= Len(bucket')
      /\ \A n \in 1..made : bucket'[n] = bucket[n]
      /\ \A n \in 1..Len(bucket') : n \in 1..made \/ (items[k] = 0 /\ n = c /\ n = made + 1 /\ bucket'[n] = fresh)
      /\ items' \in [Keys -> 0..Len(bucket')] /\ c \in 1..Len(bucket')
      /\ \A j \in Keys : j # k => items'[j] = items[j]
      /\ items[k] # 0 => c = items[k]
      /\ items[k] = 0 => c = made + 1 /\ bucket'[c] = fresh
  <2> HIDE DEF fresh
  <2>1. CASE items[k] # 0
    <3>1. items' = items /\ bucket' = bucket
      BY <1>3, <2>1
    <3> QED
      BY <1>1, <1>4, <2>1, <3>1
  <2>2. CASE items[k] = 0
    <3>1. bucket' = Append(bucket, fresh) /\ items' = [items EXCEPT ![k] = made + 1]
      BY <1>3, <2>2
    <3>2. /\ bucket' \in Seq(Bucket) /\ Len(bucket') = made + 1 /\ bucket'[made + 1] = fresh
          /\ \A n \in 1..made : bucket'[n] = bucket[n]
      BY <1>4, <1>5, <3>1, AppendProperties
    <3>3. /\ items' \in [Keys -> 0..(made + 1)] /\ c = made + 1
          /\ \A j \in Keys : j # k => items'[j] = items[j]
      BY <1>1, <1>4, <3>1
    <3> HIDE DEF c, made
    <3> QED
      BY <1>4, <2>2, <3>2, <3>3
  <2> QED
    BY <2>1, <2>2
<1> HIDE DEF c, made, fresh
<1>8. /\ q \in [step : Steps, now : Nat, bucket : 0..Len(bucket'), keys : Seq(Keys)]
      /\ q.step = "take" /\ q.now = request[r].now /\ q.bucket = c /\ q.keys = request[r].keys
  <2>1. c \in 0..Len(bucket')
    BY <1>7
  <2> QED
    BY <1>2, <2>1 DEF Steps
<1> HIDE DEF q
<1>9. \A i, j \in Keys : items'[i] # 0 /\ items'[i] = items'[j] => i = j
  <2>1. \A i, j \in Keys : items[i] # 0 /\ items[i] = items[j] => i = j
    BY DEF RateInv, RateTypes
  <2>2. CASE items[k] = 0
    <3>1. c = made + 1 /\ \A j \in Keys : j # k => items'[j] = items[j] /\ items[j] # c
      BY <1>4, <1>7, <2>2
    <3> QED
      BY <1>1, <2>1, <3>1 DEF c
  <2>3. CASE items[k] # 0
    BY <1>1, <1>7, <2>1, <2>3 DEF c
  <2> QED
    BY <2>2, <2>3
<1>10. RateTypes'
  <2>1. request' \in [Requests -> [step : Steps, now : Nat, bucket : 0..Len(bucket'), keys : Seq(Keys)]]
    <3>1. request \in [Requests -> [step : Steps, now : Nat, bucket : 0..Len(bucket'), keys : Seq(Keys)]]
      <4>1. 0..made \subseteq 0..Len(bucket')
        BY <1>4, <1>7
      <4> QED
        BY <4>1 DEF RateInv, RateTypes, made
    <3> QED
      BY <1>3, <1>8, <3>1
  <2>2. evicting' \in [on : BOOLEAN, cutoff : Int, of : 0..Len(bucket')]
    <3>1. 0..made \subseteq 0..Len(bucket')
      BY <1>4, <1>7
    <3> QED
      BY <1>3, <3>1 DEF RateInv, RateTypes, made
  <2> QED
    BY <1>3, <1>7, <1>9, <2>1, <2>2 DEF RateInv, RateTypes
<1>11. ASSUME NEW v \in Requests PROVE UnderWay(v)'
  <2>1. CASE v = r
    <3>1. request'[v] = q /\ keyOf(v)' = k
      BY <1>1, <1>3, <1>8, <2>1 DEF RateInv, RateTypes, keyOf
    <3>2. q.bucket # 0 /\ \A j \in Keys : items'[j] = q.bucket => j = k
      BY <1>1, <1>7, <1>8, <1>9 DEF c
    <3> QED
      BY <1>2, <1>3, <1>8, <3>1, <3>2 DEF UnderWay
  <2>2. CASE v # r
    <3>1. request'[v] = request[v] /\ keyOf(v)' = keyOf(v)
      BY <1>3, <2>2 DEF RateInv, RateTypes, keyOf
    <3>2. ASSUME request[v] # NoRequest, request[v].step = "take", NEW j \in Keys, items'[j] = request[v].bucket
          PROVE  j = keyOf(v)
      <4>1. request[v].bucket \in 0..made
        BY DEF RateInv, RateTypes, made
      <4>2. items'[j] = items[j]
        <5>1. CASE j # k
          BY <1>7, <5>1
        <5>2. CASE j = k
          BY <1>4, <1>7, <3>2, <4>1, <5>2 DEF c
        <5> QED
          BY <5>1, <5>2
      <4> QED
        BY <3>2, <4>2 DEF RateInv, UnderWay
    <3> QED
      BY <1>3, <3>1, <3>2 DEF RateInv, UnderWay
  <2> QED
    BY <2>1, <2>2
<1>12. ASSUME NEW n \in 1..Len(bucket') PROVE Filled(bucket[n])'
  <2>1. CASE n \in 1..made
    BY <1>3, <1>7, <2>1 DEF RateInv, Filled, level, flow, made
  <2>2. CASE n \notin 1..made
    <3>1. bucket'[n] = fresh
      BY <1>7, <2>2
    <3>2. PICK x \in Nat : x = request[r].now
      BY <1>2
    <3>3. x \in 0..clock
      BY <1>2, <1>4, <3>2
    <3>4. level(bucket'[n]) >= 0 - flow(x) /\ bucket'[n].lastSeen >= x - MaxLag
      <4>1. x \in Int /\ Burst \in Nat /\ MaxLag \in Nat
        BY FlowFacts
      <4>2. flow(x) \in Int
        BY <4>1, FlowFacts
      <4> QED
        BY <1>5, <3>1, <3>2, <4>1, <4>2
    <3> QED
      BY <1>3, <3>3, <3>4 DEF Filled, level, flow
  <2> QED
    BY <2>1, <2>2
<1>13. evicting.of \in 0..made
  BY DEF RateInv, RateTypes, made
<1>14. ASSUME NEW j \in Keys, j # k \/ items[k] # 0 PROVE WithinFlow(j)'
  <2>1. items'[j] = items[j]
    BY <1>7, <1>14 DEF c
  <2>2. (judged(j)' <=> judged(j)) /\ clock <= clock' /\ clock' \in Nat
    BY <1>3, <1>4, <2>1 DEF judged
  <2>3. ~ judged(j) => bucket'[items'[j]] = bucket[items[j]]
    <3>1. ASSUME ~ judged(j) PROVE items[j] \in 1..made
      BY <1>4, <3>1 DEF judged
    <3> QED
      BY <1>7, <2>1, <3>1
  <2> QED
    BY <1>3, <2>2, <2>3, KeptOn DEF RateInv
<1>15. ASSUME items[k] = 0 PROVE WithinFlow(k)'
  <2>1. judged(k) /\ WithinFlow(k)
    BY <1>1, <1>15 DEF judged, RateInv
  <2>2. ~ judged(k)'
    BY <1>3, <1>4, <1>7, <1>13, <1>15 DEF judged, c
  <2>3. PICK now \in Int, early \in Int, first \in Int :
          now = request[r].now /\ early = clock - MaxLag /\ first = since /\ early <= now
    <3>1. clock \in Nat /\ since \in Nat /\ MaxLag \in Nat /\ request[r].now \in Nat
          /\ clock <= request[r].now + MaxLag
      BY <1>2, FlowFacts DEF RateInv, RateTypes
    <3> QED
      BY <3>1
  <2>4. flow(now) \in Int /\ flow(early) \in Int /\ flow(first) \in Int /\ flow(early) <= flow(now) /\ Burst \in Nat
    BY <2>3, FlowFacts
  <2>5. net(k) \in Int /\ (net(k) # 0 => net(k) <= flow(early) - flow(first))
    BY <1>1, <2>1, <2>3 DEF WithinFlow, net, RateInv, RateTypes
  <2>6. net(k) # 0 => net(k) + level(fresh) <= Burst - flow(first)
    BY <1>5, <2>3, <2>4, <2>5
  <2>7. level(bucket[items[k]])' = level(fresh)
    BY <1>7, <1>15 DEF level, flow, c
  <2>8. net(k)' = net(k) /\ flow(since)' = flow(first) /\ flow(granted[k].latest)' = flow(granted[k].latest)
        /\ granted' = granted /\ since' = since /\ flow(first) = flow(since)
    BY <1>3, <2>3 DEF net, flow
  <2> QED
    BY <2>1, <2>2, <2>6, <2>7, <2>8 DEF WithinFlow
<1> QED
  BY <1>3, <1>10, <1>11, <1>12, <1>14, <1>15 DEF RateInv

\* A token is taken, or not.
LEMMA TakeKeeps == ASSUME RateInv, NEW r \in Requests, addToken(r) PROVE RateInv'
<1>1. PICK k \in Keys : k = keyOf(r) /\ request[r].step = "take"
  BY Asked DEF addToken
<1>2. /\ request[r].keys \in Seq(Keys) /\ request[r].keys # << >> /\ request[r].now \in Nat
      /\ request[r].now <= clock /\ clock <= request[r].now + MaxLag /\ request[r] # NoRequest
  BY <1>1, Asked
<1>3. PICK now \in Int : now = request[r].now /\ now \in Nat /\ now <= clock /\ clock <= now + MaxLag
  BY <1>2
<1>4. PICK b \in 1..Len(bucket) : b = request[r].bucket
  <2>1. request[r].bucket \in 0..Len(bucket) /\ Len(bucket) \in Nat /\ request[r].bucket # 0
    BY <1>1, <1>2 DEF RateInv, RateTypes, UnderWay
  <2> QED
    BY <2>1
<1> DEFINE had == bucket[b]
           t == refilled(had, now)
           after == [tokens |-> IF t >= 1 THEN t - 1 ELSE t, lastSeen |-> now]
           counted == t >= 1 /\ ~ (now < since)
           g == [number |-> granted[k].number + 1,
                 latest |-> IF now > granted[k].latest THEN now ELSE granted[k].latest,
                 stray |-> IF doomed(k, b) THEN granted[k].stray + 1 ELSE granted[k].stray]
           q == IF t >= 1 /\ Len(request[r].keys) > 1
                  THEN [step |-> "find", now |-> clock, bucket |-> 0, keys |-> Tail(request[r].keys)]
                  ELSE NoRequest
<1>5. /\ clock' = clock /\ items' = items /\ evicting' = evicting /\ since' = since
      /\ bucket' = [bucket EXCEPT ![b] = after] /\ request' = [request EXCEPT ![r] = q]
      /\ granted' = IF ~ (t >= 1) \/ now < since THEN granted ELSE [granted EXCEPT ![k] = g]
  BY <1>1, <1>3, <1>4 DEF addToken
<1>6. had \in Bucket /\ Filled(had)
  BY <1>4 DEF RateInv, RateTypes
<1>7. /\ t \in Int /\ after \in Bucket /\ after.lastSeen = now
      /\ level(had) \in Int /\ level(after) \in Int /\ level(after) <= level(had)
      /\ t >= 1 => /\ level(after) <= level(had) - 1 /\ level(after) <= Burst - 1 - flow(now)
                   /\ level(after) >= 0 - flow(now)
      /\ ~ (t >= 1) => level(after) = level(had)
  BY <1>6, Taken
<1>8. /\ clock \in Nat /\ since \in Nat /\ Len(bucket) \in Nat /\ bucket \in Seq(Bucket)
      /\ items \in [Keys -> 0..Len(bucket)]
  BY DEF RateInv, RateTypes
<1>9. /\ q \in [step : Steps, now : Nat, bucket : 0..Len(bucket), keys : Seq(Keys)]
      /\ q # NoRequest => /\ q.step = "find" /\ q.keys # << >> /\ q.now = clock
  <2>1. CASE t >= 1 /\ Len(request[r].keys) > 1
    <3>1. Tail(request[r].keys) \in Seq(Keys) /\ Tail(request[r].keys) # << >>
      <4>1. /\ Tail(request[r].keys) \in Seq(Keys) /\ Len(request[r].keys) \in Nat
            /\ Len(Tail(request[r].keys)) = Len(request[r].keys) - 1
        BY <1>2, HeadTailProperties
      <4>2. Len(Tail(request[r].keys)) # 0
        <5>1. PICK n \in Nat : n = Len(request[r].keys) /\ Len(Tail(request[r].keys)) = n - 1
          BY <4>1
        <5>2. n > 1
          BY <2>1, <5>1
        <5>3. n - 1 # 0
          BY <5>2
        <5> QED
          BY <5>1, <5>3, Zenon
      <4>3. Len(<< >>) = 0
        BY EmptySeq
      <4> HIDE DEF q
      <4>4. Tail(request[r].keys) # << >>
        BY <4>2, <4>3, Zenon
      <4> QED
        BY <4>1, <4>4
    <3>2. q = [step |-> "find", now |-> clock, bucket |-> 0, keys |-> Tail(request[r].keys)]
      BY <2>1
    <3>3. 0 \in 0..Len(bucket)
      BY <1>8
    <3> HIDE DEF q
    <3> QED
      BY <1>8, <3>1, <3>2, <3>3 DEF Steps
  <2>2. CASE ~ (t >= 1 /\ Len(request[r].keys) > 1)
    <3>1. q = NoRequest /\ 0 \in 0..Len(bucket)
      BY <1>8, <2>2
    <3> QED
      BY <3>1 DEF NoRequest, Steps
  <2> QED
    BY <2>1, <2>2
<1> HIDE DEF t, after, q
<1>10. /\ bucket' \in Seq(Bucket) /\ Len(bucket') = Len(bucket) /\ bucket'[b] = after
       /\ \A n \in 1..Len(bucket) : n # b => bucket'[n] = bucket[n]
  BY <1>5, <1>7, <1>8
<1>11. granted' \in [Keys -> [number : Int, latest : Int, stray : Int]]
  <2>1. granted \in [Keys -> [number : Int, latest : Int, stray : Int]]
    BY DEF RateInv, RateTypes
  <2>2. g \in [number : Int, latest : Int, stray : Int]
    BY <2>1
  <2> HIDE DEF g
  <2> QED
    BY <1>5, <2>1, <2>2
<1>12. RateTypes'
  <2>1. request' \in [Requests -> [step : Steps, now : Nat, bucket : 0..Len(bucket), keys : Seq(Keys)]]
    BY <1>5, <1>9 DEF RateInv, RateTypes
  <2> QED
    BY <1>5, <1>10, <1>11, <2>1 DEF RateInv, RateTypes
<1>13. ASSUME NEW v \in Requests PROVE UnderWay(v)'
  <2>1. CASE v = r
    <3>1. request'[v] = q
      BY <1>5, <2>1 DEF RateInv, RateTypes
    <3>2. clock <= clock + MaxLag /\ clock <= clock
      BY <1>8, LimiterNumbers
    <3> QED
      BY <1>5, <1>9, <3>1, <3>2 DEF UnderWay
  <2>2. CASE v # r
    <3>1. request'[v] = request[v]
      BY <1>5, <2>2 DEF RateInv, RateTypes
    <3> QED
      BY <1>5, <3>1 DEF RateInv, UnderWay, keyOf
  <2> QED
    BY <2>1, <2>2
<1>14. ASSUME NEW n \in 1..Len(bucket') PROVE Filled(bucket[n])'
  <2>1. CASE n # b
    BY <1>5, <1>10, <2>1 DEF RateInv, Filled, level, flow
  <2>2. CASE n = b
    <3>1. PICK x \in 0..clock : level(had) >= 0 - flow(x) /\ had.lastSeen >= x - MaxLag
      BY <1>6 DEF Filled
    <3>2. x \in Int /\ x <= clock /\ MaxLag \in Nat /\ now \in 0..clock
      BY <1>3, <1>8, <3>1, LimiterNumbers
    <3>3. now >= x - MaxLag /\ now >= now - MaxLag
      BY <1>3, <1>8, <3>2
    <3>4. \E y \in 0..clock : level(after) >= 0 - flow(y) /\ after.lastSeen >= y - MaxLag
      <4>1. CASE t >= 1
        BY <1>7, <3>2, <3>3, <4>1
      <4>2. CASE ~ (t >= 1)
        BY <1>7, <3>1, <3>3, <4>2
      <4> QED
        BY <4>1, <4>2
    <3> QED
      BY <1>5, <1>10, <2>2, <3>4 DEF Filled, level, flow
  <2> QED
    BY <2>1, <2>2
<1>15. \A j \in Keys : items[j] = b => j = k
  BY <1>1, <1>2, <1>4 DEF RateInv, UnderWay
<1>16. \A j \in Keys : /\ judged(j)' <=> judged(j)
                       /\ ~ judged(j) => items[j] \in 1..Len(bucket) /\ bucket[items[j]] \in Bucket
  BY <1>5, <1>8 DEF judged
<1>17. ASSUME NEW j \in Keys, j # k PROVE WithinFlow(j)'
  <2>1. granted'[j] = granted[j]
    <3> HIDE DEF g
    <3> QED
      BY <1>5, <1>17 DEF RateInv, RateTypes
  <2>2. ~ judged(j) => bucket'[items'[j]] = bucket[items[j]]
    BY <1>5, <1>10, <1>15, <1>16, <1>17
  <2>3. clock <= clock' /\ clock' \in Nat
    BY <1>5, <1>8
  <2> QED
    BY <1>5, <1>16, <2>1, <2>2, <2>3, KeptOn DEF RateInv
<1>18. ~ judged(k) => /\ level(bucket[items[k]]) \in Int /\ level(bucket'[items'[k]]) \in Int
                      /\ level(bucket'[items'[k]]) <= level(bucket[items[k]])
  <2>1. CASE items[k] = b
    BY <1>5, <1>7, <1>10, <2>1
  <2>2. ASSUME items[k] # b, ~ judged(k) PROVE bucket'[items'[k]] = bucket[items[k]] /\ level(bucket[items[k]]) \in Int
    BY <1>5, <1>10, <1>16, <2>2, Levels
  <2> QED
    BY <2>1, <2>2
<1>19. /\ granted[k].number \in Int /\ granted[k].latest \in Int /\ granted[k].stray \in Int
       /\ net(k) \in Int /\ net(k) = granted[k].number - granted[k].stray
  BY DEF RateInv, RateTypes, net
<1>20. ASSUME ~ counted \/ doomed(k, b) PROVE WithinFlow(k)'
  <2>1. net(k)' = net(k) /\ granted'[k].latest \in Int /\ granted[k].latest <= granted'[k].latest
    <3>1. CASE ~ counted
      <4>1. granted' = granted
        BY <1>5, <3>1
      <4> QED
        BY <1>19, <4>1 DEF net
    <3>2. CASE counted
      <4>1. granted'[k] = g
        BY <1>5, <3>2 DEF RateInv, RateTypes
      <4>2. g.number = granted[k].number + 1 /\ g.stray = granted[k].stray + 1
        BY <1>20, <3>2
      <4>3. g.latest \in Int /\ granted[k].latest <= g.latest
        BY <1>3, <1>19
      <4> HIDE DEF g
      <4> QED
        BY <1>19, <4>1, <4>2, <4>3 DEF net
    <3> QED
      BY <3>1, <3>2
  <2>2. clock <= clock' /\ clock' \in Nat
    BY <1>5, <1>8
  <2> QED
    BY <1>5, <1>16, <1>18, <2>1, <2>2, KeptLower DEF RateInv
<1>21. ASSUME counted, ~ doomed(k, b) PROVE WithinFlow(k)'
  <2>1. items[k] = b /\ ~ judged(k) /\ ~ judged(k)'
    BY <1>4, <1>16, <1>21 DEF doomed, judged
  <2>2. granted'[k] = g
    BY <1>5, <1>21 DEF RateInv, RateTypes
  <2>3. g.number = granted[k].number + 1 /\ g.stray = granted[k].stray
    BY <1>21
  <2>4. g.latest \in Int /\ granted[k].latest <= g.latest /\ now <= g.latest
    BY <1>3, <1>19
  <2> HIDE DEF g
  <2>5. net(k)' = net(k) + 1
    BY <1>19, <2>2, <2>3 DEF net
  <2>6. PICK late \in Int, first \in Int : late = g.latest /\ first = since /\ first <= now /\ now <= late
    BY <1>3, <1>8, <1>21, <2>4
  <2>7. /\ flow(late) \in Int /\ flow(first) \in Int /\ flow(now) \in Int
        /\ flow(first) <= flow(now) /\ flow(now) <= flow(late)
    BY <2>6, FlowFacts
  <2>8. net(k) # 0 => net(k) + level(had) <= Burst - flow(first)
    BY <2>1, <2>6 DEF RateInv, WithinFlow
  <2>9. /\ level(after) <= level(had) - 1 /\ level(after) <= Burst - 1 - flow(now)
        /\ level(after) >= 0 - flow(now) /\ level(after) \in Int /\ level(had) \in Int /\ Burst \in Nat
    BY <1>7, <1>21, LimiterNumbers
  <2>10. net(k) + 1 + level(after) <= Burst - flow(first)
    <3>1. PICK n \in Int, before \in Int, left \in Int :
            n = net(k) /\ before = level(had) /\ left = level(after)
      BY <1>19, <2>9
    <3>2. n # 0 => n + before <= Burst - flow(first)
      BY <2>8, <3>1
    <3>3. left <= before - 1 /\ left <= Burst - 1 - flow(now) /\ Burst \in Nat
      BY <2>9, <3>1
    <3>4. n + 1 + left <= Burst - flow(first)
      <4> HIDE DEF had
      <4>1. CASE n = 0
        BY <2>7, <3>3, <4>1
      <4>2. CASE n # 0
        BY <2>7, <3>2, <3>3, <4>2
      <4> QED
        BY <4>1, <4>2
    <3> QED
      BY <3>1, <3>4
  <2>11. net(k) + 1 <= Burst + flow(late) - flow(first)
    <3>1. PICK n \in Int, left \in Int : n = net(k) /\ left = level(after)
      BY <1>19, <2>9
    <3>2. n + 1 + left <= Burst - flow(first) /\ left >= 0 - flow(now) /\ Burst \in Nat
      BY <2>9, <2>10, <3>1
    <3>3. n + 1 <= Burst + flow(late) - flow(first)
      BY <2>7, <3>2
    <3> QED
      BY <3>1, <3>3
  <2>12. late >= first
    BY <2>6
  <2>13. /\ level(bucket[items[k]])' = level(after) /\ flow(since)' = flow(first)
         /\ flow(granted[k].latest)' = flow(late) /\ granted'[k].latest = late /\ since' = first
    BY <1>5, <1>10, <2>1, <2>2, <2>6 DEF level, flow
  <2> QED
    BY <2>1, <2>5, <2>10, <2>11, <2>12, <2>13 DEF WithinFlow
<1> QED
  BY <1>5, <1>12, <1>13, <1>14, <1>17, <1>20, <1>21 DEF RateInv

LEMMA RateStepInv == RateInv /\ [RateNext]_rateVars => RateInv'
<1> SUFFICES ASSUME RateInv, UNCHANGED rateVars PROVE RateInv'
  BY TickKeeps, SweepKeeps, ArriveKeeps, FindKeeps, TakeKeeps, StaleKeeps, DeleteKeeps DEF RateNext
<1>1. /\ clock' = clock /\ items' = items /\ bucket' = bucket /\ request' = request
      /\ evicting' = evicting /\ since' = since /\ granted' = granted
  BY DEF rateVars
<1>2. RateTypes' /\ \A r \in Requests : UnderWay(r)'
  BY <1>1 DEF RateInv, RateTypes, UnderWay, keyOf
<1>3. \A n \in 1..Len(bucket)' : Filled(bucket[n])'
  BY <1>1 DEF RateInv, Filled, level, flow
<1>4. \A k \in Keys : WithinFlow(k)'
  BY <1>1 DEF RateInv, WithinFlow, net, judged, level, flow
<1> QED
  BY <1>1, <1>2, <1>3, <1>4 DEF RateInv

\* However requests, ticks and the sweep interleave, a key is granted no more
\* than its bucket and what flowed into it (ratelimit.go:41-104).
THEOREM RateKeptHolds == RateSpec => []RateKept
<1>1. RateInv => RateKept
  <2> SUFFICES ASSUME RateInv, NEW k \in Keys
               PROVE  granted[k].number - granted[k].stray <= Burst + Rate * (granted[k].latest - since)
    BY DEF RateKept
  <2>1. PICK late \in Int, first \in Int : late = granted[k].latest /\ first = since
    BY DEF RateInv, RateTypes
  <2>2. net(k) <= Burst + flow(late) - flow(first)
    BY <2>1 DEF RateInv, WithinFlow
  <2>3. flow(late - first) = flow(late) - flow(first) /\ flow(late) \in Int /\ flow(first) \in Int
    BY FlowFacts
  <2>4. net(k) <= Burst + flow(late - first)
    <3>1. net(k) \in Int /\ Burst \in Nat
      BY LimiterNumbers DEF net, RateInv, RateTypes
    <3> QED
      BY <2>2, <2>3, <3>1
  <2> QED
    BY <2>1, <2>4 DEF net, flow
<1> QED
  BY <1>1, RateInitInv, RateStepInv, PTL DEF RateSpec
-----------------------------------------------------------------------------
(***************************************************************************)
(* The audio ring and the queue it implements.                              *)
(***************************************************************************)
\* Slots by their distance: a position on the ring.
wrap(x, ring) == x % ring

\* A position past the end of the ring, or before its start, comes out on the
\* other side.
LEMMA Wraps ==
  ASSUME NEW ring \in Nat \ {0}, NEW x \in Int, 0 - ring <= x, x < 2 * ring
  PROVE  wrap(x, ring) = IF x < 0 THEN x + ring ELSE IF x < ring THEN x ELSE x - ring
<1>1. PICK q \in Int, r \in 0..ring - 1 : x = ring * q + r /\ r = x % ring
  <2>1. x % ring \in 0..ring - 1
    OBVIOUS
  <2>2. x \div ring \in Int
    OBVIOUS
  <2>3. x = ring * (x \div ring) + (x % ring)
    OBVIOUS
  <2> QED
    BY <2>1, <2>2, <2>3
<1>2. CASE x < 0
  <2>1. q = 0 - 1
    BY <1>1, <1>2
  <2> QED
    BY <1>1, <1>2, <2>1 DEF wrap
<1>3. CASE x >= 0 /\ x < ring
  <2>1. q = 0
    BY <1>1, <1>3
  <2> QED
    BY <1>1, <1>3, <2>1 DEF wrap
<1>4. CASE x >= ring
  <2>1. q = 1
    BY <1>1, <1>4
  <2> QED
    BY <1>1, <1>4, <2>1 DEF wrap
<1> QED
  BY <1>2, <1>3, <1>4 DEF wrap

\* The n newest of the first w bytes.
Run(n, w) == [i \in 1..n |-> w - n + i]

LEMMA RunIsSeq ==
  ASSUME NEW n \in Nat, NEW w \in Int
  PROVE  Run(n, w) \in Seq(Int) /\ Len(Run(n, w)) = n /\ \A i \in 1..n : Run(n, w)[i] = w - n + i
BY DEF Run

LEMMA NoRun ==
  ASSUME NEW w \in Int
  PROVE  << >> = Run(0, w)
<1>1. Run(0, w) \in Seq(Int) /\ Len(Run(0, w)) = 0
  BY RunIsSeq
<1> QED
  BY <1>1, EmptySeq

LEMMA RunEqual ==
  ASSUME NEW n \in Nat, NEW w \in Int, NEW s \in Seq(Int), Len(s) = n, \A i \in 1..n : s[i] = w - n + i
  PROVE  s = Run(n, w)
BY RunIsSeq, SeqEqual

LEMMA RunsJoin ==
  ASSUME NEW m \in Nat, NEW n \in Nat, NEW w \in Int
  PROVE  Run(m, w) \o Run(n, w + n) = Run(m + n, w + n)
<1>0. PICK many \in Nat, last \in Int : many = m + n /\ last = w + n
  OBVIOUS
<1> DEFINE s == Run(m, w)
           t == Run(n, last)
<1>1. /\ s \in Seq(Int) /\ Len(s) = m /\ (\A i \in 1..m : s[i] = w - m + i)
      /\ t \in Seq(Int) /\ Len(t) = n /\ (\A i \in 1..n : t[i] = last - n + i)
  BY RunIsSeq
<1> HIDE DEF s, t
<1>2. /\ s \o t \in Seq(Int) /\ Len(s \o t) = Len(s) + Len(t)
      /\ \A i \in 1..Len(s) + Len(t) : (s \o t)[i] = IF i <= Len(s) THEN s[i] ELSE t[i - Len(s)]
  BY <1>1, ConcatProperties
<1> DEFINE both == s \o t
<1>3. /\ both \in Seq(Int) /\ Len(both) = many /\ many \in Nat /\ last \in Int
      /\ \A i \in 1..many : both[i] = IF i <= m THEN s[i] ELSE t[i - m]
  BY <1>0, <1>1, <1>2
<1> HIDE DEF both
<1>4. ASSUME NEW i \in 1..many PROVE both[i] = last - many + i
  <2>1. CASE i <= m
    BY <1>0, <1>1, <1>3, <2>1
  <2>2. CASE ~ (i <= m)
    <3>1. i - m \in 1..n
      BY <1>0, <2>2
    <3>2. t[i - m] = last - n + (i - m)
      BY <1>1, <3>1
    <3>3. both[i] = t[i - m]
      BY <1>3, <2>2
    <3> QED
      BY <1>0, <3>2, <3>3
  <2> QED
    BY <2>1, <2>2
<1>5. both = Run(many, last)
  BY <1>3, <1>4, RunEqual
<1> QED
  BY <1>0, <1>5, Zenon DEF s, t, both

LEMMA RunPart ==
  ASSUME NEW n \in Nat, NEW w \in Int, NEW from \in Nat \ {0}, NEW to \in Nat, to <= n, from <= to + 1
  PROVE  SubSeq(Run(n, w), from, to) = Run(to - from + 1, w - n + to)
<1>0. PICK many \in Nat, last \in Int : many = to - from + 1 /\ last = w - n + to
  OBVIOUS
<1> DEFINE s == Run(n, w)
<1>1. s \in Seq(Int) /\ Len(s) = n /\ \A i \in 1..n : s[i] = w - n + i
  BY RunIsSeq
<1> HIDE DEF s
<1>2. \A i \in from..to : s[i] \in Int
  BY <1>1
<1>3. /\ SubSeq(s, from, to) \in Seq(Int)
      /\ Len(SubSeq(s, from, to)) = IF from <= to THEN many ELSE 0
      /\ \A i \in 1..many : SubSeq(s, from, to)[i] = s[from + i - 1]
  BY <1>0, <1>2, SubSeqProperties
<1>4. many \in Nat /\ last \in Int /\ (IF from <= to THEN many ELSE 0) = many
  BY <1>0
<1>5. ASSUME NEW i \in 1..many PROVE SubSeq(s, from, to)[i] = last - many + i
  <2>1. from + i - 1 \in 1..n
    BY <1>0, <1>4, <1>5
  <2>2. s[from + i - 1] = w - n + (from + i - 1)
    BY <1>1, <2>1
  <2>3. SubSeq(s, from, to)[i] = s[from + i - 1]
    BY <1>3, <1>5
  <2> QED
    BY <1>0, <2>2, <2>3
<1> DEFINE part == SubSeq(s, from, to)
<1>6. part \in Seq(Int) /\ Len(part) = many /\ many \in Nat /\ last \in Int
  BY <1>3, <1>4
<1>7. \A i \in 1..many : part[i] = last - many + i
  BY <1>5
<1> HIDE DEF part
<1>8. part = Run(many, last)
  BY <1>6, <1>7, RunEqual
<1> QED
  BY <1>0, <1>8, Zenon DEF s, part

\* From the reader to the writer, around the ring.
gap(ring, r, p) == IF p >= r THEN p - r ELSE ring - r + p

LEMMA GapGrows ==
  ASSUME NEW ring \in Nat \ {0}, NEW r \in 0..ring - 1, NEW p \in 0..ring - 1, NEW n \in 0..ring - 1
  PROVE  /\ wrap(p + n, ring) \in 0..ring - 1 /\ wrap(p + n + 1, ring) \in 0..ring - 1
         /\ gap(ring, r, p) + n < ring => gap(ring, r, wrap(p + n, ring)) = gap(ring, r, p) + n
         /\ gap(ring, wrap(p + n + 1, ring), wrap(p + n, ring)) = ring - 1
<1>1. /\ wrap(p + n, ring) = IF p + n < 0 THEN p + n + ring ELSE IF p + n < ring THEN p + n ELSE p + n - ring
      /\ wrap(p + n + 1, ring) = IF p + n + 1 < 0 THEN p + n + 1 + ring
                              ELSE IF p + n + 1 < ring THEN p + n + 1 ELSE p + n + 1 - ring
  <2>1. /\ p + n \in Int /\ p + n + 1 \in Int
        /\ 0 - ring <= p + n /\ 0 - ring <= p + n + 1
        /\ p + n < 2 * ring /\ p + n + 1 < 2 * ring
    OBVIOUS
  <2> QED
    BY <2>1, Wraps
<1> QED
  BY <1>1 DEF gap

LEMMA GapShrinks ==
  ASSUME NEW ring \in Nat \ {0}, NEW r \in 0..ring - 1, NEW p \in 0..ring - 1, NEW n \in 0..gap(ring, r, p)
  PROVE  /\ wrap(r + n, ring) \in 0..ring - 1
         /\ gap(ring, wrap(r + n, ring), p) = gap(ring, r, p) - n
<1>1. gap(ring, r, p) \in 0..ring - 1
  BY DEF gap
<1>2. wrap(r + n, ring) = IF r + n < 0 THEN r + n + ring ELSE IF r + n < ring THEN r + n ELSE r + n - ring
  <2>1. r + n \in Int /\ 0 - ring <= r + n /\ r + n < 2 * ring
    BY <1>1
  <2> QED
    BY <2>1, Wraps
<1> QED
  BY <1>1, <1>2 DEF gap

\* The slots from q on, where a reader was pushed that the writer ran into: how
\* far each is ahead of the writer before, and the number that the old reader
\* had for those that are kept.
LEMMA SlotsPushed ==
  ASSUME NEW ring \in Nat \ {0}, NEW r \in 0..ring - 1, NEW p \in 0..ring - 1,
         NEW a, a = gap(ring, r, p),
         NEW n \in 1..ring - 1, a + n >= ring, NEW q, q = wrap(p + n + 1, ring),
         NEW i \in 1..ring - 1, NEW y \in Int, y = q + i - 1, NEW slot, slot = wrap(y, ring)
  PROVE  /\ slot \in 0..ring - 1
         /\ wrap(slot - p, ring) = IF n + i < ring THEN n + i ELSE n + i - ring
         /\ n + i < ring => \E j \in 1..a : j = a + n + i + 1 - ring /\ wrap(r + j - 1, ring) = slot
<1>1. q = IF p + n + 1 < ring THEN p + n + 1 ELSE p + n + 1 - ring
  BY Wraps
<1>2. q \in 0..ring - 1
  BY <1>1
<1>3. slot = IF q + i - 1 < 0 THEN q + i - 1 + ring ELSE IF q + i - 1 < ring THEN q + i - 1 ELSE q + i - 1 - ring
  BY <1>2, Wraps
<1>4. slot \in 0..ring - 1
  BY <1>2, <1>3
<1>5. wrap(slot - p, ring) = IF slot - p < 0 THEN slot - p + ring ELSE IF slot - p < ring THEN slot - p ELSE slot - p - ring
  BY <1>4, Wraps
<1>6. wrap(slot - p, ring) = IF n + i < ring THEN n + i ELSE n + i - ring
  BY <1>1, <1>2, <1>3, <1>4, <1>5
<1>7. ASSUME n + i < ring PROVE \E j \in 1..a : j = a + n + i + 1 - ring /\ wrap(r + j - 1, ring) = slot
  <2>1. a \in 0..ring - 1
    BY DEF gap
  <2>2. PICK j \in 1..a : j = a + n + i + 1 - ring
    BY <1>7, <2>1
  <2>3. PICK x \in Int : x = r + j - 1 /\ 0 <= x /\ x < 2 * ring
    BY <2>1, <2>2
  <2>4. wrap(x, ring) = IF x < ring THEN x ELSE x - ring
    BY <2>3, Wraps
  <2>5. slot = IF x < ring THEN x ELSE x - ring
    BY <1>1, <1>2, <1>3, <1>7, <2>1, <2>2, <2>3 DEF gap
  <2>6. wrap(r + j - 1, ring) = wrap(x, ring)
    BY <2>3, Zenon
  <2> QED
    BY <2>2, <2>4, <2>5, <2>6
<1> QED
  BY <1>4, <1>6, <1>7

\* From slot r on the ring d holds the a newest of the first w bytes.
Holds(d, ring, r, a, w) == \A i \in 1..a, y \in Int : y = r + i - 1 => d[wrap(y, ring)] = w - a + i

\* The ring e is d with n new bytes from slot p on.
Rewritten(e, d, ring, p, n, w) ==
  \A slot \in 0..ring - 1, x \in Int : x = wrap(slot - p, ring) => e[slot] = IF x < n THEN w + 1 + x ELSE d[slot]

\* A write that does not reach the reader adds to what it finds.
LEMMA RingFilled ==
  ASSUME NEW ring \in Nat \ {0}, NEW r \in 0..ring - 1, NEW p \in 0..ring - 1,
         NEW a \in 0..ring - 1, a = gap(ring, r, p), NEW w \in Nat, NEW n \in 1..ring - 1, NEW d, NEW e,
         Holds(d, ring, r, a, w), Rewritten(e, d, ring, p, n, w), a + n < ring,
         NEW many, many = a + n, NEW last, last = w + n
  PROVE  Holds(e, ring, r, many, last)
<1>1. a \in 0..ring - 1
  BY DEF gap
<1>2. SUFFICES ASSUME NEW i \in 1..many, NEW y \in Int, y = r + i - 1 PROVE e[wrap(y, ring)] = last - many + i
  BY Zenon DEF Holds
<1>3. i \in 1..ring - 1
  BY <1>1
<1>4. PICK slot : slot = wrap(y, ring)
  OBVIOUS
<1>5. /\ slot \in 0..ring - 1
      /\ wrap(slot - p, ring) = IF i <= a THEN ring - a + i - 1 ELSE i - 1 - a
  <2>1. slot = IF r + i - 1 < 0 THEN r + i - 1 + ring ELSE IF r + i - 1 < ring THEN r + i - 1 ELSE r + i - 1 - ring
    BY <1>2, <1>3, <1>4, Wraps
  <2>2. slot \in 0..ring - 1
    BY <1>3, <2>1
  <2>3. wrap(slot - p, ring) = IF slot - p < 0 THEN slot - p + ring ELSE IF slot - p < ring THEN slot - p ELSE slot - p - ring
    BY <2>2, Wraps
  <2> QED
    BY <1>1, <1>3, <2>1, <2>2, <2>3 DEF gap
<1>6. CASE i <= a
  <2>1. i \in 1..a
    BY <1>1, <1>6
  <2>2. d[wrap(y, ring)] = w - a + i
    BY <1>2, <2>1 DEF Holds
  <2>3. d[slot] = w - a + i
    BY <1>4, <2>2, Zenon
  <2>4. PICK x \in Int : x = wrap(slot - p, ring) /\ x = ring - a + i - 1
    BY <1>1, <1>5, <1>6
  <2>5. ~ (x < n)
    BY <1>1, <2>1, <2>4
  <2>6. e[slot] = w - a + i
    BY <1>5, <2>3, <2>4, <2>5 DEF Rewritten
  <2>7. w - a + i = last - many + i
    BY <1>1
  <2> QED
    BY <1>4, <2>6, <2>7, Zenon
<1>7. CASE ~ (i <= a)
  <2>1. PICK x \in Int : x = wrap(slot - p, ring) /\ x = i - 1 - a
    BY <1>1, <1>5, <1>7
  <2>2. x < n
    BY <1>1, <2>1
  <2>3. e[slot] = w + 1 + x
    BY <1>5, <2>1, <2>2 DEF Rewritten
  <2>4. w + 1 + x = last - many + i
    BY <1>1, <2>1
  <2> QED
    BY <1>4, <2>3, <2>4, Zenon
<1> QED
  BY <1>6, <1>7

\* One that does pushes it on, and it finds a full ring.
LEMMA RingOverrun ==
  ASSUME NEW ring \in Nat \ {0}, NEW r \in 0..ring - 1, NEW p \in 0..ring - 1,
         NEW a, a = gap(ring, r, p), NEW w \in Nat, NEW n \in 1..ring - 1, NEW d, NEW e,
         Holds(d, ring, r, a, w), Rewritten(e, d, ring, p, n, w), a + n >= ring,
         NEW q, q = wrap(p + n + 1, ring),
         NEW many, many = ring - 1, NEW last, last = w + n
  PROVE  Holds(e, ring, q, many, last)
<1>1. a \in 0..ring - 1
  BY DEF gap
<1>2. SUFFICES ASSUME NEW i \in 1..ring - 1, NEW y \in Int, y = q + i - 1 PROVE e[wrap(y, ring)] = last - many + i
  BY Zenon DEF Holds
<1>3. PICK slot : slot = wrap(y, ring)
  OBVIOUS
<1>4. /\ slot \in 0..ring - 1
      /\ wrap(slot - p, ring) = IF n + i < ring THEN n + i ELSE n + i - ring
      /\ n + i < ring => \E j \in 1..a : j = a + n + i + 1 - ring /\ wrap(r + j - 1, ring) = slot
  BY <1>2, <1>3, SlotsPushed
<1>5. CASE n + i < ring
  <2>1. PICK j \in 1..a : j = a + n + i + 1 - ring /\ wrap(r + j - 1, ring) = slot
    BY <1>4, <1>5
  <2>2. PICK z \in Int : z = r + j - 1
    BY <1>1
  <2>3. d[wrap(z, ring)] = w - a + j
    BY <2>2 DEF Holds
  <2>4. d[slot] = w - a + j
    BY <2>1, <2>2, <2>3, Zenon
  <2>5. PICK x \in Int : x = wrap(slot - p, ring) /\ x = n + i
    BY <1>4, <1>5
  <2>6. ~ (x < n)
    BY <2>5
  <2>7. e[slot] = w - a + j
    BY <1>4, <2>4, <2>5, <2>6 DEF Rewritten
  <2>8. w - a + j = last - many + i
    BY <1>1, <2>1
  <2> QED
    BY <1>3, <2>7, <2>8, Zenon
<1>6. CASE ~ (n + i < ring)
  <2>1. PICK x \in Int : x = wrap(slot - p, ring) /\ x = n + i - ring
    BY <1>4, <1>6
  <2>2. x < n
    BY <2>1
  <2>3. e[slot] = w + 1 + x
    BY <1>4, <2>1, <2>2 DEF Rewritten
  <2>4. w + 1 + x = last - many + i
    BY <2>1
  <2> QED
    BY <1>3, <2>3, <2>4, Zenon
<1> QED
  BY <1>5, <1>6
----------------------------------------------------------------------------
\* The positions are on the ring, and both at its start when there is nothing
\* to read; the unread bytes are the newest that were written.
Positions ==
  /\ written \in Nat
  /\ writePos \in 0..BufferSize - 1
  /\ readPos \in 0..BufferSize - 1
  /\ ready \/ (writePos = 0 /\ readPos = 0)

AudioInv == Positions /\ Holds(data, BufferSize, readPos, Available, written)

LEMMA AvailableIsGap == AudioInv => Available = gap(BufferSize, readPos, writePos) /\ Available \in 0..BufferSize - 1
BY AudioAssumption DEF AudioInv, Positions, Available, gap

\* What a reader at slot r that takes m bytes gets.
ReadFrom(d, ring, r, m) == [i \in 1..m |-> d[(r + i - 1) % ring]]

LEMMA RunRead ==
  ASSUME NEW ring, NEW r \in Nat, NEW a \in Nat, NEW w \in Nat, NEW d, Holds(d, ring, r, a, w),
         NEW m \in 0..a
  PROVE  ReadFrom(d, ring, r, m) = Run(m, w - a + m)
<1>0. PICK v \in Int : v = w - a + m
  OBVIOUS
<1>1. ASSUME NEW i \in 1..m PROVE d[(r + i - 1) % ring] = v - m + i
  <2>1. PICK y \in Int : y = r + i - 1
    OBVIOUS
  <2>2. i \in 1..a
    OBVIOUS
  <2>3. d[wrap(y, ring)] = w - a + i
    BY <2>1, <2>2 DEF Holds
  <2>4. v - m + i = w - a + i
    BY <1>0
  <2> QED
    BY <2>1, <2>3, <2>4, Zenon DEF wrap
<1>2. [i \in 1..m |-> d[(r + i - 1) % ring]] = [i \in 1..m |-> v - m + i]
  BY <1>1, Zenon
<1>3. [i \in 1..m |-> d[(r + i - 1) % ring]] = Run(m, v)
  BY <1>2 DEF Run
<1> QED
  BY <1>0, <1>3, Zenon DEF ReadFrom

\* What the queue keeps of a run of bytes.
LEMMA NewestOfRun ==
  ASSUME NEW n \in Nat, NEW w \in Int, NEW many, many = IF n < BufferSize THEN n ELSE BufferSize - 1
  PROVE  Queue!Newest(Run(n, w)) = Run(many, w)
<1>1. Len(Run(n, w)) = n
  BY RunIsSeq
<1>2. CASE n < BufferSize
  BY <1>1, <1>2, AudioAssumption DEF Queue!Newest
<1>3. CASE ~ (n < BufferSize)
  <2>1. PICK from \in Nat \ {0} : from = n - (BufferSize - 1) + 1 /\ from <= n + 1
    BY <1>3, AudioAssumption
  <2>2. many = n - from + 1 /\ w = w - n + n /\ ~ (n <= BufferSize - 1)
    BY <1>3, <2>1, AudioAssumption
  <2>3. SubSeq(Run(n, w), from, n) = Run(many, w)
    <3>1. from <= n + 1 /\ many = n - from + 1 /\ w = w - n + n
      BY <2>1, <2>2
    <3> QED
      BY <3>1, RunPart
  <2>4. Queue!Newest(Run(n, w)) = SubSeq(Run(n, w), from, n)
    BY <1>1, <2>1, <2>2 DEF Queue!Newest
  <2> QED
    BY <2>3, <2>4, Zenon
<1> QED
  BY <1>2, <1>3

\* Putting n bytes behind the unread ones keeps the newest of them all.
LEMMA PutOfRun ==
  ASSUME NEW a \in Nat, NEW w \in Nat, NEW n \in Nat, NEW many, many = IF a + n < BufferSize THEN a + n ELSE BufferSize - 1
  PROVE  Queue!Newest(Run(a, w) \o [i \in 1..n |-> w + i]) = Run(many, w + n)
<1>1. PICK all \in Nat, last \in Int : all = a + n /\ last = w + n
  OBVIOUS
<1>2. [i \in 1..n |-> w + i] = Run(n, last)
  BY <1>1 DEF Run
<1>3. Run(a, w) \o Run(n, last) = Run(all, last)
  BY <1>1, w \in Int, RunsJoin
<1>4. Queue!Newest(Run(all, last)) = Run(many, last)
  BY <1>1, NewestOfRun
<1> QED
  BY <1>1, <1>2, <1>3, <1>4, Zenon

\* A write ends with the newest bytes unread.
LEMMA WriteStep ==
  ASSUME AudioInv, NEW n \in 1..MaxBytes - written, Write(n)
  PROVE  /\ AudioInv'
         /\ Available' = IF Available + n < BufferSize THEN Available + n ELSE BufferSize - 1
<1>1. PICK ring \in Nat \ {0}, r \in 0..BufferSize - 1, p \in 0..BufferSize - 1, w \in Nat :
        ring = BufferSize /\ r = readPos /\ p = writePos /\ w = written
  BY AudioAssumption DEF AudioInv, Positions
<1>2. PICK a : a = Available
  OBVIOUS
<1>3. a = gap(ring, r, p) /\ a \in 0..ring - 1 /\ n \in Nat \ {0}
  BY <1>1, <1>2, AvailableIsGap
<1>4. written' = w + n /\ written' \in Nat
  BY <1>1, <1>3 DEF Write
<1>ready. ready'
  BY DEF Write
<1>5. CASE n >= ring
  <2>1. /\ data' = [i \in 0..ring - 1 |-> w + n - ring + 1 + i]
        /\ writePos' = 0
        /\ readPos' = wrap(1, ring)
    BY <1>1, <1>5 DEF Write, WriteFull, wrap
  <2>2. readPos' = IF ring = 1 THEN 0 ELSE 1
    <3>1. wrap(1, ring) = IF 1 < ring THEN 1 ELSE 1 - ring
      BY <1>1, Wraps
    <3> QED
      BY <2>1, <3>1
  <2>3. Available' = ring - 1
    BY <1>1, <2>1, <2>2 DEF Available
  <2>4. Positions'
    <3>1. writePos' \in 0..BufferSize - 1 /\ readPos' \in 0..BufferSize - 1
      BY <1>1, <1>3, <1>4, <2>1, <2>2
    <3> QED
      BY <1>4, <1>ready, <3>1 DEF Positions
  <2>5. ASSUME NEW i \in 1..ring - 1, NEW y \in Int, y = readPos' + i - 1
        PROVE  data'[wrap(y, ring)] = w + n - (ring - 1) + i
    <3>1. y = i /\ i \in 0..ring - 1
      BY <2>2, <2>5
    <3>2. wrap(y, ring) = i
      BY <3>1, Wraps
    <3>3. data'[i] = w + n - ring + 1 + i
      BY <2>1, <3>1
    <3>4. w + n - ring + 1 + i = w + n - (ring - 1) + i
      BY <1>3
    <3> QED
      BY <3>2, <3>3, <3>4, Zenon
  <2>6. PICK many \in Int, last \in Int : many = ring - 1 /\ last = w + n
    BY <1>3
  <2>7. Holds(data', ring, readPos', many, last)
    BY <2>5, <2>6 DEF Holds
  <2> QED
    BY <1>1, <1>2, <1>3, <1>4, <1>5, <2>3, <2>4, <2>6, <2>7 DEF AudioInv
<1>6. CASE ~ (n >= ring)
  <2>1. WriteRing(n) /\ n \in 1..ring - 1
    BY <1>1, <1>3, <1>6 DEF Write
  <2>2. Rewritten(data', data, ring, p, n, w)
    BY <1>1, <2>1 DEF WriteRing, Ahead, Rewritten, wrap
  <2>3. Holds(data, ring, r, a, w)
    BY <1>1, <1>2 DEF AudioInv
  <2>4. writePos' = wrap(p + n, ring)
    BY <1>1, <2>1 DEF WriteRing, wrap
  <2>5. Overtakes(n) <=> a + n >= ring
    BY <1>1, <1>2, <1>3, <2>1 DEF Overtakes, AudioInv, Positions, Available
  <2>6. /\ wrap(p + n, ring) \in 0..ring - 1 /\ wrap(p + n + 1, ring) \in 0..ring - 1
        /\ a + n < ring => gap(ring, r, wrap(p + n, ring)) = a + n
        /\ gap(ring, wrap(p + n + 1, ring), wrap(p + n, ring)) = ring - 1
    BY <1>1, <1>3, <2>1, GapGrows
  <2>7. CASE a + n >= ring
    <3>1. PICK q : q = wrap(p + n + 1, ring)
      OBVIOUS
    <3>2. readPos' = q
      BY <1>1, <2>1, <2>5, <2>7, <3>1 DEF WriteRing, wrap
    <3>3. PICK many, last : many = ring - 1 /\ last = w + n
      OBVIOUS
    <3>4. Holds(data', ring, q, many, last)
      BY <1>1, <1>3, <2>1, <2>2, <2>3, <2>7, <3>1, <3>3, RingOverrun
    <3>5. Available' = ring - 1
      BY <1>1, <2>4, <2>6, <3>1, <3>2 DEF Available, gap
    <3>6. Positions'
      <4>1. writePos' \in 0..BufferSize - 1 /\ readPos' \in 0..BufferSize - 1
        BY <1>1, <1>3, <1>4, <2>4, <2>6, <3>1, <3>2
      <4> QED
        BY <1>4, <1>ready, <4>1 DEF Positions
    <3> QED
      BY <1>1, <1>2, <1>3, <1>4, <2>7, <3>2, <3>3, <3>4, <3>5, <3>6 DEF AudioInv
  <2>8. CASE ~ (a + n >= ring)
    <3>1. readPos' = r
      BY <1>1, <2>1, <2>5, <2>8 DEF WriteRing
    <3>2. PICK many, last : many = a + n /\ last = w + n
      OBVIOUS
    <3>3. a + n < ring
      BY <1>3, <2>8
    <3>4. Holds(data', ring, r, many, last)
      BY <1>1, <1>3, <2>1, <2>2, <2>3, <3>2, <3>3, RingFilled
    <3>5. Available' = a + n
      BY <1>1, <2>4, <2>6, <3>1, <3>3 DEF Available, gap
    <3>6. Positions'
      <4>1. writePos' \in 0..BufferSize - 1 /\ readPos' \in 0..BufferSize - 1
        BY <1>1, <1>3, <1>4, <2>4, <2>6, <3>1
      <4> QED
        BY <1>4, <1>ready, <4>1 DEF Positions
    <3> QED
      BY <1>1, <1>2, <1>4, <3>1, <3>2, <3>3, <3>4, <3>5, <3>6 DEF AudioInv
  <2> QED
    BY <2>7, <2>8
<1> QED
  BY <1>5, <1>6
\* A read takes the oldest unread bytes.
LEMMA ReadStep ==
  ASSUME AudioInv, NEW k \in 1..BufferSize, Read(k),
         NEW m, m = IF k < Available THEN k ELSE Available
  PROVE  /\ AudioInv'
         /\ Available' = Available - m
         /\ out' = Run(m, written - Available + m)
<1>1. PICK ring \in Nat \ {0}, r \in 0..BufferSize - 1, p \in 0..BufferSize - 1, w \in Nat :
        ring = BufferSize /\ r = readPos /\ p = writePos /\ w = written
  BY AudioAssumption DEF AudioInv, Positions
<1>2. PICK a : a = Available
  OBVIOUS
<1>3. a = gap(ring, r, p) /\ a \in 0..ring - 1
  BY <1>1, <1>2, AvailableIsGap
<1>4. m \in 0..a /\ m \in 0..ring - 1
  BY <1>2, <1>3
<1>5. UNCHANGED <<data, writePos, ready, written>>
  BY DEF Read
<1>6. PICK rest \in Nat : rest = a - m
  BY <1>3, <1>4
<1>7. Holds(data, ring, r, a, w)
  BY <1>1, <1>2 DEF AudioInv
<1>8. CASE ready
  <2>1. readPos' = wrap(r + m, ring)
    BY <1>1, <1>2, <1>8 DEF Read, wrap
  <2>2. /\ wrap(r + m, ring) \in 0..ring - 1
        /\ gap(ring, wrap(r + m, ring), p) = a - m
    <3>1. PICK n \in 0..gap(ring, r, p) : n = m
      BY <1>3, <1>4
    <3>2. /\ wrap(r + n, ring) \in 0..ring - 1
          /\ gap(ring, wrap(r + n, ring), p) = gap(ring, r, p) - n
      BY <1>1, GapShrinks
    <3> QED
      BY <1>3, <3>1, <3>2
  <2>3. Available' = a - m
    BY <1>1, <1>5, <2>1, <2>2 DEF Available, gap
  <2>4. Positions'
    <3>1. readPos' \in 0..BufferSize - 1
      BY <1>1, <2>1, <2>2
    <3> QED
      BY <1>5, <1>8, <3>1 DEF Positions, AudioInv
  <2>5. PICK q \in 0..ring - 1 : q = wrap(r + m, ring)
    BY <2>2
  <2>6. ASSUME NEW i \in 1..rest, NEW y \in Int, y = q + i - 1
        PROVE  data[wrap(y, ring)] = w - rest + i
    <3>1. PICK j \in 1..a : j = m + i
      BY <1>3, <1>4, <1>6
    <3>2. PICK z \in Int : z = r + j - 1
      BY <1>1
    <3>3. data[wrap(z, ring)] = w - a + j
      BY <1>7, <3>2 DEF Holds
    <3>4. wrap(z, ring) = IF z < ring THEN z ELSE z - ring
      <4>1. 0 <= z /\ z < 2 * ring
        BY <1>1, <1>3, <3>1, <3>2
      <4> QED
        BY <4>1, Wraps
    <3>5. q = IF r + m < ring THEN r + m ELSE r + m - ring
      <4>1. PICK x \in Int : x = r + m /\ 0 <= x /\ x < 2 * ring
        BY <1>1, <1>3, <1>4
      <4>2. wrap(x, ring) = IF x < ring THEN x ELSE x - ring
        BY <4>1, Wraps
      <4> QED
        BY <2>5, <4>1, <4>2
    <3>6. wrap(y, ring) = IF y < ring THEN y ELSE y - ring
      <4>1. 0 <= y /\ y < 2 * ring
        BY <1>3, <1>4, <1>6, <2>6
      <4> QED
        BY <4>1, Wraps
    <3>7. wrap(y, ring) = wrap(z, ring)
      BY <1>1, <1>3, <1>4, <1>6, <2>6, <3>1, <3>2, <3>4, <3>5, <3>6
    <3>8. w - a + j = w - rest + i
      BY <1>3, <1>4, <1>6, <3>1
    <3> QED
      BY <3>3, <3>7, <3>8, Zenon
  <2>7. Holds(data, ring, q, rest, w)
    BY <2>6, Zenon DEF Holds
  <2>8. Holds(data', BufferSize, readPos', Available', written')
    BY <1>1, <1>5, <1>6, <2>1, <2>3, <2>5, <2>7, Zenon
  <2>9. AudioInv'
    BY <2>4, <2>8 DEF AudioInv
  <2>10. out' = ReadFrom(data, ring, r, m)
    BY <1>1, <1>8 DEF Read, ReadFrom
  <2>11. ReadFrom(data, ring, r, m) = Run(m, w - a + m)
    <3>1. r \in Nat /\ a \in Nat /\ m \in 0..a
      BY <1>1, <1>3, <1>4
    <3> QED
      BY <1>7, <3>1, RunRead
  <2> QED
    BY <1>1, <1>2, <2>3, <2>9, <2>10, <2>11
<1>9. CASE ~ ready
  <2>1. a = 0 /\ m = 0
    <3>1. writePos = 0 /\ readPos = 0
      BY <1>9 DEF AudioInv, Positions
    <3> QED
      BY <1>1, <1>3, <1>4, <3>1 DEF gap
  <2>2. out' = << >> /\ readPos' = readPos
    BY <1>9 DEF Read
  <2>3. Available' = Available
    BY <1>5, <2>2 DEF Available
  <2>4. AudioInv'
    BY <1>5, <2>2, <2>3 DEF AudioInv, Positions
  <2>5. w - a + m \in Int
    BY <1>3, <1>4
  <2>6. PICK v \in Int : v = w - a + m
    BY <2>5
  <2>7. << >> = Run(0, v)
    BY NoRun
  <2>8. out' = Run(m, w - a + m)
    BY <2>1, <2>2, <2>6, <2>7, Zenon
  <2>9. Available' = Available - m
    <3>1. a - m = a
      BY <2>1
    <3> QED
      BY <1>2, <2>3, <3>1, Zenon
  <2> QED
    BY <1>1, <1>2, <2>4, <2>8, <2>9, Zenon
<1> QED
  BY <1>8, <1>9

\* A cleared ring is empty.
LEMMA ClearStep ==
  ASSUME AudioInv, Clear
  PROVE  AudioInv' /\ Available' = 0 /\ out' = << >> /\ written' = written
<1>1. /\ writePos' = 0 /\ readPos' = 0 /\ out' = << >>
      /\ UNCHANGED <<data, written>>
  BY DEF Clear
<1>2. Available' = 0
  BY <1>1 DEF Available
<1>3. Positions'
  BY <1>1, AudioAssumption DEF AudioInv, Positions
<1>4. Holds(data', BufferSize, readPos', 0, written')
  BY DEF Holds
<1> QED
  BY <1>1, <1>2, <1>3, <1>4 DEF AudioInv

\* The step of the queue that a step of the ring is.
LEMMA QueueStep ==
  ASSUME AudioInv, [AudioNext]_audioVars
  PROVE  AudioInv' /\ [Queue!Next]_<<Unread, out, written>>
<1>1. PICK a \in Nat, w \in Nat : a = Available /\ w = written /\ a < BufferSize
  BY AudioAssumption, AvailableIsGap DEF AudioInv, Positions
<1>2. Unread = Run(a, w)
  <2>1. Holds(data, BufferSize, readPos, a, w) /\ readPos \in Nat
    BY <1>1, AudioAssumption DEF AudioInv, Positions
  <2>2. ReadFrom(data, BufferSize, readPos, a) = Run(a, w - a + a)
    BY <2>1, a \in 0..a, RunRead
  <2>3. w - a + a = w
    OBVIOUS
  <2> QED
    BY <1>1, <2>2, <2>3 DEF Unread, ReadFrom
<1>3. ASSUME AudioInv', NEW b \in Nat, b = Available', NEW v \in Nat, v = written' PROVE Unread' = Run(b, v)
  <2>1. Holds(data', BufferSize, readPos', b, v) /\ readPos' \in Nat
    BY <1>3, AudioAssumption DEF AudioInv, Positions
  <2>2. ReadFrom(data', BufferSize, readPos', b) = Run(b, v - b + b)
    BY <2>1, b \in 0..b, RunRead
  <2>3. v - b + b = v
    OBVIOUS
  <2> QED
    BY <1>3, <2>2, <2>3 DEF Unread, ReadFrom
<1>4. ASSUME NEW n \in 1..MaxBytes - written, Write(n)
      PROVE  AudioInv' /\ Queue!Next
  <2>1. /\ AudioInv'
        /\ Available' = IF a + n < BufferSize THEN a + n ELSE BufferSize - 1
    BY <1>1, <1>4, WriteStep
  <2>2. written' = w + n /\ out' = << >> /\ n \in Nat
    BY <1>1, <1>4 DEF Write
  <2>3. Queue!Newest(Run(a, w) \o [i \in 1..n |-> w + i]) = Run(Available', w + n)
    BY <2>1, <2>2, PutOfRun
  <2>4. Unread' = Queue!Newest(Unread \o [i \in 1..n |-> written + i])
    <3>1. Available' \in Nat /\ written' \in Nat
      BY <1>1, <2>1, <2>2, AudioAssumption
    <3>2. Unread' = Run(Available', written')
      BY <1>3, <2>1, <3>1, Zenon
    <3> QED
      BY <1>1, <1>2, <2>2, <2>3, <3>2, Zenon
  <2>5. Queue!Put(n)
    BY <1>1, <2>2, <2>4 DEF Queue!Put
  <2>6. n \in 0..MaxBytes - written
    BY <1>1, AudioAssumption
  <2> QED
    BY <2>1, <2>5, <2>6 DEF Queue!Next
<1>5. ASSUME NEW k \in 1..BufferSize, Read(k)
      PROVE  AudioInv' /\ Queue!Next
  <2>1. PICK m \in 0..a : m = IF k < a THEN k ELSE a
    BY <1>1
  <2>2. /\ AudioInv'
        /\ Available' = a - m
        /\ out' = Run(m, w - a + m)
    BY <1>1, <1>5, <2>1, ReadStep
  <2>3. written' = written
    BY <1>5 DEF Read
  <2>4. Len(Unread) = a
    BY <1>2, RunIsSeq
  <2>5. out' = SubSeq(Unread, 1, m)
    <3>1. m - 1 + 1 = m
      BY <2>1
    <3>2. SubSeq(Run(a, w), 1, m) = Run(m - 1 + 1, w - a + m)
      <4>1. PICK from \in Nat \ {0} : from = 1 /\ m \in Nat /\ m <= a /\ from <= m + 1 /\ w \in Int
        BY <2>1
      <4>2. SubSeq(Run(a, w), from, m) = Run(m - from + 1, w - a + m)
        BY <4>1, RunPart
      <4> QED
        BY <4>1, <4>2, Zenon
    <3> QED
      BY <1>2, <2>2, <3>1, <3>2, Zenon
  <2>6. Unread' = SubSeq(Unread, m + 1, Len(Unread))
    <3>1. PICK from \in Nat \ {0} : from = m + 1
      BY <2>1
    <3>2. from <= a + 1 /\ a - from + 1 = a - m /\ w - a + a = w
      BY <2>1, <3>1
    <3>3. SubSeq(Run(a, w), from, a) = Run(a - from + 1, w - a + a)
      <4>1. w \in Int /\ a <= a /\ from <= a + 1
        BY <3>2
      <4> QED
        BY <4>1, RunPart
    <3>4. Available' \in Nat /\ written' \in Nat
      BY <1>1, <2>1, <2>2, <2>3
    <3>5. Unread' = Run(Available', written')
      BY <1>3, <2>2, <3>4, Zenon
    <3> QED
      BY <1>1, <1>2, <2>2, <2>3, <2>4, <3>1, <3>2, <3>3, <3>5, Zenon
  <2>7. Queue!Get(k)
    BY <2>1, <2>3, <2>4, <2>5, <2>6 DEF Queue!Get
  <2>8. k \in 1..BufferSize - 1 + 1
    BY AudioAssumption
  <2> QED
    BY <2>2, <2>7, <2>8 DEF Queue!Next
<1>6. ASSUME Clear PROVE AudioInv' /\ Queue!Next
  <2>1. AudioInv' /\ Available' = 0 /\ out' = << >> /\ written' = written
    BY <1>6, ClearStep
  <2>2. Unread' = << >>
    <3>1. << >> = Run(0, w)
      BY NoRun
    <3>2. Available' \in Nat /\ written' \in Nat
      BY <1>1, <2>1
    <3>3. Unread' = Run(Available', written')
      BY <1>3, <2>1, <3>2, Zenon
    <3> QED
      BY <1>1, <2>1, <3>1, <3>3, Zenon
  <2> QED
    BY <2>1, <2>2 DEF Queue!Next, Queue!Drop
<1>7. ASSUME UNCHANGED audioVars PROVE AudioInv' /\ UNCHANGED <<Unread, out, written>>
  <2>1. Available' = Available
    BY <1>7 DEF audioVars, Available
  <2>2. Unread' = Unread
    BY <1>7, <2>1 DEF audioVars, Unread
  <2> QED
    BY <1>7, <2>1, <2>2 DEF audioVars, AudioInv, Positions
<1> QED
  BY <1>4, <1>5, <1>6, <1>7 DEF AudioNext

\* The audio ring hands its reader the newest unread bytes in order, whatever
\* the sizes of the ring, the writes and the reads (audio.go:258-326).
THEOREM ImplementsQueueHolds == AudioSpec => ImplementsQueue
<1>1. AudioInit => AudioInv /\ Queue!Init
  <2> SUFFICES ASSUME AudioInit PROVE AudioInv /\ Queue!Init
    OBVIOUS
  <2>1. Available = 0
    BY DEF AudioInit, Available
  <2>2. Positions
    BY AudioAssumption DEF AudioInit, Positions
  <2>3. Holds(data, BufferSize, readPos, 0, written)
    BY DEF Holds
  <2>4. AudioInv
    BY <2>1, <2>2, <2>3 DEF AudioInv
  <2>5. written = 0 /\ out = << >>
    BY DEF AudioInit
  <2>6. Unread = << >>
    <3>1. Unread = [i \in 1..0 |-> data[(readPos + i - 1) % BufferSize]]
      BY <2>1 DEF Unread
    <3> QED
      BY <3>1
  <2> QED
    BY <2>4, <2>5, <2>6 DEF Queue!Init
<1>2. AudioInv /\ [AudioNext]_audioVars => AudioInv' /\ [Queue!Next]_<<Unread, out, written>>
  BY QueueStep
<1> QED
  BY <1>1, <1>2, PTL DEF AudioSpec, ImplementsQueue, Queue!Spec

-----------------------------------------------------------------------------
(***************************************************************************)
(* Checkpoints, counted unit by unit.                                       *)
(***************************************************************************)
SizeUnits(S) == {b \in S \X (1 .. MaxSize) : b[2] =< b[1].size}

LEMMA StoreSize ==
  /\ MaxSize \in Nat /\ IsFiniteSet(1..MaxSize)
  /\ \A n \in 0..MaxSize : IsFiniteSet(1..n) /\ Cardinality(1..n) = n
<1>1. MaxSize \in Nat
  BY CheckpointAssumption
<1>2. ASSUME NEW n \in 0..MaxSize PROVE IsFiniteSet(1..n) /\ Cardinality(1..n) = n
  <2>1. n \in Int /\ 1 \in Int /\ n >= 0
    BY <1>1
  <2>2. IsFiniteSet(1..n) /\ Cardinality(1..n) = IF 1 > n THEN 0 ELSE n - 1 + 1
    BY <2>1, FS_Interval
  <2> QED
    BY <2>1, <2>2
<1> QED
  BY <1>1, <1>2

LEMMA UnitsFinite ==
  ASSUME NEW S, IsFiniteSet(S)
  PROVE  IsFiniteSet(SizeUnits(S)) /\ Total(S) = Cardinality(SizeUnits(S)) /\ Total(S) \in Nat
<1>1. IsFiniteSet(S \X (1..MaxSize))
  BY FS_Product, StoreSize
<1>2. IsFiniteSet(SizeUnits(S))
  BY <1>1, FS_Subset DEF SizeUnits
<1> QED
  BY <1>2, FS_CardinalityType DEF SizeUnits, Total

\* The total of two sets that share nothing.
LEMMA TotalsAdd ==
  ASSUME NEW S, IsFiniteSet(S), NEW T, IsFiniteSet(T), S \cap T = {}
  PROVE  Total(S \cup T) = Total(S) + Total(T)
<1>1. SizeUnits(S \cup T) = SizeUnits(S) \cup SizeUnits(T) /\ SizeUnits(S) \cap SizeUnits(T) = {}
  BY DEF SizeUnits
<1>2. /\ IsFiniteSet(SizeUnits(S)) /\ Total(S) = Cardinality(SizeUnits(S)) /\ Total(S) \in Nat
      /\ IsFiniteSet(SizeUnits(T)) /\ Total(T) = Cardinality(SizeUnits(T)) /\ Total(T) \in Nat
  BY UnitsFinite
<1>3. IsFiniteSet(S \cup T)
  BY FS_Union
<1>4. Total(S \cup T) = Cardinality(SizeUnits(S \cup T))
  BY <1>3, UnitsFinite
<1>5. Cardinality(SizeUnits(S) \cup SizeUnits(T)) = Total(S) + Total(T) - Cardinality({})
  BY <1>1, <1>2, FS_Union
<1>6. Cardinality({}) = 0
  BY FS_EmptySet
<1>7. Cardinality(SizeUnits(S) \cup SizeUnits(T)) = Total(S) + Total(T)
  <2>1. Cardinality(SizeUnits(S) \cup SizeUnits(T)) = Total(S) + Total(T) - 0
    BY <1>5, <1>6, Zenon
  <2> QED
    BY <1>2, <2>1
<1> QED
  BY <1>1, <1>4, <1>7, Zenon

LEMMA TotalRest ==
  ASSUME NEW S, IsFiniteSet(S), NEW T, T \subseteq S
  PROVE  /\ IsFiniteSet(T) /\ IsFiniteSet(S \ T)
         /\ Total(T) \in Nat /\ Total(S \ T) \in Nat /\ Total(S) = Total(T) + Total(S \ T)
<1>1. IsFiniteSet(T) /\ IsFiniteSet(S \ T)
  BY FS_Subset
<1>2. S = T \cup (S \ T) /\ T \cap (S \ T) = {}
  OBVIOUS
<1>3. Total(T \cup (S \ T)) = Total(T) + Total(S \ T)
  BY <1>1, <1>2, TotalsAdd
<1> QED
  BY <1>1, <1>2, <1>3, UnitsFinite

LEMMA TotalOfOne ==
  ASSUME NEW r, r.size \in 0..MaxSize
  PROVE  IsFiniteSet({r}) /\ Cardinality({r}) = 1 /\ Total({r}) = r.size
<1> DEFINE n == r.size
<1>1. SizeUnits({r}) = {r} \X (1..n)
  BY StoreSize DEF SizeUnits
<1>2. IsFiniteSet({r}) /\ Cardinality({r}) = 1
  BY FS_Singleton
<1>3. IsFiniteSet(1..n) /\ Cardinality(1..n) = n
  BY StoreSize
<1> HIDE DEF n
<1>4. Cardinality({r} \X (1..n)) = n
  <2>1. Cardinality({r} \X (1..n)) = Cardinality({r}) * Cardinality(1..n)
    BY <1>2, <1>3, FS_Product
  <2>2. n \in Int
    BY StoreSize DEF n
  <2> QED
    BY <1>2, <1>3, <2>1, <2>2
<1>5. Total({r}) = Cardinality(SizeUnits({r}))
  BY <1>2, UnitsFinite
<1> QED
  BY <1>1, <1>2, <1>4, <1>5 DEF n

LEMMA TotalOfNone == Total({}) = 0
<1>1. SizeUnits({}) = {}
  BY DEF SizeUnits
<1> QED
  BY <1>1, FS_EmptySet DEF SizeUnits, Total

\* The oldest and the newest of some snapshots are among them.
LEMMA EndsAmong ==
  ASSUME NEW S, S # {}, NEW n \in Nat, \A r \in S : r.at \in 1..n
  PROVE  Oldest(S) \in S /\ Newest(S) \in S
<1>1. \E r \in S : \A q \in S : r.at =< q.at
  <2> DEFINE T == {r.at : r \in S}
  <2>1. T \subseteq Nat /\ T # {}
    OBVIOUS
  <2>2. Min(T) \in T /\ \A t \in T : Min(T) =< t
    <3> HIDE DEF T
    <3> QED
      BY <2>1, LeastOf
  <2> QED
    BY <2>2
<1>2. \E r \in S : \A q \in S : r.at >= q.at
  <2> DEFINE T == {n - r.at : r \in S}
  <2>1. T \subseteq Nat /\ T # {}
    OBVIOUS
  <2>2. Min(T) \in T /\ \A t \in T : Min(T) =< t
    <3> HIDE DEF T
    <3> QED
      BY <2>1, LeastOf
  <2>3. PICK r \in S : Min(T) = n - r.at
    BY <2>2
  <2>4. \A q \in S : n - r.at =< n - q.at
    BY <2>2, <2>3
  <2> QED
    BY <2>3, <2>4
<1> QED
  BY <1>1, <1>2 DEF Oldest, Newest

CheckpointInv ==
  /\ CheckpointTypeOK
  /\ IsFiniteSet(snapshots)
  /\ \A r \in snapshots : r.at =< saves /\ r.size =< MaxSize
  /\ ExactWithoutDeltas /\ BoundedWithoutDeltas /\ NeverOverstated

LEMMA CheckpointFacts ==
  ASSUME CheckpointInv
  PROVE  /\ saves \in Nat /\ MaxSaves \in Nat /\ saves =< MaxSaves
         /\ usedSize \in Int /\ MaxSize \in Nat
         /\ \A r \in snapshots : r.at \in 1..saves /\ r.size \in 0..MaxSize
<1>1. saves \in Nat /\ MaxSaves \in Nat /\ saves =< MaxSaves /\ usedSize \in Int /\ MaxSize \in Nat
  BY CheckpointAssumption DEF CheckpointInv, CheckpointTypeOK
<1>2. ASSUME NEW r \in snapshots PROVE r.at \in 1..saves /\ r.size \in 0..MaxSize
  <2>1. r.at \in 1..MaxSaves /\ r.size \in Nat
    BY CheckpointAssumption DEF CheckpointInv, CheckpointTypeOK, Snapshot
  <2>2. r.at =< saves /\ r.size =< MaxSize
    BY DEF CheckpointInv
  <2> QED
    BY <1>1, <2>1, <2>2
<1> QED
  BY <1>1, <1>2

\* What is dropped makes room for the entry, or it is everything.
LEMMA EvictionMakesRoom ==
  ASSUME CheckpointInv, NEW needed \in Nat
  PROVE  /\ Evicted(needed) \subseteq snapshots
         /\ usedSize - Total(Evicted(needed)) + needed =< MaxSize \/ Evicted(needed) = snapshots
<1> DEFINE upTo(c) == {r \in snapshots : r.at =< c}
           enough(c) == usedSize - Total(upTo(c)) + needed =< MaxSize \/ upTo(c) = snapshots
           least == CHOOSE c \in 0 .. saves : enough(c) /\ \A d \in 0 .. saves : enough(d) => c =< d
           T == {c \in 0..saves : enough(c)}
<1>1. Evicted(needed) = upTo(least)
  BY DEF Evicted
<1>2. saves \in T /\ T \subseteq Nat
  <2>1. upTo(saves) = snapshots
    BY DEF CheckpointInv
  <2> QED
    BY <2>1, CheckpointFacts
<1>3. Min(T) \in T /\ \A t \in T : Min(T) =< t
  <2> HIDE DEF T
  <2> QED
    BY <1>2, LeastOf
<1>4. \E c \in 0..saves : enough(c) /\ \A d \in 0 .. saves : enough(d) => c =< d
  <2> HIDE DEF enough
  <2> QED
    BY <1>3
<1>5. enough(least)
  <2> HIDE DEF enough
  <2> QED
    BY <1>4
<1> HIDE DEF least
<1> QED
  BY <1>1, <1>5

\* Steps that drop snapshots and take off what they are.
LEMMA DropKeeps ==
  ASSUME CheckpointInv, NEW gone, gone \subseteq snapshots, snapshots' = snapshots \ gone,
         usedSize' = usedSize - Total(gone), UNCHANGED <<saves, warm, cold, mixed>>
  PROVE  CheckpointInv'
<1>1. /\ IsFiniteSet(snapshots') /\ Total(gone) \in Nat /\ Total(snapshots') \in Nat
      /\ Total(snapshots) = Total(gone) + Total(snapshots')
  BY TotalRest DEF CheckpointInv
<1>2. usedSize' \in Int
  BY <1>1, CheckpointFacts
<1>3. ASSUME NEW id \in SessionIds PROVE Cardinality(Of(snapshots', id)) =< 2
  <2>1. Of(snapshots', id) \subseteq Of(snapshots, id) /\ Of(snapshots, id) \subseteq snapshots
    BY DEF Of
  <2>2. IsFiniteSet(Of(snapshots, id))
    BY <2>1, FS_Subset DEF CheckpointInv
  <2>3. /\ Cardinality(Of(snapshots', id)) =< Cardinality(Of(snapshots, id))
        /\ IsFiniteSet(Of(snapshots', id))
    BY <2>1, <2>2, FS_Subset
  <2>4. Cardinality(Of(snapshots', id)) \in Nat /\ Cardinality(Of(snapshots, id)) \in Nat
    BY <2>2, <2>3, FS_CardinalityType
  <2>5. Cardinality(Of(snapshots, id)) =< 2
    BY DEF CheckpointInv, CheckpointTypeOK
  <2> QED
    BY <2>3, <2>4, <2>5
<1>4. CheckpointTypeOK'
  BY <1>2, <1>3 DEF CheckpointInv, CheckpointTypeOK
<1>5. /\ mixed' = mixed
      /\ UsedSizeExact => UsedSizeExact'
      /\ usedSize' =< Total(snapshots')
      /\ Total(snapshots) =< MaxSize => Total(snapshots') =< MaxSize
  BY <1>1, CheckpointFacts DEF CheckpointInv, UsedSizeExact, NeverOverstated
<1>6. ExactWithoutDeltas' /\ BoundedWithoutDeltas' /\ NeverOverstated'
  BY <1>5 DEF CheckpointInv, ExactWithoutDeltas, BoundedWithoutDeltas, NeverOverstated
<1> QED
  BY <1>1, <1>4, <1>6 DEF CheckpointInv

LEMMA SaveKeeps ==
  ASSUME CheckpointInv, NEW id \in SessionIds, NEW stateSize \in StateSizes, NEW delta \in BOOLEAN,
         Save(id, stateSize, delta)
  PROVE  CheckpointInv'
<1> DEFINE entry == [id |-> id, size |-> stateSize, delta |-> delta, at |-> saves + 1]
           gone  == Evicted(stateSize)
           prior == Of(snapshots \ gone, id)
           done  == Replaced(prior, delta)
           list  == done.keep \cup {entry}
           cut   == Surplus(list)
           rest  == (snapshots \ gone) \ prior
<1>1. /\ saves < MaxSaves /\ stateSize =< MaxSize
      /\ snapshots' = rest \cup (list \ cut)
      /\ usedSize' = usedSize - Total(gone) - done.freed - Total(cut) + stateSize
      /\ saves' = saves + 1 /\ mixed' = (mixed \/ delta) /\ UNCHANGED <<warm, cold>>
  BY DEF Save
<1>2. stateSize \in Nat /\ stateSize \in 0..MaxSize
  BY <1>1, CheckpointAssumption
<1>3. /\ gone \subseteq snapshots
      /\ usedSize - Total(gone) + stateSize =< MaxSize \/ gone = snapshots
  BY <1>2, EvictionMakesRoom
<1> HIDE DEF gone
<1>4. /\ Total(gone) \in Nat /\ IsFiniteSet(snapshots \ gone)
      /\ Total(snapshots \ gone) \in Nat /\ Total(snapshots) = Total(gone) + Total(snapshots \ gone)
  BY <1>3, TotalRest DEF CheckpointInv
<1>5. /\ prior \subseteq snapshots \ gone /\ prior \subseteq snapshots /\ rest \subseteq snapshots
      /\ \A r \in rest : r.id # id
      /\ \A r \in prior : r.id = id
  BY DEF Of
<1>6. /\ IsFiniteSet(prior) /\ IsFiniteSet(rest) /\ Total(prior) \in Nat /\ Total(rest) \in Nat
      /\ Total(snapshots \ gone) = Total(prior) + Total(rest)
  BY <1>4, <1>5, TotalRest
<1>7. Cardinality(prior) \in Nat /\ Cardinality(prior) =< 2
  <2>1. prior \subseteq Of(snapshots, id) /\ Of(snapshots, id) \subseteq snapshots
    BY DEF Of
  <2>2. IsFiniteSet(Of(snapshots, id))
    BY <2>1, FS_Subset DEF CheckpointInv
  <2>3. Cardinality(prior) =< Cardinality(Of(snapshots, id))
    BY <2>1, <2>2, FS_Subset
  <2>4. Cardinality(prior) \in Nat /\ Cardinality(Of(snapshots, id)) \in Nat
    BY <1>6, <2>2, FS_CardinalityType
  <2>5. Cardinality(Of(snapshots, id)) =< 2
    BY DEF CheckpointInv, CheckpointTypeOK
  <2> HIDE DEF prior
  <2> QED
    BY <2>3, <2>4, <2>5
<1> HIDE DEF prior, rest
<1>8. /\ done.keep \subseteq prior
      /\ delta => done.keep = prior /\ done.freed \in Nat
      /\ ~delta => done.keep = {} /\ done.freed = Total(prior)
  <2>1. prior # {} => Newest(prior) \in prior
    BY <1>5, CheckpointFacts, EndsAmong
  <2>2. prior # {} => Newest(prior).size \in Nat
    BY <1>5, <2>1, CheckpointFacts
  <2> QED
    BY <2>2 DEF Replaced
<1> HIDE DEF done
<1>9. /\ IsFiniteSet(done.keep) /\ Cardinality(done.keep) \in Nat /\ Cardinality(done.keep) =< 2
  <2>1. IsFiniteSet(done.keep) /\ Cardinality(done.keep) =< Cardinality(prior)
    BY <1>6, <1>8, FS_Subset
  <2>2. Cardinality(done.keep) \in Nat
    BY <2>1, FS_CardinalityType
  <2> QED
    BY <1>7, <2>1, <2>2
<1>10. /\ entry.at = saves + 1 /\ entry.size = stateSize /\ entry.id = id
       /\ entry \in Snapshot
  BY <1>1, CheckpointFacts DEF Snapshot
<1> HIDE DEF entry
<1>11. entry \notin snapshots
  BY <1>10, CheckpointFacts
<1>12. /\ IsFiniteSet(list) /\ Cardinality(list) = Cardinality(done.keep) + 1
       /\ \A r \in list : r.at \in 1..(saves + 1)
  <2>1. entry \notin done.keep
    BY <1>5, <1>8, <1>11
  <2>2. IsFiniteSet(list) /\ Cardinality(list) = Cardinality(done.keep) + 1
    BY <1>9, <2>1, FS_AddElement
  <2>3. ASSUME NEW r \in list PROVE r.at \in 1..(saves + 1)
    BY <1>5, <1>8, <1>10, CheckpointFacts
  <2> QED
    BY <2>2, <2>3
<1> HIDE DEF list
<1>13. /\ cut \subseteq list /\ IsFiniteSet(list \ cut) /\ Cardinality(list \ cut) =< 2
       /\ ~delta => cut = {}
  <2>1. CASE Cardinality(list) > 2
    <3>1. list # {}
      BY DEF list
    <3>2. Oldest(list) \in list
      BY <1>12, <3>1, CheckpointFacts, EndsAmong
    <3>3. cut = {Oldest(list)}
      BY <2>1 DEF Surplus
    <3>4. /\ IsFiniteSet(list \ {Oldest(list)})
          /\ Cardinality(list \ {Oldest(list)}) = Cardinality(list) - 1
      BY <1>12, <3>2, FS_RemoveElement
    <3>5. ~delta => Cardinality(done.keep) = 0
      BY <1>8, FS_EmptySet
    <3> QED
      BY <1>9, <1>12, <2>1, <3>2, <3>3, <3>4, <3>5
  <2>2. CASE ~ (Cardinality(list) > 2)
    <3>1. cut = {}
      BY <2>2 DEF Surplus
    <3>2. list \ cut = list
      BY <3>1
    <3> QED
      BY <1>9, <1>12, <2>2, <3>1, <3>2
  <2> QED
    BY <2>1, <2>2
<1> HIDE DEF cut
<1>14. /\ Total(list) = Total(done.keep) + stateSize /\ Total(done.keep) \in Nat
       /\ Total(cut) \in Nat /\ Total(list \ cut) \in Nat /\ Total(list) = Total(cut) + Total(list \ cut)
  <2>1. IsFiniteSet({entry}) /\ Total({entry}) = stateSize
    BY <1>2, <1>10, TotalOfOne
  <2>2. done.keep \cap {entry} = {}
    BY <1>5, <1>8, <1>11
  <2>3. Total(list) = Total(done.keep) + stateSize
    BY <1>9, <2>1, <2>2, TotalsAdd DEF list
  <2>4. Total(done.keep) \in Nat
    BY <1>9, UnitsFinite
  <2> QED
    BY <1>12, <1>13, <2>3, <2>4, TotalRest
<1>15. /\ IsFiniteSet(snapshots') /\ Total(snapshots') = Total(rest) + Total(list \ cut)
       /\ Total(snapshots') \in Nat
  <2>1. rest \cap (list \ cut) = {}
    BY <1>5, <1>8, <1>10 DEF list
  <2>2. IsFiniteSet(rest \cup (list \ cut))
    BY <1>6, <1>13, FS_Union
  <2>3. Total(rest \cup (list \ cut)) = Total(rest) + Total(list \ cut)
    BY <1>6, <1>13, <2>1, TotalsAdd
  <2> QED
    BY <1>1, <1>6, <1>14, <2>2, <2>3
<1>16. \A r \in snapshots' : r \in snapshots \/ r = entry
  BY <1>1, <1>5, <1>8 DEF list
<1>17. done.freed \in Nat
  BY <1>6, <1>8
<1>18. CheckpointTypeOK'
  <2>1. usedSize' \in Int
    BY <1>1, <1>2, <1>4, <1>14, <1>17, CheckpointFacts
  <2>2. snapshots' \subseteq Snapshot
    BY <1>10, <1>16 DEF CheckpointInv, CheckpointTypeOK
  <2>3. saves' \in 0..MaxSaves /\ warm' \in 0..saves' /\ cold' \in 0..warm' /\ mixed' \in BOOLEAN
    BY <1>1, CheckpointFacts DEF CheckpointInv, CheckpointTypeOK
  <2>4. ASSUME NEW i \in SessionIds PROVE Cardinality(Of(snapshots', i)) =< 2
    <3>1. CASE i = id
      <4>1. Of(snapshots', i) = list \ cut
        BY <1>1, <1>5, <1>8, <1>10, <3>1 DEF Of, list
      <4> QED
        BY <1>13, <4>1
    <3>2. CASE i # id
      <4>1. Of(snapshots', i) \subseteq Of(snapshots, i) /\ Of(snapshots, i) \subseteq snapshots
        BY <1>1, <1>5, <1>8, <1>10, <3>2 DEF Of, list
      <4>2. IsFiniteSet(Of(snapshots, i))
        BY <4>1, FS_Subset DEF CheckpointInv
      <4>3. IsFiniteSet(Of(snapshots', i)) /\ Cardinality(Of(snapshots', i)) =< Cardinality(Of(snapshots, i))
        BY <4>1, <4>2, FS_Subset
      <4>4. Cardinality(Of(snapshots', i)) \in Nat /\ Cardinality(Of(snapshots, i)) \in Nat
        BY <4>2, <4>3, FS_CardinalityType
      <4>5. Cardinality(Of(snapshots, i)) =< 2
        BY DEF CheckpointInv, CheckpointTypeOK
      <4> QED
        BY <4>3, <4>4, <4>5
    <3> QED
      BY <3>1, <3>2
  <2>5. ASSUME NEW r \in snapshots', NEW q \in snapshots', r.at = q.at PROVE r = q
    BY <1>10, <1>16, <2>5, CheckpointFacts DEF CheckpointInv, CheckpointTypeOK
  <2> QED
    BY <2>1, <2>2, <2>3, <2>4, <2>5 DEF CheckpointTypeOK
<1>19. \A r \in snapshots' : r.at =< saves' /\ r.size =< MaxSize
  BY <1>1, <1>10, <1>16, CheckpointFacts
<1>20. NeverOverstated'
  <2>1. usedSize =< Total(snapshots)
    BY DEF CheckpointInv, NeverOverstated
  <2>2. Total(snapshots') = Total(rest) + Total(done.keep) + stateSize - Total(cut)
    BY <1>2, <1>6, <1>14, <1>15
  <2>3. CASE delta
    BY <1>1, <1>2, <1>4, <1>6, <1>8, <1>14, <1>17, <2>1, <2>2, <2>3, CheckpointFacts DEF NeverOverstated
  <2>4. CASE ~delta
    BY <1>1, <1>2, <1>4, <1>6, <1>8, <1>14, <1>17, <2>1, <2>2, <2>4, CheckpointFacts DEF NeverOverstated
  <2> QED
    BY <2>3, <2>4
<1>21. ASSUME ~mixed' PROVE UsedSizeExact' /\ Total(snapshots') =< MaxSize
  <2>1. ~mixed /\ ~delta
    BY <1>1, <1>21
  <2>2. usedSize = Total(snapshots)
    BY <2>1 DEF CheckpointInv, ExactWithoutDeltas, UsedSizeExact
  <2>3. cut = {} /\ Total(cut) = 0 /\ done.keep = {} /\ Total(done.keep) = 0 /\ done.freed = Total(prior)
    BY <1>8, <1>13, <2>1, TotalOfNone
  <2>4. Total(snapshots') = Total(rest) + stateSize
    BY <1>2, <1>6, <1>14, <1>15, <2>3
  <2>5. usedSize' = Total(rest) + stateSize
    BY <1>1, <1>2, <1>4, <1>6, <2>2, <2>3
  <2>6. CASE gone = snapshots
    <3>1. rest = {}
      BY <2>6 DEF rest
    <3> QED
      BY <1>1, <1>2, <2>4, <2>5, <3>1, TotalOfNone DEF UsedSizeExact
  <2>7. CASE usedSize - Total(gone) + stateSize =< MaxSize
    BY <1>2, <1>4, <1>6, <2>2, <2>4, <2>5, <2>7, CheckpointFacts DEF UsedSizeExact
  <2> QED
    BY <1>3, <2>6, <2>7
<1> QED
  BY <1>15, <1>18, <1>19, <1>20, <1>21
     DEF CheckpointInv, ExactWithoutDeltas, BoundedWithoutDeltas

LEMMA CheckpointStepInv == CheckpointInv /\ [CheckpointNext]_checkpointVars => CheckpointInv'
<1> SUFFICES ASSUME CheckpointInv, [CheckpointNext]_checkpointVars PROVE CheckpointInv'
  OBVIOUS
<1>1. ASSUME NEW id \in SessionIds, NEW stateSize \in StateSizes, NEW delta \in BOOLEAN, Save(id, stateSize, delta)
      PROVE  CheckpointInv'
  BY <1>1, SaveKeeps
<1>2. ASSUME NEW id \in SessionIds, Delete(id) PROVE CheckpointInv'
  <2>1. Of(snapshots, id) \subseteq snapshots
    BY DEF Of
  <2> QED
    BY <1>2, <2>1, DropKeeps DEF Delete
<1>3. CASE PruneExpired
  <2> DEFINE outOfDate == {r \in snapshots : r.at =< cold \/ (r.delta /\ r.at =< warm)}
  <2>1. /\ snapshots' = snapshots \ outOfDate /\ usedSize' = usedSize - Total(outOfDate)
        /\ UNCHANGED <<saves, warm, cold, mixed>> /\ outOfDate \subseteq snapshots
    BY <1>3 DEF PruneExpired
  <2> HIDE DEF outOfDate
  <2> QED
    BY <2>1, DropKeeps
<1>4. CASE Age
  <2>1. warm' \in 0..saves' /\ cold' \in 0..warm'
    BY <1>4, CheckpointFacts DEF Age, CheckpointInv, CheckpointTypeOK
  <2> QED
    BY <1>4, <2>1 DEF Age, CheckpointInv, CheckpointTypeOK, ExactWithoutDeltas, BoundedWithoutDeltas,
                      NeverOverstated, UsedSizeExact
<1>5. CASE UNCHANGED checkpointVars
  BY <1>5 DEF checkpointVars, CheckpointInv, CheckpointTypeOK, ExactWithoutDeltas,
              BoundedWithoutDeltas, NeverOverstated, UsedSizeExact
<1> QED
  BY <1>1, <1>2, <1>3, <1>4, <1>5 DEF CheckpointNext

\* The figure the store evicts by is the size of what it holds while clients
\* send full snapshots, which then stay within the bound, and never exceeds it
\* (checkpoint.go:64-123, 198-224).
THEOREM UsedSizeSoundHolds == CheckpointSpec => []UsedSizeSound
<1>1. CheckpointInit => CheckpointInv
  <2> SUFFICES ASSUME CheckpointInit PROVE CheckpointInv
    OBVIOUS
  <2>1. /\ snapshots = {} /\ usedSize = 0 /\ saves = 0 /\ warm = 0 /\ cold = 0 /\ mixed = FALSE
        /\ \A id \in SessionIds : Of(snapshots, id) = {}
    BY DEF CheckpointInit, Of
  <2>2. Cardinality({}) = 0 /\ IsFiniteSet({})
    BY FS_EmptySet
  <2>3. CheckpointTypeOK
    <3>1. MaxSaves \in Nat /\ 0 \in 0..MaxSaves
      BY CheckpointAssumption
    <3>2. \A id \in SessionIds : Cardinality(Of(snapshots, id)) =< 2
      BY <2>1, <2>2
    <3>3. mixed \in BOOLEAN
      BY <2>1
    <3> QED
      BY <2>1, <3>1, <3>2, <3>3 DEF CheckpointTypeOK
  <2> QED
    BY <2>1, <2>2, <2>3, TotalOfNone, CheckpointAssumption
       DEF CheckpointInv, ExactWithoutDeltas, BoundedWithoutDeltas, NeverOverstated, UsedSizeExact
<1>2. CheckpointInv => UsedSizeSound
  BY DEF CheckpointInv, UsedSizeSound
<1> QED
  BY <1>1, <1>2, CheckpointStepInv, PTL DEF CheckpointSpec

-----------------------------------------------------------------------------
(***************************************************************************)
(* The file service.                                                        *)
(***************************************************************************)
FilePieces == FileCalls \cup {NoCall}
Body(c, n) == [k \in 1..n |-> c]

FileCallRecord ==
  [op : {"none", "upload", "delete", "download"}, path : FilePaths \cup {NoCall},
   step : {"ended", "done", "failed", "short", "write", "clean", "index", "open", "read"},
   file : FileCalls \cup {NoCall}, at : Nat, size : Nat,
   got : Seq(FilePieces), seen : Seq(FilePieces), alone : BOOLEAN]

FileTypes ==
  /\ fileAt \in [FilePaths -> FileCalls \cup {NoCall}]
  /\ content \in [FileCalls -> Seq(FilePieces)]
  /\ fileCall \in [FileCalls -> FileCallRecord]
  /\ DOMAIN expected = FilePaths

CallSteps(c) ==
  /\ fileCall[c].step \in {"write", "clean"} => fileCall[c].op = "upload"
  /\ fileCall[c].step = "index" => fileCall[c].op = "delete"
  /\ fileCall[c].step \in {"open", "read"} => fileCall[c].op = "download"
  /\ CallRunning(c) => fileCall[c].path \in FilePaths

\* f was made by an upload to p.
MadeBy(f, p) == f \in FileCalls /\ fileCall[f].op = "upload" /\ fileCall[f].path = p

Made(p) == fileAt[p] # NoCall => MadeBy(fileAt[p], p)
FileHeld(c) == fileCall[c].step \in {"write", "read"} => MadeBy(fileCall[c].file, fileCall[c].path)

\* An upload or removal without another one of its path finds what it left.
WritesAlone(c) ==
  CallRunning(c) /\ fileCall[c].op # "download" /\ fileCall[c].alone =>
    /\ \A d \in FileCalls : d # c => ~ WriterOf(d, fileCall[c].path)
    /\ fileCall[c].step = "write" =>
         /\ fileAt[fileCall[c].path] = fileCall[c].file
         /\ content[fileCall[c].file] = Body(c, fileCall[c].at)
    /\ fileCall[c].step = "index" => fileAt[fileCall[c].path] = NoCall

\* What a download has read of the file it saw.
ReadSoFar(c) ==
  /\ fileCall[c].size = Len(fileCall[c].seen)
  /\ fileCall[c].at = Len(fileCall[c].got) /\ fileCall[c].at <= fileCall[c].size
  /\ \A i \in 1..fileCall[c].at : fileCall[c].got[i] = fileCall[c].seen[i]

ReadsAlone(c) ==
  fileCall[c].op = "download" /\ fileCall[c].alone =>
    /\ CallRunning(c) =>
         /\ FileAtRest(fileCall[c].path) /\ fileAt[fileCall[c].path] # NoCall
         /\ content[fileAt[fileCall[c].path]] = fileCall[c].seen
         /\ fileCall[c].step = "read" => fileCall[c].file = fileAt[fileCall[c].path]
         /\ ReadSoFar(c)
    /\ ~ CallRunning(c) /\ fileCall[c].step # "ended" =>
         fileCall[c].step = "done" /\ fileCall[c].got = fileCall[c].seen

CallSound(c) == CallSteps(c) /\ FileHeld(c) /\ WritesAlone(c) /\ ReadsAlone(c)

Settled(p) == FileAtRest(p) /\ expected[p] # Overlapped => FileContent(p) = expected[p]

FilesInv ==
  /\ FileTypes
  /\ \A c \in FileCalls : CallSound(c)
  /\ \A p \in FilePaths : Made(p) /\ Settled(p)

\* What a step leaves as it is when it is about the path p.
OtherPaths(p) ==
  \A q \in FilePaths : q # p =>
    /\ fileAt'[q] = fileAt[q]
    /\ fileAt[q] # NoCall => content'[fileAt[q]] = content[fileAt[q]]
    /\ expected'[q] = expected[q]

\* What a step may do to another call: nothing, or spoil that it is alone.
SameCall(d) ==
  /\ fileCall'[d].op = fileCall[d].op /\ fileCall'[d].path = fileCall[d].path
  /\ fileCall'[d].step = fileCall[d].step /\ fileCall'[d].file = fileCall[d].file
  /\ fileCall'[d].at = fileCall[d].at /\ fileCall'[d].size = fileCall[d].size
  /\ fileCall'[d].got = fileCall[d].got /\ fileCall'[d].seen = fileCall[d].seen
  /\ fileCall'[d].alone => fileCall[d].alone

\* A call of another path, or one that did not stay alone, is as sound as before.
LEMMA OthersSound ==
  ASSUME FilesInv, NEW c \in FileCalls, NEW p \in FilePaths, OtherPaths(p),
         fileCall'[c].path = p, fileCall[c].op = "upload" => fileCall'[c].op = "upload" /\ fileCall[c].path = p,
         \A e \in FileCalls : e # c => SameCall(e),
         CallRunning(c) => fileCall[c].path = p,
         NEW d \in FileCalls, d # c,
         fileCall[d].path # p \/ ~ fileCall'[d].alone \/ ~ CallRunning(d)
  PROVE  CallSound(d)'
<1> DEFINE q == fileCall[d].path
<1>1. CallSound(d) /\ SameCall(d)
  BY DEF FilesInv
<1>2. CallRunning(d)' <=> CallRunning(d)
  BY <1>1 DEF CallRunning, SameCall
<1>3. CallSteps(d)'
  BY <1>1, <1>2 DEF CallSound, CallSteps, SameCall
<1>4. FileHeld(d)'
  BY <1>1 DEF CallSound, FileHeld, MadeBy, SameCall
<1>5. ASSUME NEW e \in FileCalls, q # p, WriterOf(e, q)' PROVE WriterOf(e, q)
  <2>1. e # c
    BY <1>1, <1>5 DEF WriterOf, SameCall
  <2> QED
    BY <1>5, <2>1 DEF WriterOf, CallRunning, SameCall
<1>6. CallRunning(d) => q \in FilePaths
  BY <1>1 DEF CallSound, CallSteps
<1>7. ASSUME NEW f, MadeBy(f, q) PROVE f # NoCall
  BY <1>7, FileAssumption DEF MadeBy
<1>8. WritesAlone(d)'
  <2> SUFFICES ASSUME CallRunning(d)', fileCall'[d].op # "download", fileCall'[d].alone
               PROVE  /\ \A e \in FileCalls : e # d => ~ WriterOf(e, q)'
                      /\ fileCall[d].step = "write" =>
                           fileAt'[q] = fileCall[d].file /\ content'[fileCall[d].file] = Body(d, fileCall[d].at)
                      /\ fileCall[d].step = "index" => fileAt'[q] = NoCall
    BY <1>1 DEF WritesAlone, SameCall, WriterOf
  <2>1. CallRunning(d) /\ fileCall[d].op # "download" /\ fileCall[d].alone /\ q # p /\ q \in FilePaths
    BY <1>1, <1>2, <1>6 DEF SameCall
  <2>2. /\ \A e \in FileCalls : e # d => ~ WriterOf(e, q)
        /\ fileCall[d].step = "write" =>
             fileAt[q] = fileCall[d].file /\ content[fileCall[d].file] = Body(d, fileCall[d].at)
        /\ fileCall[d].step = "index" => fileAt[q] = NoCall
    BY <1>1, <2>1 DEF CallSound, WritesAlone
  <2>3. fileAt'[q] = fileAt[q] /\ (fileAt[q] # NoCall => content'[fileAt[q]] = content[fileAt[q]])
    BY <2>1 DEF OtherPaths
  <2>4. fileCall[d].step = "write" => fileAt[q] # NoCall
    BY <1>1, <1>7, <2>2 DEF CallSound, FileHeld
  <2> HIDE DEF q
  <2> QED
    BY <1>5, <2>1, <2>2, <2>3, <2>4
<1>9. ReadsAlone(d)'
  <2>1. CASE ~ (fileCall'[d].op = "download" /\ fileCall'[d].alone)
    BY <2>1 DEF ReadsAlone
  <2>2. CASE fileCall'[d].op = "download" /\ fileCall'[d].alone /\ CallRunning(d)
    <3>1. fileCall[d].op = "download" /\ fileCall[d].alone /\ q # p /\ q \in FilePaths
      BY <1>1, <1>6, <2>2 DEF SameCall
    <3>2. /\ FileAtRest(q) /\ fileAt[q] # NoCall /\ content[fileAt[q]] = fileCall[d].seen
          /\ fileCall[d].step = "read" => fileCall[d].file = fileAt[q]
          /\ ReadSoFar(d)
      BY <1>1, <2>2, <3>1 DEF CallSound, ReadsAlone
    <3>3. FileAtRest(q)'
      BY <1>5, <3>1, <3>2 DEF FileAtRest
    <3>4. fileAt'[q] = fileAt[q] /\ content'[fileAt'[q]] = fileCall[d].seen
      BY <3>1, <3>2 DEF OtherPaths
    <3>5. ReadSoFar(d)'
      BY <1>1, <3>2 DEF ReadSoFar, SameCall
    <3>6. fileCall'[d].path = q
      BY <1>1 DEF SameCall
    <3>7. FileAtRest(fileCall[d].path)'
      BY <3>3, <3>6
    <3> QED
      BY <1>1, <1>2, <2>2, <3>2, <3>4, <3>5, <3>6, <3>7 DEF ReadsAlone, SameCall
  <2>3. CASE ~ CallRunning(d)
    BY <1>1, <1>2, <2>3 DEF CallSound, ReadsAlone, SameCall
  <2> QED
    BY <2>1, <2>2, <2>3
<1> QED
  BY <1>3, <1>4, <1>8, <1>9 DEF CallSound

LEMMA OtherPathsSettled ==
  ASSUME FilesInv, NEW c \in FileCalls, NEW p \in FilePaths, OtherPaths(p),
         fileCall'[c].path = p, fileCall[c].op = "upload" => fileCall'[c].op = "upload" /\ fileCall[c].path = p,
         \A e \in FileCalls : e # c => SameCall(e),
         CallRunning(c) => fileCall[c].path = p,
         NEW q \in FilePaths, q # p
  PROVE  Made(q)' /\ Settled(q)'
<1>1. Made(q) /\ Settled(q)
  BY DEF FilesInv
<1>2. /\ fileAt'[q] = fileAt[q] /\ expected'[q] = expected[q]
      /\ fileAt[q] # NoCall => content'[fileAt[q]] = content[fileAt[q]]
  BY DEF OtherPaths
<1>3. Made(q)'
  BY <1>1, <1>2 DEF Made, MadeBy, SameCall
<1>4. FileContent(q)' = FileContent(q)
  BY <1>2 DEF FileContent
<1>5. FileAtRest(q)' => FileAtRest(q)
  <2> SUFFICES ASSUME FileAtRest(q)', NEW e \in FileCalls, WriterOf(e, q) PROVE FALSE
    BY DEF FileAtRest
  <2>1. e # c
    BY DEF WriterOf
  <2>2. WriterOf(e, q)'
    BY <2>1 DEF WriterOf, CallRunning, SameCall
  <2> QED
    BY <2>2 DEF FileAtRest
<1> QED
  BY <1>1, <1>2, <1>3, <1>4, <1>5 DEF Settled

\* A call that goes on changes its record and, unless it is a download, what
\* belongs to its path.
GoesOn(c, p) ==
  /\ p = fileCall[c].path /\ p \in FilePaths /\ CallRunning(c)
  /\ fileCall'[c].op = fileCall[c].op /\ fileCall'[c].path = fileCall[c].path
  /\ fileCall'[c].alone = fileCall[c].alone
  /\ \A e \in FileCalls : e # c => fileCall'[e] = fileCall[e]
  /\ OtherPaths(p)

LEMMA WriterGoesOn ==
  ASSUME FilesInv, NEW c \in FileCalls, NEW p \in FilePaths, GoesOn(c, p), WriterOf(c, p), FileTypes',
         CallSteps(c)', FileHeld(c)', WritesAlone(c)', Made(p)',
         CallRunning(c)' \/ expected'[p] = Overlapped
           \/ (fileCall[c].alone /\ FileContent(p)' = expected'[p])
  PROVE  FilesInv'
<1>1. ASSUME NEW d \in FileCalls, d # c PROVE CallSound(d)'
  <2>1. CASE fileCall[d].path = p /\ fileCall[d].alone /\ CallRunning(d)
    <3>1. ~ FileAtRest(p)
      BY DEF FileAtRest
    <3>2. fileCall[d].op # "download"
      BY <2>1, <3>1 DEF FilesInv, CallSound, ReadsAlone
    <3>3. FALSE
      BY <1>1, <2>1, <3>2 DEF FilesInv, CallSound, WritesAlone
    <3> QED
      BY <3>3
  <2>2. CASE fileCall[d].path # p \/ ~ fileCall'[d].alone \/ ~ CallRunning(d)
    BY <1>1, <2>2, OthersSound DEF GoesOn, SameCall
  <2> QED
    BY <1>1, <2>1, <2>2 DEF GoesOn
<1>2. ReadsAlone(c)'
  BY DEF ReadsAlone, WriterOf, GoesOn
<1>3. ASSUME NEW q \in FilePaths, q # p PROVE Made(q)' /\ Settled(q)'
  BY <1>3, OtherPathsSettled DEF GoesOn, SameCall
<1>4. Settled(p)'
  <2>1. CASE CallRunning(c)'
    BY <2>1 DEF Settled, FileAtRest, WriterOf, GoesOn
  <2>2. CASE expected'[p] = Overlapped \/ FileContent(p)' = expected'[p]
    BY <2>2 DEF Settled
  <2> QED
    BY <2>1, <2>2
<1> QED
  BY <1>1, <1>2, <1>3, <1>4 DEF FilesInv, CallSound

LEMMA IdleCall == ASSUME FilesInv, NEW c \in FileCalls, fileCall[c].op = "none" PROVE ~ CallRunning(c)
BY DEF FilesInv, FileTypes, FileCallRecord, CallSound, CallSteps, CallRunning

LEMMA ReaderGoesOn ==
  ASSUME FilesInv, NEW c \in FileCalls, fileCall[c].op \in {"none", "download"}, fileCall'[c].op = "download",
         \A e \in FileCalls : e # c => fileCall'[e] = fileCall[e],
         UNCHANGED <<fileAt, content, expected>>, FileTypes',
         CallSteps(c)', FileHeld(c)', ReadsAlone(c)'
  PROVE  FilesInv'
<1>1. \A q \in FilePaths : ~ WriterOf(c, q) /\ ~ WriterOf(c, q)'
  BY IdleCall DEF WriterOf
<1>2. \A e \in FileCalls, q \in FilePaths : WriterOf(e, q)' <=> WriterOf(e, q)
  BY <1>1 DEF WriterOf, CallRunning
<1>3. \A q \in FilePaths : FileAtRest(q)' <=> FileAtRest(q)
  BY <1>2 DEF FileAtRest
<1>4. ASSUME NEW q \in FilePaths PROVE Made(q)' /\ Settled(q)'
  BY <1>3, <1>4 DEF FilesInv, Made, MadeBy, Settled, FileContent
<1>5. ASSUME NEW d \in FileCalls, d # c PROVE CallSound(d)'
  <2>1. fileCall'[d] = fileCall[d] /\ (CallRunning(d)' <=> CallRunning(d)) /\ CallSound(d)
    BY <1>5 DEF FilesInv, CallRunning
  <2>2. CallSteps(d)' /\ FileHeld(d)'
    BY <2>1 DEF CallSound, CallSteps, FileHeld, MadeBy
  <2>3. CallRunning(d) => fileCall[d].path \in FilePaths
    BY <2>1 DEF CallSound, CallSteps
  <2>4. WritesAlone(d)'
    BY <1>2, <2>1, <2>3 DEF CallSound, WritesAlone
  <2>5. ReadsAlone(d)'
    <3>1. ReadSoFar(d)' <=> ReadSoFar(d)
      BY <2>1 DEF ReadSoFar
    <3>2. CallRunning(d) => (FileAtRest(fileCall[d].path)' <=> FileAtRest(fileCall[d].path))
      BY <1>3, <2>1, <2>3
    <3> QED
      BY <2>1, <3>1, <3>2 DEF CallSound, ReadsAlone
  <2> QED
    BY <2>2, <2>4, <2>5 DEF CallSound
<1>6. WritesAlone(c)'
  BY DEF WritesAlone
<1> QED
  BY <1>4, <1>5, <1>6 DEF FilesInv, CallSound

LEMMA BegunFields ==
  ASSUME FilesInv, NEW c \in FileCalls, NEW newCall \in FileCallRecord, fileCall' = begun(c, newCall)
  PROVE  /\ fileCall'[c] = [newCall EXCEPT !.alone = FileAtRest(newCall.path)]
         /\ \A e \in FileCalls : e # c =>
              /\ SameCall(e)
              /\ CallRunning(e) /\ fileCall[e].path = newCall.path /\ newCall.op # "download" => ~ fileCall'[e].alone
              /\ newCall.op = "download" => fileCall'[e] = fileCall[e]
         /\ fileCall' \in [FileCalls -> FileCallRecord]
<1>1. fileCall \in [FileCalls -> FileCallRecord] /\ FileAtRest(newCall.path) \in BOOLEAN
  BY DEF FilesInv, FileTypes, FileAtRest
<1>2. fileCall'[c] = [newCall EXCEPT !.alone = FileAtRest(newCall.path)] /\ fileCall'[c] \in FileCallRecord
  BY <1>1 DEF begun, FileCallRecord
<1>3. ASSUME NEW e \in FileCalls, e # c
      PROVE  /\ fileCall'[e] = IF CallRunning(e) /\ fileCall[e].path = newCall.path /\ newCall.op # "download"
                               THEN [fileCall[e] EXCEPT !.alone = FALSE] ELSE fileCall[e]
             /\ fileCall'[e] \in FileCallRecord
  BY <1>1, <1>3 DEF begun, FileCallRecord
<1>4. ASSUME NEW e \in FileCalls, e # c
      PROVE  /\ SameCall(e)
             /\ CallRunning(e) /\ fileCall[e].path = newCall.path /\ newCall.op # "download" => ~ fileCall'[e].alone
             /\ newCall.op = "download" => fileCall'[e] = fileCall[e]
  <2>1. fileCall[e] \in FileCallRecord
    BY <1>1
  <2>2. CASE /\ ~ (CallRunning(e) /\ fileCall[e].path = newCall.path /\ newCall.op # "download")
             /\ fileCall'[e] = fileCall[e]
    BY <2>2 DEF SameCall
  <2>3. CASE /\ CallRunning(e) /\ fileCall[e].path = newCall.path /\ newCall.op # "download"
             /\ fileCall'[e] = [fileCall[e] EXCEPT !.alone = FALSE]
    <3>1. SameCall(e) /\ ~ fileCall'[e].alone
      BY <2>1, <2>3 DEF SameCall, FileCallRecord
    <3> QED
      BY <2>3, <3>1
  <2> QED
    BY <1>3, <1>4, <2>2, <2>3
<1>5. fileCall' \in [FileCalls -> FileCallRecord]
  <2>1. DOMAIN fileCall' = FileCalls /\ fileCall' = [e \in FileCalls |-> fileCall'[e]]
    BY DEF begun
  <2>2. \A e \in FileCalls : fileCall'[e] \in FileCallRecord
    BY <1>2, <1>3
  <2> QED
    BY <2>1, <2>2
<1> QED
  BY <1>2, <1>4, <1>5

LEMMA WriterBegins ==
  ASSUME FilesInv, NEW c \in FileCalls, NEW p \in FilePaths, NEW newCall \in FileCallRecord,
         fileCall[c].op = "none", fileCall' = begun(c, newCall), newCall.path = p,
         <<newCall.op, newCall.step>> \in {<<"upload", "write">>, <<"delete", "index">>},
         OtherPaths(p), fileAt' \in [FilePaths -> FileCalls \cup {NoCall}],
         content' \in [FileCalls -> Seq(FilePieces)], expected' = expected,
         newCall.op = "upload" => /\ fileAt'[p] = newCall.file /\ content'[newCall.file] = Body(c, newCall.at)
                                  /\ newCall.file = c \/ MadeBy(newCall.file, p),
         newCall.op = "delete" => fileAt'[p] = NoCall
  PROVE  FilesInv'
<1>1. /\ ~ CallRunning(c)
      /\ fileCall'[c] = [newCall EXCEPT !.alone = FileAtRest(p)]
      /\ fileCall' \in [FileCalls -> FileCallRecord]
      /\ \A e \in FileCalls : e # c =>
           SameCall(e) /\ (CallRunning(e) /\ fileCall[e].path = p => ~ fileCall'[e].alone)
  <2>1. newCall.op # "download"
    OBVIOUS
  <2> QED
    BY <2>1, IdleCall, BegunFields
<1>2. /\ fileCall'[c].op = newCall.op /\ fileCall'[c].path = p /\ fileCall'[c].step = newCall.step
      /\ fileCall'[c].file = newCall.file /\ fileCall'[c].at = newCall.at
      /\ fileCall'[c].alone <=> FileAtRest(p)
  BY <1>1 DEF FileCallRecord
<1>3. FileTypes'
  BY <1>1 DEF FileTypes, FilesInv
<1>4. ASSUME NEW d \in FileCalls, d # c PROVE CallSound(d)'
  <2>1. fileCall[d].path # p \/ ~ fileCall'[d].alone \/ ~ CallRunning(d)
    BY <1>1, <1>4
  <2> QED
    BY <1>1, <1>2, <1>4, <2>1, OthersSound
<1>5. ASSUME NEW q \in FilePaths, q # p PROVE Made(q)' /\ Settled(q)'
  BY <1>1, <1>2, <1>5, OtherPathsSettled
<1>6. CallRunning(c)' /\ WriterOf(c, p)'
  BY <1>2 DEF CallRunning, WriterOf
<1>7. newCall.op = "upload" => MadeBy(newCall.file, p)'
  <2>1. CASE newCall.op = "upload" /\ newCall.file = c
    BY <1>2, <2>1 DEF MadeBy
  <2>2. CASE newCall.op = "upload" /\ newCall.file # c
    BY <1>1, <2>2 DEF MadeBy, SameCall
  <2> QED
    BY <2>1, <2>2
<1>8. Made(p)' /\ Settled(p)'
  BY <1>6, <1>7 DEF Made, Settled, FileAtRest
<1>9. CallSteps(c)' /\ FileHeld(c)' /\ ReadsAlone(c)'
  BY <1>2, <1>7 DEF CallSteps, FileHeld, ReadsAlone, MadeBy
<1>10. WritesAlone(c)'
  <2> SUFFICES ASSUME FileAtRest(p)
               PROVE  /\ \A d \in FileCalls : d # c => ~ WriterOf(d, p)'
                      /\ newCall.step = "write" =>
                           fileAt'[p] = newCall.file /\ content'[newCall.file] = Body(c, newCall.at)
                      /\ newCall.step = "index" => fileAt'[p] = NoCall
    BY <1>2 DEF WritesAlone, WriterOf, CallRunning
  <2>1. ASSUME NEW d \in FileCalls, d # c PROVE ~ WriterOf(d, p)'
    <3>1. ~ WriterOf(d, p)
      BY DEF FileAtRest
    <3> QED
      BY <1>1, <2>1, <3>1 DEF WriterOf, CallRunning, SameCall
  <2> QED
    BY <2>1
<1> QED
  BY <1>3, <1>4, <1>5, <1>8, <1>9, <1>10 DEF FilesInv, CallSound

LEMMA UploadBegins ==
  ASSUME FilesInv, NEW c \in FileCalls, NEW p \in FilePaths, NEW n \in BodySizes, BeginUpload(c, p, n)
  PROVE  FilesInv'
<1> DEFINE file == IF fileAt[p] = NoCall THEN c ELSE fileAt[p]
           newCall == [Idle EXCEPT !.op = "upload", !.path = p, !.step = "write", !.file = file, !.size = n]
<1>1. /\ fileCall[c].op = "none" /\ fileCall' = begun(c, newCall)
      /\ fileAt' = [fileAt EXCEPT ![p] = file] /\ content' = [content EXCEPT ![file] = << >>]
      /\ expected' = expected
  BY DEF BeginUpload, truncated
<1>2. /\ fileAt \in [FilePaths -> FileCalls \cup {NoCall}] /\ content \in [FileCalls -> Seq(FilePieces)]
      /\ \A q \in FilePaths : Made(q)
  BY DEF FilesInv, FileTypes
<1>3. file \in FileCalls /\ (file = c \/ MadeBy(file, p))
  BY <1>2 DEF Made, MadeBy
<1>4. n \in Nat /\ << >> \in Seq(FilePieces)
  BY FileAssumption, EmptySeq
<1>5. /\ newCall \in FileCallRecord
      /\ newCall.op = "upload" /\ newCall.path = p /\ newCall.step = "write" /\ newCall.file = file /\ newCall.at = 0
  BY <1>3, <1>4 DEF FileCallRecord, Idle
<1>6. OtherPaths(p)
  <2>1. ASSUME NEW q \in FilePaths, q # p, fileAt[q] # NoCall PROVE fileAt[q] # file
    BY <1>1, <1>2, <2>1, FileAssumption DEF Made, MadeBy
  <2> HIDE DEF file
  <2>2. ASSUME NEW q \in FilePaths, q # p, fileAt[q] # NoCall PROVE content'[fileAt[q]] = content[fileAt[q]]
    BY <1>1, <1>2, <2>1, <2>2 
  <2>3. ASSUME NEW q \in FilePaths, q # p PROVE fileAt'[q] = fileAt[q] /\ expected'[q] = expected[q]
    BY <1>1, <1>2, <2>3
  <2> QED
    BY <2>2, <2>3 DEF OtherPaths
<1> HIDE DEF file, newCall
<1>7. /\ fileAt' \in [FilePaths -> FileCalls \cup {NoCall}] /\ content' \in [FileCalls -> Seq(FilePieces)]
      /\ fileAt'[p] = file /\ content'[file] = << >>
  BY <1>1, <1>2, <1>3, <1>4
<1>8. Body(c, newCall.at) = << >>
  <2>1. Body(c, 0) \in Seq({c}) /\ Len(Body(c, 0)) = 0
    BY DEF Body
  <2> QED
    BY <1>5, <2>1, EmptySeq
<1> QED
  BY <1>1, <1>3, <1>5, <1>6, <1>7, <1>8, WriterBegins

LEMMA RemovalBegins ==
  ASSUME FilesInv, NEW c \in FileCalls, NEW p \in FilePaths, RemoveFile(c, p)
  PROVE  FilesInv'
<1> DEFINE newCall == [Idle EXCEPT !.op = "delete", !.path = p, !.step = "index"]
<1>1. /\ fileCall[c].op = "none" /\ fileCall' = begun(c, newCall)
      /\ fileAt' = [fileAt EXCEPT ![p] = NoCall] /\ UNCHANGED <<content, expected>>
  BY DEF RemoveFile
<1>2. /\ fileAt \in [FilePaths -> FileCalls \cup {NoCall}] /\ content \in [FileCalls -> Seq(FilePieces)]
  BY DEF FilesInv, FileTypes
<1>3. << >> \in Seq(FilePieces)
  BY EmptySeq
<1>4. /\ newCall \in FileCallRecord
      /\ newCall.op = "delete" /\ newCall.path = p /\ newCall.step = "index"
  BY <1>3 DEF FileCallRecord, Idle
<1>5. OtherPaths(p)
  BY <1>1, <1>2 DEF OtherPaths
<1> HIDE DEF newCall
<1>6. fileAt' \in [FilePaths -> FileCalls \cup {NoCall}] /\ fileAt'[p] = NoCall
  BY <1>1, <1>2
<1> QED
  BY <1>1, <1>2, <1>4, <1>5, <1>6, WriterBegins

LEMMA PieceWritten ==
  ASSUME NEW old \in Seq(FilePieces), NEW at \in Nat, NEW c \in FileCalls
  PROVE  /\ pieceAt(old, at, c) \in Seq(FilePieces)
         /\ old = Body(c, at) => pieceAt(old, at, c) = Body(c, at + 1)
<1> DEFINE n == IF Len(old) > at THEN Len(old) ELSE at + 1
<1>1. n \in Nat
  OBVIOUS
<1>2. \A k \in 1..n : (IF k = at + 1 THEN c ELSE IF k <= Len(old) THEN old[k] ELSE NoCall) \in FilePieces
  BY DEF FilePieces
<1>3. pieceAt(old, at, c) \in Seq(FilePieces)
  BY <1>1, <1>2 DEF pieceAt
<1>4. ASSUME old = Body(c, at) PROVE pieceAt(old, at, c) = Body(c, at + 1)
  <2>1. Len(old) = at /\ \A k \in 1..at : old[k] = c
    <3>1. old = [k \in 1..at |-> c]
      BY <1>4 DEF Body
    <3>2. Len(old) \in Nat /\ DOMAIN old = 1..Len(old) /\ DOMAIN old = 1..at
      BY <3>1
    <3> QED
      BY <3>1, <3>2
  <2> QED
    BY <2>1 DEF pieceAt, Body
<1> QED
  BY <1>3, <1>4

LEMMA PieceWrites == ASSUME FilesInv, NEW c \in FileCalls, WritePiece(c) PROVE FilesInv'
<1>0. PICK p, file, at : p = fileCall[c].path /\ file = fileCall[c].file /\ at = fileCall[c].at
  OBVIOUS
<1>1. /\ fileCall[c].op = "upload" /\ fileCall[c].step = "write"
      /\ content' = [content EXCEPT ![file] = pieceAt(content[file], at, c)]
      /\ fileCall' = [fileCall EXCEPT ![c].at = at + 1]
      /\ UNCHANGED <<fileAt, expected>>
  BY <1>0 DEF WritePiece
<1>2. /\ fileCall[c] \in FileCallRecord /\ at \in Nat /\ content \in [FileCalls -> Seq(FilePieces)]
      /\ fileCall \in [FileCalls -> FileCallRecord]
  BY <1>0 DEF FilesInv, FileTypes, FileCallRecord
<1>3. CallRunning(c) /\ WriterOf(c, p) /\ p \in FilePaths /\ MadeBy(file, p)
  BY <1>0, <1>1 DEF FilesInv, CallSound, CallSteps, FileHeld, CallRunning, WriterOf
<1>4. /\ fileCall'[c].op = "upload" /\ fileCall'[c].path = p /\ fileCall'[c].step = "write"
      /\ fileCall'[c].file = file /\ fileCall'[c].at = at + 1 /\ fileCall'[c].alone = fileCall[c].alone
      /\ \A e \in FileCalls : e # c => fileCall'[e] = fileCall[e]
      /\ fileCall' \in [FileCalls -> FileCallRecord]
  <2>0. PICK next \in Nat : next = at + 1
    BY <1>2
  <2> DEFINE a == [fileCall[c] EXCEPT !.at = next]
  <2>1. /\ a \in FileCallRecord /\ a.op = fileCall[c].op /\ a.path = p /\ a.step = fileCall[c].step
        /\ a.file = file /\ a.at = next /\ a.alone = fileCall[c].alone
    BY <1>0, <1>2 DEF FileCallRecord
  <2>2. fileCall' = [fileCall EXCEPT ![c] = a]
    BY <1>1, <1>2, <2>0
  <2> HIDE DEF a
  <2> QED
    BY <1>0, <1>1, <1>2, <2>0, <2>1, <2>2
<1>5. pieceAt(content[file], at, c) \in Seq(FilePieces)
  BY <1>2, <1>3, PieceWritten DEF MadeBy
<1>6. /\ content' \in [FileCalls -> Seq(FilePieces)]
      /\ content'[file] = pieceAt(content[file], at, c)
  BY <1>1, <1>2, <1>3, <1>5 DEF MadeBy
<1>7. FileTypes'
  BY <1>1, <1>4, <1>6 DEF FileTypes, FilesInv
<1>8. OtherPaths(p)
  <2>1. ASSUME NEW q \in FilePaths, q # p, fileAt[q] # NoCall PROVE fileAt[q] # file
    BY <1>3, <2>1 DEF FilesInv, Made, MadeBy
  <2> QED
    BY <1>1, <1>2, <2>1 DEF OtherPaths, FilesInv, FileTypes
<1>9. GoesOn(c, p)
  BY <1>0, <1>1, <1>3, <1>4, <1>8 DEF GoesOn
<1>10. MadeBy(file, p)' /\ Made(p)'
  BY <1>1, <1>3, <1>4 DEF MadeBy, Made, FilesInv
<1>11. CallSteps(c)' /\ FileHeld(c)' /\ CallRunning(c)'
  BY <1>3, <1>4, <1>10 DEF CallSteps, FileHeld, CallRunning, MadeBy
<1>12. WritesAlone(c)'
  <2> SUFFICES ASSUME fileCall[c].alone
               PROVE  /\ \A d \in FileCalls : d # c => ~ WriterOf(d, p)'
                      /\ fileAt'[p] = file /\ content'[file] = Body(c, at + 1)
    BY <1>4 DEF WritesAlone, WriterOf, CallRunning
  <2>1. /\ \A d \in FileCalls : d # c => ~ WriterOf(d, p)
        /\ fileAt[p] = file /\ content[file] = Body(c, at)
    BY <1>0, <1>1, <1>3 DEF FilesInv, CallSound, WritesAlone
  <2>2. pieceAt(content[file], at, c) = Body(c, at + 1)
    BY <1>2, <1>3, <2>1, PieceWritten DEF MadeBy
  <2>3. \A d \in FileCalls : d # c => (WriterOf(d, p)' => WriterOf(d, p))
    BY <1>4 DEF WriterOf, CallRunning
  <2> QED
    BY <1>1, <1>6, <2>1, <2>2, <2>3
<1> QED
  BY <1>3, <1>7, <1>9, <1>10, <1>11, <1>12, WriterGoesOn

\* The steps of a writer that leave the files of other paths to them and
\* change nothing of their own record but the step.
LEMMA WriterSteps ==
  ASSUME FilesInv, NEW c \in FileCalls, NEW p \in FilePaths, p = fileCall[c].path, WriterOf(c, p),
         NEW step \in {"clean", "done", "failed"}, fileCall' = [fileCall EXCEPT ![c].step = step],
         step = "clean" => fileCall[c].op = "upload",
         fileAt' \in [FilePaths -> FileCalls \cup {NoCall}],
         fileAt'[p] \in {fileAt[p], NoCall}, \A q \in FilePaths : q # p => fileAt'[q] = fileAt[q],
         UNCHANGED content, NEW result, FileContent(p)' = result \/ ~ fileCall[c].alone,
         expected' = IF step = "clean" THEN expected ELSE leaves(c, result)
  PROVE  FilesInv'
<1>1. fileCall \in [FileCalls -> FileCallRecord] /\ DOMAIN expected = FilePaths
  BY DEF FilesInv, FileTypes
<1>2. /\ fileCall'[c].op = fileCall[c].op /\ fileCall'[c].path = p /\ fileCall'[c].step = step
      /\ fileCall'[c].alone = fileCall[c].alone
      /\ \A e \in FileCalls : e # c => fileCall'[e] = fileCall[e]
      /\ fileCall' \in [FileCalls -> FileCallRecord]
  <2> DEFINE a == [fileCall[c] EXCEPT !.step = step]
  <2>1. fileCall[c] \in FileCallRecord
    BY <1>1
  <2>2. /\ a \in FileCallRecord /\ a.op = fileCall[c].op /\ a.path = fileCall[c].path /\ a.step = step
        /\ a.alone = fileCall[c].alone
    BY <2>1 DEF FileCallRecord
  <2>3. fileCall' = [fileCall EXCEPT ![c] = a]
    BY <1>1
  <2> HIDE DEF a
  <2> QED
    BY <1>1, <2>2, <2>3
<1>3. /\ DOMAIN expected' = FilePaths
      /\ \A q \in FilePaths : q # p => expected'[q] = expected[q]
      /\ step # "clean" => expected'[p] = IF fileCall[c].alone THEN result ELSE Overlapped
  BY <1>1 DEF leaves
<1>4. FileTypes' /\ OtherPaths(p)
  BY <1>2, <1>3 DEF FileTypes, FilesInv, OtherPaths
<1>5. CallRunning(c)
  BY DEF WriterOf
<1>6. GoesOn(c, p)
  BY <1>2, <1>4, <1>5 DEF GoesOn
<1>7. CallSteps(c)' /\ FileHeld(c)' /\ (CallRunning(c)' <=> step = "clean")
  BY <1>2 DEF CallSteps, FileHeld, CallRunning
<1>8. WritesAlone(c)'
  <2> SUFFICES ASSUME CallRunning(c), fileCall[c].alone, fileCall[c].op # "download"
               PROVE  \A d \in FileCalls : d # c => ~ WriterOf(d, p)'
    BY <1>2, <1>5, <1>7 DEF WritesAlone
  <2>1. \A d \in FileCalls : d # c => ~ WriterOf(d, p)
    BY DEF FilesInv, CallSound, WritesAlone
  <2> QED
    BY <1>2, <2>1 DEF WriterOf, CallRunning
<1>9. Made(p)'
  BY <1>2 DEF FilesInv, Made, MadeBy
<1>10. CallRunning(c)' \/ expected'[p] = Overlapped \/ (fileCall[c].alone /\ FileContent(p)' = expected'[p])
  BY <1>3, <1>7
<1> QED
  BY <1>4, <1>6, <1>7, <1>8, <1>9, <1>10, WriterGoesOn

LEMMA WriterEnds ==
  ASSUME FilesInv, NEW c \in FileCalls, UploadFails(c) \/ RemovePart(c) \/ FinishUpload(c) \/ DropEntry(c)
  PROVE  FilesInv'
<1> DEFINE p == fileCall[c].path
<1>1. /\ WriterOf(c, p) /\ p \in FilePaths
      /\ fileCall[c].step \in {"write", "clean"} => fileCall[c].op = "upload"
      /\ fileCall[c].step = "index" => fileCall[c].op = "delete"
  <2>1. CallSteps(c) /\ fileCall[c].step \in {"write", "clean", "index"}
    BY DEF FilesInv, CallSound, UploadFails, RemovePart, FinishUpload, DropEntry
  <2> QED
    BY <2>1 DEF CallSteps, WriterOf, CallRunning
<1>2. fileAt \in [FilePaths -> FileCalls \cup {NoCall}]
  BY DEF FilesInv, FileTypes
<1>3. fileCall[c].alone /\ fileCall[c].step = "write" =>
        fileAt[p] = fileCall[c].file /\ content[fileCall[c].file] = Body(c, fileCall[c].at) /\ fileAt[p] # NoCall
  <2>1. CallSound(c)
    BY DEF FilesInv
  <2> QED
    BY <1>1, <2>1, FileAssumption DEF CallSound, WritesAlone, WriterOf, FileHeld, MadeBy
<1>4. fileCall[c].alone /\ fileCall[c].step = "index" => fileAt[p] = NoCall
  BY <1>1 DEF FilesInv, CallSound, WritesAlone, WriterOf
<1>5. CASE UploadFails(c)
  <2>1. /\ fileCall' = [fileCall EXCEPT ![c].step = "clean"] /\ UNCHANGED <<fileAt, content, expected>>
        /\ fileCall[c].step = "write"
    BY <1>5 DEF UploadFails
  <2>2. FileContent(p)' = FileContent(p)
    BY <2>1 DEF FileContent, UploadFails
  <2> HIDE DEF p
  <2> QED
    BY <1>1, <1>2, <2>1, <2>2, WriterSteps DEF p
<1>6. CASE RemovePart(c)
  <2>1. /\ fileCall' = [fileCall EXCEPT ![c].step = "failed"] /\ UNCHANGED content
        /\ fileAt' = [fileAt EXCEPT ![p] = NoCall] /\ expected' = leaves(c, NoFile)
    BY <1>6 DEF RemovePart
  <2>2. fileAt'[p] = NoCall
    BY <1>1, <1>2, <2>1
  <2> QED
    BY <1>1, <1>2, <2>1, <2>2, WriterSteps DEF FileContent
<1>7. CASE FinishUpload(c)
  <2>1. /\ fileCall' = [fileCall EXCEPT ![c].step = "done"] /\ UNCHANGED <<fileAt, content>>
        /\ expected' = leaves(c, Body(c, fileCall[c].at)) /\ fileCall[c].step = "write"
    BY <1>7 DEF FinishUpload, Body
  <2> QED
    BY <1>1, <1>2, <1>3, <2>1, WriterSteps DEF FileContent
<1>8. CASE DropEntry(c)
  <2>1. /\ fileCall' = [fileCall EXCEPT ![c].step = "done"] /\ UNCHANGED <<fileAt, content>>
        /\ expected' = leaves(c, NoFile) /\ fileCall[c].step = "index"
    BY <1>8 DEF DropEntry
  <2> QED
    BY <1>1, <1>2, <1>4, <2>1, WriterSteps DEF FileContent
<1> QED
  BY <1>5, <1>6, <1>7, <1>8

LEMMA DownloadBegins ==
  ASSUME FilesInv, NEW c \in FileCalls, NEW p \in FilePaths, StatFile(c, p)
  PROVE  FilesInv'
<1> DEFINE held == content[fileAt[p]]
           newCall == [Idle EXCEPT !.op = "download", !.path = p, !.step = "open",
                                   !.size = Len(held), !.seen = held]
<1>1. /\ fileCall[c].op = "none" /\ fileAt[p] # NoCall /\ fileCall' = begun(c, newCall)
      /\ UNCHANGED <<fileAt, content, expected>>
  BY DEF StatFile, FileContent
<1>2. held \in Seq(FilePieces) /\ Len(held) \in Nat
  BY <1>1 DEF FilesInv, FileTypes, Made, MadeBy
<1>3. << >> \in Seq(FilePieces) /\ Len(<< >>) = 0
  BY EmptySeq
<1> HIDE DEF held
<1>4. /\ newCall \in FileCallRecord
      /\ newCall.op = "download" /\ newCall.path = p /\ newCall.step = "open" /\ newCall.at = 0
      /\ newCall.size = Len(held) /\ newCall.seen = held /\ newCall.got = << >>
  BY <1>2, <1>3 DEF FileCallRecord, Idle
<1> HIDE DEF newCall
<1>5. /\ fileCall'[c] = [newCall EXCEPT !.alone = FileAtRest(p)]
      /\ fileCall' \in [FileCalls -> FileCallRecord]
      /\ \A e \in FileCalls : e # c => fileCall'[e] = fileCall[e]
  BY <1>1, <1>4, BegunFields
<1>6. /\ fileCall'[c].op = "download" /\ fileCall'[c].path = p /\ fileCall'[c].step = "open" /\ fileCall'[c].at = 0
      /\ fileCall'[c].size = Len(held) /\ fileCall'[c].seen = held /\ fileCall'[c].got = << >>
      /\ fileCall'[c].alone <=> FileAtRest(p)
  BY <1>4, <1>5 DEF FileCallRecord
<1>7. FileTypes'
  BY <1>1, <1>5 DEF FileTypes, FilesInv
<1>8. CallSteps(c)' /\ FileHeld(c)' /\ CallRunning(c)'
  BY <1>6 DEF CallSteps, FileHeld, CallRunning
<1>9. ReadSoFar(c)'
  BY <1>2, <1>3, <1>6 DEF ReadSoFar
<1>10. FileAtRest(p) => FileAtRest(p)'
  <2> SUFFICES ASSUME FileAtRest(p), NEW e \in FileCalls PROVE ~ WriterOf(e, p)'
    BY DEF FileAtRest
  <2>1. CASE e = c
    BY <1>6, <2>1 DEF WriterOf
  <2>2. CASE e # c
    BY <1>5, <2>2 DEF FileAtRest, WriterOf, CallRunning
  <2> QED
    BY <2>1, <2>2
<1>11. ReadsAlone(c)'
  <2>1. fileCall'[c].alone => FileAtRest(fileCall[c].path)'
    BY <1>6, <1>10
  <2>2. content'[fileAt'[p]] = held
    BY <1>1 DEF held
  <2> QED
    BY <1>1, <1>6, <1>8, <1>9, <2>1, <2>2 DEF ReadsAlone
<1> QED
  BY <1>1, <1>5, <1>6, <1>7, <1>8, <1>11, ReaderGoesOn

LEMMA DownloadOpens == ASSUME FilesInv, NEW c \in FileCalls, OpenFile(c) PROVE FilesInv'
<1>0. PICK p : p = fileCall[c].path
  OBVIOUS
<1>1. /\ fileCall[c].step = "open" /\ UNCHANGED <<fileAt, content, expected>>
      /\ fileCall' = [fileCall EXCEPT ![c] =
           [fileCall[c] EXCEPT !.step = IF fileAt[p] = NoCall THEN "failed" ELSE "read", !.file = fileAt[p]]]
  BY <1>0 DEF OpenFile
<1>2. /\ fileCall \in [FileCalls -> FileCallRecord] /\ CallSound(c) /\ CallRunning(c)
      /\ fileCall[c].op = "download" /\ p \in FilePaths /\ fileAt[p] \in FileCalls \cup {NoCall} /\ Made(p)
  BY <1>0, <1>1 DEF FilesInv, FileTypes, CallSound, CallSteps, CallRunning
<1> DEFINE a == [fileCall[c] EXCEPT !.step = IF fileAt[p] = NoCall THEN "failed" ELSE "read", !.file = fileAt[p]]
<1>3. /\ a \in FileCallRecord /\ a.op = "download" /\ a.path = p /\ a.file = fileAt[p]
      /\ a.step = IF fileAt[p] = NoCall THEN "failed" ELSE "read"
      /\ a.at = fileCall[c].at /\ a.size = fileCall[c].size /\ a.got = fileCall[c].got /\ a.seen = fileCall[c].seen
      /\ a.alone = fileCall[c].alone
  <2>1. fileCall[c] \in FileCallRecord
    BY <1>2
  <2> QED
    BY <1>0, <1>2, <2>1 DEF FileCallRecord
<1>4. /\ fileCall'[c] = a /\ \A e \in FileCalls : e # c => fileCall'[e] = fileCall[e]
      /\ fileCall' \in [FileCalls -> FileCallRecord]
  <2> HIDE DEF a
  <2>1. fileCall' = [fileCall EXCEPT ![c] = a]
    BY <1>1 DEF a
  <2> QED
    BY <1>2, <1>3, <2>1
<1> HIDE DEF a
<1>5. FileTypes'
  BY <1>1, <1>4 DEF FileTypes, FilesInv
<1>6. CallSteps(c)' /\ (CallRunning(c)' <=> fileAt[p] # NoCall)
  BY <1>2, <1>3, <1>4 DEF CallSteps, CallRunning
<1>7. FileHeld(c)'
  <2> SUFFICES ASSUME fileAt[p] # NoCall
               PROVE  /\ fileAt[p] \in FileCalls /\ fileCall'[fileAt[p]].op = "upload"
                      /\ fileCall'[fileAt[p]].path = p
    BY <1>3, <1>4 DEF FileHeld, MadeBy
  <2>1. MadeBy(fileAt[p], p)
    BY <1>2 DEF Made
  <2>2. fileAt[p] # c
    BY <1>2, <2>1 DEF MadeBy
  <2> QED
    BY <1>4, <2>1, <2>2 DEF MadeBy
<1>8. ReadsAlone(c)'
  <2>0. /\ fileCall'[c].path = p /\ fileCall'[c].file = fileAt'[p] /\ fileCall'[c].seen = fileCall[c].seen
        /\ fileCall'[c].alone = fileCall[c].alone /\ fileAt'[p] = fileAt[p] /\ content' = content
    BY <1>1, <1>3, <1>4
  <2> SUFFICES ASSUME fileCall[c].alone
               PROVE  /\ fileAt[p] # NoCall /\ FileAtRest(fileCall[c].path)' /\ content[fileAt[p]] = fileCall[c].seen
                      /\ ReadSoFar(c)'
    BY <1>6, <2>0 DEF ReadsAlone
  <2>1. /\ FileAtRest(p) /\ fileAt[p] # NoCall /\ content[fileAt[p]] = fileCall[c].seen /\ ReadSoFar(c)
    BY <1>0, <1>2 DEF CallSound, ReadsAlone
  <2>2. ReadSoFar(c)'
    BY <1>3, <1>4, <2>1 DEF ReadSoFar
  <2>3. FileAtRest(p)'
    <3> SUFFICES ASSUME NEW e \in FileCalls PROVE ~ WriterOf(e, p)'
      BY DEF FileAtRest
    <3>1. CASE e = c
      BY <1>3, <1>4, <3>1 DEF WriterOf
    <3>2. CASE e # c
      BY <1>4, <2>1, <3>2 DEF FileAtRest, WriterOf, CallRunning
    <3> QED
      BY <3>1, <3>2
  <2>4. FileAtRest(fileCall[c].path)'
    BY <2>0, <2>3
  <2> QED
    BY <2>1, <2>2, <2>4
<1> QED
  BY <1>1, <1>2, <1>3, <1>4, <1>5, <1>6, <1>7, <1>8, ReaderGoesOn

LEMMA DownloadReads == ASSUME FilesInv, NEW c \in FileCalls, ReadPiece(c) PROVE FilesInv'
<1>0. PICK p, file, at : p = fileCall[c].path /\ file = content[fileCall[c].file] /\ at = fileCall[c].at
  OBVIOUS
<1>1. /\ fileCall[c].step = "read" /\ fileCall[c].op = "download" /\ UNCHANGED <<fileAt, content, expected>>
      /\ fileCall' = [fileCall EXCEPT ![c] =
           IF at < fileCall[c].size /\ at < Len(file)
           THEN [fileCall[c] EXCEPT !.at = at + 1, !.got = Append(fileCall[c].got, file[at + 1])]
           ELSE [fileCall[c] EXCEPT !.step = IF at = fileCall[c].size THEN "done" ELSE "short"]]
  <2>1. fileCall[c] \in FileCallRecord
    BY DEF FilesInv, FileTypes
  <2>2. [fileCall[c] EXCEPT !.at = @ + 1, !.got = Append(@, file[at + 1])] =
          [fileCall[c] EXCEPT !.at = at + 1, !.got = Append(fileCall[c].got, file[at + 1])]
    BY <1>0, <2>1 DEF FileCallRecord
  <2>3. /\ fileCall[c].step = "read" /\ fileCall[c].op = "download" /\ UNCHANGED <<fileAt, content, expected>>
        /\ fileCall' = [fileCall EXCEPT ![c] =
             IF more(c, file)
             THEN [fileCall[c] EXCEPT !.at = @ + 1, !.got = Append(@, file[at + 1])]
             ELSE [fileCall[c] EXCEPT !.step = IF at = fileCall[c].size THEN "done" ELSE "short"]]
    BY <1>0 DEF ReadPiece
  <2>4. more(c, file) <=> at < fileCall[c].size /\ at < Len(file)
    BY <1>0 DEF more
  <2> QED
    BY <2>2, <2>3, <2>4
<1>2. /\ fileCall \in [FileCalls -> FileCallRecord] /\ CallSound(c) /\ CallRunning(c)
      /\ p \in FilePaths /\ file \in Seq(FilePieces) /\ MadeBy(fileCall[c].file, p)
  BY <1>0, <1>1 DEF FilesInv, FileTypes, CallSound, CallSteps, CallRunning, FileHeld, MadeBy
<1>3. /\ at \in Nat /\ fileCall[c] \in FileCallRecord /\ fileCall[c].size \in Nat
      /\ fileCall[c].got \in Seq(FilePieces) /\ fileCall[c].seen \in Seq(FilePieces)
  BY <1>0, <1>2 DEF FileCallRecord
<1>4. fileCall[c].alone =>
        /\ FileAtRest(p) /\ fileAt[p] # NoCall /\ fileCall[c].file = fileAt[p] /\ file = fileCall[c].seen
        /\ ReadSoFar(c)
  BY <1>0, <1>1, <1>2 DEF CallSound, ReadsAlone
<1>5. ASSUME NEW a \in FileCallRecord, fileCall' = [fileCall EXCEPT ![c] = a],
             a.op = "download", a.path = p, a.file = fileCall[c].file, a.seen = fileCall[c].seen,
             a.size = fileCall[c].size, a.alone = fileCall[c].alone, a.step \in {"read", "done", "short"},
             fileCall[c].alone /\ a.step = "read" =>
               /\ a.at = Len(a.got) /\ a.at <= a.size
               /\ \A i \in 1..a.at : a.got[i] = a.seen[i],
             fileCall[c].alone /\ a.step # "read" => a.step = "done" /\ a.got = a.seen
      PROVE  FilesInv'
  <2>1. /\ fileCall'[c] = a /\ \A e \in FileCalls : e # c => fileCall'[e] = fileCall[e]
        /\ fileCall' \in [FileCalls -> FileCallRecord]
    BY <1>2, <1>5
  <2>2. FileTypes'
    BY <1>1, <2>1 DEF FileTypes, FilesInv
  <2>3. CallSteps(c)' /\ (CallRunning(c)' <=> a.step = "read")
    BY <1>2, <1>5, <2>1 DEF CallSteps, CallRunning
  <2>4. FileHeld(c)'
    <3>1. fileCall[c].file # c
      BY <1>1, <1>2 DEF MadeBy
    <3> QED
      BY <1>2, <1>5, <2>1, <3>1 DEF FileHeld, MadeBy
  <2>5. fileCall'[c].path = p /\ (fileCall[c].alone => FileAtRest(p)')
    <3>1. ASSUME NEW e \in FileCalls, ~ WriterOf(e, p) PROVE ~ WriterOf(e, p)'
      <4>1. CASE e = c
        BY <1>5, <2>1, <4>1 DEF WriterOf
      <4>2. CASE e # c
        BY <2>1, <3>1, <4>2 DEF WriterOf, CallRunning
      <4> QED
        BY <4>1, <4>2
    <3> QED
      BY <1>4, <1>5, <2>1, <3>1 DEF FileAtRest
  <2>6. fileCall[c].alone => FileAtRest(fileCall[c].path)'
    BY <2>5
  <2>7. fileCall[c].alone /\ a.step = "read" => ReadSoFar(c)'
    BY <1>4, <1>5, <2>1 DEF ReadSoFar
  <2>8. ReadsAlone(c)'
    <3> SUFFICES ASSUME fileCall[c].alone PROVE ReadsAlone(c)'
      BY <1>5, <2>1 DEF ReadsAlone
    <3>1. /\ fileCall'[c].path = p /\ fileAt' = fileAt /\ content' = content
          /\ fileCall'[c].file = fileAt[p] /\ content[fileAt[p]] = fileCall'[c].seen /\ fileAt[p] # NoCall
      BY <1>0, <1>1, <1>4, <1>5, <2>1, <2>5
    <3>2. fileCall'[c].step = a.step /\ fileCall'[c].got = a.got /\ fileCall'[c].seen = a.seen
      BY <2>1
    <3> QED
      BY <1>5, <2>3, <2>6, <2>7, <3>1, <3>2 DEF ReadsAlone
  <2> QED
    BY <1>1, <1>5, <2>1, <2>2, <2>3, <2>4, <2>8, ReaderGoesOn
<1>6. CASE at < fileCall[c].size /\ at < Len(file)
  <2>1. PICK next \in Nat : next = at + 1
    BY <1>3
  <2>2. next \in 1..Len(file)
    BY <1>2, <1>3, <1>6, <2>1
  <2>3. file[next] \in FilePieces
    BY <1>2, <2>2, ElementOfSeq
  <2> DEFINE got == Append(fileCall[c].got, file[next])
  <2>4. /\ got \in Seq(FilePieces) /\ Len(got) = Len(fileCall[c].got) + 1
        /\ \A i \in 1..Len(fileCall[c].got) : got[i] = fileCall[c].got[i]
        /\ got[Len(fileCall[c].got) + 1] = file[next]
    BY <1>3, <2>3, AppendProperties
  <2> DEFINE a == [fileCall[c] EXCEPT !.at = next, !.got = got]
  <2>5. /\ a \in FileCallRecord /\ a.op = fileCall[c].op /\ a.path = fileCall[c].path /\ a.file = fileCall[c].file
        /\ a.seen = fileCall[c].seen /\ a.size = fileCall[c].size /\ a.alone = fileCall[c].alone
        /\ a.step = fileCall[c].step /\ a.at = next /\ a.got = got
    <3> HIDE DEF got
    <3> QED
      BY <1>3, <2>4 DEF FileCallRecord
  <2>6. fileCall' = [fileCall EXCEPT ![c] = a]
    BY <1>1, <1>6, <2>1
  <2> HIDE DEF a, got
  <2>7. ASSUME fileCall[c].alone
        PROVE  next = Len(got) /\ next <= fileCall[c].size /\ \A i \in 1..next : got[i] = fileCall[c].seen[i]
    <3>1. /\ at = Len(fileCall[c].got) /\ file = fileCall[c].seen
          /\ \A i \in 1..at : fileCall[c].got[i] = fileCall[c].seen[i]
      BY <1>0, <1>4, <2>7 DEF ReadSoFar
    <3>2. next = Len(got) /\ next <= fileCall[c].size /\ next = Len(fileCall[c].got) + 1
      BY <1>3, <1>6, <2>1, <2>4, <3>1
    <3>3. got[next] = fileCall[c].seen[next]
      BY <2>4, <3>1, <3>2
    <3>4. ASSUME NEW i \in 1..next, i # next PROVE got[i] = fileCall[c].seen[i]
      <4>1. i \in 1..at
        BY <1>3, <2>1, <3>4
      <4> QED
        BY <2>4, <3>1, <4>1
    <3> QED
      BY <3>2, <3>3, <3>4
  <2>8. /\ a.op = "download" /\ a.path = p /\ a.step = "read"
        /\ fileCall[c].alone => /\ a.at = Len(a.got) /\ a.at <= a.size
                                /\ \A i \in 1..a.at : a.got[i] = a.seen[i]
    BY <1>0, <1>1, <2>5, <2>7
  <2> QED
    BY <1>5, <2>5, <2>6, <2>8
<1>7. CASE ~ (at < fileCall[c].size /\ at < Len(file))
  <2> DEFINE step == IF at = fileCall[c].size THEN "done" ELSE "short"
             a == [fileCall[c] EXCEPT !.step = step]
  <2>1. /\ a \in FileCallRecord /\ a.op = fileCall[c].op /\ a.path = fileCall[c].path /\ a.file = fileCall[c].file
        /\ a.seen = fileCall[c].seen /\ a.size = fileCall[c].size /\ a.alone = fileCall[c].alone
        /\ a.step = step /\ a.got = fileCall[c].got
    BY <1>3 DEF FileCallRecord
  <2>2. fileCall' = [fileCall EXCEPT ![c] = a]
    BY <1>1, <1>7
  <2> HIDE DEF a
  <2>3. ASSUME fileCall[c].alone PROVE step = "done" /\ fileCall[c].got = fileCall[c].seen
    <3>1. /\ fileCall[c].size = Len(fileCall[c].seen) /\ at = Len(fileCall[c].got) /\ at <= fileCall[c].size
          /\ \A i \in 1..at : fileCall[c].got[i] = fileCall[c].seen[i]
      BY <1>0, <1>4, <2>3 DEF ReadSoFar
    <3>2. file = fileCall[c].seen
      BY <1>4, <2>3
    <3>3. at = fileCall[c].size
      BY <1>3, <1>7, <3>1, <3>2
    <3>4. fileCall[c].got = fileCall[c].seen
      BY <1>3, <3>1, <3>3, SeqEqual
    <3> QED
      BY <3>3, <3>4
  <2>4. step \in {"done", "short"}
    OBVIOUS
  <2> HIDE DEF step
  <2> QED
    BY <1>0, <1>1, <1>5, <2>1, <2>2, <2>3, <2>4
<1> QED
  BY <1>6, <1>7

\* A restart ends every call, and says of the paths they wrote that they overlapped.
LEMMA RestartFiles == ASSUME FilesInv, FilesRestart PROVE FilesInv'
<1>1. /\ fileCall' = [c \in FileCalls |-> IF CallRunning(c) THEN [fileCall[c] EXCEPT !.step = "ended"] ELSE fileCall[c]]
      /\ expected' = [p \in FilePaths |-> IF FileAtRest(p) THEN expected[p] ELSE Overlapped]
      /\ UNCHANGED <<fileAt, content>>
  BY DEF FilesRestart
<1>2. ASSUME NEW c \in FileCalls
      PROVE  /\ fileCall'[c] \in FileCallRecord /\ ~ CallRunning(c)'
             /\ fileCall'[c].op = fileCall[c].op /\ fileCall'[c].path = fileCall[c].path
             /\ fileCall'[c].step = "ended" \/ (fileCall'[c] = fileCall[c] /\ ~ CallRunning(c))
  <2>1. fileCall[c] \in FileCallRecord
    BY DEF FilesInv, FileTypes
  <2>2. fileCall'[c] = IF CallRunning(c) THEN [fileCall[c] EXCEPT !.step = "ended"] ELSE fileCall[c]
    BY <1>1
  <2>3. CASE CallRunning(c)
    <3>1. fileCall'[c] = [fileCall[c] EXCEPT !.step = "ended"]
      BY <2>2, <2>3
    <3>2. /\ fileCall'[c] \in FileCallRecord /\ fileCall'[c].step = "ended"
          /\ fileCall'[c].op = fileCall[c].op /\ fileCall'[c].path = fileCall[c].path
      BY <2>1, <3>1 DEF FileCallRecord
    <3> QED
      BY <3>2 DEF CallRunning
  <2>4. CASE ~ CallRunning(c)
    BY <2>1, <2>2, <2>4 DEF CallRunning
  <2> QED
    BY <2>3, <2>4
<1>3. FileTypes'
  <2>1. fileCall' \in [FileCalls -> FileCallRecord]
    BY <1>1, <1>2
  <2> QED
    BY <1>1, <2>1 DEF FilesInv, FileTypes
<1>4. ASSUME NEW c \in FileCalls PROVE CallSound(c)'
  <2>1. CallSound(c)
    BY DEF FilesInv
  <2>2. CallSteps(c)' /\ FileHeld(c)' /\ WritesAlone(c)'
    BY <1>2 DEF CallSteps, FileHeld, WritesAlone, CallRunning
  <2>3. ReadsAlone(c)'
    BY <1>2, <2>1 DEF CallSound, ReadsAlone
  <2> QED
    BY <2>2, <2>3 DEF CallSound
<1>5. ASSUME NEW p \in FilePaths PROVE Made(p)' /\ Settled(p)'
  <2>1. Made(p)'
    BY <1>1, <1>2 DEF FilesInv, Made, MadeBy
  <2>2. FileContent(p)' = FileContent(p)
    BY <1>1 DEF FileContent
  <2>3. expected'[p] = IF FileAtRest(p) THEN expected[p] ELSE Overlapped
    BY <1>1
  <2> QED
    BY <2>1, <2>2, <2>3 DEF FilesInv, Settled
<1> QED
  BY <1>3, <1>4, <1>5 DEF FilesInv

LEMMA FilesStepInv == FilesInv /\ [FilesNext]_fileVars => FilesInv'
<1> SUFFICES ASSUME FilesInv, [FilesNext]_fileVars PROVE FilesInv'
  OBVIOUS
<1>1. ASSUME NEW c \in FileCalls, NEW p \in FilePaths,
             RemoveFile(c, p) \/ StatFile(c, p) \/ \E n \in BodySizes : BeginUpload(c, p, n)
      PROVE  FilesInv'
  BY <1>1, RemovalBegins, DownloadBegins, UploadBegins
<1>2. ASSUME NEW c \in FileCalls,
             \/ WritePiece(c) \/ UploadFails(c) \/ RemovePart(c) \/ FinishUpload(c)
             \/ DropEntry(c) \/ OpenFile(c) \/ ReadPiece(c)
      PROVE  FilesInv'
  BY <1>2, PieceWrites, WriterEnds, DownloadOpens, DownloadReads
<1>3. CASE UNCHANGED fileVars
  BY <1>3 DEF fileVars, FilesInv, FileTypes, CallSound, CallSteps, FileHeld, MadeBy, WritesAlone, ReadsAlone,
              ReadSoFar, Made, Settled, FileAtRest, WriterOf, CallRunning, FileContent
<1> QED
  BY <1>1, <1>2, <1>3, RestartFiles DEF FilesNext

\* Uploads and removals of a path that do not overlap leave there what the last
\* of them says, of a body as much as MaxUploadSize lets through, and a download
\* that none of them overlaps gets the whole of the file it saw (storage.go,
\* handler.go).
THEOREM FilesWholeHolds == FilesSpec => []FilesWhole
<1>1. FilesInit => FilesInv
  <2> SUFFICES ASSUME FilesInit PROVE FilesInv
    OBVIOUS
  <2>1. << >> \in Seq(FilePieces)
    BY EmptySeq
  <2>2. Idle \in FileCallRecord /\ Idle.op = "none" /\ Idle.step = "ended"
    BY <2>1 DEF Idle, FileCallRecord
  <2>3. FileTypes
    BY <2>1, <2>2 DEF FilesInit, FileTypes
  <2>4. ASSUME NEW c \in FileCalls PROVE CallSound(c)
    <3>1. fileCall[c] = Idle
      BY DEF FilesInit
    <3> QED
      BY <2>2, <3>1 DEF CallSound, CallSteps, FileHeld, WritesAlone, ReadsAlone, CallRunning
  <2>5. ASSUME NEW p \in FilePaths PROVE Made(p) /\ Settled(p)
    BY DEF FilesInit, Made, Settled, FileContent
  <2> QED
    BY <2>3, <2>4, <2>5 DEF FilesInv
<1>2. FilesInv => FilesWhole
  BY DEF FilesInv, CallSound, ReadsAlone, Settled, FilesWhole, SerialCallsLeaveWhole, UndisturbedDownloadIsWhole
<1> QED
  BY <1>1, <1>2, FilesStepInv, PTL DEF FilesSpec

-----------------------------------------------------------------------------
(***************************************************************************)
(* The media path.  What a read posts is in the order of the stream: parts  *)
(* take the places of their last bytes among all parts of the read, and     *)
(* start codes, the units between them and the fragments of a unit do not   *)
(* overlap.                                                                 *)
(***************************************************************************)
\* Finitely many things with different numbers .last: their places in the
\* order of the numbers are 1 .. Cardinality(S), one for each.
LEMMA Places ==
  ASSUME NEW S, IsFiniteSet(S), \A p \in S : p.last \in Int,
         \A p, q \in S : p.last = q.last => p = q,
         NEW i \in 1..Cardinality(S)
  PROVE  \E p \in S : Cardinality({q \in S : q.last <= p.last}) = i
<1> DEFINE Upto(p) == {q \in S : q.last <= p.last}
           place == [p \in S |-> Cardinality(Upto(p))]
           n == Cardinality(S)
<1>1. n \in Nat
  BY FS_CardinalityType
<1>2. \A p \in S : Upto(p) \in SUBSET S /\ IsFiniteSet(Upto(p)) /\ Cardinality(Upto(p)) \in 1..n
  <2> SUFFICES ASSUME NEW p \in S
               PROVE  Upto(p) \in SUBSET S /\ IsFiniteSet(Upto(p)) /\ Cardinality(Upto(p)) \in 1..n
    OBVIOUS
  <2>1. Upto(p) \in SUBSET S /\ p \in Upto(p)
    OBVIOUS
  <2> HIDE DEF Upto
  <2>2. IsFiniteSet(Upto(p)) /\ Cardinality(Upto(p)) <= n
    BY <2>1, FS_Subset
  <2>3. Cardinality(Upto(p)) \in Nat /\ Cardinality(Upto(p)) # 0
    BY <2>1, <2>2, FS_CardinalityType, FS_EmptySet
  <2> QED
    BY <2>1, <2>2, <2>3, <1>1
<1>3. \A p, q \in S : p.last < q.last => Cardinality(Upto(p)) < Cardinality(Upto(q))
  <2> SUFFICES ASSUME NEW p \in S, NEW q \in S, p.last < q.last
               PROVE  Cardinality(Upto(p)) < Cardinality(Upto(q))
    OBVIOUS
  <2>1. Upto(p) \in SUBSET Upto(q) /\ Upto(p) # Upto(q)
    <3>1. q \in Upto(q) /\ q \notin Upto(p)
      OBVIOUS
    <3>2. Upto(p) \subseteq Upto(q)
      OBVIOUS
    <3> QED
      BY <3>1, <3>2
  <2> HIDE DEF Upto
  <2>2. IsFiniteSet(Upto(q)) /\ Cardinality(Upto(q)) \in 1..n /\ Cardinality(Upto(p)) \in 1..n
    BY <1>2
  <2>3. Cardinality(Upto(p)) <= Cardinality(Upto(q)) /\ Cardinality(Upto(p)) # Cardinality(Upto(q))
    BY <2>1, <2>2, FS_Subset
  <2> QED
    BY <2>2, <2>3, <1>1
<1>4. place \in Injection(S, 1..n)
  <2> HIDE DEF Upto
  <2>1. place \in [S -> 1..n]
    BY <1>2
  <2>2. ASSUME NEW p \in S, NEW q \in S, place[p] = place[q] PROVE p = q
    <3>1. Cardinality(Upto(p)) = Cardinality(Upto(q)) /\ Cardinality(Upto(p)) \in 1..n
      BY <2>2, <1>2
    <3>2. ~ p.last < q.last /\ ~ q.last < p.last
      BY <3>1, <1>3, <1>1
    <3> QED
      BY <3>2
  <2> QED
    BY <2>1, <2>2 DEF Injection, IsInjective
<1>5. IsFiniteSet(1..n) /\ Cardinality(1..n) = n
  BY <1>1, FS_Interval
<1>6. place \in Surjection(S, 1..n)
  <2> HIDE DEF place, n
  <2>1. Cardinality(S) = Cardinality(1..n)
    BY <1>5 DEF n
  <2> QED
    BY <1>4, <1>5, <2>1, FS_Injection
<1>7. PICK p \in S : place[p] = i
  BY <1>6, <1>1 DEF Surjection
<1> QED
  BY <1>7

\* Sorted by these places, things are in the order of their numbers.
LEMMA Sorted ==
  ASSUME NEW S, IsFiniteSet(S), \A p \in S : p.last \in Int,
         \A p, q \in S : p.last = q.last => p = q
  PROVE  LET Place(p) == Cardinality({q \in S : q.last <= p.last})
             At(i) == CHOOSE p \in S : Place(p) = i
         IN  /\ \A i \in 1..Cardinality(S) : At(i) \in S
             /\ \A i, j \in 1..Cardinality(S) : i < j => At(i).last < At(j).last
<1> DEFINE Place(p) == Cardinality({q \in S : q.last <= p.last})
           At(i) == CHOOSE p \in S : Place(p) = i
<1>1. \A i \in 1..Cardinality(S) : At(i) \in S /\ Place(At(i)) = i
  <2> SUFFICES ASSUME NEW i \in 1..Cardinality(S) PROVE At(i) \in S /\ Place(At(i)) = i
    OBVIOUS
  <2>1. \E p \in S : Place(p) = i
    BY Places
  <2> HIDE DEF Place
  <2> QED
    BY <2>1
<1>2. ASSUME NEW i \in 1..Cardinality(S), NEW j \in 1..Cardinality(S), i < j
      PROVE  At(i).last < At(j).last
  <2> DEFINE p == At(i)
             q == At(j)
  <2>1. p \in S /\ q \in S /\ Place(p) = i /\ Place(q) = j
    BY <1>1
  <2> HIDE DEF p, q, At
  <2>2. SUFFICES ASSUME q.last <= p.last PROVE FALSE
    BY <2>1 DEF p, q
  <2>3. {r \in S : r.last <= q.last} \in SUBSET {r \in S : r.last <= p.last}
    BY <2>1, <2>2
  <2>4. IsFiniteSet({r \in S : r.last <= p.last})
    BY FS_Subset
  <2>5. j <= i
    BY <2>1, <2>3, <2>4, FS_Subset
  <2>6. i \in Int /\ j \in Int
    BY FS_CardinalityType
  <2> QED
    BY <1>2, <2>5, <2>6
<1> QED
  BY <1>1, <1>2

\* Start codes do not overlap and lie within the buffer.
LEMMA CodesApart ==
  ASSUME NEW b, NEW lo \in Nat, NEW hi \in Nat, NEW p \in Found(b, lo, hi)
  PROVE  /\ p \in lo..hi /\ CodeLength(b, hi, p) \in {3, 4}
         /\ p + CodeLength(b, hi, p) <= hi + 1
         /\ \A q \in Found(b, lo, hi) : p < q => p + CodeLength(b, hi, p) <= q
<1> DEFINE long(q) == b[q] = 0 /\ b[q + 1] = 0 /\ b[q + 2] = 0 /\ b[q + 3] = 1
           short(q) == b[q] = 0 /\ b[q + 1] = 0 /\ b[q + 2] = 1
<1>1. ASSUME NEW q \in Int PROVE LongCode(b, hi, q) => q + 3 <= hi /\ long(q)
  <2> SUFFICES ASSUME LongCode(b, hi, q) PROVE q + 3 <= hi /\ long(q)
    OBVIOUS
  <2>1. q + 3 <= hi /\ [i \in 1..4 |-> b[q + i - 1]] = <<0, 0, 0, 1>>
    BY DEF LongCode, StartCode
  <2>2. b[q + 1 - 1] = 0 /\ b[q + 2 - 1] = 0 /\ b[q + 3 - 1] = 0 /\ b[q + 4 - 1] = 1
    BY <2>1
  <2>3. q + 1 - 1 = q /\ q + 2 - 1 = q + 1 /\ q + 3 - 1 = q + 2 /\ q + 4 - 1 = q + 3
    OBVIOUS
  <2> QED
    BY <2>1, <2>2, <2>3
<1>2. ASSUME NEW q \in Int PROVE ShortCode(b, hi, q) => q + 2 <= hi /\ short(q)
  <2> SUFFICES ASSUME ShortCode(b, hi, q) PROVE q + 2 <= hi /\ short(q)
    OBVIOUS
  <2>1. q + 2 <= hi /\ [i \in 1..3 |-> b[q + i - 1]] = <<0, 0, 1>>
    BY DEF ShortCode, StartCode
  <2>2. b[q + 1 - 1] = 0 /\ b[q + 2 - 1] = 0 /\ b[q + 3 - 1] = 1
    BY <2>1
  <2>3. q + 1 - 1 = q /\ q + 2 - 1 = q + 1 /\ q + 3 - 1 = q + 2
    OBVIOUS
  <2> QED
    BY <2>1, <2>2, <2>3
<1>3. p \in lo..hi /\ (LongCode(b, hi, p) \/ ShortCode(b, hi, p))
  BY DEF Found
<1>4. ASSUME NEW q \in Found(b, lo, hi), p < q PROVE p + CodeLength(b, hi, p) <= q
  <2>1. q \in lo..hi /\ (LongCode(b, hi, q) \/ ShortCode(b, hi, q)) /\ ~ LongCode(b, hi, q - 1)
    BY <1>3, <1>4 DEF Found
  <2>2. b[q] = 0 /\ b[q + 1] = 0
    BY <2>1, <1>1, <1>2
  <2>3. q # p + 1 \/ ~ LongCode(b, hi, p)
    BY <2>1, <1>3
  <2>4. CASE LongCode(b, hi, p)
    <3>1. b[p + 3] = 1
      BY <2>4, <1>1, <1>3
    <3>2. q # p + 3
      BY <3>1, <2>2
    <3>3. q # p + 2
      BY <3>1, <2>2, <1>3
    <3> QED
      BY <3>2, <3>3, <2>3, <2>4, <1>3, <1>4, <2>1 DEF CodeLength
  <2>5. CASE ~ LongCode(b, hi, p)
    <3>1. b[p + 2] = 1
      BY <2>5, <1>2, <1>3
    <3>2. q # p + 2
      BY <3>1, <2>2
    <3>3. q # p + 1
      BY <3>1, <2>2, <1>3
    <3> QED
      BY <3>2, <3>3, <2>5, <1>3, <1>4, <2>1 DEF CodeLength
  <2> QED
    BY <2>4, <2>5
<1>5. p + CodeLength(b, hi, p) <= hi + 1
  BY <1>1, <1>2, <1>3 DEF CodeLength
<1> QED
  BY <1>3, <1>4, <1>5 DEF CodeLength

\* Multiples of a number are at least that number apart.
LEMMA Apart ==
  ASSUME NEW m \in Nat, NEW p \in Nat, NEW q \in Nat, p < q
  PROVE  p * m \in Nat /\ p * m + m <= q * m
<1>1. (q - p - 1) * m >= 0
  OBVIOUS
<1> QED
  BY <1>1

\* The fragments of a unit lie in it, and one behind the other.
LEMMA FragmentsInOrder ==
  ASSUME MediaAssumption, NEW u, u.first \in Nat, u.last \in Int
  PROVE  \A p \in Fragments(u) :
            /\ p \in Parts /\ u.first <= p.first /\ p.first <= p.last /\ p.last <= u.last
            /\ \A q \in Fragments(u) : p = q \/ p.last < q.first \/ q.last < p.first
<1>1. MTU \in Nat \ {0}
  BY DEF MediaAssumption
<1>2. CASE u.last < u.first
  BY <1>2 DEF Fragments
<1>3. CASE u.first <= u.last /\ u.last - u.first + 1 <= MTU
  <2>1. Fragments(u) = {Whole(u)}
    BY <1>3 DEF Fragments
  <2>2. u.first \in Nat /\ u.last \in Nat
    BY <1>3
  <2>3. /\ Whole(u) \in Parts /\ Whole(u).first = u.first /\ Whole(u).last = u.last
    BY <2>2 DEF Whole, Parts
  <2>4. \A p \in Fragments(u) : p = Whole(u)
    BY <2>1
  <2> QED
    BY <2>3, <2>4, <1>3
<1>4. CASE u.first <= u.last /\ ~ u.last - u.first + 1 <= MTU
  <2> DEFINE K == {k \in 0 .. u.last - u.first : u.first + 1 + k * MTU <= u.last}
             Lo(k) == u.first + 1 + k * MTU
  <2>1. Fragments(u) = {Fragment(u, Lo(k)) : k \in K}
    BY <1>4 DEF Fragments
  <2>2. \A k \in K : Lo(k) \in Nat /\ u.first + 1 <= Lo(k) /\ Lo(k) <= u.last
    BY <1>1
  <2>3. \A j, k \in K : j < k => Lo(j) + MTU <= Lo(k)
    <3> SUFFICES ASSUME NEW j \in K, NEW k \in K, j < k PROVE Lo(j) + MTU <= Lo(k)
      OBVIOUS
    <3>1. j * MTU \in Nat /\ k * MTU \in Nat /\ j * MTU + MTU <= k * MTU
      BY <1>1, Apart
    <3> QED
      BY <3>1, <1>1
  <2>4. \A j, k \in K : j = k \/ j < k \/ k < j
    OBVIOUS
  <2> HIDE DEF K, Lo
  <2>5. ASSUME NEW lo \in Nat, u.first + 1 <= lo, lo <= u.last
        PROVE  /\ Fragment(u, lo) \in Parts /\ u.first <= Fragment(u, lo).first
               /\ Fragment(u, lo).first = lo /\ lo <= Fragment(u, lo).last
               /\ Fragment(u, lo).last <= u.last /\ Fragment(u, lo).last <= lo + MTU - 1
    <3>1. Min({lo + MTU - 1, u.last}) \in {lo + MTU - 1, u.last}
          /\ Min({lo + MTU - 1, u.last}) <= lo + MTU - 1 /\ Min({lo + MTU - 1, u.last}) <= u.last
      <4>1. \E x \in {lo + MTU - 1, u.last} : \A y \in {lo + MTU - 1, u.last} : x <= y
        BY <2>5, <1>1
      <4>2. \A y \in {lo + MTU - 1, u.last} : y \in Int
        BY <2>5, <1>1
      <4> QED
        BY <4>1, <4>2 DEF Min
    <3> QED
      BY <2>5, <3>1, <1>1 DEF Fragment, Parts
  <2>6. ASSUME NEW j \in K, NEW k \in K, j < k
        PROVE  Fragment(u, Lo(j)).last < Fragment(u, Lo(k)).first
    <3>1. /\ Lo(j) \in Nat /\ Lo(k) \in Nat /\ Lo(j) + MTU <= Lo(k)
          /\ u.first + 1 <= Lo(j) /\ Lo(j) <= u.last /\ u.first + 1 <= Lo(k) /\ Lo(k) <= u.last
      BY <2>2, <2>3, <2>6
    <3>2. /\ Fragment(u, Lo(j)).last <= Lo(j) + MTU - 1 /\ Fragment(u, Lo(k)).first = Lo(k)
          /\ Fragment(u, Lo(j)).last \in Nat
      BY <3>1, <2>5 DEF Parts
    <3> QED
      BY <3>1, <3>2, <1>1
  <2> SUFFICES ASSUME NEW p \in Fragments(u)
               PROVE  /\ p \in Parts /\ u.first <= p.first /\ p.first <= p.last /\ p.last <= u.last
                      /\ \A q \in Fragments(u) : p = q \/ p.last < q.first \/ q.last < p.first
    OBVIOUS
  <2>7. PICK j \in K : p = Fragment(u, Lo(j))
    BY <2>1
  <2>8. ASSUME NEW q \in Fragments(u) PROVE p = q \/ p.last < q.first \/ q.last < p.first
    <3>1. PICK k \in K : q = Fragment(u, Lo(k))
      BY <2>1
    <3>2. CASE j = k
      BY <3>1, <3>2, <2>7
    <3>3. CASE j < k
      BY <3>1, <3>3, <2>7, <2>6
    <3>4. CASE k < j
      BY <3>1, <3>4, <2>7, <2>6
    <3> QED
      BY <3>2, <3>3, <3>4, <2>4
  <2>9. Lo(j) \in Nat /\ u.first + 1 <= Lo(j) /\ Lo(j) <= u.last
    BY <2>2
  <2>10. /\ p \in Parts /\ u.first <= p.first /\ p.first = Lo(j) /\ Lo(j) <= p.last
        /\ p.last <= u.last
    BY <2>5, <2>7, <2>9
  <2> QED
    BY <2>8, <2>10
<1> QED
  BY <1>2, <1>3, <1>4

\* Two units of a buffer lie behind the place it begins, one behind the other.
LEMMA UnitsInOrder ==
  ASSUME NEW b, NEW lo \in Nat, NEW hi \in Nat, NEW u \in Parsed(b, lo, hi)
  PROVE  /\ u.first \in Nat /\ u.last \in Int /\ lo <= u.first /\ u.last <= hi
         /\ \E p \in Found(b, lo, hi) : u.last < p
         /\ \A v \in Parsed(b, lo, hi) : u = v \/ u.last < v.first \/ v.last < u.first
<1> DEFINE F == Found(b, lo, hi)
           Adjacent(p, q) == p < q /\ \A r \in F : ~ (p < r /\ r < q)
           Unit(p, q) == [first |-> p + CodeLength(b, hi, p), last |-> q - 1]
<1>1. \A v \in Parsed(b, lo, hi) : \E p, q \in F : Adjacent(p, q) /\ v = Unit(p, q)
  BY DEF Parsed
<1>2. \A p \in F : /\ p \in Nat /\ p \in lo..hi /\ CodeLength(b, hi, p) \in {3, 4}
  BY CodesApart
<1>3. PICK p \in F, q \in F : Adjacent(p, q) /\ u = Unit(p, q)
  BY <1>1
<1>4. /\ u.first \in Nat /\ u.last \in Int /\ lo <= u.first /\ u.last <= hi /\ u.last < q
  BY <1>2, <1>3
<1>5. ASSUME NEW v \in Parsed(b, lo, hi) PROVE u = v \/ u.last < v.first \/ v.last < u.first
  <2>1. PICK s \in F, t \in F : Adjacent(s, t) /\ v = Unit(s, t)
    BY <1>1
  <2>2. CASE p < s
    <3>1. q <= s
      BY <2>2, <1>2, <1>3
    <3> QED
      BY <3>1, <2>1, <1>2, <1>3
  <2>3. CASE s < p
    <3>1. t <= p
      BY <2>3, <1>2, <2>1
    <3> QED
      BY <3>1, <2>1, <1>2, <1>3
  <2>4. CASE s = p
    <3>1. t = q
      BY <2>4, <2>1, <1>2, <1>3
    <3> QED
      BY <3>1, <2>4, <2>1, <1>3
  <2> QED
    BY <2>2, <2>3, <2>4, <1>2
<1> QED
  BY <1>3, <1>4, <1>5

\* Of the start codes of a buffer one is the last.
LEMMA GreatestCode ==
  ASSUME NEW b, NEW lo \in Nat, NEW hi \in Nat, Found(b, lo, hi) # {}
  PROVE  /\ Max(Found(b, lo, hi)) \in Found(b, lo, hi)
         /\ \A c \in Found(b, lo, hi) : c <= Max(Found(b, lo, hi))
<1> DEFINE F == Found(b, lo, hi)
           D == {hi - c : c \in F}
<1>1. \A c \in F : c \in Nat /\ hi - c \in Nat
  BY CodesApart
<1> HIDE DEF F
<1>2. D \subseteq Nat /\ D # {}
  BY <1>1 DEF F
<1> HIDE DEF D
<1>3. Min(D) \in D /\ \A d \in D : Min(D) <= d
  BY <1>2, LeastOf
<1>4. PICK m \in F : Min(D) = hi - m
  BY <1>3 DEF D
<1>5. \A c \in F : c <= m
  <2> SUFFICES ASSUME NEW c \in F PROVE c <= m
    OBVIOUS
  <2>1. hi - c \in D
    BY DEF D
  <2> QED
    BY <2>1, <1>1, <1>3, <1>4
<1>6. \E x \in F : \A y \in F : x >= y
  BY <1>1, <1>5
<1>7. Max(F) \in F /\ \A y \in F : Max(F) >= y
  BY <1>6 DEF Max
<1> QED
  BY <1>1, <1>7 DEF F

\* Packets in the order of the stream.
Ordered(packets) ==
  \A i, j \in 1..Len(packets) : i < j => packets[i].part.last < packets[j].part.first

\* All parts of one read: packets of units of the buffer, told apart by their
\* last byte.
LEMMA PartsOfRead ==
  ASSUME MediaAssumption, NEW b, NEW lo \in Nat, NEW hi \in Nat
  PROVE  LET parts == UNION {Fragments(u) : u \in Parsed(b, lo, hi)}
         IN  /\ IsFiniteSet(parts)
             /\ \A p \in parts : /\ p \in Parts /\ lo <= p.first /\ p.first <= p.last
                                 /\ \E c \in Found(b, lo, hi) : p.last < c
                                 /\ \A q \in parts : p = q \/ p.last < q.first \/ q.last < p.first
<1> DEFINE parts == UNION {Fragments(u) : u \in Parsed(b, lo, hi)}
<1>1. ASSUME NEW p \in parts
      PROVE  /\ p \in Parts /\ lo <= p.first /\ p.first <= p.last /\ p.last <= hi
             /\ \E c \in Found(b, lo, hi) : p.last < c
             /\ \A q \in parts : p = q \/ p.last < q.first \/ q.last < p.first
  <2>1. PICK u \in Parsed(b, lo, hi) : p \in Fragments(u)
    OBVIOUS
  <2>2. /\ u.first \in Nat /\ u.last \in Int /\ lo <= u.first /\ u.last <= hi
        /\ \E c \in Found(b, lo, hi) : u.last < c
        /\ \A v \in Parsed(b, lo, hi) : u = v \/ u.last < v.first \/ v.last < u.first
    BY UnitsInOrder
  <2>3. /\ p \in Parts /\ u.first <= p.first /\ p.first <= p.last /\ p.last <= u.last
        /\ \A q \in Fragments(u) : p = q \/ p.last < q.first \/ q.last < p.first
    BY <2>1, <2>2, FragmentsInOrder
  <2>4. p.first \in Nat /\ p.last \in Nat
    BY <2>3 DEF Parts
  <2>5. \E c \in Found(b, lo, hi) : p.last < c
    <3>1. \A c \in Found(b, lo, hi) : c \in Nat
      BY CodesApart
    <3> QED
      BY <3>1, <2>2, <2>3, <2>4
  <2>6. ASSUME NEW q \in parts PROVE p = q \/ p.last < q.first \/ q.last < p.first
    <3>1. PICK v \in Parsed(b, lo, hi) : q \in Fragments(v)
      OBVIOUS
    <3>2. v.first \in Nat /\ v.last \in Int
      BY UnitsInOrder
    <3>3. q \in Parts /\ v.first <= q.first /\ q.last <= v.last
      BY <3>1, <3>2, FragmentsInOrder
    <3>4. q.first \in Nat /\ q.last \in Nat
      BY <3>3 DEF Parts
    <3>5. CASE u = v
      BY <3>1, <3>5, <2>3
    <3>6. CASE u # v
      BY <3>2, <3>3, <3>4, <3>6, <2>2, <2>3, <2>4
    <3> QED
      BY <3>5, <3>6
  <2> HIDE DEF parts
  <2> QED
    BY <2>2, <2>3, <2>4, <2>5, <2>6
<1>2. IsFiniteSet(parts)
  <2> DEFINE f == [p \in parts |-> p.last]
  <2>1. \A p \in parts : p.first \in Nat /\ p.last \in Nat
    BY <1>1 DEF Parts
  <2>2. \A p \in parts : lo <= p.first /\ p.first <= p.last /\ p.last <= hi
    BY <1>1
  <2>3. \A p, q \in parts : p = q \/ p.last < q.first \/ q.last < p.first
    BY <1>1
  <2> HIDE DEF parts
  <2>4. f \in [parts -> 0..hi]
    BY <2>1, <2>2
  <2>5. \A p, q \in parts : f[p] = f[q] => p = q
    BY <2>1, <2>2, <2>3
  <2>6. f \in Injection(parts, 0..hi)
    BY <2>4, <2>5, Zenon DEF Injection, IsInjective
  <2>7. IsFiniteSet(0..hi)
    BY FS_Interval
  <2> QED
    BY <2>6, <2>7, FS_Injection
<1> QED
  BY <1>1, <1>2

\* What one read posts: packets of its bytes, in order.
LEMMA BatchInOrder ==
  ASSUME MediaAssumption, NEW b, NEW lo \in Nat, NEW hi \in Nat, NEW s \in Nat
  PROVE  LET batch == Batch(Parsed(b, lo, hi), s)
         IN  /\ batch \in Seq(Packets) /\ Ordered(batch)
             /\ \A i \in 1..Len(batch) : /\ lo <= batch[i].part.first
                                         /\ \E c \in Found(b, lo, hi) : batch[i].part.last < c
<1> DEFINE parts == UNION {Fragments(u) : u \in Parsed(b, lo, hi)}
           Place(p) == Cardinality({q \in parts : q.last <= p.last})
           At(i) == CHOOSE p \in parts : Place(p) = i
           n == Cardinality(parts)
           batch == Batch(Parsed(b, lo, hi), s)
<1>1. batch = [i \in 1..n |-> [seq |-> (s + i - 1) % SeqSpace, part |-> At(i)]]
  BY DEF Batch
<1>2. /\ IsFiniteSet(parts)
      /\ \A p \in parts : /\ p \in Parts /\ lo <= p.first /\ p.first <= p.last
                          /\ \E c \in Found(b, lo, hi) : p.last < c
                          /\ \A q \in parts : p = q \/ p.last < q.first \/ q.last < p.first
  BY PartsOfRead
<1>3. /\ \A p \in parts : p.last \in Int /\ p.first \in Int
      /\ \A p, q \in parts : p.last = q.last => p = q
  BY <1>2 DEF Parts
<1>4. /\ \A i \in 1..n : At(i) \in parts
      /\ \A i, j \in 1..n : i < j => At(i).last < At(j).last
  <2> HIDE DEF parts
  <2> QED
    BY <1>2, <1>3, Sorted
<1>5. n \in Nat
  BY <1>2, FS_CardinalityType
<1> HIDE DEF parts, At, n, batch
<1>6. \A i \in 1..n : (s + i - 1) % SeqSpace \in 0..SeqSpace - 1
  BY <1>5 DEF MediaAssumption
<1>7. batch \in Seq(Packets) /\ Len(batch) = n
  <2>1. \A i \in 1..n : [seq |-> (s + i - 1) % SeqSpace, part |-> At(i)] \in Packets
    BY <1>2, <1>4, <1>6 DEF Packets
  <2>2. batch \in [1..n -> Packets]
    BY <1>1, <2>1
  <2> QED
    BY <1>5, <2>2
<1>8. \A i \in 1..Len(batch) : batch[i].part = At(i) /\ At(i) \in parts
  BY <1>1, <1>4, <1>7
<1>9. Ordered(batch)
  <2> SUFFICES ASSUME NEW i \in 1..Len(batch), NEW j \in 1..Len(batch), i < j
               PROVE  batch[i].part.last < batch[j].part.first
    BY DEF Ordered
  <2>1. At(i) \in parts /\ At(j) \in parts /\ At(i).last < At(j).last
    BY <1>4, <1>7
  <2>2. At(i).last < At(j).first
    BY <1>2, <1>3, <2>1
  <2> QED
    BY <2>2, <1>8
<1>10. \A i \in 1..Len(batch) : /\ lo <= batch[i].part.first
                                /\ \E c \in Found(b, lo, hi) : batch[i].part.last < c
  BY <1>2, <1>8
<1> QED
  BY <1>7, <1>9, <1>10 DEF batch

\* What a read carries over are bytes behind everything it posts.
LEMMA KeptBehind ==
  ASSUME MediaAssumption, NEW b, NEW lo \in Nat, NEW hi \in Nat, lo <= hi + 1
  PROVE  /\ Kept(b, lo, hi) \in 0..MaxCarry /\ lo <= hi - Kept(b, lo, hi) + 1
         /\ \A c \in Found(b, lo, hi) : c <= hi - Kept(b, lo, hi)
<1> DEFINE F == Found(b, lo, hi)
           tail == IF F = {} THEN lo ELSE Max(F) + CodeLength(b, hi, Max(F))
<1>1. Kept(b, lo, hi) = Min({hi - tail + 1, MaxCarry})
  BY DEF Kept
<1>2. MaxCarry \in Nat
  BY DEF MediaAssumption
<1>3. tail \in Nat /\ lo <= tail /\ tail <= hi + 1 /\ \A c \in F : c < tail
  <2>1. CASE F = {}
    BY <2>1
  <2>2. CASE F # {}
    <3>1. Max(F) \in F /\ \A c \in F : c <= Max(F)
      BY <2>2, GreatestCode
    <3>2. /\ Max(F) \in lo..hi /\ CodeLength(b, hi, Max(F)) \in {3, 4}
          /\ Max(F) + CodeLength(b, hi, Max(F)) <= hi + 1
      BY <3>1, CodesApart
    <3>3. \A c \in F : c \in Nat
      BY CodesApart
    <3> HIDE DEF F
    <3> QED
      BY <2>2, <3>1, <3>2, <3>3
  <2> QED
    BY <2>1, <2>2
<1> HIDE DEF tail, F
<1>4. /\ Min({hi - tail + 1, MaxCarry}) \in {hi - tail + 1, MaxCarry}
      /\ Min({hi - tail + 1, MaxCarry}) <= hi - tail + 1
      /\ Min({hi - tail + 1, MaxCarry}) <= MaxCarry
  <2>1. \E x \in {hi - tail + 1, MaxCarry} : \A y \in {hi - tail + 1, MaxCarry} : x <= y
    BY <1>2, <1>3
  <2> QED
    BY <2>1 DEF Min
<1>5. Kept(b, lo, hi) \in 0..MaxCarry /\ Kept(b, lo, hi) <= hi - tail + 1
  BY <1>1, <1>2, <1>3, <1>4
<1>6. \A c \in F : c \in Int /\ c < tail
  BY <1>3, CodesApart DEF F
<1> QED
  BY <1>3, <1>5, <1>6 DEF F

\* The last byte of the stream the parser has left behind.
Left(e) == pos[e] - carry[e]

\* As long as no post was given up there is one handler, while the reader
\* waits for it, and what it has still to write lies behind the track.
InStep(e) ==
  ~ gaveUp[e] =>
    /\ Len(posts[e]) = IF reader[e] = "posting" THEN 1 ELSE 0
    /\ Ordered(track[e])
    /\ \A i \in 1..Len(track[e]) : track[e][i].part.last <= Left(e)
    /\ \A m \in 1..Len(posts[e]) :
          /\ Ordered(posts[e][m])
          /\ \A i \in 1..Len(posts[e][m]) :
                /\ posts[e][m][i].part.last <= Left(e)
                /\ \A j \in 1..Len(track[e]) :
                      track[e][j].part.last < posts[e][m][i].part.first

\* What is carried over was read, a reader that waits has a handler at work,
\* and there is no reader before the encoder runs.
ReaderOK(e) ==
  /\ carry[e] <= pos[e]
  /\ reader[e] = "posting" => posts[e] # << >>
  /\ reader[e] # "none" => life[e] \in {"running", "over"}

MediaInv ==
  /\ MediaTypeOK
  /\ \A e \in Encoders : ReaderOK(e) /\ InStep(e)
  /\ StreamsCounted

\* There are two encoders.
LEMMA EncodersFinite ==
  ASSUME MediaAssumption
  PROVE  Encoders = {"desktop", "gaming"} /\ IsFiniteSet(Encoders) /\ Cardinality(Encoders) \in Nat
<1>1. Encoders = {"desktop", "gaming"}
  BY DEF Encoders, MediaAssumption
<1>2. IsFiniteSet({"desktop"} \cup {"gaming"})
  BY FS_Singleton, FS_AddElement
<1>3. {"desktop"} \cup {"gaming"} = {"desktop", "gaming"}
  OBVIOUS
<1> QED
  BY <1>1, <1>2, <1>3, FS_CardinalityType

\* The streams at work are finitely many; one more or less counts as one.
LEMMA StreamCount ==
  ASSUME MediaAssumption, NEW W \in SUBSET Encoders, NEW e \in Encoders
  PROVE  /\ Cardinality(W) \in 0..Cardinality(Encoders)
         /\ e \notin W => Cardinality(W \cup {e}) = Cardinality(W) + 1
         /\ e \in W => Cardinality(W \ {e}) = Cardinality(W) - 1 /\ Cardinality(W) > 0
<1>1. IsFiniteSet(W) /\ Cardinality(W) <= Cardinality(Encoders) /\ Cardinality(W) \in Nat
  BY EncodersFinite, FS_Subset, FS_CardinalityType
<1>2. /\ e \notin W => Cardinality(W \cup {e}) = Cardinality(W) + 1
      /\ e \in W => Cardinality(W \ {e}) = Cardinality(W) - 1
  BY <1>1, FS_AddElement, FS_RemoveElement
<1>3. e \in W => Cardinality(W) > 0
  <2>1. W # {} => Cardinality(W) # 0
    BY <1>1, FS_EmptySet
  <2> QED
    BY <2>1, <1>1
<1> QED
  BY <1>1, <1>2, <1>3, EncodersFinite

\* Nothing is counted, read or posted at the start.
LEMMA MediaInvInit ==
  ASSUME MediaAssumption, MediaInit
  PROVE  MediaInv
<1>1. MediaTypeOK
  <2>1. 1 \in 0..SeqSpace - 1 /\ MaxCarry \in Nat
    BY DEF MediaAssumption
  <2>2. << >> \in Seq(Seq(Packets)) /\ << >> \in Seq(Packets)
    OBVIOUS
  <2>3. active \in 0..Cardinality(Encoders)
    BY EncodersFinite DEF MediaInit
  <2> QED
    BY <2>1, <2>2, <2>3 DEF MediaInit, MediaTypeOK, Lives
<1>2. StreamsCounted
  <2>1. {e \in Encoders : life[e] \in {"counted", "launching", "running", "leaked"}} = {}
    BY DEF MediaInit
  <2> QED
    BY <2>1, FS_EmptySet DEF MediaInit, StreamsCounted
<1>3. ASSUME NEW e \in Encoders
      PROVE  ReaderOK(e) /\ InStep(e)
  <2>1. /\ posts[e] = << >> /\ track[e] = << >> /\ reader[e] = "none"
        /\ pos[e] = 0 /\ carry[e] = 0
    BY DEF MediaInit
  <2>2. Len(posts[e]) = 0 /\ Len(track[e]) = 0
    BY <2>1
  <2> QED
    BY <2>1, <2>2 DEF ReaderOK, InStep, Ordered
<1> QED
  BY <1>1, <1>2, <1>3 DEF MediaInv

\* An encoder whose video a step does not touch stays in step.
LEMMA Untouched ==
  ASSUME NEW f \in Encoders, InStep(f), ReaderOK(f),
         pos'[f] = pos[f], carry'[f] = carry[f], posts'[f] = posts[f],
         gaveUp'[f] = gaveUp[f], track'[f] = track[f],
         (reader'[f] = "posting") <=> (reader[f] = "posting")
  PROVE  /\ InStep(f)'
         /\ (reader'[f] # "none" => life'[f] \in {"running", "over"}) => ReaderOK(f)'
<1>1. Left(f)' = Left(f)
  BY DEF Left
<1>2. InStep(f)'
  BY <1>1 DEF InStep, Ordered
<1> QED
  BY <1>2 DEF ReaderOK

\* Encoder sessions: what they do to the count and to the readers.
LEMMA SessionKeeps ==
  ASSUME MediaAssumption, MediaInv,
         StartDesktop \/ StartGaming \/ GamingSession \/ \E e \in Encoders : SessionStep(e)
  PROVE  MediaInv'
<1> DEFINE atWork == {"counted", "launching", "running", "leaked"}
           W == {x \in Encoders : life[x] \in atWork}
<1>1. /\ Encoders = {"desktop", "gaming"} /\ active = Cardinality(W)
      /\ life \in [Encoders -> Lives] /\ active \in 0..Cardinality(Encoders)
      /\ reader \in [Encoders -> {"none", "reading", "posting", "ended"}]
  BY EncodersFinite DEF MediaInv, MediaTypeOK, StreamsCounted
<1>2. PICK e \in Encoders, l \in Lives :
        /\ life' = [life EXCEPT ![e] = l]
        /\ \/ life[e] \notin atWork /\ l \in atWork /\ active' = active + 1 /\ l # "running"
           \/ (life[e] \in atWork <=> l \in atWork) /\ active' = active
           \/ life[e] \in atWork /\ l \notin atWork
              /\ active' = (IF active > 0 THEN active - 1 ELSE active)
        /\ \/ reader' = reader /\ (life[e] \in {"running", "over"} => l \in {"running", "over"})
           \/ reader' = [reader EXCEPT ![e] = "reading"] /\ l = "running" /\ life[e] = "launching"
  <2>1. CASE StartDesktop
    BY <2>1, <1>1 DEF StartDesktop, packetVars, Lives
  <2>2. CASE StartGaming
    BY <2>2, <1>1 DEF StartGaming, packetVars, Lives
  <2>3. CASE GamingSession
    BY <2>3, <1>1 DEF GamingSession, packetVars, Lives
  <2>4. ASSUME NEW e \in Encoders, SessionStep(e)
        PROVE  \E l \in Lives :
        /\ life' = [life EXCEPT ![e] = l]
        /\ \/ life[e] \notin atWork /\ l \in atWork /\ active' = active + 1 /\ l # "running"
           \/ (life[e] \in atWork <=> l \in atWork) /\ active' = active
           \/ life[e] \in atWork /\ l \notin atWork
              /\ active' = (IF active > 0 THEN active - 1 ELSE active)
        /\ \/ reader' = reader /\ (life[e] \in {"running", "over"} => l \in {"running", "over"})
           \/ reader' = [reader EXCEPT ![e] = "reading"] /\ l = "running" /\ life[e] = "launching"
    <3>1. CASE Launch(e)
      BY <3>1 DEF Launch, Lives
    <3>2. CASE LaunchFails(e)
      BY <3>2 DEF LaunchFails, Uncount, Lives
    <3>3. CASE Reap(e)
      BY <3>3 DEF Reap, Uncount, Lives
    <3> QED
      BY <2>4, <3>1, <3>2, <3>3 DEF SessionStep
  <2> QED
    BY <2>1, <2>2, <2>3, <2>4
<1>3. UNCHANGED <<output, packetVars>>
  BY DEF StartDesktop, StartGaming, GamingSession, SessionStep, Launch, LaunchFails, Reap
<1>4. /\ Cardinality(W) \in 0..Cardinality(Encoders) /\ Cardinality(Encoders) \in Nat
      /\ e \notin W => Cardinality(W \cup {e}) = Cardinality(W) + 1
      /\ e \in W => Cardinality(W \ {e}) = Cardinality(W) - 1 /\ Cardinality(W) > 0
  <2>1. W \in SUBSET Encoders
    OBVIOUS
  <2> HIDE DEF W
  <2> QED
    BY <2>1, StreamCount, EncodersFinite
<1>5. W' = IF l \in atWork THEN W \cup {e} ELSE W \ {e}
  BY <1>1, <1>2
<1>6. Cardinality(W') \in 0..Cardinality(Encoders)
  <2>1. W' \in SUBSET Encoders
    BY <1>5
  <2> HIDE DEF W
  <2> QED
    BY <2>1, StreamCount
<1>7. active' = Cardinality(W')
  <2>1. (e \in W) <=> life[e] \in atWork
    OBVIOUS
  <2>2. e \in W => W \cup {e} = W
    OBVIOUS
  <2>3. e \notin W => W \ {e} = W
    OBVIOUS
  <2> HIDE DEF W, atWork
  <2> QED
    BY <1>1, <1>2, <1>4, <1>5, <2>1, <2>2, <2>3
<1>8. MediaTypeOK'
  <2>1. life' \in [Encoders -> Lives]
    BY <1>1, <1>2
  <2>2. reader' \in [Encoders -> {"none", "reading", "posting", "ended"}]
    BY <1>1, <1>2
  <2> QED
    BY <2>1, <2>2, <1>3, <1>6, <1>7 DEF MediaInv, MediaTypeOK, packetVars
<1>9. ASSUME NEW f \in Encoders PROVE ReaderOK(f)' /\ InStep(f)'
  <2>1. ReaderOK(f) /\ InStep(f)
    BY DEF MediaInv
  <2>2. /\ pos'[f] = pos[f] /\ carry'[f] = carry[f] /\ posts'[f] = posts[f]
        /\ gaveUp'[f] = gaveUp[f] /\ track'[f] = track[f]
    BY <1>3 DEF packetVars
  <2>3. /\ (reader'[f] = "posting") <=> (reader[f] = "posting")
        /\ reader'[f] # "none" => life'[f] \in {"running", "over"}
    <3>1. CASE f # e
      BY <3>1, <2>1, <1>1, <1>2 DEF ReaderOK
    <3>2. CASE f = e
      BY <3>2, <2>1, <1>1, <1>2 DEF ReaderOK
    <3> QED
      BY <3>1, <3>2
  <2> QED
    BY <2>1, <2>2, <2>3, Untouched
<1> QED
  BY <1>7, <1>8, <1>9 DEF MediaInv, StreamsCounted

\* A step at one encoder's video that counts nothing: what is left to show.
LEMMA OneEncoder ==
  ASSUME MediaInv, NEW e \in Encoders,
         UNCHANGED <<output, life, active>>, MediaTypeOK',
         \A f \in Encoders \ {e} :
            /\ pos'[f] = pos[f] /\ carry'[f] = carry[f] /\ posts'[f] = posts[f]
            /\ gaveUp'[f] = gaveUp[f] /\ track'[f] = track[f] /\ reader'[f] = reader[f],
         ReaderOK(e)', InStep(e)'
  PROVE  MediaInv'
<1>1. ASSUME NEW f \in Encoders PROVE ReaderOK(f)' /\ InStep(f)'
  <2>1. CASE f = e
    BY <2>1
  <2>2. CASE f # e
    <3>1. ReaderOK(f) /\ InStep(f)
      BY DEF MediaInv
    <3>2. reader'[f] # "none" => life'[f] \in {"running", "over"}
      BY <2>2, <3>1 DEF ReaderOK
    <3> QED
      BY <2>2, <3>1, <3>2, Untouched
  <2> QED
    BY <2>1, <2>2
<1>2. StreamsCounted'
  BY DEF MediaInv, StreamsCounted
<1> QED
  BY <1>1, <1>2 DEF MediaInv

\* The bytes of packets are numbers.
LEMMA PacketBytes ==
  ASSUME NEW packets \in Seq(Packets)
  PROVE  /\ Len(packets) \in Nat
         /\ \A i \in 1..Len(packets) :
               packets[i].part.first \in Nat /\ packets[i].part.last \in Nat
<1>1. \A i \in 1..Len(packets) : packets[i] \in Packets
  OBVIOUS
<1>2. \A x \in Packets : x.part.first \in Nat /\ x.part.last \in Nat
  BY DEF Packets, Parts
<1> QED
  BY <1>1, <1>2

\* The types of what belongs to the encoders.
LEMMA VideoTypes ==
  ASSUME MediaAssumption, MediaInv, NEW e \in Encoders
  PROVE  /\ pos \in [Encoders -> Nat] /\ carry \in [Encoders -> 0..MaxCarry]
         /\ sequence \in [Encoders -> 0..SeqSpace - 1] /\ gaveUp \in [Encoders -> BOOLEAN]
         /\ reader \in [Encoders -> {"none", "reading", "posting", "ended"}]
         /\ posts \in [Encoders -> Seq(Seq(Packets))] /\ track \in [Encoders -> Seq(Packets)]
  BY DEF MediaInv, MediaTypeOK

\* The same of one of them, with what the invariant says of it.
LEMMA VideoOf ==
  ASSUME MediaAssumption, MediaInv, NEW e \in Encoders
  PROVE  /\ pos[e] \in Nat /\ carry[e] \in Nat /\ carry[e] <= pos[e] /\ Left(e) \in Nat
         /\ sequence[e] \in Nat /\ posts[e] \in Seq(Seq(Packets)) /\ track[e] \in Seq(Packets)
         /\ ReaderOK(e) /\ InStep(e)
<1>1. MaxCarry \in Nat /\ SeqSpace \in Nat
  BY DEF MediaAssumption
<1>2. pos[e] \in Nat /\ carry[e] \in 0..MaxCarry /\ sequence[e] \in 0..SeqSpace - 1
  BY VideoTypes
<1>3. carry[e] <= pos[e] /\ ReaderOK(e) /\ InStep(e)
  BY DEF MediaInv, ReaderOK
<1> QED
  BY <1>1, <1>2, <1>3, VideoTypes DEF Left

\* A read posts packets of bytes behind the place its buffer began, in order,
\* and leaves all of them behind.
LEMMA ReadPosts ==
  ASSUME MediaAssumption, MediaInv, NEW e \in Encoders, NEW n \in 1..MaxRead, ReadStream(e, n)
  PROVE  \E hi \in Nat, held \in 0..MaxCarry, batch \in Seq(Packets) :
            /\ pos' = [pos EXCEPT ![e] = hi] /\ carry' = [carry EXCEPT ![e] = held]
            /\ sequence' = [sequence EXCEPT ![e] = (@ + Len(batch)) % SeqSpace]
            /\ \/ batch = << >> /\ UNCHANGED <<reader, posts>>
               \/ /\ batch # << >> /\ reader' = [reader EXCEPT ![e] = "posting"]
                  /\ posts' = [posts EXCEPT ![e] = Append(@, batch)]
            /\ Left(e) <= hi - held /\ Ordered(batch)
            /\ \A i \in 1..Len(batch) : /\ Left(e) < batch[i].part.first
                                        /\ batch[i].part.last <= hi - held
<1> DEFINE b == Bytes(output[e])
           lo == pos[e] - carry[e] + 1
           hi == pos[e] + n
           batch == Batch(Parsed(b, lo, hi), sequence[e])
           held == Kept(b, lo, hi)
<1>1. /\ pos' = [pos EXCEPT ![e] = hi] /\ carry' = [carry EXCEPT ![e] = held]
      /\ sequence' = [sequence EXCEPT ![e] = (@ + Len(batch)) % SeqSpace]
      /\ \/ batch = << >> /\ UNCHANGED <<reader, posts>>
         \/ /\ batch # << >> /\ reader' = [reader EXCEPT ![e] = "posting"]
            /\ posts' = [posts EXCEPT ![e] = Append(@, batch)]
  BY DEF ReadStream
<1>2. pos[e] \in Nat /\ carry[e] \in Nat /\ carry[e] <= pos[e] /\ sequence[e] \in Nat
  BY VideoOf
<1>3. n \in Nat
  BY DEF MediaAssumption
<1>4. lo \in Nat /\ hi \in Nat /\ lo <= hi + 1 /\ lo = Left(e) + 1 /\ Left(e) \in Nat
  BY <1>2, <1>3 DEF Left
<1> HIDE DEF b, lo, hi
<1>5. /\ batch \in Seq(Packets) /\ Ordered(batch)
      /\ \A i \in 1..Len(batch) : /\ lo <= batch[i].part.first
                                  /\ \E c \in Found(b, lo, hi) : batch[i].part.last < c
  BY <1>2, <1>4, BatchInOrder
<1>6. /\ held \in 0..MaxCarry /\ lo <= hi - held + 1
      /\ \A c \in Found(b, lo, hi) : c <= hi - held
  BY <1>4, KeptBehind
<1>7. \A c \in Found(b, lo, hi) : c \in Nat
  BY <1>4, CodesApart
<1> HIDE DEF batch, held
<1>8. held \in Nat
  BY <1>6 DEF MediaAssumption
<1>9. ASSUME NEW i \in 1..Len(batch)
      PROVE  Left(e) < batch[i].part.first /\ batch[i].part.last <= hi - held
  <2>1. batch[i].part.first \in Nat /\ batch[i].part.last \in Nat
    BY <1>5, PacketBytes
  <2>2. PICK c \in Found(b, lo, hi) : batch[i].part.last < c
    BY <1>5
  <2>3. c \in Nat /\ c <= hi - held
    BY <1>6, <1>7
  <2>4. lo <= batch[i].part.first
    BY <1>5
  <2>5. Left(e) < batch[i].part.first
    BY <2>1, <2>4, <1>4
  <2>6. batch[i].part.last <= hi - held
    <3>1. hi - held \in Int
      BY <1>4, <1>8
    <3> QED
      BY <2>1, <2>2, <2>3, <3>1
  <2> QED
    BY <2>5, <2>6
<1>10. Left(e) <= hi - held
  BY <1>4, <1>6, <1>8
<1> QED
  BY <1>1, <1>4, <1>5, <1>6, <1>9, <1>10

\* Facts of arithmetic, for terms that are long.
LEMMA Between ==
  \A a, b, c \in Int : /\ a <= b /\ b <= c => a <= c
                       /\ a <= b /\ b < c => a < c
OBVIOUS

\* A remainder is below its divisor.
LEMMA Remainder ==
  ASSUME NEW a \in Nat, NEW m \in Nat, m > 0
  PROVE  a % m \in 0..m - 1
OBVIOUS

\* A read posts what lies behind the track and moves on behind it.
LEMMA StreamReadKeeps ==
  ASSUME MediaAssumption, MediaInv, NEW e \in Encoders, NEW n \in 1..MaxRead, ReadStream(e, n)
  PROVE  MediaInv'
<1>1. PICK hi \in Nat, held \in 0..MaxCarry, batch \in Seq(Packets) :
        /\ pos' = [pos EXCEPT ![e] = hi] /\ carry' = [carry EXCEPT ![e] = held]
        /\ sequence' = [sequence EXCEPT ![e] = (@ + Len(batch)) % SeqSpace]
        /\ \/ batch = << >> /\ UNCHANGED <<reader, posts>>
           \/ /\ batch # << >> /\ reader' = [reader EXCEPT ![e] = "posting"]
              /\ posts' = [posts EXCEPT ![e] = Append(@, batch)]
        /\ Left(e) <= hi - held /\ Ordered(batch)
        /\ \A i \in 1..Len(batch) : /\ Left(e) < batch[i].part.first
                                    /\ batch[i].part.last <= hi - held
  BY ReadPosts
<1>2. /\ pos \in [Encoders -> Nat] /\ carry \in [Encoders -> 0..MaxCarry]
      /\ sequence \in [Encoders -> 0..SeqSpace - 1] /\ gaveUp \in [Encoders -> BOOLEAN]
      /\ reader \in [Encoders -> {"none", "reading", "posting", "ended"}]
      /\ posts \in [Encoders -> Seq(Seq(Packets))] /\ track \in [Encoders -> Seq(Packets)]
  BY VideoTypes
<1>3. /\ Left(e) \in Nat /\ ReaderOK(e) /\ InStep(e)
      /\ posts[e] \in Seq(Seq(Packets)) /\ track[e] \in Seq(Packets) /\ sequence[e] \in Nat
  BY VideoOf
<1>4. /\ UNCHANGED <<output, life, active, gaveUp, track>>
      /\ reader[e] = "reading" /\ life[e] = "running"
  BY DEF ReadStream
<1>5. held \in Nat
  BY DEF MediaAssumption
<1>6. pos'[e] = hi /\ carry'[e] = held /\ Left(e)' = hi - held
  BY <1>1, <1>2 DEF Left
<1>7. MediaTypeOK'
  <2>1. posts' \in [Encoders -> Seq(Seq(Packets))]
    <3>1. Append(posts[e], batch) \in Seq(Seq(Packets))
      BY <1>3
    <3> QED
      BY <1>1, <1>2, <3>1
  <2>2. reader' \in [Encoders -> {"none", "reading", "posting", "ended"}]
    BY <1>1, <1>2
  <2>3. pos' \in [Encoders -> Nat] /\ carry' \in [Encoders -> 0..MaxCarry]
    BY <1>1, <1>2
  <2>4. (sequence[e] + Len(batch)) % SeqSpace \in 0..SeqSpace - 1
    <3>1. Len(batch) \in Nat /\ sequence[e] \in Nat
      BY <1>3, PacketBytes
    <3>2. SeqSpace \in Nat /\ SeqSpace > 0
      BY DEF MediaAssumption
    <3>3. sequence[e] + Len(batch) \in Nat
      BY <3>1
    <3> QED
      BY <3>2, <3>3, Remainder
  <2>5. sequence' \in [Encoders -> 0..SeqSpace - 1]
    BY <1>1, <1>2, <2>4
  <2> QED
    BY <1>4, <2>1, <2>2, <2>3, <2>5 DEF MediaInv, MediaTypeOK
<1>8. ReaderOK(e)'
  <2>1. carry'[e] <= pos'[e]
    BY <1>1, <1>3, <1>5, <1>6
  <2>2. reader'[e] = "posting" => posts'[e] # << >>
    <3>1. Len(Append(posts[e], batch)) # 0
      BY <1>3
    <3>2. Len(<< >>) = 0
      OBVIOUS
    <3>3. Append(posts[e], batch) # << >>
      BY <3>1, <3>2, Zenon
    <3> QED
      BY <1>1, <1>2, <1>4, <3>3
  <2> QED
    BY <1>4, <2>1, <2>2 DEF ReaderOK
<1>9. InStep(e)'
  <2> SUFFICES ASSUME ~ gaveUp[e] PROVE InStep(e)'
    BY <1>4 DEF InStep
  <2>1. /\ posts[e] = << >> /\ Ordered(track[e])
        /\ \A i \in 1..Len(track[e]) : track[e][i].part.last <= Left(e)
    BY <1>3, <1>4 DEF InStep
  <2>2. Len(track[e]) \in Nat /\ \A i \in 1..Len(track[e]) : track[e][i].part.last \in Nat
    BY <1>3, PacketBytes
  <2>3. \A i \in 1..Len(batch) : batch[i].part.first \in Nat /\ batch[i].part.last \in Nat
    BY PacketBytes
  <2>4. hi - held \in Int
    BY <1>5
  <2>5. ASSUME NEW i \in 1..Len(track[e]) PROVE track[e][i].part.last <= hi - held
    <3>1. Left(e) \in Nat /\ Left(e) <= hi - held
      BY <1>1, <1>3
    <3>2. track[e][i].part.last \in Nat /\ track[e][i].part.last <= Left(e)
      BY <2>1, <2>2
    <3>3. Left(e) \in Int /\ track[e][i].part.last \in Int
      BY <3>1, <3>2
    <3> QED
      BY <2>4, <3>1, <3>2, <3>3, Between, Zenon
  <2>6. track'[e] = track[e] /\ Ordered(track[e])'
    BY <1>4, <2>1 DEF Ordered
  <2>7. CASE UNCHANGED <<reader, posts>>
    <3>1. Len(posts'[e]) = 0 /\ reader'[e] # "posting"
      BY <1>4, <2>1, <2>7
    <3> QED
      BY <1>6, <2>5, <2>6, <3>1 DEF InStep
  <2>8. CASE /\ reader' = [reader EXCEPT ![e] = "posting"]
             /\ posts' = [posts EXCEPT ![e] = Append(@, batch)]
    <3>1. reader'[e] = "posting" /\ posts'[e] = <<batch>>
      BY <1>2, <2>1, <2>8
    <3>2. Len(posts'[e]) = 1 /\ posts'[e][1] = batch
      BY <3>1
    <3>3. ASSUME NEW i \in 1..Len(batch), NEW j \in 1..Len(track[e])
          PROVE  track[e][j].part.last < batch[i].part.first
      <4>1. Left(e) \in Nat /\ Left(e) < batch[i].part.first
        BY <1>1, <1>3
      <4>2. track[e][j].part.last \in Nat /\ track[e][j].part.last <= Left(e)
        BY <2>1, <2>2
      <4>3. Left(e) \in Int /\ track[e][j].part.last \in Int
        BY <4>1, <4>2
      <4>4. batch[i].part.first \in Nat
        BY <2>3, Zenon
      <4>5. batch[i].part.first \in Int
        BY <4>4
      <4> QED
        BY <4>1, <4>2, <4>3, <4>5, Between, Zenon
    <3>4. Ordered(posts[e][1])'
      BY <1>1, <3>2 DEF Ordered
    <3>5. \A i \in 1..Len(batch) : batch[i].part.last <= hi - held
      BY <1>1
    <3>6. ASSUME NEW m \in 1..1
          PROVE  /\ Ordered(posts[e][m])'
                 /\ \A i \in 1..Len(posts'[e][m]) :
                       /\ posts'[e][m][i].part.last <= Left(e)'
                       /\ \A j \in 1..Len(track'[e]) :
                             track'[e][j].part.last < posts'[e][m][i].part.first
      <4>1. m = 1
        OBVIOUS
      <4> QED
        BY <1>6, <2>6, <3>2, <3>3, <3>4, <3>5, <4>1
    <3>7. \A i \in 1..Len(track'[e]) : track'[e][i].part.last <= Left(e)'
      BY <1>6, <2>5, <2>6
    <3> QED
      BY <2>6, <3>1, <3>2, <3>6, <3>7 DEF InStep
  <2> QED
    BY <1>1, <2>7, <2>8
<1>10. \A f \in Encoders \ {e} :
          /\ pos'[f] = pos[f] /\ carry'[f] = carry[f] /\ posts'[f] = posts[f]
          /\ gaveUp'[f] = gaveUp[f] /\ track'[f] = track[f] /\ reader'[f] = reader[f]
  BY <1>1, <1>2, <1>4
<1>11. UNCHANGED <<output, life, active>>
  BY <1>4
<1> QED
  BY <1>7, <1>8, <1>9, <1>10, <1>11, OneEncoder

\* The next packet of a handler goes to the end of the track.
LEMMA PacketMoves ==
  ASSUME NEW old \in Seq(Packets), NEW all \in Seq(Packets), all # << >>, NEW n,
         Ordered(old), Ordered(all),
         \A k \in 1..Len(old) : old[k].part.last <= n,
         \A k \in 1..Len(all) :
            /\ all[k].part.last <= n
            /\ \A j \in 1..Len(old) : old[j].part.last < all[k].part.first
  PROVE  LET rest == Tail(all)
             updated == Append(old, Head(all))
         IN  /\ Ordered(updated) /\ Ordered(rest)
             /\ \A k \in 1..Len(updated) : updated[k].part.last <= n
             /\ \A k \in 1..Len(rest) :
                   /\ rest[k].part.last <= n
                   /\ \A j \in 1..Len(updated) : updated[j].part.last < rest[k].part.first
<1> DEFINE rest == Tail(all)
           updated == Append(old, Head(all))
<1>1. /\ Len(rest) = Len(all) - 1 /\ Len(all) \in Nat /\ Len(all) >= 1
      /\ \A k \in 1..Len(rest) : rest[k] = all[k + 1]
  OBVIOUS
<1>2. /\ Len(updated) = Len(old) + 1 /\ Len(old) \in Nat
      /\ \A k \in 1..Len(old) : updated[k] = old[k]
      /\ updated[Len(old) + 1] = all[1]
  OBVIOUS
<1> HIDE DEF rest, updated
<1>3. Ordered(rest)
  <2> SUFFICES ASSUME NEW k \in 1..Len(rest), NEW m \in 1..Len(rest), k < m
               PROVE  rest[k].part.last < rest[m].part.first
    BY DEF Ordered
  <2>1. k + 1 \in 1..Len(all) /\ m + 1 \in 1..Len(all) /\ k + 1 < m + 1
    BY <1>1
  <2> QED
    BY <1>1, <2>1 DEF Ordered
<1>4. Ordered(updated)
  <2> SUFFICES ASSUME NEW k \in 1..Len(updated), NEW m \in 1..Len(updated), k < m
               PROVE  updated[k].part.last < updated[m].part.first
    BY DEF Ordered
  <2>1. k \in 1..Len(old) /\ updated[k] = old[k]
    BY <1>2
  <2>2. CASE m \in 1..Len(old)
    BY <1>2, <2>1, <2>2 DEF Ordered
  <2>3. CASE m = Len(old) + 1
    <3>1. 1 \in 1..Len(all) /\ updated[m] = all[1]
      BY <1>1, <1>2, <2>3
    <3> QED
      BY <2>1, <3>1
  <2>4. m \in 1..Len(old) \/ m = Len(old) + 1
    BY <1>2
  <2> QED
    BY <2>2, <2>3, <2>4
<1>5. \A k \in 1..Len(updated) : updated[k].part.last <= n
  <2> SUFFICES ASSUME NEW k \in 1..Len(updated) PROVE updated[k].part.last <= n
    OBVIOUS
  <2>1. 1 \in 1..Len(all)
    BY <1>1
  <2>2. k \in 1..Len(old) \/ k = Len(old) + 1
    BY <1>2
  <2> QED
    BY <1>2, <2>1, <2>2
<1>6. ASSUME NEW k \in 1..Len(rest)
      PROVE  /\ rest[k].part.last <= n
             /\ \A j \in 1..Len(updated) : updated[j].part.last < rest[k].part.first
  <2>1. k + 1 \in 1..Len(all) /\ 1 \in 1..Len(all) /\ 1 < k + 1 /\ rest[k] = all[k + 1]
    BY <1>1
  <2>2. ASSUME NEW j \in 1..Len(updated) PROVE updated[j].part.last < rest[k].part.first
    <3>1. j \in 1..Len(old) \/ j = Len(old) + 1
      BY <1>2
    <3>2. CASE j \in 1..Len(old)
      BY <1>2, <2>1, <3>2
    <3>3. CASE j = Len(old) + 1
      BY <1>2, <2>1, <3>3 DEF Ordered
    <3> QED
      BY <3>1, <3>2, <3>3
  <2> QED
    BY <2>1, <2>2
<1> QED
  BY <1>3, <1>4, <1>5, <1>6 DEF rest, updated

\* The reader's other steps: it ends, has its answer or gives up.
LEMMA ReaderKeeps ==
  ASSUME MediaAssumption, MediaInv, NEW e \in Encoders, ReadEnds(e) \/ Answer(e) \/ GiveUp(e)
  PROVE  MediaInv'
<1>1. /\ pos \in [Encoders -> Nat] /\ carry \in [Encoders -> 0..MaxCarry]
      /\ sequence \in [Encoders -> 0..SeqSpace - 1] /\ gaveUp \in [Encoders -> BOOLEAN]
      /\ reader \in [Encoders -> {"none", "reading", "posting", "ended"}]
      /\ posts \in [Encoders -> Seq(Seq(Packets))] /\ track \in [Encoders -> Seq(Packets)]
  BY VideoTypes
<1>2. ReaderOK(e) /\ InStep(e) /\ posts[e] \in Seq(Seq(Packets))
  BY VideoOf
<1>3. UNCHANGED <<output, life, active, pos, carry, sequence, track>>
  BY DEF ReadEnds, Answer, GiveUp, packetVars
<1>4. /\ reader' \in [Encoders -> {"none", "reading", "posting", "ended"}]
      /\ gaveUp' \in [Encoders -> BOOLEAN] /\ reader'[e] # "posting" /\ reader[e] # "none"
      /\ \A f \in Encoders \ {e} : reader'[f] = reader[f] /\ gaveUp'[f] = gaveUp[f]
  BY <1>1 DEF ReadEnds, Answer, GiveUp, packetVars
<1>5. \/ posts' = posts /\ gaveUp' = gaveUp /\ reader[e] # "posting"
      \/ posts' = posts /\ gaveUp'[e]
      \/ /\ posts' = [posts EXCEPT ![e] = Front(@)] /\ gaveUp' = gaveUp
         /\ reader[e] = "posting"
  BY <1>1 DEF ReadEnds, Answer, GiveUp, packetVars
<1>6. posts[e] # << >> => Front(posts[e]) \in Seq(Seq(Packets)) /\ Len(Front(posts[e])) = Len(posts[e]) - 1
  BY <1>2 DEF Front
<1>7. reader[e] = "posting" => posts[e] # << >>
  BY <1>2 DEF ReaderOK
<1>8. /\ posts' \in [Encoders -> Seq(Seq(Packets))]
      /\ \A f \in Encoders \ {e} : posts'[f] = posts[f]
  BY <1>1, <1>5, <1>6, <1>7
<1>9. MediaTypeOK'
  BY <1>3, <1>4, <1>8 DEF MediaInv, MediaTypeOK
<1>10. ReaderOK(e)'
  BY <1>2, <1>3, <1>4 DEF ReaderOK
<1>11. InStep(e)'
  <2> SUFFICES ASSUME ~ gaveUp'[e] PROVE InStep(e)'
    BY DEF InStep
  <2>1. gaveUp' = gaveUp /\ ~ gaveUp[e]
    BY <1>5
  <2>2. Left(e)' = Left(e) /\ track'[e] = track[e] /\ Ordered(track[e])'
    BY <1>2, <1>3, <2>1 DEF Left, InStep, Ordered
  <2>3. \A i \in 1..Len(track[e]) : track[e][i].part.last <= Left(e)
    BY <1>2, <2>1 DEF InStep
  <2>4. Len(posts'[e]) = 0
    <3>1. CASE posts' = posts /\ reader[e] # "posting"
      BY <1>2, <2>1, <3>1 DEF InStep
    <3>2. CASE posts' = [posts EXCEPT ![e] = Front(@)] /\ reader[e] = "posting"
      <4>1. Len(posts[e]) = 1
        BY <1>2, <2>1, <3>2 DEF InStep
      <4>2. posts'[e] = Front(posts[e])
        BY <1>1, <3>2
      <4> QED
        BY <4>1, <4>2, <3>2, <1>6, <1>7
    <3> QED
      BY <1>5, <2>1, <3>1, <3>2
  <2> QED
    BY <1>4, <2>2, <2>3, <2>4 DEF InStep
<1> QED
  BY <1>3, <1>4, <1>8, <1>9, <1>10, <1>11, OneEncoder

\* The gateway's handlers: one writes a packet, stops, or is done with a post
\* that was given up.
LEMMA HandlerKeeps ==
  ASSUME MediaAssumption, MediaInv, NEW e \in Encoders, NEW i \in DOMAIN posts[e],
         WritePacket(e, i) \/ HandlerStops(e, i) \/ AnswerLate(e, i)
  PROVE  MediaInv'
<1>1. /\ posts \in [Encoders -> Seq(Seq(Packets))] /\ track \in [Encoders -> Seq(Packets)]
  BY VideoTypes
<1>2. /\ ReaderOK(e) /\ InStep(e) /\ posts[e] \in Seq(Seq(Packets))
      /\ track[e] \in Seq(Packets) /\ Left(e) \in Nat
  BY VideoOf
<1>3. UNCHANGED <<output, life, active, pos, carry, sequence, reader, gaveUp>> /\ Left(e)' = Left(e)
  BY DEF WritePacket, HandlerStops, AnswerLate, Left
<1>4. i \in 1..Len(posts[e]) /\ posts[e][i] \in Seq(Packets) /\ Len(posts[e]) \in Nat
  BY <1>2
<1>5. SUFFICES /\ track' \in [Encoders -> Seq(Packets)] /\ posts' \in [Encoders -> Seq(Seq(Packets))]
               /\ \A f \in Encoders \ {e} : track'[f] = track[f] /\ posts'[f] = posts[f]
               /\ reader[e] = "posting" => Len(posts'[e]) # 0
               /\ InStep(e)'
  <2>1. MediaTypeOK'
    BY <1>3, <1>5 DEF MediaInv, MediaTypeOK
  <2>2. ReaderOK(e)'
    <3>1. reader[e] = "posting" => posts'[e] # << >>
      BY <1>5
    <3> QED
      BY <1>2, <1>3, <3>1 DEF ReaderOK
  <2> QED
    BY <1>3, <1>5, <2>1, <2>2, OneEncoder
<1>6. CASE AnswerLate(e, i)
  <2>1. posts' = [posts EXCEPT ![e] = RemoveAt(@, i)] /\ track' = track
        /\ (reader[e] = "posting" => i < Len(posts[e]))
    BY <1>6 DEF AnswerLate
  <2>2. RemoveAt(posts[e], i) \in Seq(Seq(Packets)) /\ Len(RemoveAt(posts[e], i)) = Len(posts[e]) - 1
    BY <1>2, <1>4, RemovedAt
  <2>3. /\ posts' \in [Encoders -> Seq(Seq(Packets))] /\ posts'[e] = RemoveAt(posts[e], i)
        /\ \A f \in Encoders \ {e} : posts'[f] = posts[f]
    BY <1>1, <2>1, <2>2
  <2>4. gaveUp[e]
    <3>1. ~ gaveUp[e] => Len(posts[e]) = IF reader[e] = "posting" THEN 1 ELSE 0
      BY <1>2 DEF InStep
    <3> QED
      BY <3>1, <1>4, <2>1
  <2>5. InStep(e)'
    BY <1>3, <2>4 DEF InStep
  <2>6. reader[e] = "posting" => Len(posts'[e]) # 0
    BY <1>4, <2>1, <2>2, <2>3
  <2> QED
    BY <1>1, <2>1, <2>3, <2>5, <2>6
<1>7. CASE WritePacket(e, i) \/ HandlerStops(e, i)
  <2>1. PICK rest \in Seq(Packets), updated \in Seq(Packets) :
          /\ posts' = [posts EXCEPT ![e] = [@ EXCEPT ![i] = rest]]
          /\ track' = [track EXCEPT ![e] = updated]
          /\ posts[e][i] # << >>
          /\ \/ rest = Tail(posts[e][i]) /\ updated = Append(track[e], Head(posts[e][i]))
             \/ rest = << >> /\ updated = track[e]
    <3>1. CASE WritePacket(e, i)
      <4>1. Tail(posts[e][i]) \in Seq(Packets) /\ Append(track[e], Head(posts[e][i])) \in Seq(Packets)
        BY <1>2, <1>4, <3>1 DEF WritePacket
      <4> QED
        BY <3>1, <4>1 DEF WritePacket
    <3>2. CASE HandlerStops(e, i)
      <4>1. << >> \in Seq(Packets) /\ track = [track EXCEPT ![e] = track[e]]
        BY <1>1
      <4> QED
        BY <1>2, <3>2, <4>1 DEF HandlerStops
    <3> QED
      BY <1>7, <3>1, <3>2
  <2>2. /\ track' \in [Encoders -> Seq(Packets)] /\ track'[e] = updated
        /\ \A f \in Encoders \ {e} : track'[f] = track[f]
    BY <1>1, <2>1
  <2>3. [posts[e] EXCEPT ![i] = rest] \in Seq(Seq(Packets))
        /\ Len([posts[e] EXCEPT ![i] = rest]) = Len(posts[e])
    BY <1>2, <1>4
  <2>4. /\ posts' \in [Encoders -> Seq(Seq(Packets))] /\ posts'[e] = [posts[e] EXCEPT ![i] = rest]
        /\ Len(posts'[e]) = Len(posts[e])
        /\ \A f \in Encoders \ {e} : posts'[f] = posts[f]
    BY <1>1, <2>1, <2>3
  <2>5. InStep(e)'
    <3> SUFFICES ASSUME ~ gaveUp[e] PROVE InStep(e)'
      BY <1>3 DEF InStep
    <3>1. /\ Len(posts[e]) = (IF reader[e] = "posting" THEN 1 ELSE 0)
          /\ Ordered(track[e])
          /\ \A k \in 1..Len(track[e]) : track[e][k].part.last <= Left(e)
          /\ \A m \in 1..Len(posts[e]) :
                /\ Ordered(posts[e][m])
                /\ \A k \in 1..Len(posts[e][m]) :
                      /\ posts[e][m][k].part.last <= Left(e)
                      /\ \A j \in 1..Len(track[e]) :
                            track[e][j].part.last < posts[e][m][k].part.first
      BY <1>2 DEF InStep
    <3>2. i = 1 /\ Len(posts[e]) = 1
      BY <1>4, <3>1
    <3>3. /\ Ordered(updated) /\ Ordered(rest)
          /\ \A k \in 1..Len(updated) : updated[k].part.last <= Left(e)
          /\ \A k \in 1..Len(rest) :
                /\ rest[k].part.last <= Left(e)
                /\ \A j \in 1..Len(updated) : updated[j].part.last < rest[k].part.first
      <4>1. CASE rest = << >> /\ updated = track[e]
        <5>1. Len(rest) = 0
          BY <4>1
        <5> QED
          BY <3>1, <4>1, <5>1 DEF Ordered
      <4>2. CASE rest = Tail(posts[e][i]) /\ updated = Append(track[e], Head(posts[e][i]))
        <5> DEFINE all == posts[e][i]
                   old == track[e]
        <5>1. all \in Seq(Packets) /\ old \in Seq(Packets) /\ all # << >>
          BY <1>2, <1>4, <2>1
        <5>2. /\ Ordered(old) /\ Ordered(all)
              /\ \A k \in 1..Len(old) : old[k].part.last <= Left(e)
              /\ \A k \in 1..Len(all) :
                    /\ all[k].part.last <= Left(e)
                    /\ \A j \in 1..Len(old) : old[j].part.last < all[k].part.first
          BY <1>4, <3>1
        <5>3. rest = Tail(all) /\ updated = Append(old, Head(all))
          BY <4>2
        <5> HIDE DEF all, old
        <5> QED
          BY <5>1, <5>2, <5>3, PacketMoves
      <4> QED
        BY <2>1, <4>1, <4>2
    <3>4. Len(posts'[e]) = 1 /\ posts'[e][1] = rest
      BY <1>2, <2>4, <3>2
    <3>5. Len(posts'[e]) = (IF reader'[e] = "posting" THEN 1 ELSE 0)
      BY <1>3, <3>1, <3>2, <3>4
    <3>6. Ordered(track[e])' /\ \A k \in 1..Len(track'[e]) : track'[e][k].part.last <= Left(e)'
      BY <1>3, <2>2, <3>3 DEF Ordered
    <3>7. ASSUME NEW m \in 1..1
          PROVE  /\ Ordered(posts[e][m])'
                 /\ \A k \in 1..Len(posts'[e][m]) :
                       /\ posts'[e][m][k].part.last <= Left(e)'
                       /\ \A j \in 1..Len(track'[e]) :
                             track'[e][j].part.last < posts'[e][m][k].part.first
      <4>1. m = 1
        OBVIOUS
      <4> QED
        BY <1>3, <2>2, <3>3, <3>4, <4>1 DEF Ordered
    <3> QED
      BY <3>4, <3>5, <3>6, <3>7 DEF InStep
  <2>6. reader[e] = "posting" => Len(posts'[e]) # 0
    <3>1. Len(posts[e]) # 0
      BY <1>4
    <3> QED
      BY <2>4, <3>1
  <2> QED
    BY <2>2, <2>4, <2>5, <2>6
<1> QED
  BY <1>6, <1>7

\* The properties of the media path, for streams of every kind and length:
\* a client that was given up on by no post sees its packets in the order of
\* the stream, and the agent's count is that of its encoders.
THEOREM StreamSoundHolds == MediaSpec => []StreamSound
<1>1. MediaInit => MediaInv
  BY MediaAssumption, MediaInvInit
<1>2. MediaInv /\ [MediaNext]_mediaVars => MediaInv'
  <2> SUFFICES ASSUME MediaInv, [MediaNext]_mediaVars PROVE MediaInv'
    OBVIOUS
  <2> USE MediaAssumption
  <2>1. CASE StartDesktop \/ StartGaming \/ GamingSession \/ \E e \in Encoders : SessionStep(e)
    BY <2>1, SessionKeeps
  <2>2. ASSUME NEW e \in Encoders, ReaderStep(e) PROVE MediaInv'
    BY <2>2, StreamReadKeeps, ReaderKeeps DEF ReaderStep
  <2>3. ASSUME NEW e \in Encoders, HandlerStep(e) PROVE MediaInv'
    BY <2>3, HandlerKeeps DEF HandlerStep
  <2>4. CASE UNCHANGED mediaVars
    <3>1. ASSUME NEW e \in Encoders PROVE ReaderOK(e)' /\ InStep(e)'
      <4>1. ReaderOK(e) /\ InStep(e)
        BY DEF MediaInv
      <4>2. reader'[e] # "none" => life'[e] \in {"running", "over"}
        BY <2>4, <4>1 DEF ReaderOK, mediaVars
      <4> QED
        BY <2>4, <4>1, <4>2, Untouched DEF mediaVars
    <3>2. MediaTypeOK' /\ StreamsCounted'
      BY <2>4 DEF mediaVars, MediaInv, MediaTypeOK, StreamsCounted
    <3> QED
      BY <3>1, <3>2 DEF MediaInv
  <2> QED
    BY <2>1, <2>2, <2>3, <2>4 DEF MediaNext
<1>3. MediaInv => StreamSound
  <2> SUFFICES ASSUME MediaInv PROVE StreamSound
    OBVIOUS
  <2>1. ASSUME NEW e \in Encoders, ~ gaveUp[e]
        PROVE  \A i, j \in DOMAIN track[e] : i < j => track[e][i].part.last < track[e][j].part.first
    <3>1. Ordered(track[e]) /\ track[e] \in Seq(Packets)
      BY <2>1 DEF MediaInv, InStep, MediaTypeOK
    <3> QED
      BY <3>1 DEF Ordered
  <2>2. InOrderUnlessGivenUp
    BY <2>1 DEF InOrderUnlessGivenUp
  <2> QED
    BY <2>2 DEF MediaInv, StreamSound
<1> QED
  BY <1>1, <1>2, <1>3, PTL DEF MediaSpec
=============================================================================
