-------------------------- MODULE SessionRecorder --------------------------
(***************************************************************************)
(* Session recordings of the gateway (tunnel/session_recording.go).  Start, *)
(* stop and delete hold the recorder's mutex; a frame is looked up under    *)
(* it, written without it, counted without it and only then compared with   *)
(* the limit.  The gateway's handlers start and stop recordings; writers of *)
(* frames and deletion are modelled as the package offers them.             *)
(*                                                                          *)
(* Sizes are in frames: every frame counts one.                             *)
(***************************************************************************)
EXTENDS Integers, FiniteSets

CONSTANTS SessionIDs, FrameWriters,
          MaxFrames,        \* sessionRecordingMaxSize
          MaxRecordings     \* bound of the recordings started

ASSUME RecorderAssumption == MaxFrames \in Nat /\ MaxRecordings \in Nat /\ IsFiniteSet(FrameWriters)

VARIABLES
  recordings,   \* sessions: [SessionIDs -> a RecordingSession, or 0]
  recording,    \* [1..MaxRecordings -> RecordingSession]
  frame,        \* [FrameWriters -> where its RecordFrame is]
  overlapped    \* history: recordings two writers counted in at once

recorderVars == <<recordings, recording, frame, overlapped>>

Unused == [state |-> "idle", open |-> FALSE, bytes |-> 0, onDisk |-> 0]
NoFrame == [step |-> "none", of |-> 0, id |-> "", read |-> 0]
started == {n \in 1..MaxRecordings : recording[n] # Unused}

\* os.Create may fail.  A stopped recording is still being recorded, until it
\* is deleted.
StartRecording(id) ==
  LET n == Cardinality(started) + 1 IN
  /\ n <= MaxRecordings /\ recordings[id] = 0
  /\ recordings' = [recordings EXCEPT ![id] = n]
  /\ recording' = [recording EXCEPT ![n] = [Unused EXCEPT !.state = "active", !.open = TRUE]]
  /\ UNCHANGED <<frame, overlapped>>

closed(n) == [recording EXCEPT ![n].state = "stopped", ![n].open = FALSE]

StopRecording(id) ==
  /\ recordings[id] # 0
  /\ recording' = closed(recordings[id])
  /\ UNCHANGED <<recordings, frame, overlapped>>

\* The state stays what it was.
DeleteRecording(id) ==
  /\ recordings[id] # 0
  /\ recording' = [recording EXCEPT ![recordings[id]].open = FALSE]
  /\ recordings' = [recordings EXCEPT ![id] = 0]
  /\ UNCHANGED <<frame, overlapped>>

RecordFrame(w, id) ==
  /\ frame[w] = NoFrame /\ recordings[id] # 0
  /\ recording[recordings[id]].state = "active" /\ recording[recordings[id]].open
  /\ frame' = [frame EXCEPT ![w] = [step |-> "write", of |-> recordings[id], id |-> id, read |-> 0]]
  /\ UNCHANGED <<recordings, recording, overlapped>>

\* Mutant: a failed write is counted as well.
WriteCountsAnyway(w) ==
  LET n == frame[w].of IN
  /\ frame[w].step = "write"
  /\ \/ /\ recording[n].open
        /\ recording' = [recording EXCEPT ![n].onDisk = @ + 1]
     \/ recording' = recording
  /\ frame' = [frame EXCEPT ![w].step = "count"]
  /\ UNCHANGED <<recordings, overlapped>>

\* A file closed in between, or an error of the disk, takes nothing.
WriteFrame(w) ==
  LET n == frame[w].of IN
  /\ frame[w].step = "write"
  /\ \/ /\ recording[n].open
        /\ recording' = [recording EXCEPT ![n].onDisk = @ + 1]
        /\ frame' = [frame EXCEPT ![w].step = "count"]
     \/ /\ recording' = recording
        /\ frame' = [frame EXCEPT ![w].step = "compare"]
  /\ UNCHANGED <<recordings, overlapped>>

\* BytesWritten += n, of several writers at once.
ReadCount(w) ==
  LET n == frame[w].of IN
  /\ frame[w].step = "count"
  /\ frame' = [frame EXCEPT ![w].step = "add", ![w].read = recording[n].bytes]
  /\ overlapped' = IF \E other \in FrameWriters : frame[other].of = n /\ frame[other].step = "add"
                   THEN overlapped \cup {n} ELSE overlapped
  /\ UNCHANGED <<recordings, recording>>

AddCount(w) ==
  /\ frame[w].step = "add"
  /\ recording' = [recording EXCEPT ![frame[w].of].bytes = frame[w].read + 1]
  /\ frame' = [frame EXCEPT ![w].step = "compare"]
  /\ UNCHANGED <<recordings, overlapped>>

\* What is stopped is what the session's name stands for by now.
CompareSize(w) ==
  LET full == recording[frame[w].of].bytes > MaxFrames
      current == recordings[frame[w].id] IN
  /\ frame[w].step = "compare"
  /\ recording' = IF full /\ current # 0 THEN closed(current) ELSE recording
  /\ frame' = [frame EXCEPT ![w] = NoFrame]
  /\ UNCHANGED <<recordings, overlapped>>

RecorderInit ==
  /\ recordings = [id \in SessionIDs |-> 0] /\ recording = [n \in 1..MaxRecordings |-> Unused]
  /\ frame = [w \in FrameWriters |-> NoFrame] /\ overlapped = {}

RecorderNext ==
  \/ \E id \in SessionIDs : StartRecording(id) \/ StopRecording(id) \/ DeleteRecording(id)
  \/ \E w \in FrameWriters :
       \/ \E id \in SessionIDs : RecordFrame(w, id)
       \/ WriteFrame(w) \/ ReadCount(w) \/ AddCount(w) \/ CompareSize(w)

RecorderSpec == RecorderInit /\ [][RecorderNext]_recorderVars

writersOf(n) == {w \in FrameWriters : frame[w].of = n}
uncounted(n) == {w \in writersOf(n) : frame[w].step \in {"count", "add"}}

\* What a recording says it holds is what is on disk, but for frames on their
\* way to the count, unless two writers counted at once; it never says more
\* than there is (session_recording.go:125-128).
CountFollowsDisk ==
  \A n \in 1..MaxRecordings :
    /\ recording[n].bytes <= recording[n].onDisk
    /\ n \notin overlapped => recording[n].onDisk = recording[n].bytes + Cardinality(uncounted(n))

\* A recording outgrows its limit by the frame that finds it full and by one
\* for every other writer then under way, unless the count lost some
\* (session_recording.go:129-132).
RecordingBounded ==
  \A n \in 1..MaxRecordings :
    n \notin overlapped => recording[n].onDisk <= MaxFrames + Cardinality(FrameWriters)

\* A recording that was stopped grows no more, whoever had looked it up before
\* the stop (session_recording.go:100-110, 115-126).
StoppedIsFixed ==
  [][\A n \in 1..MaxRecordings :
       recording[n].state = "stopped" => recording'[n].onDisk = recording[n].onDisk]_recorderVars

\* A recording is what its entry says: in size, within its limit, and for good
\* once it was stopped.
RecordingSound == [](CountFollowsDisk /\ RecordingBounded) /\ StoppedIsFixed

=============================================================================
