----------------------------- MODULE AudioBuffer -----------------------------
(***************************************************************************)
(* The ring buffer between the writer and the reader of a session's audio  *)
(* (AudioBuffer in apps/gateway/internal/audio/audio.go).  A slot holds    *)
(* the number its byte has in the stream; 0 is a slot never written.       *)
(* Every operation holds the buffer's mutex and is one step.               *)
(***************************************************************************)
EXTENDS Integers, Sequences

CONSTANTS
    BufferSize,      \* AudioBuffer.size
    MaxBytes   \* bound on the length of the stream

ASSUME AudioAssumption == BufferSize \in Nat \ {0} /\ MaxBytes \in Nat

VARIABLES
    data,      \* [0 .. BufferSize - 1 -> byte]
    writePos,
    readPos,
    ready,     \* something was written since the last Clear
    out,       \* what the last Read returned; << >> stands for io.EOF too
    written    \* length of the stream so far

audioVars == <<data, writePos, readPos, ready, out, written>>

AudioInit ==
    /\ data = [i \in 0 .. BufferSize - 1 |-> 0]
    /\ writePos = 0
    /\ readPos = 0
    /\ ready = FALSE
    /\ out = << >>
    /\ written = 0

\* availableLocked
Available ==
    IF writePos >= readPos THEN writePos - readPos ELSE BufferSize - readPos + writePos

\* A write as long as the buffer or longer: its tail fills the buffer.
WriteFull(n) ==
    /\ data' = [i \in 0 .. BufferSize - 1 |-> written + n - BufferSize + 1 + i]
    /\ writePos' = 0
    /\ readPos' = 1 % BufferSize

\* Mutant of Overtakes: a write that ends on the reader is not one.
OvertakesLate(n) == ready /\ n > BufferSize - Available

\* A write runs over unread bytes, or up to the reader, where a full buffer
\* would look empty.
Overtakes(n) == ready /\ n >= BufferSize - Available

\* How far slot i is ahead of the writer.
Ahead(i) == (i - writePos) % BufferSize

\* A shorter write wraps around; an overtaken reader is pushed past the
\* newest byte.
WriteRing(n) ==
    /\ data' = [i \in 0 .. BufferSize - 1 |->
                  IF Ahead(i) < n THEN written + 1 + Ahead(i) ELSE data[i]]
    /\ writePos' = (writePos + n) % BufferSize
    /\ readPos' = IF Overtakes(n) THEN (writePos + n + 1) % BufferSize ELSE readPos

Write(n) ==
    /\ n > 0
    /\ IF n >= BufferSize THEN WriteFull(n) ELSE WriteRing(n)
    /\ ready' = TRUE
    /\ out' = << >>
    /\ written' = written + n

\* Read(size): nothing to read is io.EOF and moves nothing.
Read(k) ==
    LET m == IF k < Available THEN k ELSE Available IN
    /\ out' = IF ready THEN [i \in 1 .. m |-> data[(readPos + i - 1) % BufferSize]] ELSE << >>
    /\ readPos' = IF ready THEN (readPos + m) % BufferSize ELSE readPos
    /\ UNCHANGED <<data, writePos, ready, written>>

\* Mutant of Clear: the reader stays where it is.
ClearWriter ==
    /\ writePos' = 0
    /\ ready' = FALSE
    /\ out' = << >>
    /\ UNCHANGED <<data, readPos, written>>

Clear ==
    /\ writePos' = 0
    /\ readPos' = 0
    /\ ready' = FALSE
    /\ out' = << >>
    /\ UNCHANGED <<data, written>>

\* The reader asks for a frame's worth of bytes.  Asking for more than the
\* buffer can hold is the same as asking for BufferSize.
AudioNext ==
    \/ \E n \in 1 .. MaxBytes - written : Write(n)
    \/ \E k \in 1 .. BufferSize : Read(k)
    \/ Clear

AudioSpec == AudioInit /\ [][AudioNext]_audioVars

----------------------------------------------------------------------------

\* The unread bytes, oldest first.
Unread == [i \in 1 .. Available |-> data[(readPos + i - 1) % BufferSize]]

Queue == INSTANCE AudioQueue WITH unread <- Unread, Keep <- BufferSize - 1

\* The ring implements the queue of the BufferSize - 1 newest unread bytes,
\* whatever lengths writes and reads have and wherever they wrap: no byte is
\* read twice, out of order or after it was overwritten (audio.go:258-326).
ImplementsQueue == Queue!Spec
=============================================================================
