----------------------------- MODULE MediaPath -----------------------------
(***************************************************************************)
(* Video from a virtual machine to its viewers: the encoders of the VM     *)
(* agent (host-agent/internal/vmagent/vmagent.go) and the gateway's        *)
(* HandleMediaIngest (apps/gateway/internal/webrtc/webrtc.go).  For each   *)
(* encoder a goroutine reads ffmpeg's byte stream, cuts it into NAL units, *)
(* packs them into RTP packets and posts those of one read to the gateway, *)
(* whose handler writes them to the session's video track.  The agent      *)
(* reads on when the answer is there or its HTTP client gave up; in that   *)
(* case the handler it gave up on may still be at work.                    *)
(*                                                                         *)
(* Bytes are 0, 1 and 2, which stands for all others; the place of a byte  *)
(* in the stream says what a carry, a unit or a packet holds.              *)
(***************************************************************************)
EXTENDS Integers, FiniteSets, Sequences, SequencesExt

CONSTANTS
    Outputs,   \* [encoder -> streams its ffmpeg may write], as Unit sequences
    MaxRead,   \* length of the reader's buffer
    MaxCarry,  \* maxCarryBytes
    MTU,       \* bytes of payload in a packet
    SeqSpace,    \* sequence numbers are taken modulo this
    MaxLate    \* bound on the posts given up whose handler is still at work

ASSUME MediaAssumption ==
    /\ DOMAIN Outputs = {"desktop", "gaming"}
    /\ {MaxRead, MTU} \subseteq Nat \ {0}
    /\ SeqSpace \in Nat /\ SeqSpace > 1
    /\ MaxCarry \in Nat /\ MaxCarry >= 3
    /\ MaxLate \in Nat

Encoders == DOMAIN Outputs

VARIABLES
    output,    \* [Encoders -> the stream, as a sequence of units]
    life,      \* [Encoders -> where the encoder session is]
    active,    \* EncoderManager.activeStreams
    reader,    \* [Encoders -> what the goroutine on stdout does]
    pos,       \* [Encoders -> number of bytes read]
    carry,     \* [Encoders -> number of read bytes carried over]
    sequence,  \* [Encoders -> rtpMuxer.sequence]
    posts,     \* [Encoders -> handlers of its posts, oldest first]
    gaveUp,    \* [Encoders -> its client gave up on some post]
    track      \* [Encoders -> packets written to the video track]

mediaVars == <<output, life, active, reader, pos, carry, sequence, posts, gaveUp, track>>

----------------------------------------------------------------------------
(* The stream: units, each behind a start code of three or four bytes.     *)

StartCode(n) == IF n = 4 THEN <<0, 0, 0, 1>> ELSE <<0, 0, 1>>
Bytes(units) == FlattenSeq([k \in DOMAIN units |-> StartCode(units[k].code) \o units[k].body])

\* The bytes first .. last of unit k.
UnitSpan(units, k) ==
    LET first == Len(Bytes(SubSeq(units, 1, k - 1))) + units[k].code + 1
    IN  [first |-> first, last |-> first + Len(units[k].body) - 1]

----------------------------------------------------------------------------
(* parseNALUnits over the bytes lo .. hi of a stream. *)

LongCode(b, hi, p) == p + 3 <= hi /\ [i \in 1 .. 4 |-> b[p + i - 1]] = StartCode(4)
ShortCode(b, hi, p) == p + 2 <= hi /\ [i \in 1 .. 3 |-> b[p + i - 1]] = StartCode(3)
CodeLength(b, hi, p) == IF LongCode(b, hi, p) THEN 4 ELSE 3

\* Where findStartCode stops as the parser walks through the buffer: the
\* search goes on behind the code just found.
Found(b, lo, hi) ==
    {p \in lo .. hi : /\ LongCode(b, hi, p) \/ ShortCode(b, hi, p)
                      /\ ~ (p > lo /\ LongCode(b, hi, p - 1))}

\* The units handed to the packetiser: from behind a code to the next code.
Parsed(b, lo, hi) ==
    LET found == Found(b, lo, hi)
        Adjacent(p, q) == p < q /\ \A r \in found : ~ (p < r /\ r < q)
    IN  {[first |-> c[1] + CodeLength(b, hi, c[1]), last |-> c[2] - 1] :
            c \in {d \in found \X found : Adjacent(d[1], d[2])}}

\* Mutants of Kept: the cap is missing; only what follows a code is kept.
KeptWhole(b, lo, hi) ==
    LET found == Found(b, lo, hi)
    IN  IF found = {} THEN hi - lo + 1
        ELSE hi - Max(found) - CodeLength(b, hi, Max(found)) + 1
KeptBehindCode(b, lo, hi) == IF Found(b, lo, hi) = {} THEN 0 ELSE KeptWhole(b, lo, hi)

\* What goes into the carry: the bytes behind the last code, without the
\* code, or everything; of either the last MaxCarry bytes.
Kept(b, lo, hi) ==
    LET found == Found(b, lo, hi)
        tail == IF found = {} THEN lo ELSE Max(found) + CodeLength(b, hi, Max(found))
    IN  Min({hi - tail + 1, MaxCarry})

----------------------------------------------------------------------------
(* rtpMuxer. *)

Whole(u) == [first |-> u.first, last |-> u.last, whole |-> TRUE, start |-> TRUE, end |-> TRUE]
Fragment(u, lo) ==
    [first |-> lo, last |-> Min({lo + MTU - 1, u.last}), whole |-> FALSE,
     start |-> lo = u.first + 1, end |-> lo + MTU - 1 >= u.last]

\* wrapNAL: a unit that does not fit loses its first byte to the headers of
\* its fragments, an empty one gets no packet.
Fragments(u) ==
    IF u.last < u.first THEN {}
    ELSE IF u.last - u.first + 1 <= MTU THEN {Whole(u)}
    ELSE {Fragment(u, u.first + 1 + j * MTU) :
            j \in {k \in 0 .. u.last - u.first : u.first + 1 + k * MTU <= u.last}}

\* The batch of one read, in the order of the stream and numbered on from s.
Batch(units, s) ==
    LET parts == UNION {Fragments(u) : u \in units}
        Place(p) == Cardinality({q \in parts : q.last <= p.last})
    IN  [i \in 1 .. Cardinality(parts) |->
            [seq |-> (s + i - 1) % SeqSpace, part |-> CHOOSE p \in parts : Place(p) = i]]

----------------------------------------------------------------------------
(* Encoder sessions. *)

Lives == {"off", "counted", "launching", "running", "over", "leaked"}

MediaInit ==
    /\ output \in [Encoders -> UNION {Outputs[e] : e \in Encoders}]
    /\ \A e \in Encoders : output[e] \in Outputs[e]
    /\ life = [e \in Encoders |-> "off"]
    /\ active = 0
    /\ reader = [e \in Encoders |-> "none"]
    /\ pos = [e \in Encoders |-> 0]
    /\ carry = [e \in Encoders |-> 0]
    /\ sequence = [e \in Encoders |-> 1]
    /\ posts = [e \in Encoders |-> << >>]
    /\ gaveUp = [e \in Encoders |-> FALSE]
    /\ track = [e \in Encoders |-> << >>]

packetVars == <<pos, carry, sequence, posts, gaveUp, track>>

\* startDesktopStreaming: without a media session nothing is counted.
StartDesktop ==
    /\ life["desktop"] = "off"
    /\ \/ /\ life' = [life EXCEPT !["desktop"] = "launching"]
          /\ active' = active + 1
       \/ /\ life' = [life EXCEPT !["desktop"] = "over"]
          /\ UNCHANGED active
    /\ UNCHANGED <<output, reader, packetVars>>

\* startGamingMode counts the stream first, and keeps it counted when there
\* is no media session for it.
StartGaming ==
    /\ life["gaming"] = "off"
    /\ life' = [life EXCEPT !["gaming"] = "counted"]
    /\ active' = active + 1
    /\ UNCHANGED <<output, reader, packetVars>>

GamingSession ==
    /\ life["gaming"] = "counted"
    /\ \E next \in {"launching", "leaked"} : life' = [life EXCEPT !["gaming"] = next]
    /\ UNCHANGED <<output, active, reader, packetVars>>

\* cleanupEncoderSession
Uncount == active' = IF active > 0 THEN active - 1 ELSE active

Launch(e) ==
    /\ life[e] = "launching"
    /\ life' = [life EXCEPT ![e] = "running"]
    /\ reader' = [reader EXCEPT ![e] = "reading"]
    /\ UNCHANGED <<output, active, packetVars>>

\* No pipe, or ffmpeg does not start.
LaunchFails(e) ==
    /\ life[e] = "launching"
    /\ Uncount
    /\ life' = [life EXCEPT ![e] = "over"]
    /\ UNCHANGED <<output, reader, packetVars>>

\* ffmpeg ends, by itself or killed.  Wait closes the pipe, whatever is
\* still in it, and the session is cleaned up.
Reap(e) ==
    /\ life[e] = "running"
    /\ Uncount
    /\ life' = [life EXCEPT ![e] = "over"]
    /\ UNCHANGED <<output, reader, packetVars>>

----------------------------------------------------------------------------
(* The goroutine on stdout. *)

\* A read returns some of the bytes to come.  What it completes is posted.
ReadStream(e, n) ==
    /\ reader[e] = "reading" /\ life[e] = "running"
    /\ LET b == Bytes(output[e])
           lo == pos[e] - carry[e] + 1
           hi == pos[e] + n
           batch == Batch(Parsed(b, lo, hi), sequence[e])
       IN  /\ hi <= Len(b)
           /\ pos' = [pos EXCEPT ![e] = hi]
           /\ carry' = [carry EXCEPT ![e] = Kept(b, lo, hi)]
           /\ sequence' = [sequence EXCEPT ![e] = (@ + Len(batch)) % SeqSpace]
           /\ IF batch = << >> THEN UNCHANGED <<reader, posts>>
              ELSE /\ reader' = [reader EXCEPT ![e] = "posting"]
                   /\ posts' = [posts EXCEPT ![e] = Append(@, batch)]
    /\ UNCHANGED <<output, life, active, gaveUp, track>>

\* The end of the stream, or the closed pipe.
ReadEnds(e) ==
    /\ reader[e] = "reading"
    /\ life[e] = "over" \/ pos[e] = Len(Bytes(output[e]))
    /\ reader' = [reader EXCEPT ![e] = "ended"]
    /\ UNCHANGED <<output, life, active, packetVars>>

\* Mutant of Answer: the handler answers before it has written everything.
AnswerEarly(e) ==
    /\ reader[e] = "posting"
    /\ Len(posts[e]) <= MaxLate
    /\ reader' = [reader EXCEPT ![e] = "reading"]
    /\ UNCHANGED <<output, life, active, pos, carry, sequence, posts, gaveUp, track>>

\* Its handler is done; the status is not looked at.
Answer(e) ==
    /\ reader[e] = "posting"
    /\ Last(posts[e]) = << >>
    /\ reader' = [reader EXCEPT ![e] = "reading"]
    /\ posts' = [posts EXCEPT ![e] = Front(@)]
    /\ UNCHANGED <<output, life, active, pos, carry, sequence, gaveUp, track>>

\* The client's timeout, or a connection that breaks.
GiveUp(e) ==
    /\ reader[e] = "posting"
    /\ Len(posts[e]) <= MaxLate
    /\ reader' = [reader EXCEPT ![e] = "reading"]
    /\ gaveUp' = [gaveUp EXCEPT ![e] = TRUE]
    /\ UNCHANGED <<output, life, active, pos, carry, sequence, posts, track>>

----------------------------------------------------------------------------
(* The gateway: handler i among those of the encoder's posts. *)

\* HandleMediaIngest writes the next packet to the track.
WritePacket(e, i) ==
    /\ posts[e][i] # << >>
    /\ track' = [track EXCEPT ![e] = Append(@, Head(posts[e][i]))]
    /\ posts' = [posts EXCEPT ![e][i] = Tail(@)]
    /\ UNCHANGED <<output, life, active, reader, pos, carry, sequence, gaveUp>>

\* It returns before the end of the body: no session or track, a packet that
\* cannot be read or written.
HandlerStops(e, i) ==
    /\ posts[e][i] # << >>
    /\ posts' = [posts EXCEPT ![e][i] = << >>]
    /\ UNCHANGED <<output, life, active, reader, pos, carry, sequence, gaveUp, track>>

\* The answer to a post that was given up.
AnswerLate(e, i) ==
    /\ posts[e][i] = << >>
    /\ reader[e] = "posting" => i < Len(posts[e])
    /\ posts' = [posts EXCEPT ![e] = RemoveAt(@, i)]
    /\ UNCHANGED <<output, life, active, reader, pos, carry, sequence, gaveUp, track>>

----------------------------------------------------------------------------

SessionStep(e) == Launch(e) \/ LaunchFails(e) \/ Reap(e)
ReaderStep(e) ==
    (\E n \in 1 .. MaxRead : ReadStream(e, n)) \/ ReadEnds(e) \/ Answer(e) \/ GiveUp(e)
HandlerStep(e) ==
    \E i \in DOMAIN posts[e] : WritePacket(e, i) \/ HandlerStops(e, i) \/ AnswerLate(e, i)

MediaNext ==
    \/ StartDesktop \/ StartGaming \/ GamingSession
    \/ \E e \in Encoders : SessionStep(e) \/ ReaderStep(e) \/ HandlerStep(e)

MediaSpec == MediaInit /\ [][MediaNext]_mediaVars

----------------------------------------------------------------------------
(* Properties. *)

Parts == [first : Nat, last : Nat, whole : BOOLEAN, start : BOOLEAN, end : BOOLEAN]
Packets == [seq : 0 .. SeqSpace - 1, part : Parts]

\* Type invariant; the carry, which has no other bound, stays within its cap.
MediaTypeOK ==
    /\ \A e \in Encoders : output[e] \in Outputs[e]
    /\ life \in [Encoders -> Lives]
    /\ active \in 0 .. Cardinality(Encoders)
    /\ reader \in [Encoders -> {"none", "reading", "posting", "ended"}]
    /\ pos \in [Encoders -> Nat]
    /\ carry \in [Encoders -> 0 .. MaxCarry]
    /\ sequence \in [Encoders -> 0 .. SeqSpace - 1]
    /\ posts \in [Encoders -> Seq(Seq(Packets))]
    /\ gaveUp \in [Encoders -> BOOLEAN]
    /\ track \in [Encoders -> Seq(Packets)]

\* Packets i .. j look like one unit to whoever puts it together: numbered
\* without a gap, the first and only the first a start, the last and only the
\* last an end.
IsRun(packets, i, j) ==
    /\ i <= j
    /\ packets[i].part.start /\ packets[j].part.end
    /\ \A k \in i + 1 .. j : /\ packets[k].seq = (packets[k - 1].seq + 1) % SeqSpace
                             /\ ~ packets[k].part.start
                             /\ ~ packets[k - 1].part.end

\* The units put together from a sequence of packets; the first byte of a
\* fragmented unit comes from the headers.
Assembled(packets) ==
    {[first |-> packets[r[1]].part.first - (IF packets[r[1]].part.whole THEN 0 ELSE 1),
      last  |-> packets[r[2]].part.last] :
        r \in {q \in (DOMAIN packets) \X (DOMAIN packets) : IsRun(packets, q[1], q[2])}}

Spans(e) == {UnitSpan(output[e], k) : k \in DOMAIN output[e]}

\* Where the start code behind unit k ends; the last unit has none.
NextCodeEnd(e, k) == UnitSpan(output[e], k + 1).first - 1

\* A read posts exactly the units whose own start code and the next one it
\* completes, however the codes are cut and whatever was capped: what is lost
\* between encoder and gateway is the units cut by the end of a read and the
\* last one.  The carry of parseNALUnits saves a cut start code and never a
\* cut unit.
OnlyCutUnitsLost ==
    [][\A e \in Encoders : pos'[e] # pos[e] =>
          (IF posts'[e] = posts[e] THEN {} ELSE Assembled(Last(posts'[e]))) =
          {UnitSpan(output[e], k) : k \in
              {k \in 1 .. Len(output[e]) - 1 : /\ UnitSpan(output[e], k).first - 1 > pos[e]
                                               /\ NextCodeEnd(e, k) <= pos'[e]}}]_mediaVars

\* What arrives on the track complete is a unit of the encoder's stream,
\* although handlers stop anywhere, overlap, and numbers wrap around.
CompleteRunsAreUnits ==
    \A e \in Encoders : Assembled(track[e]) \subseteq Spans(e)

\* As long as the agent gave up on no post, the track has the packets in the
\* order of the stream: one handler at a time is at work for it.
InOrderUnlessGivenUp ==
    \A e \in Encoders : ~ gaveUp[e] =>
        \A i, j \in DOMAIN track[e] : i < j => track[e][i].part.last < track[e][j].part.first

\* The number of streams the agent reports is that of the encoders at work,
\* and one more for ever if the gaming stream got no media session.
StreamsCounted ==
    active = Cardinality({e \in Encoders : life[e] \in {"counted", "launching", "running", "leaked"}})

\* What viewers can put together are the encoder's units, and of those the
\* encoder wrote only the cut ones are missing from what the gateway is sent.
UnitsWhole == []CompleteRunsAreUnits /\ OnlyCutUnitsLost

\* A track has its packets in the order of the stream, with carry and sequence
\* numbers in range, and they come from as many encoders as the agent says.
StreamSound == MediaTypeOK /\ InOrderUnlessGivenUp /\ StreamsCounted

=============================================================================
