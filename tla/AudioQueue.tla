----------------------------- MODULE AudioQueue -----------------------------
(***************************************************************************)
(* What the audio buffer promises its reader, free of positions and wraps: *)
(* bytes come out in the order they went in, and when the writer is too    *)
(* fast it is the oldest unread bytes that are lost, never newer ones.     *)
(* Bytes are their numbers in the stream.                                  *)
(***************************************************************************)
EXTENDS Integers, Sequences

CONSTANTS
    Keep,      \* most unread bytes that are kept
    MaxBytes   \* bound on the length of the stream

VARIABLES
    unread,    \* bytes written and not yet read or lost
    out,       \* the bytes the last read returned
    written    \* length of the stream so far

Init ==
    /\ unread = << >>
    /\ out = << >>
    /\ written = 0

Newest(q) ==
    IF Len(q) =< Keep THEN q ELSE SubSeq(q, Len(q) - Keep + 1, Len(q))

Put(n) ==
    /\ unread' = Newest(unread \o [i \in 1 .. n |-> written + i])
    /\ written' = written + n
    /\ out' = << >>

Get(k) ==
    LET m == IF k < Len(unread) THEN k ELSE Len(unread) IN
    /\ out' = SubSeq(unread, 1, m)
    /\ unread' = SubSeq(unread, m + 1, Len(unread))
    /\ UNCHANGED written

Drop ==
    /\ unread' = << >>
    /\ out' = << >>
    /\ UNCHANGED written

Next ==
    \/ \E n \in 0 .. MaxBytes - written : Put(n)
    \/ \E k \in 1 .. Keep + 1 : Get(k)
    \/ Drop

Spec == Init /\ [][Next]_<<unread, out, written>>
=============================================================================
