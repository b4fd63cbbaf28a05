---------------------------- MODULE SignalRooms ----------------------------
(***************************************************************************)
(* One signaling room of the gateway (tunnel/signaling.go): messages are    *)
(* posted to it, clients poll it and wait, a sweep removes it once nothing  *)
(* was posted for ten minutes.  Rooms share nothing but the mutex of the    *)
(* store, under which a look, a post and a sweep are one step each.         *)
(*                                                                          *)
(* A poller waits on the room's channel, which every post and the sweep     *)
(* close, or on the one channel nobody closes.  A client polls with the     *)
(* number of the last message it was given.                                 *)
(***************************************************************************)
EXTENDS Integers, Sequences, FiniteSetsExt

CONSTANTS Clients,
          MaxMessages,    \* maxSignalMessagesPerRoom
          MaxPosted,      \* bound of the posts
          MaxSwept        \* bound of the sweeps

ASSUME SignalAssumption == MaxMessages \in Nat \ {0} /\ MaxPosted \in Nat /\ MaxSwept \in Nat

VARIABLES
  room,        \* signalRoom; life tells the rooms of the key apart, "no room" is life 0
  quietRoom,   \* updatedAt is ten minutes old
  poll,        \* [Clients -> where its handleSignalPoll is]
  after,       \* [Clients -> the number it polls with, the life of its room, and
               \* (history) the number it came to that life with]
  got,         \* history: [Clients -> ids of the messages it was given]
  posted,      \* history: number of posts; the id of a message is its place among them
  swept        \* history: number of sweeps that removed the room

signalVars == <<room, quietRoom, poll, after, got, posted, swept>>

NoRoom == [life |-> 0, seq |-> 0, messages |-> << >>]
unread(number) == {i \in 1..Len(room.messages) : room.messages[i].seq > number}

\* close(room.notify): who waits on it looks again.
notified == [c \in Clients |-> IF poll[c] = "waiting" THEN "woken" ELSE poll[c]]

handleSignalPoll(c) ==
  /\ poll[c] = "idle"
  /\ poll' = [poll EXCEPT ![c] = "looking"]
  /\ UNCHANGED <<room, quietRoom, after, got, posted, swept>>

\* messagesAfter, and the answer if there is one.
messagesAfter(c) ==
  LET found == unread(after[c].seq) IN
  /\ poll[c] \in {"looking", "woken"}
  /\ \/ /\ room = NoRoom
        /\ poll' = [poll EXCEPT ![c] = "pending"]
        /\ UNCHANGED <<after, got>>
     \/ /\ room # NoRoom /\ found = {}
        /\ poll' = [poll EXCEPT ![c] = "waiting"]
        /\ UNCHANGED <<after, got>>
     \/ /\ found # {}
        /\ poll' = [poll EXCEPT ![c] = "idle"]
        /\ after' = [after EXCEPT ![c] =
             [life |-> room.life, seq |-> room.messages[Max(found)].seq,
              from |-> IF @.life = room.life THEN @.from ELSE @.seq]]
        /\ got' = [got EXCEPT ![c] = @ \cup {room.messages[i].id : i \in found}]
  /\ UNCHANGED <<room, quietRoom, posted, swept>>

\* The deadline is set once and outlives the wake-ups, with one of which it
\* may be due together; the request's end looks the same to the store.
Deadline(c) ==
  /\ poll[c] \in {"waiting", "woken", "pending"}
  /\ poll' = [poll EXCEPT ![c] = "idle"]
  /\ UNCHANGED <<room, quietRoom, after, got, posted, swept>>

newest(messages) ==
  IF Len(messages) > MaxMessages THEN SubSeq(messages, Len(messages) - MaxMessages + 1, Len(messages))
  ELSE messages

\* The room with one message more; getOrCreateLocked.
posts ==
  LET found == IF room = NoRoom THEN [NoRoom EXCEPT !.life = swept + 1] ELSE room IN
  /\ posted < MaxPosted /\ posted' = posted + 1
  /\ room' = [found EXCEPT !.seq = @ + 1,
                           !.messages = newest(Append(@, [seq |-> found.seq + 1, id |-> posted + 1]))]
  /\ quietRoom' = FALSE

\* Mutant: the channel is closed before the message is in the room.
appendQuietly ==
  /\ posts
  /\ poll' = poll
  /\ UNCHANGED <<after, got, swept>>

append ==
  /\ posts
  /\ poll' = notified
  /\ UNCHANGED <<after, got, swept>>

\* Polls do not count: only a post touches updatedAt.
AgeRoom ==
  /\ room # NoRoom /\ ~quietRoom /\ swept < MaxSwept
  /\ quietRoom' = TRUE
  /\ UNCHANGED <<room, poll, after, got, posted, swept>>

sweep ==
  /\ quietRoom
  /\ room' = NoRoom /\ quietRoom' = FALSE
  /\ poll' = notified
  /\ swept' = swept + 1
  /\ UNCHANGED <<after, got, posted>>

SignalInit ==
  /\ room = NoRoom /\ quietRoom = FALSE
  /\ poll = [c \in Clients |-> "idle"]
  /\ after = [c \in Clients |-> [life |-> 0, seq |-> 0, from |-> 0]] /\ got = [c \in Clients |-> {}]
  /\ posted = 0 /\ swept = 0

SignalNext ==
  \/ \E c \in Clients : handleSignalPoll(c) \/ messagesAfter(c) \/ Deadline(c)
  \/ append \/ AgeRoom \/ sweep

SignalFairness == \A c \in Clients : WF_signalVars(messagesAfter(c)) /\ WF_signalVars(Deadline(c))

SignalSpec == SignalInit /\ [][SignalNext]_signalVars /\ SignalFairness

\* A client that waits on a room's channel has been given everything the room
\* holds: no post falls between its look and its wait.  The one exception is
\* what a new room numbered up to the number a client brought from a room that
\* was swept, for its numbers begin again (signaling.go:145-197, 223).
WaiterHasAll ==
  \A c \in Clients : poll[c] = "waiting" =>
    LET skipped == IF after[c].life = room.life THEN after[c].from ELSE after[c].seq IN
    \A i \in 1..Len(room.messages) :
      room.messages[i].seq > skipped => room.messages[i].id \in got[c]

\* A poll ends: a client is answered or sent away, whatever channel it waits
\* on and however often it is woken (signaling.go:82-97; 140: "the poll
\* loop just waits for its deadline").
PollEnds == \A c \in Clients : poll[c] # "idle" ~> poll[c] = "idle"

=============================================================================
