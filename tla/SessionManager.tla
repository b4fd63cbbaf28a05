--------------------------- MODULE SessionManager ---------------------------
(***************************************************************************)
(* The sessions of internal/session/session.go, their audit log, and the    *)
(* handlers of the gateway that create, list and end them                   *)
(* (tunnel/server.go:1057-1274).                                            *)
(*                                                                          *)
(* A session is published before it is logged and provisioned, a goroutine  *)
(* provisions it in two steps five seconds apart, and a timer forgets it    *)
(* five minutes after EndSession.  The goroutine keeps the session it       *)
(* started with, whatever becomes of the map.  GetSession and the step that *)
(* follows it are one here: nothing but the map can change in between, and  *)
(* the step does not look at it again.                                      *)
(*                                                                          *)
(* ApproveSession, UpdateSessionState and CreateTemporaryAccessLink have no *)
(* caller in the gateway.  A request AllocateHost refuses gets a session of *)
(* the WebRTC server instead; of it only id and owner are here, its life is *)
(* in WebRTCSessions.  Tokens, times and network quality are left out.      *)
(***************************************************************************)
EXTENDS HostAllocator, Sequences

CONSTANTS Ids, NoSession,
          People, Admins, Nobody,
          Orders,       \* the requests for sessions
          NewStates,    \* what UpdateSessionState is called with
          MaxEntries,   \* AuditLogger.maxEntries
          MaxLinks      \* bound of the links of a session

VARIABLES
  session,           \* [Ids -> the session, or NoSession]
  sessions,          \* SessionManager.sessions: ids in the map
  pendingApprovals,
  creating,          \* [Ids -> how far CreateSession is with it]
  provisioning,      \* [Ids -> where its goroutine is]
  timers,            \* sessions with a deletion timer armed
  entries,           \* AuditLogger.entries
  trimmed,           \* history: the log has lost an entry
  touched,           \* history: ended, and given another state by a caller
  fallback           \* [Ids -> owner of the WebRTC session, or Nobody]

sessionVars == <<session, sessions, pendingApprovals, creating, provisioning,
                 timers, entries, trimmed, touched, fallback>>

Final == {"ended", "expired", "failed"}

(***************************************************************************)
(* The stream profile.                                                      *)
(***************************************************************************)
buildDefaultEncoderConfig(mode) ==
  CASE mode = "speed" -> [mode |-> mode, preset |-> "veryfast", gop |-> 120, b |-> 0, ref |-> 2, crf |-> 28]
    [] mode = "quality" -> [mode |-> mode, preset |-> "slow", gop |-> 60, b |-> 3, ref |-> 5, crf |-> 18]
    [] OTHER -> [mode |-> mode, preset |-> "medium", gop |-> 90, b |-> 2, ref |-> 3, crf |-> 23]

\* hasGPU is FALSE in the code, whatever the request says.
buildStreamProfile(preset, mode) ==
  LET encoding == CASE mode = "gaming" \/ preset = "fast" -> "speed"
                    [] preset = "safe" -> "quality"
                    [] OTHER -> "balanced"
      rate == CASE mode = "gaming" -> <<3000, 8000, 30000>>
                [] preset = "fast" -> <<2000, 5000, 20000>>
                [] OTHER -> <<500, 1500, 8000>>
  IN [encoding |-> encoding, encoder |-> buildDefaultEncoderConfig(encoding),
      min |-> rate[1], start |-> rate[2], max |-> rate[3],
      adaptive |-> preset = "safe"]

\* SessionState, and a session.
SessionStates ==
  {"requested", "queued", "provisioning", "waiting-for-approval", "connecting",
   "active", "reconnecting", "ended", "expired", "failed"}
orderedProfile(order) ==
  buildStreamProfile(IF order.preset = "" THEN "safe" ELSE order.preset, order.mode)
SessionRecords ==
  [owner : People, host : Hosts \cup {NoHost}, endedAt : BOOLEAN, links : Nat,
   state : SessionStates, profile : {orderedProfile(order) : order \in Orders}]

\* Nobody sends a session back to wait for an approval; Regions are the ones
\* that hosts and orders name.
ASSUME SessionAssumption ==
  /\ Admins \subseteq People /\ Nobody \notin People
  /\ NoHost \notin Hosts /\ NoSession \notin SessionRecords
  /\ NewStates \subseteq SessionStates \ {"waiting-for-approval"}
  /\ \A order \in Orders : order.region \in Regions \cup {""}
  /\ MaxEntries \in Nat \ {0} /\ MaxLinks \in Nat

(***************************************************************************)
(* The audit log keeps the last entries.                                    *)
(***************************************************************************)
Log(i, action) ==
  LET longer == Append(entries, <<i, action>>) IN
  IF Len(longer) > MaxEntries
    THEN entries' = Tail(longer) /\ trimmed' = TRUE
    ELSE entries' = longer /\ UNCHANGED trimmed

(***************************************************************************)
(* CreateSession and its handler.                                           *)
(***************************************************************************)
needsApproval(order) == order.type = "remote-support" /\ order.approval

newSession(u, order, host) ==
  [owner |-> u, host |-> host, endedAt |-> FALSE, links |-> 0,
   state |-> IF needsApproval(order) THEN "waiting-for-approval" ELSE "queued",
   profile |-> orderedProfile(order)]

\* Until it is published the session is the caller's alone.
CreateSession(i, u, host, order) ==
  /\ session[i] = NoSession /\ fallback[i] = Nobody
  /\ session' = [session EXCEPT ![i] = newSession(u, order, host)]
  /\ creating' = [creating EXCEPT ![i] = "made"]
  /\ UNCHANGED <<sessions, pendingApprovals, provisioning, timers, entries, trimmed, touched, fallback>>

webrtcCreateSession(i, u) ==
  /\ session[i] = NoSession /\ fallback[i] = Nobody
  /\ fallback' = [fallback EXCEPT ![i] = u]
  /\ UNCHANGED <<session, sessions, pendingApprovals, creating, provisioning, timers, entries, trimmed, touched>>

handleCreateSession(i, u, order) ==
  IF needsApproval(order)
    THEN CreateSession(i, u, NoHost, order)
    ELSE IF AllocateHost(order) = {}
      THEN webrtcCreateSession(i, u)
      ELSE \E h \in AllocateHost(order) : CreateSession(i, u, h, order)

Published(i) ==
  /\ creating[i] = "made"
  /\ sessions' = sessions \cup {i}
  /\ creating' = [creating EXCEPT ![i] = "published"]
  /\ UNCHANGED <<session, pendingApprovals, provisioning, timers, entries, trimmed, touched, fallback>>

Created(i) ==
  /\ creating[i] = "published" /\ session[i].host # NoHost
  /\ Log(i, "created")
  /\ provisioning' = [provisioning EXCEPT ![i] = "started"]
  /\ creating' = [creating EXCEPT ![i] = "done"]
  /\ UNCHANGED <<session, sessions, pendingApprovals, timers, touched, fallback>>

createSessionRequiringApproval(i) ==
  /\ creating[i] = "published" /\ session[i].host = NoHost
  /\ pendingApprovals' = pendingApprovals \cup {i}
  /\ creating' = [creating EXCEPT ![i] = "done"]
  /\ UNCHANGED <<session, sessions, provisioning, timers, entries, trimmed, touched, fallback>>

(***************************************************************************)
(* Provisioning.  Its context is never cancelled.                           *)
(***************************************************************************)
provisionSession(i) ==
  /\ provisioning[i] \in {"started", "waits"}
  /\ session' = [session EXCEPT ![i].state =
                   IF provisioning[i] = "started" THEN "provisioning" ELSE "connecting"]
  /\ provisioning' = [provisioning EXCEPT ![i] = IF @ = "started" THEN "waits" ELSE "done"]
  /\ UNCHANGED <<sessions, pendingApprovals, creating, timers, entries, trimmed, touched, fallback>>

\* Mutant: the state is not looked at.
ApproveAnyState(i) ==
  /\ i \in sessions /\ session[i].host = NoHost /\ provisioning[i] = "none"
  /\ pendingApprovals' = pendingApprovals \ {i}
  /\ session' = [session EXCEPT ![i].state = "queued"]
  /\ Log(i, "approved")
  /\ provisioning' = [provisioning EXCEPT ![i] = "started"]
  /\ UNCHANGED <<sessions, creating, timers, touched, fallback>>

ApproveSession(i) ==
  /\ i \in sessions /\ session[i].state = "waiting-for-approval"
  /\ pendingApprovals' = pendingApprovals \ {i}
  /\ session' = [session EXCEPT ![i].state = "queued"]
  /\ Log(i, "approved")
  /\ provisioning' = [provisioning EXCEPT ![i] = "started"]
  /\ UNCHANGED <<sessions, creating, timers, touched, fallback>>

(***************************************************************************)
(* The rest of a session's life.                                            *)
(***************************************************************************)
UpdateSessionState(i, state) ==
  /\ i \in sessions
  /\ session' = [session EXCEPT ![i].state = state, ![i].endedAt = @ \/ state \in Final]
  /\ touched' = IF session[i].endedAt THEN touched \cup {i} ELSE touched
  /\ UNCHANGED <<sessions, pendingApprovals, creating, provisioning, timers, entries, trimmed, fallback>>

CreateTemporaryAccessLink(i) ==
  /\ i \in sessions /\ session[i].links < MaxLinks
  /\ session' = [session EXCEPT ![i].links = @ + 1]
  /\ Log(i, "temporary-link-created")
  /\ UNCHANGED <<sessions, pendingApprovals, creating, provisioning, timers, touched, fallback>>

EndSession(i) ==
  /\ i \in sessions
  /\ session' = [session EXCEPT ![i].state = "ended", ![i].endedAt = TRUE]
  /\ Log(i, "ended")
  /\ timers' = timers \cup {i}
  /\ UNCHANGED <<sessions, pendingApprovals, creating, provisioning, touched, fallback>>

\* The session manager is asked first, then the WebRTC server.
sessionOwnerFromPath(i) ==
  IF i \in sessions THEN session[i].owner ELSE fallback[i]

requireSessionOwner(i, u) ==
  /\ sessionOwnerFromPath(i) # Nobody
  /\ u = sessionOwnerFromPath(i) \/ u \in Admins

\* The WebRTC server's own EndSession is WebRTCSessions' business.
handleEndSession(i, u) == requireSessionOwner(i, u) /\ EndSession(i)

Forget(i) ==
  /\ i \in timers
  /\ timers' = timers \ {i} /\ sessions' = sessions \ {i}
  /\ UNCHANGED <<session, pendingApprovals, creating, provisioning, entries, trimmed, touched, fallback>>

\* handleListSessions: what a caller is shown.
handleListSessions(u) ==
  {i \in sessions : u \in Admins \/ session[i].owner = u}
    \cup {i \in Ids : fallback[i] # Nobody /\ (u \in Admins \/ fallback[i] = u)}

(***************************************************************************)
(* The specification.                                                       *)
(***************************************************************************)
SessionsInit ==
  /\ session = [i \in Ids |-> NoSession] /\ sessions = {} /\ pendingApprovals = {}
  /\ creating = [i \in Ids |-> "none"] /\ provisioning = [i \in Ids |-> "none"] /\ timers = {}
  /\ entries = << >> /\ trimmed = FALSE /\ touched = {}
  /\ fallback = [i \in Ids |-> Nobody]

SessionsStep(i) ==
  \/ \E u \in People : handleEndSession(i, u) \/ \E order \in Orders : handleCreateSession(i, u, order)
  \/ Published(i) \/ Created(i) \/ createSessionRequiringApproval(i)
  \/ provisionSession(i) \/ ApproveSession(i) \/ CreateTemporaryAccessLink(i)
  \/ \E state \in NewStates : UpdateSessionState(i, state)
  \/ Forget(i)

SessionsNext ==
  \/ \E i \in Ids : SessionsStep(i) /\ UNCHANGED allocatorVars
  \/ RegistryStep /\ UNCHANGED <<jobVars, sessionVars>>

\* Goroutines run, and timers fire.
SessionsFairness ==
  \A i \in Ids : WF_sessionVars(provisionSession(i)) /\ WF_sessionVars(Forget(i))

SessionsSpec ==
  /\ AllocatorInit /\ SessionsInit
  /\ [][SessionsNext]_<<allocatorVars, sessionVars>>
  /\ SessionsFairness

(***************************************************************************)
(* Properties.                                                              *)
(***************************************************************************)
\* A session that has an end and is in another state than an ended one got
\* it from the goroutine that was provisioning it, or from a caller of
\* UpdateSessionState: an approval that comes after the end revives nothing
\* (session.go:400-439, 568-596).
RevivedOnlyByProvisioning ==
  \A i \in Ids :
    session[i] # NoSession /\ session[i].endedAt /\ session[i].state \notin Final /\ i \notin touched
      => provisioning[i] \in {"waits", "done"}

\* A session that waits for an approval can be found by who has to give it
\* (session.go:373-388, 416-424).
WaitingIsPending ==
  \A i \in sessions :
    creating[i] = "done" /\ session[i].state = "waiting-for-approval" => i \in pendingApprovals

\* Nothing is provisioned that the audit log has no reason for, as long as
\* the log is whole, and no end goes unlogged (session.go:331-343, 427-434,
\* 500-503; audit.go:56-61).
AuditExplains ==
  LET logged == {entries[n] : n \in 1..Len(entries)} IN
  ~trimmed =>
    \A i \in Ids : /\ provisioning[i] # "none" => <<i, "created">> \in logged \/ <<i, "approved">> \in logged
                   /\ i \in timers => <<i, "ended">> \in logged

\* What a caller is shown in the list of sessions the same caller may end,
\* whichever of the two managers holds it (server.go:1057-1111, 600-635).
ListedMayBeEnded ==
  \A u \in People : \A i \in handleListSessions(u) : requireSessionOwner(i, u)

\* Every session can be accounted for: why it lives after its end, who has to
\* approve it, what the log says of it, and who may end it.
SessionsAccountable ==
  RevivedOnlyByProvisioning /\ WaitingIsPending /\ AuditExplains /\ ListedMayBeEnded

\* A session that was ended through the gateway leaves the map, one that the
\* provisioning goroutine brought back to life included (session.go:511-515).
EndedIsForgotten ==
  \A i \in Ids :
    i \in sessions /\ <<i, "ended">> \in {entries[n] : n \in 1..Len(entries)} ~> i \notin sessions

=============================================================================
