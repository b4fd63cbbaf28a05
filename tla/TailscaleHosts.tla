--------------------------- MODULE TailscaleHosts ---------------------------
(***************************************************************************)
(* Tailscale addresses at the gateway (tunnel/server.go:1656-1783) and the  *)
(* host agent's registration (host-agent/cmd/host-agent/tailscale.go,       *)
(* main.go:104-112, 541-557).  An agent that found an address registers it  *)
(* once a minute; the gateway, which keeps the list in memory, goes by what *)
(* it heard in the last five.  Users map an address for a day.              *)
(*                                                                         *)
(* The dial through all listed hosts (server.go:1914-1989) is left out: it  *)
(* refuses routes of agents, and openTCP asks for it on no other.           *)
(***************************************************************************)
EXTENDS Integers

CONSTANTS TailHosts,
          Forget,         \* minutes after which a host is not listed: five
          MaxRestarts, MaxMapped   \* bounds: restarts of the gateway, mappings

ASSUME TailscaleAssumption ==
  /\ Forget \in Nat \ {0} /\ MaxRestarts \in Nat /\ MaxMapped \in Nat

VARIABLES
  tailIP,       \* hosts whose agent found an address when it started
  age,          \* tailscaleHosts: [TailHosts -> minutes since LastSeen, or -1]
  dueHosts,     \* hosts whose loop has its tick
  gatewayUp,    \* the gateway runs and takes registrations
  restarts,     \* history: number of restarts of the gateway
  mapping,      \* userTailscaleIPs of one user: number of its mapping, or 0
  mapped,       \* history: number of mappings made
  outdated,     \* mappings past their day
  looked,       \* a GET that found this mapping past its day, or 0
  excused       \* history: mappings made while such a GET was under way, and
                \* those a restart forgot

registryVars == <<tailIP, age, dueHosts, gatewayUp, restarts>>
mappingVars == <<mapping, mapped, outdated, looked, excused>>
tailscaleVars == <<registryVars, mappingVars>>

(***************************************************************************)
(* The registry.                                                            *)
(***************************************************************************)
listed == {h \in TailHosts : age[h] \in 0..(Forget - 1)}

\* Mutant: a host that is known is not entered again.
RegisterOnce(h) ==
  /\ h \in dueHosts /\ dueHosts' = dueHosts \ {h}
  /\ age' = IF gatewayUp /\ age[h] = -1 THEN [age EXCEPT ![h] = 0] ELSE age
  /\ UNCHANGED <<tailIP, gatewayUp, restarts>>

\* RegisterWithGateway and handleTailscaleRegister; a failure waits for the
\* next tick.
RegisterWithGateway(h) ==
  /\ h \in dueHosts /\ dueHosts' = dueHosts \ {h}
  /\ age' = IF gatewayUp THEN [age EXCEPT ![h] = 0] ELSE age
  /\ UNCHANGED <<tailIP, gatewayUp, restarts>>

\* A minute passes; the loops keep up with it.
Minute ==
  /\ dueHosts = {}
  /\ dueHosts' = tailIP
  /\ age' = [h \in TailHosts |-> IF age[h] \in 0..(Forget - 1) THEN age[h] + 1 ELSE age[h]]
  /\ UNCHANGED <<tailIP, gatewayUp, restarts>>

GatewayStarts ==
  /\ ~gatewayUp /\ gatewayUp' = TRUE
  /\ UNCHANGED <<tailIP, age, dueHosts, restarts>>

(***************************************************************************)
(* handleUserTailscale.                                                     *)
(***************************************************************************)
MapAddress ==
  /\ gatewayUp /\ mapped < MaxMapped /\ mapped' = mapped + 1
  /\ mapping' = mapped + 1
  /\ excused' = IF looked # 0 THEN excused \cup {mapped + 1} ELSE excused
  /\ UNCHANGED <<outdated, looked>>

DayOver ==
  /\ mapping # 0 /\ mapping \notin outdated
  /\ outdated' = outdated \cup {mapping}
  /\ UNCHANGED <<mapping, mapped, looked, excused>>

LookUp ==
  /\ looked = 0 /\ mapping \in outdated
  /\ looked' = mapping
  /\ UNCHANGED <<mapping, mapped, outdated, excused>>

\* Mutant: the user is forgotten with every look.
DeleteLooked ==
  /\ looked' = 0 /\ mapping # 0 /\ mapping' = 0
  /\ UNCHANGED <<mapped, outdated, excused>>

\* The entry is deleted by its user, whichever it is by now.
DeleteOutdated ==
  /\ looked # 0 /\ looked' = 0
  /\ mapping' = 0
  /\ UNCHANGED <<mapped, outdated, excused>>

(***************************************************************************)
(* The specification.                                                       *)
(***************************************************************************)
\* All of it is in memory.
GatewayStops ==
  /\ gatewayUp /\ restarts < MaxRestarts
  /\ gatewayUp' = FALSE /\ restarts' = restarts + 1
  /\ age' = [h \in TailHosts |-> -1]
  /\ mapping' = 0 /\ looked' = 0 /\ excused' = excused \cup {mapping}
  /\ UNCHANGED <<tailIP, dueHosts, mapped, outdated>>

TailscaleInit ==
  /\ tailIP \in SUBSET TailHosts /\ dueHosts = tailIP
  /\ age = [h \in TailHosts |-> -1] /\ gatewayUp = TRUE /\ restarts = 0
  /\ mapping = 0 /\ mapped = 0 /\ outdated = {} /\ looked = 0 /\ excused = {}

RegistryNext ==
  \/ \E h \in TailHosts : RegisterWithGateway(h)
  \/ Minute \/ GatewayStarts

TailscaleNext ==
  \/ GatewayStops
  \/ RegistryNext /\ UNCHANGED mappingVars
  \/ /\ MapAddress \/ DayOver \/ LookUp \/ DeleteOutdated
     /\ UNCHANGED registryVars

\* Time passes and the loops run.
TailscaleFairness ==
  /\ WF_registryVars(Minute)
  /\ \A h \in TailHosts : WF_registryVars(RegisterWithGateway(h))

TailscaleSpec == TailscaleInit /\ [][TailscaleNext]_tailscaleVars /\ TailscaleFairness

\* Once the gateway stays up, a host whose agent found an address is listed for
\* good, through restarts and failed registrations before (main.go:541-557,
\* server.go:1674-1681, 1691-1698).
StaysListed == <>[]gatewayUp => \A h \in TailHosts : h \in tailIP => <>[](h \in listed)

\* A mapping is there until its day is over or the gateway restarts, unless it
\* was made while a GET that had found the one before it outdated was about to
\* delete (server.go:1740-1749, 1763-1774).
MappingKept == mapped > 0 /\ mapping = 0 => mapped \in outdated \cup excused

=============================================================================
