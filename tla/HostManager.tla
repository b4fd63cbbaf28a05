---------------------------- MODULE HostManager ----------------------------
(***************************************************************************)
(* The scheduler's host registry (apps/scheduler/internal/host): what a    *)
(* host offers, what the registry has charged to it, and the operations    *)
(* that change either.  One mutex makes each operation atomic, so each is  *)
(* one step.  The state is the table `hosts`; module Scheduler extends     *)
(* this one and shares the table.                                          *)
(***************************************************************************)
EXTENDS Integers

CONSTANTS
    HostIds,         \* identities under which a host may register
    Offers,          \* the capacities and charges a host may register with
    Reports,         \* the capacity metrics a heartbeat may carry
    Steady           \* hosts that register once and never report less than
                     \* they offered

Res == {"cpu", "ram"}
Amounts == [Res -> Nat]
Charges == [Res -> Int]
Capacities == [cap : Amounts, gpu : Nat]

\* A registration is the JSON form of a whole record: it names a charge
\* beside the capacities, which may be wrong and may be below zero.
Registrations == [cap : Amounts, gpu : Nat, used : Charges]

ASSUME HostAssumption ==
    /\ Offers \subseteq Registrations
    /\ Reports \subseteq Capacities
    /\ Steady \subseteq HostIds

VARIABLE hosts

NoHost == [known |-> FALSE]

\* `base` is the charge the registration named.  The code does not keep it;
\* it is recorded for the invariants, and no action reads it.
Host == [known : {TRUE}, cap : Amounts, gpu : Nat, used : Charges,
         base : Charges, fresh : BOOLEAN]

HostTypeOK == hosts \in [HostIds -> Host \cup {NoHost}]

HostInit == hosts = [h \in HostIds |-> NoHost]

Registered == {h \in HostIds : hosts[h] # NoHost}

\* `fresh` is "the last heartbeat is at most 30 seconds old"; Online is TRUE
\* for every registered host, MarkOffline having no caller.
Available == {h \in Registered :
                 /\ hosts[h].fresh
                 /\ \A r \in Res : hosts[h].used[r] < hosts[h].cap[r]}

----------------------------------------------------------------------------
\* What Allocate leaves of one record: the request is charged in full, or
\* refused because one resource would overflow.
Charge(rec, need) ==
    IF \A r \in Res : rec.used[r] + need[r] =< rec.cap[r]
      THEN [rec EXCEPT !.used = [r \in Res |-> rec.used[r] + need[r]]]
      ELSE rec

\* Mutant of Refund: the charge is not clamped at 0.
RefundUnclamped(rec, need) ==
    [rec EXCEPT !.used = [r \in Res |-> rec.used[r] - need[r]]]

\* What Release leaves of one record: the charge is lowered, never below 0.
Refund(rec, need) ==
    [rec EXCEPT !.used = [r \in Res |-> IF need[r] =< rec.used[r]
                                          THEN rec.used[r] - need[r]
                                          ELSE 0]]

\* Both look the host up by id: an unknown one is left alone.
Allocate(id, need) ==
    hosts' = [hosts EXCEPT ![id] = IF @ = NoHost THEN @ ELSE Charge(@, need)]

Release(id, need) ==
    hosts' = [hosts EXCEPT ![id] = IF @ = NoHost THEN @ ELSE Refund(@, need)]

\* The record the JSON body describes replaces whatever the table held under
\* that id, charges included: they become those of the body.
NewHost(offer) ==
    [known |-> TRUE, cap |-> offer.cap, gpu |-> offer.gpu,
     used |-> offer.used, base |-> offer.used, fresh |-> TRUE]

RegisterHost(h, offer) ==
    /\ hosts[h] = NoHost \/ h \notin Steady
    /\ hosts' = [hosts EXCEPT ![h] = NewHost(offer)]

\* A metric is taken over only when it lowers the capacity; CPU and RAM also
\* have to stay positive.
Lowered(old, new, least) == IF least =< new /\ new < old THEN new ELSE old

LoweredCap(rec, m) == [r \in Res |-> Lowered(rec.cap[r], m.cap[r], 1)]

Heartbeat(h, m) ==
    /\ hosts[h] # NoHost
    /\ h \in Steady => LoweredCap(hosts[h], m) = hosts[h].cap
    /\ hosts' = [hosts EXCEPT
           ![h].fresh = TRUE,
           ![h].cap   = LoweredCap(hosts[h], m),
           ![h].gpu   = Lowered(hosts[h].gpu, m.gpu, 0)]

\* Thirty seconds pass without a heartbeat.
FallSilent(h) ==
    /\ hosts[h] # NoHost
    /\ hosts[h].fresh
    /\ hosts' = [hosts EXCEPT ![h].fresh = FALSE]

============================================================================
