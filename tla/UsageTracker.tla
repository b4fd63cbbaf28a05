---------------------------- MODULE UsageTracker ----------------------------
(***************************************************************************)
(* The usage the gateway keeps of a user (internal/usage/usage.go): records *)
(* are appended, pruned when they are many, and summed for the dashboard,   *)
(* the quota and the invoice.  Every method holds the tracker's mutex.      *)
(*                                                                          *)
(* The clock moves on with every record, so that no two are alike: the list *)
(* of a user's records is the set of them, each one unit.                   *)
(***************************************************************************)
EXTENDS Integers, FiniteSets

CONSTANTS UserIDs, Resources, NoQuota,
          Window,        \* the thirty days
          MaxRecords,    \* 512
          MaxDays,       \* the 365 days HandleUsage goes back at most
          Limits, MaxTracked   \* limits given; bound of the records tracked

ASSUME UsageAssumption ==
  /\ Window \in Nat /\ MaxRecords \in Nat /\ MaxDays \in Nat \ {0} /\ MaxTracked \in Nat
  /\ Limits \subseteq Nat /\ NoQuota \notin [Resources -> Limits] /\ "default" \notin UserIDs

VARIABLES
  day,
  records,     \* [UserIDs -> set of records]
  quotas,      \* [UserIDs and "default" -> limits, or NoQuota]
  tracked      \* history: [UserIDs -> every record there was]

usageVars == <<day, records, quotas, tracked>>

record(resource) == [resource |-> resource, startedAt |-> day]

\* Mutant: the cutoff is a day late.
keptTooLittle(list) ==
  IF Cardinality(list) <= MaxRecords THEN list
  ELSE {r \in list : r.startedAt > day - Window + 1}

\* Older records go once there are many.
keptRecords(list) ==
  IF Cardinality(list) <= MaxRecords THEN list
  ELSE {r \in list : r.startedAt > day - Window}

Track(u, resource) ==
  /\ Cardinality(tracked[u]) < MaxTracked
  /\ records' = [records EXCEPT ![u] = keptRecords(@ \cup {record(resource)})]
  /\ tracked' = [tracked EXCEPT ![u] = @ \cup {record(resource)}]
  /\ day' = day + 1
  /\ UNCHANGED quotas

DayPasses ==
  /\ day < MaxTracked + Window + 1 /\ day' = day + 1
  /\ UNCHANGED <<records, quotas, tracked>>

\* The first limit of a user brings the defaults of that moment along.
SetQuota(u, resource, limit) ==
  /\ quotas' = [quotas EXCEPT ![u] = [(IF @ = NoQuota THEN quotas["default"] ELSE @)
                                        EXCEPT ![resource] = limit]]
  /\ UNCHANGED <<day, records, tracked>>

\* What is read of a list of records.
usedSince(list, resource, first) ==
  Cardinality({r \in list : r.resource = resource /\ r.startedAt >= first})

calculateUsage(u) == [resource \in Resources |-> usedSince(records[u], resource, day - Window)]
limitsOf(u) == IF quotas[u] = NoQuota THEN quotas["default"] ELSE quotas[u]
Remaining(u) == [resource \in Resources |-> limitsOf(u)[resource] - calculateUsage(u)[resource]]

\* HandleUsage, with the days it was asked for put into its range.
HandleUsage(list, days) ==
  LET clamped == IF days < 1 THEN 1 ELSE IF days > MaxDays THEN MaxDays ELSE days
  IN [resource \in Resources |-> usedSince(list, resource, day - clamped)]

\* HandleInvoice: the resources used, with how much.
GenerateInvoice(list) ==
  {<<resource, usedSince(list, resource, day - Window)>> :
     resource \in {r \in Resources : usedSince(list, r, day - Window) > 0}}

UsageInit ==
  /\ day = 0 /\ records = [u \in UserIDs |-> {}] /\ tracked = records
  /\ quotas = [u \in UserIDs \cup {"default"} |->
                 IF u = "default" THEN [resource \in Resources |-> 1] ELSE NoQuota]

UsageNext ==
  \/ DayPasses
  \/ \E u \in UserIDs, resource \in Resources : Track(u, resource)
  \/ \E u \in DOMAIN quotas, resource \in Resources, limit \in Limits : SetQuota(u, resource, limit)

UsageSpec == UsageInit /\ [][UsageNext]_usageVars

\* Pruning changes neither a quota nor an invoice: what these count is what
\* was tracked in the thirty days, up to the edge of the window
\* (usage.go:109-122, 151-176, 322-332).
PruningKeepsBills ==
  \A u \in UserIDs :
    /\ GenerateInvoice(records[u]) = GenerateInvoice(tracked[u])
    /\ \A resource \in Resources :
         Remaining(u)[resource] = limitsOf(u)[resource] - usedSince(tracked[u], resource, day - Window)

\* "Older records are never read (calculateUsage / GetUsage filter by 30-day
\* window)" (usage.go:110-111): pruning changes no answer of HandleUsage.
PruningIsInvisible ==
  \A u \in UserIDs, days \in 1..MaxDays : HandleUsage(records[u], days) = HandleUsage(tracked[u], days)

=============================================================================
