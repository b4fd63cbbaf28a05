------------------------------ MODULE DNSCache ------------------------------
(***************************************************************************)
(* The gateway's cache of host names (tunnel/dns_cache.go) and the dialer   *)
(* over it.  A look-up reads the cache under the lock, asks the resolver    *)
(* without it, and stores under it what it was told, as fresh from then on. *)
(* LookupAddr, which nothing calls, stores without making room and is left  *)
(* out.                                                                     *)
(***************************************************************************)
EXTENDS Integers, FiniteSets

CONSTANTS Names, NoName, Lookers,
          MaxEntries,     \* DNSCache.maxEntries
          MaxMoves        \* bound of the changes of addresses

ASSUME DNSAssumption == MaxEntries \in Nat \ {0} /\ MaxMoves \in Nat /\ NoName \notin Names

VARIABLES
  address,      \* external: [Names -> version of its address]
  entries,      \* [Names -> version cached, or 0 if there is none]
  expired,      \* names whose entry is older than the TTL
  looking,      \* [Lookers -> name and version it is about to store]
  dialledTo,    \* history: [Names -> greatest version a dial was given]
  crossed       \* history: names two look-ups asked the resolver for at once

dnsVars == <<address, entries, expired, looking, dialledTo, crossed>>

NotLooking == [name |-> NoName, version |-> 0]
cached == {h \in Names : entries[h] # 0}

dial(h, version) == dialledTo' = [dialledTo EXCEPT ![h] = IF version > @ THEN version ELSE @]

\* DialContext with what the cache holds.
LookupCached(h) ==
  /\ h \in cached /\ h \notin expired
  /\ dial(h, entries[h])
  /\ UNCHANGED <<address, entries, expired, looking, crossed>>

AskResolver(k, h) ==
  /\ looking[k] = NotLooking /\ (h \in cached => h \in expired)
  /\ looking' = [looking EXCEPT ![k] = [name |-> h, version |-> 0]]
  /\ crossed' = IF \E other \in Lookers : looking[other].name = h THEN crossed \cup {h} ELSE crossed
  /\ UNCHANGED <<address, entries, expired, dialledTo>>

\* The resolver answers, or fails and the name is dialled as it is.
ResolverAnswers(k) ==
  /\ looking[k].name # NoName /\ looking[k].version = 0
  /\ looking' = [looking EXCEPT ![k].version = address[looking[k].name]]
  /\ UNCHANGED <<address, entries, expired, dialledTo, crossed>>

ResolverFails(k) ==
  /\ looking[k].name # NoName /\ looking[k].version = 0
  /\ looking' = [looking EXCEPT ![k] = NotLooking]
  /\ UNCHANGED <<address, entries, expired, dialledTo, crossed>>

\* Room for one: expired entries go first, then any.
kept ==
  LET live == cached \ expired IN
  IF Cardinality(cached) < MaxEntries THEN {cached}
  ELSE IF Cardinality(live) < MaxEntries THEN {live}
  ELSE {live \ {h} : h \in live}

\* Mutant: an entry that is there is kept.
StoreIfAbsent(k) ==
  LET h == looking[k].name IN
  /\ looking[k].version # 0
  /\ \E others \in kept :
       entries' = [g \in Names |-> IF g = h /\ entries[h] = 0 THEN looking[k].version
                                   ELSE IF g \in others \cup {h} THEN entries[g] ELSE 0]
  /\ expired' = {g \in expired : entries'[g] # 0} \ {h}
  /\ looking' = [looking EXCEPT ![k] = NotLooking]
  /\ dial(h, looking[k].version)
  /\ UNCHANGED <<address, crossed>>

StoreAnswer(k) ==
  LET h == looking[k].name IN
  /\ looking[k].version # 0
  /\ \E others \in kept :
       entries' = [g \in Names |-> IF g = h THEN looking[k].version
                                   ELSE IF g \in others THEN entries[g] ELSE 0]
  /\ expired' = {g \in expired : entries'[g] # 0} \ {h}
  /\ looking' = [looking EXCEPT ![k] = NotLooking]
  /\ dial(h, looking[k].version)
  /\ UNCHANGED <<address, crossed>>

Expire(h) ==
  /\ h \in cached /\ h \notin expired
  /\ expired' = expired \cup {h}
  /\ UNCHANGED <<address, entries, looking, dialledTo, crossed>>

Refresh(h) ==
  /\ entries' = [entries EXCEPT ![h] = 0] /\ expired' = expired \ {h}
  /\ UNCHANGED <<address, looking, dialledTo, crossed>>

Move(h) ==
  /\ address[h] <= MaxMoves
  /\ address' = [address EXCEPT ![h] = @ + 1]
  /\ UNCHANGED <<entries, expired, looking, dialledTo, crossed>>

DNSInit ==
  /\ address = [h \in Names |-> 1] /\ entries = [h \in Names |-> 0] /\ expired = {}
  /\ looking = [k \in Lookers |-> NotLooking] /\ dialledTo = [h \in Names |-> 0]
  /\ crossed = {}

DNSNext ==
  \/ \E h \in Names : LookupCached(h) \/ Expire(h) \/ Refresh(h) \/ Move(h)
  \/ \E k \in Lookers :
       \/ \E h \in Names : AskResolver(k, h)
       \/ ResolverAnswers(k) \/ ResolverFails(k) \/ StoreAnswer(k)

DNSSpec == DNSInit /\ [][DNSNext]_dnsVars

\* The cache never holds more than its limit, however many look-ups that found
\* it with room come back at once (dns_cache.go:55-75).
DNSBounded == Cardinality(cached) <= MaxEntries

\* A name the cache answers for does not go back to an address it had before
\* one that was dialled already, unless two look-ups of it asked the resolver
\* at once and the earlier answer was stored last (dns_cache.go:40-75).
NeverGoesBack == \A h \in cached : h \notin crossed => entries[h] >= dialledTo[h]

\* The cache stays small and does not answer with the past.
NamesSound == DNSBounded /\ NeverGoesBack

=============================================================================
