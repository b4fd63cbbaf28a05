----------------------------- MODULE RateLimit -----------------------------
(***************************************************************************)
(* The gateway's rate limiter (internal/ratelimit/ratelimit.go) under its   *)
(* middleware (tunnel/server.go:669-735): a token bucket per key.  A request *)
(* reads the clock, then finds or makes the bucket, then locks it; a sweep  *)
(* looks at a bucket under its lock and deletes it without it.              *)
(*                                                                          *)
(* Time is counted in ticks, a token in whole ones.                         *)
(***************************************************************************)
EXTENDS Integers, Sequences

CONSTANTS Requests,
          Keys,          \* addresses and "user:" names
          KeysOf,        \* the keys a request may be limited by, in order
          Rate, Burst,   \* tokens for a tick, size of a bucket
          StaleAfter,    \* the hour after which a bucket is swept
          MaxLag,        \* ticks a request may take from its clock to its answer
          MaxClock, MaxBuckets   \* bounds

\* A bucket is swept only when it would be full again, even by the clock of a
\* request on its way that was read MaxLag ago.
ASSUME RateAssumption ==
  /\ Rate \in Nat \ {0} /\ Burst \in Nat \ {0}
  /\ StaleAfter \in Nat /\ MaxLag \in Nat /\ (StaleAfter + 1 - 2 * MaxLag) * Rate >= Burst
  /\ MaxClock \in Nat /\ MaxBuckets \in Nat
  /\ KeysOf \subseteq Seq(Keys) \ {<< >>}

VARIABLES
  clock,
  items,       \* Limiter.items: [Keys -> bucket, or 0]
  bucket,      \* sequence of the buckets made
  request,     \* [Requests -> where it is in addToken, for which keys]
  evicting,    \* evict: its cutoff, and the bucket it found stale
  since,       \* history: grants read at or after this tick are counted
  granted      \* history: [Keys -> number counted, latest reading, and those from a
               \* bucket that was swept or about to be]

rateVars == <<clock, items, bucket, request, evicting, since, granted>>

NoRequest == [step |-> "none", now |-> 0, bucket |-> 0, keys |-> << >>]
NotEvicting == [on |-> FALSE, cutoff |-> 0, of |-> 0]
keyOf(r) == Head(request[r].keys)

TickRate ==
  /\ clock < MaxClock /\ clock' = clock + 1
  /\ \A r \in Requests : request[r] # NoRequest => clock < request[r].now + MaxLag
  /\ UNCHANGED <<items, bucket, request, evicting, since, granted>>

\* now := time.Now().
RequestArrives(r) ==
  /\ request[r] = NoRequest
  /\ \E keys \in KeysOf :
       request' = [request EXCEPT ![r] = [step |-> "find", now |-> clock, bucket |-> 0, keys |-> keys]]
  /\ UNCHANGED <<clock, items, bucket, evicting, since, granted>>

\* LoadOrStore.
FindBucket(r) ==
  LET k == keyOf(r) IN
  /\ request[r].step = "find"
  /\ IF items[k] # 0
       THEN UNCHANGED <<bucket, items>>
       ELSE /\ Len(bucket) < MaxBuckets
            /\ bucket' = Append(bucket, [tokens |-> Burst, lastSeen |-> request[r].now])
            /\ items' = [items EXCEPT ![k] = Len(bucket) + 1]
  /\ request' = [request EXCEPT ![r] = [step |-> "take", now |-> @.now, bucket |-> items'[k], keys |-> @.keys]]
  /\ UNCHANGED <<clock, evicting, since, granted>>

\* Time may go backwards for a bucket: then it loses tokens, for the next
\* request to give back.
refilled(b, now) ==
  LET tokens == b.tokens + Rate * (now - b.lastSeen) IN IF tokens > Burst THEN Burst ELSE tokens

doomed(k, b) == items[k] # b \/ evicting.of = b

\* The lock is held from here to the answer; a granted request goes on to its
\* next key.
addToken(r) ==
  LET k == keyOf(r)
      b == request[r].bucket
      now == request[r].now
      tokens == refilled(bucket[b], now)
      allowed == tokens >= 1
  IN
  /\ request[r].step = "take"
  /\ bucket' = [bucket EXCEPT ![b] = [tokens |-> IF allowed THEN tokens - 1 ELSE tokens, lastSeen |-> now]]
  /\ granted' = IF ~allowed \/ now < since THEN granted
                ELSE [granted EXCEPT ![k] = [number |-> @.number + 1,
                                             latest |-> IF now > @.latest THEN now ELSE @.latest,
                                             stray |-> IF doomed(k, b) THEN @.stray + 1 ELSE @.stray]]
  /\ request' = [request EXCEPT ![r] =
                   IF allowed /\ Len(@.keys) > 1
                     THEN [step |-> "find", now |-> clock, bucket |-> 0, keys |-> Tail(@.keys)]
                     ELSE NoRequest]
  /\ UNCHANGED <<clock, items, evicting, since>>

StartEvict ==
  /\ ~evicting.on
  /\ evicting' = [on |-> TRUE, cutoff |-> clock - StaleAfter, of |-> 0]
  /\ UNCHANGED <<clock, items, bucket, request, since, granted>>

\* Mutant: the sweep takes what was not used since it began.
FindIdle(k) ==
  /\ evicting.on /\ evicting.of = 0 /\ items[k] # 0
  /\ bucket[items[k]].lastSeen < evicting.cutoff + StaleAfter
  /\ evicting' = [evicting EXCEPT !.of = items[k]]
  /\ UNCHANGED <<clock, items, bucket, request, since, granted>>

FindStale(k) ==
  /\ evicting.on /\ evicting.of = 0 /\ items[k] # 0
  /\ bucket[items[k]].lastSeen < evicting.cutoff
  /\ evicting' = [evicting EXCEPT !.of = items[k]]
  /\ UNCHANGED <<clock, items, bucket, request, since, granted>>

DeleteStale(k) ==
  /\ evicting.of # 0 /\ items[k] = evicting.of
  /\ items' = [items EXCEPT ![k] = 0]
  /\ evicting' = [evicting EXCEPT !.of = 0]
  /\ UNCHANGED <<clock, bucket, request, since, granted>>

EndEvict ==
  /\ evicting.on /\ evicting.of = 0
  /\ evicting' = NotEvicting
  /\ UNCHANGED <<clock, items, bucket, request, since, granted>>

RateInit ==
  /\ clock = 0 /\ bucket = << >> /\ items = [k \in Keys |-> 0]
  /\ request = [r \in Requests |-> NoRequest] /\ evicting = NotEvicting
  /\ since \in 0..MaxClock
  /\ granted = [k \in Keys |-> [number |-> 0, latest |-> since, stray |-> 0]]

RateNext ==
  \/ TickRate \/ StartEvict \/ EndEvict
  \/ \E r \in Requests : RequestArrives(r) \/ FindBucket(r) \/ addToken(r)
  \/ \E k \in Keys : FindStale(k) \/ DeleteStale(k)

RateSpec == RateInit /\ [][RateNext]_rateVars

\* From any moment on a key is granted no more than a full bucket and what
\* flowed in since, whatever the order in which requests that read the clock
\* reach the bucket, and though the bucket is swept and made anew; more only
\* by the requests that took from a bucket the sweep had judged already
\* (ratelimit.go:49-70, 91-103).
RateKept ==
  \A k \in Keys :
    granted[k].number - granted[k].stray <= Burst + Rate * (granted[k].latest - since)
=============================================================================
