-------------------------- MODULE TelemetryServer ---------------------------
(***************************************************************************)
(* The batch endpoint of the telemetry backend and its rate limiter        *)
(* (internal/telemetrybackend/server.go, ratelimit.go): handlers of many   *)
(* clients share one table of token buckets.  A handler reads the clock    *)
(* before it takes the mutex, so that buckets are updated with times that  *)
(* go back and forth; and the table is bounded, so that buckets are        *)
(* forgotten.  What happens to an accepted batch is the module Batcher;    *)
(* the counters and logs of the server are left out.                       *)
(***************************************************************************)
EXTENDS Integers, FiniteSets

CONSTANTS Clients, Handlers,
          Rate,         \* perSecond, tokens a bucket gets in one tick
          Burst,        \* burst
          MaxBuckets,   \* maxBuckets
          ForgetAfter,  \* ticks after which cleanup may forget a bucket (10 minutes)
          MaxDelay,     \* ticks a handler may spend between the clock and the mutex
          MaxTime, MaxRequests

VARIABLES
    buckets,  \* per client: its rateBucket, or noBucket
    handlers, \* per handler: what it is at, for whom, and the time it has read
    time,     \* the monotonic clock
    allowed,  \* per client: requests that Allow let through
    requests  \* requests so far

serverVars == <<buckets, handlers, time, allowed, requests>>

noBucket == [here |-> FALSE, tokens |-> 0, lastSeen |-> 0]
NoClient == "nobody"
idle == [at |-> "idle", client |-> NoClient, now |-> 0]

\* newIPRateLimiter
Init ==
    /\ buckets = [c \in Clients |-> noBucket]
    /\ handlers = [h \in Handlers |-> idle]
    /\ time = 0 /\ allowed = [c \in Clients |-> 0] /\ requests = 0

Answered(h) == handlers' = [handlers EXCEPT ![h] = idle]

\* handleBatch, up to the clock that Allow reads.  A wrong method or header is
\* answered before the limiter is asked; clientIP names the client.
HandleBatch(h) ==
    /\ handlers[h] = idle /\ requests < MaxRequests /\ requests' = requests + 1
    /\ \/ Answered(h)
       \/ \E c \in Clients :
            handlers' = [handlers EXCEPT ![h] = [at |-> "lock", client |-> c, now |-> time]]
    /\ UNCHANGED <<buckets, time, allowed>>

Count(table) == Cardinality({c \in Clients : table[c].here})

\* cleanup: when the table is full, the buckets that were not used for long are
\* forgotten; a client that comes back has a full bucket again.
\* Mutant: a full table is emptied.
ForgetsAll(table, now) ==
    IF Count(table) < MaxBuckets THEN table ELSE [c \in Clients |-> noBucket]
cleanup(table, now) ==
    IF Count(table) < MaxBuckets THEN table
    ELSE [c \in Clients |-> IF now - table[c].lastSeen > ForgetAfter THEN noBucket ELSE table[c]]

\* A bucket after the time since it was last used, which may be negative.
Refilled(bucket, now) ==
    LET tokens == bucket.tokens + (now - bucket.lastSeen) * Rate
    IN  [here |-> TRUE, lastSeen |-> now, tokens |-> IF tokens > Burst THEN Burst ELSE tokens]

\* Allow, under the mutex.
Allow(h) ==
    LET c == handlers[h].client
        now == handlers[h].now
        room == cleanup(buckets, now)
        bucket == IF buckets[c].here THEN Refilled(buckets[c], now)
                  ELSE [here |-> TRUE, tokens |-> Burst, lastSeen |-> now]
    IN
    /\ handlers[h].at = "lock"
    /\ \/ /\ ~buckets[c].here /\ Count(room) >= MaxBuckets
          /\ buckets' = room /\ Answered(h) /\ UNCHANGED allowed
       \/ /\ buckets[c].here \/ Count(room) < MaxBuckets
          /\ LET table == IF buckets[c].here THEN buckets ELSE room IN
             \/ /\ bucket.tokens < 1
                /\ buckets' = cleanup([table EXCEPT ![c] = bucket], now)
                /\ Answered(h) /\ UNCHANGED allowed
             \/ /\ bucket.tokens >= 1
                /\ buckets' = cleanup([table EXCEPT ![c] = [bucket EXCEPT !.tokens = @ - 1]], now)
                /\ allowed' = [allowed EXCEPT ![c] = @ + 1]
                /\ handlers' = [handlers EXCEPT ![h].at = "body"]
    /\ UNCHANGED <<time, requests>>

\* The rest of handleBatch: the body is read, decoded and offered to the batcher,
\* and the client is told whether all of it was accepted.
HandleBody(h) ==
    /\ handlers[h].at = "body" /\ Answered(h)
    /\ UNCHANGED <<buckets, time, allowed, requests>>

Tick ==
    /\ time < MaxTime /\ time' = time + 1
    /\ \A h \in Handlers : handlers[h].at = "lock" => time' - handlers[h].now <= MaxDelay
    /\ UNCHANGED <<buckets, handlers, allowed, requests>>

Next == (\E h \in Handlers : HandleBatch(h) \/ Allow(h) \/ HandleBody(h)) \/ Tick

Spec == Init /\ [][Next]_serverVars

-----------------------------------------------------------------------------
\* What a client may get per tick in the long run: Rate, or more when Burst is so
\* large that a bucket is forgotten, and made anew with all its tokens, before it is
\* full again.  From its last use to that at least Rest ticks pass, delays taken off.
Rest == ForgetAfter + 1 - 2 * MaxDelay
Paces == {pace \in Rate .. Rate + Burst : Burst <= pace * Rest}

\* No client gets through more often than its burst and the time passed allow,
\* although handlers use times that are out of order and buckets are forgotten and
\* made anew; and the table stays within its limit, whoever asks.
RateBounded ==
    /\ Count(buckets) <= MaxBuckets
    /\ \A c \in Clients : \A pace \in Paces : allowed[c] <= Burst + pace * time
=============================================================================
