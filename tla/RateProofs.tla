----------------------------- MODULE RateProofs ------------------------------
(***************************************************************************)
(* Proof that the rate limiter of the telemetry server keeps its limits,   *)
(* for any clients, handlers, rate, burst and table size                   *)
(* (ServerAssumption): no client gets through more often than its burst    *)
(* and the time passed allow, also where a bucket is forgotten before it   *)
(* is full again, and the table stays within its size.                     *)
(***************************************************************************)
EXTENDS MachineProofs

(* The tokens that t ticks give.                                           *)
Earned(t) == Rate * t

(* They are a number, and no tick gives none.                              *)
LEMMA EarnedInt ==
  /\ Earned(0) = 0
  /\ \A t \in Int : Earned(t) \in Int
BY ServerAssumption DEF Earned

(* More ticks give no fewer.                                               *)
LEMMA EarnedMore ==
  ASSUME NEW s \in Int, NEW t \in Int, s <= t
  PROVE  Earned(s) <= Earned(t)
<1>1. Rate \in Nat \ {0}
  BY ServerAssumption
<1>2. t - s >= 0 => Rate * (t - s) >= 0
  BY <1>1
<1>3. Rate * (t - s) = Rate * t - Rate * s
  BY <1>1
<1> QED
  BY <1>1, <1>2, <1>3 DEF Earned

(* Those of a sum are the sum of those, also as the code writes it.        *)
LEMMA EarnedSum ==
  ASSUME NEW s \in Int, NEW t \in Int
  PROVE  /\ Earned(s + t) = Earned(s) + Earned(t)
         /\ Earned(s - t) = Earned(s) - Earned(t)
         /\ (s - t) * Rate = Earned(s) - Earned(t)
BY ServerAssumption DEF Earned

(* What t ticks give at a pace beyond the rate: the tokens of the buckets  *)
(* made anew before the old ones were full.                                *)
Extra(pace, t) == (pace - Rate) * t

(* It is a number, nothing at first, and grows with the ticks.             *)
LEMMA ExtraInt ==
  ASSUME NEW pace \in Server!Paces
  PROVE  /\ Extra(pace, 0) = 0
         /\ \A t \in Int : Extra(pace, t) \in Int
BY ServerAssumption DEF Extra, Server!Paces

(* More ticks give no less.                                                *)
LEMMA ExtraMore ==
  ASSUME NEW pace \in Server!Paces, NEW s \in Int, NEW t \in Int, s <= t
  PROVE  Extra(pace, s) <= Extra(pace, t)
<1>1. Rate \in Int /\ pace \in Int /\ pace - Rate \in Nat
  BY ServerAssumption DEF Server!Paces
<1> DEFINE x == pace - Rate
<1>2. x * (t - s) = x * t - x * s /\ x * t \in Int /\ x * s \in Int
  BY <1>1
<1>3. t - s \in Nat => x * (t - s) >= 0
  BY <1>1
<1> QED
  BY <1>2, <1>3 DEF Extra

(* The ticks until a bucket may be forgotten give a burst.                 *)
LEMMA BurstEarned ==
  ASSUME NEW pace \in Server!Paces, NEW s \in Int
  PROVE  Burst + Extra(pace, s) <= Earned(Server!Rest) + Extra(pace, Server!Rest + s)
<1>1. Rate \in Int /\ pace \in Int /\ Server!Rest \in Int /\ Burst \in Int
      /\ Burst <= pace * Server!Rest
  BY ServerAssumption DEF Server!Paces, Server!Rest
<1> DEFINE r == Server!Rest
<1>2. (pace - Rate) * (r + s) = pace * r - Rate * r + (pace - Rate) * s
  BY <1>1
<1>3. pace * r \in Int /\ Rate * r \in Int /\ (pace - Rate) * s \in Int
  BY <1>1
<1> QED
  BY <1>1, <1>2, <1>3 DEF Extra, Earned

-----------------------------------------------------------------------------
(* The buckets, and what a client was let through when its bucket is b at  *)
(* time t.  A handler that is late takes tokens back, at most those of the *)
(* longest delay; a bucket that is made anew, at the time made or before   *)
(* it, leaves the client with what the pace gives.                         *)
Bucket == [here : BOOLEAN, tokens : Int, lastSeen : Int]

Paced(pace, b, through, t) ==
  \E made \in 0 .. t : /\ made <= b.lastSeen + MaxDelay
                      /\ through + b.tokens <= Burst + Earned(b.lastSeen) + Extra(pace, made)

Renewable(through, t) ==
  \A pace \in Server!Paces : through = 0 \/ through <= Earned(t - MaxDelay) + Extra(pace, t)

Covered(b, through, t) ==
  IF b.here
  THEN /\ b.lastSeen \in 0 .. t
       /\ b.tokens >= Earned(b.lastSeen) - Earned(t)
       /\ b.tokens >= 0 - Earned(MaxDelay) /\ b.tokens <= Burst
       /\ \A pace \in Server!Paces : Paced(pace, b, through, t)
  ELSE b = Server!noBucket /\ Renewable(through, t)

HandlerInv ==
  /\ handlers \in [Handlers -> [at : {"idle", "lock", "body"},
                               client : Clients \cup {Server!NoClient}, now : Int]]
  /\ \A h \in Handlers : handlers[h].at = "lock" =>
       handlers[h].client \in Clients /\ handlers[h].now \in 0 .. time /\ time - handlers[h].now <= MaxDelay

RateInv ==
  /\ buckets \in [Clients -> Bucket] /\ allowed \in [Clients -> Nat] /\ time \in Nat
  /\ HandlerInv
  /\ Server!Count(buckets) <= MaxBuckets
  /\ \A c \in Clients : Covered(buckets[c], allowed[c], time)

(* What is covered gives the bound.                                        *)
LEMMA CoveredBound ==
  ASSUME NEW b \in Bucket, NEW through \in Nat, NEW t \in Nat, Covered(b, through, t),
         NEW pace \in Server!Paces
  PROVE  through <= Burst + pace * t
<1>1. Burst \in Nat /\ MaxDelay \in Nat /\ Rate \in Nat /\ pace \in Nat
  BY ServerAssumption DEF Server!Paces
<1>2. /\ Earned(t) \in Int /\ Extra(pace, t) \in Int /\ Earned(0) = 0 /\ Extra(pace, 0) = 0
      /\ Earned(0) <= Earned(t) /\ Extra(pace, 0) <= Extra(pace, t)
  BY EarnedInt, ExtraInt, EarnedMore, ExtraMore
<1>3. through <= Burst + Earned(t) + Extra(pace, t)
  <2>1. CASE b.here
    <3>1. PICK made \in 0 .. t : through + b.tokens <= Burst + Earned(b.lastSeen) + Extra(pace, made)
      BY <2>1 DEF Covered, Paced
    <3>2. /\ b.lastSeen \in Int /\ b.tokens \in Int /\ Earned(b.lastSeen) \in Int
          /\ Extra(pace, made) \in Int /\ Extra(pace, made) <= Extra(pace, t)
      BY EarnedInt, ExtraInt, ExtraMore DEF Bucket
    <3>3. b.tokens >= Earned(b.lastSeen) - Earned(t)
      BY <2>1 DEF Covered
    <3> QED
      BY <1>1, <1>2, <3>1, <3>2, <3>3
  <2>2. CASE ~b.here
    <3>1. through = 0 \/ through <= Earned(t - MaxDelay) + Extra(pace, t)
      BY <2>2 DEF Covered, Renewable
    <3>2. t - MaxDelay \in Int /\ t - MaxDelay <= t
      BY <1>1
    <3>3. Earned(t - MaxDelay) \in Int /\ Earned(t - MaxDelay) <= Earned(t)
      BY <3>2, EarnedInt, EarnedMore
    <3> QED
      BY <1>1, <1>2, <3>1, <3>3
  <2> QED
    BY <2>1, <2>2
<1>4. Earned(t) + Extra(pace, t) = pace * t
  BY <1>1 DEF Earned, Extra
<1> QED
  BY <1>1, <1>2, <1>3, <1>4

(* Time only adds to it.                                                   *)
LEMMA CoveredTick ==
  ASSUME NEW b \in Bucket, NEW through \in Nat, NEW t \in Nat, Covered(b, through, t)
  PROVE  Covered(b, through, t + 1)
<1>1. MaxDelay \in Nat
  BY ServerAssumption
<1>2. t - MaxDelay \in Int /\ (t + 1) - MaxDelay \in Int /\ t - MaxDelay <= (t + 1) - MaxDelay
  BY <1>1
<1>3. Earned(t) <= Earned(t + 1) /\ Earned(t - MaxDelay) <= Earned((t + 1) - MaxDelay)
  BY <1>2, EarnedMore
<1>4. /\ Earned(t) \in Int /\ Earned(t + 1) \in Int
      /\ Earned(t - MaxDelay) \in Int /\ Earned((t + 1) - MaxDelay) \in Int
  BY <1>2, EarnedInt
<1>5. CASE b.here
  <2>1. Earned(b.lastSeen) \in Int /\ b.tokens \in Int
    BY EarnedInt DEF Bucket
  <2>2. b.lastSeen \in 0 .. t + 1 /\ b.tokens >= Earned(b.lastSeen) - Earned(t + 1)
    BY <1>3, <1>4, <1>5, <2>1 DEF Covered
  <2>3. \A pace \in Server!Paces : Paced(pace, b, through, t + 1)
    BY <1>5 DEF Covered, Paced
  <2> QED
    BY <1>5, <2>2, <2>3 DEF Covered
<1>6. CASE ~b.here
  <2>1. b = Server!noBucket /\ Renewable(through, t)
    BY <1>6 DEF Covered
  <2>2. ASSUME NEW pace \in Server!Paces
        PROVE  through = 0 \/ through <= Earned((t + 1) - MaxDelay) + Extra(pace, t + 1)
    <3>1. /\ Extra(pace, t) <= Extra(pace, t + 1)
          /\ Extra(pace, t) \in Int /\ Extra(pace, t + 1) \in Int
      BY ExtraMore, ExtraInt
    <3>2. through = 0 \/ through <= Earned(t - MaxDelay) + Extra(pace, t)
      BY <2>1 DEF Renewable
    <3> QED
      BY <1>3, <1>4, <3>1, <3>2
  <2> QED
    BY <1>6, <2>1, <2>2 DEF Covered, Renewable
<1> QED
  BY <1>5, <1>6

(* A bucket that was not used for long may be forgotten: since then the    *)
(* pace has given the burst of a new one.                                  *)
LEMMA CoveredForget ==
  ASSUME NEW b \in Bucket, NEW through \in Nat, NEW t \in Nat, Covered(b, through, t),
         NEW now \in 0 .. t, now - b.lastSeen > ForgetAfter
  PROVE  Covered(Server!noBucket, through, t)
<1>1. CASE ~b.here
  BY <1>1 DEF Covered
<1>2. CASE b.here
  <2> SUFFICES ASSUME NEW pace \in Server!Paces
               PROVE  through <= Earned(t - MaxDelay) + Extra(pace, t)
    BY DEF Covered, Renewable, Server!noBucket
  <2> DEFINE s == b.lastSeen
             k == Server!Rest
  <2>1. /\ MaxDelay \in Nat /\ ForgetAfter \in Nat /\ Burst \in Nat /\ s \in Nat
        /\ s + ForgetAfter + 1 <= t /\ b.tokens \in Int
    BY <1>2, ServerAssumption DEF Covered, Bucket
  <2>2. PICK made \in 0 .. t : /\ made <= s + MaxDelay
                              /\ through + b.tokens <= Burst + Earned(s) + Extra(pace, made)
    BY <1>2 DEF Covered, Paced
  <2>3. /\ k \in Int /\ k + MaxDelay \in Int /\ k + MaxDelay + s \in Int /\ t - MaxDelay \in Int
        /\ k + MaxDelay + s <= t - MaxDelay /\ k + made \in Int /\ k + made <= t
    BY <2>1, <2>2, ServerAssumption DEF Server!Rest
  <2> HIDE DEF k, s
  <2>4. /\ Earned(k + MaxDelay) = Earned(k) + Earned(MaxDelay)
        /\ Earned(k + MaxDelay + s) = Earned(k + MaxDelay) + Earned(s)
        /\ Earned(k + MaxDelay + s) <= Earned(t - MaxDelay)
    <3>1. Earned(k + MaxDelay) = Earned(k) + Earned(MaxDelay)
      BY <2>1, <2>3, EarnedSum
    <3>2. Earned(k + MaxDelay + s) = Earned(k + MaxDelay) + Earned(s)
      BY <2>1, <2>3, EarnedSum
    <3> QED
      BY <2>3, <3>1, <3>2, EarnedMore
  <2>5. /\ Earned(k) \in Int /\ Earned(MaxDelay) \in Int /\ Earned(s) \in Int
        /\ Earned(k + MaxDelay) \in Int /\ Earned(k + MaxDelay + s) \in Int
        /\ Earned(t - MaxDelay) \in Int
    BY <2>1, <2>3, EarnedInt
  <2>6. /\ Extra(pace, made) \in Int /\ Extra(pace, k + made) \in Int /\ Extra(pace, t) \in Int
        /\ Extra(pace, k + made) <= Extra(pace, t)
    BY <2>3, ExtraInt, ExtraMore
  <2>7. Burst + Extra(pace, made) <= Earned(k) + Extra(pace, k + made)
    BY BurstEarned DEF k
  <2>8. b.tokens >= 0 - Earned(MaxDelay)
    BY <1>2 DEF Covered
  <2> QED
    BY <2>1, <2>2, <2>4, <2>5, <2>6, <2>7, <2>8
<1> QED
  BY <1>1, <1>2

(* A client without a bucket may get a full one.                           *)
LEMMA CoveredNew ==
  ASSUME NEW through \in Nat, NEW t \in Nat, Covered(Server!noBucket, through, t),
         NEW now \in 0 .. t, t - now <= MaxDelay
  PROVE  Covered([here |-> TRUE, tokens |-> Burst, lastSeen |-> now], through, t)
<1> DEFINE full == [here |-> TRUE, tokens |-> Burst, lastSeen |-> now]
<1>1. MaxDelay \in Nat /\ Burst \in Nat
  BY ServerAssumption
<1>2. t - MaxDelay \in Int /\ t - MaxDelay <= now /\ now \in Int /\ now <= t /\ 0 <= now
  BY <1>1
<1>3. /\ Earned(t - MaxDelay) <= Earned(now) /\ Earned(now) <= Earned(t)
      /\ Earned(0) <= Earned(now) /\ Earned(0) <= Earned(MaxDelay)
  BY <1>1, <1>2, EarnedMore
<1>4. /\ Earned(0) = 0 /\ Earned(t - MaxDelay) \in Int /\ Earned(now) \in Int /\ Earned(t) \in Int
      /\ Earned(MaxDelay) \in Int
  BY <1>1, <1>2, EarnedInt
<1>5. ASSUME NEW pace \in Server!Paces PROVE Paced(pace, full, through, t)
  <2>1. through = 0 \/ through <= Earned(t - MaxDelay) + Extra(pace, t)
    BY DEF Covered, Renewable, Server!noBucket
  <2>2. Extra(pace, 0) = 0 /\ Extra(pace, 0) <= Extra(pace, t) /\ Extra(pace, t) \in Int
    BY ExtraInt, ExtraMore
  <2>3. through + Burst <= Burst + Earned(now) + Extra(pace, t)
    BY <1>1, <1>3, <1>4, <2>1, <2>2
  <2>4. t \in 0 .. t /\ t <= now + MaxDelay
    BY <1>1, <1>2
  <2> QED
    BY <2>3, <2>4 DEF Paced
<1>6. /\ now \in 0 .. t /\ Burst >= Earned(now) - Earned(t)
      /\ Burst >= 0 - Earned(MaxDelay) /\ Burst <= Burst
  BY <1>1, <1>3, <1>4
<1>7. full.here /\ full.lastSeen = now /\ full.tokens = Burst
  OBVIOUS
<1> HIDE DEF full
<1>8. Covered(full, through, t)
  BY <1>5, <1>6, <1>7 DEF Covered
<1> QED
  BY <1>8 DEF full

(* A bucket is refilled for the time since, which may be negative.         *)
LEMMA CoveredRefill ==
  ASSUME NEW b \in Bucket, b.here, NEW through \in Nat, NEW t \in Nat, Covered(b, through, t),
         NEW now \in 0 .. t, t - now <= MaxDelay
  PROVE  Covered(Server!Refilled(b, now), through, t)
<1> DEFINE s == b.lastSeen
           r == Server!Refilled(b, now)
<1>1. MaxDelay \in Nat /\ Burst \in Nat /\ s \in Int /\ b.tokens \in Int
  BY ServerAssumption DEF Bucket
<1>2. /\ Earned(t) - Earned(MaxDelay) <= Earned(now) /\ Earned(now) <= Earned(t)
      /\ (now - s) * Rate = Earned(now) - Earned(s)
      /\ Earned(0) = 0 /\ Earned(0) <= Earned(MaxDelay) /\ Earned(now) \in Int
      /\ Earned(t) \in Int /\ Earned(MaxDelay) \in Int /\ Earned(s) \in Int
  <2> HIDE DEF s
  <2>1. t - MaxDelay \in Int /\ t - MaxDelay <= now /\ now \in Int /\ now <= t
    BY <1>1
  <2>2. Earned(t - MaxDelay) <= Earned(now) /\ Earned(now) <= Earned(t) /\ Earned(0) <= Earned(MaxDelay)
    BY <1>1, <2>1, EarnedMore
  <2>3. Earned(t - MaxDelay) = Earned(t) - Earned(MaxDelay)
    BY <1>1, EarnedSum
  <2>4. (now - s) * Rate = Earned(now) - Earned(s)
    BY <1>1, <2>1, EarnedSum
  <2>5. /\ Earned(0) = 0 /\ Earned(now) \in Int
        /\ Earned(t) \in Int /\ Earned(MaxDelay) \in Int /\ Earned(s) \in Int
    BY <1>1, <2>1, EarnedInt
  <2> QED
    BY <2>2, <2>3, <2>4, <2>5
<1>3. b.tokens >= Earned(s) - Earned(t)
  BY DEF Covered
<1> DEFINE tokens == b.tokens + Earned(now) - Earned(s)
<1>4. r.here /\ r.lastSeen = now /\ r.tokens = (IF tokens > Burst THEN Burst ELSE tokens)
  <2>1. b.tokens + (now - s) * Rate = tokens
    BY <1>1, <1>2
  <2> QED
    BY <2>1 DEF Server!Refilled
<1> HIDE DEF r
<1>5. r.tokens \in Int /\ r.tokens <= tokens
  BY <1>1, <1>2, <1>4
<1>6. ASSUME NEW pace \in Server!Paces PROVE Paced(pace, r, through, t)
  <2>1. PICK made \in 0 .. t : through + b.tokens <= Burst + Earned(s) + Extra(pace, made)
    BY DEF Covered, Paced
  <2>2. Extra(pace, made) \in Int
    BY ExtraInt
  <2>3. through + r.tokens <= Burst + Earned(now) + Extra(pace, made)
    BY <1>1, <1>2, <1>5, <2>1, <2>2
  <2>4. made <= now + MaxDelay
    BY <1>1, <2>1
  <2> QED
    BY <1>4, <2>1, <2>3, <2>4 DEF Paced
<1>7. Covered(r, through, t)
  BY <1>1, <1>2, <1>3, <1>4, <1>6 DEF Covered
<1> QED
  BY <1>7 DEF r

(* A request that is let through takes a token.                            *)
LEMMA CoveredTake ==
  ASSUME NEW b \in Bucket, b.here, b.tokens >= 1, NEW through \in Nat, NEW t \in Nat,
         Covered(b, through, t)
  PROVE  Covered([b EXCEPT !.tokens = @ - 1], through + 1, t)
<1>1. Burst \in Nat /\ MaxDelay \in Nat /\ b.lastSeen \in 0 .. t /\ b.tokens \in Int
  BY ServerAssumption DEF Covered, Bucket
<1>2. Earned(b.lastSeen) <= Earned(t) /\ Earned(0) <= Earned(MaxDelay)
  BY <1>1, EarnedMore
<1>3. /\ Earned(0) = 0 /\ Earned(b.lastSeen) \in Int /\ Earned(t) \in Int
      /\ Earned(MaxDelay) \in Int
  BY <1>1, EarnedInt
<1> DEFINE r == [b EXCEPT !.tokens = @ - 1]
<1>4. r.here /\ r.lastSeen = b.lastSeen /\ r.tokens = b.tokens - 1
  BY DEF Bucket
<1>5. ASSUME NEW pace \in Server!Paces PROVE Paced(pace, r, through + 1, t)
  <2>1. PICK made \in 0 .. t : /\ made <= b.lastSeen + MaxDelay
                              /\ through + b.tokens <= Burst + Earned(b.lastSeen) + Extra(pace, made)
    BY DEF Covered, Paced
  <2>2. (through + 1) + r.tokens = through + b.tokens
    BY <1>1, <1>4
  <2> QED
    BY <1>4, <2>1, <2>2 DEF Paced
<1>6. b.tokens <= Burst
  BY DEF Covered
<1> HIDE DEF r
<1>7. Covered(r, through + 1, t)
  BY <1>1, <1>2, <1>3, <1>4, <1>5, <1>6 DEF Covered
<1> QED
  BY <1>7 DEF r

-----------------------------------------------------------------------------
(* The table: how many buckets it has, and what cleanup does to it.        *)
Here(table) == {c \in Clients : table[c].here}

(* The clients with a bucket are finitely many.                            *)
LEMMA CountHere ==
  ASSUME NEW table
  PROVE  Server!Count(table) = Cardinality(Here(table)) /\ IsFiniteSet(Here(table))
<1>1. Server!Cardinality(Here(table)) = Cardinality(Here(table))
  BY DEF Cardinality, Server!Cardinality
<1>2. Here(table) \subseteq Clients
  BY DEF Here
<1>3. IsFiniteSet(Clients)
  BY ServerAssumption
<1>4. IsFiniteSet(Here(table))
  BY <1>2, <1>3, FS_Subset
<1> QED
  BY <1>1, <1>4, Zenon DEF Server!Count, Here

(* A table whose buckets are in another has no more of them.               *)
LEMMA CountLess ==
  ASSUME NEW table, NEW other, \A c \in Clients : other[c].here => table[c].here
  PROVE  /\ Server!Count(other) \in Nat /\ Server!Count(table) \in Nat
         /\ Server!Count(other) <= Server!Count(table)
<1>1. Here(other) \subseteq Here(table)
  BY DEF Here
<1>2. /\ Cardinality(Here(other)) \in Nat /\ Cardinality(Here(table)) \in Nat
      /\ Cardinality(Here(other)) <= Cardinality(Here(table))
  BY <1>1, CountHere, FS_Subset, FS_CardinalityType
<1> QED
  BY <1>2, CountHere

(* A table with one more bucket has at most one more.                      *)
LEMMA CountMore ==
  ASSUME NEW table, NEW other, NEW d \in Clients,
         \A c \in Clients : other[c].here => table[c].here \/ c = d
  PROVE  Server!Count(other) <= Server!Count(table) + 1
<1>1. Here(other) \subseteq Here(table) \cup {d}
  BY DEF Here
<1>2. IsFiniteSet(Here(table) \cup {d}) /\ Cardinality(Here(table) \cup {d}) <= Cardinality(Here(table)) + 1
      /\ Cardinality(Here(table)) \in Nat /\ Cardinality(Here(table) \cup {d}) \in Nat
  BY CountHere, FS_AddElement, FS_CardinalityType
<1>3. Cardinality(Here(other)) <= Cardinality(Here(table) \cup {d}) /\ Cardinality(Here(other)) \in Nat
  BY <1>1, <1>2, FS_Subset, FS_CardinalityType, CountHere
<1> QED
  BY <1>2, <1>3, CountHere

(* cleanup keeps the type, adds no bucket, and leaves every client covered.*)
LEMMA Cleaned ==
  ASSUME NEW table \in [Clients -> Bucket], NEW through \in [Clients -> Nat], NEW t \in Nat,
         NEW now \in 0 .. t, \A c \in Clients : Covered(table[c], through[c], t)
  PROVE  LET room == Server!cleanup(table, now) IN
         /\ room \in [Clients -> Bucket]
         /\ \A c \in Clients : (room[c].here => table[c].here) /\ Covered(room[c], through[c], t)
         /\ \A c \in Clients : ~table[c].here => room[c] = Server!noBucket
<1> DEFINE room == Server!cleanup(table, now)
<1>1. Server!noBucket \in Bucket /\ ~Server!noBucket.here
  BY DEF Server!noBucket, Bucket
<1>2. ASSUME NEW c \in Clients, ~table[c].here PROVE table[c] = Server!noBucket
  BY <1>2 DEF Covered
<1>3. CASE Server!Count(table) < MaxBuckets
  <2>1. room = table
    BY <1>3 DEF Server!cleanup
  <2> QED
    BY <1>2, <2>1
<1>4. CASE ~(Server!Count(table) < MaxBuckets)
  <2>1. room = [c \in Clients |-> IF now - table[c].lastSeen > ForgetAfter
                                  THEN Server!noBucket ELSE table[c]]
    BY <1>4 DEF Server!cleanup
  <2> HIDE DEF room
  <2>2. room \in [Clients -> Bucket]
    BY <1>1, <2>1
  <2>3. ASSUME NEW c \in Clients
        PROVE  /\ (room[c].here => table[c].here) /\ Covered(room[c], through[c], t)
               /\ ~table[c].here => room[c] = Server!noBucket
    <3>1. CASE now - table[c].lastSeen > ForgetAfter
      <4>1. room[c] = Server!noBucket
        BY <2>1, <3>1
      <4>2. Covered(Server!noBucket, through[c], t)
        BY <3>1, CoveredForget
      <4> QED
        BY <1>1, <4>1, <4>2
    <3>2. CASE ~(now - table[c].lastSeen > ForgetAfter)
      BY <1>2, <2>1, <3>2
    <3> QED
      BY <3>1, <3>2
  <2> QED
    BY <2>2, <2>3 DEF room
<1> QED
  BY <1>3, <1>4

(* What is written back after a request: a bucket is put in the table,     *)
(* which is then cleaned.                                                  *)
LEMMA Written ==
  ASSUME NEW table \in [Clients -> Bucket], NEW through \in [Clients -> Nat], NEW t \in Nat,
         NEW now \in 0 .. t, NEW d \in Clients, NEW b \in Bucket, NEW n \in Nat,
         \A c \in Clients : Covered(table[c], through[c], t),
         Covered(b, n, t),
         Server!Count(table) <= MaxBuckets,
         table[d].here \/ Server!Count(table) < MaxBuckets
  PROVE  LET new == Server!cleanup([table EXCEPT ![d] = b], now) IN
         /\ new \in [Clients -> Bucket] /\ Server!Count(new) <= MaxBuckets
         /\ \A c \in Clients : Covered(new[c], [through EXCEPT ![d] = n][c], t)
<1> DEFINE put == [table EXCEPT ![d] = b]
           more == [through EXCEPT ![d] = n]
           new == Server!cleanup(put, now)
<1>1. put \in [Clients -> Bucket] /\ more \in [Clients -> Nat]
  OBVIOUS
<1>2. \A c \in Clients : Covered(put[c], more[c], t)
  OBVIOUS
<1>3. /\ new \in [Clients -> Bucket]
      /\ \A c \in Clients : (new[c].here => put[c].here) /\ Covered(new[c], more[c], t)
  <2> HIDE DEF put, more
  <2> QED
    BY <1>1, <1>2, Cleaned
<1>4. Server!Count(new) <= Server!Count(put) /\ Server!Count(new) \in Nat /\ Server!Count(put) \in Nat
  <2> HIDE DEF put, new
  <2> QED
    BY <1>3, CountLess
<1>5. Server!Count(put) <= MaxBuckets
  <2>1. \A c \in Clients : put[c].here => table[c].here \/ c = d
    OBVIOUS
  <2>2. Server!Count(table) \in Nat /\ MaxBuckets \in Nat
    BY CountLess, ServerAssumption
  <2>3. CASE table[d].here
    <3>1. \A c \in Clients : put[c].here => table[c].here
      BY <2>1, <2>3
    <3> HIDE DEF put
    <3> QED
      BY <2>2, <3>1, <1>4, CountLess
  <2>4. CASE Server!Count(table) < MaxBuckets
    <3> HIDE DEF put
    <3>1. Server!Count(put) <= Server!Count(table) + 1
      BY <2>1, CountMore
    <3> QED
      BY <2>2, <2>4, <1>4, <3>1
  <2> QED
    BY <2>3, <2>4
<1>6. MaxBuckets \in Nat
  BY ServerAssumption
<1>7. Server!Count(new) <= MaxBuckets
  <2> HIDE DEF put, new
  <2> QED
    BY <1>4, <1>5, <1>6
<1> QED
  BY <1>3, <1>7

-----------------------------------------------------------------------------
(* It holds at first: no bucket, no request.                               *)
LEMMA RateInit == Init => RateInv
<1> SUFFICES ASSUME Init PROVE RateInv
  OBVIOUS
<1>1. Server!Init
  BY PartStarts
<1>2. Server!Count(buckets) <= MaxBuckets
  <2>1. Here(buckets) = {}
    BY <1>1 DEF Here, Server!Init, Server!noBucket
  <2>2. Cardinality(Here(buckets)) = 0
    BY <2>1, FS_EmptySet
  <2> QED
    BY <2>2, CountHere, ServerAssumption
<1>3. \A c \in Clients : Covered(buckets[c], allowed[c], time)
  BY <1>1 DEF Server!Init, Server!noBucket, Covered, Renewable
<1> QED
  BY <1>1, <1>2, <1>3 DEF RateInv, HandlerInv, Server!Init, Server!noBucket, Server!idle, Bucket

(* A request for a client whose bucket is full, empty, refilled or made.   *)
LEMMA AllowStep ==
  ASSUME RateInv, NEW h \in Handlers, Server!Allow(h)
  PROVE  /\ buckets' \in [Clients -> Bucket] /\ allowed' \in [Clients -> Nat]
         /\ Server!Count(buckets') <= MaxBuckets
         /\ \A c \in Clients : Covered(buckets'[c], allowed'[c], time)
<1> DEFINE c == handlers[h].client
           now == handlers[h].now
           room == Server!cleanup(buckets, now)
           bucket == IF buckets[c].here THEN Server!Refilled(buckets[c], now)
                     ELSE [here |-> TRUE, tokens |-> Burst, lastSeen |-> now]
           table == IF buckets[c].here THEN buckets ELSE room
<1>1. /\ c \in Clients /\ now \in 0 .. time /\ time - now <= MaxDelay /\ time \in Nat
      /\ buckets \in [Clients -> Bucket] /\ allowed \in [Clients -> Nat]
      /\ Server!Count(buckets) <= MaxBuckets
      /\ \A d \in Clients : Covered(buckets[d], allowed[d], time)
  BY DEF RateInv, HandlerInv, Server!Allow
<1>2. \/ /\ ~buckets[c].here /\ buckets' = room /\ UNCHANGED allowed
      \/ /\ buckets[c].here \/ Server!Count(room) < MaxBuckets
         /\ buckets' = Server!cleanup([table EXCEPT ![c] = bucket], now) /\ UNCHANGED allowed
      \/ /\ buckets[c].here \/ Server!Count(room) < MaxBuckets
         /\ bucket.tokens >= 1
         /\ buckets' = Server!cleanup([table EXCEPT ![c] = [bucket EXCEPT !.tokens = @ - 1]], now)
         /\ allowed' = [allowed EXCEPT ![c] = @ + 1]
  BY DEF Server!Allow
<1> HIDE DEF c, now
<1>3. /\ room \in [Clients -> Bucket]
      /\ \A d \in Clients : (room[d].here => buckets[d].here) /\ Covered(room[d], allowed[d], time)
      /\ \A d \in Clients : ~buckets[d].here => room[d] = Server!noBucket
  BY <1>1, Cleaned
<1>4. Server!Count(room) <= MaxBuckets
  <2>1. /\ Server!Count(room) \in Nat /\ Server!Count(buckets) \in Nat
        /\ Server!Count(room) <= Server!Count(buckets)
    <3> HIDE DEF room
    <3> QED
      BY <1>3, CountLess
  <2> HIDE DEF room
  <2> QED
    BY <1>1, <2>1, ServerAssumption
<1>5. bucket \in Bucket /\ bucket.here /\ Covered(bucket, allowed[c], time)
  <2>1. CASE buckets[c].here
    <3>1. buckets[c] \in Bucket /\ allowed[c] \in Nat /\ Covered(buckets[c], allowed[c], time)
      BY <1>1
    <3>2. Covered(Server!Refilled(buckets[c], now), allowed[c], time)
      BY <1>1, <2>1, <3>1, CoveredRefill
    <3>3. Server!Refilled(buckets[c], now) \in Bucket /\ Server!Refilled(buckets[c], now).here
      BY <1>1, <3>1, ServerAssumption DEF Server!Refilled, Bucket
    <3> QED
      BY <2>1, <3>2, <3>3
  <2>2. CASE ~buckets[c].here
    <3>1. allowed[c] \in Nat /\ Covered(Server!noBucket, allowed[c], time)
      BY <1>1, <1>3, <2>2
    <3>2. Covered([here |-> TRUE, tokens |-> Burst, lastSeen |-> now], allowed[c], time)
      BY <1>1, <3>1, CoveredNew
    <3>3. [here |-> TRUE, tokens |-> Burst, lastSeen |-> now] \in Bucket
      BY <1>1, ServerAssumption DEF Bucket
    <3> QED
      BY <2>2, <3>2, <3>3
  <2> QED
    BY <2>1, <2>2
<1>6. /\ table \in [Clients -> Bucket] /\ \A d \in Clients : Covered(table[d], allowed[d], time)
      /\ Server!Count(table) <= MaxBuckets
  <2> HIDE DEF room, bucket
  <2> QED
    BY <1>1, <1>3, <1>4
<1>7. buckets[c].here \/ Server!Count(room) < MaxBuckets
        => table[c].here \/ Server!Count(table) < MaxBuckets
  <2> HIDE DEF room, bucket
  <2> QED
    OBVIOUS
<1> HIDE DEF room, bucket, table
<1>8. CASE ~buckets[c].here /\ buckets' = room /\ UNCHANGED allowed
  BY <1>1, <1>3, <1>4, <1>8
<1>9. CASE /\ buckets[c].here \/ Server!Count(room) < MaxBuckets
           /\ buckets' = Server!cleanup([table EXCEPT ![c] = bucket], now) /\ UNCHANGED allowed
  <2>1. allowed[c] \in Nat /\ [allowed EXCEPT ![c] = allowed[c]] = allowed
    BY <1>1
  <2> DEFINE new == Server!cleanup([table EXCEPT ![c] = bucket], now)
  <2>2. /\ new \in [Clients -> Bucket] /\ Server!Count(new) <= MaxBuckets
        /\ \A d \in Clients : Covered(new[d], [allowed EXCEPT ![c] = allowed[c]][d], time)
    BY <1>1, <1>5, <1>6, <1>7, <1>9, <2>1, Written
  <2> QED
    BY <1>1, <1>9, <2>1, <2>2
<1>10. CASE /\ buckets[c].here \/ Server!Count(room) < MaxBuckets
            /\ bucket.tokens >= 1
            /\ buckets' = Server!cleanup([table EXCEPT ![c] = [bucket EXCEPT !.tokens = @ - 1]], now)
            /\ allowed' = [allowed EXCEPT ![c] = @ + 1]
  <2> DEFINE taken == [bucket EXCEPT !.tokens = @ - 1]
             new == Server!cleanup([table EXCEPT ![c] = taken], now)
  <2>1. allowed[c] \in Nat /\ allowed[c] + 1 \in Nat
        /\ allowed' = [allowed EXCEPT ![c] = allowed[c] + 1] /\ allowed' \in [Clients -> Nat]
    BY <1>1, <1>10
  <2>2. Covered(taken, allowed[c] + 1, time) /\ taken \in Bucket
    <3>1. Covered(taken, allowed[c] + 1, time)
      BY <1>1, <1>5, <1>10, <2>1, CoveredTake
    <3>2. taken \in Bucket
      BY <1>5 DEF Bucket
    <3> QED
      BY <3>1, <3>2
  <2> HIDE DEF taken
  <2>3. /\ new \in [Clients -> Bucket] /\ Server!Count(new) <= MaxBuckets
        /\ \A d \in Clients : Covered(new[d], [allowed EXCEPT ![c] = allowed[c] + 1][d], time)
    BY <1>1, <1>6, <1>7, <1>10, <2>1, <2>2, Written
  <2>4. buckets' = new
    BY <1>10 DEF taken
  <2> HIDE DEF new
  <2> QED
    BY <2>1, <2>3, <2>4
<1> QED
  BY <1>2, <1>8, <1>9, <1>10

(* Every step keeps what is covered.                                       *)
LEMMA RateNext == RateInv /\ [Next]_vars => RateInv'
<1> SUFFICES ASSUME RateInv, [Next]_vars PROVE RateInv'
  OBVIOUS
<1>1. ASSUME NEW h \in Handlers, Server!HandleBatch(h) PROVE RateInv'
  BY <1>1, ServerAssumption
     DEF RateInv, HandlerInv, Server!HandleBatch, Server!Answered, Server!idle, Server!Count
<1>2. ASSUME NEW h \in Handlers, Server!Allow(h) PROVE RateInv'
  <2>1. UNCHANGED time
    BY <1>2 DEF Server!Allow
  <2>2. HandlerInv'
    BY <1>2, <2>1 DEF RateInv, HandlerInv, Server!Allow, Server!Answered, Server!idle
  <2>3. Server!Count(buckets)' <= MaxBuckets
    BY <1>2, AllowStep DEF Server!Count
  <2> QED
    BY <1>2, <2>1, <2>2, <2>3, AllowStep DEF RateInv
<1>3. ASSUME NEW h \in Handlers, Server!HandleBody(h) PROVE RateInv'
  BY <1>3 DEF RateInv, HandlerInv, Server!HandleBody, Server!Answered, Server!idle, Server!Count
<1>4. CASE Server!Tick
  <2>1. /\ time' = time + 1 /\ UNCHANGED <<buckets, handlers, allowed>>
        /\ \A h \in Handlers : handlers[h].at = "lock" => time' - handlers[h].now <= MaxDelay
    BY <1>4 DEF Server!Tick
  <2>2. HandlerInv'
    BY <2>1 DEF RateInv, HandlerInv
  <2>3. \A c \in Clients : Covered(buckets[c], allowed[c], time + 1)
    BY CoveredTick DEF RateInv
  <2> QED
    BY <2>1, <2>2, <2>3 DEF RateInv, Server!Count
<1>5. CASE UNCHANGED serverVars
  BY <1>5 DEF RateInv, HandlerInv, serverVars, Server!Count
<1> QED
  BY <1>1, <1>2, <1>3, <1>4, <1>5, PartSteps DEF Server!Next

(* Whatever times the handlers read and whichever buckets are forgotten,   *)
(* no client gets through more often than the limits say, and the table    *)
(* never outgrows its size.                                                *)
THEOREM RateLimited == Spec => []RateBounded
<1>1. RateInv => RateBounded
  <2> SUFFICES ASSUME RateInv PROVE RateBounded
    OBVIOUS
  <2>1. ASSUME NEW c \in Clients, NEW pace \in Server!Paces
        PROVE  allowed[c] <= Burst + pace * time
    BY CoveredBound DEF RateInv
  <2> QED
    BY <2>1 DEF RateInv, RateBounded, Server!RateBounded
<1> QED
  BY <1>1, RateInit, RateNext, PTL DEF Spec
=============================================================================
