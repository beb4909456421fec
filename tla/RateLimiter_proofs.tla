------------------------- MODULE RateLimiter_proofs -------------------------
(* Proofs about RateLimiter, for every set of addresses and of days and for *)
(* all values of the capacity, the refill and the sweeper's idle time that  *)
(* satisfy LimiterAssumption.                                               *)
EXTENDS RateLimiter, FiniteSetTheorems, TLAPS

----------------------------------------------------------------------------
(* Operators.                                                               *)

LEMMA Numbers == Cap \in Nat /\ Unit \in Nat /\ Refill \in Nat /\ MaxIdle \in Nat
  BY LimiterAssumption

LEMMA TruncateType == \A a \in Addrs : truncateIP(a) \in Nets
  BY DEF Nets

LEMMA TimesType == \A x, y \in Nat : x * y \in Nat
  OBVIOUS

LEMMA TimesMonotone ==
    ASSUME NEW r \in Nat, NEW x \in Nat, NEW y \in Nat, x <= y
    PROVE  r * x <= r * y
  <1> DEFINE d == y - x
  <1>1. d \in Nat /\ y = x + d
    OBVIOUS
  <1>2. r * y = r * x + r * d /\ r * x \in Nat /\ r * d \in Nat
    <2> HIDE DEF d
    <2> QED BY <1>1
  <1> QED BY <1>2

\* What Filled returns for a bucket that was not filled in the future.
LEMMA FilledType ==
    ASSUME NEW b \in Bucket, NEW t \in Nat, b.lastFill <= t
    PROVE  /\ Filled(b, t) \in Bucket
           /\ Filled(b, t).lastFill = t
           /\ Filled(b, t).lastSeen = b.lastSeen
           /\ b.tokens \in Nat
           /\ Refill * (t - b.lastFill) \in Nat
           /\ Filled(b, t).tokens =
                IF b.tokens + Refill * (t - b.lastFill) <= Cap
                THEN b.tokens + Refill * (t - b.lastFill) ELSE Cap
  <1> DEFINE gain == Refill * (t - b.lastFill)
  <1>1. t - b.lastFill \in Nat
    BY DEF Bucket
  <1>2. gain \in Nat
    BY <1>1, Numbers, TimesType
  <1>3. CASE t > b.lastFill
    <2>1. Filled(b, t) = [b EXCEPT !.tokens = IF b.tokens + gain <= Cap
                                              THEN b.tokens + gain ELSE Cap,
                                   !.lastFill = t]
      BY <1>3 DEF Filled
    <2> HIDE DEF gain
    <2>2. b = [tokens |-> b.tokens, lastFill |-> b.lastFill, lastSeen |-> b.lastSeen]
          /\ b.tokens \in 0 .. Cap /\ b.lastFill \in Nat /\ b.lastSeen \in Nat
      BY DEF Bucket
    <2>3. (IF b.tokens + gain <= Cap THEN b.tokens + gain ELSE Cap) \in 0 .. Cap
      BY <2>2, <1>2, Numbers
    <2>4. Filled(b, t) = [tokens   |-> IF b.tokens + gain <= Cap
                                       THEN b.tokens + gain ELSE Cap,
                          lastFill |-> t, lastSeen |-> b.lastSeen]
      BY <2>1, <2>2
    <2>5. Filled(b, t) \in Bucket
      BY <2>2, <2>3, <2>4 DEF Bucket
    <2> QED BY <1>2, <2>2, <2>4, <2>5, Numbers DEF gain
  <1>4. CASE ~(t > b.lastFill)
    <2>1. b.lastFill = t /\ Filled(b, t) = b
      BY <1>4 DEF Filled, Bucket
    <2>2. gain = 0
      <3>1. t - b.lastFill = 0
        BY <2>1
      <3> QED BY <3>1, Numbers
    <2>3. b.tokens \in 0 .. Cap
      BY DEF Bucket
    <2> HIDE DEF gain
    <2>4. (IF b.tokens + gain <= Cap THEN b.tokens + gain ELSE Cap) = b.tokens
      BY <2>2, <2>3, Numbers
    <2> QED BY <1>2, <2>1, <2>3, <2>4, Numbers DEF gain
  <1> QED BY <1>3, <1>4

\* A bucket that has been idle for longer than MaxIdle is full: this is where
\* the values that main.go picks for the refill and the sweeper matter.
LEMMA IdleIsFull ==
    ASSUME NEW b \in Bucket, NEW t \in Nat, b.lastFill < t - MaxIdle
    PROVE  Filled(b, t).tokens = Cap
  <1>1. b.lastFill \in Nat /\ b.lastFill <= t /\ MaxIdle <= t - b.lastFill
        /\ t - b.lastFill \in Nat
    BY Numbers DEF Bucket
  <1>2. Refill * MaxIdle <= Refill * (t - b.lastFill)
    BY <1>1, Numbers, TimesMonotone
  <1>3. Refill * MaxIdle >= Cap /\ Refill * MaxIdle \in Nat
    BY LimiterAssumption, TimesType
  <1> DEFINE gain == Refill * (t - b.lastFill)
             idle == Refill * MaxIdle
  <1>4. /\ b.tokens \in Nat /\ gain \in Nat
        /\ Filled(b, t).tokens = IF b.tokens + gain <= Cap
                                 THEN b.tokens + gain ELSE Cap
    BY <1>1, FilledType
  <1>5. idle <= gain /\ idle >= Cap /\ idle \in Nat
    BY <1>2, <1>3
  <1> HIDE DEF gain, idle
  <1> QED BY <1>4, <1>5, Numbers

\* One tick later a bucket has Refill more, up to the capacity.
LEMMA FilledNext ==
    ASSUME NEW b \in Bucket, NEW t \in Nat, b.lastFill <= t,
           NEW u \in Nat, u = t + 1
    PROVE  Filled(b, u).tokens = IF Filled(b, t).tokens + Refill <= Cap
                                 THEN Filled(b, t).tokens + Refill ELSE Cap
  <1> DEFINE e == t - b.lastFill
             gain == Refill * e
             more == Refill * (u - b.lastFill)
  <1>1. e \in Nat /\ u - b.lastFill = e + 1 /\ b.lastFill <= u
    BY DEF Bucket
  <1>2. more = gain + Refill
    <2> HIDE DEF e
    <2>1. Refill * (e + 1) = Refill * e + Refill
      BY <1>1, Numbers
    <2> QED BY <1>1, <2>1
  <1>3. /\ b.tokens \in Nat /\ gain \in Nat
        /\ Filled(b, t).tokens = IF b.tokens + gain <= Cap
                                 THEN b.tokens + gain ELSE Cap
    BY FilledType
  <1>4. Filled(b, u).tokens = IF b.tokens + more <= Cap
                              THEN b.tokens + more ELSE Cap
    BY <1>1, FilledType
  <1> HIDE DEF gain, more
  <1> QED BY <1>2, <1>3, <1>4, Numbers

----------------------------------------------------------------------------
(* States that satisfy the inductive invariant.                             *)

\* What a request finds is its subnet's allowance, or a full bucket after a
\* change of day.
LEMMA FoundType ==
    ASSUME IInv, NEW n \in Nets
    PROVE  /\ Avail(n) \in 0 .. Cap
           /\ FoundBucket(n) \in Bucket
           /\ FoundBucket(n).lastFill = now
           /\ FoundBucket(n).lastSeen = now
           /\ FoundBucket(n).tokens = IF DayRolled THEN Cap ELSE Avail(n)
  <1> USE DEF IInv
  <1>1. now \in Nat
    BY DEF TypeOK
  <1>2. Avail(n) \in 0 .. Cap
    <2>1. CASE <<salt, n>> \in DOMAIN buckets
      <3>1. /\ buckets[<<salt, n>>] \in Bucket
            /\ buckets[<<salt, n>>].lastFill <= now
        BY <2>1 DEF TypeOK, ClockInv
      <3>2. Filled(buckets[<<salt, n>>], now) \in Bucket
        BY <1>1, <3>1, FilledType
      <3> QED BY <2>1, <3>2 DEF Avail, Bucket
    <2>2. CASE <<salt, n>> \notin DOMAIN buckets
      BY <2>2, Numbers DEF Avail
    <2> QED BY <2>1, <2>2
  <1>3. CASE key(n) \in DOMAIN Kept
    <2>1. ~DayRolled
      BY <1>3 DEF Kept, NoBuckets
    <2>2. Kept = buckets /\ key(n) = <<salt, n>>
      BY <2>1 DEF Kept, key, SaltNow
    <2> DEFINE b == buckets[<<salt, n>>]
               f == Filled(b, now)
    <2>3. b \in Bucket /\ b.lastFill <= now /\ b.lastSeen = b.lastFill
      BY <1>3, <2>2 DEF TypeOK, ClockInv
    <2>4. f \in Bucket /\ f.lastFill = now
      BY <1>1, <2>3, FilledType
    <2>5. FoundBucket(n) = [f EXCEPT !.lastSeen = now]
      BY <1>3, <2>2 DEF FoundBucket
    <2>6. Avail(n) = f.tokens
      BY <1>3, <2>2 DEF Avail
    <2> HIDE DEF f
    <2> QED BY <1>1, <1>2, <2>1, <2>4, <2>5, <2>6 DEF Bucket
  <1>4. CASE key(n) \notin DOMAIN Kept
    <2>1. FoundBucket(n) = [tokens |-> Cap, lastFill |-> now, lastSeen |-> now]
      BY <1>4 DEF FoundBucket
    <2>2. CASE ~DayRolled
      <3>1. Kept = buckets /\ key(n) = <<salt, n>>
        BY <2>2 DEF Kept, key, SaltNow
      <3>2. Avail(n) = Cap
        BY <1>4, <3>1 DEF Avail
      <3> QED BY <1>1, <1>2, <2>1, <2>2, <3>2, Numbers DEF Bucket
    <2>3. CASE DayRolled
      BY <1>1, <1>2, <2>1, <2>3, Numbers DEF Bucket
    <2> QED BY <2>2, <2>3
  <1> QED BY <1>3, <1>4
----------------------------------------------------------------------------
(* The steps of the limiter.                                                *)

\* After Allow the caller's subnet holds what it found, less a token if the
\* request was admitted; the others hold what they would have found.
LEMMA AllowEffect ==
    ASSUME IInv, NEW a \in Addrs, Allow(a)
    PROVE  LET n == truncateIP(a)
               b == FoundBucket(n)
           IN  /\ salt' = SaltNow /\ saltDay' = today
               /\ \/ /\ b.tokens >= Unit
                     /\ buckets' = Put(Kept, key(n), [b EXCEPT !.tokens = @ - Unit])
                     /\ Avail(n)' = b.tokens - Unit
                     /\ winCount' = [winCount EXCEPT ![n] = @ + 1]
                     /\ answer' = "allowed"
                  \/ /\ b.tokens < Unit
                     /\ buckets' = Put(Kept, key(n), b)
                     /\ Avail(n)' = b.tokens
                     /\ winCount' = winCount
                     /\ answer' = "refused"
               /\ \A m \in Nets \ {n} :
                      Avail(m)' = IF DayRolled THEN Cap ELSE Avail(m)
  <1> DEFINE n == truncateIP(a)
             b == FoundBucket(n)
  <1>1. n \in Nets /\ now' = now /\ salt' = SaltNow /\ saltDay' = today
    BY TruncateType DEF Allow, envvars
  <1>2. b \in Bucket /\ b.lastFill = now
    BY <1>1, FoundType
  <1>3. ASSUME NEW c, c.lastFill = now, buckets' = Put(Kept, key(n), c)
        PROVE  Avail(n)' = c.tokens
    <2>1. <<salt', n>> \in DOMAIN buckets' /\ buckets'[<<salt', n>>] = c
      BY <1>1, <1>3 DEF Put, key
    <2>2. Filled(c, now) = c
      BY <1>3, <1>1 DEF Filled, IInv, TypeOK
    <2> QED BY <1>1, <2>1, <2>2 DEF Avail
  <1>4. ASSUME NEW c, buckets' = Put(Kept, key(n), c), NEW m \in Nets \ {n}
        PROVE  Avail(m)' = IF DayRolled THEN Cap ELSE Avail(m)
    <2>1. <<salt', m>> # key(n)
      BY <1>1, <1>4 DEF key
    <2>2. CASE DayRolled
      <3>1. <<salt', m>> \notin DOMAIN buckets'
        BY <1>4, <2>1, <2>2 DEF Put, Kept, NoBuckets
      <3> QED BY <2>2, <3>1 DEF Avail
    <2>3. CASE ~DayRolled
      <3>1. salt' = salt /\ Kept = buckets
        BY <1>1, <2>3 DEF SaltNow, Kept
      <3>2. /\ <<salt, m>> \in DOMAIN buckets' <=> <<salt, m>> \in DOMAIN buckets
            /\ <<salt, m>> \in DOMAIN buckets =>
                  buckets'[<<salt, m>>] = buckets[<<salt, m>>]
        BY <1>4, <2>1, <3>1 DEF Put
      <3> QED BY <1>1, <2>3, <3>1, <3>2 DEF Avail
    <2> QED BY <2>2, <2>3
  <1>5. CASE /\ b.tokens >= Unit
             /\ buckets' = Put(Kept, key(n), [b EXCEPT !.tokens = @ - Unit])
             /\ answer' = "allowed"
             /\ winCount' = [winCount EXCEPT ![n] = @ + 1]
    <2> DEFINE c == [b EXCEPT !.tokens = @ - Unit]
    <2>1. c.lastFill = now /\ c.tokens = b.tokens - Unit
      BY <1>2 DEF Bucket
    <2>2. buckets' = Put(Kept, key(n), c)
      BY <1>5
    <2> HIDE DEF c
    <2>3. Avail(n)' = b.tokens - Unit
      BY <1>3, <2>1, <2>2
    <2>4. \A m \in Nets \ {n} : Avail(m)' = IF DayRolled THEN Cap ELSE Avail(m)
      BY <1>4, <2>2
    <2> QED BY <1>1, <1>5, <2>3, <2>4
  <1>6. CASE /\ b.tokens < Unit
             /\ buckets' = Put(Kept, key(n), b)
             /\ answer' = "refused"
             /\ UNCHANGED winCount
    <2>1. Avail(n)' = b.tokens
      BY <1>2, <1>3, <1>6
    <2>2. \A m \in Nets \ {n} : Avail(m)' = IF DayRolled THEN Cap ELSE Avail(m)
      BY <1>4, <1>6
    <2> QED BY <1>1, <1>6, <2>1, <2>2
  <1> QED BY <1>5, <1>6 DEF Allow

\* The sweeper changes no subnet's allowance.
LEMMA SweepEffect ==
    ASSUME IInv, Sweep, NEW n \in Nets
    PROVE  Avail(n)' = Avail(n)
  <1>1. /\ buckets' = [k \in DOMAIN buckets \ Swept |-> buckets[k]]
        /\ salt' = salt /\ now' = now
    BY DEF Sweep, envvars
  <1> DEFINE k == <<salt, n>>
  <1>2. CASE k \in Swept
    <2>1. /\ k \in DOMAIN buckets /\ buckets[k] \in Bucket /\ now \in Nat
          /\ buckets[k].lastFill < now - MaxIdle
      BY <1>2 DEF Swept, IInv, TypeOK, ClockInv
    <2>2. Avail(n) = Cap
      BY <2>1, IdleIsFull DEF Avail
    <2>3. k \notin DOMAIN buckets'
      BY <1>1, <1>2
    <2> QED BY <1>1, <2>2, <2>3 DEF Avail
  <1>3. CASE k \notin Swept
    <2>1. /\ k \in DOMAIN buckets' <=> k \in DOMAIN buckets
          /\ k \in DOMAIN buckets => buckets'[k] = buckets[k]
      BY <1>1, <1>3
    <2> QED BY <1>1, <2>1 DEF Avail
  <1> QED BY <1>2, <1>3

\* A tick adds Refill to every allowance that is not full.
LEMMA TickEffect ==
    ASSUME IInv, Tick, NEW n \in Nets
    PROVE  Avail(n)' = IF Avail(n) + Refill <= Cap THEN Avail(n) + Refill ELSE Cap
  <1>1. /\ buckets' = buckets /\ salt' = salt
        /\ now' = now + 1 /\ now \in Nat /\ now' \in Nat
    BY DEF Tick, limvars, IInv, TypeOK
  <1>2. CASE <<salt, n>> \in DOMAIN buckets
    <2> DEFINE b == buckets[<<salt, n>>]
    <2>1. b \in Bucket /\ b.lastFill <= now
      BY <1>2 DEF IInv, TypeOK, ClockInv
    <2>2. Filled(b, now').tokens = IF Filled(b, now).tokens + Refill <= Cap
                                   THEN Filled(b, now).tokens + Refill ELSE Cap
      BY <1>1, <2>1, FilledNext
    <2> QED BY <1>1, <1>2, <2>2 DEF Avail
  <1>3. CASE <<salt, n>> \notin DOMAIN buckets
    BY <1>1, <1>3, Numbers DEF Avail
  <1> QED BY <1>2, <1>3
----------------------------------------------------------------------------
(* The inductive invariant.                                                 *)

LEMMA InitInv == Init => IInv
  <1> SUFFICES ASSUME Init PROVE IInv
    OBVIOUS
  <1> USE DEF Init
  <1>1. TypeOK
    BY DayAssumption DEF TypeOK, NoBuckets
  <1>2. KeysOfCurrentSalt
    BY DEF KeysOfCurrentSalt, NoBuckets
  <1>3. ~DayRolled
    BY DEF DayRolled
  <1>4. ClockInv
    BY <1>3 DEF ClockInv, NoBuckets, Due
  <1>5. WindowInv
    <2>1. \A n \in Nets : Avail(n) = Cap /\ winCount[n] = 0
      BY DEF Avail, NoBuckets
    <2>2. Unit * 0 = 0 /\ Refill * (0 - 0) = 0 /\ (1 + 0 - 0) * Cap = Cap
      BY Numbers
    <2> QED BY <1>3, <2>1, <2>2, Numbers DEF WindowInv, Due
  <1> QED BY <1>1, <1>2, <1>4, <1>5 DEF IInv

LEMMA TypeNext == IInv /\ [Next]_vars => TypeOK'
  <1> SUFFICES ASSUME IInv, [Next]_vars PROVE TypeOK'
    OBVIOUS
  <1> USE DEF IInv
  <1>1. ASSUME NEW a \in Addrs, Allow(a) PROVE TypeOK'
    <2> DEFINE n == truncateIP(a)
               b == FoundBucket(n)
    <2>1. n \in Nets /\ b \in Bucket /\ SaltNow \in Nat
      BY TruncateType, FoundType DEF SaltNow, TypeOK
    <2>2. /\ DOMAIN Kept \subseteq Keys
          /\ \A k \in DOMAIN Kept : Kept[k] \in Bucket
      BY DEF Kept, NoBuckets, TypeOK
    <2>3. ASSUME NEW c \in Bucket, buckets' = Put(Kept, key(n), c)
          PROVE  /\ DOMAIN buckets' \subseteq Keys
                 /\ buckets' = [k \in DOMAIN buckets' |-> buckets'[k]]
                 /\ \A k \in DOMAIN buckets' : buckets'[k] \in Bucket
      <3>1. key(n) \in Keys
        BY <2>1 DEF key, Keys
      <3> QED BY <2>2, <2>3, <3>1 DEF Put
    <2>4. /\ DOMAIN buckets' \subseteq Keys
          /\ buckets' = [k \in DOMAIN buckets' |-> buckets'[k]]
          /\ \A k \in DOMAIN buckets' : buckets'[k] \in Bucket
      <3>1. CASE b.tokens >= Unit /\ buckets' = Put(Kept, key(n), [b EXCEPT !.tokens = @ - Unit])
        <4>1. [b EXCEPT !.tokens = @ - Unit] \in Bucket
          <5>1. b.tokens \in 0 .. Cap /\ b.tokens - Unit \in 0 .. Cap
            BY <2>1, <3>1, Numbers DEF Bucket
          <5> QED BY <2>1, <5>1 DEF Bucket
        <4> QED BY <2>3, <3>1, <4>1
      <3>2. CASE buckets' = Put(Kept, key(n), b)
        BY <2>1, <2>3, <3>2
      <3> QED BY <1>1, <3>1, <3>2 DEF Allow
    <2>5. winCount' \in [Nets -> Nat] /\ answer' \in {"none", "allowed", "refused"}
      BY <1>1, <2>1 DEF Allow, TypeOK
    <2>6. keyedOn' \in SUBSET Days
      BY <1>1 DEF Allow, TypeOK
    <2> QED BY <1>1, <2>1, <2>4, <2>5, <2>6 DEF Allow, TypeOK, envvars
  <1>2. CASE Sweep
    BY <1>2 DEF Sweep, TypeOK, envvars, winvars
  <1>3. CASE Tick
    BY <1>3 DEF Tick, TypeOK, limvars, winvars
  <1>4. CASE DayChange
    BY <1>4 DEF DayChange, TypeOK, limvars
  <1>5. CASE OpenWindow
    BY <1>5 DEF OpenWindow, TypeOK, limvars, envvars
  <1>6. CASE UNCHANGED vars
    BY <1>6 DEF vars, TypeOK, limvars, envvars, winvars
  <1> QED BY <1>1, <1>2, <1>3, <1>4, <1>5, <1>6 DEF Next

LEMMA SaltNext == IInv /\ [Next]_vars => KeysOfCurrentSalt'
  <1> SUFFICES ASSUME IInv, [Next]_vars PROVE KeysOfCurrentSalt'
    OBVIOUS
  <1> USE DEF IInv, KeysOfCurrentSalt
  <1>1. ASSUME NEW a \in Addrs, Allow(a) PROVE KeysOfCurrentSalt'
    <2>1. \A k \in DOMAIN Kept : k[1] = SaltNow
      BY DEF Kept, NoBuckets, SaltNow
    <2>2. \A n : key(n)[1] = SaltNow
      BY DEF key
    <2>3. PICK n, c : buckets' = Put(Kept, key(n), c)
      BY <1>1 DEF Allow
    <2> QED BY <1>1, <2>1, <2>2, <2>3 DEF Allow, Put
  <1>2. CASE Sweep
    BY <1>2 DEF Sweep
  <1>3. CASE Tick
    BY <1>3 DEF Tick, limvars
  <1>4. CASE DayChange
    BY <1>4 DEF DayChange, limvars
  <1>5. CASE OpenWindow
    BY <1>5 DEF OpenWindow, limvars
  <1>6. CASE UNCHANGED vars
    BY <1>6 DEF vars, limvars
  <1> QED BY <1>1, <1>2, <1>3, <1>4, <1>5, <1>6 DEF Next

LEMMA ClockNext == IInv /\ [Next]_vars => ClockInv'
  <1> SUFFICES ASSUME IInv, [Next]_vars PROVE ClockInv'
    OBVIOUS
  <1> USE DEF IInv, ClockInv
  <1>1. ASSUME NEW a \in Addrs, Allow(a) PROVE ClockInv'
    <2> DEFINE n == truncateIP(a)
               b == FoundBucket(n)
    <2>1. /\ b \in Bucket /\ b.lastFill = now /\ b.lastSeen = now /\ now \in Nat
      BY TruncateType, FoundType DEF TypeOK
    <2>2. /\ now' = now /\ winStart' = winStart /\ winDays' = winDays
          /\ saltDay' = today /\ today' = today
      BY <1>1 DEF Allow, envvars
    <2>3. \A k \in DOMAIN Kept : /\ Kept[k].lastFill <= now
                                 /\ Kept[k].lastSeen = Kept[k].lastFill
      BY DEF Kept, NoBuckets
    <2>4. PICK c : /\ buckets' = Put(Kept, key(n), c)
                   /\ c.lastFill = now /\ c.lastSeen = now
      <3>1. /\ [b EXCEPT !.tokens = @ - Unit].lastFill = now
            /\ [b EXCEPT !.tokens = @ - Unit].lastSeen = now
        BY <2>1 DEF Bucket
      <3> QED BY <1>1, <2>1, <3>1 DEF Allow
    <2>5. \A k \in DOMAIN buckets' : /\ buckets'[k].lastFill <= now
                                     /\ buckets'[k].lastSeen = buckets'[k].lastFill
      BY <2>1, <2>3, <2>4 DEF Put
    <2>6. keyedOn' \subseteq {today}
      <3>1. CASE DayRolled
        BY <1>1, <3>1 DEF Allow
      <3>2. CASE ~DayRolled
        <4>1. today = saltDay
          BY <3>2, DayAssumption DEF DayRolled, TypeOK
        <4> QED BY <1>1, <3>2, <4>1 DEF Allow
      <3> QED BY <3>1, <3>2
    <2>7. Due' = 0
      BY <2>2 DEF Due, DayRolled
    <2> QED BY <2>2, <2>5, <2>6, <2>7 DEF TypeOK
  <1>2. CASE Sweep
    BY <1>2 DEF Sweep, envvars, winvars, Due, DayRolled
  <1>3. CASE Tick
    BY <1>3 DEF Tick, limvars, winvars, Due, DayRolled, TypeOK, Bucket
  <1>4. CASE DayChange
    <2>1. Due' <= 1 /\ winDays' >= 1
      BY <1>4 DEF DayChange, Due, TypeOK
    <2> QED BY <1>4, <2>1 DEF DayChange, limvars, Due, TypeOK
  <1>5. CASE OpenWindow
    BY <1>5 DEF OpenWindow, limvars, envvars, Due, DayRolled, TypeOK
  <1>6. CASE UNCHANGED vars
    BY <1>6 DEF vars, limvars, envvars, winvars, Due, DayRolled
  <1> QED BY <1>1, <1>2, <1>3, <1>4, <1>5, <1>6 DEF Next
LEMMA WindowNext == IInv /\ [Next]_vars => WindowInv'
  <1> SUFFICES ASSUME IInv, [Next]_vars, NEW m \in Nets
               PROVE  (Unit * winCount[m] + Avail(m)
                         <= (1 + winDays - Due) * Cap + Refill * (now - winStart))'
    BY DEF WindowInv
  <1> DEFINE spent == Unit * winCount[m]
             room  == (1 + winDays - Due) * Cap
             flow  == Refill * (now - winStart)
  <1>1. spent \in Nat /\ room \in Nat /\ flow \in Nat
        /\ Avail(m) \in 0 .. Cap /\ spent + Avail(m) <= room + flow
    <2>1. winCount[m] \in Nat /\ 1 + winDays - Due \in Nat /\ now - winStart \in Nat
      BY DEF IInv, TypeOK, ClockInv, Due
    <2>2. spent \in Nat /\ room \in Nat /\ flow \in Nat
      BY <2>1, Numbers, TimesType
    <2> QED BY <2>2, FoundType DEF IInv, WindowInv
  <1>2. ASSUME NEW a \in Addrs, Allow(a)
        PROVE  spent' + Avail(m)' <= room' + flow'
    <2> DEFINE n == truncateIP(a)
               b == FoundBucket(n)
    <2>1. /\ now' = now /\ winStart' = winStart /\ winDays' = winDays
          /\ saltDay' = today /\ today' = today /\ n \in Nets
      BY <1>2, TruncateType DEF Allow, envvars
    <2>2. flow' = flow
      BY <2>1
    <2>3. room' = IF DayRolled THEN room + Cap ELSE room
      <3>1. Due' = 0
        BY <2>1 DEF Due, DayRolled
      <3>2. CASE DayRolled
        <4>1. 1 + winDays - Due = winDays /\ winDays \in Nat
          BY <3>2 DEF Due, IInv, TypeOK
        <4>2. (1 + winDays - 0) * Cap = winDays * Cap + Cap
          BY <4>1, Numbers
        <4> QED BY <2>1, <3>1, <3>2, <4>1, <4>2
      <3>3. CASE ~DayRolled
        BY <2>1, <3>1, <3>3 DEF Due
      <3> QED BY <3>2, <3>3
    <2>4. /\ b.tokens \in 0 .. Cap
          /\ b.tokens = IF DayRolled THEN Cap ELSE Avail(n)
      BY <2>1, FoundType DEF Bucket
    <2>5. CASE m = n
      <3>1. CASE Avail(n)' = b.tokens - Unit /\ winCount' = [winCount EXCEPT ![n] = @ + 1]
        <4>1. winCount[m] \in Nat /\ winCount'[m] = winCount[m] + 1
          BY <2>5, <3>1 DEF IInv, TypeOK
        <4>2. Unit * (winCount[m] + 1) = spent + Unit
          BY <4>1, Numbers
        <4>3. spent' = spent + Unit
          BY <4>1, <4>2
        <4> HIDE DEF spent, room, flow
        <4> QED BY <1>1, <2>2, <2>3, <2>4, <2>5, <3>1, <4>3, Numbers
      <3>2. CASE Avail(n)' = b.tokens /\ winCount' = winCount
        <4>1. spent' = spent
          BY <3>2
        <4> HIDE DEF spent, room, flow
        <4> QED BY <1>1, <2>2, <2>3, <2>4, <2>5, <3>2, <4>1, Numbers
      <3> QED BY <1>2, <3>1, <3>2, AllowEffect
    <2>6. CASE m # n
      <3>1. Avail(m)' = IF DayRolled THEN Cap ELSE Avail(m)
        BY <1>2, <2>6, AllowEffect
      <3>2. spent' = spent
        BY <1>2, <2>1, <2>6 DEF Allow, IInv, TypeOK
      <3> HIDE DEF spent, room, flow
      <3> QED BY <1>1, <2>2, <2>3, <3>1, <3>2, Numbers
    <2> QED BY <2>5, <2>6
  <1>3. ASSUME Sweep PROVE spent' + Avail(m)' <= room' + flow'
    <2>1. spent' = spent /\ room' = room /\ flow' = flow
      BY <1>3 DEF Sweep, envvars, winvars, Due, DayRolled
    <2>2. Avail(m)' = Avail(m)
      BY <1>3, SweepEffect
    <2> QED BY <1>1, <2>1, <2>2
  <1>4. ASSUME Tick PROVE spent' + Avail(m)' <= room' + flow'
    <2>1. spent' = spent /\ room' = room
      BY <1>4 DEF Tick, limvars, winvars, Due, DayRolled
    <2>2. flow' = flow + Refill
      <3>1. now - winStart \in Nat /\ now' - winStart' = (now - winStart) + 1
        BY <1>4 DEF Tick, winvars, IInv, TypeOK, ClockInv
      <3>2. \A d \in Nat : Refill * (d + 1) = Refill * d + Refill
        BY Numbers
      <3>3. Refill * ((now - winStart) + 1) = Refill * (now - winStart) + Refill
        BY <3>1, <3>2
      <3> QED BY <3>1, <3>3
    <2>3. Avail(m)' = IF Avail(m) + Refill <= Cap THEN Avail(m) + Refill ELSE Cap
      BY <1>4, TickEffect
    <2> HIDE DEF spent, room, flow
    <2> QED BY <1>1, <2>1, <2>2, <2>3, Numbers
  <1>5. ASSUME DayChange PROVE spent' + Avail(m)' <= room' + flow'
    <2>1. spent' = spent /\ flow' = flow /\ Avail(m)' = Avail(m)
      BY <1>5 DEF DayChange, limvars, Avail
    <2>2. room <= room'
      <3>1. 1 + winDays - Due <= 1 + winDays' - Due'
            /\ 1 + winDays - Due \in Nat /\ 1 + winDays' - Due' \in Nat
        BY <1>5 DEF DayChange, Due, IInv, TypeOK, ClockInv
      <3>2. \A x, y \in Nat : x <= y => x * Cap <= y * Cap
        <4>1. \A x \in Nat : x * Cap = Cap * x
          BY Numbers
        <4> QED BY <4>1, Numbers, TimesMonotone
      <3> QED BY <3>1, <3>2
    <2>3. room' \in Nat
      <3>1. 1 + winDays' - Due' \in Nat
        BY <1>5 DEF DayChange, Due, IInv, TypeOK, ClockInv
      <3> QED BY <3>1, Numbers, TimesType
    <2> HIDE DEF spent, room, flow
    <2> QED BY <1>1, <2>1, <2>2, <2>3
  <1>6. ASSUME OpenWindow PROVE spent' + Avail(m)' <= room' + flow'
    <2>1. Avail(m)' = Avail(m) /\ winCount'[m] = 0 /\ now' - winStart' = 0
          /\ 1 + winDays' - Due' = 1
      BY <1>6 DEF OpenWindow, limvars, envvars, Avail, Due, DayRolled, IInv, TypeOK
    <2>2. Unit * 0 = 0 /\ Refill * 0 = 0 /\ 1 * Cap = Cap
      BY Numbers
    <2>3. spent' = 0 /\ flow' = 0 /\ room' = Cap
      BY <2>1, <2>2
    <2> HIDE DEF spent, room, flow
    <2> QED BY <1>1, <2>1, <2>3, Numbers
  <1>7. ASSUME UNCHANGED vars PROVE spent' + Avail(m)' <= room' + flow'
    <2>1. spent' = spent /\ room' = room /\ flow' = flow /\ Avail(m)' = Avail(m)
      BY <1>7 DEF vars, limvars, envvars, winvars, Due, DayRolled, Avail
    <2> QED BY <1>1, <2>1
  <1> QED BY <1>2, <1>3, <1>4, <1>5, <1>6, <1>7 DEF Next

----------------------------------------------------------------------------
(* The theorems.                                                            *)

\* The inductive invariant holds in every reachable state of the limiter.
THEOREM Invariance == Spec => []IInv
  <1>1. IInv /\ [Next]_vars => IInv'
    BY TypeNext, SaltNext, ClockNext, WindowNext DEF IInv
  <1> QED BY <1>1, InitInv, PTL DEF Spec

\* Every component keeps its type, and no bucket ever holds more than the
\* capacity or less than nothing (limiter.go:98, :104-105).
THEOREM TypeCorrect == Spec => []TypeOK
  <1>1. IInv => TypeOK
    BY DEF IInv
  <1> QED BY <1>1, Invariance, PTL

\* No window of time lets a subnet through more often than its budget allows,
\* for every capacity, refill rate and sweep time with Refill * MaxIdle >= Cap.
THEOREM WindowBounded == Spec => []WindowBound
  <1>1. IInv => WindowBound
    <2> SUFFICES ASSUME IInv, NEW n \in Nets
                 PROVE  Unit * winCount[n] <= (1 + winDays) * Cap + Refill * (now - winStart)
      BY DEF WindowBound
    <2> DEFINE spent == Unit * winCount[n]
               room  == (1 + winDays - Due) * Cap
               limit == (1 + winDays) * Cap
               flow  == Refill * (now - winStart)
    <2>1. /\ winCount[n] \in Nat /\ 1 + winDays - Due \in Nat /\ 1 + winDays \in Nat
          /\ now - winStart \in Nat /\ 1 + winDays - Due <= 1 + winDays
      BY DEF IInv, TypeOK, ClockInv, Due
    <2>2. spent \in Nat /\ room \in Nat /\ limit \in Nat /\ flow \in Nat
      BY <2>1, Numbers, TimesType
    <2>3. room <= limit
      <3>1. \A x \in Nat : x * Cap = Cap * x
        BY Numbers
      <3> QED BY <2>1, <3>1, Numbers, TimesMonotone
    <2>4. spent + Avail(n) <= room + flow /\ Avail(n) \in 0 .. Cap
      BY FoundType DEF IInv, WindowInv
    <2>5. spent <= limit + flow
      <3> HIDE DEF spent, room, limit, flow
      <3> QED BY <2>2, <2>3, <2>4, Numbers
    <2> QED BY <2>5
  <1> QED BY <1>1, Invariance, PTL

\* No bucket outlives the salt of its key.
THEOREM NoStaleKeys == Spec => []KeysOfCurrentSalt
  <1>1. IInv => KeysOfCurrentSalt
    BY DEF IInv
  <1> QED BY <1>1, Invariance, PTL

\* No salt hashes addresses on two days.
THEOREM SaltRotates == Spec => []OneDayPerSalt
  <1>1. IInv => OneDayPerSalt
    <2> SUFFICES ASSUME IInv PROVE Cardinality(keyedOn) <= 1
      BY DEF OneDayPerSalt
    <2>1. keyedOn \subseteq {saltDay}
      BY DEF IInv, ClockInv
    <2>2. IsFiniteSet({saltDay}) /\ Cardinality({saltDay}) = 1
      BY FS_Singleton
    <2> QED BY <2>1, <2>2, FS_Subset
  <1> QED BY <1>1, Invariance, PTL
----------------------------------------------------------------------------
(* The refinement.                                                          *)

LEMMA RefinesInit == Init => Abstract!BInit
  <1> SUFFICES ASSUME Init PROVE Abstract!BInit
    OBVIOUS
  <1>1. \A n \in Nets : Avail(n) = Cap
    BY DEF Init, Avail, NoBuckets
  <1> QED BY <1>1 DEF Init, Abstract!BInit

LEMMA RefinesNext == IInv /\ [Next]_vars => [Abstract!BNext]_(Abstract!bvars)
  <1> DEFINE av == [n \in Nets |-> Avail(n)]
  <1> SUFFICES ASSUME IInv, [Next]_vars
               PROVE  Abstract!BNext \/ UNCHANGED Abstract!bvars
    OBVIOUS
  <1>0. DayRolled <=> today # saltDay
    <2>1. today \in [yd : Nat, year : Nat] /\ saltDay \in [yd : Nat, year : Nat]
      BY DayAssumption DEF IInv, TypeOK
    <2> QED BY <2>1 DEF DayRolled
  <1>1. ASSUME NEW a \in Addrs, Allow(a) PROVE Abstract!BNext
    <2> DEFINE n == truncateIP(a)
               b == FoundBucket(n)
               found == IF today = saltDay THEN av ELSE [m \in Nets |-> Cap]
    <2>1. /\ n \in Nets /\ saltDay' = today /\ today' = today
          /\ b.tokens = found[n] /\ b.tokens \in 0 .. Cap
      BY <1>0, <1>1, TruncateType, FoundType DEF Allow, envvars, Bucket
    <2>2. \A m \in Nets \ {n} : Avail(m)' = found[m]
      BY <1>0, <1>1, AllowEffect
    <2>3. Abstract!Found = found
      BY DEF Abstract!Found
    <2>4. CASE b.tokens >= Unit /\ Avail(n)' = b.tokens - Unit /\ answer' = "allowed"
      <3>1. av' = [found EXCEPT ![n] = @ - Unit]
        BY <2>1, <2>2, <2>4
      <3>2. Abstract!Admit(n)
        <4> HIDE DEF found
        <4> QED BY <2>1, <2>3, <2>4, <3>1 DEF Abstract!Admit
      <3> QED BY <2>1, <3>2 DEF Abstract!BNext
    <2>5. CASE b.tokens < Unit /\ Avail(n)' = b.tokens /\ answer' = "refused"
      <3>1. av' = found
        BY <2>1, <2>2, <2>5
      <3>2. Abstract!Refuse(n)
        <4> HIDE DEF found
        <4> QED BY <2>1, <2>3, <2>5, <3>1 DEF Abstract!Refuse
      <3> QED BY <2>1, <3>2 DEF Abstract!BNext
    <2> QED BY <1>1, <2>4, <2>5, AllowEffect
  <1>2. ASSUME Sweep PROVE UNCHANGED Abstract!bvars
    <2>1. \A n \in Nets : Avail(n)' = Avail(n)
      BY <1>2, SweepEffect
    <2>2. av' = av
      BY <2>1
    <2> QED BY <1>2, <2>2 DEF Sweep, envvars, Abstract!bvars
  <1>3. ASSUME Tick PROVE Abstract!BNext
    <2>1. \A n \in Nets : Avail(n)' = IF Avail(n) + Refill <= Cap
                                      THEN Avail(n) + Refill ELSE Cap
      BY <1>3, TickEffect
    <2>2. av' = [n \in Nets |-> IF av[n] + Refill <= Cap
                                THEN av[n] + Refill ELSE Cap]
      BY <2>1
    <2>3. Abstract!Pass
      BY <1>3, <2>2 DEF Tick, limvars, Abstract!Pass
    <2> QED BY <2>3 DEF Abstract!BNext
  <1>4. ASSUME DayChange PROVE Abstract!BNext
    <2>1. av' = av
      BY <1>4 DEF DayChange, limvars, Avail
    <2>2. Abstract!TurnDay
      BY <1>4, <2>1 DEF DayChange, limvars, Abstract!TurnDay
    <2> QED BY <2>2 DEF Abstract!BNext
  <1>5. ASSUME OpenWindow PROVE UNCHANGED Abstract!bvars
    BY <1>5 DEF OpenWindow, limvars, envvars, Avail, Abstract!bvars
  <1>6. ASSUME UNCHANGED vars PROVE UNCHANGED Abstract!bvars
    BY <1>6 DEF vars, limvars, envvars, Avail, Abstract!bvars
  <1> QED BY <1>1, <1>2, <1>3, <1>4, <1>5, <1>6 DEF Next

\* The map of salted buckets with its lazy refill and its sweeper behaves, for
\* every value of the constants, as one allowance per subnet that grows with
\* every tick; the sweeper is invisible.
THEOREM Refinement == Spec => ImplementsTokenBucket
  BY InitInv, Invariance, RefinesInit, RefinesNext, PTL
     DEF Spec, ImplementsTokenBucket, Abstract!BSpec

=============================================================================
