---------------------------- MODULE RateLimiter ----------------------------
(* The counter's rate limiter (counter/internal/ratelimit/limiter.go) with  *)
(* the sweeper that counter/main.go runs beside it. Each call of Allow and  *)
(* of Sweep holds the limiter's mutex from its first line to its last, so   *)
(* each is one action. Tokens are counted in fractions (Unit of them make a *)
(* token) and time in ticks, so the code's 40 tokens and 0.5 tokens/s are   *)
(* integers; rounding of float64 is left out.                               *)
(*                                                                          *)
(* time.Time carries two clocks, and the code uses both: Sub and Before     *)
(* read the monotonic one (now), YearDay and Year the wall clock (today),   *)
(* which may be set to any other day at any moment.                         *)
EXTENDS Integers, FiniteSets

CONSTANTS Addrs,         \* client addresses: [form, net, host] records
          Cap, Unit, Refill,
          MaxIdle,       \* Sweep's argument
          Days,          \* [yd, year] records: what YearDay() and Year() return
          MaxTime, MaxDayShifts, MaxWindows   \* bounds of the model

----------------------------------------------------------------------------
(* Addresses. "mapped" is an IPv4 address written as IPv6, which To4 turns  *)
(* into IPv4; "text" is what net.ParseIP rejects.                           *)

truncateIP(a) ==
    CASE a.form \in {"v4", "mapped"} -> [form |-> "v4", net |-> a.net, host |-> 0]
      [] a.form = "v6"               -> [form |-> "v6", net |-> a.net, host |-> 0]
      [] OTHER                       -> a

Nets == {truncateIP(a) : a \in Addrs}

\* main.go:47 and :55 pick values for which an idle bucket is full again
\* before the sweeper may drop it: 0.5 tokens/s for 30 min against 40 tokens.
ASSUME LimiterAssumption ==
    /\ Cap \in Nat /\ Unit \in Nat \ {0} /\ Refill \in Nat /\ MaxIdle \in Nat
    /\ Unit <= Cap
    /\ Refill * MaxIdle >= Cap
    /\ MaxTime \in Nat /\ MaxDayShifts \in Nat /\ MaxWindows \in Nat

ASSUME AddrAssumption ==
    \A a \in Addrs : a.form \in {"v4", "mapped", "v6", "text"}

ASSUME DayAssumption == /\ Days # {}
                        /\ Days \subseteq [yd : Nat, year : Nat]

VARIABLES
    buckets,   \* the map of live buckets, by <<salt, net>> (the hash of both)
    salt,      \* the serial number of the current salt: every salt is fresh
    saltDay,   \* saltYD and saltYear
    now,       \* the monotonic clock
    today,     \* the wall clock's day
    answer,    \* what the latest Allow returned
    shifts,    \* how often the wall clock's day has changed
    (* History, read by no action of the code: *)
    winStart,  \* when an observer opened the window of time being counted
    winCount,  \* winCount[n]: requests of subnet n admitted in the window
    winDays,   \* day changes the limiter could notice in the window
    windows,   \* how many windows have been opened
    keyedOn    \* the days on which the current salt has hashed an address

limvars == <<buckets, salt, saltDay>>
envvars == <<now, today, shifts>>
winvars == <<winStart, winCount, winDays, windows>>
vars == <<limvars, envvars, answer, winvars, keyedOn>>

Bucket == [tokens : 0 .. Cap, lastFill : Nat, lastSeen : Nat]
Keys   == Nat \X Nets

\* Every component has its type; the buckets' range is that of the code's
\* tokens field, between nothing and the capacity (limiter.go:98, :105).
TypeOK ==
    /\ DOMAIN buckets \subseteq Keys
    /\ buckets = [k \in DOMAIN buckets |-> buckets[k]]
    /\ \A k \in DOMAIN buckets : buckets[k] \in Bucket
    /\ salt \in Nat /\ saltDay \in Days
    /\ now \in Nat /\ today \in Days /\ shifts \in Nat
    /\ answer \in {"none", "allowed", "refused"}
    /\ winStart \in Nat /\ winCount \in [Nets -> Nat]
    /\ winDays \in Nat /\ windows \in Nat
    /\ keyedOn \in SUBSET Days

----------------------------------------------------------------------------
(* The limiter.                                                             *)

NoBuckets == [k \in {} |-> 0]

Init ==
    /\ buckets = NoBuckets
    /\ salt = 0
    /\ today \in Days /\ saltDay = today
    /\ now = 0 /\ shifts = 0
    /\ answer = "none"
    /\ winStart = 0 /\ winDays = 0 /\ windows = 0
    /\ winCount = [n \in Nets |-> 0]
    /\ keyedOn = {}

\* Mutant of DayRolled: only the day of the year is compared.
DayRolledYdOnly == today.yd # saltDay.yd

\* The test that starts a new salt.
DayRolled == today.yd # saltDay.yd \/ today.year # saltDay.year

\* What rotateSalt leaves behind, when it is called: the salt and the map.
SaltNow == IF DayRolled THEN salt + 1 ELSE salt

\* Mutant of Kept: rotateSalt changes the salt and keeps the buckets.
KeptAll == buckets

Kept    == IF DayRolled THEN NoBuckets ELSE buckets

key(n) == <<SaltNow, n>>

\* Mutant of Filled: the refill forgets to cap the tokens.
FilledUncapped(b, t) ==
    IF t > b.lastFill
    THEN [b EXCEPT !.tokens = @ + Refill * (t - b.lastFill), !.lastFill = t]
    ELSE b

\* Mutant of Filled: the refill forgets to move lastFill: the same seconds are credited again.
FilledTwice(b, t) ==
    IF t > b.lastFill
    THEN [b EXCEPT !.tokens = IF @ + Refill * (t - b.lastFill) <= Cap
                              THEN @ + Refill * (t - b.lastFill) ELSE Cap]
    ELSE b

\* A bucket at time t, after the refill that the elapsed time brings.
Filled(b, t) ==
    IF t > b.lastFill
    THEN [b EXCEPT !.tokens = IF @ + Refill * (t - b.lastFill) <= Cap
                              THEN @ + Refill * (t - b.lastFill) ELSE Cap,
                   !.lastFill = t]
    ELSE b

\* The bucket a request of subnet n finds: a new, full one, or its own refilled.
FoundBucket(n) ==
    IF key(n) \in DOMAIN Kept
    THEN [Filled(Kept[key(n)], now) EXCEPT !.lastSeen = now]
    ELSE [tokens |-> Cap, lastFill |-> now, lastSeen |-> now]

Put(m, k, b) == [j \in DOMAIN m \cup {k} |-> IF j = k THEN b ELSE m[j]]

Allow(a) ==
    LET n == truncateIP(a)
        b == FoundBucket(n)
    IN  /\ \/ /\ b.tokens >= Unit
              /\ buckets' = Put(Kept, key(n), [b EXCEPT !.tokens = @ - Unit])
              /\ answer' = "allowed"
              /\ winCount' = [winCount EXCEPT ![n] = @ + 1]
           \/ /\ b.tokens < Unit
              /\ buckets' = Put(Kept, key(n), b)
              /\ answer' = "refused"
              /\ UNCHANGED winCount
        /\ salt' = SaltNow
        /\ saltDay' = today
        /\ keyedOn' = IF DayRolled THEN {today} ELSE keyedOn \cup {today}
        /\ UNCHANGED <<envvars, winStart, winDays, windows>>

\* Mutant of Swept: the sweeper drops every bucket that was not used this very moment.
SweptIdle == {k \in DOMAIN buckets : buckets[k].lastSeen < now}

\* lastSeen.Before(now - maxIdle) is strict.
Swept == {k \in DOMAIN buckets : buckets[k].lastSeen < now - MaxIdle}

Sweep ==
    /\ Swept # {}
    /\ buckets' = [k \in DOMAIN buckets \ Swept |-> buckets[k]]
    /\ UNCHANGED <<salt, saltDay, envvars, answer, winvars, keyedOn>>

----------------------------------------------------------------------------
(* The clocks and the observer.                                             *)

Tick == /\ now < MaxTime
        /\ now' = now + 1
        /\ UNCHANGED <<limvars, today, shifts, answer, winvars, keyedOn>>

\* Midnight, a clock step in either direction, the turn of the year.
DayChange == /\ shifts < MaxDayShifts
             /\ shifts' = shifts + 1
             /\ today' \in Days \ {today}
             /\ winDays' = winDays + 1
             /\ UNCHANGED <<limvars, now, answer, winStart, winCount, windows, keyedOn>>

\* The observer starts counting anew. A rotation that is already due counts.
OpenWindow == /\ windows < MaxWindows
              /\ windows' = windows + 1
              /\ winStart' = now
              /\ winCount' = [n \in Nets |-> 0]
              /\ winDays' = IF DayRolled THEN 1 ELSE 0
              /\ UNCHANGED <<limvars, envvars, answer, keyedOn>>

Next == \/ \E a \in Addrs : Allow(a)
        \/ Sweep
        \/ Tick
        \/ DayChange
        \/ OpenWindow

Spec == Init /\ [][Next]_vars

----------------------------------------------------------------------------
(* Properties.                                                              *)

\* In every window of time a subnet gets through at most one full bucket, what
\* the window's length refills, and one more bucket per change of day: neither
\* the sweeper dropping its bucket nor the lazy refill ever credits it twice.
WindowBound ==
    \A n \in Nets :
        Unit * winCount[n] <= (1 + winDays) * Cap + Refill * (now - winStart)

\* A bucket never outlives the salt of its key: after a rotation no hash of
\* the day before is left in memory, and no bucket is found under two keys
\* (rotateSalt replaces the map together with the salt, limiter.go:67-70).
KeysOfCurrentSalt == \A k \in DOMAIN buckets : k[1] = salt

\* "the salt lives only in memory and rotates daily" (limiter.go:3): one salt
\* never hashes addresses on two different days, whatever the wall clock does,
\* so that no address can be followed from one day to the next.
OneDayPerSalt == Cardinality(keyedOn) <= 1

\* What subnet n may spend if nothing of it is refused now.
Avail(n) ==
    IF <<salt, n>> \in DOMAIN buckets
    THEN Filled(buckets[<<salt, n>>], now).tokens
    ELSE Cap

\* The limiter implements the abstract allowances: a subnet without a bucket,
\* be it new or swept, is one whose allowance is full, and a sweep is a stutter.
Abstract == INSTANCE TokenBucket WITH
                avail <- [n \in Nets |-> Avail(n)],
                day <- today, budgetDay <- saltDay
ImplementsTokenBucket == Abstract!BSpec

\* What makes WindowBound inductive: what a subnet may still spend counts as
\* spent, and a rotation that is due has not been used yet.
Due == IF DayRolled THEN 1 ELSE 0
WindowInv ==
    \A n \in Nets :
        Unit * winCount[n] + Avail(n)
            <= (1 + winDays - Due) * Cap + Refill * (now - winStart)

\* The other half: clocks never run behind what was recorded of them, a bucket
\* was refilled when it was last seen, a salt that has hashed anything has done
\* so on its own day, and a due rotation is one the window has counted.
ClockInv ==
    /\ winStart <= now
    /\ \A k \in DOMAIN buckets : /\ buckets[k].lastFill <= now
                                 /\ buckets[k].lastSeen = buckets[k].lastFill
    /\ keyedOn \subseteq {saltDay}
    /\ Due <= winDays

IInv == TypeOK /\ KeysOfCurrentSalt /\ ClockInv /\ WindowInv
=============================================================================
