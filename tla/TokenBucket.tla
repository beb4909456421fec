---------------------------- MODULE TokenBucket ----------------------------
(* What the rate limiter promises, stated without the map of buckets, the   *)
(* salted keys, the lazy refill and the sweeper that implement it: every    *)
(* subnet has an allowance that grows by Refill at every tick up to Cap,    *)
(* an admitted request costs Unit of it, and the allowances of all subnets  *)
(* start afresh with the first request of a calendar day.                   *)
EXTENDS Integers

CONSTANTS Nets,    \* the subnets that have an allowance of their own
          Cap,     \* the largest allowance, in fractions of a token
          Unit,    \* the fractions that make up one token
          Refill,  \* what a tick adds
          Days     \* calendar days

VARIABLES avail,   \* avail[n]: what subnet n may still spend
          day,     \* the calendar day
          budgetDay, \* the day the allowances belong to
          answer   \* the answer to the latest request

bvars == <<avail, day, budgetDay, answer>>

Answers == {"none", "allowed", "refused"}

BTypeOK == /\ avail \in [Nets -> 0 .. Cap]
           /\ day \in Days
           /\ budgetDay \in Days
           /\ answer \in Answers

BInit == /\ avail = [n \in Nets |-> Cap]
         /\ day \in Days
         /\ budgetDay = day
         /\ answer = "none"

\* The allowances a request finds: all full again when the day has changed.
Found == IF day = budgetDay THEN avail ELSE [n \in Nets |-> Cap]

Admit(n) == /\ Found[n] >= Unit
            /\ avail' = [Found EXCEPT ![n] = @ - Unit]
            /\ answer' = "allowed"
            /\ budgetDay' = day
            /\ UNCHANGED day

Refuse(n) == /\ Found[n] < Unit
             /\ avail' = Found
             /\ answer' = "refused"
             /\ budgetDay' = day
             /\ UNCHANGED day

Pass == /\ avail' = [n \in Nets |-> IF avail[n] + Refill <= Cap
                                    THEN avail[n] + Refill ELSE Cap]
        /\ UNCHANGED <<day, budgetDay, answer>>

TurnDay == /\ day' \in Days \ {day}
           /\ UNCHANGED <<avail, budgetDay, answer>>

BNext == (\E n \in Nets : Admit(n) \/ Refuse(n)) \/ Pass \/ TurnDay

BSpec == BInit /\ [][BNext]_bvars
=============================================================================
