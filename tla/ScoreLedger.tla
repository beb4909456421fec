---------------------------- MODULE ScoreLedger ----------------------------
(* What the counter promises about the scores, without transactions,        *)
(* connections, processes and crashes: an event is counted whole and at     *)
(* most once, or refused; and nobody is told an outcome that is not so.     *)
EXTENDS Naturals

CONSTANTS Events,        \* events that may reach the counter
          ColorKeys, Slugs

VARIABLES colorPts, osPts,   \* the two tables of scores
          outcome,           \* outcome[e]: what has become of event e
          told               \* told[e]: what its sender was told

lvars == <<colorPts, osPts, outcome, told>>

LInit == /\ colorPts = [k \in ColorKeys |-> 0]
         /\ osPts = [s \in Slugs |-> 0]
         /\ outcome = [e \in Events |-> "open"]
         /\ told = [e \in Events |-> "nothing"]

\* A copy or download scores three points for its color and its OS together.
CountColor(e, k, s) ==
    /\ outcome[e] = "open"
    /\ outcome' = [outcome EXCEPT ![e] = "counted"]
    /\ colorPts' = [colorPts EXCEPT ![k] = @ + 3]
    /\ osPts' = [osPts EXCEPT ![s] = @ + 3]
    /\ UNCHANGED told

\* An OS view scores one point for the OS.
CountView(e, s) ==
    /\ outcome[e] = "open"
    /\ outcome' = [outcome EXCEPT ![e] = "counted"]
    /\ osPts' = [osPts EXCEPT ![s] = @ + 1]
    /\ UNCHANGED <<colorPts, told>>

Refuse(e) ==
    /\ outcome[e] = "open"
    /\ outcome' = [outcome EXCEPT ![e] = "refused"]
    /\ UNCHANGED <<colorPts, osPts, told>>

\* Several open events may be given up together, when the service dies.
GiveUp(E) ==
    /\ \A e \in E : outcome[e] = "open"
    /\ outcome' = [e \in Events |-> IF e \in E THEN "refused" ELSE outcome[e]]
    /\ UNCHANGED <<colorPts, osPts, told>>

\* The sender learns the outcome, or never hears of it.
Tell(e) ==
    /\ outcome[e] # "open" /\ told[e] = "nothing"
    /\ told' = [told EXCEPT ![e] = outcome[e]]
    /\ UNCHANGED <<colorPts, osPts, outcome>>

LNext == \/ \E e \in Events : \/ \E k \in ColorKeys, s \in Slugs : CountColor(e, k, s)
                              \/ \E s \in Slugs : CountView(e, s)
                              \/ Refuse(e)
                              \/ Tell(e)
         \/ \E E \in SUBSET Events : GiveUp(E)

LSpec == LInit /\ [][LNext]_lvars
=============================================================================
