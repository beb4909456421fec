--------------------------- MODULE PublishedSite ---------------------------
(* What visitors may rely on, whatever happens to the runs that deploy:     *)
(* the site is nothing yet or one whole version of the release branch, it   *)
(* changes from one version to another in a single step, and it never goes  *)
(* back to an older push.                                                   *)
EXTENDS Naturals

CONSTANT MaxPush

VARIABLES tip,    \* the number of the latest push to the release branch
          site    \* the push that visitors see, 0 before the first deployment

pvars == <<tip, site>>

PInit == tip = 1 /\ site = 0

PushTip == tip < MaxPush /\ tip' = tip + 1 /\ UNCHANGED site

\* A deployment may be behind the branch, when pushes arrive while it builds.
Publish == site' \in {p \in 1 .. tip : p >= site} /\ UNCHANGED tip

PNext == PushTip \/ Publish

PSpec == PInit /\ [][PNext]_pvars
=============================================================================
