--------------------------- MODULE Rebuild_proofs ---------------------------
(* Proofs about Rebuild, for every number of runs, releases to keep, pushes, *)
(* stamps and faults: whatever the runs, the signals, the kills and the      *)
(* clock do, visitors see one whole site that never goes back, and a run     *)
(* that ends leaves behind what its status says.                             *)
EXTENDS Rebuild, FiniteSetTheorems, WellFoundedInduction, TLAPS

----------------------------------------------------------------------------
(* Type correctness, in three parts that change in different steps.          *)

TypeRuns ==
    /\ lock \in Runs \cup {NoRun}
    /\ pc \in [Runs -> Steps] /\ st \in [Runs -> {0, 1, 143}]
    /\ held \in [Runs -> BOOLEAN] /\ skip \in [Runs -> BOOLEAN]
    /\ sick \in [Runs -> BOOLEAN]
    /\ rel \in [Runs -> Stamps \cup {0}] /\ victims \in [Runs -> SUBSET Stamps]
    /\ signalled \in [Runs -> BOOLEAN]

TypeHost ==
    /\ origin \in Pushes /\ head \in Pushes
    /\ modules \in Locks \cup {Mixed, None} /\ lockHash \in Locks \cup {None}
    /\ scratch \in BOOLEAN /\ dist \in Sites \cup {NoSite}
    /\ bin \in Bins \cup {None} /\ svc \in Bins \cup {None}
    /\ marker \in BOOLEAN
    /\ clock \in Stamps \cup {0} /\ faults \in 0 .. MaxFaults /\ killed \in BOOLEAN

TypeWww ==
    /\ DOMAIN content \subseteq Stamps
    /\ \A s \in DOMAIN content : content[s] \in Sites
    /\ torn \subseteq DOMAIN content
    /\ stage \in Stamps \cup {0} /\ staged \in Sites \cup {NoSite}
    /\ link \in Stamps \cup {0} /\ current \in Stamps \cup {0}

LEMMA TypeParts == TypeOK <=> TypeRuns /\ TypeHost /\ TypeWww
  BY DEF TypeOK, TypeRuns, TypeHost, TypeWww

\* A run at work, and a run that will sweep, holds the lock.
LockInv == \A r \in Runs : pc[r] \in Work \/ held[r] => lock = r

\* Where a run is between the build and the prune, and what that says of the
\* site: what is about to be copied, renamed, linked or removed.
Path == {"guard", "stamp", "copy", "copying", "rename", "link", "flip", "prune"}

PathInv ==
    \A r \in Runs :
        /\ pc[r] = "guard" => dist = NoSite \/ dist.push = head
        /\ pc[r] \in {"stamp", "copy", "copying"} => dist \in Sites /\ dist.push = head
        /\ pc[r] \in {"copy", "copying", "rename"} => rel[r] \in Stamps \ DOMAIN content
        /\ pc[r] = "rename" => staged \in Sites /\ staged.push = head
        /\ pc[r] \in {"link", "flip"} =>
                rel[r] \in DOMAIN content \ torn /\ content[rel[r]].push = head
        /\ pc[r] = "flip" => link = rel[r]
        /\ pc[r] = "prune" => victims[r] \subseteq DOMAIN content

\* The site is a whole release of a push that is not newer than the checkout.
SiteInv ==
    /\ head <= origin
    /\ current # 0 => current \in DOMAIN content \ torn /\ content[current].push <= head

IInv == TypeOK /\ LockInv /\ PathInv /\ SiteInv

----------------------------------------------------------------------------
(* Facts of the model.                                                       *)

LEMMA StampsPositive == Stamps \subseteq Nat \ {0} /\ Pushes \subseteq Nat \ {0} /\ 1 \in Pushes
  BY RebuildAssumption DEF Stamps, Pushes

LEMMA NoSiteIsNoSite == NoSite \notin Sites
  BY StampsPositive DEF NoSite, Sites

\* At most one run is at work.
LEMMA Alone ==
    ASSUME LockInv, NEW r \in Runs, NEW q \in Runs, pc[q] \in Work,
           pc[r] \in Work \/ held[r]
    PROVE  q = r
  BY DEF LockInv

LEMMA InitInv == Init => IInv
  <1> SUFFICES ASSUME Init PROVE IInv
    OBVIOUS
  <1> USE StampsPositive, RebuildAssumption
  <1>1. TypeRuns
    BY DEF Init, TypeRuns, Steps
  <1>2. TypeHost
    <2>1. 0 \in 0 .. MaxFaults
      OBVIOUS
    <2> QED BY <2>1, Zenon DEF Init, TypeHost
  <1>3. TypeWww
    BY DEF Init, TypeWww
  <1>4. LockInv /\ PathInv /\ SiteInv
    BY DEF Init, LockInv, Work, PathInv, SiteInv
  <1> QED BY <1>1, <1>2, <1>3, <1>4, TypeParts DEF IInv

----------------------------------------------------------------------------
(* The types are preserved.                                                  *)

LEMMA RunsStep == TypeOK /\ [Next]_vars => TypeRuns'
  <1> SUFFICES ASSUME TypeOK, [Next]_vars PROVE TypeRuns'
    OBVIOUS
  <1> USE TypeParts, StampsPositive DEF TypeRuns, Step, Exit, Leave, Steps, Work, repo, host, www, mine, env
  <1>r. ASSUME NEW r \in Runs,
                \/ Begin(r) \/ Proceed(r)
                \/ Fail(r) \/ Term(r) \/ TermEarly(r) \/ TermLate(r) \/ Kill(r)
         PROVE  TypeRuns'
    <2>1. CASE Begin(r)
      BY <2>1 DEF Begin
    <2>2. CASE Fail(r)
      BY <2>2 DEF Fail, Trouble
    <2>3. CASE Term(r)
      BY <2>3 DEF Term, Trouble
    <2>4. CASE TermEarly(r)
      BY <2>4 DEF TermEarly, Trouble
    <2>5. CASE TermLate(r)
      BY <2>5 DEF TermLate, Trouble
    <2>6. CASE Kill(r)
      BY <2>6 DEF Kill, Trouble
    <2>7. CASE SetTraps(r)
      BY <2>7 DEF SetTraps
    <2>8. CASE Flock(r)
      BY <2>8 DEF Flock
    <2>9. CASE Contended(r)
      BY <2>9 DEF Contended
    <2>10. CASE Fetch(r)
      BY <2>10 DEF Fetch
    <2>11. CASE Deps(r)
      BY <2>11 DEF Deps, DepsMoved
    <2>12. CASE NpmCi(r)
      BY <2>12 DEF NpmCi
    <2>13. CASE WriteHash(r)
      BY <2>13 DEF WriteHash
    <2>14. CASE GoBuild(r)
      BY <2>14 DEF GoBuild
    <2>15. CASE Compare(r)
      BY <2>15 DEF Compare
    <2>16. CASE Probe(r)
      BY <2>16 DEF Probe
    <2>17. CASE SwapBinary(r)
      BY <2>17 DEF SwapBinary
    <2>18. CASE Restart(r)
      BY <2>18 DEF Restart
    <2>19. CASE Verify(r)
      BY <2>19 DEF Verify
    <2>20. CASE Build(r)
      BY <2>20 DEF Build
    <2>21. CASE Guard(r)
      BY <2>21 DEF Guard
    <2>22. CASE Stamp(r)
      BY <2>22 DEF Stamp
    <2>23. CASE Copy(r)
      BY <2>23 DEF Copy
    <2>24. CASE Rename(r)
      BY <2>24 DEF Rename
    <2>25. CASE Link(r)
      BY <2>25 DEF Link
    <2>26. CASE Flip(r)
      BY <2>26 DEF Flip
    <2>27. CASE List(r)
      <3>1. DOMAIN content \subseteq Stamps
        BY DEF TypeWww
      <3> QED BY <2>27, <3>1 DEF List
    <2>28. CASE PruneOne(r)
      BY <2>28 DEF PruneOne, Spared
    <2>29. CASE Pruned(r)
      BY <2>29 DEF Pruned
    <2>30. CASE Last(r)
      BY <2>30 DEF Last
    <2>31. CASE Clean(r)
      BY <2>31 DEF Clean
    <2>32. CASE Mark(r)
      BY <2>32 DEF Mark
    <2> QED BY <1>r, <2>1, <2>2, <2>3, <2>4, <2>5, <2>6, <2>7, <2>8,
            <2>9, <2>10, <2>11, <2>12, <2>13, <2>14, <2>15, <2>16,
            <2>17, <2>18, <2>19, <2>20, <2>21, <2>22, <2>23, <2>24,
            <2>25, <2>26, <2>27, <2>28, <2>29, <2>30, <2>31, <2>32
            DEF Proceed
  <1>ServiceDies. CASE ServiceDies
    BY <1>ServiceDies DEF ServiceDies, Trouble
  <1>ServiceStarts. CASE ServiceStarts
    BY <1>ServiceStarts DEF ServiceStarts
  <1>ClockBack. CASE ClockBack
    BY <1>ClockBack DEF ClockBack, Trouble
  <1>Push. CASE Push
    BY <1>Push DEF Push
  <1>Idle. CASE UNCHANGED vars
    BY <1>Idle DEF vars
  <1> QED BY <1>r, <1>ServiceDies, <1>ServiceStarts, <1>ClockBack, <1>Push, <1>Idle DEF Next

LEMMA HostStep == TypeOK /\ [Next]_vars => TypeHost'
  <1> SUFFICES ASSUME TypeOK, [Next]_vars PROVE TypeHost'
    OBVIOUS
  <1> USE TypeParts, StampsPositive, RebuildAssumption DEF TypeHost, Step, Exit, Leave, repo, host, www, mine, env
  <1>r. ASSUME NEW r \in Runs,
                \/ Begin(r) \/ Proceed(r)
                \/ Fail(r) \/ Term(r) \/ TermEarly(r) \/ TermLate(r) \/ Kill(r)
         PROVE  TypeHost'
    <2>1. CASE Begin(r)
      BY <2>1 DEF Begin
    <2>2. CASE Fail(r)
      BY <2>2 DEF Fail, Trouble
    <2>3. CASE Term(r)
      BY <2>3 DEF Term, Trouble
    <2>4. CASE TermEarly(r)
      BY <2>4 DEF TermEarly, Trouble
    <2>5. CASE TermLate(r)
      BY <2>5 DEF TermLate, Trouble
    <2>6. CASE Kill(r)
      BY <2>6 DEF Kill, Trouble
    <2>7. CASE SetTraps(r)
      BY <2>7 DEF SetTraps
    <2>8. CASE Flock(r)
      BY <2>8 DEF Flock
    <2>9. CASE Contended(r)
      BY <2>9 DEF Contended
    <2>10. CASE Fetch(r)
      BY <2>10 DEF Fetch
    <2>11. CASE Deps(r)
      BY <2>11 DEF Deps, DepsMoved
    <2>12. CASE NpmCi(r)
      BY <2>12 DEF NpmCi
    <2>13. CASE WriteHash(r)
      BY <2>13 DEF WriteHash
    <2>14. CASE GoBuild(r)
      BY <2>14 DEF GoBuild
    <2>15. CASE Compare(r)
      BY <2>15 DEF Compare
    <2>16. CASE Probe(r)
      BY <2>16 DEF Probe
    <2>17. CASE SwapBinary(r)
      BY <2>17 DEF SwapBinary
    <2>18. CASE Restart(r)
      BY <2>18 DEF Restart
    <2>19. CASE Verify(r)
      BY <2>19 DEF Verify
    <2>20. CASE Build(r)
      <3>1. [push |-> head, deps |-> modules] \in Sites
        BY DEF Sites
      <3> QED BY <2>20, <3>1 DEF Build
    <2>21. CASE Guard(r)
      BY <2>21 DEF Guard
    <2>22. CASE Stamp(r)
      BY <2>22 DEF Stamp
    <2>23. CASE Copy(r)
      BY <2>23 DEF Copy
    <2>24. CASE Rename(r)
      BY <2>24 DEF Rename
    <2>25. CASE Link(r)
      BY <2>25 DEF Link
    <2>26. CASE Flip(r)
      BY <2>26 DEF Flip
    <2>27. CASE List(r)
      BY <2>27 DEF List
    <2>28. CASE PruneOne(r)
      BY <2>28 DEF PruneOne, Spared
    <2>29. CASE Pruned(r)
      BY <2>29 DEF Pruned
    <2>30. CASE Last(r)
      BY <2>30 DEF Last
    <2>31. CASE Clean(r)
      BY <2>31 DEF Clean
    <2>32. CASE Mark(r)
      BY <2>32 DEF Mark
    <2> QED BY <1>r, <2>1, <2>2, <2>3, <2>4, <2>5, <2>6, <2>7, <2>8,
            <2>9, <2>10, <2>11, <2>12, <2>13, <2>14, <2>15, <2>16,
            <2>17, <2>18, <2>19, <2>20, <2>21, <2>22, <2>23, <2>24,
            <2>25, <2>26, <2>27, <2>28, <2>29, <2>30, <2>31, <2>32
            DEF Proceed
  <1>ServiceDies. CASE ServiceDies
    BY <1>ServiceDies DEF ServiceDies, Trouble
  <1>ServiceStarts. CASE ServiceStarts
    BY <1>ServiceStarts DEF ServiceStarts
  <1>ClockBack. CASE ClockBack
    BY <1>ClockBack DEF ClockBack, Trouble, Stamps
  <1>Push. CASE Push
    BY <1>Push DEF Push, Pushes
  <1>Idle. CASE UNCHANGED vars
    BY <1>Idle DEF vars
  <1> QED BY <1>r, <1>ServiceDies, <1>ServiceStarts, <1>ClockBack, <1>Push, <1>Idle DEF Next

\* A renamed release is whole, because its staging tree was (PathInv).
LEMMA WwwStep == TypeOK /\ PathInv /\ [Next]_vars => TypeWww'
  <1> SUFFICES ASSUME TypeOK /\ PathInv, [Next]_vars PROVE TypeWww'
    OBVIOUS
  <1> USE TypeParts, StampsPositive DEF TypeWww, Step, Exit, Leave, repo, host, www, mine, env
  <1>r. ASSUME NEW r \in Runs,
                \/ Begin(r) \/ Proceed(r)
                \/ Fail(r) \/ Term(r) \/ TermEarly(r) \/ TermLate(r) \/ Kill(r)
         PROVE  TypeWww'
    <2>1. CASE Begin(r)
      BY <2>1 DEF Begin
    <2>2. CASE Fail(r)
      BY <2>2 DEF Fail, Trouble
    <2>3. CASE Term(r)
      BY <2>3 DEF Term, Trouble
    <2>4. CASE TermEarly(r)
      BY <2>4 DEF TermEarly, Trouble
    <2>5. CASE TermLate(r)
      BY <2>5 DEF TermLate, Trouble
    <2>6. CASE Kill(r)
      BY <2>6 DEF Kill, Trouble
    <2>7. CASE SetTraps(r)
      BY <2>7 DEF SetTraps
    <2>8. CASE Flock(r)
      BY <2>8 DEF Flock
    <2>9. CASE Contended(r)
      BY <2>9 DEF Contended
    <2>10. CASE Fetch(r)
      BY <2>10 DEF Fetch
    <2>11. CASE Deps(r)
      BY <2>11 DEF Deps, DepsMoved
    <2>12. CASE NpmCi(r)
      BY <2>12 DEF NpmCi
    <2>13. CASE WriteHash(r)
      BY <2>13 DEF WriteHash
    <2>14. CASE GoBuild(r)
      BY <2>14 DEF GoBuild
    <2>15. CASE Compare(r)
      BY <2>15 DEF Compare
    <2>16. CASE Probe(r)
      BY <2>16 DEF Probe
    <2>17. CASE SwapBinary(r)
      BY <2>17 DEF SwapBinary
    <2>18. CASE Restart(r)
      BY <2>18 DEF Restart
    <2>19. CASE Verify(r)
      BY <2>19 DEF Verify
    <2>20. CASE Build(r)
      BY <2>20 DEF Build
    <2>21. CASE Guard(r)
      BY <2>21 DEF Guard
    <2>22. CASE Stamp(r)
      BY <2>22 DEF Stamp
    <2>23. CASE Copy(r)
      BY <2>23 DEF Copy, TypeRuns, TypeHost
    <2>24. CASE Rename(r)
      <3>1. rel[r] \in Stamps /\ staged \in Sites
        BY <2>24 DEF Rename, PathInv
      <3>2. DOMAIN content' = DOMAIN content \cup {rel[r]}
        BY <2>24 DEF Rename
      <3>3. \A s \in DOMAIN content' : content'[s] \in Sites
        BY <2>24, <3>1 DEF Rename
      <3> QED BY <2>24, <3>1, <3>2, <3>3 DEF Rename
    <2>25. CASE Link(r)
      BY <2>25 DEF Link, TypeRuns
    <2>26. CASE Flip(r)
      BY <2>26 DEF Flip
    <2>27. CASE List(r)
      BY <2>27 DEF List
    <2>28. CASE PruneOne(r)
      <3>1. PICK s \in victims[r] :
                /\ \/ /\ content' = [t \in DOMAIN content \ {s} |-> content[t]]
                      /\ torn' = torn \ {s}
                   \/ torn' = torn \cup {s} /\ UNCHANGED content
                /\ UNCHANGED <<stage, staged, link, current>>
        BY <2>28 DEF PruneOne
      <3>2. s \in DOMAIN content
        BY <2>28 DEF PruneOne, PathInv
      <3> QED BY <3>1, <3>2
    <2>29. CASE Pruned(r)
      BY <2>29 DEF Pruned
    <2>30. CASE Last(r)
      BY <2>30 DEF Last
    <2>31. CASE Clean(r)
      BY <2>31 DEF Clean
    <2>32. CASE Mark(r)
      BY <2>32 DEF Mark
    <2> QED BY <1>r, <2>1, <2>2, <2>3, <2>4, <2>5, <2>6, <2>7, <2>8,
            <2>9, <2>10, <2>11, <2>12, <2>13, <2>14, <2>15, <2>16,
            <2>17, <2>18, <2>19, <2>20, <2>21, <2>22, <2>23, <2>24,
            <2>25, <2>26, <2>27, <2>28, <2>29, <2>30, <2>31, <2>32
            DEF Proceed
  <1>ServiceDies. CASE ServiceDies
    BY <1>ServiceDies DEF ServiceDies, Trouble
  <1>ServiceStarts. CASE ServiceStarts
    BY <1>ServiceStarts DEF ServiceStarts
  <1>ClockBack. CASE ClockBack
    BY <1>ClockBack DEF ClockBack, Trouble
  <1>Push. CASE Push
    BY <1>Push DEF Push
  <1>Idle. CASE UNCHANGED vars
    BY <1>Idle DEF vars
  <1> QED BY <1>r, <1>ServiceDies, <1>ServiceStarts, <1>ClockBack, <1>Push, <1>Idle DEF Next

----------------------------------------------------------------------------
(* The lock.                                                                 *)

LEMMA LockStep == TypeOK /\ LockInv /\ [Next]_vars => LockInv'
  <1> SUFFICES ASSUME TypeOK /\ LockInv, [Next]_vars PROVE LockInv'
    OBVIOUS
  <1> USE TypeParts, RebuildAssumption DEF TypeRuns, LockInv, Step, Exit, Leave, Work, repo, host, www, mine, env
  <1>r. ASSUME NEW r \in Runs,
                \/ Begin(r) \/ Proceed(r)
                \/ Fail(r) \/ Term(r) \/ TermEarly(r) \/ TermLate(r) \/ Kill(r)
         PROVE  LockInv'
    <2>1. CASE Begin(r)
      BY <2>1 DEF Begin
    <2>2. CASE Fail(r)
      BY <2>2 DEF Fail, Trouble
    <2>3. CASE Term(r)
      BY <2>3 DEF Term, Trouble
    <2>4. CASE TermEarly(r)
      BY <2>4 DEF TermEarly, Trouble
    <2>5. CASE TermLate(r)
      BY <2>5 DEF TermLate, Trouble
    <2>6. CASE Kill(r)
      BY <2>6 DEF Kill, Trouble
    <2>7. CASE SetTraps(r)
      BY <2>7 DEF SetTraps
    <2>8. CASE Flock(r)
      BY <2>8 DEF Flock
    <2>9. CASE Contended(r)
      BY <2>9 DEF Contended
    <2>10. CASE Fetch(r)
      BY <2>10 DEF Fetch
    <2>11. CASE Deps(r)
      BY <2>11 DEF Deps, DepsMoved
    <2>12. CASE NpmCi(r)
      BY <2>12 DEF NpmCi
    <2>13. CASE WriteHash(r)
      BY <2>13 DEF WriteHash
    <2>14. CASE GoBuild(r)
      BY <2>14 DEF GoBuild
    <2>15. CASE Compare(r)
      BY <2>15 DEF Compare
    <2>16. CASE Probe(r)
      BY <2>16 DEF Probe
    <2>17. CASE SwapBinary(r)
      BY <2>17 DEF SwapBinary
    <2>18. CASE Restart(r)
      BY <2>18 DEF Restart
    <2>19. CASE Verify(r)
      BY <2>19 DEF Verify
    <2>20. CASE Build(r)
      BY <2>20 DEF Build
    <2>21. CASE Guard(r)
      BY <2>21 DEF Guard
    <2>22. CASE Stamp(r)
      BY <2>22 DEF Stamp
    <2>23. CASE Copy(r)
      BY <2>23 DEF Copy
    <2>24. CASE Rename(r)
      BY <2>24 DEF Rename
    <2>25. CASE Link(r)
      BY <2>25 DEF Link
    <2>26. CASE Flip(r)
      BY <2>26 DEF Flip
    <2>27. CASE List(r)
      BY <2>27 DEF List
    <2>28. CASE PruneOne(r)
      BY <2>28 DEF PruneOne, Spared
    <2>29. CASE Pruned(r)
      BY <2>29 DEF Pruned
    <2>30. CASE Last(r)
      BY <2>30 DEF Last
    <2>31. CASE Clean(r)
      BY <2>31 DEF Clean
    <2>32. CASE Mark(r)
      BY <2>32 DEF Mark
    <2> QED BY <1>r, <2>1, <2>2, <2>3, <2>4, <2>5, <2>6, <2>7, <2>8,
            <2>9, <2>10, <2>11, <2>12, <2>13, <2>14, <2>15, <2>16,
            <2>17, <2>18, <2>19, <2>20, <2>21, <2>22, <2>23, <2>24,
            <2>25, <2>26, <2>27, <2>28, <2>29, <2>30, <2>31, <2>32
            DEF Proceed
  <1>ServiceDies. CASE ServiceDies
    BY <1>ServiceDies DEF ServiceDies, Trouble
  <1>ServiceStarts. CASE ServiceStarts
    BY <1>ServiceStarts DEF ServiceStarts
  <1>ClockBack. CASE ClockBack
    BY <1>ClockBack DEF ClockBack, Trouble
  <1>Push. CASE Push
    BY <1>Push DEF Push
  <1>Idle. CASE UNCHANGED vars
    BY <1>Idle DEF vars
  <1> QED BY <1>r, <1>ServiceDies, <1>ServiceStarts, <1>ClockBack, <1>Push, <1>Idle DEF Next

----------------------------------------------------------------------------
(* The way of a release to the site.                                         *)

\* A step that leaves the tree, the releases and the links alone, and puts no
\* run on the path of a release.
Quiet ==
    /\ UNCHANGED <<head, dist, content, torn, staged, link, current>>
    /\ head <= origin => head <= origin'
    /\ \A r \in Runs : pc'[r] \in Path => /\ pc'[r] = pc[r]
                                         /\ rel'[r] = rel[r] /\ victims'[r] = victims[r]

LEMMA QuietStep ==
    ASSUME PathInv, SiteInv, Quiet
    PROVE  PathInv' /\ SiteInv'
  <1>1. PathInv'
    BY DEF PathInv, Quiet, Path
  <1>2. SiteInv'
    BY DEF SiteInv, Quiet
  <1> QED BY <1>1, <1>2

LEMMA PathStep == TypeOK /\ LockInv /\ PathInv /\ SiteInv /\ [Next]_vars => PathInv' /\ SiteInv'
  <1> SUFFICES ASSUME TypeOK /\ LockInv /\ PathInv /\ SiteInv, [Next]_vars PROVE PathInv' /\ SiteInv'
    OBVIOUS
  <1> USE TypeParts DEF TypeRuns, Path, Step, Exit, Leave, repo, host, www, mine, env
  <1>r. ASSUME NEW r \in Runs,
                \/ Begin(r) \/ Proceed(r)
                \/ Fail(r) \/ Term(r) \/ TermEarly(r) \/ TermLate(r) \/ Kill(r)
         PROVE  PathInv' /\ SiteInv'
    <2>1. CASE Begin(r)
      <3>1. Quiet
        BY <2>1 DEF Quiet, Begin
      <3> QED BY <3>1, QuietStep
    <2>2. CASE Fail(r)
      <3>1. Quiet
        BY <2>2 DEF Quiet, Fail, Trouble
      <3> QED BY <3>1, QuietStep
    <2>3. CASE Term(r)
      <3>1. Quiet
        BY <2>3 DEF Quiet, Term, Trouble
      <3> QED BY <3>1, QuietStep
    <2>4. CASE TermEarly(r)
      <3>1. Quiet
        BY <2>4 DEF Quiet, TermEarly, Trouble
      <3> QED BY <3>1, QuietStep
    <2>5. CASE TermLate(r)
      <3>1. Quiet
        BY <2>5 DEF Quiet, TermLate, Trouble
      <3> QED BY <3>1, QuietStep
    <2>6. CASE Kill(r)
      <3>1. Quiet
        BY <2>6 DEF Quiet, Kill, Trouble
      <3> QED BY <3>1, QuietStep
    <2>7. CASE SetTraps(r)
      <3>1. Quiet
        BY <2>7 DEF Quiet, SetTraps
      <3> QED BY <3>1, QuietStep
    <2>8. CASE Flock(r)
      <3>1. Quiet
        BY <2>8 DEF Quiet, Flock
      <3> QED BY <3>1, QuietStep
    <2>9. CASE Contended(r)
      <3>1. Quiet
        BY <2>9 DEF Quiet, Contended
      <3> QED BY <3>1, QuietStep
    <2>10. CASE Fetch(r)
      <3>1. \A q \in Runs : pc[q] \in Work => q = r
        BY <2>10 DEF Fetch, LockInv, Work
      <3>2. PathInv'
        BY <2>10, <3>1 DEF Fetch, PathInv, Work
      <3>3. SiteInv'
        <4>1. head \in Nat /\ origin \in Nat
          BY StampsPositive DEF TypeHost
        <4>2. current # 0 => content[current].push \in Nat
          BY StampsPositive DEF SiteInv, TypeWww, Sites
        <4> QED BY <2>10, <4>1, <4>2 DEF Fetch, SiteInv
      <3> QED BY <3>2, <3>3
    <2>11. CASE Deps(r)
      <3>1. Quiet
        BY <2>11 DEF Quiet, Deps, DepsMoved
      <3> QED BY <3>1, QuietStep
    <2>12. CASE NpmCi(r)
      <3>1. Quiet
        BY <2>12 DEF Quiet, NpmCi
      <3> QED BY <3>1, QuietStep
    <2>13. CASE WriteHash(r)
      <3>1. Quiet
        BY <2>13 DEF Quiet, WriteHash
      <3> QED BY <3>1, QuietStep
    <2>14. CASE GoBuild(r)
      <3>1. Quiet
        BY <2>14 DEF Quiet, GoBuild
      <3> QED BY <3>1, QuietStep
    <2>15. CASE Compare(r)
      <3>1. Quiet
        BY <2>15 DEF Quiet, Compare
      <3> QED BY <3>1, QuietStep
    <2>16. CASE Probe(r)
      <3>1. Quiet
        BY <2>16 DEF Quiet, Probe
      <3> QED BY <3>1, QuietStep
    <2>17. CASE SwapBinary(r)
      <3>1. Quiet
        BY <2>17 DEF Quiet, SwapBinary
      <3> QED BY <3>1, QuietStep
    <2>18. CASE Restart(r)
      <3>1. Quiet
        BY <2>18 DEF Quiet, Restart
      <3> QED BY <3>1, QuietStep
    <2>19. CASE Verify(r)
      <3>1. Quiet
        BY <2>19 DEF Quiet, Verify
      <3> QED BY <3>1, QuietStep
    <2>20. CASE Build(r)
      <3>1. \A q \in Runs : pc[q] \in Work => q = r
        BY <2>20 DEF Build, LockInv, Work
      <3>2. PathInv'
        BY <2>20, <3>1 DEF Build, PathInv, Work
      <3>3. SiteInv'
        BY <2>20, <3>1 DEF Build, PathInv, SiteInv
      <3> QED BY <3>2, <3>3
    <2>21. CASE Guard(r)
      <3>1. \A q \in Runs : pc[q] \in Work => q = r
        BY <2>21 DEF Guard, LockInv, Work
      <3>2. PathInv'
        BY <2>21, <3>1 DEF Guard, PathInv, Work, TypeHost
      <3>3. SiteInv'
        BY <2>21, <3>1 DEF Guard, PathInv, SiteInv
      <3> QED BY <3>2, <3>3
    <2>22. CASE Stamp(r)
      <3>1. \A q \in Runs : pc[q] \in Work => q = r
        BY <2>22 DEF Stamp, LockInv, Work
      <3>2. PathInv'
        BY <2>22, <3>1 DEF Stamp, PathInv, Work
      <3>3. SiteInv'
        BY <2>22, <3>1 DEF Stamp, PathInv, SiteInv
      <3> QED BY <3>2, <3>3
    <2>23. CASE Copy(r)
      <3>1. \A q \in Runs : pc[q] \in Work => q = r
        BY <2>23 DEF Copy, LockInv, Work
      <3>2. PathInv'
        BY <2>23, <3>1 DEF Copy, PathInv, Work
      <3>3. SiteInv'
        BY <2>23, <3>1 DEF Copy, PathInv, SiteInv
      <3> QED BY <3>2, <3>3
    <2>24. CASE Rename(r)
      <3>1. \A q \in Runs : pc[q] \in Work => q = r
        BY <2>24 DEF Rename, LockInv, Work
      <3>2. PathInv'
        <4>1. rel[r] \in Stamps \ DOMAIN content /\ staged.push = head
          BY <2>24 DEF Rename, PathInv
        <4>2. DOMAIN content' = DOMAIN content \cup {rel[r]} /\ content'[rel[r]] = staged
          BY <2>24 DEF Rename
        <4>3. rel[r] \notin torn
          BY <4>1 DEF TypeWww
        <4> QED BY <2>24, <3>1, <4>1, <4>2, <4>3 DEF Rename, PathInv, Work
      <3>3. SiteInv'
        BY <2>24, <3>1 DEF Rename, PathInv, SiteInv
      <3> QED BY <3>2, <3>3
    <2>25. CASE Link(r)
      <3>1. \A q \in Runs : pc[q] \in Work => q = r
        BY <2>25 DEF Link, LockInv, Work
      <3>2. PathInv'
        BY <2>25, <3>1 DEF Link, PathInv, Work
      <3>3. SiteInv'
        BY <2>25, <3>1 DEF Link, PathInv, SiteInv
      <3> QED BY <3>2, <3>3
    <2>26. CASE Flip(r)
      <3>1. \A q \in Runs : pc[q] \in Work => q = r
        BY <2>26 DEF Flip, LockInv, Work
      <3>2. PathInv'
        BY <2>26, <3>1 DEF Flip, PathInv, Work
      <3>3. SiteInv'
        <4>1. head \in Nat
          BY StampsPositive DEF TypeHost
        <4>2. current' \in DOMAIN content \ torn /\ content[current'].push = head
          BY <2>26 DEF Flip, PathInv
        <4> QED BY <2>26, <4>1, <4>2 DEF Flip, SiteInv
      <3> QED BY <3>2, <3>3
    <2>27. CASE List(r)
      <3>1. \A q \in Runs : pc[q] \in Work => q = r
        BY <2>27 DEF List, LockInv, Work
      <3>2. PathInv'
        BY <2>27, <3>1 DEF List, PathInv, Work
      <3>3. SiteInv'
        BY <2>27, <3>1 DEF List, PathInv, SiteInv
      <3> QED BY <3>2, <3>3
    <2>28. CASE PruneOne(r)
      <3>1. \A q \in Runs : pc[q] \in Work => q = r
        BY <2>28 DEF PruneOne, LockInv, Work
      <3>2. PathInv'
        BY <2>28, <3>1 DEF PruneOne, Spared, PathInv, Work
      <3>3. SiteInv'
        BY <2>28, <3>1 DEF PruneOne, Spared, PathInv, SiteInv
      <3> QED BY <3>2, <3>3
    <2>29. CASE Pruned(r)
      <3>1. Quiet
        BY <2>29 DEF Quiet, Pruned
      <3> QED BY <3>1, QuietStep
    <2>30. CASE Last(r)
      <3>1. Quiet
        BY <2>30 DEF Quiet, Last
      <3> QED BY <3>1, QuietStep
    <2>31. CASE Clean(r)
      <3>1. CASE held[r]
        <4>1. \A q \in Runs : pc'[q] \notin Path
          BY <2>31, <3>1 DEF Clean, LockInv, Work
        <4>2. PathInv'
          BY <4>1 DEF PathInv
        <4>3. SiteInv'
          BY <2>31 DEF Clean, SiteInv
        <4> QED BY <4>2, <4>3
      <3>2. CASE ~held[r]
        <4>1. Quiet
          BY <2>31, <3>2 DEF Quiet, Clean
        <4> QED BY <4>1, QuietStep
      <3> QED BY <3>1, <3>2
    <2>32. CASE Mark(r)
      <3>1. Quiet
        BY <2>32 DEF Quiet, Mark
      <3> QED BY <3>1, QuietStep
    <2> QED BY <1>r, <2>1, <2>2, <2>3, <2>4, <2>5, <2>6, <2>7, <2>8,
            <2>9, <2>10, <2>11, <2>12, <2>13, <2>14, <2>15, <2>16,
            <2>17, <2>18, <2>19, <2>20, <2>21, <2>22, <2>23, <2>24,
            <2>25, <2>26, <2>27, <2>28, <2>29, <2>30, <2>31, <2>32
            DEF Proceed
  <1>ServiceDies. CASE ServiceDies
    <2>1. Quiet
      BY <1>ServiceDies DEF Quiet, ServiceDies, Trouble
    <2> QED BY <2>1, QuietStep
  <1>ServiceStarts. CASE ServiceStarts
    <2>1. Quiet
      BY <1>ServiceStarts DEF Quiet, ServiceStarts
    <2> QED BY <2>1, QuietStep
  <1>ClockBack. CASE ClockBack
    <2>1. Quiet
      BY <1>ClockBack DEF Quiet, ClockBack, Trouble
    <2> QED BY <2>1, QuietStep
  <1>Push. CASE Push
    <2>0. head \in Nat /\ origin \in Nat
      BY StampsPositive DEF TypeHost
    <2>1. head <= origin => head <= origin + 1
      BY <2>0
    <2>2. Quiet
      BY <1>Push, <2>1 DEF Quiet, Push
    <2> QED BY <2>2, QuietStep
  <1>Idle. CASE UNCHANGED vars
    <2>1. Quiet
      BY <1>Idle DEF Quiet, vars
    <2> QED BY <2>1, QuietStep
  <1> QED BY <1>r, <1>ServiceDies, <1>ServiceStarts, <1>ClockBack, <1>Push, <1>Idle DEF Next

----------------------------------------------------------------------------
(* The theorems.                                                             *)

THEOREM Invariance == Spec => []IInv
  <1>1. IInv /\ [Next]_vars => IInv'
    <2> SUFFICES ASSUME IInv, [Next]_vars PROVE IInv'
      OBVIOUS
    <2>1. TypeRuns' /\ TypeHost' /\ TypeWww'
      BY RunsStep, HostStep, WwwStep DEF IInv
    <2>2. TypeOK'
      BY <2>1 DEF TypeOK, TypeRuns, TypeHost, TypeWww
    <2> QED BY <2>2, LockStep, PathStep DEF IInv
  <1> QED BY InitInv, <1>1, PTL DEF Spec

\* Every state variable keeps its type, however many runs there are.
THEOREM TypeCorrect == Spec => []TypeOK
  BY Invariance, PTL DEF IInv

LEMMA InvWhole == IInv => SiteWhole
  BY NoSiteIsNoSite, TypeParts DEF IInv, SiteInv, TypeWww, SiteWhole, Whole

\* current names a whole release in every reachable state, for every number of
\* runs, faults and releases to keep (also 0).
THEOREM AlwaysWhole == Spec => []SiteWhole
  BY Invariance, InvWhole, PTL

----------------------------------------------------------------------------
(* Refinement of PublishedSite.                                              *)

site == IF current = 0 THEN 0
        ELSE IF Whole(current) THEN content[current].push ELSE MaxPush + 1

LEMMA SiteOf == IInv => site = IF current = 0 THEN 0 ELSE content[current].push
  BY InvWhole DEF site, SiteWhole

\* What visitors see stays.
Kept == /\ UNCHANGED <<origin, current>>
        /\ current # 0 => content'[current] = content[current]

LEMMA SiteStep == IInv /\ [Next]_vars => Kept \/ Push \/ (\E q \in Runs : Flip(q))
  <1> SUFFICES ASSUME IInv, [Next]_vars PROVE Kept \/ Push \/ (\E q \in Runs : Flip(q))
    OBVIOUS
  <1> USE DEF Step, Exit, Leave, repo, host, www, mine, env
  <1>r. ASSUME NEW r \in Runs,
                \/ Begin(r) \/ Proceed(r)
                \/ Fail(r) \/ Term(r) \/ TermEarly(r) \/ TermLate(r) \/ Kill(r)
         PROVE  Kept \/ Push \/ (\E q \in Runs : Flip(q))
    <2>1. CASE Begin(r)
      BY <2>1 DEF Kept, Begin
    <2>2. CASE Fail(r)
      BY <2>2 DEF Kept, Fail, Trouble
    <2>3. CASE Term(r)
      BY <2>3 DEF Kept, Term, Trouble
    <2>4. CASE TermEarly(r)
      BY <2>4 DEF Kept, TermEarly, Trouble
    <2>5. CASE TermLate(r)
      BY <2>5 DEF Kept, TermLate, Trouble
    <2>6. CASE Kill(r)
      BY <2>6 DEF Kept, Kill, Trouble
    <2>7. CASE SetTraps(r)
      BY <2>7 DEF Kept, SetTraps
    <2>8. CASE Flock(r)
      BY <2>8 DEF Kept, Flock
    <2>9. CASE Contended(r)
      BY <2>9 DEF Kept, Contended
    <2>10. CASE Fetch(r)
      BY <2>10 DEF Kept, Fetch
    <2>11. CASE Deps(r)
      BY <2>11 DEF Kept, Deps, DepsMoved
    <2>12. CASE NpmCi(r)
      BY <2>12 DEF Kept, NpmCi
    <2>13. CASE WriteHash(r)
      BY <2>13 DEF Kept, WriteHash
    <2>14. CASE GoBuild(r)
      BY <2>14 DEF Kept, GoBuild
    <2>15. CASE Compare(r)
      BY <2>15 DEF Kept, Compare
    <2>16. CASE Probe(r)
      BY <2>16 DEF Kept, Probe
    <2>17. CASE SwapBinary(r)
      BY <2>17 DEF Kept, SwapBinary
    <2>18. CASE Restart(r)
      BY <2>18 DEF Kept, Restart
    <2>19. CASE Verify(r)
      BY <2>19 DEF Kept, Verify
    <2>20. CASE Build(r)
      BY <2>20 DEF Kept, Build
    <2>21. CASE Guard(r)
      BY <2>21 DEF Kept, Guard
    <2>22. CASE Stamp(r)
      BY <2>22 DEF Kept, Stamp
    <2>23. CASE Copy(r)
      BY <2>23 DEF Kept, Copy
    <2>24. CASE Rename(r)
      <3>1. rel[r] \notin DOMAIN content
        BY <2>24 DEF Rename, IInv, PathInv
      <3>2. current # 0 => current \in DOMAIN content
        BY DEF IInv, SiteInv
      <3> QED BY <2>24, <3>1, <3>2 DEF Rename, Kept
    <2>25. CASE Link(r)
      BY <2>25 DEF Kept, Link
    <2>26. CASE Flip(r)
      BY <2>26
    <2>27. CASE List(r)
      BY <2>27 DEF Kept, List
    <2>28. CASE PruneOne(r)
      <3>1. PICK s \in victims[r] :
                /\ s # current
                /\ \/ content' = [t \in DOMAIN content \ {s} |-> content[t]]
                   \/ UNCHANGED content
                /\ UNCHANGED <<origin, current>>
        BY <2>28 DEF PruneOne, Spared
      <3>2. current # 0 => current \in DOMAIN content
        BY DEF IInv, SiteInv
      <3> QED BY <3>1, <3>2 DEF Kept
    <2>29. CASE Pruned(r)
      BY <2>29 DEF Kept, Pruned
    <2>30. CASE Last(r)
      BY <2>30 DEF Kept, Last
    <2>31. CASE Clean(r)
      BY <2>31 DEF Kept, Clean
    <2>32. CASE Mark(r)
      BY <2>32 DEF Kept, Mark
    <2> QED BY <1>r, <2>1, <2>2, <2>3, <2>4, <2>5, <2>6, <2>7, <2>8,
            <2>9, <2>10, <2>11, <2>12, <2>13, <2>14, <2>15, <2>16,
            <2>17, <2>18, <2>19, <2>20, <2>21, <2>22, <2>23, <2>24,
            <2>25, <2>26, <2>27, <2>28, <2>29, <2>30, <2>31, <2>32
            DEF Proceed
  <1>ServiceDies. CASE ServiceDies
    BY <1>ServiceDies DEF Kept, ServiceDies, Trouble
  <1>ServiceStarts. CASE ServiceStarts
    BY <1>ServiceStarts DEF Kept, ServiceStarts
  <1>ClockBack. CASE ClockBack
    BY <1>ClockBack DEF Kept, ClockBack, Trouble
  <1>Push. CASE Push
    BY <1>Push
  <1>Idle. CASE UNCHANGED vars
    BY <1>Idle DEF Kept, vars
  <1> QED BY <1>r, <1>ServiceDies, <1>ServiceStarts, <1>ClockBack, <1>Push, <1>Idle DEF Next

LEMMA RefinesInit == Init => Site!PInit
  BY DEF Init, Site!PInit

LEMMA RefinesNext == IInv /\ IInv' /\ [Next]_vars => [Site!PNext]_(Site!pvars)
  <1> SUFFICES ASSUME IInv, IInv', [Next]_vars PROVE [Site!PNext]_(Site!pvars)
    OBVIOUS
  <1>1. site = (IF current = 0 THEN 0 ELSE content[current].push)
    BY SiteOf
  <1>2. site' = (IF current' = 0 THEN 0 ELSE content'[current'].push)
    <2>1. SiteWhole'
      BY InvWhole, PTL
    <2> QED BY <2>1 DEF site, SiteWhole
  <1>3. CASE Kept
    BY <1>1, <1>2, <1>3 DEF Kept, site, Site!pvars
  <1>4. CASE Push
    <2>1. site' = site
      BY <1>1, <1>2, <1>4 DEF Push, www
    <2> QED BY <2>1, <1>4 DEF Push, site, Site!PNext, Site!PushTip
  <1>5. ASSUME NEW r \in Runs, Flip(r) PROVE Site!PNext
    <2>1. origin' = origin /\ current' = rel[r] /\ content' = content
      BY <1>5 DEF Flip, Step, repo, IInv, PathInv
    <2>2. rel[r] \in Stamps /\ content[rel[r]].push = head
      BY <1>5, TypeParts DEF Flip, Step, IInv, PathInv, TypeWww
    <2>3. site' = head
      BY <1>2, <2>1, <2>2, StampsPositive
    <2>4. head \in 1 .. origin
      <3>1. head \in Nat \ {0} /\ origin \in Nat \ {0}
        BY TypeParts, StampsPositive DEF IInv, TypeHost
      <3> QED BY <3>1 DEF IInv, SiteInv
    <2>5. head >= site
      <3>1. current # 0 => content[current].push <= head
        BY DEF IInv, SiteInv
      <3> QED BY <1>1, <3>1, <2>4
    <2> QED BY <2>1, <2>3, <2>4, <2>5 DEF Site!PNext, Site!Publish, site
  <1> QED BY <1>3, <1>4, <1>5, SiteStep

\* Visitors see whole versions of the branch that never go back, whatever the
\* runs, the faults and the clock do.
THEOREM Refinement == Spec => ImplementsSite
  BY Invariance, RefinesInit, RefinesNext, PTL DEF Spec, ImplementsSite, Site!PSpec

----------------------------------------------------------------------------
(* The marker, and what a run that ends leaves behind. The two moments of    *)
(* TermEarly and TermLate are excluded: there the code does otherwise.       *)

\* A run that was told to stop knows it, once the signal traps are set.
SignalInv == \A r \in Runs : signalled[r] => skip[r] \/ pc[r] = "idle"

LEMMA SignalStep == TypeRuns /\ "early" \notin Faults /\ SignalInv /\ [Next]_vars => SignalInv'
  <1> SUFFICES ASSUME TypeRuns /\ "early" \notin Faults /\ SignalInv, [Next]_vars PROVE SignalInv'
    OBVIOUS
  <1> USE RebuildAssumption DEF TypeRuns, SignalInv, Step, Exit, Leave, Work, Steps, repo, host,
      www, mine, env
  <1>r. ASSUME NEW r \in Runs,
                \/ Begin(r) \/ Proceed(r)
                \/ Fail(r) \/ Term(r) \/ TermEarly(r) \/ TermLate(r) \/ Kill(r)
         PROVE  SignalInv'
    <2>1. CASE Begin(r)
      BY <2>1 DEF Begin
    <2>2. CASE Fail(r)
      BY <2>2 DEF Fail, Trouble
    <2>3. CASE Term(r)
      BY <2>3 DEF Term, Trouble
    <2>4. CASE TermEarly(r)
      BY <2>4 DEF TermEarly, Trouble
    <2>5. CASE TermLate(r)
      BY <2>5 DEF TermLate, Trouble
    <2>6. CASE Kill(r)
      BY <2>6 DEF Kill, Trouble
    <2>7. CASE SetTraps(r)
      BY <2>7 DEF SetTraps
    <2>8. CASE Flock(r)
      BY <2>8 DEF Flock
    <2>9. CASE Contended(r)
      BY <2>9 DEF Contended
    <2>10. CASE Fetch(r)
      BY <2>10 DEF Fetch
    <2>11. CASE Deps(r)
      BY <2>11 DEF Deps
    <2>12. CASE NpmCi(r)
      BY <2>12 DEF NpmCi
    <2>13. CASE WriteHash(r)
      BY <2>13 DEF WriteHash
    <2>14. CASE GoBuild(r)
      BY <2>14 DEF GoBuild
    <2>15. CASE Compare(r)
      BY <2>15 DEF Compare
    <2>16. CASE Probe(r)
      BY <2>16 DEF Probe
    <2>17. CASE SwapBinary(r)
      BY <2>17 DEF SwapBinary
    <2>18. CASE Restart(r)
      BY <2>18 DEF Restart
    <2>19. CASE Verify(r)
      BY <2>19 DEF Verify
    <2>20. CASE Build(r)
      BY <2>20 DEF Build
    <2>21. CASE Guard(r)
      BY <2>21 DEF Guard
    <2>22. CASE Stamp(r)
      BY <2>22 DEF Stamp
    <2>23. CASE Copy(r)
      BY <2>23 DEF Copy
    <2>24. CASE Rename(r)
      BY <2>24 DEF Rename
    <2>25. CASE Link(r)
      BY <2>25 DEF Link
    <2>26. CASE Flip(r)
      BY <2>26 DEF Flip
    <2>27. CASE List(r)
      BY <2>27 DEF List
    <2>28. CASE PruneOne(r)
      BY <2>28 DEF PruneOne
    <2>29. CASE Pruned(r)
      BY <2>29 DEF Pruned
    <2>30. CASE Last(r)
      BY <2>30 DEF Last
    <2>31. CASE Clean(r)
      BY <2>31 DEF Clean
    <2>32. CASE Mark(r)
      BY <2>32 DEF Mark
    <2> QED
      BY <1>r, <2>1, <2>2, <2>3, <2>4, <2>5, <2>6, <2>7, <2>8, <2>9, <2>10, <2>11, <2>12,
         <2>13, <2>14, <2>15, <2>16, <2>17, <2>18, <2>19, <2>20, <2>21, <2>22, <2>23, <2>24,
         <2>25, <2>26, <2>27, <2>28, <2>29, <2>30, <2>31, <2>32 DEF Proceed
  <1>ServiceDies. CASE ServiceDies
    BY <1>ServiceDies DEF ServiceDies, Trouble
  <1>ServiceStarts. CASE ServiceStarts
    BY <1>ServiceStarts DEF ServiceStarts, Trouble
  <1>ClockBack. CASE ClockBack
    BY <1>ClockBack DEF ClockBack, Trouble
  <1>Push. CASE Push
    BY <1>Push DEF Push, Trouble
  <1>Idle. CASE UNCHANGED vars
    BY <1>Idle DEF vars
  <1> QED BY <1>r, <1>ServiceDies, <1>ServiceStarts, <1>ClockBack, <1>Push, <1>Idle DEF Next

\* The marker is written and cleared only by a run that ends by itself, never by
\* one that was told to stop or that found the lock taken (rebuild.sh:191-192).
THEOREM MarkerTrue ==
    ASSUME "early" \notin Faults
    PROVE  Spec => MarkerOnlyByEndedRuns
  <1>1. Init => SignalInv
    BY DEF Init, SignalInv
  <1>2. SignalInv /\ [Next]_vars
            => [marker' # marker =>
                   \E r \in Runs : pc[r] = "mark" /\ ~skip[r] /\ ~signalled[r]]_vars
    <2> SUFFICES ASSUME SignalInv, [Next]_vars, marker' # marker
        PROVE \E r \in Runs : pc[r] = "mark" /\ ~skip[r] /\ ~signalled[r]
      OBVIOUS
    <2>1. PICK r \in Runs : Mark(r)
      BY DEF Next, vars, Proceed, Begin, Fail, Term, TermEarly, TermLate, Kill, SetTraps, Flock,
             Contended, Fetch, Deps, NpmCi, WriteHash, GoBuild, Compare, Probe, SwapBinary,
             Restart, Verify, Build, Guard, Stamp, Copy, Rename, Link, Flip, List, PruneOne,
             Pruned, Last, Clean, ServiceDies, ServiceStarts, ClockBack, Push
    <2> QED BY <2>1 DEF Mark, SignalInv
  <1>3. TypeOK /\ SignalInv /\ [Next]_vars => SignalInv'
    BY SignalStep, TypeParts
  <1> QED BY <1>1, <1>2, <1>3, TypeCorrect, PTL DEF Spec, MarkerOnlyByEndedRuns

Swept == stage = 0 /\ link = 0 /\ ~scratch

\* Who holds the lock is at work or about to sweep, and what lies about is its
\* own: its staging tree carries the name of its release.
SweepInv ==
    /\ \A r \in Runs : lock = r <=> held[r]
    /\ \A r \in Runs : held[r] => pc[r] \in Work \cup {"exit", "clean", "mark"}
    /\ ~killed => /\ lock = NoRun => Swept
                  /\ \A r \in Runs : held[r] =>
                        /\ stage \in {0, rel[r]}
                        /\ pc[r] \in Work \ {"copying", "rename"} => stage = 0
                        /\ pc[r] = "mark" => Swept

LEMMA SweepStep == TypeRuns /\ LockInv /\ "late" \notin Faults /\ SweepInv /\ [Next]_vars => SweepInv'
  <1> SUFFICES ASSUME TypeRuns /\ LockInv /\ "late" \notin Faults /\ SweepInv, [Next]_vars PROVE SweepInv'
    OBVIOUS
  <1> USE RebuildAssumption DEF TypeRuns, LockInv, SweepInv, Swept, Step, Exit, Leave, Work,
      Steps, repo, host, www, mine, env
  <1>r. ASSUME NEW r \in Runs,
                \/ Begin(r) \/ Proceed(r)
                \/ Fail(r) \/ Term(r) \/ TermEarly(r) \/ TermLate(r) \/ Kill(r)
         PROVE  SweepInv'
    <2>1. CASE Begin(r)
      BY <2>1 DEF Begin
    <2>2. CASE Fail(r)
      BY <2>2 DEF Fail, Trouble
    <2>3. CASE Term(r)
      BY <2>3 DEF Term, Trouble
    <2>4. CASE TermEarly(r)
      BY <2>4 DEF TermEarly, Trouble
    <2>5. CASE TermLate(r)
      BY <2>5 DEF TermLate, Trouble
    <2>6. CASE Kill(r)
      BY <2>6 DEF Kill, Trouble
    <2>7. CASE SetTraps(r)
      BY <2>7 DEF SetTraps
    <2>8. CASE Flock(r)
      BY <2>8 DEF Flock
    <2>9. CASE Contended(r)
      BY <2>9 DEF Contended
    <2>10. CASE Fetch(r)
      BY <2>10 DEF Fetch
    <2>11. CASE Deps(r)
      BY <2>11 DEF Deps
    <2>12. CASE NpmCi(r)
      BY <2>12 DEF NpmCi
    <2>13. CASE WriteHash(r)
      BY <2>13 DEF WriteHash
    <2>14. CASE GoBuild(r)
      BY <2>14 DEF GoBuild
    <2>15. CASE Compare(r)
      BY <2>15 DEF Compare
    <2>16. CASE Probe(r)
      BY <2>16 DEF Probe
    <2>17. CASE SwapBinary(r)
      BY <2>17 DEF SwapBinary
    <2>18. CASE Restart(r)
      BY <2>18 DEF Restart
    <2>19. CASE Verify(r)
      BY <2>19 DEF Verify
    <2>20. CASE Build(r)
      BY <2>20 DEF Build
    <2>21. CASE Guard(r)
      BY <2>21 DEF Guard
    <2>22. CASE Stamp(r)
      BY <2>22 DEF Stamp
    <2>23. CASE Copy(r)
      BY <2>23 DEF Copy
    <2>24. CASE Rename(r)
      BY <2>24 DEF Rename
    <2>25. CASE Link(r)
      BY <2>25 DEF Link
    <2>26. CASE Flip(r)
      BY <2>26 DEF Flip
    <2>27. CASE List(r)
      BY <2>27 DEF List
    <2>28. CASE PruneOne(r)
      BY <2>28 DEF PruneOne
    <2>29. CASE Pruned(r)
      BY <2>29 DEF Pruned
    <2>30. CASE Last(r)
      BY <2>30 DEF Last
    <2>31. CASE Clean(r)
      BY <2>31 DEF Clean
    <2>32. CASE Mark(r)
      BY <2>32 DEF Mark
    <2> QED
      BY <1>r, <2>1, <2>2, <2>3, <2>4, <2>5, <2>6, <2>7, <2>8, <2>9, <2>10, <2>11, <2>12,
         <2>13, <2>14, <2>15, <2>16, <2>17, <2>18, <2>19, <2>20, <2>21, <2>22, <2>23, <2>24,
         <2>25, <2>26, <2>27, <2>28, <2>29, <2>30, <2>31, <2>32 DEF Proceed
  <1>ServiceDies. CASE ServiceDies
    BY <1>ServiceDies DEF ServiceDies, Trouble
  <1>ServiceStarts. CASE ServiceStarts
    BY <1>ServiceStarts DEF ServiceStarts, Trouble
  <1>ClockBack. CASE ClockBack
    BY <1>ClockBack DEF ClockBack, Trouble
  <1>Push. CASE Push
    BY <1>Push DEF Push, Trouble
  <1>Idle. CASE UNCHANGED vars
    BY <1>Idle DEF vars
  <1> QED BY <1>r, <1>ServiceDies, <1>ServiceStarts, <1>ClockBack, <1>Push, <1>Idle DEF Next

\* Runs that were not killed leave no staging tree, no current.tmp and no scratch
\* binary behind, however they end (rebuild.sh:137-140).
THEOREM NothingLeft ==
    ASSUME "late" \notin Faults
    PROVE  Spec => []LeftoversSwept
  <1>1. Init => SweepInv
    BY RebuildAssumption DEF Init, SweepInv, Swept
  <1>2. SweepInv => LeftoversSwept
    BY DEF SweepInv, Swept, LeftoversSwept
  <1>3. IInv /\ SweepInv /\ [Next]_vars => SweepInv'
    BY SweepStep, TypeParts DEF IInv
  <1> QED BY <1>1, <1>2, <1>3, Invariance, PTL DEF Spec

----------------------------------------------------------------------------
(* What status 0 says.                                                       *)

\* From the comparison of the counters on, the installed one is that of the
\* checkout; from the flip on, the site is the release of the run.
Equipped == {"probe", "restart", "verify", "build", "building", "guard", "stamp",
             "copy", "copying", "rename", "link", "flip"}

Reporting(r) ==
    \/ pc[r] \in {"list", "prune", "last"}
    \/ pc[r] \in {"exit", "clean", "mark"} /\ st[r] = 0 /\ ~skip[r] /\ ~signalled[r]

DoneInv ==
    \A r \in Runs :
        /\ pc[r] \in Work => held[r]
        /\ pc[r] \in Equipped \/ Reporting(r) => bin = CtrOf[head]
        /\ Reporting(r) => /\ held[r] /\ current = rel[r] /\ rel[r] \in DOMAIN content
                           /\ content[rel[r]].push = head

LEMMA DoneStep == TypeRuns /\ LockInv /\ PathInv /\ DoneInv /\ [Next]_vars => DoneInv'
  <1> SUFFICES ASSUME TypeRuns /\ LockInv /\ PathInv /\ DoneInv, [Next]_vars PROVE DoneInv'
    OBVIOUS
  <1> USE RebuildAssumption DEF TypeRuns, LockInv, DoneInv, Reporting, Equipped, Step, Exit,
      Leave, Work, Steps, repo, host, www, mine, env
  <1>r. ASSUME NEW r \in Runs,
                \/ Begin(r) \/ Proceed(r)
                \/ Fail(r) \/ Term(r) \/ TermEarly(r) \/ TermLate(r) \/ Kill(r)
         PROVE  DoneInv'
    <2>1. CASE Begin(r)
      BY <2>1 DEF Begin
    <2>2. CASE Fail(r)
      BY <2>2 DEF Fail, Trouble
    <2>3. CASE Term(r)
      BY <2>3 DEF Term, Trouble
    <2>4. CASE TermEarly(r)
      BY <2>4 DEF TermEarly, Trouble
    <2>5. CASE TermLate(r)
      BY <2>5 DEF TermLate, Trouble
    <2>6. CASE Kill(r)
      BY <2>6 DEF Kill, Trouble
    <2>7. CASE SetTraps(r)
      BY <2>7 DEF SetTraps
    <2>8. CASE Flock(r)
      BY <2>8 DEF Flock
    <2>9. CASE Contended(r)
      BY <2>9 DEF Contended
    <2>10. CASE Fetch(r)
      BY <2>10 DEF Fetch
    <2>11. CASE Deps(r)
      BY <2>11 DEF Deps
    <2>12. CASE NpmCi(r)
      BY <2>12 DEF NpmCi
    <2>13. CASE WriteHash(r)
      BY <2>13 DEF WriteHash
    <2>14. CASE GoBuild(r)
      BY <2>14 DEF GoBuild
    <2>15. CASE Compare(r)
      BY <2>15 DEF Compare
    <2>16. CASE Probe(r)
      BY <2>16 DEF Probe
    <2>17. CASE SwapBinary(r)
      BY <2>17 DEF SwapBinary
    <2>18. CASE Restart(r)
      BY <2>18 DEF Restart
    <2>19. CASE Verify(r)
      BY <2>19 DEF Verify
    <2>20. CASE Build(r)
      BY <2>20 DEF Build
    <2>21. CASE Guard(r)
      BY <2>21 DEF Guard
    <2>22. CASE Stamp(r)
      BY <2>22 DEF Stamp
    <2>23. CASE Copy(r)
      BY <2>23 DEF Copy
    <2>24. CASE Rename(r)
      BY <2>24 DEF Rename
    <2>25. CASE Link(r)
      BY <2>25 DEF Link
    <2>26. CASE Flip(r)
      BY <2>26 DEF Flip, PathInv
    <2>27. CASE List(r)
      BY <2>27 DEF List
    <2>28. CASE PruneOne(r)
      BY <2>28 DEF PruneOne, Spared
    <2>29. CASE Pruned(r)
      BY <2>29 DEF Pruned
    <2>30. CASE Last(r)
      BY <2>30 DEF Last
    <2>31. CASE Clean(r)
      BY <2>31 DEF Clean
    <2>32. CASE Mark(r)
      BY <2>32 DEF Mark
    <2> QED
      BY <1>r, <2>1, <2>2, <2>3, <2>4, <2>5, <2>6, <2>7, <2>8, <2>9, <2>10, <2>11, <2>12,
         <2>13, <2>14, <2>15, <2>16, <2>17, <2>18, <2>19, <2>20, <2>21, <2>22, <2>23, <2>24,
         <2>25, <2>26, <2>27, <2>28, <2>29, <2>30, <2>31, <2>32 DEF Proceed
  <1>ServiceDies. CASE ServiceDies
    BY <1>ServiceDies DEF ServiceDies, Trouble
  <1>ServiceStarts. CASE ServiceStarts
    BY <1>ServiceStarts DEF ServiceStarts, Trouble
  <1>ClockBack. CASE ClockBack
    BY <1>ClockBack DEF ClockBack, Trouble
  <1>Push. CASE Push
    BY <1>Push DEF Push, Trouble
  <1>Idle. CASE UNCHANGED vars
    BY <1>Idle DEF vars
  <1> QED BY <1>r, <1>ServiceDies, <1>ServiceStarts, <1>ClockBack, <1>Push, <1>Idle DEF Next

\* A run that reports success has published: the site is its own release, of the
\* push that it checked out, whose counter is installed, for every number of runs
\* and whatever earlier runs left half done.
THEOREM SuccessTrue == Spec => []SuccessIsDeployed
  <1>1. Init => DoneInv
    BY DEF Init, DoneInv, Reporting, Work, Equipped
  <1>2. DoneInv => SuccessIsDeployed
    BY DEF DoneInv, Reporting, SuccessIsDeployed, Succeeded
  <1>3. IInv /\ DoneInv /\ [Next]_vars => DoneInv'
    BY DoneStep, TypeParts DEF IInv
  <1> QED BY <1>1, <1>2, <1>3, Invariance, PTL DEF Spec

----------------------------------------------------------------------------
(* The releases that are kept.                                               *)

Old(s) == Cardinality(Newer(s)) >= Keep

\* Every release that is old is on the list; when the list is done, only current
\* is old. As releases go, no other one becomes old.
KeepInv ==
    \A r \in Runs :
        /\ pc[r] = "prune" => \A s \in DOMAIN content \ torn : Old(s) => s \in victims[r]
        /\ Reporting(r) /\ pc[r] \notin {"list", "prune"} =>
               \A s \in DOMAIN content \ torn : Old(s) => s = current

LEMMA FiniteContent == TypeWww => IsFiniteSet(DOMAIN content) /\ DOMAIN content \subseteq Nat
  <1> SUFFICES ASSUME TypeWww PROVE IsFiniteSet(DOMAIN content) /\ DOMAIN content \subseteq Nat
    OBVIOUS
  <1>1. IsFiniteSet(Stamps)
    BY FS_Interval, RebuildAssumption DEF Stamps
  <1>2. DOMAIN content \subseteq Stamps
    BY DEF TypeWww
  <1> QED BY <1>1, <1>2, FS_Subset, StampsPositive

LEMMA OldSame == UNCHANGED content => \A s : Old(s)' <=> Old(s)
  BY DEF Old, Newer

LEMMA OldFewer ==
    ASSUME TypeWww, NEW v, content' = [t \in DOMAIN content \ {v} |-> content[t]]
    PROVE  \A s : Old(s)' => Old(s)
  <1> SUFFICES ASSUME NEW s, Old(s)' PROVE Old(s)
    OBVIOUS
  <1>1. Newer(s)' \subseteq Newer(s) /\ Newer(s) \subseteq DOMAIN content
    BY DEF Newer
  <1>2. IsFiniteSet(Newer(s))
    BY <1>1, FiniteContent, FS_Subset
  <1>3. Cardinality(Newer(s)') <= Cardinality(Newer(s))
    BY <1>1, <1>2, FS_Subset
  <1>4. Cardinality(Newer(s)') \in Nat /\ Cardinality(Newer(s)) \in Nat
    BY <1>1, <1>2, FS_Subset, FS_CardinalityType
  <1>5. Cardinality(Newer(s)') >= Keep
    BY DEF Old
  <1> QED BY <1>3, <1>4, <1>5, RebuildAssumption DEF Old

LEMMA KeepStep == TypeRuns /\ TypeWww /\ LockInv /\ DoneInv /\ KeepInv /\ [Next]_vars => KeepInv'
  <1> SUFFICES ASSUME TypeRuns /\ TypeWww /\ LockInv /\ DoneInv /\ KeepInv, [Next]_vars PROVE KeepInv'
    OBVIOUS
  <1> USE RebuildAssumption DEF TypeRuns, LockInv, DoneInv, KeepInv, Reporting, Step, Exit, Leave,
      Work, Steps, repo, host, www, mine, env
  <1>r. ASSUME NEW r \in Runs,
                \/ Begin(r) \/ Proceed(r)
                \/ Fail(r) \/ Term(r) \/ TermEarly(r) \/ TermLate(r) \/ Kill(r)
         PROVE  KeepInv'
    <2>1. CASE Begin(r)
      BY <2>1, OldSame DEF Begin
    <2>2. CASE Fail(r)
      BY <2>2, OldSame DEF Fail, Trouble
    <2>3. CASE Term(r)
      BY <2>3, OldSame DEF Term, Trouble
    <2>4. CASE TermEarly(r)
      BY <2>4, OldSame DEF TermEarly, Trouble
    <2>5. CASE TermLate(r)
      BY <2>5, OldSame DEF TermLate, Trouble
    <2>6. CASE Kill(r)
      BY <2>6, OldSame DEF Kill, Trouble
    <2>7. CASE SetTraps(r)
      BY <2>7, OldSame DEF SetTraps
    <2>8. CASE Flock(r)
      BY <2>8, OldSame DEF Flock
    <2>9. CASE Contended(r)
      BY <2>9, OldSame DEF Contended
    <2>10. CASE Fetch(r)
      BY <2>10, OldSame DEF Fetch
    <2>11. CASE Deps(r)
      BY <2>11, OldSame DEF Deps
    <2>12. CASE NpmCi(r)
      BY <2>12, OldSame DEF NpmCi
    <2>13. CASE WriteHash(r)
      BY <2>13, OldSame DEF WriteHash
    <2>14. CASE GoBuild(r)
      BY <2>14, OldSame DEF GoBuild
    <2>15. CASE Compare(r)
      BY <2>15, OldSame DEF Compare
    <2>16. CASE Probe(r)
      BY <2>16, OldSame DEF Probe
    <2>17. CASE SwapBinary(r)
      BY <2>17, OldSame DEF SwapBinary
    <2>18. CASE Restart(r)
      BY <2>18, OldSame DEF Restart
    <2>19. CASE Verify(r)
      BY <2>19, OldSame DEF Verify
    <2>20. CASE Build(r)
      BY <2>20, OldSame DEF Build
    <2>21. CASE Guard(r)
      BY <2>21, OldSame DEF Guard
    <2>22. CASE Stamp(r)
      BY <2>22, OldSame DEF Stamp
    <2>23. CASE Copy(r)
      BY <2>23, OldSame DEF Copy
    <2>24. CASE Rename(r)
      BY <2>24, OldSame DEF Rename
    <2>25. CASE Link(r)
      BY <2>25, OldSame DEF Link
    <2>26. CASE Flip(r)
      BY <2>26, OldSame DEF Flip
    <2>27. CASE List(r)
      BY <2>27, OldSame DEF List, Old
    <2>28. CASE PruneOne(r)
      <3>1. PICK s \in victims[r] :
                /\ pc[r] = "prune" /\ pc' = pc /\ current' = current
                /\ victims' = [victims EXCEPT ![r] = victims[r] \ {s}]
                /\ \/ /\ content' = [t \in DOMAIN content \ {s} |-> content[t]]
                      /\ torn' = torn \ {s}
                   \/ content' = content /\ torn' = torn \cup {s}
        BY <2>28 DEF PruneOne
      <3>2. \A t : Old(t)' => Old(t)
        BY <3>1, OldSame, OldFewer
      <3>3. DOMAIN content' \ torn' \subseteq (DOMAIN content \ torn) \ {s}
        BY <3>1
      <3>4. \A q \in Runs : pc[q] \in Work \/ held[q] => q = r
        BY <3>1
      <3> QED BY <2>28, <3>1, <3>2, <3>3, <3>4 DEF PruneOne
    <2>29. CASE Pruned(r)
      BY <2>29, OldSame DEF Pruned, Spared
    <2>30. CASE Last(r)
      BY <2>30, OldSame DEF Last
    <2>31. CASE Clean(r)
      BY <2>31, OldSame DEF Clean
    <2>32. CASE Mark(r)
      BY <2>32, OldSame DEF Mark
    <2> QED
      BY <1>r, <2>1, <2>2, <2>3, <2>4, <2>5, <2>6, <2>7, <2>8, <2>9, <2>10, <2>11, <2>12,
         <2>13, <2>14, <2>15, <2>16, <2>17, <2>18, <2>19, <2>20, <2>21, <2>22, <2>23, <2>24,
         <2>25, <2>26, <2>27, <2>28, <2>29, <2>30, <2>31, <2>32 DEF Proceed
  <1>ServiceDies. CASE ServiceDies
    BY <1>ServiceDies, OldSame DEF ServiceDies, Trouble
  <1>ServiceStarts. CASE ServiceStarts
    BY <1>ServiceStarts, OldSame DEF ServiceStarts, Trouble
  <1>ClockBack. CASE ClockBack
    BY <1>ClockBack, OldSame DEF ClockBack, Trouble
  <1>Push. CASE Push
    BY <1>Push, OldSame DEF Push, Trouble
  <1>Idle. CASE UNCHANGED vars
    BY <1>Idle, OldSame DEF vars
  <1> QED BY <1>r, <1>ServiceDies, <1>ServiceStarts, <1>ClockBack, <1>Push, <1>Idle DEF Next

\* Of the releases that have fewer than $KEEP newer ones there are at most $KEEP:
\* the oldest of them has all the others above it.
LEMMA KeptFew ==
    ASSUME TypeWww
    PROVE  LET kept == {s \in DOMAIN content : ~Old(s)}
           IN  IsFiniteSet(kept) /\ Cardinality(kept) <= Keep
  <1> DEFINE kept == {s \in DOMAIN content : ~Old(s)}
  <1>1. IsFiniteSet(kept) /\ kept \subseteq Nat /\ kept \subseteq DOMAIN content
    BY FiniteContent, FS_Subset
  <1>2. CASE kept = {}
    BY <1>1, <1>2, FS_EmptySet, RebuildAssumption
  <1>3. CASE kept # {}
    <2>1. PICK m \in kept : \A s \in kept : m <= s
      <3> HIDE DEF kept
      <3>1. kept \in SUBSET Nat
        BY <1>1
      <3>2. \E m \in kept : \A s \in kept : <<s, m>> \notin OpToRel(<, Nat)
        BY <1>3, <3>1, NatLessThanWellFounded, WFMin
      <3> QED
        <4>1. PICK m \in kept : \A s \in kept : <<s, m>> \notin OpToRel(<, Nat)
          BY <3>2
        <4>2. \A s \in kept : ~ (s < m)
          BY <3>1, <4>1, Zenon DEF OpToRel
        <4> QED BY <3>1, <4>2
    <2>2. kept \ {m} \subseteq Newer(m) /\ Newer(m) \subseteq DOMAIN content
      <3>1. \A s \in kept \ {m} : s > m
        BY <1>1, <2>1
      <3> QED BY <1>1, <3>1 DEF Newer
    <2>3. IsFiniteSet(Newer(m)) /\ Cardinality(Newer(m)) \in Nat
      BY <2>2, FiniteContent, FS_Subset, FS_CardinalityType
    <2>4. Cardinality(Newer(m)) < Keep
      BY <2>1, <2>3, RebuildAssumption DEF Old
    <2> HIDE DEF kept
    <2>5. Cardinality(kept \ {m}) <= Cardinality(Newer(m))
      BY <2>2, <2>3, FS_Subset
    <2>6. Cardinality(kept \ {m}) = Cardinality(kept) - 1 /\ Cardinality(kept) \in Nat
      BY <1>1, <2>1, FS_RemoveElement, FS_CardinalityType
    <2> DEFINE n == Cardinality(Newer(m))
               k == Cardinality(kept)
               j == Cardinality(kept \ {m})
    <2>7. n \in Nat /\ n < Keep /\ j <= n /\ j = k - 1 /\ k \in Nat /\ Keep \in Nat
      BY <2>3, <2>4, <2>5, <2>6, RebuildAssumption
    <2> HIDE DEF n, k, j
    <2>8. k <= Keep
      BY <2>7
    <2> QED BY <1>1, <2>8 DEF k, kept
  <1> QED BY <1>2, <1>3

LEMMA KeptMeans == TypeWww /\ DoneInv /\ KeepInv => Retention
  <1> SUFFICES ASSUME TypeWww, DoneInv, KeepInv, NEW r \in Runs, Succeeded(r)
      PROVE Cardinality(DOMAIN content \ torn)
                <= Keep + (IF Cardinality(Newer(current)) >= Keep THEN 1 ELSE 0)
    BY DEF Retention
  <1> DEFINE kept == {s \in DOMAIN content : ~Old(s)}
             left == DOMAIN content \ torn
  <1>1. Reporting(r) /\ pc[r] = "mark"
    BY DEF Succeeded, Reporting
  <1>2. left \subseteq kept \cup (IF Old(current) THEN {current} ELSE {})
    BY <1>1 DEF KeepInv
  <1>3. IsFiniteSet(kept) /\ Cardinality(kept) <= Keep
    BY KeptFew
  <1> HIDE DEF kept, left
  <1>4. Cardinality(kept) \in Nat /\ IsFiniteSet(kept \cup {current})
        /\ Cardinality(kept \cup {current}) <= Cardinality(kept) + 1
        /\ Cardinality(kept \cup {current}) \in Nat
    <2>1. Cardinality(kept) \in Nat
      BY <1>3, FS_CardinalityType
    <2>2. /\ IsFiniteSet(kept \cup {current})
          /\ Cardinality(kept \cup {current})
                = IF current \in kept THEN Cardinality(kept) ELSE Cardinality(kept) + 1
      BY <1>3, FS_AddElement
    <2> QED BY <2>1, <2>2
  <1>5. CASE Old(current)
    <2>1. Cardinality(left) <= Cardinality(kept \cup {current}) /\ IsFiniteSet(left)
      BY <1>2, <1>4, <1>5, FS_Subset
    <2>2. Cardinality(left) \in Nat
      BY <2>1, FS_CardinalityType
    <2>3. Cardinality(left) <= Keep + 1
      BY <1>3, <1>4, <2>1, <2>2, RebuildAssumption
    <2> QED BY <1>5, <2>3 DEF Old, left
  <1>6. CASE ~Old(current)
    <2>1. Cardinality(left) <= Cardinality(kept) /\ IsFiniteSet(left)
      BY <1>2, <1>3, <1>6, FS_Subset
    <2>2. Cardinality(left) \in Nat
      BY <2>1, FS_CardinalityType
    <2>3. Cardinality(left) <= Keep + 0
      BY <1>3, <1>4, <2>1, <2>2, RebuildAssumption
    <2> QED BY <1>6, <2>3 DEF Old, left
  <1> QED BY <1>5, <1>6

\* After a success at most $KEEP releases are left, and current if it is older
\* than those, apart from what rm could not remove; also when the clock was set
\* back and current is not the newest (rebuild.sh:403-443).
THEOREM KeepsFew == Spec => []Retention
  <1>1. Init => DoneInv /\ KeepInv
    BY DEF Init, DoneInv, KeepInv, Reporting, Work, Equipped
  <1>2. IInv /\ DoneInv /\ KeepInv /\ [Next]_vars => DoneInv' /\ KeepInv'
    BY DoneStep, KeepStep, TypeParts DEF IInv
  <1>3. IInv /\ DoneInv /\ KeepInv => Retention
    BY KeptMeans, TypeParts DEF IInv
  <1> QED BY <1>1, <1>2, <1>3, Invariance, PTL DEF Spec

----------------------------------------------------------------------------
(* Why a run ends: it goes through its steps in one order.                   *)

\* The order of the steps; those after "exit" are the EXIT trap's.
Rank == [ traps |-> 1, flock |-> 2, fetch |-> 3, deps |-> 4, npm |-> 5,
          installing |-> 6, hash |-> 7, go |-> 8, cmp |-> 9, probe |-> 10,
          swap |-> 11, restart |-> 12, verify |-> 13, build |-> 14,
          building |-> 15, guard |-> 16, stamp |-> 17, copy |-> 18,
          copying |-> 19, rename |-> 20, link |-> 21, flip |-> 22,
          list |-> 23, prune |-> 24, last |-> 25, exit |-> 26,
          clean |-> 27, mark |-> 28, idle |-> 29 ]

Onward(r) == \/ Rank[pc[r]] < Rank[pc'[r]]
             \/ /\ pc[r] = "prune" /\ pc'[r] = "prune"
                /\ victims'[r] \subseteq victims[r] /\ victims'[r] # victims[r]
Stays(r)  == pc'[r] = pc[r] /\ victims'[r] = victims[r]

GoesOnward ==
    \A r \in Runs : /\ Proceed(r) => Onward(r)
                    /\ pc[r] # "idle" => Onward(r) \/ Stays(r)

LEMMA RunOnward ==
    ASSUME TypeRuns, NEW q \in Runs,
           Proceed(q) \/ Fail(q) \/ Term(q) \/ TermEarly(q) \/ TermLate(q) \/ Kill(q)
    PROVE  Onward(q) /\ \A r \in Runs \ {q} : Stays(r)
  <1> USE DEF TypeRuns, Onward, Stays, Rank, Step, Exit, Leave, Steps, Work, repo, host, www, mine, env
  <1>1. CASE Fail(q)
    BY <1>1 DEF Fail, Trouble
  <1>2. CASE Term(q)
    BY <1>2 DEF Term, Trouble
  <1>3. CASE TermEarly(q)
    BY <1>3 DEF TermEarly, Trouble
  <1>4. CASE TermLate(q)
    BY <1>4 DEF TermLate, Trouble
  <1>5. CASE Kill(q)
    BY <1>5 DEF Kill, Trouble
  <1>6. CASE SetTraps(q)
    BY <1>6 DEF SetTraps
  <1>7. CASE Flock(q)
    BY <1>7 DEF Flock
  <1>8. CASE Contended(q)
    BY <1>8 DEF Contended
  <1>9. CASE Fetch(q)
    BY <1>9 DEF Fetch
  <1>10. CASE Deps(q)
    BY <1>10 DEF Deps, DepsMoved
  <1>11. CASE NpmCi(q)
    BY <1>11 DEF NpmCi
  <1>12. CASE WriteHash(q)
    BY <1>12 DEF WriteHash
  <1>13. CASE GoBuild(q)
    BY <1>13 DEF GoBuild
  <1>14. CASE Compare(q)
    BY <1>14 DEF Compare
  <1>15. CASE Probe(q)
    BY <1>15 DEF Probe
  <1>16. CASE SwapBinary(q)
    BY <1>16 DEF SwapBinary
  <1>17. CASE Restart(q)
    BY <1>17 DEF Restart
  <1>18. CASE Verify(q)
    BY <1>18 DEF Verify
  <1>19. CASE Build(q)
    BY <1>19 DEF Build
  <1>20. CASE Guard(q)
    BY <1>20 DEF Guard
  <1>21. CASE Stamp(q)
    BY <1>21 DEF Stamp
  <1>22. CASE Copy(q)
    BY <1>22 DEF Copy
  <1>23. CASE Rename(q)
    BY <1>23 DEF Rename
  <1>24. CASE Link(q)
    BY <1>24 DEF Link
  <1>25. CASE Flip(q)
    BY <1>25 DEF Flip
  <1>26. CASE List(q)
    BY <1>26 DEF List
  <1>27. CASE PruneOne(q)
    BY <1>27 DEF PruneOne
  <1>28. CASE Pruned(q)
    BY <1>28 DEF Pruned
  <1>29. CASE Last(q)
    BY <1>29 DEF Last
  <1>30. CASE Clean(q)
    BY <1>30 DEF Clean
  <1>31. CASE Mark(q)
    BY <1>31 DEF Mark
  <1> QED BY <1>1, <1>2, <1>3, <1>4, <1>5, <1>6, <1>7, <1>8, <1>9, <1>10, <1>11,
            <1>12, <1>13, <1>14, <1>15, <1>16, <1>17, <1>18, <1>19, <1>20, <1>21, <1>22, <1>23,
            <1>24, <1>25, <1>26, <1>27, <1>28, <1>29, <1>30, <1>31
            DEF Proceed

\* No command is repeated: whatever fails or is signalled, a run goes from each
\* of its steps to a later one, or has one release less to prune, of which there
\* are finitely many; no other run and nothing outside sets it back. With the
\* fairness of RunsEnd this is why a run ends (rebuild.sh:89, 428-443).
THEOREM RunsGoOnward == Spec => [][GoesOnward]_vars
  <1>1. TypeOK /\ [Next]_vars => [GoesOnward]_vars
    <2> SUFFICES ASSUME TypeOK, Next PROVE GoesOnward
      OBVIOUS
    <2>1. TypeRuns
      BY TypeParts
    <2>2. ASSUME NEW q \in Runs, Begin(q)
          PROVE  \A r \in Runs : (r = q /\ pc[q] = "idle") \/ Stays(r)
      BY <2>1, <2>2 DEF Begin, Step, Stays, TypeRuns, mine
    <2>3. ASSUME ServiceDies \/ ServiceStarts \/ ClockBack \/ Push
          PROVE  \A r \in Runs : Stays(r)
      BY <2>3 DEF ServiceDies, ServiceStarts, ClockBack, Push, Stays, mine
    <2>4. \A r \in Runs : pc[r] # "idle" => Onward(r) \/ Stays(r)
      BY <2>1, <2>2, <2>3, RunOnward DEF Next
    <2>5. ASSUME NEW r \in Runs, Proceed(r) PROVE Onward(r)
      BY <2>1, <2>5, RunOnward
    <2> QED
      BY <2>4, <2>5 DEF GoesOnward
  <1> QED
    BY <1>1, TypeCorrect, PTL DEF Spec
============================================================================
