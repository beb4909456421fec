------------------------------ MODULE Rebuild ------------------------------
(* deploy/rebuild.sh: the run that fetches the release branch, installs     *)
(* dependencies, rebuilds and restarts the counter, builds the site and     *)
(* publishes it, started hourly by a timer and by hand. Several runs may    *)
(* exist at once; each can fail at any command, be told to stop (TERM) or   *)
(* be killed, and what it leaves behind is what the next one finds.         *)
(*                                                                          *)
(* Pushes are numbered; LockOf and CtrOf give the lockfile and the counter  *)
(* that a push contains (a `git revert` is a push with those of an earlier  *)
(* one). A release is named by a second of the clock. The dump of the       *)
(* scores, which cannot stop a run, is in module Counter.                   *)
EXTENDS Naturals, FiniteSets

CONSTANTS
    Runs, NoRun,
    Locks,         \* versions of package-lock.json
    Bins,          \* versions of the compiled counter
    GoodBins,      \* those that serve once started
    LockOf, CtrOf, \* what a push contains
    Keep,          \* releases to retain
    Faults,        \* the kinds of trouble that may happen
    MaxPush, MaxStamp, MaxFaults   \* bounds of the model

Pushes == 1 .. MaxPush
Stamps == 1 .. MaxStamp
None   == "none"
Mixed  == "mixed"     \* node_modules while npm ci has not finished

FaultKinds == {"fail", "term", "kill",
               "early",    \* TERM before the signal traps are set
               "late",     \* TERM between `exit` and the disarming of the traps
               "service",  \* the counter dies by itself
               "clock"}    \* the wall clock is set back

ASSUME RebuildAssumption ==
    /\ NoRun \notin Runs
    /\ {None, Mixed} \cap Locks = {} /\ None \notin Bins
    /\ GoodBins \subseteq Bins
    /\ MaxPush \in Nat \ {0} /\ MaxStamp \in Nat /\ MaxFaults \in Nat
    /\ Keep \in Nat
    /\ Faults \subseteq FaultKinds
    /\ LockOf \in [Pushes -> Locks] /\ CtrOf \in [Pushes -> Bins]

VARIABLES
    \* The repository's directory and the branch.
    origin,     \* the latest push
    head,       \* the push that is checked out
    modules,    \* the lockfile node_modules was installed from
    lockHash,   \* .deploy-lock-hash
    scratch,    \* whether a counter/.counter.* file exists
    dist,       \* what dist/ holds: [push, deps]; NoSite when it is not whole
    \* The counter.
    bin,        \* $COUNTER_BIN
    svc,        \* the version that counter.service runs, None when it is dead
    \* $WWW_DIR.
    content,    \* the releases: stamp -> [push, deps]
    torn,       \* releases that an interrupted rm -rf has left in part
    stage,      \* the *.tmp directory in releases/: its stamp, 0 when there is none
    staged,     \* and what has been copied into it
    link,       \* what current.tmp points at, 0 when it does not exist
    current,    \* what current points at
    \* $STATE_DIR.
    lock,       \* the run that holds the flock
    marker,     \* whether LAST_FAILURE exists
    \* The runs.
    pc, held, skip, sick,   \* held_lock, skip_marker, counter_unhealthy
    rel,        \* $ts of $rel, 0 when it is not set
    st,         \* the exit status
    victims,    \* the releases a run still has to prune
    \* The environment, and history.
    clock, faults,
    signalled,  \* signalled[r]: a TERM has reached r
    killed      \* whether a run was ever cut short without its cleanup

repo == <<origin, head, modules, lockHash, scratch, dist>>
host == <<bin, svc>>
www  == <<content, torn, stage, staged, link, current>>
mine == <<held, skip, sick, rel, victims>>
env  == <<clock, faults, signalled, killed>>
vars == <<repo, host, www, lock, marker, pc, st, mine, env>>

NoSite == [push |-> 0, deps |-> None]
Sites  == [push : Pushes, deps : Locks \cup {Mixed, None}]

\* The steps between taking the lock and leaving; what a run does with it.
Work == {"fetch", "deps", "npm", "installing", "hash", "go", "cmp", "probe",
         "swap", "restart", "verify", "build", "building", "guard", "stamp",
         "copy", "copying", "rename", "link", "flip", "list", "prune", "last"}
Steps == Work \cup {"idle", "traps", "flock", "exit", "clean", "mark"}

TypeOK ==
    /\ origin \in Pushes /\ head \in Pushes
    /\ modules \in Locks \cup {Mixed, None} /\ lockHash \in Locks \cup {None}
    /\ scratch \in BOOLEAN /\ dist \in Sites \cup {NoSite}
    /\ bin \in Bins \cup {None} /\ svc \in Bins \cup {None}
    /\ DOMAIN content \subseteq Stamps
    /\ \A s \in DOMAIN content : content[s] \in Sites
    /\ torn \subseteq DOMAIN content
    /\ stage \in Stamps \cup {0} /\ staged \in Sites \cup {NoSite}
    /\ link \in Stamps \cup {0} /\ current \in Stamps \cup {0}
    /\ lock \in Runs \cup {NoRun} /\ marker \in BOOLEAN
    /\ pc \in [Runs -> Steps] /\ st \in [Runs -> {0, 1, 143}]
    /\ held \in [Runs -> BOOLEAN] /\ skip \in [Runs -> BOOLEAN]
    /\ sick \in [Runs -> BOOLEAN]
    /\ rel \in [Runs -> Stamps \cup {0}] /\ victims \in [Runs -> SUBSET Stamps]
    /\ clock \in Stamps \cup {0} /\ faults \in 0 .. MaxFaults
    /\ signalled \in [Runs -> BOOLEAN] /\ killed \in BOOLEAN

Init ==
    /\ origin = 1 /\ head = 1 /\ modules = None /\ lockHash = None
    /\ scratch = FALSE /\ dist = NoSite
    /\ bin = None /\ svc = None
    /\ content = [s \in {} |-> NoSite] /\ torn = {}
    /\ stage = 0 /\ staged = NoSite /\ link = 0 /\ current = 0
    /\ lock = NoRun /\ marker = FALSE
    /\ pc = [r \in Runs |-> "idle"] /\ st = [r \in Runs |-> 0]
    /\ held = [r \in Runs |-> FALSE] /\ skip = [r \in Runs |-> FALSE]
    /\ sick = [r \in Runs |-> FALSE]
    /\ rel = [r \in Runs |-> 0] /\ victims = [r \in Runs |-> {}]
    /\ clock = 0 /\ faults = 0
    /\ signalled = [r \in Runs |-> FALSE] /\ killed = FALSE

----------------------------------------------------------------------------
(* Moving on and leaving.                                                   *)

Step(r, from, to) == pc[r] = from /\ pc' = [pc EXCEPT ![r] = to]

\* Mutant of Exit: a failing command does not show in the status (no pipefail).
ExitZero(r, code) == /\ pc' = [pc EXCEPT ![r] = "exit"]
                     /\ st' = [st EXCEPT ![r] = 0]

Exit(r, code) == /\ pc' = [pc EXCEPT ![r] = "exit"]
                 /\ st' = [st EXCEPT ![r] = code]

Healthy == svc \in GoodBins

\* The process is gone, and with it the file descriptor that holds the lock.
Leave(r) == /\ pc' = [pc EXCEPT ![r] = "idle"]
            /\ st' = [st EXCEPT ![r] = 0]
            /\ held' = [held EXCEPT ![r] = FALSE]
            /\ skip' = [skip EXCEPT ![r] = FALSE]
            /\ sick' = [sick EXCEPT ![r] = FALSE]
            /\ rel' = [rel EXCEPT ![r] = 0]
            /\ victims' = [victims EXCEPT ![r] = {}]
            /\ lock' = IF lock = r THEN NoRun ELSE lock

----------------------------------------------------------------------------
(* Starting: the traps, then the lock.                                      *)

Begin(r) == /\ Step(r, "idle", "traps")
            /\ signalled' = [signalled EXCEPT ![r] = FALSE]
            /\ UNCHANGED <<repo, host, www, lock, marker, st, mine, clock, faults, killed>>

SetTraps(r) == /\ Step(r, "traps", "flock")
               /\ UNCHANGED <<repo, host, www, lock, marker, st, mine, env>>

\* Mutant of Flock: no lock is taken.
FlockAlways(r) == /\ Step(r, "flock", "fetch")
                  /\ lock' = r
                  /\ held' = [held EXCEPT ![r] = TRUE]
                  /\ UNCHANGED <<repo, host, www, marker, st, skip, sick, rel, victims, env>>

Flock(r) == /\ Step(r, "flock", "fetch")
            /\ lock = NoRun
            /\ lock' = r
            /\ held' = [held EXCEPT ![r] = TRUE]
            /\ UNCHANGED <<repo, host, www, marker, st, skip, sick, rel, victims, env>>

Contended(r) == /\ pc[r] = "flock" /\ lock # NoRun
                /\ skip' = [skip EXCEPT ![r] = TRUE]
                /\ Exit(r, 0)
                /\ UNCHANGED <<repo, host, www, lock, marker, held, sick, rel, victims, env>>

----------------------------------------------------------------------------
(* The checkout, its dependencies and the counter.                          *)

Fetch(r) == /\ Step(r, "fetch", "deps")
            /\ head' = origin
            /\ UNCHANGED <<origin, modules, lockHash, scratch, dist,
                           host, www, lock, marker, st, mine, env>>

DepsMoved == modules = None \/ lockHash # LockOf[head]

Deps(r) == /\ Step(r, "deps", IF DepsMoved THEN "npm" ELSE "go")
           /\ UNCHANGED <<repo, host, www, lock, marker, st, mine, env>>

\* npm ci deletes node_modules and fills it again.
NpmCi(r) == /\ \/ Step(r, "npm", "installing") /\ modules' = Mixed
               \/ Step(r, "installing", "hash") /\ modules' = LockOf[head]
            /\ UNCHANGED <<origin, head, lockHash, scratch, dist,
                           host, www, lock, marker, st, mine, env>>

WriteHash(r) == /\ Step(r, "hash", "go")
                /\ lockHash' = LockOf[head]
                /\ UNCHANGED <<origin, head, modules, scratch, dist,
                               host, www, lock, marker, st, mine, env>>

GoBuild(r) == /\ Step(r, "go", "cmp")
              /\ scratch' = TRUE
              /\ UNCHANGED <<origin, head, modules, lockHash, dist,
                             host, www, lock, marker, st, mine, env>>

\* The new binary is compared with the installed one, not with the running one.
Compare(r) == /\ \/ /\ Step(r, "cmp", "probe") /\ bin = CtrOf[head]
                    /\ scratch' = FALSE
                 \/ /\ Step(r, "cmp", "swap") /\ bin # CtrOf[head]
                    /\ UNCHANGED scratch
              /\ UNCHANGED <<origin, head, modules, lockHash, dist,
                             host, www, lock, marker, st, mine, env>>

Probe(r) == /\ Step(r, "probe", "build")
            /\ sick' = [sick EXCEPT ![r] = ~Healthy]
            /\ UNCHANGED <<repo, host, www, lock, marker, st, held, skip, rel, victims, env>>

SwapBinary(r) == /\ Step(r, "swap", "restart")
                 /\ bin' = CtrOf[head] /\ scratch' = FALSE
                 /\ UNCHANGED <<origin, head, modules, lockHash, dist,
                                svc, www, lock, marker, st, mine, env>>

Restart(r) == /\ Step(r, "restart", "verify")
              /\ svc' = IF bin \in GoodBins THEN bin ELSE None
              /\ UNCHANGED <<repo, bin, www, lock, marker, st, mine, env>>

\* Mutant of Verify: counter_healthy polls without a bound.
VerifyForever(r) ==
    /\ Step(r, "verify", "build") /\ Healthy
    /\ UNCHANGED <<repo, host, www, lock, marker, st, mine, env>>

Verify(r) == /\ pc[r] = "verify"
             /\ \/ Healthy /\ Step(r, "verify", "build") /\ UNCHANGED st
                \/ ~Healthy /\ Exit(r, 1)
             /\ UNCHANGED <<repo, host, www, lock, marker, mine, env>>

----------------------------------------------------------------------------
(* The site: built into dist/, copied, renamed, linked, and old ones pruned. *)

\* The second disjunct includes a build that ends with status 0 and no index.
Build(r) == /\ \/ Step(r, "build", "building") /\ dist' = NoSite
               \/ /\ Step(r, "building", "guard")
                  /\ dist' \in {NoSite, [push |-> head, deps |-> modules]}
            /\ UNCHANGED <<origin, head, modules, lockHash, scratch,
                           host, www, lock, marker, st, mine, env>>

Guard(r) == /\ pc[r] = "guard"
            /\ \/ dist # NoSite /\ Step(r, "guard", "stamp") /\ UNCHANGED st
               \/ dist = NoSite /\ Exit(r, 1)
            /\ UNCHANGED <<repo, host, www, lock, marker, mine, env>>

\* `date`: time has passed since the last look at the clock, or it is still
\* the same second.
Stamp(r) ==
    \E t \in {clock, clock + 1} \cap Stamps :
        /\ pc[r] = "stamp"
        /\ clock' = t
        /\ rel' = [rel EXCEPT ![r] = t]
        /\ \/ t \notin DOMAIN content /\ Step(r, "stamp", "copy") /\ UNCHANGED st
           \/ t \in DOMAIN content /\ Exit(r, 1)
        /\ UNCHANGED <<repo, host, www, lock, marker,
                       held, skip, sick, victims, faults, signalled, killed>>

\* Mutant of Copy: the release is renamed into place before anything is copied into it.
CopyNothing(r) == /\ Step(r, "copy", "rename")
                  /\ stage' = rel[r] /\ staged' = NoSite
                  /\ UNCHANGED <<repo, host, content, torn, link, current,
                                 lock, marker, st, mine, env>>

\* Every *.tmp is removed, then dist/ is copied file by file.
Copy(r) == /\ \/ /\ Step(r, "copy", "copying")
                 /\ stage' = rel[r] /\ staged' = NoSite
              \/ /\ Step(r, "copying", "rename")
                 /\ staged' = dist /\ UNCHANGED stage
           /\ UNCHANGED <<repo, host, content, torn, link, current,
                          lock, marker, st, mine, env>>

Rename(r) ==
    /\ Step(r, "rename", "link")
    /\ content' = [s \in DOMAIN content \cup {rel[r]} |->
                      IF s = rel[r] THEN staged ELSE content[s]]
    /\ stage' = 0 /\ staged' = NoSite
    /\ UNCHANGED <<repo, host, torn, link, current, lock, marker, st, mine, env>>

Link(r) == /\ Step(r, "link", "flip")
           /\ link' = rel[r]
           /\ UNCHANGED <<repo, host, content, torn, stage, staged, current,
                          lock, marker, st, mine, env>>

Flip(r) == /\ Step(r, "flip", "list")
           /\ current' = link /\ link' = 0
           /\ UNCHANGED <<repo, host, content, torn, stage, staged,
                          lock, marker, st, mine, env>>

Newer(s) == {t \in DOMAIN content : t > s}

\* Mutant of List: tail -n "+$((KEEP + 2))".
ListOneMore(r) ==
    /\ Step(r, "list", "prune")
    /\ victims' = [victims EXCEPT ![r] =
                      {s \in DOMAIN content : Cardinality(Newer(s)) >= Keep + 1}]
    /\ UNCHANGED <<repo, host, www, lock, marker, st, held, skip, sick, rel, env>>

\* All but the newest $KEEP, by name.
List(r) == /\ Step(r, "list", "prune")
           /\ victims' = [victims EXCEPT ![r] =
                              {s \in DOMAIN content : Cardinality(Newer(s)) >= Keep}]
           /\ UNCHANGED <<repo, host, www, lock, marker, st, held, skip, sick, rel, env>>

\* Mutant of Spared: the prune does not look at what current points at.
SparedNone(s) == FALSE

Spared(s) == s = current

PruneOne(r) ==
    \E s \in victims[r] :
        /\ pc[r] = "prune" /\ ~Spared(s)
        /\ victims' = [victims EXCEPT ![r] = @ \ {s}]
        /\ \/ /\ content' = [t \in DOMAIN content \ {s} |-> content[t]]
              /\ torn' = torn \ {s}
              /\ UNCHANGED faults
           \/ /\ "fail" \in Faults /\ faults < MaxFaults   \* rm -rf fails half way
              /\ faults' = faults + 1
              /\ torn' = torn \cup {s} /\ UNCHANGED content
        /\ UNCHANGED <<repo, host, stage, staged, link, current, lock, marker,
                       pc, st, held, skip, sick, rel, clock, signalled, killed>>

Pruned(r) == /\ Step(r, "prune", "last")
             /\ \A s \in victims[r] : Spared(s)
             /\ UNCHANGED <<repo, host, www, lock, marker, st, mine, env>>

Last(r) == /\ pc[r] = "last"
           /\ Exit(r, IF sick[r] THEN 1 ELSE 0)
           /\ UNCHANGED <<repo, host, www, lock, marker, mine, env>>

----------------------------------------------------------------------------
(* cleanup(), the EXIT trap.                                                *)

\* Mutant of Clean: the sweep is tied to skip_marker instead of held_lock.
CleanUnlessSkipped(r) ==
    /\ pc[r] \in {"exit", "clean"}
    /\ \/ Step(r, "exit", "clean") /\ UNCHANGED <<scratch, www>>
       \/ /\ Step(r, "clean", "mark")
          /\ \/ /\ ~skip[r]
                /\ link' = 0 /\ scratch' = FALSE /\ stage' = 0 /\ staged' = NoSite
                /\ UNCHANGED <<content, torn, current>>
             \/ skip[r] /\ UNCHANGED <<scratch, www>>
    /\ UNCHANGED <<origin, head, modules, lockHash, dist,
                   host, lock, marker, st, mine, env>>

\* The traps are disarmed, then a run that held the lock sweeps its leftovers.
Clean(r) ==
    /\ pc[r] \in {"exit", "clean"}
    /\ \/ Step(r, "exit", "clean") /\ UNCHANGED <<scratch, www>>
       \/ /\ Step(r, "clean", "mark")
          /\ \/ /\ held[r]
                /\ link' = 0 /\ scratch' = FALSE
                /\ IF stage = rel[r] THEN stage' = 0 /\ staged' = NoSite
                                     ELSE UNCHANGED <<stage, staged>>
                /\ UNCHANGED <<content, torn, current>>
             \/ ~held[r] /\ UNCHANGED <<scratch, www>>
    /\ UNCHANGED <<origin, head, modules, lockHash, dist,
                   host, lock, marker, st, mine, env>>

Mark(r) == /\ pc[r] = "mark"
           /\ marker' = IF skip[r] THEN marker ELSE st[r] # 0
           /\ Leave(r)
           /\ UNCHANGED <<repo, host, www, env>>

----------------------------------------------------------------------------
(* What may go wrong, and the rest of the world.                            *)

Trouble(kind) == /\ kind \in Faults /\ faults < MaxFaults
                 /\ faults' = faults + 1

\* Under `set -e` a command that fails ends the run. The probe and the tests
\* cannot fail this way, and a failing rm of step 7 is a disjunct of PruneOne.
Fail(r) == /\ Trouble("fail")
           /\ pc[r] \in (Work \cup {"flock"})
                            \ {"deps", "probe", "verify", "guard", "prune", "last"}
           /\ Exit(r, 1)
           /\ UNCHANGED <<repo, host, www, lock, marker, mine, clock, signalled, killed>>

\* Mutant of Term: the signal traps do not set skip_marker.
TermMarks(r) == /\ Trouble("term")
                /\ pc[r] \in Work \cup {"flock"}
                /\ signalled' = [signalled EXCEPT ![r] = TRUE]
                /\ Exit(r, 143)
                /\ UNCHANGED <<repo, host, www, lock, marker, mine, clock, killed>>

\* TERM once the signal traps are set.
Term(r) == /\ Trouble("term")
           /\ pc[r] \in Work \cup {"flock"}
           /\ signalled' = [signalled EXCEPT ![r] = TRUE]
           /\ skip' = [skip EXCEPT ![r] = TRUE]
           /\ Exit(r, 143)
           /\ UNCHANGED <<repo, host, www, lock, marker,
                          held, sick, rel, victims, clock, killed>>

\* TERM before they are set: bash dies of it, after the EXIT trap, with $? = 0.
TermEarly(r) == /\ Trouble("early")
                /\ pc[r] = "traps"
                /\ signalled' = [signalled EXCEPT ![r] = TRUE]
                /\ Exit(r, 0)
                /\ UNCHANGED <<repo, host, www, lock, marker, mine, clock, killed>>

\* TERM after `exit` and before cleanup has disarmed the traps: the trap's own
\* exit ends the process, and cleanup with it.
TermLate(r) == /\ Trouble("late")
               /\ pc[r] = "exit"
               /\ signalled' = [signalled EXCEPT ![r] = TRUE]
               /\ Leave(r)
               /\ UNCHANGED <<repo, host, www, marker, clock, killed>>

Kill(r) == /\ Trouble("kill")
           /\ pc[r] # "idle"
           /\ killed' = TRUE
           /\ Leave(r)
           /\ UNCHANGED <<repo, host, www, marker, clock, signalled>>

\* Restart=always starts whatever binary is installed; a bad one dies again.
ServiceDies == /\ Trouble("service")
               /\ svc' = None
               /\ UNCHANGED <<repo, bin, www, lock, marker, pc, st, mine,
                              clock, signalled, killed>>
ServiceStarts == /\ svc = None /\ bin \in GoodBins
                 /\ svc' = bin
                 /\ UNCHANGED <<repo, bin, www, lock, marker, pc, st, mine, env>>

ClockBack == /\ Trouble("clock")
             /\ clock > 1
             /\ clock' \in 1 .. (clock - 1)
             /\ UNCHANGED <<repo, host, www, lock, marker, pc, st, mine, signalled, killed>>

Push == /\ origin < MaxPush
        /\ origin' = origin + 1
        /\ UNCHANGED <<head, modules, lockHash, scratch, dist,
                       host, www, lock, marker, pc, st, mine, env>>

Proceed(r) ==
    \/ SetTraps(r) \/ Flock(r) \/ Contended(r)
    \/ Fetch(r) \/ Deps(r) \/ NpmCi(r) \/ WriteHash(r)
    \/ GoBuild(r) \/ Compare(r) \/ Probe(r) \/ SwapBinary(r) \/ Restart(r) \/ Verify(r)
    \/ Build(r) \/ Guard(r) \/ Stamp(r) \/ Copy(r) \/ Rename(r) \/ Link(r) \/ Flip(r)
    \/ List(r) \/ PruneOne(r) \/ Pruned(r) \/ Last(r) \/ Clean(r) \/ Mark(r)

Next ==
    \/ \E r \in Runs : \/ Begin(r) \/ Proceed(r)
                       \/ Fail(r) \/ Term(r) \/ TermEarly(r) \/ TermLate(r) \/ Kill(r)
    \/ ServiceDies \/ ServiceStarts \/ ClockBack \/ Push

\* A run that has started is scheduled until it ends; nothing makes one start.
Spec == Init /\ [][Next]_vars /\ \A r \in Runs : WF_vars(Proceed(r))

----------------------------------------------------------------------------
(* Properties.                                                              *)

Whole(s) == s \in DOMAIN content \ torn /\ content[s] # NoSite

\* Once there is a site, current names a release that exists and is complete:
\* through failures, kills, collisions of names, clocks set back and pruning
\* ("flips the `current` symlink" in one rename; prune spares it by inode).
SiteWhole == current # 0 => Whole(current)

\* Runs that were not killed leave no staging tree, no current.tmp and no
\* scratch binary behind once nobody holds the lock, however they end: "must
\* sweep its staging leftovers no matter how it ends" (rebuild.sh:137-140).
\* A TERM before cleanup has disarmed the traps is the exception (TermLate).
LeftoversSwept ==
    lock = NoRun /\ ~killed => stage = 0 /\ link = 0 /\ ~scratch

\* Run r has ended by itself, having done its work, with status 0.
Succeeded(r) == pc[r] = "mark" /\ st[r] = 0 /\ ~skip[r] /\ ~signalled[r]

\* A run that reports success has published: current is its own release, built
\* from the push it checked out, whose counter is the one installed, whatever
\* earlier runs left half done and whoever else ran meanwhile.
SuccessIsDeployed ==
    \A r \in Runs : Succeeded(r) =>
        /\ current = rel[r] /\ rel[r] \in DOMAIN content /\ content[rel[r]].push = head
        /\ bin = CtrOf[head]

\* After a success the releases that rm could remove are down to the newest
\* $KEEP, and current if it is not one of them (rebuild.sh:403-443).
Retention ==
    \A r \in Runs : Succeeded(r) =>
        Cardinality(DOMAIN content \ torn)
            <= Keep + (IF Cardinality(Newer(current)) >= Keep THEN 1 ELSE 0)

\* Only a run that ended by itself writes or clears the marker: a run told to
\* stop "must neither write a marker nor clear one" (rebuild.sh:191-192), and a
\* run that found the lock taken leaves it alone, too.  It is true once the
\* signal traps are set: TermEarly clears the marker (line 184 to line 199).
MarkerOnlyByEndedRuns ==
    [][marker' # marker =>
          \E r \in Runs : pc[r] = "mark" /\ ~skip[r] /\ ~signalled[r]]_vars

\* Visitors see whole versions that never go back, although two runs may be
\* under way and pushes arrive while they build (rebuild.sh:203-206).
Site == INSTANCE PublishedSite WITH
    tip <- origin,
    site <- IF current = 0 THEN 0
            ELSE IF Whole(current) THEN content[current].push ELSE MaxPush + 1
ImplementsSite == Site!PSpec

\* Every run that starts ends: no run waits for another (flock -n), and the
\* loops over the victims are finite.
RunsEnd == \A r \in Runs : pc[r] # "idle" ~> pc[r] = "idle"

\* "Without this, a Go fix [...] would report a successful deploy while the
\* service kept running the old binary" (rebuild.sh:272-275): when a run
\* reports success, a counter that runs is the one that was deployed.
NoStaleService ==
    \A r \in Runs : Succeeded(r) => svc \in {None, CtrOf[head]}

\* "Install dependencies only when the lockfile moved" (rebuild.sh:260), and
\* then always: a release is built with the dependencies its push locks.
BuiltFromItsLock ==
    current # 0 => content[current].deps = LockOf[content[current].push]
=============================================================================
