----------------------------- MODULE MCRebuild -----------------------------
(* Instances of Rebuild for TLC. The second push changes the lockfile and   *)
(* the counter; a third one reverts the lockfile.                           *)
EXTENDS Rebuild, TLC

MCBins   == {"ctr1", "ctr2"}
MCLocks  == {"lock1", "lock2"}

TwoLocks == <<"lock1", "lock2">>
TwoCtrs  == <<"ctr1", "ctr2">>

RevertLocks == <<"lock1", "lock2", "lock1">>
RevertCtrs  == <<"ctr1", "ctr1", "ctr1">>

Symmetry == Permutations(Runs)
=============================================================================
