----------------------------- MODULE MCBootstrap -----------------------------
(* Instances of Bootstrap for TLC: one user owns the things and channels     *)
(* that are registered at the start.                                         *)
EXTENDS Bootstrap, TLC

CONSTANTS Owner,      \* the user that owns everything at the start
          Registered  \* the things and channels that exist at the start

MCInit == InitFrom(Owner, Registered \cap ThingIds, Registered \cap ChanIds)
MCSpec == MCInit /\ [][Next]_vars

\* The goroutines, and the things that are all there at the start, can be
\* exchanged; not for the liveness runs.
Symmetry == Permutations(BProcs) \cup Permutations(Registered \cap ThingIds)
              \cup Permutations(Keys)
MCFairSpec == MCSpec /\ Fairness
=============================================================================
