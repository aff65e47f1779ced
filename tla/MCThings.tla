------------------------------ MODULE MCThings ------------------------------
(* The instances of Things that TLC checks; see the cfg files. *)
EXTENDS Things, TLC

\* Requests, things, keys and users only matter up to renaming.
Symmetry == Permutations(Procs) \cup Permutations(Users)
            \cup Permutations(ThingIds) \cup Permutations(Keys)
            \cup Permutations(ChanIds)
=============================================================================
