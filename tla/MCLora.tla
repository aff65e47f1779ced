------------------------------- MODULE MCLora -------------------------------
(* Instances of Lora for TLC. *)
EXTENDS Lora, TLC

Symmetry == Permutations(Things) \cup Permutations(Chans)
              \cup Permutations(Euis) \cup Permutations(Apps)
=============================================================================
