--------------------------- MODULE MCUserControl ----------------------------
(* The instance of UserControl that TLC checks: one name contains another. *)
EXTENDS UserControl, TLC

MCContains == {<<o, o>> : o \in AllOrgs} \cup {<<"foo", "foobar">>}

\* Workers and sensors only matter up to renaming.
Symmetry == Permutations(Workers) \cup Permutations(Sensors)
=============================================================================
