--------------------------- MODULE MCCargoSweeps ---------------------------
(* A target with two profiles, and a build beside the sweeps.              *)
EXTENDS CargoSweeps

CONSTANT b1

MCProfiles  == {1, 2}
MCIncremental == {1}
MCOneBuild  == {b1}
MCNone      == {}
MCCleans    == {1}

=============================================================================
