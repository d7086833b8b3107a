------------------------------ MODULE MCGenerated ------------------------------
(* Two requested roots that share a repository, and three directories in two
   repositories. *)
EXTENDS Generated

MCArtifacts == 1 .. 3
MCRepoOf == [a \in MCArtifacts |-> IF a = 3 THEN "q" ELSE "p"]
MCRequests == {<<"x", "y">>, <<"y">>, <<"x", "z">>}
MCWalk == [x |-> <<"plain", "p">>, y |-> <<"plain", "p", "plain", "q">>, z |-> <<"q", "broken">>]
MCSizes == {1, 3}
\* One is large and one small to begin with; all of them change.
MCWorlds == {w \in [MCArtifacts -> MCSizes] : w[1] = 3 /\ w[2] = 1}
=============================================================================
