---------------------- MODULE MCProtectionRegistry ----------------------
(* A small instance: a repository and the target directory in it, which a *)
(* user may swap for a link to the repository.                            *)
EXTENDS ProtectionRegistry, TLC

CONSTANTS c1, c2, repo, target

MCClients  == {c1, c2}
MCPaths    == {repo, target}
MCCovers   == {<<repo, repo>>, <<target, target>>, <<repo, target>>}
MCLinkable == {target}
MCTargets  == {target}
MCGuards   == {{repo}, {target}}
Sym        == Permutations(MCClients)

=============================================================================
