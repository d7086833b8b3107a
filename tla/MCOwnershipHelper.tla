--------------------------- MODULE MCOwnershipHelper ----------------------------
EXTENDS OwnershipHelper, TLC

CONSTANTS p1, p2, outer, inner, v1, v2

MCAbove == "outer/file" :> {outer} @@ "inner/file" :> {outer, inner}
MCBatches == <<{outer}, {inner}>>
MCAllowed == v1 :> {outer, inner} @@ v2 :> {outer, inner}

Sym == Permutations({v1, v2})
=============================================================================
