------------------------- MODULE MCExactExecution -------------------------
(* Two executors of one approval.                                          *)
EXTENDS ExactExecution, TLC

CONSTANTS e1, e2

MCExecutors == {e1, e2}
Sym         == Permutations(MCExecutors)

=============================================================================
