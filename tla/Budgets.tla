------------------------------- MODULE Budgets -------------------------------
(* How the collectors divide an entry budget. *)
EXTENDS Naturals

Least(a, b) == IF a < b THEN a ELSE b

\* A fair share is rounded up, so that it is never zero while something is left.
CeilDiv(a, b) == (a + b - 1) \div b

\* A walk that is left nothing by its last entry is complete only if no
\* directory is pending, an empty one that it has not opened.
Finishes(size, budget, pending) == size < budget \/ (size = budget /\ ~pending)
=============================================================================
