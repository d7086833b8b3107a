------------------------ MODULE CargoSweepsObserved ------------------------
(***************************************************************************)
(* CargoSweeps with a history variable that nothing depends on, for what   *)
(* the documentation says of a whole run of run_sweeps.                    *)
(***************************************************************************)
EXTENDS CargoSweeps

VARIABLE calm     \* nothing but the run has happened since it planned

Planned == pc \in {"idle", "done"} /\ pc' = "incremental"

\* A build or the passing of time intervened, or a profile was seen in use.
Disturbed ==
    \/ sweeper' = sweeper /\ <<prof, build>>' # <<prof, build>>
    \/ pc = "held" /\ pc' = "quarantining" /\ todo' # {p \in plan.reset : StillIdle(p)}

ObservedSpec ==
    /\ Init /\ calm = TRUE
    /\ [][Next /\ calm' = (Planned \/ (calm /\ ~Disturbed))]_<<vars, calm>>

\* What the documentation says of the reset window: a run that nothing
\* disturbs resets the inactive profiles it planned to reset.
InactiveProfilesAreReset ==
    pc = "done" /\ calm => \A p \in plan.reset : ~Present(p)
=============================================================================
