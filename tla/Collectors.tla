------------------------------ MODULE Collectors ------------------------------
(***************************************************************************)
(* The report-only commands side by side (src/src/main.rs): a process runs *)
(* the collector its command line names; the world each one looks at goes  *)
(* on changing meanwhile.                                                  *)
(***************************************************************************)
EXTENDS Generated, CodexSessions, GatewayReport

VARIABLE command

collectorVars == <<command, vars, sessionVars, gatewayVars>>

\* What a command does not look at is left at some fixed state.
GeneratedIdle == InitWith(CHOOSE w \in Worlds : TRUE, CHOOSE r \in Requests : TRUE)
SessionsIdle  == SessionsWith(CHOOSE s \in SessionStores : TRUE, CHOOSE max \in SessionBudgets : TRUE)
GatewayIdle   == GatewayWith(CHOOSE P \in Published : TRUE, [l \in Locations |-> "gone"], <<>>)

CollectorsInit ==
    \/ command = "generated" /\ Init /\ SessionsIdle /\ GatewayIdle
    \/ command = "codex-sessions" /\ SessionsInit /\ GeneratedIdle /\ GatewayIdle
    \/ command = "gateway-storage-report" /\ GatewayInit /\ GeneratedIdle /\ SessionsIdle

CollectorsNext ==
    /\ UNCHANGED command
    /\ \/ command = "generated" /\ Next /\ UNCHANGED <<sessionVars, gatewayVars>>
       \/ command = "codex-sessions" /\ SessionsNext /\ UNCHANGED <<vars, gatewayVars>>
       \/ command = "gateway-storage-report" /\ GatewayNext /\ UNCHANGED <<vars, sessionVars>>

CollectorsSpec == CollectorsInit /\ [][CollectorsNext]_collectorVars
=============================================================================
