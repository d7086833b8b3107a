----------------------------- MODULE MCCollectors -----------------------------
(* The instances of the three collectors. *)
EXTENDS Collectors, MCGenerated, MCCodexSessions, MCGatewayReport
=============================================================================
