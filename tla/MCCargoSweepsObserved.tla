---------------------- MODULE MCCargoSweepsObserved ------------------------
(* The instance of MCCargoSweeps, with the history of each run.            *)
EXTENDS MCCargoSweeps, CargoSweepsObserved
=============================================================================
