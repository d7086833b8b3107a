-------------------------- MODULE ApprovedRemoval --------------------------
(***************************************************************************)
(* What an approval of one generated directory promises, whoever executes  *)
(* it, however often, and wherever they are killed: the approved directory *)
(* stays where it is, or moves to the quarantine as a whole, and only from *)
(* there is taken apart; it never comes back; a result is reported once,   *)
(* after the last of it is gone, and never for a directory that vanished   *)
(* in some other way.                                                      *)
(***************************************************************************)
VARIABLES
    stage,    \* "kept", "moved", "broken", "gone", or "lost" to somebody else
    reported  \* the execution result exists

avars == <<stage, reported>>

AInit == stage = "kept" /\ reported = FALSE

Move   == stage = "kept"   /\ stage' = "moved"  /\ UNCHANGED reported
Break  == stage = "moved"  /\ stage' = "broken" /\ UNCHANGED reported
Finish == stage = "broken" /\ stage' = "gone"   /\ UNCHANGED reported
Lose   == stage = "kept"   /\ stage' = "lost"   /\ UNCHANGED reported

Publish ==
    /\ stage = "gone"
    /\ ~reported
    /\ reported' = TRUE
    /\ UNCHANGED stage

ANext == Move \/ Break \/ Finish \/ Lose \/ Publish

ASpec == AInit /\ [][ANext]_avars
=============================================================================
