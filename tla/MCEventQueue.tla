---------------------------- MODULE MCEventQueue ----------------------------
(* Instances of the event queue for TLC.                                   *)
EXTENDS EventQueue, TLC

CONSTANTS e1, e2, e3

\* The simulator's own events all have Default_Pri; e3 has a later priority.
Mixed == (e1 :> 0 @@ e2 :> 0 @@ e3 :> 1)
==============================================================================
