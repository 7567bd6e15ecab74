--------------------------- MODULE MCEventStreams ---------------------------
(* Two receivers of a broadcast channel of capacity 2 and a watch channel. *)
EXTENDS EventStreams, TLC

CONSTANTS broadcast, watch

MCKeys == {broadcast, watch}
MCCap == broadcast :> 2 @@ watch :> 1
=============================================================================
