------------------------------ MODULE MCSaving -------------------------------
(* Two frames of one night, two drives.                                       *)
EXTENDS Saving

CONSTANTS d1, d2
OneNight == [f \in Frames |-> 1]
=============================================================================
