---------------------------- MODULE MCRigServices ----------------------------
(* A camera and the filter wheel its driver has; a loop of that camera, then  *)
(* a series of which one frame is only for a preview.                         *)
EXTENDS RigServices

CONSTANTS camera, wheel, ccd, solve

TheDriverOf == [r \in {camera, wheel} |-> ccd]
=============================================================================
