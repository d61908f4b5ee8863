------------------------------- MODULE MCMotion -------------------------------
(* An axis asked to move either way.                                          *)
EXTENDS Motion

CONSTANTS fwd, back

TheWanted == {[STOPPED EXCEPT !["ns"] = fwd], [STOPPED EXCEPT !["ns"] = back]}
=============================================================================
