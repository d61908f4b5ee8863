------------------------------ MODULE MCDrives -------------------------------
EXTENDS Drives

CONSTANTS d1, d2, e1, e2
=============================================================================
