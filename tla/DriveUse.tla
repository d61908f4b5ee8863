------------------------------ MODULE DriveUse ------------------------------
(***************************************************************************)
(* What saving frames and ejecting drives promise each other: frames are    *)
(* counted while they are being saved (_writing), drives noted while they   *)
(* are being ejected (_ejecting), both under StorageService._lock, and a    *)
(* drive is never in both.  Drives, which ejects, and Saving, which saves,   *)
(* each implement this, with the other as it says here.                     *)
(*                                                                          *)
(* Drives come and go by hand, and by nocs-system, whatever is noted here.   *)
(***************************************************************************)
EXTENDS Naturals

CONSTANTS
  Drives,
  MaxWriting   \* bound: frames being saved to one destination at a time

Internal == "internal"
Volumes == Drives \cup {Internal}

ASSUME DriveUseAssumption == Internal \notin Drives /\ MaxWriting \in Nat \ {0}

VARIABLES
  mounted,    \* the drives mounted
  writing,    \* _writing: frames being saved to each volume
  ejecting    \* _ejecting

locks == <<writing, ejecting>>
useVars == <<mounted, locks>>

UseTypeOK ==
  /\ mounted \subseteq Drives
  /\ writing \in [Volumes -> Nat]
  /\ ejecting \subseteq Drives

UseInit == mounted = {} /\ writing = [v \in Volumes |-> 0] /\ ejecting = {}

\* A drive is mounted; it is unmounted or unplugged.
Appears(d) == d \notin mounted /\ mounted' = mounted \cup {d} /\ UNCHANGED locks
Disappears(d) == d \in mounted /\ mounted' = mounted \ {d} /\ UNCHANGED locks

\* eject: refused while a frame is being saved to the drive.
BeginEject(d) ==
  /\ writing[d] = 0
  /\ ejecting' = ejecting \cup {d} /\ UNCHANGED <<mounted, writing>>
EndEject(d) == ejecting' = ejecting \ {d} /\ UNCHANGED <<mounted, writing>>

\* _save: refused while the drive is being ejected; save: counted out in the end.
BeginWrite(v) ==
  /\ v \notin ejecting /\ writing[v] < MaxWriting
  /\ writing' = [writing EXCEPT ![v] = @ + 1] /\ UNCHANGED <<mounted, ejecting>>
EndWrite(v) ==
  /\ writing[v] > 0
  /\ writing' = [writing EXCEPT ![v] = @ - 1] /\ UNCHANGED <<mounted, ejecting>>

\* nocsd starts again.
ForgetUse == writing' = [v \in Volumes |-> 0] /\ ejecting' = {} /\ UNCHANGED mounted

UseNext ==
  \/ \E d \in Drives : Appears(d) \/ Disappears(d) \/ BeginEject(d) \/ EndEject(d)
  \/ \E v \in Volumes : BeginWrite(v) \/ EndWrite(v)
  \/ ForgetUse

UseSpec == UseInit /\ [][UseNext]_useVars

\* While a drive is being ejected no frame is being saved to it.
NoEjectWhileWriting == \A d \in ejecting : writing[d] = 0
=============================================================================
