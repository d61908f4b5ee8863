-------------------------------- MODULE Night --------------------------------
(***************************************************************************)
(* What a sequence promises of a night, whatever happens to nocsd during   *)
(* it (ADR 0031, 0032): the frames kept as done only ever grow, target by  *)
(* target and round by round; a target is left early only when it is given *)
(* up; and once the end of the session began nothing else is done.         *)
(***************************************************************************)
EXTENDS Naturals

CONSTANTS Targets, Frames, Rounds

VARIABLES
  taken,  \* frames done of each target in this round; Frames when it is done with
  round,  \* rounds through all the targets that are over
  phase   \* "working", "ending" or "over"

night == <<taken, round, phase>>

Nothing == [t \in Targets |-> 0]

Init == taken = Nothing /\ round = 0 /\ phase = "working"

Working == phase = "working" /\ UNCHANGED phase

\* One more frame of t.
Frame(t) ==
  /\ Working
  /\ taken[t] < Frames
  /\ taken' = [taken EXCEPT ![t] = taken[t] + 1]
  /\ UNCHANGED round

\* What is left of t is given up: its frames no longer have reason to be taken.
GiveUp(t) ==
  /\ Working
  /\ taken' = [taken EXCEPT ![t] = Frames]
  /\ UNCHANGED round

\* A round is over when every target is done with.
NextRound ==
  /\ Working
  /\ round < Rounds
  /\ \A t \in Targets : taken[t] = Frames
  /\ taken' = Nothing
  /\ round' = round + 1

\* A condition ends all the targets.
GiveUpAll ==
  /\ Working
  /\ taken' = Nothing
  /\ round' = Rounds

\* The end of the session begins, for whatever reason.
BeginEnd ==
  /\ phase = "working"
  /\ phase' = "ending"
  /\ UNCHANGED <<taken, round>>

\* The night is over, and so is what was kept of it.
Over ==
  /\ phase # "over"
  /\ phase' = "over"
  /\ taken' = Nothing
  /\ round' = 0

Next ==
  \/ \E t \in Targets : Frame(t) \/ GiveUp(t)
  \/ NextRound \/ GiveUpAll \/ BeginEnd \/ Over

Spec == Init /\ [][Next]_night
=============================================================================
