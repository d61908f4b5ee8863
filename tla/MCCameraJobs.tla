----------------------------- MODULE MCCameraJobs -----------------------------
EXTENDS CameraJobs

ThePanels == <<[narrow |-> FALSE, panel |-> -4, sky |-> 1],
               [narrow |-> TRUE, panel |-> -9, sky |-> -7]>>
TheOdd == {-1, 0, 9}

TheRows ==
  <<[filter |-> "L", count |-> 4, length |-> 1], [filter |-> "R", count |-> 1, length |-> 2]>>

\* DEFAULT_POLICIES with fewer retries and shorter waits, and the policies of a careful user.
Policy(retries, wait, then) == [retries |-> retries, wait |-> wait, then |-> then]
Always == 99  \* Imaging's
DefaultPolicies ==
  [solve |-> Policy(1, 0, "skip_target"), device |-> Policy(1, 1, "end"),
   flip |-> Policy(1, 0, "end"), guiding |-> Policy(1, 0, "end"),
   focus |-> Policy(0, 0, "skip"), clouds |-> Policy(Always, 1, "end")]
ThePolicies ==
  {DefaultPolicies,
   [DefaultPolicies EXCEPT !.flip = Policy(0, 0, "pause"), !.clouds = Policy(1, 1, "pause"),
                           !.solve = Policy(0, 0, "skip")]}

TheSetups ==
  {[direction |-> 1, overshoot |-> 1, slack |-> 1, focus |-> 5],
   [direction |-> -1, overshoot |-> 1, slack |-> 1, focus |-> 3]}
TheTargets == {7}

\* More slack than the overshoot takes up.
SlackSetups ==
  {[direction |-> d, overshoot |-> 0, slack |-> 2, focus |-> 3] : d \in {-1, 1}}
=============================================================================
