---------------------------- MODULE Jobs_proofs ----------------------------
(***************************************************************************)
(* Theorems about Jobs, for any number of jobs, tokens and resources.      *)
(***************************************************************************)
EXTENDS Jobs, SequenceTheorems, TLAPS

----------------------------------------------------------------------------
(* The inductive invariant *)

\* A job is in tasks from start() until _finish(): at the latest when the done
\* callback has been called, and for as long as _run has not ended.
Lifecycle ==
  /\ \A j \in JobIds :
       /\ taskState[j] \in {"created", "running"} => j \in tasks
       /\ taskState[j] \in {"none", "collected"} => j \notin tasks
  /\ reservations \subseteq given
  /\ suspended \subseteq tasks

\* The finished list names jobs that are no longer in tasks, and were started.
FinishedEnded ==
  \A i \in 1..Len(finished) :
    finished[i] \notin tasks /\ taskState[finished[i]] # "none"

HoldersKnown == tasks \cup reservations \subseteq kinds

LocksOwned == \A r \in Resources : locks[r] # None => locks[r] \in tasks \cup reservations

\* The tree shows a job as running while it is in tasks, and as ended while it is
\* on the finished list, where it is once at most.
Tree ==
  /\ Len(finished) <= KeepFinished
  /\ \A i, k \in 1..Len(finished) : finished[i] = finished[k] => i = k
  /\ \A j \in JobIds :
       /\ published[j] = "running" <=> j \in tasks
       /\ published[j] \in Final <=> \E k \in 1..Len(finished) : finished[k] = j

Inductive ==
  /\ TypeOK
  /\ Lifecycle
  /\ FinishedEnded
  /\ HoldersKnown
  /\ LocksOwned
  /\ JobsHoldTheirs
  /\ Tree

----------------------------------------------------------------------------
(* Lemmas *)

\* The finished list after one more job ended: what is kept was there or is new.
LEMMA KeepRecentFacts ==
  ASSUME TypeOK, NEW j \in JobIds, KeepRecent(j)
  PROVE  /\ finished' \in Seq(JobIds)
         /\ \A i \in 1..Len(finished') :
              finished'[i] = j \/ \E k \in 1..Len(finished) : finished'[i] = finished[k]
         /\ kinds' = kinds \/ \E old \in JobIds :
              /\ kinds' = kinds \ {old}
              /\ old = j \/ \E k \in 1..Len(finished) : old = finished[k]
<1> DEFINE all == Append(finished, j)
<1>1. finished \in Seq(JobIds)
  BY DEF TypeOK
<1>2. /\ all \in Seq(JobIds)
      /\ Len(all) = Len(finished) + 1
      /\ Len(finished) \in Nat
      /\ \A i \in 1..Len(finished) : all[i] = finished[i]
      /\ all[Len(finished) + 1] = j
  BY <1>1, AppendProperties, LenProperties
<1>3. \A i \in 1..Len(all) : all[i] = j \/ \E k \in 1..Len(finished) : all[i] = finished[k]
  <2> TAKE i \in 1..Len(all)
  <2>1. i \in 1..Len(finished) \/ i = Len(finished) + 1
    BY <1>2
  <2> QED BY <2>1, <1>2
<1>4. CASE Len(all) > KeepFinished
  <2>1. finished' = Tail(all) /\ kinds' = kinds \ {Head(all)}
    BY <1>4 DEF KeepRecent
  <2>2. all # << >>
    BY <1>2
  <2>3. /\ Tail(all) \in Seq(JobIds)
        /\ Len(Tail(all)) = Len(all) - 1
        /\ \A i \in 1..Len(Tail(all)) : Tail(all)[i] = all[i + 1]
    BY <2>2, <1>2, HeadTailProperties
  <2>4. Head(all) = all[1] /\ 1 \in 1..Len(all) /\ all[1] \in JobIds
    BY <1>2, <2>2
  <2>5. \A i \in 1..Len(finished') : i + 1 \in 1..Len(all) /\ finished'[i] = all[i + 1]
    BY <2>1, <2>3, <1>2
  <2> QED BY <2>1, <2>3, <2>4, <2>5, <1>3
<1>5. CASE ~(Len(all) > KeepFinished)
  <2>1. finished' = all /\ kinds' = kinds
    BY <1>5 DEF KeepRecent
  <2> QED BY <2>1, <1>2, <1>3
<1> QED BY <1>4, <1>5

\* The tree after one more job ended: the list stays within bounds and without
\* repetition, and the tree shows exactly what it lists.
LEMMA KeepRecentTree ==
  ASSUME TypeOK, Tree, FinishedEnded, NEW j \in JobIds, j \in tasks, NEW state \in Final,
         tasks' = tasks \ {j}, published' = Outcome(j, state), KeepRecent(j)
  PROVE  Tree'
<1> DEFINE all == Append(finished, j)
<1> DEFINE now == [published EXCEPT ![j] = state]
<1>1. finished \in Seq(JobIds) /\ KeepFinished \in Nat
  BY JobsAssumption DEF TypeOK
<1>2. /\ all \in Seq(JobIds)
      /\ Len(all) = Len(finished) + 1
      /\ Len(finished) \in Nat
      /\ \A i \in 1..Len(finished) : all[i] = finished[i] /\ finished[i] \in JobIds
      /\ all[Len(finished) + 1] = j
  BY <1>1, AppendProperties, LenProperties, ElementOfSeq
<1> HIDE DEF all
<1>3. \A i \in 1..Len(all) : i \in 1..Len(finished) \/ i = Len(finished) + 1
  BY <1>2
<1>4. \A i \in 1..Len(finished) : finished[i] # j
  BY DEF FinishedEnded
<1>5. \A i, k \in 1..Len(all) : all[i] = all[k] => i = k
  BY <1>2, <1>3, <1>4 DEF Tree
<1>6. now \in [JobIds -> Final \cup {"absent", "running"}] /\ "running" \notin Final
  BY DEF TypeOK, Final
<1>7. \A i \in JobIds : /\ now[i] = "running" <=> i \in tasks \ {j}
                        /\ now[i] \in Final <=> \E k \in 1..Len(all) : all[k] = i
  <2> TAKE i \in JobIds
  <2>1. CASE i = j
    <3>1. now[i] = state /\ Len(finished) + 1 \in 1..Len(all)
      BY <2>1, <1>2 DEF TypeOK
    <3> QED BY <2>1, <3>1, <1>2, <1>6
  <2>2. CASE i # j
    <3>1. now[i] = published[i]
      BY <2>2 DEF TypeOK
    <3>2. (\E k \in 1..Len(all) : all[k] = i) <=> (\E k \in 1..Len(finished) : finished[k] = i)
      BY <2>2, <1>2, <1>3
    <3> QED BY <2>2, <3>1, <3>2 DEF Tree
  <2> QED BY <2>1, <2>2
<1>8. CASE Len(all) > KeepFinished
  <2>1. finished' = Tail(all) /\ published' = [now EXCEPT ![Head(all)] = "absent"]
    BY <1>8 DEF KeepRecent, Outcome, all
  <2>2. all # << >>
    BY <1>2
  <2>3. /\ Tail(all) \in Seq(JobIds)
        /\ Len(Tail(all)) = Len(all) - 1
        /\ \A i \in 1..Len(Tail(all)) : Tail(all)[i] = all[i + 1]
    BY <2>2, <1>2, HeadTailProperties
  <2>4. Head(all) = all[1] /\ 1 \in 1..Len(all) /\ all[1] \in JobIds
    BY <1>2, <2>2
  <2>5. Len(finished') = Len(finished) /\ Len(finished') <= KeepFinished
    BY <2>1, <2>3, <1>2 DEF Tree
  <2>6. \A i \in 1..Len(finished') :
          i + 1 \in 1..Len(all) /\ i + 1 # 1 /\ finished'[i] = all[i + 1]
    BY <2>1, <2>3, <2>5, <1>2
  <2>7. \A i, k \in 1..Len(finished') : finished'[i] = finished'[k] => i = k
    <3> TAKE i, k \in 1..Len(finished')
    <3>1. finished'[i] = finished'[k] => i + 1 = k + 1
      BY <2>6, <1>5
    <3> QED BY <3>1, <1>2, <2>5
  <2>8. \A i \in 2..Len(all) : i - 1 \in 1..Len(finished') /\ finished'[i - 1] = all[i]
    <3> TAKE i \in 2..Len(all)
    <3>1. i - 1 \in 1..Len(finished') /\ (i - 1) + 1 = i
      BY <1>2, <2>5
    <3> QED BY <3>1, <2>6
  <2>9. \A i \in 1..Len(all) : i = 1 \/ i \in 2..Len(all)
    BY <1>2
  <2>10. \A i \in JobIds : i # all[1] =>
          ((\E k \in 1..Len(all) : all[k] = i) <=> \E k \in 1..Len(finished') : finished'[k] = i)
    <3> TAKE i \in JobIds
    <3>1. ASSUME i # all[1], NEW k \in 1..Len(all), all[k] = i
          PROVE  \E m \in 1..Len(finished') : finished'[m] = i
      BY <3>1, <2>8, <2>9
    <3>2. ASSUME NEW k \in 1..Len(finished'), finished'[k] = i
          PROVE  \E m \in 1..Len(all) : all[m] = i
      BY <3>2, <2>6
    <3> QED BY <3>1, <3>2
  <2>11. \A k \in 1..Len(finished') : finished'[k] # all[1]
    BY <2>6, <1>5, <2>4
  <2>12. all[1] \notin tasks \ {j}
    BY <1>2, <1>3, <2>4 DEF FinishedEnded
  <2>13. \A i \in JobIds :
          /\ published'[i] = "running" <=> i \in tasks'
          /\ published'[i] \in Final <=> \E k \in 1..Len(finished') : finished'[k] = i
    <3> TAKE i \in JobIds
    <3>1. CASE i = all[1]
      <4>1. published'[i] = "absent" /\ "absent" \notin Final
        BY <3>1, <2>1, <2>4, <1>6 DEF Final
      <4> QED BY <3>1, <4>1, <2>11, <2>12
    <3>2. CASE i # all[1]
      <4>1. published'[i] = now[i]
        BY <3>2, <2>1, <2>4, <1>6
      <4> QED BY <3>2, <4>1, <2>10, <1>7
    <3> QED BY <3>1, <3>2
  <2> QED BY <2>5, <2>7, <2>13 DEF Tree
<1>9. CASE ~(Len(all) > KeepFinished)
  <2>1. finished' = all /\ published' = now
    BY <1>9 DEF KeepRecent, Outcome, all
  <2> QED BY <2>1, <1>1, <1>2, <1>5, <1>7, <1>9 DEF Tree
<1> QED BY <1>8, <1>9

\* The new lock tables are tables again.
LEMMA TablesTyped ==
  ASSUME TypeOK, NEW o \in Owners, NEW R \in SUBSET Resources
  PROVE  /\ Locked(o, R) \in [Resources -> Owners \cup {None}]
         /\ Freed(o) \in [Resources -> Owners \cup {None}]
  BY DEF TypeOK, Locked, Freed

----------------------------------------------------------------------------
(* Inductiveness *)

LEMMA InitInductive == Init => Inductive
<1> SUFFICES ASSUME Init PROVE Inductive
  OBVIOUS
<1>1. finished = << >> /\ << >> \in Seq(JobIds) /\ Len(<< >>) = 0
  BY EmptySeq DEF Init
<1>2. TypeOK
  BY <1>1 DEF Init, TypeOK, Owners, TaskStates, Final
<1>3. FinishedEnded
  BY <1>1 DEF FinishedEnded
<1>4. Tree
  BY <1>1, JobsAssumption DEF Init, Tree, Final
<1> QED
  BY <1>2, <1>3, <1>4 DEF Init, Inductive, Lifecycle, HoldersKnown, LocksOwned, JobsHoldTheirs, HeldBy

LEMMA StartInductive ==
  ASSUME Inductive, NEW j \in JobIds, NEW R \in SUBSET Resources, Start(j, R)
  PROVE  Inductive'
<1> USE DEF Inductive
<1>1. TypeOK'
  BY TablesTyped DEF Start, TypeOK, Owners, TaskStates, Final
<1>2. Lifecycle' /\ FinishedEnded' /\ HoldersKnown'
  BY DEF Start, TypeOK, Lifecycle, FinishedEnded, HoldersKnown
<1>3. LocksOwned'
  BY DEF Start, TypeOK, LocksOwned, Locked
<1>4. JobsHoldTheirs'
  BY JobsAssumption
  DEF Start, TypeOK, JobsHoldTheirs, LocksOwned, Lifecycle, HeldBy,
         Locked, CheckFree, Owners
<1>5. Tree'
  BY DEF Start, TypeOK, Tree, FinishedEnded, Final
<1> QED BY <1>1, <1>2, <1>3, <1>4, <1>5

LEMMA ReserveInductive ==
  ASSUME Inductive, NEW t \in Tokens, NEW R \in SUBSET Resources, Reserve(t, R)
  PROVE  Inductive'
<1> USE DEF Inductive
<1>1. TypeOK'
  BY TablesTyped DEF Reserve, TypeOK, Owners
<1>2. Lifecycle' /\ FinishedEnded' /\ HoldersKnown'
  BY DEF Reserve, TypeOK, Lifecycle, FinishedEnded, HoldersKnown
<1>3. LocksOwned'
  BY DEF Reserve, TypeOK, LocksOwned, Locked
<1>4. JobsHoldTheirs'
  BY JobsAssumption
  DEF Reserve, TypeOK, JobsHoldTheirs, Lifecycle, HeldBy, Locked, CheckFree
<1>5. Tree'
  BY DEF Reserve, Tree
<1> QED BY <1>1, <1>2, <1>3, <1>4, <1>5

LEMMA ReleaseInductive ==
  ASSUME Inductive, NEW t \in Tokens, Release(t)
  PROVE  Inductive'
<1> USE DEF Inductive
<1>1. TypeOK'
  BY TablesTyped DEF Release, TypeOK, Owners
<1>2. Lifecycle' /\ FinishedEnded' /\ HoldersKnown'
  BY JobsAssumption DEF Release, TypeOK, Lifecycle, FinishedEnded, HoldersKnown
<1>3. LocksOwned'
  BY DEF Release, TypeOK, LocksOwned, Freed
<1>4. JobsHoldTheirs'
  BY JobsAssumption DEF Release, TypeOK, JobsHoldTheirs, Lifecycle, HeldBy, Freed
<1>5. Tree'
  BY DEF Release, Tree
<1> QED BY <1>1, <1>2, <1>3, <1>4, <1>5

\* The steps of a task that change no lock and finish no job.
LEMMA TaskStepInductive ==
  ASSUME Inductive, NEW j \in JobIds, Begin(j) \/ NeverBegan(j) \/ Cancel(j)
  PROVE  Inductive'
<1> USE DEF Inductive
<1>1. TypeOK'
  BY DEF Begin, NeverBegan, Cancel, TypeOK, TaskStates
<1>2. Lifecycle' /\ FinishedEnded' /\ HoldersKnown'
  BY DEF Begin, NeverBegan, Cancel, TypeOK, Lifecycle, FinishedEnded, HoldersKnown
<1>3. LocksOwned' /\ JobsHoldTheirs' /\ Tree'
  BY DEF Begin, NeverBegan, Cancel, LocksOwned, JobsHoldTheirs, HeldBy, Tree
<1> QED BY <1>1, <1>2, <1>3

\* A finished job's locks are freed with its entry, and nobody else's.
LEMMA FinishInductive ==
  ASSUME Inductive, NEW j \in JobIds, NEW state \in Final, NEW ended \in TaskStates,
         taskState[j] \in {"running", "done"}, ended \in {"done", "collected"},
         taskState' = [taskState EXCEPT ![j] = ended],
         Finish(j, state),
         UNCHANGED <<cancelAsked, needs, reservations, given, closing>>
  PROVE  Inductive'
<1> USE DEF Inductive
<1>1. CASE j \in tasks
  <2>1. /\ tasks' = tasks \ {j}
        /\ suspended' = suspended \ {j}
        /\ lent' = [lent EXCEPT ![j] = {}]
        /\ locks' = Freed(j)
        /\ published' = Outcome(j, state)
        /\ KeepRecent(j)
    BY <1>1 DEF Finish
  <2>2. /\ finished' \in Seq(JobIds)
        /\ \A i \in 1..Len(finished') :
             finished'[i] = j \/ \E k \in 1..Len(finished) : finished'[i] = finished[k]
        /\ kinds' = kinds \/ \E old \in JobIds :
             /\ kinds' = kinds \ {old}
             /\ old = j \/ \E k \in 1..Len(finished) : old = finished[k]
    BY <2>1, KeepRecentFacts
  <2>3. published' \in [JobIds -> Final \cup {"absent", "running"}]
    BY <2>1 DEF Outcome, TypeOK
  <2>4. TypeOK'
    BY <2>1, <2>2, <2>3, TablesTyped DEF TypeOK, Owners
  <2>5. finished \in Seq(JobIds) /\ \A k \in 1..Len(finished) : finished[k] \in JobIds
    BY ElementOfSeq DEF TypeOK
  <2>6. Lifecycle'
    BY <2>1 DEF TypeOK, Lifecycle
  <2>7. FinishedEnded'
    BY <2>1, <2>2, <2>5 DEF FinishedEnded, TypeOK, TaskStates
  <2>8. HoldersKnown'
    <3>1. j \notin tasks' /\ \A k \in 1..Len(finished) : finished[k] \notin tasks'
      BY <2>1 DEF FinishedEnded
    <3>2. reservations' \cap JobIds = {}
      BY JobsAssumption DEF TypeOK
    <3>3. tasks' \cup reservations' \subseteq kinds
      BY <2>1 DEF HoldersKnown
    <3> QED BY <3>1, <3>2, <3>3, <2>2 DEF HoldersKnown
  <2>9. LocksOwned'
    BY <2>1 DEF LocksOwned, Freed, TypeOK
  <2>10. JobsHoldTheirs'
    BY <2>1, JobsAssumption DEF JobsHoldTheirs, HeldBy, Freed, TypeOK
  <2>11. Tree'
    BY <1>1, <2>1, KeepRecentTree
  <2> QED BY <2>4, <2>6, <2>7, <2>8, <2>9, <2>10, <2>11
<1>2. CASE j \notin tasks
  <2>1. UNCHANGED <<tasks, suspended, lent, locks, published, finished, kinds>>
    BY <1>2 DEF Finish
  <2>2. TypeOK'
    BY <2>1 DEF TypeOK
  <2>3. finished \in Seq(JobIds) /\ \A k \in 1..Len(finished) : finished[k] \in JobIds
    BY ElementOfSeq DEF TypeOK
  <2>4. Lifecycle'
    BY <1>2, <2>1 DEF TypeOK, Lifecycle
  <2>5. FinishedEnded' /\ HoldersKnown' /\ LocksOwned' /\ JobsHoldTheirs' /\ Tree'
    BY <2>1, <2>3 DEF FinishedEnded, HoldersKnown, LocksOwned, JobsHoldTheirs, HeldBy,
                      TypeOK, Tree
  <2> QED BY <2>2, <2>4, <2>5
<1> QED BY <1>1, <1>2

LEMMA EndInductive ==
  ASSUME Inductive, NEW j \in JobIds, NEW state \in Final, End(j, state)
  PROVE  Inductive'
  BY FinishInductive DEF End, TaskStates

LEMMA CollectedInductive ==
  ASSUME Inductive, NEW j \in JobIds, Collected(j)
  PROVE  Inductive'
  BY FinishInductive DEF Collected, TaskStates, Final

LEMMA SuspendInductive ==
  ASSUME Inductive, NEW j \in JobIds, Suspend(j)
  PROVE  Inductive'
<1> USE DEF Inductive
<1>1. TypeOK'
  BY TablesTyped DEF Suspend, TypeOK, HeldBy, Owners
<1>2. Lifecycle' /\ FinishedEnded' /\ HoldersKnown'
  BY DEF Suspend, TypeOK, Lifecycle, FinishedEnded, HoldersKnown
<1>3. LocksOwned'
  BY DEF Suspend, TypeOK, LocksOwned, Freed
<1>4. JobsHoldTheirs'
  BY JobsAssumption DEF Suspend, TypeOK, JobsHoldTheirs, HeldBy, Freed
<1>5. Tree'
  BY DEF Suspend, Tree
<1> QED BY <1>1, <1>2, <1>3, <1>4, <1>5

LEMMA ResumeInductive ==
  ASSUME Inductive, NEW j \in JobIds, Resume(j)
  PROVE  Inductive'
<1> USE DEF Inductive
<1>1. TypeOK'
  BY TablesTyped DEF Resume, TypeOK, Owners
<1>2. Lifecycle' /\ FinishedEnded' /\ HoldersKnown'
  BY DEF Resume, TypeOK, Lifecycle, FinishedEnded, HoldersKnown
<1>3. LocksOwned'
  BY DEF Resume, TypeOK, LocksOwned, Lifecycle, Locked
<1>4. JobsHoldTheirs'
  BY JobsAssumption
  DEF Resume, TypeOK, JobsHoldTheirs, Lifecycle, HeldBy, Locked, CheckFree
<1>5. Tree'
  BY DEF Resume, Tree
<1> QED BY <1>1, <1>2, <1>3, <1>4, <1>5

LEMMA CloseInductive == Inductive /\ Close => Inductive'
  BY DEF Inductive, Close, TypeOK, Lifecycle, FinishedEnded, HoldersKnown, LocksOwned,
         JobsHoldTheirs, HeldBy, Tree

LEMMA StepInductive == Inductive /\ [Next]_vars => Inductive'
<1> SUFFICES ASSUME Inductive, [Next]_vars PROVE Inductive'
  OBVIOUS
<1>1. CASE \E j \in JobIds : JobStep(j)
  BY <1>1, StartInductive, TaskStepInductive, EndInductive, CollectedInductive,
     SuspendInductive, ResumeInductive DEF JobStep
<1>2. CASE \E t \in Tokens : TokenStep(t)
  BY <1>2, ReserveInductive, ReleaseInductive DEF TokenStep
<1>3. CASE Close
  BY <1>3, CloseInductive
<1>4. CASE UNCHANGED vars
  BY <1>4 DEF vars, Inductive, TypeOK, Lifecycle, FinishedEnded, HoldersKnown, LocksOwned,
              JobsHoldTheirs, HeldBy, Tree
<1> QED BY <1>1, <1>2, <1>3, <1>4 DEF Next

LEMMA Invariance == Spec => []Inductive
  BY InitInductive, StepInductive, PTL DEF Spec

----------------------------------------------------------------------------
(* Theorems *)

\* The variables of the job manager keep their types.
THEOREM TypeCorrect == Spec => []TypeOK
<1>1. Inductive => TypeOK
  BY DEF Inductive
<1> QED BY <1>1, Invariance, PTL

\* No lock of JobManager leaks: its holder is a job not finished or a
\* reservation in force, and _kinds names it.
THEOREM NoLockLeaks == Spec => []HoldersLive
<1>1. Inductive => HoldersLive
  BY DEF Inductive, HoldersLive, LocksOwned, HoldersKnown
<1> QED BY <1>1, Invariance, PTL

\* start, suspend and resume keep the locks of a job whole: all of them while
\* it runs, none while it is suspended.
THEOREM LocksAreWhole == Spec => []JobsHoldTheirs
<1>1. Inductive => JobsHoldTheirs
  BY DEF Inductive
<1> QED BY <1>1, Invariance, PTL

\* Two jobs that run unsuspended were started with disjoint sets of roles.
THEOREM Exclusion == Spec => []NoSharedDevice
<1>1. Inductive => NoSharedDevice
  BY DEF Inductive, NoSharedDevice, JobsHoldTheirs, HeldBy
<1> QED BY <1>1, Invariance, PTL

\* The tree lists the jobs that run and the last ones that ended, and active()
\* finds a kind for each of them.
THEOREM TreeCorrect == Spec => []TreeIsRecent
<1>1. Inductive => TreeIsRecent
  <2> SUFFICES ASSUME Inductive PROVE TreeIsRecent
    OBVIOUS
  <2>1. DOMAIN finished = 1..Len(finished) /\ \A i \in DOMAIN finished : finished[i] \in JobIds
    BY ElementOfSeq, LenProperties DEF Inductive, TypeOK
  <2>2. {j \in JobIds : published[j] = "running"} = tasks
    BY DEF Inductive, TypeOK, Tree
  <2>3. {j \in JobIds : published[j] \in Final} = {finished[i] : i \in DOMAIN finished}
    BY <2>1 DEF Inductive, Tree
  <2> QED BY <2>2, <2>3 DEF Inductive, Tree, HoldersKnown, TreeIsRecent
<1> QED BY <1>1, Invariance, PTL

\* The outcome of a job in the state tree is final: _finish takes effect once.
THEOREM OneOutcome == Spec => OutcomeIsFinal
<1> DEFINE Kept == \A j \in JobIds :
             published[j] \in Final => published'[j] \in {published[j], "absent"}
<1>1. ASSUME Inductive, Next PROVE Kept
  <2>1. ASSUME NEW j \in JobIds, NEW state \in Final, Finish(j, state) PROVE Kept
    <3>1. CASE j \in tasks
      <4>1. published[j] = "running" /\ published' = Outcome(j, state)
        BY <1>1, <2>1, <3>1 DEF Finish, Inductive, Tree
      <4>2. "running" \notin Final
        BY DEF Final
      <4> QED BY <1>1, <2>1, <4>1, <4>2 DEF Outcome, Inductive, TypeOK
    <3>2. CASE j \notin tasks
      BY <2>1, <3>2 DEF Finish
    <3> QED BY <3>1, <3>2
  <2>2. ASSUME NEW j \in JobIds, JobStep(j) PROVE Kept
    <3>1. CASE \E R \in SUBSET Resources : Start(j, R)
      <4>1. j \notin tasks /\ published[j] \notin Final
        <5>1. \A k \in 1..Len(finished) : finished[k] # j
          BY <1>1, <3>1 DEF Start, Inductive, FinishedEnded
        <5> QED BY <1>1, <3>1, <5>1 DEF Start, Inductive, Lifecycle, Tree
      <4> QED BY <1>1, <3>1, <4>1 DEF Start, Inductive, TypeOK
    <3>2. CASE \E state \in Final : End(j, state)
      BY <3>2, <2>1 DEF End
    <3>3. CASE Collected(j)
      BY <3>3, <2>1 DEF Collected, Final
    <3>4. CASE Begin(j) \/ NeverBegan(j) \/ Cancel(j) \/ Suspend(j) \/ Resume(j)
      BY <3>4 DEF Begin, NeverBegan, Cancel, Suspend, Resume
    <3> QED BY <2>2, <3>1, <3>2, <3>3, <3>4 DEF JobStep
  <2>3. ASSUME NEW t \in Tokens, TokenStep(t) PROVE Kept
    BY <2>3 DEF TokenStep, Reserve, Release
  <2>4. ASSUME Close PROVE Kept
    BY <2>4 DEF Close
  <2> QED BY <1>1, <2>2, <2>3, <2>4 DEF Next
<1>2. Inductive /\ [Next]_vars => [Kept]_vars
  BY <1>1
<1> QED BY <1>2, Invariance, PTL DEF Spec, OutcomeIsFinal

----------------------------------------------------------------------------
(* Refinement *)

LEMMA InitRefines == Init => Table!Init
  BY DEF Init, Table!Init

\* start, reserve and resume grab; release, suspend and _finish drop; the rest
\* leaves the table alone.
LEMMA StepRefines == Inductive /\ [Next]_vars => [Table!Next]_locks
<1> SUFFICES ASSUME Inductive, [Next]_vars PROVE Table!Next \/ UNCHANGED locks
  OBVIOUS
<1> USE DEF Table!Next, Table!Grab, Table!Drop, Owners
<1>1. ASSUME NEW j \in JobIds, NEW R \in SUBSET Resources, Start(j, R) PROVE Table!Next
  BY <1>1 DEF Start, CheckFree, Locked
<1>2. ASSUME NEW j \in JobIds, Resume(j) PROVE Table!Next
  <2>1. lent[j] \in SUBSET Resources
    BY DEF Inductive, TypeOK
  <2>2. Table!Grab(j, lent[j])
    BY <1>2 DEF Resume, CheckFree, Locked
  <2> QED BY <2>1, <2>2
<1>3. ASSUME NEW j \in JobIds, Suspend(j) PROVE Table!Next
  BY <1>3 DEF Suspend, Freed
<1>4. ASSUME NEW j \in JobIds, NEW state \in Final, Finish(j, state)
      PROVE Table!Next \/ UNCHANGED locks
  BY <1>4 DEF Finish, Freed
<1>5. ASSUME NEW j \in JobIds, JobStep(j) PROVE Table!Next \/ UNCHANGED locks
  <2>1. CASE \E state \in Final : End(j, state)
    BY <2>1, <1>4 DEF End
  <2>2. CASE Collected(j)
    BY <2>2, <1>4 DEF Collected, Final
  <2>3. CASE Begin(j) \/ NeverBegan(j) \/ Cancel(j)
    BY <2>3 DEF Begin, NeverBegan, Cancel
  <2> QED BY <1>5, <1>1, <1>2, <1>3, <2>1, <2>2, <2>3 DEF JobStep
<1>6. ASSUME NEW t \in Tokens, TokenStep(t) PROVE Table!Next
  <2>1. ASSUME NEW R \in SUBSET Resources, Reserve(t, R) PROVE Table!Next
    BY <2>1 DEF Reserve, CheckFree, Locked
  <2>2. ASSUME Release(t) PROVE Table!Next
    BY <2>2 DEF Release, Freed
  <2> QED BY <1>6, <2>1, <2>2 DEF TokenStep
<1>7. CASE Close \/ UNCHANGED vars
  BY <1>7 DEF Close, vars
<1> QED BY <1>5, <1>6, <1>7 DEF Next

\* JobManager implements the lock table: nobody takes a role that another owner
\* holds, and roles are taken all together or not at all.
THEOREM Implementation == Spec => ImplementsTable
  BY InitRefines, StepRefines, Invariance, PTL DEF Spec, ImplementsTable, Table!Spec
=============================================================================
