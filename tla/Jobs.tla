-------------------------------- MODULE Jobs --------------------------------
(***************************************************************************)
(* nocs.jobs.JobManager: long operations that lock equipment roles while   *)
(* they run, reservations that lock them without a job, and jobs that lend *)
(* their locks back while paused.  Every method is synchronous, so each is *)
(* one step of the event loop; what interleaves is the life of the tasks:  *)
(* created, first stepped, cancelled, ended, and their done callbacks.     *)
(***************************************************************************)
EXTENDS Naturals, Sequences, FiniteSets

CONSTANTS
  JobIds,        \* ids a job may get; each is given once (a uuid)
  Tokens,        \* reservation tokens, each given once
  Resources,     \* equipment roles
  KeepFinished,  \* finished jobs kept in the state tree
  None           \* no holder

ASSUME JobsAssumption ==
  /\ JobIds \cap Tokens = {}
  /\ None \notin JobIds \cup Tokens
  /\ KeepFinished \in Nat

VARIABLES
  locks,         \* _locks: resource -> job or token holding it
  tasks,         \* keys of _tasks: jobs not finished yet
  taskState,     \* the asyncio task of each job
  cancelAsked,   \* jobs whose task was asked to cancel
  needs,         \* published "resources" of each job
  published,     \* published "state" of each job
  reservations,  \* _reservations: tokens in force
  given,         \* tokens given out so far
  suspended,     \* keys of _suspended
  lent,          \* values of _suspended: what each paused job lent back
  kinds,         \* keys of _kinds
  finished,      \* _finished, oldest first
  closing        \* close() was called: nothing is started any more

vars == <<locks, tasks, taskState, cancelAsked, needs, published, reservations,
          given, suspended, lent, kinds, finished, closing>>

Owners == JobIds \cup Tokens
Final == {"succeeded", "failed", "cancelled"}
\* "done": the task ended, its done callback is still to be called.
TaskStates == {"none", "created", "running", "done", "collected"}

TypeOK ==
  /\ locks \in [Resources -> Owners \cup {None}]
  /\ tasks \subseteq JobIds
  /\ taskState \in [JobIds -> TaskStates]
  /\ cancelAsked \subseteq JobIds
  /\ needs \in [JobIds -> SUBSET Resources]
  /\ published \in [JobIds -> Final \cup {"absent", "running"}]
  /\ reservations \subseteq Tokens
  /\ given \subseteq Tokens
  /\ suspended \subseteq JobIds
  /\ lent \in [JobIds -> SUBSET Resources]
  /\ kinds \subseteq Owners
  /\ finished \in Seq(JobIds)
  /\ closing \in BOOLEAN

Init ==
  /\ locks = [r \in Resources |-> None]
  /\ tasks = {}
  /\ taskState = [j \in JobIds |-> "none"]
  /\ cancelAsked = {}
  /\ needs = [j \in JobIds |-> {}]
  /\ published = [j \in JobIds |-> "absent"]
  /\ reservations = {}
  /\ given = {}
  /\ suspended = {}
  /\ lent = [j \in JobIds |-> {}]
  /\ kinds = {}
  /\ finished = <<>>
  /\ closing = FALSE

----------------------------------------------------------------------------
(* The lock table *)

HeldBy(o) == {r \in Resources : locks[r] = o}

\* check_free: otherwise the command is refused with ResourceBusyError.
CheckFree(R) == \A r \in R : locks[r] = None

Locked(o, R) == [r \in Resources |-> IF r \in R THEN o ELSE locks[r]]
Freed(o) == [r \in Resources |-> IF locks[r] = o THEN None ELSE locks[r]]

----------------------------------------------------------------------------
(* Reservations *)

Reserve(t, R) ==
  /\ ~closing
  /\ t \notin given
  /\ CheckFree(R)
  /\ locks' = Locked(t, R)
  /\ kinds' = kinds \cup {t}
  /\ reservations' = reservations \cup {t}
  /\ given' = given \cup {t}
  /\ UNCHANGED <<tasks, taskState, cancelAsked, needs, published, suspended, lent,
                 finished, closing>>

\* (Mutant) The token is forgotten but what it locked is not freed.
Release_LeaksLocks(t) ==
  /\ t \in reservations
  /\ reservations' = reservations \ {t}
  /\ kinds' = kinds \ {t}
  /\ UNCHANGED <<locks, tasks, taskState, cancelAsked, needs, published, given,
                 suspended, lent, finished, closing>>

\* Releasing twice does nothing: the guard is the early return.
Release(t) ==
  /\ t \in reservations
  /\ reservations' = reservations \ {t}
  /\ kinds' = kinds \ {t}
  /\ locks' = Freed(t)
  /\ UNCHANGED <<tasks, taskState, cancelAsked, needs, published, given, suspended,
                 lent, finished, closing>>

----------------------------------------------------------------------------
(* The life of a job *)

Start(j, R) ==
  /\ ~closing
  /\ taskState[j] = "none"
  /\ CheckFree(R)
  /\ locks' = Locked(j, R)
  /\ kinds' = kinds \cup {j}
  /\ needs' = [needs EXCEPT ![j] = R]
  /\ published' = [published EXCEPT ![j] = "running"]
  /\ taskState' = [taskState EXCEPT ![j] = "created"]
  /\ tasks' = tasks \cup {j}
  /\ UNCHANGED <<cancelAsked, reservations, given, suspended, lent, finished, closing>>

\* The loop steps the task for the first time: _run enters its try block.
Begin(j) ==
  /\ taskState[j] = "created"
  /\ j \notin cancelAsked
  /\ taskState' = [taskState EXCEPT ![j] = "running"]
  /\ UNCHANGED <<locks, tasks, cancelAsked, needs, published, reservations, given,
                 suspended, lent, kinds, finished, closing>>

\* A task cancelled before its first step ends without entering _run.
NeverBegan(j) ==
  /\ taskState[j] = "created"
  /\ j \in cancelAsked
  /\ taskState' = [taskState EXCEPT ![j] = "done"]
  /\ UNCHANGED <<locks, tasks, cancelAsked, needs, published, reservations, given,
                 suspended, lent, kinds, finished, closing>>

\* cancel: False, and nothing happens, once the task is done.
Cancel(j) ==
  /\ j \in tasks
  /\ taskState[j] \in {"created", "running"}
  /\ cancelAsked' = cancelAsked \cup {j}
  /\ UNCHANGED <<locks, tasks, taskState, needs, published, reservations, given,
                 suspended, lent, kinds, finished, closing>>

\* The oldest finished job leaves the tree and _kinds when there are too many.
\* (One at most: the list was within bounds before.)
KeepRecent(j) ==
  LET all == Append(finished, j) IN
  IF Len(all) > KeepFinished
  THEN /\ finished' = Tail(all)
       /\ kinds' = kinds \ {Head(all)}
  ELSE /\ finished' = all
       /\ UNCHANGED kinds

Outcome(j, state) ==
  LET all == Append(finished, j)
      now == [published EXCEPT ![j] = state]
  IN IF Len(all) > KeepFinished THEN [now EXCEPT ![Head(all)] = "absent"] ELSE now

\* _finish, in a step that also moves the task to the given state.
Finish(j, state) ==
  IF j \in tasks
  THEN /\ tasks' = tasks \ {j}
       /\ suspended' = suspended \ {j}
       /\ lent' = [lent EXCEPT ![j] = {}]
       /\ locks' = Freed(j)
       /\ published' = Outcome(j, state)
       /\ KeepRecent(j)
  ELSE UNCHANGED <<tasks, suspended, lent, locks, published, finished, kinds>>

\* The job's function returns, raises, or ends because it was cancelled (it may
\* also return or fail while it cleans up after the cancellation).
End(j, state) ==
  /\ taskState[j] = "running"
  /\ state = "cancelled" => j \in cancelAsked
  /\ taskState' = [taskState EXCEPT ![j] = "done"]
  /\ Finish(j, state)
  /\ UNCHANGED <<cancelAsked, needs, reservations, given, closing>>

\* (Mutant) No done callback: only _run's own handlers finish a job.
Collected_NoCallback(j) ==
  /\ taskState[j] = "done"
  /\ taskState' = [taskState EXCEPT ![j] = "collected"]
  /\ UNCHANGED <<locks, tasks, cancelAsked, needs, published, reservations, given,
                 suspended, lent, kinds, finished, closing>>

\* The task's done callback: it only matters for a task that never began.
Collected(j) ==
  /\ taskState[j] = "done"
  /\ taskState' = [taskState EXCEPT ![j] = "collected"]
  /\ Finish(j, "cancelled")
  /\ UNCHANGED <<cancelAsked, needs, reservations, given, closing>>

----------------------------------------------------------------------------
(* Pausing *)

\* Called from inside the job, which therefore runs.
Suspend(j) ==
  /\ taskState[j] = "running"
  /\ j \in tasks
  /\ j \notin suspended
  /\ suspended' = suspended \cup {j}
  /\ lent' = [lent EXCEPT ![j] = HeldBy(j)]
  /\ locks' = Freed(j)
  /\ UNCHANGED <<tasks, taskState, cancelAsked, needs, published, reservations, given,
                 kinds, finished, closing>>

\* (Mutant) The locks are taken back without looking who has them.
Resume_Unchecked(j) ==
  /\ j \in suspended
  /\ locks' = Locked(j, lent[j])
  /\ suspended' = suspended \ {j}
  /\ lent' = [lent EXCEPT ![j] = {}]
  /\ UNCHANGED <<tasks, taskState, cancelAsked, needs, published, reservations, given,
                 kinds, finished, closing>>

\* Called from inside the job or by the user's resume; refused while one of the
\* lent resources is taken.
Resume(j) ==
  /\ j \in suspended
  /\ CheckFree(lent[j])
  /\ locks' = Locked(j, lent[j])
  /\ suspended' = suspended \ {j}
  /\ lent' = [lent EXCEPT ![j] = {}]
  /\ UNCHANGED <<tasks, taskState, cancelAsked, needs, published, reservations, given,
                 kinds, finished, closing>>

\* (Mutant) Paused jobs are forgotten.
Close_SkipsPaused ==
  /\ ~closing
  /\ closing' = TRUE
  /\ cancelAsked' = cancelAsked \cup
       {j \in tasks \ suspended : taskState[j] \in {"created", "running"}}
  /\ UNCHANGED <<locks, tasks, taskState, needs, published, reservations, given,
                 suspended, lent, kinds, finished>>

\* close, at shutdown: no request is served any more; every task is cancelled.
Close ==
  /\ ~closing
  /\ closing' = TRUE
  /\ cancelAsked' = cancelAsked \cup
       {j \in tasks : taskState[j] \in {"created", "running"}}
  /\ UNCHANGED <<locks, tasks, taskState, needs, published, reservations, given,
                 suspended, lent, kinds, finished>>

----------------------------------------------------------------------------
JobStep(j) ==
  \/ \E R \in SUBSET Resources : Start(j, R)
  \/ Begin(j)
  \/ NeverBegan(j)
  \/ Cancel(j)
  \/ \E state \in Final : End(j, state)
  \/ Collected(j)
  \/ Suspend(j)
  \/ Resume(j)

TokenStep(t) ==
  \/ \E R \in SUBSET Resources : Reserve(t, R)
  \/ Release(t)

Next ==
  \/ \E j \in JobIds : JobStep(j)
  \/ \E t \in Tokens : TokenStep(t)
  \/ Close

\* The event loop steps every ready task and callback, and a job's function
\* ends some time after it is cancelled; nothing makes users act.
Fairness ==
  \A j \in JobIds :
    /\ WF_vars(Begin(j) \/ NeverBegan(j))
    /\ WF_vars(Collected(j))
    /\ WF_vars(j \in cancelAsked /\ \E state \in Final : End(j, state))

Spec == Init /\ [][Next]_vars
FairSpec == Spec /\ Fairness

----------------------------------------------------------------------------
(* Properties *)

\* No lock leaks: whatever is locked is locked by a job that has not finished
\* or a reservation in force, and that holder has a kind to name when a command
\* is refused (check_free looks it up in _kinds).
HoldersLive ==
  \A r \in Resources :
    locks[r] # None => locks[r] \in (tasks \cup reservations) \cap kinds

\* A job that runs unsuspended holds every resource it was started with; while
\* it is suspended it holds none of them and remembers exactly those.
JobsHoldTheirs ==
  \A j \in tasks :
    IF j \in suspended THEN lent[j] = needs[j] /\ HeldBy(j) = {}
    ELSE HeldBy(j) = needs[j]

\* Two jobs that both run unsuspended never share a resource: two operations
\* never drive the same device at once.
NoSharedDevice ==
  \A i, j \in tasks \ suspended : i # j => needs[i] \cap needs[j] = {}

\* The state tree shows the jobs that run and the last KeepFinished that ended,
\* and active(), which a reboot waits for, finds a kind for every one of them.
TreeIsRecent ==
  /\ Len(finished) <= KeepFinished
  /\ {j \in JobIds : published[j] = "running"} = tasks
  /\ {j \in JobIds : published[j] \in Final} = {finished[i] : i \in DOMAIN finished}
  /\ tasks \cup reservations \subseteq kinds

\* How a job ended never changes: the done callback, which calls _finish again
\* for every job, does not turn a success into a cancellation.
OutcomeIsFinal ==
  [][\A j \in JobIds :
       published[j] \in Final => published'[j] \in {published[j], "absent"}]_vars

Table == INSTANCE LockTable WITH owner <- locks, Free <- None

\* The manager implements the lock table.
ImplementsTable == Table!Spec

\* A cancelled job lets go of everything, also when its task never began.
CancelFrees ==
  \A j \in JobIds : (j \in cancelAsked) ~> (\A r \in Resources : locks[r] # j)

\* After close() every job ends, so that shutting down does not hang.
CloseEnds == closing ~> (tasks = {})

\* Both.
JobsEnd == CancelFrees /\ CloseEnds
=============================================================================
