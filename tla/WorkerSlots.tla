----------------------------- MODULE WorkerSlots -----------------------------
(***************************************************************************)
(* The task limits of a worker daemon: TaskRun[t].RuningCnt counts the     *)
(* sessions of task t, IncrementTask admits a session below TaskLimit[t],  *)
(* DecrementTask gives its slot back.  The sessions are those of the four  *)
(* ways to start a task: ProcessX (polls and tasktrig), the in-process     *)
(* SealX and RetryTask, RetryTaskPID and RetryTaskPIDByState.              *)
(***************************************************************************)
EXTENDS Integers, FiniteSets

CONSTANTS
  Tasks,      \* the tasks with a limit, among PC1, PC2, C1, C2
  Sessions,   \* bound: sessions of one run of the daemon
  Limits,     \* values a limit may have; -1 is no limit
  Ops         \* what may happen besides polls whose child does its work

AllOps == {"inproc", "bystate", "restart", "mismatch", "spawnfail", "drop",
           "giveup", "motify"}

ASSUME WorkerSlotsAssumption ==
  /\ Tasks \subseteq {"PC1", "PC2", "C1", "C2"}
  /\ IsFiniteSet(Sessions)
  /\ Limits \subseteq Nat \cup {-1}
  /\ Ops \subseteq AllOps

Modes == {"process", "inproc", "bystate", "restart"}
Stages == {"idle",   \* not started
           "claim",  \* QueryTask on its way
           "spawn",  \* ChildProcess waits for the pid
           "run",    \* handleProccess in its loop
           "exit",   \* handleProccess has left it
           "undo",   \* the deferred DecrementTask of a failed start
           "dec",    \* past the tests of DecrementTask, before its lock
           "done"}
Session == [mode : Modes, task : Tasks, row : Tasks \cup {"other"},
            stage : Stages, counted : BOOLEAN, work : BOOLEAN,
            child : {"prompt", "late", "came"}]

VARIABLES
  limit,    \* TaskLimit
  cnt,      \* TaskRun[t].RuningCnt
  sess      \* the sessions; counted: IncrementTask added one for it;
            \* work: a child process or goroutine computes for it; child: "late"
            \* if it was not up in time, "came" if it came up all the same

vars == <<limit, cnt, sess>>

TypeOK ==
  /\ limit \in [Tasks -> Limits]
  /\ cnt \in [Tasks -> Int]
  /\ sess \in [Sessions -> Session]

Init ==
  /\ limit \in [Tasks -> Limits]
  /\ cnt = [t \in Tasks |-> 0]
  /\ sess \in [Sessions -> {[mode |-> "process", task |-> t, row |-> t, stage |-> "idle",
                             counted |-> FALSE, work |-> FALSE,
                             child |-> "prompt"] : t \in Tasks}]

-------------------------------------------------------------------------------
\* IncrementTask: the limit is looked at again under the lock, -1 is no limit.
Admits(t) == limit[t] = -1 \/ cnt[t] < limit[t]

\* A session whose QueryTask is on its way.
Claiming(t, m, counted) ==
  [mode |-> m, task |-> t, row |-> t, stage |-> "claim", counted |-> counted, work |-> FALSE,
   child |-> "prompt"]

\* Mutant of Enter: the limit is only looked at before the lock is taken.
Enter_unlocked(i, t, m) ==
  /\ sess[i].stage = "idle"
  /\ \/ Admits(t)
     \/ \E j \in Sessions : sess[j].stage = "claim" /\ sess[j].task = t
  /\ m \in {"inproc", "bystate"} => m \in Ops
  /\ cnt' = [cnt EXCEPT ![t] = IF limit[t] = -1 THEN @ ELSE @ + 1]
  /\ sess' = [sess EXCEPT ![i] = Claiming(t, m, limit[t] # -1)]
  /\ UNCHANGED limit
\* A call that IncrementTask refuses returns at once, and leaves nothing.
Enter(i, t, m) ==
  /\ sess[i].stage = "idle"
  /\ Admits(t)
  /\ m \in {"inproc", "bystate"} => m \in Ops
  /\ cnt' = [cnt EXCEPT ![t] = IF limit[t] = -1 THEN @ ELSE @ + 1]
  /\ sess' = [sess EXCEPT ![i] = Claiming(t, m, limit[t] # -1)]
  /\ UNCHANGED limit

\* RetryTaskPID asks for no slot.
Restart(i, t) ==
  /\ "restart" \in Ops
  /\ sess[i].stage = "idle"
  /\ sess' = [sess EXCEPT ![i] = Claiming(t, "restart", FALSE)]
  /\ UNCHANGED <<limit, cnt>>

\* No row to claim, or no answer: the deferred DecrementTask, where there is one.
ClaimFail(i) ==
  /\ sess[i].stage = "claim"
  /\ sess' = [sess EXCEPT ![i].stage = IF sess[i].mode = "restart" THEN "done" ELSE "undo"]
  /\ UNCHANGED <<limit, cnt>>

\* The row may be at another task, even one of the miner's ("other"), when it
\* was claimed by its sector number.
ClaimOk(i, r) ==
  /\ sess[i].stage = "claim"
  /\ r = sess[i].task \/ "mismatch" \in Ops
  /\ sess' = [sess EXCEPT ![i] = [@ EXCEPT !.row = r,
                !.stage = IF sess[i].mode = "inproc" THEN "run" ELSE "spawn",
                !.work = sess[i].mode = "inproc"]]
  /\ UNCHANGED <<limit, cnt>>

\* The process is not up after 30 seconds.  ProcessX gives its slot back; the others
\* have answered long ago, and drop the error of their goroutine.
SpawnFail(i) ==
  /\ sess[i].stage = "spawn"
  /\ \/ sess[i].mode = "process" /\ "spawnfail" \in Ops
     \/ sess[i].mode # "process" /\ "drop" \in Ops
  /\ sess' = [sess EXCEPT ![i] = [@ EXCEPT !.child = "late",
                !.stage = IF sess[i].mode = "process" THEN "undo" ELSE "done"]]
  /\ UNCHANGED <<limit, cnt>>
\* Its cmd.Start goes on, and nobody watches what it starts.
LateChild(i) ==
  /\ sess[i].child = "late"
  /\ sess' = [sess EXCEPT ![i] = [@ EXCEPT !.child = "came", !.work = TRUE]]
  /\ UNCHANGED <<limit, cnt>>

Spawned(i) ==
  /\ sess[i].stage = "spawn"
  /\ sess' = [sess EXCEPT ![i] = [@ EXCEPT !.stage = "run", !.work = TRUE]]
  /\ UNCHANGED <<limit, cnt>>

WorkEnds(i) ==
  /\ sess[i].work
  /\ sess' = [sess EXCEPT ![i] = [@ EXCEPT !.work = FALSE,
                !.stage = IF sess[i].stage = "run" THEN "exit" ELSE sess[i].stage]]
  /\ UNCHANGED <<limit, cnt>>

\* Mutant of GiveUp: the child is not killed.
GiveUp_spares(i) ==
  /\ "giveup" \in Ops
  /\ sess[i].stage = "run"
  /\ sess' = [sess EXCEPT ![i].stage = "exit"]
  /\ UNCHANGED <<limit, cnt>>
\* A timeout (children only) or ShutdownReq.  A child is killed; what computes
\* within the daemon goes on.
GiveUp(i) ==
  /\ "giveup" \in Ops
  /\ sess[i].stage = "run"
  /\ sess' = [sess EXCEPT ![i] = [@ EXCEPT !.stage = "exit",
                !.work = sess[i].mode = "inproc"]]
  /\ UNCHANGED <<limit, cnt>>

\* The task whose slot is given back: of the call for a failed start and for
\* the in-process PC1 and PC2, of the row for everything else.
GivesBack(i) ==
  IF sess[i].stage = "undo" \/ (sess[i].mode = "inproc" /\ sess[i].task \in {"PC1", "PC2"})
  THEN sess[i].task ELSE sess[i].row

\* DecrementTask's tests, made without the lock.
TestSlot(i) ==
  /\ sess[i].stage \in {"exit", "undo"}
  /\ LET t == GivesBack(i) IN
     sess' = [sess EXCEPT ![i] =
       IF t \notin Tasks THEN [@ EXCEPT !.stage = "done"]
       ELSE IF limit[t] = -1 \/ cnt[t] = 0 THEN [@ EXCEPT !.stage = "done"]
       ELSE [@ EXCEPT !.stage = "dec", !.row = t]]
  /\ UNCHANGED <<limit, cnt>>

\* Mutants of TakeBack: a child's slot is lost; it is given back twice.
TakeBack_lost(i) ==
  /\ sess[i].stage = "dec"
  /\ cnt' = IF sess[i].mode = "process" THEN cnt ELSE [cnt EXCEPT ![sess[i].row] = @ - 1]
  /\ sess' = [sess EXCEPT ![i].stage = "done"]
  /\ UNCHANGED limit
TakeBack_again(i) ==
  /\ sess[i].stage = "dec"
  /\ cnt' = [cnt EXCEPT ![sess[i].row] = @ - 1]
  /\ sess' = [sess EXCEPT ![i].stage = IF sess[i].mode = "process" THEN "exit" ELSE "done",
                          ![i].mode = "bystate"]
  /\ UNCHANGED limit
\* The rest of DecrementTask, under the lock.
TakeBack(i) ==
  /\ sess[i].stage = "dec"
  /\ cnt' = [cnt EXCEPT ![sess[i].row] = @ - 1]
  /\ sess' = [sess EXCEPT ![i].stage = "done"]
  /\ UNCHANGED limit

MotifyTaskLimit(t, c) ==
  /\ "motify" \in Ops
  /\ limit' = [limit EXCEPT ![t] = c]
  /\ UNCHANGED <<cnt, sess>>

-------------------------------------------------------------------------------
\* What a session does by itself once it has started.
Step(i) ==
  \/ ClaimFail(i)
  \/ \E r \in Tasks \cup {"other"} : ClaimOk(i, r)
  \/ SpawnFail(i) \/ Spawned(i)
  \/ WorkEnds(i) \/ GiveUp(i)
  \/ TestSlot(i) \/ TakeBack(i)

Next ==
  \/ \E i \in Sessions, t \in Tasks :
       \/ \E m \in {"process", "inproc", "bystate"} : Enter(i, t, m)
       \/ Restart(i, t)
  \/ \E i \in Sessions : Step(i) \/ LateChild(i)
  \/ \E t \in Tasks, c \in Limits : MotifyTaskLimit(t, c)

Spec == Init /\ [][Next]_vars

\* Calls to the miner return, processes come up or fail to, and what is
\* computed comes to an end; nobody has to start a task.
FairSpec == Spec /\ \A i \in Sessions : WF_vars(Step(i))

-------------------------------------------------------------------------------
Over == {"idle", "done"}
Holders(t) == {i \in Sessions : sess[i].stage \notin Over /\ sess[i].counted /\ sess[i].task = t}

(***************************************************************************)
(* The counter is exact: it counts the sessions that IncrementTask let in  *)
(* and that have not given their slot back, whatever the interleaving of   *)
(* the unlocked tests.  (Without restarts, claims of rows at other tasks,  *)
(* errors that RetryTaskPIDByState drops, and changes to or from -1.)      *)
(***************************************************************************)
SlotsExact == \A t \in Tasks : cnt[t] = Cardinality(Holders(t))

\* What makes SlotsExact inductive: a session under way has a slot of its row's task,
\* unless that has no limit.
SlotsOwned ==
  \A i \in Sessions : sess[i].stage \notin Over =>
    /\ sess[i].row = sess[i].task /\ sess[i].mode # "restart"
    /\ sess[i].counted = (limit[sess[i].task] # -1)
    /\ sess[i].stage = "dec" => sess[i].counted

(***************************************************************************)
(* A limit that is lowered takes effect for the sessions to come: a        *)
(* session is let in only if the others leave it a slot.                   *)
(***************************************************************************)
AdmittedBelowLimit ==
  [][\A t \in Tasks, i \in Sessions :
       sess[i].stage = "idle" /\ sess'[i].stage = "claim" /\ sess'[i].counted
         /\ sess'[i].task = t
       => Cardinality(Holders(t)) < limit[t]]_vars

(***************************************************************************)
(* Restarts, claims of rows at other tasks and dropped errors unbalance the *)
(* counter, but each by one: it never counts less than the sessions that   *)
(* hold a slot, but for those that gave back a slot they did not have, and *)
(* never more than the limit.                                              *)
(***************************************************************************)
Strays(t) == {i \in Sessions :
  /\ sess[i].stage = "done" /\ sess[i].row = t
  /\ sess[i].mode = "restart" \/ sess[i].row # sess[i].task}
DriftExplained ==
  \A t \in Tasks :
    /\ cnt[t] >= Cardinality(Holders(t)) - Cardinality(Strays(t))
    /\ limit[t] # -1 => cnt[t] <= limit[t]

(***************************************************************************)
(* A task at its limit is not blocked for good: a slot comes free again,   *)
(* unless the limit itself is lowered to nothing.                          *)
(***************************************************************************)
FullIsTemporary ==
  \A t \in Tasks :
    limit[t] > 0 /\ cnt[t] >= limit[t] ~> cnt[t] < limit[t] \/ limit[t] <= 0

(***************************************************************************)
(* More of a task compute than its limit allows (the ones that the         *)
(* operator forces left aside), but no more than slots were given back by  *)
(* those that had none, and than compute with nobody to watch them: the    *)
(* children that came up after the wait for their pid, and what was shut   *)
(* down within the daemon and goes on.                                     *)
(***************************************************************************)
Parallel(t) == {i \in Sessions : sess[i].work /\ sess[i].task = t /\ sess[i].mode # "restart"}
Adrift(t) == {i \in Parallel(t) : \/ sess[i].child = "came"
                                  \/ sess[i].mode = "inproc" /\ sess[i].stage # "run"}
ParallelExplained ==
  \A t \in Tasks :
    limit[t] # -1 =>
      Cardinality(Parallel(t)) <= limit[t] + Cardinality(Strays(t)) + Cardinality(Adrift(t))
===============================================================================
