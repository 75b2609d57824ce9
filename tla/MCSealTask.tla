------------------------------ MODULE MCSealTask ------------------------------
(* SealTask instantiated for TLC: worker ids as model values, and the      *)
(* constraints that keep the runs small.                                   *)
EXTENDS SealTask, TLC
CONSTANTS w1, w2,
  StartAt     \* the tasks at which the sectors of SpecFrom start

\* Workers are interchangeable: nothing orders or names them.
WorkerSymmetry == Permutations(Workers)

\* Bound: handleProccess notices the exit of a child before the exits of more
\* than one of a sector's children are waiting to be noticed.
FewLaggards ==
  \A s \in Sectors :
    Cardinality({n \in Sessions : job[s][n].parent = "watch" /\ job[s][n].child = "ended"}) <= 1

(***************************************************************************)
(* The states that fault-free processing leaves when every sector has been *)
(* brought to a task of StartAt, the later sectors to the later tasks, by  *)
(* worker w1: session k ran the k-th task.  Runs about the later tasks     *)
(* start here instead of at PC1.                                           *)
(***************************************************************************)
Pipeline == <<"PC1", "PC2", "PRECOMMIT", "SEED", "C1", "C2", "COMMIT">>
Before(k) == [c \in Columns |-> IF Rank(c) < k THEN Rank(c) ELSE 0]
PastJob(k) ==
  LET t == Pipeline[k] IN
  IF t \in WorkerTasks
  THEN [by |-> w1, how |-> "auto", asked |-> t, task |-> t, child |-> "ended",
        parent |-> "gone", ctype |-> t, in |-> Before(k)]
  ELSE [by |-> NoWorker, how |-> "auto", asked |-> t, task |-> t, child |-> "ended",
        parent |-> "none", ctype |-> "absent", in |-> Before(k)]
InitFrom ==
  \E start \in [Sectors -> StartAt] :
    LET k == [s \in Sectors |-> Rank(start[s]) - 1] IN
    /\ StartAt = {start[s] : s \in Sectors}
    /\ \A s, o \in Sectors : s < o => k[s] <= k[o]
    /\ row = [s \in Sectors |-> [type |-> start[s], state |-> "INIT",
                worker |-> IF k[s] = 0 THEN NoWorker ELSE w1, req |-> k[s],
                out |-> Before(k[s] + 1)]]
    /\ log = [s \in Sectors |-> [n \in Sessions |->
                IF n <= k[s] THEN [type |-> Pipeline[n], state |-> "SUCCESS", err |-> "none"]
                ELSE NoLog]]
    /\ post = [s \in Sectors |-> IF k[s] < 3 THEN "none" ELSE "INIT"]
    /\ used = k
    /\ job = [s \in Sectors |-> [n \in Sessions |-> IF n <= k[s] THEN PastJob(n) ELSE NoJob]]
    /\ queries = {} /\ mail = {} /\ handlers = {} /\ posting = {} /\ resets = {} /\ mpool = {}
    /\ reqSession = [s \in Sectors |-> {}]
    /\ landed = [s \in Sectors |-> [t \in {"PRECOMMIT", "COMMIT"} |->
                   IF t = "PRECOMMIT" /\ k[s] >= 3 THEN 3 ELSE 0]]
    /\ mishaps = [s \in Sectors |-> {}]
    /\ faults = 0
SpecFrom == InitFrom /\ [][Next]_vars
FairSpecFrom == SpecFrom /\ WF_vars(Progress)
===============================================================================
