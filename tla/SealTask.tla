------------------------------- MODULE SealTask -------------------------------
(***************************************************************************)
(* The sealing task table of the miner daemon (db_task_infos,              *)
(* db_task_logs, db_post_infos) and the processes that read and write it:  *)
(* the workers' polling loops and child processes, the miner's own         *)
(* PRECOMMIT / SEED / COMMIT goroutines, the failure handlers, the         *)
(* operator's restarts and resets, and the crashes between their steps.    *)
(*                                                                         *)
(* A row holds the CURRENT task of a sector.  A claim (QueryTask) writes a *)
(* fresh session id in the row; a result is accepted (RecieveTaskResult)   *)
(* only if the row is RUNING the reported task under the reported session. *)
(* Session ids are uuids; every query of the code that uses one also names *)
(* the sector, so they are numbered per sector here, 0 being "".           *)
(***************************************************************************)
EXTENDS Naturals, FiniteSets

CONSTANTS
  Sectors,      \* sector numbers of one actor, in the order of their row ids
  Workers,      \* worker ids
  NoWorker,     \* the empty worker id, which the miner's own claims carry
  MaxSession,   \* bound: sessions drawn for one sector
  MaxFaults,    \* bound: faults and operator calls in one behaviour
  RetryCnt,     \* DbTaskFailed.retry_cnt of the retry rules
  Ops           \* the faults and operator calls of this instance

AllOps == {"trigger", "restart", "send", "mismatch", "wreset", "mreset",
           "error", "timeout", "shutdown", "die", "lost", "wcrash",
           "mcrash", "dup", "silent", "bystate", "empty", "expire", "drop"}

ASSUME SealTaskAssumption ==
  /\ Sectors \subseteq Nat
  /\ NoWorker \notin Workers
  /\ MaxSession \in Nat
  /\ MaxFaults \in Nat
  /\ RetryCnt \in Nat
  /\ Ops \subseteq AllOps

(* util/mysql.go: task types ("absent" for a sector without a row), states. *)
WorkerTasks == {"PC1", "PC2", "C1", "C2"}
MinerTasks  == {"PRECOMMIT", "SEED", "COMMIT"}
Tasks == WorkerTasks \cup MinerTasks
Types == Tasks \cup {"PROVING", "", "absent"}
States == {"INIT", "RUNING", "SUCCESS", "ERROR", "RETRY"}

\* A Go map: looking up a task it does not hold gives "".
NextTask == [t \in Types |->
  CASE t = "PC1" -> "PC2"      [] t = "PC2" -> "PRECOMMIT"
    [] t = "PRECOMMIT" -> "SEED" [] t = "SEED" -> "C1"
    [] t = "C1" -> "C2"        [] t = "C2" -> "COMMIT"
    [] t = "COMMIT" -> "PROVING" [] OTHER -> ""]

\* What a task is computed from; without it the task fails at once.
Input == [PC2 |-> "PC1", C1 |-> "PC2", C2 |-> "C1"]

\* The columns that hold a task's result, named by the task that fills them.
Columns == {"PC1", "PC2", "SEED", "C1", "C2"}

Sessions == 1..MaxSession
Session0 == 0..MaxSession
NoOut == [c \in Columns |-> 0]
Owners == Workers \cup {NoWorker}

\* The error texts the failure rules tell apart; "none" is a success.
Errs == {"none", "timeout", "allocated", "mpool", "noinfo", "nosector", "other"}

(* db_task_failed: what a rule makes of an error text of a task.           *)
RetryRule(t, e) ==
  \/ t \in WorkerTasks /\ e = "timeout"
  \/ t \in {"PRECOMMIT", "COMMIT"} /\ e = "mpool"
  \/ t = "SEED" /\ e = "noinfo"
NextRule(t, e) ==
  \/ t = "PRECOMMIT" /\ e = "allocated"
  \/ t = "COMMIT" /\ e = "nosector"
RuleState(t) == IF t \in WorkerTasks THEN "RETRY" ELSE "SUCCESS"
NextRuleState(t) == IF t = "COMMIT" THEN "RETRY" ELSE "SUCCESS"

Row == [type : Types, state : States, worker : Owners,
        req : Session0, out : [Columns -> Session0]]
Log == [type : Types, state : States, err : Errs]
Hows == {"auto", "trigger", "restart", "send", "lost"}
Job == [by : Owners, how : Hows, asked : Tasks \cup {""}, task : Types,
        child : {"none", "spawn", "run", "claimed", "stored", "pushed", "ended"},
        parent : {"none", "spawn", "watch", "gone"},
        ctype : Types, in : [Columns -> Session0]]
Query == [task : Tasks, by : Owners, how : Hows \cup {"bystate"}, sector : Sectors,
          session : Session0, snap : Row]
\* out is what a success writes in its column: its session's result, or nothing.
Report == [sector : Sectors, session : Sessions, type : Types, err : Errs,
           out : Session0]
Handler == [sector : Sectors, session : Sessions, n : {1, 2},
            type : Types, err : Errs,
            todo : {"read", "retry", "next"}]
Reset == [by : Owners, sector : Sectors, session : Session0,
          type : Types, how : {"wreset", "mreset", "update"}]
         \cup [by : Owners, sector : Sectors, session : {0},
               type : Tasks, how : {"bystate"}]
Message == [sector : Sectors, session : Sessions, type : {"PRECOMMIT", "COMMIT"}]
\* An empty success of a worker's task, a message dropped, a refusal, an expiry.
Mishaps == WorkerTasks \cup {"PRECOMMIT", "COMMIT", "allocated", "nosector", "expired"}

NoRow == [type |-> "absent", state |-> "INIT", worker |-> NoWorker, req |-> 0,
          out |-> NoOut]
NoLog == [type |-> "absent", state |-> "INIT", err |-> "none"]
NoJob == [by |-> NoWorker, how |-> "auto", asked |-> "", task |-> "absent",
          child |-> "none", parent |-> "none", ctype |-> "absent", in |-> NoOut]

VARIABLES
  row,        \* db_task_infos: the row of each sector
  log,        \* db_task_logs: one entry per session
  post,       \* db_post_infos: the state of each sector's entry
  used,       \* number of sessions drawn for each sector
  queries,    \* QueryTask calls between their SELECT and their UPDATE
  job,        \* what runs on behalf of each session
  mail,       \* RecieveTaskResult calls on their way to the miner
  handlers,   \* TaskFailedHandle goroutines
  posting,    \* RegisterPoSt and UpdatePoStInfo goroutines
  reqSession, \* Miner.ReqSession
  resets,     \* calls of the operator between their two steps
  mpool,      \* messages pushed to the chain, not executed yet
  landed,     \* the session whose message the chain executed
  mishaps,    \* what has happened to the sector that no table shows
  faults      \* faults and operator calls so far

tableVars == <<row, log, post>>
callVars  == <<used, queries, mail>>
minerVars == <<handlers, posting, reqSession, resets>>
chainVars == <<mpool, landed, mishaps>>
vars == <<row, log, post, used, queries, mail, job, handlers, posting,
          reqSession, resets, mpool, landed, mishaps, faults>>

TypeOK ==
  /\ row \in [Sectors -> Row]
  /\ log \in [Sectors -> [Sessions -> Log]]
  /\ post \in [Sectors -> {"none", "INIT", "SUCCESS"}]
  /\ used \in [Sectors -> Session0]
  /\ queries \subseteq Query
  /\ job \in [Sectors -> [Sessions -> Job]]
  /\ mail \subseteq Report
  /\ handlers \subseteq Handler
  /\ posting \subseteq [sector : Sectors, call : {"RegisterPoSt", "UpdatePoStInfo"}]
  /\ reqSession \in [Sectors -> SUBSET Sessions]
  /\ resets \subseteq Reset
  /\ mpool \subseteq Message
  /\ landed \in [Sectors -> [{"PRECOMMIT", "COMMIT"} -> Session0]]
  /\ mishaps \in [Sectors -> SUBSET Mishaps]
  /\ faults \in 0..MaxFaults

Init ==
  /\ row = [s \in Sectors |-> NoRow]
  /\ log = [s \in Sectors |-> [n \in Sessions |-> NoLog]]
  /\ post = [s \in Sectors |-> "none"]
  /\ used = [s \in Sectors |-> 0]
  /\ queries = {}
  /\ job = [s \in Sectors |-> [n \in Sessions |-> NoJob]]
  /\ mail = {}
  /\ handlers = {}
  /\ posting = {}
  /\ reqSession = [s \in Sectors |-> {}]
  /\ resets = {}
  /\ mpool = {}
  /\ landed = [s \in Sectors |-> [t \in {"PRECOMMIT", "COMMIT"} |-> 0]]
  /\ mishaps = [s \in Sectors |-> {}]
  /\ faults = 0

\* An operator call or a fault of the instance, within the bound.
Spend(op) ==
  /\ op \in Ops
  /\ faults < MaxFaults
  /\ faults' = faults + 1

-------------------------------------------------------------------------------
(* Miner.AddTask: a new row.  The call would take any task and any sector, *)
(* one with a row too; it is made once for a sector, for PC1.              *)
AddTask(s) ==
  /\ row[s].type = "absent"
  /\ row' = [row EXCEPT ![s].type = "PC1"]
  /\ UNCHANGED <<log, post, callVars, job, minerVars, chainVars, faults>>

(***************************************************************************)
(* Miner.QueryTask.  The mutex of the requested task is held from the      *)
(* SELECT to the COMMIT; everything that writes rows without that mutex    *)
(* can run in between.                                                     *)
(***************************************************************************)
LockFree(t) == \A q \in queries : q.task # t

\* Mutants of Claimable: any state; C1 without its worker; any task.
Claimable_running(t, w, s) ==
  row[s].type = t /\ (t \in {"PC2", "C1"} => row[s].worker = w)
Claimable_C1anywhere(t, w, s) ==
  row[s].type = t /\ row[s].state = "INIT" /\ (t = "PC2" => row[s].worker = w)
Claimable_anyTask(t, w, s) ==
  row[s].state = "INIT" /\ (t \in {"PC2", "C1"} => row[s].worker = w)
\* The rows a poll (sectorNum = -1) may select, of which it takes the first.
Claimable(t, w, s) ==
  /\ row[s].type = t
  /\ row[s].state = "INIT"
  /\ t \in {"PC2", "C1"} => row[s].worker = w

\* With a sector number the SELECT looks at nothing but the sector.
Selected(t, w, s, how) ==
  IF how = "auto"
  THEN /\ Claimable(t, w, s)
       /\ \A o \in Sectors : Claimable(t, w, o) => s <= o
  ELSE /\ row[s].type # "absent"
       /\ "mismatch" \in Ops \/ row[s].type = t

QueryRead(t, w, s, how) ==
  /\ LockFree(t)
  /\ Selected(t, w, s, how)
  /\ used[s] < MaxSession
  /\ used' = [used EXCEPT ![s] = @ + 1]
  /\ queries' = queries \cup
       {[task |-> t, by |-> w, how |-> how, sector |-> s,
         session |-> used[s] + 1, snap |-> row[s]]}
  /\ UNCHANGED <<tableVars, mail, job, handlers, posting, reqSession, chainVars>>

\* Where(taskInfo): the row still has every non-blank column of the snapshot.
Unchanged(snap, r) ==
  /\ r.type = snap.type
  /\ r.state = snap.state
  /\ snap.req # 0 => r.req = snap.req
  /\ snap.worker # NoWorker => r.worker = snap.worker
  /\ \A c \in Columns : snap.out[c] # 0 => r.out[c] = snap.out[c]

\* What the caller starts for the claim it got; a lost answer starts nothing.
Started(q) ==
  [by |-> q.by, how |-> q.how, asked |-> q.task, task |-> q.snap.type,
   child |-> IF q.how = "lost" THEN "ended"
             ELSE IF q.by = NoWorker THEN "claimed"
             ELSE IF q.task \in WorkerTasks THEN "spawn" ELSE "ended",
   parent |-> IF q.by = NoWorker THEN "none"
              ELSE IF q.how # "lost" /\ q.task \in WorkerTasks THEN "spawn"
              ELSE "gone",
   ctype |-> "absent",
   in |-> IF q.by = NoWorker THEN q.snap.out ELSE NoOut]

Claimed(q) ==
  IF Unchanged(q.snap, row[q.sector])
  THEN [row EXCEPT ![q.sector] =
         [@ EXCEPT !.state = "RUNING", !.req = q.session,
                   !.worker = IF q.by # NoWorker THEN q.by ELSE q.snap.worker]]
  ELSE row

\* The UPDATE may match no row: nobody looks at RowsAffected, and the claim
\* is answered all the same.  RetryTaskPID of a miner's task only goes on to
\* write the task it read back with state INIT.
QueryWrite(q) ==
  /\ q \in queries /\ q.how # "bystate" /\ q.session # 0
  /\ queries' = queries \ {q}
  /\ row' = Claimed(q)
  /\ log' = [log EXCEPT ![q.sector][q.session] =
               [type |-> q.task, state |-> "RUNING", err |-> "none"]]
  /\ job' = [job EXCEPT ![q.sector][q.session] = Started(q)]
  /\ resets' = IF q.how = "restart" /\ q.task \in MinerTasks
               THEN resets \cup {[by |-> q.by, sector |-> q.sector, session |-> 0,
                                  type |-> q.snap.type, how |-> "update"]}
               ELSE resets
  /\ UNCHANGED <<post, used, mail, handlers, posting, reqSession, chainVars, faults>>

\* The callers: the two polling loops, and the operator's commands.
Poll(t, w, s) ==
  /\ (t \in WorkerTasks) <=> (w # NoWorker)
  /\ QueryRead(t, w, s, "auto")
  /\ UNCHANGED <<resets, faults>>
Trigger(t, w, s) ==
  /\ t \in WorkerTasks
  /\ Spend("trigger")
  /\ QueryRead(t, w, s, "trigger")
  /\ UNCHANGED resets
Restart(t, w, s) ==
  /\ Spend("restart")
  /\ QueryRead(t, w, s, "restart")
  /\ UNCHANGED resets
Send(t, s) ==
  /\ t \in MinerTasks
  /\ Spend("send")
  /\ QueryRead(t, NoWorker, s, "send")
  /\ UNCHANGED resets

(***************************************************************************)
(* RetryTaskPIDByState names no sector and no session: its claim is of the *)
(* sector numbered 0, under the session "" (and enters the log as such,    *)
(* where no report finds it).  RetryTaskPID then claims the sector again.  *)
(***************************************************************************)
ByState(t, w, s) ==
  /\ s = 0
  /\ Spend("bystate")
  /\ LockFree(t)
  /\ Selected(t, w, s, "bystate")
  /\ queries' = queries \cup {[task |-> t, by |-> w, how |-> "bystate", sector |-> s,
                               session |-> 0, snap |-> row[s]]}
  /\ UNCHANGED <<tableVars, used, mail, job, minerVars, chainVars>>
ByStateWrite(q) ==
  /\ q \in queries /\ q.session = 0
  /\ queries' = queries \ {q}
  /\ row' = Claimed(q)
  /\ resets' = IF q.how = "lost" THEN resets
               ELSE resets \cup {[by |-> q.by, sector |-> q.sector, session |-> 0,
                                  type |-> q.task, how |-> "bystate"]}
  /\ UNCHANGED <<log, post, used, mail, job, handlers, posting, reqSession, chainVars, faults>>
ByStateRetry(r) ==
  /\ r \in resets /\ r.how = "bystate"
  /\ resets' = resets \ {r}
  /\ QueryRead(r.type, r.by, r.sector, "restart")
  /\ UNCHANGED faults

\* The miner claims the row but its answer does not reach the worker.
AnswerLost(q) ==
  /\ q \in queries
  /\ q.by # NoWorker /\ q.how # "lost"
  /\ Spend("lost")
  /\ queries' = (queries \ {q}) \cup {[q EXCEPT !.how = "lost"]}
  /\ UNCHANGED <<tableVars, used, mail, job, minerVars, chainVars>>

-------------------------------------------------------------------------------
(***************************************************************************)
(* A worker's session: ChildProcess spawns `worker taskrun` and watches    *)
(* it; the child reads the row again, runs what the row says and reports   *)
(* under the session it was given.                                         *)
(***************************************************************************)
Post(s, n, t, e) == [sector |-> s, session |-> n, type |-> t, err |-> e, out |-> n]

\* TaskCloseChnl[session] = stopchnl: the session becomes known to the worker.
Watch(s, n) ==
  /\ job[s][n].parent = "spawn"
  /\ job' = [job EXCEPT ![s][n].parent = "watch"]
  /\ UNCHANGED <<tableVars, callVars, minerVars, chainVars, faults>>

\* The process does not come up.  RetryTaskPID drops the error of its goroutine.
SpawnFail(s, n) ==
  /\ job[s][n].parent = "spawn" /\ job[s][n].child = "spawn"
  /\ Spend("error")
  /\ job' = [job EXCEPT ![s][n].parent = "gone", ![s][n].child = "ended"]
  /\ mail' = IF job[s][n].how = "restart" THEN mail
             ELSE mail \cup {Post(s, n, job[s][n].asked, "other")}
  /\ UNCHANGED <<tableVars, used, queries, minerVars, chainVars>>

\* taskRunCmd: QueryOnly by sector; the task run is the one the row names now.
ChildRead(s, n) ==
  /\ job[s][n].child = "spawn"
  /\ job' = [job EXCEPT ![s][n] = [@ EXCEPT !.child = "run",
                                    !.ctype = row[s].type, !.in = row[s].out]]
  /\ UNCHANGED <<tableVars, callVars, minerVars, chainVars, faults>>

\* TaskRun: a type its switch does not know is done at once, without error.
InputMissing(j) == j.ctype \in DOMAIN Input /\ j.in[Input[j.ctype]] = 0
ChildOk(s, n) ==
  /\ job[s][n].child = "run" /\ ~InputMissing(job[s][n])
  /\ job' = [job EXCEPT ![s][n].child = "ended"]
  /\ mail' = mail \cup {Post(s, n, job[s][n].ctype, "none")}
  /\ UNCHANGED <<tableVars, used, queries, minerVars, chainVars, faults>>

ChildError(s, n) ==
  /\ job[s][n].child = "run" /\ job[s][n].ctype \in WorkerTasks
  /\ Spend("error") \/ (InputMissing(job[s][n]) /\ UNCHANGED faults)
  /\ job' = [job EXCEPT ![s][n].child = "ended"]
  /\ mail' = mail \cup {Post(s, n, job[s][n].ctype, "other")}
  /\ UNCHANGED <<tableVars, used, queries, minerVars, chainVars>>

\* A panic whose value is no error, or an in-process PC1 that failed behind a
\* shadowed err: a success is reported that brings no result.
ChildEmpty(s, n) ==
  /\ job[s][n].child = "run" /\ job[s][n].ctype \in WorkerTasks
  /\ ~InputMissing(job[s][n])
  /\ Spend("empty")
  /\ job' = [job EXCEPT ![s][n].child = "ended"]
  /\ mail' = mail \cup {[Post(s, n, job[s][n].ctype, "none") EXCEPT !.out = 0]}
  /\ mishaps' = [mishaps EXCEPT ![s] = @ \cup {job[s][n].ctype}]
  /\ UNCHANGED <<tableVars, used, queries, minerVars, mpool, landed>>

\* The child is killed from outside, or fails before TaskRun: no report.
ChildDie(s, n) ==
  /\ job[s][n].child \in {"spawn", "run"}
  /\ Spend("die")
  /\ job' = [job EXCEPT ![s][n].child = "ended"]
  /\ UNCHANGED <<tableVars, callVars, minerVars, chainVars>>

\* handleProccess sees the child's exit: nothing to report.
ParentExit(s, n) ==
  /\ job[s][n].parent = "watch" /\ job[s][n].child = "ended"
  /\ job' = [job EXCEPT ![s][n].parent = "gone"]
  /\ UNCHANGED <<tableVars, callVars, minerVars, chainVars, faults>>

\* handleProccess gives up first: it kills the child, whatever that has sent
\* already, and reports an error for the task of the claim.
GiveUp(s, n, e) ==
  /\ job[s][n].parent = "watch"
  /\ job' = [job EXCEPT ![s][n].parent = "gone", ![s][n].child = "ended"]
  /\ mail' = mail \cup {Post(s, n, job[s][n].task, e)}
  /\ UNCHANGED <<tableVars, used, queries, minerVars, chainVars>>
Timeout(s, n) == Spend("timeout") /\ GiveUp(s, n, "timeout")
Shutdown(s, n) == Spend("shutdown") /\ GiveUp(s, n, "other")

\* A session without its parent: what was not spawned yet never is.
Orphaned(j) ==
  IF j.parent = "spawn" /\ j.child = "spawn"
  THEN [j EXCEPT !.parent = "gone", !.child = "ended"]
  ELSE [j EXCEPT !.parent = "gone"]

\* The worker process dies.  Its children live on; its claims in flight are
\* carried out by the miner for nobody.
WorkerCrash(w) ==
  /\ Spend("wcrash")
  /\ job' = [s \in Sectors |-> [n \in Sessions |->
       IF job[s][n].by = w /\ job[s][n].parent \in {"spawn", "watch"}
       THEN Orphaned(job[s][n]) ELSE job[s][n]]]
  /\ queries' = {IF q.by = w THEN [q EXCEPT !.how = "lost"] ELSE q : q \in queries}
  /\ resets' = {r \in resets : r.by # w}
  /\ UNCHANGED <<tableVars, used, mail, handlers, posting, reqSession, chainVars>>

-------------------------------------------------------------------------------
(***************************************************************************)
(* The miner's own sessions: GetSeedRand, SendPreCommit(ByPrivatKey) and   *)
(* SendCommit(ByPrivatKey), with the part of the chain they depend on.     *)
(*                                                                         *)
(* Of the chain it is assumed that it executes a message once, or never    *)
(* if the pool drops it; that a pre-commit is there from its execution to  *)
(* that of the proof or to its expiry, and its number taken for good; that *)
(* a message is refused as "allocated", or for want of a pre-commit, only  *)
(* if this is so once the messages of the pool are executed (gas is        *)
(* estimated on the pending state) or was so before; and that no block     *)
(* with a message of a sector is reverted.                                 *)
(***************************************************************************)
PreCommitOnChain(s) ==
  /\ landed[s]["PRECOMMIT"] # 0 /\ landed[s]["COMMIT"] = 0
  /\ "expired" \notin mishaps[s]
Pending(s, t) == \E m \in mpool : m.sector = s /\ m.type = t

MinerRuns(s, n, c) == job[s][n].by = NoWorker /\ job[s][n].child = c

\* ReqSession.Store: at once for the senders, for the seed only after
\* StateSectorPreCommitInfo has answered.
MinerStore(s, n) ==
  /\ MinerRuns(s, n, "claimed")
  /\ job[s][n].asked = "SEED" => PreCommitOnChain(s)
  /\ job' = [job EXCEPT ![s][n].child = "stored"]
  /\ reqSession' = [reqSession EXCEPT ![s] = @ \cup {n}]
  /\ UNCHANGED <<tableVars, callVars, handlers, posting, resets, chainVars, faults>>

\* The type a miner session reports: the senders their own, the seed the row's.
ReportType(j) == IF j.asked = "SEED" THEN j.task ELSE j.asked

MinerEnds(s, n, e) ==
  /\ job' = [job EXCEPT ![s][n].child = "ended"]
  /\ mail' = mail \cup {Post(s, n, ReportType(job[s][n]), e)}
  /\ UNCHANGED <<tableVars, used, queries, minerVars>>

\* A row without a commitment (CommR) makes no PRECOMMIT message.
Unsendable(j) == j.asked = "PRECOMMIT" /\ j.in["PC2"] = 0

\* Chain calls fail before a message is pushed.
MinerFail(s, n, e) ==
  /\ \/ MinerRuns(s, n, "stored")
     \/ MinerRuns(s, n, "claimed") /\ job[s][n].asked = "SEED"
  /\ \/ e = "other" /\ (Spend("error") \/ (Unsendable(job[s][n]) /\ UNCHANGED faults))
     \/ e = "mpool" /\ job[s][n].asked \in {"PRECOMMIT", "COMMIT"} /\ Spend("error")
     \/ e = "noinfo" /\ job[s][n].asked = "SEED" /\ ~PreCommitOnChain(s) /\ Spend("error")
  /\ MinerEnds(s, n, e)
  /\ UNCHANGED chainVars

\* The message is refused when its gas is estimated: the sector's number is
\* taken, or its pre-commit is not there; all that counts is the error's text.
MinerRefused(s, n, e) ==
  /\ MinerRuns(s, n, "stored") /\ ~Unsendable(job[s][n])
  /\ \/ /\ e = "allocated" /\ job[s][n].asked = "PRECOMMIT"
        /\ landed[s]["PRECOMMIT"] # 0 \/ Pending(s, "PRECOMMIT")
     \/ /\ e = "nosector" /\ job[s][n].asked = "COMMIT"
        /\ ~PreCommitOnChain(s) \/ Pending(s, "COMMIT")
  /\ Spend("error")
  /\ MinerEnds(s, n, e)
  /\ mishaps' = [mishaps EXCEPT ![s] = @ \cup {e}]
  /\ UNCHANGED <<mpool, landed>>

\* SendCommit returns without a report when ChainHead fails.
MinerSilent(s, n) ==
  /\ MinerRuns(s, n, "claimed") /\ job[s][n].asked = "COMMIT"
  /\ Spend("silent")
  /\ job' = [job EXCEPT ![s][n].child = "ended"]
  /\ UNCHANGED <<tableVars, callVars, minerVars, chainVars>>

SeedDone(s, n) ==
  /\ MinerRuns(s, n, "stored") /\ job[s][n].asked = "SEED"
  /\ MinerEnds(s, n, "none")
  /\ UNCHANGED <<chainVars, faults>>

MinerPush(s, n) ==
  /\ MinerRuns(s, n, "stored") /\ job[s][n].asked \in {"PRECOMMIT", "COMMIT"}
  /\ ~Unsendable(job[s][n])
  /\ job' = [job EXCEPT ![s][n].child = "pushed"]
  /\ mpool' = mpool \cup {[sector |-> s, session |-> n, type |-> job[s][n].asked]}
  /\ UNCHANGED <<tableVars, callVars, minerVars, landed, mishaps, faults>>

\* The chain executes a message, whether or not its sender still waits.
ChainExec(m) ==
  /\ m \in mpool
  /\ mpool' = mpool \ {m}
  /\ landed' = IF \/ m.type = "PRECOMMIT" /\ landed[m.sector]["PRECOMMIT"] = 0
                  \/ m.type = "COMMIT" /\ PreCommitOnChain(m.sector)
               THEN [landed EXCEPT ![m.sector][m.type] = m.session]
               ELSE landed
  /\ UNCHANGED <<tableVars, callVars, job, minerVars, mishaps, faults>>

\* The pool drops a message (its nonce was used, its price outbid), or it is
\* executed and fails for a reason of its own.
ChainDrop(m) ==
  /\ m \in mpool
  /\ Spend("drop")
  /\ mpool' = mpool \ {m}
  /\ mishaps' = [mishaps EXCEPT ![m.sector] = @ \cup {m.type}]
  /\ UNCHANGED <<tableVars, callVars, job, minerVars, landed>>

\* No proof came in time: the chain forgets the pre-commit, not its number.
ChainExpire(s) ==
  /\ PreCommitOnChain(s)
  /\ Spend("expire")
  /\ mishaps' = [mishaps EXCEPT ![s] = @ \cup {"expired"}]
  /\ UNCHANGED <<tableVars, callVars, job, minerVars, mpool, landed>>

\* Mutant of ReceiptOk: the push is taken for the receipt.
ReceiptOk_unseen(s, n) ==
  /\ MinerRuns(s, n, "pushed")
  /\ MinerEnds(s, n, "none")
  /\ UNCHANGED <<chainVars, faults>>
\* The callback with the receipt; the wait itself may fail while the message
\* lands.  (SendCommit's own callback panics here, which is a MinerCrash; its
\* ByPrivatKey twin, which the miner's loop calls, does not.)
ReceiptOk(s, n) ==
  /\ MinerRuns(s, n, "pushed")
  /\ landed[s][job[s][n].asked] = n
  /\ MinerEnds(s, n, "none")
  /\ UNCHANGED <<chainVars, faults>>
ReceiptBad(s, n) ==
  /\ MinerRuns(s, n, "pushed")
  /\ landed[s][job[s][n].asked] # n
  /\ \A m \in mpool : ~(m.sector = s /\ m.session = n)
  /\ MinerEnds(s, n, "other")
  /\ UNCHANGED <<chainVars, faults>>
ReceiptLost(s, n) ==
  /\ MinerRuns(s, n, "pushed")
  /\ Spend("error")
  /\ MinerEnds(s, n, "other")
  /\ UNCHANGED chainVars

\* The miner process dies: transactions roll back, goroutines and ReqSession
\* are gone; tables, workers and the chain stay.
MinerCrash ==
  /\ Spend("mcrash")
  /\ job' = [s \in Sectors |-> [n \in Sessions |->
       IF job[s][n].by = NoWorker /\ job[s][n].child # "none"
       THEN [job[s][n] EXCEPT !.child = "ended"] ELSE job[s][n]]]
  /\ mail' = {r \in mail : job[r.sector][r.session].by # NoWorker}
  /\ resets' = {r \in resets : r.by # NoWorker}
  /\ queries' = {} /\ handlers' = {} /\ posting' = {}
  /\ reqSession' = [s \in Sectors |-> {}]
  /\ UNCHANGED <<tableVars, used, chainVars>>

-------------------------------------------------------------------------------
(***************************************************************************)
(* Miner.RecieveTaskResult, one transaction.                               *)
(***************************************************************************)
\* Mutants of Owns: by sector only; without the session.
Owns_sector(r) == row[r.sector].type # "absent"
Owns_anySession(r) ==
  row[r.sector].type = r.type /\ row[r.sector].state = "RUNING"
\* The row the transaction writes: RUNING this task under this session.
Owns(r) ==
  /\ row[r.sector].type = r.type
  /\ row[r.sector].state = "RUNING"
  /\ row[r.sector].req = r.session

\* The log entry is looked up by the reported task too.
Logged(r, state) ==
  IF log[r.sector][r.session].type = r.type
  THEN [log EXCEPT ![r.sector][r.session] = [@ EXCEPT !.state = state, !.err = r.err]]
  ELSE log

\* The row once a result is accepted: the next task, and its column written,
\* with nothing if nothing was sent.
Accepted(x, t, n) ==
  [x EXCEPT !.type = NextTask[t], !.state = "INIT",
            !.out = [c \in Columns |-> IF c = t THEN n
                                       ELSE IF c = "C1" /\ t = "COMMIT" THEN 0
                                       ELSE x.out[c]]]

\* Mutants of PostCalls: UpdatePoStInfo never called; called for C1 as well.
PostCalls_registerOnly(r) ==
  IF r.type = "PRECOMMIT" /\ r.err = "none" /\ Owns(r)
  THEN {[sector |-> r.sector, call |-> "RegisterPoSt"]} ELSE {}
PostCalls_afterC1(r) ==
  IF r.type \in {"C1", "COMMIT"}
  THEN {[sector |-> r.sector, call |-> "UpdatePoStInfo"]} ELSE {}
\* UpdatePoStInfo is started for every COMMIT report, whatever it says.
PostCalls(r) ==
  (IF r.type = "COMMIT" THEN {[sector |-> r.sector, call |-> "UpdatePoStInfo"]} ELSE {})
  \cup
  (IF r.type = "PRECOMMIT" /\ r.err = "none" /\ Owns(r)
   THEN {[sector |-> r.sector, call |-> "RegisterPoSt"]} ELSE {})

\* ReqSession.Delete follows the report of a miner's session.
Forget(r) ==
  IF job[r.sector][r.session].by = NoWorker
  THEN [reqSession EXCEPT ![r.sector] = @ \ {r.session}] ELSE reqSession

\* The call takes effect; when its answer is lost the sender calls again.
Delivered(r) ==
  \/ mail' = mail \ {r} /\ UNCHANGED faults
  \/ job[r.sector][r.session].by # NoWorker /\ Spend("dup") /\ UNCHANGED mail

\* A PRECOMMIT result that matches no row rolls everything back.
RecieveResult(r) ==
  /\ r \in mail /\ r.err = "none"
  /\ Delivered(r)
  /\ row' = IF Owns(r)
            THEN [row EXCEPT ![r.sector] = Accepted(@, r.type, r.out)] ELSE row
  /\ log' = IF r.type = "PRECOMMIT" /\ ~Owns(r) THEN log ELSE Logged(r, "SUCCESS")
  /\ posting' = posting \cup PostCalls(r)
  /\ reqSession' = Forget(r)
  /\ UNCHANGED <<post, used, queries, job, handlers, resets, chainVars>>

\* TaskFailedHandle's decision over the error logs of the sector it reads: all
\* with the same text, whatever their task.
Verdict(s, t, e) ==
  LET cnt == Cardinality({n \in Sessions : log[s][n].state = "ERROR" /\ log[s][n].err = e})
  IN (IF RetryRule(t, e) /\ cnt < RetryCnt THEN {"retry"} ELSE {})
     \cup (IF NextRule(t, e) THEN {"next"} ELSE {})

\* Two TaskFailedHandle goroutines per error, one of them started before the
\* commit: it may count the error logs without this one.
RecieveError(r) ==
  /\ r \in mail /\ r.err # "none"
  /\ Delivered(r)
  /\ row' = IF Owns(r) THEN [row EXCEPT ![r.sector].state = "ERROR"] ELSE row
  /\ log' = Logged(r, "ERROR")
  /\ LET h(k, todo) == [sector |-> r.sector, session |-> r.session, n |-> k,
                        type |-> r.type, err |-> r.err, todo |-> todo]
     IN \E todo \in {"read"} \cup Verdict(r.sector, r.type, r.err) :
          handlers' = handlers \cup {h(1, todo), h(2, "read")}
  /\ posting' = posting \cup PostCalls(r)
  /\ reqSession' = Forget(r)
  /\ UNCHANGED <<post, used, queries, job, resets, chainVars>>

-------------------------------------------------------------------------------
(* Miner.TaskFailedHandle: read the logs, then write the row.              *)
HandlerRead(h) ==
  /\ h \in handlers /\ h.todo = "read"
  /\ handlers' = (handlers \ {h}) \cup
       {[h EXCEPT !.todo = v] : v \in Verdict(h.sector, h.type, h.err)}
  /\ UNCHANGED <<tableVars, callVars, job, posting, reqSession, resets, chainVars, faults>>


\* The write names the sector only: neither task nor state nor session.
HandlerWrite(h) ==
  /\ h \in handlers /\ h.todo # "read"
  /\ handlers' = handlers \ {h}
  /\ row' = [row EXCEPT ![h.sector] =
       IF h.todo = "retry" THEN [@ EXCEPT !.state = RuleState(h.type)]
       ELSE [@ EXCEPT !.state = NextRuleState(h.type), !.type = NextTask[h.type]]]
  /\ UNCHANGED <<log, post, callVars, job, posting, reqSession, resets, chainVars, faults>>

(* Miner.RegisterPoSt and Miner.UpdatePoStInfo.                            *)
RegisterPoSt(s) ==
  /\ [sector |-> s, call |-> "RegisterPoSt"] \in posting
  /\ posting' = posting \ {[sector |-> s, call |-> "RegisterPoSt"]}
  /\ post' = [post EXCEPT ![s] = IF @ = "none" THEN "INIT" ELSE @]
  /\ UNCHANGED <<row, log, callVars, job, handlers, reqSession, resets, chainVars, faults>>

UpdatePoStInfo(s) ==
  /\ [sector |-> s, call |-> "UpdatePoStInfo"] \in posting
  /\ posting' = posting \ {[sector |-> s, call |-> "UpdatePoStInfo"]}
  /\ post' = [post EXCEPT ![s] = "SUCCESS"]
  /\ row' = [row EXCEPT ![s].out["C1"] = 0]
  /\ UNCHANGED <<log, callVars, job, handlers, reqSession, resets, chainVars, faults>>

-------------------------------------------------------------------------------
(* Resets: the rows are read first, each is checked and written later.     *)
WorkerResetRead(w, s) ==
  /\ row[s].state = "RUNING" /\ row[s].worker = w
  /\ row[s].req # 0 /\ job[s][row[s].req].by = w
  /\ Spend("wreset")
  /\ resets' = resets \cup {[by |-> w, sector |-> s, session |-> row[s].req,
                             type |-> row[s].type, how |-> "wreset"]}
  /\ UNCHANGED <<tableVars, callVars, job, handlers, posting, reqSession, chainVars>>

MinerResetRead(s) ==
  /\ row[s].type \in MinerTasks /\ row[s].state = "RUNING"
  /\ Spend("mreset")
  /\ resets' = resets \cup {[by |-> NoWorker, sector |-> s, session |-> row[s].req,
                             type |-> row[s].type, how |-> "mreset"]}
  /\ UNCHANGED <<tableVars, callVars, job, handlers, posting, reqSession, chainVars>>

\* The session check each caller makes before it writes.
Aborted(r) ==
  CASE r.how = "wreset" -> job[r.sector][r.session].parent # "watch"
    [] r.how = "mreset" -> r.session \notin reqSession[r.sector]
    [] OTHER -> TRUE

\* Mutant of ResetWrite: PC1 and PC2 swapped.
ResetWrite_swapped(r) ==
  /\ r \in resets /\ r.how # "bystate"
  /\ resets' = resets \ {r}
  /\ \/ ~Aborted(r) /\ UNCHANGED row
     \/ Aborted(r) /\ \E t \in {r.type} \cup
                          (IF r.how = "wreset" /\ r.type = "PC1" THEN {"PC2"} ELSE {}) :
          row' = [row EXCEPT ![r.sector] = [@ EXCEPT !.type = t, !.state = "RETRY"]]
  /\ UNCHANGED <<log, post, callVars, job, handlers, posting, reqSession, chainVars, faults>>

\* Miner.UpdateTask: whatever the row has become, it gets this task and state.
\* A worker sends a PC2 whose tree files exist back to PC1.
ResetWrite(r) ==
  /\ r \in resets /\ r.how # "bystate"
  /\ resets' = resets \ {r}
  /\ \/ ~Aborted(r) /\ UNCHANGED row
     \/ Aborted(r) /\ \E t \in {r.type} \cup
                          (IF r.how = "wreset" /\ r.type = "PC2" THEN {"PC1"} ELSE {}) :
          row' = [row EXCEPT ![r.sector] =
                   [@ EXCEPT !.type = t,
                             !.state = IF r.how = "wreset" THEN "RETRY" ELSE "INIT"]]
  /\ UNCHANGED <<log, post, callVars, job, handlers, posting, reqSession, chainVars, faults>>

-------------------------------------------------------------------------------
\* What the program does by itself.
WorkerStep(s, n) ==
  \/ Watch(s, n) \/ ChildRead(s, n) \/ ChildOk(s, n) \/ ParentExit(s, n)
MinerStep(s, n) ==
  \/ MinerStore(s, n) \/ SeedDone(s, n) \/ MinerPush(s, n)
  \/ ReceiptOk(s, n) \/ ReceiptBad(s, n)
TableStep ==
  \/ \E q \in queries : QueryWrite(q)
  \/ \E r \in mail : RecieveResult(r) \/ RecieveError(r)
  \/ \E h \in handlers : HandlerRead(h) \/ HandlerWrite(h)
  \/ \E s \in Sectors : RegisterPoSt(s) \/ UpdatePoStInfo(s)
  \/ \E q \in queries : ByStateWrite(q)
  \/ \E r \in resets : ResetWrite(r) \/ ByStateRetry(r)

\* What may go wrong, and what an operator may ask for.
SessionFault(s, n) ==
  \/ SpawnFail(s, n) \/ ChildError(s, n) \/ ChildEmpty(s, n) \/ ChildDie(s, n)
  \/ Timeout(s, n) \/ Shutdown(s, n)
  \/ \E e \in Errs : MinerFail(s, n, e) \/ MinerRefused(s, n, e)
  \/ MinerSilent(s, n) \/ ReceiptLost(s, n)
Operator ==
  \E s \in Sectors :
    \/ \E t \in Tasks : Send(t, s)
    \/ \E t \in Tasks, w \in Workers :
         Trigger(t, w, s) \/ Restart(t, w, s) \/ ByState(t, w, s)
    \/ \E w \in Workers : WorkerResetRead(w, s)
    \/ MinerResetRead(s)

Next ==
  \/ \E s \in Sectors : AddTask(s)
  \/ \E t \in Tasks, w \in Owners, s \in Sectors : Poll(t, w, s)
  \/ \E s \in Sectors, n \in Sessions : WorkerStep(s, n)
  \/ \E s \in Sectors, n \in Sessions : MinerStep(s, n)
  \/ TableStep
  \/ \E m \in mpool : ChainExec(m) \/ ChainDrop(m)
  \/ \E s \in Sectors : ChainExpire(s)
  \/ \E s \in Sectors, n \in Sessions : SessionFault(s, n)
  \/ \E q \in queries : AnswerLost(q)
  \/ Operator
  \/ \E w \in Workers : WorkerCrash(w)
  \/ MinerCrash

Spec == Init /\ [][Next]_vars

-------------------------------------------------------------------------------
(* Position of a task in the pipeline; rows absent or garbled come first.  *)
Rank(t) ==
  CASE t = "PC1" -> 1 [] t = "PC2" -> 2 [] t = "PRECOMMIT" -> 3 [] t = "SEED" -> 4
    [] t = "C1" -> 5 [] t = "C2" -> 6 [] t = "COMMIT" -> 7 [] t = "PROVING" -> 8
    [] OTHER -> 0

Live(s) == {n \in Sessions : job[s][n].child = "run"}

(***************************************************************************)
(* No phase is skipped: a row at a task has a result of every phase before *)
(* it, but for a phase a worker has reported a success of and sent nothing *)
(* (miner.go:340 writes that too).  C1's output is apart, a COMMIT report  *)
(* drops it (C2HasItsInput).                                               *)
(***************************************************************************)
OutputsPresent ==
  \A s \in Sectors, c \in Columns \ {"C1"} :
    Rank(row[s].type) > Rank(c) => row[s].out[c] # 0 \/ c \in mishaps[s]

(***************************************************************************)
(* C2 is computed from a C1 output: UpdatePoStInfo, which runs at any time *)
(* after a COMMIT report, clears the column only when C2 is done with it.  *)
(***************************************************************************)
C2HasItsInput ==
  \A s \in Sectors : \A n \in Live(s) :
    job[s][n].ctype = "C2" => job[s][n].in["C1"] # 0 \/ "C1" \in mishaps[s]

(***************************************************************************)
(* The table runs ahead of the chain only where a failure rule took it, by *)
(* the text of a refusal: past PRECOMMIT the sector is pre-committed, or a *)
(* sender was refused for a pre-commit that is still in the pool, or fell  *)
(* out of it; past SEED it has been pre-committed in any case; a PROVING   *)
(* sector has its proof on chain, or a sender was refused for a proof in   *)
(* the pool, or fallen out of it, or because the pre-commit had expired.   *)
(***************************************************************************)
ChainBacked ==
  \A s \in Sectors :
    /\ Rank(row[s].type) > Rank("PRECOMMIT") =>
         \/ landed[s]["PRECOMMIT"] # 0
         \/ /\ "allocated" \in mishaps[s]
            /\ Pending(s, "PRECOMMIT") \/ "PRECOMMIT" \in mishaps[s]
    /\ Rank(row[s].type) > Rank("SEED") => landed[s]["PRECOMMIT"] # 0
    /\ row[s].type = "PROVING" =>
         \/ landed[s]["COMMIT"] # 0
         \/ /\ "nosector" \in mishaps[s]
            /\ Pending(s, "COMMIT") \/ {"COMMIT", "expired"} \cap mishaps[s] # {}

(***************************************************************************)
(* At most one process works on the files of a sector.                     *)
(***************************************************************************)
OneLiveChild ==
  \A s \in Sectors : \A m, n \in Live(s) : m = n

(***************************************************************************)
(* PC2 and C1 read files that PC1 left on its worker's disk: they run      *)
(* where the PC1 whose result the row holds ran.                           *)
(***************************************************************************)
OnFilesWorker ==
  \A s \in Sectors : \A n \in Live(s) :
    job[s][n].ctype \in {"PC2", "C1"} /\ job[s][n].in["PC1"] # 0 =>
      job[s][n].by = job[s][job[s][n].in["PC1"]].by

(***************************************************************************)
(* The proof about to be committed was computed from the C1 output of the  *)
(* commitment and the seed that the row holds.                             *)
(***************************************************************************)
ProofOfRow ==
  \A s \in Sectors : row[s].type = "COMMIT" /\ row[s].out["C2"] # 0 =>
    LET c2 == job[s][row[s].out["C2"]]
        c1 == job[s][c2.in["C1"]]
    IN /\ c2.in["C1"] # 0
       /\ c1.in["PC2"] = row[s].out["PC2"]
       /\ c1.in["SEED"] = row[s].out["SEED"]

(***************************************************************************)
(* A result enters the row from the session that owns the row, computed by *)
(* a worker from the columns the row holds at that very moment (or held,   *)
(* if UpdatePoStInfo has dropped C1's since).                              *)
(***************************************************************************)
StoresCurrent(s, c) ==
  LET n == row'[s].out[c]
  IN n # row[s].out[c] /\ n # 0 =>
       /\ n = row[s].req
       /\ c \in WorkerTasks =>
            \A d \in Columns : row[s].out[d] \in {0, job[s][n].in[d]}
ResultsAreCurrent == [][\A s \in Sectors, c \in Columns : StoresCurrent(s, c)]_vars

(***************************************************************************)
(* A sector never goes back to an earlier task, as long as the operator    *)
(* neither restarts, sends nor resets anything.                            *)
(***************************************************************************)
NoRegress == [][\A s \in Sectors : Rank(row'[s].type) >= Rank(row[s].type)]_vars

(***************************************************************************)
(* The operator names a task when he starts one (tasktrig, RetryTaskPID):  *)
(* that task is what runs.  A claim by sector number looks at neither the  *)
(* row's task nor its state, and the child runs whatever the row says.     *)
(***************************************************************************)
TriggeredTaskRuns ==
  \A s \in Sectors : \A n \in Live(s) :
    job[s][n].how \in {"trigger", "restart"} => job[s][n].ctype = job[s][n].asked

(***************************************************************************)
(* Left to itself, and without faults, the pipeline seals every sector and *)
(* enters it in the PoSt table.                                            *)
(***************************************************************************)
Progress ==
  \/ \E t \in Tasks, w \in Owners, s \in Sectors : Poll(t, w, s)
  \/ \E s \in Sectors, n \in Sessions : WorkerStep(s, n) \/ MinerStep(s, n)
  \/ TableStep
  \/ \E m \in mpool : ChainExec(m)
FairSpec == Spec /\ WF_vars(Progress)

EverySectorProves ==
  \A s \in Sectors : row[s].type # "absent" ~> row[s].type = "PROVING" /\ post[s] = "SUCCESS"

-------------------------------------------------------------------------------
(***************************************************************************)
(* Why OutputsPresent and ChainBacked hold when the operator names the     *)
(* task a row is at ("mismatch" \notin Ops): whoever may write a task in a *)
(* row later has seen the sector reach it, what a sector has reached it    *)
(* does not lose, and only the session that made a row RUNING moves it on. *)
(***************************************************************************)
Enough(out, chain, odd, t) ==
  /\ \A c \in Columns \ {"C1"} : Rank(t) > Rank(c) => out[c] # 0 \/ c \in odd
  /\ Rank(t) > Rank("PRECOMMIT") => chain["PRECOMMIT"] # 0 \/ "allocated" \in odd
  /\ t = "PROVING" => chain["COMMIT"] # 0 \/ "nosector" \in odd
Reached(s, t) == Enough(row[s].out, landed[s], mishaps[s], t)

RowsReached == \A s \in Sectors : Reached(s, row[s].type)

ClaimsReached ==
  \A q \in queries : q.task = q.snap.type /\ Reached(q.sector, q.task)

ResetsReached == \A r \in resets : r.type \in Tasks /\ Reached(r.sector, r.type)

\* A session is new until its claim is answered, and claimed only once.
SessionsFresh ==
  /\ \A q \in queries : q.session # 0 =>
       q.session <= used[q.sector] /\ job[q.sector][q.session].child = "none"
  /\ \A p, q \in queries :
       p.sector = q.sector /\ p.session = q.session /\ p.session # 0 => p = q
  /\ \A s \in Sectors, n \in Sessions : n > used[s] => job[s][n].child = "none"

\* A row claimed under "" (RetryTaskPIDByState) is RUNING for nobody.
RunningOwned ==
  \A s \in Sectors : row[s].state = "RUNING" =>
    /\ row[s].type # "absent"
    /\ row[s].req # 0 =>
         /\ job[s][row[s].req].child # "none"
         /\ job[s][row[s].req].asked = row[s].type

JobsReached ==
  \A s \in Sectors, n \in Sessions :
    /\ job[s][n].child = "none" => job[s][n].parent = "none"
    /\ job[s][n].child # "none" => job[s][n].asked \in Tasks
    /\ job[s][n].child \in {"spawn", "run"} => job[s][n].asked \in WorkerTasks
    /\ job[s][n].child = "run" => Reached(s, job[s][n].ctype)
    /\ job[s][n].child \in {"claimed", "stored", "pushed"} =>
         job[s][n].task = job[s][n].asked /\ Reached(s, job[s][n].asked)
    /\ job[s][n].child = "pushed" => job[s][n].asked # "SEED"
    /\ job[s][n].child = "stored" /\ job[s][n].asked = "SEED" =>
         landed[s]["PRECOMMIT"] # 0

\* An error that moves the row on and a miner's success are true of the chain;
\* a child that found the row at a miner's task reports under a worker's session.
MailReached ==
  \A r \in mail :
    /\ job[r.sector][r.session].child # "none"
    /\ NextRule(r.type, r.err) => Reached(r.sector, NextTask[r.type])
    /\ r.err = "none" /\ r.type \in MinerTasks =>
         \/ landed[r.sector][IF r.type = "COMMIT" THEN "COMMIT" ELSE "PRECOMMIT"] # 0
         \/ job[r.sector][r.session].asked \in WorkerTasks
    /\ r.out = r.session \/ (r.out = 0 /\ r.type \in mishaps[r.sector] \cap WorkerTasks)

HandlersReached ==
  \A h \in handlers :
    /\ h.todo = "next" => NextRule(h.type, h.err)
    /\ NextRule(h.type, h.err) => Reached(h.sector, NextTask[h.type])

\* A message is sent for a sector that has reached its sender's task, a proof
\* only for one that has been pre-committed.
MessagesReached ==
  \A m \in mpool :
    /\ Reached(m.sector, m.type)
    /\ m.type = "COMMIT" => landed[m.sector]["PRECOMMIT"] # 0

\* The seed is that of the pre-commit's height.
SeedOfChain == \A s \in Sectors : row[s].out["SEED"] # 0 => landed[s]["PRECOMMIT"] # 0

\* What a refusal says is so, or will be unless the pool drops the message.
RefusalsTrue ==
  \A s \in Sectors :
    /\ "allocated" \in mishaps[s] =>
         \/ landed[s]["PRECOMMIT"] # 0
         \/ Pending(s, "PRECOMMIT") \/ "PRECOMMIT" \in mishaps[s]
    /\ "nosector" \in mishaps[s] =>
         \/ landed[s]["COMMIT"] # 0
         \/ Pending(s, "COMMIT") \/ {"COMMIT", "expired"} \cap mishaps[s] # {}

LifecycleInv ==
  /\ RowsReached /\ ClaimsReached /\ ResetsReached
  /\ SessionsFresh /\ RunningOwned /\ JobsReached
  /\ MailReached /\ HandlersReached
  /\ MessagesReached /\ SeedOfChain /\ RefusalsTrue

-------------------------------------------------------------------------------
(***************************************************************************)
(* The task table implements SectorLifecycle.  A stage is behind a sector  *)
(* when its result is in the row or its message on chain, or when it was   *)
(* said to be: by a success that brought nothing, or by a refusal (the     *)
(* sector is allocated already; there is no pre-commit left to prove).     *)
(* What a sector has behind it is never lost, each stage comes after all   *)
(* the earlier ones, and no claim, reset, late report or failure rule puts *)
(* a sector at a task that it is not ready for.                            *)
(***************************************************************************)
StageOf == [s \in Sectors |-> row[s].type]
SaidBy == [PRECOMMIT |-> "allocated", COMMIT |-> "nosector"]
DoneOf == [s \in Sectors |->
  {c \in Columns \ {"C1"} : row[s].out[c] # 0 \/ c \in mishaps[s]}
    \cup {t \in {"PRECOMMIT", "COMMIT"} : landed[s][t] # 0 \/ SaidBy[t] \in mishaps[s]}]
Stage == INSTANCE SectorLifecycle WITH at <- StageOf, done <- DoneOf
InOrder == Stage!Spec
===============================================================================
