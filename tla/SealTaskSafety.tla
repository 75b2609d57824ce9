---------------------------- MODULE SealTaskSafety ----------------------------
(***************************************************************************)
(* No phase is skipped and the table never runs ahead of the chain, for    *)
(* every instance of SealTask in which the operator names the task a row   *)
(* is at.  LifecycleInv is the inductive invariant.  The table implements  *)
(* SectorLifecycle: each step is a step of one sector's lifecycle or none. *)
(***************************************************************************)
EXTENDS SealTaskProofs

USE DEF Sessions, Session0

\* What a step may do to the sectors and to the jobs, whichever step it is.
Grows ==
  \A s \in Sectors :
    /\ \A t \in Types : Enough(row[s].out, landed[s], mishaps[s], t) =>
                         Enough(row'[s].out, landed'[s], mishaps'[s], t)
    /\ \A c \in {"PRECOMMIT", "COMMIT"} : landed[s][c] # 0 => landed'[s][c] # 0
    /\ mishaps[s] \subseteq mishaps'[s]
JobsKept ==
  \A s \in Sectors, n \in Sessions : job[s][n].child # "none" =>
    job'[s][n].child # "none" /\ job'[s][n].asked = job[s][n].asked
NoneStarted ==
  \A s \in Sectors, n \in Sessions : job[s][n].child = "none" => job'[s][n].child = "none"

-------------------------------------------------------------------------------
(* The pipeline.                                                           *)

\* The pipeline's order: each task's successor is one further on.
LEMMA NextRank ==
  ASSUME NEW t \in Tasks
  PROVE  Rank(NextTask[t]) = Rank(t) + 1 /\ Rank(t) \in 1..7
<1>1. t \in Types
  BY DEF Types
<1>2. \/ t = "PC1" \/ t = "PC2" \/ t = "PRECOMMIT" \/ t = "SEED"
      \/ t = "C1" \/ t = "C2" \/ t = "COMMIT"
  BY DEF Tasks, WorkerTasks, MinerTasks
<1>3. CASE t = "PC1"
  BY <1>1, <1>3 DEF NextTask, Rank
<1>4. CASE t = "PC2"
  BY <1>1, <1>4 DEF NextTask, Rank
<1>5. CASE t = "PRECOMMIT"
  BY <1>1, <1>5 DEF NextTask, Rank
<1>6. CASE t = "SEED"
  BY <1>1, <1>6 DEF NextTask, Rank
<1>7. CASE t = "C1"
  BY <1>1, <1>7 DEF NextTask, Rank
<1>8. CASE t = "C2"
  BY <1>1, <1>8 DEF NextTask, Rank
<1>9. CASE t = "COMMIT"
  BY <1>1, <1>9 DEF NextTask, Rank
<1> QED
  BY <1>2, <1>3, <1>4, <1>5, <1>6, <1>7, <1>8, <1>9

LEMMA RankInjective ==
  ASSUME NEW t \in Tasks, NEW c \in Tasks, Rank(t) = Rank(c)
  PROVE  t = c
  BY DEF Rank, Tasks, WorkerTasks, MinerTasks

LEMMA EnoughFirst ==
  ASSUME NEW o, NEW l, NEW x
  PROVE  Enough(o, l, x, "PC1") /\ Enough(o, l, x, "") /\ Enough(o, l, x, "absent")
  BY DEF Enough, Rank, Columns

\* What has been reached stays reached as long as nothing is taken away.
LEMMA EnoughStable ==
  ASSUME NEW o, NEW p, NEW l, NEW m, NEW x, NEW y,
         \A c \in Columns \ {"C1"} : o[c] # 0 => p[c] # 0 \/ c \in y,
         \A c \in {"PRECOMMIT", "COMMIT"} : l[c] # 0 => m[c] # 0,
         x \subseteq y
  PROVE  \A t \in Types : Enough(o, l, x, t) => Enough(p, m, y, t)
  BY DEF Enough

\* The next task is reached with a task's result, for a sender with its message
\* on chain, or with what is said in their place.
LEMMA EnoughNext ==
  ASSUME NEW o, NEW p, NEW l, NEW x, NEW y, NEW t \in Types, Enough(o, l, x, t),
         \A c \in Columns \ {"C1"} : o[c] # 0 => p[c] # 0 \/ c \in y,
         x \subseteq y,
         t \in Columns \ {"C1"} => p[t] # 0 \/ t \in y,
         t = "PRECOMMIT" => l["PRECOMMIT"] # 0 \/ "allocated" \in y,
         t = "COMMIT" => l["COMMIT"] # 0 \/ "nosector" \in y
  PROVE  Enough(p, l, y, NextTask[t])
<1>1. CASE t \in Tasks
  <2>1. \A c \in Columns \ {"C1"} :
          Rank(NextTask[t]) > Rank(c) => p[c] # 0 \/ c \in y
    <3>1. \A c \in Columns : Rank(NextTask[t]) > Rank(c) => Rank(t) > Rank(c) \/ t = c
      <4>1. Columns \subseteq Tasks
        BY DEF Columns, Tasks, WorkerTasks, MinerTasks
      <4> QED
        BY <1>1, <4>1, NextRank, RankInjective
    <3> QED
      BY <3>1 DEF Enough
  <2>2. Rank(NextTask[t]) > Rank("PRECOMMIT") => l["PRECOMMIT"] # 0 \/ "allocated" \in y
    <3>1. Rank(NextTask[t]) > Rank("PRECOMMIT") =>
            Rank(t) > Rank("PRECOMMIT") \/ t = "PRECOMMIT"
      <4>1. "PRECOMMIT" \in Tasks
        BY DEF Tasks, MinerTasks
      <4> QED
        BY <1>1, <4>1, NextRank, RankInjective
    <3> QED
      BY <3>1 DEF Enough
  <2>3. NextTask[t] = "PROVING" => l["COMMIT"] # 0 \/ "nosector" \in y
    <3>1. NextTask[t] = "PROVING" => t = "COMMIT"
      BY <1>1 DEF NextTask, Types, Tasks, WorkerTasks, MinerTasks
    <3> QED
      BY <3>1
  <2> QED
    BY <2>1, <2>2, <2>3 DEF Enough
<1>2. CASE t \notin Tasks
  <2>1. NextTask[t] = ""
    BY <1>2 DEF NextTask, Types, Tasks, WorkerTasks, MinerTasks
  <2> QED
    BY <2>1, EnoughFirst
<1> QED
  BY <1>1, <1>2

\* The errors that move a row on do so without a result of their own.
LEMMA NextRuleTasks ==
  \A t, e : NextRule(t, e) => t \in {"PRECOMMIT", "COMMIT"} /\ t \in Types /\ t \notin Columns
  BY DEF NextRule, Types, Tasks, MinerTasks, Columns

\* A sector past SEED has its seed, and with it its pre-commit on chain.
LEMMA SeedFirst ==
  ASSUME TypeOK, SeedOfChain, NEW s \in Sectors, NEW t \in Types, Reached(s, t),
         Rank(t) > Rank("SEED")
  PROVE  landed[s]["PRECOMMIT"] # 0
<1>1. row[s].out["SEED"] # 0 \/ "SEED" \in mishaps[s]
  BY DEF Reached, Enough, Columns
<1>2. "SEED" \notin mishaps[s]
  BY DEF TypeOK, Mishaps, WorkerTasks
<1> QED
  BY <1>1, <1>2 DEF SeedOfChain

-------------------------------------------------------------------------------
(* The frames: a conjunct that a step does not disturb is preserved.       *)

LEMMA RowsFrame ==
  ASSUME TypeOK, Grows, RowsReached, \A s \in Sectors : row'[s].type = row[s].type
  PROVE  RowsReached'
<1>1. \A s \in Sectors : row[s].type \in Types
  BY DEF TypeOK, Row
<1> QED
  BY <1>1 DEF RowsReached, Reached, Grows

LEMMA ClaimsFrame ==
  ASSUME TypeOK, Grows, ClaimsReached,
         \A q \in queries' : \E p \in queries : q.sector = p.sector /\ q.task = p.task
                                                /\ q.snap = p.snap
  PROVE  ClaimsReached'
<1>1. \A p \in queries : p.sector \in Sectors /\ p.task \in Types
  BY DEF TypeOK, Query, Types
<1> QED
  BY <1>1 DEF ClaimsReached, Reached, Grows

LEMMA ResetsFrame ==
  ASSUME TypeOK, Grows, ResetsReached, resets' \subseteq resets
  PROVE  ResetsReached'
<1>1. \A r \in resets : r.sector \in Sectors /\ r.type \in Types
  BY DEF TypeOK, Reset, Types
<1> QED
  BY <1>1 DEF ResetsReached, Reached, Grows

LEMMA FreshFrame ==
  ASSUME TypeOK, SessionsFresh, NoneStarted, queries' \subseteq queries, UNCHANGED used
  PROVE  SessionsFresh'
<1>1. \A q \in queries : q.sector \in Sectors /\ (q.session # 0 => q.session \in Sessions)
  BY SealTaskAssumption DEF TypeOK, Query
<1> QED
  BY <1>1 DEF SessionsFresh, NoneStarted

LEMMA RunningFrame ==
  ASSUME TypeOK, RunningOwned, JobsKept,
         \A s \in Sectors : row'[s].state = "RUNING" =>
           /\ row[s].state = "RUNING" /\ row'[s].req = row[s].req
           /\ row'[s].type = row[s].type
  PROVE  RunningOwned'
<1>1. \A s \in Sectors : row[s].req \in Session0
  BY DEF TypeOK, Row
<1>2. \A s \in Sectors : row[s].req # 0 => row[s].req \in Sessions
  BY <1>1, SealTaskAssumption
<1> QED
  BY <1>2 DEF RunningOwned, JobsKept

LEMMA JobsFrame ==
  ASSUME TypeOK, Grows, JobsReached, UNCHANGED job
  PROVE  JobsReached'
<1>1. \A s \in Sectors, n \in Sessions : job[s][n].asked \in Types /\ job[s][n].ctype \in Types
  BY JobFields
<1> QED
  BY <1>1 DEF JobsReached, Reached, Grows

LEMMA MailFrame ==
  ASSUME TypeOK, Grows, JobsKept, MailReached, mail' \subseteq mail
  PROVE  MailReached'
<1> SUFFICES ASSUME NEW r \in mail
             PROVE  /\ job'[r.sector][r.session].child # "none"
                    /\ NextRule(r.type, r.err) =>
                         Enough(row'[r.sector].out, landed'[r.sector], mishaps'[r.sector],
                                NextTask[r.type])
                    /\ r.err = "none" /\ r.type \in MinerTasks =>
                         \/ landed'[r.sector][IF r.type = "COMMIT" THEN "COMMIT"
                                              ELSE "PRECOMMIT"] # 0
                         \/ job'[r.sector][r.session].asked \in WorkerTasks
                    /\ \/ r.out = r.session
                       \/ r.out = 0 /\ r.type \in mishaps'[r.sector] \cap WorkerTasks
  BY DEF MailReached, Reached
<1>1. job[r.sector][r.session].child # "none"
  BY DEF MailReached
<1> QED
  BY <1>1, ReportFields, NextTaskType DEF MailReached, Reached, Grows, JobsKept

LEMMA HandlersFrame ==
  ASSUME TypeOK, Grows, HandlersReached, handlers' \subseteq handlers
  PROVE  HandlersReached'
<1>1. \A h \in handlers : h.sector \in Sectors /\ NextTask[h.type] \in Types
  BY NextTaskType DEF TypeOK, Handler
<1> QED
  BY <1>1 DEF HandlersReached, Reached, Grows

LEMMA MessagesFrame ==
  ASSUME TypeOK, Grows, MessagesReached, mpool' \subseteq mpool
  PROVE  MessagesReached'
<1>1. \A m \in mpool : m.sector \in Sectors /\ m.type \in Types
  BY DEF TypeOK, Message, Types, Tasks, MinerTasks
<1> QED
  BY <1>1 DEF MessagesReached, Reached, Grows

LEMMA SeedFrame ==
  ASSUME Grows, SeedOfChain,
         \A s \in Sectors : row'[s].out["SEED"] = row[s].out["SEED"]
  PROVE  SeedOfChain'
  BY DEF SeedOfChain, Grows

LEMMA RefusalsFrame ==
  ASSUME Grows, RefusalsTrue, mpool \subseteq mpool',
         \A s \in Sectors, e \in {"allocated", "nosector"} :
           e \in mishaps'[s] => e \in mishaps[s]
  PROVE  RefusalsTrue'
  BY DEF RefusalsTrue, Grows, Pending

\* The last three for the steps that leave the chain and the seeds alone.
LEMMA ChainFrame ==
  ASSUME TypeOK, LifecycleInv, Grows, UNCHANGED <<mpool, landed, mishaps>>,
         \A s \in Sectors : row'[s].out["SEED"] = row[s].out["SEED"]
  PROVE  MessagesReached' /\ SeedOfChain' /\ RefusalsTrue'
  BY MessagesFrame, SeedFrame, RefusalsFrame DEF LifecycleInv

-------------------------------------------------------------------------------
(* Facts about single steps.                                               *)

LEMMA GrowsSame ==
  ASSUME \A s \in Sectors : row'[s].out = row[s].out, UNCHANGED <<landed, mishaps>>
  PROVE  Grows
  BY DEF Grows

LEMMA SameJobs ==
  ASSUME UNCHANGED job
  PROVE  JobsKept /\ NoneStarted
  BY DEF JobsKept, NoneStarted

\* The step of one session that has been claimed.
OneJob(s, n) ==
  /\ \A u \in Sectors, m \in Sessions : u # s \/ m # n => job'[u][m] = job[u][m]
  /\ job'[s][n].asked = job[s][n].asked /\ job'[s][n].task = job[s][n].task
  /\ job[s][n].child # "none" /\ job'[s][n].child # "none"
  /\ job'[s][n].child \in {"spawn", "run"} => job[s][n].child \in {"spawn", "run"}
  /\ job'[s][n].child \in {"claimed", "stored", "pushed"} =>
       job[s][n].child \in {"claimed", "stored", "pushed"}
  /\ job'[s][n].child = "run" =>
       \/ job[s][n].child = "run" /\ job'[s][n].ctype = job[s][n].ctype
       \/ job'[s][n].ctype = row[s].type
  /\ job'[s][n].child = "pushed" /\ job[s][n].asked = "SEED" =>
       job[s][n].child = "pushed"
  /\ job'[s][n].child = "stored" /\ job[s][n].asked = "SEED" =>
       job[s][n].child = "stored" \/ landed[s]["PRECOMMIT"] # 0

\* A report that MailReached allows, once the step is taken.
GoodReport(s, n, r) ==
  /\ r.sector = s /\ r.session = n
  /\ NextRule(r.type, r.err) =>
       Enough(row[s].out, landed[s], mishaps'[s], NextTask[r.type])
  /\ r.err = "none" /\ r.type \in MinerTasks =>
       \/ landed[s][IF r.type = "COMMIT" THEN "COMMIT" ELSE "PRECOMMIT"] # 0
       \/ job[s][n].asked \in WorkerTasks
  /\ r.out = n \/ (r.out = 0 /\ r.type \in mishaps'[s] \cap WorkerTasks)

LEMMA SessionStep ==
  ASSUME TypeOK, LifecycleInv, NEW s \in Sectors, NEW n \in Sessions, OneJob(s, n),
         \A r \in mail' : r \in mail \/ GoodReport(s, n, r),
         \A u \in Sectors : mishaps[u] \subseteq mishaps'[u],
         MessagesReached', RefusalsTrue',
         UNCHANGED <<row, landed, used, queries, handlers, resets>>
  PROVE  LifecycleInv'
<1>1. Grows
  BY EnoughStable DEF Grows
<1>2. JobsKept /\ NoneStarted
  BY DEF OneJob, JobsKept, NoneStarted
<1>3. RowsReached' /\ ClaimsReached' /\ ResetsReached' /\ HandlersReached'
  BY <1>1, RowsFrame, ClaimsFrame, ResetsFrame, HandlersFrame DEF LifecycleInv
<1>4. SessionsFresh' /\ RunningOwned' /\ SeedOfChain'
  BY <1>1, <1>2, FreshFrame, RunningFrame, SeedFrame DEF LifecycleInv
<1>5. JobsReached'
  <2>1. \A u \in Sectors, t \in Types : Reached(u, t) => Reached(u, t)'
    BY <1>1 DEF Grows, Reached
  <2>2. \A u \in Sectors, m \in Sessions : job[u][m].asked \in Types /\ job[u][m].ctype \in Types
    BY JobFields
  <2>3. row[s].type \in Types /\ Reached(s, row[s].type)
    BY JobFields DEF LifecycleInv, RowsReached, TypeOK, Row
  <2> QED
    BY <2>1, <2>2, <2>3 DEF LifecycleInv, JobsReached, OneJob
<1>6. MailReached'
  <2> SUFFICES ASSUME NEW r \in mail'
               PROVE  /\ job'[r.sector][r.session].child # "none"
                      /\ NextRule(r.type, r.err) =>
                           Enough(row[r.sector].out, landed[r.sector], mishaps'[r.sector],
                                  NextTask[r.type])
                      /\ r.err = "none" /\ r.type \in MinerTasks =>
                           \/ landed[r.sector][IF r.type = "COMMIT" THEN "COMMIT"
                                               ELSE "PRECOMMIT"] # 0
                           \/ job'[r.sector][r.session].asked \in WorkerTasks
                      /\ \/ r.out = r.session
                         \/ r.out = 0 /\ r.type \in mishaps'[r.sector] \cap WorkerTasks
    BY DEF MailReached, Reached
  <2>1. CASE r \in mail
    <3>1. job[r.sector][r.session].child # "none" /\ r.sector \in Sectors
          /\ r.session \in Sessions /\ NextTask[r.type] \in Types
      BY <2>1, ReportFields, NextTaskType DEF LifecycleInv, MailReached
    <3> QED
      BY <1>1, <1>2, <2>1, <3>1 DEF LifecycleInv, MailReached, JobsKept, Reached, Grows
  <2>2. CASE GoodReport(s, n, r)
    BY <1>2, <2>2 DEF GoodReport, OneJob
  <2> QED
    BY <2>1, <2>2
<1> QED
  BY <1>3, <1>4, <1>5, <1>6 DEF LifecycleInv

\* The steps that leave the chain alone.
LEMMA QuietSession ==
  ASSUME TypeOK, LifecycleInv, NEW s \in Sectors, NEW n \in Sessions, OneJob(s, n),
         \A r \in mail' : r \in mail \/ GoodReport(s, n, r),
         UNCHANGED <<row, mpool, landed, mishaps, used, queries, handlers, resets>>
  PROVE  LifecycleInv'
<1>1. Grows
  BY GrowsSame
<1>2. MessagesReached' /\ RefusalsTrue'
  BY <1>1, ChainFrame
<1> QED
  BY <1>2, SessionStep

-------------------------------------------------------------------------------
(* The sessions of the workers and of the miner.                           *)

LEMMA JobChild ==
  ASSUME TypeOK, LifecycleInv, NEW s \in Sectors, NEW n \in Sessions
  PROVE  /\ job[s][n].parent # "none" => job[s][n].child # "none"
         /\ job[s][n].child \in {"spawn", "run"} => job[s][n].asked \in WorkerTasks
         /\ job[s][n].child = "run" => Reached(s, job[s][n].ctype)
         /\ job[s][n].child \in {"claimed", "stored", "pushed"} =>
              job[s][n].task = job[s][n].asked /\ Reached(s, job[s][n].asked)
         /\ job[s][n].child = "pushed" => job[s][n].asked # "SEED"
         /\ job[s][n].child = "stored" /\ job[s][n].asked = "SEED" =>
              landed[s]["PRECOMMIT"] # 0
  BY DEF LifecycleInv, JobsReached

LEMMA WatchSafe ==
  ASSUME TypeOK, LifecycleInv, NEW s \in Sectors, NEW n \in Sessions,
         Watch(s, n) \/ ParentExit(s, n)
  PROVE  LifecycleInv'
<1>1. job[s][n] \in Job /\ job[s][n].parent # "none"
  BY JobFields DEF Watch, ParentExit
<1>2. OneJob(s, n)
  <2>1. CASE Watch(s, n)
    BY <1>1, <2>1, JobChild DEF Watch, OneJob, Job, TypeOK
  <2>2. CASE ParentExit(s, n)
    BY <1>1, <2>2, JobChild DEF ParentExit, OneJob, Job, TypeOK
  <2> QED
    BY <2>1, <2>2
<1> QED
  BY <1>2, QuietSession DEF Watch, ParentExit, tableVars, callVars, minerVars, chainVars

LEMMA ChildReadSafe ==
  ASSUME TypeOK, LifecycleInv, NEW s \in Sectors, NEW n \in Sessions, ChildRead(s, n)
  PROVE  LifecycleInv'
<1>1. job[s][n] \in Job
  BY JobFields
<1>2. OneJob(s, n)
  <2>1. job'[s][n] = [job[s][n] EXCEPT !.child = "run", !.ctype = row[s].type, !.in = row[s].out]
    BY DEF ChildRead, TypeOK
  <2> QED
    BY <1>1, <2>1 DEF ChildRead, OneJob, Job, TypeOK
<1> QED
  BY <1>2, QuietSession DEF ChildRead, tableVars, callVars, minerVars, chainVars

\* A worker's report never moves a row on by itself: it has no error of the
\* chain, and its session is a worker's.
LEMMA WorkerReport ==
  ASSUME NEW s, NEW n, NEW t, NEW e \in Errs, e \notin {"allocated", "nosector"},
         e = "none" => job[s][n].asked \in WorkerTasks
  PROVE  GoodReport(s, n, Post(s, n, t, e))
  BY DEF GoodReport, Post, NextRule

LEMMA ChildEndsSafe ==
  ASSUME TypeOK, LifecycleInv, NEW s \in Sectors, NEW n \in Sessions,
         ChildOk(s, n) \/ ChildError(s, n) \/ ChildDie(s, n) \/ MinerSilent(s, n)
  PROVE  LifecycleInv'
<1>1. /\ job[s][n] \in Job /\ job[s][n].child # "none"
      /\ job' = [job EXCEPT ![s][n].child = "ended"]
  BY JobFields DEF ChildOk, ChildError, ChildDie, MinerSilent, MinerRuns
<1>2. OneJob(s, n)
  BY <1>1 DEF OneJob, Job, TypeOK
<1>3. \A r \in mail' : r \in mail \/ GoodReport(s, n, r)
  <2>1. {"none", "other"} \subseteq Errs
    BY DEF Errs
  <2>2. CASE ChildOk(s, n)
    <3>1. GoodReport(s, n, Post(s, n, job[s][n].ctype, "none"))
      BY <2>1, <2>2, JobChild, WorkerReport DEF ChildOk
    <3> QED
      BY <2>2, <3>1 DEF ChildOk
  <2>3. CASE ChildError(s, n)
    <3>1. GoodReport(s, n, Post(s, n, job[s][n].ctype, "other"))
      BY <2>1, WorkerReport
    <3> QED
      BY <2>3, <3>1 DEF ChildError
  <2>4. CASE ChildDie(s, n) \/ MinerSilent(s, n)
    BY <2>4 DEF ChildDie, MinerSilent, callVars
  <2> QED
    BY <2>2, <2>3, <2>4
<1> QED
  BY <1>2, <1>3, QuietSession
  DEF ChildOk, ChildError, ChildDie, MinerSilent, tableVars, callVars, minerVars, chainVars

\* A success that brings nothing is noted as one of the task the child read.
LEMMA ChildEmptySafe ==
  ASSUME TypeOK, LifecycleInv, NEW s \in Sectors, NEW n \in Sessions, ChildEmpty(s, n)
  PROVE  LifecycleInv'
<1> DEFINE t == job[s][n].ctype
           r0 == [Post(s, n, t, "none") EXCEPT !.out = 0]
<1>1. /\ job[s][n] \in Job /\ job[s][n].child # "none"
      /\ job' = [job EXCEPT ![s][n].child = "ended"]
  BY JobFields DEF ChildEmpty
<1>2. OneJob(s, n)
  BY <1>1 DEF OneJob, Job, TypeOK
<1>3. \A u \in Sectors : mishaps'[u] = IF u = s THEN mishaps[s] \cup {t} ELSE mishaps[u]
  BY DEF ChildEmpty, TypeOK
<1>4. t \in WorkerTasks /\ mail' = mail \cup {r0}
  BY DEF ChildEmpty
<1>5. GoodReport(s, n, r0)
  <2>1. r0.sector = s /\ r0.session = n /\ r0.type = t /\ r0.err = "none" /\ r0.out = 0
    BY DEF Post
  <2> HIDE DEF r0
  <2>2. t \notin MinerTasks
    BY <1>4 DEF WorkerTasks, MinerTasks
  <2> QED
    BY <1>3, <1>4, <2>1, <2>2 DEF GoodReport, NextRule
<1>6. UNCHANGED <<row, landed, mpool, used, queries, handlers, resets>>
  BY DEF ChildEmpty, tableVars, minerVars
<1>7. Grows
  BY <1>3, <1>6, EnoughStable DEF Grows
<1>8. MessagesReached'
  BY <1>6, <1>7, MessagesFrame DEF LifecycleInv
<1>9. RefusalsTrue'
  <2>1. t \notin {"allocated", "nosector"}
    BY <1>4 DEF WorkerTasks
  <2> QED
    BY <1>3, <1>6, <1>7, <2>1, RefusalsFrame DEF LifecycleInv
<1> QED
  BY <1>2, <1>3, <1>4, <1>5, <1>6, <1>8, <1>9, SessionStep

LEMMA SpawnFailSafe ==
  ASSUME TypeOK, LifecycleInv, NEW s \in Sectors, NEW n \in Sessions, SpawnFail(s, n)
  PROVE  LifecycleInv'
<1>1. job[s][n] \in Job
  BY JobFields
<1>2. OneJob(s, n)
  BY <1>1 DEF SpawnFail, OneJob, Job, TypeOK
<1>3. GoodReport(s, n, Post(s, n, job[s][n].asked, "other"))
  BY WorkerReport DEF Errs
<1> QED
  BY <1>2, <1>3, QuietSession DEF SpawnFail, tableVars, minerVars, chainVars

LEMMA GiveUpSafe ==
  ASSUME TypeOK, LifecycleInv, NEW s \in Sectors, NEW n \in Sessions,
         Timeout(s, n) \/ Shutdown(s, n)
  PROVE  LifecycleInv'
<1>1. PICK e \in {"timeout", "other"} : GiveUp(s, n, e)
  BY DEF Timeout, Shutdown
<1>2. job[s][n] \in Job /\ job[s][n].child # "none"
  BY <1>1, JobFields, JobChild DEF GiveUp
<1>3. OneJob(s, n)
  BY <1>1, <1>2 DEF GiveUp, OneJob, Job, TypeOK
<1>4. GoodReport(s, n, Post(s, n, job[s][n].task, e))
  BY WorkerReport DEF Errs
<1> QED
  BY <1>1, <1>3, <1>4, QuietSession DEF GiveUp, tableVars, minerVars, chainVars

LEMMA MinerStoreSafe ==
  ASSUME TypeOK, LifecycleInv, NEW s \in Sectors, NEW n \in Sessions, MinerStore(s, n)
  PROVE  LifecycleInv'
<1>1. /\ job' = [job EXCEPT ![s][n].child = "stored"]
      /\ job[s][n] \in Job /\ job[s][n].child = "claimed"
      /\ job[s][n].asked = "SEED" => landed[s]["PRECOMMIT"] # 0
  BY JobFields DEF MinerStore, MinerRuns, PreCommitOnChain
<1>2. OneJob(s, n)
  BY <1>1 DEF OneJob, Job, TypeOK
<1> QED
  BY <1>2, QuietSession DEF MinerStore, tableVars, callVars, chainVars

\* A proof is sent only for a sector that has its seed.
LEMMA MinerPushSafe ==
  ASSUME TypeOK, LifecycleInv, NEW s \in Sectors, NEW n \in Sessions, MinerPush(s, n)
  PROVE  LifecycleInv'
<1> DEFINE t == job[s][n].asked
           m0 == [sector |-> s, session |-> n, type |-> t]
<1>1. /\ job' = [job EXCEPT ![s][n].child = "pushed"]
      /\ job[s][n] \in Job /\ job[s][n].child = "stored" /\ t \in {"PRECOMMIT", "COMMIT"}
  BY JobFields DEF MinerPush, MinerRuns
<1>2. OneJob(s, n)
  BY <1>1 DEF OneJob, Job, TypeOK
<1>3. UNCHANGED <<row, landed, mishaps, mail, used, queries, handlers, resets>>
  BY DEF MinerPush, tableVars, callVars, minerVars
<1>4. Grows
  BY <1>3, GrowsSame
<1>5. Reached(s, t) /\ (t = "COMMIT" => landed[s]["PRECOMMIT"] # 0)
  <2>1. Reached(s, t)
    BY <1>1, JobChild
  <2>2. "COMMIT" \in Types /\ Rank("COMMIT") > Rank("SEED")
    BY DEF Types, Tasks, MinerTasks, Rank
  <2> QED
    BY <2>1, <2>2, SeedFirst DEF LifecycleInv
<1>6. MessagesReached'
  <2> SUFFICES ASSUME NEW m \in mpool'
               PROVE  /\ Enough(row[m.sector].out, landed[m.sector], mishaps[m.sector], m.type)
                      /\ m.type = "COMMIT" => landed[m.sector]["PRECOMMIT"] # 0
    BY <1>3 DEF MessagesReached, Reached
  <2>1. CASE m \in mpool
    BY <2>1 DEF LifecycleInv, MessagesReached, Reached
  <2>2. CASE m = m0
    BY <1>5, <2>2 DEF Reached
  <2> QED
    BY <2>1, <2>2 DEF MinerPush
<1>7. RefusalsTrue'
  BY <1>3, <1>4, RefusalsFrame DEF LifecycleInv, MinerPush
<1> QED
  BY <1>2, <1>3, <1>6, <1>7, SessionStep

LEMMA MinerEndsJob ==
  ASSUME TypeOK, LifecycleInv, NEW s \in Sectors, NEW n \in Sessions, NEW e,
         MinerEnds(s, n, e), job[s][n].child \in {"claimed", "stored", "pushed"}
  PROVE  /\ OneJob(s, n)
         /\ mail' = mail \cup {Post(s, n, job[s][n].asked, e)}
         /\ UNCHANGED <<row, used, queries, handlers, resets>>
<1>1. job[s][n] \in Job
  BY JobFields
<1>2. OneJob(s, n)
  BY <1>1 DEF MinerEnds, OneJob, Job, TypeOK
<1>3. ReportType(job[s][n]) = job[s][n].asked
  BY JobChild DEF ReportType
<1> QED
  BY <1>2, <1>3 DEF MinerEnds, tableVars, minerVars

LEMMA MinerEndsSafe ==
  ASSUME TypeOK, LifecycleInv, NEW s \in Sectors, NEW n \in Sessions, NEW e,
         MinerEnds(s, n, e), job[s][n].child \in {"claimed", "stored", "pushed"},
         GoodReport(s, n, Post(s, n, job[s][n].asked, e)), UNCHANGED chainVars
  PROVE  LifecycleInv'
  BY MinerEndsJob, QuietSession DEF chainVars

LEMMA MinerReportsSafe ==
  ASSUME TypeOK, LifecycleInv, NEW s \in Sectors, NEW n \in Sessions,
         \/ SeedDone(s, n) \/ ReceiptOk(s, n) \/ ReceiptBad(s, n) \/ ReceiptLost(s, n)
         \/ \E e \in Errs : MinerFail(s, n, e)
  PROVE  LifecycleInv'
<1> DEFINE t == job[s][n].asked
<1>1. CASE SeedDone(s, n)
  <2>1. GoodReport(s, n, Post(s, n, t, "none"))
    BY <1>1, JobChild DEF SeedDone, MinerRuns, GoodReport, Post, NextRule
  <2> QED
    BY <1>1, <2>1, MinerEndsSafe DEF SeedDone, MinerRuns
<1>2. CASE ReceiptOk(s, n)
  <2>1. t \in {"PRECOMMIT", "COMMIT"} => landed[s][t] # 0
    BY <1>2, SealTaskAssumption DEF ReceiptOk
  <2>2. t # "SEED"
    BY <1>2, JobChild DEF ReceiptOk, MinerRuns
  <2>3. GoodReport(s, n, Post(s, n, t, "none"))
    BY <2>1, <2>2 DEF GoodReport, Post, NextRule, MinerTasks
  <2> QED
    BY <1>2, <2>3, MinerEndsSafe DEF ReceiptOk, MinerRuns
<1>3. CASE ReceiptBad(s, n) \/ ReceiptLost(s, n)
  <2>1. GoodReport(s, n, Post(s, n, t, "other"))
    BY DEF GoodReport, Post, NextRule
  <2> QED
    BY <1>3, <2>1, MinerEndsSafe DEF ReceiptBad, ReceiptLost, MinerRuns
<1>4. ASSUME NEW e \in Errs, MinerFail(s, n, e)
      PROVE  LifecycleInv'
  <2>1. GoodReport(s, n, Post(s, n, t, e))
    BY <1>4 DEF MinerFail, GoodReport, Post, NextRule
  <2> QED
    BY <1>4, <2>1, MinerEndsSafe DEF MinerFail, MinerRuns
<1> QED
  BY <1>1, <1>2, <1>3, <1>4

\* A refusal is noted: the sector is where the rule puts it, and what the
\* refusal says is true once the pool is empty, unless it drops the message.
LEMMA MinerRefusedSafe ==
  ASSUME TypeOK, LifecycleInv, NEW s \in Sectors, NEW n \in Sessions, NEW e \in Errs,
         MinerRefused(s, n, e)
  PROVE  LifecycleInv'
<1> DEFINE t == job[s][n].asked
<1>1. job[s][n].child = "stored" /\ t \in Types /\ MinerEnds(s, n, e)
  BY JobFields DEF MinerRefused, MinerRuns
<1>2. /\ OneJob(s, n) /\ mail' = mail \cup {Post(s, n, t, e)}
      /\ UNCHANGED <<row, used, queries, handlers, resets>>
  BY <1>1, MinerEndsJob
<1>3. \/ e = "allocated" /\ t = "PRECOMMIT"
      \/ e = "nosector" /\ t = "COMMIT"
  BY DEF MinerRefused
<1>4. \A u \in Sectors : mishaps'[u] = IF u = s THEN mishaps[s] \cup {e} ELSE mishaps[u]
  BY DEF MinerRefused, TypeOK
<1>5. UNCHANGED <<mpool, landed>>
  BY DEF MinerRefused
<1>6. Grows
  BY <1>2, <1>4, <1>5, EnoughStable DEF Grows
<1>7. Reached(s, t)
  BY <1>1, JobChild
<1>8. Enough(row[s].out, landed[s], mishaps'[s], NextTask[t])
  <2>1. t \notin Columns
    BY <1>3 DEF Columns
  <2> QED
    BY <1>1, <1>3, <1>4, <1>7, <2>1, EnoughNext DEF Reached
<1>9. GoodReport(s, n, Post(s, n, t, e))
  BY <1>3, <1>8 DEF GoodReport, Post
<1>10. MessagesReached'
  BY <1>5, <1>6, MessagesFrame DEF LifecycleInv
<1>11. RefusalsTrue'
  <2> SUFFICES ASSUME NEW u \in Sectors
               PROVE  /\ "allocated" \in mishaps'[u] =>
                           \/ landed[u]["PRECOMMIT"] # 0
                           \/ Pending(u, "PRECOMMIT") \/ "PRECOMMIT" \in mishaps'[u]
                      /\ "nosector" \in mishaps'[u] =>
                           \/ landed[u]["COMMIT"] # 0
                           \/ Pending(u, "COMMIT") \/ {"COMMIT", "expired"} \cap mishaps'[u] # {}
    BY <1>5 DEF RefusalsTrue, Pending
  <2>1. e = "allocated" => landed[s]["PRECOMMIT"] # 0 \/ Pending(s, "PRECOMMIT")
    BY DEF MinerRefused
  <2>2. e = "nosector" => \/ landed[s]["COMMIT"] # 0 \/ "expired" \in mishaps[s]
                          \/ Pending(s, "COMMIT")
    <3>1. t = "COMMIT" => landed[s]["PRECOMMIT"] # 0
      <4>1. Rank("COMMIT") > Rank("SEED")
        BY DEF Rank
      <4> QED
        BY <1>1, <1>7, <4>1, SeedFirst DEF LifecycleInv
    <3> QED
      BY <1>3, <3>1 DEF MinerRefused, PreCommitOnChain
  <2> QED
    BY <1>4, <2>1, <2>2 DEF LifecycleInv, RefusalsTrue
<1> QED
  BY <1>2, <1>4, <1>5, <1>9, <1>10, <1>11, SessionStep

-------------------------------------------------------------------------------
(* The chain.                                                              *)

\* A step that leaves tables and jobs alone and takes nothing from the chain.
LEMMA ChainStep ==
  ASSUME TypeOK, LifecycleInv,
         UNCHANGED <<row, used, queries, mail, job, handlers, resets>>,
         mpool' \subseteq mpool, RefusalsTrue',
         \A s \in Sectors, c \in {"PRECOMMIT", "COMMIT"} : landed[s][c] # 0 => landed'[s][c] # 0,
         \A s \in Sectors : mishaps[s] \subseteq mishaps'[s]
  PROVE  LifecycleInv'
<1>1. Grows
  BY EnoughStable DEF Grows
<1>2. JobsKept /\ NoneStarted
  BY SameJobs
<1>3. RowsReached' /\ ClaimsReached' /\ ResetsReached' /\ HandlersReached' /\ SessionsFresh'
  BY <1>1, <1>2, RowsFrame, ClaimsFrame, ResetsFrame, HandlersFrame, FreshFrame
  DEF LifecycleInv
<1>4. RunningOwned' /\ JobsReached' /\ MailReached' /\ MessagesReached' /\ SeedOfChain'
  BY <1>1, <1>2, RunningFrame, JobsFrame, MailFrame, MessagesFrame, SeedFrame
  DEF LifecycleInv
<1> QED
  BY <1>3, <1>4 DEF LifecycleInv

LEMMA RefusalCauses ==
  /\ RefusalsTrue <=> \A s \in Sectors :
       /\ "allocated" \in mishaps[s] =>
            \/ landed[s]["PRECOMMIT"] # 0
            \/ Pending(s, "PRECOMMIT") \/ "PRECOMMIT" \in mishaps[s]
       /\ "nosector" \in mishaps[s] =>
            \/ landed[s]["COMMIT"] # 0
            \/ Pending(s, "COMMIT") \/ "COMMIT" \in mishaps[s] \/ "expired" \in mishaps[s]
  /\ RefusalsTrue' <=> \A s \in Sectors :
       /\ "allocated" \in mishaps'[s] =>
            \/ landed'[s]["PRECOMMIT"] # 0
            \/ Pending(s, "PRECOMMIT")' \/ "PRECOMMIT" \in mishaps'[s]
       /\ "nosector" \in mishaps'[s] =>
            \/ landed'[s]["COMMIT"] # 0
            \/ Pending(s, "COMMIT")' \/ "COMMIT" \in mishaps'[s] \/ "expired" \in mishaps'[s]
  BY DEF RefusalsTrue

\* An executed message makes true what was refused for its sake; one without
\* effect finds that so already, or the pre-commit expired.
LEMMA ChainExecSafe ==
  ASSUME TypeOK, LifecycleInv, NEW m \in mpool, ChainExec(m)
  PROVE  LifecycleInv'
<1>1. /\ m.session # 0 /\ m.sector \in Sectors /\ m.type \in {"PRECOMMIT", "COMMIT"}
      /\ UNCHANGED mishaps
  BY SealTaskAssumption DEF TypeOK, Message, ChainExec
<1>2. \A s \in Sectors, c \in {"PRECOMMIT", "COMMIT"} :
        /\ landed[s][c] # 0 => landed'[s][c] # 0
        /\ s = m.sector /\ c = m.type => landed'[s][c] # 0 \/ UNCHANGED landed
  BY <1>1 DEF ChainExec, TypeOK
<1>3. m.type = "PRECOMMIT" => landed'[m.sector]["PRECOMMIT"] # 0
  <2>1. CASE landed[m.sector]["PRECOMMIT"] = 0
    BY <1>1, <2>1 DEF ChainExec, TypeOK
  <2>2. CASE landed[m.sector]["PRECOMMIT"] # 0
    BY <1>1, <1>2, <2>2
  <2> QED
    BY <2>1, <2>2
<1>4. m.type = "COMMIT" =>
        landed'[m.sector]["COMMIT"] # 0 \/ "expired" \in mishaps[m.sector]
  <2>1. m.type = "COMMIT" => landed[m.sector]["PRECOMMIT"] # 0
    BY DEF LifecycleInv, MessagesReached
  <2>2. CASE PreCommitOnChain(m.sector)
    BY <1>1, <2>2 DEF ChainExec, TypeOK
  <2>3. CASE ~PreCommitOnChain(m.sector)
    BY <1>1, <1>2, <2>1, <2>3 DEF PreCommitOnChain
  <2> QED
    BY <2>2, <2>3
<1>5. \A s \in Sectors, t \in {"PRECOMMIT", "COMMIT"} :
        Pending(s, t) => Pending(s, t)' \/ (s = m.sector /\ t = m.type)
  BY DEF Pending, ChainExec
<1>6. RefusalsTrue'
  BY <1>1, <1>2, <1>3, <1>4, <1>5, RefusalCauses DEF LifecycleInv
<1> QED
  BY <1>1, <1>2, <1>6, ChainStep DEF ChainExec, tableVars, callVars, minerVars

LEMMA ChainDropSafe ==
  ASSUME TypeOK, LifecycleInv, NEW m \in mpool, ChainDrop(m)
  PROVE  LifecycleInv'
<1>1. m.sector \in Sectors /\ m.type \in {"PRECOMMIT", "COMMIT"} /\ UNCHANGED landed
  BY DEF TypeOK, Message, ChainDrop
<1>2. \A s \in Sectors : mishaps'[s] = IF s = m.sector THEN mishaps[s] \cup {m.type}
                                        ELSE mishaps[s]
  BY <1>1 DEF ChainDrop, TypeOK
<1>3. \A s \in Sectors, t \in {"PRECOMMIT", "COMMIT"} :
        Pending(s, t) => Pending(s, t)' \/ t \in mishaps'[s]
  BY <1>1, <1>2 DEF Pending, ChainDrop
<1>4. RefusalsTrue'
  <2>1. \A s \in Sectors, e \in {"allocated", "nosector"} :
          e \in mishaps'[s] => e \in mishaps[s]
    BY <1>1, <1>2
  <2> QED
    BY <1>1, <1>2, <1>3, <2>1, RefusalCauses DEF LifecycleInv
<1> QED
  BY <1>1, <1>2, <1>4, ChainStep DEF ChainDrop, tableVars, callVars, minerVars

LEMMA ChainExpireSafe ==
  ASSUME TypeOK, LifecycleInv, NEW s \in Sectors, ChainExpire(s)
  PROVE  LifecycleInv'
<1>1. /\ UNCHANGED <<mpool, landed>>
      /\ \A u \in Sectors : mishaps'[u] = IF u = s THEN mishaps[u] \cup {"expired"}
                                            ELSE mishaps[u]
  BY DEF ChainExpire, TypeOK
<1>2. RefusalsTrue'
  <2>1. \A u \in Sectors, e \in {"allocated", "nosector"} :
          e \in mishaps'[u] => e \in mishaps[u]
    BY <1>1
  <2>2. \A u \in Sectors, t \in {"PRECOMMIT", "COMMIT"} : Pending(u, t)' = Pending(u, t)
    BY <1>1 DEF Pending
  <2>3. \A u \in Sectors, e \in {"PRECOMMIT", "COMMIT", "expired"} :
          e \in mishaps[u] => e \in mishaps'[u]
    BY <1>1
  <2> QED
    BY <1>1, <2>1, <2>2, <2>3, RefusalCauses DEF LifecycleInv
<1> QED
  BY <1>1, <1>2, ChainStep DEF ChainExpire, tableVars, callVars, minerVars

-------------------------------------------------------------------------------
(* The crashes: what is lost was only a claim to go on.                    *)

LEMMA WorkerCrashSafe ==
  ASSUME TypeOK, LifecycleInv, NEW w \in Workers, WorkerCrash(w)
  PROVE  LifecycleInv'
<1>1. Grows
  BY GrowsSame DEF WorkerCrash, tableVars, chainVars
<1>2. \A s \in Sectors, n \in Sessions :
        /\ job'[s][n].asked = job[s][n].asked /\ job'[s][n].task = job[s][n].task
        /\ job'[s][n].ctype = job[s][n].ctype
        /\ \/ job'[s][n].child = job[s][n].child
           \/ job[s][n].child = "spawn" /\ job'[s][n].child = "ended"
        /\ job'[s][n].parent \in {job[s][n].parent, "gone"}
        /\ job[s][n].parent = "none" => job'[s][n].parent = "none"
  <2>1. ASSUME NEW j \in Job
        PROVE  /\ Orphaned(j).asked = j.asked /\ Orphaned(j).task = j.task
               /\ Orphaned(j).ctype = j.ctype
               /\ Orphaned(j).parent = "gone"
               /\ (Orphaned(j).child = j.child \/ (j.child = "spawn" /\ Orphaned(j).child = "ended"))
    <3>1. CASE j.parent = "spawn" /\ j.child = "spawn"
      BY <3>1 DEF Orphaned, Job
    <3>2. CASE ~(j.parent = "spawn" /\ j.child = "spawn")
      BY <3>2 DEF Orphaned, Job
    <3> QED
      BY <3>1, <3>2
  <2>2. \A s \in Sectors, n \in Sessions :
          /\ job[s][n] \in Job
          /\ \/ job'[s][n] = job[s][n]
             \/ job'[s][n] = Orphaned(job[s][n]) /\ job[s][n].parent # "none"
    BY JobFields DEF WorkerCrash
  <2> TAKE s \in Sectors, n \in Sessions
  <2>3. CASE job'[s][n] = job[s][n]
    BY <2>3
  <2>4. CASE job'[s][n] = Orphaned(job[s][n]) /\ job[s][n].parent # "none"
    BY <2>1, <2>2, <2>4
  <2> QED
    BY <2>2, <2>3, <2>4
<1>3. JobsKept /\ NoneStarted
  BY <1>2 DEF JobsKept, NoneStarted
<1>4. RowsReached' /\ RunningOwned' /\ ResetsReached' /\ HandlersReached' /\ MailReached'
  BY <1>1, <1>3, RowsFrame, RunningFrame, ResetsFrame, HandlersFrame, MailFrame
  DEF WorkerCrash, LifecycleInv, tableVars
<1>0. MessagesReached' /\ SeedOfChain' /\ RefusalsTrue'
  BY <1>1, ChainFrame DEF WorkerCrash, tableVars, chainVars
<1>5. \A q \in queries : q \in Query
  BY DEF TypeOK
<1>6. \A q \in queries' : \E p \in queries :
        /\ q.sector = p.sector /\ q.task = p.task /\ q.snap = p.snap /\ q.session = p.session
        /\ q = IF p.by = w THEN [p EXCEPT !.how = "lost"] ELSE p
  BY <1>5 DEF WorkerCrash, Query
<1>7. ClaimsReached'
  BY <1>1, <1>6, ClaimsFrame DEF LifecycleInv
<1>8. SessionsFresh'
  <2>1. \A q \in queries : q.sector \in Sectors /\ (q.session # 0 => q.session \in Sessions)
    BY <1>5, SealTaskAssumption DEF Query
  <2>2. UNCHANGED used
    BY DEF WorkerCrash
  <2> QED
    BY <1>3, <1>6, <2>1, <2>2 DEF LifecycleInv, SessionsFresh, NoneStarted
<1>9. JobsReached'
  BY <1>2 DEF LifecycleInv, JobsReached, Reached, WorkerCrash, tableVars, chainVars
<1> QED
  BY <1>0, <1>4, <1>7, <1>8, <1>9 DEF LifecycleInv

LEMMA MinerCrashSafe ==
  ASSUME TypeOK, LifecycleInv, MinerCrash
  PROVE  LifecycleInv'
<1>1. Grows
  BY GrowsSame DEF MinerCrash, tableVars, chainVars
<1>2. \A s \in Sectors, n \in Sessions :
        /\ job'[s][n].asked = job[s][n].asked /\ job'[s][n].task = job[s][n].task
        /\ job'[s][n].ctype = job[s][n].ctype
        /\ job'[s][n].parent = job[s][n].parent
        /\ \/ job'[s][n].child = job[s][n].child
           \/ job[s][n].child # "none" /\ job'[s][n].child = "ended"
  <2> DEFINE ended(j) == [j EXCEPT !.child = "ended"]
  <2>1. ASSUME NEW j \in Job
        PROVE  /\ ended(j).asked = j.asked /\ ended(j).task = j.task
               /\ ended(j).ctype = j.ctype
               /\ ended(j).parent = j.parent /\ ended(j).child = "ended"
    BY DEF Job
  <2>2. \A s \in Sectors, n \in Sessions :
          /\ job[s][n] \in Job
          /\ \/ job'[s][n] = job[s][n]
             \/ job'[s][n] = ended(job[s][n]) /\ job[s][n].child # "none"
    BY JobFields DEF MinerCrash
  <2> HIDE DEF ended
  <2> TAKE s \in Sectors, n \in Sessions
  <2>3. CASE job'[s][n] = job[s][n]
    BY <2>3
  <2>4. CASE job'[s][n] = ended(job[s][n]) /\ job[s][n].child # "none"
    BY <2>1, <2>2, <2>4
  <2> QED
    BY <2>2, <2>3, <2>4
<1>3. JobsKept /\ NoneStarted
  BY <1>2 DEF JobsKept, NoneStarted
<1>4. RowsReached' /\ RunningOwned' /\ ResetsReached' /\ HandlersReached' /\ MailReached'
  BY <1>1, <1>3, RowsFrame, RunningFrame, ResetsFrame, HandlersFrame, MailFrame
  DEF MinerCrash, LifecycleInv, tableVars
<1>0. MessagesReached' /\ SeedOfChain' /\ RefusalsTrue'
  BY <1>1, ChainFrame DEF MinerCrash, tableVars, chainVars
<1>5. ClaimsReached' /\ SessionsFresh'
  BY <1>1, <1>3, ClaimsFrame, FreshFrame DEF MinerCrash, LifecycleInv
<1>6. JobsReached'
  BY <1>2 DEF LifecycleInv, JobsReached, Reached, MinerCrash, tableVars, chainVars
<1> QED
  BY <1>0, <1>4, <1>5, <1>6 DEF LifecycleInv

-------------------------------------------------------------------------------
(* The task table.                                                         *)

LEMMA AddTaskSafe ==
  ASSUME TypeOK, LifecycleInv, NEW s \in Sectors, AddTask(s)
  PROVE  LifecycleInv'
<1>1. \A u \in Sectors : row[u] \in Row
  BY DEF TypeOK
<1>2. \A u \in Sectors :
        /\ row'[u].out = row[u].out /\ row'[u].state = row[u].state
        /\ row'[u].type = IF u = s THEN "PC1" ELSE row[u].type
  BY <1>1 DEF AddTask, TypeOK, Row
<1>4. row[s].state # "RUNING"
  BY DEF AddTask, LifecycleInv, RunningOwned
<1>5. Grows /\ JobsKept /\ NoneStarted
  BY <1>2, GrowsSame, SameJobs DEF AddTask, chainVars
<1>6. RowsReached'
  <2>1. \A u \in Sectors : u # s => row'[u] = row[u]
    BY DEF AddTask, TypeOK
  <2>2. \A u \in Sectors : Enough(row[u].out, landed[u], mishaps[u], row[u].type)
    BY DEF LifecycleInv, RowsReached, Reached
  <2>3. \A u \in Sectors : Enough(row'[u].out, landed'[u], mishaps'[u], row'[u].type)
    BY <1>2, <2>1, <2>2, EnoughFirst DEF AddTask, chainVars
  <2> QED
    BY <2>3 DEF RowsReached, Reached
<1>7. RunningOwned'
  <2>1. \A u \in Sectors : u # s => row'[u] = row[u]
    BY DEF AddTask, TypeOK
  <2> QED
    BY <1>2, <1>4, <2>1 DEF AddTask, LifecycleInv, RunningOwned
<1>8. MessagesReached' /\ SeedOfChain' /\ RefusalsTrue'
  BY <1>2, <1>5, ChainFrame DEF AddTask, chainVars
<1> QED
  BY <1>5, <1>6, <1>7, <1>8, ClaimsFrame, ResetsFrame, FreshFrame, JobsFrame, MailFrame,
     HandlersFrame
  DEF AddTask, LifecycleInv, callVars, minerVars

\* A claim that names the task the row is at, under a session nobody has.
LEMMA QueryReadSafe ==
  ASSUME TypeOK, LifecycleInv, "mismatch" \notin Ops,
         NEW t \in Tasks, NEW w \in Owners, NEW s \in Sectors, NEW how,
         QueryRead(t, w, s, how), resets' \subseteq resets
  PROVE  LifecycleInv'
<1> DEFINE c == [task |-> t, by |-> w, how |-> how, sector |-> s,
                 session |-> used[s] + 1, snap |-> row[s]]
<1>1. /\ queries' = queries \cup {c} /\ used' = [used EXCEPT ![s] = @ + 1]
      /\ used[s] + 1 \in Sessions /\ used \in [Sectors -> Session0]
  BY SealTaskAssumption DEF QueryRead, TypeOK
<1>2. row[s].type = t
  BY DEF QueryRead, Selected, Claimable
<1>3. Grows /\ JobsKept /\ NoneStarted
  BY GrowsSame, SameJobs DEF QueryRead, tableVars, chainVars
<1>4. ClaimsReached'
  BY <1>1, <1>2
  DEF LifecycleInv, ClaimsReached, RowsReached, Reached, QueryRead, tableVars, chainVars
<1>5. SessionsFresh'
  <2>1. \A q \in queries : q.sector \in Sectors /\ q.session \in Nat
    BY SealTaskAssumption DEF TypeOK, Query
  <2>2. /\ job' = job
        /\ \A u \in Sectors : used[u] \in Nat /\ used'[u] = IF u = s THEN used[s] + 1 ELSE used[u]
    BY <1>1, SealTaskAssumption DEF QueryRead
  <2>3. \A q \in queries' : q.session # 0 =>
          q.session <= used'[q.sector] /\ job'[q.sector][q.session].child = "none"
    BY <1>1, <2>1, <2>2 DEF LifecycleInv, SessionsFresh
  <2>4. \A q \in queries : ~(q.sector = s /\ q.session = used[s] + 1)
    BY <2>1, <2>2 DEF LifecycleInv, SessionsFresh
  <2>5. \A p, q \in queries' :
          p.sector = q.sector /\ p.session = q.session /\ p.session # 0 => p = q
    BY <1>1, <2>4 DEF LifecycleInv, SessionsFresh
  <2>6. \A u \in Sectors, n \in Sessions : n > used'[u] => job'[u][n].child = "none"
    BY <2>2 DEF LifecycleInv, SessionsFresh
  <2> QED
    BY <2>3, <2>5, <2>6 DEF SessionsFresh
<1>6. MessagesReached' /\ SeedOfChain' /\ RefusalsTrue'
  BY <1>3, ChainFrame DEF QueryRead, tableVars, chainVars
<1> QED
  BY <1>3, <1>4, <1>5, <1>6, RowsFrame, ResetsFrame, RunningFrame, JobsFrame, MailFrame,
     HandlersFrame
  DEF QueryRead, LifecycleInv, tableVars

\* A claim by state names the task too, and no session.
LEMMA ByStateSafe ==
  ASSUME TypeOK, LifecycleInv, "mismatch" \notin Ops,
         NEW t \in Tasks, NEW w \in Owners, NEW s \in Sectors, ByState(t, w, s)
  PROVE  LifecycleInv'
<1> DEFINE c == [task |-> t, by |-> w, how |-> "bystate", sector |-> s,
                 session |-> 0, snap |-> row[s]]
<1>1. /\ queries' = queries \cup {c} /\ c.session = 0 /\ c.task = t /\ c.snap = row[s]
      /\ c.sector = s
  BY DEF ByState
<1>2. row[s].type = t
  BY DEF ByState, Selected
<1> HIDE DEF c
<1>3. Grows /\ JobsKept /\ NoneStarted
  BY GrowsSame, SameJobs DEF ByState, tableVars, chainVars
<1>4. ClaimsReached'
  BY <1>1, <1>2
  DEF LifecycleInv, ClaimsReached, RowsReached, Reached, ByState, tableVars, chainVars
<1>5. SessionsFresh'
  BY <1>1 DEF LifecycleInv, SessionsFresh, ByState
<1>6. MessagesReached' /\ SeedOfChain' /\ RefusalsTrue'
  BY <1>3, ChainFrame DEF ByState, tableVars, chainVars
<1> QED
  BY <1>3, <1>4, <1>5, <1>6, RowsFrame, ResetsFrame, RunningFrame, JobsFrame, MailFrame,
     HandlersFrame
  DEF ByState, LifecycleInv, tableVars, minerVars

LEMMA AnswerLostSafe ==
  ASSUME TypeOK, LifecycleInv, NEW q \in queries, AnswerLost(q)
  PROVE  LifecycleInv'
<1> DEFINE c == [q EXCEPT !.how = "lost"]
<1>1. /\ queries' = (queries \ {q}) \cup {c}
      /\ c.sector = q.sector /\ c.session = q.session /\ c.task = q.task /\ c.snap = q.snap
  BY DEF AnswerLost, TypeOK, Query
<1> HIDE DEF c
<1>2. Grows /\ JobsKept /\ NoneStarted
  BY GrowsSame, SameJobs DEF AnswerLost, tableVars, chainVars
<1>3. ClaimsReached'
  BY <1>1, <1>2, ClaimsFrame DEF LifecycleInv
<1>4. SessionsFresh'
  BY <1>1 DEF LifecycleInv, SessionsFresh, AnswerLost
<1>5. MessagesReached' /\ SeedOfChain' /\ RefusalsTrue'
  BY <1>2, ChainFrame DEF AnswerLost, tableVars, chainVars
<1> QED
  BY <1>2, <1>3, <1>4, <1>5, RowsFrame, ResetsFrame, RunningFrame, JobsFrame, MailFrame,
     HandlersFrame
  DEF AnswerLost, LifecycleInv, tableVars, minerVars

\* The claim makes the row RUNING under its session only if the row is still
\* at the task it read.
LEMMA ClaimedRow ==
  ASSUME TypeOK, LifecycleInv, NEW q \in queries
  PROVE  \A v \in Sectors :
           \/ Claimed(q)[v] = row[v]
           \/ /\ v = q.sector /\ row[v].type = q.task
              /\ Claimed(q)[v].type = row[v].type /\ Claimed(q)[v].out = row[v].out
              /\ Claimed(q)[v].state = "RUNING" /\ Claimed(q)[v].req = q.session
<1> DEFINE u == q.sector
           w == IF q.by # NoWorker THEN q.by ELSE q.snap.worker
           x == [row[u] EXCEPT !.state = "RUNING", !.req = q.session, !.worker = w]
<1>1. u \in Sectors /\ \A v \in Sectors : row[v] \in Row
  BY DEF TypeOK, Query
<1>2. CASE Unchanged(q.snap, row[u])
  <2>1. row[u].type = q.task
    BY <1>2 DEF Unchanged, LifecycleInv, ClaimsReached
  <2>2. x.type = row[u].type /\ x.out = row[u].out /\ x.state = "RUNING" /\ x.req = q.session
    BY <1>1 DEF Row
  <2>3. Claimed(q) = [row EXCEPT ![u] = x]
    BY <1>2 DEF Claimed
  <2> HIDE DEF x
  <2>4. Claimed(q)[u] = x /\ \A v \in Sectors : v # u => Claimed(q)[v] = row[v]
    BY <1>1, <2>3 DEF TypeOK
  <2> QED
    BY <2>1, <2>2, <2>4
<1>3. CASE ~Unchanged(q.snap, row[u])
  BY <1>3 DEF Claimed
<1> QED
  BY <1>2, <1>3

\* The job the claim starts is a job of the task it names.
LEMMA QueryWriteSafe ==
  ASSUME TypeOK, LifecycleInv, NEW q \in queries, QueryWrite(q)
  PROVE  LifecycleInv'
<1> DEFINE u == q.sector
           n == q.session
<1>1. /\ q \in Query /\ u \in Sectors /\ n \in Sessions /\ q.task \in Tasks /\ q.by \in Owners
      /\ q.snap \in Row /\ q.snap.worker \in Owners /\ n # 0
  BY SealTaskAssumption DEF QueryWrite, TypeOK, Query, Row
<1>2. /\ q.task = q.snap.type /\ Reached(u, q.task)
      /\ job[u][n].child = "none" /\ n <= used[u]
  BY <1>1 DEF LifecycleInv, ClaimsReached, SessionsFresh
<1>3. /\ \A v \in Sectors, m \in Sessions : v # u \/ m # n => job'[v][m] = job[v][m]
      /\ job'[u][n] = Started(q)
  BY <1>1 DEF QueryWrite, TypeOK
<1>4. /\ Started(q).asked = q.task /\ Started(q).task = q.task
      /\ Started(q).child \in {"spawn", "claimed", "ended"}
      /\ Started(q).child = "spawn" => q.task \in WorkerTasks
  BY <1>2 DEF Started
<1>5. JobsKept
  BY <1>2, <1>3 DEF JobsKept
<1>6. \A v \in Sectors :
        \/ row'[v] = row[v]
        \/ /\ v = u /\ row'[v].type = row[v].type /\ row'[v].out = row[v].out
           /\ row'[v].state = "RUNING" /\ row'[v].req = n /\ row[v].type = q.task
  <2>1. row' = Claimed(q)
    BY DEF QueryWrite
  <2> QED
    BY <2>1, ClaimedRow
<1>7. Grows
  BY <1>6, GrowsSame DEF QueryWrite, chainVars
<1>8. RowsReached'
  BY <1>6, <1>7, RowsFrame DEF LifecycleInv
<1>9. ResetsReached'
  <2>1. \A r \in resets' : r \in resets \/ (r.sector = u /\ r.type = q.task)
    BY <1>2 DEF QueryWrite
  <2>2. \A r \in resets : r.sector \in Sectors /\ r.type \in Types
    BY DEF TypeOK, Reset, Types
  <2>3. q.task \in Types
    BY <1>1 DEF Types
  <2> QED
    BY <1>1, <1>2, <1>7, <2>1, <2>2, <2>3 DEF LifecycleInv, ResetsReached, Reached, Grows
<1>10. SessionsFresh'
  <2>1. \A p \in queries' : /\ p \in queries /\ p # q /\ p.sector \in Sectors
                            /\ p.session # 0 => p.session \in Sessions
    BY SealTaskAssumption DEF QueryWrite, TypeOK, Query
  <2>2. \A p \in queries' : ~(p.sector = u /\ p.session = n)
    BY <1>1, <2>1 DEF LifecycleInv, SessionsFresh
  <2>3. \A v \in Sectors, m \in Sessions : m > used[v] => ~(v = u /\ m = n)
    BY <1>1, <1>2, SealTaskAssumption DEF TypeOK
  <2> QED
    BY <1>3, <2>1, <2>2, <2>3 DEF LifecycleInv, SessionsFresh, QueryWrite
<1>11. RunningOwned'
  <2> SUFFICES ASSUME NEW v \in Sectors, row'[v].state = "RUNING"
               PROVE  /\ row'[v].type # "absent"
                      /\ row'[v].req # 0 =>
                           /\ job'[v][row'[v].req].child # "none"
                           /\ job'[v][row'[v].req].asked = row'[v].type
    BY DEF RunningOwned
  <2>1. CASE row'[v] = row[v]
    <3>1. row[v].req # 0 => row[v].req \in Sessions
      BY SealTaskAssumption DEF TypeOK, Row
    <3> QED
      BY <1>5, <2>1, <3>1 DEF LifecycleInv, RunningOwned, JobsKept
  <2>2. CASE row'[v] # row[v]
    <3>1. q.task # "absent"
      BY <1>1 DEF Tasks, WorkerTasks, MinerTasks
    <3> QED
      BY <1>1, <1>3, <1>4, <1>6, <2>2, <3>1
  <2> QED
    BY <2>1, <2>2
<1>12. JobsReached'
  <2>1. \A v \in Sectors, t \in Types : Reached(v, t) => Reached(v, t)'
    BY <1>7 DEF Reached, Grows
  <2>2. \A v \in Sectors : landed'[v] = landed[v]
    BY DEF QueryWrite, chainVars
  <2>3. ASSUME NEW v \in Sectors, NEW m \in Sessions, v # u \/ m # n
        PROVE  job'[v][m] = job[v][m] /\ job[v][m].asked \in Types /\ job[v][m].ctype \in Types
    BY <1>3, <2>3, JobFields
  <2>4. q.task \in Types
    BY <1>1 DEF Types
  <2>5. \A v \in Sectors, m \in Sessions :
          v = u /\ m = n => /\ job'[v][m].child \in {"spawn", "claimed", "ended"}
                            /\ job'[v][m].child = "spawn" => job'[v][m].asked \in WorkerTasks
                            /\ job'[v][m].task = q.task /\ job'[v][m].asked = q.task
    BY <1>3, <1>4
  <2> QED
    BY <1>1, <1>2, <2>1, <2>2, <2>3, <2>4, <2>5 DEF LifecycleInv, JobsReached
<1>13. MailReached' /\ HandlersReached'
  BY <1>5, <1>7, MailFrame, HandlersFrame DEF QueryWrite, LifecycleInv
<1>14. ClaimsReached'
  BY <1>7, ClaimsFrame DEF QueryWrite, LifecycleInv
<1>15. MessagesReached' /\ SeedOfChain' /\ RefusalsTrue'
  <2>1. \A v \in Sectors : row'[v].out["SEED"] = row[v].out["SEED"]
    BY <1>6
  <2> QED
    BY <1>7, <2>1, ChainFrame DEF QueryWrite, chainVars
<1> QED
  BY <1>8, <1>9, <1>10, <1>11, <1>12, <1>13, <1>14, <1>15 DEF LifecycleInv

\* The claim under "" leaves the row RUNING for nobody.
LEMMA ByStateWriteSafe ==
  ASSUME TypeOK, LifecycleInv, NEW q \in queries, ByStateWrite(q)
  PROVE  LifecycleInv'
<1> DEFINE u == q.sector
<1>1. u \in Sectors /\ q.task \in Tasks /\ q.task \in Types /\ q.session = 0
  BY DEF ByStateWrite, TypeOK, Query, Types
<1>2. \A v \in Sectors :
        \/ row'[v] = row[v]
        \/ /\ v = u /\ row'[v].type = row[v].type /\ row'[v].out = row[v].out
           /\ row'[v].state = "RUNING" /\ row'[v].req = 0 /\ row[v].type = q.task
  <2>1. row' = Claimed(q)
    BY DEF ByStateWrite
  <2> QED
    BY <1>1, <2>1, ClaimedRow
<1>3. UNCHANGED <<landed, mishaps, mpool, used, mail, job, handlers>> /\ queries' \subseteq queries
  BY DEF ByStateWrite, chainVars
<1>4. Grows /\ JobsKept /\ NoneStarted
  BY <1>2, <1>3, GrowsSame, SameJobs
<1>5. ResetsReached'
  <2>1. \A r \in resets' : r \in resets \/ (r.sector = u /\ r.type = q.task)
    BY DEF ByStateWrite
  <2>2. \A r \in resets : r.sector \in Sectors /\ r.type \in Types
    BY DEF TypeOK, Reset, Types
  <2>3. Reached(u, q.task)
    BY DEF LifecycleInv, ClaimsReached
  <2> QED
    BY <1>1, <1>4, <2>1, <2>2, <2>3 DEF LifecycleInv, ResetsReached, Reached, Grows
<1>6. RunningOwned'
  <2>1. q.task # "absent"
    BY <1>1 DEF Tasks, WorkerTasks, MinerTasks
  <2> QED
    BY <1>2, <1>3, <2>1 DEF LifecycleInv, RunningOwned
<1>7. MessagesReached' /\ SeedOfChain' /\ RefusalsTrue'
  <2>1. \A v \in Sectors : row'[v].out["SEED"] = row[v].out["SEED"]
    BY <1>2
  <2> QED
    BY <1>3, <1>4, <2>1, ChainFrame
<1>8. RowsReached' /\ ClaimsReached' /\ SessionsFresh'
  BY <1>2, <1>3, <1>4, RowsFrame, ClaimsFrame, FreshFrame DEF LifecycleInv
<1>9. JobsReached' /\ MailReached' /\ HandlersReached'
  BY <1>3, <1>4, JobsFrame, MailFrame, HandlersFrame DEF LifecycleInv
<1> QED
  BY <1>5, <1>6, <1>7, <1>8, <1>9 DEF LifecycleInv

\* An accepted result moves the row to the next task: it is the result of the
\* task the row is at, reported by the session that was given that task.
LEMMA RecieveResultSafe ==
  ASSUME TypeOK, LifecycleInv, NEW r \in mail, RecieveResult(r)
  PROVE  LifecycleInv'
<1> DEFINE u == r.sector
           t == r.type
           n == r.session
           x == Accepted(row[u], t, r.out)
<1>1. /\ u \in Sectors /\ n \in Sessions /\ n # 0 /\ t \in Types /\ row[u] \in Row
      /\ r.out \in Session0
  BY ReportFields, SealTaskAssumption
<1>2. \A v \in Sectors : row'[v] = row[v] \/ (v = u /\ Owns(r) /\ row'[v] = x)
  BY <1>1 DEF RecieveResult, TypeOK
<1>3. x \in Row
  BY <1>1, AcceptedType, ReportFields
<1>4. /\ x.type = NextTask[t] /\ x.state = "INIT" /\ x.req = row[u].req
      /\ \A c \in Columns : x.out[c] = IF c = t THEN r.out
                                     ELSE IF c = "C1" /\ t = "COMMIT" THEN 0 ELSE row[u].out[c]
  BY <1>1 DEF Accepted, Row
<1> HIDE DEF x
<1>5. r.out = n \/ (r.out = 0 /\ t \in mishaps[u] \cap WorkerTasks)
  BY DEF LifecycleInv, MailReached
<1>6. UNCHANGED <<landed, mishaps, mpool, job, used, resets>>
  BY DEF RecieveResult, chainVars
<1>7. \A c \in Columns \ {"C1"} : row[u].out[c] # 0 => x.out[c] # 0 \/ c \in mishaps[u]
  BY <1>1, <1>4, <1>5
<1>8. Grows
  <2>1. \A s \in Sectors, c \in Columns \ {"C1"} :
          row[s].out[c] # 0 => row'[s].out[c] # 0 \/ c \in mishaps'[s]
    BY <1>2, <1>6, <1>7
  <2> QED
    BY <1>6, <2>1, EnoughStable DEF Grows
<1>9. JobsKept /\ NoneStarted
  BY <1>6, SameJobs
<1>10. ASSUME Owns(r), t \in MinerTasks
       PROVE  landed[u][IF t = "COMMIT" THEN "COMMIT" ELSE "PRECOMMIT"] # 0
  <2>1. job[u][n].asked = t
    BY <1>1, <1>10 DEF Owns, LifecycleInv, RunningOwned
  <2>2. t \notin WorkerTasks
    BY <1>10 DEF MinerTasks, WorkerTasks
  <2> QED
    BY <1>10, <2>1, <2>2 DEF RecieveResult, LifecycleInv, MailReached
<1>11. Owns(r) => Enough(x.out, landed[u], mishaps[u], NextTask[t])
  <2> SUFFICES ASSUME Owns(r) PROVE Enough(x.out, landed[u], mishaps[u], NextTask[t])
    OBVIOUS
  <2>1. Enough(row[u].out, landed[u], mishaps[u], t)
    BY <1>1 DEF Owns, LifecycleInv, RowsReached, Reached
  <2>2. t \in Columns \ {"C1"} => x.out[t] # 0 \/ t \in mishaps[u]
    BY <1>1, <1>4, <1>5
  <2>3. /\ t = "PRECOMMIT" => landed[u]["PRECOMMIT"] # 0
        /\ t = "COMMIT" => landed[u]["COMMIT"] # 0
    BY <1>10 DEF MinerTasks
  <2> QED
    BY <1>1, <1>7, <2>1, <2>2, <2>3, EnoughNext
<1>12. RowsReached'
  <2> SUFFICES ASSUME NEW v \in Sectors
               PROVE  Enough(row'[v].out, landed'[v], mishaps'[v], row'[v].type)
    BY DEF RowsReached, Reached
  <2>1. CASE row'[v] = row[v]
    BY <1>6, <2>1 DEF LifecycleInv, RowsReached, Reached
  <2>2. CASE v = u /\ Owns(r) /\ row'[v] = x
    BY <1>4, <1>6, <1>11, <2>2
  <2> QED
    BY <1>2, <2>1, <2>2
<1>13. RunningOwned'
  <2>1. \A s \in Sectors : row'[s].state = "RUNING" => row'[s] = row[s]
    BY <1>2, <1>4
  <2> QED
    BY <1>9, <2>1, RunningFrame DEF LifecycleInv
<1>14. mail' \subseteq mail /\ UNCHANGED <<queries, handlers>>
  BY DEF RecieveResult, Delivered
<1>15. SeedOfChain'
  <2>1. Owns(r) /\ t = "SEED" => landed[u]["PRECOMMIT"] # 0
    BY <1>10 DEF MinerTasks
  <2>2. t # "SEED" => x.out["SEED"] = row[u].out["SEED"]
    BY <1>4 DEF Columns
  <2> QED
    BY <1>2, <1>6, <2>1, <2>2 DEF LifecycleInv, SeedOfChain
<1>16. MessagesReached' /\ RefusalsTrue'
  BY <1>6, <1>8, MessagesFrame, RefusalsFrame DEF LifecycleInv
<1>17. ClaimsReached' /\ ResetsReached' /\ SessionsFresh'
  BY <1>6, <1>8, <1>9, <1>14, ClaimsFrame, ResetsFrame, FreshFrame DEF LifecycleInv
<1>18. JobsReached' /\ MailReached' /\ HandlersReached'
  BY <1>6, <1>8, <1>9, <1>14, JobsFrame, MailFrame, HandlersFrame DEF LifecycleInv
<1> QED
  BY <1>12, <1>13, <1>15, <1>16, <1>17, <1>18 DEF LifecycleInv

LEMMA RecieveErrorSafe ==
  ASSUME TypeOK, LifecycleInv, NEW r \in mail, RecieveError(r)
  PROVE  LifecycleInv'
<1>1. /\ r.sector \in Sectors /\ r.type \in Types
      /\ UNCHANGED <<landed, mishaps, mpool, job>> /\ mail' \subseteq mail
  BY ReportFields DEF RecieveError, Delivered, chainVars
<1>2. \A v \in Sectors :
        /\ row'[v].type = row[v].type /\ row'[v].out = row[v].out
        /\ row'[v] = row[v] \/ row'[v].state = "ERROR"
  <2>1. \A v \in Sectors : row[v] \in Row
    BY DEF TypeOK
  <2> QED
    BY <2>1 DEF RecieveError, TypeOK, Row
<1>3. Grows /\ JobsKept /\ NoneStarted
  BY <1>1, <1>2, GrowsSame, SameJobs
<1>4. HandlersReached'
  <2>1. \A h \in handlers' : h \in handlers \/
          (/\ h.sector = r.sector /\ h.type = r.type /\ h.err = r.err
           /\ h.todo = "next" => NextRule(h.type, h.err))
    BY DEF RecieveError, Verdict
  <2>2. NextRule(r.type, r.err) => Reached(r.sector, NextTask[r.type])
    BY DEF LifecycleInv, MailReached
  <2>3. \A h \in handlers : h.sector \in Sectors /\ NextTask[h.type] \in Types
    BY NextTaskType DEF TypeOK, Handler
  <2> QED
    BY <1>1, <1>3, <2>1, <2>2, <2>3, NextTaskType
    DEF LifecycleInv, HandlersReached, Reached, Grows
<1>5. RunningOwned'
  <2>1. \A v \in Sectors : row'[v].state = "RUNING" => row'[v] = row[v]
    BY <1>2
  <2> QED
    BY <1>3, <2>1, RunningFrame DEF LifecycleInv
<1>6. MessagesReached' /\ SeedOfChain' /\ RefusalsTrue'
  BY <1>1, <1>2, <1>3, ChainFrame
<1> QED
  BY <1>1, <1>2, <1>3, <1>4, <1>5, <1>6, RowsFrame, ClaimsFrame, ResetsFrame, FreshFrame,
     JobsFrame, MailFrame
  DEF RecieveError, LifecycleInv

LEMMA HandlerReadSafe ==
  ASSUME TypeOK, LifecycleInv, NEW h \in handlers, HandlerRead(h)
  PROVE  LifecycleInv'
<1>1. Grows /\ JobsKept /\ NoneStarted
  BY GrowsSame, SameJobs DEF HandlerRead, tableVars, chainVars
<1>2. HandlersReached'
  <2>1. h \in Handler
    BY DEF TypeOK
  <2>2. \A g \in handlers' : g \in handlers \/
          (/\ g.sector = h.sector /\ g.type = h.type /\ g.err = h.err
           /\ g.todo = "next" => NextRule(g.type, g.err))
    BY <2>1 DEF HandlerRead, Verdict, Handler
  <2> QED
    BY <2>2 DEF HandlerRead, LifecycleInv, HandlersReached, Reached, tableVars, chainVars
<1>3. MessagesReached' /\ SeedOfChain' /\ RefusalsTrue'
  BY <1>1, ChainFrame DEF HandlerRead, tableVars, chainVars
<1> QED
  BY <1>1, <1>2, <1>3, RowsFrame, ClaimsFrame, ResetsFrame, FreshFrame, RunningFrame, JobsFrame,
     MailFrame
  DEF HandlerRead, LifecycleInv, tableVars, callVars

\* A write of a task or a state over whatever the row has become: the task has
\* been reached, and the row is not RUNING any more.
LEMMA RowWritten ==
  ASSUME TypeOK, LifecycleInv, NEW u \in Sectors, NEW t \in Types, NEW st \in States,
         st # "RUNING", Reached(u, t),
         row' = [row EXCEPT ![u] = [@ EXCEPT !.type = t, !.state = st]],
         UNCHANGED <<mpool, landed, mishaps, used, queries, mail, job>>,
         resets' \subseteq resets, handlers' \subseteq handlers
  PROVE  LifecycleInv'
<1>1. \A v \in Sectors :
        /\ row'[v].out = row[v].out
        /\ row'[v] = row[v] \/ (v = u /\ row'[v].type = t /\ row'[v].state = st)
  <2>1. \A v \in Sectors : row[v] \in Row
    BY DEF TypeOK
  <2> QED
    BY <2>1 DEF TypeOK, Row
<1>2. Grows /\ JobsKept /\ NoneStarted
  BY <1>1, GrowsSame, SameJobs
<1>3. RowsReached'
  BY <1>1 DEF LifecycleInv, RowsReached, Reached
<1>4. RunningOwned'
  <2>1. \A v \in Sectors : row'[v].state = "RUNING" => row'[v] = row[v]
    BY <1>1
  <2> QED
    BY <1>2, <2>1, RunningFrame DEF LifecycleInv
<1>5. MessagesReached' /\ SeedOfChain' /\ RefusalsTrue'
  BY <1>1, <1>2, ChainFrame
<1> QED
  BY <1>2, <1>3, <1>4, <1>5, ClaimsFrame, ResetsFrame, FreshFrame, JobsFrame, MailFrame,
     HandlersFrame
  DEF LifecycleInv

LEMMA HandlerWriteSafe ==
  ASSUME TypeOK, LifecycleInv, NEW h \in handlers, HandlerWrite(h)
  PROVE  LifecycleInv'
<1> DEFINE u == h.sector
<1>1. u \in Sectors /\ h.type \in Types /\ row[u] \in Row
  BY DEF TypeOK, Handler
<1>2. /\ handlers' \subseteq handlers
      /\ UNCHANGED <<mpool, landed, mishaps, used, queries, mail, job, resets>>
  BY DEF HandlerWrite, callVars, chainVars
<1>3. CASE h.todo = "retry"
  <2>1. row' = [row EXCEPT ![u] = [@ EXCEPT !.type = row[u].type, !.state = RuleState(h.type)]]
    <3>1. ASSUME NEW x \in Row, NEW st
          PROVE  [x EXCEPT !.state = st] = [x EXCEPT !.type = x.type, !.state = st]
      BY DEF Row
    <3> QED
      BY <1>1, <1>3, <3>1 DEF HandlerWrite
  <2>2. /\ row[u].type \in Types /\ Reached(u, row[u].type)
        /\ RuleState(h.type) \in States /\ RuleState(h.type) # "RUNING"
    BY <1>1 DEF Row, LifecycleInv, RowsReached, RuleState, States
  <2> QED
    BY <1>1, <1>2, <2>1, <2>2, RowWritten
<1>4. CASE h.todo # "retry"
  <2>1. h.todo = "next"
    BY <1>4 DEF HandlerWrite, TypeOK, Handler
  <2>2. row' = [row EXCEPT ![u] = [@ EXCEPT !.type = NextTask[h.type],
                                           !.state = NextRuleState(h.type)]]
    <3>1. ASSUME NEW x \in Row, NEW st, NEW t
          PROVE  [x EXCEPT !.state = st, !.type = t] = [x EXCEPT !.type = t, !.state = st]
      BY DEF Row
    <3> QED
      BY <1>1, <1>4, <3>1 DEF HandlerWrite
  <2>3. Reached(u, NextTask[h.type]) /\ NextTask[h.type] \in Types
    BY <1>1, <2>1, NextTaskType DEF LifecycleInv, HandlersReached
  <2>4. NextRuleState(h.type) \in States /\ NextRuleState(h.type) # "RUNING"
    BY DEF NextRuleState, States
  <2> QED
    BY <1>1, <1>2, <2>2, <2>3, <2>4, RowWritten
<1> QED
  BY <1>3, <1>4

LEMMA ResetWriteSafe ==
  ASSUME TypeOK, LifecycleInv, NEW r \in resets, ResetWrite(r)
  PROVE  LifecycleInv'
<1>1. r.sector \in Sectors /\ r.type \in Types
  BY DEF TypeOK, Reset, Types
<1>2. /\ resets' \subseteq resets
      /\ UNCHANGED <<mpool, landed, mishaps, used, queries, mail, job, handlers>>
  BY DEF ResetWrite, callVars, chainVars
<1>3. CASE row' = row
  <2>1. Grows /\ JobsKept /\ NoneStarted
    BY <1>2, <1>3, GrowsSame, SameJobs
  <2>2. MessagesReached' /\ SeedOfChain' /\ RefusalsTrue'
    BY <1>2, <1>3, <2>1, ChainFrame
  <2> QED
    BY <1>2, <1>3, <2>1, <2>2, RowsFrame, ClaimsFrame, ResetsFrame, FreshFrame, RunningFrame,
       JobsFrame, MailFrame, HandlersFrame
    DEF LifecycleInv
<1>4. ASSUME NEW t \in {r.type} \cup (IF r.how = "wreset" /\ r.type = "PC2" THEN {"PC1"} ELSE {}),
             row' = [row EXCEPT ![r.sector] =
                      [@ EXCEPT !.type = t,
                                !.state = IF r.how = "wreset" THEN "RETRY" ELSE "INIT"]]
      PROVE  LifecycleInv'
  <2>1. t \in Types /\ Reached(r.sector, t)
    <3>1. Reached(r.sector, r.type)
      BY DEF LifecycleInv, ResetsReached
    <3>2. "PC1" \in Types /\ Reached(r.sector, "PC1")
      BY EnoughFirst DEF Types, Tasks, WorkerTasks, Reached
    <3> QED
      BY <1>1, <3>1, <3>2
  <2>2. {"RETRY", "INIT"} \subseteq States
    BY DEF States
  <2> QED
    BY <1>1, <1>2, <1>4, <2>1, <2>2, RowWritten
<1> QED
  BY <1>3, <1>4 DEF ResetWrite

LEMMA ResetReadSafe ==
  ASSUME TypeOK, LifecycleInv, NEW s \in Sectors, NEW w,
         WorkerResetRead(w, s) \/ MinerResetRead(s)
  PROVE  LifecycleInv'
<1>1. UNCHANGED <<row, mpool, landed, mishaps, used, queries, mail, job, handlers>>
  BY DEF WorkerResetRead, MinerResetRead, tableVars, callVars, chainVars
<1>2. Grows /\ JobsKept /\ NoneStarted
  BY <1>1, GrowsSame, SameJobs
<1>3. \A r \in resets' : r \in resets \/ (r.sector = s /\ r.type = row[s].type)
  BY DEF WorkerResetRead, MinerResetRead
<1>4. row[s].type \in Tasks
  <2>1. CASE WorkerResetRead(w, s)
    <3>1. row[s].state = "RUNING" /\ row[s].req # 0 /\ row[s].req \in Session0
      BY <2>1 DEF WorkerResetRead, TypeOK, Row
    <3>2. row[s].req \in Sessions
      BY <3>1, SealTaskAssumption
    <3> QED
      BY <3>1, <3>2 DEF LifecycleInv, RunningOwned, JobsReached
  <2>2. CASE MinerResetRead(s)
    BY <2>2 DEF MinerResetRead, Tasks
  <2> QED
    BY <2>1, <2>2
<1>5. ResetsReached'
  BY <1>1, <1>3, <1>4 DEF LifecycleInv, ResetsReached, RowsReached, Reached
<1>6. MessagesReached' /\ SeedOfChain' /\ RefusalsTrue'
  BY <1>1, <1>2, ChainFrame
<1> QED
  BY <1>1, <1>2, <1>5, <1>6, RowsFrame, ClaimsFrame, FreshFrame, RunningFrame, JobsFrame,
     MailFrame, HandlersFrame
  DEF LifecycleInv

LEMMA PoStCallsSafe ==
  ASSUME TypeOK, LifecycleInv, NEW s \in Sectors, RegisterPoSt(s) \/ UpdatePoStInfo(s)
  PROVE  LifecycleInv'
<1>1. UNCHANGED <<mpool, landed, mishaps, used, queries, mail, job, handlers, resets>>
  BY DEF RegisterPoSt, UpdatePoStInfo, callVars, chainVars
<1>2. \A v \in Sectors :
        /\ row'[v].type = row[v].type /\ row'[v].state = row[v].state /\ row'[v].req = row[v].req
        /\ \A c \in Columns \ {"C1"} : row'[v].out[c] = row[v].out[c]
  <2>1. CASE RegisterPoSt(s)
    BY <2>1 DEF RegisterPoSt
  <2>2. CASE UpdatePoStInfo(s)
    <3> DEFINE y == [row[s] EXCEPT !.out["C1"] = 0]
    <3>1. row[s] \in Row
      BY DEF TypeOK
    <3>2. ASSUME NEW x \in Row, NEW z, z = [x EXCEPT !.out["C1"] = 0]
          PROVE  /\ z.type = x.type /\ z.state = x.state /\ z.req = x.req
                 /\ \A c \in Columns \ {"C1"} : z.out[c] = x.out[c]
      BY <3>2 DEF Row
    <3>3. row'[s] = y /\ \A v \in Sectors : v # s => row'[v] = row[v]
      BY <2>2 DEF UpdatePoStInfo, TypeOK
    <3> HIDE DEF y
    <3>4. /\ y.type = row[s].type /\ y.state = row[s].state /\ y.req = row[s].req
          /\ \A c \in Columns \ {"C1"} : y.out[c] = row[s].out[c]
      BY <3>1, <3>2 DEF y
    <3> QED
      BY <3>3, <3>4
  <2> QED
    BY <2>1, <2>2
<1>3. Grows
  BY <1>1, <1>2, EnoughStable DEF Grows
<1>4. JobsKept /\ NoneStarted
  BY <1>1, SameJobs
<1>5. MessagesReached' /\ SeedOfChain' /\ RefusalsTrue'
  <2>1. \A v \in Sectors : row'[v].out["SEED"] = row[v].out["SEED"]
    BY <1>2 DEF Columns
  <2> QED
    BY <1>1, <1>3, <2>1, ChainFrame
<1> QED
  BY <1>1, <1>2, <1>3, <1>4, <1>5, RowsFrame, ClaimsFrame, ResetsFrame, FreshFrame, RunningFrame,
     JobsFrame, MailFrame, HandlersFrame
  DEF LifecycleInv

-------------------------------------------------------------------------------
LEMMA LifecycleInit == Init => LifecycleInv
<1> SUFFICES ASSUME Init PROVE LifecycleInv
  OBVIOUS
<1>1. \A s \in Sectors :
        /\ row[s].type = "absent" /\ row[s].state = "INIT" /\ row[s].out["SEED"] = 0
        /\ \A n \in Sessions : job[s][n].child = "none" /\ job[s][n].parent = "none"
  BY DEF Init, NoRow, NoJob, NoOut, Columns
<1>2. RowsReached
  BY <1>1, EnoughFirst DEF RowsReached, Reached
<1>3. ClaimsReached /\ ResetsReached /\ MailReached /\ HandlersReached
  BY DEF Init, ClaimsReached, ResetsReached, MailReached, HandlersReached
<1>4. SessionsFresh /\ RunningOwned /\ JobsReached
  BY <1>1 DEF Init, SessionsFresh, RunningOwned, JobsReached
<1>5. MessagesReached /\ SeedOfChain /\ RefusalsTrue
  BY <1>1 DEF Init, MessagesReached, SeedOfChain, RefusalsTrue
<1> QED
  BY <1>2, <1>3, <1>4, <1>5 DEF LifecycleInv

LEMMA LifecycleStep ==
  ASSUME TypeOK, LifecycleInv, "mismatch" \notin Ops, [Next]_vars
  PROVE  LifecycleInv'
<1>1. CASE \E s \in Sectors : AddTask(s)
  BY <1>1, AddTaskSafe
<1>2. CASE \E t \in Tasks, w \in Owners, s \in Sectors : Poll(t, w, s)
  BY <1>2, QueryReadSafe DEF Poll
<1>3. CASE \E s \in Sectors, n \in Sessions : WorkerStep(s, n)
  BY <1>3, WatchSafe, ChildReadSafe, ChildEndsSafe DEF WorkerStep
<1>4. CASE \E s \in Sectors, n \in Sessions : MinerStep(s, n)
  BY <1>4, MinerStoreSafe, MinerPushSafe, MinerReportsSafe DEF MinerStep
<1>5. CASE TableStep
  <2>1. ASSUME NEW r \in resets, ByStateRetry(r)
        PROVE  LifecycleInv'
    <3>1. r.type \in Tasks /\ r.by \in Owners /\ r.sector \in Sectors
      BY DEF LifecycleInv, ResetsReached, TypeOK, Reset
    <3> QED
      BY <2>1, <3>1, QueryReadSafe DEF ByStateRetry
  <2> QED
    BY <1>5, <2>1, QueryWriteSafe, RecieveResultSafe, RecieveErrorSafe, HandlerReadSafe,
       HandlerWriteSafe, PoStCallsSafe, ByStateWriteSafe, ResetWriteSafe
    DEF TableStep
<1>6. CASE \E m \in mpool : ChainExec(m) \/ ChainDrop(m)
  BY <1>6, ChainExecSafe, ChainDropSafe
<1>7. CASE \E s \in Sectors : ChainExpire(s)
  BY <1>7, ChainExpireSafe
<1>8. CASE \E s \in Sectors, n \in Sessions : SessionFault(s, n)
  BY <1>8, SpawnFailSafe, ChildEndsSafe, ChildEmptySafe, GiveUpSafe, MinerReportsSafe,
     MinerRefusedSafe
  DEF SessionFault
<1>9. CASE \E q \in queries : AnswerLost(q)
  BY <1>9, AnswerLostSafe
<1>10. CASE Operator
  <2>1. Workers \subseteq Owners /\ NoWorker \in Owners
    BY DEF Owners
  <2> QED
    BY <1>10, <2>1, QueryReadSafe, ByStateSafe, ResetReadSafe
    DEF Operator, Trigger, Restart, Send
<1>11. CASE \E w \in Workers : WorkerCrash(w)
  BY <1>11, WorkerCrashSafe
<1>12. CASE MinerCrash
  BY <1>12, MinerCrashSafe
<1>13. CASE UNCHANGED vars
  <2>1. Grows /\ JobsKept /\ NoneStarted
    BY <1>13, GrowsSame, SameJobs DEF vars
  <2>2. MessagesReached' /\ SeedOfChain' /\ RefusalsTrue'
    BY <1>13, <2>1, ChainFrame DEF vars
  <2> QED
    BY <1>13, <2>1, <2>2, RowsFrame, ClaimsFrame, ResetsFrame, FreshFrame, RunningFrame,
       JobsFrame, MailFrame, HandlersFrame
    DEF LifecycleInv, vars
<1> QED
  BY <1>1, <1>2, <1>3, <1>4, <1>5, <1>6, <1>7, <1>8, <1>9, <1>10, <1>11, <1>12, <1>13
  DEF Next

(* As long as the operator names the task a row is at, whatever a task,    *)
(* a claim, a reset, a report or a failure handler may still write in a    *)
(* row, the sector has reached it, by what it has or by what it was said   *)
(* to have, and every such saying has its cause (QueryTask,                *)
(* RecieveTaskResult, TaskFailedHandle, ResetAbortedSession).              *)
THEOREM Lifecycle ==
  ASSUME "mismatch" \notin Ops
  PROVE  Spec => []LifecycleInv
<1>1. Init => TypeOK /\ LifecycleInv
  BY TypeInit, LifecycleInit
<1>2. TypeOK /\ LifecycleInv /\ [Next]_vars => TypeOK' /\ LifecycleInv'
  BY TypeStep, LifecycleStep
<1> QED
  BY <1>1, <1>2, PTL DEF Spec

(* A row at a task has the result of every phase before it, or a worker    *)
(* has reported a success of that phase and sent nothing: no interleaving  *)
(* of claims, resets, restarts, late results and failure rules skips one.  *)
THEOREM NoPhaseSkipped ==
  ASSUME "mismatch" \notin Ops
  PROVE  Spec => []OutputsPresent
<1>1. LifecycleInv => OutputsPresent
  BY DEF LifecycleInv, RowsReached, Reached, Enough, OutputsPresent
<1> QED
  BY <1>1, Lifecycle, PTL

(* A row past PRECOMMIT, past SEED or PROVING has its messages on chain,   *)
(* or a sender was refused for a message still in the pool, dropped or     *)
(* expired: whatever is lost, repeated or refused, the table is ahead of   *)
(* the chain in no other way (TaskFailedHandle's rules, GetSeedRand).      *)
THEOREM TableFollowsChain ==
  ASSUME "mismatch" \notin Ops
  PROVE  Spec => []ChainBacked
<1>1. TypeOK /\ LifecycleInv => ChainBacked
  <2> SUFFICES ASSUME TypeOK, LifecycleInv, NEW s \in Sectors
               PROVE  /\ Rank(row[s].type) > Rank("PRECOMMIT") =>
                           \/ landed[s]["PRECOMMIT"] # 0
                           \/ /\ "allocated" \in mishaps[s]
                              /\ Pending(s, "PRECOMMIT") \/ "PRECOMMIT" \in mishaps[s]
                      /\ Rank(row[s].type) > Rank("SEED") => landed[s]["PRECOMMIT"] # 0
                      /\ row[s].type = "PROVING" =>
                           \/ landed[s]["COMMIT"] # 0
                           \/ /\ "nosector" \in mishaps[s]
                              /\ Pending(s, "COMMIT") \/ {"COMMIT", "expired"} \cap mishaps[s] # {}
    BY DEF ChainBacked
  <2>1. Reached(s, row[s].type) /\ row[s].type \in Types
    BY DEF LifecycleInv, RowsReached, TypeOK, Row
  <2>2. Rank(row[s].type) > Rank("SEED") => landed[s]["PRECOMMIT"] # 0
    BY <2>1, SeedFirst DEF LifecycleInv
  <2> QED
    BY <2>1, <2>2 DEF LifecycleInv, Reached, Enough, RefusalsTrue
<1> QED
  BY <1>1, Lifecycle, TypeCorrect, PTL

-------------------------------------------------------------------------------
(* The task table implements SectorLifecycle.                              *)

Lifecycles == <<StageOf, DoneOf>>
Lasting == Columns \ {"C1"}

-------------------------------------------------------------------------------
(* The two pipelines agree.                                                *)

LEMMA StageNames ==
  /\ Stage!Stages = Tasks \cup {"PROVING"}
  /\ Stage!Lasting = Lasting \cup {"PRECOMMIT", "COMMIT"}
  /\ Stage!OnChain = {"PRECOMMIT", "COMMIT"}
  /\ Stage!Lasting \subseteq Tasks
<1>1. Stage!Stages = {"PC1", "PC2", "PRECOMMIT", "SEED", "C1", "C2", "COMMIT", "PROVING"}
  BY DEF Stage!Stages, Stage!Position
<1> QED
  BY <1>1 DEF Stage!Lasting, Stage!OnChain, Tasks, WorkerTasks, MinerTasks, Columns, Lasting

LEMMA StageRank ==
  ASSUME NEW t \in Stage!Stages
  PROVE  Stage!Position[t] = Rank(t)
<1>1. t \in {"PC1", "PC2", "PRECOMMIT", "SEED", "C1", "C2", "COMMIT", "PROVING"}
  BY DEF Stage!Stages, Stage!Position
<1> QED
  BY <1>1 DEF Stage!Position, Rank

\* The results and the messages that a task needs, or what was said in their
\* place, are the stages before it.
Behind(o, l, x) ==
  {c \in Columns \ {"C1"} : o[c] # 0 \/ c \in x}
    \cup {t \in {"PRECOMMIT", "COMMIT"} : l[t] # 0 \/ SaidBy[t] \in x}

LEMMA EarlierIsEnough ==
  ASSUME NEW o, NEW l, NEW x, NEW t \in Stage!Stages
  PROVE  Enough(o, l, x, t) <=> Stage!Earlier(t) \subseteq Behind(o, l, x)
<1> DEFINE D == Behind(o, l, x)
<1>1. \A u \in Stage!Lasting : u \in Stage!Stages
  BY DEF Stage!Lasting
<1>2. Stage!Earlier(t) \subseteq D <=> \A u \in Stage!Lasting : Rank(u) < Rank(t) => u \in D
  BY <1>1, StageRank DEF Stage!Earlier
<1>3. \A u \in Stage!Stages : Rank(u) \in 1..8
  BY StageNames DEF Rank, Tasks, WorkerTasks, MinerTasks
<1>4. Rank("COMMIT") < Rank(t) <=> t = "PROVING"
  BY StageNames DEF Rank, Tasks, WorkerTasks, MinerTasks
<1>5. "PRECOMMIT" \in Stage!Lasting /\ "COMMIT" \in Stage!Lasting /\ Lasting \subseteq Stage!Lasting
  BY StageNames
<1>6. \A u \in Stage!Lasting : u \in Lasting \/ u = "PRECOMMIT" \/ u = "COMMIT"
  BY StageNames
<1>7. "PRECOMMIT" \notin Lasting /\ "COMMIT" \notin Lasting
  BY DEF Lasting, Columns
<1>8. Enough(o, l, x, t) <=>
        /\ \A c \in Lasting : Rank(c) < Rank(t) => o[c] # 0 \/ c \in x
        /\ Rank("PRECOMMIT") < Rank(t) => l["PRECOMMIT"] # 0 \/ "allocated" \in x
        /\ t = "PROVING" => l["COMMIT"] # 0 \/ "nosector" \in x
  BY <1>1, <1>3, <1>5 DEF Enough, Lasting
<1>9. \A u : u \in D <=> \/ u \in Lasting /\ (o[u] # 0 \/ u \in x)
                         \/ u = "PRECOMMIT" /\ (l[u] # 0 \/ "allocated" \in x)
                         \/ u = "COMMIT" /\ (l[u] # 0 \/ "nosector" \in x)
  BY DEF Lasting, Behind, SaidBy
<1> HIDE DEF D
<1>10. Enough(o, l, x, t) <=> Stage!Earlier(t) \subseteq D
  BY <1>2, <1>4, <1>5, <1>6, <1>7, <1>8, <1>9
<1> QED
  BY <1>10 DEF D

LEMMA DoneIsBehind ==
  ASSUME NEW s \in Sectors
  PROVE  /\ DoneOf[s] = Behind(row[s].out, landed[s], mishaps[s])
         /\ DoneOf'[s] = Behind(row'[s].out, landed'[s], mishaps'[s])
  BY DEF DoneOf, Behind

\* A sector is ready for a task as soon as it has reached it, and not before.
LEMMA ReadyIsReached ==
  ASSUME NEW s \in Sectors, NEW t \in Stage!Stages
  PROVE  /\ Stage!Ready(s, t) <=> Reached(s, t)
         /\ Stage!Ready(s, t)' <=> Reached(s, t)'
  BY DoneIsBehind, EarlierIsEnough DEF Stage!Ready, Reached

-------------------------------------------------------------------------------
(* The shapes of a step.                                                   *)

KeepsResults ==
  \A s \in Sectors, c \in Lasting : row'[s].out[c] # 0 <=> row[s].out[c] # 0

LEMMA SameDone ==
  ASSUME KeepsResults, UNCHANGED <<landed, mishaps>>
  PROVE  UNCHANGED DoneOf
  BY DEF KeepsResults, DoneOf, Lasting

\* One sector is put at another task, all results stay.
LEMMA Placed ==
  ASSUME LifecycleInv', KeepsResults, UNCHANGED <<landed, mishaps>>, NEW u \in Sectors,
         \A s \in Sectors : s # u => row'[s].type = row[s].type,
         row'[u].type = row[u].type \/ row'[u].type \in Stage!Stages
  PROVE  [Stage!Next]_Lifecycles
<1>1. UNCHANGED DoneOf
  BY SameDone
<1>2. CASE row'[u].type = row[u].type
  BY <1>1, <1>2 DEF StageOf, Lifecycles
<1>3. CASE row'[u].type \in Stage!Stages
  <2> DEFINE t == row'[u].type
  <2>1. Reached(u, t)
    <3>1. Enough(row'[u].out, landed[u], mishaps[u], t)
      BY DEF LifecycleInv, RowsReached, Reached
    <3> QED
      BY <3>1 DEF KeepsResults, Reached, Enough, Lasting
  <2>2. Stage!Ready(u, t)
    BY <1>3, <2>1, ReadyIsReached
  <2>3. StageOf' = [StageOf EXCEPT ![u] = t]
    BY DEF StageOf
  <2>4. Stage!Place(u, t)
    BY <1>1, <2>2, <2>3 DEF Stage!Place
  <2> QED
    BY <1>3, <2>4 DEF Stage!Next
<1> QED
  BY <1>2, <1>3

LEMMA RowsKept ==
  ASSUME UNCHANGED <<row, landed, mishaps>>
  PROVE  [Stage!Next]_Lifecycles
<1>1. UNCHANGED DoneOf
  BY DEF DoneOf
<1>2. UNCHANGED StageOf
  BY DEF StageOf
<1> QED
  BY <1>1, <1>2 DEF Lifecycles

-------------------------------------------------------------------------------
(* The steps that touch rows, results or the chain.                        *)

LEMMA AddTaskStage ==
  ASSUME TypeOK, LifecycleInv', NEW s \in Sectors, AddTask(s)
  PROVE  [Stage!Next]_Lifecycles
<1>1. row[s] \in Row /\ \A u \in Sectors : u # s => row'[u] = row[u]
  BY DEF AddTask, TypeOK
<1>2. row'[s].type = "PC1" /\ row'[s].out = row[s].out
  BY <1>1 DEF AddTask, TypeOK, Row
<1>3. KeepsResults /\ UNCHANGED <<landed, mishaps>>
  BY <1>1, <1>2 DEF KeepsResults, AddTask, chainVars
<1>4. "PC1" \in Stage!Stages
  BY StageNames DEF Tasks, WorkerTasks
<1> QED
  BY <1>1, <1>2, <1>3, <1>4, Placed

\* A claim or an error changes a row's state, worker and session at most.
LEMMA RowNotMoved ==
  ASSUME NEW u \in Sectors, LifecycleInv', UNCHANGED <<landed, mishaps>>,
         \A s \in Sectors : row'[s].type = row[s].type /\ row'[s].out = row[s].out
  PROVE  [Stage!Next]_Lifecycles
<1>1. KeepsResults
  BY DEF KeepsResults
<1> QED
  BY <1>1, Placed

LEMMA ClaimStage ==
  ASSUME TypeOK, LifecycleInv, LifecycleInv', NEW q \in queries,
         QueryWrite(q) \/ ByStateWrite(q)
  PROVE  [Stage!Next]_Lifecycles
<1>1. q.sector \in Sectors
  BY DEF TypeOK, Query
<1>2. row' = Claimed(q) /\ UNCHANGED <<landed, mishaps>>
  BY DEF QueryWrite, ByStateWrite, chainVars
<1>3. \A s \in Sectors : row'[s].type = row[s].type /\ row'[s].out = row[s].out
  BY <1>2, ClaimedRow
<1> QED
  BY <1>1, <1>2, <1>3, RowNotMoved

LEMMA RecieveErrorStage ==
  ASSUME TypeOK, LifecycleInv', NEW r \in mail, RecieveError(r)
  PROVE  [Stage!Next]_Lifecycles
<1>1. r.sector \in Sectors /\ row[r.sector] \in Row /\ UNCHANGED <<landed, mishaps>>
  BY ReportFields DEF RecieveError, chainVars
<1>2. \A s \in Sectors : row'[s].type = row[s].type /\ row'[s].out = row[s].out
  BY <1>1 DEF RecieveError, TypeOK, Row
<1> QED
  BY <1>1, <1>2, RowNotMoved

\* An accepted result of a task other than C1, PRECOMMIT and COMMIT finishes
\* the task; those leave nothing in the row, and the chain has the messages.
LEMMA RecieveResultStage ==
  ASSUME TypeOK, LifecycleInv, LifecycleInv', NEW r \in mail, RecieveResult(r)
  PROVE  [Stage!Next]_Lifecycles
<1> DEFINE u == r.sector
           t == r.type
           x == Accepted(row[u], t, r.out)
<1>1. /\ u \in Sectors /\ r.session \in Sessions /\ r.session # 0 /\ t \in Types
      /\ row[u] \in Row
  BY ReportFields, SealTaskAssumption
<1>2. /\ UNCHANGED <<landed, mishaps>>
      /\ row' = IF Owns(r) THEN [row EXCEPT ![u] = x] ELSE row
  BY DEF RecieveResult, chainVars
<1>3. CASE ~Owns(r)
  BY <1>2, <1>3, RowsKept
<1>4. CASE Owns(r)
  <2>1. t \in Tasks /\ row[u].type = t
    BY <1>1, <1>4 DEF Owns, LifecycleInv, RunningOwned, JobsReached
  <2>2. /\ x.type = NextTask[t]
        /\ \A c \in Lasting : x.out[c] = IF c = t THEN r.out ELSE row[u].out[c]
    BY <1>1 DEF Accepted, Row, Lasting
  <2> HIDE DEF x
  <2>3. row'[u] = x /\ \A s \in Sectors : s # u => row'[s] = row[s]
    BY <1>1, <1>2, <1>4 DEF TypeOK
  <2>4. NextTask[t] \in Stage!Stages
    BY <2>1, StageNames DEF NextTask, Types, Tasks, WorkerTasks, MinerTasks
  <2>5. CASE t \notin Lasting
    <3>1. KeepsResults
      BY <2>2, <2>3, <2>5 DEF KeepsResults
    <3> QED
      BY <1>1, <1>2, <2>2, <2>3, <2>4, <3>1, Placed
  <2>6. CASE t \in Lasting
    <3>1. t \in Stage!Lasting \ Stage!OnChain
      BY <2>6, StageNames DEF Lasting, Columns
    <3>2. StageOf[u] = t /\ StageOf' = [StageOf EXCEPT ![u] = NextTask[t]]
      BY <1>1, <2>1, <2>2, <2>3 DEF StageOf
    <3>3. DoneOf' = [DoneOf EXCEPT ![u] = @ \cup {t}]
      <4>1. \A s \in Sectors : s # u => DoneOf'[s] = DoneOf[s]
        BY <1>2, <2>3 DEF DoneOf
      <4>2. r.out # 0 \/ t \in mishaps[u]
        BY <1>1 DEF LifecycleInv, MailReached
      <4>3. {c \in Lasting : row'[u].out[c] # 0 \/ c \in mishaps'[u]}
              = {c \in Lasting : row[u].out[c] # 0 \/ c \in mishaps[u]} \cup {t}
        BY <1>2, <2>2, <2>3, <2>6, <4>2
      <4>4. DoneOf'[u] = DoneOf[u] \cup {t}
        BY <1>1, <1>2, <4>3 DEF DoneOf, Lasting
      <4> QED
        BY <1>1, <4>1, <4>4 DEF DoneOf
    <3>4. Stage!Position[NextTask[t]] = Stage!Position[t] + 1
      BY <2>1, <2>4, StageNames, StageRank, NextRank
    <3>5. Stage!Finish(u)
      BY <2>4, <3>1, <3>2, <3>3, <3>4 DEF Stage!Finish
    <3> QED
      BY <1>1, <3>5 DEF Stage!Next
  <2> QED
    BY <2>5, <2>6
<1> QED
  BY <1>3, <1>4

LEMMA HandlerWriteStage ==
  ASSUME TypeOK, LifecycleInv, LifecycleInv', NEW h \in handlers, HandlerWrite(h)
  PROVE  [Stage!Next]_Lifecycles
<1> DEFINE u == h.sector
<1>1. u \in Sectors /\ row[u] \in Row /\ UNCHANGED <<landed, mishaps>>
  BY DEF TypeOK, Handler, HandlerWrite, chainVars
<1>2. \A s \in Sectors :
        /\ row'[s].out = row[s].out
        /\ \/ row'[s].type = row[s].type
           \/ s = u /\ h.todo # "retry" /\ row'[s].type = NextTask[h.type]
  <2> DEFINE x == [row[u] EXCEPT !.state = RuleState(h.type)]
             y == [row[u] EXCEPT !.state = NextRuleState(h.type), !.type = NextTask[h.type]]
  <2>1. /\ x.out = row[u].out /\ x.type = row[u].type
        /\ y.out = row[u].out /\ y.type = NextTask[h.type]
    BY <1>1 DEF Row
  <2>2. row' = [row EXCEPT ![u] = IF h.todo = "retry" THEN x ELSE y]
    BY DEF HandlerWrite
  <2> HIDE DEF x, y
  <2> QED
    BY <1>1, <2>1, <2>2 DEF TypeOK
<1>3. h.todo # "retry" => NextTask[h.type] \in Stage!Stages
  <2>1. h.todo # "retry" => NextRule(h.type, h.err)
    BY DEF HandlerWrite, TypeOK, Handler, LifecycleInv, HandlersReached
  <2> QED
    BY <2>1, NextRuleTasks, StageNames DEF NextTask, Types, Tasks, WorkerTasks, MinerTasks
<1>4. KeepsResults
  BY <1>2 DEF KeepsResults
<1> QED
  BY <1>1, <1>2, <1>3, <1>4, Placed

LEMMA ResetWriteStage ==
  ASSUME TypeOK, LifecycleInv, LifecycleInv', NEW r \in resets, ResetWrite(r)
  PROVE  [Stage!Next]_Lifecycles
<1> DEFINE u == r.sector
<1>1. u \in Sectors /\ row[u] \in Row /\ UNCHANGED <<landed, mishaps>>
  BY DEF TypeOK, Reset, ResetWrite, chainVars
<1>2. \A s \in Sectors :
        /\ row'[s].out = row[s].out
        /\ row'[s].type = row[s].type \/ (s = u /\ row'[s].type \in {r.type, "PC1"})
  <2>1. CASE row' = row
    BY <2>1
  <2>2. ASSUME NEW y \in {r.type, "PC1"}, NEW z,
               row' = [row EXCEPT ![u] = [@ EXCEPT !.type = y, !.state = z]]
        PROVE  \A s \in Sectors :
                 /\ row'[s].out = row[s].out
                 /\ row'[s].type = row[s].type \/ (s = u /\ row'[s].type = y)
    BY <1>1, <2>2 DEF TypeOK, Row
  <2>3. ResetWrite(r) => \/ row' = row
                        \/ \E y \in {r.type, "PC1"}, z \in States :
                             row' = [row EXCEPT ![u] = [@ EXCEPT !.type = y, !.state = z]]
    BY DEF ResetWrite, States
  <2> QED
    BY <2>1, <2>2, <2>3
<1>3. {r.type, "PC1"} \subseteq Stage!Stages
  BY StageNames DEF LifecycleInv, ResetsReached, Tasks, WorkerTasks
<1>4. KeepsResults
  BY <1>2 DEF KeepsResults
<1> QED
  BY <1>1, <1>2, <1>3, <1>4, Placed

\* UpdatePoStInfo clears C1's column, which no stage depends on.
LEMMA PoStCallsStage ==
  ASSUME TypeOK, LifecycleInv', NEW u \in Sectors, RegisterPoSt(u) \/ UpdatePoStInfo(u)
  PROVE  [Stage!Next]_Lifecycles
<1>1. row[u] \in Row /\ UNCHANGED <<landed, mishaps>>
  BY DEF TypeOK, RegisterPoSt, UpdatePoStInfo, chainVars
<1>2. \A s \in Sectors :
        /\ row'[s].type = row[s].type
        /\ \A c \in Lasting : row'[s].out[c] = row[s].out[c]
  <2> DEFINE x == [row[u] EXCEPT !.out["C1"] = 0]
  <2>1. x.type = row[u].type /\ \A c \in Lasting : x.out[c] = row[u].out[c]
    BY <1>1 DEF Row, Lasting
  <2>2. row' = [row EXCEPT ![u] = x] \/ row' = row
    BY DEF RegisterPoSt, UpdatePoStInfo
  <2> HIDE DEF x
  <2> QED
    BY <2>1, <2>2 DEF TypeOK
<1>3. KeepsResults
  BY <1>2 DEF KeepsResults
<1> QED
  BY <1>1, <1>2, <1>3, Placed

\* A stage gets behind a sector that is ready for it.
LEMMA Lands ==
  ASSUME NEW u \in Sectors, NEW t \in Stage!Lasting, Reached(u, t), UNCHANGED row,
         \A s \in Sectors : DoneOf'[s] = IF s = u THEN DoneOf[u] \cup {t} ELSE DoneOf[s]
  PROVE  [Stage!Next]_Lifecycles
<1>1. DoneOf' = [DoneOf EXCEPT ![u] = @ \cup {t}]
  BY DEF DoneOf
<1>2. t \in Stage!Stages
  BY DEF Stage!Lasting
<1>3. Stage!Land(u, t)
  BY <1>1, <1>2, ReadyIsReached DEF Stage!Land, StageOf
<1> QED
  BY <1>3 DEF Stage!Next

LEMMA ChainExecStage ==
  ASSUME TypeOK, LifecycleInv, NEW m \in mpool, ChainExec(m)
  PROVE  [Stage!Next]_Lifecycles
<1> DEFINE u == m.sector
           t == m.type
<1>1. /\ u \in Sectors /\ t \in {"PRECOMMIT", "COMMIT"} /\ m.session # 0
      /\ UNCHANGED <<row, mishaps>>
  BY SealTaskAssumption DEF TypeOK, Message, ChainExec, tableVars
<1>2. CASE UNCHANGED landed
  BY <1>1, <1>2, RowsKept
<1>3. CASE landed' = [landed EXCEPT ![u][t] = m.session]
  <2>1. \A s \in Sectors, c \in {"PRECOMMIT", "COMMIT"} :
          landed'[s][c] = IF s = u /\ c = t THEN m.session ELSE landed[s][c]
    BY <1>1, <1>3 DEF TypeOK
  <2>2. \A s \in Sectors : s # u => DoneOf'[s] = DoneOf[s]
    BY <1>1, <2>1 DEF DoneOf
  <2>3. {c \in {"PRECOMMIT", "COMMIT"} : landed'[u][c] # 0 \/ SaidBy[c] \in mishaps'[u]}
          = {c \in {"PRECOMMIT", "COMMIT"} : landed[u][c] # 0 \/ SaidBy[c] \in mishaps[u]} \cup {t}
    BY <1>1, <2>1
  <2>4. DoneOf'[u] = DoneOf[u] \cup {t}
    BY <1>1, <2>3 DEF DoneOf
  <2>5. Reached(u, t) /\ t \in Stage!Lasting
    BY <1>1, StageNames DEF LifecycleInv, MessagesReached
  <2> QED
    BY <1>1, <2>2, <2>4, <2>5, Lands
<1> QED
  BY <1>2, <1>3 DEF ChainExec

\* What no table shows, but what was said of the sector since.
Notes(u, e) ==
  /\ \A s \in Sectors : mishaps'[s] = IF s = u THEN mishaps[u] \cup {e} ELSE mishaps[s]
  /\ UNCHANGED <<row, landed>>

LEMMA Said ==
  ASSUME NEW u \in Sectors, NEW t \in Stage!Lasting, Reached(u, t), NEW e, Notes(u, e),
         e = IF t \in {"PRECOMMIT", "COMMIT"} THEN SaidBy[t] ELSE t
  PROVE  [Stage!Next]_Lifecycles
<1>1. \A s \in Sectors : s # u => DoneOf'[s] = DoneOf[s]
  BY DEF Notes, DoneOf
<1>2. DoneOf'[u] = DoneOf[u] \cup {t}
  <2>1. t \in {"PC1", "PC2", "PRECOMMIT", "SEED", "C2", "COMMIT"}
    BY StageNames DEF Lasting, Columns
  <2>2. \A c \in Columns : c # "PRECOMMIT" /\ c # "COMMIT" /\ c # "allocated" /\ c # "nosector"
    BY DEF Columns
  <2>3. SaidBy["PRECOMMIT"] = "allocated" /\ SaidBy["COMMIT"] = "nosector"
    BY DEF SaidBy
  <2>4. \A c \in Columns \ {"C1"} : c \in mishaps'[u] <=> c \in mishaps[u] \/ c = t
    BY <2>1, <2>2, <2>3 DEF Notes
  <2>5. \A c \in {"PRECOMMIT", "COMMIT"} :
          SaidBy[c] \in mishaps'[u] <=> SaidBy[c] \in mishaps[u] \/ c = t
    BY <2>1, <2>3 DEF Notes
  <2>6. t \in (Columns \ {"C1"}) \cup {"PRECOMMIT", "COMMIT"}
    BY <2>1 DEF Columns
  <2> QED
    BY <2>4, <2>5, <2>6 DEF Notes, DoneOf
<1> QED
  BY <1>1, <1>2, Lands DEF Notes

LEMMA NothingSaid ==
  ASSUME NEW u \in Sectors, NEW e \in {"C1", "PRECOMMIT", "COMMIT", "expired"}, Notes(u, e)
  PROVE  [Stage!Next]_Lifecycles
<1>1. \A s \in Sectors, c \in Columns \ {"C1"} : c \in mishaps'[s] <=> c \in mishaps[s]
  BY DEF Notes, Columns
<1>2. \A s \in Sectors, c \in {"PRECOMMIT", "COMMIT"} :
        SaidBy[c] \in mishaps'[s] <=> SaidBy[c] \in mishaps[s]
  BY DEF Notes, SaidBy
<1>3. UNCHANGED DoneOf /\ UNCHANGED StageOf
  BY <1>1, <1>2 DEF Notes, DoneOf, StageOf
<1> QED
  BY <1>3 DEF Lifecycles

LEMMA ChildEmptyStage ==
  ASSUME TypeOK, LifecycleInv, NEW s \in Sectors, NEW n \in Sessions, ChildEmpty(s, n)
  PROVE  [Stage!Next]_Lifecycles
<1> DEFINE t == job[s][n].ctype
<1>1. t \in WorkerTasks /\ Notes(s, t)
  BY DEF ChildEmpty, TypeOK, Notes, tableVars
<1>2. Reached(s, t)
  BY JobChild DEF ChildEmpty
<1>3. CASE t = "C1"
  BY <1>1, <1>3, NothingSaid
<1>4. CASE t # "C1"
  <2>1. t \in Stage!Lasting /\ t \notin {"PRECOMMIT", "COMMIT"}
    BY <1>1, <1>4, StageNames DEF WorkerTasks, Lasting, Columns
  <2> QED
    BY <1>1, <1>2, <2>1, Said
<1> QED
  BY <1>3, <1>4

LEMMA MinerRefusedStage ==
  ASSUME TypeOK, LifecycleInv, NEW s \in Sectors, NEW n \in Sessions, NEW e \in Errs,
         MinerRefused(s, n, e)
  PROVE  [Stage!Next]_Lifecycles
<1> DEFINE t == job[s][n].asked
<1>1. Notes(s, e)
  BY DEF MinerRefused, MinerEnds, TypeOK, Notes, tableVars
<1>2. Reached(s, t)
  BY JobChild DEF MinerRefused, MinerRuns
<1>3. t \in {"PRECOMMIT", "COMMIT"} /\ e = SaidBy[t]
  BY DEF MinerRefused, SaidBy
<1>4. t \in Stage!Lasting
  BY <1>3, StageNames
<1> QED
  BY <1>1, <1>2, <1>3, <1>4, Said

LEMMA ChainFaultStage ==
  ASSUME TypeOK, \/ \E m \in mpool : ChainDrop(m)
                 \/ \E s \in Sectors : ChainExpire(s)
  PROVE  [Stage!Next]_Lifecycles
<1>1. ASSUME NEW m \in mpool, ChainDrop(m)
      PROVE  [Stage!Next]_Lifecycles
  <2>1. m.sector \in Sectors /\ m.type \in {"PRECOMMIT", "COMMIT"}
    BY DEF TypeOK, Message
  <2>2. Notes(m.sector, m.type)
    BY <1>1, <2>1 DEF ChainDrop, TypeOK, Notes, tableVars
  <2> QED
    BY <2>1, <2>2, NothingSaid
<1>2. ASSUME NEW s \in Sectors, ChainExpire(s)
      PROVE  [Stage!Next]_Lifecycles
  <2>1. Notes(s, "expired")
    BY <1>2 DEF ChainExpire, TypeOK, Notes, tableVars
  <2> QED
    BY <2>1, NothingSaid
<1> QED
  BY <1>1, <1>2

-------------------------------------------------------------------------------
\* What is left touches neither a row nor the chain.
LEMMA QuietFault ==
  ASSUME NEW s \in Sectors, NEW n \in Sessions, SessionFault(s, n)
  PROVE  \/ UNCHANGED <<row, landed, mishaps>>
         \/ ChildEmpty(s, n)
         \/ \E e \in Errs : MinerRefused(s, n, e)
<1>1. ASSUME NEW e, MinerEnds(s, n, e) PROVE UNCHANGED row
  BY <1>1 DEF MinerEnds, tableVars
<1> QED
  BY <1>1 DEF SessionFault, SpawnFail, ChildError, ChildDie, Timeout,
     Shutdown, GiveUp, MinerFail, MinerSilent, ReceiptLost, tableVars, chainVars

LEMMA QuietSteps ==
  ASSUME \/ \E t \in Tasks, w \in Owners, s \in Sectors : Poll(t, w, s)
         \/ \E s \in Sectors, n \in Sessions : WorkerStep(s, n) \/ MinerStep(s, n)
         \/ \E h \in handlers : HandlerRead(h)
         \/ \E r \in resets : ByStateRetry(r)
         \/ \E q \in queries : AnswerLost(q)
         \/ Operator
         \/ \E w \in Workers : WorkerCrash(w)
         \/ MinerCrash
         \/ UNCHANGED vars
  PROVE  UNCHANGED <<row, landed, mishaps>>
<1>1. ASSUME NEW t, NEW w, NEW s, NEW h, QueryRead(t, w, s, h)
      PROVE  UNCHANGED <<row, landed, mishaps>>
  BY <1>1 DEF QueryRead, tableVars, chainVars
<1>2. ASSUME NEW s, NEW n, WorkerStep(s, n) PROVE UNCHANGED <<row, landed, mishaps>>
  BY <1>2 DEF WorkerStep, Watch, ChildRead, ChildOk, ParentExit, tableVars, chainVars
<1>3. ASSUME NEW s, NEW n, NEW e, MinerEnds(s, n, e) PROVE UNCHANGED row
  BY <1>3 DEF MinerEnds, tableVars
<1>4. ASSUME NEW s, NEW n, MinerStep(s, n) PROVE UNCHANGED <<row, landed, mishaps>>
  BY <1>3, <1>4 DEF MinerStep, MinerStore, SeedDone, MinerPush, ReceiptOk, ReceiptBad,
     tableVars, chainVars
<1>5. ASSUME Operator PROVE UNCHANGED <<row, landed, mishaps>>
  BY <1>1, <1>5 DEF Operator, Send, Trigger, Restart, ByState, WorkerResetRead,
     MinerResetRead, tableVars, chainVars
<1> QED
  BY <1>1, <1>2, <1>4, <1>5
  DEF Poll, HandlerRead, ByStateRetry, AnswerLost, WorkerCrash, MinerCrash, vars, tableVars,
      chainVars

LEMMA StageStep ==
  ASSUME TypeOK, LifecycleInv, LifecycleInv', [Next]_vars
  PROVE  [Stage!Next]_Lifecycles
<1>1. CASE \E s \in Sectors : AddTask(s)
  BY <1>1, AddTaskStage
<1>2. CASE TableStep
  BY <1>2, ClaimStage, RecieveResultStage, RecieveErrorStage, HandlerWriteStage,
     PoStCallsStage, ResetWriteStage, QuietSteps, RowsKept
  DEF TableStep
<1>3. CASE \E m \in mpool : ChainExec(m) \/ ChainDrop(m)
  BY <1>3, ChainExecStage, ChainFaultStage
<1>4. CASE \E s \in Sectors : ChainExpire(s)
  BY <1>4, ChainFaultStage
<1>5. CASE \E s \in Sectors, n \in Sessions : SessionFault(s, n)
  BY <1>5, QuietFault, RowsKept, ChildEmptyStage, MinerRefusedStage
<1> QED
  BY <1>1, <1>2, <1>3, <1>4, <1>5, QuietSteps, RowsKept DEF Next

LEMMA StageInit == Init => Stage!Init
<1> SUFFICES ASSUME Init PROVE Stage!Init
  OBVIOUS
<1>1. \A s \in Sectors : StageOf[s] = "absent" /\ DoneOf[s] = {}
  BY DEF Init, NoRow, NoOut, StageOf, DoneOf
<1>2. StageOf \in [Sectors -> Stage!Stages \cup {"absent"}]
      /\ DoneOf \in [Sectors -> SUBSET Stage!Lasting]
  BY <1>1 DEF StageOf, DoneOf
<1> QED
  BY <1>1, <1>2 DEF Stage!Init

(* A sector's message is on its way to the chain only once the sector has  *)
(* reached its sender's task, by what it has or by what it was said to     *)
(* have, and a proof only once the pre-commitment is executed: whoever     *)
(* asked for it, whatever was refused, dropped or reset since              *)
(* (SendPreCommit, SendCommit).                                            *)
THEOREM MessagesInOrder ==
  ASSUME "mismatch" \notin Ops
  PROVE  Spec => []MessagesReached
<1>1. LifecycleInv => MessagesReached
  BY DEF LifecycleInv
<1> QED
  BY <1>1, Lifecycle, PTL

(* The task table, with all its claims, sessions, reports, handlers and    *)
(* resets, implements the sector's lifecycle: empty successes, refusals    *)
(* taken for success and dropped or expired messages included.             *)
THEOREM Refinement ==
  ASSUME "mismatch" \notin Ops
  PROVE  Spec => InOrder
<1>1. TypeOK /\ LifecycleInv /\ LifecycleInv' /\ [Next]_vars
        => [Stage!Next]_Lifecycles
  BY StageStep
<1>2. Init => Stage!Init
  BY StageInit
<1> QED
  BY <1>1, <1>2, TypeCorrect, Lifecycle, PTL
  DEF Spec, InOrder, Stage!Spec, Lifecycles

-------------------------------------------------------------------------------
LEMMA NextPosition ==
  ASSUME NEW a \in Stage!Stages, NEW t \in Stage!Stages,
         Stage!Position[t] = Stage!Position[a] + 1
  PROVE  Stage!Earlier(t) \subseteq Stage!Earlier(a) \cup {a}
<1>1. \A u \in Stage!Stages : Stage!Position[u] \in 1..8
  BY StageRank, StageNames DEF Rank, Tasks, WorkerTasks, MinerTasks
<1>2. \A u \in Stage!Stages : Stage!Position[u] = Stage!Position[a] => u = a
  BY StageRank, StageNames DEF Rank, Tasks, WorkerTasks, MinerTasks
<1>3. Stage!Lasting \subseteq Stage!Stages
  BY DEF Stage!Lasting
<1> QED
  BY <1>1, <1>2, <1>3 DEF Stage!Earlier

LEMMA OrderedStep ==
  ASSUME Stage!Ordered, [Stage!Next]_Lifecycles
  PROVE  Stage!Ordered'
<1>1. DOMAIN DoneOf = Sectors /\ DOMAIN StageOf = Sectors
  BY DEF DoneOf, StageOf
<1>2. "absent" \notin Stage!Stages
  BY StageNames DEF Tasks, WorkerTasks, MinerTasks
<1>3. CASE UNCHANGED Lifecycles
  BY <1>3 DEF Lifecycles, Stage!Ordered, Stage!Ready
<1>4. ASSUME NEW u \in Sectors, Stage!Finish(u) PROVE Stage!Ordered'
  <2> DEFINE a == StageOf[u]
  <2>1. PICK t \in Stage!Stages : /\ Stage!Position[t] = Stage!Position[a] + 1
                                  /\ StageOf' = [StageOf EXCEPT ![u] = t]
    BY <1>4 DEF Stage!Finish
  <2>2. a \in Stage!Stages /\ DoneOf' = [DoneOf EXCEPT ![u] = @ \cup {a}]
    BY <1>4 DEF Stage!Finish, Stage!Lasting
  <2>3. Stage!Earlier(a) \subseteq DoneOf[u]
    BY <1>2, <2>2 DEF Stage!Ordered, Stage!Ready
  <2>4. Stage!Earlier(t) \subseteq DoneOf[u] \cup {a}
    BY <2>1, <2>2, <2>3, NextPosition
  <2>5. \A s \in Sectors : /\ DoneOf'[s] = IF s = u THEN DoneOf[u] \cup {a} ELSE DoneOf[s]
                           /\ StageOf'[s] = IF s = u THEN t ELSE StageOf[s]
    BY <1>1, <2>1, <2>2
  <2> HIDE DEF a
  <2> QED
    BY <2>3, <2>4, <2>5 DEF Stage!Ordered, Stage!Ready
<1>5. ASSUME NEW u \in Sectors, NEW t, Stage!Land(u, t) PROVE Stage!Ordered'
  <2>1. \A s \in Sectors : DoneOf'[s] = IF s = u THEN DoneOf[u] \cup {t} ELSE DoneOf[s]
    BY <1>1, <1>5 DEF Stage!Land
  <2> QED
    BY <1>5, <2>1 DEF Stage!Land, Stage!Ordered, Stage!Ready
<1>6. ASSUME NEW u \in Sectors, NEW t, Stage!Place(u, t) PROVE Stage!Ordered'
  <2>1. \A s \in Sectors : StageOf'[s] = IF s = u THEN t ELSE StageOf[s]
    BY <1>1, <1>6 DEF Stage!Place
  <2> QED
    BY <1>6, <2>1 DEF Stage!Place, Stage!Ordered, Stage!Ready
<1> QED
  BY <1>3, <1>4, <1>5, <1>6 DEF Stage!Next

(* Whatever the table goes through, a sector has nothing behind it without *)
(* all that comes before it, in the row, on chain, or as a success or a    *)
(* refusal said it (SectorLifecycle's Ordered, carried over).              *)
THEOREM StagesOrdered ==
  ASSUME "mismatch" \notin Ops
  PROVE  Spec => []Stage!Ordered
<1>1. Stage!Init => Stage!Ordered
  BY DEF Stage!Init, Stage!Ordered
<1>2. Stage!Ordered /\ [Stage!Next]_Lifecycles => Stage!Ordered'
  BY OrderedStep
<1> QED
  BY <1>1, <1>2, Refinement, PTL DEF InOrder, Stage!Spec, Lifecycles
===============================================================================
