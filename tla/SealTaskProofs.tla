---------------------------- MODULE SealTaskProofs ----------------------------
(* Theorems about SealTask, for every number of sectors, workers, sessions *)
(* and faults, and for every set of operator calls.                        *)
EXTENDS SealTask, TLAPS

USE DEF Sessions, Session0

-------------------------------------------------------------------------------
(* Type correctness: one lemma per action.                                 *)

LEMMA TypeInit == Init => TypeOK
<1> SUFFICES ASSUME Init PROVE TypeOK
  OBVIOUS
<1>1. NoOut \in [Columns -> Session0]
  BY SealTaskAssumption DEF NoOut
<1>0. "absent" \in Types
  BY DEF Types
<1>2. NoRow \in Row
  BY <1>0, <1>1, SealTaskAssumption DEF NoRow, Row, States, Owners
<1>3. NoLog \in Log
  BY <1>0 DEF NoLog, Log, States, Errs
<1>4. NoJob \in Job
  BY <1>0, <1>1 DEF NoJob, Job, Owners, Hows
<1>5. 0 \in Session0 /\ 0 \in 0..MaxFaults
  BY SealTaskAssumption
<1>6. row \in [Sectors -> Row] /\ log \in [Sectors -> [Sessions -> Log]]
  BY <1>2, <1>3 DEF Init
<1>7. job \in [Sectors -> [Sessions -> Job]] /\ used \in [Sectors -> Session0]
  BY <1>4, <1>5 DEF Init
<1>8. landed \in [Sectors -> [{"PRECOMMIT", "COMMIT"} -> Session0]]
  BY <1>5 DEF Init
<1>9. reqSession \in [Sectors -> SUBSET Sessions]
  BY DEF Init
<1> QED
  BY <1>5, <1>6, <1>7, <1>8, <1>9 DEF Init, TypeOK

\* What the handlers write in a row leaves it a row.
LEMMA RowTask ==
  ASSUME NEW x \in Row, NEW t \in Types
  PROVE  [x EXCEPT !.type = t] \in Row
  BY DEF Row

LEMMA RowState ==
  ASSUME NEW x \in Row, NEW st \in States
  PROVE  [x EXCEPT !.state = st] \in Row
  BY DEF Row

LEMMA RowTaskState ==
  ASSUME NEW x \in Row, NEW t \in Types, NEW st \in States
  PROVE  /\ [x EXCEPT !.type = t, !.state = st] \in Row
         /\ [x EXCEPT !.state = st, !.type = t] \in Row
  BY DEF Row

LEMMA RowClaim ==
  ASSUME NEW x \in Row, NEW st \in States, NEW n \in Session0, NEW w \in Owners
  PROVE  [x EXCEPT !.state = st, !.req = n, !.worker = w] \in Row
  BY DEF Row

LEMMA TypeAddTask ==
  ASSUME TypeOK, NEW s \in Sectors, AddTask(s)
  PROVE  TypeOK'
<1>1. "PC1" \in Types
  BY DEF Types, Tasks, WorkerTasks
<1>2. row' \in [Sectors -> Row]
  BY <1>1, RowTask DEF AddTask, TypeOK
<1> QED
  BY <1>2 DEF AddTask, TypeOK, callVars, minerVars, chainVars

LEMMA TypeSpend ==
  ASSUME TypeOK, NEW op, Spend(op)
  PROVE  faults' \in 0..MaxFaults
  BY SealTaskAssumption DEF TypeOK, Spend

LEMMA TypeQueryRead ==
  ASSUME TypeOK, NEW t \in Tasks, NEW w \in Owners, NEW s \in Sectors,
         NEW how \in Hows, QueryRead(t, w, s, how), resets' \subseteq Reset,
         faults' \in 0..MaxFaults
  PROVE  TypeOK'
<1>1. used[s] \in Session0 /\ used[s] + 1 \in Sessions
  BY SealTaskAssumption DEF QueryRead, TypeOK
<1>2. used' \in [Sectors -> Session0]
  BY <1>1 DEF QueryRead, TypeOK
<1>3. row[s] \in Row
  BY DEF TypeOK
<1>4. [task |-> t, by |-> w, how |-> how, sector |-> s, session |-> used[s] + 1,
       snap |-> row[s]] \in Query
  BY <1>1, <1>3 DEF Query
<1>5. queries' \subseteq Query
  BY <1>4 DEF QueryRead, TypeOK
<1> QED
  BY <1>2, <1>5 DEF QueryRead, TypeOK, tableVars, chainVars

LEMMA StartedType ==
  ASSUME NEW q \in Query, q.how # "bystate"
  PROVE  Started(q) \in Job
<1>1. /\ q.by \in Owners /\ q.how \in Hows /\ q.task \in Tasks
      /\ q.snap.type \in Types /\ q.snap.out \in [Columns -> Session0]
  BY DEF Query, Row
<1>2. NoOut \in [Columns -> Session0]
  BY SealTaskAssumption DEF NoOut
<1>3. "absent" \in Types
  BY DEF Types
<1> QED
  BY <1>1, <1>2, <1>3 DEF Started, Job

LEMMA TypeClaimed ==
  ASSUME TypeOK, NEW q \in queries
  PROVE  Claimed(q) \in [Sectors -> Row]
<1>1. q \in Query
  BY DEF TypeOK
<1>2. /\ q.sector \in Sectors /\ q.session \in Session0 /\ q.by \in Owners
      /\ q.snap \in Row
  BY <1>1 DEF Query
<1> DEFINE w == IF q.by # NoWorker THEN q.by ELSE q.snap.worker
           x == row[q.sector]
<1>3. "RUNING" \in States
  BY DEF States
<1>4. w \in Owners
  BY <1>2 DEF Row
<1>5. x \in Row
  BY <1>2 DEF TypeOK
<1>6. [x EXCEPT !.state = "RUNING", !.req = q.session, !.worker = w] \in Row
  BY <1>2, <1>3, <1>4, <1>5, RowClaim
<1> QED
  BY <1>2, <1>6 DEF Claimed, TypeOK

LEMMA TypeQueryWrite ==
  ASSUME TypeOK, NEW q \in queries, QueryWrite(q)
  PROVE  TypeOK'
<1>1. q \in Query
  BY DEF TypeOK
<1>2. /\ q.sector \in Sectors /\ q.session \in Sessions /\ q.by \in Owners
      /\ q.task \in Tasks /\ q.snap \in Row
  BY <1>1, SealTaskAssumption DEF Query, QueryWrite
<1>3. q.snap.worker \in Owners /\ q.snap.type \in Types
  BY <1>2 DEF Row
<1>4. row' \in [Sectors -> Row]
  BY TypeClaimed DEF QueryWrite
<1>5. log' \in [Sectors -> [Sessions -> Log]]
  <2>1. [type |-> q.task, state |-> "RUNING", err |-> "none"] \in Log
    BY <1>2 DEF Log, States, Errs, Types
  <2> QED
    BY <1>2, <2>1 DEF QueryWrite, TypeOK
<1>6. job' \in [Sectors -> [Sessions -> Job]]
  BY <1>1, <1>2, StartedType DEF QueryWrite, TypeOK
<1>7. resets' \subseteq Reset
  <2>1. [by |-> q.by, sector |-> q.sector, session |-> 0, type |-> q.snap.type,
         how |-> "update"] \in Reset
    BY <1>2, <1>3, SealTaskAssumption DEF Reset
  <2> QED
    BY <2>1 DEF QueryWrite, TypeOK
<1>8. queries' \subseteq Query
  BY DEF QueryWrite, TypeOK
<1> QED
  BY <1>4, <1>5, <1>6, <1>7, <1>8 DEF QueryWrite, TypeOK, chainVars

LEMMA TypeByState ==
  ASSUME TypeOK, NEW t \in Tasks, NEW w \in Owners, NEW s \in Sectors, ByState(t, w, s)
  PROVE  TypeOK'
<1>1. [task |-> t, by |-> w, how |-> "bystate", sector |-> s, session |-> 0,
       snap |-> row[s]] \in Query
  BY SealTaskAssumption DEF Query, TypeOK
<1>2. queries' \subseteq Query
  BY <1>1 DEF ByState, TypeOK
<1>3. faults' \in 0..MaxFaults
  BY TypeSpend DEF ByState
<1> QED
  BY <1>2, <1>3 DEF ByState, TypeOK, tableVars, minerVars, chainVars

LEMMA TypeByStateWrite ==
  ASSUME TypeOK, NEW q \in queries, ByStateWrite(q)
  PROVE  TypeOK'
<1>1. row' \in [Sectors -> Row]
  BY TypeClaimed DEF ByStateWrite
<1>2. resets' \subseteq Reset
  <2>1. q.sector \in Sectors /\ q.by \in Owners /\ q.task \in Tasks
    BY DEF TypeOK, Query
  <2>2. [by |-> q.by, sector |-> q.sector, session |-> 0, type |-> q.task,
         how |-> "bystate"] \in Reset
    BY <2>1 DEF Reset
  <2> QED
    BY <2>2 DEF ByStateWrite, TypeOK
<1>3. queries' \subseteq Query
  BY DEF ByStateWrite, TypeOK
<1> QED
  BY <1>1, <1>2, <1>3 DEF ByStateWrite, TypeOK, chainVars

LEMMA TypeByStateRetry ==
  ASSUME TypeOK, NEW r \in resets, ByStateRetry(r)
  PROVE  TypeOK'
<1>1. r.by \in Owners /\ r.sector \in Sectors /\ r.type \in Tasks /\ "restart" \in Hows
  BY DEF ByStateRetry, TypeOK, Reset, Owners, Hows
<1>2. resets' \subseteq Reset /\ faults' \in 0..MaxFaults
  BY DEF ByStateRetry, TypeOK
<1> QED
  BY <1>1, <1>2, TypeQueryRead DEF ByStateRetry

LEMMA TypeAnswerLost ==
  ASSUME TypeOK, NEW q \in queries, AnswerLost(q)
  PROVE  TypeOK'
<1>1. [q EXCEPT !.how = "lost"] \in Query
  BY DEF TypeOK, Query, Hows
<1>2. queries' \subseteq Query
  BY <1>1 DEF AnswerLost, TypeOK
<1>3. faults' \in 0..MaxFaults
  BY TypeSpend DEF AnswerLost
<1> QED
  BY <1>2, <1>3 DEF AnswerLost, TypeOK, tableVars, minerVars, chainVars

LEMMA TypePoll ==
  ASSUME TypeOK, NEW t \in Tasks, NEW w \in Owners, NEW s \in Sectors, Poll(t, w, s)
  PROVE  TypeOK'
<1>1. "auto" \in Hows
  BY DEF Hows
<1>2. faults' \in 0..MaxFaults /\ resets' \subseteq Reset
  BY DEF Poll, TypeOK
<1> QED
  BY <1>1, <1>2, TypeQueryRead DEF Poll

LEMMA TypeOperatorClaim ==
  ASSUME TypeOK, NEW t \in Tasks, NEW w \in Owners, NEW s \in Sectors,
         Trigger(t, w, s) \/ Restart(t, w, s) \/ Send(t, s)
  PROVE  TypeOK'
<1>1. {"trigger", "restart", "send"} \subseteq Hows /\ NoWorker \in Owners
  BY DEF Hows, Owners
<1>2. CASE Trigger(t, w, s)
  <2>1. faults' \in 0..MaxFaults /\ resets' \subseteq Reset
    BY <1>2, TypeSpend DEF Trigger, TypeOK
  <2> QED
    BY <1>1, <1>2, <2>1, TypeQueryRead DEF Trigger
<1>3. CASE Restart(t, w, s)
  <2>1. faults' \in 0..MaxFaults /\ resets' \subseteq Reset
    BY <1>3, TypeSpend DEF Restart, TypeOK
  <2> QED
    BY <1>1, <1>3, <2>1, TypeQueryRead DEF Restart
<1>4. CASE Send(t, s)
  <2>1. faults' \in 0..MaxFaults /\ resets' \subseteq Reset
    BY <1>4, TypeSpend DEF Send, TypeOK
  <2> QED
    BY <1>1, <1>4, <2>1, TypeQueryRead DEF Send
<1> QED
  BY <1>2, <1>3, <1>4

-------------------------------------------------------------------------------
\* What the processes of a session write in their job leaves it a job.
Child == {"none", "spawn", "run", "claimed", "stored", "pushed", "ended"}
Parent == {"none", "spawn", "watch", "gone"}

LEMMA JobParts ==
  ASSUME NEW j \in Job, NEW c \in Child, NEW p \in Parent
  PROVE  /\ [j EXCEPT !.child = c] \in Job
         /\ [j EXCEPT !.parent = p] \in Job
         /\ [j EXCEPT !.parent = p, !.child = c] \in Job
  BY DEF Job, Child, Parent

LEMMA JobRead ==
  ASSUME NEW j \in Job, NEW t \in Types, NEW o \in [Columns -> Session0]
  PROVE  [j EXCEPT !.child = "run", !.ctype = t, !.in = o] \in Job
  BY DEF Job

LEMMA JobFields ==
  ASSUME TypeOK, NEW s \in Sectors, NEW n \in Sessions
  PROVE  /\ job[s][n] \in Job
         /\ job[s][n].asked \in Types
         /\ job[s][n].task \in Types
         /\ job[s][n].ctype \in Types
         /\ row[s].type \in Types
         /\ row[s].out \in [Columns -> Session0]
<1>1. job[s][n] \in Job /\ row[s] \in Row
  BY DEF TypeOK
<1>2. Tasks \cup {""} \subseteq Types
  BY DEF Types
<1>3. job[s][n].asked \in Tasks \cup {""}
  BY <1>1 DEF Job
<1> QED
  BY <1>1, <1>2, <1>3 DEF Job, Row

LEMMA ReportPosted ==
  ASSUME TypeOK, NEW s \in Sectors, NEW n \in Sessions,
         NEW t \in Types, NEW e \in Errs
  PROVE  mail \cup {Post(s, n, t, e)} \subseteq Report
<1>1. Post(s, n, t, e) \in Report
  BY SealTaskAssumption DEF Post, Report
<1> QED
  BY <1>1 DEF TypeOK

\* The frame of the steps that only change jobs and mail.
LEMMA TypeFrame ==
  ASSUME TypeOK, job' \in [Sectors -> [Sessions -> Job]], mail' \subseteq Report,
         faults' \in 0..MaxFaults,
         UNCHANGED <<tableVars, used, queries, minerVars, chainVars>>
  PROVE  TypeOK'
  BY DEF TypeOK, tableVars, minerVars, chainVars

LEMMA TypeWatch ==
  ASSUME TypeOK, NEW s \in Sectors, NEW n \in Sessions,
         Watch(s, n) \/ ParentExit(s, n)
  PROVE  TypeOK'
<1>1. /\ [job[s][n] EXCEPT !.parent = "watch"] \in Job
      /\ [job[s][n] EXCEPT !.parent = "gone"] \in Job
  BY JobFields, JobParts DEF Child, Parent
<1>2. job' \in [Sectors -> [Sessions -> Job]]
  <2>1. CASE Watch(s, n)
    BY <1>1, <2>1 DEF Watch, TypeOK
  <2>2. CASE ParentExit(s, n)
    BY <1>1, <2>2 DEF ParentExit, TypeOK
  <2> QED
    BY <2>1, <2>2
<1>3. mail' \subseteq Report /\ faults' \in 0..MaxFaults
  BY DEF Watch, ParentExit, TypeOK, callVars
<1> QED
  BY <1>2, <1>3, TypeFrame DEF Watch, ParentExit, callVars

LEMMA TypeSpawnFail ==
  ASSUME TypeOK, NEW s \in Sectors, NEW n \in Sessions, SpawnFail(s, n)
  PROVE  TypeOK'
<1>1. [job[s][n] EXCEPT !.parent = "gone", !.child = "ended"] \in Job
  BY JobFields, JobParts DEF Child, Parent
<1>2. job' \in [Sectors -> [Sessions -> Job]]
  BY <1>1 DEF SpawnFail, TypeOK
<1>3. mail' \subseteq Report
  <2>1. "other" \in Errs
    BY DEF Errs
  <2> QED
    BY <2>1, JobFields, ReportPosted DEF SpawnFail, TypeOK
<1>4. faults' \in 0..MaxFaults
  BY TypeSpend DEF SpawnFail
<1> QED
  BY <1>2, <1>3, <1>4, TypeFrame DEF SpawnFail

LEMMA TypeChildRead ==
  ASSUME TypeOK, NEW s \in Sectors, NEW n \in Sessions, ChildRead(s, n)
  PROVE  TypeOK'
<1>1. [job[s][n] EXCEPT !.child = "run", !.ctype = row[s].type, !.in = row[s].out] \in Job
  BY JobFields, JobRead
<1>2. job' \in [Sectors -> [Sessions -> Job]]
  BY <1>1 DEF ChildRead, TypeOK
<1>3. mail' \subseteq Report /\ faults' \in 0..MaxFaults
  BY DEF ChildRead, TypeOK, callVars
<1> QED
  BY <1>2, <1>3, TypeFrame DEF ChildRead, callVars

LEMMA TypeChildEnds ==
  ASSUME TypeOK, NEW s \in Sectors, NEW n \in Sessions,
         ChildOk(s, n) \/ ChildError(s, n) \/ ChildDie(s, n) \/ MinerSilent(s, n)
  PROVE  TypeOK'
<1>1. [job[s][n] EXCEPT !.child = "ended"] \in Job
  BY JobFields, JobParts DEF Child, Parent
<1>2. job' \in [Sectors -> [Sessions -> Job]]
  <2>1. job' = [job EXCEPT ![s][n].child = "ended"]
    BY DEF ChildOk, ChildError, ChildDie, MinerSilent
  <2> QED
    BY <1>1, <2>1 DEF TypeOK
<1>3. mail' \subseteq Report
  <2>1. {"none", "other"} \subseteq Errs
    BY DEF Errs
  <2> QED
    BY <2>1, JobFields, ReportPosted
    DEF ChildOk, ChildError, ChildDie, MinerSilent, TypeOK, callVars
<1>4. faults' \in 0..MaxFaults
  <2>1. CASE ChildOk(s, n)
    BY <2>1 DEF ChildOk, TypeOK
  <2>2. CASE ChildError(s, n) \/ ChildDie(s, n) \/ MinerSilent(s, n)
    BY <2>2, TypeSpend DEF ChildError, ChildDie, MinerSilent, TypeOK
  <2> QED
    BY <2>1, <2>2
<1> QED
  BY <1>2, <1>3, <1>4, TypeFrame
  DEF ChildOk, ChildError, ChildDie, MinerSilent, callVars

\* The steps that note a mishap.
LEMMA TypeMishap ==
  ASSUME TypeOK, NEW s \in Sectors, NEW e \in Mishaps,
         mishaps' = [mishaps EXCEPT ![s] = @ \cup {e}]
  PROVE  mishaps' \in [Sectors -> SUBSET Mishaps]
  BY DEF TypeOK

LEMMA TypeChildEmpty ==
  ASSUME TypeOK, NEW s \in Sectors, NEW n \in Sessions, ChildEmpty(s, n)
  PROVE  TypeOK'
<1>1. [job[s][n] EXCEPT !.child = "ended"] \in Job
  BY JobFields, JobParts DEF Child, Parent
<1>2. job' \in [Sectors -> [Sessions -> Job]]
  BY <1>1 DEF ChildEmpty, TypeOK
<1>3. mail' \subseteq Report
  <2>1. [Post(s, n, job[s][n].ctype, "none") EXCEPT !.out = 0] \in Report
    BY JobFields, SealTaskAssumption DEF Post, Report, Errs
  <2> QED
    BY <2>1 DEF ChildEmpty, TypeOK
<1>4. mishaps' \in [Sectors -> SUBSET Mishaps]
  BY TypeMishap DEF ChildEmpty, Mishaps
<1>5. faults' \in 0..MaxFaults
  BY TypeSpend DEF ChildEmpty
<1> QED
  BY <1>2, <1>3, <1>4, <1>5 DEF ChildEmpty, TypeOK, tableVars, minerVars

LEMMA TypeGiveUp ==
  ASSUME TypeOK, NEW s \in Sectors, NEW n \in Sessions,
         Timeout(s, n) \/ Shutdown(s, n)
  PROVE  TypeOK'
<1>1. [job[s][n] EXCEPT !.parent = "gone", !.child = "ended"] \in Job
  BY JobFields, JobParts DEF Child, Parent
<1>2. PICK e \in Errs : GiveUp(s, n, e)
  BY DEF Timeout, Shutdown, Errs
<1>3. job' \in [Sectors -> [Sessions -> Job]]
  BY <1>1, <1>2 DEF GiveUp, TypeOK
<1>4. mail' \subseteq Report
  BY <1>2, JobFields, ReportPosted DEF GiveUp
<1>5. faults' \in 0..MaxFaults
  BY TypeSpend DEF Timeout, Shutdown
<1> QED
  BY <1>2, <1>3, <1>4, <1>5, TypeFrame DEF GiveUp

LEMMA TypeWorkerCrash ==
  ASSUME TypeOK, NEW w \in Workers, WorkerCrash(w)
  PROVE  TypeOK'
<1>1. job' \in [Sectors -> [Sessions -> Job]]
  <2>1. ASSUME NEW j \in Job PROVE Orphaned(j) \in Job
    BY JobParts DEF Orphaned, Child, Parent
  <2>2. \A s \in Sectors, n \in Sessions : job[s][n] \in Job /\ Orphaned(job[s][n]) \in Job
    BY <2>1 DEF TypeOK
  <2> QED
    BY <2>2 DEF WorkerCrash
<1>2. queries' \subseteq Query
  <2>1. \A q \in Query : [q EXCEPT !.how = "lost"] \in Query
    BY DEF Query, Hows
  <2> QED
    BY <2>1 DEF WorkerCrash, TypeOK
<1>3. resets' \subseteq Reset
  BY DEF WorkerCrash, TypeOK
<1>4. faults' \in 0..MaxFaults
  BY TypeSpend DEF WorkerCrash
<1> QED
  BY <1>1, <1>2, <1>3, <1>4 DEF WorkerCrash, TypeOK, tableVars, chainVars

-------------------------------------------------------------------------------
LEMMA TypeMinerStore ==
  ASSUME TypeOK, NEW s \in Sectors, NEW n \in Sessions, MinerStore(s, n)
  PROVE  TypeOK'
<1>1. [job[s][n] EXCEPT !.child = "stored"] \in Job
  BY JobFields, JobParts DEF Child, Parent
<1>2. job' \in [Sectors -> [Sessions -> Job]]
  BY <1>1 DEF MinerStore, TypeOK
<1>3. reqSession' \in [Sectors -> SUBSET Sessions]
  BY DEF MinerStore, TypeOK
<1> QED
  BY <1>2, <1>3 DEF MinerStore, TypeOK, tableVars, callVars, chainVars

LEMMA TypeMinerEnds ==
  ASSUME TypeOK, NEW s \in Sectors, NEW n \in Sessions, NEW e \in Errs,
         MinerEnds(s, n, e), faults' \in 0..MaxFaults,
         mpool' \subseteq Message, UNCHANGED landed,
         mishaps' \in [Sectors -> SUBSET Mishaps]
  PROVE  TypeOK'
<1>1. [job[s][n] EXCEPT !.child = "ended"] \in Job
  BY JobFields, JobParts DEF Child, Parent
<1>2. job' \in [Sectors -> [Sessions -> Job]]
  BY <1>1 DEF MinerEnds, TypeOK
<1>3. ReportType(job[s][n]) \in Types
  BY JobFields DEF ReportType
<1>4. mail' \subseteq Report
  BY <1>3, ReportPosted DEF MinerEnds
<1> QED
  BY <1>2, <1>4 DEF MinerEnds, TypeOK, tableVars, minerVars

LEMMA TypeMinerReports ==
  ASSUME TypeOK, NEW s \in Sectors, NEW n \in Sessions,
         \/ SeedDone(s, n) \/ ReceiptOk(s, n) \/ ReceiptBad(s, n) \/ ReceiptLost(s, n)
         \/ \E e \in Errs : MinerFail(s, n, e)
  PROVE  TypeOK'
<1>1. {"none", "other"} \subseteq Errs
  BY DEF Errs
<1>2. /\ mpool' \subseteq Message /\ UNCHANGED landed
      /\ mishaps' \in [Sectors -> SUBSET Mishaps]
  BY DEF SeedDone, ReceiptOk, ReceiptBad, ReceiptLost, MinerFail, chainVars, TypeOK
<1>3. CASE SeedDone(s, n) \/ ReceiptOk(s, n) \/ ReceiptBad(s, n)
  <2>1. faults' \in 0..MaxFaults
    BY <1>3 DEF SeedDone, ReceiptOk, ReceiptBad, TypeOK
  <2>2. MinerEnds(s, n, "none") \/ MinerEnds(s, n, "other")
    BY <1>3 DEF SeedDone, ReceiptOk, ReceiptBad
  <2> QED
    BY <1>1, <1>2, <2>1, <2>2, TypeMinerEnds
<1>4. CASE ReceiptLost(s, n)
  BY <1>1, <1>2, <1>4, TypeSpend, TypeMinerEnds DEF ReceiptLost
<1>5. CASE \E e \in Errs : MinerFail(s, n, e)
  <2>1. PICK e \in Errs : MinerFail(s, n, e)
    BY <1>5
  <2>2. faults' \in 0..MaxFaults
    BY <2>1, TypeSpend DEF MinerFail, TypeOK
  <2> QED
    BY <1>2, <2>1, <2>2, TypeMinerEnds DEF MinerFail
<1> QED
  BY <1>3, <1>4, <1>5

LEMMA TypeMinerRefused ==
  ASSUME TypeOK, NEW s \in Sectors, NEW n \in Sessions, NEW e \in Errs,
         MinerRefused(s, n, e)
  PROVE  TypeOK'
<1>1. e \in Mishaps
  BY DEF MinerRefused, Mishaps
<1>2. mishaps' \in [Sectors -> SUBSET Mishaps]
  BY <1>1, TypeMishap DEF MinerRefused
<1>3. faults' \in 0..MaxFaults
  BY TypeSpend DEF MinerRefused
<1>4. mpool' \subseteq Message /\ UNCHANGED landed /\ MinerEnds(s, n, e)
  BY DEF MinerRefused, TypeOK
<1> QED
  BY <1>2, <1>3, <1>4, TypeMinerEnds

LEMMA TypeMinerPush ==
  ASSUME TypeOK, NEW s \in Sectors, NEW n \in Sessions, MinerPush(s, n)
  PROVE  TypeOK'
<1>1. [job[s][n] EXCEPT !.child = "pushed"] \in Job
  BY JobFields, JobParts DEF Child, Parent
<1>2. job' \in [Sectors -> [Sessions -> Job]]
  BY <1>1 DEF MinerPush, TypeOK
<1>3. mpool' \subseteq Message
  BY DEF MinerPush, TypeOK, Message
<1> QED
  BY <1>2, <1>3 DEF MinerPush, TypeOK, tableVars, callVars, minerVars

LEMMA TypeChainExec ==
  ASSUME TypeOK, NEW m \in mpool, ChainExec(m)
  PROVE  TypeOK'
<1>1. m.sector \in Sectors /\ m.session \in Session0 /\ m.type \in {"PRECOMMIT", "COMMIT"}
  BY SealTaskAssumption DEF TypeOK, Message
<1>2. landed' \in [Sectors -> [{"PRECOMMIT", "COMMIT"} -> Session0]]
  BY <1>1 DEF ChainExec, TypeOK
<1>3. mpool' \subseteq Message
  BY DEF ChainExec, TypeOK
<1> QED
  BY <1>2, <1>3 DEF ChainExec, TypeOK, tableVars, callVars, minerVars

LEMMA TypeChainLoss ==
  ASSUME TypeOK,
         (\E m \in mpool : ChainDrop(m)) \/ (\E s \in Sectors : ChainExpire(s))
  PROVE  TypeOK'
<1>1. CASE \E m \in mpool : ChainDrop(m)
  <2>1. PICK m \in mpool : ChainDrop(m)
    BY <1>1
  <2>2. m.sector \in Sectors /\ m.type \in Mishaps
    BY DEF TypeOK, Message, Mishaps
  <2>3. mishaps' \in [Sectors -> SUBSET Mishaps]
    BY <2>1, <2>2, TypeMishap DEF ChainDrop
  <2>4. faults' \in 0..MaxFaults
    BY <2>1, TypeSpend DEF ChainDrop
  <2> QED
    BY <2>1, <2>3, <2>4 DEF ChainDrop, TypeOK, tableVars, callVars, minerVars
<1>2. CASE \E s \in Sectors : ChainExpire(s)
  <2>1. PICK s \in Sectors : ChainExpire(s)
    BY <1>2
  <2>2. mishaps' \in [Sectors -> SUBSET Mishaps]
    BY <2>1, TypeMishap DEF ChainExpire, Mishaps
  <2>3. faults' \in 0..MaxFaults
    BY <2>1, TypeSpend DEF ChainExpire
  <2> QED
    BY <2>1, <2>2, <2>3 DEF ChainExpire, TypeOK, tableVars, callVars, minerVars
<1> QED
  BY <1>1, <1>2

LEMMA TypeMinerCrash ==
  ASSUME TypeOK, MinerCrash
  PROVE  TypeOK'
<1>1. job' \in [Sectors -> [Sessions -> Job]]
  <2> DEFINE ended(j) == [j EXCEPT !.child = "ended"]
  <2>1. \A s \in Sectors, n \in Sessions : job[s][n] \in Job /\ ended(job[s][n]) \in Job
    BY JobFields, JobParts DEF Child, Parent
  <2> HIDE DEF ended
  <2>2. job' = [s \in Sectors |-> [n \in Sessions |->
          IF job[s][n].by = NoWorker /\ job[s][n].child # "none"
          THEN ended(job[s][n]) ELSE job[s][n]]]
    BY DEF MinerCrash, ended
  <2> QED
    BY <2>1, <2>2
<1>2. /\ mail' \subseteq Report /\ resets' \subseteq Reset /\ queries' \subseteq Query
      /\ handlers' \subseteq Handler /\ posting' = {}
      /\ reqSession' \in [Sectors -> SUBSET Sessions]
  BY DEF MinerCrash, TypeOK
<1>3. faults' \in 0..MaxFaults
  BY TypeSpend DEF MinerCrash
<1> QED
  BY <1>1, <1>2, <1>3 DEF MinerCrash, TypeOK, tableVars, chainVars

-------------------------------------------------------------------------------
LEMMA NextTaskType == \A t \in Types : NextTask[t] \in Types
  BY DEF NextTask, Types, Tasks, WorkerTasks, MinerTasks

LEMMA RuleStateType ==
  \A t \in Types : RuleState(t) \in States /\ NextRuleState(t) \in States
  BY DEF RuleState, NextRuleState, States

LEMMA AcceptedType ==
  ASSUME NEW x \in Row, NEW t \in Types, NEW n \in Session0
  PROVE  Accepted(x, t, n) \in Row
<1>1. NextTask[t] \in Types /\ "INIT" \in States
  BY NextTaskType DEF States
<1>2. [c \in Columns |-> IF c = t THEN n
         ELSE IF c = "C1" /\ t = "COMMIT" THEN 0 ELSE x.out[c]] \in [Columns -> Session0]
  BY SealTaskAssumption DEF Row
<1>3. ASSUME NEW o \in [Columns -> Session0], NEW u \in Types, NEW st \in States
      PROVE  [x EXCEPT !.type = u, !.state = st, !.out = o] \in Row
  BY DEF Row
<1> QED
  BY <1>1, <1>2, <1>3 DEF Accepted

LEMMA ReportFields ==
  ASSUME TypeOK, NEW r \in mail
  PROVE  /\ r \in Report /\ r.sector \in Sectors /\ r.session \in Sessions
         /\ r.session \in Session0 /\ r.type \in Types /\ r.err \in Errs
         /\ r.out \in Session0
         /\ row[r.sector] \in Row
<1>1. r \in Report
  BY DEF TypeOK
<1>2. /\ r.sector \in Sectors /\ r.session \in Sessions
      /\ r.type \in Types /\ r.err \in Errs /\ r.out \in Session0
  BY <1>1 DEF Report
<1>3. r.session \in Session0
  BY <1>2, SealTaskAssumption
<1>4. row[r.sector] \in Row
  BY <1>2 DEF TypeOK
<1> QED
  BY <1>1, <1>2, <1>3, <1>4

\* What both kinds of report do besides the row and the handlers.
LEMMA TypeDelivered ==
  ASSUME TypeOK, NEW r \in mail, Delivered(r)
  PROVE  mail' \subseteq Report /\ faults' \in 0..MaxFaults
<1>1. CASE mail' = mail \ {r} /\ UNCHANGED faults
  BY <1>1 DEF TypeOK
<1>2. CASE Spend("dup") /\ UNCHANGED mail
  BY <1>2, TypeSpend DEF TypeOK
<1> QED
  BY <1>1, <1>2 DEF Delivered

LEMMA TypeLogged ==
  ASSUME TypeOK, NEW r \in mail, NEW st \in States
  PROVE  Logged(r, st) \in [Sectors -> [Sessions -> Log]]
<1>1. ASSUME NEW x \in Log, NEW e \in Errs
      PROVE  [x EXCEPT !.state = st, !.err = e] \in Log
  BY DEF Log
<1>2. log[r.sector][r.session] \in Log
  <2>1. r.sector \in Sectors /\ r.session \in Sessions
    BY ReportFields
  <2>2. log \in [Sectors -> [Sessions -> Log]]
    BY DEF TypeOK
  <2> QED
    BY <2>1, <2>2
<1>3. [log[r.sector][r.session] EXCEPT !.state = st, !.err = r.err] \in Log
  BY <1>1, <1>2, ReportFields
<1> QED
  BY <1>3, ReportFields DEF Logged, TypeOK

LEMMA TypePostCalls ==
  ASSUME TypeOK, NEW r \in mail
  PROVE  posting \cup PostCalls(r)
           \subseteq [sector : Sectors, call : {"RegisterPoSt", "UpdatePoStInfo"}]
  BY ReportFields DEF PostCalls, TypeOK

LEMMA TypeForget ==
  ASSUME TypeOK, NEW r \in mail
  PROVE  Forget(r) \in [Sectors -> SUBSET Sessions]
  BY ReportFields DEF Forget, TypeOK

LEMMA TypeRecieveResult ==
  ASSUME TypeOK, NEW r \in mail, RecieveResult(r)
  PROVE  TypeOK'
<1>1. row' \in [Sectors -> Row]
  <2>1. Accepted(row[r.sector], r.type, r.out) \in Row
    BY ReportFields, AcceptedType
  <2> QED
    BY <2>1, ReportFields DEF RecieveResult, TypeOK
<1>2. log' \in [Sectors -> [Sessions -> Log]]
  <2>1. "SUCCESS" \in States
    BY DEF States
  <2> QED
    BY <2>1, TypeLogged DEF RecieveResult, TypeOK
<1>3. mail' \subseteq Report /\ faults' \in 0..MaxFaults
  BY TypeDelivered DEF RecieveResult
<1>4. /\ posting' \subseteq [sector : Sectors, call : {"RegisterPoSt", "UpdatePoStInfo"}]
      /\ reqSession' \in [Sectors -> SUBSET Sessions]
  BY TypePostCalls, TypeForget DEF RecieveResult
<1> QED
  BY <1>1, <1>2, <1>3, <1>4 DEF RecieveResult, TypeOK, chainVars

LEMMA VerdictType ==
  ASSUME NEW s, NEW t, NEW e
  PROVE  {"read"} \cup Verdict(s, t, e) \subseteq {"read", "retry", "next"}
  BY DEF Verdict

LEMMA TypeRecieveError ==
  ASSUME TypeOK, NEW r \in mail, RecieveError(r)
  PROVE  TypeOK'
<1>1. {"ERROR"} \subseteq States
  BY DEF States
<1>2. row' \in [Sectors -> Row]
  <2>1. [row[r.sector] EXCEPT !.state = "ERROR"] \in Row
    BY <1>1, ReportFields, RowState
  <2> QED
    BY <2>1, ReportFields DEF RecieveError, TypeOK
<1>3. log' \in [Sectors -> [Sessions -> Log]]
  BY <1>1, TypeLogged DEF RecieveError
<1>4. mail' \subseteq Report /\ faults' \in 0..MaxFaults
  BY TypeDelivered DEF RecieveError
<1>5. /\ posting' \subseteq [sector : Sectors, call : {"RegisterPoSt", "UpdatePoStInfo"}]
      /\ reqSession' \in [Sectors -> SUBSET Sessions]
  BY TypePostCalls, TypeForget DEF RecieveError
<1>6. handlers' \subseteq Handler
  <2> DEFINE h(k, todo) == [sector |-> r.sector, session |-> r.session, n |-> k,
                            type |-> r.type, err |-> r.err, todo |-> todo]
  <2>1. \A k \in {1, 2}, todo \in {"read", "retry", "next"} : h(k, todo) \in Handler
    BY ReportFields DEF Handler
  <2>2. PICK todo \in {"read"} \cup Verdict(r.sector, r.type, r.err) :
          handlers' = handlers \cup {h(1, todo), h(2, "read")}
    BY DEF RecieveError
  <2>3. todo \in {"read", "retry", "next"}
    BY <2>2, VerdictType
  <2>4. h(1, todo) \in Handler /\ h(2, "read") \in Handler
    BY <2>1, <2>3
  <2> QED
    BY <2>2, <2>4 DEF TypeOK
<1> QED
  BY <1>2, <1>3, <1>4, <1>5, <1>6 DEF RecieveError, TypeOK, chainVars

-------------------------------------------------------------------------------
LEMMA TypeHandlerRead ==
  ASSUME TypeOK, NEW h \in handlers, HandlerRead(h)
  PROVE  TypeOK'
<1>1. h \in Handler
  BY DEF TypeOK
<1>2. \A v \in Verdict(h.sector, h.type, h.err) : v \in {"read", "retry", "next"}
  BY DEF Verdict
<1>3. \A v \in {"read", "retry", "next"} : [h EXCEPT !.todo = v] \in Handler
  BY <1>1 DEF Handler
<1>4. handlers' \subseteq Handler
  BY <1>2, <1>3 DEF HandlerRead, TypeOK
<1> QED
  BY <1>4 DEF HandlerRead, TypeOK, tableVars, callVars, chainVars

LEMMA TypeHandlerWrite ==
  ASSUME TypeOK, NEW h \in handlers, HandlerWrite(h)
  PROVE  TypeOK'
<1>1. h.sector \in Sectors /\ h.type \in Types
  BY DEF TypeOK, Handler
<1>2. row[h.sector] \in Row /\ NextTask[h.type] \in Types
      /\ RuleState(h.type) \in States /\ NextRuleState(h.type) \in States
  BY <1>1, NextTaskType, RuleStateType DEF TypeOK
<1>3. /\ [row[h.sector] EXCEPT !.state = RuleState(h.type)] \in Row
      /\ [row[h.sector] EXCEPT !.state = NextRuleState(h.type),
                               !.type = NextTask[h.type]] \in Row
  BY <1>2, RowState, RowTaskState
<1>4. row' \in [Sectors -> Row]
  BY <1>1, <1>3 DEF HandlerWrite, TypeOK
<1>5. handlers' \subseteq Handler
  BY DEF HandlerWrite, TypeOK
<1> QED
  BY <1>4, <1>5 DEF HandlerWrite, TypeOK, callVars, chainVars

LEMMA TypeRegisterPoSt ==
  ASSUME TypeOK, NEW s \in Sectors, RegisterPoSt(s)
  PROVE  TypeOK'
  BY DEF RegisterPoSt, TypeOK, callVars, chainVars

LEMMA TypeUpdatePoStInfo ==
  ASSUME TypeOK, NEW s \in Sectors, UpdatePoStInfo(s)
  PROVE  TypeOK'
<1>1. [row[s] EXCEPT !.out["C1"] = 0] \in Row
  <2>1. ASSUME NEW x \in Row, NEW o \in [Columns -> Session0]
        PROVE  [x EXCEPT !.out = o] \in Row
    BY DEF Row
  <2>2. row[s] \in Row
    BY DEF TypeOK
  <2>3. row[s].out \in [Columns -> Session0]
    BY <2>2 DEF Row
  <2>4. [row[s].out EXCEPT !["C1"] = 0] \in [Columns -> Session0]
    <3>1. 0 \in Session0
      BY SealTaskAssumption
    <3>2. ASSUME NEW f \in [Columns -> Session0]
          PROVE  [f EXCEPT !["C1"] = 0] \in [Columns -> Session0]
      BY <3>1
    <3> QED
      BY <2>3, <3>2
  <2> QED
    BY <2>1, <2>2, <2>4
<1>2. row' \in [Sectors -> Row]
  BY <1>1 DEF UpdatePoStInfo, TypeOK
<1>3. post' \in [Sectors -> {"none", "INIT", "SUCCESS"}]
  BY DEF UpdatePoStInfo, TypeOK
<1>4. posting' \subseteq [sector : Sectors, call : {"RegisterPoSt", "UpdatePoStInfo"}]
  BY DEF UpdatePoStInfo, TypeOK
<1> QED
  BY <1>2, <1>3, <1>4 DEF UpdatePoStInfo, TypeOK, callVars, chainVars

LEMMA TypeResetRead ==
  ASSUME TypeOK, NEW s \in Sectors, NEW w \in Owners,
         WorkerResetRead(w, s) \/ MinerResetRead(s)
  PROVE  TypeOK'
<1>1. row[s].req \in Session0 /\ row[s].type \in Types
  BY DEF TypeOK, Row
<1>2. resets' \subseteq Reset
  BY <1>1 DEF WorkerResetRead, MinerResetRead, Reset, Owners, TypeOK
<1>3. faults' \in 0..MaxFaults
  BY TypeSpend DEF WorkerResetRead, MinerResetRead
<1> QED
  BY <1>2, <1>3
  DEF WorkerResetRead, MinerResetRead, TypeOK, tableVars, callVars, chainVars

LEMMA TypeResetWrite ==
  ASSUME TypeOK, NEW r \in resets, ResetWrite(r)
  PROVE  TypeOK'
<1>1. r.sector \in Sectors /\ r.type \in Types
  BY DEF TypeOK, Reset, Types
<1>2. {"PC1"} \subseteq Types /\ {"RETRY", "INIT"} \subseteq States
  BY DEF Types, Tasks, WorkerTasks, States
<1>3. ASSUME NEW t \in Types, NEW st \in States
      PROVE  [row EXCEPT ![r.sector] = [@ EXCEPT !.type = t, !.state = st]]
               \in [Sectors -> Row]
  <2>1. [row[r.sector] EXCEPT !.type = t, !.state = st] \in Row
    BY <1>1, RowTaskState DEF TypeOK
  <2> QED
    BY <1>1, <2>1 DEF TypeOK
<1>4. row' \in [Sectors -> Row]
  <2>1. CASE row' = row
    BY <2>1 DEF TypeOK
  <2>2. CASE \E t \in {r.type} \cup
                 (IF r.how = "wreset" /\ r.type = "PC2" THEN {"PC1"} ELSE {}) :
               row' = [row EXCEPT ![r.sector] =
                        [@ EXCEPT !.type = t,
                                  !.state = IF r.how = "wreset" THEN "RETRY" ELSE "INIT"]]
    <3>1. PICK t \in {r.type} \cup
               (IF r.how = "wreset" /\ r.type = "PC2" THEN {"PC1"} ELSE {}) :
               row' = [row EXCEPT ![r.sector] =
                        [@ EXCEPT !.type = t,
                                  !.state = IF r.how = "wreset" THEN "RETRY" ELSE "INIT"]]
      BY <2>2
    <3>2. t \in Types
      BY <1>1, <1>2
    <3>3. (IF r.how = "wreset" THEN "RETRY" ELSE "INIT") \in States
      BY <1>2
    <3> QED
      BY <1>3, <3>1, <3>2, <3>3
  <2> QED
    BY <2>1, <2>2 DEF ResetWrite
<1>5. resets' \subseteq Reset
  BY DEF ResetWrite, TypeOK
<1> QED
  BY <1>4, <1>5 DEF ResetWrite, TypeOK, callVars, chainVars

-------------------------------------------------------------------------------
LEMMA TypeStep == TypeOK /\ [Next]_vars => TypeOK'
<1> SUFFICES ASSUME TypeOK, [Next]_vars PROVE TypeOK'
  OBVIOUS
<1>1. CASE \E s \in Sectors : AddTask(s)
  BY <1>1, TypeAddTask
<1>2. CASE \E t \in Tasks, w \in Owners, s \in Sectors : Poll(t, w, s)
  BY <1>2, TypePoll
<1>3. CASE \E s \in Sectors, n \in Sessions : WorkerStep(s, n)
  BY <1>3, TypeWatch, TypeChildRead, TypeChildEnds DEF WorkerStep
<1>4. CASE \E s \in Sectors, n \in Sessions : MinerStep(s, n)
  BY <1>4, TypeMinerStore, TypeMinerReports, TypeMinerPush DEF MinerStep
<1>5. CASE TableStep
  BY <1>5, TypeQueryWrite, TypeRecieveResult, TypeRecieveError, TypeHandlerRead,
     TypeHandlerWrite, TypeRegisterPoSt, TypeUpdatePoStInfo, TypeByStateWrite,
     TypeResetWrite, TypeByStateRetry
  DEF TableStep
<1>6. CASE (\E m \in mpool : ChainExec(m) \/ ChainDrop(m))
           \/ (\E s \in Sectors : ChainExpire(s))
  BY <1>6, TypeChainExec, TypeChainLoss
<1>7. CASE \E s \in Sectors, n \in Sessions : SessionFault(s, n)
  BY <1>7, TypeSpawnFail, TypeChildEnds, TypeChildEmpty, TypeGiveUp, TypeMinerReports,
     TypeMinerRefused
  DEF SessionFault
<1>8. CASE \E q \in queries : AnswerLost(q)
  BY <1>8, TypeAnswerLost
<1>9. CASE Operator
  <2>1. Workers \subseteq Owners /\ NoWorker \in Owners
    BY DEF Owners
  <2> QED
    BY <1>9, <2>1, TypeOperatorClaim, TypeByState, TypeResetRead DEF Operator
<1>10. CASE \E w \in Workers : WorkerCrash(w)
  BY <1>10, TypeWorkerCrash
<1>11. CASE MinerCrash
  BY <1>11, TypeMinerCrash
<1>12. CASE UNCHANGED vars
  BY <1>12 DEF TypeOK, vars
<1> QED
  BY <1>1, <1>2, <1>3, <1>4, <1>5, <1>6, <1>7, <1>8, <1>9, <1>10, <1>11, <1>12 DEF Next

(* Whatever fails and whatever the operator does, the tables, the calls in *)
(* flight and the jobs keep their types: no handler writes a state or a    *)
(* task the others do not know, and no bound is exceeded.                  *)
THEOREM TypeCorrect == Spec => []TypeOK
<1>1. Init => TypeOK
  BY TypeInit
<1>2. TypeOK /\ [Next]_vars => TypeOK'
  BY TypeStep
<1> QED
  BY <1>1, <1>2, PTL DEF Spec
===============================================================================
