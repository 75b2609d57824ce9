--------------------------- MODULE SealTaskSessions ---------------------------
(***************************************************************************)
(* Who works for a row, and from what: the results a row takes are current *)
(* for every instance in which the operator names the task a row is at;    *)
(* where he asks for nothing at all, one process works for a sector, at    *)
(* the worker that has its files, and no fault repeats a phase.            *)
(***************************************************************************)
EXTENDS SealTaskSafety

\* Session n is the one a result must come from to enter the row of sector s.
Owned(s, n) == row[s].state = "RUNING" /\ row[s].req = n

\* A session that has a parent is a worker's, and of the task it was asked for.
ParentsWork ==
  \A s \in Sectors, n \in Sessions : job[s][n].parent \in {"spawn", "watch"} =>
    job[s][n].by # NoWorker /\ job[s][n].task = job[s][n].asked

-------------------------------------------------------------------------------
(* The steps that leave every row alone and claim nothing.                 *)

\* How a session that has been claimed goes on, as job j becomes k at row x.
JobGoesOn(j, k, x) ==
  /\ k.by = j.by /\ k.asked = j.asked /\ k.task = j.task
  /\ k.child = "none" <=> j.child = "none"
  /\ j.child = "ended" => k.child = "ended"
  /\ k.child = "run" => \/ k.ctype = x.type /\ k.in = x.out
                        \/ j.child = "run" /\ k.ctype = j.ctype /\ k.in = j.in
  /\ j.child \in {"run", "ended"} => k.in = j.in
  /\ k.parent \in {"spawn", "watch"} => j.parent \in {"spawn", "watch"}
JobsGoOn == \A s \in Sectors, n \in Sessions : JobGoesOn(job[s][n], job'[s][n], row[s])

ClaimsKept ==
  \A q \in queries' : \E p \in queries :
    /\ q.sector = p.sector /\ q.session = p.session /\ q.task = p.task
    /\ q.by = p.by /\ q.snap = p.snap /\ q.how \in {p.how, "lost"}
HandlersKept ==
  \A h \in handlers' : \E g \in handlers :
    h.sector = g.sector /\ h.type = g.type /\ h.err = g.err

\* A session reports the task it was asked for, or the one its child runs, and
\* a worker's success comes from a child.
NewReport(r) ==
  LET j == job[r.sector][r.session] IN
  /\ r.sector \in Sectors /\ r.session \in Sessions
  /\ job'[r.sector][r.session].child = "ended"
  /\ r.type = j.asked \/ (j.child = "run" /\ r.type = j.ctype)
  /\ j.by = NoWorker => j.child \notin {"none", "ended"}
  /\ j.by # NoWorker /\ r.err = "none" => j.child = "run"
MailGrows ==
  \/ mail' \subseteq mail
  \/ \E r : mail' \subseteq mail \cup {r} /\ NewReport(r)

SessionsGoOn ==
  /\ row' = row /\ JobsGoOn /\ ClaimsKept /\ HandlersKept /\ MailGrows
  /\ posting' \subseteq posting /\ resets' \subseteq resets

LEMMA JobSteps ==
  ASSUME NEW j \in Job, NEW x
  PROVE  /\ JobGoesOn(j, j, x)
         /\ j.child # "none" => JobGoesOn(j, [j EXCEPT !.child = "ended"], x)
         /\ j.child # "none" => JobGoesOn(j, [j EXCEPT !.parent = "gone", !.child = "ended"], x)
         /\ JobGoesOn(j, [j EXCEPT !.parent = "gone"], x)
         /\ j.parent = "spawn" => JobGoesOn(j, [j EXCEPT !.parent = "watch"], x)
         /\ j.child = "spawn" =>
              JobGoesOn(j, [j EXCEPT !.child = "run", !.ctype = x.type, !.in = x.out], x)
         /\ j.child \in {"claimed", "stored"} => \A c \in {"stored", "pushed"} :
              JobGoesOn(j, [j EXCEPT !.child = c], x)
  BY DEF Job, JobGoesOn

LEMMA OneGoesOn ==
  ASSUME TypeOK, NEW s \in Sectors, NEW n \in Sessions, NEW k,
         JobGoesOn(job[s][n], k, row[s]),
         job' = [job EXCEPT ![s] = [@ EXCEPT ![n] = k]]
  PROVE  JobsGoOn
<1>1. \A u \in Sectors, m \in Sessions :
        job[u][m] \in Job /\ job'[u][m] = IF u = s /\ m = n THEN k ELSE job[u][m]
  BY DEF TypeOK
<1>2. \A u \in Sectors, m \in Sessions : JobGoesOn(job[u][m], job[u][m], row[u])
  BY <1>1, JobSteps
<1> QED  BY <1>1, <1>2 DEF JobsGoOn

LEMMA Kept ==
  ASSUME UNCHANGED <<row, handlers, queries, posting, resets>>, JobsGoOn, MailGrows
  PROVE  SessionsGoOn
  BY DEF SessionsGoOn, ClaimsKept, HandlersKept

LEMMA AllStay ==
  ASSUME TypeOK, UNCHANGED job
  PROVE  JobsGoOn
  BY JobFields, JobSteps DEF JobsGoOn

LEMMA WatchGoesOn ==
  ASSUME TypeOK, LifecycleInv, NEW s \in Sectors, NEW n \in Sessions,
         Watch(s, n) \/ ParentExit(s, n)
  PROVE  SessionsGoOn
<1>1. job[s][n] \in Job
  BY JobFields
<1>2. JobsGoOn
  <2>1. CASE Watch(s, n)
    <3>1. JobGoesOn(job[s][n], [job[s][n] EXCEPT !.parent = "watch"], row[s])
      BY <1>1, <2>1, JobSteps DEF Watch
    <3>2. job' = [job EXCEPT ![s] = [@ EXCEPT ![n] = [job[s][n] EXCEPT !.parent = "watch"]]]
      BY <2>1 DEF Watch
    <3> QED  BY <3>1, <3>2, OneGoesOn
  <2>2. CASE ParentExit(s, n)
    <3>1. JobGoesOn(job[s][n], [job[s][n] EXCEPT !.parent = "gone"], row[s])
      BY <1>1, <2>2, JobSteps
    <3>2. job' = [job EXCEPT ![s] = [@ EXCEPT ![n] = [job[s][n] EXCEPT !.parent = "gone"]]]
      BY <2>2 DEF ParentExit
    <3> QED  BY <3>1, <3>2, OneGoesOn
  <2> QED  BY <2>1, <2>2
<1> QED
  BY <1>2, Kept DEF Watch, ParentExit, MailGrows, tableVars, callVars, minerVars

LEMMA ChildReadGoesOn ==
  ASSUME TypeOK, NEW s \in Sectors, NEW n \in Sessions, ChildRead(s, n)
  PROVE  SessionsGoOn
<1> DEFINE k == [job[s][n] EXCEPT !.child = "run", !.ctype = row[s].type, !.in = row[s].out]
<1>1. JobGoesOn(job[s][n], k, row[s])
  BY JobFields, JobSteps DEF ChildRead
<1>2. job' = [job EXCEPT ![s] = [@ EXCEPT ![n] = k]]
  BY DEF ChildRead
<1>3. JobsGoOn
  BY <1>1, <1>2, OneGoesOn
<1> QED
  BY <1>3, Kept DEF ChildRead, MailGrows, tableVars, callVars, minerVars

\* The steps that end a session's child, with or without a report.
ChildEnds(s, n) ==
  \/ job' = [job EXCEPT ![s][n].child = "ended"]
  \/ job' = [job EXCEPT ![s][n].parent = "gone", ![s][n].child = "ended"]

LEMMA JobEnds ==
  ASSUME TypeOK, NEW s \in Sectors, NEW n \in Sessions, job[s][n].child # "none",
         ChildEnds(s, n)
  PROVE  JobsGoOn /\ job'[s][n].child = "ended"
<1>1. job[s][n] \in Job
  BY JobFields
<1>2. CASE job' = [job EXCEPT ![s][n].child = "ended"]
  <2>1. JobGoesOn(job[s][n], [job[s][n] EXCEPT !.child = "ended"], row[s])
    BY <1>1, JobSteps
  <2>2. job' = [job EXCEPT ![s] = [@ EXCEPT ![n] = [job[s][n] EXCEPT !.child = "ended"]]]
    BY <1>2
  <2>3. JobsGoOn
    BY <2>1, <2>2, OneGoesOn
  <2>4. job'[s][n] = [job[s][n] EXCEPT !.child = "ended"]
    BY <1>2 DEF TypeOK
  <2> QED  BY <1>1, <2>3, <2>4 DEF Job
<1>3. CASE job' = [job EXCEPT ![s][n].parent = "gone", ![s][n].child = "ended"]
  <2>1. JobGoesOn(job[s][n], [job[s][n] EXCEPT !.parent = "gone", !.child = "ended"], row[s])
    BY <1>1, JobSteps
  <2>2. job' = [job EXCEPT ![s] = [@ EXCEPT ![n] =
                  [job[s][n] EXCEPT !.parent = "gone", !.child = "ended"]]]
    BY <1>1, <1>3 DEF TypeOK, Job
  <2>3. JobsGoOn
    BY <2>1, <2>2, OneGoesOn
  <2>4. job'[s][n] = [job[s][n] EXCEPT !.parent = "gone", !.child = "ended"]
    BY <2>2 DEF TypeOK
  <2> QED  BY <1>1, <2>3, <2>4 DEF Job
<1> QED  BY <1>2, <1>3 DEF ChildEnds

LEMMA EndsGoOn ==
  ASSUME TypeOK, NEW s \in Sectors, NEW n \in Sessions, NEW r,
         job[s][n].child # "none", ChildEnds(s, n), mail' = mail \/ mail' = mail \cup {r},
         r.sector = s, r.session = n,
         r.type = job[s][n].asked \/ (job[s][n].child = "run" /\ r.type = job[s][n].ctype),
         job[s][n].by = NoWorker => job[s][n].child # "ended",
         job[s][n].by # NoWorker /\ r.err = "none" => job[s][n].child = "run",
         UNCHANGED <<row, handlers, queries, posting, resets>>
  PROVE  SessionsGoOn
<1>1. JobsGoOn /\ job'[s][n].child = "ended"
  BY JobEnds
<1>2. NewReport(r)
  BY <1>1 DEF NewReport
<1> QED
  BY <1>1, <1>2, Kept DEF MailGrows

LEMMA ChildEndsGoOn ==
  ASSUME TypeOK, NEW s \in Sectors, NEW n \in Sessions,
         \/ ChildOk(s, n) \/ ChildError(s, n) \/ ChildEmpty(s, n)
         \/ ChildDie(s, n) \/ MinerSilent(s, n)
  PROVE  SessionsGoOn
<1> DEFINE r(e) == Post(s, n, job[s][n].ctype, e)
<1>1. \A e : r(e).sector = s /\ r(e).session = n /\ r(e).type = job[s][n].ctype /\ r(e).err = e
  BY DEF Post
<1>2. /\ job[s][n].child \notin {"none", "ended"}
      /\ ChildEnds(s, n) /\ UNCHANGED <<row, handlers, queries, posting, resets>>
  BY DEF ChildOk, ChildError, ChildEmpty, ChildDie, MinerSilent, MinerRuns, ChildEnds,
         tableVars, callVars, minerVars
<1>3. CASE ChildOk(s, n)
  <2>1. mail' = mail \cup {r("none")} /\ job[s][n].child = "run"
    BY <1>3 DEF ChildOk
  <2>2. PICK o : o = r("none")
    OBVIOUS
  <2>3. o.sector = s /\ o.session = n /\ o.type = job[s][n].ctype
    BY <1>1, <2>2
  <2> QED  BY <1>2, <2>1, <2>2, <2>3, EndsGoOn
<1>4. CASE ChildError(s, n)
  <2>1. mail' = mail \cup {r("other")} /\ job[s][n].child = "run"
    BY <1>4 DEF ChildError
  <2>2. PICK o : o = r("other")
    OBVIOUS
  <2>3. o.sector = s /\ o.session = n /\ o.type = job[s][n].ctype
    BY <1>1, <2>2
  <2> QED  BY <1>2, <2>1, <2>2, <2>3, EndsGoOn
<1>5. CASE ChildDie(s, n) \/ MinerSilent(s, n)
  <2> DEFINE o == Post(s, n, job[s][n].asked, "other")
  <2>1. mail' = mail
    BY <1>5 DEF ChildDie, MinerSilent, callVars
  <2>2. o.sector = s /\ o.session = n /\ o.type = job[s][n].asked /\ o.err = "other"
    BY DEF Post
  <2> HIDE DEF o
  <2> QED  BY <1>2, <2>1, <2>2, EndsGoOn
<1>6. CASE ChildEmpty(s, n)
  <2>1. PICK o : o = [r("none") EXCEPT !.out = 0]
    OBVIOUS
  <2>2. mail' = mail \cup {o} /\ job[s][n].child = "run"
    BY <1>6, <2>1 DEF ChildEmpty
  <2>3. o.sector = s /\ o.session = n /\ o.type = job[s][n].ctype
    BY <2>1 DEF Post
  <2> QED  BY <1>2, <2>2, <2>3, EndsGoOn
<1> QED  BY <1>3, <1>4, <1>5, <1>6

LEMMA ParentEndsGoOn ==
  ASSUME TypeOK, LifecycleInv, ParentsWork, NEW s \in Sectors, NEW n \in Sessions,
         SpawnFail(s, n) \/ Timeout(s, n) \/ Shutdown(s, n)
  PROVE  SessionsGoOn
<1> DEFINE r(e) == Post(s, n, job[s][n].asked, e)
<1>1. \A e : r(e).sector = s /\ r(e).session = n /\ r(e).type = job[s][n].asked /\ r(e).err = e
  BY DEF Post
<1>2. job[s][n].parent \in {"spawn", "watch"}
  BY DEF SpawnFail, Timeout, Shutdown, GiveUp
<1>3. job[s][n].child # "none" /\ job[s][n].by # NoWorker /\ job[s][n].task = job[s][n].asked
  BY <1>2, JobChild DEF ParentsWork
<1>4. /\ ChildEnds(s, n) /\ UNCHANGED <<row, handlers, queries, posting, resets>>
      /\ \E e \in {"other", "timeout"} : mail' = mail \/ mail' = mail \cup {r(e)}
  BY <1>3 DEF SpawnFail, Timeout, Shutdown, GiveUp, ChildEnds, tableVars, minerVars
<1>5. PICK e \in {"other", "timeout"} : mail' = mail \/ mail' = mail \cup {r(e)}
  BY <1>4
<1>6. PICK o : o = r(e)
  OBVIOUS
<1>7. o.sector = s /\ o.session = n /\ o.type = job[s][n].asked /\ o.err # "none"
  BY <1>1, <1>6
<1> QED  BY <1>3, <1>4, <1>5, <1>6, <1>7, EndsGoOn

LEMMA MinerEndsGoOn ==
  ASSUME TypeOK, LifecycleInv, NEW s \in Sectors, NEW n \in Sessions,
         \/ SeedDone(s, n) \/ ReceiptOk(s, n) \/ ReceiptBad(s, n) \/ ReceiptLost(s, n)
         \/ \E e \in Errs : MinerFail(s, n, e) \/ MinerRefused(s, n, e)
  PROVE  SessionsGoOn
<1> DEFINE r(e) == Post(s, n, job[s][n].asked, e)
<1>1. \A e : r(e).sector = s /\ r(e).session = n /\ r(e).type = job[s][n].asked /\ r(e).err = e
  BY DEF Post
<1>2. job[s][n].child \in {"claimed", "stored", "pushed"} /\ job[s][n].by = NoWorker
  BY DEF SeedDone, ReceiptOk, ReceiptBad, ReceiptLost, MinerFail, MinerRefused, MinerRuns
<1>3. ReportType(job[s][n]) = job[s][n].asked
  BY <1>2, JobChild DEF ReportType
<1>4. PICK e : MinerEnds(s, n, e)
  BY DEF SeedDone, ReceiptOk, ReceiptBad, ReceiptLost, MinerFail, MinerRefused
<1>5. /\ ChildEnds(s, n) /\ mail' = mail \cup {r(e)}
      /\ UNCHANGED <<row, handlers, queries, posting, resets>>
  BY <1>3, <1>4 DEF MinerEnds, ChildEnds, tableVars, minerVars
<1>6. PICK o : o = r(e)
  OBVIOUS
<1>7. o.sector = s /\ o.session = n /\ o.type = job[s][n].asked
  BY <1>1, <1>6
<1> QED  BY <1>2, <1>5, <1>6, <1>7, EndsGoOn

LEMMA MinerGoesOn ==
  ASSUME TypeOK, NEW s \in Sectors, NEW n \in Sessions, MinerStore(s, n) \/ MinerPush(s, n)
  PROVE  SessionsGoOn
<1>1. PICK c \in {"stored", "pushed"} : job' = [job EXCEPT ![s][n].child = c]
  BY DEF MinerStore, MinerPush
<1> DEFINE k == [job[s][n] EXCEPT !.child = c]
<1>2. JobGoesOn(job[s][n], k, row[s])
  BY JobFields, JobSteps DEF MinerStore, MinerPush, MinerRuns
<1>3. job' = [job EXCEPT ![s] = [@ EXCEPT ![n] = k]]
  BY <1>1
<1>4. JobsGoOn
  BY <1>2, <1>3, OneGoesOn
<1> QED
  BY <1>4, Kept DEF MinerStore, MinerPush, MailGrows, tableVars, callVars, minerVars

LEMMA AnswerLostGoesOn ==
  ASSUME TypeOK, NEW q \in queries, AnswerLost(q)
  PROVE  SessionsGoOn
<1> DEFINE c == [q EXCEPT !.how = "lost"]
<1>1. /\ queries' = (queries \ {q}) \cup {c}
      /\ c.sector = q.sector /\ c.session = q.session /\ c.task = q.task
      /\ c.by = q.by /\ c.snap = q.snap /\ c.how = "lost"
  BY DEF AnswerLost, TypeOK, Query
<1> HIDE DEF c
<1>2. ClaimsKept
  BY <1>1 DEF ClaimsKept
<1>3. JobsGoOn
  BY AllStay DEF AnswerLost
<1> QED
  BY <1>2, <1>3
  DEF AnswerLost, SessionsGoOn, HandlersKept, MailGrows, tableVars, minerVars

LEMMA WorkerCrashGoesOn ==
  ASSUME TypeOK, LifecycleInv, NEW w \in Workers, WorkerCrash(w)
  PROVE  SessionsGoOn
<1>1. JobsGoOn
  <2>1. ASSUME NEW j \in Job, j.child # "none", NEW x
        PROVE  JobGoesOn(j, Orphaned(j), x)
    <3>1. CASE j.parent = "spawn" /\ j.child = "spawn"
      BY <2>1, <3>1, JobSteps DEF Orphaned
    <3>2. CASE ~(j.parent = "spawn" /\ j.child = "spawn")
      BY <3>2, JobSteps DEF Orphaned
    <3> QED  BY <3>1, <3>2
  <2>2. \A s \in Sectors, n \in Sessions :
          \/ job'[s][n] = job[s][n]
          \/ job'[s][n] = Orphaned(job[s][n]) /\ job[s][n].parent # "none"
    BY DEF WorkerCrash
  <2>3. \A s \in Sectors, n \in Sessions :
          job[s][n] \in Job /\ (job[s][n].parent # "none" => job[s][n].child # "none")
    BY JobFields, JobChild
  <2>4. ASSUME NEW s \in Sectors, NEW n \in Sessions
        PROVE  JobGoesOn(job[s][n], job'[s][n], row[s])
    <3>1. CASE job'[s][n] = job[s][n]
      BY <2>3, <3>1, JobSteps
    <3>2. CASE job'[s][n] = Orphaned(job[s][n]) /\ job[s][n].parent # "none"
      BY <2>1, <2>3, <3>2
    <3> QED  BY <2>2, <3>1, <3>2
  <2> QED  BY <2>4 DEF JobsGoOn
<1>2. ClaimsKept
  <2>1. \A q \in queries :
          LET c == [q EXCEPT !.how = "lost"] IN
          /\ c.sector = q.sector /\ c.session = q.session /\ c.task = q.task
          /\ c.by = q.by /\ c.snap = q.snap /\ c.how = "lost"
    BY DEF TypeOK, Query
  <2> QED  BY <2>1 DEF WorkerCrash, ClaimsKept
<1> QED
  BY <1>1, <1>2
  DEF WorkerCrash, SessionsGoOn, HandlersKept, MailGrows, tableVars

LEMMA MinerCrashGoesOn ==
  ASSUME TypeOK, MinerCrash
  PROVE  SessionsGoOn
<1>1. JobsGoOn
  <2>1. \A s \in Sectors, n \in Sessions :
          \/ job'[s][n] = job[s][n]
          \/ job'[s][n] = [job[s][n] EXCEPT !.child = "ended"] /\ job[s][n].child # "none"
    BY DEF MinerCrash
  <2> QED  BY <2>1, JobFields, JobSteps DEF JobsGoOn
<1> QED
  BY <1>1 DEF MinerCrash, SessionsGoOn, ClaimsKept, HandlersKept, MailGrows, tableVars

LEMMA HandlerReadGoesOn ==
  ASSUME TypeOK, NEW h \in handlers, HandlerRead(h)
  PROVE  SessionsGoOn
<1>1. HandlersKept
  <2>1. h \in Handler
    BY DEF TypeOK
  <2> QED  BY <2>1 DEF HandlerRead, HandlersKept, Handler
<1>2. JobsGoOn
  BY AllStay DEF HandlerRead
<1> QED
  BY <1>1, <1>2
  DEF HandlerRead, SessionsGoOn, ClaimsKept, MailGrows, tableVars, callVars

LEMMA OthersGoOn ==
  ASSUME TypeOK,
         \/ \E m \in mpool : ChainExec(m) \/ ChainDrop(m)
         \/ \E s \in Sectors : RegisterPoSt(s) \/ ChainExpire(s)
         \/ UNCHANGED vars
  PROVE  SessionsGoOn
<1>1. UNCHANGED <<row, job, queries, handlers, mail, resets>> /\ posting' \subseteq posting
  BY DEF ChainExec, ChainDrop, ChainExpire, RegisterPoSt, vars, tableVars, callVars, minerVars
<1>2. JobsGoOn
  BY <1>1, AllStay
<1> QED
  BY <1>1, <1>2 DEF SessionsGoOn, ClaimsKept, HandlersKept, MailGrows

\* The other steps: those that write a row or ask for one.
TableActs ==
  \/ \E s \in Sectors : AddTask(s) \/ UpdatePoStInfo(s)
  \/ \E t \in Tasks, w \in Owners, s \in Sectors : Poll(t, w, s)
  \/ \E q \in queries : QueryWrite(q) \/ ByStateWrite(q)
  \/ \E r \in mail : RecieveResult(r) \/ RecieveError(r)
  \/ \E h \in handlers : HandlerWrite(h)
  \/ \E r \in resets : ResetWrite(r) \/ ByStateRetry(r)
  \/ Operator

LEMMA StepKinds ==
  ASSUME TypeOK, LifecycleInv, ParentsWork, [Next]_vars
  PROVE  SessionsGoOn \/ TableActs
<1>1. CASE \E s \in Sectors, n \in Sessions : WorkerStep(s, n)
  BY <1>1, WatchGoesOn, ChildReadGoesOn, ChildEndsGoOn DEF WorkerStep
<1>2. CASE \E s \in Sectors, n \in Sessions : MinerStep(s, n)
  BY <1>2, MinerGoesOn, MinerEndsGoOn DEF MinerStep
<1>3. CASE TableStep
  BY <1>3, HandlerReadGoesOn, OthersGoOn DEF TableStep, TableActs
<1>4. CASE \E s \in Sectors, n \in Sessions : SessionFault(s, n)
  BY <1>4, ParentEndsGoOn, ChildEndsGoOn, MinerEndsGoOn DEF SessionFault
<1>5. CASE \/ \E m \in mpool : ChainExec(m) \/ ChainDrop(m)
           \/ (\E s \in Sectors : ChainExpire(s)) \/ UNCHANGED vars
  BY <1>5, OthersGoOn
<1>6. CASE \E q \in queries : AnswerLost(q)
  BY <1>6, AnswerLostGoesOn
<1>7. CASE (\E w \in Workers : WorkerCrash(w)) \/ MinerCrash
  BY <1>7, WorkerCrashGoesOn, MinerCrashGoesOn
<1> QED
  BY <1>1, <1>2, <1>3, <1>4, <1>5, <1>6, <1>7 DEF Next, TableActs

-------------------------------------------------------------------------------
(* Results are current.                                                    *)

\* A task of the workers is claimed by one, and run on his behalf; by state,
\* too, only workers claim.
ClaimantsWork ==
  /\ \A q \in queries : q.task \in WorkerTasks \/ q.session = 0 => q.by # NoWorker
  /\ \A r \in resets : r.how = "bystate" => r.by # NoWorker
WorkersWork ==
  /\ ClaimantsWork
  /\ \A s \in Sectors, n \in Sessions :
       job[s][n].asked \in WorkerTasks => job[s][n].by # NoWorker

\* Nothing is left to run once a session has reported.
ReportsEnd == \A r \in mail : job[r.sector][r.session].child = "ended"

Succeeded(s, n) == \E r \in mail : r.sector = s /\ r.session = n /\ r.err = "none"

\* As long as a row is RUNING under a session, it holds the columns that the
\* session's child has read, C1's apart, which UpdatePoStInfo may have dropped.
ReadsCurrent ==
  \A s \in Sectors, n \in Sessions :
    /\ Owned(s, n) /\ job[s][n].by # NoWorker
    /\ job[s][n].child = "run" \/ Succeeded(s, n)
    => \A d \in Columns : row[s].out[d] \in {0, job[s][n].in[d]}

ReadInv == ParentsWork /\ WorkersWork /\ ReportsEnd /\ ReadsCurrent

LEMMA ReadInit == Init => ReadInv
<1> SUFFICES ASSUME Init PROVE ReadInv
  OBVIOUS
<1>1. queries = {} /\ mail = {} /\ resets = {}
  BY DEF Init
<1>2. \A s \in Sectors, n \in Sessions :
        job[s][n].asked = "" /\ job[s][n].parent = "none" /\ row[s].state = "INIT"
  BY DEF Init, NoJob, NoRow
<1> QED
  BY <1>1, <1>2
  DEF ReadInv, ParentsWork, WorkersWork, ClaimantsWork, ReportsEnd, ReadsCurrent, Owned,
      WorkerTasks

\* A row that a session owns is written by nobody else, but for UpdatePoStInfo.
OwnersLast ==
  \A s \in Sectors, n \in Sessions : Owned(s, n)' =>
    Owned(s, n) /\ \A d \in Columns : row'[s].out[d] \in {0, row[s].out[d]}

LEMMA ReadFrame ==
  ASSUME TypeOK, ReadInv, OwnersLast, JobsGoOn, MailGrows, ClaimantsWork'
  PROVE  ReadInv'
<1>1. ParentsWork'
  BY DEF ReadInv, ParentsWork, JobsGoOn, JobGoesOn
<1>2. WorkersWork'
  BY DEF ReadInv, WorkersWork, JobsGoOn, JobGoesOn
<1>3. ReportsEnd'
  <2>1. \A r \in mail : job'[r.sector][r.session].child = "ended"
    BY ReportFields DEF ReadInv, ReportsEnd, JobsGoOn, JobGoesOn
  <2> QED  BY <2>1 DEF ReportsEnd, MailGrows, NewReport
<1>4. ReadsCurrent'
  <2> SUFFICES ASSUME NEW s \in Sectors, NEW n \in Sessions, Owned(s, n)',
                      job'[s][n].by # NoWorker,
                      job'[s][n].child = "run" \/ Succeeded(s, n)', NEW d \in Columns
               PROVE  row'[s].out[d] \in {0, job'[s][n].in[d]}
    BY DEF ReadsCurrent
  <2>1. Owned(s, n) /\ row'[s].out[d] \in {0, row[s].out[d]}
    BY DEF OwnersLast
  <2>2. JobGoesOn(job[s][n], job'[s][n], row[s]) /\ job[s][n].by # NoWorker
    BY DEF JobsGoOn, JobGoesOn
  <2>3. CASE job[s][n].child = "run" \/ Succeeded(s, n)
    <3>1. job'[s][n].in = job[s][n].in
      BY <2>2, <2>3 DEF JobGoesOn, Succeeded, ReadInv, ReportsEnd
    <3>2. row[s].out[d] \in {0, job[s][n].in[d]}
      BY <2>1, <2>2, <2>3 DEF ReadInv, ReadsCurrent
    <3> QED  BY <2>1, <3>1, <3>2
  <2>4. CASE job[s][n].child # "run" /\ ~Succeeded(s, n)
    <3>1. ~Succeeded(s, n)'
      BY <2>2, <2>4 DEF Succeeded, MailGrows, NewReport
    <3>2. job'[s][n].in = row[s].out
      BY <2>2, <2>4, <3>1 DEF JobGoesOn
    <3> QED  BY <2>1, <3>2
  <2> QED  BY <2>3, <2>4
<1> QED  BY <1>1, <1>2, <1>3, <1>4 DEF ReadInv

\* The frame of the steps that change no job and no row but one.
RowGoes(s, x) == \A v \in Sectors : row'[v] = IF v = s THEN x ELSE row[v]

LEMMA ReadRow ==
  ASSUME TypeOK, ReadInv, NEW s \in Sectors, NEW x, RowGoes(s, x),
         x.state # "RUNING" \/ (/\ x.req = row[s].req /\ x.state = row[s].state
                                /\ \A d \in Columns : x.out[d] \in {0, row[s].out[d]}),
         UNCHANGED <<job, queries>>, mail' \subseteq mail, resets' \subseteq resets
  PROVE  ReadInv'
<1>1. OwnersLast
  BY DEF OwnersLast, Owned, RowGoes
<1>2. JobsGoOn
  BY AllStay
<1>3. ClaimantsWork'
  BY DEF ReadInv, WorkersWork, ClaimantsWork
<1> QED  BY <1>1, <1>2, <1>3, ReadFrame DEF MailGrows

LEMMA ReadQueryRead ==
  ASSUME TypeOK, ReadInv, NEW t \in Tasks, NEW w \in Owners, NEW s \in Sectors, NEW how,
         t \in WorkerTasks => w # NoWorker, QueryRead(t, w, s, how), resets' \subseteq resets
  PROVE  ReadInv'
<1>1. OwnersLast /\ UNCHANGED <<job, mail>>
  BY DEF QueryRead, tableVars, OwnersLast, Owned
<1>2. JobsGoOn
  BY <1>1, AllStay
<1>3. ClaimantsWork'
  <2>1. used[s] + 1 # 0
    BY DEF TypeOK, Session0
  <2> QED  BY <2>1 DEF QueryRead, ReadInv, WorkersWork, ClaimantsWork
<1> QED  BY <1>1, <1>2, <1>3, ReadFrame DEF MailGrows

LEMMA ReadByState ==
  ASSUME TypeOK, ReadInv, NEW t \in Tasks, NEW w \in Workers, NEW s \in Sectors, ByState(t, w, s)
  PROVE  ReadInv'
<1>1. OwnersLast /\ UNCHANGED <<job, mail, resets>>
  BY DEF ByState, tableVars, minerVars, OwnersLast, Owned
<1>2. JobsGoOn
  BY <1>1, AllStay
<1>3. ClaimantsWork'
  BY <1>1, SealTaskAssumption DEF ByState, ReadInv, WorkersWork, ClaimantsWork
<1> QED  BY <1>1, <1>2, <1>3, ReadFrame DEF MailGrows

\* A row claimed under "" is no session's.
LEMMA ReadByStateWrite ==
  ASSUME TypeOK, LifecycleInv, ReadInv, NEW q \in queries, ByStateWrite(q)
  PROVE  ReadInv'
<1>1. UNCHANGED <<job, mail>> /\ row' = Claimed(q) /\ queries' \subseteq queries
  BY DEF ByStateWrite
<1>2. OwnersLast
  <2>1. \A v \in Sectors : row'[v] = row[v] \/ row'[v].req = 0
    BY <1>1, ClaimedRow DEF ByStateWrite
  <2> QED  BY <2>1 DEF OwnersLast, Owned, Sessions
<1>3. JobsGoOn
  BY <1>1, AllStay
<1>4. ClaimantsWork'
  BY <1>1 DEF ByStateWrite, ReadInv, WorkersWork, ClaimantsWork
<1> QED  BY <1>1, <1>2, <1>3, <1>4, ReadFrame DEF MailGrows

LEMMA ReadByStateRetry ==
  ASSUME TypeOK, ReadInv, NEW r \in resets, ByStateRetry(r)
  PROVE  ReadInv'
<1>1. r.by # NoWorker /\ r.by \in Owners /\ r.sector \in Sectors /\ r.type \in Tasks
  BY DEF ByStateRetry, ReadInv, WorkersWork, ClaimantsWork, TypeOK, Reset
<1>2. QueryRead(r.type, r.by, r.sector, "restart") /\ resets' \subseteq resets
  BY DEF ByStateRetry
<1> QED  BY <1>1, <1>2, ReadQueryRead

LEMMA ReadQueryWrite ==
  ASSUME TypeOK, LifecycleInv, ReadInv, NEW q \in queries, QueryWrite(q)
  PROVE  ReadInv'
<1> DEFINE u == q.sector
           n == q.session
<1>1. q \in Query /\ u \in Sectors /\ n \in Sessions /\ n # 0 /\ q.task \in Tasks
  BY SealTaskAssumption DEF QueryWrite, TypeOK, Query, Session0, Sessions
<1>2. q.task = q.snap.type /\ job[u][n].child = "none" /\ (q.task \in WorkerTasks => q.by # NoWorker)
  BY <1>1 DEF LifecycleInv, ClaimsReached, SessionsFresh, ReadInv, WorkersWork, ClaimantsWork
<1>3. /\ \A v \in Sectors, m \in Sessions : v # u \/ m # n => job'[v][m] = job[v][m]
      /\ job'[u][n] = Started(q)
  BY <1>1 DEF QueryWrite, TypeOK
<1>4. /\ Started(q).asked = q.task /\ Started(q).task = q.task /\ Started(q).by = q.by
      /\ Started(q).child # "run"
      /\ Started(q).parent \in {"spawn", "watch"} => q.by # NoWorker
  BY <1>2 DEF Started
<1>5. ParentsWork' /\ WorkersWork'
  <2>1. queries' \subseteq queries /\ \A r \in resets' : r \in resets \/ r.how = "update"
    BY DEF QueryWrite
  <2>2. ClaimantsWork'
    BY <2>1 DEF ReadInv, WorkersWork, ClaimantsWork
  <2> QED  BY <1>2, <1>3, <1>4, <2>2 DEF ReadInv, ParentsWork, WorkersWork
<1>6. mail' = mail /\ \A r \in mail : ~(r.sector = u /\ r.session = n)
  BY <1>2 DEF QueryWrite, ReadInv, ReportsEnd
<1>7. ReportsEnd'
  BY <1>3, <1>6, ReportFields DEF ReadInv, ReportsEnd
<1>8. ReadsCurrent'
  <2> SUFFICES ASSUME NEW v \in Sectors, NEW m \in Sessions, Owned(v, m)',
                      job'[v][m].by # NoWorker,
                      job'[v][m].child = "run" \/ Succeeded(v, m)', NEW d \in Columns
               PROVE  row'[v].out[d] \in {0, job'[v][m].in[d]}
    BY DEF ReadsCurrent
  <2>1. v # u \/ m # n
    BY <1>3, <1>4, <1>6 DEF Succeeded
  <2>2. row'[v] = row[v]
    <3>1. row'[v] = row[v] \/ (v = u /\ row'[v].req = n)
      BY ClaimedRow DEF QueryWrite
    <3> QED  BY <2>1, <3>1 DEF Owned
  <2>3. job'[v][m] = job[v][m]
    BY <1>3, <2>1
  <2> QED  BY <1>6, <2>2, <2>3 DEF ReadInv, ReadsCurrent, Owned, Succeeded
<1> QED  BY <1>5, <1>7, <1>8 DEF ReadInv

LEMMA ReportRow ==
  ASSUME TypeOK, NEW r \in mail, RecieveResult(r) \/ RecieveError(r)
  PROVE  /\ r.sector \in Sectors
         /\ UNCHANGED <<job, queries, resets>> /\ mail' \subseteq mail
         /\ \E x : RowGoes(r.sector, x) /\ (x.state # "RUNING" \/ x = row[r.sector])
<1>1. /\ r.sector \in Sectors /\ row[r.sector] \in Row
      /\ UNCHANGED <<job, queries, resets>> /\ mail' \subseteq mail
  BY ReportFields DEF RecieveResult, RecieveError, Delivered
<1>2. CASE Owns(r) /\ RecieveResult(r)
  <2> DEFINE x == Accepted(row[r.sector], r.type, r.out)
  <2>1. x.state = "INIT"
    BY <1>1 DEF Accepted, Row
  <2>2. RowGoes(r.sector, x)
    BY <1>1, <1>2 DEF RecieveResult, RowGoes, TypeOK
  <2> HIDE DEF x
  <2> QED  BY <1>1, <2>1, <2>2
<1>3. CASE Owns(r) /\ RecieveError(r)
  <2>1. PICK x : x = [row[r.sector] EXCEPT !.state = "ERROR"]
    OBVIOUS
  <2>2. x.state = "ERROR"
    BY <1>1, <2>1 DEF Row
  <2>3. RowGoes(r.sector, x)
    BY <1>1, <1>3, <2>1 DEF RecieveError, RowGoes, TypeOK
  <2> QED  BY <1>1, <2>2, <2>3
<1>4. CASE ~Owns(r)
  <2>1. RowGoes(r.sector, row[r.sector])
    BY <1>4 DEF RecieveResult, RecieveError, RowGoes
  <2> QED  BY <1>1, <2>1
<1> QED  BY <1>2, <1>3, <1>4

LEMMA HandlerRow ==
  ASSUME TypeOK, NEW h \in handlers, HandlerWrite(h)
  PROVE  /\ h.sector \in Sectors /\ UNCHANGED <<job, queries, mail, resets>>
         /\ \E x : RowGoes(h.sector, x) /\ x.state # "RUNING"
<1>1. /\ h.sector \in Sectors /\ row[h.sector] \in Row
      /\ UNCHANGED <<job, queries, mail, resets>>
  BY DEF HandlerWrite, TypeOK, Handler, callVars
<1>2. PICK x : /\ RowGoes(h.sector, x)
               /\ x = IF h.todo = "retry" THEN [row[h.sector] EXCEPT !.state = RuleState(h.type)]
                      ELSE [row[h.sector] EXCEPT !.state = NextRuleState(h.type),
                                                 !.type = NextTask[h.type]]
  BY <1>1 DEF HandlerWrite, RowGoes, TypeOK
<1>3. x.state # "RUNING"
  BY <1>1, <1>2 DEF Row, RuleState, NextRuleState
<1> QED  BY <1>1, <1>2, <1>3

LEMMA ReadReport ==
  ASSUME TypeOK, ReadInv, NEW r \in mail, RecieveResult(r) \/ RecieveError(r)
  PROVE  ReadInv'
  BY ReportRow, ReadRow

LEMMA ReadHandlerWrite ==
  ASSUME TypeOK, ReadInv, NEW h \in handlers, HandlerWrite(h)
  PROVE  ReadInv'
  BY HandlerRow, ReadRow

LEMMA ReadResetWrite ==
  ASSUME TypeOK, ReadInv, NEW r \in resets, ResetWrite(r)
  PROVE  ReadInv'
<1>1. /\ r.sector \in Sectors /\ row[r.sector] \in Row
      /\ UNCHANGED <<job, queries, mail>> /\ resets' \subseteq resets
  BY DEF ResetWrite, TypeOK, Reset, callVars
<1>2. \E x : RowGoes(r.sector, x) /\ (x.state # "RUNING" \/ x = row[r.sector])
  <2>1. CASE row' = row
    BY <2>1 DEF RowGoes
  <2>2. ASSUME NEW t, NEW st \in {"RETRY", "INIT"},
               row' = [row EXCEPT ![r.sector] = [@ EXCEPT !.type = t, !.state = st]]
        PROVE  \E x : RowGoes(r.sector, x) /\ (x.state # "RUNING" \/ x = row[r.sector])
    <3>1. PICK x : x = [row[r.sector] EXCEPT !.type = t, !.state = st]
      OBVIOUS
    <3>2. x.state = st
      BY <1>1, <3>1 DEF Row
    <3>3. RowGoes(r.sector, x)
      BY <1>1, <2>2, <3>1 DEF RowGoes, TypeOK
    <3> QED  BY <3>2, <3>3
  <2>3. \/ row' = row
        \/ \E t : \E st \in {"RETRY", "INIT"} :
             row' = [row EXCEPT ![r.sector] = [@ EXCEPT !.type = t, !.state = st]]
    BY DEF ResetWrite
  <2> QED  BY <2>1, <2>2, <2>3
<1> QED  BY <1>1, <1>2, ReadRow

LEMMA SectorRow ==
  ASSUME TypeOK, NEW s \in Sectors, AddTask(s) \/ UpdatePoStInfo(s)
  PROVE  /\ UNCHANGED <<job, queries, mail, resets>>
         /\ \E x : /\ RowGoes(s, x) /\ x.req = row[s].req /\ x.state = row[s].state
                  /\ \A d \in Columns : x.out[d] \in {0, row[s].out[d]}
<1>1. row[s] \in Row /\ UNCHANGED <<job, queries, mail, resets>>
  BY DEF AddTask, UpdatePoStInfo, TypeOK, callVars, minerVars
<1>2. CASE AddTask(s)
  <2>1. PICK x : x = [row[s] EXCEPT !.type = "PC1"]
    OBVIOUS
  <2>2. x.req = row[s].req /\ x.state = row[s].state /\ x.out = row[s].out
    BY <1>1, <2>1 DEF Row
  <2>3. RowGoes(s, x)
    BY <1>1, <1>2, <2>1 DEF AddTask, RowGoes, TypeOK
  <2> QED  BY <1>1, <2>2, <2>3
<1>3. CASE UpdatePoStInfo(s)
  <2>1. PICK x : x = [row[s] EXCEPT !.out["C1"] = 0]
    OBVIOUS
  <2>2. /\ x.req = row[s].req /\ x.state = row[s].state
        /\ \A d \in Columns : x.out[d] \in {0, row[s].out[d]}
    BY <1>1, <2>1 DEF Row
  <2>3. RowGoes(s, x)
    BY <1>1, <1>3, <2>1 DEF UpdatePoStInfo, RowGoes, TypeOK
  <2> QED  BY <1>1, <2>2, <2>3
<1> QED  BY <1>2, <1>3

LEMMA ReadSector ==
  ASSUME TypeOK, ReadInv, NEW s \in Sectors, AddTask(s) \/ UpdatePoStInfo(s)
  PROVE  ReadInv'
  BY SectorRow, ReadRow

LEMMA ReadOperator ==
  ASSUME TypeOK, ReadInv, Operator
  PROVE  ReadInv'
<1>1. Workers \subseteq Owners /\ NoWorker \in Owners /\ NoWorker \notin Workers
  BY SealTaskAssumption DEF Owners
<1>2. ASSUME UNCHANGED <<row, job, queries, mail>>,
             \A r \in resets' : r \in resets \/ r.how # "bystate"
      PROVE  ReadInv'
  <2>1. ClaimantsWork'
    BY <1>2 DEF ReadInv, WorkersWork, ClaimantsWork
  <2> QED
    BY <1>2, <2>1
    DEF ReadInv, ParentsWork, WorkersWork, ReportsEnd, ReadsCurrent, Owned, Succeeded
<1>3. ASSUME NEW s \in Sectors,
             MinerResetRead(s) \/ \E w \in Workers : WorkerResetRead(w, s)
      PROVE  ReadInv'
  BY <1>2, <1>3 DEF MinerResetRead, WorkerResetRead, tableVars, callVars
<1>4. ASSUME NEW s \in Sectors, NEW t \in Tasks, NEW w \in Workers,
             Trigger(t, w, s) \/ Restart(t, w, s) \/ ByState(t, w, s)
      PROVE  ReadInv'
  BY <1>1, <1>4, ReadQueryRead, ReadByState DEF Trigger, Restart
<1>5. ASSUME NEW s \in Sectors, NEW t \in Tasks, Send(t, s)
      PROVE  ReadInv'
  <2>1. t \notin WorkerTasks
    BY <1>5 DEF Send, MinerTasks, WorkerTasks
  <2> QED  BY <1>1, <1>5, <2>1, ReadQueryRead DEF Send
<1> QED  BY <1>3, <1>4, <1>5 DEF Operator

LEMMA ReadStep ==
  ASSUME TypeOK, LifecycleInv, ReadInv, [Next]_vars
  PROVE  ReadInv'
<1>1. CASE SessionsGoOn
  <2>1. OwnersLast
    BY <1>1 DEF SessionsGoOn, OwnersLast, Owned
  <2>2. ClaimantsWork'
    BY <1>1 DEF SessionsGoOn, ClaimsKept, ReadInv, WorkersWork, ClaimantsWork
  <2> QED  BY <1>1, <2>1, <2>2, ReadFrame DEF SessionsGoOn
<1>2. ASSUME NEW t \in Tasks, NEW w \in Owners, NEW s \in Sectors, Poll(t, w, s)
      PROVE  ReadInv'
  BY <1>2, ReadQueryRead DEF Poll
<1>3. CASE TableActs
  BY <1>2, <1>3, ReadSector, ReadQueryWrite, ReadByStateWrite, ReadReport, ReadHandlerWrite,
     ReadResetWrite, ReadByStateRetry, ReadOperator
  DEF TableActs
<1> QED  BY <1>1, <1>3, StepKinds DEF ReadInv

\* The rows' results come in by reports of the sessions that own them.
LEMMA ResultsComeIn ==
  ASSUME TypeOK, LifecycleInv, ReadInv, [Next]_vars,
         NEW s \in Sectors, NEW c \in Columns, row'[s].out[c] # row[s].out[c],
         row'[s].out[c] # 0
  PROVE  \E r \in mail : /\ r.sector = s /\ r.err = "none" /\ Owns(r) /\ c = r.type
                         /\ row'[s].out[c] = r.session
<1>1. row[s] \in Row /\ c # "absent"
  BY DEF TypeOK, Columns
<1>2. CASE SessionsGoOn
  BY <1>2 DEF SessionsGoOn
<1>3. ASSUME NEW r \in mail, RecieveResult(r)
      PROVE  r.sector = s /\ r.err = "none" /\ Owns(r) /\ c = r.type /\ row'[s].out[c] = r.session
  <2>1. Owns(r) /\ r.sector = s /\ row'[s] = Accepted(row[s], r.type, r.out)
    BY <1>3, ReportFields DEF RecieveResult, TypeOK
  <2>2. row'[s].out[c] = IF c = r.type THEN r.out
                         ELSE IF c = "C1" /\ r.type = "COMMIT" THEN 0 ELSE row[s].out[c]
    BY <1>1, <2>1 DEF Accepted, Row
  <2>3. r.out \in {0, r.session}
    BY DEF LifecycleInv, MailReached
  <2> QED  BY <1>3, <2>1, <2>2, <2>3 DEF RecieveResult
<1>4. ASSUME \/ \E v \in Sectors : AddTask(v)
             \/ \E r \in mail : RecieveError(r)
             \/ \E h \in handlers : HandlerWrite(h)
             \/ \E r \in resets : ResetWrite(r)
      PROVE  row'[s].out = row[s].out
  <2>1. CASE \E v \in Sectors : AddTask(v)
    BY <1>1, <2>1 DEF AddTask, TypeOK, Row
  <2>2. CASE \E r \in mail : RecieveError(r)
    BY <1>1, <2>2 DEF RecieveError, TypeOK, Row
  <2>3. CASE \E h \in handlers : HandlerWrite(h)
    BY <1>1, <2>3 DEF HandlerWrite, TypeOK, Row
  <2>4. CASE \E r \in resets : ResetWrite(r)
    <3>1. PICK r \in resets : ResetWrite(r)
      BY <2>4
    <3>2. \/ row' = row
          \/ \E t : \E st \in {"RETRY", "INIT"} :
               row' = [row EXCEPT ![r.sector] = [@ EXCEPT !.type = t, !.state = st]]
      BY <3>1 DEF ResetWrite
    <3>3. ASSUME NEW t, NEW st \in {"RETRY", "INIT"},
                 row' = [row EXCEPT ![r.sector] = [@ EXCEPT !.type = t, !.state = st]]
          PROVE  row'[s].out = row[s].out
      BY <1>1, <3>3 DEF TypeOK, Row
    <3> QED  BY <3>2, <3>3
  <2> QED  BY <1>4, <2>1, <2>2, <2>3, <2>4
<1>5. ASSUME NEW q \in queries, QueryWrite(q) \/ ByStateWrite(q)
      PROVE  row'[s].out = row[s].out
  BY <1>5, ClaimedRow DEF QueryWrite, ByStateWrite
<1>6. ASSUME NEW v \in Sectors, UpdatePoStInfo(v)
      PROVE  row'[s].out[c] \in {0, row[s].out[c]}
  BY <1>1, <1>6 DEF UpdatePoStInfo, TypeOK, Row
<1>7. CASE \/ Operator \/ \E r \in resets : ByStateRetry(r)
           \/ \E t \in Tasks, w \in Owners, v \in Sectors : Poll(t, w, v)
  BY <1>7 DEF Operator, Poll, Send, Trigger, Restart, ByState, ByStateRetry, QueryRead,
              WorkerResetRead, MinerResetRead, tableVars
<1> QED
  BY <1>2, <1>3, <1>4, <1>5, <1>6, <1>7, StepKinds DEF ReadInv, TableActs

LEMMA CurrentStep ==
  ASSUME TypeOK, LifecycleInv, ReadInv, [Next]_vars
  PROVE  \A s \in Sectors, c \in Columns : StoresCurrent(s, c)
<1> SUFFICES ASSUME NEW s \in Sectors, NEW c \in Columns, row'[s].out[c] # row[s].out[c],
                    row'[s].out[c] # 0
             PROVE  /\ row'[s].out[c] = row[s].req
                    /\ c \in WorkerTasks => \A d \in Columns :
                         row[s].out[d] \in {0, job[s][row'[s].out[c]].in[d]}
  BY DEF StoresCurrent
<1>1. PICK r \in mail : /\ r.sector = s /\ r.err = "none" /\ Owns(r) /\ c = r.type
                        /\ row'[s].out[c] = r.session
  BY ResultsComeIn
<1>2. r.session = row[s].req /\ Owned(s, r.session) /\ Succeeded(s, r.session)
  BY <1>1 DEF Owns, Owned, Succeeded
<1>3. r.session \in Sessions /\ r.session # 0 /\ job[s][r.session].asked = row[s].type
  <2>1. r.session \in Sessions /\ r.session # 0
    BY ReportFields DEF Sessions
  <2> QED  BY <1>1, <1>2, <2>1 DEF LifecycleInv, RunningOwned, Owned
<1>4. c \in WorkerTasks => job[s][r.session].by # NoWorker
  BY <1>1, <1>3 DEF Owns, ReadInv, WorkersWork
<1> QED  BY <1>1, <1>2, <1>3, <1>4 DEF ReadInv, ReadsCurrent

(* A result enters a row only from the session that owns it, and a worker's *)
(* was computed from the columns the row holds at that moment: whatever is  *)
(* triggered, restarted, reset, repeated, lost or killed, RecieveTaskResult *)
(* takes nothing that a superseded session has computed from other columns. *)
THEOREM OnlyCurrentResults ==
  ASSUME "mismatch" \notin Ops
  PROVE  Spec => ResultsAreCurrent
<1> DEFINE Inv == TypeOK /\ LifecycleInv /\ ReadInv
           Stores == \A s \in Sectors, c \in Columns : StoresCurrent(s, c)
<1>1. Init => Inv
  BY TypeInit, LifecycleInit, ReadInit
<1>2. Inv /\ [Next]_vars => Inv'
  BY TypeStep, LifecycleStep, ReadStep
<1>3. Inv /\ [Next]_vars => [Stores]_vars
  BY CurrentStep
<1> QED  BY <1>1, <1>2, <1>3, PTL DEF Spec, ResultsAreCurrent

-------------------------------------------------------------------------------
(* Where the operator asks for nothing: faults, refusals, expiries,        *)
(* crashes, lost and repeated calls, in any number, but no claim by sector *)
(* number or by state, no reset, and no success that brings nothing.       *)
Undisturbed ==
  Ops \cap {"trigger", "restart", "send", "mismatch", "wreset", "mreset",
            "bystate", "empty"} = {}

LEMMA NoOperator ==
  ASSUME Undisturbed
  PROVE  /\ ~Operator /\ "mismatch" \notin Ops
         /\ \A s \in Sectors, n \in Sessions : ~ChildEmpty(s, n)
  BY DEF Undisturbed, Operator, Send, Trigger, Restart, ByState, WorkerResetRead,
         MinerResetRead, ChildEmpty, Spend

\* No worker's success was empty, and what is claimed or RUNING names a session.
Full == \A s \in Sectors : mishaps[s] \cap WorkerTasks = {}
Named ==
  /\ \A s \in Sectors : row[s].state = "RUNING" => row[s].req # 0
  /\ \A q \in queries : q.session # 0

LEMMA FullStep ==
  ASSUME Undisturbed, TypeOK, Full, [Next]_vars
  PROVE  Full'
<1>1. ASSUME NEW u \in Sectors, NEW e \in {"PRECOMMIT", "COMMIT", "allocated", "nosector", "expired"},
             mishaps' = [mishaps EXCEPT ![u] = @ \cup {e}]
      PROVE  Full'
  <2>1. e \notin WorkerTasks
    BY DEF WorkerTasks
  <2>2. \A s \in Sectors : mishaps'[s] \subseteq mishaps[s] \cup {e}
    BY <1>1 DEF TypeOK
  <2> QED  BY <2>1, <2>2 DEF Full
<1>2. CASE UNCHANGED mishaps
  BY <1>2 DEF Full
<1>3. CASE TableStep
  <2>1. UNCHANGED mishaps
    BY <1>3 DEF TableStep, QueryWrite, RecieveResult, RecieveError, HandlerRead, HandlerWrite,
       RegisterPoSt, UpdatePoStInfo, ByStateWrite, ResetWrite, ByStateRetry, QueryRead, chainVars
  <2> QED  BY <1>2, <2>1
<1>4. CASE \E m \in mpool : ChainExec(m) \/ ChainDrop(m)
  <2>1. \A m \in mpool : m.sector \in Sectors /\ m.type \in {"PRECOMMIT", "COMMIT"}
    BY DEF TypeOK, Message
  <2> QED  BY <1>1, <1>2, <1>4, <2>1 DEF ChainExec, ChainDrop
<1>5. CASE \E s \in Sectors : ChainExpire(s)
  BY <1>1, <1>5 DEF ChainExpire
<1>6. CASE \E s \in Sectors, n \in Sessions : SessionFault(s, n)
  BY <1>1, <1>2, <1>6, QuietFault, NoOperator DEF MinerRefused
<1>7. CASE \E s \in Sectors : AddTask(s)
  BY <1>2, <1>7 DEF AddTask, chainVars
<1> QED
  BY <1>2, <1>3, <1>4, <1>5, <1>6, <1>7, QuietSteps DEF Next

LEMMA NamedStep ==
  ASSUME Undisturbed, TypeOK, LifecycleInv, ReadInv, resets = {}, Named, [Next]_vars
  PROVE  Named'
<1>1. ASSUME NEW u \in Sectors, NEW x, RowGoes(u, x),
             x.state = "RUNING" => row[u].state = "RUNING" /\ x.req = row[u].req,
             queries' \subseteq queries
      PROVE  Named'
  BY <1>1 DEF Named, RowGoes
<1>2. CASE SessionsGoOn
  BY <1>2 DEF SessionsGoOn, ClaimsKept, Named
<1>3. ASSUME NEW t \in Tasks, NEW w \in Owners, NEW s \in Sectors, Poll(t, w, s)
      PROVE  Named'
  <2>1. used[s] + 1 # 0
    BY DEF TypeOK, Session0
  <2> QED  BY <1>3, <2>1 DEF Poll, QueryRead, Named, tableVars
<1>4. ASSUME NEW q \in queries, QueryWrite(q) \/ ByStateWrite(q)
      PROVE  Named'
  <2>1. row' = Claimed(q) /\ queries' \subseteq queries
    BY <1>4 DEF QueryWrite, ByStateWrite
  <2> QED  BY <2>1, ClaimedRow DEF Named
<1>5. ASSUME NEW s \in Sectors, AddTask(s) \/ UpdatePoStInfo(s)
      PROVE  Named'
  BY <1>1, <1>5, SectorRow
<1>6. ASSUME NEW r \in mail, RecieveResult(r) \/ RecieveError(r)
      PROVE  Named'
  BY <1>1, <1>6, ReportRow
<1>7. ASSUME NEW h \in handlers, HandlerWrite(h)
      PROVE  Named'
  BY <1>1, <1>7, HandlerRow
<1> QED
  BY <1>2, <1>3, <1>4, <1>5, <1>6, <1>7, StepKinds, NoOperator DEF ReadInv, TableActs

Busy(s, n) == job[s][n].child \notin {"none", "ended"}
Idle(s) == \A n \in Sessions : ~Busy(s, n)
Unclaimed(s) == \A q \in queries : q.sector # s

\* Such a row is never claimed again, nor taken on by a report.
Stuck(s) == row[s].state \notin {"INIT", "RUNING"} /\ Idle(s) /\ Unclaimed(s)

\* A sector is claimed, or worked for, or neither, and by one session.
TurnOf(s) ==
  /\ row[s].state = "INIT" => Idle(s)
  /\ row[s].state = "RUNING" =>
       Unclaimed(s) /\ \A n \in Sessions : Busy(s, n) => n = row[s].req
  /\ Unclaimed(s) \/ Idle(s)
  /\ \A p, q \in queries : p.sector = s /\ q.sector = s => p.session = q.session
  /\ \A m, n \in Sessions : Busy(s, m) /\ Busy(s, n) => m = n

\* But for its state, the row is what a claim in flight has read.
ClaimsOf(s) ==
  \A q \in queries : q.sector = s =>
    /\ q.how \in {"auto", "lost"} /\ (q.by # NoWorker => q.task \in WorkerTasks)
    /\ q.snap.state = "INIT" /\ row[s].type = q.task
    /\ row[s].worker = q.snap.worker /\ row[s].req = q.snap.req /\ row[s].out = q.snap.out
    /\ q.task \in {"PC2", "C1"} => q.by = q.snap.worker

\* Whoever works, works on the task and from the columns that the row has.
JobsOf(s) ==
  \A n \in Sessions :
    /\ job[s][n].child # "none" /\ job[s][n].by # NoWorker => job[s][n].asked \in WorkerTasks
    /\ Busy(s, n) =>
         /\ job[s][n].asked = row[s].type
         /\ job[s][n].asked \in {"PC2", "C1"} => job[s][n].by = row[s].worker
         /\ job[s][n].child = "run" => job[s][n].ctype = row[s].type /\ job[s][n].in = row[s].out
    /\ Owned(s, n) /\ job[s][n].by # NoWorker => row[s].worker = job[s][n].by

\* Session c1, of jobs j, has computed C1 from the commitment and the seed of row x.
Linked(j, x, c1) ==
  /\ c1 # 0 /\ j[c1].child = "ended"
  /\ j[c1].in["PC2"] = x.out["PC2"] /\ j[c1].in["SEED"] = x.out["SEED"]

\* The columns of a row are results of ended sessions, and belong together.
RowOf(s) ==
  /\ \A c \in Columns : row[s].out[c] # 0 => job[s][row[s].out[c]].child = "ended"
  /\ row[s].type \in {"PC2", "PRECOMMIT", "SEED", "C1"} =>
       row[s].worker = job[s][row[s].out["PC1"]].by
  /\ row[s].type = "C2" => Linked(job[s], row[s], row[s].out["C1"])
  /\ row[s].type = "COMMIT" => Linked(job[s], row[s], job[s][row[s].out["C2"]].in["C1"])

\* A report that may do more than stop a row is of the row's owner, or comes
\* to a row that is stuck.
Strong(r) == r.type = "COMMIT" \/ NextRule(r.type, r.err)
MailOf(s) ==
  \A r \in mail : r.sector = s =>
    /\ job[s][r.session].by # NoWorker => r.type \in WorkerTasks
    /\ job[s][r.session].by = NoWorker =>
         \A o \in mail : o.sector = s /\ o.session = r.session => o = r
    /\ Owned(s, r.session) => r.type = row[s].type
    /\ Owned(s, r.session) /\ r.err = "none" /\ r.type \in WorkerTasks =>
         job[s][r.session].in = row[s].out
    /\ Strong(r) => \/ Owned(s, r.session)
                    \/ Stuck(s) /\ row[s].type \in {r.type, NextTask[r.type]}

HandlersOf(s) ==
  \A h \in handlers : h.sector = s /\ NextRule(h.type, h.err) =>
    Stuck(s) /\ row[s].type \in {h.type, NextTask[h.type]}

PostingOf(s) ==
  \A p \in posting : p.sector = s /\ p.call = "UpdatePoStInfo" =>
    row[s].type = "PROVING" \/ (row[s].type = "COMMIT" /\ Stuck(s))

SectorInv(s) ==
  /\ TurnOf(s) /\ ClaimsOf(s) /\ JobsOf(s) /\ RowOf(s)
  /\ MailOf(s) /\ HandlersOf(s) /\ PostingOf(s)
AloneInv == resets = {} /\ \A s \in Sectors : SectorInv(s)

LEMMA AloneInit == Init => AloneInv
<1> SUFFICES ASSUME Init PROVE AloneInv
  OBVIOUS
<1>1. queries = {} /\ mail = {} /\ handlers = {} /\ posting = {} /\ resets = {}
  BY DEF Init
<1>2. \A s \in Sectors : /\ row[s].type = "absent" /\ row[s].state = "INIT"
                         /\ \A c \in Columns : row[s].out[c] = 0
                         /\ \A n \in Sessions : job[s][n].child = "none"
  BY DEF Init, NoRow, NoJob, NoOut
<1>3. \A s \in Sectors : TurnOf(s) /\ JobsOf(s) /\ RowOf(s)
  BY <1>1, <1>2 DEF TurnOf, Idle, Unclaimed, Busy, JobsOf, Owned, RowOf
<1> QED
  BY <1>1, <1>3 DEF AloneInv, SectorInv, ClaimsOf, MailOf, HandlersOf, PostingOf

-------------------------------------------------------------------------------
(* The frame: what a step does to the sectors it does not write.           *)

SectorKept(s) ==
  /\ row'[s] = row[s]
  /\ \A n \in Sessions : JobGoesOn(job[s][n], job'[s][n], row[s])
  /\ \A q \in queries' : q.sector = s => \E p \in queries :
       /\ p.sector = s /\ q.session = p.session /\ q.task = p.task
       /\ q.by = p.by /\ q.snap = p.snap /\ q.how \in {p.how, "lost"}
  /\ \/ \A r \in mail' : r.sector = s => r \in mail
     \/ \E o : NewReport(o) /\ \A r \in mail' : r.sector = s => r \in mail \/ r = o

Invs == TypeOK /\ LifecycleInv /\ ReadInv /\ Full /\ Named

LEMMA FullReport ==
  ASSUME Invs, NEW r \in mail
  PROVE  r.out = r.session
<1>1. r.sector \in Sectors
  BY ReportFields DEF Invs
<1> QED  BY <1>1 DEF Invs, Full, LifecycleInv, MailReached

\* What a row is past, it has the result of.
LEMMA FullRow ==
  ASSUME Invs, NEW s \in Sectors
  PROVE  /\ "PC1" \in Columns /\ "C2" \in Columns
         /\ row[s].type \in {"PC2", "PRECOMMIT", "SEED", "C1"} => row[s].out["PC1"] # 0
         /\ row[s].type = "COMMIT" => row[s].out["C2"] # 0
<1>1. /\ "PC1" \notin mishaps[s] /\ "C2" \notin mishaps[s]
      /\ "PC1" \in Columns \ {"C1"} /\ "C2" \in Columns \ {"C1"}
  BY DEF Invs, Full, WorkerTasks, Columns
<1>2. Reached(s, row[s].type)
  BY DEF Invs, LifecycleInv, RowsReached
<1>3. row[s].type \in {"PC2", "PRECOMMIT", "SEED", "C1"} => Rank(row[s].type) > Rank("PC1")
  BY DEF Rank
<1>4. row[s].type = "COMMIT" => Rank(row[s].type) > Rank("C2")
  BY DEF Rank
<1> QED  BY <1>1, <1>2, <1>3, <1>4 DEF Reached, Enough

LEMMA KeptJobs ==
  ASSUME Invs, NEW s \in Sectors, SectorKept(s), NEW n \in Sessions
  PROVE  /\ job'[s][n].by = job[s][n].by /\ job'[s][n].asked = job[s][n].asked
         /\ job'[s][n].child = "none" <=> job[s][n].child = "none"
         /\ job[s][n].child = "ended" => job'[s][n].child = "ended" /\ job'[s][n].in = job[s][n].in
         /\ Busy(s, n)' => Busy(s, n)
         /\ job'[s][n].child = "run" =>
              \/ job'[s][n].ctype = row[s].type /\ job'[s][n].in = row[s].out
              \/ /\ job[s][n].child = "run" /\ job'[s][n].ctype = job[s][n].ctype
                 /\ job'[s][n].in = job[s][n].in
         /\ Owned(s, n)' <=> Owned(s, n)
  BY DEF SectorKept, JobGoesOn, Busy, Owned

LEMMA KeptStuck ==
  ASSUME Invs, NEW s \in Sectors, SectorKept(s)
  PROVE  /\ Idle(s) => Idle(s)'
         /\ Unclaimed(s) => Unclaimed(s)'
         /\ Stuck(s) => Stuck(s)'
<1>1. Idle(s) => Idle(s)'
  BY KeptJobs DEF Idle
<1>2. Unclaimed(s) => Unclaimed(s)'
  BY DEF SectorKept, Unclaimed
<1> QED  BY <1>1, <1>2 DEF SectorKept, Stuck

LEMMA KeptTurn ==
  ASSUME Invs, NEW s \in Sectors, SectorKept(s), SectorInv(s)
  PROVE  TurnOf(s)' /\ ClaimsOf(s)' /\ JobsOf(s)'
<1>1. row'[s] = row[s]
  BY DEF SectorKept
<1>2. TurnOf(s)'
  <2>1. \A p, q \in queries' : p.sector = s /\ q.sector = s => p.session = q.session
    BY DEF SectorInv, TurnOf, SectorKept
  <2>2. \A m, n \in Sessions : Busy(s, m)' /\ Busy(s, n)' => m = n
    BY KeptJobs DEF SectorInv, TurnOf
  <2>3. row[s].state = "RUNING" => \A n \in Sessions : Busy(s, n)' => n = row[s].req
    BY KeptJobs DEF SectorInv, TurnOf
  <2> QED
    BY <1>1, <2>1, <2>2, <2>3, KeptStuck DEF SectorInv, TurnOf
<1>3. ClaimsOf(s)'
  BY <1>1 DEF SectorInv, ClaimsOf, SectorKept
<1>4. JobsOf(s)'
  <2> SUFFICES ASSUME NEW n \in Sessions
        PROVE
          /\ job'[s][n].child # "none" /\ job'[s][n].by # NoWorker =>
               job'[s][n].asked \in WorkerTasks
          /\ Busy(s, n)' =>
               /\ job'[s][n].asked = row[s].type
               /\ job'[s][n].asked \in {"PC2", "C1"} => job'[s][n].by = row[s].worker
               /\ job'[s][n].child = "run" =>
                    job'[s][n].ctype = row[s].type /\ job'[s][n].in = row[s].out
          /\ Owned(s, n)' /\ job'[s][n].by # NoWorker => row[s].worker = job'[s][n].by
    BY <1>1 DEF JobsOf
  <2>1. job[s][n].child = "run" => Busy(s, n)
    BY DEF Busy
  <2> QED  BY <2>1, KeptJobs DEF SectorInv, JobsOf
<1> QED  BY <1>2, <1>3, <1>4

LEMMA RowOut ==
  ASSUME Invs, NEW s \in Sectors, NEW c \in Columns
  PROVE  row[s].out[c] \in Session0 /\ (row[s].out[c] # 0 => row[s].out[c] \in Sessions)
<1>1. row[s] \in Row
  BY DEF Invs, TypeOK
<1>2. row[s].out \in [Columns -> Session0]
  BY <1>1 DEF Row
<1>3. row[s].out[c] \in Session0
  BY <1>2
<1> QED  BY <1>3, SealTaskAssumption DEF Session0, Sessions

LEMMA KeptLink ==
  ASSUME Invs, NEW s \in Sectors, SectorKept(s), NEW c1 \in Session0,
         Linked(job[s], row[s], c1)
  PROVE  Linked(job'[s], row'[s], c1)
<1>1. c1 \in Sessions
  BY SealTaskAssumption DEF Linked, Session0, Sessions
<1>2. job[s][c1].child = "ended" => job'[s][c1].child = "ended" /\ job'[s][c1].in = job[s][c1].in
  BY <1>1, KeptJobs
<1>3. row'[s] = row[s]
  BY DEF SectorKept
<1> QED  BY <1>2, <1>3 DEF Linked

LEMMA KeptRow ==
  ASSUME Invs, NEW s \in Sectors, SectorKept(s), SectorInv(s)
  PROVE  RowOf(s)'
<1>1. row'[s] = row[s]
  BY DEF SectorKept
<1>2. ASSUME NEW c \in Columns, row[s].out[c] # 0
      PROVE  /\ row[s].out[c] \in Sessions
             /\ job[s][row[s].out[c]].child = "ended"
             /\ job'[s][row[s].out[c]].child = "ended"
             /\ job'[s][row[s].out[c]].by = job[s][row[s].out[c]].by
             /\ job'[s][row[s].out[c]].in = job[s][row[s].out[c]].in
  <2>1. row[s].out[c] \in Sessions
    BY <1>2, RowOut
  <2>2. job[s][row[s].out[c]].child = "ended"
    BY <1>2 DEF SectorInv, RowOf
  <2> QED  BY <2>1, <2>2, KeptJobs
<1>3. row[s].type \in {"PC2", "PRECOMMIT", "SEED", "C1"} =>
        row[s].worker = job'[s][row[s].out["PC1"]].by
  <2>1. row[s].type \in {"PC2", "PRECOMMIT", "SEED", "C1"} => row[s].out["PC1"] # 0
    BY FullRow
  <2> QED  BY <1>2, <2>1 DEF SectorInv, RowOf, Columns
<1>4. row[s].type = "C2" => Linked(job'[s], row'[s], row[s].out["C1"])
  <2>1. row[s].out["C1"] \in Session0
    BY RowOut DEF Columns
  <2> QED  BY <2>1, KeptLink DEF SectorInv, RowOf
<1>5. row[s].type = "COMMIT" => Linked(job'[s], row'[s], job'[s][row[s].out["C2"]].in["C1"])
  <2> SUFFICES ASSUME row[s].type = "COMMIT"
               PROVE  Linked(job'[s], row'[s], job'[s][row[s].out["C2"]].in["C1"])
    OBVIOUS
  <2>1. row[s].out["C2"] # 0 /\ "C2" \in Columns
    BY FullRow
  <2>2. row[s].out["C2"] \in Sessions /\ job'[s][row[s].out["C2"]].in = job[s][row[s].out["C2"]].in
    BY <1>2, <2>1
  <2>3. job[s][row[s].out["C2"]].in["C1"] \in Session0
    <3>1. job[s][row[s].out["C2"]] \in Job
      BY <2>2, JobFields DEF Invs
    <3> QED  BY <3>1 DEF Job, Columns
  <2>4. Linked(job[s], row[s], job[s][row[s].out["C2"]].in["C1"])
    BY DEF SectorInv, RowOf
  <2> QED  BY <2>2, <2>3, <2>4, KeptLink
<1> QED
  BY <1>1, <1>2, <1>3, <1>4, <1>5 DEF RowOf

\* A report is of what its session was asked for.
LEMMA NewReportType ==
  ASSUME Invs, NEW s \in Sectors, SectorKept(s), SectorInv(s), NEW o, NewReport(o), o.sector = s
  PROVE  /\ o.session \in Sessions
         /\ o.type = job[s][o.session].asked
         /\ job[s][o.session].child # "none" /\ job'[s][o.session].child = "ended"
         /\ job[s][o.session].by # NoWorker => o.type \in WorkerTasks
         /\ job[s][o.session].by = NoWorker => Busy(s, o.session) /\ o.type \notin WorkerTasks
<1> DEFINE n == o.session
<1>1. n \in Sessions /\ job'[s][n].child = "ended"
  BY DEF NewReport
<1>2. job[s][n].child # "none"
  BY <1>1, KeptJobs
<1>3. o.type = job[s][n].asked \/ (job[s][n].child = "run" /\ o.type = job[s][n].ctype)
  BY DEF NewReport
<1>4. job[s][n].child = "run" => Busy(s, n)
  BY DEF Busy
<1>5. o.type = job[s][n].asked
  BY <1>1, <1>3, <1>4 DEF SectorInv, JobsOf
<1>6. job[s][n].by # NoWorker => o.type \in WorkerTasks
  BY <1>1, <1>2, <1>5 DEF SectorInv, JobsOf
<1>7. job[s][n].by = NoWorker => o.type \notin WorkerTasks
  BY <1>1, <1>5 DEF Invs, ReadInv, WorkersWork
<1>8. job[s][n].by = NoWorker => Busy(s, n)
  BY DEF NewReport, Busy
<1> QED  BY <1>1, <1>2, <1>5, <1>6, <1>7, <1>8

LEMMA NewReportOwned ==
  ASSUME Invs, NEW s \in Sectors, SectorKept(s), SectorInv(s), NEW o, NewReport(o), o.sector = s,
         Owned(s, o.session)
  PROVE  /\ o.type = row[s].type
         /\ o.err = "none" /\ o.type \in WorkerTasks => job'[s][o.session].in = row[s].out
<1> DEFINE n == o.session
<1>1. n \in Sessions /\ o.type = job[s][n].asked
  BY NewReportType
<1>2. o.type = row[s].type
  BY <1>1 DEF Owned, Invs, Named, LifecycleInv, RunningOwned
<1>3. ASSUME o.err = "none", o.type \in WorkerTasks
      PROVE  job'[s][n].in = row[s].out
  <2>1. job[s][n].by # NoWorker
    BY <1>3, NewReportType
  <2>2. job[s][n].child = "run"
    BY <1>3, <2>1 DEF NewReport
  <2>3. job[s][n].in = row[s].out
    BY <1>1, <2>2 DEF SectorInv, JobsOf, Busy
  <2>4. job'[s][n].in = job[s][n].in
    BY <1>1, <2>2 DEF SectorKept, JobGoesOn
  <2> QED  BY <2>3, <2>4
<1> QED  BY <1>2, <1>3

\* A sender reports on the task of the row, and leaves the row stuck if it does
\* not own it: nobody else works on the sector.
LEMMA NewReportStrong ==
  ASSUME Invs, NEW s \in Sectors, SectorKept(s), SectorInv(s), NEW o, NewReport(o), o.sector = s,
         Strong(o), ~Owned(s, o.session)
  PROVE  Stuck(s)' /\ row[s].type = o.type
<1> DEFINE n == o.session
<1>1. o.type \notin WorkerTasks
  BY DEF Strong, NextRule, WorkerTasks
<1>2. n \in Sessions /\ Busy(s, n) /\ o.type = job[s][n].asked /\ job'[s][n].child = "ended"
  BY <1>1, NewReportType
<1>3. row[s].type = o.type
  BY <1>2 DEF SectorInv, JobsOf
<1>4. row[s].state \notin {"INIT", "RUNING"} /\ Unclaimed(s)
  BY <1>2 DEF SectorInv, TurnOf, Idle, Owned
<1>5. Idle(s)'
  <2> SUFFICES ASSUME NEW m \in Sessions, Busy(s, m)'
               PROVE  FALSE
    BY DEF Idle
  <2>1. m = n
    BY <1>2, KeptJobs DEF SectorInv, TurnOf
  <2> QED  BY <1>2, <2>1 DEF Busy
<1>6. Unclaimed(s)' /\ row'[s] = row[s]
  BY <1>4, KeptStuck DEF SectorKept
<1> QED  BY <1>3, <1>4, <1>5, <1>6 DEF Stuck

LEMMA KeptMail ==
  ASSUME Invs, NEW s \in Sectors, SectorKept(s), SectorInv(s)
  PROVE  MailOf(s)'
<1>0. PICK o : /\ \A r \in mail' : r.sector = s => r \in mail \/ (r = o /\ NewReport(o))
  BY DEF SectorKept
<1>1. row'[s] = row[s]
  BY DEF SectorKept
<1>2. ASSUME NEW r \in mail, r.sector = s
      PROVE  /\ r.session \in Sessions /\ job[s][r.session].child = "ended"
             /\ job'[s][r.session].by = job[s][r.session].by
             /\ job'[s][r.session].in = job[s][r.session].in
             /\ Owned(s, r.session)' <=> Owned(s, r.session)
  <2>1. r.session \in Sessions /\ job[s][r.session].child = "ended"
    BY <1>2, ReportFields DEF Invs, ReadInv, ReportsEnd
  <2> QED  BY <2>1, KeptJobs
<1>3. ASSUME NEW r \in mail, NEW p \in mail', r.sector = s, p.sector = s, r.session = p.session,
             job[s][r.session].by = NoWorker
      PROVE  p \in mail
  <2>1. job[s][r.session].child = "ended"
    BY <1>2, <1>3
  <2>2. ~(p = o /\ NewReport(o))
    BY <1>3, <2>1 DEF NewReport
  <2> QED  BY <1>0, <1>3, <2>2
<1>4. SUFFICES ASSUME NEW r \in mail', r.sector = s
      PROVE  /\ job'[s][r.session].by # NoWorker => r.type \in WorkerTasks
             /\ job'[s][r.session].by = NoWorker =>
                  \A p \in mail' : p.sector = s /\ p.session = r.session => p = r
             /\ Owned(s, r.session)' => r.type = row[s].type
             /\ Owned(s, r.session)' /\ r.err = "none" /\ r.type \in WorkerTasks =>
                  job'[s][r.session].in = row[s].out
             /\ Strong(r) => \/ Owned(s, r.session)'
                             \/ Stuck(s)' /\ row[s].type \in {r.type, NextTask[r.type]}
  BY <1>1 DEF MailOf
<1>5. CASE r \in mail
  <2>1. Stuck(s) => Stuck(s)'
    BY KeptStuck
  <2>2. job[s][r.session].by = NoWorker =>
          \A p \in mail' : p.sector = s /\ p.session = r.session => p = r
    BY <1>3, <1>4, <1>5 DEF SectorInv, MailOf
  <2>3. /\ job[s][r.session].by # NoWorker => r.type \in WorkerTasks
        /\ Owned(s, r.session) => r.type = row[s].type
        /\ Owned(s, r.session) /\ r.err = "none" /\ r.type \in WorkerTasks =>
             job[s][r.session].in = row[s].out
        /\ Strong(r) => \/ Owned(s, r.session)
                        \/ Stuck(s) /\ row[s].type \in {r.type, NextTask[r.type]}
    BY <1>4, <1>5 DEF SectorInv, MailOf
  <2> QED  BY <1>2, <1>4, <1>5, <2>1, <2>2, <2>3
<1>6. CASE r \notin mail
  <2> DEFINE n == r.session
  <2>1. r = o /\ NewReport(r)
    BY <1>0, <1>4, <1>6
  <2>2. n \in Sessions /\ job'[s][n].by = job[s][n].by /\ (Owned(s, n)' <=> Owned(s, n))
    BY <1>4, <2>1, NewReportType, KeptJobs
  <2>3. /\ job'[s][n].by # NoWorker => r.type \in WorkerTasks
        /\ job[s][n].by = NoWorker => Busy(s, n)
    BY <1>4, <2>1, <2>2, NewReportType
  <2>4. ASSUME job[s][n].by = NoWorker, NEW p \in mail', p.sector = s, p.session = n
        PROVE  p = r
    <3>1. p \notin mail
      BY <1>2, <2>3, <2>4 DEF Busy
    <3> QED  BY <1>0, <2>1, <2>4, <3>1
  <2>5. /\ Owned(s, n) => r.type = row[s].type
        /\ Owned(s, n) /\ r.err = "none" /\ r.type \in WorkerTasks => job'[s][n].in = row[s].out
    BY <1>4, <2>1, NewReportOwned
  <2>6. Strong(r) => Owned(s, n) \/ (Stuck(s)' /\ row[s].type = r.type)
    BY <1>4, <2>1, NewReportStrong
  <2> HIDE DEF n
  <2> QED  BY <2>2, <2>3, <2>4, <2>5, <2>6 DEF n
<1> QED  BY <1>5, <1>6

LEMMA KeptSector ==
  ASSUME Invs, NEW s \in Sectors, SectorKept(s), SectorInv(s),
         \A h \in handlers' : h.sector = s /\ NextRule(h.type, h.err) =>
           Stuck(s) /\ row[s].type \in {h.type, NextTask[h.type]},
         \A p \in posting' : p.sector = s /\ p.call = "UpdatePoStInfo" =>
           row[s].type = "PROVING" \/ (row[s].type = "COMMIT" /\ Stuck(s))
  PROVE  SectorInv(s)'
<1>1. row'[s] = row[s] /\ (Stuck(s) => Stuck(s)')
  BY KeptStuck DEF SectorKept
<1>2. HandlersOf(s)' /\ PostingOf(s)'
  BY <1>1 DEF HandlersOf, PostingOf
<1> QED  BY <1>2, KeptTurn, KeptRow, KeptMail DEF SectorInv

LEMMA QuietSector ==
  ASSUME Invs, NEW s \in Sectors, SectorInv(s), SessionsGoOn
  PROVE  SectorInv(s)'
<1>1. SectorKept(s)
  <2>1. /\ row'[s] = row[s]
        /\ \A n \in Sessions : JobGoesOn(job[s][n], job'[s][n], row[s])
    BY DEF SessionsGoOn, JobsGoOn
  <2>2. \A q \in queries' : q.sector = s => \E p \in queries :
           /\ p.sector = s /\ q.session = p.session /\ q.task = p.task
           /\ q.by = p.by /\ q.snap = p.snap /\ q.how \in {p.how, "lost"}
    BY DEF SessionsGoOn, ClaimsKept
  <2>3. \/ \A r \in mail' : r.sector = s => r \in mail
        \/ \E o : NewReport(o) /\ \A r \in mail' : r.sector = s => r \in mail \/ r = o
    BY DEF SessionsGoOn, MailGrows
  <2> QED  BY <2>1, <2>2, <2>3 DEF SectorKept
<1>2. \A h \in handlers' : h.sector = s /\ NextRule(h.type, h.err) =>
        Stuck(s) /\ row[s].type \in {h.type, NextTask[h.type]}
  BY DEF SessionsGoOn, HandlersKept, SectorInv, HandlersOf
<1>3. \A p \in posting' : p.sector = s /\ p.call = "UpdatePoStInfo" =>
        row[s].type = "PROVING" \/ (row[s].type = "COMMIT" /\ Stuck(s))
  BY DEF SessionsGoOn, SectorInv, PostingOf
<1> QED  BY <1>1, <1>2, <1>3, KeptSector

\* A sector that a step of the table does not write.
LEMMA OtherSector ==
  ASSUME Invs, NEW s \in Sectors, SectorInv(s), row'[s] = row[s],
         \A n \in Sessions : job'[s][n] = job[s][n],
         \A q \in queries' : q.sector = s => q \in queries, mail' \subseteq mail,
         \A h \in handlers' : h.sector = s => h \in handlers,
         \A p \in posting' : p.sector = s => p \in posting
  PROVE  SectorInv(s)'
<1>1. \A n \in Sessions : JobGoesOn(job[s][n], job[s][n], row[s])
  BY JobFields, JobSteps DEF Invs
<1>2. SectorKept(s)
  BY <1>1 DEF SectorKept
<1> QED  BY <1>2, KeptSector DEF SectorInv, HandlersOf, PostingOf

-------------------------------------------------------------------------------
(* What a row's state says of who may still write it.                      *)

LEMMA RunningTask ==
  ASSUME Invs, NEW s \in Sectors, row[s].state = "RUNING"
  PROVE  row[s].type \in Tasks
<1>1. row[s].req # 0 /\ row[s].req \in Session0
  BY DEF Invs, Named, TypeOK, Row
<1>2. row[s].req \in Sessions
  BY <1>1, SealTaskAssumption DEF Session0, Sessions
<1> QED  BY <1>1, <1>2 DEF Invs, LifecycleInv, RunningOwned, JobsReached

LEMMA OwnerReported ==
  ASSUME Invs, NEW s \in Sectors, SectorInv(s), NEW r \in mail, r.sector = s,
         Owned(s, r.session)
  PROVE  /\ r.session \in Sessions /\ r.session # 0 /\ job[s][r.session].child = "ended"
         /\ Idle(s) /\ Unclaimed(s) /\ row[s].type \in Tasks
         /\ r.type = row[s].type /\ job[s][r.session].asked = row[s].type
<1>1. r.session \in Sessions /\ job[s][r.session].child = "ended"
  BY ReportFields DEF Invs, ReadInv, ReportsEnd
<1>2. Idle(s) /\ Unclaimed(s)
  BY <1>1 DEF SectorInv, TurnOf, Owned, Idle, Busy
<1>3. row[s].type \in Tasks
  BY RunningTask DEF Owned
<1>4. r.type = row[s].type
  BY DEF SectorInv, MailOf
<1>5. job[s][r.session].asked = row[s].type /\ r.session # 0
  BY DEF Owned, Invs, Named, LifecycleInv, RunningOwned
<1> QED  BY <1>1, <1>2, <1>3, <1>4, <1>5

\* Nothing is on its way to the row but what may stop it.
Clear(s) ==
  /\ \A r \in mail : r.sector = s => ~Strong(r)
  /\ \A h \in handlers : h.sector = s => ~NextRule(h.type, h.err)
  /\ \A p \in posting : p.sector = s => p.call # "UpdatePoStInfo"

LEMMA ClearRow ==
  ASSUME Invs, NEW s \in Sectors, SectorInv(s), row[s].state # "RUNING", ~Stuck(s),
         row[s].type # "PROVING"
  PROVE  Clear(s)
<1>1. \A r \in mail : r.sector = s => ~Strong(r)
  BY DEF SectorInv, MailOf, Owned
<1>2. \A h \in handlers : h.sector = s => ~NextRule(h.type, h.err)
  BY DEF SectorInv, HandlersOf
<1>3. \A p \in posting : p.sector = s => p.call # "UpdatePoStInfo"
  BY DEF SectorInv, PostingOf
<1> QED  BY <1>1, <1>2, <1>3 DEF Clear

LEMMA ClaimedSector ==
  ASSUME Invs, NEW q \in queries, SectorInv(q.sector)
  PROVE  /\ q.sector \in Sectors /\ Idle(q.sector) /\ row[q.sector].type \in Tasks
         /\ row[q.sector].state # "RUNING" /\ Clear(q.sector)
         /\ q.task = row[q.sector].type
         /\ Unchanged(q.snap, row[q.sector]) <=> row[q.sector].state = "INIT"
<1> DEFINE s == q.sector
<1>1. s \in Sectors /\ q.task \in Tasks
  BY DEF Invs, TypeOK, Query
<1>2. ~Unclaimed(s)
  BY DEF Unclaimed
<1>3. Idle(s) /\ row[s].state # "RUNING" /\ ~Stuck(s)
  BY <1>2 DEF SectorInv, TurnOf, Stuck
<1>4. /\ row[s].type = q.task /\ q.snap.state = "INIT" /\ row[s].worker = q.snap.worker
      /\ row[s].req = q.snap.req /\ row[s].out = q.snap.out
  BY DEF SectorInv, ClaimsOf
<1>5. q.snap.type = q.task
  BY DEF Invs, LifecycleInv, ClaimsReached
<1>6. Unchanged(q.snap, row[s]) <=> row[s].state = "INIT"
  BY <1>4, <1>5 DEF Unchanged
<1>7. Clear(s)
  BY <1>1, <1>3, <1>4, ClearRow DEF Tasks, WorkerTasks, MinerTasks
<1> QED  BY <1>1, <1>3, <1>4, <1>6, <1>7

-------------------------------------------------------------------------------
(* The steps that write a row, at the sector they write.                   *)

LEMMA AddTaskSector ==
  ASSUME Invs, NEW s \in Sectors, SectorInv(s), AddTask(s)
  PROVE  SectorInv(s)'
<1> DEFINE x == [row[s] EXCEPT !.type = "PC1"]
<1>1. /\ row[s] \in Row /\ row[s].type = "absent"
      /\ UNCHANGED <<job, queries, mail, handlers, posting>>
  BY DEF AddTask, Invs, TypeOK, callVars, minerVars
<1>2. row'[s] = x /\ x.type = "PC1" /\ x.state = row[s].state /\ x.worker = row[s].worker
      /\ x.req = row[s].req /\ x.out = row[s].out
  BY <1>1 DEF AddTask, Row, Invs, TypeOK
<1> HIDE DEF x
<1>3. "absent" \notin Tasks \cup {""} /\ row[s].state # "RUNING"
  BY <1>1, RunningTask DEF Tasks, WorkerTasks, MinerTasks
<1>4. Unclaimed(s)
  BY <1>1, <1>3 DEF Unclaimed, SectorInv, ClaimsOf, Invs, TypeOK, Query
<1>5. Idle(s)
  <2>1. \A n \in Sessions : job[s][n].asked \in Tasks \cup {""}
    BY JobFields DEF Invs, Job
  <2> QED  BY <1>1, <1>3, <2>1 DEF Idle, SectorInv, JobsOf
<1>6. Clear(s)
  <2>1. \A t \in {"PRECOMMIT", "COMMIT"} : NextTask[t] # "absent" /\ t # "absent"
    BY DEF NextTask, Types, Tasks, WorkerTasks, MinerTasks
  <2> QED
    BY <1>1, <1>3, <2>1 DEF Clear, SectorInv, MailOf, HandlersOf, PostingOf, Owned, Strong, NextRule
<1>7. TurnOf(s)' /\ ClaimsOf(s)'
  BY <1>1, <1>2, <1>3, <1>4, <1>5 DEF TurnOf, ClaimsOf, Unclaimed, Idle, Busy
<1>8. JobsOf(s)'
  BY <1>1, <1>2, <1>3, <1>5 DEF SectorInv, JobsOf, Idle, Busy, Owned
<1>9. RowOf(s)'
  BY <1>1, <1>2 DEF SectorInv, RowOf
<1>10. MailOf(s)' /\ HandlersOf(s)' /\ PostingOf(s)'
  BY <1>1, <1>2, <1>3, <1>6 DEF SectorInv, MailOf, HandlersOf, PostingOf, Clear, Owned
<1> QED  BY <1>7, <1>8, <1>9, <1>10 DEF SectorInv

LEMMA PollSector ==
  ASSUME Invs, NEW t \in Tasks, NEW w \in Owners, NEW s \in Sectors, SectorInv(s), Poll(t, w, s)
  PROVE  SectorInv(s)'
<1> DEFINE c == [task |-> t, by |-> w, how |-> "auto", sector |-> s,
                 session |-> used[s] + 1, snap |-> row[s]]
<1>1. UNCHANGED <<row, job, mail, handlers, posting>> /\ queries' = queries \cup {c}
  BY DEF Poll, QueryRead, tableVars, minerVars
<1>2. /\ row[s].type = t /\ row[s].state = "INIT" /\ (t \in {"PC2", "C1"} => row[s].worker = w)
      /\ (t \in WorkerTasks <=> w # NoWorker)
  BY DEF Poll, QueryRead, Selected, Claimable
<1>3. Unclaimed(s)
  BY <1>2 DEF Poll, QueryRead, LockFree, Unclaimed, SectorInv, ClaimsOf
<1>4. Idle(s) /\ ~Stuck(s) /\ t # "PROVING"
  BY <1>2 DEF SectorInv, TurnOf, Stuck, Tasks, WorkerTasks, MinerTasks
<1>5. Clear(s)
  BY <1>2, <1>4, ClearRow
<1>6. /\ c.task = t /\ c.by = w /\ c.how = "auto" /\ c.sector = s /\ c.snap = row[s]
      /\ \A q \in queries' : q.sector = s => q = c
  BY <1>1, <1>3 DEF Unclaimed
<1> HIDE DEF c
<1>7. TurnOf(s)' /\ ClaimsOf(s)'
  BY <1>1, <1>2, <1>4, <1>6 DEF TurnOf, ClaimsOf, Idle, Busy
<1>8. JobsOf(s)' /\ RowOf(s)'
  BY <1>1 DEF SectorInv, JobsOf, RowOf, Owned, Busy
<1>9. MailOf(s)' /\ HandlersOf(s)' /\ PostingOf(s)'
  BY <1>1, <1>2, <1>5 DEF SectorInv, MailOf, HandlersOf, PostingOf, Clear, Owned
<1> QED  BY <1>7, <1>8, <1>9 DEF SectorInv

LEMMA RecieveErrorSector ==
  ASSUME Invs, NEW r \in mail, SectorInv(r.sector), RecieveError(r), Owns(r)
  PROVE  SectorInv(r.sector)'
<1> DEFINE s == r.sector
<1>1. /\ s \in Sectors /\ row[s] \in Row
      /\ UNCHANGED <<job, queries>> /\ mail' \subseteq mail
      /\ \A p \in posting' : p \in posting \/ p.sector = s
      /\ \A p \in posting' : p \in posting \/ r.type = "COMMIT" \/ p.call # "UpdatePoStInfo"
      /\ \A h \in handlers' : h \in handlers \/ (h.type = r.type /\ h.err = r.err)
  BY ReportFields DEF RecieveError, Delivered, PostCalls, Invs
<1>2. Owned(s, r.session)
  BY DEF Owns, Owned
<1>3. /\ Idle(s) /\ Unclaimed(s) /\ row[s].type \in Tasks /\ r.type = row[s].type
  BY <1>1, <1>2, OwnerReported
<1>4. PICK x : x = [row[s] EXCEPT !.state = "ERROR"]
  OBVIOUS
<1>5. /\ row'[s] = x /\ x.state = "ERROR" /\ x.type = row[s].type /\ x.worker = row[s].worker
      /\ x.out = row[s].out
  BY <1>1, <1>4 DEF RecieveError, Row, Invs, TypeOK
<1>6. Unclaimed(s)' /\ Idle(s)' /\ Stuck(s)'
  BY <1>1, <1>3, <1>5 DEF Unclaimed, Idle, Busy, Stuck
<1>7. TurnOf(s)' /\ ClaimsOf(s)'
  BY <1>5, <1>6 DEF TurnOf, ClaimsOf, Unclaimed, Idle
<1>8. JobsOf(s)'
  BY <1>1, <1>5, <1>6 DEF SectorInv, JobsOf, Idle, Owned
<1>9. RowOf(s)'
  BY <1>1, <1>5 DEF SectorInv, RowOf, Linked
<1>10. ~Stuck(s) /\ row[s].type # "PROVING"
  BY <1>2, <1>3 DEF Stuck, Owned, Tasks, WorkerTasks, MinerTasks
<1>11. MailOf(s)'
  <2>1. ASSUME NEW p \in mail, p.sector = s, Strong(p)
        PROVE  p.type = row[s].type
    <3>1. Owned(s, p.session)
      BY <1>10, <2>1 DEF SectorInv, MailOf
    <3> QED  BY <1>1, <2>1, <3>1, OwnerReported
  <2>2. \A p \in mail : p.sector = s => ~Owned(s, p.session)'
    BY <1>5 DEF Owned
  <2> QED  BY <1>1, <1>5, <1>6, <2>1, <2>2 DEF SectorInv, MailOf
<1>12. HandlersOf(s)'
  BY <1>1, <1>3, <1>5, <1>6, <1>10 DEF SectorInv, HandlersOf
<1>13. PostingOf(s)'
  BY <1>1, <1>3, <1>5, <1>6, <1>10 DEF SectorInv, PostingOf
<1> QED  BY <1>7, <1>8, <1>9, <1>11, <1>12, <1>13 DEF SectorInv

\* A report that owns no row leaves it alone; what it starts finds it stuck.
LEMMA LateReport ==
  ASSUME Invs, NEW r \in mail, SectorInv(r.sector), RecieveResult(r) \/ RecieveError(r), ~Owns(r)
  PROVE  SectorInv(r.sector)'
<1> DEFINE s == r.sector
<1>1. /\ s \in Sectors /\ UNCHANGED <<row, job, queries>> /\ mail' \subseteq mail
      /\ \A p \in posting' : p \in posting \/ r.type = "COMMIT" \/ p.call # "UpdatePoStInfo"
      /\ \A h \in handlers' : h \in handlers \/ (h.type = r.type /\ h.err = r.err)
  BY ReportFields DEF RecieveResult, RecieveError, Delivered, PostCalls, Invs
<1>2. Strong(r) => Stuck(s) /\ row[s].type \in {r.type, NextTask[r.type]}
  <2>1. ~Owned(s, r.session)
    BY DEF SectorInv, MailOf, Owns, Owned
  <2> QED  BY <2>1 DEF SectorInv, MailOf
<1>3. SectorKept(s)
  <2>1. \A n \in Sessions : JobGoesOn(job[s][n], job[s][n], row[s])
    BY <1>1, JobFields, JobSteps DEF Invs
  <2> QED  BY <1>1, <2>1 DEF SectorKept
<1>4. \A h \in handlers' : h.sector = s /\ NextRule(h.type, h.err) =>
        Stuck(s) /\ row[s].type \in {h.type, NextTask[h.type]}
  BY <1>1, <1>2 DEF Strong, SectorInv, HandlersOf
<1>5. \A p \in posting' : p.sector = s /\ p.call = "UpdatePoStInfo" =>
        row[s].type = "PROVING" \/ (row[s].type = "COMMIT" /\ Stuck(s))
  <2>1. NextTask["COMMIT"] = "PROVING"
    BY DEF NextTask, Types, Tasks, MinerTasks
  <2> QED  BY <1>1, <1>2, <2>1 DEF Strong, SectorInv, PostingOf
<1> QED  BY <1>1, <1>3, <1>4, <1>5, KeptSector

LEMMA AcceptedFields ==
  ASSUME NEW x \in Row, NEW t, NEW n
  PROVE  /\ Accepted(x, t, n).type = NextTask[t] /\ Accepted(x, t, n).state = "INIT"
         /\ Accepted(x, t, n).worker = x.worker
         /\ \A c \in Columns : Accepted(x, t, n).out[c] =
              IF c = t THEN n ELSE IF c = "C1" /\ t = "COMMIT" THEN 0 ELSE x.out[c]
  BY DEF Accepted, Row

\* A result brings the row to the next task with the columns that belong to it.
LEMMA AcceptedRow ==
  ASSUME Invs, NEW r \in mail, SectorInv(r.sector), Owns(r), r.err = "none", UNCHANGED job,
         row'[r.sector] = Accepted(row[r.sector], r.type, r.out)
  PROVE  RowOf(r.sector)'
<1> DEFINE s == r.sector
           n == r.session
           x == row'[s]
<1>1. s \in Sectors /\ row[s] \in Row
  BY ReportFields DEF Invs
<1>2. Owned(s, n) /\ row[s].type = r.type
  BY DEF Owns, Owned
<1>3. /\ n \in Sessions /\ n # 0 /\ job[s][n].child = "ended" /\ r.type \in Tasks
      /\ job[s][n].asked = r.type
  BY <1>1, <1>2, OwnerReported
<1>4. /\ x.type = NextTask[r.type] /\ x.worker = row[s].worker
      /\ \A c \in Columns : x.out[c] =
           IF c = r.type THEN n ELSE IF c = "C1" /\ r.type = "COMMIT" THEN 0 ELSE row[s].out[c]
  BY <1>1, AcceptedFields, FullReport
<1>5. r.type \in WorkerTasks => job[s][n].by # NoWorker /\ job[s][n].in = row[s].out
  BY <1>1, <1>2, <1>3 DEF Invs, ReadInv, WorkersWork, SectorInv, MailOf
<1>6. \A c \in Columns : x.out[c] # 0 => job[s][x.out[c]].child = "ended"
  BY <1>3, <1>4 DEF SectorInv, RowOf
<1>7. /\ r.type = "PC1" => x.type = "PC2"
      /\ r.type = "PC2" => x.type = "PRECOMMIT"
      /\ r.type = "PRECOMMIT" => x.type = "SEED"
      /\ r.type = "SEED" => x.type = "C1"
      /\ r.type = "C1" => x.type = "C2"
      /\ r.type = "C2" => x.type = "COMMIT"
      /\ r.type = "COMMIT" => x.type = "PROVING"
  BY <1>4 DEF NextTask, Types, Tasks, WorkerTasks, MinerTasks
<1>8. /\ x.type \in {"PC2", "PRECOMMIT", "SEED", "C1"} =>
           r.type \in {"PC1", "PC2", "PRECOMMIT", "SEED"}
      /\ x.type = "C2" => r.type = "C1"
      /\ x.type = "COMMIT" => r.type = "C2"
  BY <1>3, <1>7 DEF Tasks, WorkerTasks, MinerTasks
<1>9. x.type \in {"PC2", "PRECOMMIT", "SEED", "C1"} => x.worker = job[s][x.out["PC1"]].by
  <2>1. CASE r.type = "PC1"
    BY <1>1, <1>2, <1>3, <1>4, <1>5, <2>1 DEF SectorInv, JobsOf, Columns, WorkerTasks
  <2>2. CASE r.type \in {"PC2", "PRECOMMIT", "SEED"}
    BY <1>2, <1>4, <2>2 DEF SectorInv, RowOf, Columns
  <2> QED  BY <1>8, <2>1, <2>2
<1>10. x.type = "C2" => Linked(job[s], x, x.out["C1"])
  BY <1>3, <1>4, <1>5, <1>8 DEF Linked, Columns, WorkerTasks
<1>11. x.type = "COMMIT" => Linked(job[s], x, job[s][x.out["C2"]].in["C1"])
  BY <1>2, <1>4, <1>5, <1>8 DEF Linked, Columns, WorkerTasks, SectorInv, RowOf
<1> HIDE DEF x
<1> QED  BY <1>6, <1>9, <1>10, <1>11 DEF RowOf, x

LEMMA RecieveResultSector ==
  ASSUME Invs, NEW r \in mail, SectorInv(r.sector), RecieveResult(r), Owns(r)
  PROVE  SectorInv(r.sector)'
<1> DEFINE s == r.sector
<1>1. /\ s \in Sectors /\ row[s] \in Row
      /\ UNCHANGED <<job, queries, handlers>> /\ mail' \subseteq mail
      /\ \A p \in posting' : p \in posting \/ r.type = "COMMIT" \/ p.call # "UpdatePoStInfo"
      /\ mail' = mail \ {r} \/ job[s][r.session].by # NoWorker
  BY ReportFields DEF RecieveResult, Delivered, PostCalls, Invs
<1>2. Owned(s, r.session) /\ row[s].type = r.type /\ r.err = "none"
  BY DEF Owns, Owned, RecieveResult
<1>3. /\ Idle(s) /\ Unclaimed(s) /\ r.type \in Tasks
  BY <1>1, <1>2, OwnerReported
<1>4. row'[s] = Accepted(row[s], r.type, r.out)
  BY <1>1 DEF RecieveResult, Invs, TypeOK
<1>5. row'[s].state = "INIT" /\ row'[s].type = NextTask[r.type]
  BY <1>1, <1>4, AcceptedFields
<1>6. Unclaimed(s)' /\ Idle(s)'
  BY <1>1, <1>3 DEF Unclaimed, Idle, Busy
<1>7. ~Stuck(s) /\ row[s].type # "PROVING"
  BY <1>2, <1>3 DEF Stuck, Owned, Tasks, WorkerTasks, MinerTasks
<1>8. TurnOf(s)' /\ ClaimsOf(s)'
  BY <1>5, <1>6 DEF TurnOf, ClaimsOf, Unclaimed, Idle
<1>9. JobsOf(s)'
  BY <1>1, <1>5, <1>6 DEF SectorInv, JobsOf, Idle, Owned
<1>10. RowOf(s)'
  BY <1>1, <1>2, <1>4, AcceptedRow
<1>11. ASSUME NEW p \in mail', p.sector = s, Strong(p)
       PROVE  FALSE
  <2>1. p \in mail /\ Owned(s, p.session)
    BY <1>1, <1>7, <1>11 DEF SectorInv, MailOf
  <2>2. p.session = r.session /\ p.type = row[s].type
    BY <1>1, <1>2, <1>11, <2>1, OwnerReported DEF Owned
  <2>3. p.type \notin WorkerTasks
    BY <1>11 DEF Strong, NextRule, WorkerTasks
  <2>4. job[s][r.session].by = NoWorker
    BY <1>11, <2>1, <2>2, <2>3 DEF SectorInv, MailOf
  <2>5. p = r
    BY <1>11, <2>1, <2>2, <2>4 DEF SectorInv, MailOf
  <2> QED  BY <1>1, <2>4, <2>5
<1>12. MailOf(s)'
  <2>1. \A p \in mail : ~Owned(s, p.session)'
    BY <1>5 DEF Owned
  <2> QED  BY <1>1, <1>11, <2>1 DEF SectorInv, MailOf
<1>13. HandlersOf(s)'
  BY <1>1, <1>7 DEF SectorInv, HandlersOf
<1>14. PostingOf(s)'
  <2>1. NextTask["COMMIT"] = "PROVING"
    BY DEF NextTask, Types, Tasks, MinerTasks
  <2> QED  BY <1>1, <1>5, <1>7, <2>1 DEF SectorInv, PostingOf
<1> QED  BY <1>8, <1>9, <1>10, <1>12, <1>13, <1>14 DEF SectorInv

LEMMA UpdatePoStInfoSector ==
  ASSUME Invs, NEW s \in Sectors, SectorInv(s), UpdatePoStInfo(s)
  PROVE  SectorInv(s)'
<1>1. /\ row[s] \in Row /\ UNCHANGED <<job, queries, mail, handlers>> /\ posting' \subseteq posting
      /\ [sector |-> s, call |-> "UpdatePoStInfo"] \in posting
  BY DEF UpdatePoStInfo, Invs, TypeOK, callVars
<1>2. row[s].type = "PROVING" \/ (row[s].type = "COMMIT" /\ Stuck(s))
  BY <1>1 DEF SectorInv, PostingOf
<1>3. row[s].state # "RUNING"
  BY <1>2, RunningTask DEF Stuck, Tasks, WorkerTasks, MinerTasks
<1>4. Unclaimed(s)
  BY <1>2 DEF Stuck, Unclaimed, SectorInv, ClaimsOf, Invs, TypeOK, Query,
              Tasks, WorkerTasks, MinerTasks
<1>5. Idle(s)
  <2>1. \A n \in Sessions : job[s][n].asked \in Tasks \cup {""}
    BY JobFields DEF Invs, Job
  <2> QED
    BY <1>2, <2>1 DEF Idle, Stuck, SectorInv, JobsOf, Tasks, WorkerTasks, MinerTasks
<1>6. PICK x : x = [row[s] EXCEPT !.out["C1"] = 0]
  OBVIOUS
<1>7. /\ row'[s] = x /\ x.type = row[s].type /\ x.state = row[s].state
      /\ x.worker = row[s].worker /\ x.req = row[s].req
      /\ \A c \in Columns : x.out[c] = IF c = "C1" THEN 0 ELSE row[s].out[c]
  BY <1>1, <1>6 DEF UpdatePoStInfo, Row, Invs, TypeOK
<1>8. Unclaimed(s)' /\ Idle(s)' /\ (Stuck(s) => Stuck(s)')
  BY <1>1, <1>4, <1>5, <1>7 DEF Unclaimed, Idle, Busy, Stuck
<1>9. TurnOf(s)' /\ ClaimsOf(s)'
  BY <1>3, <1>7, <1>8 DEF TurnOf, ClaimsOf, Unclaimed, Idle
<1>10. JobsOf(s)'
  BY <1>1, <1>3, <1>7, <1>8 DEF SectorInv, JobsOf, Idle, Owned
<1>11. RowOf(s)'
  <2>1. \A c \in Columns : x.out[c] # 0 => job[s][x.out[c]].child = "ended"
    BY <1>7 DEF SectorInv, RowOf
  <2>2. x.type = "COMMIT" => Linked(job[s], x, job[s][x.out["C2"]].in["C1"])
    BY <1>7 DEF SectorInv, RowOf, Linked, Columns
  <2> QED  BY <1>1, <1>2, <1>7, <2>1, <2>2 DEF RowOf
<1>12. MailOf(s)'
  BY <1>1, <1>3, <1>7, <1>8 DEF SectorInv, MailOf, Owned
<1>13. HandlersOf(s)' /\ PostingOf(s)'
  BY <1>1, <1>7, <1>8 DEF SectorInv, HandlersOf, PostingOf
<1> QED  BY <1>9, <1>10, <1>11, <1>12, <1>13 DEF SectorInv

\* A rule that lets the task be tried again stops the row, whatever it was at.
LEMMA HandlerRetrySector ==
  ASSUME Invs, NEW h \in handlers, SectorInv(h.sector), HandlerWrite(h), h.todo = "retry"
  PROVE  SectorInv(h.sector)'
<1> DEFINE s == h.sector
<1>1. /\ s \in Sectors /\ row[s] \in Row /\ UNCHANGED <<job, queries, mail, posting>>
      /\ handlers' \subseteq handlers
  BY DEF HandlerWrite, Invs, TypeOK, Handler, callVars
<1>2. PICK x : x = [row[s] EXCEPT !.state = RuleState(h.type)]
  OBVIOUS
<1>3. /\ row'[s] = x /\ x.state \in {"RETRY", "SUCCESS"} /\ x.type = row[s].type
      /\ x.worker = row[s].worker /\ x.req = row[s].req /\ x.out = row[s].out
  BY <1>1, <1>2 DEF HandlerWrite, Row, Invs, TypeOK, RuleState
<1>4. (Idle(s) => Idle(s)') /\ (Unclaimed(s) => Unclaimed(s)') /\ (Stuck(s) => Stuck(s)')
  BY <1>1, <1>3 DEF Unclaimed, Idle, Busy, Stuck
<1>5. TurnOf(s)'
  BY <1>1, <1>3, <1>4 DEF SectorInv, TurnOf, Busy
<1>6. ClaimsOf(s)'
  BY <1>1, <1>3 DEF SectorInv, ClaimsOf
<1>7. JobsOf(s)'
  BY <1>1, <1>3 DEF SectorInv, JobsOf, Busy, Owned
<1>8. RowOf(s)'
  BY <1>1, <1>3 DEF SectorInv, RowOf, Linked
<1>9. MailOf(s)'
  <2>1. ASSUME NEW p \in mail, p.sector = s, Strong(p)
        PROVE  Stuck(s)' /\ row[s].type \in {p.type, NextTask[p.type]}
    <3>1. CASE Owned(s, p.session)
      <4>1. Idle(s) /\ Unclaimed(s) /\ p.type = row[s].type
        BY <1>1, <2>1, <3>1, OwnerReported
      <4> QED  BY <1>3, <1>4, <4>1 DEF Stuck
    <3>2. CASE ~Owned(s, p.session)
      BY <1>4, <2>1, <3>2 DEF SectorInv, MailOf
    <3> QED  BY <3>1, <3>2
  <2>2. \A p \in mail : ~Owned(s, p.session)'
    BY <1>3 DEF Owned
  <2> QED  BY <1>1, <1>3, <2>1, <2>2 DEF SectorInv, MailOf
<1>10. HandlersOf(s)' /\ PostingOf(s)'
  BY <1>1, <1>3, <1>4 DEF SectorInv, HandlersOf, PostingOf
<1> QED  BY <1>5, <1>6, <1>7, <1>8, <1>9, <1>10 DEF SectorInv

\* A rule that moves the row on finds it stuck, at the sender's task or past it.
LEMMA HandlerNextRow ==
  ASSUME Invs, NEW h \in handlers, SectorInv(h.sector), HandlerWrite(h), h.todo # "retry"
  PROVE  /\ Stuck(h.sector) /\ row[h.sector].type \in {h.type, NextTask[h.type]}
         /\ h.type \in {"PRECOMMIT", "COMMIT"}
         /\ row'[h.sector].type = NextTask[h.type]
         /\ row'[h.sector].state \in {"RETRY", "SUCCESS"}
         /\ row'[h.sector].worker = row[h.sector].worker
         /\ row'[h.sector].out = row[h.sector].out
<1> DEFINE s == h.sector
<1>1. s \in Sectors /\ row[s] \in Row /\ h.todo = "next"
  BY DEF HandlerWrite, Invs, TypeOK, Handler
<1>2. NextRule(h.type, h.err)
  BY <1>1 DEF Invs, LifecycleInv, HandlersReached
<1>3. Stuck(s) /\ row[s].type \in {h.type, NextTask[h.type]} /\ h.type \in {"PRECOMMIT", "COMMIT"}
  BY <1>2 DEF SectorInv, HandlersOf, NextRule
<1>4. PICK x : x = [row[s] EXCEPT !.state = NextRuleState(h.type), !.type = NextTask[h.type]]
  OBVIOUS
<1>5. /\ row'[s] = x /\ x.state \in {"RETRY", "SUCCESS"} /\ x.type = NextTask[h.type]
      /\ x.worker = row[s].worker /\ x.out = row[s].out
  BY <1>1, <1>4 DEF HandlerWrite, Row, Invs, TypeOK, NextRuleState
<1> QED  BY <1>3, <1>5

LEMMA SenderNext ==
  /\ NextTask["PRECOMMIT"] = "SEED" /\ NextTask["COMMIT"] = "PROVING"
  BY DEF NextTask, Types, Tasks, MinerTasks

LEMMA HandlerNextSector ==
  ASSUME Invs, NEW h \in handlers, SectorInv(h.sector), HandlerWrite(h), h.todo # "retry"
  PROVE  SectorInv(h.sector)'
<1> DEFINE s == h.sector
<1>1. /\ s \in Sectors /\ UNCHANGED <<job, queries, mail, posting>> /\ handlers' \subseteq handlers
  BY DEF HandlerWrite, Invs, TypeOK, Handler, callVars
<1>2. /\ Stuck(s) /\ row[s].type \in {h.type, NextTask[h.type]}
      /\ h.type \in {"PRECOMMIT", "COMMIT"} /\ row'[s].type = NextTask[h.type]
      /\ row'[s].state \in {"RETRY", "SUCCESS"}
      /\ row'[s].worker = row[s].worker /\ row'[s].out = row[s].out
  BY HandlerNextRow
<1>3. Idle(s)' /\ Unclaimed(s)' /\ Stuck(s)'
  BY <1>1, <1>2 DEF Unclaimed, Idle, Busy, Stuck
<1>4. ASSUME NEW t \in {"PRECOMMIT", "COMMIT"}, row[s].type \in {t, NextTask[t]}
      PROVE  row'[s].type = NextTask[t]
  BY <1>2, <1>4, SenderNext
<1>5. TurnOf(s)' /\ ClaimsOf(s)'
  BY <1>2, <1>3 DEF TurnOf, ClaimsOf, Unclaimed, Idle
<1>6. JobsOf(s)'
  BY <1>1, <1>2, <1>3 DEF SectorInv, JobsOf, Idle, Owned
<1>7. RowOf(s)'
  BY <1>1, <1>2, SenderNext DEF SectorInv, RowOf
<1>8. MailOf(s)'
  <2>1. \A p \in mail : p.sector = s /\ Strong(p) => row'[s].type \in {p.type, NextTask[p.type]}
    <3>1. \A p \in mail : Strong(p) => p.type \in {"PRECOMMIT", "COMMIT"}
      BY DEF Strong, NextRule
    <3>2. \A p \in mail : ~Owned(s, p.session)
      BY <1>2 DEF Stuck, Owned
    <3> QED  BY <1>4, <3>1, <3>2 DEF SectorInv, MailOf
  <2>2. \A p \in mail : ~Owned(s, p.session)'
    BY <1>2 DEF Owned
  <2> QED  BY <1>1, <1>3, <2>1, <2>2 DEF SectorInv, MailOf
<1>9. HandlersOf(s)'
  <2>1. \A g \in handlers : NextRule(g.type, g.err) => g.type \in {"PRECOMMIT", "COMMIT"}
    BY DEF NextRule
  <2> QED  BY <1>1, <1>3, <1>4, <2>1 DEF SectorInv, HandlersOf
<1>10. PostingOf(s)'
  BY <1>1, <1>2, SenderNext DEF SectorInv, PostingOf
<1> QED  BY <1>5, <1>6, <1>7, <1>8, <1>9, <1>10 DEF SectorInv

\* What the UPDATE of a claim does: the row is the session's if it was INIT,
\* and else it stays stopped; nobody else works on the sector.
LEMMA ClaimedRowWrite ==
  ASSUME Invs, NEW q \in queries, SectorInv(q.sector), QueryWrite(q)
  PROVE  /\ row'[q.sector].type = row[q.sector].type /\ row'[q.sector].out = row[q.sector].out
         /\ \/ /\ row'[q.sector].state = "RUNING" /\ row'[q.sector].req = q.session
               /\ row'[q.sector].worker = IF q.by # NoWorker THEN q.by ELSE row[q.sector].worker
            \/ /\ row'[q.sector].state \notin {"INIT", "RUNING"}
               /\ row'[q.sector].worker = row[q.sector].worker
<1> DEFINE s == q.sector
<1>1. s \in Sectors /\ row[s] \in Row /\ row[s].worker = q.snap.worker
  BY DEF Invs, TypeOK, Query, SectorInv, ClaimsOf
<1>2. CASE row[s].state = "INIT"
  <2>1. Unchanged(q.snap, row[s])
    BY <1>2, ClaimedSector
  <2>2. PICK x : x = [row[s] EXCEPT !.state = "RUNING", !.req = q.session,
                        !.worker = IF q.by # NoWorker THEN q.by ELSE q.snap.worker]
    OBVIOUS
  <2>3. row'[s] = x
    BY <1>1, <2>1, <2>2 DEF QueryWrite, Claimed, Invs, TypeOK
  <2>4. /\ x.type = row[s].type /\ x.out = row[s].out /\ x.state = "RUNING" /\ x.req = q.session
        /\ x.worker = IF q.by # NoWorker THEN q.by ELSE q.snap.worker
    BY <1>1, <2>2 DEF Row
  <2> QED  BY <1>1, <2>3, <2>4
<1>3. CASE row[s].state # "INIT"
  <2>1. ~Unchanged(q.snap, row[s]) /\ row[s].state # "RUNING"
    BY <1>3, ClaimedSector
  <2>2. row' = row
    BY <2>1 DEF QueryWrite, Claimed
  <2> QED  BY <1>3, <2>1, <2>2
<1> QED  BY <1>2, <1>3

LEMMA QueryWriteSector ==
  ASSUME Invs, NEW q \in queries, SectorInv(q.sector), QueryWrite(q)
  PROVE  SectorInv(q.sector)'
<1> DEFINE s == q.sector
           n == q.session
<1>1. /\ s \in Sectors /\ n \in Sessions /\ n # 0 /\ q.task \in Tasks
      /\ UNCHANGED <<mail, handlers, posting>> /\ queries' = queries \ {q}
  BY SealTaskAssumption DEF QueryWrite, Invs, TypeOK, Query, Session0, Sessions
<1>2. /\ Idle(s) /\ Clear(s) /\ q.task = row[s].type /\ row[s].state # "RUNING"
  BY ClaimedSector
<1>3. /\ row'[s].type = row[s].type /\ row'[s].out = row[s].out
      /\ \/ /\ row'[s].state = "RUNING" /\ row'[s].req = n
            /\ row'[s].worker = IF q.by # NoWorker THEN q.by ELSE row[s].worker
         \/ /\ row'[s].state \notin {"INIT", "RUNING"}
            /\ row'[s].worker = row[s].worker
  BY ClaimedRowWrite
<1>4. job[s][n].child = "none" /\ \A p \in queries : p.sector = s /\ p.session = n => p = q
  BY <1>1 DEF Invs, LifecycleInv, SessionsFresh
<1>5. /\ q.by # NoWorker => q.task \in WorkerTasks
      /\ q.task \in {"PC2", "C1"} => q.by = row[s].worker
      /\ q.task = q.snap.type
      /\ \A p \in queries : p.sector = s => p.session = n
  BY DEF SectorInv, ClaimsOf, TurnOf, Invs, LifecycleInv, ClaimsReached
<1>6. Unclaimed(s)'
  BY <1>1, <1>4, <1>5 DEF Unclaimed
<1>7. /\ \A m \in Sessions : m # n => job'[s][m] = job[s][m]
      /\ job'[s][n] = Started(q)
  BY <1>1 DEF QueryWrite, Invs, TypeOK
<1>8. /\ Started(q).asked = q.task /\ Started(q).by = q.by
      /\ Started(q).child \notin {"none", "run"}
  BY DEF Started
<1>9. \A m \in Sessions : Busy(s, m)' => m = n
  BY <1>2, <1>7 DEF Idle, Busy
<1>10. TurnOf(s)'
  BY <1>3, <1>6, <1>9 DEF TurnOf, Unclaimed
<1>11. ClaimsOf(s)'
  BY <1>6 DEF ClaimsOf, Unclaimed
<1>12. JobsOf(s)'
  <2> SUFFICES ASSUME NEW m \in Sessions
        PROVE
          /\ job'[s][m].child # "none" /\ job'[s][m].by # NoWorker =>
               job'[s][m].asked \in WorkerTasks
          /\ Busy(s, m)' =>
               /\ job'[s][m].asked = row'[s].type
               /\ job'[s][m].asked \in {"PC2", "C1"} => job'[s][m].by = row'[s].worker
               /\ job'[s][m].child = "run" =>
                    job'[s][m].ctype = row'[s].type /\ job'[s][m].in = row'[s].out
          /\ Owned(s, m)' /\ job'[s][m].by # NoWorker => row'[s].worker = job'[s][m].by
    BY DEF JobsOf
  <2>1. CASE m # n
    <3>1. ~Owned(s, m)' /\ ~Busy(s, m)'
      BY <1>3, <1>9, <2>1 DEF Owned
    <3> QED  BY <1>7, <2>1, <3>1 DEF SectorInv, JobsOf
  <2>2. CASE m = n
    <3>1. Owned(s, m)' /\ q.by # NoWorker => row'[s].worker = q.by
      BY <1>3 DEF Owned
    <3>2. q.task \in {"PC2", "C1"} => q.by = row'[s].worker
      BY <1>3, <1>5
    <3> QED  BY <1>2, <1>3, <1>5, <1>7, <1>8, <2>2, <3>1, <3>2
  <2> QED  BY <2>1, <2>2
<1>13. RowOf(s)'
  <2>1. \A m \in Sessions : job[s][m].child = "ended" => job'[s][m] = job[s][m]
    BY <1>4, <1>7
  <2>2. ASSUME NEW c \in Columns, row[s].out[c] # 0
        PROVE  row[s].out[c] \in Sessions /\ job[s][row[s].out[c]].child = "ended"
    BY <1>1, <2>2, RowOut DEF SectorInv, RowOf
  <2>3. \A c \in Columns : row[s].out[c] # 0 => job'[s][row[s].out[c]] = job[s][row[s].out[c]]
    BY <2>1, <2>2
  <2>4. \A c1 \in Session0 : Linked(job[s], row[s], c1) => Linked(job'[s], row'[s], c1)
    BY <1>3, <2>1, SealTaskAssumption DEF Linked, Session0, Sessions
  <2>5. row'[s].worker = row[s].worker \/ row[s].type \in {"PC1", "C2"}
    BY <1>2, <1>3, <1>5 DEF WorkerTasks
  <2>6. row[s].type \in {"PC2", "PRECOMMIT", "SEED", "C1"} => row[s].out["PC1"] # 0
    BY <1>1, FullRow
  <2>7. row[s].type \in {"PC2", "PRECOMMIT", "SEED", "C1"} =>
          row'[s].worker = job'[s][row'[s].out["PC1"]].by
    BY <1>3, <2>3, <2>5, <2>6 DEF SectorInv, RowOf, Columns
  <2>8. row[s].type = "C2" => Linked(job'[s], row'[s], row[s].out["C1"])
    <3>1. row[s].out["C1"] \in Session0
      BY <1>1, RowOut DEF Columns
    <3> QED  BY <2>4, <3>1 DEF SectorInv, RowOf
  <2>9. row[s].type = "COMMIT" => Linked(job'[s], row'[s], job'[s][row[s].out["C2"]].in["C1"])
    <3> SUFFICES ASSUME row[s].type = "COMMIT"
                 PROVE  Linked(job'[s], row'[s], job'[s][row[s].out["C2"]].in["C1"])
      OBVIOUS
    <3>1. row[s].out["C2"] # 0 /\ "C2" \in Columns
      BY <1>1, FullRow
    <3>2. job[s][row[s].out["C2"]] \in Job /\ job'[s][row[s].out["C2"]] = job[s][row[s].out["C2"]]
      BY <1>1, <2>2, <2>3, <3>1, JobFields DEF Invs
    <3>3. job[s][row[s].out["C2"]].in["C1"] \in Session0
      BY <3>2 DEF Job, Columns
    <3> QED  BY <2>4, <3>2, <3>3 DEF SectorInv, RowOf
  <2>10. \A c \in Columns : row'[s].out[c] # 0 => job'[s][row'[s].out[c]].child = "ended"
    BY <1>3, <2>2, <2>3
  <2> QED  BY <1>3, <2>7, <2>8, <2>9, <2>10 DEF RowOf
<1>14. MailOf(s)'
  <2>1. \A r \in mail : r.sector = s =>
          r.session \in Sessions /\ r.session # n /\ job'[s][r.session] = job[s][r.session]
    BY <1>4, <1>7, ReportFields DEF Invs, ReadInv, ReportsEnd
  <2>2. \A r \in mail : r.sector = s => ~Owned(s, r.session)' /\ ~Strong(r)
    BY <1>2, <1>3, <2>1 DEF Owned, Clear
  <2> QED  BY <1>1, <2>1, <2>2 DEF SectorInv, MailOf
<1>15. HandlersOf(s)' /\ PostingOf(s)'
  BY <1>1, <1>2 DEF Clear, HandlersOf, PostingOf
<1> QED  BY <1>10, <1>11, <1>12, <1>13, <1>14, <1>15 DEF SectorInv

LEMMA AloneReport ==
  ASSUME Invs, AloneInv, NEW r \in mail, RecieveResult(r) \/ RecieveError(r)
  PROVE  AloneInv'
<1>1. /\ r.sector \in Sectors /\ UNCHANGED <<job, queries, resets>> /\ mail' \subseteq mail
      /\ \A s \in Sectors : s # r.sector => row'[s] = row[s]
  BY ReportFields DEF RecieveResult, RecieveError, Delivered, Invs, TypeOK
<1>2. \A p \in posting' : p \in posting \/ p.sector = r.sector
  BY DEF RecieveResult, RecieveError, PostCalls
<1>3. \A h \in handlers' : h \in handlers \/ h.sector = r.sector
  BY DEF RecieveResult, RecieveError
<1>4. ASSUME NEW s \in Sectors
      PROVE  SectorInv(s)'
  <2>1. CASE s = r.sector
    BY <2>1, LateReport, RecieveResultSector, RecieveErrorSector DEF AloneInv
  <2>2. CASE s # r.sector
    BY <1>1, <1>2, <1>3, <2>2, OtherSector DEF AloneInv
  <2> QED  BY <2>1, <2>2
<1> QED  BY <1>1, <1>4 DEF AloneInv

LEMMA AloneQueryWrite ==
  ASSUME Invs, AloneInv, NEW q \in queries, QueryWrite(q)
  PROVE  AloneInv'
<1>1. /\ q.sector \in Sectors /\ UNCHANGED <<mail, handlers, posting>> /\ queries' \subseteq queries
      /\ \A s \in Sectors : s # q.sector =>
           row'[s] = row[s] /\ \A n \in Sessions : job'[s][n] = job[s][n]
  BY DEF QueryWrite, Claimed, Invs, TypeOK, Query
<1>2. q.how # "restart"
  BY <1>1 DEF AloneInv, SectorInv, ClaimsOf
<1>3. ASSUME NEW s \in Sectors
      PROVE  SectorInv(s)'
  <2>1. CASE s = q.sector
    BY <2>1, QueryWriteSector DEF AloneInv
  <2>2. CASE s # q.sector
    BY <1>1, <2>2, OtherSector DEF AloneInv
  <2> QED  BY <2>1, <2>2
<1> QED  BY <1>2, <1>3 DEF AloneInv, QueryWrite

LEMMA AlonePoll ==
  ASSUME Invs, AloneInv, NEW t \in Tasks, NEW w \in Owners, NEW u \in Sectors, Poll(t, w, u)
  PROVE  AloneInv'
<1>1. /\ UNCHANGED <<row, job, mail, handlers, posting, resets>>
      /\ \A q \in queries' : q \in queries \/ q.sector = u
  BY DEF Poll, QueryRead, tableVars, minerVars
<1>2. ASSUME NEW s \in Sectors
      PROVE  SectorInv(s)'
  <2>1. CASE s = u
    BY <2>1, PollSector DEF AloneInv
  <2>2. CASE s # u
    BY <1>1, <2>2, OtherSector DEF AloneInv
  <2> QED  BY <2>1, <2>2
<1> QED  BY <1>1, <1>2 DEF AloneInv

LEMMA AloneRow ==
  ASSUME Invs, AloneInv, NEW u \in Sectors,
         \/ AddTask(u) \/ UpdatePoStInfo(u)
         \/ \E h \in handlers : h.sector = u /\ HandlerWrite(h)
  PROVE  AloneInv'
<1>1. /\ UNCHANGED <<job, queries, mail, resets>>
      /\ posting' \subseteq posting /\ handlers' \subseteq handlers
      /\ \A s \in Sectors : s # u => row'[s] = row[s]
  BY DEF AddTask, UpdatePoStInfo, HandlerWrite, callVars, minerVars, Invs, TypeOK
<1>2. ASSUME NEW s \in Sectors
      PROVE  SectorInv(s)'
  <2>1. CASE s = u
    BY <2>1, AddTaskSector, UpdatePoStInfoSector, HandlerRetrySector, HandlerNextSector
    DEF AloneInv
  <2>2. CASE s # u
    BY <1>1, <2>2, OtherSector DEF AloneInv
  <2> QED  BY <2>1, <2>2
<1> QED  BY <1>1, <1>2 DEF AloneInv

LEMMA AloneStep ==
  ASSUME Undisturbed, Invs, AloneInv, [Next]_vars
  PROVE  AloneInv'
<1>1. CASE SessionsGoOn
  <2>1. \A s \in Sectors : SectorInv(s)'
    BY <1>1, QuietSector DEF AloneInv
  <2> QED  BY <1>1, <2>1 DEF SessionsGoOn, AloneInv
<1>2. CASE \E r \in mail : RecieveResult(r) \/ RecieveError(r)
  BY <1>2, AloneReport
<1>3. CASE \E q \in queries : QueryWrite(q)
  BY <1>3, AloneQueryWrite
<1>4. CASE \E t \in Tasks, w \in Owners, s \in Sectors : Poll(t, w, s)
  BY <1>4, AlonePoll
<1>5. CASE \E s \in Sectors : AddTask(s) \/ UpdatePoStInfo(s)
  BY <1>5, AloneRow
<1>6. CASE \E h \in handlers : HandlerWrite(h)
  <2>1. \A h \in handlers : h.sector \in Sectors
    BY DEF Invs, TypeOK, Handler
  <2> QED  BY <1>6, <2>1, AloneRow
<1>7. /\ ~(\E r \in resets : ResetWrite(r) \/ ByStateRetry(r))
      /\ ~(\E q \in queries : ByStateWrite(q))
  BY DEF AloneInv, Invs, Named, ByStateWrite
<1>8. SessionsGoOn \/ TableActs
  BY StepKinds DEF Invs, ReadInv
<1> QED
  BY <1>1, <1>2, <1>3, <1>4, <1>5, <1>6, <1>7, <1>8, NoOperator DEF TableActs

LEMMA Alone ==
  ASSUME Undisturbed
  PROVE  Spec => [](Invs /\ AloneInv)
<1>1. Init => Invs /\ AloneInv
  <2>1. Init => Full /\ Named
    BY DEF Init, NoRow, Full, Named
  <2> QED  BY <2>1, TypeInit, LifecycleInit, ReadInit, AloneInit DEF Invs
<1>2. (Invs /\ AloneInv) /\ [Next]_vars => (Invs /\ AloneInv)'
  <2>1. (Invs /\ AloneInv) /\ [Next]_vars => TypeOK' /\ LifecycleInv' /\ ReadInv'
    BY TypeStep, LifecycleStep, ReadStep, NoOperator DEF Invs
  <2>2. (Invs /\ AloneInv) /\ [Next]_vars => Full' /\ Named'
    BY FullStep, NamedStep DEF Invs, AloneInv
  <2> QED  BY <2>1, <2>2, AloneStep DEF Invs
<1> QED  BY <1>1, <1>2, PTL DEF Spec

-------------------------------------------------------------------------------
(* One process at a time works on the files of a sector, whatever dies, is  *)
(* lost or comes late: QueryTask gives a sector out only when its row is    *)
(* INIT, and no handler brings a row back to INIT under a live child.       *)
THEOREM OneAtATime ==
  ASSUME Undisturbed
  PROVE  Spec => []OneLiveChild
<1>1. AloneInv => OneLiveChild
  BY DEF AloneInv, SectorInv, TurnOf, OneLiveChild, Live, Busy
<1> QED  BY <1>1, Alone, PTL

\* A live child runs the row's task, from the row's columns, on the row's worker.
LEMMA LiveWorksOnRow ==
  ASSUME AloneInv, NEW s \in Sectors, NEW n \in Live(s)
  PROVE  /\ n \in Sessions /\ job[s][n].ctype = row[s].type /\ job[s][n].in = row[s].out
         /\ row[s].type \in {"PC2", "C1"} => job[s][n].by = row[s].worker
<1>1. n \in Sessions /\ job[s][n].child = "run" /\ Busy(s, n)
  BY DEF Live, Busy
<1> QED  BY <1>1 DEF AloneInv, SectorInv, JobsOf

(* PC2 and C1 run on the worker that has the files: the worker id that PC1  *)
(* left in the row stays there as long as QueryTask compares it.            *)
THEOREM FilesAtHand ==
  ASSUME Undisturbed
  PROVE  Spec => []OnFilesWorker
<1>1. ASSUME AloneInv, NEW s \in Sectors, NEW n \in Live(s), job[s][n].ctype \in {"PC2", "C1"}
      PROVE  job[s][n].by = job[s][job[s][n].in["PC1"]].by
  <2>1. row[s].worker = job[s][row[s].out["PC1"]].by
    BY <1>1, LiveWorksOnRow DEF AloneInv, SectorInv, RowOf
  <2> QED  BY <1>1, <2>1, LiveWorksOnRow
<1>2. AloneInv => OnFilesWorker
  BY <1>1 DEF OnFilesWorker
<1> QED  BY <1>2, Alone, PTL

(* A running C2 has C1's output: UpdatePoStInfo, started by every COMMIT    *)
(* report and run at any later time, finds the sector past C2.              *)
THEOREM C1OutputStays ==
  ASSUME Undisturbed
  PROVE  Spec => []C2HasItsInput
<1>1. ASSUME AloneInv, NEW s \in Sectors, NEW n \in Live(s), job[s][n].ctype = "C2"
      PROVE  job[s][n].in["C1"] # 0
  <2>1. row[s].out["C1"] # 0
    BY <1>1, LiveWorksOnRow DEF AloneInv, SectorInv, RowOf, Linked
  <2> QED  BY <1>1, <2>1, LiveWorksOnRow
<1>2. AloneInv => C2HasItsInput
  BY <1>1 DEF C2HasItsInput
<1> QED  BY <1>2, Alone, PTL

(* The proof that SendCommit sends belongs to the commitment and the seed   *)
(* of the row: no late report has put another one's columns in between.     *)
THEOREM ProofBelongs ==
  ASSUME Undisturbed
  PROVE  Spec => []ProofOfRow
<1>1. AloneInv => ProofOfRow
  BY DEF AloneInv, SectorInv, RowOf, Linked, ProofOfRow
<1> QED  BY <1>1, Alone, PTL

LEMMA NoRegressStep ==
  ASSUME Undisturbed, Invs, AloneInv, [Next]_vars, NEW s \in Sectors
  PROVE  Rank(row'[s].type) >= Rank(row[s].type)
<1>1. row[s] \in Row /\ Rank(row[s].type) \in 0..8
  BY DEF Invs, TypeOK, Rank
<1>2. CASE row'[s].type = row[s].type
  BY <1>1, <1>2
<1>3. CASE SessionsGoOn \/ \E t \in Tasks, w \in Owners, u \in Sectors : Poll(t, w, u)
  <2>1. row' = row
    BY <1>3 DEF SessionsGoOn, Poll, QueryRead, tableVars
  <2> QED  BY <1>2, <2>1
<1>4. CASE \E u \in Sectors : AddTask(u) \/ UpdatePoStInfo(u)
  <2>1. \/ row'[s].type = row[s].type
        \/ row[s].type = "absent" /\ row'[s].type = "PC1"
    <3>1. CASE \E u \in Sectors : AddTask(u)
      BY <1>1, <3>1 DEF AddTask, Invs, TypeOK, Row
    <3>2. CASE \E u \in Sectors : UpdatePoStInfo(u)
      BY <1>1, <3>2 DEF UpdatePoStInfo, Invs, TypeOK, Row
    <3> QED  BY <1>4, <3>1, <3>2
  <2> QED  BY <1>2, <2>1 DEF Rank
<1>5. ASSUME NEW r \in mail, RecieveResult(r) \/ RecieveError(r)
      PROVE  Rank(row'[s].type) >= Rank(row[s].type)
  <2>1. CASE RecieveResult(r) /\ Owns(r) /\ s = r.sector
    <3>1. row[s].type \in Tasks /\ row[s].type = r.type
      BY <2>1, RunningTask DEF Owns
    <3>2. row'[s] = Accepted(row[s], r.type, r.out)
      BY <1>1, <2>1 DEF RecieveResult, Invs, TypeOK
    <3>3. row'[s].type = NextTask[r.type]
      BY <1>1, <3>2, AcceptedFields
    <3> QED  BY <3>1, <3>3, NextRank
  <2>2. CASE ~(RecieveResult(r) /\ Owns(r) /\ s = r.sector)
    <3>1. CASE RecieveError(r)
      BY <1>1, <1>2, <3>1 DEF RecieveError, Invs, TypeOK, Row
    <3>2. CASE RecieveResult(r)
      BY <1>2, <2>2, <3>2 DEF RecieveResult, Invs, TypeOK
    <3> QED  BY <1>5, <3>1, <3>2
  <2> QED  BY <2>1, <2>2
<1>6. ASSUME NEW q \in queries, QueryWrite(q) \/ ByStateWrite(q)
      PROVE  row'[s].type = row[s].type
  BY <1>6, ClaimedRow DEF QueryWrite, ByStateWrite, Invs
<1>7. ASSUME NEW h \in handlers, HandlerWrite(h)
      PROVE  Rank(row'[s].type) >= Rank(row[s].type)
  <2>1. h.sector \in Sectors
    BY DEF Invs, TypeOK, Handler
  <2>2. CASE h.todo # "retry" /\ s = h.sector
    <3>1. /\ row[s].type \in {h.type, NextTask[h.type]}
          /\ h.type \in {"PRECOMMIT", "COMMIT"} /\ row'[s].type = NextTask[h.type]
      BY <1>7, <2>1, <2>2, HandlerNextRow DEF AloneInv
    <3> QED  BY <3>1, SenderNext DEF Rank
  <2>3. CASE ~(h.todo # "retry" /\ s = h.sector)
    <3>1. row'[s].type = row[s].type
      BY <1>1, <1>7, <2>3 DEF HandlerWrite, Invs, TypeOK, Row
    <3> QED  BY <1>2, <3>1
  <2> QED  BY <2>2, <2>3
<1>8. ~(\E r \in resets : ResetWrite(r) \/ ByStateRetry(r))
  BY DEF AloneInv
<1>9. SessionsGoOn \/ TableActs
  BY StepKinds DEF Invs, ReadInv
<1> QED
  BY <1>2, <1>3, <1>4, <1>5, <1>6, <1>7, <1>8, <1>9, NoOperator DEF TableActs

(* Sealing never takes a step back by itself: reports that come late or     *)
(* twice, crashes and failure rules leave a row at its task or move it on.  *)
THEOREM NeverBack ==
  ASSUME Undisturbed
  PROVE  Spec => NoRegress
<1> DEFINE Forward == \A s \in Sectors : Rank(row'[s].type) >= Rank(row[s].type)
<1>1. (Invs /\ AloneInv) /\ [Next]_vars => [Forward]_vars
  BY NoRegressStep
<1> QED  BY <1>1, Alone, PTL DEF Spec, NoRegress
===============================================================================
