# A verification development of filecoin-sealer

This directory models `aliensero/filecoin-sealer` in TLA+, checks the models with
TLC on small instances and proves what matters most with TLAPS. Paths are
relative to the repository root (`src/...`).

## 1. Inventory

### What the program is

A *miner daemon* (`ns-miner`, `src/miner`) owns a MySQL database with one row per
sector (`db_task_infos`) and serves it over JSON-RPC. *Worker daemons*
(`ns-worker`, `src/worker`) poll the miner for the four computing tasks and run
each in a child process of their own, or on request in a goroutine of the
daemon. The miner itself runs the three tasks that talk to the chain. A sector
goes through

    PC1 -> PC2 -> PRECOMMIT -> SEED -> C1 -> C2 -> COMMIT -> PROVING
    worker         miner              worker        miner

Afterwards the sector takes part in the window PoSt of its deadline: either the
workers prove it and hand the proofs to the miner, which merges and submits
them, or the miner does both. A third process listens to the gossip of the
chain, makes heads of blocks and messages, and mines.

### Components

| Component | State it keeps | Operations | Interacts with |
|---|---|---|---|
| Task table (`miner/miner.go`, `miner/query.go`, `util/mysql.go`) | rows, logs, PoSt table; one mutex per task; `ReqSession` | `AddTask`, `QueryTask`, `RecieveTaskResult`, `UpdateTask`, `CheckSession`, `ResetAbortedSession`, `QueryRetry`, `RetryTask`, `ClearProving` | called by every worker and by the senders, writes in transactions |
| Failure rules and bookkeeping (`miner/util.go`, `miner/faileddef.go`) | the rule table | `TaskFailedHandle`, `RegisterPoSt`, `UpdatePoStInfo`, all in goroutines | started by `RecieveTaskResult`, write the table without its mutexes |
| Senders and seed (`miner/server.go`, `miner/sendmsg*.go`, `miner/miner.go:182`) | goroutines, messages in flight | `SendPreCommit`, `SendCommit`, their `ByPrivatKey` twins, `GetSeedRand`, the polling loop | claim rows, push messages, report through `RecieveTaskResult` |
| Worker sessions (`worker/server.go`, `pc1.go`, `pc2.go`, `c12.go`, `worker.go`, `util.go`, `cmd/worker/main.go`) | `TaskCloseChnl`, channels, child processes, shared variables, files on disk | polling loop, `ProcessX`, `sealX`, `ChildProcess`, `handleProccess`, `taskHeartBeat`, `taskrun`, `ShutdownReq`, `RetryTaskPID(ByState)`, `RetryTask`, `ResetAbortedSession` | claim, report with retries |
| Worker limits (`worker/worker.go:194-245`) | `TaskRun[t].RuningCnt`, `TaskLimit` | `IncrementTask`, `DecrementTask`, `MotifyTaskLimit` | around every session |
| Window PoSt submission (`miner/wdpost.go:214-433`, `worker/wdpost.go`) | `SyncPoStMap` with its mutex and channels; `DiOpen` of each worker | `StartSubmitPoSt`, `submitPoSt`, `AbortPoSt`, `ResetSyncPoStMap`, `ReFindPoStTable`; the worker's `WinPoStServer`, `GeneratePoStProof`, `RetryWinPoSt`, `AddPoStActor` | proofs from workers, messages to the chain |
| Window PoSt schedule and proofs (`miner/wdpost.go:435-631`) | index of the last deadline, per loop | `winPoStProofsServer`, `WinPoStProofs`, `RetryWinPoSt` | chain, proving library, message nonces |
| Message nonces (`miner/sendmsgbypri.go`, `cmd/miner/main.go`) | none: read and used without a lock | `checkNonce`, signing and `MpoolPush`, `replaceMsg` | all senders of an address |
| Chain notification (`chain/notify.go`) | message cache, blocks collected, ticker | `subscribeBlock`, `subscribeMessage`, `SubscribeHeader` | gossip, `mining` |
| Block mining (`mining`) | a goroutine per head | `MinerServerNotify`, `publishBlockMsg` | heads, chain, gossip |
| Chain access, file service, command lines, types | - | - | pure I/O, wiring, library calls |

### What is hard here

* The table is written by claims, results, failure handlers, bookkeeping
  goroutines, resets and operator calls. Only claims of the *same* task exclude
  one another, and most writes name nothing but the sector.
* A claim reads a row, then updates it `WHERE` the columns it read are unchanged,
  and never looks at whether that matched.
* A child reads the row again after the claim and runs what it finds then.
* Each error starts `TaskFailedHandle` twice, once before the commit.
* Reports are repeated when their answer is lost; the parent of a child may
  report a timeout after the child reported success.
* A crashed worker leaves orphan children that go on and report; a crashed miner
  forgets `ReqSession` while its messages go on to the chain, and may be executed
  although nobody waits for their receipts any more.
* One session has up to four goroutines and four channels, and the result of an
  in-process one is in variables that two goroutines use without a lock.
* The map of PoSt channels is keyed by a partition index that recurs in every
  deadline, is replaced under its own callers by a reset, and blocks them with
  its mutex held when a channel is full.
* The miner's PoSt loop tells deadlines apart by an index that wraps.
* Senders of one address read the same nonce when they overlap.
* The loop that reads blocks uses a ticker set anew by every block and unsigned
  differences of clocks of different hosts.

What makes each component correct: the *table* never skips a phase, never runs
ahead of the chain, and takes a result only from the session that owns the row,
computed from the row's current inputs. The *worker sessions* never have two
processes on the files of one sector, run PC2 and C1 where PC1 left its files, and
tell the miner what became of the computation. The *limits* are kept and no slot is lost.
The *PoSt submission* loses no proof that arrives in time and submits each
partition once. The *schedule* proves every deadline once. *Nonces* have no
gaps, and messages lose theirs only to one another. *Notification* makes one
whole head per epoch, and *mining* at most one block per round. Where
the code does less, the property says exactly how much less. `PROJECT.json` lists
under `hazards` what can go wrong, each at its line.

## 2. Modules

| Module | Content |
|---|---|
| `SectorLifecycle` | abstract specification: what the table promises about a sector |
| `SealTask` | the task table, its handlers, the worker sessions, the senders, the chain they need, faults, operator; implements `SectorLifecycle` |
| `WorkerSession` | one session of a worker daemon from its claim on: process or goroutine, `handleProccess`, heartbeat, `ShutdownReq`, reports |
| `WorkerSlots` | the task limits of one worker daemon, and the sessions that take and return slots |
| `PoStSubmit` | the window PoSt of an actor computed by workers: their loop, `SyncPoStMap`, the submitting goroutines |
| `MsgNonce` | the senders of one address, the gossip, the node's pool |
| `WinPoSt` | the miner's own window PoSt loop; its partitions' goroutines are senders of `MsgNonce` |
| `ChainNotify` | from gossip to heads, second by second |
| `BlockMining` | the goroutines that mine on the heads of `ChainNotify` |
| `MCSealTask`, `MCWorkerSlots`, `MCPoStSubmit`, `MCWinPoSt`, `MCBlockMining` | instances, start states, constraints and symmetry for TLC |
| `SealTaskProofs`, `SealTaskSafety`, `SealTaskSessions`, `WorkerSessionProofs`, `WorkerSlotsProofs`, `PoStSubmitProofs`, `WinPoStProofs`, `BlockMiningProofs` | theorems, section 4 |

`BlockMining` composes `ChainNotify` with the miners, `WinPoSt` the loop with
`MsgNonce`. `WorkerSession` and `WorkerSlots` look at the sessions of `SealTask` from the
side of the daemon: `SealTask` has what a session does to the table and only the
events its parent can see, `WorkerSession` how these come about, `WorkerSlots` how many there
may be.

### How the state corresponds to the code

| Variable | Code |
|---|---|
| `row[s]` | the row of sector `s`: `task_type`, `state`, `worker_id`, `last_req_id`; `out[c]` is the session whose result fills the column of task `c` (0: blank) |
| `log[s][n]` | the `db_task_logs` entry of session `n` |
| `post[s]` | the state of the `db_post_infos` entry |
| `used[s]` | sessions drawn so far. A session id is a uuid; every statement that uses one also names the sector, so they are numbered per sector |
| `queries` | `QueryTask` calls between `SELECT` and `UPDATE`, with the row they read |
| `job[s][n]` | what runs for a session: the task asked for, the task of the row claimed, the child process (with the row it read), the parent goroutine |
| `mail` | `RecieveTaskResult` calls sent and not yet processed, in any order |
| `handlers`, `posting`, `resets` | goroutines and calls that have read and have yet to write |
| `reqSession` | `Miner.ReqSession` |
| `mpool`, `landed` | messages in flight, and the session whose message the chain executed: *external*, modelled from how the senders use it |
| `mishaps[s]` | what has happened to the sector and no table shows: a success of a task that brought nothing, a message that was dropped, a refusal the senders met, an expired pre-commit |

**The chain** is assumed to execute a message at most once, to keep a pre-commit until the
proof or its expiry, and not to revert a block with a message of a sector; `StateGetReceipt` is
asked without a confidence. Failure rules look at the *text* of a refusal only
(`miner/util.go:24-43`), and gas is estimated on the pending state, so that a sender is
told "already been allocated" or "no pre-committed sector" (`MinerRefused`) when a message for that is just in
the pool, from which it may be dropped afterwards, or when the pre-commit has expired.
What is assumed of a refusal is that it was true, at that moment, of the pending state.

Columns that depend on one another (ticket, commitments, proofs) are not
modelled as data: a column is the session that computed it, and a session keeps
the columns its child has read. That is just what the properties need to say
"this proof belongs to that commitment and that seed".

### How the actions correspond to the code

* `AddTask`; `QueryRead`/`QueryWrite` are the two halves of `QueryTask`
  (`Poll`, `Trigger`, `Restart`, `Send` are its callers); `AnswerLost` is the
  RPC answer that does not arrive. `AddTask` is called once for a sector, for PC1:
  the code would take any task, and a second row of a sector (`miner/miner.go:87`).
* `ByState`, `ByStateWrite`, `ByStateRetry`: `RetryTaskPIDByState`, whose own claim
  (`worker/worker.go:429`) names neither a sector nor a session. It gets sector 0 and
  leaves its row RUNING for session "" until the claim `RetryTaskPID` makes next, or for
  good if that does not come: no report and no worker's reset finds such a row.
* `Watch`, `SpawnFail`, `ChildRead`, `ChildOk`, `ChildError`, `ChildEmpty`, `ChildDie`,
  `ParentExit`, `Timeout`, `Shutdown`, `WorkerCrash`: `ChildProcess`,
  `handleProccess` and the child `ns-worker taskrun`. `ChildEmpty` is the success without
  a result that `WorkerSession` explains; a task whose input is blank fails
  (`InputMissing`). A child that comes up after its parent gave it up (`SpawnFail`) is in
  `WorkerSession` and `WorkerSlots` only.
* `MinerStore`, `MinerPush`, `SeedDone`, `MinerFail`, `MinerRefused`, `MinerSilent`, `ReceiptOk`,
  `ReceiptBad`, `ReceiptLost`, `MinerCrash`: the senders and `GetSeedRand`. The callback of
  `SendCommit` panics on a good receipt (`miner/sendmsg.go:174`), which is a `MinerCrash`; its
  twin with a private key, which the miner's loop calls, does not.
  `ChainExec`, `ChainDrop`, `ChainExpire` are the pool and the chain.
* `RecieveResult`, `RecieveError`: `RecieveTaskResult`, one transaction, with the
  goroutines it starts. `HandlerRead`/`HandlerWrite`, `RegisterPoSt`,
  `UpdatePoStInfo`: those goroutines.
* `WorkerResetRead`, `MinerResetRead`, `ResetWrite`: the two
  `ResetAbortedSession`; `ResetWrite` is also the `UpdateTask` that
  `RetryTaskPID` ends with for a miner's task.

`WorkerSlots`: `limit` is `TaskLimit`, `cnt` is `TaskRun[t].RuningCnt`, `sess[i]` the
i-th session of the daemon: how it was started (`mode`), the task of the call and
of the row it got, how far it is, whether `IncrementTask` counted it and
whether something still computes for it. `Enter` is `IncrementTask` (its
decision is made under the lock), `Restart` the call of `RetryTaskPID`, `ClaimOk` and
`ClaimFail` the answer of `QueryTask`, `Spawned` and `SpawnFail` `ChildProcess`, `LateChild` the
process that its `cmd.Start` brings up after the 30 seconds,
`WorkEnds` and `GiveUp` the ways out of `handleProccess`, `TestSlot` and `TakeBack` the
unlocked and the locked half of `DecrementTask`, `MotifyTaskLimit` the operator's
call. `GivesBack` is the argument of `DecrementTask`: the row's task, but for a
failed start and the in-process PC1 and PC2.

`WorkerSession`: `how` and `task` say how the session began (a child of
`ProcessX`, a child of `RetryTaskPID`, or a goroutine of the daemon) and of what it is.
`loop` and `left` are the position of `ChildProcess`/`handleProccess` and why the loop ended;
`tick`, `close`, `stop` are the channels `timebeat`, `closeBeat`, `stopchnl`
(the first two full or empty, `stop` with `waiting` calls blocked behind it), `listed` the entry in
`TaskCloseChnl`. `ShutdownReq` and `SendsStop` are its two lookups in that map; between them the
entry may go (`looking` calls), and the second then gives a nil channel (`nowhere` calls). `work` and `fate` are the computation, `out`, `err` the variables of
`sealX` that the goroutine assigns (`Store`, in any order) and the report reads
(`ReadOut`, `ReadErr`). `said` is what the miner has been told. `Beat`, `Ends` and
`Cancelled` are the three cases of the `select`; `CleansUp` is what follows the
loop; `ChildReport` and `InDaemonReport` what its caller does then. A report is
delivered, swallowed by `recover`, or ends the daemon (`Delivered`, `Swallowed`,
`Undelivered`).

`PoStSubmit`: a `job` is the goroutine of one partition at a worker, from
`GeneratePoStProof` to the deferred `Unlock` in `StartSubmitPoSt`. `map` numbers the
`SyncPoStMap`s that resets make, `locked` has their mutexes; a job remembers the
mutex it waits for and the one its `defer` has evaluated, since a reset may come between. `postMap` leads from a partition index to a
channel (`Absent`, `Nil`, or a goroutine), `closeMap` is the one `CloseMap` entry of
the actor. `again[d]` counts, for the bound on submissions, what makes a worker prove deadline
`d` again while it is open. `Take`, `Timeout`, `Aborted` are the `select` of `submitPoSt`, `Clear` and
`Submit` what follows when the partition is full. Between the lookup in the map and the store a caller
holds the mutex; a reset in just that window is not modelled.

`MsgNonce`: `msg[i]` is the message of a sender: `ChainHead`, `CheckNonce`, `MpoolPush`, `Arrive`,
`Execute` are the two halves of `checkNonce` (the head it asks for first gives the
nonce if the node cannot tell the pool's, and may be old by then), the publication, its arrival at the node
asked for nonces, and the chain. `next` and `top` are the nonces of the chain's
state and of the node's pool.

`WinPoSt`: `idx` is the index of the open deadline, `deadInd` the loop's; `polled`,
`started`, `calm`, `edge`, `spare` are observations the properties need. `Poll` is a
turn of the loop, `Noted` the comparison it makes, `Starts` the goroutines it starts.
`NextDeadline` is the chain: messages of a deadline have come to rest before
the next one, and the nonces are counted from 1 again.

`ChainNotify`: `GoesOn`, `TimesOut`, `Reads`, `Flush` are the branches of the loop of
`subscribeBlock` with its variables `height`, `blks`, `took`; `fire`, `period` and
`tick` are the ticker. `Second` lets time pass only when no goroutine of the process
can move (`Busy`): what they do takes milliseconds, what they wait for seconds.
`BlockMining` adds the goroutine each head starts. It may fail (`MiningFails`); where the
election proof itself fails, the code reads a nil proof and the process ends (`Stops`).

Points where the code is easily misread, and which the models follow:

* `Unchanged` is gorm's `Where(struct)`: blank fields of the row read do not
  take part in the comparison.
* A success for PRECOMMIT that matches no row rolls its log entry back, one for
  another task does not (`Logged`).
* An error's retry rule writes only the state, its "next" rule state and task,
  both `WHERE` actor and sector (`HandlerWrite`).
* `UpdatePoStInfo` is started for every COMMIT report, and clears `c1_out`.
* A task of an unknown type is "done" at once without error (`ChildOk`).
* The in-process PC1 declares an `err` of its own in its goroutine, C1 does not (`Shared`).
* The arguments of `defer` are evaluated early, its receiver's fields too (`Lock`).
* `Ticker.Reset` does not take back a tick that is in the channel (`Reads`).
* `QueryToPoSt` gives every worker all rows: what a worker cannot read it reports
  as faulty (`GeneratePoStProof`).

### The refinement

`SectorLifecycle` has two variables per sector: the stage it is `at` and the
stages it has `done`. It may go on when the stage at hand has its result
(`Finish`), a message may land (`Land`), and anything else may put it anywhere it is
ready for (`Place`): nothing is lost, nothing comes before what it rests on.
`SealTask` implements it under the mapping `at <- row[s].type`, `done <-` the tasks
whose lasting result is in the row, the messages the chain has executed, and what was
*said* to be done: a phase of which a success came without a result, a message whose
refusal the rules take for it. The code believes both, so the table cannot promise more.
`InOrder` is the abstract `Spec` under this mapping; a run checks it and
`SealTaskSafety!Refinement` proves it.

## 3. What is checked

| Run | Instance | Question |
|---|---|---|
| `auto` | 2 sectors, one new and one at C2, 1 worker, no faults, 7 sessions (the pipeline's length) | do both sectors reach PROVING, although a poll takes the first row it finds? |
| `worker_faults` | 2 workers, 5 sessions, 2 faults of error, timeout, shutdown, die, lost, wcrash, dup | does one process work for a row, where its files are; is a phase repeated, or a wrong result stored? |
| `miner_faults` | from PRECOMMIT, 1 worker, 7 sessions, 3 of error, mcrash, silent, dup, lost, timeout, send, drop, expire | when does the table run ahead of the chain, and does what is proved belong to the row? |
| `restarts` | from PC1, 1 worker, 4 sessions, 2 of trigger, restart, wreset, timeout, wcrash, bystate, empty | do restarted and late sessions damage one another's results? |
| `resets` | from SEED, 1 worker, 8 sessions, 2 of send, restart, wreset, mreset, error, mcrash, bystate, expire, empty | can a stale reset or message put the sector where it has not been? checks the inductive invariant and the refinement, too |
| `mismatch` | from PRECOMMIT, 1 worker, trigger with `mismatch` | expected violation, section 5 |
| `session` | every way to begin and task, 2 calls of `ShutdownReq` | what is the miner told, what computes on, what ends? |
| `slots` | 2 tasks, 3 sessions, limits 0 and 2 that change; in-process and by-state starts, failed starts, timeouts and shutdowns | are the counters exact under all interleavings, and does a full task get free? |
| `slots_forced` | 2 tasks, 3 sessions, a limit of 1 or none; every kind of start, rows at other tasks, dropped errors, timeouts, failed starts and late children | how far do forced calls unbalance the counters, and how many compute beyond the limit? |
| `post` | 2 workers, 2 sectors, 2 partitions, 3 deadlines, channels of 1, 8 set-ups of disks, rows and faults | does the merge of transfers work, and what does a stale entry do? |
| `winpost` | 3 deadlines a period, up to 2 partitions and another sender, 4 set-ups of faults | which deadlines are proved, and what becomes of the nonces? |
| `notify` | 2 epochs of 2 blocks, 5 set-ups of delays, forks and restarts | which heads come of which blocks? |

**Bounds.** `Ops` is the set of faults and operator calls an instance of `SealTask`
allows, `MaxFaults` how many of them one behaviour has, `MaxSession` how many
claims a sector has; `StartAt` begins a run with the state fault-free work leaves
behind at a task. Two faults are enough for the cases the code makes hard: they take a session
that is given up (timeout, crash, lost answer) and one that replaces it (restart,
trigger, send, reset), and every write that comes late is left of the first
while the second runs. One sector is enough where the question is about writes to a
row: no statement of the code relates two rows but the poll's choice of the
first, which `auto` is about. `FewLaggards` limits how many ended children of a
sector have parents that have not noticed; such a parent can only time out or
be shut down.

For the limits two sessions can race at the counter and a third can be let in
wrongly; two tasks are enough for a slot to go to the wrong one. A limit is not
changed to or from -1 (no limit) in the instances: doing so while sessions run
leaves slots taken or returns ones never taken (`worker/worker.go:196` and `:222`).

Two calls of `ShutdownReq` are enough to fill its channel and to wait behind it. A channel
of capacity 1 stands for the 1024 of the code: what matters is that it can be full.
Three deadlines let an entry of the first meet transfers of the second and third. In a
`Setups` constant every element is a combination of circumstances with its own
budget of faults, so that each is explored deeply and not all of them at once.
A period of three deadlines has a first, a middle and a last, and ten of them are
three periods; `MaxPolls` bounds how often one deadline is started, and the nonces are counted anew at
every deadline because the pool is empty then (`NoGap`, `Settled`). `Word` is 65536
for 2^64: larger than all differences of clocks that occur, as the assumption says. The delays of blocks are values on both
sides of every comparison in the loop (-8, 8, 16 seconds, the tick).

Deadlock is not checked: a bounded instance runs out of sessions, deadlines or
epochs, and a row in RETRY, ERROR or (after a lost answer) RUNING waits for an operator by design.

**Properties** of the task table:

* `EverySectorProves`: without faults every sector reaches PROVING and its PoSt
  entry SUCCESS.
* `OneLiveChild`, `OnFilesWorker`: one process per sector, where its files are.
  Not with operator's restarts: after a worker crash the operator may well start a
  second process beside an orphan.
* `ResultsAreCurrent`: a result enters a row only from the session that owns it,
  computed from the columns the row holds at that moment.
* `NoRegress`: a sector never goes back a task. It is not checked with operator's
  calls: a reset or a restart writes
  back the task it read, and a repeated send whose message the chain refuses ends in a
  "next" rule (`miner/util.go:43`) that writes its task by sector number, although the
  row has gone on since. What such writes cannot do is in `OutputsPresent`,
  `ChainBacked` and `InOrder`.
* `OutputsPresent`: a row past a phase holds its result (C1's is dropped at the end), or a
  worker has reported a success of it and sent nothing.
* `ChainBacked`: past PRECOMMIT the sector is pre-committed on chain, PROVING
  means the proof is there; or a rule took the row on, on the word of a refusal for a message that was in the pool then
  or had been dropped from it, or for want of a pre-commit that had expired. Past SEED the pre-commit has been executed
  in any case. `MessagesReached`: no message goes out for a sector that is not ready for it, by
  what it has or was told, and no COMMIT without an executed pre-commit.
* `C2HasItsInput`: the late `UpdatePoStInfo` never empties C1's output under a C2; only a C1
  that reported a success without one leaves C2 nothing.
  Checked without resets: a worker's stale reset may put a row that is at COMMIT
  back to C2/RETRY, and a COMMIT report then empties the column C2 needs.
* `ProofOfRow`: the proof about to be committed is of the row's commitment and seed.
* `LifecycleInv`, `InOrder`: the inductive invariant and the refinement.

of a session:

* `EmptySuccessExplained`: a success without a result is reported only of a panic
  whose value is no error, of an in-process PC1 that failed, or of an in-process
  session that was shut down while it computed.
* `OneVoice`: the miner hears both success and failure of a session only when the
  parent gave up on a child, or an in-process session was shut down.
* `OverIsStill`: what computes after its session is over came up after the wait for
  its pid, or was shut down in the daemon.
* `SilenceExplained`: who can leave the miner without any report.
* `HungChildIsKilled`, `ShutdownReturns`: liveness; the second with the exceptions the code has:
  a session that leaves its loop for another reason, and one of two calls that finds the
  session listed and its channel gone.

of the limits:

* `SlotsExact`: a counter is the number of sessions that were let in and have not
  given their slot back. `AdmittedBelowLimit`: a session is let in only if the
  sessions that hold slots, not just the counter, leave it one.
* `DriftExplained`, `ParallelExplained`: with restarts and mismatching claims a
  counter is short by at most one per such session that has ended, is never
  above its limit, and no more sessions compute beyond the limit than that and those that
  compute with nobody to watch them (a child that came up late, a goroutine after a shutdown).
* `FullIsTemporary`: a task at its limit gets below it again.

of the window PoSt that workers compute:

* `CallersExclude`: the mutex of `StartSubmitPoSt` excludes, and its `Unlock` is not
  fatal, as long as no call waited across a reset. (With one it can be both.)
* `OneWorkerSuffices`: whatever is proved rests on one worker that could read every sector; transfers
  of workers with half the files each never make a whole. (No document promises that they would:
  the property says what the merge does.)
* `EntryIsServed`, `ServedFromCleanStart`: which goroutines an entry of the map may lead to,
  and that without faults since the last clean start every partition is submitted.
* `DuplicatesExplained`: a partition of a deadline is submitted at most once by each worker, and once more for
  each retry, and each note of the deadline a worker loses (actor added again, restart), while that deadline is open.

of the one the miner computes and of nonces:

* `OncePerDeadline`: each deadline is started once, but for retries and restarts, as
  long as the loop polls both ends of a period; `InStepAfterPeriod`: if not, it is in
  step again after a period of polled deadlines.
* `NoGap`, `RefusedByOverlap`, `NonceMoves`, `SomePartitionLands`: no nonce is
  skipped; only messages that overlap, or whose nonce was not the pool's, lose; what is
  published moves the chain's nonce; a refused proof lost its nonce to a message of the same deadline
  that landed, so that of the partitions one lands or met with an error, unless another sender's message landed.

of notification and mining:

* `StaysInStep`: when all blocks come in time, a whole head of one epoch is followed by
  a whole head of the next. `ReaderResumes`: a late or early block stops the loop only
  until the tick. `PanicOnlyBySkew`: what it takes for `Ticker.Reset` to panic.
* `OneBlockPerRound`: one process publishes no two blocks for a round (after a restart
  it may: the heights of heads are memory).

Each property has a mutant of the code's model under which it fails (`PROJECT.json`,
`mutants`); the mutated operators stand next to their originals.

**Fairness.** `SealTask`: weak fairness of `Progress`, i.e. the program as a whole
does not stop while one of its own steps is possible: goroutines and processes are scheduled,
polls are endless loops with a sleep, a chain executes valid messages. No fault
and no operator's call is fair, and it is only used with `Ops = {}`.
`WorkerSession`: the watching goroutine and its heartbeat are scheduled, time passes, and a `select`
takes each of its ready channels in the end, a call that has found the session goes on; a computation may go on for ever, and
nobody has to call. `WorkerSlots`: the steps of each session: answers or RPC errors
come, the wait for a pid is 30 seconds, and a computation ends or runs into its timeout. `PoStSubmit`:
the workers' loops, the calls as a whole, each submitting goroutine, the chain. `WinPoSt`: polls, proofs, each message, the chain.
`BlockMining`: the goroutines of the process and the clock.

## 4. What is proved

All theorems hold for every value of the constants that satisfies the modules'
named assumptions: any number of sectors, workers, sessions, tasks, deadlines,
partitions, senders, blocks and faults.

| Theorem | Statement |
|---|---|
| `SealTaskProofs!TypeCorrect` | `Spec => []TypeOK` |
| `SealTaskSafety!Lifecycle`, `NoPhaseSkipped`, `TableFollowsChain` | `LifecycleInv`, `OutputsPresent`, `ChainBacked` |
| `SealTaskSafety!MessagesInOrder`, `Refinement`, `StagesOrdered` | `MessagesReached`; `Spec => InOrder`; the abstract `Ordered`, carried over |
| `SealTaskSessions!OnlyCurrentResults` | `ResultsAreCurrent` |
| `SealTaskSessions!OneAtATime`, `FilesAtHand`, `C1OutputStays`, `ProofBelongs`, `NeverBack` | `OneLiveChild`, `OnFilesWorker`, `C2HasItsInput`, `ProofOfRow`, `NoRegress`, for `Undisturbed` instances |
| `WorkerSessionProofs!TypeCorrect`, `SessionCorrect`, `EmptySuccess`, `Contradiction`, `StillWhenOver`, `Silence` | `TypeOK`, `SessionInv`, and its four properties |
| `WorkerSlotsProofs!CountersExact`, `LimitKept` | `SlotsExact`, `AdmittedBelowLimit`, for `Regular` instances |
| `WorkerSlotsProofs!DriftIsBounded`, `OverloadIsBounded` | `DriftExplained`, `ParallelExplained`, for `FixedLimits` |
| `PoStSubmitProofs!SubmitTypeCorrect`, `CallsExclude`, `EntriesAreServed`, `OneWorkerMakesIt`, `DuplicatesAreExplained` | `TypeOK`, `CallersExclude`, `EntryIsServed`, `OneWorkerSuffices`, `DuplicatesExplained` |
| `WinPoStProofs!LoopTypeCorrect`, `ProvedOnce`, `LoopRecovers`, `NoncesWithoutGap`, `OnlyOverlapRefuses`, `OneProofLands` | `TypeOK`, `OncePerDeadline`, `InStepAfterPeriod`, `NoGap`, `RefusedByOverlap`, `SomePartitionLands` |
| `BlockMiningProofs!MinerTypeCorrect`, `OneBlock`, `PanicNeedsSkew`, `LoopStaysInStep` | `TypeOK`, `OneBlockPerRound`, `PanicOnlyBySkew`, and `StaysInStep` for `Wait >= 2` and `EpochLen <= Late + 2 * Wait` |

The type invariants are proved rather than checked (`PoStSubmit`'s is checked in
`post`, too; `WorkerSlots`'s is a conjunct of the invariants behind `CountersExact` and
`DriftIsBounded`).

**The task table.** `SealTaskSafety` is about instances in which the operator names the task a row is at (`"mismatch" \notin Ops`), with every
other fault and operator call. Neither `OutputsPresent` nor `ChainBacked` is inductive: the writes that
could break them are decided long before they happen, from rows read earlier, and
name only a sector. The idea of the invariant `LifecycleInv` is that *having reached a task* is
stable. A phase is behind a sector when its result is in the row, or a success of it came
without one (`mishaps`); a message when the chain has executed it, or a refusal said so.
Outputs other than C1's are overwritten but never blanked (an empty success that
overwrites one is in `mishaps` by then), executed messages and `mishaps` stay. So `Reached(s, t)`, once true, stays true, and it is enough that
everyone who may write a task later has seen the sector reach it: claims
(`ClaimsReached`), resets (`ResetsReached`), senders (`JobsReached`), reports with a
"next" rule (`MailReached`) and handlers (`HandlersReached`). A success moves a row
on only if the row is RUNING under its session, and then the row is at the task
that was claimed (`RunningOwned`), which needs sessions to be new when they are
claimed (`SessionsFresh`); a row claimed by state is RUNING for session "", which
reports nothing, so nothing moves it on. `PRECOMMIT` and `COMMIT` successes of a sender are true of the
chain (`MailReached`); a child of a worker that found the row at such a task
reports it under a worker's session, which by `RunningOwned` no such row carries.
This last point is why the hypothesis is needed: with mismatching claims a row at
COMMIT can be RUNING under a worker's session, whose child reports success for
COMMIT without a message.

`ChainBacked` says more of a refusal than that there was one: `RefusalsTrue` keeps with each what bears it
out, the message in the pool, executed or dropped, or the expiry. Past SEED the pre-commit
has been executed whatever was refused, because the seed comes from its height
(`SeedOfChain`, and what `MessagesReached` and `JobsReached` say of COMMIT and SEED).

The refinement needs one invariant more, `MessagesReached`, for the step in which the
chain executes a message. Then every action of `SealTask` is a `Finish`, a `Land` or a
`Place` of one sector, or changes neither stage nor results.

**Who works for a row.** `OnlyCurrentResults` assumes no more than `SealTaskSafety`
does: whatever is triggered, restarted, reset or repeated, a worker's result that enters a row was computed
from the columns the row holds. What makes it so is `ReadInv`. A child reads the row when it starts,
and `ReadsCurrent` says that as long as the row is RUNING under the child's session it
holds the columns read: a claim gives the row a session nobody had before
(`SessionsFresh`), a result enters only for the session in the row and ends the
RUNING, and the one write that names only a sector and takes a column away,
`UpdatePoStInfo` with `c1_out`, is the exception `ReadsCurrent` makes.

The other five hold for `Undisturbed` instances: every fault there is (errors,
timeouts, shutdowns, crashes of workers and miner, lost and repeated calls, processes that die), in any number, but none of the
operator's ways to touch a row by its sector number (`trigger`, `restart`, `send`, `bystate`,
`wreset`, `mreset`), and no success without a result (`empty`), after which the columns no
longer belong together. Each of those may break one of them, by design of the code: a
trigger, a restart or a send claims a row whatever its state, beside a process that runs for it; a reset writes back a state read earlier.
With `AloneInv` everything is said sector by sector (`SectorInv`): a sector is claimed, or
worked for, or neither, and by one session (`TurnOf`); a claim in flight has read the
row as it is (`ClaimsOf`); who works, works on the row's task and columns, on the worker
the row names (`JobsOf`); the columns of a row belong together, each computed
from the others that are there (`RowOf`, `Linked`). The part that takes strengthening is what comes late.
A report with a "next" rule, or of COMMIT, starts a goroutine that may do more
than stop the row. `MailOf` says that such a report (`Strong`) is of the
row's owner or finds the row *stuck*: neither INIT nor RUNING, with nobody at work
and nobody claiming, which only an operator ends; so the goroutines behind it (`HandlersOf`,
`PostingOf`) meet the task they were started for, or the one after it.

**Sessions.** `SessionInv` has an invariant for a child (how it ended says what it has
told, and its parent speaks only after a shutdown, a timeout or in want of a
pid), one for a goroutine (what it has assigned is what the report reads, unless
a shutdown came between; only C1 speaks before the report), and one for the phases of the loop.

**Limits.** `Regular` excludes forced restarts, mismatching claims, dropped errors and
changes to or from -1. `SlotsExact` becomes inductive with `SlotsOwned`: a session
under way has a slot, and of the task it will return, unless that has no limit.
Then the counter cannot be 0 when such a session makes the unlocked test
(`HeldIsCounted`), so the test never loses a slot; and a step changes the counter
by one exactly when it changes the set of holders by one session, which is
arithmetic on cardinalities (`TakesSlot`, `ReturnsSlot`).

With restarts, rows at other tasks and dropped errors (`FixedLimits`: the limits stay
those the daemon was started with, since one lowered below its counter is
exceeded at once) `SlotReasons` takes the place of `SlotsOwned`: a session without a slot is a
restart or its task has no limit, and a slot is taken back only of a task that has one. So a
session that takes a counter down either was one of those it counts, or becomes one
of `Strays` in the same step (`DriftTakeBack`), and `DriftExplained` is inductive. What
computes in its loop and has not been forced holds a slot (`ParallelHold`); what
computes outside a loop is a child that came up late or a goroutine after a shutdown
(`Watched`), and is counted as such (`Adrift`).

**PoSt by workers.** No hypothesis: any set-ups of disks, rows and faults. The mutex:
until a call has waited across a reset, who is inside holds the mutex its `Unlock`
will free (`MutexInv`). The map: `EntryIsServed` is inductive by itself. The merge:
every worker reports all rows it was given, those of the set-up or, after
`ReFindPoStTable`, all (`JobRows`, `ChanRows`), so that what a goroutine has
without a fault and without a whole partition from one worker comes of an incomplete
table (`MergeInv`), and cannot be complete. The submissions: a goroutine works for
the deadline of the call that started it (`BornInv`), and the submissions of a
partition, the calls that may still start one and the goroutines that may still submit
are together no more than the workers that have noted the deadline and what has made one
prove it again while it was open (`FlowInv`), a count that each step leaves alone or moves from one summand to another.

**The loop and the nonces.** While neither end of a period is missed the noted index
is *behind* the open one, by its number or across the end of the period
(`OnceInv`). Out of step, the loop has seen no more polled deadlines in a row than the period has
had, so that the noted index is met before a period of them is over (`StepInv`). For
the nonces: the pool holds one message for each nonce from the chain's up to its
own (`PoolInv`), and a message that no other has met has the pool's nonce until it
arrives and that nonce to itself afterwards (`ClashInv`). A message is refused for one
in the pool or for one that was executed: every refused one has a rival with its nonce in the
pool or landed, and below the chain's nonce, counted from one, there is a landed message of each
(`LandInv`). When the deadline's messages are through nothing is in the pool, so the rival has landed.

**Heads and blocks.** What is collected is above the height handed over last, so that
every batch of a process is of a height of its own (`RoundInv`); and what is queued or collected has
come, so that a non-positive interval leads back to a block ahead of the clock (`SkewInv`).

`LoopStaysInStep` is about seconds and the order of several timers. It holds for any
epochs, blocks and delays, given two relations of the constants that the code's satisfy:
a wait is at least two seconds (8), and no block in time is late by the measure of
`took` (30 <= 16 + 2 * 8). Before a restart, and while all blocks are in time (`Calm`), the
blocks of an epoch are within a wait of one another and more than two waits from those
of any other (`Spaced`), and each is read in the second in which it comes (`ReadInv`). A batch
goes through phases of the two timers (`BatchInv`): it fills (`Filling`) until a wait after its
last block, is closed (`Closing`) by the read a wait later, and then has all blocks
of its epoch (`FlushMove`); or a tick was left over (`Leftover`), and ends it with one
block. What a flush at the right time says about the next tick (`TickInv`) is what
keeps one from being left over, if the next blocks come before it (`BeforeTick`).
Once an epoch is past, no block of it comes (`ShutStays`), so that what its head has
stays all there is (`StepInv`).

**Only model-checked:** liveness (`EverySectorProves`, `TriggeredTaskRuns`,
`HungChildIsKilled`, `ShutdownReturns`, `FullIsTemporary`, `ServedFromCleanStart`,
`NonceMoves`, `ReaderResumes`) stays with TLC: the proof system does not reason about
fairness and ENABLED.

## 5. Findings

`mismatch`: `src/README.md:193` ("ns-worker tasktrig actorID 扇区编号 任务类型") and
`src/README-API.md:111-112` (`RetryTaskPID`) name the task to run. The claim
behind them (`src/miner/query.go:85`) selects by actor and sector alone, and the
child runs whatever task the row is at (`src/cmd/worker/main.go:305-318`); a type
it does not know ends as a success.

What else modelling turned up; the properties above state the code's behaviour with it.

* *Task table.* A success without bytes is accepted (`miner/miner.go:340`) and moves the row on; the
  next phase fails on the blank column, again and again. "no pre-committed sector" moves a row to
  PROVING (`miner/faileddef.go:75-81`), after an expiry without a proof on chain; "already been
  allocated" moves one to SEED (`:43-49`) on a pre-commit that may still be dropped.
  `RetryTaskPIDByState` claims sector 0 for nobody (`worker/worker.go:429`). `SendCommit` panics
  on success (`miner/sendmsg.go:174`).
* *Limits.* `src/README.md:181` says `--pc1lmt` limits the number of parallel PC1 tasks. A
  restart with `RetryTaskPID` (`src/worker/worker.go:360`) takes no slot and returns one
  (`src/worker/util.go:68`), after which one ordinary session too many is let in; an
  in-process session that is shut down returns its slot while its goroutine computes on.
  An error that `RetryTaskPIDByState` drops (`worker/worker.go:385`) keeps its slot.
* *Sessions.* `ShutdownReq` (`src/README-API.md:123`, "worker停止任务") ends a child, but not
  an in-process computation. A call that finds the channel full as the session leaves its loop for
  another reason waits for ever, and so does a third call. It looks the session up twice
  (`worker/util.go:73-74`): if the entry is deleted in between, it sends to a nil channel, and waits for ever. `FialedMap`
  (`worker/worker.go:289`) is never made: the first report that six tries do not deliver
  ends the daemon. An in-process PC1 without a miner panics at `GetTicket`. A child that comes up after
  the 30 seconds of its parent runs without time limit, channel or slot. C1 deletes
  layer and tree files once its report, an error too, was answered (`worker/c12.go:122`
  before the report when in-process).
* *PoSt by workers.* `ns-worker addPost` swaps the key and its type
  (`src/cmd/worker/main.go:541`; `:596` and `src/README-API.md:144` have them in
  order), so that only retries submit. A goroutine that times out, is aborted or got
  no proof leaves its entry, and every later transfer of the partition goes to a channel
  nobody reads until `ResetSyncPoStMap` (`src/README-API.md:54`). `AbortPoSt`
  (`src/README-API.md:57`) reaches only the partition that was entered last. Workers with
  half the sectors each never complete a partition, since each reports the other's as faulty.
  A transfer between the last one taken and the clearing of the entry is lost.
* *PoSt by the miner.* A loop that misses the last or the first deadline of a period
  starts the proofs of a deadline at every poll, and skips the deadline whose index it had noted. Partitions
  of a deadline take one another's nonces. A failed poll is repeated without a pause.
* *Notification.* A tick left in the channel by `Reset` hands the first block of an epoch over
  alone; a block 16 seconds late makes a mixed batch, which is dropped; a block from
  the future makes the unsigned age huge and stops the reading until the tick, and one a whole wait
  ahead ends the process. After a restart a second block for a round is possible.
* *Messages.* `WithDrawByPrivatKey` sends to the address itself.

## 6. Not modelled

* *Chain access* (`chain/api.go`, `chain/daemon.go`), the *sector file service*, *command
  lines*, *types and RPC stubs*: no state beyond a connection, pure I/O, argument parsing,
  type aliases. That a call may fail is part of every component; what the commands do to a daemon (`addPost`,
  `retryPost`, `replaceMsg`, `taskrun`) is in the actions of the components.
* In the *task table* (status partly): `QueryRetry` and `RetryTask` of the miner, which no
  code of the repository calls; `ClearProving`, which deletes the files of proving
  sectors and marks their rows RUNING, a state no later result reads; `UpdateTaskLog`,
  `GetTicket` and `WorkerLogin`, which write columns no decision depends on.
* Among the *senders* (status partly): withdrawal, transfer and `CreateMiner` touch no
  sector; as users of nonces they are the `Calls` of `MsgNonce`. Fees, gas and what a node does with
  them are external.
* Chains that revert blocks with a sector's messages, and second rows of a sector (`AddTask`): assumptions, section 2.
* Files on the workers' disks, and so `delCache`: a phase that finds none fails, which is
  an error like any other in `SealTask`.
* Proof generation, hashing, elections, and what goes into a block: library calls with a
  result or an error. Null rounds are not mined by the code, and not modelled.
* Work takes no time against the seconds of `ChainNotify` and the deadlines of `WinPoSt`
  (`Second`, `Settled`); what comes in while a process is down is lost.

## 7. What is left

Every component with state is modelled, and every safety invariant a run checks is
proved. What could follow: how far the five `Undisturbed` theorems hold beside single operator's calls, e.g. a trigger that finds the row INIT; `DriftExplained`
with limits that change, where a counter may exceed its limit until sessions end.
