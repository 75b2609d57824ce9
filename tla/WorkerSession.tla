---------------------------- MODULE WorkerSession ----------------------------
(***************************************************************************)
(* One session of a worker daemon after its claim: the process or goroutine *)
(* that computes, handleProccess that watches it, the heartbeat that makes *)
(* handleProccess look at the time, the calls of ShutdownReq, and what is  *)
(* reported to the miner.                                                  *)
(*                                                                         *)
(* A child (polls, tasktrig, RetryTaskPID) reports for itself, and handle- *)
(* Proccess reports only when it gives up.  In the process of the daemon   *)
(* (SealX, RetryTask) a goroutine computes into variables it shares with   *)
(* the one that reports: nothing orders their accesses once the session is *)
(* shut down.                                                              *)
(***************************************************************************)
EXTENDS Naturals

CONSTANTS
  MaxCalls    \* bound: calls of ShutdownReq

ASSUME SessionAssumption == MaxCalls \in Nat

Hows == {"process", "restart", "inproc"}
Tasks == {"PC1", "PC2", "C1", "C2"}

VARIABLES
  how, task,  \* how it was started, and the task
  daemon,     \* "up", or "dead" by a panic
  loop,       \* ChildProcess waits for the "pid"; handleProccess is in its loop
              \* ("watch"), has "left" it, has cleaned up ("gone"), is "over"
  left,       \* why: "end", "timeout", "cancel", or "nopid"
  listed,     \* TaskCloseChnl has the session
  late,       \* TaskTimeOut has elapsed
  beat,       \* the heartbeat: "none", "on", "off"
  tick,       \* the channel timebeat holds something
  close,      \* the channel closeBeat holds something
  stop,       \* the channel stopchnl holds something
  looking,    \* calls of ShutdownReq that have found the session in TaskCloseChnl
              \* and have still to look up its channel there
  waiting,    \* calls that wait for room in the channel
  nowhere,    \* calls that send to a nil channel, and wait for ever
  calls,      \* calls so far
  work,       \* the process or goroutine that computes
  fate,       \* what comes of its computation
  out, err,   \* the variables of sealX: there is a result; the error
  stores,     \* the goroutine has still to assign these
  readOut,    \* what DeferMinerRecieve has been given of the result,
  readErr,    \* and of the error
  said,       \* the reports the miner has received; "empty": success without a result
  lost        \* a report was not delivered

workVars == <<work, fate, out, err, stores>>
loopVars == <<daemon, loop, left, listed, late, tick, close>>
callVars == <<stop, looking, waiting, nowhere, calls>>
readVars == <<readOut, readErr>>
reportVars == <<said, lost>>
vars == <<how, task, daemon, loop, left, listed, late, beat, tick, close, stop, looking,
          waiting, nowhere, calls, work, fate, out, err, stores, readOut, readErr, said, lost>>

InDaemon == how = "inproc"
Computing == work \in {"params", "compute", "store", "hung"}

TypeOK ==
  /\ how \in Hows /\ task \in Tasks
  /\ daemon \in {"up", "dead"}
  /\ loop \in {"pid", "watch", "left", "gone", "over"}
  /\ left \in {"no", "end", "timeout", "cancel", "nopid"}
  /\ listed \in BOOLEAN /\ late \in BOOLEAN
  /\ beat \in {"none", "on", "off"}
  /\ tick \in BOOLEAN /\ close \in BOOLEAN /\ stop \in BOOLEAN
  /\ looking \in 0..MaxCalls /\ waiting \in 0..MaxCalls /\ nowhere \in 0..MaxCalls
  /\ calls \in 0..MaxCalls /\ looking + waiting + nowhere <= calls
  /\ work \in {"starting", "unborn", "params", "compute", "hung", "store", "told", "ended"}
  /\ fate \in {"none", "good", "bad", "panic"}
  /\ out \in BOOLEAN /\ err \in {"nil", "bad", "timeout", "shutdown"}
  /\ stores \subseteq {"out", "err"}
  /\ readOut \in {"no", "none", "result"}
  /\ readErr \in {"no", "nil", "bad", "timeout", "shutdown"}
  /\ said \subseteq {"ok", "empty", "error"} /\ lost \in BOOLEAN

Init ==
  /\ how \in Hows /\ task \in Tasks
  /\ daemon = "up" /\ left = "no" /\ late = FALSE
  /\ loop = IF InDaemon THEN "watch" ELSE "pid"
  /\ listed = InDaemon
  /\ beat = IF InDaemon THEN "on" ELSE "none"
  /\ tick = FALSE /\ close = FALSE
  /\ stop = FALSE /\ looking = 0 /\ waiting = 0 /\ nowhere = 0 /\ calls = 0
  /\ work = IF ~InDaemon THEN "starting"
            ELSE IF task \in {"PC1", "C1"} THEN "params" ELSE "compute"
  /\ fate = "none" /\ out = FALSE /\ err = "nil" /\ stores = {}
  /\ readOut = "no" /\ readErr = "no"
  /\ said = {} /\ lost = FALSE

-------------------------------------------------------------------------------
(* Reports.                                                                *)

Delivered(r) == said' = said \cup {r} /\ UNCHANGED <<daemon, lost>>
\* MinerApi is nil, or gone: deferMinerRecieve recovers, and reports no error.
Swallowed == lost' = TRUE /\ UNCHANGED <<daemon, said>>
\* The daemon enters what six tries have not delivered in FialedMap, which nobody has
\* made: the assignment panics, and ends the daemon with all of its sessions.
Undelivered == lost' = TRUE /\ daemon' = "dead" /\ UNCHANGED said
DaemonReports(r) == Delivered(r) \/ Swallowed \/ Undelivered

-------------------------------------------------------------------------------
(* A child process.                                                        *)

\* cmd.Start runs in a goroutine; its error is not looked at.
Start ==
  /\ work = "starting"
  /\ work' \in {"compute", "unborn"}
  /\ UNCHANGED <<how, task, loopVars, beat, callVars, readVars, reportVars, fate, out, err,
                 stores>>
\* TaskRun's deferred function: a panic whose value is no error leaves err nil.  A report
\* that is not delivered is forgotten.
TaskRun ==
  /\ ~InDaemon /\ work = "compute"
  /\ fate' \in {"good", "bad", "panic"}
  /\ work' = "told"
  /\ \/ Delivered(IF fate' = "good" THEN "ok" ELSE IF fate' = "bad" THEN "error" ELSE "empty")
     \/ Swallowed
  /\ UNCHANGED <<how, task, loop, left, listed, late, beat, tick, close, callVars, readVars,
                 out, err, stores>>
\* It is killed from outside or fails before TaskRun, or computes for ever.
Dies ==
  /\ ~InDaemon /\ work = "compute"
  /\ work' \in {"ended", "hung"}
  /\ UNCHANGED <<how, task, loopVars, beat, callVars, readVars, reportVars, fate, out, err,
                 stores>>
Exits ==
  /\ work = "told"
  /\ work' = "ended"
  /\ UNCHANGED <<how, task, loopVars, beat, callVars, readVars, reportVars, fate, out, err,
                 stores>>

-------------------------------------------------------------------------------
(* The goroutine of sealX.                                                 *)

Alive == InDaemon /\ daemon = "up"
\* C1 sets the common err at each parameter, PC1 has one of its own.  Without a MinerApi
\* the call of GetTicket panics.
Params ==
  /\ Alive /\ work = "params"
  /\ \/ /\ work' \in {"params", "compute"} /\ err' = IF task = "C1" THEN "nil" ELSE err
        /\ UNCHANGED <<daemon, fate>>
     \/ /\ work' = "ended" /\ fate' = "bad" /\ err' = IF task = "C1" THEN "bad" ELSE err
        /\ UNCHANGED daemon
     \/ /\ task = "PC1" /\ daemon' = "dead"
        /\ UNCHANGED <<work, err, fate>>
  /\ UNCHANGED <<how, task, loop, left, listed, late, beat, tick, close, callVars, readVars,
                 reportVars, out, stores>>
\* Mutant of Shared: PC2 has an error of its own, too.
Shared_notPC2 == IF task \in {"PC1", "PC2"} THEN {"out"} ELSE {"out", "err"}
\* What the assignment of the result and the error goes to.
Shared == IF task = "PC1" THEN {"out"} ELSE {"out", "err"}
Compute ==
  /\ Alive /\ work = "compute"
  /\ fate' \in {"good", "bad"} /\ work' = "store" /\ stores' = Shared
  /\ UNCHANGED <<how, task, loopVars, beat, callVars, readVars, reportVars, out, err>>
\* One of the two variables is assigned: without synchronisation, in any order.
Store(v) ==
  /\ Alive /\ work = "store" /\ v \in stores
  /\ stores' = stores \ {v}
  /\ out' = IF v = "out" THEN fate = "good" ELSE out
  /\ err' = IF v = "err" THEN (IF fate = "good" THEN "nil" ELSE "bad") ELSE err
  /\ UNCHANGED <<how, task, loopVars, beat, callVars, readVars, reportVars, work, fate>>
\* C1 reports its failure at once, in one try; without a MinerApi it panics.
Finish ==
  /\ Alive /\ work = "store" /\ stores = {}
  /\ work' = "ended"
  /\ IF task = "C1" /\ fate = "bad"
     THEN DaemonReports("error")
     ELSE UNCHANGED <<daemon, said, lost>>
  /\ UNCHANGED <<how, task, loop, left, listed, late, beat, tick, close, callVars, readVars,
                 fate, out, err, stores>>

-------------------------------------------------------------------------------
(* ChildProcess and handleProccess.                                        *)

Up == daemon = "up"
HasPid == work \notin {"starting", "unborn"}
Watches ==
  /\ Up /\ loop = "pid" /\ HasPid
  /\ loop' = "watch" /\ listed' = TRUE /\ beat' = "on"
  /\ UNCHANGED <<how, task, daemon, left, late, tick, close, callVars, workVars, readVars,
                 reportVars>>
\* 30 seconds without a pid.  ProcessX reports it, RetryTaskPID drops it.  Nothing keeps
\* the process from coming up later.
NoPid ==
  /\ Up /\ loop = "pid" /\ ~HasPid
  /\ loop' = "over" /\ left' = "nopid"
  /\ IF how = "process" THEN DaemonReports("error") ELSE UNCHANGED <<daemon, said, lost>>
  /\ UNCHANGED <<how, task, listed, late, beat, tick, close, callVars, workVars, readVars>>

Elapse ==
  /\ Up /\ loop = "watch" /\ ~late
  /\ late' = TRUE
  /\ UNCHANGED <<how, task, daemon, loop, left, listed, beat, tick, close, callVars,
                 workVars, readVars, reportVars>>

Killed == work' = IF InDaemon THEN work ELSE "ended"
Leaves(why) == loop' = "left" /\ left' = why
\* Mutant of Beat: the process is not killed.
Beat_spares ==
  /\ Up /\ loop = "watch" /\ tick
  /\ tick' = FALSE
  /\ IF late /\ ~InDaemon
     THEN Leaves("timeout") /\ err' = "timeout"
     ELSE UNCHANGED <<loop, left, err>>
  /\ UNCHANGED <<how, task, daemon, listed, late, beat, close, callVars, work, fate, out,
                 stores, readVars, reportVars>>
\* At a heartbeat a child that has had its time is killed; sealX has no time limit.
Beat ==
  /\ Up /\ loop = "watch" /\ tick
  /\ tick' = FALSE
  /\ IF late /\ ~InDaemon
     THEN Leaves("timeout") /\ err' = "timeout" /\ Killed
     ELSE UNCHANGED <<loop, left, err, work>>
  /\ UNCHANGED <<how, task, daemon, listed, late, beat, close, callVars, fate, out, stores,
                 readVars, reportVars>>
\* The channel process: the child has been waited for, or the goroutine has returned.
Ends ==
  /\ Up /\ loop = "watch" /\ work = "ended"
  /\ Leaves("end")
  /\ UNCHANGED <<how, task, daemon, listed, late, beat, tick, close, callVars, workVars,
                 readVars, reportVars>>
\* Mutant of Cancelled: only a child is shut down.
Cancelled_child ==
  /\ Up /\ loop = "watch" /\ stop /\ ~InDaemon
  /\ stop' = FALSE /\ err' = "shutdown" /\ Killed /\ Leaves("cancel")
  /\ UNCHANGED <<how, task, daemon, listed, late, beat, tick, close, looking, waiting, nowhere,
                 calls, fate, out, stores, readVars, reportVars>>
\* The goroutine of sealX computes on.
Cancelled ==
  /\ Up /\ loop = "watch" /\ stop
  /\ stop' = FALSE /\ err' = "shutdown" /\ Killed /\ Leaves("cancel")
  /\ UNCHANGED <<how, task, daemon, listed, late, beat, tick, close, looking, waiting, nowhere,
                 calls, fate, out, stores, readVars, reportVars>>
\* (DecrementTask, which follows, is in WorkerSlots.)
CleansUp ==
  /\ Up /\ loop = "left"
  /\ loop' = "gone" /\ close' = TRUE /\ listed' = FALSE
  /\ UNCHANGED <<how, task, daemon, left, late, beat, tick, callVars, workVars, readVars,
                 reportVars>>

\* Mutants of ChildReport: it reports a shutdown only; it reports every end.
ChildReport_cancel ==
  /\ Up /\ loop = "gone" /\ ~InDaemon
  /\ loop' = "over"
  /\ IF left = "cancel" THEN DaemonReports("error") ELSE UNCHANGED <<daemon, said, lost>>
  /\ UNCHANGED <<how, task, left, listed, late, beat, tick, close, callVars, workVars,
                 readVars>>
ChildReport_always ==
  /\ Up /\ loop = "gone" /\ ~InDaemon
  /\ loop' = "over"
  /\ DaemonReports("error")
  /\ UNCHANGED <<how, task, left, listed, late, beat, tick, close, callVars, workVars,
                 readVars>>
ChildReport ==
  /\ Up /\ loop = "gone" /\ ~InDaemon
  /\ loop' = "over"
  /\ IF err # "nil" THEN DaemonReports("error") ELSE UNCHANGED <<daemon, said, lost>>
  /\ UNCHANGED <<how, task, left, listed, late, beat, tick, close, callVars, workVars,
                 readVars>>
\* The arguments of DeferMinerRecieve are read, in any order.
ReadOut ==
  /\ Up /\ loop = "gone" /\ InDaemon /\ readOut = "no"
  /\ readOut' = IF out THEN "result" ELSE "none"
  /\ UNCHANGED <<readErr, how, task, loopVars, beat, callVars, workVars, reportVars>>
ReadErr ==
  /\ Up /\ loop = "gone" /\ InDaemon /\ readErr = "no"
  /\ readErr' = err
  /\ UNCHANGED <<readOut, how, task, loopVars, beat, callVars, workVars, reportVars>>
InDaemonReport ==
  /\ Up /\ loop = "gone" /\ InDaemon /\ readOut # "no" /\ readErr # "no"
  /\ loop' = "over"
  /\ DaemonReports(IF readErr # "nil" THEN "error" 
                   ELSE IF readOut = "result" THEN "ok" ELSE "empty")
  /\ UNCHANGED <<how, task, left, listed, late, beat, tick, close, callVars, workVars,
                 readVars>>

-------------------------------------------------------------------------------
(* taskHeartBeat and ShutdownReq.                                          *)

Ticks ==
  /\ Up /\ beat = "on" /\ ~tick
  /\ tick' = TRUE
  /\ UNCHANGED <<how, task, daemon, loop, left, listed, late, beat, close, callVars,
                 workVars, readVars, reportVars>>
BeatStops ==
  /\ Up /\ beat = "on" /\ close
  /\ beat' = "off" /\ close' = FALSE
  /\ UNCHANGED <<how, task, daemon, loop, left, listed, late, tick, callVars, workVars,
                 readVars, reportVars>>

\* A call for a session that is not listed returns an error.
ShutdownReq ==
  /\ Up /\ listed /\ calls < MaxCalls
  /\ calls' = calls + 1 /\ looking' = looking + 1
  /\ UNCHANGED <<how, task, loopVars, beat, stop, waiting, nowhere, workVars, readVars,
                 reportVars>>
\* The channel is looked up again, without a lock: a session that has been deleted since
\* gives nil.
SendsStop ==
  /\ Up /\ looking > 0
  /\ looking' = looking - 1
  /\ \/ ~listed /\ nowhere' = nowhere + 1 /\ UNCHANGED <<stop, waiting>>
     \/ listed /\ stop /\ waiting' = waiting + 1 /\ UNCHANGED <<stop, nowhere>>
     \/ listed /\ ~stop /\ stop' = TRUE /\ UNCHANGED <<waiting, nowhere>>
  /\ UNCHANGED <<how, task, loopVars, beat, calls, workVars, readVars, reportVars>>
Sent ==
  /\ Up /\ waiting > 0 /\ ~stop
  /\ stop' = TRUE /\ waiting' = waiting - 1
  /\ UNCHANGED <<how, task, loopVars, beat, looking, nowhere, calls, workVars, readVars,
                 reportVars>>

-------------------------------------------------------------------------------
Child == Start \/ TaskRun \/ Dies \/ Exits
Goroutine == Params \/ Compute \/ (\E v \in stores : Store(v)) \/ Finish
Watcher == Watches \/ NoPid \/ CleansUp \/ ChildReport \/ ReadOut \/ ReadErr \/ InDaemonReport
Next ==
  \/ Child \/ Goroutine \/ Watcher
  \/ Elapse \/ Beat \/ Ends \/ Cancelled
  \/ Ticks \/ BeatStops
  \/ ShutdownReq \/ SendsStop \/ Sent

Spec == Init /\ [][Next]_vars
\* Time passes, and goroutines run; of the channels that are ready select takes each one
\* in the end.  What computes may go on for ever, and nobody has to call.
FairSpec ==
  /\ Spec
  /\ WF_vars(Watcher) /\ WF_vars(Elapse) /\ WF_vars(Beat) /\ WF_vars(Ends)
  /\ WF_vars(Cancelled) /\ WF_vars(Ticks) /\ WF_vars(BeatStops)
  /\ WF_vars(SendsStop) /\ WF_vars(Sent)

-------------------------------------------------------------------------------
\* A success without a result is reported only of a panic without an error, of an
\* in-process PC1 that failed (its error is declared in an inner block), and of an
\* in-process session that was shut down while it computed (a race).
EmptySuccessExplained ==
  "empty" \in said =>
    \/ fate = "panic"
    \/ InDaemon /\ (left = "cancel" \/ (task = "PC1" /\ fate = "bad"))

\* The miner hears of a success and of a failure of one session only when the parent of
\* a child has given up, or an in-process session was shut down.
OneVoice ==
  "error" \in said /\ said # {"error"} => left \in {"timeout", "cancel", "nopid"}

\* What is over does not compute on, but for a process that came up after the wait for
\* its pid, and for an in-process session that was shut down.
OverIsStill ==
  loop = "over" /\ Computing => left = "nopid" \/ (InDaemon /\ left = "cancel")

\* A session is over without a word only if a report was not delivered, if the child
\* ended without one, or if RetryTaskPID got no pid.
SilenceExplained ==
  loop = "over" /\ said = {} =>
    \/ lost
    \/ ~InDaemon /\ left = "end" /\ fate = "none"
    \/ how = "restart" /\ left = "nopid"

\* What makes these four inductive.  Of a child: how it ended says what it has told, and
\* its parent speaks only after a shutdown, a timeout or in want of a pid.
ChildInv ==
  /\ work \in {"starting", "unborn", "compute", "hung", "told", "ended"}
  /\ left \in {"end", "timeout", "cancel"} => work = "ended"
  /\ err # "nil" <=> left \in {"timeout", "cancel"}
  /\ "ok" \in said => fate = "good"
  /\ "empty" \in said => fate = "panic"
  /\ "error" \in said => fate = "bad" \/ left \in {"timeout", "cancel", "nopid"}
  /\ work \in {"starting", "unborn", "compute", "hung"} => fate = "none"
  /\ work = "told" => fate # "none"
  /\ fate # "none" => said # {} \/ lost

\* Of a goroutine: what it has assigned is what the report reads, unless a shutdown came
\* between, and only C1 speaks before the report.
GoroutineInv ==
  /\ work \notin {"starting", "unborn", "hung", "told"}
  /\ left \in {"no", "end", "cancel"} /\ loop # "pid" /\ fate # "panic"
  /\ left = "end" => work = "ended"
  /\ work = "store" => fate \in {"good", "bad"} /\ stores \subseteq Shared
  /\ work # "store" => stores = {}
  /\ work = "ended" => fate \in {"good", "bad"}
  /\ work = "params" => task \in {"PC1", "C1"}
  /\ work \in {"params", "compute"} => fate = "none"
  /\ "out" \notin stores /\ work \in {"store", "ended"} /\ fate = "good" => out
  /\ "err" \notin stores /\ work \in {"store", "ended"} /\ fate = "bad" /\ task # "PC1"
       /\ left # "cancel" => err = "bad"
  /\ loop \in {"watch", "left"} => readOut = "no" /\ readErr = "no"
  /\ left = "end" /\ readOut # "no" => readOut = IF out THEN "result" ELSE "none"
  /\ left = "end" /\ readErr # "no" => readErr = err
  /\ err # "nil" => left = "cancel" \/ fate = "bad"
  /\ loop # "over" /\ said # {} => said = {"error"} /\ task = "C1"
  /\ "error" \in said => left = "cancel" \/ fate = "bad"
  /\ loop = "over" => said # {} \/ lost

PhaseInv ==
  /\ loop \in {"pid", "watch"} <=> left = "no"
  /\ left = "nopid" => loop = "over" /\ ~InDaemon

SessionInv ==
  /\ PhaseInv
  /\ InDaemon => GoroutineInv
  /\ ~InDaemon => ChildInv
  /\ EmptySuccessExplained /\ OneVoice /\ OverIsStill /\ SilenceExplained

\* A child that never comes to an end is killed, as long as the daemon lives.
HungChildIsKilled ==
  (loop = "watch" /\ work = "hung") ~> (work # "hung" \/ daemon = "dead")

\* A call of ShutdownReq returns, unless the session left its loop without it: it came to
\* its end or timed out, or another call had shut it down and its entry was deleted between
\* this one's two looks at TaskCloseChnl.  A call that is alone is not caught by the last.
\* (Of two calls, that is: a third one may wait for room for ever.)
ShutdownReturns ==
  (looking + waiting > 0) ~>
    \/ looking + waiting + nowhere = 0
    \/ left \in {"end", "timeout"} \/ daemon = "dead"
    \/ nowhere > 0 /\ left = "cancel" /\ calls > 1
===============================================================================
