------------------------- MODULE WorkerSessionProofs -------------------------
(***************************************************************************)
(* Whatever the order in which the goroutines of a session run, and however *)
(* many shutdowns are asked for: its type invariant, and what the miner is *)
(* told of it.  The invariant behind is that of WorkerSession: for a child, *)
(* that its own report and its end go together; for a goroutine, that what *)
(* it has assigned is what is read, but for a shutdown in between.         *)
(***************************************************************************)
EXTENDS WorkerSession, TLAPS

USE DEF InDaemon, Computing, loopVars, callVars, workVars, readVars, reportVars

-------------------------------------------------------------------------------
(* The type invariant, in parts.                                           *)

Enums ==
  /\ how \in Hows /\ task \in Tasks
  /\ daemon \in {"up", "dead"}
  /\ loop \in {"pid", "watch", "left", "gone", "over"}
  /\ left \in {"no", "end", "timeout", "cancel", "nopid"}
  /\ beat \in {"none", "on", "off"}
  /\ work \in {"starting", "unborn", "params", "compute", "hung", "store", "told", "ended"}
  /\ fate \in {"none", "good", "bad", "panic"}
  /\ err \in {"nil", "bad", "timeout", "shutdown"}
  /\ readOut \in {"no", "none", "result"}
  /\ readErr \in {"no", "nil", "bad", "timeout", "shutdown"}
Sets == stores \subseteq {"out", "err"} /\ said \subseteq {"ok", "empty", "error"}
LoopFlags ==
  /\ listed \in BOOLEAN /\ late \in BOOLEAN
  /\ tick \in BOOLEAN /\ close \in BOOLEAN
WorkFlags == stop \in BOOLEAN /\ out \in BOOLEAN /\ lost \in BOOLEAN
Counts ==
  /\ looking \in 0..MaxCalls /\ waiting \in 0..MaxCalls /\ nowhere \in 0..MaxCalls
  /\ calls \in 0..MaxCalls /\ looking + waiting + nowhere <= calls

LEMMA TypeInParts == TypeOK <=> Enums /\ Sets /\ LoopFlags /\ WorkFlags /\ Counts
BY DEF TypeOK, Enums, Sets, LoopFlags, WorkFlags, Counts

LEMMA TypeInPartsNext == TypeOK' <=> Enums' /\ Sets' /\ LoopFlags' /\ WorkFlags' /\ Counts'
BY DEF TypeOK, Enums, Sets, LoopFlags, WorkFlags, Counts

LEMMA Type_Start ==
  ASSUME TypeOK, SessionInv, Start
  PROVE  TypeOK'
<1>0. Enums /\ Sets /\ LoopFlags /\ WorkFlags /\ Counts
  BY TypeInParts
<1>1. Enums'
  BY <1>0 DEF Enums, Hows, Tasks, Start
<1>2. Sets'
  BY <1>0 DEF Sets, Start
<1>3. LoopFlags'
  BY <1>0 DEF LoopFlags, Start
<1>4. WorkFlags'
  BY <1>0 DEF WorkFlags, Start
<1>5. Counts'
  BY <1>0, SessionAssumption DEF Counts, Start
<1>6. QED
  BY <1>1, <1>2, <1>3, <1>4, <1>5, TypeInPartsNext

LEMMA Type_TaskRun ==
  ASSUME TypeOK, SessionInv, TaskRun
  PROVE  TypeOK'
<1>0. Enums /\ Sets /\ LoopFlags /\ WorkFlags /\ Counts
  BY TypeInParts
<1>1. Enums'
  BY <1>0 DEF Enums, Hows, Tasks, TaskRun, Delivered, Swallowed
<1>2. Sets'
  BY <1>0 DEF Sets, TaskRun, Delivered, Swallowed
<1>3. LoopFlags'
  BY <1>0 DEF LoopFlags, TaskRun, Delivered, Swallowed
<1>4. WorkFlags'
  BY <1>0 DEF WorkFlags, TaskRun, Delivered, Swallowed
<1>5. Counts'
  BY <1>0, SessionAssumption DEF Counts, TaskRun, Delivered, Swallowed
<1>6. QED
  BY <1>1, <1>2, <1>3, <1>4, <1>5, TypeInPartsNext

LEMMA Type_Dies ==
  ASSUME TypeOK, SessionInv, Dies
  PROVE  TypeOK'
<1>0. Enums /\ Sets /\ LoopFlags /\ WorkFlags /\ Counts
  BY TypeInParts
<1>1. Enums'
  BY <1>0 DEF Enums, Hows, Tasks, Dies
<1>2. Sets'
  BY <1>0 DEF Sets, Dies
<1>3. LoopFlags'
  BY <1>0 DEF LoopFlags, Dies
<1>4. WorkFlags'
  BY <1>0 DEF WorkFlags, Dies
<1>5. Counts'
  BY <1>0, SessionAssumption DEF Counts, Dies
<1>6. QED
  BY <1>1, <1>2, <1>3, <1>4, <1>5, TypeInPartsNext

LEMMA Type_Exits ==
  ASSUME TypeOK, SessionInv, Exits
  PROVE  TypeOK'
<1>0. Enums /\ Sets /\ LoopFlags /\ WorkFlags /\ Counts
  BY TypeInParts
<1>1. Enums'
  BY <1>0 DEF Enums, Hows, Tasks, Exits
<1>2. Sets'
  BY <1>0 DEF Sets, Exits
<1>3. LoopFlags'
  BY <1>0 DEF LoopFlags, Exits
<1>4. WorkFlags'
  BY <1>0 DEF WorkFlags, Exits
<1>5. Counts'
  BY <1>0, SessionAssumption DEF Counts, Exits
<1>6. QED
  BY <1>1, <1>2, <1>3, <1>4, <1>5, TypeInPartsNext

LEMMA Type_Params ==
  ASSUME TypeOK, SessionInv, Params
  PROVE  TypeOK'
<1>0. Enums /\ Sets /\ LoopFlags /\ WorkFlags /\ Counts
  BY TypeInParts
<1>1. Enums'
  BY <1>0 DEF Enums, Hows, Tasks, Params, Alive
<1>2. Sets'
  BY <1>0 DEF Sets, Params, Alive
<1>3. LoopFlags'
  BY <1>0 DEF LoopFlags, Params, Alive
<1>4. WorkFlags'
  BY <1>0 DEF WorkFlags, Params, Alive
<1>5. Counts'
  BY <1>0, SessionAssumption DEF Counts, Params, Alive
<1>6. QED
  BY <1>1, <1>2, <1>3, <1>4, <1>5, TypeInPartsNext

LEMMA Type_Compute ==
  ASSUME TypeOK, SessionInv, Compute
  PROVE  TypeOK'
<1>0. Enums /\ Sets /\ LoopFlags /\ WorkFlags /\ Counts
  BY TypeInParts
<1>1. Enums'
  BY <1>0 DEF Enums, Hows, Tasks, Compute, Alive, Shared
<1>2. Sets'
  BY <1>0 DEF Sets, Compute, Alive, Shared
<1>3. LoopFlags'
  BY <1>0 DEF LoopFlags, Compute, Alive, Shared
<1>4. WorkFlags'
  BY <1>0 DEF WorkFlags, Compute, Alive, Shared
<1>5. Counts'
  BY <1>0, SessionAssumption DEF Counts, Compute, Alive, Shared
<1>6. QED
  BY <1>1, <1>2, <1>3, <1>4, <1>5, TypeInPartsNext

LEMMA Type_Store ==
  ASSUME TypeOK, SessionInv, NEW v \in stores, Store(v)
  PROVE  TypeOK'
<1>0. Enums /\ Sets /\ LoopFlags /\ WorkFlags /\ Counts
  BY TypeInParts
<1>1. Enums'
  BY <1>0 DEF Enums, Hows, Tasks, Store, Alive
<1>2. Sets'
  BY <1>0 DEF Sets, Store, Alive
<1>3. LoopFlags'
  BY <1>0 DEF LoopFlags, Store, Alive
<1>4. WorkFlags'
  BY <1>0 DEF WorkFlags, Store, Alive
<1>5. Counts'
  BY <1>0, SessionAssumption DEF Counts, Store, Alive
<1>6. QED
  BY <1>1, <1>2, <1>3, <1>4, <1>5, TypeInPartsNext

LEMMA Type_Finish ==
  ASSUME TypeOK, SessionInv, Finish
  PROVE  TypeOK'
<1>0. Enums /\ Sets /\ LoopFlags /\ WorkFlags /\ Counts
  BY TypeInParts
<1>1. Enums'
  BY <1>0 DEF Enums, Hows, Tasks, Finish, DaemonReports, Delivered, Swallowed, Undelivered, Alive
<1>2. Sets'
  BY <1>0 DEF Sets, Finish, DaemonReports, Delivered, Swallowed, Undelivered, Alive
<1>3. LoopFlags'
  BY <1>0 DEF LoopFlags, Finish, DaemonReports, Delivered, Swallowed, Undelivered, Alive
<1>4. WorkFlags'
  BY <1>0 DEF WorkFlags, Finish, DaemonReports, Delivered, Swallowed, Undelivered, Alive
<1>5. Counts'
  BY <1>0, SessionAssumption DEF Counts, Finish, DaemonReports, Delivered, Swallowed, Undelivered, Alive
<1>6. QED
  BY <1>1, <1>2, <1>3, <1>4, <1>5, TypeInPartsNext

LEMMA Type_Watches ==
  ASSUME TypeOK, SessionInv, Watches
  PROVE  TypeOK'
<1>0. Enums /\ Sets /\ LoopFlags /\ WorkFlags /\ Counts
  BY TypeInParts
<1>1. Enums'
  BY <1>0 DEF Enums, Hows, Tasks, Watches, HasPid, Up
<1>2. Sets'
  BY <1>0 DEF Sets, Watches, HasPid, Up
<1>3. LoopFlags'
  BY <1>0 DEF LoopFlags, Watches, HasPid, Up
<1>4. WorkFlags'
  BY <1>0 DEF WorkFlags, Watches, HasPid, Up
<1>5. Counts'
  BY <1>0, SessionAssumption DEF Counts, Watches, HasPid, Up
<1>6. QED
  BY <1>1, <1>2, <1>3, <1>4, <1>5, TypeInPartsNext

LEMMA Type_NoPid ==
  ASSUME TypeOK, SessionInv, NoPid
  PROVE  TypeOK'
<1>0. Enums /\ Sets /\ LoopFlags /\ WorkFlags /\ Counts
  BY TypeInParts
<1>1. Enums'
  BY <1>0 DEF Enums, Hows, Tasks, NoPid, DaemonReports, Delivered, Swallowed, Undelivered, HasPid, Up
<1>2. Sets'
  BY <1>0 DEF Sets, NoPid, DaemonReports, Delivered, Swallowed, Undelivered, HasPid, Up
<1>3. LoopFlags'
  BY <1>0 DEF LoopFlags, NoPid, DaemonReports, Delivered, Swallowed, Undelivered, HasPid, Up
<1>4. WorkFlags'
  BY <1>0 DEF WorkFlags, NoPid, DaemonReports, Delivered, Swallowed, Undelivered, HasPid, Up
<1>5. Counts'
  BY <1>0, SessionAssumption DEF Counts, NoPid, DaemonReports, Delivered, Swallowed, Undelivered, HasPid, Up
<1>6. QED
  BY <1>1, <1>2, <1>3, <1>4, <1>5, TypeInPartsNext

LEMMA Type_CleansUp ==
  ASSUME TypeOK, SessionInv, CleansUp
  PROVE  TypeOK'
<1>0. Enums /\ Sets /\ LoopFlags /\ WorkFlags /\ Counts
  BY TypeInParts
<1>1. Enums'
  BY <1>0 DEF Enums, Hows, Tasks, CleansUp, Up
<1>2. Sets'
  BY <1>0 DEF Sets, CleansUp, Up
<1>3. LoopFlags'
  BY <1>0 DEF LoopFlags, CleansUp, Up
<1>4. WorkFlags'
  BY <1>0 DEF WorkFlags, CleansUp, Up
<1>5. Counts'
  BY <1>0, SessionAssumption DEF Counts, CleansUp, Up
<1>6. QED
  BY <1>1, <1>2, <1>3, <1>4, <1>5, TypeInPartsNext

LEMMA Type_ChildReport ==
  ASSUME TypeOK, SessionInv, ChildReport
  PROVE  TypeOK'
<1>0. Enums /\ Sets /\ LoopFlags /\ WorkFlags /\ Counts
  BY TypeInParts
<1>1. Enums'
  BY <1>0 DEF Enums, Hows, Tasks, ChildReport, DaemonReports, Delivered, Swallowed, Undelivered, Up
<1>2. Sets'
  BY <1>0 DEF Sets, ChildReport, DaemonReports, Delivered, Swallowed, Undelivered, Up
<1>3. LoopFlags'
  BY <1>0 DEF LoopFlags, ChildReport, DaemonReports, Delivered, Swallowed, Undelivered, Up
<1>4. WorkFlags'
  BY <1>0 DEF WorkFlags, ChildReport, DaemonReports, Delivered, Swallowed, Undelivered, Up
<1>5. Counts'
  BY <1>0, SessionAssumption DEF Counts, ChildReport, DaemonReports, Delivered, Swallowed, Undelivered, Up
<1>6. QED
  BY <1>1, <1>2, <1>3, <1>4, <1>5, TypeInPartsNext

LEMMA Type_ReadOut ==
  ASSUME TypeOK, SessionInv, ReadOut
  PROVE  TypeOK'
<1>0. Enums /\ Sets /\ LoopFlags /\ WorkFlags /\ Counts
  BY TypeInParts
<1>1. Enums'
  BY <1>0 DEF Enums, Hows, Tasks, ReadOut, Up
<1>2. Sets'
  BY <1>0 DEF Sets, ReadOut, Up
<1>3. LoopFlags'
  BY <1>0 DEF LoopFlags, ReadOut, Up
<1>4. WorkFlags'
  BY <1>0 DEF WorkFlags, ReadOut, Up
<1>5. Counts'
  BY <1>0, SessionAssumption DEF Counts, ReadOut, Up
<1>6. QED
  BY <1>1, <1>2, <1>3, <1>4, <1>5, TypeInPartsNext

LEMMA Type_ReadErr ==
  ASSUME TypeOK, SessionInv, ReadErr
  PROVE  TypeOK'
<1>0. Enums /\ Sets /\ LoopFlags /\ WorkFlags /\ Counts
  BY TypeInParts
<1>1. Enums'
  BY <1>0 DEF Enums, Hows, Tasks, ReadErr, Up
<1>2. Sets'
  BY <1>0 DEF Sets, ReadErr, Up
<1>3. LoopFlags'
  BY <1>0 DEF LoopFlags, ReadErr, Up
<1>4. WorkFlags'
  BY <1>0 DEF WorkFlags, ReadErr, Up
<1>5. Counts'
  BY <1>0, SessionAssumption DEF Counts, ReadErr, Up
<1>6. QED
  BY <1>1, <1>2, <1>3, <1>4, <1>5, TypeInPartsNext

LEMMA Type_InDaemonReport ==
  ASSUME TypeOK, SessionInv, InDaemonReport
  PROVE  TypeOK'
<1>0. Enums /\ Sets /\ LoopFlags /\ WorkFlags /\ Counts
  BY TypeInParts
<1>1. Enums'
  BY <1>0 DEF Enums, Hows, Tasks, InDaemonReport, DaemonReports, Delivered, Swallowed, Undelivered, Up
<1>2. Sets'
  BY <1>0 DEF Sets, InDaemonReport, DaemonReports, Delivered, Swallowed, Undelivered, Up
<1>3. LoopFlags'
  BY <1>0 DEF LoopFlags, InDaemonReport, DaemonReports, Delivered, Swallowed, Undelivered, Up
<1>4. WorkFlags'
  BY <1>0 DEF WorkFlags, InDaemonReport, DaemonReports, Delivered, Swallowed, Undelivered, Up
<1>5. Counts'
  BY <1>0, SessionAssumption DEF Counts, InDaemonReport, DaemonReports, Delivered, Swallowed, Undelivered, Up
<1>6. QED
  BY <1>1, <1>2, <1>3, <1>4, <1>5, TypeInPartsNext

LEMMA Type_Elapse ==
  ASSUME TypeOK, SessionInv, Elapse
  PROVE  TypeOK'
<1>0. Enums /\ Sets /\ LoopFlags /\ WorkFlags /\ Counts
  BY TypeInParts
<1>1. Enums'
  BY <1>0 DEF Enums, Hows, Tasks, Elapse, Up
<1>2. Sets'
  BY <1>0 DEF Sets, Elapse, Up
<1>3. LoopFlags'
  BY <1>0 DEF LoopFlags, Elapse, Up
<1>4. WorkFlags'
  BY <1>0 DEF WorkFlags, Elapse, Up
<1>5. Counts'
  BY <1>0, SessionAssumption DEF Counts, Elapse, Up
<1>6. QED
  BY <1>1, <1>2, <1>3, <1>4, <1>5, TypeInPartsNext

LEMMA Type_Beat ==
  ASSUME TypeOK, SessionInv, Beat
  PROVE  TypeOK'
<1>0. Enums /\ Sets /\ LoopFlags /\ WorkFlags /\ Counts
  BY TypeInParts
<1>1. Enums'
  BY <1>0 DEF Enums, Hows, Tasks, Beat, Leaves, Killed, Up
<1>2. Sets'
  BY <1>0 DEF Sets, Beat, Leaves, Killed, Up
<1>3. LoopFlags'
  BY <1>0 DEF LoopFlags, Beat, Leaves, Killed, Up
<1>4. WorkFlags'
  BY <1>0 DEF WorkFlags, Beat, Leaves, Killed, Up
<1>5. Counts'
  BY <1>0, SessionAssumption DEF Counts, Beat, Leaves, Killed, Up
<1>6. QED
  BY <1>1, <1>2, <1>3, <1>4, <1>5, TypeInPartsNext

LEMMA Type_Ends ==
  ASSUME TypeOK, SessionInv, Ends
  PROVE  TypeOK'
<1>0. Enums /\ Sets /\ LoopFlags /\ WorkFlags /\ Counts
  BY TypeInParts
<1>1. Enums'
  BY <1>0 DEF Enums, Hows, Tasks, Ends, Leaves, Up
<1>2. Sets'
  BY <1>0 DEF Sets, Ends, Leaves, Up
<1>3. LoopFlags'
  BY <1>0 DEF LoopFlags, Ends, Leaves, Up
<1>4. WorkFlags'
  BY <1>0 DEF WorkFlags, Ends, Leaves, Up
<1>5. Counts'
  BY <1>0, SessionAssumption DEF Counts, Ends, Leaves, Up
<1>6. QED
  BY <1>1, <1>2, <1>3, <1>4, <1>5, TypeInPartsNext

LEMMA Type_Cancelled ==
  ASSUME TypeOK, SessionInv, Cancelled
  PROVE  TypeOK'
<1>0. Enums /\ Sets /\ LoopFlags /\ WorkFlags /\ Counts
  BY TypeInParts
<1>1. Enums'
  BY <1>0 DEF Enums, Hows, Tasks, Cancelled, Leaves, Killed, Up
<1>2. Sets'
  BY <1>0 DEF Sets, Cancelled, Leaves, Killed, Up
<1>3. LoopFlags'
  BY <1>0 DEF LoopFlags, Cancelled, Leaves, Killed, Up
<1>4. WorkFlags'
  BY <1>0 DEF WorkFlags, Cancelled, Leaves, Killed, Up
<1>5. Counts'
  BY <1>0, SessionAssumption DEF Counts, Cancelled, Leaves, Killed, Up
<1>6. QED
  BY <1>1, <1>2, <1>3, <1>4, <1>5, TypeInPartsNext

LEMMA Type_Ticks ==
  ASSUME TypeOK, SessionInv, Ticks
  PROVE  TypeOK'
<1>0. Enums /\ Sets /\ LoopFlags /\ WorkFlags /\ Counts
  BY TypeInParts
<1>1. Enums'
  BY <1>0 DEF Enums, Hows, Tasks, Ticks, Up
<1>2. Sets'
  BY <1>0 DEF Sets, Ticks, Up
<1>3. LoopFlags'
  BY <1>0 DEF LoopFlags, Ticks, Up
<1>4. WorkFlags'
  BY <1>0 DEF WorkFlags, Ticks, Up
<1>5. Counts'
  BY <1>0, SessionAssumption DEF Counts, Ticks, Up
<1>6. QED
  BY <1>1, <1>2, <1>3, <1>4, <1>5, TypeInPartsNext

LEMMA Type_BeatStops ==
  ASSUME TypeOK, SessionInv, BeatStops
  PROVE  TypeOK'
<1>0. Enums /\ Sets /\ LoopFlags /\ WorkFlags /\ Counts
  BY TypeInParts
<1>1. Enums'
  BY <1>0 DEF Enums, Hows, Tasks, BeatStops, Up
<1>2. Sets'
  BY <1>0 DEF Sets, BeatStops, Up
<1>3. LoopFlags'
  BY <1>0 DEF LoopFlags, BeatStops, Up
<1>4. WorkFlags'
  BY <1>0 DEF WorkFlags, BeatStops, Up
<1>5. Counts'
  BY <1>0, SessionAssumption DEF Counts, BeatStops, Up
<1>6. QED
  BY <1>1, <1>2, <1>3, <1>4, <1>5, TypeInPartsNext

LEMMA Type_ShutdownReq ==
  ASSUME TypeOK, SessionInv, ShutdownReq
  PROVE  TypeOK'
<1>0. Enums /\ Sets /\ LoopFlags /\ WorkFlags /\ Counts
  BY TypeInParts
<1>1. Enums'
  BY <1>0 DEF Enums, Hows, Tasks, ShutdownReq, Up
<1>2. Sets'
  BY <1>0 DEF Sets, ShutdownReq, Up
<1>3. LoopFlags'
  BY <1>0 DEF LoopFlags, ShutdownReq, Up
<1>4. WorkFlags'
  BY <1>0 DEF WorkFlags, ShutdownReq, Up
<1>5. Counts'
  BY <1>0, SessionAssumption DEF Counts, ShutdownReq, Up
<1>6. QED
  BY <1>1, <1>2, <1>3, <1>4, <1>5, TypeInPartsNext

LEMMA Type_SendsStop ==
  ASSUME TypeOK, SessionInv, SendsStop
  PROVE  TypeOK'
<1>0. Enums /\ Sets /\ LoopFlags /\ WorkFlags /\ Counts
  BY TypeInParts
<1>1. Enums'
  BY <1>0 DEF Enums, Hows, Tasks, SendsStop, Up
<1>2. Sets'
  BY <1>0 DEF Sets, SendsStop, Up
<1>3. LoopFlags'
  BY <1>0 DEF LoopFlags, SendsStop, Up
<1>4. WorkFlags'
  BY <1>0 DEF WorkFlags, SendsStop, Up
<1>5. Counts'
  BY <1>0, SessionAssumption DEF Counts, SendsStop, Up
<1>6. QED
  BY <1>1, <1>2, <1>3, <1>4, <1>5, TypeInPartsNext

LEMMA Type_Sent ==
  ASSUME TypeOK, SessionInv, Sent
  PROVE  TypeOK'
<1>0. Enums /\ Sets /\ LoopFlags /\ WorkFlags /\ Counts
  BY TypeInParts
<1>1. Enums'
  BY <1>0 DEF Enums, Hows, Tasks, Sent, Up
<1>2. Sets'
  BY <1>0 DEF Sets, Sent, Up
<1>3. LoopFlags'
  BY <1>0 DEF LoopFlags, Sent, Up
<1>4. WorkFlags'
  BY <1>0 DEF WorkFlags, Sent, Up
<1>5. Counts'
  BY <1>0, SessionAssumption DEF Counts, Sent, Up
<1>6. QED
  BY <1>1, <1>2, <1>3, <1>4, <1>5, TypeInPartsNext

-------------------------------------------------------------------------------
(* SessionInv is inductive.                                                *)

LEMMA Keeps_Start ==
  ASSUME TypeOK, SessionInv, Start
  PROVE  SessionInv'
<1>. USE DEF Start, SessionInv
<1>1. PhaseInv'
  BY DEF PhaseInv, TypeOK
<1>2. InDaemon => GoroutineInv'
  BY DEF PhaseInv, GoroutineInv, Shared, TypeOK, Tasks
<1>3. ~InDaemon => ChildInv'
  BY DEF PhaseInv, ChildInv, TypeOK
<1>4. EmptySuccessExplained'
  BY DEF PhaseInv, GoroutineInv, ChildInv, EmptySuccessExplained, TypeOK
<1>5. OneVoice'
  BY DEF PhaseInv, GoroutineInv, ChildInv, OneVoice, TypeOK
<1>6. OverIsStill'
  BY DEF PhaseInv, GoroutineInv, ChildInv, OverIsStill, TypeOK
<1>7. SilenceExplained'
  BY DEF PhaseInv, GoroutineInv, ChildInv, SilenceExplained, TypeOK
<1>8. how' = how
  OBVIOUS
<1>. QED
  BY <1>1, <1>2, <1>3, <1>4, <1>5, <1>6, <1>7, <1>8

LEMMA Keeps_TaskRun ==
  ASSUME TypeOK, SessionInv, TaskRun
  PROVE  SessionInv'
<1>. USE DEF TaskRun, Delivered, Swallowed, SessionInv
<1>1. PhaseInv'
  BY DEF PhaseInv, TypeOK
<1>2. InDaemon => GoroutineInv'
  BY DEF PhaseInv, GoroutineInv, Shared, TypeOK, Tasks
<1>3. ~InDaemon => ChildInv'
  BY DEF PhaseInv, ChildInv, TypeOK
<1>4. EmptySuccessExplained'
  BY DEF PhaseInv, GoroutineInv, ChildInv, EmptySuccessExplained, TypeOK
<1>5. OneVoice'
  BY DEF PhaseInv, GoroutineInv, ChildInv, OneVoice, TypeOK
<1>6. OverIsStill'
  BY DEF PhaseInv, GoroutineInv, ChildInv, OverIsStill, TypeOK
<1>7. SilenceExplained'
  BY DEF PhaseInv, GoroutineInv, ChildInv, SilenceExplained, TypeOK
<1>8. how' = how
  OBVIOUS
<1>. QED
  BY <1>1, <1>2, <1>3, <1>4, <1>5, <1>6, <1>7, <1>8

LEMMA Keeps_Dies ==
  ASSUME TypeOK, SessionInv, Dies
  PROVE  SessionInv'
<1>. USE DEF Dies, SessionInv
<1>1. PhaseInv'
  BY DEF PhaseInv, TypeOK
<1>2. InDaemon => GoroutineInv'
  BY DEF PhaseInv, GoroutineInv, Shared, TypeOK, Tasks
<1>3. ~InDaemon => ChildInv'
  BY DEF PhaseInv, ChildInv, TypeOK
<1>4. EmptySuccessExplained'
  BY DEF PhaseInv, GoroutineInv, ChildInv, EmptySuccessExplained, TypeOK
<1>5. OneVoice'
  BY DEF PhaseInv, GoroutineInv, ChildInv, OneVoice, TypeOK
<1>6. OverIsStill'
  BY DEF PhaseInv, GoroutineInv, ChildInv, OverIsStill, TypeOK
<1>7. SilenceExplained'
  BY DEF PhaseInv, GoroutineInv, ChildInv, SilenceExplained, TypeOK
<1>8. how' = how
  OBVIOUS
<1>. QED
  BY <1>1, <1>2, <1>3, <1>4, <1>5, <1>6, <1>7, <1>8

LEMMA Keeps_Exits ==
  ASSUME TypeOK, SessionInv, Exits
  PROVE  SessionInv'
<1>. USE DEF Exits, SessionInv
<1>1. PhaseInv'
  BY DEF PhaseInv, TypeOK
<1>2. InDaemon => GoroutineInv'
  BY DEF PhaseInv, GoroutineInv, Shared, TypeOK, Tasks
<1>3. ~InDaemon => ChildInv'
  BY DEF PhaseInv, ChildInv, TypeOK
<1>4. EmptySuccessExplained'
  BY DEF PhaseInv, GoroutineInv, ChildInv, EmptySuccessExplained, TypeOK
<1>5. OneVoice'
  BY DEF PhaseInv, GoroutineInv, ChildInv, OneVoice, TypeOK
<1>6. OverIsStill'
  BY DEF PhaseInv, GoroutineInv, ChildInv, OverIsStill, TypeOK
<1>7. SilenceExplained'
  BY DEF PhaseInv, GoroutineInv, ChildInv, SilenceExplained, TypeOK
<1>8. how' = how
  OBVIOUS
<1>. QED
  BY <1>1, <1>2, <1>3, <1>4, <1>5, <1>6, <1>7, <1>8

LEMMA Keeps_Params ==
  ASSUME TypeOK, SessionInv, Params
  PROVE  SessionInv'
<1>. USE DEF Params, Alive, SessionInv
<1>1. PhaseInv'
  BY DEF PhaseInv, TypeOK
<1>2. InDaemon => GoroutineInv'
  BY DEF PhaseInv, GoroutineInv, Shared, TypeOK, Tasks
<1>3. ~InDaemon => ChildInv'
  BY DEF PhaseInv, ChildInv, TypeOK
<1>4. EmptySuccessExplained'
  BY DEF PhaseInv, GoroutineInv, ChildInv, EmptySuccessExplained, TypeOK
<1>5. OneVoice'
  BY DEF PhaseInv, GoroutineInv, ChildInv, OneVoice, TypeOK
<1>6. OverIsStill'
  BY DEF PhaseInv, GoroutineInv, ChildInv, OverIsStill, TypeOK
<1>7. SilenceExplained'
  BY DEF PhaseInv, GoroutineInv, ChildInv, SilenceExplained, TypeOK
<1>8. how' = how
  OBVIOUS
<1>. QED
  BY <1>1, <1>2, <1>3, <1>4, <1>5, <1>6, <1>7, <1>8

LEMMA Keeps_Compute ==
  ASSUME TypeOK, SessionInv, Compute
  PROVE  SessionInv'
<1>. USE DEF Compute, Alive, SessionInv
<1>1. PhaseInv'
  BY DEF PhaseInv, TypeOK
<1>2. InDaemon => GoroutineInv'
  <2>1. stores' = Shared /\ Shared' = Shared
    BY DEF Shared
  <2>2. "out" \in stores' /\ (task # "PC1" => "err" \in stores')
    BY <2>1 DEF Shared
  <2>3. stores' \subseteq Shared'
    BY <2>1
  <2>4. fate' \in {"good", "bad"} /\ work' = "store"
    BY DEF Compute
  <2>. QED
    BY <2>2, <2>3, <2>4 DEF PhaseInv, GoroutineInv, TypeOK
<1>3. ~InDaemon => ChildInv'
  BY DEF PhaseInv, ChildInv, TypeOK
<1>4. EmptySuccessExplained'
  BY DEF PhaseInv, GoroutineInv, ChildInv, EmptySuccessExplained, TypeOK
<1>5. OneVoice'
  BY DEF PhaseInv, GoroutineInv, ChildInv, OneVoice, TypeOK
<1>6. OverIsStill'
  BY DEF PhaseInv, GoroutineInv, ChildInv, OverIsStill, TypeOK
<1>7. SilenceExplained'
  BY DEF PhaseInv, GoroutineInv, ChildInv, SilenceExplained, TypeOK
<1>8. how' = how
  OBVIOUS
<1>. QED
  BY <1>1, <1>2, <1>3, <1>4, <1>5, <1>6, <1>7, <1>8

LEMMA Keeps_Store ==
  ASSUME TypeOK, SessionInv, NEW v \in stores, Store(v)
  PROVE  SessionInv'
<1>. USE DEF Store, Alive, SessionInv
<1>1. PhaseInv'
  BY DEF PhaseInv, TypeOK
<1>2. InDaemon => GoroutineInv'
  BY DEF PhaseInv, GoroutineInv, Shared, TypeOK, Tasks
<1>3. ~InDaemon => ChildInv'
  BY DEF PhaseInv, ChildInv, TypeOK
<1>4. EmptySuccessExplained'
  BY DEF PhaseInv, GoroutineInv, ChildInv, EmptySuccessExplained, TypeOK
<1>5. OneVoice'
  BY DEF PhaseInv, GoroutineInv, ChildInv, OneVoice, TypeOK
<1>6. OverIsStill'
  BY DEF PhaseInv, GoroutineInv, ChildInv, OverIsStill, TypeOK
<1>7. SilenceExplained'
  BY DEF PhaseInv, GoroutineInv, ChildInv, SilenceExplained, TypeOK
<1>8. how' = how
  OBVIOUS
<1>. QED
  BY <1>1, <1>2, <1>3, <1>4, <1>5, <1>6, <1>7, <1>8

LEMMA Keeps_Finish ==
  ASSUME TypeOK, SessionInv, Finish
  PROVE  SessionInv'
<1>. USE DEF Finish, DaemonReports, Delivered, Swallowed, Undelivered, Alive, SessionInv
<1>1. PhaseInv'
  BY DEF PhaseInv, TypeOK
<1>2. InDaemon => GoroutineInv'
  BY DEF PhaseInv, GoroutineInv, Shared, TypeOK, Tasks
<1>3. ~InDaemon => ChildInv'
  BY DEF PhaseInv, ChildInv, TypeOK
<1>4. EmptySuccessExplained'
  BY DEF PhaseInv, GoroutineInv, ChildInv, EmptySuccessExplained, TypeOK
<1>5. OneVoice'
  BY DEF PhaseInv, GoroutineInv, ChildInv, OneVoice, TypeOK
<1>6. OverIsStill'
  BY DEF PhaseInv, GoroutineInv, ChildInv, OverIsStill, TypeOK
<1>7. SilenceExplained'
  BY DEF PhaseInv, GoroutineInv, ChildInv, SilenceExplained, TypeOK
<1>8. how' = how
  OBVIOUS
<1>. QED
  BY <1>1, <1>2, <1>3, <1>4, <1>5, <1>6, <1>7, <1>8

LEMMA Keeps_Watches ==
  ASSUME TypeOK, SessionInv, Watches
  PROVE  SessionInv'
<1>. USE DEF Watches, HasPid, Up, SessionInv
<1>1. PhaseInv'
  BY DEF PhaseInv, TypeOK
<1>2. InDaemon => GoroutineInv'
  BY DEF PhaseInv, GoroutineInv, Shared, TypeOK, Tasks
<1>3. ~InDaemon => ChildInv'
  BY DEF PhaseInv, ChildInv, TypeOK
<1>4. EmptySuccessExplained'
  BY DEF PhaseInv, GoroutineInv, ChildInv, EmptySuccessExplained, TypeOK
<1>5. OneVoice'
  BY DEF PhaseInv, GoroutineInv, ChildInv, OneVoice, TypeOK
<1>6. OverIsStill'
  BY DEF PhaseInv, GoroutineInv, ChildInv, OverIsStill, TypeOK
<1>7. SilenceExplained'
  BY DEF PhaseInv, GoroutineInv, ChildInv, SilenceExplained, TypeOK
<1>8. how' = how
  OBVIOUS
<1>. QED
  BY <1>1, <1>2, <1>3, <1>4, <1>5, <1>6, <1>7, <1>8

LEMMA Keeps_NoPid ==
  ASSUME TypeOK, SessionInv, NoPid
  PROVE  SessionInv'
<1>. USE DEF NoPid, DaemonReports, Delivered, Swallowed, Undelivered, HasPid, Up, SessionInv
<1>1. PhaseInv'
  BY DEF PhaseInv, TypeOK, GoroutineInv
<1>2. InDaemon => GoroutineInv'
  BY DEF PhaseInv, GoroutineInv, Shared, TypeOK, Tasks
<1>3. ~InDaemon => ChildInv'
  BY DEF PhaseInv, ChildInv, TypeOK
<1>4. EmptySuccessExplained'
  BY DEF PhaseInv, GoroutineInv, ChildInv, EmptySuccessExplained, TypeOK
<1>5. OneVoice'
  BY DEF PhaseInv, GoroutineInv, ChildInv, OneVoice, TypeOK
<1>6. OverIsStill'
  BY DEF PhaseInv, GoroutineInv, ChildInv, OverIsStill, TypeOK
<1>7. SilenceExplained'
  BY DEF PhaseInv, GoroutineInv, ChildInv, SilenceExplained, TypeOK, Hows
<1>8. how' = how
  OBVIOUS
<1>. QED
  BY <1>1, <1>2, <1>3, <1>4, <1>5, <1>6, <1>7, <1>8

LEMMA Keeps_CleansUp ==
  ASSUME TypeOK, SessionInv, CleansUp
  PROVE  SessionInv'
<1>. USE DEF CleansUp, Up, SessionInv
<1>1. PhaseInv'
  BY DEF PhaseInv, TypeOK
<1>2. InDaemon => GoroutineInv'
  BY DEF PhaseInv, GoroutineInv, Shared, TypeOK, Tasks
<1>3. ~InDaemon => ChildInv'
  BY DEF PhaseInv, ChildInv, TypeOK
<1>4. EmptySuccessExplained'
  BY DEF PhaseInv, GoroutineInv, ChildInv, EmptySuccessExplained, TypeOK
<1>5. OneVoice'
  BY DEF PhaseInv, GoroutineInv, ChildInv, OneVoice, TypeOK
<1>6. OverIsStill'
  BY DEF PhaseInv, GoroutineInv, ChildInv, OverIsStill, TypeOK
<1>7. SilenceExplained'
  BY DEF PhaseInv, GoroutineInv, ChildInv, SilenceExplained, TypeOK
<1>8. how' = how
  OBVIOUS
<1>. QED
  BY <1>1, <1>2, <1>3, <1>4, <1>5, <1>6, <1>7, <1>8

LEMMA Keeps_ChildReport ==
  ASSUME TypeOK, SessionInv, ChildReport
  PROVE  SessionInv'
<1>. USE DEF ChildReport, DaemonReports, Delivered, Swallowed, Undelivered, Up, SessionInv
<1>1. PhaseInv'
  BY DEF PhaseInv, TypeOK
<1>2. InDaemon => GoroutineInv'
  BY DEF PhaseInv, GoroutineInv, Shared, TypeOK, Tasks
<1>3. ~InDaemon => ChildInv'
  BY DEF PhaseInv, ChildInv, TypeOK
<1>4. EmptySuccessExplained'
  BY DEF PhaseInv, GoroutineInv, ChildInv, EmptySuccessExplained, TypeOK
<1>5. OneVoice'
  BY DEF PhaseInv, GoroutineInv, ChildInv, OneVoice, TypeOK
<1>6. OverIsStill'
  BY DEF PhaseInv, GoroutineInv, ChildInv, OverIsStill, TypeOK
<1>7. SilenceExplained'
  BY DEF PhaseInv, GoroutineInv, ChildInv, SilenceExplained, TypeOK
<1>8. how' = how
  OBVIOUS
<1>. QED
  BY <1>1, <1>2, <1>3, <1>4, <1>5, <1>6, <1>7, <1>8

LEMMA Keeps_ReadOut ==
  ASSUME TypeOK, SessionInv, ReadOut
  PROVE  SessionInv'
<1>. USE DEF ReadOut, Up, SessionInv
<1>1. PhaseInv'
  BY DEF PhaseInv, TypeOK
<1>2. InDaemon => GoroutineInv'
  BY DEF PhaseInv, GoroutineInv, Shared, TypeOK, Tasks
<1>3. ~InDaemon => ChildInv'
  BY DEF PhaseInv, ChildInv, TypeOK
<1>4. EmptySuccessExplained'
  BY DEF PhaseInv, GoroutineInv, ChildInv, EmptySuccessExplained, TypeOK
<1>5. OneVoice'
  BY DEF PhaseInv, GoroutineInv, ChildInv, OneVoice, TypeOK
<1>6. OverIsStill'
  BY DEF PhaseInv, GoroutineInv, ChildInv, OverIsStill, TypeOK
<1>7. SilenceExplained'
  BY DEF PhaseInv, GoroutineInv, ChildInv, SilenceExplained, TypeOK
<1>8. how' = how
  OBVIOUS
<1>. QED
  BY <1>1, <1>2, <1>3, <1>4, <1>5, <1>6, <1>7, <1>8

LEMMA Keeps_ReadErr ==
  ASSUME TypeOK, SessionInv, ReadErr
  PROVE  SessionInv'
<1>. USE DEF ReadErr, Up, SessionInv
<1>1. PhaseInv'
  BY DEF PhaseInv, TypeOK
<1>2. InDaemon => GoroutineInv'
  BY DEF PhaseInv, GoroutineInv, Shared, TypeOK, Tasks
<1>3. ~InDaemon => ChildInv'
  BY DEF PhaseInv, ChildInv, TypeOK
<1>4. EmptySuccessExplained'
  BY DEF PhaseInv, GoroutineInv, ChildInv, EmptySuccessExplained, TypeOK
<1>5. OneVoice'
  BY DEF PhaseInv, GoroutineInv, ChildInv, OneVoice, TypeOK
<1>6. OverIsStill'
  BY DEF PhaseInv, GoroutineInv, ChildInv, OverIsStill, TypeOK
<1>7. SilenceExplained'
  BY DEF PhaseInv, GoroutineInv, ChildInv, SilenceExplained, TypeOK
<1>8. how' = how
  OBVIOUS
<1>. QED
  BY <1>1, <1>2, <1>3, <1>4, <1>5, <1>6, <1>7, <1>8

LEMMA Keeps_InDaemonReport ==
  ASSUME TypeOK, SessionInv, InDaemonReport
  PROVE  SessionInv'
<1>. USE DEF InDaemonReport, DaemonReports, Delivered, Swallowed, Undelivered, Up, SessionInv
<1>1. PhaseInv'
  BY DEF PhaseInv, TypeOK
<1>2. InDaemon => GoroutineInv'
  BY DEF PhaseInv, GoroutineInv, Shared, TypeOK, Tasks
<1>3. ~InDaemon => ChildInv'
  BY DEF PhaseInv, ChildInv, TypeOK
<1>4. EmptySuccessExplained'
  BY DEF PhaseInv, GoroutineInv, ChildInv, EmptySuccessExplained, TypeOK
<1>5. OneVoice'
  <2>1. CASE left = "cancel"
    BY <2>1 DEF OneVoice
  <2>2. CASE left # "cancel"
    <3>1. left = "end" /\ work = "ended" /\ stores = {} /\ readErr = err
      /\ (said # {} => said = {"error"} /\ task = "C1")
      BY <2>2 DEF PhaseInv, GoroutineInv, TypeOK
    <3>2. CASE readErr = "nil"
      <4>1. said = {}
        BY <2>2, <3>1, <3>2 DEF GoroutineInv
      <4>. QED
        BY <3>1, <3>2, <4>1 DEF OneVoice
    <3>3. CASE readErr # "nil"
      BY <3>1, <3>3 DEF OneVoice
    <3>. QED
      BY <3>2, <3>3
  <2>. QED
    BY <2>1, <2>2
<1>6. OverIsStill'
  BY DEF PhaseInv, GoroutineInv, ChildInv, OverIsStill, TypeOK
<1>7. SilenceExplained'
  BY DEF PhaseInv, GoroutineInv, ChildInv, SilenceExplained, TypeOK
<1>8. how' = how
  OBVIOUS
<1>. QED
  BY <1>1, <1>2, <1>3, <1>4, <1>5, <1>6, <1>7, <1>8

LEMMA Keeps_Elapse ==
  ASSUME TypeOK, SessionInv, Elapse
  PROVE  SessionInv'
<1>. USE DEF Elapse, Up, SessionInv
<1>1. PhaseInv'
  BY DEF PhaseInv, TypeOK
<1>2. InDaemon => GoroutineInv'
  BY DEF PhaseInv, GoroutineInv, Shared, TypeOK, Tasks
<1>3. ~InDaemon => ChildInv'
  BY DEF PhaseInv, ChildInv, TypeOK
<1>4. EmptySuccessExplained'
  BY DEF PhaseInv, GoroutineInv, ChildInv, EmptySuccessExplained, TypeOK
<1>5. OneVoice'
  BY DEF PhaseInv, GoroutineInv, ChildInv, OneVoice, TypeOK
<1>6. OverIsStill'
  BY DEF PhaseInv, GoroutineInv, ChildInv, OverIsStill, TypeOK
<1>7. SilenceExplained'
  BY DEF PhaseInv, GoroutineInv, ChildInv, SilenceExplained, TypeOK
<1>8. how' = how
  OBVIOUS
<1>. QED
  BY <1>1, <1>2, <1>3, <1>4, <1>5, <1>6, <1>7, <1>8

LEMMA Keeps_Beat ==
  ASSUME TypeOK, SessionInv, Beat
  PROVE  SessionInv'
<1>. USE DEF Beat, Leaves, Killed, Up, SessionInv
<1>1. PhaseInv'
  BY DEF PhaseInv, TypeOK
<1>2. InDaemon => GoroutineInv'
  BY DEF PhaseInv, GoroutineInv, Shared, TypeOK, Tasks
<1>3. ~InDaemon => ChildInv'
  BY DEF PhaseInv, ChildInv, TypeOK
<1>4. EmptySuccessExplained'
  BY DEF PhaseInv, GoroutineInv, ChildInv, EmptySuccessExplained, TypeOK
<1>5. OneVoice'
  BY DEF PhaseInv, GoroutineInv, ChildInv, OneVoice, TypeOK
<1>6. OverIsStill'
  BY DEF PhaseInv, GoroutineInv, ChildInv, OverIsStill, TypeOK
<1>7. SilenceExplained'
  BY DEF PhaseInv, GoroutineInv, ChildInv, SilenceExplained, TypeOK
<1>8. how' = how
  OBVIOUS
<1>. QED
  BY <1>1, <1>2, <1>3, <1>4, <1>5, <1>6, <1>7, <1>8

LEMMA Keeps_Ends ==
  ASSUME TypeOK, SessionInv, Ends
  PROVE  SessionInv'
<1>. USE DEF Ends, Leaves, Up, SessionInv
<1>1. PhaseInv'
  BY DEF PhaseInv, TypeOK
<1>2. InDaemon => GoroutineInv'
  BY DEF PhaseInv, GoroutineInv, Shared, TypeOK, Tasks
<1>3. ~InDaemon => ChildInv'
  BY DEF PhaseInv, ChildInv, TypeOK
<1>4. EmptySuccessExplained'
  BY DEF PhaseInv, GoroutineInv, ChildInv, EmptySuccessExplained, TypeOK
<1>5. OneVoice'
  BY DEF PhaseInv, GoroutineInv, ChildInv, OneVoice, TypeOK
<1>6. OverIsStill'
  BY DEF PhaseInv, GoroutineInv, ChildInv, OverIsStill, TypeOK
<1>7. SilenceExplained'
  BY DEF PhaseInv, GoroutineInv, ChildInv, SilenceExplained, TypeOK
<1>8. how' = how
  OBVIOUS
<1>. QED
  BY <1>1, <1>2, <1>3, <1>4, <1>5, <1>6, <1>7, <1>8

LEMMA Keeps_Cancelled ==
  ASSUME TypeOK, SessionInv, Cancelled
  PROVE  SessionInv'
<1>. USE DEF Cancelled, Leaves, Killed, Up, SessionInv
<1>1. PhaseInv'
  BY DEF PhaseInv, TypeOK
<1>2. InDaemon => GoroutineInv'
  BY DEF PhaseInv, GoroutineInv, Shared, TypeOK, Tasks
<1>3. ~InDaemon => ChildInv'
  BY DEF PhaseInv, ChildInv, TypeOK
<1>4. EmptySuccessExplained'
  BY DEF PhaseInv, GoroutineInv, ChildInv, EmptySuccessExplained, TypeOK
<1>5. OneVoice'
  BY DEF PhaseInv, GoroutineInv, ChildInv, OneVoice, TypeOK
<1>6. OverIsStill'
  BY DEF PhaseInv, GoroutineInv, ChildInv, OverIsStill, TypeOK
<1>7. SilenceExplained'
  BY DEF PhaseInv, GoroutineInv, ChildInv, SilenceExplained, TypeOK
<1>8. how' = how
  OBVIOUS
<1>. QED
  BY <1>1, <1>2, <1>3, <1>4, <1>5, <1>6, <1>7, <1>8

LEMMA Keeps_Ticks ==
  ASSUME TypeOK, SessionInv, Ticks
  PROVE  SessionInv'
<1>. USE DEF Ticks, Up, SessionInv
<1>1. PhaseInv'
  BY DEF PhaseInv, TypeOK
<1>2. InDaemon => GoroutineInv'
  BY DEF PhaseInv, GoroutineInv, Shared, TypeOK, Tasks
<1>3. ~InDaemon => ChildInv'
  BY DEF PhaseInv, ChildInv, TypeOK
<1>4. EmptySuccessExplained'
  BY DEF PhaseInv, GoroutineInv, ChildInv, EmptySuccessExplained, TypeOK
<1>5. OneVoice'
  BY DEF PhaseInv, GoroutineInv, ChildInv, OneVoice, TypeOK
<1>6. OverIsStill'
  BY DEF PhaseInv, GoroutineInv, ChildInv, OverIsStill, TypeOK
<1>7. SilenceExplained'
  BY DEF PhaseInv, GoroutineInv, ChildInv, SilenceExplained, TypeOK
<1>8. how' = how
  OBVIOUS
<1>. QED
  BY <1>1, <1>2, <1>3, <1>4, <1>5, <1>6, <1>7, <1>8

LEMMA Keeps_BeatStops ==
  ASSUME TypeOK, SessionInv, BeatStops
  PROVE  SessionInv'
<1>. USE DEF BeatStops, Up, SessionInv
<1>1. PhaseInv'
  BY DEF PhaseInv, TypeOK
<1>2. InDaemon => GoroutineInv'
  BY DEF PhaseInv, GoroutineInv, Shared, TypeOK, Tasks
<1>3. ~InDaemon => ChildInv'
  BY DEF PhaseInv, ChildInv, TypeOK
<1>4. EmptySuccessExplained'
  BY DEF PhaseInv, GoroutineInv, ChildInv, EmptySuccessExplained, TypeOK
<1>5. OneVoice'
  BY DEF PhaseInv, GoroutineInv, ChildInv, OneVoice, TypeOK
<1>6. OverIsStill'
  BY DEF PhaseInv, GoroutineInv, ChildInv, OverIsStill, TypeOK
<1>7. SilenceExplained'
  BY DEF PhaseInv, GoroutineInv, ChildInv, SilenceExplained, TypeOK
<1>8. how' = how
  OBVIOUS
<1>. QED
  BY <1>1, <1>2, <1>3, <1>4, <1>5, <1>6, <1>7, <1>8

LEMMA Keeps_ShutdownReq ==
  ASSUME TypeOK, SessionInv, ShutdownReq
  PROVE  SessionInv'
<1>. USE DEF ShutdownReq, Up, SessionInv
<1>1. PhaseInv'
  BY DEF PhaseInv, TypeOK
<1>2. InDaemon => GoroutineInv'
  BY DEF PhaseInv, GoroutineInv, Shared, TypeOK, Tasks
<1>3. ~InDaemon => ChildInv'
  BY DEF PhaseInv, ChildInv, TypeOK
<1>4. EmptySuccessExplained'
  BY DEF PhaseInv, GoroutineInv, ChildInv, EmptySuccessExplained, TypeOK
<1>5. OneVoice'
  BY DEF PhaseInv, GoroutineInv, ChildInv, OneVoice, TypeOK
<1>6. OverIsStill'
  BY DEF PhaseInv, GoroutineInv, ChildInv, OverIsStill, TypeOK
<1>7. SilenceExplained'
  BY DEF PhaseInv, GoroutineInv, ChildInv, SilenceExplained, TypeOK
<1>8. how' = how
  OBVIOUS
<1>. QED
  BY <1>1, <1>2, <1>3, <1>4, <1>5, <1>6, <1>7, <1>8

LEMMA Keeps_SendsStop ==
  ASSUME TypeOK, SessionInv, SendsStop
  PROVE  SessionInv'
<1>. USE DEF SendsStop, Up, SessionInv
<1>1. PhaseInv'
  BY DEF PhaseInv, TypeOK
<1>2. InDaemon => GoroutineInv'
  BY DEF PhaseInv, GoroutineInv, Shared, TypeOK, Tasks
<1>3. ~InDaemon => ChildInv'
  BY DEF PhaseInv, ChildInv, TypeOK
<1>4. EmptySuccessExplained'
  BY DEF PhaseInv, GoroutineInv, ChildInv, EmptySuccessExplained, TypeOK
<1>5. OneVoice'
  BY DEF PhaseInv, GoroutineInv, ChildInv, OneVoice, TypeOK
<1>6. OverIsStill'
  BY DEF PhaseInv, GoroutineInv, ChildInv, OverIsStill, TypeOK
<1>7. SilenceExplained'
  BY DEF PhaseInv, GoroutineInv, ChildInv, SilenceExplained, TypeOK
<1>8. how' = how
  OBVIOUS
<1>. QED
  BY <1>1, <1>2, <1>3, <1>4, <1>5, <1>6, <1>7, <1>8

LEMMA Keeps_Sent ==
  ASSUME TypeOK, SessionInv, Sent
  PROVE  SessionInv'
<1>. USE DEF Sent, Up, SessionInv
<1>1. PhaseInv'
  BY DEF PhaseInv, TypeOK
<1>2. InDaemon => GoroutineInv'
  BY DEF PhaseInv, GoroutineInv, Shared, TypeOK, Tasks
<1>3. ~InDaemon => ChildInv'
  BY DEF PhaseInv, ChildInv, TypeOK
<1>4. EmptySuccessExplained'
  BY DEF PhaseInv, GoroutineInv, ChildInv, EmptySuccessExplained, TypeOK
<1>5. OneVoice'
  BY DEF PhaseInv, GoroutineInv, ChildInv, OneVoice, TypeOK
<1>6. OverIsStill'
  BY DEF PhaseInv, GoroutineInv, ChildInv, OverIsStill, TypeOK
<1>7. SilenceExplained'
  BY DEF PhaseInv, GoroutineInv, ChildInv, SilenceExplained, TypeOK
<1>8. how' = how
  OBVIOUS
<1>. QED
  BY <1>1, <1>2, <1>3, <1>4, <1>5, <1>6, <1>7, <1>8

-------------------------------------------------------------------------------
LEMMA TypeStep ==
  ASSUME TypeOK, SessionInv, [Next]_vars
  PROVE  TypeOK'
<1>1. CASE Start
  BY <1>1, Type_Start
<1>2. CASE TaskRun
  BY <1>2, Type_TaskRun
<1>3. CASE Dies
  BY <1>3, Type_Dies
<1>4. CASE Exits
  BY <1>4, Type_Exits
<1>5. CASE Params
  BY <1>5, Type_Params
<1>6. CASE Compute
  BY <1>6, Type_Compute
<1>7. CASE \E v \in stores : Store(v)
  BY <1>7, Type_Store
<1>8. CASE Finish
  BY <1>8, Type_Finish
<1>9. CASE Watches
  BY <1>9, Type_Watches
<1>10. CASE NoPid
  BY <1>10, Type_NoPid
<1>11. CASE CleansUp
  BY <1>11, Type_CleansUp
<1>12. CASE ChildReport
  BY <1>12, Type_ChildReport
<1>13. CASE ReadOut
  BY <1>13, Type_ReadOut
<1>14. CASE ReadErr
  BY <1>14, Type_ReadErr
<1>15. CASE InDaemonReport
  BY <1>15, Type_InDaemonReport
<1>16. CASE Elapse
  BY <1>16, Type_Elapse
<1>17. CASE Beat
  BY <1>17, Type_Beat
<1>18. CASE Ends
  BY <1>18, Type_Ends
<1>19. CASE Cancelled
  BY <1>19, Type_Cancelled
<1>20. CASE Ticks
  BY <1>20, Type_Ticks
<1>21. CASE BeatStops
  BY <1>21, Type_BeatStops
<1>22. CASE ShutdownReq
  BY <1>22, Type_ShutdownReq
<1>23. CASE Sent
  BY <1>23, Type_Sent
<1>24. CASE SendsStop
  BY <1>24, Type_SendsStop
<1>25. CASE UNCHANGED vars
  BY <1>25 DEF TypeOK, vars
<1>. QED
  BY <1>1, <1>2, <1>3, <1>4, <1>5, <1>6, <1>7, <1>8, <1>9, <1>10, <1>11, <1>12, <1>13,
     <1>14, <1>15, <1>16, <1>17, <1>18, <1>19, <1>20, <1>21, <1>22, <1>23, <1>24, <1>25
     DEF Next, Child, Goroutine, Watcher

LEMMA SessionStep ==
  ASSUME TypeOK, SessionInv, [Next]_vars
  PROVE  SessionInv'
<1>1. CASE Start
  BY <1>1, Keeps_Start
<1>2. CASE TaskRun
  BY <1>2, Keeps_TaskRun
<1>3. CASE Dies
  BY <1>3, Keeps_Dies
<1>4. CASE Exits
  BY <1>4, Keeps_Exits
<1>5. CASE Params
  BY <1>5, Keeps_Params
<1>6. CASE Compute
  BY <1>6, Keeps_Compute
<1>7. CASE \E v \in stores : Store(v)
  BY <1>7, Keeps_Store
<1>8. CASE Finish
  BY <1>8, Keeps_Finish
<1>9. CASE Watches
  BY <1>9, Keeps_Watches
<1>10. CASE NoPid
  BY <1>10, Keeps_NoPid
<1>11. CASE CleansUp
  BY <1>11, Keeps_CleansUp
<1>12. CASE ChildReport
  BY <1>12, Keeps_ChildReport
<1>13. CASE ReadOut
  BY <1>13, Keeps_ReadOut
<1>14. CASE ReadErr
  BY <1>14, Keeps_ReadErr
<1>15. CASE InDaemonReport
  BY <1>15, Keeps_InDaemonReport
<1>16. CASE Elapse
  BY <1>16, Keeps_Elapse
<1>17. CASE Beat
  BY <1>17, Keeps_Beat
<1>18. CASE Ends
  BY <1>18, Keeps_Ends
<1>19. CASE Cancelled
  BY <1>19, Keeps_Cancelled
<1>20. CASE Ticks
  BY <1>20, Keeps_Ticks
<1>21. CASE BeatStops
  BY <1>21, Keeps_BeatStops
<1>22. CASE ShutdownReq
  BY <1>22, Keeps_ShutdownReq
<1>23. CASE Sent
  BY <1>23, Keeps_Sent
<1>24. CASE SendsStop
  BY <1>24, Keeps_SendsStop
<1>25. CASE UNCHANGED vars
  BY <1>25 DEF SessionInv, PhaseInv, GoroutineInv, ChildInv, EmptySuccessExplained, OneVoice,
                OverIsStill, SilenceExplained, Shared, vars
<1>. QED
  BY <1>1, <1>2, <1>3, <1>4, <1>5, <1>6, <1>7, <1>8, <1>9, <1>10, <1>11, <1>12, <1>13,
     <1>14, <1>15, <1>16, <1>17, <1>18, <1>19, <1>20, <1>21, <1>22, <1>23, <1>24, <1>25
     DEF Next, Child, Goroutine, Watcher

LEMMA SessionInit ==
  ASSUME Init
  PROVE  TypeOK /\ SessionInv
<1>1. TypeOK
  <2>1. Enums
    <3>1. loop \in {"pid", "watch"} /\ beat \in {"none", "on"}
      BY DEF Init
    <3>2. work \in {"starting", "params", "compute"}
      BY DEF Init
    <3>. QED
      BY <3>1, <3>2 DEF Init, Enums
  <2>2. Sets
    BY DEF Init, Sets
  <2>3. LoopFlags
    BY DEF Init, LoopFlags, InDaemon
  <2>4. WorkFlags
    BY DEF Init, WorkFlags
  <2>5. Counts
    BY SessionAssumption DEF Init, Counts
  <2>. QED
    BY <2>1, <2>2, <2>3, <2>4, <2>5, TypeInParts
<1>2. SessionInv
  BY DEF Init, SessionInv, PhaseInv, GoroutineInv, ChildInv, EmptySuccessExplained, OneVoice,
         OverIsStill, SilenceExplained, Hows, Tasks
<1>. QED
  BY <1>1, <1>2

\* Every state of a session is well-typed, for any number of calls of ShutdownReq.
THEOREM TypeCorrect == Spec => []TypeOK
<1>1. TypeOK /\ SessionInv /\ [Next]_vars => TypeOK' /\ SessionInv'
  BY TypeStep, SessionStep
<1>. QED
  BY <1>1, SessionInit, PTL DEF Spec

\* The invariant of a session (worker/util.go, ChildProcess and the sealX functions).
THEOREM SessionCorrect == Spec => []SessionInv
<1>1. TypeOK /\ SessionInv /\ [Next]_vars => TypeOK' /\ SessionInv'
  BY TypeStep, SessionStep
<1>. QED
  BY <1>1, SessionInit, PTL DEF Spec

\* A success without a result has one of the three causes the property names.
THEOREM EmptySuccess == Spec => []EmptySuccessExplained
<1>1. SessionInv => EmptySuccessExplained
  BY DEF SessionInv
<1>. QED
  BY <1>1, SessionCorrect, PTL

\* The miner hears of success and failure only when the parent gave up or a shutdown came.
THEOREM Contradiction == Spec => []OneVoice
<1>1. SessionInv => OneVoice
  BY DEF SessionInv
<1>. QED
  BY <1>1, SessionCorrect, PTL

\* What computes on after a session is over came up too late, or was shut down in the daemon.
THEOREM StillWhenOver == Spec => []OverIsStill
<1>1. SessionInv => OverIsStill
  BY DEF SessionInv
<1>. QED
  BY <1>1, SessionCorrect, PTL

\* A session that is over without a word had its report lost, or nobody to make it.
THEOREM Silence == Spec => []SilenceExplained
<1>1. SessionInv => SilenceExplained
  BY DEF SessionInv
<1>. QED
  BY <1>1, SessionCorrect, PTL
===============================================================================
