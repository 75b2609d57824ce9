--------------------------- MODULE PoStSubmitProofs ---------------------------
(***************************************************************************)
(* Proofs about the submission of window PoSts, for any number of workers, *)
(* partitions, sectors, deadlines and resets.                              *)
(***************************************************************************)
EXTENDS PoStSubmit, FiniteSetTheorems, TLAPS

-------------------------------------------------------------------------------
(* Types.                                                                  *)

\* The parts of the type, one for each kind of variable.
EnvType == now \in Deadlines /\ setup \in Setups /\ rows \subseteq Sectors
WorkerType == opened \in [Workers -> 0..MaxDeadline] /\ jobs \subseteq Job
MapType ==
  /\ map \in Maps /\ locked \in [Maps -> BOOLEAN]
  /\ postMap \in [Parts -> 0..(MaxChan + 1)] /\ closeMap \in 0..MaxChan
  /\ map <= resets + 1       \* one map for each reset since the miner started
ChanType == chan \in [Chans -> Seq(Transfer)] /\ \A g \in Chans : Len(chan[g]) <= ChanCap
SubType == sub \in [Chans -> Goroutine]
SignalType ==
  /\ signals \in [Chans -> 0..MaxOps]
  /\ \A g \in Chans : signals[g] <= ops
SeenType ==
  /\ pushed \in [Deadlines -> [Parts -> Nat]]
  /\ crossed \in BOOLEAN /\ fatal \in BOOLEAN
OpType == clean \in 0..Dirty /\ resets \in 0..MaxResets /\ ops \in 0..MaxOps
AgainType == again \in [Deadlines -> Nat]

TypeInv ==
  /\ EnvType /\ WorkerType /\ MapType /\ ChanType
  /\ SubType /\ SignalType /\ SeenType /\ OpType /\ AgainType

LEMMA TypeInvType == TypeInv => TypeOK
  BY DEF TypeInv, TypeOK, EnvType, WorkerType, MapType, ChanType, SubType, SignalType,
         SeenType, OpType, AgainType

LEMMA Bounds ==
  /\ MaxDeadline \in Nat /\ MaxDeadline > 0 /\ MaxChan \in Nat /\ MaxOps \in Nat
  /\ MaxResets \in Nat /\ ChanCap \in Nat /\ ChanCap > 0
  BY PoStAssumption

LEMMA NoSubType ==
  /\ NoSub \in Goroutine /\ NoSub.stage = "free" /\ NoSub.added = {} /\ NoSub.fault = {}
  /\ ~NoSub.whole /\ NoSub.dl = 0
<1>1. (CHOOSE p \in Parts : TRUE) \in Parts
  BY PoStAssumption
<1>2. 0 \in 0..MaxDeadline
  BY Bounds
<1> QED  BY <1>1, <1>2 DEF NoSub, Goroutine, Ended, Proved

LEMMA TypeInit == Init => TypeInv
<1> SUFFICES ASSUME Init PROVE TypeInv
  OBVIOUS
<1>1. EnvType
  <2>1. setup.rows \subseteq Sectors
    BY PoStAssumption DEF Init
  <2> QED  BY <2>1, Bounds DEF Init, EnvType, Deadlines
<1>2. WorkerType
  BY Bounds DEF Init, WorkerType
<1>3. MapType
  BY Bounds DEF Init, MapType, Maps, Absent, Nil
<1>4. ChanType
  BY Bounds DEF Init, ChanType
<1>5. SubType
  BY NoSubType DEF Init, SubType
<1>6. SignalType /\ OpType /\ AgainType
  BY Bounds DEF Init, SignalType, OpType, AgainType, Dirty
<1>7. SeenType
  BY DEF Init, SeenType
<1> QED  BY <1>1, <1>2, <1>3, <1>4, <1>5, <1>6, <1>7 DEF TypeInv

-------------------------------------------------------------------------------
(* Jobs.                                                                   *)

\* A job that moves on keeps its name.
LEMMA GoesType ==
  ASSUME NEW j \in Job, NEW s \in {"out", "send"}, NEW g \in 0..MaxChan
  PROVE  LET i == [j EXCEPT !.stage = s, !.to = g] IN
         /\ i \in Job /\ i.stage = s /\ i.to = g
         /\ i.by = j.by /\ i.dl = j.dl /\ i.part = j.part /\ i.key = j.key
         /\ i.lock = j.lock /\ i.unlock = j.unlock
         /\ i.proved = j.proved /\ i.fault = j.fault
  BY DEF Job

LEMMA LockType ==
  ASSUME NEW j \in Job, map \in Maps
  PROVE  LET i == [j EXCEPT !.stage = "in", !.unlock = map] IN
         /\ i \in Job /\ i.stage = "in" /\ i.to = j.to
         /\ i.by = j.by /\ i.dl = j.dl /\ i.part = j.part /\ i.key = j.key
         /\ i.lock = j.lock /\ i.unlock = map
         /\ i.proved = j.proved /\ i.fault = j.fault
  BY DEF Job

LEMMA ProofType ==
  ASSUME NEW j \in Job, map \in Maps, NEW p \in SUBSET Sectors, NEW f \in SUBSET Sectors
  PROVE  LET i == [j EXCEPT !.stage = "wait", !.proved = p, !.fault = f, !.lock = map] IN
         /\ i \in Job /\ i.stage = "wait" /\ i.to = j.to
         /\ i.by = j.by /\ i.dl = j.dl /\ i.part = j.part /\ i.key = j.key
         /\ i.lock = map /\ i.unlock = j.unlock /\ i.proved = p /\ i.fault = f
  BY DEF Job

LEMMA SearchedType ==
  ASSUME TypeInv, NEW w \in Provers, NEW n \in 0..MaxOps, NEW key \in BOOLEAN
  PROVE  Searched(w, n, key) \subseteq Job
<1>1. w \in Workers /\ setup.parts \subseteq Parts /\ now \in 1..MaxDeadline /\ jobs \subseteq Job
  BY PoStAssumption DEF TypeInv, EnvType, WorkerType, Provers, Deadlines
<1>2. 1 \in Maps /\ 0 \in 0..MaxChan
  BY Bounds DEF Maps
<1> QED  BY <1>1, <1>2 DEF Searched, Job, Deadlines

-------------------------------------------------------------------------------
(* Each part of the type is kept.                                          *)

\* The chain, the instance and the table.
LEMMA EnvStep ==
  ASSUME TypeInv, [Next]_vars
  PROVE  EnvType'
<1>0. EnvType
  BY DEF TypeInv
<1>1. CASE NextDeadline
  BY <1>0, <1>1, Bounds DEF NextDeadline, EnvType, Deadlines
<1>2. ASSUME NEW w \in Workers, WinPoStServer(w) PROVE EnvType'
  BY <1>0, <1>2 DEF WinPoStServer, EnvType
<1>3. ASSUME NEW j \in jobs, GeneratePoStProof(j) PROVE EnvType'
  BY <1>0, <1>3 DEF GeneratePoStProof, EnvType
<1>4. ASSUME NEW j \in jobs, Lock(j) PROVE EnvType'
  BY <1>0, <1>4 DEF Lock, EnvType
<1>5. ASSUME NEW j \in jobs, SendToOld(j) PROVE EnvType'
  BY <1>0, <1>5 DEF SendToOld, EnvType
<1>6. ASSUME NEW j \in jobs, SendToNew(j) PROVE EnvType'
  BY <1>0, <1>6 DEF SendToNew, EnvType
<1>7. ASSUME NEW j \in jobs, Sent(j) PROVE EnvType'
  BY <1>0, <1>7 DEF Sent, EnvType
<1>8. ASSUME NEW j \in jobs, Unlock(j) PROVE EnvType'
  BY <1>0, <1>8 DEF Unlock, MinerStarts, EnvType
<1>9. ASSUME NEW g \in Chans, Take(g) PROVE EnvType'
  BY <1>0, <1>9 DEF Take, EnvType
<1>10. ASSUME NEW g \in Chans, Timeout(g) PROVE EnvType'
  BY <1>0, <1>10 DEF Timeout, EnvType
<1>11. ASSUME NEW g \in Chans, Aborted(g) PROVE EnvType'
  BY <1>0, <1>11 DEF Aborted, EnvType
<1>12. ASSUME NEW g \in Chans, Clear(g) PROVE EnvType'
  BY <1>0, <1>12 DEF Clear, EnvType
<1>13. ASSUME NEW g \in Chans, Submit(g) PROVE EnvType'
  BY <1>0, <1>13 DEF Submit, EnvType
<1>14. ASSUME NEW w \in Workers, RetryWinPoSt(w) PROVE EnvType'
  BY <1>0, <1>14 DEF RetryWinPoSt, EnvType
<1>15. ASSUME NEW w \in Workers, AddPoStActor(w) PROVE EnvType'
  BY <1>0, <1>15 DEF AddPoStActor, EnvType
<1>16. ASSUME NEW w \in Workers, WorkerCrash(w) PROVE EnvType'
  BY <1>0, <1>16 DEF WorkerCrash, EnvType
<1>17. ASSUME NEW j \in jobs, TransferLost(j) PROVE EnvType'
  BY <1>0, <1>17 DEF TransferLost, EnvType
<1>18. CASE AbortPoSt
  BY <1>0, <1>18 DEF AbortPoSt, EnvType
<1>19. CASE ResetSyncPoStMap
  BY <1>0, <1>19 DEF ResetSyncPoStMap, EnvType
<1>20. CASE ReFindPoStTable
  BY <1>0, <1>20 DEF ReFindPoStTable, EnvType
<1>21. CASE MinerCrash
  BY <1>0, <1>21 DEF MinerCrash, MinerStarts, EnvType
<1>22. CASE UNCHANGED vars
  BY <1>0, <1>22 DEF vars, EnvType
<1> QED
  BY <1>1, <1>2, <1>3, <1>4, <1>5, <1>6, <1>7, <1>8, <1>9, <1>10, <1>11, <1>12,
     <1>13, <1>14, <1>15, <1>16, <1>17, <1>18, <1>19, <1>20, <1>21, <1>22
  DEF Next, WorkerStep, CallStep, SubStep, Operator

\* The workers and their calls.
LEMMA WorkerTypeStep ==
  ASSUME TypeInv, [Next]_vars
  PROVE  WorkerType'
<1>0. WorkerType
  BY DEF TypeInv
<1>a. map \in Maps /\ now \in 1..MaxDeadline /\ ops \in 0..MaxOps /\ rows \subseteq Sectors
  BY DEF TypeInv, EnvType, MapType, OpType, Deadlines
<1>b. setup.cli \in BOOLEAN
  BY PoStAssumption DEF TypeInv, EnvType
<1>c. 0 \in 0..MaxChan
  BY Bounds
<1>1. CASE NextDeadline
  BY <1>0, <1>1 DEF NextDeadline, workerVars, WorkerType
<1>2. ASSUME NEW w \in Workers, WinPoStServer(w) PROVE WorkerType'
  <2>1. Searched(w, ops, ~setup.cli) \subseteq Job
    BY <1>2, <1>a, <1>b, SearchedType DEF WinPoStServer
  <2> QED  BY <1>0, <1>a, <2>1, <1>2 DEF WinPoStServer, WorkerType
<1>3. ASSUME NEW j \in jobs, GeneratePoStProof(j) PROVE WorkerType'
  <2>1. PICK bad \in SUBSET (rows \cap setup.disk[j.by]) :
          LET ok == (rows \cap setup.disk[j.by]) \ bad IN
          jobs' = (jobs \ {j}) \cup
            (IF rows = {} THEN {}
             ELSE {[j EXCEPT !.stage = "wait", !.proved = ok, !.fault = rows \ ok, !.lock = map]})
    BY <1>3 DEF GeneratePoStProof
  <2> DEFINE ok == (rows \cap setup.disk[j.by]) \ bad
             i == [j EXCEPT !.stage = "wait", !.proved = ok, !.fault = rows \ ok, !.lock = map]
  <2>2. i \in Job
    BY <1>0, <1>a, ProofType DEF WorkerType
  <2>3. jobs' \subseteq (jobs \ {j}) \cup {i} /\ opened' = opened
    BY <2>1, <1>3 DEF GeneratePoStProof
  <2> QED  BY <1>0, <2>2, <2>3 DEF WorkerType
<1>4. ASSUME NEW j \in jobs, Lock(j) PROVE WorkerType'
  <2>1. [j EXCEPT !.stage = "in", !.unlock = map] \in Job
    BY <1>0, <1>a, LockType DEF WorkerType
  <2> QED  BY <1>0, <2>1, <1>4 DEF Lock, WorkerType
<1>5. ASSUME NEW j \in jobs, SendToOld(j) PROVE WorkerType'
  <2>1. /\ [j EXCEPT !.stage = "out", !.to = 0] \in Job
        /\ postMap[j.part] \in Chans => [j EXCEPT !.stage = "send", !.to = postMap[j.part]] \in Job
    <3>1. 0 \in 0..MaxChan /\ (postMap[j.part] \in Chans => postMap[j.part] \in 0..MaxChan)
      BY Bounds DEF Chans
    <3> QED  BY <1>0, <3>1, GoesType DEF WorkerType
  <2> QED  BY <1>0, <2>1, <1>5 DEF SendToOld, Goes, WorkerType
<1>6. ASSUME NEW j \in jobs, SendToNew(j) PROVE WorkerType'
  <2>1. [j EXCEPT !.stage = "out", !.to = 0] \in Job
    BY <1>0, <1>c, GoesType DEF WorkerType
  <2> QED  BY <1>0, <2>1, <1>6 DEF SendToNew, Goes, WorkerType
<1>7. ASSUME NEW j \in jobs, Sent(j) PROVE WorkerType'
  <2>1. [j EXCEPT !.stage = "out", !.to = 0] \in Job
    BY <1>0, <1>c, GoesType DEF WorkerType
  <2> QED  BY <1>0, <2>1, <1>7 DEF Sent, Goes, WorkerType
<1>8. ASSUME NEW j \in jobs, Unlock(j) PROVE WorkerType'
  BY <1>0, <1>8 DEF Unlock, MinerStarts, WorkerType
<1>9. ASSUME NEW g \in Chans, Take(g) PROVE WorkerType'
  BY <1>0, <1>9 DEF Take, workerVars, WorkerType
<1>10. ASSUME NEW g \in Chans, Timeout(g) PROVE WorkerType'
  BY <1>0, <1>10 DEF Timeout, workerVars, WorkerType
<1>11. ASSUME NEW g \in Chans, Aborted(g) PROVE WorkerType'
  BY <1>0, <1>11 DEF Aborted, workerVars, WorkerType
<1>12. ASSUME NEW g \in Chans, Clear(g) PROVE WorkerType'
  BY <1>0, <1>12 DEF Clear, workerVars, WorkerType
<1>13. ASSUME NEW g \in Chans, Submit(g) PROVE WorkerType'
  BY <1>0, <1>13 DEF Submit, workerVars, WorkerType
<1>14. ASSUME NEW w \in Workers, RetryWinPoSt(w) PROVE WorkerType'
  <2>1. Searched(w, ops + 1, TRUE) \subseteq Job
    <3>1. w \in Provers /\ ops + 1 \in 0..MaxOps
      BY <1>14, <1>a, Bounds DEF RetryWinPoSt, Spend, SpendFor
    <3> QED  BY <3>1, SearchedType
  <2> QED  BY <1>0, <2>1, <1>14 DEF RetryWinPoSt, WorkerType
<1>15. ASSUME NEW w \in Workers, AddPoStActor(w) PROVE WorkerType'
  BY <1>0, <1>15, Bounds DEF AddPoStActor, WorkerType
<1>16. ASSUME NEW w \in Workers, WorkerCrash(w) PROVE WorkerType'
  BY <1>0, <1>16, Bounds DEF WorkerCrash, WorkerType
<1>17. ASSUME NEW j \in jobs, TransferLost(j) PROVE WorkerType'
  BY <1>0, <1>17 DEF TransferLost, WorkerType
<1>18. CASE AbortPoSt
  BY <1>0, <1>18 DEF AbortPoSt, workerVars, WorkerType
<1>19. CASE ResetSyncPoStMap
  BY <1>0, <1>19 DEF ResetSyncPoStMap, workerVars, WorkerType
<1>20. CASE ReFindPoStTable
  BY <1>0, <1>20 DEF ReFindPoStTable, workerVars, WorkerType
<1>21. CASE MinerCrash
  BY <1>0, <1>21 DEF MinerCrash, MinerStarts, WorkerType
<1>22. CASE UNCHANGED vars
  BY <1>0, <1>22 DEF vars, WorkerType
<1> QED
  BY <1>1, <1>2, <1>3, <1>4, <1>5, <1>6, <1>7, <1>8, <1>9, <1>10, <1>11, <1>12,
     <1>13, <1>14, <1>15, <1>16, <1>17, <1>18, <1>19, <1>20, <1>21, <1>22
  DEF Next, WorkerStep, CallStep, SubStep, Operator

\* The maps that resets and restarts of the miner make.
LEMMA MapTypeStep ==
  ASSUME TypeInv, [Next]_vars
  PROVE  MapType'
<1>0. MapType /\ jobs \subseteq Job /\ sub \in [Chans -> Goroutine] /\ resets \in Nat
  BY Bounds DEF TypeInv, WorkerType, SubType, OpType
<1>1. CASE NextDeadline
  BY <1>0, <1>1 DEF NextDeadline, mapVars, Spend, SpendFor, opVars, MapType
<1>2. ASSUME NEW w \in Workers, WinPoStServer(w) PROVE MapType'
  BY <1>0, <1>2 DEF WinPoStServer, mapVars, opVars, MapType
<1>3. ASSUME NEW j \in jobs, GeneratePoStProof(j) PROVE MapType'
  BY <1>0, <1>3 DEF GeneratePoStProof, mapVars, Spend, SpendFor, opVars, MapType
<1>4. ASSUME NEW j \in jobs, Lock(j) PROVE MapType'
  BY <1>0, <1>4 DEF Lock, opVars, MapType
<1>5. ASSUME NEW j \in jobs, SendToOld(j) PROVE MapType'
  BY <1>0, <1>5 DEF SendToOld, mapVars, opVars, MapType
<1>6. ASSUME NEW j \in jobs, SendToNew(j) PROVE MapType'
  <2>1. j.part \in Parts
    BY <1>0 DEF Job
  <2>2. PICK g \in Chans : postMap' = [postMap EXCEPT ![j.part] = g]
    BY <1>6 DEF SendToNew
  <2>3. g \in 0..(MaxChan + 1)
    BY Bounds DEF Chans
  <2>4. UNCHANGED <<map, locked, closeMap, resets>>
    BY <1>6 DEF SendToNew, opVars
  <2> QED  BY <1>0, <2>1, <2>2, <2>3, <2>4 DEF MapType
<1>7. ASSUME NEW j \in jobs, Sent(j) PROVE MapType'
  BY <1>0, <1>7 DEF Sent, mapVars, opVars, MapType
<1>8. ASSUME NEW j \in jobs, Unlock(j) PROVE MapType'
  <2>1. resets' = resets
    BY <1>8 DEF Unlock, opVars
  <2>2. CASE locked[j.unlock] /\ locked' = [locked EXCEPT ![j.unlock] = FALSE] /\ UNCHANGED <<map, postMap, closeMap>>
    BY <1>0, <2>1, <2>2 DEF MapType
  <2>3. CASE MinerStarts
    BY <1>0, <2>1, <2>3, Bounds DEF MinerStarts, EmptyMap, MapType, Maps, Absent, Nil
  <2> QED  BY <2>2, <2>3, <1>8 DEF Unlock
<1>9. ASSUME NEW g \in Chans, Take(g) PROVE MapType'
  BY <1>0, <1>9 DEF Take, MapType, Chans, opVars
<1>10. ASSUME NEW g \in Chans, Timeout(g) PROVE MapType'
  BY <1>0, <1>10 DEF Timeout, mapVars, opVars, MapType
<1>11. ASSUME NEW g \in Chans, Aborted(g) PROVE MapType'
  BY <1>0, <1>11 DEF Aborted, mapVars, opVars, MapType
<1>12. ASSUME NEW g \in Chans, Clear(g) PROVE MapType'
  <2>1. UNCHANGED <<map, locked, resets>> /\ (closeMap' = Nil \/ closeMap' = closeMap)
    BY <1>12 DEF Clear, opVars
  <2>2. CASE sub[g].added = {}
    <3>1. postMap' = postMap
      BY <1>12, <2>2 DEF Clear
    <3> QED  BY <1>0, <2>1, <3>1, Bounds DEF MapType, Nil
  <2>3. CASE sub[g].added # {}
    <3>1. postMap' = [postMap EXCEPT ![sub[g].part] = IF @ = Absent THEN Absent ELSE Nil]
      BY <1>12, <2>3 DEF Clear
    <3>2. \A p \in Parts : postMap'[p] \in 0..(MaxChan + 1)
      BY <1>0, <3>1, Bounds DEF MapType, Nil, Absent
    <3>3. postMap' = [p \in Parts |-> postMap'[p]]
      BY <1>0, <3>1 DEF MapType
    <3>4. postMap' \in [Parts -> 0..(MaxChan + 1)]
      BY <3>2, <3>3
    <3> QED  BY <1>0, <2>1, <3>4, Bounds DEF MapType, Nil
  <2> QED  BY <2>2, <2>3
<1>13. ASSUME NEW g \in Chans, Submit(g) PROVE MapType'
  BY <1>0, <1>13 DEF Submit, mapVars, Spend, SpendFor, opVars, MapType
<1>14. ASSUME NEW w \in Workers, RetryWinPoSt(w) PROVE MapType'
  BY <1>0, <1>14 DEF RetryWinPoSt, mapVars, Spend, SpendFor, MapType
<1>15. ASSUME NEW w \in Workers, AddPoStActor(w) PROVE MapType'
  BY <1>0, <1>15 DEF AddPoStActor, mapVars, Spend, SpendFor, MapType
<1>16. ASSUME NEW w \in Workers, WorkerCrash(w) PROVE MapType'
  BY <1>0, <1>16 DEF WorkerCrash, mapVars, Spend, SpendFor, MapType
<1>17. ASSUME NEW j \in jobs, TransferLost(j) PROVE MapType'
  BY <1>0, <1>17 DEF TransferLost, mapVars, Spend, SpendFor, MapType
<1>18. CASE AbortPoSt
  BY <1>0, <1>18 DEF AbortPoSt, mapVars, Spend, SpendFor, MapType
<1>19. CASE ResetSyncPoStMap
  BY <1>0, <1>19, Bounds DEF ResetSyncPoStMap, Resetting, EmptyMap, MapType, Maps, Absent, Nil
<1>20. CASE ReFindPoStTable
  BY <1>0, <1>20 DEF ReFindPoStTable, mapVars, Spend, SpendFor, MapType
<1>21. CASE MinerCrash
  BY <1>0, <1>21, Bounds DEF MinerCrash, Spend, SpendFor, MinerStarts, EmptyMap, MapType, Maps, Absent, Nil
<1>22. CASE UNCHANGED vars
  BY <1>0, <1>22 DEF vars, MapType
<1> QED
  BY <1>1, <1>2, <1>3, <1>4, <1>5, <1>6, <1>7, <1>8, <1>9, <1>10, <1>11, <1>12,
     <1>13, <1>14, <1>15, <1>16, <1>17, <1>18, <1>19, <1>20, <1>21, <1>22
  DEF Next, WorkerStep, CallStep, SubStep, Operator

\* The transfers in a channel, and the three ways it changes.
LEMMA EntryType ==
  ASSUME NEW j \in Job
  PROVE  /\ Entry(j) \in Transfer
         /\ Entry(j).dl = j.dl /\ Entry(j).proved = j.proved /\ Entry(j).fault = j.fault
  BY DEF Entry, Transfer, Job, Deadlines

LEMMA ChanPut ==
  ASSUME ChanType, NEW g \in Chans, NEW s \in Seq(Transfer), Len(s) <= ChanCap,
         chan' = [chan EXCEPT ![g] = s]
  PROVE  ChanType' /\ chan'[g] = s /\ \A h \in Chans : h # g => chan'[h] = chan[h]
  BY DEF ChanType

LEMMA ChanAppend ==
  ASSUME ChanType, NEW g \in Chans, NEW t \in Transfer, Len(chan[g]) < ChanCap
  PROVE  /\ Append(chan[g], t) \in Seq(Transfer) /\ Len(Append(chan[g], t)) <= ChanCap
         /\ chan[g] \in Seq(Transfer) /\ Len(Append(chan[g], t)) = Len(chan[g]) + 1
<1>1. chan[g] \in Seq(Transfer) /\ Len(chan[g]) \in Nat
  BY DEF ChanType
<1>2. Append(chan[g], t) \in Seq(Transfer) /\ Len(Append(chan[g], t)) = Len(chan[g]) + 1
  BY <1>1
<1> QED  BY <1>1, <1>2, Bounds

LEMMA ChanTake ==
  ASSUME ChanType, NEW g \in Chans, chan[g] # <<>>
  PROVE  /\ Tail(chan[g]) \in Seq(Transfer) /\ Len(Tail(chan[g])) <= ChanCap
         /\ Head(chan[g]) \in Transfer /\ chan[g] \in Seq(Transfer)
         /\ Len(chan[g]) \in Nat \ {0} /\ Len(Tail(chan[g])) = Len(chan[g]) - 1
<1>1. chan[g] \in Seq(Transfer) /\ Len(chan[g]) <= ChanCap
  BY DEF ChanType
<1>2. Tail(chan[g]) \in Seq(Transfer) /\ Len(Tail(chan[g])) = Len(chan[g]) - 1 /\ Len(chan[g]) \in Nat \ {0}
  BY <1>1
<1>3. Head(chan[g]) \in Transfer
  BY <1>1
<1> QED  BY <1>1, <1>2, <1>3, Bounds

\* The channels.
LEMMA ChanTypeStep ==
  ASSUME TypeInv, [Next]_vars
  PROVE  ChanType'
<1>0. ChanType /\ jobs \subseteq Job
  BY DEF TypeInv, WorkerType
<1>a. <<>> \in Seq(Transfer) /\ Len(<<>>) = 0 /\ Len(<<>>) <= ChanCap /\ 1 <= ChanCap
  BY Bounds
<1>1. CASE NextDeadline
  BY <1>0, <1>1 DEF NextDeadline, subVars, ChanType
<1>2. ASSUME NEW w \in Workers, WinPoStServer(w) PROVE ChanType'
  BY <1>0, <1>2 DEF WinPoStServer, subVars, ChanType
<1>3. ASSUME NEW j \in jobs, GeneratePoStProof(j) PROVE ChanType'
  BY <1>0, <1>3 DEF GeneratePoStProof, subVars, ChanType
<1>4. ASSUME NEW j \in jobs, Lock(j) PROVE ChanType'
  BY <1>0, <1>4 DEF Lock, subVars, ChanType
<1>5. ASSUME NEW j \in jobs, SendToOld(j) PROVE ChanType'
  <2> DEFINE g == postMap[j.part]
  <2>1. Entry(j) \in Transfer
    BY <1>0, EntryType
  <2>2. CASE chan' = [chan EXCEPT ![g] = Append(@, Entry(j))] /\ Len(chan[g]) < ChanCap
    <3>1. g \in Chans /\ chan' = [chan EXCEPT ![g] = Append(chan[g], Entry(j))]
      BY <1>5, <1>0, <2>2 DEF SendToOld, ChanType
    <3> QED  BY <1>0, <2>1, <2>2, <3>1, ChanAppend, ChanPut
  <2>3. CASE chan' = chan
    BY <1>0, <2>3 DEF ChanType
  <2> QED  BY <1>5, <2>2, <2>3 DEF SendToOld
<1>6. ASSUME NEW j \in jobs, SendToNew(j) PROVE ChanType'
  <2>1. Entry(j) \in Transfer
    BY <1>0, EntryType
  <2>2. PICK g \in Chans : chan' = [chan EXCEPT ![g] = <<Entry(j)>>]
    BY <1>6 DEF SendToNew
  <2>3. <<Entry(j)>> \in Seq(Transfer) /\ Len(<<Entry(j)>>) = 1
    BY <2>1
  <2> QED  BY <1>0, <1>a, <2>2, <2>3, ChanPut
<1>7. ASSUME NEW j \in jobs, Sent(j) PROVE ChanType'
  <2>1. Entry(j) \in Transfer
    BY <1>0, EntryType
  <2>2. CASE j.to \in Chans
    <3>1. Len(chan[j.to]) < ChanCap /\ chan' = [chan EXCEPT ![j.to] = Append(chan[j.to], Entry(j))]
      BY <1>7, <1>0, <2>2 DEF Sent, ChanType
    <3> QED  BY <1>0, <2>1, <2>2, <3>1, ChanAppend, ChanPut
  <2>3. CASE j.to \notin Chans
    BY <1>7, <1>0, <2>3 DEF Sent, ChanType
  <2> QED  BY <2>2, <2>3
<1>8. ASSUME NEW j \in jobs, Unlock(j) PROVE ChanType'
  <2>1. CASE chan' = [g \in Chans |-> <<>>]
    BY <1>a, <2>1 DEF ChanType
  <2>2. CASE chan' = chan
    BY <1>0, <2>2 DEF ChanType
  <2> QED  BY <1>8, <2>1, <2>2 DEF Unlock, MinerStarts, subVars
<1>9. ASSUME NEW g \in Chans, Take(g) PROVE ChanType'
  <2>1. chan[g] # <<>> /\ chan' = [chan EXCEPT ![g] = Tail(chan[g])]
    BY <1>9, <1>0 DEF Take, ChanType
  <2> QED  BY <1>0, <2>1, ChanTake, ChanPut
<1>10. ASSUME NEW g \in Chans, Timeout(g) PROVE ChanType'
  BY <1>0, <1>10 DEF Timeout, ChanType
<1>11. ASSUME NEW g \in Chans, Aborted(g) PROVE ChanType'
  BY <1>0, <1>11 DEF Aborted, ChanType
<1>12. ASSUME NEW g \in Chans, Clear(g) PROVE ChanType'
  BY <1>0, <1>12 DEF Clear, ChanType
<1>13. ASSUME NEW g \in Chans, Submit(g) PROVE ChanType'
  <2>1. CASE chan' = chan
    BY <1>0, <2>1 DEF ChanType
  <2>2. CASE chan' = [chan EXCEPT ![g] = <<>>]
    BY <1>0, <1>a, <2>2, ChanPut
  <2> QED  BY <1>13, <2>1, <2>2 DEF Submit
<1>14. ASSUME NEW w \in Workers, RetryWinPoSt(w) PROVE ChanType'
  BY <1>0, <1>14 DEF RetryWinPoSt, subVars, ChanType
<1>15. ASSUME NEW w \in Workers, AddPoStActor(w) PROVE ChanType'
  BY <1>0, <1>15 DEF AddPoStActor, subVars, ChanType
<1>16. ASSUME NEW w \in Workers, WorkerCrash(w) PROVE ChanType'
  BY <1>0, <1>16 DEF WorkerCrash, subVars, ChanType
<1>17. ASSUME NEW j \in jobs, TransferLost(j) PROVE ChanType'
  BY <1>0, <1>17 DEF TransferLost, subVars, ChanType
<1>18. CASE AbortPoSt
  BY <1>0, <1>18 DEF AbortPoSt, ChanType
<1>19. CASE ResetSyncPoStMap
  BY <1>0, <1>19 DEF ResetSyncPoStMap, subVars, ChanType
<1>20. CASE ReFindPoStTable
  BY <1>0, <1>20 DEF ReFindPoStTable, subVars, ChanType
<1>21. CASE MinerCrash
  <2>1. CASE chan' = [g \in Chans |-> <<>>]
    BY <1>a, <2>1 DEF ChanType
  <2>2. CASE chan' = chan
    BY <1>0, <2>2 DEF ChanType
  <2> QED  BY <1>21, <2>1, <2>2 DEF MinerCrash, MinerStarts
<1>22. CASE UNCHANGED vars
  BY <1>0, <1>22 DEF vars, ChanType
<1> QED
  BY <1>1, <1>2, <1>3, <1>4, <1>5, <1>6, <1>7, <1>8, <1>9, <1>10, <1>11, <1>12,
     <1>13, <1>14, <1>15, <1>16, <1>17, <1>18, <1>19, <1>20, <1>21, <1>22
  DEF Next, WorkerStep, CallStep, SubStep, Operator

\* The states of a goroutine.
LEMMA SubPut ==
  ASSUME SubType, NEW g \in Chans, NEW x \in Goroutine, sub' = [sub EXCEPT ![g] = x]
  PROVE  SubType' /\ sub'[g] = x /\ \A h \in Chans : h # g => sub'[h] = sub[h]
  BY DEF SubType

LEMMA EndedType ==
  ASSUME SubType, NEW g \in Chans, NEW how \in Ended
  PROVE  LET x == [NoSub EXCEPT !.stage = how, !.part = sub[g].part] IN
         /\ x \in Goroutine /\ x.stage = how /\ x.part = sub[g].part
         /\ x.added = {} /\ x.fault = {} /\ ~x.whole /\ x.dl = 0
  BY NoSubType DEF SubType, Goroutine

\* A goroutine that ends.
LEMMA EndsType ==
  ASSUME SubType, NEW g \in Chans, NEW how \in Ended, Ends(g, how)
  PROVE  /\ SubType' /\ sub'[g].stage = how /\ sub'[g].part = sub[g].part
         /\ sub'[g].added = {} /\ sub'[g].fault = {} /\ ~sub'[g].whole
         /\ \A h \in Chans : h # g => sub'[h] = sub[h]
<1> DEFINE x == [NoSub EXCEPT !.stage = how, !.part = sub[g].part]
<1>1. sub' = [sub EXCEPT ![g] = x]
  BY DEF Ends
<1>2. /\ x \in Goroutine /\ x.stage = how /\ x.part = sub[g].part
      /\ x.added = {} /\ x.fault = {} /\ ~x.whole
  BY EndedType
<1> HIDE DEF x
<1> QED  BY <1>1, <1>2, SubPut

\* A goroutine that starts, and one that has taken a transfer.
LEMMA StartedType ==
  ASSUME NEW j \in Job
  PROVE  LET x == [NoSub EXCEPT !.stage = "collect", !.part = j.part, !.born = j.dl, !.key = j.key] IN
         /\ x \in Goroutine /\ x.stage = "collect" /\ x.part = j.part /\ x.key = j.key
         /\ x.born = j.dl /\ x.added = {} /\ x.fault = {} /\ ~x.whole /\ x.dl = 0
<1>1. j.dl \in 0..MaxDeadline
  BY Bounds DEF Job, Deadlines
<1> QED  BY <1>1, NoSubType DEF Job, Goroutine

\* What Take makes of a goroutine and the transfer at the head of its channel.
TakeDl(g) == IF sub[g].dl = 0 THEN Head(chan[g]).dl ELSE sub[g].dl
TakeAdded(g) == Merged(sub[g].added, Head(chan[g]).dl, Head(chan[g]).proved)
TakeFault(g) == Merged(sub[g].fault, Head(chan[g]).dl, Head(chan[g]).fault)
LEMMA TakenType ==
  ASSUME SubType, ChanType, NEW g \in Chans, chan[g] # <<>>
  PROVE  /\ Taken(g) \in Goroutine /\ Taken(g).part = sub[g].part
         /\ Taken(g).dl = TakeDl(g) /\ Taken(g).added = TakeAdded(g) /\ Taken(g).fault = TakeFault(g)
         /\ Taken(g).whole = (sub[g].whole \/ Head(chan[g]).proved = Sectors)
         /\ Taken(g).key = sub[g].key /\ Taken(g).born = sub[g].born
         /\ Taken(g).stage = IF Complete(TakeAdded(g), TakeFault(g)) THEN "full" ELSE "collect"
<1>1. sub[g] \in Goroutine
  BY DEF SubType
<1>2. Head(chan[g]) \in Transfer
  BY ChanTake
<1>3. TakeAdded(g) \in Proved /\ TakeFault(g) \in Proved
  BY <1>1, <1>2 DEF TakeAdded, TakeFault, Merged, Proved, Goroutine, Transfer
<1>4. TakeDl(g) \in 0..MaxDeadline
  BY <1>1, <1>2, Bounds DEF TakeDl, Goroutine, Transfer, Deadlines
<1>5. (sub[g].whole \/ Head(chan[g]).proved = Sectors) \in BOOLEAN
  OBVIOUS
<1> DEFINE s == IF Complete(TakeAdded(g), TakeFault(g)) THEN "full" ELSE "collect"
<1>6. s \in {"full", "collect"}
  OBVIOUS
<1> HIDE DEF s
<1>7. Taken(g) = [sub[g] EXCEPT !.dl = TakeDl(g), !.added = TakeAdded(g), !.fault = TakeFault(g),
                 !.whole = (sub[g].whole \/ Head(chan[g]).proved = Sectors), !.stage = s]
  BY <1>1 DEF Taken, TakeDl, TakeAdded, TakeFault, s, Goroutine
<1> QED  BY <1>1, <1>3, <1>4, <1>5, <1>6, <1>7 DEF Goroutine, s
LEMMA TakeStep ==
  ASSUME SubType, ChanType, NEW g \in Chans, Take(g)
  PROVE  SubType' /\ sub'[g] = Taken(g) /\ \A h \in Chans : h # g => sub'[h] = sub[h]
<1>1. sub' = [sub EXCEPT ![g] = Taken(g)] /\ chan[g] # <<>>
  BY DEF Take
<1> QED  BY <1>1, TakenType, SubPut

\* Of a goroutine that goes on to prove only the stage changes.
LEMMA ProveType ==
  ASSUME SubType, NEW g \in Chans, sub' = [sub EXCEPT ![g].stage = "prove"]
  PROVE  /\ SubType' /\ sub'[g].stage = "prove" /\ sub'[g].part = sub[g].part
         /\ sub'[g].added = sub[g].added /\ sub'[g].fault = sub[g].fault
         /\ sub'[g].whole = sub[g].whole /\ sub'[g].dl = sub[g].dl /\ sub'[g].key = sub[g].key
         /\ sub'[g].born = sub[g].born
         /\ \A h \in Chans : h # g => sub'[h] = sub[h]
<1> DEFINE x == [sub[g] EXCEPT !.stage = "prove"]
<1>1. sub' = [sub EXCEPT ![g] = x]
  BY DEF SubType
<1>2. /\ x \in Goroutine /\ x.stage = "prove" /\ x.part = sub[g].part
      /\ x.added = sub[g].added /\ x.fault = sub[g].fault
      /\ x.whole = sub[g].whole /\ x.dl = sub[g].dl /\ x.key = sub[g].key
      /\ x.born = sub[g].born
  BY DEF SubType, Goroutine
<1> HIDE DEF x
<1> QED  BY <1>1, <1>2, SubPut

\* The goroutines.
LEMMA SubTypeStep ==
  ASSUME TypeInv, [Next]_vars
  PROVE  SubType'
<1>0. SubType /\ ChanType /\ jobs \subseteq Job
  BY DEF TypeInv, WorkerType
<1>1. CASE NextDeadline
  BY <1>0, <1>1 DEF NextDeadline, subVars, SubType
<1>2. ASSUME NEW w \in Workers, WinPoStServer(w) PROVE SubType'
  BY <1>0, <1>2 DEF WinPoStServer, subVars, SubType
<1>3. ASSUME NEW j \in jobs, GeneratePoStProof(j) PROVE SubType'
  BY <1>0, <1>3 DEF GeneratePoStProof, subVars, SubType
<1>4. ASSUME NEW j \in jobs, Lock(j) PROVE SubType'
  BY <1>0, <1>4 DEF Lock, subVars, SubType
<1>5. ASSUME NEW j \in jobs, SendToOld(j) PROVE SubType'
  BY <1>0, <1>5 DEF SendToOld, SubType
<1>6. ASSUME NEW j \in jobs, SendToNew(j) PROVE SubType'
  <2> DEFINE x == [NoSub EXCEPT !.stage = "collect", !.part = j.part, !.born = j.dl, !.key = j.key]
  <2>1. PICK g \in Chans : sub' = [sub EXCEPT ![g] = x]
    BY <1>6 DEF SendToNew
  <2>2. x \in Goroutine
    BY <1>0, StartedType
  <2> HIDE DEF x
  <2> QED  BY <1>0, <2>1, <2>2, SubPut
<1>7. ASSUME NEW j \in jobs, Sent(j) PROVE SubType'
  BY <1>0, <1>7 DEF Sent, SubType
<1>8. ASSUME NEW j \in jobs, Unlock(j) PROVE SubType'
  BY <1>0, <1>8, NoSubType DEF Unlock, MinerStarts, subVars, SubType
<1>9. ASSUME NEW g \in Chans, Take(g) PROVE SubType'
  BY <1>0, <1>9, TakeStep
<1>10. ASSUME NEW g \in Chans, Timeout(g) PROVE SubType'
  BY <1>0, <1>10, EndsType DEF Timeout, Ended
<1>11. ASSUME NEW g \in Chans, Aborted(g) PROVE SubType'
  BY <1>0, <1>11, EndsType DEF Aborted, Ended
<1>12. ASSUME NEW g \in Chans, Clear(g) PROVE SubType'
  <2>1. Ends(g, "empty") \/ sub' = [sub EXCEPT ![g].stage = "prove"]
    BY <1>12 DEF Clear
  <2> QED  BY <1>0, <2>1, EndsType, ProveType DEF Ended
<1>13. ASSUME NEW g \in Chans, Submit(g) PROVE SubType'
  BY <1>0, <1>13, EndsType DEF Submit, Ended
<1>14. ASSUME NEW w \in Workers, RetryWinPoSt(w) PROVE SubType'
  BY <1>0, <1>14 DEF RetryWinPoSt, subVars, SubType
<1>15. ASSUME NEW w \in Workers, AddPoStActor(w) PROVE SubType'
  BY <1>0, <1>15 DEF AddPoStActor, subVars, SubType
<1>16. ASSUME NEW w \in Workers, WorkerCrash(w) PROVE SubType'
  BY <1>0, <1>16 DEF WorkerCrash, subVars, SubType
<1>17. ASSUME NEW j \in jobs, TransferLost(j) PROVE SubType'
  BY <1>0, <1>17 DEF TransferLost, subVars, SubType
<1>18. CASE AbortPoSt
  BY <1>0, <1>18 DEF AbortPoSt, SubType
<1>19. CASE ResetSyncPoStMap
  BY <1>0, <1>19 DEF ResetSyncPoStMap, subVars, SubType
<1>20. CASE ReFindPoStTable
  BY <1>0, <1>20 DEF ReFindPoStTable, subVars, SubType
<1>21. CASE MinerCrash
  BY <1>0, <1>21, NoSubType DEF MinerCrash, MinerStarts, SubType
<1>22. CASE UNCHANGED vars
  BY <1>0, <1>22 DEF vars, SubType
<1> QED
  BY <1>1, <1>2, <1>3, <1>4, <1>5, <1>6, <1>7, <1>8, <1>9, <1>10, <1>11, <1>12,
     <1>13, <1>14, <1>15, <1>16, <1>17, <1>18, <1>19, <1>20, <1>21, <1>22
  DEF Next, WorkerStep, CallStep, SubStep, Operator

\* AbortPoSt's sends: no more than operators' calls.
LEMMA SignalTypeStep ==
  ASSUME TypeInv, [Next]_vars
  PROVE  SignalType'
<1>0. SignalType /\ ops \in Nat
  BY Bounds DEF TypeInv, OpType
<1>1. CASE NextDeadline
  BY <1>0, <1>1 DEF NextDeadline, subVars, opVars, Spend, SpendFor, SignalType
<1>2. ASSUME NEW w \in Workers, WinPoStServer(w) PROVE SignalType'
  BY <1>0, <1>2 DEF WinPoStServer, subVars, opVars, SignalType
<1>3. ASSUME NEW j \in jobs, GeneratePoStProof(j) PROVE SignalType'
  BY <1>0, <1>3 DEF GeneratePoStProof, subVars, opVars, Spend, SpendFor, SignalType
<1>4. ASSUME NEW j \in jobs, Lock(j) PROVE SignalType'
  BY <1>0, <1>4 DEF Lock, subVars, opVars, SignalType
<1>5. ASSUME NEW j \in jobs, SendToOld(j) PROVE SignalType'
  BY <1>0, <1>5 DEF SendToOld, opVars, SignalType
<1>6. ASSUME NEW j \in jobs, SendToNew(j) PROVE SignalType'
  <2>1. PICK g \in Chans : signals' = [signals EXCEPT ![g] = 0]
    BY <1>6 DEF SendToNew
  <2>2. ops' = ops
    BY <1>6 DEF SendToNew, opVars
  <2> QED  BY <1>0, <2>1, <2>2, Bounds DEF SignalType
<1>7. ASSUME NEW j \in jobs, Sent(j) PROVE SignalType'
  BY <1>0, <1>7 DEF Sent, opVars, SignalType
<1>8. ASSUME NEW j \in jobs, Unlock(j) PROVE SignalType'
  <2>1. ops' = ops /\ (signals' = signals \/ signals' = [g \in Chans |-> 0])
    BY <1>8 DEF Unlock, MinerStarts, subVars, opVars
  <2> QED  BY <1>0, <2>1, Bounds DEF SignalType
<1>9. ASSUME NEW g \in Chans, Take(g) PROVE SignalType'
  BY <1>0, <1>9 DEF Take, opVars, SignalType
<1>10. ASSUME NEW g \in Chans, Timeout(g) PROVE SignalType'
  BY <1>0, <1>10 DEF Timeout, opVars, SignalType
<1>11. ASSUME NEW g \in Chans, Aborted(g) PROVE SignalType'
  <2>1. signals' = [signals EXCEPT ![g] = signals[g] - 1] /\ signals[g] > 0 /\ ops' = ops
    BY <1>11, <1>0 DEF Aborted, SignalType, opVars
  <2>2. signals[g] \in 0..MaxOps /\ signals[g] - 1 \in 0..MaxOps /\ signals[g] - 1 <= ops
    BY <1>0, <2>1, Bounds DEF SignalType
  <2> QED  BY <1>0, <2>1, <2>2 DEF SignalType
<1>12. ASSUME NEW g \in Chans, Clear(g) PROVE SignalType'
  BY <1>0, <1>12 DEF Clear, opVars, SignalType
<1>13. ASSUME NEW g \in Chans, Submit(g) PROVE SignalType'
  <2>1. signals' = signals /\ (ops' = ops \/ ops' = ops + 1)
    BY <1>13 DEF Submit, Spend, SpendFor, opVars
  <2> QED  BY <1>0, <2>1 DEF SignalType
<1>14. ASSUME NEW w \in Workers, RetryWinPoSt(w) PROVE SignalType'
  BY <1>0, <1>14 DEF RetryWinPoSt, subVars, Spend, SpendFor, SignalType
<1>15. ASSUME NEW w \in Workers, AddPoStActor(w) PROVE SignalType'
  BY <1>0, <1>15 DEF AddPoStActor, subVars, Spend, SpendFor, SignalType
<1>16. ASSUME NEW w \in Workers, WorkerCrash(w) PROVE SignalType'
  BY <1>0, <1>16 DEF WorkerCrash, subVars, Spend, SpendFor, SignalType
<1>17. ASSUME NEW j \in jobs, TransferLost(j) PROVE SignalType'
  BY <1>0, <1>17 DEF TransferLost, subVars, Spend, SpendFor, SignalType
<1>18. CASE AbortPoSt
  <2>1. signals' = [signals EXCEPT ![closeMap] = signals[closeMap] + 1] /\ ops < MaxOps /\ ops' = ops + 1
    BY <1>18, <1>0 DEF AbortPoSt, Spend, SpendFor, SignalType
  <2>2. CASE closeMap \in Chans
    <3>1. signals[closeMap] \in 0..MaxOps /\ signals[closeMap] <= ops
      BY <1>0, <2>2 DEF SignalType
    <3>2. signals[closeMap] + 1 \in 0..MaxOps /\ signals[closeMap] + 1 <= ops + 1
      BY <1>0, <2>1, <3>1, Bounds
    <3>3. \A g \in Chans : signals[g] <= ops + 1
      BY <1>0, Bounds DEF SignalType
    <3> QED  BY <1>0, <2>1, <3>2, <3>3 DEF SignalType
  <2>3. CASE closeMap \notin Chans
    <3>1. signals' = signals
      BY <1>0, <2>1, <2>3 DEF SignalType
    <3>2. \A g \in Chans : signals[g] <= ops + 1
      BY <1>0, Bounds DEF SignalType
    <3> QED  BY <1>0, <2>1, <3>1, <3>2 DEF SignalType
  <2> QED  BY <2>2, <2>3
<1>19. CASE ResetSyncPoStMap
  BY <1>0, <1>19 DEF ResetSyncPoStMap, subVars, SignalType
<1>20. CASE ReFindPoStTable
  BY <1>0, <1>20 DEF ReFindPoStTable, subVars, Spend, SpendFor, SignalType
<1>21. CASE MinerCrash
  BY <1>0, <1>21, Bounds DEF MinerCrash, Spend, SpendFor, MinerStarts, SignalType
<1>22. CASE UNCHANGED vars
  BY <1>0, <1>22 DEF vars, SignalType
<1> QED
  BY <1>1, <1>2, <1>3, <1>4, <1>5, <1>6, <1>7, <1>8, <1>9, <1>10, <1>11, <1>12,
     <1>13, <1>14, <1>15, <1>16, <1>17, <1>18, <1>19, <1>20, <1>21, <1>22
  DEF Next, WorkerStep, CallStep, SubStep, Operator

\* What has been pushed and seen.
LEMMA SeenTypeStep ==
  ASSUME TypeInv, [Next]_vars
  PROVE  SeenType'
<1>0. SeenType /\ sub \in [Chans -> Goroutine]
  BY DEF TypeInv, SubType
<1>1. CASE NextDeadline
  BY <1>0, <1>1 DEF NextDeadline, seenVars, SeenType
<1>2. ASSUME NEW w \in Workers, WinPoStServer(w) PROVE SeenType'
  BY <1>0, <1>2 DEF WinPoStServer, seenVars, SeenType
<1>3. ASSUME NEW j \in jobs, GeneratePoStProof(j) PROVE SeenType'
  BY <1>0, <1>3 DEF GeneratePoStProof, seenVars, SeenType
<1>4. ASSUME NEW j \in jobs, Lock(j) PROVE SeenType'
  <2>1. crossed' \in BOOLEAN
    BY <1>4 DEF Lock
  <2> QED  BY <1>0, <2>1, <1>4 DEF Lock, SeenType
<1>5. ASSUME NEW j \in jobs, SendToOld(j) PROVE SeenType'
  BY <1>0, <1>5 DEF SendToOld, seenVars, SeenType
<1>6. ASSUME NEW j \in jobs, SendToNew(j) PROVE SeenType'
  BY <1>0, <1>6 DEF SendToNew, seenVars, SeenType
<1>7. ASSUME NEW j \in jobs, Sent(j) PROVE SeenType'
  BY <1>0, <1>7 DEF Sent, seenVars, SeenType
<1>8. ASSUME NEW j \in jobs, Unlock(j) PROVE SeenType'
  <2>1. pushed' = pushed /\ crossed' = crossed /\ (fatal' = fatal \/ fatal' = TRUE)
    BY <1>8 DEF Unlock, MinerStarts, seenVars
  <2> QED  BY <1>0, <2>1 DEF SeenType
<1>9. ASSUME NEW g \in Chans, Take(g) PROVE SeenType'
  BY <1>0, <1>9 DEF Take, seenVars, SeenType
<1>10. ASSUME NEW g \in Chans, Timeout(g) PROVE SeenType'
  BY <1>0, <1>10 DEF Timeout, seenVars, SeenType
<1>11. ASSUME NEW g \in Chans, Aborted(g) PROVE SeenType'
  BY <1>0, <1>11 DEF Aborted, seenVars, SeenType
<1>12. ASSUME NEW g \in Chans, Clear(g) PROVE SeenType'
  BY <1>0, <1>12 DEF Clear, seenVars, SeenType
<1>13. ASSUME NEW g \in Chans, Submit(g) PROVE SeenType'
  <2>1. pushed' = pushed \/ pushed' = [pushed EXCEPT ![sub[g].dl][sub[g].part] = @ + 1]
    BY <1>13 DEF Submit
  <2>2. pushed' \in [Deadlines -> [Parts -> Nat]]
    BY <1>0, <2>1 DEF SeenType
  <2> QED  BY <1>0, <2>2, <1>13 DEF Submit, SeenType
<1>14. ASSUME NEW w \in Workers, RetryWinPoSt(w) PROVE SeenType'
  BY <1>0, <1>14 DEF RetryWinPoSt, seenVars, SeenType
<1>15. ASSUME NEW w \in Workers, AddPoStActor(w) PROVE SeenType'
  BY <1>0, <1>15 DEF AddPoStActor, seenVars, SeenType
<1>16. ASSUME NEW w \in Workers, WorkerCrash(w) PROVE SeenType'
  BY <1>0, <1>16 DEF WorkerCrash, seenVars, SeenType
<1>17. ASSUME NEW j \in jobs, TransferLost(j) PROVE SeenType'
  BY <1>0, <1>17 DEF TransferLost, seenVars, SeenType
<1>18. CASE AbortPoSt
  BY <1>0, <1>18 DEF AbortPoSt, seenVars, SeenType
<1>19. CASE ResetSyncPoStMap
  BY <1>0, <1>19 DEF ResetSyncPoStMap, seenVars, SeenType
<1>20. CASE ReFindPoStTable
  BY <1>0, <1>20 DEF ReFindPoStTable, seenVars, SeenType
<1>21. CASE MinerCrash
  BY <1>0, <1>21 DEF MinerCrash, MinerStarts, SeenType
<1>22. CASE UNCHANGED vars
  BY <1>0, <1>22 DEF vars, SeenType
<1> QED
  BY <1>1, <1>2, <1>3, <1>4, <1>5, <1>6, <1>7, <1>8, <1>9, <1>10, <1>11, <1>12,
     <1>13, <1>14, <1>15, <1>16, <1>17, <1>18, <1>19, <1>20, <1>21, <1>22
  DEF Next, WorkerStep, CallStep, SubStep, Operator

\* Operators' calls and faults.
LEMMA OpTypeStep ==
  ASSUME TypeInv, [Next]_vars
  PROVE  OpType'
<1>0. OpType /\ now \in 1..MaxDeadline /\ ops \in Nat /\ resets \in Nat
  BY Bounds DEF TypeInv, EnvType, OpType, Deadlines
<1>1. CASE NextDeadline
  BY <1>0, <1>1, Bounds DEF NextDeadline, opVars, Spend, SpendFor, Dirty, OpType
<1>2. ASSUME NEW w \in Workers, WinPoStServer(w) PROVE OpType'
  BY <1>0, <1>2, Bounds DEF WinPoStServer, opVars, OpType
<1>3. ASSUME NEW j \in jobs, GeneratePoStProof(j) PROVE OpType'
  BY <1>0, <1>3, Bounds DEF GeneratePoStProof, opVars, Spend, SpendFor, Dirty, OpType
<1>4. ASSUME NEW j \in jobs, Lock(j) PROVE OpType'
  BY <1>0, <1>4, Bounds DEF Lock, opVars, OpType
<1>5. ASSUME NEW j \in jobs, SendToOld(j) PROVE OpType'
  BY <1>0, <1>5, Bounds DEF SendToOld, opVars, OpType
<1>6. ASSUME NEW j \in jobs, SendToNew(j) PROVE OpType'
  BY <1>0, <1>6, Bounds DEF SendToNew, opVars, OpType
<1>7. ASSUME NEW j \in jobs, Sent(j) PROVE OpType'
  BY <1>0, <1>7, Bounds DEF Sent, opVars, OpType
<1>8. ASSUME NEW j \in jobs, Unlock(j) PROVE OpType'
  BY <1>0, <1>8, Bounds DEF Unlock, opVars, OpType
<1>9. ASSUME NEW g \in Chans, Take(g) PROVE OpType'
  BY <1>0, <1>9, Bounds DEF Take, opVars, OpType
<1>10. ASSUME NEW g \in Chans, Timeout(g) PROVE OpType'
  BY <1>0, <1>10, Bounds DEF Timeout, opVars, OpType
<1>11. ASSUME NEW g \in Chans, Aborted(g) PROVE OpType'
  BY <1>0, <1>11, Bounds DEF Aborted, opVars, OpType
<1>12. ASSUME NEW g \in Chans, Clear(g) PROVE OpType'
  BY <1>0, <1>12, Bounds DEF Clear, opVars, OpType
<1>13. ASSUME NEW g \in Chans, Submit(g) PROVE OpType'
  BY <1>0, <1>13, Bounds DEF Submit, opVars, Spend, SpendFor, Dirty, OpType
<1>14. ASSUME NEW w \in Workers, RetryWinPoSt(w) PROVE OpType'
  BY <1>0, <1>14, Bounds DEF RetryWinPoSt, Spend, SpendFor, Dirty, OpType
<1>15. ASSUME NEW w \in Workers, AddPoStActor(w) PROVE OpType'
  BY <1>0, <1>15, Bounds DEF AddPoStActor, Spend, SpendFor, Dirty, OpType
<1>16. ASSUME NEW w \in Workers, WorkerCrash(w) PROVE OpType'
  BY <1>0, <1>16, Bounds DEF WorkerCrash, Spend, SpendFor, Dirty, OpType
<1>17. ASSUME NEW j \in jobs, TransferLost(j) PROVE OpType'
  BY <1>0, <1>17, Bounds DEF TransferLost, Spend, SpendFor, Dirty, OpType
<1>18. CASE AbortPoSt
  BY <1>0, <1>18, Bounds DEF AbortPoSt, Spend, SpendFor, Dirty, OpType
<1>19. CASE ResetSyncPoStMap
  <2>1. ops' = ops /\ resets' = resets + 1 /\ resets < MaxResets /\ (clean' = now \/ clean' = Dirty)
    BY <1>19 DEF ResetSyncPoStMap, Resetting
  <2> QED  BY <1>0, <2>1, Bounds DEF OpType, Dirty
<1>20. CASE ReFindPoStTable
  BY <1>0, <1>20, Bounds DEF ReFindPoStTable, Spend, SpendFor, Dirty, OpType
<1>21. CASE MinerCrash
  BY <1>0, <1>21, Bounds DEF MinerCrash, Spend, SpendFor, Dirty, OpType
<1>22. CASE UNCHANGED vars
  BY <1>0, <1>22 DEF vars, OpType
<1> QED
  BY <1>1, <1>2, <1>3, <1>4, <1>5, <1>6, <1>7, <1>8, <1>9, <1>10, <1>11, <1>12,
     <1>13, <1>14, <1>15, <1>16, <1>17, <1>18, <1>19, <1>20, <1>21, <1>22
  DEF Next, WorkerStep, CallStep, SubStep, Operator

\* A step starts proofs of one deadline again, or none.
AgainBy(n) == again' = again \/ again' = [again EXCEPT ![now] = @ + n]

LEMMA AgainStep ==
  ASSUME [Next]_vars
  PROVE  \E n \in {0, 1} : AgainBy(n)
<1>1. CASE NextDeadline
  BY <1>1 DEF NextDeadline, opVars, Spend, SpendFor, AgainBy
<1>2. ASSUME NEW w \in Workers, WinPoStServer(w) PROVE \E n \in {0, 1} : AgainBy(n)
  BY <1>2 DEF WinPoStServer, opVars, AgainBy
<1>3. ASSUME NEW j \in jobs, GeneratePoStProof(j) PROVE \E n \in {0, 1} : AgainBy(n)
  BY <1>3 DEF GeneratePoStProof, opVars, Spend, SpendFor, AgainBy
<1>4. ASSUME NEW j \in jobs, Lock(j) PROVE \E n \in {0, 1} : AgainBy(n)
  BY <1>4 DEF Lock, opVars, AgainBy
<1>5. ASSUME NEW j \in jobs, SendToOld(j) PROVE \E n \in {0, 1} : AgainBy(n)
  BY <1>5 DEF SendToOld, opVars, AgainBy
<1>6. ASSUME NEW j \in jobs, SendToNew(j) PROVE \E n \in {0, 1} : AgainBy(n)
  BY <1>6 DEF SendToNew, opVars, AgainBy
<1>7. ASSUME NEW j \in jobs, Sent(j) PROVE \E n \in {0, 1} : AgainBy(n)
  BY <1>7 DEF Sent, opVars, AgainBy
<1>8. ASSUME NEW j \in jobs, Unlock(j) PROVE \E n \in {0, 1} : AgainBy(n)
  BY <1>8 DEF Unlock, opVars, AgainBy
<1>9. ASSUME NEW g \in Chans, Take(g) PROVE \E n \in {0, 1} : AgainBy(n)
  BY <1>9 DEF Take, opVars, AgainBy
<1>10. ASSUME NEW g \in Chans, Timeout(g) PROVE \E n \in {0, 1} : AgainBy(n)
  BY <1>10 DEF Timeout, opVars, AgainBy
<1>11. ASSUME NEW g \in Chans, Aborted(g) PROVE \E n \in {0, 1} : AgainBy(n)
  BY <1>11 DEF Aborted, opVars, AgainBy
<1>12. ASSUME NEW g \in Chans, Clear(g) PROVE \E n \in {0, 1} : AgainBy(n)
  BY <1>12 DEF Clear, opVars, AgainBy
<1>13. ASSUME NEW g \in Chans, Submit(g) PROVE \E n \in {0, 1} : AgainBy(n)
  BY <1>13 DEF Submit, opVars, Spend, SpendFor, AgainBy
<1>14. ASSUME NEW w \in Workers, RetryWinPoSt(w) PROVE \E n \in {0, 1} : AgainBy(n)
  BY <1>14 DEF RetryWinPoSt, SpendFor, AgainBy
<1>15. ASSUME NEW w \in Workers, AddPoStActor(w) PROVE \E n \in {0, 1} : AgainBy(n)
  BY <1>15 DEF AddPoStActor, Restarts, SpendFor, AgainBy
<1>16. ASSUME NEW w \in Workers, WorkerCrash(w) PROVE \E n \in {0, 1} : AgainBy(n)
  BY <1>16 DEF WorkerCrash, Restarts, SpendFor, AgainBy
<1>17. ASSUME NEW j \in jobs, TransferLost(j) PROVE \E n \in {0, 1} : AgainBy(n)
  BY <1>17 DEF TransferLost, Spend, SpendFor, AgainBy
<1>18. CASE AbortPoSt
  BY <1>18 DEF AbortPoSt, Spend, SpendFor, AgainBy
<1>19. CASE ResetSyncPoStMap
  BY <1>19 DEF ResetSyncPoStMap, AgainBy
<1>20. CASE ReFindPoStTable
  BY <1>20 DEF ReFindPoStTable, Spend, SpendFor, AgainBy
<1>21. CASE MinerCrash
  BY <1>21 DEF MinerCrash, Spend, SpendFor, AgainBy
<1>22. CASE UNCHANGED vars
  BY <1>22 DEF vars, AgainBy
<1> QED
  BY <1>1, <1>2, <1>3, <1>4, <1>5, <1>6, <1>7, <1>8, <1>9, <1>10, <1>11, <1>12,
     <1>13, <1>14, <1>15, <1>16, <1>17, <1>18, <1>19, <1>20, <1>21, <1>22
  DEF Next, WorkerStep, CallStep, SubStep, Operator

LEMMA AgainTypeStep ==
  ASSUME TypeInv, [Next]_vars
  PROVE  AgainType'
<1>1. again \in [Deadlines -> Nat] /\ now \in Deadlines
  BY DEF TypeInv, AgainType, EnvType, Deadlines
<1>2. PICK n \in {0, 1} : AgainBy(n)
  BY AgainStep
<1> QED  BY <1>1, <1>2 DEF AgainBy, AgainType

\* TypeInv is inductive.
LEMMA TypeStep ==
  ASSUME TypeInv, [Next]_vars
  PROVE  TypeInv'
  BY EnvStep, WorkerTypeStep, MapTypeStep, ChanTypeStep, SubTypeStep, SignalTypeStep,
     SeenTypeStep, OpTypeStep, AgainTypeStep DEF TypeInv

LEMMA TypeAlways == Spec => []TypeInv
  BY TypeInit, TypeStep, PTL DEF Spec

\* Every state is well typed: no channel holds more than its capacity, resets
\* make no more maps than there are resets, and no goroutine is sent more aborts
\* than operators' calls (StartSubmitPoSt, submitPoSt, AbortPoSt).
THEOREM SubmitTypeCorrect == Spec => []TypeOK
  BY TypeAlways, TypeInvType, PTL

-------------------------------------------------------------------------------
(* The mutex of StartSubmitPoSt.                                           *)

\* As long as no call has waited across a reset: whoever is inside holds the mutex
\* its Unlock will free, and it is locked; so the Unlock finds it locked, and no
\* two are inside the same.
MutexInv ==
  crossed \/ /\ ~fatal
             /\ \A j \in jobs : Inside(j) => j.lock = j.unlock /\ locked[j.lock]
             /\ \A i, j \in jobs : Inside(i) /\ Inside(j) /\ i.lock = j.lock => i = j

LEMMA MutexExcludes == MutexInv => CallersExclude
  BY DEF MutexInv, CallersExclude

LEMMA MutexInit == Init => MutexInv
  BY DEF Init, MutexInv

\* No call gets in or out, and those inside keep their mutexes.
LEMMA MutexFrame ==
  ASSUME MutexInv, UNCHANGED <<locked, crossed, fatal>>,
         \A i \in jobs' : Inside(i) => i \in jobs
  PROVE  MutexInv'
  BY DEF MutexInv

\* A job that is inside stays inside.
LEMMA MutexGoes ==
  ASSUME TypeInv, MutexInv, UNCHANGED <<locked, crossed, fatal>>,
         NEW j \in jobs, Inside(j), NEW s \in {"out", "send"}, NEW g \in 0..MaxChan, Goes(j, s, g)
  PROVE  MutexInv'
<1> DEFINE i == [j EXCEPT !.stage = s, !.to = g]
<1>1. j \in Job
  BY DEF TypeInv, WorkerType
<1>2. jobs' = (jobs \ {j}) \cup {i}
  BY DEF Goes
<1>3. i.lock = j.lock /\ i.unlock = j.unlock
  BY <1>1 DEF Job
<1> HIDE DEF i
<1> QED  BY <1>2, <1>3 DEF MutexInv

\* After a start of the miner nobody is inside.
LEMMA MutexStarts ==
  ASSUME MutexInv, crossed' = crossed, fatal' = fatal, jobs' = {i \in jobs : i.stage = "prove"}
  PROVE  MutexInv'
  BY DEF MutexInv, Inside

\* Every step keeps the mutex.
LEMMA MutexStep ==
  ASSUME TypeInv, MutexInv, [Next]_vars
  PROVE  MutexInv'
<1>0. TypeInv /\ MutexInv /\ jobs \subseteq Job
  BY DEF TypeInv, WorkerType
<1>1. CASE NextDeadline
  <2>1. UNCHANGED <<locked, crossed, fatal>>
    BY <1>1 DEF NextDeadline, mapVars, seenVars
  <2>2. \A i \in jobs' : Inside(i) => i \in jobs
    BY <1>1 DEF NextDeadline, workerVars
  <2> QED  BY <1>0, <2>1, <2>2, MutexFrame
<1>2. ASSUME NEW w \in Workers, WinPoStServer(w) PROVE MutexInv'
  <2>1. UNCHANGED <<locked, crossed, fatal>>
    BY <1>2 DEF WinPoStServer, mapVars, seenVars
  <2>2. \A i \in jobs' : Inside(i) => i \in jobs
    BY <1>2 DEF WinPoStServer, Searched, Inside
  <2> QED  BY <1>0, <2>1, <2>2, MutexFrame
<1>3. ASSUME NEW j \in jobs, GeneratePoStProof(j) PROVE MutexInv'
  <2>1. UNCHANGED <<locked, crossed, fatal>>
    BY <1>3 DEF GeneratePoStProof, mapVars, seenVars
  <2>2. PICK p, f \in SUBSET Sectors : jobs' \subseteq (jobs \ {j}) \cup
          {[j EXCEPT !.stage = "wait", !.proved = p, !.fault = f, !.lock = map]}
    <3>1. rows \in SUBSET Sectors
      BY DEF TypeInv, EnvType
    <3> QED  BY <1>3, <3>1 DEF GeneratePoStProof
  <2> DEFINE i == [j EXCEPT !.stage = "wait", !.proved = p, !.fault = f, !.lock = map]
  <2>3. i.stage = "wait"
    BY <1>0 DEF Job
  <2> HIDE DEF i
  <2>4. \A k \in jobs' : Inside(k) => k \in jobs
    BY <2>2, <2>3 DEF Inside, i
  <2> QED  BY <1>0, <2>1, <2>4, MutexFrame
<1>4. ASSUME NEW j \in jobs, Lock(j) PROVE MutexInv'
  <2> DEFINE i == [j EXCEPT !.stage = "in", !.unlock = map]
  <2>1. /\ j.stage = "wait" /\ ~locked[j.lock]
        /\ locked' = [locked EXCEPT ![j.lock] = TRUE]
        /\ jobs' = (jobs \ {j}) \cup {i}
        /\ crossed' = (crossed \/ j.lock # map) /\ fatal' = fatal
    BY <1>4 DEF Lock
  <2>2. i.lock = j.lock /\ i.unlock = map /\ j.lock \in Maps
    <3>1. j \in Job /\ map \in Maps
      BY <1>0 DEF TypeInv, MapType
    <3> QED  BY <3>1, LockType DEF Job
  <2>3. locked \in [Maps -> BOOLEAN]
    BY DEF TypeInv, MapType
  <2> HIDE DEF i
  <2>4. CASE crossed'
    BY <2>4 DEF MutexInv
  <2>5. CASE ~crossed'
    <3>1. ~crossed /\ j.lock = map
      BY <2>1, <2>5
    <3>2. \A k \in jobs : Inside(k) => k.lock # j.lock
      BY <1>0, <2>1, <3>1 DEF MutexInv
    <3>3. \A k \in jobs' : Inside(k) => k.lock = k.unlock /\ locked'[k.lock]
      BY <1>0, <2>1, <2>2, <2>3, <3>1 DEF MutexInv, Job
    <3>4. \A k, l \in jobs' : Inside(k) /\ Inside(l) /\ k.lock = l.lock => k = l
      BY <1>0, <2>1, <2>2, <3>1, <3>2 DEF MutexInv
    <3> QED  BY <1>0, <2>1, <3>1, <3>3, <3>4 DEF MutexInv
  <2> QED  BY <2>4, <2>5
<1>5. ASSUME NEW j \in jobs, SendToOld(j) PROVE MutexInv'
  <2>1. UNCHANGED <<locked, crossed, fatal>> /\ Inside(j)
    BY <1>5 DEF SendToOld, mapVars, seenVars, Inside
  <2>2. \/ Goes(j, "out", 0)
        \/ postMap[j.part] \in Chans /\ Goes(j, "send", postMap[j.part])
    BY <1>5 DEF SendToOld
  <2>3. 0 \in 0..MaxChan /\ (postMap[j.part] \in Chans => postMap[j.part] \in 0..MaxChan)
    BY Bounds DEF Chans
  <2> QED  BY <1>0, <2>1, <2>2, <2>3, MutexGoes
<1>6. ASSUME NEW j \in jobs, SendToNew(j) PROVE MutexInv'
  <2>1. UNCHANGED <<locked, crossed, fatal>> /\ Inside(j) /\ Goes(j, "out", 0)
    BY <1>6 DEF SendToNew, seenVars, Inside
  <2>2. 0 \in 0..MaxChan
    BY Bounds
  <2> QED  BY <1>0, <2>1, <2>2, MutexGoes
<1>7. ASSUME NEW j \in jobs, Sent(j) PROVE MutexInv'
  <2>1. UNCHANGED <<locked, crossed, fatal>> /\ Inside(j) /\ Goes(j, "out", 0)
    BY <1>7 DEF Sent, mapVars, seenVars, Inside
  <2>2. 0 \in 0..MaxChan
    BY Bounds
  <2> QED  BY <1>0, <2>1, <2>2, MutexGoes
<1>8. ASSUME NEW j \in jobs, Unlock(j) PROVE MutexInv'
  <2>1. CASE /\ locked[j.unlock] /\ locked' = [locked EXCEPT ![j.unlock] = FALSE]
             /\ jobs' = jobs \ {j} /\ UNCHANGED <<crossed, fatal>>
    <3>1. CASE crossed
      BY <2>1, <3>1 DEF MutexInv
    <3>2. CASE ~crossed
      <4>1. j.lock = j.unlock /\ Inside(j)
        BY <1>0, <3>2, <1>8 DEF MutexInv, Unlock, Inside
      <4>2. \A k \in jobs' : Inside(k) => k \in jobs /\ k.lock = k.unlock /\ locked[k.lock] /\ k.lock # j.lock
        BY <1>0, <2>1, <3>2, <4>1 DEF MutexInv
      <4>3. locked \in [Maps -> BOOLEAN]
        BY DEF TypeInv, MapType
      <4>4. \A k \in jobs' : Inside(k) => locked'[k.lock]
        BY <2>1, <4>1, <4>2, <4>3
      <4> QED  BY <1>0, <2>1, <3>2, <4>2, <4>4 DEF MutexInv
    <3> QED  BY <3>1, <3>2
  <2>2. CASE ~locked[j.unlock] /\ MinerStarts
    \* not as long as no call has crossed a reset
    <3>1. crossed /\ crossed' = crossed
      BY <1>0, <2>2, <1>8 DEF MutexInv, Unlock, Inside, MinerStarts
    <3> QED  BY <3>1 DEF MutexInv
  <2> QED  BY <2>1, <2>2, <1>8 DEF Unlock, seenVars
<1>9. ASSUME NEW g \in Chans, Take(g) PROVE MutexInv'
  <2>1. UNCHANGED <<locked, crossed, fatal>>
    BY <1>9 DEF Take, seenVars
  <2>2. \A i \in jobs' : Inside(i) => i \in jobs
    BY <1>9 DEF Take, workerVars
  <2> QED  BY <1>0, <2>1, <2>2, MutexFrame
<1>10. ASSUME NEW g \in Chans, Timeout(g) PROVE MutexInv'
  <2>1. UNCHANGED <<locked, crossed, fatal>>
    BY <1>10 DEF Timeout, mapVars, seenVars
  <2>2. \A i \in jobs' : Inside(i) => i \in jobs
    BY <1>10 DEF Timeout, workerVars
  <2> QED  BY <1>0, <2>1, <2>2, MutexFrame
<1>11. ASSUME NEW g \in Chans, Aborted(g) PROVE MutexInv'
  <2>1. UNCHANGED <<locked, crossed, fatal>>
    BY <1>11 DEF Aborted, mapVars, seenVars
  <2>2. \A i \in jobs' : Inside(i) => i \in jobs
    BY <1>11 DEF Aborted, workerVars
  <2> QED  BY <1>0, <2>1, <2>2, MutexFrame
<1>12. ASSUME NEW g \in Chans, Clear(g) PROVE MutexInv'
  <2>1. UNCHANGED <<locked, crossed, fatal>>
    BY <1>12 DEF Clear, seenVars
  <2>2. \A i \in jobs' : Inside(i) => i \in jobs
    BY <1>12 DEF Clear, workerVars
  <2> QED  BY <1>0, <2>1, <2>2, MutexFrame
<1>13. ASSUME NEW g \in Chans, Submit(g) PROVE MutexInv'
  <2>1. UNCHANGED <<locked, crossed, fatal>>
    BY <1>13 DEF Submit, mapVars
  <2>2. \A i \in jobs' : Inside(i) => i \in jobs
    BY <1>13 DEF Submit, workerVars
  <2> QED  BY <1>0, <2>1, <2>2, MutexFrame
<1>14. ASSUME NEW w \in Workers, RetryWinPoSt(w) PROVE MutexInv'
  <2>1. UNCHANGED <<locked, crossed, fatal>>
    BY <1>14 DEF RetryWinPoSt, mapVars, seenVars
  <2>2. \A i \in jobs' : Inside(i) => i \in jobs
    BY <1>14 DEF RetryWinPoSt, Searched, Inside
  <2> QED  BY <1>0, <2>1, <2>2, MutexFrame
<1>15. ASSUME NEW w \in Workers, AddPoStActor(w) PROVE MutexInv'
  <2>1. UNCHANGED <<locked, crossed, fatal>>
    BY <1>15 DEF AddPoStActor, mapVars, seenVars
  <2>2. \A i \in jobs' : Inside(i) => i \in jobs
    BY <1>15 DEF AddPoStActor
  <2> QED  BY <1>0, <2>1, <2>2, MutexFrame
<1>16. ASSUME NEW w \in Workers, WorkerCrash(w) PROVE MutexInv'
  <2>1. UNCHANGED <<locked, crossed, fatal>>
    BY <1>16 DEF WorkerCrash, mapVars, seenVars
  <2>2. \A i \in jobs' : Inside(i) => i \in jobs
    BY <1>16 DEF WorkerCrash
  <2> QED  BY <1>0, <2>1, <2>2, MutexFrame
<1>17. ASSUME NEW j \in jobs, TransferLost(j) PROVE MutexInv'
  <2>1. UNCHANGED <<locked, crossed, fatal>>
    BY <1>17 DEF TransferLost, mapVars, seenVars
  <2>2. \A i \in jobs' : Inside(i) => i \in jobs
    BY <1>17 DEF TransferLost
  <2> QED  BY <1>0, <2>1, <2>2, MutexFrame
<1>18. CASE AbortPoSt
  <2>1. UNCHANGED <<locked, crossed, fatal>>
    BY <1>18 DEF AbortPoSt, mapVars, seenVars
  <2>2. \A i \in jobs' : Inside(i) => i \in jobs
    BY <1>18 DEF AbortPoSt, workerVars
  <2> QED  BY <1>0, <2>1, <2>2, MutexFrame
<1>19. CASE ResetSyncPoStMap
  <2>1. UNCHANGED <<locked, crossed, fatal>>
    BY <1>19 DEF ResetSyncPoStMap, seenVars
  <2>2. \A i \in jobs' : Inside(i) => i \in jobs
    BY <1>19 DEF ResetSyncPoStMap, workerVars
  <2> QED  BY <1>0, <2>1, <2>2, MutexFrame
<1>20. CASE ReFindPoStTable
  <2>1. UNCHANGED <<locked, crossed, fatal>>
    BY <1>20 DEF ReFindPoStTable, mapVars, seenVars
  <2>2. \A i \in jobs' : Inside(i) => i \in jobs
    BY <1>20 DEF ReFindPoStTable, workerVars
  <2> QED  BY <1>0, <2>1, <2>2, MutexFrame
<1>21. CASE MinerCrash
  BY <1>0, <1>21, MutexStarts DEF MinerCrash, MinerStarts
<1>22. CASE UNCHANGED vars
  BY <1>0, <1>22 DEF vars, MutexInv
<1> QED
  BY <1>1, <1>2, <1>3, <1>4, <1>5, <1>6, <1>7, <1>8, <1>9, <1>10, <1>11, <1>12,
     <1>13, <1>14, <1>15, <1>16, <1>17, <1>18, <1>19, <1>20, <1>21, <1>22
  DEF Next, WorkerStep, CallStep, SubStep, Operator

\* Calls of StartSubmitPoSt exclude each other, and no deferred Unlock ends the
\* process, until one has waited for the mutex while ResetSyncPoStMap replaced the
\* map (StartSubmitPoSt: the defer statement reads the map after Lock returns).
THEOREM CallsExclude == Spec => []CallersExclude
<1>1. TypeInv /\ MutexInv /\ [Next]_vars => MutexInv'
  BY MutexStep
<1>2. Spec => []MutexInv
  BY TypeAlways, MutexInit, <1>1, PTL DEF Spec
<1> QED  BY <1>2, MutexExcludes, PTL

-------------------------------------------------------------------------------
(* The entries of SyncPoStMap.                                             *)

Served == {"collect", "full", "timeout", "abort", "empty"}

LEMMA EntryInit == Init => EntryIsServed
<1>1. \A p \in Parts : Init => postMap[p] \notin Chans
  BY Bounds DEF Init, Absent, Chans
<1> QED  BY <1>1 DEF EntryIsServed

\* The entries are the same, or gone, and the goroutines they lead to are still of
\* their partition and before their proofs.
LEMMA EntryFrame ==
  ASSUME EntryIsServed,
         \A p \in Parts : postMap'[p] \in Chans => postMap'[p] = postMap[p],
         \A g \in Chans : sub'[g] = sub[g] \/ (sub'[g].part = sub[g].part /\ sub'[g].stage \in Served)
  PROVE  EntryIsServed'
  BY DEF EntryIsServed, Served

\* Nothing is in the map: after a reset or a start of the miner.
LEMMA EntryEmpty ==
  ASSUME EmptyMap
  PROVE  EntryIsServed'
<1>1. \A p \in Parts : postMap'[p] \notin Chans
  BY Bounds DEF EmptyMap, Absent, Chans
<1> QED  BY <1>1 DEF EntryIsServed

\* Every step leaves the entries served.
LEMMA EntryStep ==
  ASSUME TypeInv, EntryIsServed, [Next]_vars
  PROVE  EntryIsServed'
<1>0. /\ EntryIsServed /\ SubType /\ ChanType /\ jobs \subseteq Job
      /\ postMap \in [Parts -> 0..(MaxChan + 1)]
  BY DEF TypeInv, WorkerType, MapType
<1>1. CASE NextDeadline
  BY <1>0, <1>1, EntryFrame DEF NextDeadline, mapVars, subVars
<1>2. ASSUME NEW w \in Workers, WinPoStServer(w) PROVE EntryIsServed'
  BY <1>0, <1>2, EntryFrame DEF WinPoStServer, mapVars, subVars
<1>3. ASSUME NEW j \in jobs, GeneratePoStProof(j) PROVE EntryIsServed'
  BY <1>0, <1>3, EntryFrame DEF GeneratePoStProof, mapVars, subVars
<1>4. ASSUME NEW j \in jobs, Lock(j) PROVE EntryIsServed'
  BY <1>0, <1>4, EntryFrame DEF Lock, subVars
<1>5. ASSUME NEW j \in jobs, SendToOld(j) PROVE EntryIsServed'
  BY <1>0, <1>5, EntryFrame DEF SendToOld, mapVars
<1>6. ASSUME NEW j \in jobs, SendToNew(j) PROVE EntryIsServed'
  <2> DEFINE x == [NoSub EXCEPT !.stage = "collect", !.part = j.part, !.born = j.dl, !.key = j.key]
  <2>1. PICK g \in Chans : /\ Unused(g) /\ postMap' = [postMap EXCEPT ![j.part] = g]
                           /\ sub' = [sub EXCEPT ![g] = x]
    BY <1>6 DEF SendToNew
  <2>2. x \in Goroutine /\ x.stage = "collect" /\ x.part = j.part /\ j.part \in Parts
    BY <1>0, StartedType DEF Job
  <2> HIDE DEF x
  <2>3. sub'[g] = x /\ \A h \in Chans : h # g => sub'[h] = sub[h]
    BY <1>0, <2>1, <2>2, SubPut
  <2>4. \A p \in Parts : postMap[p] # g
    BY <2>1 DEF Unused
  <2> QED  BY <1>0, <2>1, <2>2, <2>3, <2>4 DEF EntryIsServed
<1>7. ASSUME NEW j \in jobs, Sent(j) PROVE EntryIsServed'
  BY <1>0, <1>7, EntryFrame DEF Sent, mapVars
<1>8. ASSUME NEW j \in jobs, Unlock(j) PROVE EntryIsServed'
  <2>1. CASE UNCHANGED <<postMap, sub>>
    BY <1>0, <2>1, EntryFrame
  <2>2. CASE MinerStarts
    BY <2>2, EntryEmpty DEF MinerStarts
  <2> QED  BY <2>1, <2>2, <1>8 DEF Unlock, subVars
<1>9. ASSUME NEW g \in Chans, Take(g) PROVE EntryIsServed'
  <2>1. chan[g] # <<>> /\ postMap' = postMap
    BY <1>9 DEF Take
  <2>2. /\ sub'[g].part = sub[g].part /\ sub'[g].stage \in Served
        /\ \A h \in Chans : h # g => sub'[h] = sub[h]
    BY <1>0, <2>1, <1>9, TakeStep, TakenType DEF Served
  <2> QED  BY <1>0, <2>1, <2>2, EntryFrame
<1>10. ASSUME NEW g \in Chans, Timeout(g) PROVE EntryIsServed'
  <2>1. Ends(g, "timeout") /\ postMap' = postMap
    BY <1>10 DEF Timeout, mapVars
  <2>2. /\ sub'[g].part = sub[g].part /\ sub'[g].stage \in Served
        /\ \A h \in Chans : h # g => sub'[h] = sub[h]
    BY <1>0, <2>1, EndsType DEF Served, Ended
  <2> QED  BY <1>0, <2>1, <2>2, EntryFrame
<1>11. ASSUME NEW g \in Chans, Aborted(g) PROVE EntryIsServed'
  <2>1. Ends(g, "abort") /\ postMap' = postMap
    BY <1>11 DEF Aborted, mapVars
  <2>2. /\ sub'[g].part = sub[g].part /\ sub'[g].stage \in Served
        /\ \A h \in Chans : h # g => sub'[h] = sub[h]
    BY <1>0, <2>1, EndsType DEF Served, Ended
  <2> QED  BY <1>0, <2>1, <2>2, EntryFrame
<1>12. ASSUME NEW g \in Chans, Clear(g) PROVE EntryIsServed'
  <2>1. CASE Ends(g, "empty") /\ postMap' = postMap
    <3>1. /\ sub'[g].part = sub[g].part /\ sub'[g].stage \in Served
          /\ \A h \in Chans : h # g => sub'[h] = sub[h]
      BY <1>0, <2>1, EndsType DEF Served, Ended
    <3> QED  BY <1>0, <2>1, <3>1, EntryFrame
  \* the entry that led to g is cleared: it was that of g's partition
  <2>2. CASE /\ sub' = [sub EXCEPT ![g].stage = "prove"]
             /\ postMap' = [postMap EXCEPT ![sub[g].part] = IF @ = Absent THEN Absent ELSE Nil]
    <3>1. \A h \in Chans : h # g => sub'[h] = sub[h]
      BY <1>0, <2>2, ProveType
    <3>2. Absent \notin Chans /\ Nil \notin Chans
      BY Bounds DEF Absent, Nil, Chans
    <3>3. \A p \in Parts : postMap'[p] \in Chans => p # sub[g].part /\ postMap'[p] = postMap[p]
      BY <1>0, <2>2, <3>2
    <3>4. \A p \in Parts : postMap'[p] \in Chans => postMap'[p] # g
      BY <1>0, <3>3 DEF EntryIsServed
    <3> QED  BY <1>0, <3>1, <3>3, <3>4 DEF EntryIsServed
  <2> QED  BY <2>1, <2>2, <1>12 DEF Clear
<1>13. ASSUME NEW g \in Chans, Submit(g) PROVE EntryIsServed'
  <2>1. Ends(g, "free") /\ sub[g].stage = "prove" /\ postMap' = postMap
    BY <1>13 DEF Submit, mapVars
  <2>2. \A h \in Chans : h # g => sub'[h] = sub[h]
    BY <1>0, <2>1, EndsType DEF Ended
  <2>3. \A p \in Parts : postMap[p] # g
    BY <1>0, <2>1 DEF EntryIsServed
  <2> QED  BY <1>0, <2>1, <2>2, <2>3 DEF EntryIsServed
<1>14. ASSUME NEW w \in Workers, RetryWinPoSt(w) PROVE EntryIsServed'
  BY <1>0, <1>14, EntryFrame DEF RetryWinPoSt, mapVars, subVars
<1>15. ASSUME NEW w \in Workers, AddPoStActor(w) PROVE EntryIsServed'
  BY <1>0, <1>15, EntryFrame DEF AddPoStActor, mapVars, subVars
<1>16. ASSUME NEW w \in Workers, WorkerCrash(w) PROVE EntryIsServed'
  BY <1>0, <1>16, EntryFrame DEF WorkerCrash, mapVars, subVars
<1>17. ASSUME NEW j \in jobs, TransferLost(j) PROVE EntryIsServed'
  BY <1>0, <1>17, EntryFrame DEF TransferLost, mapVars, subVars
<1>18. CASE AbortPoSt
  BY <1>0, <1>18, EntryFrame DEF AbortPoSt, mapVars
<1>19. CASE ResetSyncPoStMap
  BY <1>19, EntryEmpty DEF ResetSyncPoStMap
<1>20. CASE ReFindPoStTable
  BY <1>0, <1>20, EntryFrame DEF ReFindPoStTable, mapVars, subVars
<1>21. CASE MinerCrash
  BY <1>21, EntryEmpty DEF MinerCrash, MinerStarts
<1>22. CASE UNCHANGED vars
  BY <1>0, <1>22 DEF vars, EntryIsServed
<1> QED
  BY <1>1, <1>2, <1>3, <1>4, <1>5, <1>6, <1>7, <1>8, <1>9, <1>10, <1>11, <1>12,
     <1>13, <1>14, <1>15, <1>16, <1>17, <1>18, <1>19, <1>20, <1>21, <1>22
  DEF Next, WorkerStep, CallStep, SubStep, Operator

\* An entry of SyncPoStMap leads to a goroutine of its partition that has not gone
\* on to prove: collecting, complete, or ended by timeout, abort or for want of a
\* proof (StartSubmitPoSt and submitPoSt, whoever clears entries without the lock,
\* resets and restarts included).
THEOREM EntriesAreServed == Spec => []EntryIsServed
<1>1. TypeInv /\ EntryIsServed /\ [Next]_vars => EntryIsServed'
  BY EntryStep
<1> QED  BY TypeAlways, EntryInit, <1>1, PTL DEF Spec

-------------------------------------------------------------------------------
(* The merge of the transfers.                                             *)

\* A worker reports all the rows there are, as proved or as faulty: those of the
\* instance, or after ReFindPoStTable all.
AllRows(t, s) == t.proved \cup t.fault \in {s.rows, Sectors}
InChan(c) == {c[i] : i \in 1..Len(c)}
Reported == {"wait", "in", "send"}
JobRows ==
  /\ rows \in {setup.rows, Sectors}
  /\ \A j \in jobs : j.stage \in Reported => AllRows(j, setup)
ChanRows == \A g \in Chans : \A t \in InChan(chan[g]) : AllRows(t, setup)
\* So a goroutine that has not seen a whole partition from one worker, nor a fault,
\* has nothing but the rows of an incomplete table.
MergeInv ==
  \A g \in Chans :
    /\ sub[g].stage \in {"full", "prove"} => Complete(sub[g].added, sub[g].fault)
    /\ sub[g].fault = {} /\ ~sub[g].whole =>
         \/ sub[g].added = {}
         \/ setup.rows # Sectors /\ sub[g].added \subseteq Deadlines \X setup.rows
RowsInv == JobRows /\ ChanRows /\ MergeInv

LEMMA RowsInit == Init => RowsInv
<1> SUFFICES ASSUME Init PROVE RowsInv
  OBVIOUS
<1>1. JobRows
  BY DEF Init, JobRows
<1>2. \A g \in Chans : Len(chan[g]) = 0
  BY DEF Init
<1>3. ChanRows
  BY <1>2 DEF ChanRows, InChan
<1>4. MergeInv
  BY NoSubType DEF Init, MergeInv
<1> QED  BY <1>1, <1>3, <1>4 DEF RowsInv

\* The instance is never changed, and the table only by ReFindPoStTable.
LEMMA TableKept ==
  ASSUME [Next]_vars
  PROVE  setup' = setup /\ rows' \in {rows, Sectors}
<1>1. CASE NextDeadline
  BY <1>1 DEF NextDeadline
<1>2. ASSUME NEW w \in Workers, WinPoStServer(w) PROVE setup' = setup /\ rows' \in {rows, Sectors}
  BY <1>2 DEF WinPoStServer
<1>3. ASSUME NEW j \in jobs, GeneratePoStProof(j) PROVE setup' = setup /\ rows' \in {rows, Sectors}
  BY <1>3 DEF GeneratePoStProof
<1>4. ASSUME NEW j \in jobs, Lock(j) PROVE setup' = setup /\ rows' \in {rows, Sectors}
  BY <1>4 DEF Lock
<1>5. ASSUME NEW j \in jobs, SendToOld(j) PROVE setup' = setup /\ rows' \in {rows, Sectors}
  BY <1>5 DEF SendToOld
<1>6. ASSUME NEW j \in jobs, SendToNew(j) PROVE setup' = setup /\ rows' \in {rows, Sectors}
  BY <1>6 DEF SendToNew
<1>7. ASSUME NEW j \in jobs, Sent(j) PROVE setup' = setup /\ rows' \in {rows, Sectors}
  BY <1>7 DEF Sent
<1>8. ASSUME NEW j \in jobs, Unlock(j) PROVE setup' = setup /\ rows' \in {rows, Sectors}
  BY <1>8 DEF Unlock, MinerStarts
<1>9. ASSUME NEW g \in Chans, Take(g) PROVE setup' = setup /\ rows' \in {rows, Sectors}
  BY <1>9 DEF Take
<1>10. ASSUME NEW g \in Chans, Timeout(g) PROVE setup' = setup /\ rows' \in {rows, Sectors}
  BY <1>10 DEF Timeout
<1>11. ASSUME NEW g \in Chans, Aborted(g) PROVE setup' = setup /\ rows' \in {rows, Sectors}
  BY <1>11 DEF Aborted
<1>12. ASSUME NEW g \in Chans, Clear(g) PROVE setup' = setup /\ rows' \in {rows, Sectors}
  BY <1>12 DEF Clear
<1>13. ASSUME NEW g \in Chans, Submit(g) PROVE setup' = setup /\ rows' \in {rows, Sectors}
  BY <1>13 DEF Submit
<1>14. ASSUME NEW w \in Workers, RetryWinPoSt(w) PROVE setup' = setup /\ rows' \in {rows, Sectors}
  BY <1>14 DEF RetryWinPoSt
<1>15. ASSUME NEW w \in Workers, AddPoStActor(w) PROVE setup' = setup /\ rows' \in {rows, Sectors}
  BY <1>15 DEF AddPoStActor
<1>16. ASSUME NEW w \in Workers, WorkerCrash(w) PROVE setup' = setup /\ rows' \in {rows, Sectors}
  BY <1>16 DEF WorkerCrash
<1>17. ASSUME NEW j \in jobs, TransferLost(j) PROVE setup' = setup /\ rows' \in {rows, Sectors}
  BY <1>17 DEF TransferLost
<1>18. CASE AbortPoSt
  BY <1>18 DEF AbortPoSt
<1>19. CASE ResetSyncPoStMap
  BY <1>19 DEF ResetSyncPoStMap
<1>20. CASE ReFindPoStTable
  BY <1>20 DEF ReFindPoStTable
<1>21. CASE MinerCrash
  BY <1>21 DEF MinerCrash, MinerStarts
<1>22. CASE UNCHANGED vars
  BY <1>22 DEF vars
<1> QED
  BY <1>1, <1>2, <1>3, <1>4, <1>5, <1>6, <1>7, <1>8, <1>9, <1>10, <1>11, <1>12,
     <1>13, <1>14, <1>15, <1>16, <1>17, <1>18, <1>19, <1>20, <1>21, <1>22
  DEF Next, WorkerStep, CallStep, SubStep, Operator

\* A call that moves on has the rows it had.
LEMMA JobRowsGoes ==
  ASSUME JobRows, jobs \subseteq Job, setup' = setup, rows' \in {rows, Sectors},
         NEW j \in jobs, j.stage \in Reported,
         NEW s \in {"out", "send"}, NEW g \in 0..MaxChan, Goes(j, s, g)
  PROVE  JobRows'
<1> DEFINE i == [j EXCEPT !.stage = s, !.to = g]
<1>1. i.proved = j.proved /\ i.fault = j.fault
  BY DEF Job
<1>2. jobs' = (jobs \ {j}) \cup {i}
  BY DEF Goes
<1> HIDE DEF i
<1> QED  BY <1>1, <1>2 DEF JobRows, AllRows

\* The reports of the workers.
LEMMA JobRowsStep ==
  ASSUME TypeInv, JobRows, [Next]_vars
  PROVE  JobRows'
<1>0. JobRows /\ jobs \subseteq Job /\ setup' = setup /\ rows' \in {rows, Sectors}
  BY TableKept DEF TypeInv, WorkerType
<1>1. CASE NextDeadline
  BY <1>0, <1>1 DEF NextDeadline, workerVars, JobRows
<1>2. ASSUME NEW w \in Workers, WinPoStServer(w) PROVE JobRows'
  BY <1>0, <1>2 DEF WinPoStServer, Searched, JobRows, Reported
<1>3. ASSUME NEW j \in jobs, GeneratePoStProof(j) PROVE JobRows'
  <2>1. PICK bad \in SUBSET (rows \cap setup.disk[j.by]) :
          LET ok == (rows \cap setup.disk[j.by]) \ bad IN
          jobs' = (jobs \ {j}) \cup
            (IF rows = {} THEN {}
             ELSE {[j EXCEPT !.stage = "wait", !.proved = ok, !.fault = rows \ ok, !.lock = map]})
    BY <1>3 DEF GeneratePoStProof
  <2> DEFINE ok == (rows \cap setup.disk[j.by]) \ bad
             i == [j EXCEPT !.stage = "wait", !.proved = ok, !.fault = rows \ ok, !.lock = map]
  <2>2. i.proved = ok /\ i.fault = rows \ ok
    BY <1>0 DEF Job
  <2>3. jobs' \subseteq jobs \cup {i}
    BY <2>1
  <2> HIDE DEF i
  <2>4. i.proved \cup i.fault = rows
    BY <2>2
  <2> QED  BY <1>0, <2>3, <2>4 DEF JobRows, AllRows
<1>4. ASSUME NEW j \in jobs, Lock(j) PROVE JobRows'
  <2> DEFINE i == [j EXCEPT !.stage = "in", !.unlock = map]
  <2>1. j.stage = "wait" /\ jobs' = (jobs \ {j}) \cup {i}
    BY <1>4 DEF Lock
  <2>2. i.proved = j.proved /\ i.fault = j.fault
    BY <1>0 DEF Job
  <2> HIDE DEF i
  <2> QED  BY <1>0, <2>1, <2>2 DEF JobRows, AllRows, Reported
<1>5. ASSUME NEW j \in jobs, SendToOld(j) PROVE JobRows'
  <2>1. PICK s \in {"out", "send"}, g \in 0..MaxChan : Goes(j, s, g)
    BY <1>5, Bounds DEF SendToOld, Chans
  <2>2. j.stage \in Reported
    BY <1>5 DEF SendToOld, Reported
  <2> QED  BY <1>0, <2>1, <2>2, JobRowsGoes
<1>6. ASSUME NEW j \in jobs, SendToNew(j) PROVE JobRows'
  <2>1. PICK s \in {"out", "send"}, g \in 0..MaxChan : Goes(j, s, g)
    BY <1>6, Bounds DEF SendToNew, Chans
  <2>2. j.stage \in Reported
    BY <1>6 DEF SendToNew, Reported
  <2> QED  BY <1>0, <2>1, <2>2, JobRowsGoes
<1>7. ASSUME NEW j \in jobs, Sent(j) PROVE JobRows'
  <2>1. PICK s \in {"out", "send"}, g \in 0..MaxChan : Goes(j, s, g)
    BY <1>7, Bounds DEF Sent, Chans
  <2>2. j.stage \in Reported
    BY <1>7 DEF Sent, Reported
  <2> QED  BY <1>0, <2>1, <2>2, JobRowsGoes
<1>8. ASSUME NEW j \in jobs, Unlock(j) PROVE JobRows'
  BY <1>0, <1>8 DEF Unlock, MinerStarts, JobRows
<1>9. ASSUME NEW g \in Chans, Take(g) PROVE JobRows'
  BY <1>0, <1>9 DEF Take, workerVars, JobRows
<1>10. ASSUME NEW g \in Chans, Timeout(g) PROVE JobRows'
  BY <1>0, <1>10 DEF Timeout, workerVars, JobRows
<1>11. ASSUME NEW g \in Chans, Aborted(g) PROVE JobRows'
  BY <1>0, <1>11 DEF Aborted, workerVars, JobRows
<1>12. ASSUME NEW g \in Chans, Clear(g) PROVE JobRows'
  BY <1>0, <1>12 DEF Clear, workerVars, JobRows
<1>13. ASSUME NEW g \in Chans, Submit(g) PROVE JobRows'
  BY <1>0, <1>13 DEF Submit, workerVars, JobRows
<1>14. ASSUME NEW w \in Workers, RetryWinPoSt(w) PROVE JobRows'
  BY <1>0, <1>14 DEF RetryWinPoSt, Searched, JobRows, Reported
<1>15. ASSUME NEW w \in Workers, AddPoStActor(w) PROVE JobRows'
  BY <1>0, <1>15 DEF AddPoStActor, JobRows
<1>16. ASSUME NEW w \in Workers, WorkerCrash(w) PROVE JobRows'
  BY <1>0, <1>16 DEF WorkerCrash, JobRows
<1>17. ASSUME NEW j \in jobs, TransferLost(j) PROVE JobRows'
  BY <1>0, <1>17 DEF TransferLost, JobRows
<1>18. CASE AbortPoSt
  BY <1>0, <1>18 DEF AbortPoSt, workerVars, JobRows
<1>19. CASE ResetSyncPoStMap
  BY <1>0, <1>19 DEF ResetSyncPoStMap, workerVars, JobRows
<1>20. CASE ReFindPoStTable
  BY <1>0, <1>20 DEF ReFindPoStTable, workerVars, JobRows
<1>21. CASE MinerCrash
  BY <1>0, <1>21 DEF MinerCrash, MinerStarts, JobRows
<1>22. CASE UNCHANGED vars
  BY <1>0, <1>22 DEF vars, JobRows
<1> QED
  BY <1>1, <1>2, <1>3, <1>4, <1>5, <1>6, <1>7, <1>8, <1>9, <1>10, <1>11, <1>12,
     <1>13, <1>14, <1>15, <1>16, <1>17, <1>18, <1>19, <1>20, <1>21, <1>22
  DEF Next, WorkerStep, CallStep, SubStep, Operator

\* A channel with one more transfer, or one less.
LEMMA InChanAppend ==
  ASSUME NEW c \in Seq(Transfer), NEW t \in Transfer
  PROVE  InChan(Append(c, t)) = InChan(c) \cup {t}
<1>1. Len(c) \in Nat /\ Len(Append(c, t)) = Len(c) + 1
  OBVIOUS
<1>2. \A i \in 1..Len(c) : Append(c, t)[i] = c[i]
  OBVIOUS
<1>3. Append(c, t)[Len(c) + 1] = t
  OBVIOUS
<1> QED  BY <1>1, <1>2, <1>3 DEF InChan

LEMMA InChanTail ==
  ASSUME NEW c \in Seq(Transfer), c # <<>>
  PROVE  Head(c) \in InChan(c) /\ InChan(Tail(c)) \subseteq InChan(c)
<1>1. Len(c) \in Nat /\ Len(c) >= 1 /\ Head(c) = c[1] /\ Len(Tail(c)) = Len(c) - 1
  OBVIOUS
<1>2. \A i \in 1..(Len(c) - 1) : Tail(c)[i] = c[i + 1]
  OBVIOUS
<1> QED  BY <1>1, <1>2 DEF InChan

LEMMA InChanNew ==
  ASSUME NEW t \in Transfer
  PROVE  InChan(<<>>) = {} /\ InChan(<<t>>) = {t}
  BY DEF InChan

\* What waits in the channels.
LEMMA ChanRowsStep ==
  ASSUME TypeInv, JobRows, ChanRows, [Next]_vars
  PROVE  ChanRows'
<1>0. /\ JobRows /\ ChanRows /\ ChanType /\ jobs \subseteq Job
      /\ setup' = setup
  BY TableKept DEF TypeInv, WorkerType
<1>1. CASE NextDeadline
  BY <1>0, <1>1 DEF NextDeadline, subVars, ChanRows
<1>2. ASSUME NEW w \in Workers, WinPoStServer(w) PROVE ChanRows'
  BY <1>0, <1>2 DEF WinPoStServer, subVars, ChanRows
<1>3. ASSUME NEW j \in jobs, GeneratePoStProof(j) PROVE ChanRows'
  BY <1>0, <1>3 DEF GeneratePoStProof, subVars, ChanRows
<1>4. ASSUME NEW j \in jobs, Lock(j) PROVE ChanRows'
  BY <1>0, <1>4 DEF Lock, subVars, ChanRows
<1>5. ASSUME NEW j \in jobs, SendToOld(j) PROVE ChanRows'
  <2>1. Entry(j) \in Transfer /\ AllRows(Entry(j), setup)
    <3>1. j.stage \in Reported
      BY <1>5 DEF SendToOld, Reported
    <3> QED  BY <1>0, <3>1, EntryType DEF JobRows, AllRows
  <2> DEFINE g == postMap[j.part]
  <2>2. CASE chan' = chan
    BY <1>0, <2>2 DEF ChanRows
  <2>3. CASE chan' = [chan EXCEPT ![g] = Append(@, Entry(j))] /\ g \in Chans
    BY <1>0, <2>1, <2>3, InChanAppend DEF ChanRows, ChanType
  <2> QED  BY <2>2, <2>3, <1>5 DEF SendToOld
<1>6. ASSUME NEW j \in jobs, SendToNew(j) PROVE ChanRows'
  <2>1. Entry(j) \in Transfer /\ AllRows(Entry(j), setup)
    <3>1. j.stage \in Reported
      BY <1>6 DEF SendToNew, Reported
    <3> QED  BY <1>0, <3>1, EntryType DEF JobRows, AllRows
  <2>2. PICK g \in Chans : chan' = [chan EXCEPT ![g] = <<Entry(j)>>]
    BY <1>6 DEF SendToNew
  <2> QED  BY <1>0, <2>1, <2>2, InChanNew DEF ChanRows, ChanType
<1>7. ASSUME NEW j \in jobs, Sent(j) PROVE ChanRows'
  <2>1. Entry(j) \in Transfer /\ AllRows(Entry(j), setup)
    <3>1. j.stage \in Reported
      BY <1>7 DEF Sent, Reported
    <3> QED  BY <1>0, <3>1, EntryType DEF JobRows, AllRows
  <2>2. chan' = [chan EXCEPT ![j.to] = Append(@, Entry(j))]
    BY <1>7 DEF Sent
  <2>3. CASE j.to \in Chans
    BY <1>0, <2>1, <2>2, <2>3, InChanAppend DEF ChanRows, ChanType
  <2>4. CASE j.to \notin Chans
    BY <1>0, <2>2, <2>4 DEF ChanRows, ChanType
  <2> QED  BY <2>3, <2>4
<1>8. ASSUME NEW j \in jobs, Unlock(j) PROVE ChanRows'
  <2>1. InChan(<<>>) = {}
    BY DEF InChan
  <2>2. CASE chan' = chan
    BY <1>0, <2>2 DEF ChanRows
  <2>3. CASE chan' = [g \in Chans |-> <<>>]
    BY <1>0, <2>1, <2>3 DEF ChanRows, ChanType
  <2> QED  BY <2>2, <2>3, <1>8 DEF Unlock, MinerStarts, subVars
<1>9. ASSUME NEW g \in Chans, Take(g) PROVE ChanRows'
  <2>1. chan[g] # <<>> /\ chan' = [chan EXCEPT ![g] = Tail(@)]
    BY <1>9 DEF Take
  <2>2. chan[g] \in Seq(Transfer)
    BY <1>0 DEF ChanType
  <2> QED  BY <1>0, <2>1, <2>2, InChanTail DEF ChanRows, ChanType
<1>10. ASSUME NEW g \in Chans, Timeout(g) PROVE ChanRows'
  BY <1>0, <1>10 DEF Timeout, ChanRows
<1>11. ASSUME NEW g \in Chans, Aborted(g) PROVE ChanRows'
  BY <1>0, <1>11 DEF Aborted, ChanRows
<1>12. ASSUME NEW g \in Chans, Clear(g) PROVE ChanRows'
  BY <1>0, <1>12 DEF Clear, ChanRows
<1>13. ASSUME NEW g \in Chans, Submit(g) PROVE ChanRows'
  <2>1. InChan(<<>>) = {}
    BY DEF InChan
  <2>2. CASE chan' = chan
    BY <1>0, <2>2 DEF ChanRows
  <2>3. CASE chan' = [chan EXCEPT ![g] = <<>>]
    BY <1>0, <2>1, <2>3 DEF ChanRows, ChanType
  <2> QED  BY <2>2, <2>3, <1>13 DEF Submit
<1>14. ASSUME NEW w \in Workers, RetryWinPoSt(w) PROVE ChanRows'
  BY <1>0, <1>14 DEF RetryWinPoSt, subVars, ChanRows
<1>15. ASSUME NEW w \in Workers, AddPoStActor(w) PROVE ChanRows'
  BY <1>0, <1>15 DEF AddPoStActor, subVars, ChanRows
<1>16. ASSUME NEW w \in Workers, WorkerCrash(w) PROVE ChanRows'
  BY <1>0, <1>16 DEF WorkerCrash, subVars, ChanRows
<1>17. ASSUME NEW j \in jobs, TransferLost(j) PROVE ChanRows'
  BY <1>0, <1>17 DEF TransferLost, subVars, ChanRows
<1>18. CASE AbortPoSt
  BY <1>0, <1>18 DEF AbortPoSt, ChanRows
<1>19. CASE ResetSyncPoStMap
  BY <1>0, <1>19 DEF ResetSyncPoStMap, subVars, ChanRows
<1>20. CASE ReFindPoStTable
  BY <1>0, <1>20 DEF ReFindPoStTable, subVars, ChanRows
<1>21. CASE MinerCrash
  <2>1. InChan(<<>>) = {}
    BY DEF InChan
  <2>2. CASE chan' = chan
    BY <1>0, <2>2 DEF ChanRows
  <2>3. CASE chan' = [g \in Chans |-> <<>>]
    BY <1>0, <2>1, <2>3 DEF ChanRows, ChanType
  <2> QED  BY <2>2, <2>3, <1>21 DEF MinerCrash, MinerStarts
<1>22. CASE UNCHANGED vars
  BY <1>0, <1>22 DEF vars, ChanRows
<1> QED
  BY <1>1, <1>2, <1>3, <1>4, <1>5, <1>6, <1>7, <1>8, <1>9, <1>10, <1>11, <1>12,
     <1>13, <1>14, <1>15, <1>16, <1>17, <1>18, <1>19, <1>20, <1>21, <1>22
  DEF Next, WorkerStep, CallStep, SubStep, Operator

\* What a transfer adds.
LEMMA MergedEmpty ==
  ASSUME NEW set \in Proved, NEW d \in Deadlines, NEW s \in SUBSET Sectors, Merged(set, d, s) = {}
  PROVE  set = {} /\ s = {}
<1>1. \A x \in s : <<d, x>> \in Merged(set, d, s)
  BY DEF Merged
<1> QED  BY <1>1 DEF Merged

LEMMA MergedWithin ==
  ASSUME NEW set, NEW d \in Deadlines, NEW s, NEW r, set \subseteq Deadlines \X r, s \subseteq r
  PROVE  Merged(set, d, s) \subseteq Deadlines \X r
  BY DEF Merged

LEMMA MergeTaken ==
  ASSUME TypeInv, ChanRows, MergeInv, NEW g \in Chans, chan[g] # <<>>
  PROVE  /\ Taken(g).stage \in {"full", "prove"} => Complete(Taken(g).added, Taken(g).fault)
         /\ Taken(g).fault = {} /\ ~Taken(g).whole =>
              \/ Taken(g).added = {}
              \/ setup.rows # Sectors /\ Taken(g).added \subseteq Deadlines \X setup.rows
<1> DEFINE t == Head(chan[g])
<1>0. SubType /\ ChanType
  BY DEF TypeInv
<1>1. /\ t \in Transfer /\ AllRows(t, setup)
  BY <1>0, ChanTake, InChanTail DEF ChanRows
<1>2. /\ Taken(g).added = Merged(sub[g].added, t.dl, t.proved)
      /\ Taken(g).fault = Merged(sub[g].fault, t.dl, t.fault)
      /\ Taken(g).whole = (sub[g].whole \/ t.proved = Sectors)
      /\ Taken(g).stage = IF Complete(Taken(g).added, Taken(g).fault) THEN "full" ELSE "collect"
  BY <1>0, TakenType DEF TakeAdded, TakeFault
<1>3. /\ sub[g].added \in Proved /\ sub[g].fault \in Proved
      /\ t.dl \in Deadlines /\ t.proved \in SUBSET Sectors /\ t.fault \in SUBSET Sectors
  BY <1>0, <1>1 DEF SubType, Goroutine, Transfer
<1> HIDE DEF t
<1>4. ASSUME Taken(g).fault = {}, ~Taken(g).whole
      PROVE  \/ Taken(g).added = {}
             \/ setup.rows # Sectors /\ Taken(g).added \subseteq Deadlines \X setup.rows
  <2>1. sub[g].fault = {} /\ t.fault = {} /\ ~sub[g].whole /\ t.proved # Sectors
    <3>1. Merged(sub[g].fault, t.dl, t.fault) = {}
      BY <1>2, <1>4
    <3>2. sub[g].fault = {} /\ t.fault = {}
      BY <1>3, <3>1, MergedEmpty
    <3> QED  BY <1>2, <1>4, <3>2
  <2>2. t.proved = setup.rows /\ setup.rows # Sectors
    BY <1>1, <1>3, <2>1 DEF AllRows
  <2>3. sub[g].added = {} \/ sub[g].added \subseteq Deadlines \X setup.rows
    BY <2>1 DEF MergeInv
  <2>4. sub[g].added \subseteq Deadlines \X setup.rows
    BY <2>3
  <2>5. Merged(sub[g].added, t.dl, t.proved) \subseteq Deadlines \X setup.rows
    BY <1>3, <2>2, <2>4, MergedWithin
  <2> QED  BY <1>2, <2>2, <2>5
<1> QED  BY <1>2, <1>4

\* A goroutine is as it was, or has ended.
LEMMA MergeFrame ==
  ASSUME MergeInv, setup' = setup,
         \A g \in Chans : \/ sub'[g] = sub[g]
                          \/ sub'[g].stage \notin {"full", "prove"} /\ sub'[g].added = {}
  PROVE  MergeInv'
  BY DEF MergeInv

\* What the goroutines have merged.
LEMMA MergeStep ==
  ASSUME TypeInv, ChanRows, MergeInv, [Next]_vars
  PROVE  MergeInv'
<1>0. /\ MergeInv /\ ChanRows /\ SubType /\ ChanType /\ jobs \subseteq Job
      /\ setup' = setup
  BY TableKept DEF TypeInv, WorkerType
<1>1. CASE NextDeadline
  BY <1>0, <1>1, MergeFrame DEF NextDeadline, subVars
<1>2. ASSUME NEW w \in Workers, WinPoStServer(w) PROVE MergeInv'
  BY <1>0, <1>2, MergeFrame DEF WinPoStServer, subVars
<1>3. ASSUME NEW j \in jobs, GeneratePoStProof(j) PROVE MergeInv'
  BY <1>0, <1>3, MergeFrame DEF GeneratePoStProof, subVars
<1>4. ASSUME NEW j \in jobs, Lock(j) PROVE MergeInv'
  BY <1>0, <1>4, MergeFrame DEF Lock, subVars
<1>5. ASSUME NEW j \in jobs, SendToOld(j) PROVE MergeInv'
  BY <1>0, <1>5, MergeFrame DEF SendToOld
<1>6. ASSUME NEW j \in jobs, SendToNew(j) PROVE MergeInv'
  <2> DEFINE x == [NoSub EXCEPT !.stage = "collect", !.part = j.part, !.born = j.dl, !.key = j.key]
  <2>1. PICK g \in Chans : sub' = [sub EXCEPT ![g] = x]
    BY <1>6 DEF SendToNew
  <2>2. x \in Goroutine /\ x.stage = "collect" /\ x.added = {}
    BY <1>0, StartedType
  <2> HIDE DEF x
  <2> QED  BY <1>0, <2>1, <2>2, SubPut, MergeFrame
<1>7. ASSUME NEW j \in jobs, Sent(j) PROVE MergeInv'
  BY <1>0, <1>7, MergeFrame DEF Sent
<1>8. ASSUME NEW j \in jobs, Unlock(j) PROVE MergeInv'
  <2>1. CASE sub' = sub
    BY <1>0, <2>1, MergeFrame
  <2>2. CASE sub' = [g \in Chans |-> NoSub]
    BY <1>0, <2>2, NoSubType, MergeFrame
  <2> QED  BY <2>1, <2>2, <1>8 DEF Unlock, MinerStarts, subVars
<1>9. ASSUME NEW g \in Chans, Take(g) PROVE MergeInv'
  <2>1. chan[g] # <<>>
    BY <1>9 DEF Take
  <2>2. sub'[g] = Taken(g) /\ \A h \in Chans : h # g => sub'[h] = sub[h]
    BY <1>0, <1>9, TakeStep
  <2> QED  BY <1>0, <2>1, <2>2, MergeTaken DEF MergeInv
<1>10. ASSUME NEW g \in Chans, Timeout(g) PROVE MergeInv'
  BY <1>0, <1>10, EndsType, MergeFrame DEF Timeout, Ended
<1>11. ASSUME NEW g \in Chans, Aborted(g) PROVE MergeInv'
  BY <1>0, <1>11, EndsType, MergeFrame DEF Aborted, Ended
<1>12. ASSUME NEW g \in Chans, Clear(g) PROVE MergeInv'
  <2>1. CASE Ends(g, "empty")
    BY <1>0, <2>1, EndsType, MergeFrame DEF Ended
  <2>2. CASE sub' = [sub EXCEPT ![g].stage = "prove"]
    <3>1. sub[g].stage = "full"
      BY <1>12 DEF Clear
    <3> QED  BY <1>0, <2>2, <3>1, ProveType DEF MergeInv
  <2> QED  BY <2>1, <2>2, <1>12 DEF Clear
<1>13. ASSUME NEW g \in Chans, Submit(g) PROVE MergeInv'
  BY <1>0, <1>13, EndsType, MergeFrame DEF Submit, Ended
<1>14. ASSUME NEW w \in Workers, RetryWinPoSt(w) PROVE MergeInv'
  BY <1>0, <1>14, MergeFrame DEF RetryWinPoSt, subVars
<1>15. ASSUME NEW w \in Workers, AddPoStActor(w) PROVE MergeInv'
  BY <1>0, <1>15, MergeFrame DEF AddPoStActor, subVars
<1>16. ASSUME NEW w \in Workers, WorkerCrash(w) PROVE MergeInv'
  BY <1>0, <1>16, MergeFrame DEF WorkerCrash, subVars
<1>17. ASSUME NEW j \in jobs, TransferLost(j) PROVE MergeInv'
  BY <1>0, <1>17, MergeFrame DEF TransferLost, subVars
<1>18. CASE AbortPoSt
  BY <1>0, <1>18, MergeFrame DEF AbortPoSt
<1>19. CASE ResetSyncPoStMap
  BY <1>0, <1>19, MergeFrame DEF ResetSyncPoStMap, subVars
<1>20. CASE ReFindPoStTable
  BY <1>0, <1>20, MergeFrame DEF ReFindPoStTable, subVars
<1>21. CASE MinerCrash
  <2>1. CASE sub' = sub
    BY <1>0, <2>1, MergeFrame
  <2>2. CASE sub' = [g \in Chans |-> NoSub]
    BY <1>0, <2>2, NoSubType, MergeFrame
  <2> QED  BY <2>1, <2>2, <1>21 DEF MinerCrash, MinerStarts
<1>22. CASE UNCHANGED vars
  BY <1>0, <1>22 DEF vars, MergeInv
<1> QED
  BY <1>1, <1>2, <1>3, <1>4, <1>5, <1>6, <1>7, <1>8, <1>9, <1>10, <1>11, <1>12,
     <1>13, <1>14, <1>15, <1>16, <1>17, <1>18, <1>19, <1>20, <1>21, <1>22
  DEF Next, WorkerStep, CallStep, SubStep, Operator

\* The proved and the faulty sectors of a goroutine are finitely many.
LEMMA MergedFinite ==
  ASSUME NEW a \in Proved
  PROVE  IsFiniteSet(a) /\ Cardinality(a) \in Nat
<1>1. IsFiniteSet(Deadlines)
  BY Bounds, FS_Interval DEF Deadlines
<1>2. IsFiniteSet(Deadlines \X Sectors)
  BY <1>1, PoStAssumption, FS_Product
<1>3. IsFiniteSet(a)
  BY <1>2, FS_Subset DEF Proved
<1> QED  BY <1>3, FS_CardinalityType

\* With all sectors of a deadline proved, the numbers add up only if none is faulty.
LEMMA ProvableIsWhole ==
  ASSUME TypeInv, RowsInv, NEW g \in Chans, sub[g].stage = "prove", Provable(g)
  PROVE  sub[g].whole
<1> DEFINE d == sub[g].dl
           a == sub[g].added
           f == sub[g].fault
<1>1. a \in Proved /\ f \in Proved
  BY DEF TypeInv, SubType, Goroutine
<1>2. IsFiniteSet(a) /\ Cardinality(a) \in Nat /\ IsFiniteSet(f) /\ Cardinality(f) \in Nat
  BY <1>1, MergedFinite
<1>3. Cardinality(a) + Cardinality(f) = Cardinality(Sectors)
  BY DEF RowsInv, MergeInv, Complete
<1>4. {d} \X Sectors \subseteq a
  BY DEF Provable
<1>5. Cardinality({d} \X Sectors) <= Cardinality(a)
  BY <1>2, <1>4, FS_Subset
<1>6. Cardinality({d} \X Sectors) = Cardinality(Sectors) /\ Cardinality(Sectors) \in Nat
  <2>1. IsFiniteSet({d}) /\ Cardinality({d}) = 1
    BY FS_Singleton
  <2>2. Cardinality({d} \X Sectors) = Cardinality({d}) * Cardinality(Sectors)
    BY <2>1, PoStAssumption, FS_Product
  <2>3. Cardinality(Sectors) \in Nat
    BY PoStAssumption, FS_CardinalityType
  <2> QED  BY <2>1, <2>2, <2>3
<1>7. f = {}
  <2>1. Cardinality(f) = 0
    BY <1>2, <1>3, <1>5, <1>6
  <2> QED  BY <1>2, <2>1, FS_EmptySet
<1>8. PICK s \in Sectors : TRUE
  BY PoStAssumption
<1>9. <<d, s>> \in a
  BY <1>4
<1>10. ASSUME ~sub[g].whole PROVE FALSE
  <2>1. setup.rows # Sectors /\ a \subseteq Deadlines \X setup.rows
    BY <1>7, <1>9, <1>10 DEF RowsInv, MergeInv
  <2>2. \A r \in Sectors : r \in setup.rows
    <3>1. \A r \in Sectors : <<d, r>> \in {d} \X Sectors
      OBVIOUS
    <3> HIDE DEF d, a
    <3> QED  BY <1>4, <2>1, <3>1
  <2>3. setup.rows \subseteq Sectors
    BY PoStAssumption DEF TypeInv, EnvType
  <2> QED  BY <2>1, <2>2, <2>3
<1> QED  BY <1>10

\* A proof that can be made rests on one worker that has read the whole partition:
\* the merge of the parts of several never makes one (submitPoSt counts proved and
\* faulty sectors; QueryToPoSt gives every worker all rows).
THEOREM OneWorkerMakesIt == Spec => []OneWorkerSuffices
<1>1. TypeInv /\ RowsInv /\ [Next]_vars => RowsInv'
  BY JobRowsStep, ChanRowsStep, MergeStep DEF RowsInv
<1>2. Spec => []RowsInv
  BY TypeAlways, RowsInit, <1>1, PTL DEF Spec
<1>3. TypeInv /\ RowsInv => OneWorkerSuffices
  BY ProvableIsWhole DEF OneWorkerSuffices
<1> QED  BY <1>2, <1>3, TypeAlways, PTL

-------------------------------------------------------------------------------
(* How often a partition is submitted.                                     *)

Active == {"collect", "full", "prove"}
\* A goroutine works for the deadline of the call that started it: its first
\* transfer is that call's.
BornInv ==
  \A g \in Chans : sub[g].stage \in Active =>
    /\ sub[g].born \in Deadlines
    /\ \/ sub[g].dl = sub[g].born
       \/ /\ sub[g].dl = 0 /\ sub[g].stage = "collect"
          /\ chan[g] # <<>> /\ Head(chan[g]).dl = sub[g].born

LEMMA BornInit == Init => BornInv
  BY NoSubType DEF Init, BornInv, Active

\* Nothing starts, and no channel of an active goroutine is emptied.
LEMMA BornFrame ==
  ASSUME BornInv,
         \A g \in Chans : sub'[g] = sub[g] \/ sub'[g].stage \notin Active,
         \A g \in Chans : sub'[g].stage \in Active => \/ chan'[g] = chan[g]
                                                      \/ chan[g] = <<>>
                                                      \/ chan'[g] # <<>> /\ Head(chan'[g]) = Head(chan[g])
  PROVE  BornInv'
  BY DEF BornInv

LEMMA HeadAppend ==
  ASSUME NEW c \in Seq(Transfer), NEW t \in Transfer
  PROVE  Append(c, t) # <<>> /\ (c # <<>> => Head(Append(c, t)) = Head(c))
<1>1. Len(c) \in Nat /\ Len(Append(c, t)) = Len(c) + 1 /\ Append(c, t) \in Seq(Transfer)
  OBVIOUS
<1>2. Append(c, t) # <<>>
  BY <1>1
<1>3. ASSUME c # <<>> PROVE Head(Append(c, t)) = Head(c)
  <2>1. Len(c) >= 1 /\ Append(c, t)[1] = c[1]
    BY <1>3
  <2> QED  BY <1>1, <1>2, <1>3, <2>1
<1> QED  BY <1>2, <1>3

\* Every step keeps the deadline of a goroutine.
LEMMA BornStep ==
  ASSUME TypeInv, BornInv, [Next]_vars
  PROVE  BornInv'
<1>0. BornInv /\ SubType /\ ChanType /\ jobs \subseteq Job
  BY DEF TypeInv, WorkerType
<1>1. CASE NextDeadline
  BY <1>0, <1>1, BornFrame DEF NextDeadline, subVars
<1>2. ASSUME NEW w \in Workers, WinPoStServer(w) PROVE BornInv'
  BY <1>0, <1>2, BornFrame DEF WinPoStServer, subVars
<1>3. ASSUME NEW j \in jobs, GeneratePoStProof(j) PROVE BornInv'
  BY <1>0, <1>3, BornFrame DEF GeneratePoStProof, subVars
<1>4. ASSUME NEW j \in jobs, Lock(j) PROVE BornInv'
  BY <1>0, <1>4, BornFrame DEF Lock, subVars
<1>5. ASSUME NEW j \in jobs, SendToOld(j) PROVE BornInv'
  <2>1. Entry(j) \in Transfer /\ sub' = sub
    BY <1>0, <1>5, EntryType DEF SendToOld
  <2>2. \A g \in Chans : chan'[g] = chan[g] \/ chan'[g] = Append(chan[g], Entry(j))
    BY <1>0, <1>5 DEF SendToOld, ChanType
  <2>3. ASSUME NEW g \in Chans
        PROVE  \/ chan'[g] = chan[g]
               \/ chan[g] = <<>>
               \/ chan'[g] # <<>> /\ Head(chan'[g]) = Head(chan[g])
    <3>1. chan[g] \in Seq(Transfer)
      BY <1>0 DEF ChanType
    <3>2. CASE chan'[g] = Append(chan[g], Entry(j))
      BY <2>1, <3>1, <3>2, HeadAppend
    <3> QED  BY <2>2, <3>2
  <2> QED  BY <1>0, <2>1, <2>3, BornFrame
<1>6. ASSUME NEW j \in jobs, SendToNew(j) PROVE BornInv'
  <2> DEFINE x == [NoSub EXCEPT !.stage = "collect", !.part = j.part, !.born = j.dl, !.key = j.key]
  <2>1. PICK g \in Chans : sub' = [sub EXCEPT ![g] = x] /\ chan' = [chan EXCEPT ![g] = <<Entry(j)>>]
    BY <1>6 DEF SendToNew
  <2>2. x \in Goroutine /\ x.dl = 0 /\ x.stage = "collect" /\ x.born = j.dl /\ j.dl \in Deadlines
    BY <1>0, StartedType DEF Job
  <2>3. <<Entry(j)>> # <<>> /\ Head(<<Entry(j)>>).dl = j.dl
    BY <1>0, EntryType
  <2> HIDE DEF x
  <2>4. sub'[g] = x /\ \A h \in Chans : h # g => sub'[h] = sub[h]
    BY <1>0, <2>1, <2>2, SubPut
  <2>5. chan'[g] = <<Entry(j)>> /\ \A h \in Chans : h # g => chan'[h] = chan[h]
    BY <1>0, <2>1 DEF ChanType
  <2> QED  BY <1>0, <2>2, <2>3, <2>4, <2>5 DEF BornInv
<1>7. ASSUME NEW j \in jobs, Sent(j) PROVE BornInv'
  <2>1. Entry(j) \in Transfer /\ sub' = sub
    BY <1>0, <1>7, EntryType DEF Sent
  <2>2. \A g \in Chans : chan'[g] = chan[g] \/ chan'[g] = Append(chan[g], Entry(j))
    BY <1>0, <1>7 DEF Sent, ChanType
  <2>3. ASSUME NEW g \in Chans
        PROVE  \/ chan'[g] = chan[g]
               \/ chan[g] = <<>>
               \/ chan'[g] # <<>> /\ Head(chan'[g]) = Head(chan[g])
    <3>1. chan[g] \in Seq(Transfer)
      BY <1>0 DEF ChanType
    <3>2. CASE chan'[g] = Append(chan[g], Entry(j))
      BY <2>1, <3>1, <3>2, HeadAppend
    <3> QED  BY <2>2, <3>2
  <2> QED  BY <1>0, <2>1, <2>3, BornFrame
<1>8. ASSUME NEW j \in jobs, Unlock(j) PROVE BornInv'
  <2>1. CASE sub' = sub /\ chan' = chan
    BY <1>0, <2>1, BornFrame
  <2>2. CASE sub' = [g \in Chans |-> NoSub]
    BY <1>0, <2>2, NoSubType, BornFrame DEF Active
  <2> QED  BY <2>1, <2>2, <1>8 DEF Unlock, MinerStarts, subVars
<1>9. ASSUME NEW g \in Chans, Take(g) PROVE BornInv'
  <2>1. sub[g].stage = "collect" /\ chan[g] # <<>> /\ chan' = [chan EXCEPT ![g] = Tail(@)]
    BY <1>9 DEF Take
  <2>2. sub'[g] = Taken(g) /\ \A h \in Chans : h # g => sub'[h] = sub[h]
    BY <1>0, <1>9, TakeStep
  <2>3. sub'[g].born = sub[g].born /\ sub'[g].dl = TakeDl(g)
    BY <1>0, <2>1, <2>2, TakenType
  <2>4. sub[g].born \in Deadlines /\ TakeDl(g) = sub[g].born
    <3>1. /\ sub[g].born \in Deadlines
          /\ sub[g].dl = sub[g].born \/ (sub[g].dl = 0 /\ Head(chan[g]).dl = sub[g].born)
      BY <1>0, <2>1 DEF BornInv, Active
    <3>2. 0 \notin Deadlines
      BY Bounds DEF Deadlines
    <3> QED  BY <3>1, <3>2 DEF TakeDl
  <2>5. \A h \in Chans : h # g => chan'[h] = chan[h]
    BY <1>0, <2>1 DEF ChanType
  <2> QED  BY <1>0, <2>2, <2>3, <2>4, <2>5 DEF BornInv
<1>10. ASSUME NEW g \in Chans, Timeout(g) PROVE BornInv'
  BY <1>0, <1>10, EndsType, BornFrame DEF Timeout, Ended, Active
<1>11. ASSUME NEW g \in Chans, Aborted(g) PROVE BornInv'
  BY <1>0, <1>11, EndsType, BornFrame DEF Aborted, Ended, Active
<1>12. ASSUME NEW g \in Chans, Clear(g) PROVE BornInv'
  <2>1. CASE Ends(g, "empty")
    BY <1>0, <2>1, <1>12, EndsType, BornFrame DEF Clear, Ended, Active
  <2>2. CASE sub' = [sub EXCEPT ![g].stage = "prove"]
    <3>1. sub[g].stage = "full" /\ chan' = chan
      BY <1>12 DEF Clear
    <3>2. /\ sub'[g].stage = "prove" /\ sub'[g].born = sub[g].born /\ sub'[g].dl = sub[g].dl
          /\ \A h \in Chans : h # g => sub'[h] = sub[h]
      BY <1>0, <2>2, ProveType
    <3> QED  BY <1>0, <3>1, <3>2 DEF BornInv, Active
  <2> QED  BY <2>1, <2>2, <1>12 DEF Clear
<1>13. ASSUME NEW g \in Chans, Submit(g) PROVE BornInv'
  <2>1. sub'[g].stage = "free" /\ \A h \in Chans : h # g => sub'[h] = sub[h]
    BY <1>0, <1>13, EndsType DEF Submit, Ended
  <2>2. \A h \in Chans : h # g => chan'[h] = chan[h]
    BY <1>0, <1>13 DEF Submit, ChanType
  <2> QED  BY <1>0, <2>1, <2>2, BornFrame DEF Active
<1>14. ASSUME NEW w \in Workers, RetryWinPoSt(w) PROVE BornInv'
  BY <1>0, <1>14, BornFrame DEF RetryWinPoSt, subVars
<1>15. ASSUME NEW w \in Workers, AddPoStActor(w) PROVE BornInv'
  BY <1>0, <1>15, BornFrame DEF AddPoStActor, subVars
<1>16. ASSUME NEW w \in Workers, WorkerCrash(w) PROVE BornInv'
  BY <1>0, <1>16, BornFrame DEF WorkerCrash, subVars
<1>17. ASSUME NEW j \in jobs, TransferLost(j) PROVE BornInv'
  BY <1>0, <1>17, BornFrame DEF TransferLost, subVars
<1>18. CASE AbortPoSt
  BY <1>0, <1>18, BornFrame DEF AbortPoSt
<1>19. CASE ResetSyncPoStMap
  BY <1>0, <1>19, BornFrame DEF ResetSyncPoStMap, subVars
<1>20. CASE ReFindPoStTable
  BY <1>0, <1>20, BornFrame DEF ReFindPoStTable, subVars
<1>21. CASE MinerCrash
  <2>1. CASE sub' = sub /\ chan' = chan
    BY <1>0, <2>1, BornFrame
  <2>2. CASE sub' = [g \in Chans |-> NoSub]
    BY <1>0, <2>2, NoSubType, BornFrame DEF Active
  <2> QED  BY <2>1, <2>2, <1>21 DEF MinerCrash, MinerStarts
<1>22. CASE UNCHANGED vars
  BY <1>0, <1>22 DEF vars, BornInv
<1> QED
  BY <1>1, <1>2, <1>3, <1>4, <1>5, <1>6, <1>7, <1>8, <1>9, <1>10, <1>11, <1>12,
     <1>13, <1>14, <1>15, <1>16, <1>17, <1>18, <1>19, <1>20, <1>21, <1>22
  DEF Next, WorkerStep, CallStep, SubStep, Operator

\* What may still submit partition p for deadline d: the calls on their way with a
\* key, before they have found or started a goroutine, and the goroutines that such
\* calls have started.
Calls(d, p) ==
  {j \in jobs : j.key /\ j.dl = d /\ j.part = p /\ j.stage \in {"prove", "wait", "in"}}
Writers(d, p) ==
  {g \in Chans : sub[g].key /\ sub[g].born = d /\ sub[g].part = p /\ sub[g].stage \in Active}
\* The workers whose loop has noted the deadline; what "worker addPost" has added
\* does not count, its calls have no key.
Noted(d) ==
  IF setup.cli THEN {} ELSE {w \in Provers : d < now \/ (d = now /\ opened[w] = now)}
Flow(d, p) ==
  /\ IsFiniteSet(Calls(d, p))
  /\ pushed[d][p] + Cardinality(Calls(d, p)) + Cardinality(Writers(d, p))
       <= again[d] + Cardinality(Noted(d))
FlowInv == \A d \in Deadlines, p \in Parts : Flow(d, p)

LEMMA ProversFinite ==
  ASSUME setup \in Setups
  PROVE  IsFiniteSet(Provers) /\ Provers \subseteq Workers
<1>1. Provers \subseteq Workers
  BY PoStAssumption DEF Provers
<1> QED  BY <1>1, PoStAssumption, FS_Subset

LEMMA Sizes ==
  ASSUME TypeInv, setup' = setup, NEW d \in Deadlines, NEW p \in Parts, Flow(d, p)
  PROVE  /\ Cardinality(Calls(d, p)) \in Nat
         /\ IsFiniteSet(Writers(d, p)) /\ Cardinality(Writers(d, p)) \in Nat
         /\ IsFiniteSet(Writers(d, p)') /\ Cardinality(Writers(d, p)') \in Nat
         /\ IsFiniteSet(Noted(d)) /\ Cardinality(Noted(d)) \in Nat
         /\ IsFiniteSet(Noted(d)') /\ Cardinality(Noted(d)') \in Nat
         /\ pushed[d][p] \in Nat /\ again[d] \in Nat
<1>1. IsFiniteSet(Chans)
  BY Bounds, FS_Interval DEF Chans
<1>2. Writers(d, p) \subseteq Chans /\ Writers(d, p)' \subseteq Chans
  BY DEF Writers
<1>3. IsFiniteSet(Provers)
  BY ProversFinite DEF TypeInv, EnvType
<1>4. Noted(d) \subseteq Provers /\ Noted(d)' \subseteq Provers
  BY DEF Noted, Provers
<1>5. pushed[d][p] \in Nat /\ again[d] \in Nat
  BY DEF TypeInv, SeenType, AgainType
<1>6. Cardinality(Calls(d, p)) \in Nat
  BY FS_CardinalityType DEF Flow
<1>7. IsFiniteSet(Writers(d, p)) /\ IsFiniteSet(Writers(d, p)')
  BY <1>1, <1>2, FS_Subset
<1>8. IsFiniteSet(Noted(d)) /\ IsFiniteSet(Noted(d)')
  BY <1>3, <1>4, FS_Subset
<1> QED  BY <1>5, <1>6, <1>7, <1>8, FS_CardinalityType

LEMMA FlowInit == Init => FlowInv
<1> SUFFICES ASSUME Init, NEW d \in Deadlines, NEW p \in Parts PROVE Flow(d, p)
  BY DEF FlowInv
<1>1. Calls(d, p) = {} /\ Writers(d, p) = {} /\ pushed[d][p] = 0 /\ again[d] = 0
  BY NoSubType DEF Init, Calls, Writers, Active
<1>2. Cardinality(Noted(d)) \in Nat
  <2>1. IsFiniteSet(Provers)
    BY ProversFinite DEF Init
  <2>2. Noted(d) \subseteq Provers
    BY DEF Noted
  <2> QED  BY <2>1, <2>2, FS_Subset, FS_CardinalityType
<1> QED  BY <1>1, <1>2, FS_EmptySet DEF Flow

\* One element takes the place of another.
LEMMA CardMoved ==
  ASSUME NEW A, NEW B, IsFiniteSet(B), NEW x \in B, NEW y, A \subseteq (B \ {x}) \cup {y}
  PROVE  IsFiniteSet(A) /\ Cardinality(A) <= Cardinality(B) /\ Cardinality(A) \in Nat
<1>1. IsFiniteSet(B \ {x}) /\ Cardinality(B \ {x}) = Cardinality(B) - 1 /\ Cardinality(B) \in Nat
  BY FS_RemoveElement, FS_CardinalityType
<1>2. /\ IsFiniteSet((B \ {x}) \cup {y})
      /\ Cardinality((B \ {x}) \cup {y}) = Cardinality(B \ {x}) + 1
           \/ Cardinality((B \ {x}) \cup {y}) = Cardinality(B \ {x})
  BY <1>1, FS_AddElement
<1>3. IsFiniteSet(A) /\ Cardinality(A) <= Cardinality((B \ {x}) \cup {y})
  BY <1>2, FS_Subset
<1>4. Cardinality(A) \in Nat
  BY <1>3, FS_CardinalityType
<1> QED  BY <1>1, <1>2, <1>3, <1>4

\* At most one element more.
LEMMA CardAdded ==
  ASSUME NEW A, NEW B, IsFiniteSet(B), NEW y, A \subseteq B \cup {y}
  PROVE  IsFiniteSet(A) /\ Cardinality(A) <= Cardinality(B) + 1 /\ Cardinality(A) \in Nat
<1>1. Cardinality(B) \in Nat
  BY FS_CardinalityType
<1>2. /\ IsFiniteSet(B \cup {y})
      /\ Cardinality(B \cup {y}) = Cardinality(B) + 1 \/ Cardinality(B \cup {y}) = Cardinality(B)
  BY FS_AddElement
<1>3. IsFiniteSet(A) /\ Cardinality(A) <= Cardinality(B \cup {y})
  BY <1>2, FS_Subset
<1>4. Cardinality(A) \in Nat
  BY <1>3, FS_CardinalityType
<1> QED  BY <1>1, <1>2, <1>3, <1>4

LEMMA CardLess ==
  ASSUME NEW A, NEW B, IsFiniteSet(B), A \subseteq B
  PROVE  IsFiniteSet(A) /\ Cardinality(A) <= Cardinality(B) /\ Cardinality(A) \in Nat
<1>1. IsFiniteSet(A) /\ Cardinality(A) <= Cardinality(B)
  BY FS_Subset
<1> QED  BY <1>1, FS_CardinalityType

\* Nobody starts, nothing is pushed, and no note is lost.
LEMMA FlowKept ==
  ASSUME TypeInv, setup' = setup, NEW d \in Deadlines, NEW p \in Parts, Flow(d, p),
         pushed' = pushed, again'[d] \in Nat, again[d] <= again'[d], Noted(d) \subseteq Noted(d)',
         Writers(d, p)' \subseteq Writers(d, p),
         \/ Calls(d, p)' \subseteq Calls(d, p)
         \/ \E j \in Calls(d, p) : \E i : Calls(d, p)' \subseteq (Calls(d, p) \ {j}) \cup {i}
  PROVE  Flow(d, p)'
<1>1. /\ IsFiniteSet(Calls(d, p)') /\ Cardinality(Calls(d, p)') \in Nat
      /\ Cardinality(Calls(d, p)') <= Cardinality(Calls(d, p))
  BY CardMoved, CardLess DEF Flow
<1>2. Cardinality(Writers(d, p)') <= Cardinality(Writers(d, p))
  BY Sizes, CardLess
<1>3. Cardinality(Noted(d)) <= Cardinality(Noted(d)')
  BY Sizes, CardLess
<1>4. pushed[d][p] + Cardinality(Calls(d, p)) + Cardinality(Writers(d, p)) <= again[d] + Cardinality(Noted(d))
  BY DEF Flow
<1>5. pushed[d][p] + Cardinality(Calls(d, p)') + Cardinality(Writers(d, p)') <= again'[d] + Cardinality(Noted(d)')
  BY <1>1, <1>2, <1>3, <1>4, Sizes
<1> QED  BY <1>1, <1>5 DEF Flow

\* The same, where something may be pushed elsewhere.
LEMMA FlowKeptHere ==
  ASSUME TypeInv, setup' = setup, NEW d \in Deadlines, NEW p \in Parts, Flow(d, p),
         pushed'[d][p] = pushed[d][p], again'[d] \in Nat, again[d] <= again'[d], Noted(d)' = Noted(d),
         Writers(d, p)' \subseteq Writers(d, p), Calls(d, p)' = Calls(d, p)
  PROVE  Flow(d, p)'
<1>1. Cardinality(Writers(d, p)') <= Cardinality(Writers(d, p))
  BY Sizes, CardLess
<1>2. pushed[d][p] + Cardinality(Calls(d, p)) + Cardinality(Writers(d, p)) <= again[d] + Cardinality(Noted(d))
  BY DEF Flow
<1>3. pushed'[d][p] + Cardinality(Calls(d, p)) + Cardinality(Writers(d, p)') <= again'[d] + Cardinality(Noted(d))
  BY <1>1, <1>2, Sizes
<1> QED  BY <1>3 DEF Flow

LEMMA AgainGrow ==
  ASSUME TypeInv, [Next]_vars, NEW d \in Deadlines
  PROVE  again[d] \in Nat /\ again'[d] \in Nat /\ again[d] <= again'[d]
<1>1. again \in [Deadlines -> Nat] /\ now \in Deadlines
  BY DEF TypeInv, AgainType, EnvType, Deadlines
<1>2. PICK n \in {0, 1} : AgainBy(n)
  BY AgainStep
<1> QED  BY <1>1, <1>2 DEF AgainBy

\* A call that has found its goroutine, or left it behind.
LEMMA CallsGo ==
  ASSUME jobs \subseteq Job, NEW j \in jobs, NEW s \in {"out", "send"}, NEW g \in 0..MaxChan, Goes(j, s, g),
         NEW d, NEW p
  PROVE  Calls(d, p)' \subseteq Calls(d, p)
<1> DEFINE i == [j EXCEPT !.stage = s, !.to = g]
<1>1. i.stage = s
  BY DEF Job
<1>2. jobs' = (jobs \ {j}) \cup {i}
  BY DEF Goes
<1> HIDE DEF i
<1> QED  BY <1>1, <1>2 DEF Calls

\* A worker forgets the deadline, which takes an operator or a crash.
LEMMA FlowForgets ==
  ASSUME TypeInv, setup' = setup, NEW d \in Deadlines, NEW p \in Parts, Flow(d, p),
         NEW w \in Workers, pushed' = pushed, UNCHANGED <<now, sub>>,
         again' = [again EXCEPT ![now] = @ + Restarts(w)],
         opened' = [opened EXCEPT ![w] = 0], jobs' \subseteq jobs
  PROVE  Flow(d, p)'
<1>0. /\ now \in Deadlines /\ 0 \notin Deadlines /\ opened \in [Workers -> 0..MaxDeadline]
      /\ again \in [Deadlines -> Nat]
  BY Bounds DEF TypeInv, EnvType, WorkerType, AgainType, Deadlines
<1>1. Writers(d, p)' = Writers(d, p) /\ Calls(d, p)' \subseteq Calls(d, p)
  BY DEF Writers, Calls
<1>2. CASE d = now /\ opened[w] = now /\ ~setup.cli
  <2>1. Noted(d) \subseteq Noted(d)' \cup {w}
    BY <1>0 DEF Noted, Provers
  <2>2. /\ IsFiniteSet(Calls(d, p)') /\ Cardinality(Calls(d, p)') \in Nat
        /\ Cardinality(Calls(d, p)') <= Cardinality(Calls(d, p))
    BY <1>1, CardLess DEF Flow
  <2>3. Cardinality(Noted(d)) <= Cardinality(Noted(d)') + 1
    BY <2>1, Sizes, CardAdded
  <2>4. pushed[d][p] + Cardinality(Calls(d, p)) + Cardinality(Writers(d, p)) <= again[d] + Cardinality(Noted(d))
    BY DEF Flow
  <2>5. pushed[d][p] + Cardinality(Calls(d, p)') + Cardinality(Writers(d, p)) <= again[d] + 1 + Cardinality(Noted(d)')
    BY <2>2, <2>3, <2>4, Sizes
  <2>6. again'[d] = again[d] + 1
    BY <1>0, <1>2 DEF Restarts
  <2> QED  BY <1>1, <2>2, <2>5, <2>6 DEF Flow
<1>3. CASE ~(d = now /\ opened[w] = now /\ ~setup.cli)
  <2>1. Noted(d) \subseteq Noted(d)'
    BY <1>0, <1>3 DEF Noted, Provers
  <2>2. Restarts(w) \in {0, 1} /\ again'[d] \in Nat /\ again[d] <= again'[d]
    BY <1>0 DEF Restarts
  <2> QED  BY <1>1, <2>1, <2>2, FlowKept
<1> QED  BY <1>2, <1>3

\* Every step keeps the balance: what starts a proof is a note or an operator.
LEMMA FlowStep ==
  ASSUME TypeInv, BornInv, [Next]_vars, NEW d \in Deadlines, NEW p \in Parts, Flow(d, p)
  PROVE  Flow(d, p)'
<1>0. /\ Flow(d, p) /\ BornInv /\ SubType /\ ChanType /\ jobs \subseteq Job
      /\ setup' = setup /\ again[d] \in Nat /\ again'[d] \in Nat /\ again[d] <= again'[d]
      /\ now \in Nat /\ opened \in [Workers -> 0..MaxDeadline]
  BY TableKept, AgainGrow, Bounds DEF TypeInv, WorkerType, EnvType, Deadlines
<1>1. CASE NextDeadline
  <2>1. pushed' = pushed
    BY <1>1 DEF NextDeadline, seenVars
  <2>2. Noted(d) \subseteq Noted(d)'
    BY <1>0, Bounds, <1>1 DEF NextDeadline, workerVars, Noted, Provers, Deadlines
  <2>3. Writers(d, p)' \subseteq Writers(d, p)
    BY <1>1 DEF NextDeadline, subVars, Writers
  <2>4. Calls(d, p)' \subseteq Calls(d, p)
    BY <1>1 DEF NextDeadline, workerVars, Calls
  <2> QED  BY <1>0, <2>1, <2>2, <2>3, <2>4, FlowKept
<1>2. ASSUME NEW w \in Workers, WinPoStServer(w) PROVE Flow(d, p)'
  <2> DEFINE i == [by |-> w, dl |-> now, part |-> p, n |-> ops, stage |-> "prove", proved |-> {},
                  fault |-> {}, key |-> ~setup.cli, lock |-> 1, unlock |-> 1, to |-> 0]
  <2>1. /\ pushed' = pushed /\ again' = again /\ now' = now /\ sub' = sub
        /\ w \in Provers /\ opened[w] # now /\ opened' = [opened EXCEPT ![w] = now]
        /\ jobs' = Searched(w, ops, ~setup.cli)
    BY <1>2 DEF WinPoStServer, opVars, subVars, seenVars
  <2>2. Writers(d, p)' = Writers(d, p)
    BY <2>1 DEF Writers
  <2>3. Noted(d) \subseteq Noted(d)'
    BY <1>0, <2>1 DEF Noted, Provers
  <2>4. CASE d = now /\ ~setup.cli
    <3>1. Calls(d, p)' \subseteq Calls(d, p) \cup {i}
      BY <2>1, <2>4 DEF Calls, Searched
    <3>2. w \notin Noted(d) /\ Noted(d) \cup {w} \subseteq Noted(d)'
      BY <1>0, <2>1, <2>3, <2>4 DEF Noted, Provers
    <3>3. /\ IsFiniteSet(Calls(d, p)') /\ Cardinality(Calls(d, p)') \in Nat
          /\ Cardinality(Calls(d, p)') <= Cardinality(Calls(d, p)) + 1
      BY <1>0, <3>1, CardAdded DEF Flow
    <3>4. Cardinality(Noted(d)) + 1 <= Cardinality(Noted(d)')
      <4>1. Cardinality(Noted(d) \cup {w}) = Cardinality(Noted(d)) + 1
        BY <1>0, <3>2, Sizes, FS_AddElement
      <4>2. Cardinality(Noted(d) \cup {w}) <= Cardinality(Noted(d)')
        BY <1>0, <3>2, Sizes, CardLess
      <4> QED  BY <4>1, <4>2
    <3>5. pushed[d][p] + Cardinality(Calls(d, p)) + Cardinality(Writers(d, p)) <= again[d] + Cardinality(Noted(d))
      BY <1>0 DEF Flow
    <3>6. pushed[d][p] + Cardinality(Calls(d, p)') + Cardinality(Writers(d, p)) <= again[d] + Cardinality(Noted(d)')
      BY <1>0, <3>3, <3>4, <3>5, Sizes
    <3> QED  BY <2>1, <2>2, <3>3, <3>6 DEF Flow
  <2>5. CASE d # now \/ setup.cli
    <3>1. Calls(d, p)' \subseteq Calls(d, p)
      <4>1. \A k \in jobs' : k \in jobs \/ (k.dl = now /\ k.key = ~setup.cli)
        BY <2>1 DEF Searched
      <4>2. \A k \in jobs' : k.key /\ k.dl = d => k \in jobs
        BY <2>5, <4>1
      <4> QED  BY <4>2 DEF Calls
    <3> QED  BY <1>0, <2>1, <2>2, <2>3, <3>1, FlowKept
  <2> QED  BY <2>4, <2>5
<1>3. ASSUME NEW j \in jobs, GeneratePoStProof(j) PROVE Flow(d, p)'
  <2>1. pushed' = pushed
    BY <1>3 DEF GeneratePoStProof, seenVars
  <2>2. Noted(d) \subseteq Noted(d)'
    BY <1>0, <1>3 DEF GeneratePoStProof, Noted, Provers
  <2>3. Writers(d, p)' \subseteq Writers(d, p)
    BY <1>3 DEF GeneratePoStProof, subVars, Writers
  <2>4. PICK p1, f1 \in SUBSET Sectors : jobs' \subseteq (jobs \ {j}) \cup
          {[j EXCEPT !.stage = "wait", !.proved = p1, !.fault = f1, !.lock = map]}
    <3>1. rows \in SUBSET Sectors
      BY DEF TypeInv, EnvType
    <3> QED  BY <1>3, <3>1 DEF GeneratePoStProof
  <2> DEFINE i == [j EXCEPT !.stage = "wait", !.proved = p1, !.fault = f1, !.lock = map]
  <2>5. i.key = j.key /\ i.dl = j.dl /\ i.part = j.part /\ j.stage = "prove"
    BY <1>0, <1>3 DEF Job, GeneratePoStProof
  <2> HIDE DEF i
  <2>6. Calls(d, p)' \subseteq Calls(d, p) \/ (j \in Calls(d, p) /\ Calls(d, p)' \subseteq (Calls(d, p) \ {j}) \cup {i})
    BY <2>4, <2>5 DEF Calls, i
  <2> QED  BY <1>0, <2>1, <2>2, <2>3, <2>6, FlowKept
<1>4. ASSUME NEW j \in jobs, Lock(j) PROVE Flow(d, p)'
  <2>1. pushed' = pushed
    BY <1>4 DEF Lock
  <2>2. Noted(d) \subseteq Noted(d)'
    BY <1>0, <1>4 DEF Lock, Noted, Provers
  <2>3. Writers(d, p)' \subseteq Writers(d, p)
    BY <1>4 DEF Lock, subVars, Writers
  <2> DEFINE i == [j EXCEPT !.stage = "in", !.unlock = map]
  <2>4. j.stage = "wait" /\ jobs' = (jobs \ {j}) \cup {i}
    BY <1>4 DEF Lock
  <2>5. i.key = j.key /\ i.dl = j.dl /\ i.part = j.part
    BY <1>0 DEF Job
  <2> HIDE DEF i
  <2>6. Calls(d, p)' \subseteq Calls(d, p) \/ (j \in Calls(d, p) /\ Calls(d, p)' \subseteq (Calls(d, p) \ {j}) \cup {i})
    BY <2>4, <2>5 DEF Calls
  <2> QED  BY <1>0, <2>1, <2>2, <2>3, <2>6, FlowKept
<1>5. ASSUME NEW j \in jobs, SendToOld(j) PROVE Flow(d, p)'
  <2>1. pushed' = pushed
    BY <1>5 DEF SendToOld, seenVars
  <2>2. Noted(d) \subseteq Noted(d)'
    BY <1>0, <1>5 DEF SendToOld, Noted, Provers
  <2>3. Writers(d, p)' \subseteq Writers(d, p)
    BY <1>5 DEF SendToOld, Writers
  <2>4. Calls(d, p)' \subseteq Calls(d, p)
    <3>1. PICK s \in {"out", "send"}, g \in 0..MaxChan : Goes(j, s, g)
      BY <1>5, Bounds DEF SendToOld, Chans
    <3> QED  BY <1>0, <3>1, CallsGo
  <2> QED  BY <1>0, <2>1, <2>2, <2>3, <2>4, FlowKept
<1>6. ASSUME NEW j \in jobs, SendToNew(j) PROVE Flow(d, p)'
  <2> DEFINE x == [NoSub EXCEPT !.stage = "collect", !.part = j.part, !.born = j.dl, !.key = j.key]
             i == [j EXCEPT !.stage = "out", !.to = 0]
  <2>1. PICK g \in Chans : Unused(g) /\ sub' = [sub EXCEPT ![g] = x]
    BY <1>6 DEF SendToNew
  <2>2. /\ x \in Goroutine /\ x.stage = "collect" /\ x.born = j.dl /\ x.key = j.key /\ x.part = j.part
        /\ i.stage = "out"
    BY <1>0, StartedType DEF Job
  <2> HIDE DEF x, i
  <2>3. sub'[g] = x /\ \A h \in Chans : h # g => sub'[h] = sub[h]
    BY <1>0, <2>1, <2>2, SubPut
  <2>4. /\ jobs' = (jobs \ {j}) \cup {i} /\ j.stage = "in"
        /\ pushed' = pushed /\ UNCHANGED <<now, opened, again>>
    BY <1>6 DEF SendToNew, Goes, seenVars, opVars, i
  <2>5. Noted(d)' = Noted(d)
    BY <1>0, <2>4 DEF Noted, Provers
  <2>6. CASE j \in Calls(d, p)
    <3>1. Calls(d, p)' \subseteq Calls(d, p) \ {j}
      BY <2>2, <2>4 DEF Calls
    <3>2. Writers(d, p)' \subseteq Writers(d, p) \cup {g}
      BY <2>3 DEF Writers
    <3>3. /\ IsFiniteSet(Calls(d, p) \ {j})
          /\ Cardinality(Calls(d, p) \ {j}) = Cardinality(Calls(d, p)) - 1
      BY <1>0, <2>6, FS_RemoveElement DEF Flow
    <3>4. /\ IsFiniteSet(Calls(d, p)') /\ Cardinality(Calls(d, p)') \in Nat
          /\ Cardinality(Calls(d, p)') <= Cardinality(Calls(d, p)) - 1
      BY <3>1, <3>3, CardLess
    <3>5. Cardinality(Writers(d, p)') <= Cardinality(Writers(d, p)) + 1
      BY <1>0, <3>2, Sizes, CardAdded
    <3>6. pushed[d][p] + Cardinality(Calls(d, p)) + Cardinality(Writers(d, p)) <= again[d] + Cardinality(Noted(d))
      BY <1>0 DEF Flow
    <3>7. pushed[d][p] + Cardinality(Calls(d, p)') + Cardinality(Writers(d, p)') <= again[d] + Cardinality(Noted(d))
      BY <1>0, <3>4, <3>5, <3>6, Sizes
    <3> QED  BY <2>4, <2>5, <3>4, <3>7 DEF Flow
  <2>7. CASE j \notin Calls(d, p)
    <3>1. ~(j.key /\ j.dl = d /\ j.part = p)
      BY <2>4, <2>7 DEF Calls
    <3>2. Writers(d, p)' \subseteq Writers(d, p)
      BY <2>2, <2>3, <3>1 DEF Writers
    <3>3. Calls(d, p)' \subseteq Calls(d, p)
      BY <2>2, <2>4 DEF Calls
    <3> QED  BY <1>0, <2>4, <2>5, <3>2, <3>3, FlowKept
  <2> QED  BY <2>6, <2>7
<1>7. ASSUME NEW j \in jobs, Sent(j) PROVE Flow(d, p)'
  <2>1. pushed' = pushed
    BY <1>7 DEF Sent, seenVars
  <2>2. Noted(d) \subseteq Noted(d)'
    BY <1>0, <1>7 DEF Sent, Noted, Provers
  <2>3. Writers(d, p)' \subseteq Writers(d, p)
    BY <1>7 DEF Sent, Writers
  <2>4. Calls(d, p)' \subseteq Calls(d, p)
    <3>1. PICK s \in {"out", "send"}, g \in 0..MaxChan : Goes(j, s, g)
      BY <1>7, Bounds DEF Sent, Chans
    <3> QED  BY <1>0, <3>1, CallsGo
  <2> QED  BY <1>0, <2>1, <2>2, <2>3, <2>4, FlowKept
<1>8. ASSUME NEW j \in jobs, Unlock(j) PROVE Flow(d, p)'
  <2>1. pushed' = pushed
    BY <1>8 DEF Unlock, seenVars, MinerStarts
  <2>2. Noted(d) \subseteq Noted(d)'
    BY <1>0, <1>8 DEF Unlock, MinerStarts, Noted, Provers
  <2>3. Writers(d, p)' \subseteq Writers(d, p)
    <3>1. sub' = sub \/ sub' = [g \in Chans |-> NoSub]
      BY <1>8 DEF Unlock, MinerStarts, subVars
    <3> QED  BY <3>1, NoSubType DEF Writers, Active
  <2>4. Calls(d, p)' \subseteq Calls(d, p)
    BY <1>8 DEF Unlock, MinerStarts, Calls
  <2> QED  BY <1>0, <2>1, <2>2, <2>3, <2>4, FlowKept
<1>9. ASSUME NEW g \in Chans, Take(g) PROVE Flow(d, p)'
  <2>1. pushed' = pushed
    BY <1>9 DEF Take, seenVars
  <2>2. Noted(d) \subseteq Noted(d)'
    BY <1>0, <1>9 DEF Take, workerVars, Noted, Provers
  <2>3. Writers(d, p)' \subseteq Writers(d, p)
    <3>1. chan[g] # <<>> /\ sub[g].stage = "collect"
      BY <1>9 DEF Take
    <3>2. /\ sub'[g].key = sub[g].key /\ sub'[g].born = sub[g].born /\ sub'[g].part = sub[g].part
          /\ \A h \in Chans : h # g => sub'[h] = sub[h]
      BY <1>0, <3>1, <1>9, TakeStep, TakenType
    <3> QED  BY <3>1, <3>2 DEF Writers, Active
  <2>4. Calls(d, p)' \subseteq Calls(d, p)
    BY <1>9 DEF Take, workerVars, Calls
  <2> QED  BY <1>0, <2>1, <2>2, <2>3, <2>4, FlowKept
<1>10. ASSUME NEW g \in Chans, Timeout(g) PROVE Flow(d, p)'
  <2>1. pushed' = pushed
    BY <1>10 DEF Timeout, seenVars
  <2>2. Noted(d) \subseteq Noted(d)'
    BY <1>0, <1>10 DEF Timeout, workerVars, Noted, Provers
  <2>3. Writers(d, p)' \subseteq Writers(d, p)
    BY <1>0, <1>10, EndsType DEF Timeout, Ended, Active, Writers
  <2>4. Calls(d, p)' \subseteq Calls(d, p)
    BY <1>10 DEF Timeout, workerVars, Calls
  <2> QED  BY <1>0, <2>1, <2>2, <2>3, <2>4, FlowKept
<1>11. ASSUME NEW g \in Chans, Aborted(g) PROVE Flow(d, p)'
  <2>1. pushed' = pushed
    BY <1>11 DEF Aborted, seenVars
  <2>2. Noted(d) \subseteq Noted(d)'
    BY <1>0, <1>11 DEF Aborted, workerVars, Noted, Provers
  <2>3. Writers(d, p)' \subseteq Writers(d, p)
    BY <1>0, <1>11, EndsType DEF Aborted, Ended, Active, Writers
  <2>4. Calls(d, p)' \subseteq Calls(d, p)
    BY <1>11 DEF Aborted, workerVars, Calls
  <2> QED  BY <1>0, <2>1, <2>2, <2>3, <2>4, FlowKept
<1>12. ASSUME NEW g \in Chans, Clear(g) PROVE Flow(d, p)'
  <2>1. pushed' = pushed
    BY <1>12 DEF Clear, seenVars
  <2>2. Noted(d) \subseteq Noted(d)'
    BY <1>0, <1>12 DEF Clear, workerVars, Noted, Provers
  <2>3. Writers(d, p)' \subseteq Writers(d, p)
    <3>1. CASE Ends(g, "empty")
      BY <1>0, <3>1, EndsType DEF Ended, Active, Writers
    <3>2. CASE sub' = [sub EXCEPT ![g].stage = "prove"] /\ sub[g].stage = "full"
      <4>1. /\ sub'[g].key = sub[g].key /\ sub'[g].born = sub[g].born /\ sub'[g].part = sub[g].part
            /\ \A h \in Chans : h # g => sub'[h] = sub[h]
        BY <1>0, <3>2, ProveType
      <4> QED  BY <3>2, <4>1 DEF Writers, Active
    <3> QED  BY <3>1, <3>2, <1>12 DEF Clear
  <2>4. Calls(d, p)' \subseteq Calls(d, p)
    BY <1>12 DEF Clear, workerVars, Calls
  <2> QED  BY <1>0, <2>1, <2>2, <2>3, <2>4, FlowKept
<1>13. ASSUME NEW g \in Chans, Submit(g) PROVE Flow(d, p)'
  <2>1. /\ sub[g].stage = "prove" /\ UNCHANGED <<now, opened, jobs>>
        /\ \/ pushed' = pushed
           \/ sub[g].key /\ pushed' = [pushed EXCEPT ![sub[g].dl][sub[g].part] = @ + 1]
    BY <1>13 DEF Submit, workerVars
  <2>2. sub'[g].stage = "free" /\ \A h \in Chans : h # g => sub'[h] = sub[h]
    BY <1>0, <1>13, EndsType DEF Submit, Ended
  <2>3. Noted(d)' = Noted(d) /\ Calls(d, p)' = Calls(d, p)
    BY <1>0, <2>1 DEF Noted, Provers, Calls
  <2>4. Writers(d, p)' \subseteq Writers(d, p) \ {g}
    BY <2>2 DEF Writers, Active
  <2>5. CASE pushed'[d][p] = pushed[d][p]
    BY <1>0, <2>3, <2>4, <2>5, FlowKeptHere
  <2>6. CASE pushed'[d][p] # pushed[d][p]
    <3>1. /\ sub[g].key /\ sub[g].dl = d /\ sub[g].part = p
          /\ pushed'[d][p] = pushed[d][p] + 1
      BY <2>1, <2>6 DEF TypeInv, SeenType
    <3>2. sub[g].born = d
      BY <1>0, <2>1, <3>1 DEF BornInv, Active
    <3>3. g \in Writers(d, p)
      BY <2>1, <3>1, <3>2 DEF Writers, Active
    <3>4. /\ IsFiniteSet(Writers(d, p) \ {g})
          /\ Cardinality(Writers(d, p) \ {g}) = Cardinality(Writers(d, p)) - 1
      BY <1>0, <3>3, Sizes, FS_RemoveElement
    <3>5. Cardinality(Writers(d, p)') <= Cardinality(Writers(d, p)) - 1
      BY <2>4, <3>4, CardLess
    <3>6. pushed[d][p] + Cardinality(Calls(d, p)) + Cardinality(Writers(d, p)) <= again[d] + Cardinality(Noted(d))
      BY <1>0 DEF Flow
    <3>7. pushed'[d][p] + Cardinality(Calls(d, p)) + Cardinality(Writers(d, p)') <= again'[d] + Cardinality(Noted(d))
      BY <1>0, <3>1, <3>5, <3>6, Sizes
    <3> QED  BY <1>0, <2>3, <3>7 DEF Flow
  <2> QED  BY <2>5, <2>6
<1>14. ASSUME NEW w \in Workers, RetryWinPoSt(w) PROVE Flow(d, p)'
  <2> DEFINE i == [by |-> w, dl |-> now, part |-> p, n |-> ops + 1, stage |-> "prove", proved |-> {},
                  fault |-> {}, key |-> TRUE, lock |-> 1, unlock |-> 1, to |-> 0]
  <2>1. /\ pushed' = pushed /\ again' = [again EXCEPT ![now] = @ + 1] /\ UNCHANGED <<now, opened, sub>>
        /\ jobs' = Searched(w, ops + 1, TRUE)
    BY <1>14 DEF RetryWinPoSt, SpendFor, subVars, seenVars
  <2>2. Writers(d, p)' = Writers(d, p) /\ Noted(d)' = Noted(d)
    BY <1>0, <2>1 DEF Writers, Noted, Provers
  <2>3. CASE d = now
    <3>1. Calls(d, p)' \subseteq Calls(d, p) \cup {i}
      BY <2>1 DEF Calls, Searched
    <3>2. /\ IsFiniteSet(Calls(d, p)') /\ Cardinality(Calls(d, p)') \in Nat
          /\ Cardinality(Calls(d, p)') <= Cardinality(Calls(d, p)) + 1
      BY <1>0, <3>1, CardAdded DEF Flow
    <3>3. pushed[d][p] + Cardinality(Calls(d, p)) + Cardinality(Writers(d, p)) <= again[d] + Cardinality(Noted(d))
      BY <1>0 DEF Flow
    <3>4. pushed[d][p] + Cardinality(Calls(d, p)') + Cardinality(Writers(d, p)) <= again[d] + 1 + Cardinality(Noted(d))
      BY <1>0, <3>2, <3>3, Sizes
    <3>5. again'[d] = again[d] + 1
      BY <2>1, <2>3 DEF TypeInv, AgainType
    <3> QED  BY <2>1, <2>2, <3>2, <3>4, <3>5 DEF Flow
  <2>4. CASE d # now
    <3>1. \A k \in jobs' : k.dl = d => k \in jobs
      BY <2>1, <2>4 DEF Searched
    <3>2. Calls(d, p)' \subseteq Calls(d, p)
      BY <3>1 DEF Calls
    <3> QED  BY <1>0, <2>1, <2>2, <3>2, FlowKept
  <2> QED  BY <2>3, <2>4
<1>15. ASSUME NEW w \in Workers, AddPoStActor(w) PROVE Flow(d, p)'
  <2>1. /\ pushed' = pushed /\ again' = [again EXCEPT ![now] = @ + Restarts(w)] /\ UNCHANGED <<now, sub>>
        /\ opened' = [opened EXCEPT ![w] = 0] /\ jobs' \subseteq jobs
    BY <1>15 DEF AddPoStActor, Spend, SpendFor, subVars, seenVars
  <2> QED  BY <1>0, <2>1, FlowForgets
<1>16. ASSUME NEW w \in Workers, WorkerCrash(w) PROVE Flow(d, p)'
  <2>1. /\ pushed' = pushed /\ again' = [again EXCEPT ![now] = @ + Restarts(w)] /\ UNCHANGED <<now, sub>>
        /\ opened' = [opened EXCEPT ![w] = 0] /\ jobs' \subseteq jobs
    BY <1>16 DEF WorkerCrash, Spend, SpendFor, subVars, seenVars
  <2> QED  BY <1>0, <2>1, FlowForgets
<1>17. ASSUME NEW j \in jobs, TransferLost(j) PROVE Flow(d, p)'
  <2>1. pushed' = pushed
    BY <1>17 DEF TransferLost, seenVars
  <2>2. Noted(d) \subseteq Noted(d)'
    BY <1>0, <1>17 DEF TransferLost, Noted, Provers
  <2>3. Writers(d, p)' \subseteq Writers(d, p)
    BY <1>17 DEF TransferLost, subVars, Writers
  <2>4. Calls(d, p)' \subseteq Calls(d, p)
    BY <1>17 DEF TransferLost, Calls
  <2> QED  BY <1>0, <2>1, <2>2, <2>3, <2>4, FlowKept
<1>18. CASE AbortPoSt
  <2>1. pushed' = pushed
    BY <1>18 DEF AbortPoSt, seenVars
  <2>2. Noted(d) \subseteq Noted(d)'
    BY <1>0, <1>18 DEF AbortPoSt, workerVars, Noted, Provers
  <2>3. Writers(d, p)' \subseteq Writers(d, p)
    BY <1>18 DEF AbortPoSt, Writers
  <2>4. Calls(d, p)' \subseteq Calls(d, p)
    BY <1>18 DEF AbortPoSt, workerVars, Calls
  <2> QED  BY <1>0, <2>1, <2>2, <2>3, <2>4, FlowKept
<1>19. CASE ResetSyncPoStMap
  <2>1. pushed' = pushed
    BY <1>19 DEF ResetSyncPoStMap, seenVars
  <2>2. Noted(d) \subseteq Noted(d)'
    BY <1>0, <1>19 DEF ResetSyncPoStMap, workerVars, Noted, Provers
  <2>3. Writers(d, p)' \subseteq Writers(d, p)
    BY <1>19 DEF ResetSyncPoStMap, subVars, Writers
  <2>4. Calls(d, p)' \subseteq Calls(d, p)
    BY <1>19 DEF ResetSyncPoStMap, workerVars, Calls
  <2> QED  BY <1>0, <2>1, <2>2, <2>3, <2>4, FlowKept
<1>20. CASE ReFindPoStTable
  <2>1. pushed' = pushed
    BY <1>20 DEF ReFindPoStTable, seenVars
  <2>2. Noted(d) \subseteq Noted(d)'
    BY <1>0, <1>20 DEF ReFindPoStTable, workerVars, Noted, Provers
  <2>3. Writers(d, p)' \subseteq Writers(d, p)
    BY <1>20 DEF ReFindPoStTable, subVars, Writers
  <2>4. Calls(d, p)' \subseteq Calls(d, p)
    BY <1>20 DEF ReFindPoStTable, workerVars, Calls
  <2> QED  BY <1>0, <2>1, <2>2, <2>3, <2>4, FlowKept
<1>21. CASE MinerCrash
  <2>1. pushed' = pushed
    BY <1>21 DEF MinerCrash, MinerStarts
  <2>2. Noted(d) \subseteq Noted(d)'
    BY <1>0, <1>21 DEF MinerCrash, MinerStarts, Noted, Provers
  <2>3. Writers(d, p)' \subseteq Writers(d, p)
    <3>1. sub' = sub \/ sub' = [g \in Chans |-> NoSub]
      BY <1>21 DEF MinerCrash, MinerStarts
    <3> QED  BY <3>1, NoSubType DEF Writers, Active
  <2>4. Calls(d, p)' \subseteq Calls(d, p)
    BY <1>21 DEF MinerCrash, MinerStarts, Calls
  <2> QED  BY <1>0, <2>1, <2>2, <2>3, <2>4, FlowKept
<1>22. CASE UNCHANGED vars
  BY <1>0, <1>22 DEF vars, Flow, Calls, Writers, Noted, Provers
<1> QED
  BY <1>1, <1>2, <1>3, <1>4, <1>5, <1>6, <1>7, <1>8, <1>9, <1>10, <1>11, <1>12,
     <1>13, <1>14, <1>15, <1>16, <1>17, <1>18, <1>19, <1>20, <1>21, <1>22
  DEF Next, WorkerStep, CallStep, SubStep, Operator

LEMMA BalanceCounts ==
  ASSUME TypeInv, FlowInv
  PROVE  DuplicatesExplained
<1> SUFFICES ASSUME NEW d \in Deadlines, NEW p \in Parts
             PROVE  pushed[d][p] <= again[d] + IF setup.cli THEN 0 ELSE Cardinality(Provers)
  BY DEF DuplicatesExplained
<1>1. IsFiniteSet(Provers) /\ Cardinality(Provers) \in Nat
  BY ProversFinite, FS_CardinalityType DEF TypeInv, EnvType
<1>2. Noted(d) \subseteq Provers /\ (setup.cli => Noted(d) = {})
  BY DEF Noted
<1>3. /\ IsFiniteSet(Noted(d)) /\ Cardinality(Noted(d)) \in Nat
      /\ Cardinality(Noted(d)) <= Cardinality(Provers)
      /\ setup.cli => Cardinality(Noted(d)) = 0
  BY <1>1, <1>2, CardLess, FS_EmptySet
<1>4. Cardinality(Calls(d, p)) \in Nat /\ Cardinality(Writers(d, p)) \in Nat
  <2>1. IsFiniteSet(Chans)
    BY Bounds, FS_Interval DEF Chans
  <2>2. Writers(d, p) \subseteq Chans
    BY DEF Writers
  <2> QED  BY <2>1, <2>2, CardLess, FS_CardinalityType DEF FlowInv, Flow
<1>5. pushed[d][p] + Cardinality(Calls(d, p)) + Cardinality(Writers(d, p)) <= again[d] + Cardinality(Noted(d))
  BY DEF FlowInv, Flow
<1>6. pushed[d][p] \in Nat /\ again[d] \in Nat
  BY DEF TypeInv, SeenType, AgainType
<1> QED  BY <1>1, <1>3, <1>4, <1>5, <1>6

\* A partition of a deadline is submitted no more often than workers have noted the
\* deadline, and once more for each retry, actor added again or crash: no reset, no
\* restart of the miner and no order of the calls makes another (WinPoStServer,
\* RetryWinPoSt, AddPoStActor, StartSubmitPoSt, submitPoSt).
THEOREM DuplicatesAreExplained == Spec => []DuplicatesExplained
<1>1. TypeInv /\ BornInv /\ [Next]_vars => BornInv'
  BY BornStep
<1>2. Spec => []BornInv
  BY TypeAlways, BornInit, <1>1, PTL DEF Spec
<1>3. TypeInv /\ BornInv /\ FlowInv /\ [Next]_vars => FlowInv'
  BY FlowStep DEF FlowInv
<1>4. Spec => []FlowInv
  BY TypeAlways, <1>2, FlowInit, <1>3, PTL DEF Spec
<1>5. TypeInv /\ FlowInv => DuplicatesExplained
  BY BalanceCounts
<1> QED  BY <1>4, <1>5, TypeAlways, PTL
===============================================================================
