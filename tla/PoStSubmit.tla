------------------------------ MODULE PoStSubmit ------------------------------
(***************************************************************************)
(* The window PoSt of one actor, computed by the workers and submitted by  *)
(* the miner.  A worker sees a deadline open, proves what it can of every  *)
(* partition and calls StartSubmitPoSt; the miner keeps one channel per    *)
(* partition index in SyncPoStMap, drained by a submitPoSt goroutine that  *)
(* merges what it gets until the partition is complete.  The partition     *)
(* indexes are the same for every deadline, so an entry that outlives its  *)
(* goroutine meets the proofs of deadlines to come.                        *)
(*                                                                         *)
(* Deadlines are numbered as they open; a sector of partition p proved at  *)
(* deadline d is <<d, k>>: no sector belongs to two deadlines.             *)
(***************************************************************************)
EXTENDS Naturals, Sequences, FiniteSets

CONSTANTS
  Workers,      \* worker daemons
  Parts,        \* partition indexes
  Sectors,      \* sectors of a partition
  Setups,       \* instances: the sectors each worker of the actor can read, those
                \* with a row in the PoSt table, the partitions of a deadline, if
                \* the actor was added by a call or by "worker addPost", which
                \* swaps the key and its type, the faults and operators' calls
  ChanCap,      \* capacity of a partition's channel (1024)
  MaxDeadline,  \* bound: deadlines
  MaxChan,      \* bound: submitPoSt goroutines alive or referred to
  MaxOps,       \* bound: faults and operator calls, resets aside
  MaxResets     \* bound: resets of the map

AllOps == {"late", "retry", "readd", "wcrash", "lost", "fault", "abort",
           "reset", "pushfail", "mcrash", "refind"}

ASSUME PoStAssumption ==
  /\ \A s \in Setups : /\ DOMAIN s.disk \subseteq Workers
                       /\ \A w \in DOMAIN s.disk : s.disk[w] \subseteq Sectors
                       /\ s.rows \subseteq Sectors
                       /\ s.parts \subseteq Parts /\ s.cli \in BOOLEAN
                       /\ s.ops \subseteq AllOps
  /\ IsFiniteSet(Workers) /\ IsFiniteSet(Sectors) /\ Sectors # {} /\ Parts # {}
  /\ ChanCap \in Nat \ {0}
  /\ MaxDeadline \in Nat \ {0} /\ MaxChan \in Nat
  /\ MaxOps \in Nat /\ MaxResets \in Nat

Deadlines == 1..MaxDeadline
Chans == 1..MaxChan
Maps == 1..(MaxResets + 1)     \* the SyncPoStMaps that resets make one after another
Absent == MaxChan + 1       \* no key for the partition in the map ...
Nil == 0                    \* ... or a key whose channel has been set to nil

Proved == SUBSET (Deadlines \X Sectors)
Transfer == [dl : Deadlines, proved : SUBSET Sectors, fault : SUBSET Sectors]
Job == [by : Workers, dl : Deadlines, part : Parts, n : 0..MaxOps,
        stage : {"prove",   \* GeneratePoStProof at the worker
                 "wait",    \* StartSubmitPoSt, at the Lock of the map it has seen
                 "in",      \* it has the lock
                 "send",    \* it has the lock and waits for room in the channel
                 "out"},    \* before its deferred Unlock
        proved : SUBSET Sectors, fault : SUBSET Sectors, key : BOOLEAN,
        lock : Maps, unlock : Maps, to : 0..MaxChan]
Ended == {"free", "timeout", "abort", "empty"}
Goroutine == [stage : Ended \cup {"collect", "full", "prove"},
              part : Parts, born : 0..MaxDeadline, dl : 0..MaxDeadline,
              added : Proved, fault : Proved, key : BOOLEAN, whole : BOOLEAN]

VARIABLES
  now,      \* the deadline that is open
  setup,    \* the instance
  rows,     \* the sectors with a SUCCESS row in db_post_infos
  opened,   \* ActorPoStInfo.DiOpen of each worker, 0 before the first
  jobs,     \* partitions being proved, and the calls they end with
  map,      \* Miner.SyncPoStMap: which of the maps
  locked,   \* the mutex L of each map
  postMap,  \* PostMap[actor] of the current map
  closeMap, \* CloseMap[actor] of the current map, Nil if there is none
  chan,     \* the channel of each goroutine
  sub,      \* the submitPoSt goroutines; key: an address type
            \* "pri" with a key; whole: one transfer had all sectors
  signals,  \* AbortPoSt's sends to each goroutine that were not received
  pushed,   \* messages pushed for each deadline and partition
  crossed,  \* a call has waited for a mutex while a reset replaced its map
  fatal,    \* an Unlock of an unlocked mutex has ended the process before
  clean,    \* the deadline at which the map was last empty with nothing under
            \* way, if no fault and no operator came in between, else Dirty
  resets,   \* resets so far
  ops,      \* other operator calls and faults so far
  again     \* of these, for each deadline, the ones after which a worker starts its
            \* proofs again while the deadline is open

workerVars == <<opened, jobs>>
mapVars == <<map, locked, postMap, closeMap>>
subVars == <<chan, sub, signals>>
seenVars == <<pushed, crossed, fatal>>
opVars == <<clean, resets, ops, again>>
vars == <<now, setup, rows, opened, jobs, map, locked, postMap, closeMap,
          chan, sub, signals, pushed, crossed, fatal, clean, resets, ops, again>>

Dirty == MaxDeadline + 1
NoSub == [stage |-> "free", part |-> CHOOSE p \in Parts : TRUE, born |-> 0, dl |-> 0,
          added |-> {}, fault |-> {}, key |-> FALSE, whole |-> FALSE]

TypeOK ==
  /\ now \in Deadlines
  /\ setup \in Setups
  /\ rows \subseteq Sectors
  /\ opened \in [Workers -> 0..MaxDeadline]
  /\ jobs \subseteq Job
  /\ map \in Maps /\ locked \in [Maps -> BOOLEAN]
  /\ postMap \in [Parts -> 0..(MaxChan + 1)]
  /\ closeMap \in 0..MaxChan
  /\ chan \in [Chans -> Seq(Transfer)] /\ \A g \in Chans : Len(chan[g]) <= ChanCap
  /\ sub \in [Chans -> Goroutine]
  /\ signals \in [Chans -> 0..MaxOps]
  /\ pushed \in [Deadlines -> [Parts -> Nat]]
  /\ crossed \in BOOLEAN /\ fatal \in BOOLEAN
  /\ clean \in 0..Dirty /\ resets \in 0..MaxResets /\ ops \in 0..MaxOps
  /\ again \in [Deadlines -> Nat]

\* The workers that have been given the actor.
Provers == DOMAIN setup.disk
EmptyMap ==
  /\ postMap' = [p \in Parts |-> Absent]
  /\ closeMap' = Nil

Init ==
  /\ now = 1
  /\ setup \in Setups /\ rows = setup.rows
  /\ opened = [w \in Workers |-> 0]
  /\ jobs = {}
  /\ map = 1 /\ locked = [m \in Maps |-> FALSE]
  /\ postMap = [p \in Parts |-> Absent] /\ closeMap = Nil
  /\ chan = [g \in Chans |-> <<>>]
  /\ sub = [g \in Chans |-> NoSub]
  /\ signals = [g \in Chans |-> 0]
  /\ pushed = [d \in Deadlines |-> [p \in Parts |-> 0]]
  /\ crossed = FALSE /\ fatal = FALSE
  /\ clean = 0 /\ resets = 0 /\ ops = 0
  /\ again = [d \in Deadlines |-> 0]

\* A fault or an operator's call, after which starts proofs of the open deadline
\* are started again, or one after which none are.
SpendFor(op, starts) ==
  /\ op \in setup.ops /\ ops < MaxOps
  /\ ops' = ops + 1 /\ clean' = Dirty /\ UNCHANGED resets
  /\ again' = [again EXCEPT ![now] = @ + starts]
Spend(op) == SpendFor(op, 0)

-------------------------------------------------------------------------------
(* The chain, and the workers.                                             *)

\* Everything that moves by itself has moved; what still collects must wait.
Quiet ==
  /\ jobs = {}
  /\ \A g \in Chans : /\ sub[g].stage \notin {"full", "prove"}
                      /\ sub[g].stage = "collect" => chan[g] = <<>> /\ signals[g] = 0
\* The deadline closes and the next one opens, in time or too early.
NextDeadline ==
  /\ now < MaxDeadline
  /\ \/ Quiet /\ (\A w \in Provers : opened[w] = now) /\ UNCHANGED opVars
     \/ Spend("late")
  /\ now' = now + 1
  /\ UNCHANGED <<setup, rows, workerVars, mapVars, subVars, seenVars>>

\* ReFindPoStTable enters the sectors that are PROVING in the PoSt table.
ReFindPoStTable ==
  /\ rows # Sectors
  /\ Spend("refind")
  /\ rows' = Sectors
  /\ UNCHANGED <<now, setup, workerVars, mapVars, subVars, seenVars>>

\* SearchPartitions: one goroutine per partition, for the deadline that is open.
Searched(w, n, key) ==
  jobs \cup {[by |-> w, dl |-> now, part |-> p, n |-> n, stage |-> "prove", proved |-> {},
              fault |-> {}, key |-> key, lock |-> 1, unlock |-> 1, to |-> 0] : p \in setup.parts}

\* Mutant of WinPoStServer: the deadline is not noted.
WinPoStServer_forgets(w) ==
  /\ w \in Provers /\ opened[w] # now
  /\ jobs' = Searched(w, ops, ~setup.cli)
  /\ UNCHANGED <<now, setup, rows, opened, mapVars, subVars, seenVars, opVars>>
\* The loop of a worker: every deadline once, whatever comes of it.
WinPoStServer(w) ==
  /\ w \in Provers /\ opened[w] # now
  /\ opened' = [opened EXCEPT ![w] = now]
  /\ jobs' = Searched(w, ops, ~setup.cli)
  /\ UNCHANGED <<now, setup, rows, mapVars, subVars, seenVars, opVars>>
RetryWinPoSt(w) ==
  /\ w \in Provers
  /\ SpendFor("retry", 1)
  /\ jobs' = Searched(w, ops + 1, TRUE)
  /\ UNCHANGED <<now, setup, rows, opened, mapVars, subVars, seenVars>>
\* The loop of the worker will take the open deadline for a new one; what "worker
\* addPost" has added has no key, and submits nothing.
Restarts(w) == IF opened[w] = now /\ ~setup.cli THEN 1 ELSE 0
\* Adding an actor again replaces its entry, DiOpen included.
AddPoStActor(w) ==
  /\ opened[w] # 0
  /\ SpendFor("readd", Restarts(w))
  /\ opened' = [opened EXCEPT ![w] = 0]
  /\ UNCHANGED <<now, setup, rows, jobs, mapVars, subVars, seenVars>>
\* The actors of a worker are memory, to be added again; its calls that have
\* reached the miner are carried out.
WorkerCrash(w) ==
  /\ SpendFor("wcrash", Restarts(w))
  /\ opened' = [opened EXCEPT ![w] = 0]
  /\ jobs' = {j \in jobs : j.by # w \/ j.stage # "prove"}
  /\ UNCHANGED <<now, setup, rows, mapVars, subVars, seenVars>>

\* QueryToPoSt does not look at the worker: it gives each one all rows.  What a
\* worker cannot read it reports as faulty.
GeneratePoStProof(j) ==
  /\ j \in jobs /\ j.stage = "prove"
  /\ \E bad \in SUBSET (rows \cap setup.disk[j.by]) :
       /\ IF bad = {} THEN UNCHANGED opVars ELSE Spend("fault")
       /\ LET ok == (rows \cap setup.disk[j.by]) \ bad IN
          jobs' = (jobs \ {j}) \cup
            (IF rows = {} THEN {}      \* an error, which the miner does not handle
             ELSE {[j EXCEPT !.stage = "wait", !.proved = ok, !.fault = rows \ ok, !.lock = map]})
  /\ UNCHANGED <<now, setup, rows, opened, mapVars, subVars, seenVars>>
\* The miner is not reached; there is no second try.
TransferLost(j) ==
  /\ j \in jobs /\ j.stage = "prove"
  /\ Spend("lost")
  /\ jobs' = jobs \ {j}
  /\ UNCHANGED <<now, setup, rows, opened, mapVars, subVars, seenVars>>

-------------------------------------------------------------------------------
(* Miner.StartSubmitPoSt.                                                  *)

\* Mutant of Lock: it is not waited for.
Lock_free(j) ==
  /\ j \in jobs /\ j.stage = "wait"
  /\ locked' = [locked EXCEPT ![j.lock] = TRUE]
  /\ jobs' = (jobs \ {j}) \cup {[j EXCEPT !.stage = "in", !.unlock = map]}
  /\ crossed' = (crossed \/ j.lock # map)
  /\ UNCHANGED <<now, setup, rows, opened, map, postMap, closeMap, subVars, pushed, fatal, opVars>>
\* The mutex locked is that of the map seen at the call; the one the defer
\* statement will unlock is that of the map there is now.
Lock(j) ==
  /\ j \in jobs /\ j.stage = "wait"
  /\ ~locked[j.lock]
  /\ locked' = [locked EXCEPT ![j.lock] = TRUE]
  /\ jobs' = (jobs \ {j}) \cup {[j EXCEPT !.stage = "in", !.unlock = map]}
  /\ crossed' = (crossed \/ j.lock # map)
  /\ UNCHANGED <<now, setup, rows, opened, map, postMap, closeMap, subVars, pushed, fatal, opVars>>

Entry(j) == [dl |-> j.dl, proved |-> j.proved, fault |-> j.fault]
Goes(j, stage, g) == jobs' = (jobs \ {j}) \cup {[j EXCEPT !.stage = stage, !.to = g]}

\* A goroutine nobody refers to any more; its number may be used again.
Unused(g) ==
  /\ sub[g].stage \in Ended
  /\ g # closeMap
  /\ \A p \in Parts : postMap[p] # g
  /\ \A j \in jobs : j.to # g
\* Mutant of SendToOld: a channel without a capacity.
SendToOld_unbounded(j) ==
  /\ j \in jobs /\ j.stage = "in"
  /\ LET g == postMap[j.part] IN
     /\ g \in Chans
     /\ chan' = [chan EXCEPT ![g] = Append(@, Entry(j))] /\ Goes(j, "out", 0)
  /\ UNCHANGED <<now, setup, rows, opened, mapVars, sub, signals, seenVars, opVars>>
\* The partition has a channel: the transfer goes there, whoever reads it.
SendToOld(j) ==
  /\ j \in jobs /\ j.stage = "in"
  /\ LET g == postMap[j.part] IN
     /\ g \in Chans
     /\ IF Len(chan[g]) < ChanCap
        THEN chan' = [chan EXCEPT ![g] = Append(@, Entry(j))] /\ Goes(j, "out", 0)
        ELSE UNCHANGED chan /\ Goes(j, "send", g)
  /\ UNCHANGED <<now, setup, rows, opened, mapVars, sub, signals, seenVars, opVars>>
\* It has none: a channel and a goroutine that starts its timer now.
SendToNew(j) ==
  /\ j \in jobs /\ j.stage = "in"
  /\ postMap[j.part] \notin Chans
  /\ \E g \in Chans :
       /\ Unused(g) /\ \A h \in Chans : Unused(h) => g <= h
       /\ chan' = [chan EXCEPT ![g] = <<Entry(j)>>]
       /\ sub' = [sub EXCEPT ![g] = [NoSub EXCEPT !.stage = "collect", !.part = j.part,
                                                  !.born = j.dl, !.key = j.key]]
       /\ signals' = [signals EXCEPT ![g] = 0]
       /\ postMap' = [postMap EXCEPT ![j.part] = g]
  /\ Goes(j, "out", 0)
  /\ UNCHANGED <<now, setup, rows, opened, map, locked, closeMap, seenVars, opVars>>
\* Room in the channel at last.
Sent(j) ==
  /\ j \in jobs /\ j.stage = "send"
  /\ Len(chan[j.to]) < ChanCap
  /\ chan' = [chan EXCEPT ![j.to] = Append(@, Entry(j))]
  /\ Goes(j, "out", 0)
  /\ UNCHANGED <<now, setup, rows, opened, mapVars, sub, signals, seenVars, opVars>>

\* The memory of a miner that starts; calls to the one before have failed.
MinerStarts ==
  /\ map' = 1 /\ locked' = [m \in Maps |-> FALSE]
  /\ EmptyMap
  /\ chan' = [g \in Chans |-> <<>>]
  /\ sub' = [g \in Chans |-> NoSub]
  /\ signals' = [g \in Chans |-> 0]
  /\ UNCHANGED <<now, setup, rows, opened, pushed, crossed>>
Unlock(j) ==
  /\ j \in jobs /\ j.stage = "out"
  /\ \/ /\ locked[j.unlock]
        /\ locked' = [locked EXCEPT ![j.unlock] = FALSE]
        /\ jobs' = jobs \ {j}
        /\ UNCHANGED <<now, setup, rows, opened, map, postMap, closeMap, subVars, seenVars>>
     \/ /\ ~locked[j.unlock]        \* "fatal error: sync: unlock of unlocked mutex"
        /\ fatal' = TRUE
        /\ jobs' = {i \in jobs : i.stage = "prove"}
        /\ MinerStarts
  /\ UNCHANGED opVars

-------------------------------------------------------------------------------
(* Miner.submitPoSt.                                                       *)

Merged(set, d, sectors) == set \cup ({d} \X sectors)
\* Mutant of Complete: the faulty sectors are not counted.
Complete_proved(added, fault) == Cardinality(added) = Cardinality(Sectors)
Complete(added, fault) == Cardinality(added) + Cardinality(fault) = Cardinality(Sectors)

\* What one transfer makes of a goroutine.  The first one sets the deadline; the
\* partition is complete when the numbers of proved and faulty sectors add up.
Taken(g) ==
  LET t == Head(chan[g])
      a == Merged(sub[g].added, t.dl, t.proved)
      f == Merged(sub[g].fault, t.dl, t.fault)
  IN [sub[g] EXCEPT !.dl = IF @ = 0 THEN t.dl ELSE @, !.added = a, !.fault = f,
                    !.whole = @ \/ t.proved = Sectors,
                    !.stage = IF Complete(a, f) THEN "full" ELSE "collect"]
\* One transfer is taken; the first one enters the goroutine in CloseMap.
Take(g) ==
  /\ sub[g].stage = "collect" /\ chan[g] # <<>>
  /\ sub' = [sub EXCEPT ![g] = Taken(g)]
  /\ closeMap' = IF sub[g].dl = 0 THEN g ELSE closeMap
  /\ chan' = [chan EXCEPT ![g] = Tail(@)]
  /\ UNCHANGED <<now, setup, rows, workerVars, map, locked, postMap, signals, seenVars, opVars>>

\* What a goroutine has collected goes with it.
Ends(g, how) == sub' = [sub EXCEPT ![g] = [NoSub EXCEPT !.stage = how, !.part = sub[g].part]]
\* The timer runs for the time that was left when the worker asked the chain,
\* so it fires after the deadline has closed.  The entry stays.
Timeout(g) ==
  /\ sub[g].stage = "collect" /\ now > sub[g].born
  /\ Ends(g, "timeout")
  /\ UNCHANGED <<now, setup, rows, workerVars, mapVars, chan, signals, seenVars, opVars>>

\* AbortPoSt sends to the channel CloseMap holds: a second send waits for ever.
AbortPoSt ==
  /\ closeMap # Nil
  /\ Spend("abort")
  /\ signals' = [signals EXCEPT ![closeMap] = @ + 1]
  /\ UNCHANGED <<now, setup, rows, workerVars, mapVars, chan, sub, seenVars>>
Aborted(g) ==
  /\ sub[g].stage = "collect" /\ signals[g] > 0
  /\ Ends(g, "abort")
  /\ signals' = [signals EXCEPT ![g] = @ - 1]
  /\ UNCHANGED <<now, setup, rows, workerVars, mapVars, chan, seenVars, opVars>>

\* Mutant of Clear: the entry is deleted from CloseMap only.
Clear_closeOnly(g) ==
  /\ sub[g].stage = "full" /\ sub[g].added # {}
  /\ sub' = [sub EXCEPT ![g].stage = "prove"]
  /\ closeMap' = Nil
  /\ UNCHANGED <<now, setup, rows, workerVars, map, locked, postMap, chan, signals, seenVars, opVars>>
\* The entries are cleared without the lock, in the map there is now, whoever
\* they belong to; a partition without any proof leaves them as they are.
Clear(g) ==
  /\ sub[g].stage = "full"
  /\ LET known == \E p \in Parts : postMap[p] # Absent IN
     IF sub[g].added = {}
     THEN Ends(g, "empty") /\ UNCHANGED <<postMap, closeMap>>
     ELSE /\ sub' = [sub EXCEPT ![g].stage = "prove"]
          /\ postMap' = [postMap EXCEPT ![sub[g].part] = IF @ = Absent THEN Absent ELSE Nil]
          /\ closeMap' = IF known THEN Nil ELSE closeMap
  /\ UNCHANGED <<now, setup, rows, workerVars, map, locked, chan, signals, seenVars, opVars>>

\* The proof is made of one vanilla proof per sector of the partition; without
\* one of them the library refuses, and nothing is sent.
Provable(g) == ({sub[g].dl} \X Sectors) \subseteq sub[g].added
Submit(g) ==
  /\ sub[g].stage = "prove"
  /\ Ends(g, "free")
  \* its channel is garbage, unless a call still waits for room in it
  /\ chan' = IF \E j \in jobs : j.to = g THEN chan ELSE [chan EXCEPT ![g] = <<>>]
  \* with an address type other than "pri" nothing is sent
  /\ \/ Provable(g) /\ sub[g].key /\ pushed' = [pushed EXCEPT ![sub[g].dl][sub[g].part] = @ + 1]
        /\ UNCHANGED opVars
     \/ ~(Provable(g) /\ sub[g].key) /\ UNCHANGED <<pushed, opVars>>
     \/ Provable(g) /\ sub[g].key /\ Spend("pushfail") /\ UNCHANGED pushed
  /\ UNCHANGED <<now, setup, rows, workerVars, mapVars, signals, crossed, fatal>>

-------------------------------------------------------------------------------
\* The whole map is replaced, its mutex included; what works on the old one
\* goes on.
Idle == jobs = {} /\ \A g \in Chans : sub[g].stage \in Ended
Resetting ==
  /\ "reset" \in setup.ops /\ resets < MaxResets
  /\ resets' = resets + 1
  /\ clean' = IF Idle THEN now ELSE Dirty
  /\ map' = map + 1
\* Mutant of ResetSyncPoStMap: the entries of the actor stay.
ResetSyncPoStMap_partial ==
  /\ Resetting
  /\ closeMap' = Nil
  /\ UNCHANGED <<now, setup, rows, workerVars, postMap, locked, subVars, seenVars, ops, again>>
ResetSyncPoStMap ==
  /\ Resetting
  /\ EmptyMap
  /\ UNCHANGED <<now, setup, rows, workerVars, locked, subVars, seenVars, ops, again>>

MinerCrash ==
  /\ Spend("mcrash")
  /\ jobs' = {i \in jobs : i.stage = "prove"}
  /\ MinerStarts
  /\ UNCHANGED fatal

-------------------------------------------------------------------------------
WorkerStep(w) ==
  \/ WinPoStServer(w)
  \/ \E j \in jobs : j.by = w /\ GeneratePoStProof(j)
CallStep(j) == Lock(j) \/ SendToOld(j) \/ SendToNew(j) \/ Sent(j) \/ Unlock(j)
SubStep(g) == Take(g) \/ Timeout(g) \/ Aborted(g) \/ Clear(g) \/ Submit(g)
Operator ==
  \/ \E w \in Workers : RetryWinPoSt(w) \/ AddPoStActor(w) \/ WorkerCrash(w)
  \/ \E j \in jobs : TransferLost(j)
  \/ AbortPoSt \/ ResetSyncPoStMap \/ ReFindPoStTable \/ MinerCrash

Next ==
  \/ NextDeadline
  \/ \E w \in Workers : WorkerStep(w)
  \/ \E j \in jobs : CallStep(j)
  \/ \E g \in Chans : SubStep(g)
  \/ Operator

Spec == Init /\ [][Next]_vars
\* The loops of the workers, the goroutines and the chain go on; operators and
\* faults come as they like.
FairSpec ==
  /\ Spec
  /\ WF_vars(NextDeadline)
  /\ \A w \in Workers : WF_vars(WorkerStep(w))
  /\ WF_vars(\E j \in jobs : CallStep(j))
  /\ \A g \in Chans : WF_vars(SubStep(g))

-------------------------------------------------------------------------------
Inside(j) == j.stage \in {"in", "send", "out"}

\* The mutex of StartSubmitPoSt does its work, and its deferred Unlock never ends
\* the process, as long as no call has waited for it across a ResetSyncPoStMap.
CallersExclude ==
  \/ crossed
  \/ /\ ~fatal
     /\ \A i, j \in jobs : Inside(i) /\ Inside(j) /\ i.lock = j.lock => i = j

\* The merge of the transfers of several workers never makes a partition whole:
\* what is proved and sent rests on one worker that could read every sector
\* (QueryToPoSt gives all rows to each, so one reports as faulty what another has).
OneWorkerSuffices ==
  \A g \in Chans : sub[g].stage = "prove" /\ Provable(g) => sub[g].whole

\* An entry of SyncPoStMap never outlives a goroutine that went on to prove: the
\* goroutine it leads to is collecting, or has ended by timeout, abort or for
\* want of any proof, and is that of this partition.
EntryIsServed ==
  \A p \in Parts : postMap[p] \in Chans =>
    /\ sub[postMap[p]].part = p
    /\ sub[postMap[p]].stage \in {"collect", "full", "timeout", "abort", "empty"}

\* A partition of a deadline is submitted at most once by each worker, and once more
\* for each retry made while that deadline was open and each worker that has lost
\* its note of it, by the actor added again or a restart; if the actor was added by
\* "worker addPost", only for the retries.  Whatever happens to other deadlines,
\* to the miner or to a transfer makes no second message.
DuplicatesExplained ==
  \A d \in Deadlines, p \in Parts :
    pushed[d][p] <= again[d] + IF setup.cli THEN 0 ELSE Cardinality(Provers)

\* From a clean start (the first one, or a reset of the map with nothing under
\* way), and until a fault or an operator comes in between, every
\* partition of every deadline is submitted, if all rows are there, all workers
\* can read all sectors and the actor was added with its key in its place.
ServedFromCleanStart ==
  \A d \in Deadlines, p \in Parts :
    (/\ now = d /\ clean < d /\ p \in setup.parts
     /\ ~setup.cli /\ rows = Sectors /\ \A w \in Provers : setup.disk[w] = Sectors)
    ~> (pushed[d][p] > 0 \/ clean >= d)
===============================================================================
