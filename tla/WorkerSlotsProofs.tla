-------------------------- MODULE WorkerSlotsProofs --------------------------
(***************************************************************************)
(* The counters of a worker are exact: proofs about WorkerSlots.           *)
(***************************************************************************)
EXTENDS WorkerSlots, FiniteSetTheorems, TLAPS

\* What the proofs assume of an instance: no forced restarts, no claims of rows
\* at other tasks, no dropped errors, no change of a limit to or from -1.
Regular ==
  /\ {"restart", "mismatch", "drop"} \cap Ops = {}
  /\ -1 \in Limits => "motify" \notin Ops

USE DEF Over

\* Holders are sessions: there are finitely many.
LEMMA HoldersFinite ==
  ASSUME NEW t
  PROVE  /\ IsFiniteSet(Holders(t)) /\ IsFiniteSet(Holders(t)')
         /\ Cardinality(Holders(t)) \in Nat
<1>1. Holders(t) \subseteq Sessions /\ Holders(t)' \subseteq Sessions
  BY DEF Holders
<1>2. IsFiniteSet(Holders(t)) /\ IsFiniteSet(Holders(t)')
  BY <1>1, FS_Subset, WorkerSlotsAssumption
<1> QED  BY <1>2, FS_CardinalityType

\* A step after which the same sessions hold a slot, and no counter changes.
LEMMA SameHolders ==
  ASSUME SlotsExact, cnt' = cnt,
         \A i \in Sessions : (sess'[i].stage \notin Over /\ sess'[i].counted) =
                             (sess[i].stage \notin Over /\ sess[i].counted),
         \A i \in Sessions : sess[i].stage \notin Over => sess'[i].task = sess[i].task
  PROVE  SlotsExact'
<1> SUFFICES ASSUME NEW t \in Tasks PROVE cnt'[t] = Cardinality(Holders(t)')
  BY DEF SlotsExact
<1>1. Holders(t)' = Holders(t)
  BY DEF Holders
<1> QED  BY <1>1 DEF SlotsExact

\* A session takes a slot.
LEMMA TakesSlot ==
  ASSUME TypeOK, SlotsExact, NEW i \in Sessions, NEW u \in Tasks,
         sess[i].stage \in Over, sess'[i].stage \notin Over, sess'[i].counted,
         sess'[i].task = u,
         \A j \in Sessions : j # i => sess'[j] = sess[j],
         cnt' = [cnt EXCEPT ![u] = @ + 1]
  PROVE  SlotsExact'
<1> SUFFICES ASSUME NEW t \in Tasks PROVE cnt'[t] = Cardinality(Holders(t)')
  BY DEF SlotsExact
<1>1. cnt[t] = Cardinality(Holders(t)) /\ cnt \in [Tasks -> Int]
  BY DEF SlotsExact, TypeOK
<1>2. CASE t = u
  <2>1. i \notin Holders(t) /\ Holders(t)' = Holders(t) \cup {i}
    BY <1>2 DEF Holders
  <2>2. IsFiniteSet(Holders(t))
    BY HoldersFinite
  <2>3. Cardinality(Holders(t) \cup {i}) = Cardinality(Holders(t)) + 1
    BY <2>1, <2>2, FS_AddElement
  <2> QED  BY <1>1, <1>2, <2>1, <2>3
<1>3. CASE t # u
  <2>1. Holders(t)' = Holders(t)
    BY <1>3 DEF Holders
  <2> QED  BY <1>1, <1>3, <2>1
<1> QED  BY <1>2, <1>3

\* A session gives its slot back.
LEMMA ReturnsSlot ==
  ASSUME TypeOK, SlotsExact, NEW i \in Sessions, NEW u \in Tasks,
         sess[i].stage \notin Over, sess[i].counted, sess[i].task = u,
         sess'[i].stage \in Over,
         \A j \in Sessions : j # i => sess'[j] = sess[j],
         cnt' = [cnt EXCEPT ![u] = @ - 1]
  PROVE  SlotsExact'
<1> SUFFICES ASSUME NEW t \in Tasks PROVE cnt'[t] = Cardinality(Holders(t)')
  BY DEF SlotsExact
<1>1. cnt[t] = Cardinality(Holders(t)) /\ cnt \in [Tasks -> Int]
  BY DEF SlotsExact, TypeOK
<1>2. CASE t = u
  <2>1. i \in Holders(t) /\ Holders(t)' = Holders(t) \ {i}
    BY <1>2 DEF Holders
  <2>2. IsFiniteSet(Holders(t))
    BY HoldersFinite
  <2>3. Cardinality(Holders(t) \ {i}) = Cardinality(Holders(t)) - 1
    BY <2>1, <2>2, FS_RemoveElement
  <2> QED  BY <1>1, <1>2, <2>1, <2>3
<1>3. CASE t # u
  <2>1. Holders(t)' = Holders(t)
    BY <1>3 DEF Holders
  <2> QED  BY <1>1, <1>3, <2>1
<1> QED  BY <1>2, <1>3

SlotInv == TypeOK /\ SlotsOwned /\ SlotsExact

\* No counter is zero while a session has a slot of its task.
LEMMA HeldIsCounted ==
  ASSUME SlotInv, NEW i \in Sessions, sess[i].stage \notin Over, limit[sess[i].task] # -1
  PROVE  sess[i].counted /\ sess[i].row = sess[i].task /\ sess[i].task \in Tasks
           /\ cnt[sess[i].task] # 0
<1> DEFINE t == sess[i].task
<1>1. sess[i].counted /\ sess[i].row = t
  BY DEF SlotInv, SlotsOwned
<1>2. t \in Tasks
  BY DEF SlotInv, TypeOK, Session
<1>3. i \in Holders(t)
  BY <1>1 DEF Holders
<1>4. Cardinality(Holders(t)) # 0
  BY <1>3, HoldersFinite, FS_EmptySet
<1>5. cnt[t] # 0
  BY <1>2, <1>4 DEF SlotInv, SlotsExact
<1> QED  BY <1>1, <1>2, <1>5

-------------------------------------------------------------------------------
\* IncrementTask lets a session in.
LEMMA EnterStep ==
  ASSUME Regular, SlotInv, NEW i \in Sessions, NEW t \in Tasks,
         NEW m \in Modes \ {"restart"}, Enter(i, t, m)
  PROVE  SlotInv'
<1> DEFINE y == Claiming(t, m, limit[t] # -1)
<1>1. /\ sess' = [sess EXCEPT ![i] = y] /\ limit' = limit /\ sess[i].stage \in Over
      /\ cnt' = [cnt EXCEPT ![t] = IF limit[t] = -1 THEN @ ELSE @ + 1]
  BY DEF Enter
<1>2. /\ sess \in [Sessions -> Session]
      /\ limit \in [Tasks -> Limits] /\ cnt \in [Tasks -> Int]
  BY DEF SlotInv, TypeOK
<1>3. /\ y \in Session /\ y.stage = "claim" /\ y.task = t /\ y.row = t
      /\ y.mode # "restart" /\ y.counted = (limit[t] # -1)
  BY DEF Session, Modes, Stages, Claiming
<1> HIDE DEF y
<1>4. sess' \in [Sessions -> Session] /\ sess'[i] = y
      /\ \A j \in Sessions : j # i => sess'[j] = sess[j]
  BY <1>1, <1>2, <1>3
<1>5. cnt' \in [Tasks -> Int]
  BY <1>1, <1>2
<1>6. TypeOK'
  BY <1>1, <1>2, <1>4, <1>5 DEF TypeOK
<1>7. SlotsOwned'
  BY <1>1, <1>3, <1>4 DEF SlotInv, SlotsOwned
<1>8. CASE limit[t] = -1
  <2>1. cnt' = cnt
    BY <1>1, <1>2, <1>8
  <2>2. ~sess'[i].counted
    BY <1>3, <1>4, <1>8
  <2>3. SlotsExact'
    BY <1>1, <1>4, <2>1, <2>2, SameHolders DEF SlotInv
  <2> QED  BY <1>6, <1>7, <2>3 DEF SlotInv
<1>9. CASE limit[t] # -1
  <2>1. cnt' = [cnt EXCEPT ![t] = @ + 1]
    BY <1>1, <1>2, <1>9
  <2>2. sess'[i].stage \notin Over /\ sess'[i].counted /\ sess'[i].task = t
    BY <1>3, <1>4, <1>9
  <2>3. SlotsExact'
    BY <1>1, <1>4, <2>1, <2>2, TakesSlot DEF SlotInv
  <2> QED  BY <1>6, <1>7, <2>3 DEF SlotInv
<1> QED  BY <1>8, <1>9

\* A session goes on to a stage at which it still has its slot, or still has none.
LEMMA GoesOn ==
  ASSUME SlotInv, NEW i \in Sessions,
         sess' \in [Sessions -> Session],
         (sess'[i].stage \in Over) = (sess[i].stage \in Over),
         sess'[i].counted = sess[i].counted, sess'[i].task = sess[i].task,
         sess'[i].row = sess[i].row, sess'[i].mode = sess[i].mode,
         sess'[i].stage = "dec" => sess[i].counted,
         \A j \in Sessions : j # i => sess'[j] = sess[j],
         UNCHANGED <<limit, cnt>>
  PROVE  SlotInv'
<1>1. TypeOK'
  BY DEF SlotInv, TypeOK
<1>2. SlotsOwned'
  BY DEF SlotInv, SlotsOwned
<1>3. \A j \in Sessions : (sess'[j].stage \notin Over /\ sess'[j].counted) =
                           (sess[j].stage \notin Over /\ sess[j].counted)
  OBVIOUS
<1>4. \A j \in Sessions : sess[j].stage \notin Over => sess'[j].task = sess[j].task
  OBVIOUS
<1>5. SlotsExact'
  BY <1>3, <1>4, SameHolders DEF SlotInv
<1> QED  BY <1>1, <1>2, <1>5 DEF SlotInv

\* Up to DecrementTask a session keeps its slot: what its steps leave of it.
Keeps(i) ==
  /\ sess' \in [Sessions -> Session]
  /\ sess'[i].stage = "dec" => sess[i].counted
  /\ (sess'[i].stage \in Over) = (sess[i].stage \in Over)
  /\ sess'[i].counted = sess[i].counted /\ sess'[i].task = sess[i].task
  /\ sess'[i].row = sess[i].row /\ sess'[i].mode = sess[i].mode
  /\ \A j \in Sessions : j # i => sess'[j] = sess[j]

LEMMA KeepsStep ==
  ASSUME Regular, SlotInv, NEW i \in Sessions,
         \/ ClaimFail(i) \/ \E r \in Tasks \cup {"other"} : ClaimOk(i, r)
         \/ SpawnFail(i) \/ LateChild(i) \/ Spawned(i) \/ WorkEnds(i) \/ GiveUp(i)
  PROVE  SlotInv'
<1>1. sess \in [Sessions -> Session] /\ sess[i] \in Session
  BY DEF SlotInv, TypeOK
<1>2. sess[i].stage \notin Over => sess[i].mode # "restart" /\ sess[i].row = sess[i].task
  BY DEF SlotInv, SlotsOwned
<1>3. ASSUME ClaimFail(i) PROVE Keeps(i) /\ UNCHANGED <<limit, cnt>>
  BY <1>1, <1>3, <1>2 DEF ClaimFail, Keeps, Session, Stages
<1>4. ASSUME NEW r \in Tasks \cup {"other"}, ClaimOk(i, r)
      PROVE  Keeps(i) /\ UNCHANGED <<limit, cnt>>
  <2> DEFINE g == IF sess[i].mode = "inproc" THEN "run" ELSE "spawn"
             w == sess[i].mode = "inproc"
  <2>1. sess' = [sess EXCEPT ![i] = [@ EXCEPT !.row = r, !.stage = g, !.work = w]]
        /\ UNCHANGED <<limit, cnt>>
    BY <1>4 DEF ClaimOk
  <2>2. sess[i].stage = "claim" /\ r = sess[i].row
    BY <1>2, <1>4 DEF Regular, ClaimOk
  <2>3. g \in Stages /\ g \notin Over /\ g # "dec" /\ w \in BOOLEAN
    BY DEF Stages
  <2> HIDE DEF g, w
  <2>4. (g \in Over) = (sess[i].stage \in Over)
    BY <2>2, <2>3
  <2>5. sess' = [sess EXCEPT ![i] = [@ EXCEPT !.stage = g, !.work = w]]
    BY <1>1, <2>1, <2>2 DEF Session
  <2>6. sess' \in [Sessions -> Session]
    BY <1>1, <2>3, <2>5 DEF Session
  <2>7. /\ sess'[i].stage = g /\ g # "dec"
        /\ sess'[i].counted = sess[i].counted /\ sess'[i].task = sess[i].task
        /\ sess'[i].row = sess[i].row /\ sess'[i].mode = sess[i].mode
        /\ \A j \in Sessions : j # i => sess'[j] = sess[j]
    BY <1>1, <2>3, <2>5 DEF Session
  <2> QED  BY <2>1, <2>4, <2>6, <2>7 DEF Keeps
<1>5. ASSUME SpawnFail(i) PROVE Keeps(i) /\ UNCHANGED <<limit, cnt>>
  <2> DEFINE g == IF sess[i].mode = "process" THEN "undo" ELSE "done"
  <2>1. /\ sess' = [sess EXCEPT ![i] = [@ EXCEPT !.child = "late", !.stage = g]]
        /\ UNCHANGED <<limit, cnt>> /\ sess[i].stage = "spawn" /\ sess[i].mode = "process"
    BY <1>5 DEF Regular, SpawnFail
  <2>2. g \in Stages /\ g \notin Over /\ g # "dec"
    BY <2>1 DEF Stages
  <2> HIDE DEF g
  <2> DEFINE y == [sess[i] EXCEPT !.child = "late", !.stage = g]
  <2>3. /\ y \in Session /\ y.stage = g /\ y.counted = sess[i].counted /\ y.task = sess[i].task
        /\ y.row = sess[i].row /\ y.mode = sess[i].mode
    BY <1>1, <2>2 DEF Session
  <2>4. sess' = [sess EXCEPT ![i] = y]
    BY <2>1
  <2> HIDE DEF y
  <2>5. sess' \in [Sessions -> Session] /\ sess'[i] = y /\ \A j \in Sessions : j # i => sess'[j] = sess[j]
    BY <1>1, <2>3, <2>4
  <2> QED  BY <2>1, <2>2, <2>3, <2>5 DEF Keeps
<1>10. ASSUME LateChild(i) PROVE Keeps(i) /\ UNCHANGED <<limit, cnt>>
  <2>1. /\ sess' = [sess EXCEPT ![i] = [@ EXCEPT !.child = "came", !.work = TRUE]]
        /\ UNCHANGED <<limit, cnt>>
    BY <1>10 DEF LateChild
  <2>2. sess[i].stage = "dec" => sess[i].counted
    BY DEF SlotInv, SlotsOwned
  <2> QED  BY <1>1, <2>1, <2>2 DEF Keeps, Session
<1>6. ASSUME Spawned(i) PROVE Keeps(i) /\ UNCHANGED <<limit, cnt>>
  <2> DEFINE g == "run"
             w == TRUE
  <2>1. sess' = [sess EXCEPT ![i] = [@ EXCEPT !.stage = g, !.work = w]] /\ UNCHANGED <<limit, cnt>>
    BY <1>6 DEF Spawned
  <2>2. g \in Stages /\ w \in BOOLEAN /\ (g \in Over) = (sess[i].stage \in Over)
        /\ g # "dec"
    BY <1>1, <1>6 DEF Spawned, Session, Stages
  <2> HIDE DEF g, w
  <2> QED  BY <1>1, <2>1, <2>2 DEF Keeps, Session
<1>7. ASSUME WorkEnds(i) PROVE Keeps(i) /\ UNCHANGED <<limit, cnt>>
  <2> DEFINE g == IF sess[i].stage = "run" THEN "exit" ELSE sess[i].stage
             w == FALSE
  <2>1. sess' = [sess EXCEPT ![i] = [@ EXCEPT !.work = w, !.stage = g]] /\ UNCHANGED <<limit, cnt>>
    BY <1>7 DEF WorkEnds
  <2>2. g \in Stages /\ w \in BOOLEAN /\ (g \in Over) = (sess[i].stage \in Over)
    BY <1>1, <1>7 DEF WorkEnds, Session, Stages
  <2>3. g = "dec" => sess[i].counted
    BY DEF SlotInv, SlotsOwned
  <2> HIDE DEF g, w
  <2> QED  BY <1>1, <2>1, <2>2, <2>3 DEF Keeps, Session
<1>8. ASSUME GiveUp(i) PROVE Keeps(i) /\ UNCHANGED <<limit, cnt>>
  <2> DEFINE g == "exit"
             w == sess[i].mode = "inproc"
  <2>1. sess' = [sess EXCEPT ![i] = [@ EXCEPT !.stage = g, !.work = w]] /\ UNCHANGED <<limit, cnt>>
    BY <1>8 DEF GiveUp
  <2>2. g \in Stages /\ w \in BOOLEAN /\ (g \in Over) = (sess[i].stage \in Over)
        /\ g # "dec"
    BY <1>1, <1>8 DEF GiveUp, Session, Stages
  <2> HIDE DEF g, w
  <2> QED  BY <1>1, <2>1, <2>2 DEF Keeps, Session
<1>9. Keeps(i) /\ UNCHANGED <<limit, cnt>>
  BY <1>3, <1>4, <1>5, <1>6, <1>7, <1>8, <1>10
<1> QED  BY <1>9, GoesOn DEF Keeps

\* The unlocked tests let every session through that has a slot.
LEMMA TestStep ==
  ASSUME Regular, SlotInv, NEW i \in Sessions, TestSlot(i)
  PROVE  SlotInv'
<1> DEFINE t == sess[i].task
<1>1. sess[i].stage \in {"exit", "undo"} /\ UNCHANGED <<limit, cnt>>
  BY DEF TestSlot
<1>2. sess \in [Sessions -> Session] /\ t \in Tasks
  BY DEF SlotInv, TypeOK, Session
<1>3. sess[i].row = t /\ sess[i].counted = (limit[t] # -1)
  BY <1>1 DEF SlotInv, SlotsOwned
<1>4. GivesBack(i) = t
  BY <1>3 DEF GivesBack
<1>5. CASE limit[t] = -1
  <2>1. sess' = [sess EXCEPT ![i] = [@ EXCEPT !.stage = "done"]]
    BY <1>2, <1>4, <1>5 DEF TestSlot
  <2>2. sess' \in [Sessions -> Session]
    BY <1>2, <2>1 DEF Session, Stages
  <2>3. /\ sess'[i].stage \in Over /\ ~sess[i].counted
        /\ sess'[i].task = sess[i].task
        /\ \A j \in Sessions : j # i => sess'[j] = sess[j]
    BY <1>2, <1>3, <1>5, <2>1 DEF Session
  <2>4. TypeOK'
    BY <1>1, <2>2 DEF SlotInv, TypeOK
  <2>5. SlotsOwned'
    BY <1>1, <2>3 DEF SlotInv, SlotsOwned
  <2>6. SlotsExact'
    BY <1>1, <2>3, SameHolders DEF SlotInv
  <2> QED  BY <2>4, <2>5, <2>6 DEF SlotInv
<1>6. CASE limit[t] # -1
  <2>1. cnt[t] # 0 /\ sess[i].counted
    BY <1>1, <1>6, HeldIsCounted
  <2>2. sess' = [sess EXCEPT ![i] = [@ EXCEPT !.stage = "dec", !.row = t]]
    BY <1>2, <1>4, <1>6, <2>1 DEF TestSlot
  <2>3. sess' \in [Sessions -> Session]
    BY <1>2, <2>2 DEF Session, Stages
  <2>4. /\ sess'[i].stage = "dec" /\ sess'[i].row = sess[i].row
        /\ sess'[i].counted = sess[i].counted /\ sess'[i].task = sess[i].task
        /\ sess'[i].mode = sess[i].mode
        /\ \A j \in Sessions : j # i => sess'[j] = sess[j]
    BY <1>2, <1>3, <2>2 DEF Session
  <2>5. (sess'[i].stage \in Over) = (sess[i].stage \in Over)
    BY <1>1, <2>4
  <2>6. sess[i].counted
    BY <2>1
  <2> HIDE DEF t
  <2> QED  BY <1>1, <2>3, <2>4, <2>5, <2>6, GoesOn
<1> QED  BY <1>5, <1>6

\* The counter is taken down for the session that leaves.
LEMMA TakeBackStep ==
  ASSUME SlotInv, NEW i \in Sessions, TakeBack(i)
  PROVE  SlotInv'
<1>1. sess[i].stage = "dec"
  BY DEF TakeBack
<1>2. sess[i].counted /\ sess[i].row = sess[i].task /\ sess[i].task \in Tasks
  BY <1>1 DEF SlotInv, SlotsOwned, TypeOK, Session
<1>3. /\ sess \in [Sessions -> Session] /\ cnt \in [Tasks -> Int]
      /\ limit \in [Tasks -> Limits] /\ limit' = limit
  BY DEF SlotInv, TypeOK, TakeBack
<1>4. sess' \in [Sessions -> Session] /\ sess'[i].stage = "done"
        /\ \A j \in Sessions : j # i => sess'[j] = sess[j]
  BY <1>3 DEF TakeBack, Session, Stages
<1>5. cnt' = [cnt EXCEPT ![sess[i].task] = @ - 1]
  BY <1>2 DEF TakeBack
<1>6. TypeOK'
  BY <1>2, <1>3, <1>4, <1>5 DEF TypeOK
<1>7. SlotsOwned'
  BY <1>3, <1>4 DEF SlotInv, SlotsOwned
<1>8. SlotsExact'
  BY <1>1, <1>2, <1>4, <1>5, ReturnsSlot DEF SlotInv
<1> QED  BY <1>6, <1>7, <1>8 DEF SlotInv

\* A limit that is changed changes no counter.
LEMMA LimitStep ==
  ASSUME Regular, SlotInv, NEW t \in Tasks, NEW c \in Limits, MotifyTaskLimit(t, c)
  PROVE  SlotInv'
<1>0. /\ -1 \notin Limits /\ limit \in [Tasks -> Limits] /\ limit' \in [Tasks -> Limits]
      /\ UNCHANGED <<cnt, sess>> /\ sess \in [Sessions -> Session]
  BY DEF Regular, SlotInv, TypeOK, MotifyTaskLimit
<1>1. TypeOK'
  BY DEF SlotInv, TypeOK, MotifyTaskLimit
<1>2. SlotsOwned'
  BY <1>0 DEF SlotInv, SlotsOwned, Session
<1>3. SlotsExact'
  BY SameHolders DEF SlotInv, MotifyTaskLimit
<1> QED  BY <1>1, <1>2, <1>3 DEF SlotInv

\* In the beginning nobody has a slot.
LEMMA SlotInit == Init => SlotInv
<1> SUFFICES ASSUME Init PROVE SlotInv
  OBVIOUS
<1> DEFINE X == {[mode |-> "process", task |-> t, row |-> t, stage |-> "idle",
                  counted |-> FALSE, work |-> FALSE, child |-> "prompt"] : t \in Tasks}
<1>0. sess \in [Sessions -> X]
  BY DEF Init
<1>5. \A x \in X : x \in Session /\ x.stage = "idle"
  <2> SUFFICES ASSUME NEW t \in Tasks
               PROVE  LET x == [mode |-> "process", task |-> t, row |-> t, stage |-> "idle",
                                counted |-> FALSE, work |-> FALSE, child |-> "prompt"]
                      IN  x \in Session /\ x.stage = "idle"
    OBVIOUS
  <2> QED  BY DEF Session, Modes, Stages
<1> HIDE DEF X
<1>1. \A i \in Sessions : sess[i].stage = "idle"
  BY <1>0, <1>5
<1>2. sess \in [Sessions -> Session]
  BY <1>0, <1>5
<1>3. TypeOK
  BY <1>2 DEF Init, TypeOK
<1>4. SlotsOwned
  BY <1>1 DEF SlotsOwned
<1>7. \A t \in Tasks : Holders(t) = {}
  BY <1>1 DEF Holders
<1>6. SlotsExact
  BY <1>7, FS_EmptySet DEF Init, SlotsExact
<1> QED  BY <1>3, <1>4, <1>6 DEF SlotInv

LEMMA SlotNext == ASSUME Regular, SlotInv, [Next]_vars PROVE SlotInv'
<1>1. ASSUME NEW i \in Sessions, NEW t \in Tasks,
             NEW m \in {"process", "inproc", "bystate"}, Enter(i, t, m)
      PROVE  SlotInv'
  <2>1. m \in Modes \ {"restart"}
    BY DEF Modes
  <2> QED  BY <1>1, <2>1, EnterStep
<1>2. ASSUME NEW i \in Sessions, NEW t \in Tasks, Restart(i, t) PROVE SlotInv'
  BY <1>2 DEF Regular, Restart
<1>3. ASSUME NEW i \in Sessions, Step(i) \/ LateChild(i) PROVE SlotInv'
  BY <1>3, KeepsStep, TestStep, TakeBackStep DEF Step
<1>4. ASSUME NEW t \in Tasks, NEW c \in Limits, MotifyTaskLimit(t, c) PROVE SlotInv'
  BY <1>4, LimitStep
<1>5. ASSUME UNCHANGED vars PROVE SlotInv'
  <2>1. TypeOK' /\ SlotsOwned'
    BY <1>5 DEF vars, SlotInv, TypeOK, SlotsOwned
  <2>2. SlotsExact'
    BY <1>5, SameHolders DEF vars, SlotInv
  <2> QED  BY <2>1, <2>2 DEF SlotInv
<1> QED  BY <1>1, <1>2, <1>3, <1>4, <1>5 DEF Next

(***************************************************************************)
(* The counter of every task is the number of the sessions that hold one   *)
(* of its slots, however the unlocked tests of DecrementTask interleave    *)
(* with other sessions, failing starts and changing limits.                *)
(***************************************************************************)
THEOREM CountersExact == ASSUME Regular PROVE Spec => []SlotsExact
<1>1. SlotInv => SlotsExact
  BY DEF SlotInv
<1> QED  BY <1>1, SlotInit, SlotNext, PTL DEF Spec

(***************************************************************************)
(* A session is let in only if the sessions that hold slots leave it one.  *)
(***************************************************************************)
THEOREM LimitKept == ASSUME Regular PROVE Spec => AdmittedBelowLimit
<1> DEFINE A == \A t \in Tasks, i \in Sessions :
       sess[i].stage = "idle" /\ sess'[i].stage = "claim" /\ sess'[i].counted
         /\ sess'[i].task = t
       => Cardinality(Holders(t)) < limit[t]
<1>1. ASSUME SlotInv, [Next]_vars PROVE A \/ UNCHANGED vars
  <2> SUFFICES ASSUME NEW t \in Tasks, NEW i \in Sessions, Next,
                      sess[i].stage = "idle", sess'[i].stage = "claim",
                      sess'[i].counted, sess'[i].task = t
               PROVE  Cardinality(Holders(t)) < limit[t]
    BY <1>1
  <2>1. sess \in [Sessions -> Session] /\ limit \in [Tasks -> Limits]
    BY <1>1 DEF SlotInv, TypeOK
  <2>2. PICK j \in Sessions, u \in Tasks, m \in {"process", "inproc", "bystate"} :
          Enter(j, u, m)
    <3>1. \A j \in Sessions, u \in Tasks : ~Restart(j, u)
      BY DEF Regular, Restart
    <3>4. \A j \in Sessions : ~LateChild(j)
      <4> SUFFICES ASSUME NEW j \in Sessions, LateChild(j) PROVE FALSE
        OBVIOUS
      <4>1. sess' = [sess EXCEPT ![j] = [@ EXCEPT !.child = "came", !.work = TRUE]]
        BY DEF LateChild
      <4>2. sess'[i].stage = sess[i].stage
        BY <2>1, <4>1 DEF Session
      <4> QED  BY <4>2
    <3>2. \A j \in Sessions : ~Step(j)
      <4> SUFFICES ASSUME NEW j \in Sessions, Step(j) PROVE FALSE
        OBVIOUS
      <4>1. j = i
        BY <2>1 DEF Step, ClaimFail, ClaimOk, SpawnFail, Spawned, WorkEnds, GiveUp,
                    TestSlot, TakeBack
      <4>2. WorkEnds(j)
        BY <4>1 DEF Step, ClaimFail, ClaimOk, SpawnFail, Spawned, GiveUp, TestSlot, TakeBack
      <4>3. sess'[j].stage = "idle"
        BY <2>1, <4>1, <4>2 DEF WorkEnds, Session
      <4> QED  BY <4>1, <4>3
    <3>3. \A u \in Tasks, c \in Limits : ~MotifyTaskLimit(u, c)
      BY DEF MotifyTaskLimit
    <3> QED  BY <3>1, <3>2, <3>3, <3>4 DEF Next
  <2>3. j = i /\ u = t
    BY <2>1, <2>2 DEF Enter, Claiming
  <2>4. limit[t] # -1
    BY <2>1, <2>2, <2>3 DEF Enter, Claiming
  <2>5. cnt[t] < limit[t]
    BY <2>2, <2>3, <2>4 DEF Enter, Admits
  <2> QED  BY <1>1, <2>5 DEF SlotInv, SlotsExact
<1> HIDE DEF A
<1>2. ASSUME SlotInv, [Next]_vars PROVE [A]_vars
  <2>1. CASE A
    BY <2>1
  <2>2. CASE UNCHANGED vars
    BY <2>2
  <2> QED  BY <1>1, <1>2, <2>1, <2>2
<1> USE DEF A
<1> QED  BY <1>2, SlotInit, SlotNext, PTL DEF Spec, AdmittedBelowLimit

-------------------------------------------------------------------------------
(***************************************************************************)
(* What unbalances the counters: restarts that took no slot, rows at other *)
(* tasks, dropped errors.  The limits are those the daemon started with: a *)
(* limit lowered below its counter is exceeded at once.                    *)
(***************************************************************************)
FixedLimits == "motify" \notin Ops

\* A session has no slot only if it is a restart or its task has no limit, and a
\* slot is only given back of a task that has one.
SlotReasons ==
  \A i \in Sessions : sess[i].stage \notin Over =>
    /\ ~sess[i].counted /\ sess[i].mode # "restart" => limit[sess[i].task] = -1
    /\ sess[i].stage = "dec" => sess[i].row \in Tasks /\ limit[sess[i].row] # -1

DriftInv == TypeOK /\ SlotReasons /\ DriftExplained

\* The sessions that gave back a slot of another, too, are finitely many.
LEMMA StraysFinite ==
  ASSUME NEW t
  PROVE  /\ IsFiniteSet(Strays(t)) /\ IsFiniteSet(Strays(t)')
         /\ Cardinality(Strays(t)) \in Nat /\ Cardinality(Strays(t)') \in Nat
<1>1. Strays(t) \subseteq Sessions /\ Strays(t)' \subseteq Sessions
  BY DEF Strays
<1>2. IsFiniteSet(Strays(t)) /\ IsFiniteSet(Strays(t)')
  BY <1>1, FS_Subset, WorkerSlotsAssumption
<1> QED  BY <1>2, FS_CardinalityType

LEMMA HoldersCount ==
  ASSUME NEW t
  PROVE  Cardinality(Holders(t)) \in Nat /\ Cardinality(Holders(t)') \in Nat
BY HoldersFinite, FS_CardinalityType

LEMMA LimitIsInt == ASSUME TypeOK, NEW t \in Tasks PROVE cnt[t] \in Int /\ limit[t] \in Int
<1>1. cnt[t] \in Int /\ limit[t] \in Limits
  BY DEF TypeOK
<1>2. Limits \subseteq Nat \cup {-1}
  BY WorkerSlotsAssumption
<1>3. Nat \cup {-1} \subseteq Int
  OBVIOUS
<1> QED  BY <1>1, <1>2, <1>3

\* A session that is over stays so, with what it was.
Settled ==
  \A i \in Sessions : sess[i].stage = "done" =>
    /\ sess'[i].stage = "done" /\ sess'[i].row = sess[i].row
    /\ sess'[i].mode = sess[i].mode /\ sess'[i].task = sess[i].task

\* Who has given back a slot that was not its own, has.
LEMMA StraysStay ==
  ASSUME Settled, NEW t
  PROVE  Strays(t) \subseteq Strays(t)' /\ Cardinality(Strays(t)) <= Cardinality(Strays(t)')
<1>1. Strays(t) \subseteq Strays(t)'
  BY DEF Settled, Strays
<1> QED  BY <1>1, StraysFinite, FS_Subset

\* A step that lets nobody take a slot, and changes no counter.
LEMMA NoneTakes ==
  ASSUME TypeOK, DriftExplained, Settled, UNCHANGED <<limit, cnt>>,
         \A j \in Sessions : sess'[j].stage \notin Over /\ sess'[j].counted =>
           sess[j].stage \notin Over /\ sess[j].counted /\ sess'[j].task = sess[j].task
  PROVE  DriftExplained'
<1> SUFFICES ASSUME NEW t \in Tasks
             PROVE  /\ cnt'[t] >= Cardinality(Holders(t)') - Cardinality(Strays(t)')
                    /\ limit'[t] # -1 => cnt'[t] <= limit'[t]
  BY DEF DriftExplained
<1>1. Holders(t)' \subseteq Holders(t)
  BY DEF Holders
<1>2. Cardinality(Holders(t)') <= Cardinality(Holders(t))
  BY <1>1, HoldersFinite, FS_Subset
<1>3. Cardinality(Strays(t)) <= Cardinality(Strays(t)')
  BY StraysStay
<1>4. /\ cnt[t] >= Cardinality(Holders(t)) - Cardinality(Strays(t))
      /\ limit[t] # -1 => cnt[t] <= limit[t]
  BY DEF DriftExplained
<1>5. cnt[t] \in Int
  BY DEF TypeOK
<1> QED  BY <1>2, <1>3, <1>4, <1>5, HoldersCount, StraysFinite

\* IncrementTask counts the session it lets in.
LEMMA DriftEnter ==
  ASSUME FixedLimits, DriftInv, NEW i \in Sessions, NEW u \in Tasks,
         NEW m \in Modes \ {"restart"}, Enter(i, u, m)
  PROVE  DriftInv'
<1> DEFINE y == Claiming(u, m, limit[u] # -1)
<1>1. /\ sess' = [sess EXCEPT ![i] = y] /\ limit' = limit /\ sess[i].stage = "idle"
      /\ cnt' = [cnt EXCEPT ![u] = IF limit[u] = -1 THEN @ ELSE @ + 1]
      /\ limit[u] = -1 \/ cnt[u] < limit[u]
  BY DEF Enter, Admits
<1>2. /\ sess \in [Sessions -> Session]
      /\ limit \in [Tasks -> Limits] /\ cnt \in [Tasks -> Int]
  BY DEF DriftInv, TypeOK
<1>3. /\ y \in Session /\ y.stage = "claim" /\ y.task = u /\ y.row = u
      /\ y.mode # "restart" /\ y.counted = (limit[u] # -1)
  BY DEF Session, Modes, Stages, Claiming
<1> HIDE DEF y
<1>4. sess' \in [Sessions -> Session] /\ sess'[i] = y
      /\ \A j \in Sessions : j # i => sess'[j] = sess[j]
  BY <1>1, <1>2, <1>3
<1>5. TypeOK'
  BY <1>1, <1>2, <1>4 DEF TypeOK
<1>6. SlotReasons'
  BY <1>1, <1>3, <1>4 DEF DriftInv, SlotReasons
<1>7. Settled
  BY <1>1, <1>4 DEF Settled
<1>8. CASE limit[u] = -1
  <2>1. cnt' = cnt
    BY <1>1, <1>2, <1>8
  <2>2. \A j \in Sessions : sess'[j].stage \notin Over /\ sess'[j].counted =>
          sess[j].stage \notin Over /\ sess[j].counted /\ sess'[j].task = sess[j].task
    BY <1>3, <1>4, <1>8
  <2>3. DriftExplained'
    BY <1>1, <1>7, <2>1, <2>2, NoneTakes DEF DriftInv
  <2> QED  BY <1>5, <1>6, <2>3 DEF DriftInv
<1>9. CASE limit[u] # -1
  <2> SUFFICES ASSUME NEW t \in Tasks
               PROVE  /\ cnt'[t] >= Cardinality(Holders(t)') - Cardinality(Strays(t)')
                      /\ limit'[t] # -1 => cnt'[t] <= limit'[t]
    BY <1>5, <1>6 DEF DriftInv, DriftExplained
  <2>1. Cardinality(Strays(t)) <= Cardinality(Strays(t)')
    BY <1>7, StraysStay
  <2>2. /\ cnt[t] >= Cardinality(Holders(t)) - Cardinality(Strays(t))
        /\ limit[t] # -1 => cnt[t] <= limit[t]
    BY DEF DriftInv, DriftExplained
  <2>3. cnt[t] \in Int /\ limit[t] \in Int
    BY LimitIsInt DEF DriftInv
  <2>4. CASE t = u
    <3>1. i \notin Holders(t) /\ Holders(t)' = Holders(t) \cup {i}
      BY <1>1, <1>3, <1>4, <1>9, <2>4 DEF Holders
    <3>2. Cardinality(Holders(t)') = Cardinality(Holders(t)) + 1
      BY <3>1, HoldersFinite, FS_AddElement
    <3>3. cnt'[t] = cnt[t] + 1 /\ cnt[t] < limit[t]
      BY <1>1, <1>2, <1>9, <2>4
    <3> QED  BY <1>1, <2>1, <2>2, <2>3, <3>2, <3>3, HoldersCount, StraysFinite
  <2>5. CASE t # u
    <3>1. Holders(t)' = Holders(t)
      BY <1>1, <1>3, <1>4, <2>5 DEF Holders
    <3>2. cnt'[t] = cnt[t]
      BY <1>1, <1>2, <2>5
    <3> QED  BY <1>1, <2>1, <2>2, <2>3, <3>1, <3>2, HoldersCount, StraysFinite
  <2> QED  BY <2>4, <2>5
<1> QED  BY <1>8, <1>9

\* A restart holds nothing.
LEMMA DriftRestart ==
  ASSUME DriftInv, NEW i \in Sessions, NEW u \in Tasks, Restart(i, u)
  PROVE  DriftInv'
<1> DEFINE y == Claiming(u, "restart", FALSE)
<1>1. /\ sess' = [sess EXCEPT ![i] = y] /\ UNCHANGED <<limit, cnt>>
      /\ sess[i].stage = "idle"
  BY DEF Restart
<1>2. sess \in [Sessions -> Session]
  BY DEF DriftInv, TypeOK
<1>3. /\ y \in Session /\ y.stage = "claim" /\ y.task = u
      /\ y.mode = "restart" /\ ~y.counted
  BY DEF Session, Modes, Stages, Claiming
<1> HIDE DEF y
<1>4. sess' \in [Sessions -> Session] /\ sess'[i] = y
      /\ \A j \in Sessions : j # i => sess'[j] = sess[j]
  BY <1>1, <1>2, <1>3
<1>5. TypeOK'
  BY <1>1, <1>4 DEF DriftInv, TypeOK
<1>6. SlotReasons'
  BY <1>1, <1>3, <1>4 DEF DriftInv, SlotReasons
<1>7. Settled
  BY <1>1, <1>4 DEF Settled
<1>8. \A j \in Sessions : sess'[j].stage \notin Over /\ sess'[j].counted =>
        sess[j].stage \notin Over /\ sess[j].counted /\ sess'[j].task = sess[j].task
  BY <1>3, <1>4
<1>9. DriftExplained'
  BY <1>1, <1>7, <1>8, NoneTakes DEF DriftInv
<1> QED  BY <1>5, <1>6, <1>9 DEF DriftInv

\* What every step of a session up to the end of DecrementTask's tests leaves: it
\* takes no slot, becomes no other session's, and is over for good.
Proceeds(i) ==
  /\ sess' \in [Sessions -> Session]
  /\ sess[i].stage # "done" \/ (sess'[i].stage = "done" /\ sess'[i].row = sess[i].row)
  /\ sess'[i].stage \notin Over => sess[i].stage \notin Over
  /\ sess'[i].counted = sess[i].counted /\ sess'[i].task = sess[i].task
  /\ sess'[i].mode = sess[i].mode
  /\ \A j \in Sessions : j # i => sess'[j] = sess[j]
  /\ UNCHANGED <<limit, cnt>>

LEMMA DriftProceeds ==
  ASSUME DriftInv, NEW i \in Sessions, Proceeds(i),
         sess'[i].stage = "dec" => sess'[i].row \in Tasks /\ limit[sess'[i].row] # -1
  PROVE  DriftInv'
<1>1. TypeOK'
  BY DEF DriftInv, TypeOK, Proceeds
<1>2. SlotReasons'
  BY DEF DriftInv, SlotReasons, Proceeds
<1>3. Settled
  BY DEF Settled, Proceeds
<1>4. \A j \in Sessions : sess'[j].stage \notin Over /\ sess'[j].counted =>
        sess[j].stage \notin Over /\ sess[j].counted /\ sess'[j].task = sess[j].task
  BY DEF Proceeds
<1>5. DriftExplained'
  BY <1>3, <1>4, NoneTakes DEF DriftInv, Proceeds
<1> QED  BY <1>1, <1>2, <1>5 DEF DriftInv

LEMMA DriftKeeps ==
  ASSUME DriftInv, NEW i \in Sessions,
         \/ ClaimFail(i) \/ \E r \in Tasks \cup {"other"} : ClaimOk(i, r)
         \/ SpawnFail(i) \/ LateChild(i) \/ Spawned(i) \/ WorkEnds(i) \/ GiveUp(i)
  PROVE  DriftInv'
<1>1. sess \in [Sessions -> Session] /\ sess[i] \in Session
  BY DEF DriftInv, TypeOK
<1>3. ASSUME ClaimFail(i) PROVE Proceeds(i) /\ sess'[i].stage # "dec"
  BY <1>1, <1>3 DEF ClaimFail, Proceeds, Session, Stages
<1>4. ASSUME NEW r \in Tasks \cup {"other"}, ClaimOk(i, r)
      PROVE  Proceeds(i) /\ sess'[i].stage # "dec"
  <2> DEFINE g == IF sess[i].mode = "inproc" THEN "run" ELSE "spawn"
             w == sess[i].mode = "inproc"
  <2>1. sess' = [sess EXCEPT ![i] = [@ EXCEPT !.row = r, !.stage = g, !.work = w]]
        /\ UNCHANGED <<limit, cnt>> /\ sess[i].stage = "claim"
    BY <1>4 DEF ClaimOk
  <2>2. g \in Stages /\ g \notin Over /\ g # "dec" /\ w \in BOOLEAN
    BY DEF Stages
  <2> HIDE DEF g, w
  <2> QED  BY <1>1, <2>1, <2>2 DEF Proceeds, Session
<1>5. ASSUME SpawnFail(i) PROVE Proceeds(i) /\ sess'[i].stage # "dec"
  <2> DEFINE g == IF sess[i].mode = "process" THEN "undo" ELSE "done"
  <2>1. sess' = [sess EXCEPT ![i] = [@ EXCEPT !.child = "late", !.stage = g]]
        /\ UNCHANGED <<limit, cnt>> /\ sess[i].stage = "spawn"
    BY <1>5 DEF SpawnFail
  <2>2. g \in Stages /\ g # "dec"
    BY DEF Stages
  <2> HIDE DEF g
  <2> QED  BY <1>1, <2>1, <2>2 DEF Proceeds, Session
<1>11. ASSUME LateChild(i)
       PROVE  Proceeds(i) /\ (sess'[i].stage = "dec" =>
                                sess[i].stage = "dec" /\ sess'[i].row = sess[i].row)
  BY <1>1, <1>11 DEF LateChild, Proceeds, Session
<1>6. ASSUME Spawned(i) PROVE Proceeds(i) /\ sess'[i].stage # "dec"
  <2> DEFINE g == "run"
             w == TRUE
  <2>1. sess' = [sess EXCEPT ![i] = [@ EXCEPT !.stage = g, !.work = w]]
        /\ UNCHANGED <<limit, cnt>> /\ sess[i].stage = "spawn"
    BY <1>6 DEF Spawned
  <2>2. g \in Stages /\ w \in BOOLEAN /\ g # "dec" /\ g # "done"
    BY DEF Stages
  <2> HIDE DEF g, w
  <2> QED  BY <1>1, <2>1, <2>2 DEF Proceeds, Session
<1>7. ASSUME WorkEnds(i)
      PROVE  Proceeds(i) /\ (sess'[i].stage = "dec" =>
                               sess[i].stage = "dec" /\ sess'[i].row = sess[i].row)
  <2> DEFINE g == IF sess[i].stage = "run" THEN "exit" ELSE sess[i].stage
             w == FALSE
  <2>1. sess' = [sess EXCEPT ![i] = [@ EXCEPT !.work = w, !.stage = g]] /\ UNCHANGED <<limit, cnt>>
    BY <1>7 DEF WorkEnds
  <2>2. g \in Stages /\ w \in BOOLEAN
    BY <1>1 DEF Session, Stages
  <2>3. /\ g = sess[i].stage \/ (sess[i].stage = "run" /\ g = "exit")
    OBVIOUS
  <2> HIDE DEF g, w
  <2> QED  BY <1>1, <2>1, <2>2, <2>3 DEF Proceeds, Session
<1>8. ASSUME GiveUp(i) PROVE Proceeds(i) /\ sess'[i].stage # "dec"
  <2> DEFINE g == "exit"
             w == sess[i].mode = "inproc"
  <2>1. sess' = [sess EXCEPT ![i] = [@ EXCEPT !.stage = g, !.work = w]]
        /\ UNCHANGED <<limit, cnt>> /\ sess[i].stage = "run"
    BY <1>8 DEF GiveUp
  <2>2. g \in Stages /\ w \in BOOLEAN /\ g # "dec" /\ g # "done"
    BY DEF Stages
  <2> HIDE DEF g, w
  <2> QED  BY <1>1, <2>1, <2>2 DEF Proceeds, Session
<1>9. Proceeds(i) /\ (sess'[i].stage = "dec" =>
                        sess[i].stage = "dec" /\ sess'[i].row = sess[i].row)
  BY <1>3, <1>4, <1>5, <1>6, <1>7, <1>8, <1>11
<1>10. sess'[i].stage = "dec" => sess'[i].row \in Tasks /\ limit[sess'[i].row] # -1
  BY <1>9 DEF DriftInv, SlotReasons
<1> QED  BY <1>9, <1>10, DriftProceeds

\* The unlocked tests choose the task whose slot is given back: one with a limit.
LEMMA DriftTest ==
  ASSUME DriftInv, NEW i \in Sessions, TestSlot(i)
  PROVE  DriftInv'
<1> DEFINE t == GivesBack(i)
<1>1. sess[i].stage \in {"exit", "undo"} /\ UNCHANGED <<limit, cnt>>
  BY DEF TestSlot
<1>2. sess \in [Sessions -> Session]
  BY DEF DriftInv, TypeOK
<1>3. \/ sess' = [sess EXCEPT ![i] = [@ EXCEPT !.stage = "done"]]
      \/ /\ t \in Tasks /\ limit[t] # -1
         /\ sess' = [sess EXCEPT ![i] = [@ EXCEPT !.stage = "dec", !.row = t]]
  BY <1>2 DEF TestSlot
<1> HIDE DEF t
<1>4. CASE sess' = [sess EXCEPT ![i] = [@ EXCEPT !.stage = "done"]]
  <2>1. Proceeds(i) /\ sess'[i].stage = "done"
    BY <1>1, <1>2, <1>4 DEF Proceeds, Session, Stages
  <2> QED  BY <2>1, DriftProceeds
<1>5. CASE /\ t \in Tasks /\ limit[t] # -1
           /\ sess' = [sess EXCEPT ![i] = [@ EXCEPT !.stage = "dec", !.row = t]]
  <2>1. Proceeds(i) /\ sess'[i].row = t
    BY <1>1, <1>2, <1>5 DEF Proceeds, Session, Stages
  <2> QED  BY <1>5, <2>1, DriftProceeds
<1> QED  BY <1>3, <1>4, <1>5

\* Who takes a counter down gives back its own slot, or strays.
LEMMA DriftTakeBack ==
  ASSUME DriftInv, NEW i \in Sessions, TakeBack(i)
  PROVE  DriftInv'
<1> DEFINE u == sess[i].row
<1>1. /\ sess[i].stage = "dec" /\ limit' = limit /\ cnt' = [cnt EXCEPT ![u] = @ - 1]
      /\ sess' = [sess EXCEPT ![i].stage = "done"]
  BY DEF TakeBack
<1>2. /\ sess \in [Sessions -> Session] /\ cnt \in [Tasks -> Int]
      /\ limit \in [Tasks -> Limits]
  BY DEF DriftInv, TypeOK
<1>3. /\ u \in Tasks /\ limit[u] # -1
      /\ ~sess[i].counted /\ sess[i].mode # "restart" => limit[sess[i].task] = -1
  BY <1>1 DEF DriftInv, SlotReasons
<1>4. /\ sess' \in [Sessions -> Session] /\ sess'[i].stage = "done"
      /\ sess'[i].row = u /\ sess'[i].mode = sess[i].mode
      /\ sess'[i].task = sess[i].task
      /\ \A j \in Sessions : j # i => sess'[j] = sess[j]
  BY <1>1, <1>2 DEF Session, Stages
<1>5. TypeOK'
  BY <1>1, <1>2, <1>3, <1>4 DEF TypeOK
<1>6. SlotReasons'
  BY <1>1, <1>4 DEF DriftInv, SlotReasons
<1>7. Settled
  BY <1>1, <1>4 DEF Settled
<1> HIDE DEF u
<1> SUFFICES ASSUME NEW t \in Tasks
             PROVE  /\ cnt'[t] >= Cardinality(Holders(t)') - Cardinality(Strays(t)')
                    /\ limit'[t] # -1 => cnt'[t] <= limit'[t]
  BY <1>5, <1>6 DEF DriftInv, DriftExplained
<1>8. Cardinality(Strays(t)) <= Cardinality(Strays(t)')
  BY <1>7, StraysStay
<1>9. /\ cnt[t] >= Cardinality(Holders(t)) - Cardinality(Strays(t))
      /\ limit[t] # -1 => cnt[t] <= limit[t]
  BY DEF DriftInv, DriftExplained
<1>10. cnt[t] \in Int /\ limit[t] \in Int
  BY LimitIsInt DEF DriftInv
<1>11. Holders(t)' \subseteq Holders(t) /\ Holders(t)' = Holders(t) \ {i}
  BY <1>1, <1>4 DEF Holders
<1>12. Cardinality(Holders(t)') <= Cardinality(Holders(t))
  BY <1>11, HoldersFinite, FS_Subset
<1>13. CASE t # u
  <2>1. cnt'[t] = cnt[t]
    BY <1>1, <1>2, <1>3, <1>13
  <2> QED  BY <1>1, <1>8, <1>9, <1>10, <1>12, <2>1, HoldersCount, StraysFinite
<1>14. CASE t = u
  <2>1. cnt'[t] = cnt[t] - 1
    BY <1>1, <1>2, <1>14
  <2>2. CASE sess[i].counted /\ sess[i].task = u
    <3>1. i \in Holders(t)
      BY <1>1, <1>14, <2>2 DEF Holders
    <3>2. Cardinality(Holders(t)') = Cardinality(Holders(t)) - 1
      BY <1>11, <3>1, HoldersFinite, FS_RemoveElement
    <3> QED  BY <1>1, <1>8, <1>9, <1>10, <2>1, <3>2, HoldersCount, StraysFinite
  <2>3. CASE ~(sess[i].counted /\ sess[i].task = u)
    <3>1. sess[i].mode = "restart" \/ sess[i].task # u
      BY <1>3, <2>3
    <3>2. i \in Strays(t)' /\ i \notin Strays(t)
      BY <1>1, <1>4, <1>14, <3>1 DEF Strays
    <3>3. Strays(t) \cup {i} \subseteq Strays(t)'
      BY <1>7, <3>2, StraysStay
    <3>4. Cardinality(Strays(t) \cup {i}) = Cardinality(Strays(t)) + 1
      BY <3>2, StraysFinite, FS_AddElement
    <3>5. Cardinality(Strays(t) \cup {i}) <= Cardinality(Strays(t)')
      BY <3>3, StraysFinite, FS_Subset
    <3> QED  BY <1>1, <1>9, <1>10, <1>12, <2>1, <3>4, <3>5, HoldersCount, StraysFinite
  <2> QED  BY <2>2, <2>3
<1> QED  BY <1>13, <1>14

\* In the beginning every counter is zero, and so are its holders.
LEMMA DriftInit == Init => DriftInv
<1> SUFFICES ASSUME Init PROVE DriftInv
  OBVIOUS
<1>1. SlotInv
  BY SlotInit
<1>2. \A i \in Sessions : sess[i].stage = "idle"
  <2> DEFINE X == {[mode |-> "process", task |-> t, row |-> t, stage |-> "idle",
                    counted |-> FALSE, work |-> FALSE, child |-> "prompt"] : t \in Tasks}
  <2>1. sess \in [Sessions -> X]
    BY DEF Init
  <2>2. \A x \in X : x.stage = "idle"
    OBVIOUS
  <2> HIDE DEF X
  <2> QED  BY <2>1, <2>2
<1>3. SlotReasons
  BY <1>2 DEF SlotReasons
<1>4. \A t \in Tasks : cnt[t] = 0 /\ limit[t] \in Nat \cup {-1}
  BY WorkerSlotsAssumption DEF Init
<1>5. DriftExplained
  <2> SUFFICES ASSUME NEW t \in Tasks
               PROVE  /\ cnt[t] >= Cardinality(Holders(t)) - Cardinality(Strays(t))
                      /\ limit[t] # -1 => cnt[t] <= limit[t]
    BY DEF DriftExplained
  <2>1. cnt[t] = Cardinality(Holders(t))
    BY <1>1 DEF SlotInv, SlotsExact
  <2> QED  BY <1>4, <2>1, StraysFinite
<1> QED  BY <1>1, <1>3, <1>5 DEF SlotInv, DriftInv

LEMMA DriftNext == ASSUME FixedLimits, DriftInv, [Next]_vars PROVE DriftInv'
<1>1. ASSUME NEW i \in Sessions, NEW t \in Tasks,
             NEW m \in {"process", "inproc", "bystate"}, Enter(i, t, m)
      PROVE  DriftInv'
  <2>1. m \in Modes \ {"restart"}
    BY DEF Modes
  <2> QED  BY <1>1, <2>1, DriftEnter
<1>2. ASSUME NEW i \in Sessions, NEW t \in Tasks, Restart(i, t) PROVE DriftInv'
  BY <1>2, DriftRestart
<1>3. ASSUME NEW i \in Sessions, Step(i) \/ LateChild(i) PROVE DriftInv'
  BY <1>3, DriftKeeps, DriftTest, DriftTakeBack DEF Step
<1>4. ASSUME NEW t \in Tasks, NEW c \in Limits, MotifyTaskLimit(t, c) PROVE DriftInv'
  BY <1>4 DEF FixedLimits, MotifyTaskLimit
<1>5. ASSUME UNCHANGED vars PROVE DriftInv'
  <2>1. TypeOK' /\ SlotReasons' /\ Settled
    BY <1>5 DEF vars, DriftInv, TypeOK, SlotReasons, Settled
  <2>2. DriftExplained'
    BY <1>5, <2>1, NoneTakes DEF vars, DriftInv
  <2> QED  BY <2>1, <2>2 DEF DriftInv
<1> QED  BY <1>1, <1>2, <1>3, <1>4, <1>5 DEF Next

(***************************************************************************)
(* Forced restarts, rows at other tasks, dropped errors and failed starts  *)
(* in any number and order: a counter never exceeds its limit, and is      *)
(* short of the sessions that hold a slot by no more than the sessions     *)
(* that gave back a slot that was not theirs.                              *)
(***************************************************************************)
THEOREM DriftIsBounded == ASSUME FixedLimits PROVE Spec => []DriftExplained
<1>1. DriftInv => DriftExplained
  BY DEF DriftInv
<1> QED  BY <1>1, DriftInit, DriftNext, PTL DEF Spec

-------------------------------------------------------------------------------
\* What computes is watched in a loop, came up after the wait for it, or goes on in the
\* daemon after its session was shut down.
After == {"undo", "dec", "done"}
WellWatched(x) ==
  /\ x.work => \/ x.stage = "run"
               \/ x.child = "came" /\ x.stage \in After
               \/ x.mode = "inproc" /\ x.stage \in {"exit"} \cup After
  /\ x.child # "prompt" => x.stage \in After
Watched == \A i \in Sessions : WellWatched(sess[i])

LEMMA WatchedInit == Init => Watched
<1> SUFFICES ASSUME Init PROVE Watched
  OBVIOUS
<1> DEFINE X == {[mode |-> "process", task |-> t, row |-> t, stage |-> "idle",
                  counted |-> FALSE, work |-> FALSE, child |-> "prompt"] : t \in Tasks}
<1>1. sess \in [Sessions -> X]
  BY DEF Init
<1>2. \A x \in X : WellWatched(x)
  BY DEF WellWatched
<1> HIDE DEF X
<1> QED  BY <1>1, <1>2 DEF Watched

LEMMA WatchedStep ==
  ASSUME TypeOK, Watched, NEW i \in Sessions, Step(i) \/ LateChild(i)
  PROVE  Watched'
<1>1. sess \in [Sessions -> Session] /\ sess[i] \in Session
  BY DEF TypeOK
<1> DEFINE Fine == WellWatched(sess'[i])
           Alone == \A j \in Sessions : j # i => sess'[j] = sess[j]
<1>2. WellWatched(sess[i])
  BY DEF Watched
<1> SUFFICES Alone /\ Fine
  BY DEF Watched
<1> USE DEF WellWatched, After
<1>3. ASSUME ClaimFail(i) PROVE Alone /\ Fine
  BY <1>1, <1>2, <1>3 DEF ClaimFail, Session
<1>4. ASSUME NEW r \in Tasks \cup {"other"}, ClaimOk(i, r) PROVE Alone /\ Fine
  BY <1>1, <1>2, <1>4 DEF ClaimOk, Session
<1>5. ASSUME SpawnFail(i) PROVE Alone /\ Fine
  <2> DEFINE g == IF sess[i].mode = "process" THEN "undo" ELSE "done"
  <2>1. sess[i].stage = "spawn" /\ sess' = [sess EXCEPT ![i] = [@ EXCEPT !.child = "late", !.stage = g]]
    BY <1>5 DEF SpawnFail
  <2>2. ~sess[i].work /\ g \in After
    BY <1>2, <2>1
  <2> HIDE DEF g
  <2> QED  BY <1>1, <2>1, <2>2 DEF Session
<1>6. ASSUME LateChild(i) PROVE Alone /\ Fine
  BY <1>1, <1>2, <1>6 DEF LateChild, Session
<1>7. ASSUME Spawned(i) PROVE Alone /\ Fine
  BY <1>1, <1>2, <1>7 DEF Spawned, Session
<1>8. ASSUME WorkEnds(i) PROVE Alone /\ Fine
  BY <1>1, <1>2, <1>8 DEF WorkEnds, Session
<1>9. ASSUME GiveUp(i) PROVE Alone /\ Fine
  BY <1>1, <1>2, <1>9 DEF GiveUp, Session
<1>10. ASSUME TestSlot(i) PROVE Alone /\ Fine
  <2>1. sess[i].stage \in {"exit", "undo"}
    BY <1>10 DEF TestSlot
  <2>2. \/ sess' = [sess EXCEPT ![i] = [@ EXCEPT !.stage = "done"]]
        \/ sess' = [sess EXCEPT ![i] = [@ EXCEPT !.stage = "dec", !.row = GivesBack(i)]]
    BY <1>10, <1>1 DEF TestSlot
  <2>3. /\ sess'[i].stage \in {"done", "dec"} /\ sess'[i].work = sess[i].work
        /\ sess'[i].child = sess[i].child /\ sess'[i].mode = sess[i].mode /\ Alone
    <3> DEFINE r == GivesBack(i)
    <3>1. \/ sess' = [sess EXCEPT ![i] = [@ EXCEPT !.stage = "done"]]
          \/ sess' = [sess EXCEPT ![i] = [@ EXCEPT !.stage = "dec", !.row = r]]
      BY <2>2
    <3> HIDE DEF r
    <3> USE <1>1 DEF Session
    <3>2. CASE sess' = [sess EXCEPT ![i] = [@ EXCEPT !.stage = "done"]]
      BY <3>2
    <3>3. CASE sess' = [sess EXCEPT ![i] = [@ EXCEPT !.stage = "dec", !.row = r]]
      BY <3>3
    <3> QED  BY <3>1, <3>2, <3>3
  <2> QED  BY <1>2, <2>1, <2>3
<1>11. ASSUME TakeBack(i) PROVE Alone /\ Fine
  BY <1>1, <1>2, <1>11 DEF TakeBack, Session
<1> HIDE DEF Fine, Alone
<1> QED  BY <1>3, <1>4, <1>5, <1>6, <1>7, <1>8, <1>9, <1>10, <1>11 DEF Step

LEMMA WatchedNext ==
  ASSUME TypeOK, Watched, [Next]_vars
  PROVE  Watched'
<1>1. sess \in [Sessions -> Session]
  BY DEF TypeOK
<1>2. ASSUME NEW i \in Sessions, NEW t \in Tasks,
             NEW m \in {"process", "inproc", "bystate"}, Enter(i, t, m)
      PROVE  Watched'
  BY <1>1, <1>2 DEF Watched, WellWatched, Enter, Claiming
<1>3. ASSUME NEW i \in Sessions, NEW t \in Tasks, Restart(i, t) PROVE Watched'
  BY <1>1, <1>3 DEF Watched, WellWatched, Restart, Claiming
<1>4. ASSUME NEW i \in Sessions, Step(i) \/ LateChild(i) PROVE Watched'
  BY <1>4, WatchedStep
<1>5. ASSUME NEW t \in Tasks, NEW c \in Limits, MotifyTaskLimit(t, c) PROVE Watched'
  BY <1>5 DEF Watched, MotifyTaskLimit
<1>6. ASSUME UNCHANGED vars PROVE Watched'
  BY <1>6 DEF Watched, vars
<1> QED  BY <1>2, <1>3, <1>4, <1>5, <1>6 DEF Next

\* Who computes with a loop to watch it, and was not forced, holds a slot of a task
\* that has a limit.
LEMMA ParallelHold ==
  ASSUME DriftInv, Watched, NEW t \in Tasks, limit[t] # -1
  PROVE  Cardinality(Parallel(t)) <= limit[t] + Cardinality(Strays(t)) + Cardinality(Adrift(t))
<1>1. Parallel(t) \subseteq Holders(t) \cup Adrift(t)
  BY DEF Parallel, Holders, Adrift, Watched, WellWatched, After, DriftInv, SlotReasons
<1>2. /\ IsFiniteSet(Parallel(t)) /\ Cardinality(Parallel(t)) \in Nat
      /\ IsFiniteSet(Adrift(t)) /\ Cardinality(Adrift(t)) \in Nat
  <2>1. Parallel(t) \subseteq Sessions /\ Adrift(t) \subseteq Sessions
    BY DEF Parallel, Adrift
  <2>2. IsFiniteSet(Parallel(t)) /\ IsFiniteSet(Adrift(t))
    BY <2>1, FS_Subset, WorkerSlotsAssumption
  <2> QED  BY <2>2, FS_CardinalityType
<1>3. /\ IsFiniteSet(Holders(t) \cup Adrift(t))
      /\ Cardinality(Holders(t) \cup Adrift(t)) <= Cardinality(Holders(t)) + Cardinality(Adrift(t))
  <2>1. IsFiniteSet(Holders(t) \cap Adrift(t)) /\ Cardinality(Holders(t) \cap Adrift(t)) \in Nat
    BY <1>2, FS_Intersection, FS_CardinalityType
  <2>2. Cardinality(Holders(t) \cup Adrift(t)) =
          Cardinality(Holders(t)) + Cardinality(Adrift(t)) - Cardinality(Holders(t) \cap Adrift(t))
    BY <1>2, HoldersFinite, FS_Union
  <2>3. IsFiniteSet(Holders(t) \cup Adrift(t))
    BY <1>2, HoldersFinite, FS_Union
  <2> QED  BY <1>2, <2>1, <2>2, <2>3, HoldersCount
<1>4. Cardinality(Parallel(t)) <= Cardinality(Holders(t) \cup Adrift(t))
  BY <1>1, <1>3, FS_Subset
<1>5. /\ cnt[t] >= Cardinality(Holders(t)) - Cardinality(Strays(t))
      /\ cnt[t] <= limit[t]
  BY DEF DriftInv, DriftExplained
<1>6. cnt[t] \in Int /\ limit[t] \in Int
  BY LimitIsInt DEF DriftInv
<1>7. Cardinality(Holders(t) \cup Adrift(t)) \in Nat
  BY <1>3, FS_CardinalityType
<1> QED  BY <1>2, <1>3, <1>4, <1>5, <1>6, <1>7, HoldersCount, StraysFinite

(***************************************************************************)
(* More of a task computes than its limit allows, but no more than slots   *)
(* were given back by sessions that had none, and than compute unwatched:  *)
(* every forced restart, row at another task, child that came up too late  *)
(* and goroutine that outlived its session costs one session at most,      *)
(* whatever else is dropped, times out or fails to start.                  *)
(***************************************************************************)
THEOREM OverloadIsBounded == ASSUME FixedLimits PROVE Spec => []ParallelExplained
<1>1. DriftInv /\ Watched => ParallelExplained
  BY ParallelHold DEF ParallelExplained
<1>2. DriftInv /\ Watched /\ [Next]_vars => DriftInv' /\ Watched'
  BY DriftNext, WatchedNext DEF DriftInv
<1> QED  BY <1>1, <1>2, DriftInit, WatchedInit, PTL DEF Spec
===============================================================================
