---------------------------- MODULE WinPoStProofs ----------------------------
(***************************************************************************)
(* The miner's window PoSt loop and the nonces of its messages, for every  *)
(* number of deadlines, partitions and senders: the loop proves a deadline *)
(* once, finds its way back within a period, and the messages neither      *)
(* leave a gap in the nonces nor lose one but to one another.              *)
(***************************************************************************)
EXTENDS WinPoSt, TLAPS

Snd == Jobs \cup Calls

-------------------------------------------------------------------------------
(* Types.                                                                  *)

LEMMA SpendType ==
  ASSUME TypeOK, NEW op \in Kinds, Spend(op)
  PROVE  ops' \in [Kinds -> Nat]
<1>1. ops \in [Kinds -> Nat]
  BY DEF TypeOK, NonceTypeOK
<1>2. ops[op] \in Nat /\ ops[op] > 0
  BY <1>1 DEF Spend
<1>3. ops[op] - 1 \in Nat
  BY <1>2
<1> QED
  BY <1>1, <1>3 DEF Spend

\* A step that changes the stage of one message, or its nonce, keeps the type.
LEMMA MessageType ==
  ASSUME NEW m \in Message
  PROVE  /\ \A g \in {"idle", "prove", "ready", "head", "read", "wire", "pool", "landed",
                      "refused", "failed"} : [m EXCEPT !.stage = g] \in Message
         /\ [m EXCEPT !.clash = TRUE] \in Message
         /\ \A n \in Nat : [m EXCEPT !.stage = "head", !.nonce = n] \in Message
  BY DEF Message

LEMMA NoMessageType == NoMessage \in Message
  BY DEF NoMessage, Message

LEMMA InitType == Init => TypeOK
<1> SUFFICES ASSUME Init PROVE TypeOK
  OBVIOUS
<1>1. PICK s \in Setups : partsOf = s.parts /\ ops = s.ops
  BY DEF Init
<1>2. s \in [parts : [0..(N - 1) -> SUBSET Parts], ops : [Kinds -> Nat]]
  BY WinPoStAssumption
<1>3. partsOf \in [0..(N - 1) -> SUBSET Parts] /\ ops \in [Kinds -> Nat]
  BY <1>1, <1>2
<1>4. NonceTypeOK
  BY <1>3, NoMessageType DEF Init, NonceInit, NonceTypeOK
<1>5. idx \in 0..(N - 1) /\ deadInd \in -1..(N - 1) /\ started \in 0..MaxPolls /\ calm \in 0..N
  BY WinPoStAssumption DEF Init
<1>6. polled \in BOOLEAN /\ edge \in BOOLEAN /\ spare \in Nat
  BY DEF Init
<1> QED
  BY <1>3, <1>4, <1>5, <1>6 DEF TypeOK

LEMMA StartsType ==
  ASSUME TypeOK, Starts
  PROVE  /\ started' \in 0..MaxPolls
         /\ msg' \in [Snd -> Message] /\ next' \in Nat /\ top' \in Nat
<1>1. \A i \in Snd : msg[i] \in Message
  BY DEF TypeOK, NonceTypeOK, Snd
<1>2. \A i \in Snd : [msg[i] EXCEPT !.stage = "prove"] \in Message
  BY <1>1, MessageType
<1>3. msg' \in [Snd -> Message]
  BY <1>1, <1>2 DEF Starts, Snd
<1> QED
  BY <1>3, WinPoStAssumption DEF Starts, TypeOK, NonceTypeOK

LEMMA NonceStepType ==
  ASSUME TypeOK, NEW i \in Snd, NonceStep(i) \/ NonceFault(i)
  PROVE  NonceTypeOK'
<1>0. /\ msg \in [Snd -> Message] /\ next \in Nat /\ top \in Nat /\ ops \in [Kinds -> Nat]
      /\ \A j \in Snd : msg[j] \in Message
  BY DEF TypeOK, NonceTypeOK, Snd
<1>1. ASSUME NEW n \in Nat, NEW c, Reads(i, n, c) PROVE msg' \in [Snd -> Message]
  <2>1. \A j \in Snd : [msg[j] EXCEPT !.clash = TRUE] \in Message
    BY <1>0, MessageType
  <2>2. [stage |-> "read", nonce |-> n, clash |-> c # {} \/ n # top] \in Message
    <3>1. (c # {} \/ n # top) \in BOOLEAN
      OBVIOUS
    <3> QED
      BY <3>1 DEF Message
  <2> QED
    BY <1>0, <1>1, <2>1, <2>2 DEF Reads, Snd
<1>2. CASE CheckNonce(i)
  <2>1. msg' \in [Snd -> Message] /\ UNCHANGED <<next, top>>
    <3>1. msg[i].nonce \in Nat
      BY <1>0 DEF Message
    <3> QED
      BY <1>0, <1>1, <1>2, <3>1 DEF CheckNonce
  <2>2. ops' \in [Kinds -> Nat]
    <3>1. "fallback" \in Kinds
      BY DEF Kinds
    <3> QED
      BY <1>0, <1>2, <3>1, SpendType DEF CheckNonce
  <2> QED
    BY <1>0, <2>1, <2>2 DEF NonceTypeOK, Snd
<1>3. CASE MpoolPush(i)
  <2>1. msg' \in [Snd -> Message]
    BY <1>0, <1>3, MessageType DEF MpoolPush
  <2> QED
    BY <1>0, <1>3, <2>1 DEF NonceTypeOK, Snd, MpoolPush
<1>4. CASE Arrive(i)
  <2>1. \A j \in Snd, g \in {"pool", "refused"} : [msg[j] EXCEPT !.stage = g] \in Message
    BY <1>0, MessageType
  <2>2. msg' \in [Snd -> Message]
    BY <1>0, <1>4, <2>1 DEF Arrive, Snd
  <2>3. top' \in Nat
    BY <1>0, <1>4 DEF Arrive
  <2> QED
    BY <1>0, <1>4, <2>2, <2>3 DEF NonceTypeOK, Snd, Arrive
<1>5. CASE Execute(i)
  <2>1. msg' \in [Snd -> Message]
    BY <1>0, <1>5, MessageType DEF Execute
  <2> QED
    BY <1>0, <1>5, <2>1 DEF NonceTypeOK, Snd, Execute
<1>6. CASE NonceFault(i)
  <2>1. msg' \in [Snd -> Message]
    BY <1>0, <1>6, MessageType DEF NonceFault, CallFails, GossipLost
  <2>2. ops' \in [Kinds -> Nat]
    <3>1. "fail" \in Kinds /\ "lost" \in Kinds
      BY DEF Kinds
    <3> QED
      BY <1>6, <3>1, SpendType DEF NonceFault, CallFails, GossipLost
  <2> QED
    BY <1>0, <1>6, <2>1, <2>2 DEF NonceTypeOK, Snd, NonceFault, CallFails, GossipLost
<1>7. CASE ChainHead(i)
  <2>1. msg' = [msg EXCEPT ![i] = [msg[i] EXCEPT !.stage = "head", !.nonce = next]]
    BY <1>0, <1>7 DEF ChainHead
  <2>2. [msg[i] EXCEPT !.stage = "head", !.nonce = next] \in Message
    BY <1>0, MessageType
  <2>3. msg' \in [Snd -> Message]
    BY <1>0, <2>1, <2>2
  <2> QED
    BY <1>0, <1>7, <2>3 DEF NonceTypeOK, Snd, ChainHead
<1> QED
  BY <1>2, <1>3, <1>4, <1>5, <1>6, <1>7 DEF NonceStep

LEMMA CallType ==
  ASSUME TypeOK, NEW i \in Calls, Call(i) \/ ReplaceMsg(i)
  PROVE  NonceTypeOK'
<1>0. /\ msg \in [Snd -> Message] /\ next \in Nat /\ top \in Nat
      /\ i \in Snd /\ \A j \in Snd : msg[j] \in Message
  BY DEF TypeOK, NonceTypeOK, Snd
<1>1. "call" \in Kinds /\ "replace" \in Kinds
  BY DEF Kinds
<1>2. CASE Call(i)
  <2>1. msg' \in [Snd -> Message]
    BY <1>0, <1>2, MessageType DEF Call
  <2> QED
    BY <1>0, <1>1, <1>2, <2>1, SpendType DEF Call, NonceTypeOK, Snd
<1>3. CASE ReplaceMsg(i)
  <2>1. PICK j \in Snd :
          msg' = [msg EXCEPT ![i] = [stage |-> "read", nonce |-> msg[j].nonce, clash |-> TRUE],
                             ![j].clash = TRUE]
    BY <1>3 DEF ReplaceMsg, Snd
  <2>2. msg[j].nonce \in Nat
    BY <1>0 DEF Message
  <2> DEFINE r == [stage |-> "read", nonce |-> msg[j].nonce, clash |-> TRUE]
             f == [msg EXCEPT ![i] = r]
  <2>3. r \in Message
    BY <2>2 DEF Message
  <2>4. msg' = [f EXCEPT ![j].clash = TRUE]
    BY <2>1
  <2> HIDE DEF r
  <2>5. f \in [Snd -> Message]
    BY <1>0, <2>3
  <2> HIDE DEF f
  <2>6. msg' \in [Snd -> Message]
    BY <2>4, <2>5, MessageType
  <2> QED
    BY <1>0, <1>1, <1>3, <2>6, SpendType DEF ReplaceMsg, NonceTypeOK, Snd
<1> QED
  BY <1>2, <1>3

LEMMA StepType ==
  ASSUME TypeOK, [Next]_vars
  PROVE  TypeOK'
<1>0. /\ msg \in [Snd -> Message] /\ \A j \in Snd : msg[j] \in Message
      /\ "retry" \in Kinds /\ "noproof" \in Kinds /\ "crash" \in Kinds
      /\ ops \in [Kinds -> Nat] /\ N \in Nat /\ N >= 2 /\ MaxPolls \in Nat
  BY WinPoStAssumption DEF TypeOK, NonceTypeOK, Snd, Kinds
<1>1. CASE Poll
  <2>1. deadInd' \in -1..(N - 1)
    BY <1>0, <1>1 DEF Poll, TypeOK, Noted
  <2>2. started' \in 0..MaxPolls /\ NonceTypeOK'
    BY <1>0, <1>1, StartsType DEF Poll, TypeOK, NonceTypeOK, Snd
  <2> QED
    BY <1>1, <2>1, <2>2 DEF Poll, TypeOK
<1>2. CASE RetryPost
  <2>1. started' \in 0..MaxPolls /\ NonceTypeOK'
    BY <1>0, <1>2, StartsType, SpendType DEF RetryPost, NonceTypeOK, Snd
  <2> QED
    BY <1>2, <2>1 DEF RetryPost, TypeOK
<1>3. CASE NextDeadline
  <2>1. idx' \in 0..(N - 1) /\ calm' \in 0..N
    BY <1>0, <1>3 DEF NextDeadline, NextIndex, TypeOK
  <2>2. edge' \in BOOLEAN /\ polled' \in BOOLEAN
    BY <1>3 DEF NextDeadline, TypeOK
  <2>3. ops' \in [Kinds -> Nat]
    <3> DEFINE x == ops["deadline"] - 1
               y == IF polled THEN ops["miss"] ELSE ops["miss"] - 1
               f == [ops EXCEPT !["deadline"] = x]
    <3>1. x \in Nat /\ y \in Nat
      BY <1>0, <1>3 DEF NextDeadline, TypeOK, Kinds
    <3>2. f \in [Kinds -> Nat]
      BY <1>0, <3>1
    <3>3. ops' = [f EXCEPT !["miss"] = y]
      BY <1>0, <1>3 DEF NextDeadline, Kinds
    <3> HIDE DEF f, y
    <3> QED
      BY <3>1, <3>2, <3>3
  <2>4. msg' \in [Snd -> Message]
    BY <1>3, NoMessageType DEF NextDeadline, Snd
  <2>5. NonceTypeOK'
    BY <1>3, <2>3, <2>4 DEF NextDeadline, NonceTypeOK, Snd
  <2> QED
    BY <1>0, <1>3, <2>1, <2>2, <2>5 DEF NextDeadline, TypeOK
<1>4. CASE MinerCrash
  <2>1. \A i \in Snd : [msg[i] EXCEPT !.stage = "failed"] \in Message
    BY <1>0, MessageType
  <2>2. msg' \in [Snd -> Message]
    BY <1>0, <1>4, <2>1 DEF MinerCrash, Snd
  <2>3. NonceTypeOK'
    BY <1>0, <1>4, <2>2, SpendType DEF MinerCrash, NonceTypeOK, Snd, TypeOK
  <2>4. deadInd' \in -1..(N - 1) /\ calm' \in 0..N /\ spare' \in Nat /\ started' \in 0..MaxPolls
    BY <1>0, <1>4 DEF MinerCrash, TypeOK
  <2>5. polled' \in BOOLEAN /\ edge' \in BOOLEAN /\ UNCHANGED <<partsOf, idx>>
    BY <1>4 DEF MinerCrash
  <2> QED
    BY <2>3, <2>4, <2>5 DEF TypeOK
<1>5. ASSUME NEW i \in Jobs, ProofDone(i) PROVE TypeOK'
  <2>1. i \in Snd
    BY DEF Snd
  <2>2. msg' \in [Snd -> Message]
    BY <1>0, <1>5, <2>1, MessageType DEF ProofDone
  <2>3. ops' \in [Kinds -> Nat]
    BY <1>0, <1>5, SpendType DEF ProofDone
  <2> QED
    BY <1>5, <2>2, <2>3 DEF ProofDone, TypeOK, NonceTypeOK, Snd, schedVars
<1>6. CASE Nonces
  <2>1. NonceTypeOK'
    BY <1>6, NonceStepType, CallType DEF Nonces, Snd
  <2> QED
    BY <1>6, <2>1 DEF Nonces, TypeOK, schedVars
<1>7. CASE UNCHANGED vars
  BY <1>7 DEF vars, TypeOK, NonceTypeOK
<1> QED
  BY <1>1, <1>2, <1>3, <1>4, <1>5, <1>6, <1>7 DEF Next

(* Every state of the loop and of its messages is well-typed.              *)
THEOREM LoopTypeCorrect == Spec => []TypeOK
<1> QED
  BY InitType, StepType, PTL DEF Spec

-------------------------------------------------------------------------------
(* The loop.  While neither end of a period is missed, the index the loop  *)
(* has noted is behind the one that is open, by its number or across the   *)
(* end of the period, until the deadline has been polled.                  *)

Behind == deadInd < idx \/ (idx = 0 /\ deadInd = N - 1)

OnceInv ==
  /\ ~edge /\ polled => deadInd = idx /\ 1 <= started /\ started <= 1 + spare
  /\ ~edge /\ ~polled => Behind /\ started <= spare

\* Out of step, the loop has seen no more deadlines since the last one it missed
\* than this period has had so far; the index it has noted is met before the period
\* is over.
StepInv ==
  /\ polled => \/ deadInd = idx /\ started >= 1
               \/ deadInd >= idx /\ calm <= idx
  /\ ~polled => Behind \/ calm <= idx

LoopInv == OnceInv /\ StepInv

LEMMA LoopKept ==
  ASSUME LoopInv, UNCHANGED schedVars
  PROVE  LoopInv'
  BY DEF LoopInv, OnceInv, StepInv, Behind, schedVars

LEMMA LoopStep ==
  ASSUME TypeOK, LoopInv, [Next]_vars
  PROVE  LoopInv'
<1>0. /\ N \in Nat /\ N >= 2 /\ idx \in 0..(N - 1) /\ deadInd \in -1..(N - 1)
      /\ started \in Nat /\ spare \in Nat /\ calm \in 0..N
      /\ polled \in BOOLEAN /\ edge \in BOOLEAN
  BY WinPoStAssumption DEF TypeOK
<1>1. CASE Poll
  <2>1. CASE deadInd = idx
    <3>1. UNCHANGED <<deadInd, started, idx, calm, edge, spare>> /\ polled'
      BY <1>1, <2>1 DEF Poll
    <3>2. OnceInv'
      BY <1>0, <2>1, <3>1 DEF LoopInv, OnceInv, Behind
    <3>3. StepInv'
      BY <1>0, <2>1, <3>1 DEF LoopInv, StepInv, Behind
    <3> QED
      BY <3>2, <3>3 DEF LoopInv
  <2>2. CASE deadInd # idx
    <3>1. /\ UNCHANGED <<idx, calm, edge, spare>> /\ polled'
          /\ deadInd' = Noted /\ started' = started + 1
      BY <1>1, <2>2 DEF Poll, Starts
    <3>2. OnceInv'
      BY <1>0, <2>2, <3>1 DEF LoopInv, OnceInv, Behind, Noted
    <3>3. StepInv'
      BY <1>0, <2>2, <3>1 DEF LoopInv, StepInv, Behind, Noted
    <3> QED
      BY <3>2, <3>3 DEF LoopInv
  <2> QED
    BY <2>1, <2>2
<1>2. CASE RetryPost
  <2>1. /\ UNCHANGED <<idx, deadInd, polled, calm, edge>>
        /\ started' = started + 1 /\ spare' = spare + 1
    BY <1>2 DEF RetryPost, Starts
  <2> QED
    BY <1>0, <2>1 DEF LoopInv, OnceInv, StepInv, Behind
<1>3. CASE NextDeadline
  <2>1. /\ UNCHANGED deadInd /\ idx' = NextIndex
        /\ ~polled' /\ started' = 0 /\ spare' = 0
        /\ calm' = IF ~polled THEN 0 ELSE IF calm < N THEN calm + 1 ELSE N
    BY <1>3 DEF NextDeadline
  <2>2. ~edge' => ~edge /\ (~polled => idx \notin {0, N - 1} \/ deadInd = -1)
    BY <1>3, Zenon DEF NextDeadline
  <2>3. OnceInv'
    <3>1. CASE ~edge'
      BY <1>0, <2>1, <2>2, <3>1 DEF LoopInv, OnceInv, Behind, NextIndex
    <3>2. CASE edge'
      BY <3>2 DEF OnceInv
    <3> QED
      BY <3>1, <3>2
  <2>4. StepInv'
    BY <1>0, <2>1 DEF LoopInv, StepInv, Behind, NextIndex
  <2> QED
    BY <2>3, <2>4 DEF LoopInv
<1>4. CASE MinerCrash
  <2>1. /\ deadInd' = -1 /\ ~polled' /\ calm' = 0 /\ spare' = started
        /\ UNCHANGED <<idx, started>>
    BY <1>4 DEF MinerCrash
  <2> QED
    BY <1>0, <2>1 DEF LoopInv, OnceInv, StepInv, Behind
<1>5. CASE (\E i \in Jobs : ProofDone(i)) \/ Nonces \/ UNCHANGED vars
  BY <1>5, LoopKept DEF ProofDone, Nonces, vars, schedVars
<1> QED
  BY <1>1, <1>2, <1>3, <1>4, <1>5 DEF Next

LEMMA LoopInit == Init => LoopInv
  BY WinPoStAssumption DEF Init, LoopInv, OnceInv, StepInv, Behind

(* However many deadlines a period has: a loop that polls the last and the *)
(* first one of every period proves each deadline it polls once, and again *)
(* only for a retry or after a restart (winPoStProofsServer).              *)
THEOREM ProvedOnce == Spec => []OncePerDeadline
<1>1. TypeOK /\ LoopInv => OncePerDeadline
  BY DEF TypeOK, LoopInv, OnceInv, OncePerDeadline
<1>2. TypeOK /\ LoopInv /\ [Next]_vars => LoopInv'
  BY LoopStep
<1> QED
  BY <1>1, <1>2, LoopInit, LoopTypeCorrect, PTL DEF Spec

(* Whatever it missed before, N polled deadlines later the loop notes each *)
(* index and proves each deadline (winPoStProofs).                         *)
THEOREM LoopRecovers == Spec => []InStepAfterPeriod
<1>1. TypeOK /\ LoopInv => InStepAfterPeriod
  BY WinPoStAssumption DEF TypeOK, LoopInv, StepInv, InStepAfterPeriod
<1>2. TypeOK /\ LoopInv /\ [Next]_vars => LoopInv'
  BY LoopStep
<1> QED
  BY <1>1, <1>2, LoopInit, LoopTypeCorrect, PTL DEF Spec

-------------------------------------------------------------------------------
(* The nonces.                                                             *)

Pooled(i) == msg[i].stage = "pool"
Asking(i) == msg[i].stage = "head"

\* Goroutines that have not been started have no message.
Fresh == \A i \in Jobs \ Calls : i[2] > started => msg[i].stage = "idle"

\* The pool holds one message for each nonce from the chain's up to its own.
PoolInv ==
  /\ next <= top
  /\ \A i \in Snd : UnderWay(i) => msg[i].nonce <= top
  /\ \A i \in Snd : Asking(i) => msg[i].nonce <= next
  /\ \A n \in next..(top - 1) : \E i \in Snd : Pooled(i) /\ msg[i].nonce = n
  /\ \A i \in Snd : Pooled(i) => next <= msg[i].nonce /\ msg[i].nonce < top
  /\ \A i, j \in Snd : Pooled(i) /\ Pooled(j) /\ msg[i].nonce = msg[j].nonce => i = j

\* A message that no other has met has the pool's nonce, until it arrives, and then
\* its nonce to itself.
ClashInv ==
  /\ \A i \in Snd : UnderWay(i) /\ ~msg[i].clash =>
       /\ msg[i].nonce = top
       /\ \A j \in Snd \ {i} : UnderWay(j) => msg[j].nonce < top
  /\ \A i, j \in Snd : Pooled(i) /\ ~msg[i].clash /\ UnderWay(j) =>
       msg[j].nonce # msg[i].nonce
  /\ \A i \in Snd : msg[i].stage = "refused" => msg[i].clash

NonceInv == PoolInv /\ ClashInv

\* A step before the nonce is read, or after which a message is lost.
Moves ==
  /\ UNCHANGED <<next, top>>
  /\ \A i \in Snd :
       /\ Pooled(i)' <=> Pooled(i)
       /\ UnderWay(i)' => UnderWay(i)
       /\ Asking(i)' => (Asking(i) /\ msg'[i].nonce = msg[i].nonce)
       /\ UnderWay(i)' \/ Pooled(i)' =>
            msg'[i].nonce = msg[i].nonce /\ msg'[i].clash = msg[i].clash
       /\ msg'[i].stage = "refused" => msg[i].stage = "refused" /\ msg'[i].clash = msg[i].clash

LEMMA MovesSafe ==
  ASSUME NonceInv, Moves
  PROVE  NonceInv'
<1>1. PoolInv'
  BY DEF NonceInv, PoolInv, Moves
<1>2. ClashInv'
  BY DEF NonceInv, ClashInv, Moves
<1> QED
  BY <1>1, <1>2 DEF NonceInv

\* The stage of one message moves on, to one in which it has no place in the pool.
LEMMA OneMoves ==
  ASSUME TypeOK, NEW i \in Snd, NEW g \in {"prove", "ready", "wire", "failed"},
         msg' = [msg EXCEPT ![i].stage = g], UNCHANGED <<next, top>>,
         ~Pooled(i), g = "wire" => UnderWay(i)
  PROVE  Moves
<1>1. msg \in [Snd -> Message] /\ msg[i] \in Message
  BY DEF TypeOK, NonceTypeOK, Snd
<1> DEFINE x == [msg[i] EXCEPT !.stage = g]
<1>2. x.stage = g /\ x.nonce = msg[i].nonce /\ x.clash = msg[i].clash
  BY <1>1 DEF Message
<1>3. msg' = [msg EXCEPT ![i] = x]
  OBVIOUS
<1> HIDE DEF x
<1>4. \A j \in Snd : msg'[j] = IF j = i THEN x ELSE msg[j]
  BY <1>1, <1>3
<1> QED
  BY <1>2, <1>4 DEF Moves, Pooled, UnderWay, Asking

\* Asking for the head is a step before the nonce is read, but that the nonce is noted.
LEMMA HeadSafe ==
  ASSUME TypeOK, NonceInv, NEW i \in Snd, ChainHead(i)
  PROVE  NonceInv'
<1>0. msg \in [Snd -> Message] /\ msg[i] \in Message /\ next \in Nat /\ UNCHANGED <<next, top>>
  BY DEF TypeOK, NonceTypeOK, Snd, ChainHead
<1> DEFINE x == [msg[i] EXCEPT !.stage = "head", !.nonce = next]
<1>1. x.stage = "head" /\ x.nonce = next
  BY <1>0 DEF Message
<1>2. msg' = [msg EXCEPT ![i] = x]
  BY <1>0 DEF ChainHead
<1> HIDE DEF x
<1>3. msg'[i] = x /\ \A j \in Snd \ {i} : msg'[j] = msg[j]
  BY <1>0, <1>2
<1>4. \A j \in Snd : /\ Pooled(j)' <=> Pooled(j)
                     /\ UnderWay(j)' <=> UnderWay(j)
                     /\ Pooled(j) \/ UnderWay(j) => msg'[j] = msg[j]
                     /\ Asking(j)' => msg'[j].nonce = next \/ (Asking(j) /\ msg'[j] = msg[j])
                     /\ msg'[j].stage = "refused" => msg'[j] = msg[j]
  BY <1>1, <1>3 DEF Pooled, UnderWay, Asking, ChainHead
<1>5. PoolInv'
  BY <1>0, <1>4 DEF NonceInv, PoolInv
<1>6. ClashInv'
  BY <1>0, <1>4 DEF NonceInv, ClashInv
<1> QED
  BY <1>5, <1>6 DEF NonceInv

LEMMA StartsMoves ==
  ASSUME TypeOK, Fresh, Starts
  PROVE  Moves /\ Fresh'
<1>0. started \in Nat /\ \A i \in Snd : msg[i] \in Message
  BY DEF TypeOK, NonceTypeOK, Snd
<1>1. \A i \in Snd :
        \/ msg'[i] = msg[i]
        \/ /\ i \in Jobs \ Calls /\ i[2] = started + 1
           /\ msg'[i] = [msg[i] EXCEPT !.stage = "prove"]
  BY DEF Starts, Snd
<1>2. \A i \in Snd : [msg[i] EXCEPT !.stage = "prove"].stage = "prove"
  BY <1>0 DEF Message
<1>3. \A i \in Jobs \ Calls : i[2] = started + 1 => msg[i].stage = "idle"
  BY <1>0 DEF Fresh
<1>4. Moves
  BY <1>1, <1>2, <1>3 DEF Moves, Pooled, UnderWay, Asking, Starts
<1>5. Fresh'
  <2>1. \A i \in Jobs : i[2] \in Nat /\ i \in Snd
    BY WinPoStAssumption DEF Jobs, Snd
  <2> QED
    BY <1>0, <1>1, <2>1 DEF Fresh, Starts
<1> QED
  BY <1>4, <1>5

LEMMA CheckNonceSafe ==
  ASSUME TypeOK, NonceInv, NEW i \in Snd, CheckNonce(i)
  PROVE  NonceInv'
<1>0. next \in Nat /\ top \in Nat /\ \A j \in Snd : msg[j] \in Message /\ msg[j].nonce \in Nat
  BY DEF TypeOK, NonceTypeOK, Snd, Message
<1>1. PICK n \in Nat, c \in SUBSET Snd :
        /\ Reads(i, n, c) /\ UNCHANGED <<next, top>>
        /\ {j \in Snd \ {i} : UnderWay(j)} \subseteq c
        /\ n <= top
        /\ n = top \/ {j \in Snd : Pooled(j)} \subseteq c
  <2>1. CASE Reads(i, top, Others(i))
    <3>1. Others(i) = {j \in Snd \ {i} : UnderWay(j)}
      BY DEF Others, Snd
    <3> QED
      BY <1>0, <2>1, <3>1 DEF CheckNonce
  <2>2. CASE Reads(i, msg[i].nonce, Others(i) \cup {j \in Jobs \cup Calls : msg[j].stage = "pool"})
    <3>1. Others(i) = {j \in Snd \ {i} : UnderWay(j)}
      BY DEF Others, Snd
    <3> QED
      BY <1>0, <2>2, <3>1 DEF CheckNonce, Pooled, Asking, Snd, NonceInv, PoolInv
  <2> QED
    BY <2>1, <2>2 DEF CheckNonce
<1> DEFINE x == [stage |-> "read", nonce |-> n, clash |-> c # {} \/ n # top]
<1>2. \A j \in Snd : [msg[j] EXCEPT !.clash = TRUE].stage = msg[j].stage
                     /\ [msg[j] EXCEPT !.clash = TRUE].nonce = msg[j].nonce
                     /\ [msg[j] EXCEPT !.clash = TRUE].clash
  BY <1>0 DEF Message
<1>3. /\ msg'[i].stage = "read" /\ msg'[i].nonce = n /\ (msg'[i].clash <=> (c # {} \/ n # top))
      /\ \A j \in Snd \ {i} : /\ msg'[j].stage = msg[j].stage /\ msg'[j].nonce = msg[j].nonce
                              /\ j \in c => msg'[j].clash
                              /\ j \notin c => msg'[j].clash = msg[j].clash
  <2>1. msg' = [j \in Snd |-> IF j = i THEN x
                              ELSE IF j \in c THEN [msg[j] EXCEPT !.clash = TRUE] ELSE msg[j]]
    BY <1>1 DEF Reads, Snd
  <2>2. x.stage = "read" /\ x.nonce = n /\ (x.clash <=> (c # {} \/ n # top))
    OBVIOUS
  <2> HIDE DEF x
  <2> QED
    BY <1>2, <2>1, <2>2
<1>4. msg[i].stage = "head"
  BY DEF CheckNonce
<1>5. PoolInv'
  <2>1. \A j \in Snd : /\ Pooled(j)' <=> Pooled(j)
                       /\ Pooled(j) => msg'[j].nonce = msg[j].nonce
                       /\ UnderWay(j)' => j = i \/ (UnderWay(j) /\ msg'[j].nonce = msg[j].nonce)
                       /\ Asking(j)' => Asking(j) /\ msg'[j].nonce = msg[j].nonce
    BY <1>3, <1>4 DEF Pooled, UnderWay, Asking
  <2> QED
    BY <1>1, <1>3, <2>1 DEF NonceInv, PoolInv
<1>6. ASSUME NEW j \in Snd, UnderWay(j)', ~msg'[j].clash
      PROVE  j = i /\ n = top /\ \A k \in Snd \ {i} : ~UnderWay(k)'
  <2>1. j = i
    BY <1>1, <1>3, <1>6 DEF UnderWay
  <2>2. c = {} /\ n = top
    BY <1>3, <1>6, <2>1
  <2>5. \A k \in Snd \ {i} : ~UnderWay(k)'
    BY <1>1, <1>3, <2>2 DEF UnderWay
  <2> QED
    BY <2>1, <2>2, <2>5
<1>7. ASSUME NEW j \in Snd, NEW k \in Snd, Pooled(j)', ~msg'[j].clash, UnderWay(k)'
      PROVE  msg'[k].nonce # msg'[j].nonce
  <2>1. j # i /\ j \notin c /\ Pooled(j) /\ ~msg[j].clash /\ msg'[j].nonce = msg[j].nonce
    BY <1>3, <1>7 DEF Pooled
  <2>2. CASE k = i
    BY <1>0, <1>1, <1>3, <2>1, <2>2 DEF NonceInv, PoolInv
  <2>3. CASE k # i
    BY <1>3, <1>7, <2>1, <2>3 DEF NonceInv, ClashInv, UnderWay
  <2> QED
    BY <2>2, <2>3
<1>8. \A j \in Snd : msg'[j].stage = "refused" => msg'[j].clash
  BY <1>3 DEF NonceInv, ClashInv
<1>9. ClashInv'
  BY <1>1, <1>3, <1>6, <1>7, <1>8 DEF ClashInv
<1> QED
  BY <1>5, <1>9 DEF NonceInv

LEMMA ReplaceSafe ==
  ASSUME TypeOK, NonceInv, NEW i \in Calls, ReplaceMsg(i)
  PROVE  NonceInv'
<1>0. /\ next \in Nat /\ top \in Nat /\ i \in Snd /\ msg \in [Snd -> Message]
      /\ \A j \in Snd : msg[j] \in Message /\ msg[j].nonce \in Nat
  BY DEF TypeOK, NonceTypeOK, Snd, Message
<1>1. PICK p \in Snd :
        /\ Pooled(p)
        /\ msg' = [msg EXCEPT ![i] = [stage |-> "read", nonce |-> msg[p].nonce, clash |-> TRUE],
                              ![p].clash = TRUE]
  BY DEF ReplaceMsg, Pooled, Snd
<1>2. msg[i].stage = "idle" /\ i # p /\ UNCHANGED <<next, top>>
  BY <1>1 DEF ReplaceMsg, Pooled
<1> DEFINE x == [stage |-> "read", nonce |-> msg[p].nonce, clash |-> TRUE]
           y == [msg[p] EXCEPT !.clash = TRUE]
<1>3. /\ x.stage = "read" /\ x.nonce = msg[p].nonce /\ x.clash
      /\ y.stage = "pool" /\ y.nonce = msg[p].nonce /\ y.clash
  BY <1>0, <1>1 DEF Message, Pooled
<1>4. msg'[i] = x /\ msg'[p] = y /\ \A j \in Snd \ {i, p} : msg'[j] = msg[j]
  BY <1>0, <1>1, <1>2
<1> HIDE DEF x, y
<1>5. msg[p].nonce < top
  BY <1>1 DEF NonceInv, PoolInv
<1>6. \A j \in Snd : /\ Pooled(j)' <=> Pooled(j)
                     /\ Pooled(j)' => msg'[j].nonce = msg[j].nonce
                     /\ UnderWay(j)' => j = i \/ (UnderWay(j) /\ msg'[j] = msg[j])
                     /\ Asking(j)' => Asking(j) /\ msg'[j] = msg[j]
  BY <1>1, <1>2, <1>3, <1>4 DEF Pooled, UnderWay, Asking
<1>7. PoolInv'
  BY <1>0, <1>2, <1>3, <1>4, <1>5, <1>6 DEF NonceInv, PoolInv
<1>8. ASSUME NEW j \in Snd, UnderWay(j)', ~msg'[j].clash
      PROVE  msg'[j].nonce = top /\ \A k \in Snd \ {j} : UnderWay(k)' => msg'[k].nonce < top
  <2>1. j # i /\ UnderWay(j) /\ msg'[j] = msg[j]
    BY <1>3, <1>4, <1>6, <1>8
  <2> QED
    BY <1>3, <1>4, <1>5, <1>6, <1>8, <2>1 DEF NonceInv, ClashInv
<1>9. ASSUME NEW j \in Snd, NEW k \in Snd, Pooled(j)', ~msg'[j].clash, UnderWay(k)'
      PROVE  msg'[k].nonce # msg'[j].nonce
  <2>1. j # p /\ j # i /\ Pooled(j) /\ msg'[j] = msg[j]
    BY <1>2, <1>3, <1>4, <1>6, <1>9 DEF Pooled
  <2>2. msg[j].nonce # msg[p].nonce
    BY <1>1, <2>1 DEF NonceInv, PoolInv
  <2> QED
    BY <1>3, <1>4, <1>6, <1>9, <2>1, <2>2 DEF NonceInv, ClashInv
<1>10. \A j \in Snd : msg'[j].stage = "refused" => msg'[j].clash
  BY <1>3, <1>4 DEF NonceInv, ClashInv
<1>11. ClashInv'
  BY <1>2, <1>8, <1>9, <1>10 DEF ClashInv
<1> QED
  BY <1>7, <1>11 DEF NonceInv

LEMMA ArriveSafe ==
  ASSUME TypeOK, NonceInv, NEW i \in Snd, Arrive(i)
  PROVE  NonceInv'
<1>0. /\ next \in Nat /\ top \in Nat /\ msg \in [Snd -> Message]
      /\ \A j \in Snd : msg[j] \in Message /\ msg[j].nonce \in Nat
      /\ UnderWay(i) /\ msg[i].stage = "wire" /\ UNCHANGED next
  BY DEF TypeOK, NonceTypeOK, Snd, Message, Arrive, UnderWay
<1>1. \A j \in Snd, g \in {"pool", "refused"} :
        /\ [msg[j] EXCEPT !.stage = g].stage = g
        /\ [msg[j] EXCEPT !.stage = g].nonce = msg[j].nonce
        /\ [msg[j] EXCEPT !.stage = g].clash = msg[j].clash
  BY <1>0 DEF Message
<1>2. CASE msg[i].nonce = top /\ msg' = [msg EXCEPT ![i].stage = "pool"] /\ top' = top + 1
  <2>1. /\ msg'[i].stage = "pool" /\ msg'[i].nonce = top /\ msg'[i].clash = msg[i].clash
        /\ \A j \in Snd \ {i} : msg'[j] = msg[j]
    BY <1>0, <1>1, <1>2
  <2>2. PoolInv'
    <3>1. \A n \in next'..(top' - 1) : \E j \in Snd : Pooled(j)' /\ msg'[j].nonce = n
      <4> SUFFICES ASSUME NEW n \in next'..(top' - 1)
                   PROVE  \E j \in Snd : Pooled(j)' /\ msg'[j].nonce = n
        OBVIOUS
      <4>1. CASE n = top
        BY <2>1, <4>1 DEF Pooled
      <4>2. CASE n # top
        <5>1. n \in next..(top - 1)
          BY <1>0, <1>2, <4>2
        <5>2. PICK j \in Snd : Pooled(j) /\ msg[j].nonce = n
          BY <5>1 DEF NonceInv, PoolInv
        <5> QED
          BY <1>0, <2>1, <5>2 DEF Pooled
      <4> QED
        BY <4>1, <4>2
    <3>2. \A j \in Snd : UnderWay(j)' => j # i /\ UnderWay(j)
      BY <2>1 DEF UnderWay
    <3>3. \A j \in Snd \ {i} : Pooled(j)' => Pooled(j) /\ msg'[j].nonce < top
      BY <2>1 DEF NonceInv, PoolInv, Pooled
    <3>4. \A j \in Snd : Asking(j)' => Asking(j) /\ msg'[j] = msg[j]
      BY <2>1 DEF Asking
    <3> QED
      BY <1>0, <1>2, <2>1, <3>1, <3>2, <3>3, <3>4 DEF NonceInv, PoolInv
  <2>3. ClashInv'
    <3>1. \A j \in Snd : UnderWay(j)' => j # i /\ UnderWay(j) /\ msg'[j] = msg[j]
      BY <2>1 DEF UnderWay
    <3>2. \A j \in Snd : UnderWay(j)' => msg'[j].clash
      \* the message that arrives was under way with the pool's nonce, too
      BY <1>0, <1>2, <3>1 DEF NonceInv, ClashInv
    <3>3. ASSUME NEW j \in Snd, NEW k \in Snd, Pooled(j)', ~msg'[j].clash, UnderWay(k)'
          PROVE  msg'[k].nonce # msg'[j].nonce
      <4>1. CASE j = i
        <5>1. msg[k].nonce < top
          BY <1>0, <2>1, <3>1, <3>3, <4>1 DEF NonceInv, ClashInv
        <5> QED
          BY <1>0, <2>1, <3>1, <3>3, <4>1, <5>1
      <4>2. CASE j # i
        BY <2>1, <3>1, <3>3, <4>2 DEF NonceInv, ClashInv, Pooled
      <4> QED
        BY <4>1, <4>2
    <3>4. \A j \in Snd : msg'[j].stage = "refused" => msg'[j].clash
      BY <2>1 DEF NonceInv, ClashInv
    <3> QED
      BY <3>2, <3>3, <3>4 DEF ClashInv
  <2> QED
    BY <2>2, <2>3 DEF NonceInv
<1>3. CASE msg[i].nonce < top /\ msg' = [msg EXCEPT ![i].stage = "refused"] /\ UNCHANGED top
  <2>1. /\ msg'[i].stage = "refused" /\ msg'[i].clash = msg[i].clash
        /\ \A j \in Snd \ {i} : msg'[j] = msg[j]
    BY <1>0, <1>1, <1>3
  <2>2. msg[i].clash
    BY <1>0, <1>3 DEF NonceInv, ClashInv
  <2>3. \A j \in Snd : /\ Pooled(j)' <=> Pooled(j)
                       /\ UnderWay(j)' => UnderWay(j)
                       /\ Pooled(j)' \/ UnderWay(j)' => msg'[j] = msg[j]
                       /\ Asking(j)' => Asking(j) /\ msg'[j] = msg[j]
    BY <1>0, <2>1 DEF Pooled, UnderWay, Asking
  <2>4. PoolInv'
    BY <1>0, <1>3, <2>3 DEF NonceInv, PoolInv
  <2>5. ClashInv'
    BY <1>0, <1>3, <2>1, <2>2, <2>3 DEF NonceInv, ClashInv
  <2> QED
    BY <2>4, <2>5 DEF NonceInv
<1>4. CASE /\ msg[i].nonce \in next..(top - 1) /\ UNCHANGED top
           /\ msg' = [j \in Snd |->
                        IF j = i THEN [msg[i] EXCEPT !.stage = "pool"]
                        ELSE IF msg[j].stage = "pool" /\ msg[j].nonce = msg[i].nonce
                             THEN [msg[j] EXCEPT !.stage = "refused"] ELSE msg[j]]
  <2> DEFINE Out(j) == j # i /\ Pooled(j) /\ msg[j].nonce = msg[i].nonce
  <2>1. /\ msg'[i].stage = "pool" /\ msg'[i].nonce = msg[i].nonce /\ msg'[i].clash = msg[i].clash
        /\ \A j \in Snd \ {i} : /\ Out(j) => /\ msg'[j].stage = "refused"
                                             /\ msg'[j].clash = msg[j].clash
                                /\ ~Out(j) => msg'[j] = msg[j]
    BY <1>0, <1>1, <1>4 DEF Pooled
  <2>2. msg[i].clash
    BY <1>0, <1>4 DEF NonceInv, ClashInv
  <2>3. \A j \in Snd : Out(j) => msg[j].clash
    BY <1>0 DEF NonceInv, ClashInv
  <2>4. \A j \in Snd : /\ Pooled(j)' <=> j = i \/ (Pooled(j) /\ msg[j].nonce # msg[i].nonce)
                       /\ UnderWay(j)' => j # i /\ UnderWay(j) /\ msg'[j] = msg[j]
                       /\ j # i /\ Pooled(j)' => msg'[j] = msg[j]
                       /\ Asking(j)' => Asking(j) /\ msg'[j] = msg[j]
    BY <1>0, <2>1 DEF Pooled, UnderWay, Asking
  <2> HIDE DEF Out
  <2>5. PoolInv'
    <3>1. \A n \in next..(top - 1) : \E j \in Snd : Pooled(j)' /\ msg'[j].nonce = n
      <4> SUFFICES ASSUME NEW n \in next..(top - 1)
                   PROVE  \E j \in Snd : Pooled(j)' /\ msg'[j].nonce = n
        OBVIOUS
      <4>1. CASE n = msg[i].nonce
        BY <2>1, <4>1 DEF Pooled
      <4>2. CASE n # msg[i].nonce
        <5>1. PICK j \in Snd : Pooled(j) /\ msg[j].nonce = n
          BY DEF NonceInv, PoolInv
        <5>2. j # i
          BY <4>2, <5>1
        <5> QED
          BY <2>4, <4>2, <5>1, <5>2
      <4> QED
        BY <4>1, <4>2
    <3> QED
      BY <1>0, <1>4, <2>1, <2>4, <3>1 DEF NonceInv, PoolInv
  <2>6. ClashInv'
    <3>1. \A j \in Snd : msg'[j].stage = "refused" => msg'[j].clash
      BY <2>1, <2>3 DEF NonceInv, ClashInv
    <3>2. ASSUME NEW j \in Snd, NEW k \in Snd, Pooled(j)', ~msg'[j].clash, UnderWay(k)'
          PROVE  msg'[k].nonce # msg'[j].nonce
      BY <2>1, <2>2, <2>4, <3>2 DEF NonceInv, ClashInv
    <3>3. \A j \in Snd : UnderWay(j)' /\ ~msg'[j].clash =>
            /\ msg'[j].nonce = top
            /\ \A k \in Snd \ {j} : UnderWay(k)' => msg'[k].nonce < top
      BY <2>4 DEF NonceInv, ClashInv
    <3> QED
      BY <1>4, <3>1, <3>2, <3>3 DEF ClashInv
  <2> QED
    BY <2>5, <2>6 DEF NonceInv
<1> QED
  BY <1>2, <1>3, <1>4 DEF Arrive, Snd

LEMMA ExecuteSafe ==
  ASSUME TypeOK, NonceInv, NEW i \in Snd, Execute(i)
  PROVE  NonceInv'
<1>0. /\ next \in Nat /\ top \in Nat /\ msg \in [Snd -> Message]
      /\ \A j \in Snd : msg[j] \in Message /\ msg[j].nonce \in Nat
      /\ Pooled(i) /\ msg[i].nonce = next /\ next' = next + 1 /\ UNCHANGED top
  BY DEF TypeOK, NonceTypeOK, Snd, Message, Execute, Pooled
<1>1. msg'[i].stage = "landed" /\ \A j \in Snd \ {i} : msg'[j] = msg[j]
  BY <1>0 DEF Execute, Message
<1>2. \A j \in Snd : /\ Pooled(j)' <=> j # i /\ Pooled(j)
                     /\ UnderWay(j)' => UnderWay(j)
                     /\ Pooled(j)' \/ UnderWay(j)' => j # i /\ msg'[j] = msg[j]
                     /\ Asking(j)' => Asking(j) /\ msg'[j] = msg[j]
  BY <1>0, <1>1 DEF Pooled, UnderWay, Asking
<1>3. \A j \in Snd : Pooled(j) /\ j # i => msg[j].nonce # next
  BY <1>0 DEF NonceInv, PoolInv
<1>4. next < top
  BY <1>0 DEF NonceInv, PoolInv
<1>5. PoolInv'
  <2>1. \A n \in next'..(top - 1) : \E j \in Snd : Pooled(j)' /\ msg'[j].nonce = n
    <3> SUFFICES ASSUME NEW n \in next'..(top - 1)
                 PROVE  \E j \in Snd : Pooled(j)' /\ msg'[j].nonce = n
      OBVIOUS
    <3>1. n \in next..(top - 1) /\ n # next
      BY <1>0
    <3>2. PICK j \in Snd : Pooled(j) /\ msg[j].nonce = n
      BY <3>1 DEF NonceInv, PoolInv
    <3> QED
      BY <1>0, <1>2, <3>1, <3>2
  <2> QED
    BY <1>0, <1>2, <1>3, <1>4, <2>1 DEF NonceInv, PoolInv
<1>6. ClashInv'
  BY <1>0, <1>1, <1>2 DEF NonceInv, ClashInv
<1> QED
  BY <1>5, <1>6 DEF NonceInv

\* A goroutine that has not been started is not disturbed by what others send.
LEMMA IdleKept ==
  ASSUME TypeOK, NEW j \in Snd \ Calls, msg[j].stage = "idle",
         \/ \E i \in Snd : NonceStep(i) \/ NonceFault(i)
         \/ \E i \in Calls : Call(i) \/ ReplaceMsg(i)
         \/ \E i \in Jobs : ProofDone(i)
         \/ MinerCrash
         \/ UNCHANGED msg
  PROVE  msg'[j].stage = "idle"
<1>0. /\ msg \in [Snd -> Message] /\ j \in Snd /\ j \notin Calls
      /\ \A i \in Snd : msg[i] \in Message /\ [msg[i] EXCEPT !.clash = TRUE].stage = msg[i].stage
  BY DEF TypeOK, NonceTypeOK, Snd, Message
<1>1. ASSUME NEW i \in Snd, NonceStep(i) \/ NonceFault(i) PROVE msg'[j].stage = "idle"
  <2>1. i # j
    BY <1>1 DEF NonceStep, NonceFault, ChainHead, CheckNonce, MpoolPush, Arrive, Execute, CallFails,
       GossipLost
  <2>2. CASE CheckNonce(i)
    BY <1>0, <2>1, <2>2 DEF CheckNonce, Reads, Snd
  <2>3. CASE ~CheckNonce(i)
    BY <1>0, <1>1, <2>1, <2>3
    DEF NonceStep, NonceFault, ChainHead, MpoolPush, Arrive, Execute, CallFails, GossipLost, Snd
  <2> QED
    BY <2>2, <2>3
<1>2. ASSUME NEW i \in Calls, Call(i) \/ ReplaceMsg(i) PROVE msg'[j].stage = "idle"
  <2>1. i # j
    BY <1>0
  <2>2. CASE Call(i)
    BY <1>0, <2>1, <2>2 DEF Call
  <2>3. CASE ReplaceMsg(i)
    <3>1. PICK p \in Snd :
            /\ msg[p].stage = "pool"
            /\ msg' = [msg EXCEPT ![i] = [stage |-> "read", nonce |-> msg[p].nonce,
                                          clash |-> TRUE], ![p].clash = TRUE]
      BY <2>3 DEF ReplaceMsg, Snd
    <3> QED
      BY <1>0, <2>1, <3>1
  <2> QED
    BY <1>2, <2>2, <2>3
<1>3. ASSUME NEW i \in Jobs, ProofDone(i) PROVE msg'[j].stage = "idle"
  BY <1>0, <1>3 DEF ProofDone
<1>4. CASE MinerCrash
  BY <1>0, <1>4 DEF MinerCrash, Snd
<1> QED
  BY <1>1, <1>2, <1>3, <1>4

LEMMA FreshStep ==
  ASSUME TypeOK, Fresh, [Next]_vars
  PROVE  Fresh'
<1>1. CASE Poll
  <2>1. CASE Starts
    BY <2>1, StartsMoves
  <2>2. CASE ~Starts
    BY <1>1, <2>2 DEF Poll, Fresh
  <2> QED
    BY <2>1, <2>2
<1>2. CASE RetryPost
  BY <1>2, StartsMoves DEF RetryPost
<1>3. CASE NextDeadline
  BY <1>3 DEF NextDeadline, NoMessage, Fresh
<1>4. CASE MinerCrash \/ (\E i \in Jobs : ProofDone(i)) \/ Nonces \/ UNCHANGED vars
  <2>1. UNCHANGED started
    BY <1>4 DEF MinerCrash, ProofDone, Nonces, vars, schedVars
  <2>2. \A j \in Jobs \ Calls : msg[j].stage = "idle" => msg'[j].stage = "idle"
    BY <1>4, IdleKept DEF Nonces, Snd, vars
  <2> QED
    BY <2>1, <2>2 DEF Fresh
<1> QED
  BY <1>1, <1>2, <1>3, <1>4 DEF Next

LEMMA NonceInvStep ==
  ASSUME TypeOK, Fresh, NonceInv, [Next]_vars
  PROVE  NonceInv'
<1>0. msg \in [Snd -> Message] /\ \A i \in Snd : msg[i] \in Message
  BY DEF TypeOK, NonceTypeOK, Snd
<1>1. CASE UNCHANGED <<msg, next, top>>
  BY <1>1, MovesSafe DEF Moves, Pooled, UnderWay, Asking
<1>2. CASE Starts
  BY <1>2, StartsMoves, MovesSafe
<1>3. CASE NextDeadline
  <2>1. next' = 1 /\ top' = 1 /\ \A i \in Snd : msg'[i].stage = "idle"
    BY <1>3 DEF NextDeadline, NoMessage, Snd
  <2> QED
    BY <2>1 DEF NonceInv, PoolInv, ClashInv, Pooled, UnderWay, Asking
<1>4. CASE MinerCrash
  <2>1. \A i \in Snd : [msg[i] EXCEPT !.stage = "failed"].stage = "failed"
    BY <1>0 DEF Message
  <2>2. Moves
    BY <1>4, <2>1 DEF MinerCrash, Moves, Pooled, UnderWay, Asking, Snd
  <2> QED
    BY <2>2, MovesSafe
<1>5. ASSUME NEW i \in Jobs, ProofDone(i) PROVE NonceInv'
  BY <1>5, OneMoves, MovesSafe DEF ProofDone, Pooled, Snd
<1>6. ASSUME NEW i \in Snd, NonceStep(i) \/ NonceFault(i) PROVE NonceInv'
  <2>1. CASE MpoolPush(i) \/ NonceFault(i)
    BY <2>1, OneMoves, MovesSafe
    DEF MpoolPush, NonceFault, CallFails, GossipLost, Pooled, UnderWay
  <2> QED
    BY <1>6, <2>1, HeadSafe, CheckNonceSafe, ArriveSafe, ExecuteSafe DEF NonceStep
<1>7. ASSUME NEW i \in Calls, Call(i) \/ ReplaceMsg(i) PROVE NonceInv'
  <2>1. CASE Call(i)
    BY <2>1, OneMoves, MovesSafe DEF Call, Pooled, Snd
  <2> QED
    BY <1>7, <2>1, ReplaceSafe
<1> QED
  BY <1>1, <1>2, <1>3, <1>4, <1>5, <1>6, <1>7 DEF Next, Poll, RetryPost, Nonces, vars, Snd

LEMMA NonceInvInit == Init => Fresh /\ NonceInv
<1> SUFFICES ASSUME Init PROVE Fresh /\ NonceInv
  OBVIOUS
<1>1. next = 1 /\ top = 1 /\ \A i \in Snd : msg[i].stage = "idle"
  BY DEF Init, NonceInit, NoMessage, Snd
<1> QED
  BY <1>1 DEF Fresh, NonceInv, PoolInv, ClashInv, Pooled, UnderWay, Asking, Snd

LEMMA NonceCorrect == Spec => [](TypeOK /\ NonceInv)
<1>1. TypeOK /\ Fresh /\ NonceInv /\ [Next]_vars => Fresh' /\ NonceInv'
  BY FreshStep, NonceInvStep
<1> QED
  BY <1>1, NonceInvInit, LoopTypeCorrect, PTL DEF Spec

(* No sender, however many there are and wherever they fail, leaves a hole *)
(* in the nonces that the address's later messages would wait behind       *)
(* (checkNonce, MpoolPush).                                                *)
THEOREM NoncesWithoutGap == Spec => []NoGap
<1>1. TypeOK /\ NonceInv => NoGap
  BY DEF NonceInv, PoolInv, NoGap, Pooled, Snd
<1> QED
  BY <1>1, NonceCorrect, PTL

(* A message loses its nonce only to another that was under way when one   *)
(* of the two read it, or because the nonce it read was not the pool's     *)
(* (submitPostMessage, CheckRecoveries, sendMsgByPrivatKey).               *)
THEOREM OnlyOverlapRefuses == Spec => []RefusedByOverlap
<1>1. TypeOK /\ NonceInv => RefusedByOverlap
  BY DEF NonceInv, ClashInv, RefusedByOverlap, Snd
<1> QED
  BY <1>1, NonceCorrect, PTL

-------------------------------------------------------------------------------
(* No proof is refused for nothing: the nonce it was refused for is that of *)
(* a message in the pool, or of one that has landed.                       *)

Landed(i) == msg[i].stage = "landed"

\* Nonces are counted from one; those below the chain's were executed with messages
\* of the address; a message that is refused has a rival.
Holds(j, n) == (Pooled(j) \/ Landed(j)) /\ msg[j].nonce = n
LandInv ==
  /\ next >= 1
  /\ \A i \in Snd : Asking(i) \/ UnderWay(i) => msg[i].nonce >= 1
  /\ \A n \in 1..(next - 1) : \E j \in Snd : Landed(j) /\ msg[j].nonce = n
  /\ \A i \in Snd : msg[i].stage = "refused" => \E j \in Snd : Holds(j, msg[i].nonce)

\* What has landed, or was refused, is settled, its nonce as well.
Ends == \A i \in Snd : Landed(i) \/ msg[i].stage = "refused" => msg'[i] = msg[i]

LEMMA LandMoves ==
  ASSUME LandInv, Moves, Ends
  PROVE  LandInv'
<1>1. next' = next
  BY DEF Moves
<1>2. \A i \in Snd : Asking(i)' \/ UnderWay(i)' =>
                     (Asking(i) \/ UnderWay(i)) /\ msg'[i].nonce = msg[i].nonce
  BY DEF Moves
<1>3. \A i \in Snd : Landed(i) => Landed(i)' /\ msg'[i].nonce = msg[i].nonce
  BY DEF Ends, Landed
<1>4. \A j \in Snd : \A n : Holds(j, n) => (Pooled(j)' \/ Landed(j)') /\ msg'[j].nonce = n
  BY <1>3 DEF Moves, Holds
<1>5. \A i \in Snd : msg'[i].stage = "refused" => msg[i].stage = "refused" /\ msg'[i] = msg[i]
  BY DEF Moves, Ends
<1> QED
  BY <1>1, <1>2, <1>3, <1>4, <1>5 DEF LandInv, Holds

\* A message whose stage changes was not settled.
LEMMA OneEnds ==
  ASSUME TypeOK, NEW i \in Snd, NEW g, msg' = [msg EXCEPT ![i].stage = g],
         ~Landed(i), msg[i].stage # "refused"
  PROVE  Ends
BY DEF TypeOK, NonceTypeOK, Ends, Snd

LEMMA StartsEnds == ASSUME TypeOK, Fresh, Starts PROVE Ends
<1>1. \A i \in Snd : msg'[i] = msg[i] \/ (i \in Jobs \ Calls /\ i[2] = started + 1)
  BY DEF Starts, Snd
<1>2. \A i \in Jobs \ Calls : i[2] = started + 1 => msg[i].stage = "idle"
  BY DEF Fresh, TypeOK
<1> QED
  BY <1>1, <1>2 DEF Ends, Landed

LEMMA HeadLands ==
  ASSUME TypeOK, LandInv, NEW i \in Snd, ChainHead(i)
  PROVE  LandInv'
<1>0. msg \in [Snd -> Message] /\ msg[i] \in Message /\ next \in Nat /\ next' = next
  BY DEF TypeOK, NonceTypeOK, Snd, ChainHead
<1> DEFINE x == [msg[i] EXCEPT !.stage = "head", !.nonce = next]
<1>1. x.stage = "head" /\ x.nonce = next
  BY <1>0 DEF Message
<1>2. msg' = [msg EXCEPT ![i] = x]
  BY <1>0 DEF ChainHead
<1> HIDE DEF x
<1>3. msg'[i] = x /\ \A j \in Snd \ {i} : msg'[j] = msg[j]
  BY <1>0, <1>2
<1>4. \A j \in Snd : /\ Pooled(j) \/ Landed(j) => msg'[j] = msg[j]
                     /\ Asking(j)' \/ UnderWay(j)' =>
                          \/ msg'[j].nonce = next
                          \/ (Asking(j) \/ UnderWay(j)) /\ msg'[j] = msg[j]
                     /\ msg'[j].stage = "refused" => msg'[j] = msg[j]
  BY <1>1, <1>3 DEF Pooled, Landed, UnderWay, Asking, ChainHead
<1> QED
  BY <1>0, <1>4 DEF LandInv, Holds, Pooled, Landed

\* The nonce that is read is one that counts.
LEMMA CheckNonceLands ==
  ASSUME TypeOK, NonceInv, LandInv, NEW i \in Snd, CheckNonce(i)
  PROVE  LandInv'
<1>0. next \in Nat /\ top \in Nat /\ \A j \in Snd : msg[j] \in Message
  BY DEF TypeOK, NonceTypeOK, Snd
<1>1. PICK n \in {msg[i].nonce, top}, c \in SUBSET Snd : Reads(i, n, c) /\ UNCHANGED next
  <2>1. Others(i) \in SUBSET Snd /\ {j \in Jobs \cup Calls : msg[j].stage = "pool"} \in SUBSET Snd
    BY DEF Others, Snd
  <2> QED
    BY <2>1 DEF CheckNonce
<1>2. n >= 1
  BY <1>0, <1>1 DEF LandInv, NonceInv, PoolInv, CheckNonce, Asking
<1>3. \A j \in Snd : /\ [msg[j] EXCEPT !.clash = TRUE].stage = msg[j].stage
                     /\ [msg[j] EXCEPT !.clash = TRUE].nonce = msg[j].nonce
  BY <1>0 DEF Message
<1> DEFINE x == [stage |-> "read", nonce |-> n, clash |-> c # {} \/ n # top]
<1>4. /\ msg[i].stage = "head" /\ msg'[i].stage = "read" /\ msg'[i].nonce = n
      /\ \A j \in Snd \ {i} : msg'[j].stage = msg[j].stage /\ msg'[j].nonce = msg[j].nonce
  <2>1. msg' = [j \in Snd |-> IF j = i THEN x
                              ELSE IF j \in c THEN [msg[j] EXCEPT !.clash = TRUE] ELSE msg[j]]
    BY <1>1 DEF Reads, Snd
  <2>2. x.stage = "read" /\ x.nonce = n
    OBVIOUS
  <2> HIDE DEF x
  <2> QED
    BY <1>3, <2>1, <2>2 DEF CheckNonce
<1>5. \A j \in Snd : /\ Asking(j)' => Asking(j) /\ msg'[j].nonce = msg[j].nonce
                     /\ UnderWay(j)' => j = i \/ (UnderWay(j) /\ msg'[j].nonce = msg[j].nonce)
  BY <1>4 DEF UnderWay, Asking
<1>6. \A j \in Snd : /\ Pooled(j) => Pooled(j)' /\ msg'[j].nonce = msg[j].nonce
                     /\ Landed(j) => Landed(j)' /\ msg'[j].nonce = msg[j].nonce
                     /\ msg'[j].stage = "refused" =>
                          msg[j].stage = "refused" /\ msg'[j].nonce = msg[j].nonce
  BY <1>4 DEF Pooled, Landed
<1> QED
  BY <1>1, <1>2, <1>4, <1>5, <1>6 DEF LandInv, Holds

LEMMA ReplaceLands ==
  ASSUME TypeOK, NonceInv, LandInv, NEW i \in Calls, ReplaceMsg(i)
  PROVE  LandInv'
<1>0. /\ next \in Nat /\ i \in Snd /\ msg \in [Snd -> Message]
      /\ \A j \in Snd : msg[j] \in Message /\ msg[j].nonce \in Nat
  BY DEF TypeOK, NonceTypeOK, Snd, Message
<1>1. PICK p \in Snd :
        /\ Pooled(p)
        /\ msg' = [msg EXCEPT ![i] = [stage |-> "read", nonce |-> msg[p].nonce, clash |-> TRUE],
                              ![p].clash = TRUE]
  BY DEF ReplaceMsg, Pooled, Snd
<1>2. msg[i].stage = "idle" /\ i # p /\ UNCHANGED next
  BY <1>1 DEF ReplaceMsg, Pooled
<1> DEFINE x == [stage |-> "read", nonce |-> msg[p].nonce, clash |-> TRUE]
           y == [msg[p] EXCEPT !.clash = TRUE]
<1>3. x.stage = "read" /\ x.nonce = msg[p].nonce /\ y.stage = "pool" /\ y.nonce = msg[p].nonce
  BY <1>0, <1>1 DEF Message, Pooled
<1>4. msg'[i] = x /\ msg'[p] = y /\ \A j \in Snd \ {i, p} : msg'[j] = msg[j]
  BY <1>0, <1>1, <1>2
<1> HIDE DEF x, y
<1>5. msg[p].nonce >= 1
  BY <1>0, <1>1 DEF LandInv, NonceInv, PoolInv
<1>6. \A j \in Snd : /\ Asking(j)' => Asking(j) /\ msg'[j] = msg[j]
                     /\ UnderWay(j)' => j = i \/ (UnderWay(j) /\ msg'[j] = msg[j])
                     /\ Pooled(j) => Pooled(j)' /\ msg'[j].nonce = msg[j].nonce
                     /\ Landed(j) => Landed(j)' /\ msg'[j].nonce = msg[j].nonce
                     /\ msg'[j].stage = "refused" => msg[j].stage = "refused" /\ msg'[j] = msg[j]
  BY <1>1, <1>2, <1>3, <1>4 DEF Pooled, UnderWay, Landed, Asking
<1> QED
  BY <1>2, <1>3, <1>4, <1>5, <1>6 DEF LandInv, Holds

\* A message is refused for one in the pool, or for one that was executed; one that is
\* replaced, for the one that takes its place.
LEMMA ArriveLands ==
  ASSUME TypeOK, NonceInv, LandInv, NEW i \in Snd, Arrive(i)
  PROVE  LandInv'
<1>0. /\ next \in Nat /\ top \in Nat /\ msg \in [Snd -> Message]
      /\ \A j \in Snd : msg[j] \in Message /\ msg[j].nonce \in Nat
      /\ UnderWay(i) /\ msg[i].stage = "wire" /\ UNCHANGED next
      /\ next >= 1 /\ msg[i].nonce >= 1
  BY DEF TypeOK, NonceTypeOK, Snd, Message, Arrive, UnderWay, LandInv
<1>1. \A j \in Snd, g \in {"pool", "refused"} :
        /\ [msg[j] EXCEPT !.stage = g].stage = g
        /\ [msg[j] EXCEPT !.stage = g].nonce = msg[j].nonce
  BY <1>0 DEF Message
<1> DEFINE Out(j) == j # i /\ Pooled(j) /\ msg'[j].stage = "refused" /\ msg[j].nonce = msg[i].nonce
<1>2. /\ \A j \in Snd : msg'[j].nonce = msg[j].nonce
      /\ \A j \in Snd \ {i} : msg'[j] = msg[j] \/ (Out(j) /\ Pooled(i)')
      /\ \/ Pooled(i)'
         \/ msg'[i].stage = "refused" /\ msg[i].nonce < top
  BY <1>0, <1>1 DEF Arrive, Pooled, Snd
<1>3. \A j \in Snd : /\ Asking(j)' => Asking(j)
                     /\ UnderWay(j)' => UnderWay(j)
                     /\ Landed(j) => Landed(j)'
                     /\ Pooled(j) => Pooled(j)' \/ Out(j)
                     /\ msg'[j].stage = "refused" =>
                          msg[j].stage = "refused" \/ Out(j) \/ j = i
  BY <1>0, <1>2 DEF UnderWay, Asking, Landed, Pooled
<1>4. \A j \in Snd : Out(j) => msg[j].nonce = msg[i].nonce /\ Pooled(i)'
  BY <1>0, <1>2 DEF Pooled
<1> HIDE DEF Out
\* what holds a nonce hands it on to the message that takes its place
<1>5. \A j \in Snd : \A n : Holds(j, n) =>
        \E k \in Snd : (Pooled(k)' \/ Landed(k)') /\ msg'[k].nonce = n
  BY <1>2, <1>3, <1>4 DEF Holds
<1>6. msg[i].nonce < top =>
        \E k \in Snd : (Pooled(k)' \/ Landed(k)') /\ msg'[k].nonce = msg[i].nonce
  <2>1. CASE msg[i].nonce \in next..(top - 1)
    BY <1>5, <2>1 DEF NonceInv, PoolInv, Holds
  <2>2. CASE msg[i].nonce \in 1..(next - 1)
    BY <1>2, <1>3, <2>2 DEF LandInv
  <2> QED
    BY <1>0, <2>1, <2>2
<1>7. \A j \in Snd : msg'[j].stage = "refused" =>
        \E k \in Snd : (Pooled(k)' \/ Landed(k)') /\ msg'[k].nonce = msg'[j].nonce
  <2> SUFFICES ASSUME NEW j \in Snd, msg'[j].stage = "refused"
               PROVE  \E k \in Snd : (Pooled(k)' \/ Landed(k)') /\ msg'[k].nonce = msg'[j].nonce
    OBVIOUS
  <2>1. CASE msg[j].stage = "refused"
    BY <1>2, <1>5, <2>1 DEF LandInv
  <2>2. CASE Out(j)
    BY <1>2, <1>4, <2>2
  <2>3. CASE j = i
    BY <1>2, <1>6, <2>3 DEF Pooled
  <2> QED
    BY <1>3, <2>1, <2>2, <2>3
<1> QED
  BY <1>0, <1>2, <1>3, <1>7 DEF LandInv, Holds

LEMMA ExecuteLands ==
  ASSUME TypeOK, LandInv, NEW i \in Snd, Execute(i)
  PROVE  LandInv'
<1>0. /\ next \in Nat /\ msg \in [Snd -> Message] /\ next' = next + 1
      /\ msg[i].nonce = next
  BY DEF TypeOK, NonceTypeOK, Snd, Execute
<1>1. /\ msg'[i].stage = "landed" /\ msg'[i].nonce = next
      /\ \A j \in Snd \ {i} : msg'[j] = msg[j]
  BY <1>0 DEF Execute, Message
<1>2. \A j \in Snd : /\ Asking(j)' => Asking(j) /\ msg'[j] = msg[j]
                     /\ UnderWay(j)' => UnderWay(j) /\ msg'[j] = msg[j]
                     /\ Pooled(j) => Pooled(j)' \/ Landed(j)'
                     /\ Landed(j) => Landed(j)'
                     /\ msg'[j].nonce = msg[j].nonce
                     /\ msg'[j].stage = "refused" => msg[j].stage = "refused"
  BY <1>0, <1>1 DEF UnderWay, Asking, Pooled, Landed
<1>3. \A n \in 1..next : \E j \in Snd : Landed(j)' /\ msg'[j].nonce = n
  <2> SUFFICES ASSUME NEW n \in 1..next PROVE \E j \in Snd : Landed(j)' /\ msg'[j].nonce = n
    OBVIOUS
  <2>1. CASE n = next
    BY <1>1, <2>1 DEF Landed
  <2>2. CASE n \in 1..(next - 1)
    BY <1>2, <2>2 DEF LandInv
  <2> QED
    BY <1>0, <2>1, <2>2
<1> QED
  BY <1>0, <1>2, <1>3 DEF LandInv, Holds

LEMMA LandStep ==
  ASSUME TypeOK, Fresh, NonceInv, LandInv, [Next]_vars
  PROVE  LandInv'
<1>0. msg \in [Snd -> Message] /\ \A i \in Snd : msg[i] \in Message
  BY DEF TypeOK, NonceTypeOK, Snd
<1>1. CASE UNCHANGED <<msg, next, top>>
  BY <1>1, LandMoves DEF Moves, Ends, Pooled, UnderWay, Asking
<1>2. CASE Starts
  BY <1>2, StartsMoves, StartsEnds, LandMoves
<1>3. CASE NextDeadline
  <2>1. next' = 1 /\ \A i \in Snd : msg'[i].stage = "idle"
    BY <1>3 DEF NextDeadline, NoMessage, Snd
  <2> QED
    BY <2>1 DEF LandInv, UnderWay, Asking
<1>4. CASE MinerCrash
  <2>1. \A i \in Snd : [msg[i] EXCEPT !.stage = "failed"].stage = "failed"
    BY <1>0 DEF Message
  <2>2. Moves
    BY <1>4, <2>1 DEF MinerCrash, Moves, Pooled, UnderWay, Asking, Snd
  <2>3. Ends
    BY <1>4, <2>1 DEF MinerCrash, Ends, Landed, Snd
  <2> QED
    BY <2>2, <2>3, LandMoves
<1>5. ASSUME NEW i \in Jobs, ProofDone(i) PROVE LandInv'
  <2>1. Moves
    BY <1>5, OneMoves DEF ProofDone, Pooled, Snd
  <2>2. Ends
    BY <1>5, OneEnds DEF ProofDone, Landed, Snd
  <2> QED
    BY <2>1, <2>2, LandMoves
<1>6. ASSUME NEW i \in Snd, NonceStep(i) \/ NonceFault(i) PROVE LandInv'
  <2>1. CASE MpoolPush(i) \/ NonceFault(i)
    <3>1. Moves
      BY <2>1, OneMoves DEF MpoolPush, NonceFault, CallFails, GossipLost, Pooled, UnderWay
    <3>2. Ends
      BY <2>1, OneEnds DEF MpoolPush, NonceFault, CallFails, GossipLost, Landed
    <3> QED
      BY <3>1, <3>2, LandMoves
  <2> QED
    BY <1>6, <2>1, HeadLands, CheckNonceLands, ArriveLands, ExecuteLands DEF NonceStep
<1>7. ASSUME NEW i \in Calls, Call(i) \/ ReplaceMsg(i) PROVE LandInv'
  <2>1. CASE Call(i)
    <3>1. Moves
      BY <2>1, OneMoves DEF Call, Pooled, Snd
    <3>2. Ends
      BY <2>1, OneEnds DEF Call, Landed, Snd
    <3> QED
      BY <3>1, <3>2, LandMoves
  <2> QED
    BY <1>7, <2>1, ReplaceLands
<1> QED
  BY <1>1, <1>2, <1>3, <1>4, <1>5, <1>6, <1>7 DEF Next, Poll, RetryPost, Nonces, vars, Snd

(* However the goroutines of a deadline's partitions overlap, with one     *)
(* another, with other senders, replacements and restarts: each proof that *)
(* is refused was refused for a message that landed with its nonce in the  *)
(* same deadline, so that one of the partitions' proofs lands or met with  *)
(* an error, unless another sender's message landed (submitPostMessage).   *)
THEOREM OneProofLands == Spec => []SomePartitionLands
<1>1. TypeOK /\ LandInv => SomePartitionLands
  <2> SUFFICES ASSUME TypeOK, LandInv, Settled PROVE SomePartitionLands
    BY DEF SomePartitionLands
  <2>1. \A i \in Snd : ~Pooled(i) /\ msg[i] \in Message
    BY DEF Settled, Pooled, TypeOK, NonceTypeOK, Snd
  <2>2. \A i \in Snd : msg[i].stage = "refused" =>
          \E j \in Snd : msg[j].stage = "landed" /\ msg[j].nonce = msg[i].nonce
    BY <2>1 DEF LandInv, Holds, Landed
  <2>3. ASSUME NEW i \in Jobs, msg[i].stage # "idle",
               \A c \in Calls : msg[c].stage # "landed"
        PROVE  \E j \in Jobs : msg[j].stage \in {"landed", "failed"}
    <3>1. msg[i].stage \in {"landed", "failed", "refused"}
      BY <2>1, <2>3 DEF Settled, Message, Snd
    <3>2. CASE msg[i].stage = "refused"
      <4>1. PICK j \in Snd : msg[j].stage = "landed"
        BY <2>2, <3>2 DEF Snd
      <4>2. j \in Jobs
        BY <2>3, <4>1 DEF Snd
      <4> QED
        BY <4>1, <4>2
    <3> QED
      BY <3>1, <3>2
  <2> QED
    BY <2>2, <2>3 DEF SomePartitionLands, Snd
<1>2. Init => LandInv
  BY DEF Init, NonceInit, NoMessage, Snd, LandInv, UnderWay, Asking
<1>3. TypeOK /\ Fresh /\ NonceInv /\ LandInv /\ [Next]_vars => Fresh' /\ NonceInv' /\ LandInv'
  BY FreshStep, NonceInvStep, LandStep
<1> QED
  BY <1>1, <1>2, <1>3, NonceInvInit, LoopTypeCorrect, PTL DEF Spec
===============================================================================
