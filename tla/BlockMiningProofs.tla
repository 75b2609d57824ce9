-------------------------- MODULE BlockMiningProofs --------------------------
(***************************************************************************)
(* A miner's blocks, for any number of epochs and blocks, any delays and   *)
(* any settings of the ticker: no process publishes two for one round, and *)
(* only a block ahead of the host's clock ends the process.  And where the *)
(* waits are long enough for the epochs, the heads stay whole once one is. *)
(***************************************************************************)
EXTENDS BlockMining, FiniteSetTheorems, TLAPS

-------------------------------------------------------------------------------
(* The sequences the subscription keeps.                                   *)

In(s) == {s[i] : i \in DOMAIN s}

LEMMA InAppend ==
  ASSUME NEW s \in Seq(Blocks), NEW b \in Blocks
  PROVE  Append(s, b) \in Seq(Blocks) /\ In(Append(s, b)) = In(s) \cup {b}
<1>1. Append(s, b) \in Seq(Blocks) /\ Len(Append(s, b)) = Len(s) + 1 /\ Len(s) \in Nat
  OBVIOUS
<1>2. \A i \in 1..Len(s) : Append(s, b)[i] = s[i]
  OBVIOUS
<1>3. Append(s, b)[Len(s) + 1] = b
  OBVIOUS
<1>4. DOMAIN s = 1..Len(s) /\ DOMAIN Append(s, b) = 1..(Len(s) + 1)
  BY <1>1
<1> HIDE DEF Blocks
<1> QED
  BY <1>1, <1>2, <1>3, <1>4 DEF In

LEMMA InHead ==
  ASSUME NEW s \in Seq(Blocks), s # <<>>
  PROVE  Head(s) \in Blocks /\ Head(s) \in In(s)
<1>1. Len(s) \in Nat /\ Len(s) >= 1 /\ DOMAIN s = 1..Len(s) /\ Head(s) = s[1]
  OBVIOUS
<1> QED
  BY <1>1 DEF In

LEMMA InTail ==
  ASSUME NEW s \in Seq(Blocks), s # <<>>
  PROVE  Tail(s) \in Seq(Blocks) /\ In(Tail(s)) \subseteq In(s)
<1>1. Len(s) \in Nat /\ Len(s) >= 1 /\ DOMAIN s = 1..Len(s)
  OBVIOUS
<1>2. Tail(s) \in Seq(Blocks) /\ Len(Tail(s)) = Len(s) - 1
  OBVIOUS
<1>3. \A i \in 1..(Len(s) - 1) : Tail(s)[i] = s[i + 1]
  OBVIOUS
<1>4. DOMAIN Tail(s) = 1..(Len(s) - 1)
  BY <1>1, <1>2
<1> QED
  BY <1>1, <1>2, <1>3, <1>4 DEF In

LEMMA InEmpty == <<>> \in Seq(Blocks) /\ In(<<>>) = {}
  BY DEF In

LEMMA BlockHeight ==
  ASSUME NEW b \in Blocks
  PROVE  Height(b) \in Heights /\ Height(b) \in Nat /\ Height(b) > 0 /\ Timestamp(Height(b)) \in Nat
<1>1. Height(b) \in Heights
  BY DEF Blocks, Height
<1>2. Height(b) \in Nat /\ Height(b) > 0
  BY <1>1, NotifyAssumption DEF Heights
<1>3. /\ Genesis \in Nat /\ EpochLen \in Nat
      /\ \A n \in Nat : n > 0 => (n - 1) * EpochLen \in Nat
  BY NotifyAssumption
<1> QED
  BY <1>1, <1>2, <1>3 DEF Timestamp

-------------------------------------------------------------------------------
(* Types.                                                                  *)

LEMMA TypeInit == Init => TypeOK
<1> SUFFICES ASSUME Init PROVE TypeOK
  OBVIOUS
<1>0. Wait \in Nat /\ Wait > 0 /\ Word \in Nat /\ Word > 0 /\ LastSecond \in Nat
  <2>1. Timestamp(Epochs) \in Nat
    BY NotifyAssumption DEF Timestamp
  <2> QED
    BY <2>1, NotifyAssumption DEF LastSecond
<1>1. clock \in 0..LastSecond /\ arrived \in [Blocks -> {Never} \cup 0..LastSecond]
      /\ told \in [Heights -> {Never, Lost} \cup 0..LastSecond]
  BY <1>0 DEF Init, NotifyInit
<1>2. /\ up \in {"up", "down", "panic"} /\ boot \in Nat /\ reader \in {"top", "next"}
      /\ tick \in BOOLEAN /\ height \in {0} \cup Heights
  BY DEF Init, NotifyInit
<1>3. sub \in Seq(Blocks) /\ blks \in Seq(Blocks)
  BY InEmpty DEF Init, NotifyInit
<1>4. /\ cached \subseteq Heights /\ batches \subseteq Batch /\ heads \subseteq Batch
      /\ mining \subseteq heads /\ published \subseteq heads
  BY DEF Init, NotifyInit
<1>5. left \in 0..Wait /\ fire \in Nat /\ period \in Nat \ {0} /\ took \in 0..(Word - 1)
  BY <1>0 DEF Init, NotifyInit
<1> QED
  BY <1>1, <1>2, <1>3, <1>4, <1>5 DEF TypeOK, NotifyTypeOK

\* The parts of the type, one for each kind of variable.
EnvType ==
  /\ clock \in 0..LastSecond
  /\ arrived \in [Blocks -> {Never} \cup 0..LastSecond]
  /\ told \in [Heights -> {Never, Lost} \cup 0..LastSecond]
  /\ up \in {"up", "down", "panic"} /\ boot \in Nat
QueueType == sub \in Seq(Blocks) /\ blks \in Seq(Blocks)
LoopType ==
  /\ reader \in {"top", "next"}
  /\ left \in 0..Wait /\ fire \in Nat /\ period \in Nat \ {0} /\ tick \in BOOLEAN
  /\ height \in {0} \cup Heights /\ took \in 0..(Word - 1)
HeadType ==
  /\ cached \subseteq Heights
  /\ batches \subseteq Batch /\ heads \subseteq Batch
  /\ mining \subseteq heads /\ published \subseteq heads

LEMMA TypeParts == TypeOK <=> EnvType /\ QueueType /\ LoopType /\ HeadType
  BY DEF TypeOK, NotifyTypeOK, EnvType, QueueType, LoopType, HeadType

LEMMA EnvStep ==
  ASSUME TypeOK, [Next]_vars
  PROVE  EnvType'
<1>0. EnvType
  BY TypeParts
<1>1. ASSUME NEW b \in Blocks, BlockArrives(b) PROVE EnvType'
  BY <1>0, <1>1 DEF BlockArrives, EnvType
<1>2. ASSUME NEW e \in Heights, MessageArrives(e) PROVE EnvType'
  BY <1>0, <1>2 DEF MessageArrives, EnvType
<1>3. CASE Works
  <2>1. UNCHANGED <<clock, arrived, told, boot>> /\ up' \in {up, "panic"}
    BY <1>3 DEF Works, Reader, GoesOn, TimesOut, Reads, Flush, HandsOver, Fires, Caches,
       Delivers, Handles, envVars, readerVars
  <2> QED
    BY <1>0, <2>1 DEF EnvType
<1>4. CASE Passes
  <2>1. UNCHANGED <<arrived, told, up, boot>> /\ clock' = clock + 1 /\ clock < LastSecond
    BY <1>4 DEF Passes, Second
  <2>2. clock' \in 0..LastSecond
    <3>1. LastSecond \in Nat
      <4>1. Timestamp(Epochs) \in Nat
        BY NotifyAssumption DEF Timestamp
      <4> QED
        BY <4>1, NotifyAssumption DEF LastSecond
    <3> QED
      BY <1>0, <2>1, <3>1 DEF EnvType
  <2> QED
    BY <1>0, <2>1, <2>2 DEF EnvType
<1>5. CASE Stops
  BY <1>0, <1>5 DEF Stops, NotifyStops, EnvType
<1>6. CASE Starts
  <2>1. told' \in [Heights -> {Never, Lost} \cup 0..LastSecond]
    BY <1>6 DEF Starts, NotifyStarts
  <2> QED
    BY <1>0, <1>6, <2>1 DEF Starts, NotifyStarts, EnvType
<1>7. CASE Mining \/ UNCHANGED vars
  BY <1>0, <1>7 DEF Mining, MiningFails, Publishes, vars, EnvType
<1> QED
  BY <1>1, <1>2, <1>3, <1>4, <1>5, <1>6, <1>7 DEF Next

LEMMA QueueStep ==
  ASSUME TypeOK, [Next]_vars
  PROVE  QueueType'
<1>0. QueueType
  BY TypeParts
<1>1. ASSUME NEW b \in Blocks, BlockArrives(b) PROVE QueueType'
  BY <1>0, <1>1, InAppend DEF BlockArrives, QueueType
<1>2. CASE Reads
  <2>1. sub # <<>> /\ sub \in Seq(Blocks) /\ blks \in Seq(Blocks)
    BY <1>0, <1>2 DEF Reads, QueueType
  <2>2. Head(sub) \in Blocks /\ Tail(sub) \in Seq(Blocks)
    BY <2>1, InHead, InTail
  <2>3. Append(blks, Head(sub)) \in Seq(Blocks)
    BY <2>1, <2>2, InAppend
  <2>4. sub' = Tail(sub) /\ blks' \in {blks, Append(blks, Head(sub))}
    BY <1>2 DEF Reads
  <2> QED
    BY <2>1, <2>2, <2>3, <2>4 DEF QueueType
<1>3. CASE Flush \/ Starts
  BY <1>0, <1>3, InEmpty DEF Flush, Starts, NotifyStarts, QueueType
<1>4. CASE UNCHANGED <<sub, blks>>
  BY <1>0, <1>4 DEF QueueType
<1> QED
  BY <1>1, <1>2, <1>3, <1>4
  DEF Next, Works, Reader, GoesOn, TimesOut, Fires, Caches, Delivers, Handles, Passes, Second,
      Stops, NotifyStops, MessageArrives, Mining, MiningFails, Publishes, readerVars, vars

LEMMA LoopStep ==
  ASSUME TypeOK, [Next]_vars
  PROVE  LoopType'
<1>0. /\ LoopType /\ QueueType /\ Wait \in Nat /\ Wait > 0 /\ Word \in Nat /\ Word > 0
      /\ clock \in Int
  BY TypeParts, NotifyAssumption DEF EnvType
<1>1. CASE Reads
  <2>1. \A b \in Blocks : Took(b) \in 0..(Word - 1)
    <3>1. \A n \in Int : n % Word \in 0..(Word - 1)
      BY <1>0
    <3> QED
      BY <1>0, <3>1, BlockHeight DEF Took
  <2>2. took' \in 0..(Word - 1)
    BY <1>0, <1>1, <2>1, InHead DEF Reads, QueueType, LoopType
  <2>3. fire' \in Nat /\ period' \in Nat \ {0}
    BY <1>0, <1>1 DEF Reads, LoopType
  <2> QED
    BY <1>0, <1>1, <2>2, <2>3 DEF Reads, LoopType
<1>2. CASE Flush
  <2>1. blks # <<>> => Interval \in Int /\ Height(Head(blks)) \in Heights
    BY <1>0, InHead, BlockHeight DEF Interval, QueueType
  <2>2. fire' \in Nat /\ period' \in Nat \ {0} /\ height' \in {0} \cup Heights
    BY <1>0, <1>2, <2>1 DEF Flush, HandsOver, LoopType
  <2>3. reader' = reader /\ left' = left /\ tick' = FALSE /\ took' = 0
    BY <1>2 DEF Flush
  <2>4. left \in 0..Wait /\ reader \in {"top", "next"}
    BY <1>0 DEF LoopType
  <2>5. 0 \in 0..(Word - 1) /\ 0 \in 0..Wait
    BY <1>0
  <2> QED
    BY <2>2, <2>3, <2>4, <2>5 DEF LoopType
<1>3. CASE GoesOn \/ TimesOut
  BY <1>0, <1>3 DEF GoesOn, TimesOut, LoopType
<1>4. CASE Fires
  BY <1>0, <1>4 DEF Fires, LoopType
<1>5. CASE Passes
  BY <1>0, <1>5 DEF Passes, Second, Busy, LoopType
<1>6. CASE Starts
  <2>1. /\ reader' = "top" /\ left' = 0 /\ tick' = FALSE /\ took' = 0 /\ height' = 0
        /\ fire' = Wait + 1 /\ period' = Wait + 1
    BY <1>6 DEF Starts, NotifyStarts
  <2>2. left' \in 0..Wait /\ fire' \in Nat /\ period' \in Nat \ {0} /\ took' \in 0..(Word - 1)
    BY <1>0, <2>1
  <2> QED
    BY <2>1, <2>2 DEF LoopType
<1>7. CASE UNCHANGED <<reader, left, fire, period, tick, height, took>>
  BY <1>0, <1>7 DEF LoopType
<1> QED
  BY <1>1, <1>2, <1>3, <1>4, <1>5, <1>6, <1>7
  DEF Next, Works, Reader, Caches, Delivers, Handles, Stops, NotifyStops, BlockArrives,
      MessageArrives, Mining, MiningFails, Publishes, readerVars, vars

\* The batch that Flush hands over.
Full == [height |-> Height(Head(blks)), boot |-> boot, blocks |-> {blks[i] : i \in DOMAIN blks}]

LEMMA FullBatch ==
  ASSUME TypeOK, blks # <<>>
  PROVE  /\ Full \in Batch /\ Full.boot = boot /\ Full.height = Height(Head(blks))
         /\ Head(blks) \in Blocks /\ Head(blks) \in In(blks)
<1>1. blks \in Seq(Blocks) /\ boot \in Nat
  BY TypeParts DEF QueueType, EnvType
<1>2. Head(blks) \in Blocks /\ Head(blks) \in In(blks)
  BY <1>1, InHead
<1>3. Height(Head(blks)) \in Heights
  BY <1>2, BlockHeight
<1>4. {blks[i] : i \in DOMAIN blks} \in SUBSET Blocks
  <2> SUFFICES ASSUME NEW i \in DOMAIN blks PROVE blks[i] \in Blocks
    OBVIOUS
  <2> QED
    BY <1>1
<1> QED
  BY <1>1, <1>2, <1>3, <1>4 DEF Full, Batch

\* A step of the process's batches and heads.
HeadMoves ==
  \/ /\ blks # <<>> /\ batches' = batches \cup {Full} /\ UNCHANGED <<cached, heads, mining, published>>
  \/ batches' = {} /\ cached' = {} /\ mining' = {} /\ UNCHANGED <<heads, published>>
  \/ \E e \in Heights : cached' = cached \cup {e} /\ UNCHANGED <<batches, heads, mining, published>>
  \/ \E batch \in batches : /\ batches' = batches \ {batch} /\ heads' \in {heads, heads \cup {batch}}
                            /\ mining' = mining \cup (heads' \ heads) /\ UNCHANGED <<cached, published>>
  \/ \E h \in mining : /\ mining' = mining \ {h} /\ published' \in {published, published \cup {h}}
                       /\ UNCHANGED <<cached, batches, heads>>
  \/ UNCHANGED <<cached, batches, heads, mining, published>>

LEMMA HeadMove ==
  ASSUME [Next]_vars
  PROVE  HeadMoves
<1>1. CASE Flush /\ UNCHANGED miningVars
  BY <1>1 DEF Flush, HandsOver, HeadMoves, Full, miningVars
<1>2. CASE Starts
  BY <1>2 DEF Starts, NotifyStarts, HeadMoves
<1>3. ASSUME NEW e \in Heights, Caches(e), UNCHANGED miningVars PROVE HeadMoves
  BY <1>3 DEF Caches, HeadMoves, miningVars
<1>4. ASSUME NEW batch \in batches, Delivers(batch) PROVE HeadMoves
  <2>1. /\ batches' = batches \ {batch} /\ heads' \in {heads, heads \cup {batch}}
        /\ mining' = mining \cup (heads' \ heads) /\ UNCHANGED <<cached, published>>
    BY <1>4 DEF Delivers, Handles
  <2> QED
    BY <2>1 DEF HeadMoves
<1>5. ASSUME NEW h \in mining, MiningFails(h) \/ Publishes(h) PROVE HeadMoves
  <2>1. /\ mining' = mining \ {h} /\ published' \in {published, published \cup {h}}
        /\ UNCHANGED <<cached, batches, heads>>
    BY <1>5 DEF MiningFails, Publishes
  <2> QED
    BY <2>1 DEF HeadMoves
<1>6. CASE UNCHANGED <<cached, batches, heads, mining, published>>
  BY <1>6 DEF HeadMoves
<1>7. CASE (GoesOn \/ TimesOut \/ Reads \/ Fires) /\ UNCHANGED miningVars
  BY <1>6, <1>7 DEF GoesOn, TimesOut, Reads, Fires, miningVars
<1>8. CASE Works
  BY <1>1, <1>3, <1>4, <1>7, <1>8 DEF Works, Reader
<1>9. CASE Passes \/ Stops \/ UNCHANGED vars
  BY <1>6, <1>9 DEF Passes, Second, Stops, NotifyStops, miningVars, vars
<1>10. ASSUME NEW b \in Blocks, BlockArrives(b), UNCHANGED miningVars PROVE HeadMoves
  BY <1>6, <1>10 DEF BlockArrives, miningVars
<1>11. ASSUME NEW e \in Heights, MessageArrives(e), UNCHANGED miningVars PROVE HeadMoves
  BY <1>6, <1>11 DEF MessageArrives, miningVars
<1> QED
  BY <1>2, <1>5, <1>8, <1>9, <1>10, <1>11 DEF Next, Mining

LEMMA HeadStep ==
  ASSUME TypeOK, [Next]_vars
  PROVE  HeadType'
<1>0. HeadType
  BY TypeParts
<1>1. HeadMoves
  BY HeadMove
<1>2. CASE blks # <<>> /\ batches' = batches \cup {Full} /\ UNCHANGED <<cached, heads, mining, published>>
  BY <1>0, <1>2, FullBatch DEF HeadType
<1>3. CASE ~(blks # <<>> /\ batches' = batches \cup {Full} /\ UNCHANGED <<cached, heads, mining, published>>)
  BY <1>0, <1>1, <1>3 DEF HeadType, HeadMoves
<1> QED
  BY <1>2, <1>3

LEMMA TypeStep == TypeOK /\ [Next]_vars => TypeOK'
<1> SUFFICES ASSUME TypeOK, [Next]_vars PROVE TypeOK'
  OBVIOUS
<1>1. EnvType' /\ QueueType' /\ LoopType' /\ HeadType'
  BY EnvStep, QueueStep, LoopStep, HeadStep
<1> QED
  BY <1>1 DEF TypeOK, NotifyTypeOK, EnvType, QueueType, LoopType, HeadType

\* The clock stays within its bound, the difference of times within the unsigned range,
\* and the ticker's interval positive, in every reachable state.
THEOREM MinerTypeCorrect == Spec => []TypeOK
<1> QED
  BY TypeInit, TypeStep, PTL DEF Spec

-------------------------------------------------------------------------------
(* One block of a process for a round.                                     *)

\* What was collected is above the height handed over last, so that every batch of this
\* process is of a height of its own.
MadeBy == batches \cup heads
RoundInv ==
  /\ \A b \in In(blks) : Height(b) > height
  /\ \A h \in MadeBy : h.boot <= boot /\ (h.boot = boot => h.height <= height)
  /\ \A h, g \in MadeBy : h.height = g.height /\ h.boot = g.boot => h = g

LEMMA RoundInit == Init => RoundInv
  BY InEmpty DEF Init, NotifyInit, RoundInv, MadeBy

\* How the collected blocks, the height and the number of the start change.
LEMMA CollectStep ==
  ASSUME TypeOK, [Next]_vars
  PROVE  \/ /\ blks # <<>> /\ blks' = <<>> /\ height' = Height(Head(blks)) /\ boot' = boot
            /\ batches' = batches \cup {Full} /\ heads' = heads
         \/ /\ blks' = <<>> /\ height' = 0 /\ boot' = boot + 1 /\ batches' = {} /\ heads' = heads
         \/ /\ In(blks') \subseteq In(blks) \cup {b \in Blocks : Height(b) > height}
            /\ height' = height /\ boot' = boot
            /\ MadeBy' \subseteq MadeBy
<1> DEFINE Goal ==
         \/ /\ blks # <<>> /\ blks' = <<>> /\ height' = Height(Head(blks)) /\ boot' = boot
            /\ batches' = batches \cup {Full} /\ heads' = heads
         \/ /\ blks' = <<>> /\ height' = 0 /\ boot' = boot + 1 /\ batches' = {} /\ heads' = heads
         \/ /\ In(blks') \subseteq In(blks) \cup {b \in Blocks : Height(b) > height}
            /\ height' = height /\ boot' = boot
            /\ MadeBy' \subseteq MadeBy
<1> SUFFICES Goal
  OBVIOUS
<1>0. sub \in Seq(Blocks) /\ blks \in Seq(Blocks)
  BY TypeParts DEF QueueType
<1>1. CASE Flush
  <2>1. CASE blks = <<>>
    BY <1>1, <2>1 DEF Flush, MadeBy
  <2>2. CASE blks # <<>>
    BY <1>1, <2>2 DEF Flush, HandsOver, Full
  <2> QED
    BY <2>1, <2>2
<1>2. CASE Starts
  BY <1>2 DEF Starts, NotifyStarts
<1>3. CASE Reads
  <2>1. sub # <<>> /\ Head(sub) \in Blocks
    BY <1>0, <1>3, InHead DEF Reads
  <2>2. In(Append(blks, Head(sub))) = In(blks) \cup {Head(sub)}
    BY <1>0, <2>1, InAppend
  <2>3. blks' = blks \/ (blks' = Append(blks, Head(sub)) /\ Height(Head(sub)) > height)
    BY <1>3 DEF Reads, IsNew
  <2>4. height' = height /\ boot' = boot /\ MadeBy' = MadeBy
    BY <1>3 DEF Reads, envVars, MadeBy
  <2>5. In(blks') \subseteq In(blks) \cup {b \in Blocks : Height(b) > height}
    BY <2>1, <2>2, <2>3
  <2> QED
    BY <2>4, <2>5
<1>4. ASSUME NEW batch \in batches, Delivers(batch) PROVE Goal
  <2>1. blks' = blks /\ height' = height /\ boot' = boot
    BY <1>4 DEF Delivers, Handles, envVars, readerVars
  <2>2. batches' = batches \ {batch} /\ heads' \in {heads, heads \cup {batch}}
    BY <1>4 DEF Delivers, Handles
  <2>3. MadeBy' \subseteq MadeBy
    BY <2>2 DEF MadeBy
  <2> QED
    BY <2>1, <2>3
<1>5. CASE UNCHANGED <<blks, height, boot, batches, heads>>
  BY <1>5 DEF MadeBy
<1>6. CASE GoesOn \/ TimesOut \/ Fires \/ Passes \/ Stops \/ UNCHANGED vars
  BY <1>5, <1>6 DEF GoesOn, TimesOut, Fires, Passes, Second, Stops, NotifyStops, vars, envVars, readerVars
<1>7. ASSUME NEW e \in Heights, Caches(e) \/ MessageArrives(e) PROVE Goal
  BY <1>5, <1>7 DEF Caches, MessageArrives, envVars, readerVars
<1>8. ASSUME NEW b \in Blocks, BlockArrives(b) PROVE Goal
  BY <1>5, <1>8 DEF BlockArrives
<1>9. ASSUME NEW h \in mining, MiningFails(h) \/ Publishes(h) PROVE Goal
  BY <1>5, <1>9 DEF MiningFails, Publishes, readerVars
<1> HIDE DEF Goal
<1>10. CASE Works
  BY <1>1, <1>3, <1>4, <1>6, <1>7, <1>10 DEF Works, Reader
<1> QED
  BY <1>2, <1>6, <1>7, <1>8, <1>9, <1>10 DEF Next, Mining

LEMMA RoundStep ==
  ASSUME TypeOK, RoundInv, [Next]_vars
  PROVE  RoundInv'
<1>0. /\ boot \in Nat /\ height \in Nat
      /\ \A h \in MadeBy : h.boot \in Nat /\ h.height \in Nat
  <2>1. boot \in Nat /\ height \in {0} \cup Heights /\ batches \subseteq Batch /\ heads \subseteq Batch
    BY TypeParts DEF EnvType, LoopType, HeadType
  <2>2. Heights \subseteq Nat
    BY DEF Heights
  <2>3. \A h \in Batch : h.boot \in Nat /\ h.height \in Nat
    BY <2>2 DEF Batch
  <2> QED
    BY <2>1, <2>2, <2>3 DEF MadeBy
<1>1. CASE /\ blks # <<>> /\ blks' = <<>> /\ height' = Height(Head(blks)) /\ boot' = boot
           /\ batches' = batches \cup {Full} /\ heads' = heads
  <2>1. Full.boot = boot /\ Full.height = Height(Head(blks)) /\ Head(blks) \in In(blks)
    BY <1>1, FullBatch
  <2>2. Height(Head(blks)) > height
    BY <2>1 DEF RoundInv
  <2>3. MadeBy' = MadeBy \cup {Full}
    BY <1>1 DEF MadeBy
  <2>4. In(blks') = {}
    BY <1>1, InEmpty
  <2>5. Height(Head(blks)) \in Nat
    BY <1>1, FullBatch, BlockHeight
  <2>6. \A h \in MadeBy : h.boot = Full.boot => h.height < Full.height
    BY <1>0, <2>1, <2>2, <2>5 DEF RoundInv
  <2>7. \A h \in MadeBy' : h.boot <= boot' /\ (h.boot = boot' => h.height <= height')
    BY <1>0, <1>1, <2>1, <2>3, <2>5, <2>6 DEF RoundInv
  <2>8. \A h, g \in MadeBy' : h.height = g.height /\ h.boot = g.boot => h = g
    BY <1>0, <2>1, <2>3, <2>5, <2>6 DEF RoundInv
  <2> QED
    BY <2>4, <2>7, <2>8 DEF RoundInv
<1>2. CASE blks' = <<>> /\ height' = 0 /\ boot' = boot + 1 /\ batches' = {} /\ heads' = heads
  <2>1. In(blks') = {} /\ MadeBy' \subseteq MadeBy
    BY <1>2, InEmpty DEF MadeBy
  <2>2. \A h \in MadeBy : h.boot < boot'
    BY <1>0, <1>2 DEF RoundInv
  <2> QED
    BY <1>0, <1>2, <2>1, <2>2 DEF RoundInv
<1>3. CASE /\ In(blks') \subseteq In(blks) \cup {b \in Blocks : Height(b) > height}
           /\ height' = height /\ boot' = boot
           /\ MadeBy' \subseteq MadeBy
  BY <1>3 DEF RoundInv
<1> QED
  BY <1>1, <1>2, <1>3, CollectStep

\* A process publishes at most one block for a round: no block that comes late, and no
\* delay of the network, makes it hand over a height a second time.
THEOREM OneBlock == Spec => []OneBlockPerRound
<1>1. Init => TypeOK /\ RoundInv
  BY TypeInit, RoundInit
<1>2. TypeOK /\ RoundInv /\ [Next]_vars => TypeOK' /\ RoundInv'
  BY TypeStep, RoundStep
<1>3. TypeOK /\ RoundInv => OneBlockPerRound
  BY TypeParts DEF HeadType, RoundInv, MadeBy, OneBlockPerRound
<1> QED
  BY <1>1, <1>2, <1>3, PTL DEF Spec

-------------------------------------------------------------------------------
(* The ticker's interval.                                                  *)

SkewInv ==
  /\ \A b \in Blocks : arrived[b] <= clock
  /\ \A b \in In(sub) \cup In(blks) : arrived[b] # Never
  /\ PanicOnlyBySkew

LEMMA SkewInit == Init => SkewInv
  BY InEmpty DEF Init, NotifyInit, SkewInv, Never, PanicOnlyBySkew

\* A block that came is never forgotten, and what is queued or collected came.
LEMMA QueueArrived ==
  ASSUME TypeOK, SkewInv, [Next]_vars
  PROVE  /\ \A b \in Blocks : arrived'[b] <= clock'
         /\ \A b \in Blocks : arrived[b] # Never => arrived'[b] = arrived[b]
         /\ \A b \in In(sub') \cup In(blks') : arrived'[b] # Never
<1> DEFINE Goal ==
         /\ \A b \in Blocks : arrived'[b] <= clock'
         /\ \A b \in Blocks : arrived[b] # Never => arrived'[b] = arrived[b]
         /\ \A b \in In(sub') \cup In(blks') : arrived'[b] # Never
<1> SUFFICES Goal
  OBVIOUS
<1>0. /\ sub \in Seq(Blocks) /\ blks \in Seq(Blocks) /\ clock \in Nat
      /\ arrived \in [Blocks -> {Never} \cup 0..LastSecond]
      /\ \A b \in Blocks : arrived[b] <= clock
      /\ \A b \in In(sub) \cup In(blks) : arrived[b] # Never
  BY TypeParts DEF QueueType, EnvType, SkewInv
<1>1. ASSUME NEW c \in Blocks, BlockArrives(c) PROVE Goal
  <2>1. In(sub') = In(sub) \cup {c}
    BY <1>0, <1>1, InAppend DEF BlockArrives
  <2>2. arrived[c] = Never /\ arrived' = [arrived EXCEPT ![c] = clock] /\ blks' = blks /\ clock' = clock
    BY <1>1 DEF BlockArrives
  <2>3. \A b \in Blocks : arrived'[b] = IF b = c THEN clock ELSE arrived[b]
    BY <1>0, <2>2
  <2>4. clock # Never
    BY <1>0 DEF Never
  <2>5. \A b \in Blocks : arrived'[b] <= clock'
    BY <1>0, <2>2, <2>3
  <2>6. In(sub) \cup In(blks) \subseteq Blocks
    BY <1>0 DEF In
  <2>7. \A b \in In(sub') \cup In(blks') : arrived'[b] # Never
    BY <1>0, <2>1, <2>2, <2>3, <2>4, <2>6
  <2> QED
    BY <2>2, <2>3, <2>5, <2>7
<1>2. CASE Passes
  <2>1. clock' = clock + 1 /\ UNCHANGED <<arrived, sub, blks>>
    BY <1>2 DEF Passes, Second
  <2>2. \A b \in Blocks : arrived[b] \in Int
    BY <1>0 DEF Never
  <2> QED
    BY <1>0, <2>1, <2>2
<1>3. CASE UNCHANGED <<arrived, clock>> /\ In(sub') \cup In(blks') \subseteq In(sub) \cup In(blks)
  BY <1>0, <1>3
<1>4. CASE Reads
  <2>1. sub # <<>> /\ Head(sub) \in Blocks /\ Head(sub) \in In(sub)
    BY <1>0, <1>4, InHead DEF Reads
  <2>2. In(Append(blks, Head(sub))) = In(blks) \cup {Head(sub)}
    BY <1>0, <2>1, InAppend
  <2>3. In(Tail(sub)) \subseteq In(sub)
    BY <1>0, <2>1, InTail
  <2>4. sub' = Tail(sub) /\ blks' \in {blks, Append(blks, Head(sub))} /\ UNCHANGED <<arrived, clock>>
    BY <1>4 DEF Reads, envVars
  <2> QED
    BY <1>3, <2>1, <2>2, <2>3, <2>4
<1>5. CASE Flush
  BY <1>3, <1>5, InEmpty DEF Flush
<1>6. CASE Starts
  BY <1>3, <1>6, InEmpty DEF Starts, NotifyStarts
<1>7. CASE UNCHANGED <<arrived, clock, sub, blks>>
  BY <1>3, <1>7
<1>8. CASE GoesOn \/ TimesOut \/ Fires \/ Stops \/ UNCHANGED vars
  BY <1>7, <1>8 DEF GoesOn, TimesOut, Fires, Stops, NotifyStops, vars, envVars, readerVars
<1>9. ASSUME NEW e \in Heights, Caches(e) \/ MessageArrives(e) PROVE Goal
  BY <1>7, <1>9 DEF Caches, MessageArrives, envVars, readerVars
<1>10. ASSUME NEW batch \in batches, Delivers(batch) PROVE Goal
  BY <1>7, <1>10 DEF Delivers, Handles, envVars, readerVars
<1>11. ASSUME NEW h \in mining, MiningFails(h) \/ Publishes(h) PROVE Goal
  BY <1>7, <1>11 DEF MiningFails, Publishes, readerVars
<1> HIDE DEF Goal
<1>12. CASE Works
  BY <1>4, <1>5, <1>8, <1>9, <1>10, <1>12 DEF Works, Reader
<1> QED
  BY <1>1, <1>2, <1>6, <1>8, <1>9, <1>11, <1>12 DEF Next, Mining

LEMMA PanicStep ==
  ASSUME TypeOK, SkewInv, [Next]_vars, up' = "panic"
  PROVE  \E b \in Blocks : arrived[b] # Never /\ Delay(b) <= -Wait
<1>1. CASE up = "panic"
  BY <1>1 DEF SkewInv, PanicOnlyBySkew
<1>2. CASE up # "panic"
  <2>1. Flush /\ blks # <<>> /\ ~(Interval > 0)
    BY <1>2 DEF Next, Works, Reader, GoesOn, TimesOut, Reads, Fires, Flush, HandsOver, Caches,
       Delivers, Handles, Mining, MiningFails, Publishes, Passes, Second, Stops, NotifyStops,
       Starts, NotifyStarts, BlockArrives, MessageArrives, vars, envVars
  <2> DEFINE b == Head(blks)
  <2>2. b \in Blocks /\ b \in In(blks)
    BY <2>1, FullBatch
  <2>3. arrived[b] # Never /\ arrived[b] <= clock
    BY <2>2 DEF SkewInv
  <2>4. Timestamp(Height(b)) \in Nat /\ Wait \in Nat /\ clock \in Int /\ arrived[b] \in Int
    <3>1. arrived \in [Blocks -> {Never} \cup 0..LastSecond] /\ clock \in Int
      BY TypeParts DEF EnvType
    <3> QED
      BY <2>2, <3>1, BlockHeight, NotifyAssumption DEF Never
  <2>5. clock - Timestamp(Height(b)) + Wait <= 0
    BY <2>1, <2>4 DEF Interval
  <2>6. Delay(b) <= -Wait
    BY <2>3, <2>4, <2>5 DEF Delay
  <2> QED
    BY <2>2, <2>3, <2>6
<1> QED
  BY <1>1, <1>2

LEMMA SkewStep ==
  ASSUME TypeOK, SkewInv, [Next]_vars
  PROVE  SkewInv'
<1>1. /\ \A b \in Blocks : arrived'[b] <= clock'
      /\ \A b \in Blocks : arrived[b] # Never => arrived'[b] = arrived[b]
      /\ \A b \in In(sub') \cup In(blks') : arrived'[b] # Never
  BY QueueArrived
<1>2. ASSUME up' = "panic" PROVE \E b \in Blocks : arrived'[b] # Never /\ Delay(b)' <= -Wait
  <2>1. PICK b \in Blocks : arrived[b] # Never /\ Delay(b) <= -Wait
    BY <1>2, PanicStep
  <2>2. arrived'[b] = arrived[b]
    BY <1>1, <2>1
  <2> QED
    BY <2>1, <2>2 DEF Delay
<1> QED
  BY <1>1, <1>2 DEF SkewInv, PanicOnlyBySkew

\* Reset ends the process only after a block ahead of the host's clock by a whole wait.
THEOREM PanicNeedsSkew == Spec => []PanicOnlyBySkew
<1>1. Init => TypeOK /\ SkewInv
  BY TypeInit, SkewInit
<1>2. TypeOK /\ SkewInv /\ [Next]_vars => TypeOK' /\ SkewInv'
  BY TypeStep, SkewStep
<1>3. SkewInv => PanicOnlyBySkew
  BY DEF SkewInv
<1> QED
  BY <1>1, <1>2, <1>3, PTL DEF Spec

-------------------------------------------------------------------------------
(* The loop in step.  Where blocks come in time, the batch of an epoch is  *)
(* filled until a wait after its last block, and closed a wait later by    *)
(* the read that the tick ends: before a block of the next epoch can come. *)
(* A tick that Flush has set for later than that block is not left over.   *)

\* The host's clock runs, no process has stopped yet, and all blocks are in time.
Calm == boot = 1 /\ up = "up" /\ \A d \in Heights : Timely(d)

\* So the blocks of an epoch are within a wait of one another, and two waits apart from
\* those of any other.
Spaced(a) ==
  \A b, c \in Blocks : a[b] # Never /\ a[c] # Never =>
    /\ Timestamp(Height(b)) < a[b] /\ a[b] + 2 * Wait <= Timestamp(Height(b)) + EpochLen
    /\ Height(b) = Height(c) => a[b] - a[c] <= Wait
    /\ Height(b) < Height(c) => a[b] + 2 * Wait < a[c]

\* The loop reads whatever comes in the second in which it comes.
ReadInv ==
  /\ took <= Late
  /\ \A b \in In(sub) : arrived[b] = clock
  /\ \A b \in Blocks : arrived[b] # Never /\ Height(b) > height => b \in In(blks) \cup In(sub)

\* When the last of the collected blocks was read.
Newest == arrived[blks[Len(blks)]]
\* A tick of before the first of them is in the channel, and ends the batch at once.
Leftover == tick /\ reader = "top" /\ clock = Newest /\ \A b, c \in In(blks) : b = c
\* The ticker has not fired since.
Filling ==
  /\ ~tick /\ Newest <= clock /\ clock <= Newest + Wait /\ clock + fire = Newest + Wait + 1
  /\ \/ reader = "top" /\ (clock = Newest \/ clock = Newest + Wait)
     \/ reader = "next" /\ clock + left = Newest + Wait
     \/ reader = "next" /\ clock = Newest + Wait /\ left = Wait
\* It has, in a read that ends two waits after the last block.
Closing ==
  /\ Newest + Wait < clock /\ clock <= Newest + 2 * Wait
  /\ tick \/ (fire = 0 /\ clock = Newest + Wait + 1)
  /\ \/ reader = "next" /\ clock + left = Newest + 2 * Wait
     \/ reader = "top" /\ tick /\ clock = Newest + 2 * Wait
BatchInv ==
  blks # <<>> =>
    /\ \A b \in In(blks) : Height(b) = Height(Head(blks)) /\ arrived[b] <= Newest
    /\ Leftover \/ Filling \/ Closing

\* Several blocks of an epoch were handed over.
Multi(e) == \E x \in MadeBy : x.height = e /\ \E b, c \in x.blocks : b # c
HandedInv ==
  /\ height > 0 => Came(height) # {}
  /\ \A e \in Heights : told[e] # Lost /\ (told[e] # Never /\ told[e] < clock => e \in cached)
  /\ \A x \in MadeBy : x.height <= height
  /\ \A x \in batches : clock <= Timestamp(x.height) + EpochLen
  /\ \A e \in Heights :
       Multi(e) => Came(e) # {} /\ \A b \in Came(e) : arrived[b] + 2 * Wait <= clock

\* The ticker that Flush has reset fires this long after a batch whose last block is b.
FiresAt(b) == arrived[b] + Delay(b) + 5 * Wait
TickInv ==
  Multi(height) =>
    /\ blks = <<>> =>
         \E b \in Came(height) :
           /\ \A c \in Came(height) : arrived[c] <= arrived[b]
           /\ clock < FiresAt(b) => ~tick /\ clock + fire = FiresAt(b)
    /\ blks # <<>> /\ Height(Head(blks)) = height + 1 /\ Leftover => ~BeforeTick(height + 1)

Told(e) == told[e] # Never /\ \A b \in Came(e) : told[e] <= arrived[b]
Passed(e) ==
  \E x \in MadeBy : x.height = e /\ x.blocks = Came(e) /\ (x \in heads \/ e \in cached)
StepInv ==
  \A e \in Heights \ {1} : Multi(e - 1) /\ height >= e /\ BeforeTick(e) =>
    /\ \A b \in Came(e) : arrived[b] + Wait < clock
    /\ Came(e) # {} /\ TipSet(Came(e)) /\ Told(e) => Passed(e)

LEMMA EpochsApart ==
  ASSUME NEW d \in Heights, NEW e \in Heights
  PROVE  /\ Timestamp(d) \in Nat /\ Timestamp(e) \in Nat
         /\ d < e => Timestamp(d) + EpochLen <= Timestamp(e)
         /\ e = d + 1 => Timestamp(e) = Timestamp(d) + EpochLen
<1>1. d \in Nat /\ e \in Nat /\ d >= 1 /\ e >= 1 /\ EpochLen \in Nat /\ Genesis \in Nat
  BY NotifyAssumption DEF Heights
<1>2. \A m, n \in Nat : m * n \in Nat
  OBVIOUS
<1>3. \A m \in Nat : m >= 1 => m * EpochLen >= EpochLen
  BY <1>1
<1>4. (d - 1) * EpochLen \in Nat /\ (e - 1) * EpochLen \in Nat
  BY <1>1, <1>2
<1>5. (e - 1) * EpochLen = (d - 1) * EpochLen + (e - d) * EpochLen
  BY <1>1
<1>6. d < e => (e - d) * EpochLen >= EpochLen
  BY <1>1, <1>3
<1>7. e = d + 1 => (e - d) * EpochLen = EpochLen
  BY <1>1
<1>8. (e - d) * EpochLen \in Int
  BY <1>1
<1> QED
  BY <1>1, <1>4, <1>5, <1>6, <1>7, <1>8 DEF Timestamp

LEMMA NoWrap ==
  ASSUME NEW n \in Nat, n <= EpochLen
  PROVE  n % Word = n
<1>1. Word \in Nat /\ Word > 2 * EpochLen * (Epochs + 1) /\ EpochLen \in Nat /\ Epochs \in Nat
  BY NotifyAssumption
<1>2. 2 * EpochLen * (Epochs + 1) >= EpochLen
  <2>1. 2 * EpochLen * (Epochs + 1) = 2 * (EpochLen * Epochs) + 2 * EpochLen
    BY <1>1
  <2>2. EpochLen * Epochs \in Nat
    BY <1>1
  <2> QED
    BY <1>1, <2>1, <2>2
<1>3. n < Word
  <2>1. 2 * EpochLen * (Epochs + 1) \in Int
    BY <1>1
  <2> QED
    BY <1>1, <1>2, <2>1
<1> QED
  BY <1>1, <1>3

LEMMA SpacedWhenTimely ==
  ASSUME NEW a \in [Blocks -> {Never} \cup 0..LastSecond],
         \A b, c \in Blocks : a[b] # Never /\ a[c] # Never /\ Height(b) = Height(c) =>
           /\ a[b] - Timestamp(Height(b)) >= 1
           /\ a[b] - Timestamp(Height(b)) + 2 * Wait <= EpochLen
           /\ (a[b] - Timestamp(Height(b))) - (a[c] - Timestamp(Height(c))) <= Wait
  PROVE  Spaced(a)
<1> SUFFICES ASSUME NEW b \in Blocks, NEW c \in Blocks, a[b] # Never, a[c] # Never
             PROVE  /\ Timestamp(Height(b)) < a[b]
                    /\ a[b] + 2 * Wait <= Timestamp(Height(b)) + EpochLen
                    /\ Height(b) = Height(c) => a[b] - a[c] <= Wait
                    /\ Height(b) < Height(c) => a[b] + 2 * Wait < a[c]
  BY DEF Spaced
<1>1. /\ Height(b) \in Heights /\ Height(c) \in Heights
      /\ Timestamp(Height(b)) \in Nat /\ Timestamp(Height(c)) \in Nat
      /\ a[b] \in Int /\ a[c] \in Int /\ Wait \in Nat /\ EpochLen \in Nat
  BY BlockHeight, NotifyAssumption DEF Never
<1>2. /\ a[b] - Timestamp(Height(b)) >= 1 /\ a[c] - Timestamp(Height(c)) >= 1
      /\ a[b] - Timestamp(Height(b)) + 2 * Wait <= EpochLen
      /\ Height(b) = Height(c) =>
           (a[b] - Timestamp(Height(b))) - (a[c] - Timestamp(Height(c))) <= Wait
  OBVIOUS
<1>3. Height(b) < Height(c) => Timestamp(Height(b)) + EpochLen <= Timestamp(Height(c))
  BY <1>1, EpochsApart
<1> QED
  BY <1>1, <1>2, <1>3

LEMMA CalmSpaced ==
  ASSUME TypeOK, Calm
  PROVE  Spaced(arrived)
<1>1. arrived \in [Blocks -> {Never} \cup 0..LastSecond]
  BY TypeParts DEF EnvType
<1>2. \A b, c \in Blocks : arrived[b] # Never /\ arrived[c] # Never /\ Height(b) = Height(c) =>
           /\ arrived[b] - Timestamp(Height(b)) >= 1
           /\ arrived[b] - Timestamp(Height(b)) + 2 * Wait <= EpochLen
           /\ (arrived[b] - Timestamp(Height(b))) - (arrived[c] - Timestamp(Height(c))) <= Wait
  BY BlockHeight DEF Calm, Timely, Came, Delay
<1> QED
  BY <1>1, <1>2, SpacedWhenTimely

LEMMA CalmSpacedNext ==
  ASSUME TypeOK', Calm'
  PROVE  Spaced(arrived')
<1>1. arrived' \in [Blocks -> {Never} \cup 0..LastSecond]
  BY DEF TypeOK, NotifyTypeOK
<1>2. \A b, c \in Blocks : arrived'[b] # Never /\ arrived'[c] # Never /\ Height(b) = Height(c) =>
           /\ arrived'[b] - Timestamp(Height(b)) >= 1
           /\ arrived'[b] - Timestamp(Height(b)) + 2 * Wait <= EpochLen
           /\ (arrived'[b] - Timestamp(Height(b))) - (arrived'[c] - Timestamp(Height(c))) <= Wait
  BY BlockHeight DEF Calm, Timely, Came, Delay
<1> QED
  BY <1>1, <1>2, SpacedWhenTimely

\* All batches and heads were made by a process that was started.
BootInv == boot >= 1 /\ \A x \in MadeBy : x.boot >= 1

LEMMA BootInit == Init => BootInv
  BY DEF Init, NotifyInit, BootInv, MadeBy

LEMMA BootStep ==
  ASSUME TypeOK, BootInv, [Next]_vars
  PROVE  BootInv'
<1>0. boot \in Nat
  BY TypeParts DEF EnvType
<1>1. CASE /\ blks # <<>> /\ blks' = <<>> /\ height' = Height(Head(blks)) /\ boot' = boot
           /\ batches' = batches \cup {Full} /\ heads' = heads
  BY <1>0, <1>1, FullBatch DEF BootInv, MadeBy
<1>2. CASE blks' = <<>> /\ height' = 0 /\ boot' = boot + 1 /\ batches' = {} /\ heads' = heads
  BY <1>0, <1>2 DEF BootInv, MadeBy
<1>3. CASE /\ In(blks') \subseteq In(blks) \cup {b \in Blocks : Height(b) > height}
           /\ height' = height /\ boot' = boot
           /\ MadeBy' \subseteq MadeBy
  BY <1>3 DEF BootInv
<1> QED
  BY <1>1, <1>2, <1>3, CollectStep

\* What can happen while blocks are in time and the process runs.
notifyVars == <<setup, clock, arrived, told, up, boot, sub, reader, left, fire, period, tick,
                height, blks, took, cached, batches, heads>>
CalmMoves ==
  \/ \E b \in Blocks : BlockArrives(b)
  \/ \E e \in Heights : MessageArrives(e)
  \/ GoesOn \/ TimesOut \/ Reads \/ Flush \/ Fires
  \/ \E e \in Heights : Caches(e)
  \/ \E x \in batches : Handles(x)
  \/ Second
  \/ UNCHANGED notifyVars

LEMMA CalmMove ==
  ASSUME TypeOK, SkewInv, BootInv, [Next]_vars, Calm'
  PROVE  Calm /\ CalmMoves
<1>0. boot \in Nat /\ boot >= 1
  BY TypeParts DEF EnvType, BootInv
<1>1. ~Starts /\ ~Stops
  BY <1>0 DEF Starts, NotifyStarts, Stops, NotifyStops, Calm
<1> DEFINE A == \E b \in Blocks : BlockArrives(b)
           M == \E e \in Heights : MessageArrives(e)
           C == \E e \in Heights : Caches(e)
           H == \E x \in batches : Handles(x)
           U == UNCHANGED notifyVars
<1>2. ASSUME Works
      PROVE  GoesOn \/ TimesOut \/ Reads \/ Flush \/ Fires \/ C \/ H
  <2>1. (\E batch \in batches : Delivers(batch)) => H
    BY DEF Delivers
  <2>2. Reader \/ C \/ H
    BY <1>2, <2>1 DEF Works
  <2> QED
    BY <2>2 DEF Reader
<1>3. Passes => Second
  BY DEF Passes
<1>5. Mining \/ UNCHANGED vars => U
  BY DEF Mining, MiningFails, Publishes, notifyVars, readerVars, vars
<1>6. CalmMoves
  <2>1. A \/ M \/ GoesOn \/ TimesOut \/ Reads \/ Flush \/ Fires \/ C \/ H \/ Second \/ U
    BY <1>1, <1>2, <1>3, <1>5 DEF Next
  <2> QED
    BY <2>1 DEF CalmMoves
<1>7. boot = 1 /\ up = "up"
  <2>1. boot' = boot /\ (up' = "up" => up = "up")
    BY <1>6 DEF CalmMoves, BlockArrives, MessageArrives, GoesOn, TimesOut, Reads, Flush, HandsOver,
       Fires, Caches, Handles, Second, envVars, notifyVars
  <2> QED
    BY <2>1 DEF Calm
<1>8. ASSUME NEW d \in Heights PROVE Timely(d)
  <2>1. \A b \in Blocks : arrived[b] # Never => arrived'[b] = arrived[b]
    BY QueueArrived
  <2>2. \A b \in Came(d) : b \in Came(d)' /\ Delay(b)' = Delay(b)
    BY <2>1 DEF Came, Delay
  <2>3. Timely(d)'
    BY DEF Calm
  <2> QED
    BY <2>2, <2>3 DEF Timely
<1> QED
  BY <1>6, <1>7, <1>8 DEF Calm

LEMMA Numbers ==
  ASSUME TypeOK
  PROVE  /\ clock \in Nat /\ left \in Nat /\ fire \in Nat /\ height \in Nat /\ took \in Nat
         /\ Wait \in Nat /\ Wait >= 1 /\ EpochLen \in Nat /\ Late \in Nat
         /\ \A b \in Blocks : /\ arrived[b] \in Int /\ (arrived[b] # Never => arrived[b] \in Nat)
                              /\ Height(b) \in Nat /\ Timestamp(Height(b)) \in Nat
         /\ sub \in Seq(Blocks) /\ blks \in Seq(Blocks)
         /\ In(sub) \subseteq Blocks /\ In(blks) \subseteq Blocks
         /\ blks # <<>> => Head(blks) \in In(blks) /\ blks[Len(blks)] \in In(blks)
<1>1. clock \in Nat /\ \A b \in Blocks : arrived[b] \in {Never} \cup Nat
  BY TypeParts DEF EnvType
<1>2. \A b \in Blocks : arrived[b] \in Int /\ (arrived[b] # Never => arrived[b] \in Nat)
  BY <1>1 DEF Never
<1>3. sub \in Seq(Blocks) /\ blks \in Seq(Blocks)
  BY TypeParts DEF QueueType
<1>4. In(sub) \subseteq Blocks /\ In(blks) \subseteq Blocks
  BY <1>3 DEF In
<1>5. ASSUME blks # <<>> PROVE blks[Len(blks)] \in In(blks)
  <2>1. Len(blks) \in Nat /\ Len(blks) >= 1 /\ DOMAIN blks = 1..Len(blks)
    BY <1>3, <1>5
  <2> QED
    BY <2>1 DEF In
<1>6. blks # <<>> => Head(blks) \in In(blks)
  BY <1>3, InHead
<1>7. left \in Nat /\ fire \in Nat /\ height \in Nat /\ took \in Nat
  BY TypeParts, NotifyAssumption DEF LoopType, Heights
<1>8. Wait \in Nat /\ Wait >= 1 /\ EpochLen \in Nat /\ Late \in Nat
  BY NotifyAssumption
<1> QED
  BY <1>1, <1>2, <1>3, <1>4, <1>5, <1>6, <1>7, <1>8, BlockHeight

\* The state of the collected blocks, at most two waits after the last of them.
LEMMA BatchTimes ==
  ASSUME TypeOK, SkewInv, BatchInv, blks # <<>>
  PROVE  /\ Newest \in Nat /\ Newest <= clock /\ clock <= Newest + 2 * Wait
         /\ \E c \in In(blks) : arrived[c] = Newest
<1>1. blks[Len(blks)] \in In(blks) /\ blks[Len(blks)] \in Blocks
  BY Numbers
<1>2. Newest \in Nat /\ Newest <= clock
  BY <1>1, Numbers DEF SkewInv, Newest
<1>3. clock <= Newest + 2 * Wait
  <2>1. clock = Newest \/ clock <= Newest + Wait \/ clock <= Newest + 2 * Wait
    BY DEF BatchInv, Leftover, Filling, Closing
  <2>2. clock \in Nat /\ Wait \in Nat
    BY Numbers
  <2> QED
    BY <1>2, <2>1, <2>2
<1> QED
  BY <1>1, <1>2, <1>3 DEF Newest

\* Whatever is in the queue is of the epoch that is being collected.
LEMMA QueueOfEpoch ==
  ASSUME TypeOK, SkewInv, Calm, ReadInv, BatchInv, blks # <<>>,
         NEW b \in In(sub), NEW c \in In(blks)
  PROVE  Height(b) = Height(c) /\ clock <= Newest + Wait
<1>1. b \in Blocks /\ c \in Blocks /\ arrived[b] # Never /\ arrived[c] # Never /\ arrived[b] = clock
  BY Numbers DEF SkewInv, ReadInv
<1>2. PICK d \in In(blks) : arrived[d] = Newest
  BY BatchTimes
<1>3. d \in Blocks /\ arrived[d] # Never /\ Height(d) = Height(c)
  BY <1>2, Numbers DEF SkewInv, BatchInv
<1>4. Newest <= clock /\ clock <= Newest + 2 * Wait /\ Newest \in Nat
  BY BatchTimes
<1>5. /\ Height(b) = Height(d) => arrived[b] - arrived[d] <= Wait
      /\ Height(b) < Height(d) => arrived[b] + 2 * Wait < arrived[d]
      /\ Height(d) < Height(b) => arrived[d] + 2 * Wait < arrived[b]
  BY <1>1, <1>3, CalmSpaced DEF Spaced
<1>6. clock \in Nat /\ Wait \in Nat /\ Height(b) \in Nat /\ Height(d) \in Nat
  BY <1>1, <1>3, Numbers
<1>7. ~(Height(b) < Height(d)) /\ ~(Height(d) < Height(b))
  BY <1>1, <1>2, <1>4, <1>5, <1>6
<1>8. Height(b) = Height(d)
  BY <1>6, <1>7
<1> QED
  BY <1>1, <1>2, <1>3, <1>4, <1>5, <1>6, <1>8

LEMMA ReadStep ==
  ASSUME TypeOK, RoundInv, SkewInv, Calm, CalmMoves, ReadInv, BatchInv, EpochLen <= Late + 2 * Wait
  PROVE  ReadInv'
<1>0. /\ took <= Late
      /\ \A b \in In(sub) : arrived[b] = clock
      /\ \A b \in Blocks : arrived[b] # Never /\ Height(b) > height => b \in In(blks) \cup In(sub)
  BY DEF ReadInv
<1>1. ASSUME NEW b \in Blocks, BlockArrives(b) PROVE ReadInv'
  <2>1. /\ arrived[b] = Never /\ arrived' = [arrived EXCEPT ![b] = clock] /\ sub' = Append(sub, b)
        /\ UNCHANGED <<clock, height, blks, took>>
    BY <1>1 DEF BlockArrives
  <2>2. In(sub') = In(sub) \cup {b}
    BY <2>1, Numbers, InAppend
  <2>3. \A c \in Blocks : arrived'[c] = IF c = b THEN clock ELSE arrived[c]
    <3>1. arrived \in [Blocks -> {Never} \cup 0..LastSecond]
      BY TypeParts DEF EnvType
    <3> QED
      BY <2>1, <3>1
  <2>4. \A c \in In(sub') : arrived'[c] = clock'
    BY <1>0, <2>1, <2>2, <2>3, Numbers
  <2>5. \A c \in Blocks : arrived'[c] # Never /\ Height(c) > height' => c \in In(blks') \cup In(sub')
    BY <1>0, <2>1, <2>2, <2>3
  <2> QED
    BY <1>0, <2>1, <2>4, <2>5 DEF ReadInv
<1>2. ASSUME Reads PROVE ReadInv'
  <2> DEFINE b == Head(sub)
  <2>1. sub # <<>> /\ sub' = Tail(sub) /\ UNCHANGED <<clock, arrived, height>>
    BY <1>2 DEF Reads, envVars
  <2>2. b \in In(sub) /\ b \in Blocks /\ In(sub') \subseteq In(sub)
    BY <2>1, Numbers, InHead, InTail
  <2>3. \A c \in In(sub) : c \in In(sub') \/ c = b
    <3>1. sub \in Seq(Blocks)
      BY Numbers
    <3>2. Len(sub) \in Nat /\ Len(sub) >= 1 /\ DOMAIN sub = 1..Len(sub) /\ Len(Tail(sub)) = Len(sub) - 1
          /\ DOMAIN Tail(sub) = 1..(Len(sub) - 1) /\ b = sub[1]
      BY <2>1, <3>1
    <3>3. \A i \in 1..(Len(sub) - 1) : Tail(sub)[i] = sub[i + 1]
      BY <2>1, <3>1
    <3>4. ASSUME NEW i \in 1..Len(sub), i # 1 PROVE sub[i] \in In(Tail(sub))
      <4>1. i - 1 \in 1..(Len(sub) - 1)
        BY <3>2, <3>4
      <4>2. Tail(sub)[i - 1] = sub[i]
        BY <3>3, <4>1
      <4> QED
        BY <3>2, <4>1, <4>2 DEF In
    <3> QED
      BY <2>1, <3>2, <3>4 DEF In
  <2>4. /\ In(blks') = IF IsNew(b) THEN In(blks) \cup {b} ELSE In(blks)
        /\ took' = IF IsNew(b) THEN Took(b) ELSE took
    BY <1>2, <2>2, Numbers, InAppend DEF Reads
  <2>5. Took(b) <= Late
    <3>1. arrived[b] = clock /\ arrived[b] # Never
      BY <1>0, <2>2 DEF SkewInv
    <3>2. Timestamp(Height(b)) < clock /\ clock + 2 * Wait <= Timestamp(Height(b)) + EpochLen
      BY <2>2, <3>1, CalmSpaced DEF Spaced
    <3>3. /\ clock \in Nat /\ Wait \in Nat /\ EpochLen \in Nat /\ Late \in Nat
          /\ Timestamp(Height(b)) \in Nat
      BY <2>2, Numbers
    <3>4. clock - Timestamp(Height(b)) \in Nat /\ clock - Timestamp(Height(b)) <= EpochLen
      BY <3>2, <3>3
    <3>5. Took(b) = clock - Timestamp(Height(b))
      BY <3>4, NoWrap DEF Took
    <3> QED
      BY <3>2, <3>3, <3>5
  <2>6. took' <= Late
    BY <1>0, <2>4, <2>5
  <2>7. \A c \in Blocks : arrived[c] # Never /\ Height(c) > height => c \in In(blks') \cup In(sub')
    BY <1>0, <2>3, <2>4 DEF IsNew
  <2> QED
    BY <1>0, <2>1, <2>2, <2>6, <2>7 DEF ReadInv
<1>3. ASSUME Flush PROVE ReadInv'
  <2>1. took' = 0 /\ blks' = <<>> /\ UNCHANGED <<clock, arrived, sub>>
    BY <1>3 DEF Flush
  <2>2. CASE blks = <<>>
    <3>1. height' = height
      BY <1>3, <2>2 DEF Flush
    <3> QED
      BY <1>0, <2>1, <2>2, <3>1, Numbers DEF ReadInv
  <2>3. CASE blks # <<>>
    <3>1. height' = Height(Head(blks)) /\ Head(blks) \in In(blks) /\ Head(blks) \in Blocks
      BY <1>3, <2>3, Numbers DEF Flush, HandsOver
    <3>2. Height(Head(blks)) > height /\ Height(Head(blks)) \in Nat /\ height \in Nat
      BY <3>1, <2>3, Numbers DEF RoundInv
    <3>3. \A b \in In(blks) : Height(b) = Height(Head(blks))
      BY <2>3 DEF BatchInv
    <3>4. ASSUME NEW b \in Blocks, arrived[b] # Never, Height(b) > height' PROVE b \in In(sub)
      <4>1. Height(b) \in Nat
        BY Numbers
      <4>2. Height(b) > height /\ Height(b) # Height(Head(blks))
        BY <3>1, <3>2, <3>4, <4>1
      <4> QED
        BY <1>0, <3>3, <3>4, <4>2
    <3> QED
      BY <1>0, <2>1, <3>4, Numbers DEF ReadInv
  <2> QED
    BY <2>2, <2>3
<1>4. ASSUME Second PROVE ReadInv'
  <2>1. UNCHANGED <<arrived, sub, took, blks, height>>
    BY <1>4 DEF Second
  <2>2. sub = <<>>
    BY <1>0, <1>4, TypeParts DEF Second, Busy, LoopType
  <2> QED
    BY <1>0, <2>1, <2>2, InEmpty DEF ReadInv
<1>5. ASSUME UNCHANGED <<arrived, clock, sub, took, blks, height>> PROVE ReadInv'
  BY <1>5 DEF ReadInv
<1>6. ASSUME GoesOn \/ TimesOut \/ Fires \/ UNCHANGED notifyVars PROVE ReadInv'
  BY <1>5, <1>6 DEF GoesOn, TimesOut, Fires, notifyVars, envVars
<1>7. ASSUME NEW e \in Heights, MessageArrives(e) \/ Caches(e) PROVE ReadInv'
  BY <1>5, <1>7 DEF MessageArrives, Caches, envVars, readerVars
<1>8. ASSUME NEW x \in batches, Handles(x) PROVE ReadInv'
  BY <1>5, <1>8 DEF Handles, envVars, readerVars
<1> QED
  BY <1>1, <1>2, <1>3, <1>4, <1>6, <1>7, <1>8 DEF CalmMoves

\* A read adds a block to the batch, if it adds one, in the second in which it comes.
LEMMA ReadMove ==
  ASSUME TypeOK, RoundInv, SkewInv, Calm, ReadInv, BatchInv, Reads
  PROVE  /\ UNCHANGED <<clock, arrived, told, up, boot, tick, height, cached, batches, heads>>
         /\ \/ blks' = blks /\ blks = <<>> /\ fire' = fire
            \/ /\ Head(sub) \in In(sub) /\ Head(sub) \in Blocks
               /\ blks' = Append(blks, Head(sub)) /\ blks' # <<>>
               /\ In(blks') = In(blks) \cup {Head(sub)}
               /\ Height(Head(sub)) > height
               /\ Newest' = clock /\ fire' = Wait + 1 /\ reader' = "top"
               /\ Head(blks') = IF blks = <<>> THEN Head(sub) ELSE Head(blks)
               /\ blks # <<>> => Filling
<1> DEFINE b == Head(sub)
<1>1. /\ sub # <<>> /\ reader = "next" /\ reader' = "top"
      /\ UNCHANGED <<clock, arrived, told, up, boot, tick, height, cached, batches, heads>>
  BY DEF Reads, envVars
<1>2. b \in In(sub) /\ b \in Blocks /\ arrived[b] = clock
  BY <1>1, Numbers, InHead DEF ReadInv
<1>3. CASE ~IsNew(b)
  <2>1. blks' = blks /\ fire' = fire
    BY <1>3 DEF Reads
  <2>2. ASSUME blks # <<>> PROVE FALSE
    <3>1. Head(blks) \in In(blks)
      BY <2>2, Numbers
    <3>2. Height(b) = Height(Head(blks))
      BY <1>2, <2>2, <3>1, QueueOfEpoch
    <3> QED
      BY <1>3, <3>1, <3>2 DEF RoundInv, IsNew
  <2> QED
    BY <1>1, <2>1, <2>2
<1>4. CASE IsNew(b)
  <2>1. blks' = Append(blks, b) /\ fire' = Wait + 1 /\ Height(b) > height
    BY <1>4 DEF Reads, IsNew
  <2>2. In(blks') = In(blks) \cup {b}
    BY <1>2, <2>1, Numbers, InAppend
  <2>3. blks' # <<>> /\ blks'[Len(blks')] = b /\ Head(blks') = IF blks = <<>> THEN b ELSE Head(blks)
    <3>1. blks \in Seq(Blocks) /\ Len(blks) \in Nat
      BY Numbers
    <3> HIDE DEF b, Blocks
    <3>2. /\ Append(blks, b) \in Seq(Blocks) /\ Len(Append(blks, b)) = Len(blks) + 1
          /\ Append(blks, b)[Len(blks) + 1] = b
      BY <1>2, <3>1
    <3>3. Append(blks, b) # <<>> /\ Head(Append(blks, b)) = Append(blks, b)[1]
      BY <3>1, <3>2
    <3>4. blks = <<>> => Len(blks) = 0
      OBVIOUS
    <3>5. blks # <<>> => Head(blks) = blks[1] /\ Append(blks, b)[1] = blks[1]
      BY <1>2, <3>1
    <3> QED
      BY <2>1, <3>1, <3>2, <3>3, <3>4, <3>5
  <2>4. Newest' = clock
    BY <1>1, <1>2, <2>3 DEF Newest
  <2>5. ASSUME blks # <<>> PROVE Filling
    <3>1. Head(blks) \in In(blks)
      BY <2>5, Numbers
    <3>2. clock <= Newest + Wait
      BY <1>2, <2>5, <3>1, QueueOfEpoch
    <3>3. clock \in Nat /\ Wait \in Nat /\ Newest \in Nat
      BY <2>5, BatchTimes, Numbers
    <3>4. ~(Newest + Wait < clock)
      BY <3>2, <3>3
    <3> QED
      BY <1>1, <2>5, <3>4 DEF BatchInv, Leftover, Closing
  <2> QED
    BY <1>1, <1>2, <2>1, <2>2, <2>3, <2>4, <2>5
<1> QED
  BY <1>3, <1>4

\* As long as nothing is read, the loop goes from one phase to the next.
LEMMA PhaseStep ==
  ASSUME TypeOK, SkewInv, ReadInv, BatchInv, CalmMoves, Wait >= 2, ~Reads,
         blks # <<>>, blks' = blks, Newest' = Newest
  PROVE  (Leftover' => Leftover) /\ (Leftover \/ Filling \/ Closing)'
<1> DEFINE Goal == (Leftover' => Leftover) /\ (Leftover \/ Filling \/ Closing)'
<1> SUFFICES Goal
  OBVIOUS
<1>0. /\ clock \in Nat /\ left \in Nat /\ fire \in Nat /\ Wait \in Nat /\ Newest \in Nat
      /\ reader \in {"top", "next"} /\ tick \in BOOLEAN
  BY BatchTimes, Numbers, TypeParts DEF LoopType
<1>1. Leftover \/ Filling \/ Closing
  BY DEF BatchInv
<1>2. ASSUME GoesOn PROVE Goal
  <2>1. /\ reader = "top" /\ ~tick /\ reader' = "next" /\ left' = Wait
        /\ UNCHANGED <<clock, fire, tick, blks>>
    BY <1>2 DEF GoesOn, envVars
  <2>2. Filling
    BY <1>1, <2>1 DEF Leftover, Closing
  <2>3. Filling'
    BY <1>0, <2>1, <2>2 DEF Filling
  <2> QED
    BY <2>1, <2>3 DEF Leftover
<1>3. ASSUME TimesOut PROVE Goal
  <2>1. /\ reader = "next" /\ left = 0 /\ reader' = "top"
        /\ UNCHANGED <<clock, fire, tick, blks>>
    BY <1>3 DEF TimesOut, envVars
  <2>2. ASSUME Filling PROVE Filling'
    <3>1. clock = Newest + Wait
      BY <1>0, <2>1, <2>2 DEF Filling
    <3> QED
      BY <1>0, <2>1, <2>2, <3>1 DEF Filling
  <2>3. ASSUME Closing PROVE Closing'
    <3>1. clock = Newest + 2 * Wait
      BY <1>0, <2>1, <2>3 DEF Closing
    <3>2. clock # Newest + Wait + 1
      BY <1>0, <3>1
    <3> QED
      BY <1>0, <2>1, <2>3, <3>1, <3>2 DEF Closing
  <2>4. Filling \/ Closing
    BY <1>1, <2>1 DEF Leftover
  <2>5. Filling' \/ Closing'
    BY <2>2, <2>3, <2>4
  <2>6. ~Leftover'
    <3>1. ASSUME Leftover' PROVE FALSE
      <4>1. tick /\ clock = Newest
        BY <2>1, <3>1 DEF Leftover
      <4>2. ~Filling
        BY <4>1 DEF Filling
      <4>3. ~Closing
        BY <1>0, <4>1 DEF Closing
      <4> QED
        BY <2>4, <4>2, <4>3
    <3> QED
      BY <3>1
  <2> QED
    BY <2>5, <2>6
<1>4. ASSUME Fires PROVE Goal
  <2>1. fire = 0 /\ tick' = TRUE /\ UNCHANGED <<clock, reader, left, blks>>
    BY <1>4 DEF Fires, envVars
  <2>2. ~Filling
    BY <1>0, <2>1 DEF Filling
  <2>3. CASE Leftover
    <3>1. Leftover'
      BY <2>1, <2>3 DEF Leftover
    <3> QED
      BY <2>3, <3>1
  <2>4. CASE Closing
    <3>1. Closing'
      BY <2>1, <2>4 DEF Closing
    <3>2. ~Leftover'
      BY <1>0, <2>1, <2>4 DEF Leftover, Closing
    <3> QED
      BY <3>1, <3>2
  <2> QED
    BY <1>1, <2>2, <2>3, <2>4
<1>5. ASSUME Second PROVE Goal
  <2>1. /\ clock' = clock + 1 /\ fire' = fire - 1 /\ fire # 0 /\ took <= Late
        /\ UNCHANGED <<reader, tick, blks>>
    BY <1>5 DEF Second, Busy, ReadInv
  <2>2. reader = "next" /\ left # 0 /\ left' = left - 1
    BY <1>0, <1>5, <2>1 DEF Second, Busy
  <2>3. ~Leftover /\ ~Leftover'
    BY <2>1, <2>2 DEF Leftover
  <2>4. CASE Filling
    <3>1. CASE clock + left = Newest + Wait
      BY <1>0, <2>1, <2>2, <2>3, <2>4, <3>1 DEF Filling
    <3>2. CASE clock = Newest + Wait /\ left = Wait
      BY <1>0, <2>1, <2>2, <2>3, <2>4, <3>2 DEF Filling, Closing
    <3> QED
      BY <2>2, <2>4, <3>1, <3>2 DEF Filling
  <2>5. CASE Closing
    <3>1. tick /\ clock + left = Newest + 2 * Wait /\ Newest + Wait < clock
      BY <2>1, <2>2, <2>5 DEF Closing
    <3>2. Closing'
      BY <1>0, <2>1, <2>2, <3>1 DEF Closing
    <3> QED
      BY <2>3, <3>2
  <2> QED
    BY <1>1, <2>3, <2>4, <2>5
<1>6. ASSUME UNCHANGED <<clock, reader, left, fire, tick, blks>> PROVE Goal
  BY <1>1, <1>6 DEF Leftover, Filling, Closing
<1>7. ASSUME Flush PROVE Goal
  BY <1>7 DEF Flush
<1> HIDE DEF Goal
<1>8. ASSUME NEW b \in Blocks, BlockArrives(b) PROVE Goal
  BY <1>6, <1>8 DEF BlockArrives
<1>9. ASSUME NEW e \in Heights, MessageArrives(e) \/ Caches(e) PROVE Goal
  BY <1>6, <1>9 DEF MessageArrives, Caches, envVars, readerVars
<1>10. ASSUME NEW x \in batches, Handles(x) PROVE Goal
  BY <1>6, <1>10 DEF Handles, envVars, readerVars
<1>11. ASSUME UNCHANGED notifyVars PROVE Goal
  BY <1>6, <1>11 DEF notifyVars
<1> QED
  BY <1>2, <1>3, <1>4, <1>5, <1>7, <1>8, <1>9, <1>10, <1>11 DEF CalmMoves

\* Unless the loop reads or hands over, the batch is what it was.
LEMMA BatchKept ==
  ASSUME TypeOK, SkewInv, CalmMoves, ~Reads, ~Flush,
         \A b \in Blocks : arrived[b] # Never => arrived'[b] = arrived[b]
  PROVE  /\ blks' = blks /\ height' = height /\ (blks # <<>> => Newest' = Newest)
         /\ MadeBy' \subseteq MadeBy
<1>1. blks' = blks /\ height' = height /\ MadeBy' \subseteq MadeBy
  BY DEF CalmMoves, BlockArrives, MessageArrives, GoesOn, TimesOut, Fires, Caches, Handles, Second,
     notifyVars, envVars, readerVars, MadeBy
<1>2. blks # <<>> => blks[Len(blks)] \in Blocks /\ arrived[blks[Len(blks)]] # Never
  BY Numbers DEF SkewInv
<1> QED
  BY <1>1, <1>2 DEF Newest

LEMMA BatchStep ==
  ASSUME TypeOK, RoundInv, SkewInv, Calm, CalmMoves, ReadInv, BatchInv, Wait >= 2,
         \A b \in Blocks : arrived[b] # Never => arrived'[b] = arrived[b]
  PROVE  BatchInv'
<1>1. CASE Reads
  <2>1. CASE blks' = <<>>
    BY <2>1 DEF BatchInv
  <2>2. CASE blks' # <<>>
    <3> DEFINE b == Head(sub)
    <3>1. /\ UNCHANGED <<clock, arrived, tick>> /\ b \in In(sub) /\ b \in Blocks
          /\ In(blks') = In(blks) \cup {b} /\ Newest' = clock /\ fire' = Wait + 1 /\ reader' = "top"
          /\ Head(blks') = IF blks = <<>> THEN b ELSE Head(blks)
          /\ blks # <<>> => Filling
      BY <1>1, <2>2, ReadMove
    <3>2. clock \in Nat /\ Wait \in Nat
      BY Numbers
    <3>3. \A c \in In(blks') : Height(c) = Height(Head(blks')) /\ arrived'[c] <= Newest'
      <4>1. \A c \in In(blks') : arrived'[c] <= Newest'
        BY <3>1, Numbers DEF SkewInv
      <4>2. blks # <<>> => Head(blks) \in In(blks) /\ Height(b) = Height(Head(blks))
        BY <3>1, Numbers, QueueOfEpoch
      <4>3. \A c \in In(blks') : Height(c) = Height(Head(blks'))
        BY <3>1, <4>2, InEmpty DEF BatchInv
      <4> QED
        BY <4>1, <4>3
    <3>4. CASE ~tick
      <4>1. Filling'
        BY <3>1, <3>2, <3>4 DEF Filling
      <4> QED
        BY <3>3, <4>1 DEF BatchInv
    <3>5. CASE tick
      <4>1. blks = <<>>
        BY <3>1, <3>5 DEF Filling
      <4>2. \A c, d \in In(blks') : c = d
        BY <3>1, <4>1, InEmpty
      <4>3. Leftover'
        BY <3>1, <3>5, <4>2 DEF Leftover
      <4> QED
        BY <3>3, <4>3 DEF BatchInv
    <3> QED
      BY <3>4, <3>5
  <2> QED
    BY <2>1, <2>2
<1>2. CASE Flush
  BY <1>2 DEF Flush, BatchInv
<1>3. CASE ~Reads /\ ~Flush /\ blks # <<>>
  <2>1. blks' = blks /\ Newest' = Newest
    BY <1>3, BatchKept
  <2>2. (Leftover \/ Filling \/ Closing)'
    BY <1>3, <2>1, PhaseStep
  <2>3. \A b \in In(blks) : arrived'[b] = arrived[b]
    BY Numbers DEF SkewInv
  <2> QED
    BY <1>3, <2>1, <2>2, <2>3 DEF BatchInv
<1>4. CASE ~Reads /\ ~Flush /\ blks = <<>>
  BY <1>4, BatchKept DEF BatchInv
<1> QED
  BY <1>1, <1>2, <1>3, <1>4

LEMMA ClockMoves ==
  ASSUME CalmMoves
  PROVE  /\ clock' \in {clock, clock + 1} /\ setup' = setup
         /\ heads \subseteq heads' /\ cached \subseteq cached'
  BY DEF CalmMoves, BlockArrives, MessageArrives, GoesOn, TimesOut, Reads, Flush, HandsOver, Fires,
     Caches, Handles, Second, envVars, readerVars, notifyVars

\* No block of an epoch comes when one of a later epoch has come, or a wait has passed.
Shut(d) ==
  \E c \in Blocks :
    arrived[c] # Never /\ (Height(c) > d \/ (Height(c) = d /\ arrived[c] + Wait < clock))

LEMMA ShutStays ==
  ASSUME TypeOK, SkewInv, CalmMoves, Spaced(arrived'), NEW d \in Heights, Shut(d)
  PROVE  Came(d)' = Came(d) /\ \A b \in Came(d) : arrived'[b] = arrived[b]
<1>1. ASSUME NEW b \in Blocks, BlockArrives(b)
      PROVE  Height(b) # d /\ \A c \in Blocks : c # b => arrived'[c] = arrived[c]
  <2>1. /\ arrived[b] = Never /\ arrived' = [arrived EXCEPT ![b] = clock]
        /\ arrived \in [Blocks -> {Never} \cup 0..LastSecond]
    BY <1>1, TypeParts DEF BlockArrives, EnvType
  <2>2. arrived'[b] = clock /\ \A c \in Blocks : c # b => arrived'[c] = arrived[c]
    BY <2>1
  <2>3. PICK c \in Blocks :
          arrived[c] # Never /\ (Height(c) > d \/ (Height(c) = d /\ arrived[c] + Wait < clock))
    BY DEF Shut
  <2>4. /\ arrived'[c] = arrived[c] /\ arrived[c] <= clock /\ arrived[c] \in Nat /\ clock \in Nat
        /\ Wait \in Nat /\ Height(c) \in Nat /\ Height(b) \in Nat
    BY <2>1, <2>2, <2>3, Numbers DEF SkewInv
  <2>5. arrived'[b] # Never /\ arrived'[c] # Never
    BY <2>2, <2>3, <2>4 DEF Never
  <2>6. /\ Height(b) = Height(c) => arrived'[b] - arrived'[c] <= Wait
        /\ Height(b) < Height(c) => arrived'[b] + 2 * Wait < arrived'[c]
    BY <2>5 DEF Spaced
  <2>7. ASSUME Height(b) = d PROVE FALSE
    <3>1. CASE Height(c) > d
      BY <2>2, <2>4, <2>6, <2>7, <3>1
    <3>2. CASE Height(c) = d /\ arrived[c] + Wait < clock
      BY <2>2, <2>4, <2>6, <2>7, <3>2
    <3> QED
      BY <2>3, <3>1, <3>2
  <2> QED
    BY <2>2, <2>7
<1>2. ASSUME NEW b \in Blocks, BlockArrives(b)
      PROVE  Came(d)' = Came(d) /\ \A c \in Came(d) : arrived'[c] = arrived[c]
  BY <1>1, <1>2 DEF Came
<1>3. ASSUME arrived' = arrived
      PROVE  Came(d)' = Came(d) /\ \A c \in Came(d) : arrived'[c] = arrived[c]
  BY <1>3 DEF Came
<1>4. (\E b \in Blocks : BlockArrives(b)) \/ arrived' = arrived
  BY DEF CalmMoves, MessageArrives, GoesOn, TimesOut, Reads, Flush, Fires, Caches, Handles, Second,
     envVars, notifyVars
<1> QED
  BY <1>2, <1>3, <1>4

\* Heads of one epoch alone are shut by a block of the next, heads of several blocks at once.
LEMMA ShutWhen ==
  ASSUME TypeOK, HandedInv, NEW d \in Heights, d < height \/ Multi(d)
  PROVE  Shut(d)
<1>1. CASE d < height
  <2>1. height > 0 /\ height \in Nat
    BY <1>1, Numbers DEF Heights
  <2>2. PICK c \in Blocks : Height(c) = height /\ arrived[c] # Never
    BY <2>1 DEF HandedInv, Came
  <2> QED
    BY <1>1, <2>1, <2>2 DEF Shut, Heights
<1>2. CASE Multi(d)
  <2>1. PICK c \in Came(d) : arrived[c] + 2 * Wait <= clock
    BY <1>2 DEF HandedInv
  <2>2. c \in Blocks /\ Height(c) = d /\ arrived[c] # Never
    BY DEF Came
  <2>3. arrived[c] + Wait < clock
    BY <2>1, <2>2, Numbers
  <2> QED
    BY <2>2, <2>3 DEF Shut
<1> QED
  BY <1>1, <1>2

\* A batch is handed over at once if the tick was left over, and else when it is complete.
LEMMA FlushMove ==
  ASSUME TypeOK, RoundInv, SkewInv, Calm, ReadInv, BatchInv, Flush, blks # <<>>
  PROVE  /\ UNCHANGED <<clock, arrived, told, cached, heads>>
         /\ blks' = <<>> /\ tick' = FALSE
         /\ height' = Height(Head(blks)) /\ height' \in Heights /\ height' > height
         /\ Head(blks) \in Came(height') /\ In(blks) \subseteq Came(height')
         /\ batches' = batches \cup {Full} /\ MadeBy' = MadeBy \cup {Full}
         /\ Full.height = height' /\ Full.blocks = In(blks)
         /\ up' = "up" => fire' = clock - Timestamp(height') + Wait
         /\ Leftover \/ (clock = Newest + 2 * Wait /\ Came(height') = In(blks))
<1>1. /\ UNCHANGED <<clock, arrived, told, cached, heads>> /\ blks' = <<>> /\ tick' = FALSE
      /\ height' = Height(Head(blks)) /\ batches' = batches \cup {Full}
      /\ tick /\ reader = "top"
      /\ (Interval > 0 /\ fire' = Interval) \/ up' = "panic"
  BY DEF Flush, HandsOver, Full
<1>2. Head(blks) \in In(blks) /\ Head(blks) \in Blocks
  BY Numbers
<1>3. height' \in Heights /\ height' > height
  BY <1>1, <1>2, BlockHeight DEF RoundInv
<1>4. \A b \in In(blks) : b \in Blocks /\ Height(b) = height' /\ arrived[b] # Never
  BY <1>1, Numbers DEF BatchInv, SkewInv
<1>5. In(blks) \subseteq Came(height')
  BY <1>1, <1>4 DEF Came
<1>6. MadeBy' = MadeBy \cup {Full} /\ Full.height = height' /\ Full.blocks = In(blks)
  BY <1>1 DEF MadeBy, Full, In
<1>7. up' = "up" => fire' = clock - Timestamp(height') + Wait
  BY <1>1 DEF Interval
<1>8. Leftover \/ Closing
  BY <1>1 DEF BatchInv, Filling
<1>9. ASSUME Closing PROVE clock = Newest + 2 * Wait /\ Came(height') = In(blks)
  <2>1. clock = Newest + 2 * Wait /\ Newest + Wait < clock
    BY <1>1, <1>9 DEF Closing
  <2>2. ASSUME NEW b \in Came(height') PROVE b \in In(blks)
    <3>1. b \in Blocks /\ Height(b) = height' /\ arrived[b] # Never
      BY <1>1 DEF Came
    <3>2. b \in In(blks) \cup In(sub)
      BY <1>3, <3>1 DEF ReadInv
    <3>3. ASSUME b \in In(sub) PROVE FALSE
      <4>1. clock <= Newest + Wait
        BY <1>2, <3>3, QueueOfEpoch
      <4>2. clock \in Nat /\ Newest \in Nat /\ Wait \in Nat
        BY BatchTimes, Numbers
      <4> QED
        BY <2>1, <4>1, <4>2
    <3> QED
      BY <3>2, <3>3
  <2> QED
    BY <1>5, <2>1, <2>2
<1> QED
  BY <1>1, <1>2, <1>3, <1>5, <1>6, <1>7, <1>8, <1>9

\* What is handed over in a step, if anything, and to whom it adds a batch of several.
LEMMA MultiBack ==
  ASSUME TypeOK, RoundInv, SkewInv, Calm, CalmMoves, ReadInv, BatchInv, HandedInv,
         \A b \in Blocks : arrived[b] # Never => arrived'[b] = arrived[b],
         NEW e, Multi(e)'
  PROVE  \/ Multi(e)
         \/ /\ Flush /\ blks # <<>> /\ e = height' /\ ~Leftover
<1>1. CASE Flush /\ blks # <<>>
  <2>1. PICK x \in MadeBy' : x.height = e /\ \E b, c \in x.blocks : b # c
    BY DEF Multi
  <2>2. MadeBy' = MadeBy \cup {Full} /\ Full.height = height' /\ Full.blocks = In(blks)
    BY <1>1, FlushMove
  <2>3. CASE x \in MadeBy
    BY <2>1, <2>3 DEF Multi
  <2>4. CASE x = Full
    BY <1>1, <2>1, <2>2, <2>4 DEF Leftover
  <2> QED
    BY <2>2, <2>3, <2>4
<1>2. CASE ~(Flush /\ blks # <<>>)
  <2>1. MadeBy' \subseteq MadeBy
    <3>1. CASE Reads
      BY <3>1 DEF Reads, MadeBy
    <3>2. CASE Flush
      BY <1>2, <3>2 DEF Flush, MadeBy
    <3>3. CASE ~Reads /\ ~Flush
      BY <3>3, BatchKept
    <3> QED
      BY <3>1, <3>2, <3>3
  <2> QED
    BY <2>1 DEF Multi
<1> QED
  BY <1>1, <1>2

LEMMA HeightKept ==
  ASSUME TypeOK, SkewInv, CalmMoves, ~(Flush /\ blks # <<>>),
         \A b \in Blocks : arrived[b] # Never => arrived'[b] = arrived[b]
  PROVE  height' = height /\ MadeBy' \subseteq MadeBy /\ batches' \subseteq batches
<1>1. CASE Reads
  BY <1>1 DEF Reads, MadeBy
<1>2. CASE Flush
  BY <1>2 DEF Flush, MadeBy
<1>3. CASE ~Reads /\ ~Flush
  <2>1. batches' \subseteq batches
    BY <1>3 DEF CalmMoves, BlockArrives, MessageArrives, GoesOn, TimesOut, Fires, Caches, Handles,
       Second, notifyVars, readerVars
  <2> QED
    BY <1>3, <2>1, BatchKept
<1> QED
  BY <1>1, <1>2, <1>3

LEMMA HandedStep ==
  ASSUME TypeOK, RoundInv, SkewInv, Calm, CalmMoves, ReadInv, BatchInv, HandedInv,
         Spaced(arrived'),
         \A b \in Blocks : arrived[b] # Never => arrived'[b] = arrived[b]
  PROVE  HandedInv'
<1>1. height' > 0 => Came(height)' # {}
  <2>1. CASE Flush /\ blks # <<>>
    BY <2>1, FlushMove DEF Came
  <2>2. CASE ~(Flush /\ blks # <<>>)
    <3>1. height' = height
      BY <2>2, HeightKept
    <3> QED
      BY <3>1 DEF HandedInv, Came
  <2> QED
    BY <2>1, <2>2
<1>2. ASSUME NEW e \in Heights
      PROVE  told'[e] # Lost /\ (told'[e] # Never /\ told'[e] < clock' => e \in cached')
  <2>0. told[e] # Lost /\ (told[e] # Never /\ told[e] < clock => e \in cached)
    BY DEF HandedInv
  <2>1. CASE Second
    <3>1. InMessageChan = {} /\ told' = told /\ cached' = cached
      BY <2>1 DEF Second, Busy
    <3> QED
      BY <2>0, <3>1 DEF InMessageChan
  <2>2. CASE told' = told /\ clock' = clock
    BY <2>0, <2>2, ClockMoves
  <2>3. ASSUME NEW d \in Heights, MessageArrives(d)
        PROVE  told'[e] # Lost /\ (told'[e] # Never /\ told'[e] < clock' => e \in cached')
    <3>1. told' = [told EXCEPT ![d] = clock] /\ clock' = clock /\ cached' = cached /\ clock \in Nat
      BY <2>3, Numbers DEF MessageArrives
    <3>2. told'[e] = IF d = e THEN clock ELSE told[e]
      <4>1. told \in [Heights -> {Never, Lost} \cup 0..LastSecond]
        BY TypeParts DEF EnvType
      <4> QED
        BY <3>1, <4>1
    <3>3. clock # Lost /\ ~(clock < clock)
      BY <3>1 DEF Lost
    <3> QED
      BY <2>0, <3>1, <3>2, <3>3
  <2>4. Second \/ (told' = told /\ clock' = clock) \/ \E d \in Heights : MessageArrives(d)
    BY DEF CalmMoves, BlockArrives, GoesOn, TimesOut, Reads, Flush, Fires, Caches, Handles,
       envVars, notifyVars
  <2> QED
    BY <2>1, <2>2, <2>3, <2>4
<1>3. \A x \in MadeBy' : x.height <= height'
  <2>1. CASE Flush /\ blks # <<>>
    <3>1. MadeBy' = MadeBy \cup {Full} /\ Full.height = height' /\ height' > height /\ height' \in Nat
          /\ height \in Nat
      BY <2>1, FlushMove, Numbers DEF Heights
    <3>2. \A x \in MadeBy : x.height \in Nat
      BY TypeParts DEF HeadType, MadeBy, Batch, Heights
    <3> QED
      BY <3>1, <3>2 DEF HandedInv
  <2>2. CASE ~(Flush /\ blks # <<>>)
    BY <2>2, HeightKept DEF HandedInv
  <2> QED
    BY <2>1, <2>2
<1>4. \A x \in batches' : clock' <= Timestamp(x.height) + EpochLen
  <2>1. CASE Flush /\ blks # <<>>
    <3>1. /\ batches' = batches \cup {Full} /\ clock' = clock /\ Full.height = height'
          /\ height' = Height(Head(blks))
      BY <2>1, FlushMove
    <3>2. PICK c \in In(blks) : arrived[c] = Newest
      BY <2>1, BatchTimes
    <3>3. c \in Blocks /\ arrived[c] # Never /\ Height(c) = height'
      BY <2>1, <3>1, Numbers DEF SkewInv, BatchInv
    <3>4. arrived[c] + 2 * Wait <= Timestamp(height') + EpochLen
      BY <3>3, CalmSpaced DEF Spaced
    <3>5. clock <= Newest + 2 * Wait
      BY <2>1, BatchTimes
    <3>6. clock <= Timestamp(height') + EpochLen
      BY <3>2, <3>3, <3>4, <3>5, Numbers
    <3> QED
      BY <3>1, <3>6 DEF HandedInv
  <2>2. CASE ~(Flush /\ blks # <<>>)
    <3>1. batches' \subseteq batches
      BY <2>2, HeightKept
    <3>2. clock' = clock \/ batches = {}
      BY DEF CalmMoves, BlockArrives, MessageArrives, GoesOn, TimesOut, Reads, Flush, Fires,
         Caches, Handles, Second, Busy, envVars, notifyVars
    <3> QED
      BY <3>1, <3>2 DEF HandedInv
  <2> QED
    BY <2>1, <2>2
<1>5. ASSUME NEW e \in Heights, Multi(e)'
      PROVE  Came(e)' # {} /\ \A b \in Came(e)' : arrived'[b] + 2 * Wait <= clock'
  <2>1. CASE Multi(e)
    <3>1. Came(e)' = Came(e) /\ \A b \in Came(e) : arrived'[b] = arrived[b]
      BY <2>1, ShutWhen, ShutStays
    <3>2. Came(e) # {} /\ \A b \in Came(e) : arrived[b] + 2 * Wait <= clock
      BY <2>1 DEF HandedInv
    <3>3. clock' \in {clock, clock + 1}
      BY ClockMoves
    <3>4. \A b \in Came(e) : arrived[b] \in Int
      BY Numbers DEF Came
    <3> QED
      BY <3>1, <3>2, <3>3, <3>4, Numbers
  <2>2. CASE Flush /\ blks # <<>> /\ e = height' /\ ~Leftover
    <3>1. /\ clock = Newest + 2 * Wait /\ Came(e) = In(blks) /\ UNCHANGED <<clock, arrived>>
          /\ Head(blks) \in Came(e)
      BY <2>2, FlushMove
    <3>2. \A b \in In(blks) : arrived[b] <= Newest /\ arrived[b] \in Int
      BY <2>2, Numbers DEF BatchInv
    <3>3. Newest \in Nat /\ Wait \in Nat
      BY <2>2, BatchTimes, Numbers
    <3>4. Came(e)' = Came(e)
      BY <3>1 DEF Came
    <3> QED
      BY <3>1, <3>2, <3>3, <3>4
  <2> QED
    BY <1>5, <2>1, <2>2, MultiBack
<1> QED
  BY <1>1, <1>2, <1>3, <1>4, <1>5 DEF HandedInv

\* While nothing is collected the ticker fires when Flush has set it to.
LEMMA TickMove ==
  ASSUME TypeOK, RoundInv, SkewInv, Calm, CalmMoves, ReadInv, BatchInv,
         blks = <<>>, blks' = <<>>, NEW n \in Int,
         clock < n => ~tick /\ clock + fire = n
  PROVE  clock' < n => ~tick' /\ clock' + fire' = n
<1> DEFINE Goal == clock' < n => ~tick' /\ clock' + fire' = n
<1> SUFFICES Goal
  OBVIOUS
<1>0. clock \in Nat /\ fire \in Nat
  BY Numbers
<1>1. ASSUME UNCHANGED <<clock, tick, fire>> PROVE Goal
  BY <1>1
<1>2. ASSUME Flush PROVE Goal
  BY <1>2 DEF Flush
<1>3. ASSUME Fires PROVE Goal
  BY <1>0, <1>3 DEF Fires, envVars
<1>4. ASSUME Second PROVE Goal
  <2>1. clock' = clock + 1 /\ fire' = fire - 1 /\ tick' = tick
    BY <1>4 DEF Second
  <2> QED
    BY <1>0, <2>1
<1>5. ASSUME Reads PROVE Goal
  <2>1. UNCHANGED <<clock, tick, fire>>
    BY <1>5, ReadMove
  <2> QED
    BY <1>1, <2>1
<1> HIDE DEF Goal
<1>6. ASSUME NEW b \in Blocks, BlockArrives(b) PROVE Goal
  BY <1>1, <1>6 DEF BlockArrives
<1>7. ASSUME NEW e \in Heights, MessageArrives(e) \/ Caches(e) PROVE Goal
  BY <1>1, <1>7 DEF MessageArrives, Caches, envVars, readerVars
<1>8. ASSUME NEW x \in batches, Handles(x) PROVE Goal
  BY <1>1, <1>8 DEF Handles, envVars, readerVars
<1>9. ASSUME GoesOn \/ TimesOut \/ UNCHANGED notifyVars PROVE Goal
  BY <1>1, <1>9 DEF GoesOn, TimesOut, envVars, notifyVars
<1> QED
  BY <1>2, <1>3, <1>4, <1>5, <1>6, <1>7, <1>8, <1>9 DEF CalmMoves

LEMMA MultiHeight ==
  ASSUME TypeOK, HandedInv, NEW e, Multi(e)
  PROVE  e \in Heights /\ e <= height
  BY TypeParts DEF Multi, HandedInv, MadeBy, HeadType, Batch

\* Blocks that come in time for the tick do so whatever else comes in.
LEMMA BeforeTickBack ==
  ASSUME TypeOK, SkewInv, CalmMoves, HandedInv, Spaced(arrived'),
         \A b \in Blocks : arrived[b] # Never => arrived'[b] = arrived[b],
         NEW d \in Heights, Multi(d), NEW e, d = e - 1, BeforeTick(e)'
  PROVE  BeforeTick(e)
<1>1. Came(d)' = Came(d) /\ \A b \in Came(d) : arrived'[b] = arrived[b]
  BY ShutWhen, ShutStays
<1>2. \A b \in Came(d) : Delay(b)' = Delay(b)
  BY <1>1 DEF Delay
<1>3. \A c \in Came(e) : c \in Came(e)' /\ Delay(c)' = Delay(c)
  BY DEF Came, Delay
<1>4. ASSUME NEW c \in Came(e)
      PROVE  \E b \in Came(d) : EpochLen + Delay(c) < 5 * Wait + 2 * Delay(b)
  <2>1. \E b \in Came(d)' : EpochLen + Delay(c)' < 5 * Wait + 2 * Delay(b)'
    BY <1>3 DEF BeforeTick
  <2> QED
    BY <1>1, <1>2, <1>3, <2>1
<1> QED
  BY <1>4 DEF BeforeTick

LEMMA TickStep ==
  ASSUME TypeOK, RoundInv, SkewInv, Calm, CalmMoves, ReadInv, BatchInv, HandedInv, TickInv,
         Wait >= 2, up' = "up", Spaced(arrived'),
         \A b \in Blocks : arrived[b] # Never => arrived'[b] = arrived[b]
  PROVE  TickInv'
<1> SUFFICES ASSUME Multi(height)'
             PROVE  /\ blks' = <<>> =>
                         \E b \in Came(height)' :
                           /\ \A c \in Came(height)' : arrived'[c] <= arrived'[b]
                           /\ clock' < FiresAt(b)' => ~tick' /\ clock' + fire' = FiresAt(b)'
                    /\ blks' # <<>> /\ Height(Head(blks')) = height' + 1 /\ Leftover'
                         => ~BeforeTick(height + 1)'
  BY DEF TickInv
<1> PICK e : e = height'
  OBVIOUS
<1>0. Multi(e)' /\ Came(height)' = Came(e)'
  OBVIOUS
<1>1. CASE Flush /\ blks # <<>>
  <2>1. /\ UNCHANGED <<clock, arrived>> /\ blks' = <<>> /\ ~tick' /\ e \in Heights /\ e > height
        /\ fire' = clock - Timestamp(e) + Wait
        /\ Leftover \/ (clock = Newest + 2 * Wait /\ Came(e) = In(blks))
    BY <1>1, FlushMove
  <2>2. ~Multi(e)
    <3>1. e \in Nat /\ height \in Nat
      BY <2>1, Numbers DEF Heights
    <3> QED
      BY <2>1, <3>1, MultiHeight
  <2>3. clock = Newest + 2 * Wait /\ Came(e) = In(blks)
    BY <1>0, <2>1, <2>2, MultiBack
  <2>4. PICK b \in In(blks) : arrived[b] = Newest
    BY <1>1, BatchTimes
  <2>5. b \in Came(e)' /\ \A c \in Came(e)' : arrived'[c] <= arrived'[b]
    BY <1>1, <2>1, <2>3, <2>4 DEF BatchInv, Came
  <2>6. Height(b) = e /\ b \in Blocks
    BY <2>3, <2>4 DEF Came
  <2>7. clock' + fire' = FiresAt(b)'
    <3>1. clock \in Nat /\ Wait \in Nat /\ Timestamp(e) \in Nat /\ Newest \in Nat
      BY <1>1, <2>6, BatchTimes, Numbers
    <3>2. FiresAt(b)' = Newest + (Newest - Timestamp(e)) + 5 * Wait
      BY <2>1, <2>4, <2>6 DEF FiresAt, Delay
    <3> QED
      BY <2>1, <2>3, <3>1, <3>2
  <2> QED
    BY <1>0, <2>1, <2>5, <2>7
<1>2. CASE ~(Flush /\ blks # <<>>)
  <2>1. height' = height /\ e = height
    BY <1>2, HeightKept
  <2>2. Multi(e) /\ e \in Heights
    BY <1>0, <1>2, MultiBack, MultiHeight
  <2>3. Came(e)' = Came(e) /\ \A b \in Came(e) : arrived'[b] = arrived[b]
    BY <2>2, ShutWhen, ShutStays
  <2>4. ASSUME blks = <<>>
        PROVE  \E b \in Came(e) : /\ \A c \in Came(e) : arrived[c] <= arrived[b]
                                  /\ clock < FiresAt(b) => ~tick /\ clock + fire = FiresAt(b)
    BY <2>1, <2>2, <2>4 DEF TickInv
  <2>5. ASSUME blks' = <<>>
        PROVE  \E b \in Came(height)' :
                 /\ \A c \in Came(height)' : arrived'[c] <= arrived'[b]
                 /\ clock' < FiresAt(b)' => ~tick' /\ clock' + fire' = FiresAt(b)'
    <3>1. blks = <<>>
      <4>1. CASE Reads
        BY <2>5, <4>1, ReadMove
      <4>2. CASE Flush
        BY <1>2, <4>2
      <4>3. CASE ~Reads /\ ~Flush
        BY <2>5, <4>3, BatchKept
      <4> QED
        BY <4>1, <4>2, <4>3
    <3>2. PICK b \in Came(e) :
            /\ \A c \in Came(e) : arrived[c] <= arrived[b]
            /\ clock < FiresAt(b) => ~tick /\ clock + fire = FiresAt(b)
      BY <2>4, <3>1
    <3>3. FiresAt(b) \in Int
      BY Numbers DEF FiresAt, Delay, Came
    <3>4. clock' < FiresAt(b) => ~tick' /\ clock' + fire' = FiresAt(b)
      BY <2>5, <3>1, <3>2, <3>3, TickMove
    <3>5. FiresAt(b)' = FiresAt(b)
      BY <2>3 DEF FiresAt, Delay
    <3> QED
      BY <1>0, <2>3, <3>2, <3>4, <3>5
  <2>6. ASSUME blks' # <<>>, Height(Head(blks')) = height' + 1, Leftover', BeforeTick(height + 1)'
        PROVE  FALSE
    <3> PICK g : g = e + 1
      OBVIOUS
    <3>1. g = height' + 1 /\ e = g - 1 /\ BeforeTick(g)'
      BY <2>1, <2>2, <2>6 DEF Heights
    <3>2. BeforeTick(g)
      BY <2>2, <3>1, BeforeTickBack
    <3>3. CASE Reads
      <4> DEFINE b == Head(sub)
      <4>1. /\ UNCHANGED <<clock, arrived, tick>> /\ b \in In(sub) /\ b \in Blocks
            /\ Head(blks') = IF blks = <<>> THEN b ELSE Head(blks)
            /\ blks # <<>> => Filling
        <5> HIDE DEF b
        <5> QED
          BY <2>6, <3>3, ReadMove DEF b
      <4>2. tick
        BY <2>6, <4>1 DEF Leftover
      <4>3. blks = <<>> /\ Height(b) = g
        BY <2>6, <3>1, <4>1, <4>2 DEF Filling
      <4>4. arrived[b] = clock /\ arrived[b] # Never /\ b \in Came(g)
        BY <4>1, <4>3 DEF ReadInv, SkewInv, Came
      <4>5. PICK a \in Came(e) : EpochLen + Delay(b) < 5 * Wait + 2 * Delay(a)
        BY <3>1, <3>2, <4>4 DEF BeforeTick
      <4>6. PICK c \in Came(e) :
              /\ arrived[a] <= arrived[c]
              /\ clock < FiresAt(c) => ~tick /\ clock + fire = FiresAt(c)
        BY <2>4, <4>3
      <4>7. /\ Delay(a) = arrived[a] - Timestamp(e) /\ Delay(c) = arrived[c] - Timestamp(e)
            /\ Delay(b) = clock - Timestamp(g)
            /\ FiresAt(c) = arrived[c] + (arrived[c] - Timestamp(e)) + 5 * Wait
        BY <4>3, <4>4 DEF Delay, Came, FiresAt
      <4>8. Timestamp(g) = Timestamp(e) + EpochLen /\ Timestamp(e) \in Nat
        <5>1. g \in Heights
          BY <4>1, <4>3, BlockHeight
        <5> QED
          BY <2>2, <5>1, EpochsApart
      <4>9. arrived[a] \in Int /\ arrived[c] \in Int /\ clock \in Int /\ EpochLen \in Int /\ Wait \in Int
        BY Numbers DEF Came
      <4>10. clock < FiresAt(c)
        BY <4>5, <4>6, <4>7, <4>8, <4>9
      <4> QED
        BY <4>2, <4>6, <4>10
    <3>4. CASE ~Reads
      <4>1. ~Flush
        BY <1>2, <2>6 DEF Flush
      <4>2. blks' = blks /\ blks # <<>> /\ Newest' = Newest
        BY <2>6, <3>4, <4>1, BatchKept
      <4>3. Leftover
        BY <2>6, <3>4, <4>2, PhaseStep
      <4> QED
        BY <2>1, <2>2, <2>6, <3>1, <3>2, <4>2, <4>3 DEF TickInv
    <3> QED
      BY <3>3, <3>4
  <2> QED
    BY <2>5, <2>6
<1> QED
  BY <1>1, <1>2

LEMMA EpochBefore ==
  ASSUME NEW e \in Heights \ {1}
  PROVE  e - 1 \in Heights /\ e \in Nat /\ e - 1 < e
  BY NotifyAssumption DEF Heights

\* The batch of an epoch, and later the head that is made of it.
LEMMA PassedStep ==
  ASSUME TypeOK, RoundInv, SkewInv, Calm, CalmMoves, NEW e \in Heights, Passed(e),
         Came(e)' = Came(e), TipSet(Came(e))', boot' = 1
  PROVE  Passed(e)'
<1>1. PICK x \in MadeBy : x.height = e /\ x.blocks = Came(e) /\ (x \in heads \/ e \in cached)
  BY DEF Passed
<1>2. heads \subseteq heads' /\ cached \subseteq cached' /\ setup' = setup
  BY ClockMoves
<1>3. CASE x \in heads
  BY <1>1, <1>2, <1>3 DEF Passed, MadeBy
<1>4. CASE x \in batches /\ x \in batches'
  BY <1>1, <1>2, <1>4 DEF Passed, MadeBy
<1>5. CASE x \in batches /\ x \notin batches' /\ x \notin heads
  <2>1. Handles(x)
    BY <1>5 DEF CalmMoves, BlockArrives, MessageArrives, GoesOn, TimesOut, Reads, Flush, HandsOver,
       Fires, Caches, Handles, Second, readerVars, notifyVars
  <2>2. TipSet(x.blocks)
    BY <1>1, <1>2 DEF TipSet, Forked
  <2>3. \A b \in x.blocks : Height(b) \in cached
    BY <1>1, <1>5 DEF Came
  <2>4. x \in heads'
    BY <2>1, <2>2, <2>3 DEF Handles
  <2> QED
    BY <1>1, <2>4 DEF Passed, MadeBy
<1> QED
  BY <1>1, <1>3, <1>4, <1>5 DEF MadeBy

LEMMA ToldBack ==
  ASSUME TypeOK, CalmMoves, NEW e \in Heights, Came(e) # {}, Came(e)' = Came(e),
         \A b \in Came(e) : arrived'[b] = arrived[b] /\ arrived[b] + Wait < clock, Told(e)'
  PROVE  Told(e)
<1>1. ASSUME NEW d \in Heights, MessageArrives(d) PROVE told'[e] = told[e]
  <2>1. /\ told' = [told EXCEPT ![d] = clock] /\ told \in [Heights -> {Never, Lost} \cup 0..LastSecond]
    BY <1>1, TypeParts DEF MessageArrives, EnvType
  <2>2. ASSUME d = e PROVE FALSE
    <3>1. told'[e] = clock
      BY <2>1, <2>2
    <3>2. PICK b \in Came(e) : clock <= arrived[b] /\ arrived[b] + Wait < clock
      BY <3>1 DEF Told
    <3>3. arrived[b] \in Int /\ clock \in Int /\ Wait \in Nat
      BY Numbers DEF Came
    <3> QED
      BY <3>2, <3>3
  <2> QED
    BY <2>1, <2>2
<1>2. (\E d \in Heights : MessageArrives(d)) \/ told' = told
  BY DEF CalmMoves, BlockArrives, GoesOn, TimesOut, Reads, Flush, Fires, Caches, Handles, Second,
     envVars, notifyVars
<1>3. told'[e] = told[e]
  BY <1>1, <1>2
<1> QED
  BY <1>3 DEF Told

LEMMA StepStep ==
  ASSUME TypeOK, RoundInv, SkewInv, Calm, CalmMoves, ReadInv, BatchInv, HandedInv, TickInv,
         StepInv, Calm', Spaced(arrived'),
         \A b \in Blocks : arrived[b] # Never => arrived'[b] = arrived[b]
  PROVE  StepInv'
<1> SUFFICES ASSUME NEW e \in Heights \ {1}, Multi(e - 1)', height' >= e, BeforeTick(e)'
             PROVE  /\ \A b \in Came(e)' : arrived'[b] + Wait < clock'
                    /\ Came(e)' # {} /\ TipSet(Came(e))' /\ Told(e)' => Passed(e)'
  BY DEF StepInv
<1> PICK d : d = e - 1
  OBVIOUS
<1>0. d \in Heights /\ d < e /\ e \in Heights /\ e \in Nat /\ d \in Nat /\ height \in Nat /\ clock \in Nat
      /\ Wait \in Nat /\ boot' = 1
  BY EpochBefore, Numbers DEF Heights, Calm
<1>1. Multi(d)
  <2>1. Multi(d)'
    OBVIOUS
  <2>2. d # height'
    BY <1>0
  <2> QED
    BY <2>1, <2>2, MultiBack
<1>2. BeforeTick(e)
  BY <1>0, <1>1, BeforeTickBack
<1>3. CASE height >= e
  <2>1. /\ \A b \in Came(e) : arrived[b] + Wait < clock
        /\ Came(e) # {} /\ TipSet(Came(e)) /\ Told(e) => Passed(e)
    BY <1>1, <1>2, <1>3 DEF StepInv
  <2>2. Shut(e)
    <3>1. CASE e < height
      BY <1>0, <3>1, ShutWhen
    <3>2. CASE e = height
      <4>1. PICK b \in Came(e) : arrived[b] + Wait < clock
        BY <1>0, <2>1, <3>2 DEF HandedInv
      <4> QED
        BY <4>1 DEF Shut, Came
    <3> QED
      BY <1>0, <1>3, <3>1, <3>2
  <2>3. Came(e)' = Came(e) /\ \A b \in Came(e) : arrived'[b] = arrived[b]
    BY <1>0, <2>2, ShutStays
  <2>4. \A b \in Came(e)' : arrived'[b] + Wait < clock'
    <3>1. clock' \in {clock, clock + 1} /\ \A b \in Came(e) : arrived[b] \in Int
      BY ClockMoves, Numbers DEF Came
    <3> QED
      BY <1>0, <2>1, <2>3, <3>1
  <2>5. ASSUME Came(e)' # {}, TipSet(Came(e))', Told(e)' PROVE Passed(e)'
    <3>1. TipSet(Came(e))
      BY <2>3, <2>5, ClockMoves DEF TipSet, Forked
    <3>2. Told(e)
      BY <1>0, <2>1, <2>3, <2>5, ToldBack
    <3>3. Passed(e)
      BY <2>1, <2>3, <2>5, <3>1, <3>2
    <3> QED
      BY <1>0, <2>3, <2>5, <3>3, PassedStep
  <2> QED
    BY <2>4, <2>5
<1>4. CASE height < e
  <2>1. Flush /\ blks # <<>>
    BY <1>0, <1>4, HeightKept
  <2>2. height = d
    <3>1. d <= height
      BY <1>1, MultiHeight
    <3> QED
      BY <1>0, <1>4, <3>1
  <2>3. /\ UNCHANGED <<clock, arrived, told, cached>> /\ height' \in Heights
        /\ height' = Height(Head(blks)) /\ In(blks) \subseteq Came(height')
        /\ MadeBy' = MadeBy \cup {Full} /\ Full.height = height' /\ Full.blocks = In(blks)
        /\ Leftover \/ (clock = Newest + 2 * Wait /\ Came(height') = In(blks))
    BY <2>1, FlushMove
  <2>4. Came(e)' = Came(e)
    BY <2>3 DEF Came
  <2>5. CASE height' > e
    <3>1. ASSUME NEW b \in Came(e) PROVE FALSE
      <4>1. b \in Blocks /\ Height(b) = e /\ arrived[b] # Never
        BY DEF Came
      <4>2. b \in In(blks) \cup In(sub)
        BY <1>0, <1>4, <4>1 DEF ReadInv
      <4>3. \A c \in In(blks) : Height(c) = height'
        BY <2>3 DEF Came
      <4>4. Head(blks) \in In(blks)
        BY <2>1, Numbers
      <4>5. b \in In(sub) => Height(b) = height'
        BY <2>1, <2>3, <4>4, QueueOfEpoch
      <4> QED
        BY <1>0, <2>5, <4>1, <4>2, <4>3, <4>5
    <3> QED
      BY <2>4, <3>1
  <2>6. CASE height' = e
    <3>1. ~Leftover
      <4>1. Height(Head(blks)) = height + 1 /\ e = height + 1
        BY <1>0, <2>2, <2>3, <2>6
      <4>2. Multi(height) /\ BeforeTick(height + 1)
        BY <1>1, <1>2, <2>2, <4>1
      <4> QED
        BY <2>1, <4>1, <4>2 DEF TickInv
    <3>2. clock = Newest + 2 * Wait /\ Came(e) = In(blks)
      BY <2>3, <2>6, <3>1
    <3>3. Newest \in Nat /\ \A b \in In(blks) : arrived[b] <= Newest /\ arrived[b] \in Nat
      BY <2>1, BatchTimes, Numbers DEF BatchInv, SkewInv
    <3>4. Wait >= 1
      BY Numbers
    <3>5. \A b \in Came(e) : arrived[b] + Wait < clock
      BY <1>0, <3>2, <3>3, <3>4
    <3>6. ASSUME Came(e)' # {}, Told(e)' PROVE Passed(e)'
      <4>1. PICK b \in Came(e) : told[e] <= arrived[b]
        BY <2>3, <2>4, <3>6 DEF Told
      <4>2. told[e] < clock
        <5>1. arrived[b] \in Nat /\ arrived[b] + Wait < clock
          BY <3>2, <3>3, <3>5
        <5>2. told[e] \in Int
          <6>1. told[e] \in {Never, Lost} \cup 0..LastSecond
            BY <1>0, TypeParts DEF EnvType
          <6> QED
            BY <6>1 DEF Never, Lost
        <5> QED
          BY <1>0, <4>1, <5>1, <5>2
      <4>3. told[e] # Never
        BY <2>3, <3>6 DEF Told
      <4>4. e \in cached
        BY <1>0, <4>2, <4>3 DEF HandedInv
      <4>5. Full \in MadeBy' /\ Full.height = e /\ Full.blocks = Came(e)'
        BY <2>3, <2>4, <2>6, <3>2
      <4> QED
        BY <2>3, <4>4, <4>5 DEF Passed
    <3> QED
      BY <2>3, <2>4, <3>5, <3>6
  <2> QED
    BY <1>0, <2>3, <2>5, <2>6 DEF Heights
<1> QED
  BY <1>0, <1>3, <1>4

CalmInv == ReadInv /\ BatchInv /\ HandedInv /\ TickInv /\ StepInv

LEMMA CalmInit == Init => CalmInv
<1> SUFFICES ASSUME Init PROVE CalmInv
  OBVIOUS
<1>1. /\ took = 0 /\ sub = <<>> /\ blks = <<>> /\ height = 0 /\ MadeBy = {} /\ batches = {}
      /\ \A b \in Blocks : arrived[b] = Never
      /\ \A e \in Heights : told[e] = Never
  BY DEF Init, NotifyInit, MadeBy
<1>2. \A e : ~Multi(e)
  BY <1>1 DEF Multi
<1>3. ReadInv
  <2>1. 0 <= Late
    BY NotifyAssumption
  <2> QED
    BY <1>1, <2>1, InEmpty DEF ReadInv
<1>4. HandedInv
  BY <1>1, <1>2 DEF HandedInv, Never, Lost
<1> QED
  BY <1>1, <1>2, <1>3, <1>4 DEF CalmInv, BatchInv, TickInv, StepInv

LEMMA CalmStep ==
  ASSUME Wait >= 2, EpochLen <= Late + 2 * Wait,
         TypeOK, RoundInv, SkewInv, BootInv, Calm => CalmInv, [Next]_vars
  PROVE  Calm' => CalmInv'
<1> SUFFICES ASSUME Calm' PROVE CalmInv'
  OBVIOUS
<1>1. Calm /\ CalmMoves
  BY CalmMove
<1>2. ReadInv /\ BatchInv /\ HandedInv /\ TickInv /\ StepInv
  BY <1>1 DEF CalmInv
<1>3. Spaced(arrived')
  BY TypeStep, CalmSpacedNext
<1>4. \A b \in Blocks : arrived[b] # Never => arrived'[b] = arrived[b]
  BY QueueArrived
<1>5. ReadInv' /\ BatchInv'
  BY <1>1, <1>2, <1>4, ReadStep, BatchStep
<1>6. HandedInv'
  BY <1>1, <1>2, <1>3, <1>4, HandedStep
<1>7. TickInv'
  <2>1. up' = "up"
    BY DEF Calm
  <2> QED
    BY <1>1, <1>2, <1>3, <1>4, <2>1, TickStep
<1>8. StepInv'
  BY <1>1, <1>2, <1>3, <1>4, StepStep
<1> QED
  BY <1>5, <1>6, <1>7, <1>8 DEF CalmInv

LEMMA SeveralDiffer ==
  ASSUME NEW S, Cardinality(S) > 1
  PROVE  \E b, c \in S : b # c
<1> SUFFICES ASSUME \A b, c \in S : b = c PROVE FALSE
  OBVIOUS
<1>1. CASE S = {}
  <2>1. Cardinality(S) = 0
    BY <1>1, FS_EmptySet
  <2> QED
    BY <2>1
<1>2. ASSUME NEW b \in S PROVE FALSE
  <2>1. S = {b}
    BY <1>2
  <2>2. Cardinality(S) = 1
    BY <2>1, FS_Singleton
  <2> QED
    BY <2>2
<1> QED
  BY <1>1, <1>2

LEMMA InStep ==
  ASSUME TypeOK, SkewInv, Calm => CalmInv
  PROVE  StaysInStep
<1> SUFFICES ASSUME NEW e \in Heights \ {1}, boot = 1, up = "up",
                    clock > Timestamp(e) + EpochLen,
                    Cardinality(Came(e - 1)) > 1, Whole(e - 1),
                    Came(e) # {}, TipSet(Came(e)),
                    \A d \in Heights : Timely(d), BeforeTick(e),
                    told[e] # Never, \A b \in Came(e) : told[e] <= arrived[b]
             PROVE  Whole(e)
  BY DEF StaysInStep
<1>1. Calm /\ ReadInv /\ BatchInv /\ HandedInv /\ StepInv
  BY DEF Calm, CalmInv
<1>2. Multi(e - 1)
  BY SeveralDiffer DEF Whole, Multi, MadeBy
<1>3. height \in Nat /\ e \in Nat /\ e \in Heights /\ clock \in Nat /\ Timestamp(e) \in Nat
      /\ EpochLen \in Nat /\ Wait \in Nat
  BY Numbers, EpochBefore, EpochsApart
<1>4. height >= e
  <2> SUFFICES ASSUME height < e PROVE FALSE
    BY <1>3
  <2>1. PICK b \in Blocks : Height(b) = e /\ arrived[b] # Never
    BY DEF Came
  <2>2. arrived[b] + 2 * Wait <= Timestamp(e) + EpochLen /\ arrived[b] \in Nat
    BY <1>1, <2>1, CalmSpaced, Numbers DEF Spaced
  <2>3. CASE b \in In(sub)
    BY <1>1, <1>3, <2>2, <2>3 DEF ReadInv
  <2>4. CASE b \in In(blks)
    <3>1. blks # <<>>
      BY <2>4, InEmpty
    <3>2. PICK c \in In(blks) : arrived[c] = Newest
      BY <1>1, <3>1, BatchTimes
    <3>3. c \in Blocks /\ Height(c) = e /\ arrived[c] # Never
      BY <1>1, <2>1, <2>4, <3>1, Numbers DEF BatchInv, SkewInv
    <3>4. arrived[c] + 2 * Wait <= Timestamp(e) + EpochLen /\ arrived[c] \in Nat
      BY <1>1, <3>3, CalmSpaced, Numbers DEF Spaced
    <3>5. clock <= Newest + 2 * Wait
      BY <1>1, <3>1, BatchTimes
    <3> QED
      BY <1>3, <3>2, <3>4, <3>5
  <2> QED
    BY <1>1, <1>3, <2>1, <2>3, <2>4 DEF ReadInv
<1>5. Passed(e)
  BY <1>1, <1>2, <1>4 DEF StepInv, Told
<1>6. PICK x \in MadeBy : x.height = e /\ x.blocks = Came(e)
  BY <1>5 DEF Passed
<1>7. x \notin batches
  <2>1. x \in batches => clock <= Timestamp(e) + EpochLen
    BY <1>1, <1>6 DEF HandedInv
  <2> QED
    BY <1>3, <2>1
<1> QED
  BY <1>6, <1>7 DEF Whole, MadeBy

\* For any number of epochs and blocks: once a head has several blocks of its epoch, and
\* all of them, so has the next, as long as the blocks come in time.  It holds where a
\* wait is two seconds or more, and where the blocks that come in time are not late by
\* the measure of subscribeBlock (8 seconds, and 30 <= 16 + 2 * 8).
THEOREM LoopStaysInStep ==
  ASSUME Wait >= 2, EpochLen <= Late + 2 * Wait
  PROVE  Spec => []StaysInStep
<1> DEFINE Inv == TypeOK /\ RoundInv /\ SkewInv /\ BootInv /\ (Calm => CalmInv)
<1>1. Init => Inv
  BY TypeInit, RoundInit, SkewInit, BootInit, CalmInit
<1>2. Inv /\ [Next]_vars => Inv'
  BY TypeStep, RoundStep, SkewStep, BootStep, CalmStep
<1>3. Inv => StaysInStep
  BY InStep
<1> HIDE DEF Inv
<1> QED
  BY <1>1, <1>2, <1>3, PTL DEF Spec
===============================================================================
