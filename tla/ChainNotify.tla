------------------------------ MODULE ChainNotify ------------------------------
(***************************************************************************)
(* How chain/notify.go makes heads of the blocks and messages of gossip.   *)
(*                                                                         *)
(* subscribeBlock reads blocks until a ticker fires, which every block it  *)
(* takes sets anew, and hands over what it has collected.  It looks at the *)
(* ticker only between two reads, and a read waits for up to Wait seconds. *)
(* A block that comes more than Late seconds after its timestamp makes it  *)
(* read no further until the ticker fires.  SubscribeHeader turns a batch  *)
(* into a head if it has all of its messages, and if the blocks are of one *)
(* height and have the same parents.                                       *)
(*                                                                         *)
(* Time is counted in seconds, and passes only when the goroutines of the  *)
(* process have nothing left to do: what they do takes no time.            *)
(***************************************************************************)
EXTENDS Integers, Sequences, FiniteSets

CONSTANTS
  Epochs,     \* bound: epochs
  Width,      \* blocks of an epoch
  EpochLen,   \* BlockDelaySecs (30)
  Wait,       \* waitTime (8)
  Late,       \* took is compared with it (16)
  Word,       \* 2^64 in the code: unsigned differences wrap
  Genesis,    \* the timestamp of the first epoch
  Setups      \* sets of delays of blocks and of messages, blocks of another fork,
              \* and how often the process may crash

ASSUME NotifyAssumption ==
  /\ {Epochs, Width, EpochLen, Wait, Late, Genesis} \subseteq Nat \ {0}
  /\ Word \in Nat /\ Word > 2 * EpochLen * (Epochs + 1)

Heights == 1..Epochs
Blocks == Heights \X (1..Width)
Height(b) == b[1]
Timestamp(e) == Genesis + (e - 1) * EpochLen
LastSecond == Timestamp(Epochs) + EpochLen + 3
Never == -1
Lost == -2    \* it came in before the process was started anew

VARIABLES
  setup,    \* the member of Setups of this behaviour
  clock,    \* the time of this host
  arrived,  \* when each block came in
  told,     \* when the message that all blocks of an epoch hold came in
  up,       \* "up", "down", or "panic"
  boot,     \* starts of the process so far
  sub,      \* the subscription's queue of blocks
  reader,   \* "top" of the loop of subscribeBlock, or in "next"
  left,     \* seconds until that call of sub.Next gives up
  fire,     \* seconds until the ticker fires,
  period,   \* and from then on
  tick,     \* the ticker's channel holds a tick
  height, blks, took,   \* as in subscribeBlock
  cached,   \* the epochs whose message is in the Cache
  batches,  \* BlockChan, and the goroutines SubscribeHeader has started for it
  heads     \* all heads so far

readerVars == <<sub, reader, left, fire, period, tick, height, blks, took>>
envVars == <<setup, clock, arrived, told, up, boot>>

Batch == [height : Heights, blocks : SUBSET Blocks, boot : Nat]
NotifyTypeOK ==
  /\ clock \in 0..LastSecond
  /\ arrived \in [Blocks -> {Never} \cup 0..LastSecond]
  /\ told \in [Heights -> {Never, Lost} \cup 0..LastSecond]
  /\ up \in {"up", "down", "panic"} /\ boot \in Nat
  /\ sub \in Seq(Blocks) /\ reader \in {"top", "next"}
  /\ left \in 0..Wait /\ fire \in Nat /\ period \in Nat \ {0} /\ tick \in BOOLEAN
  /\ height \in {0} \cup Heights /\ blks \in Seq(Blocks) /\ took \in 0..(Word - 1)
  /\ cached \subseteq Heights
  /\ batches \subseteq Batch /\ heads \subseteq Batch

NotifyInit ==
  /\ setup \in Setups /\ clock = 0
  /\ arrived = [b \in Blocks |-> Never] /\ told = [e \in Heights |-> Never]
  /\ up = "up" /\ boot = 1 /\ heads = {}
  /\ sub = <<>> /\ reader = "top" /\ left = 0
  /\ fire = Wait + 1 /\ period = Wait + 1 /\ tick = FALSE
  /\ height = 0 /\ blks = <<>> /\ took = 0
  /\ cached = {} /\ batches = {}

-------------------------------------------------------------------------------
(* Gossip.                                                                 *)
BlockArrives(b) ==
  /\ up = "up" /\ arrived[b] = Never
  /\ clock - Timestamp(Height(b)) \in setup.delays
  /\ arrived' = [arrived EXCEPT ![b] = clock]
  /\ sub' = Append(sub, b)
  /\ UNCHANGED <<setup, clock, told, up, boot, reader, left, fire, period, tick, height, blks,
                 took, cached, batches, heads>>
\* subscribeMsg hands the message to MessageChan.
MessageArrives(e) ==
  /\ up = "up" /\ told[e] = Never
  /\ clock - Timestamp(e) \in setup.tellings
  /\ told' = [told EXCEPT ![e] = clock]
  /\ UNCHANGED <<setup, clock, arrived, up, boot, readerVars, cached, batches, heads>>

-------------------------------------------------------------------------------
(* subscribeBlock.                                                         *)
GoesOn ==
  /\ reader = "top" /\ ~tick /\ took <= Late
  /\ reader' = "next" /\ left' = Wait
  /\ UNCHANGED <<envVars, sub, fire, period, tick, height, blks, took, cached, batches, heads>>
TimesOut ==
  /\ reader = "next" /\ left = 0
  /\ reader' = "top"
  /\ UNCHANGED <<envVars, sub, left, fire, period, tick, height, blks, took, cached, batches,
                 heads>>

\* Mutant of IsNew: blocks of the height that has been handed over are taken again.
IsNew_orSame(b) == Height(b) >= height
IsNew(b) == Height(b) > height
\* The difference of two unsigned numbers.
Took(b) == (clock - Timestamp(Height(b))) % Word
\* A Reset of the ticker leaves a tick in its channel where it is.
Reads ==
  /\ reader = "next" /\ sub # <<>>
  /\ reader' = "top" /\ sub' = Tail(sub)
  /\ IF IsNew(Head(sub))
     THEN /\ blks' = Append(blks, Head(sub))
          /\ fire' = Wait + 1 /\ period' = Wait + 1
          /\ took' = Took(Head(sub))
     ELSE UNCHANGED <<blks, fire, period, took>>
  /\ UNCHANGED <<envVars, left, tick, height, cached, batches, heads>>

\* Mutants of Interval: the difference is taken the other way round; the age of the
\* blocks is left out.
Interval_swapped == Timestamp(Height(Head(blks))) - clock + Wait
Interval_fixed == Wait
\* The interval is signed, and wraps twice to what it should be.
Interval == clock - Timestamp(Height(Head(blks))) + Wait
\* A ticker is not reset to an interval that is not positive: the process ends.
HandsOver ==
  /\ batches' = batches \cup {[height |-> Height(Head(blks)), boot |-> boot,
                               blocks |-> {blks[i] : i \in DOMAIN blks}]}
  /\ height' = Height(Head(blks))
  /\ IF Interval > 0
     THEN fire' = Interval /\ period' = Interval /\ UNCHANGED up
     ELSE up' = "panic" /\ UNCHANGED <<fire, period>>
\* Mutant of Flush: took is not set back.
Flush_keepsTook ==
  /\ reader = "top" /\ tick
  /\ tick' = FALSE /\ blks' = <<>>
  /\ IF blks = <<>> THEN UNCHANGED <<up, height, fire, period, batches>> ELSE HandsOver
  /\ UNCHANGED <<setup, clock, arrived, told, boot, sub, reader, left, took, cached, heads>>
Flush ==
  /\ reader = "top" /\ tick
  /\ tick' = FALSE /\ took' = 0 /\ blks' = <<>>
  /\ IF blks = <<>> THEN UNCHANGED <<up, height, fire, period, batches>> ELSE HandsOver
  /\ UNCHANGED <<setup, clock, arrived, told, boot, sub, reader, left, cached, heads>>
Fires ==
  /\ fire = 0
  /\ tick' = TRUE /\ fire' = period
  /\ UNCHANGED <<envVars, sub, reader, left, period, height, blks, took, cached, batches, heads>>

-------------------------------------------------------------------------------
(* SubscribeHeader.                                                        *)
InMessageChan == {e \in Heights : told[e] \notin {Never, Lost}} \ cached
Caches(e) ==
  /\ e \in InMessageChan
  /\ cached' = cached \cup {e}
  /\ UNCHANGED <<envVars, readerVars, batches, heads>>

\* NewTipSet wants one height and the same parents.
Forked(b) == b \in setup.forks
TipSet(blocks) ==
  \A b, c \in blocks : Height(b) = Height(c) /\ Forked(b) = Forked(c)
Handles(batch) ==
  /\ batch \in batches
  /\ batches' = batches \ {batch}
  /\ heads' = IF (\A b \in batch.blocks : Height(b) \in cached) /\ TipSet(batch.blocks)
              THEN heads \cup {batch} ELSE heads
  /\ UNCHANGED <<envVars, readerVars, cached>>

-------------------------------------------------------------------------------
Busy ==
  \/ reader = "top" /\ (tick \/ took <= Late)
  \/ reader = "next" /\ (sub # <<>> \/ left = 0)
  \/ fire = 0 \/ batches # {} \/ InMessageChan # {}
\* A second passes.
Second ==
  /\ clock < LastSecond /\ up = "up" /\ ~Busy
  /\ clock' = clock + 1
  /\ fire' = fire - 1
  /\ left' = IF reader = "next" THEN left - 1 ELSE left
  /\ UNCHANGED <<setup, arrived, told, up, boot, sub, reader, period, tick, height, blks, took,
                 cached, batches, heads>>

\* What the process holds is memory, and gossip does not repeat what it has told.  (What
\* comes while the process is down is as if it never came.)
NotifyStops ==
  /\ up = "up" /\ boot <= setup.crashes
  /\ up' = "down"
  /\ UNCHANGED <<setup, clock, arrived, told, boot, readerVars, cached, batches, heads>>
NotifyStarts ==
  /\ up # "up"
  /\ up' = "up" /\ boot' = boot + 1
  /\ sub' = <<>> /\ reader' = "top" /\ left' = 0
  /\ fire' = Wait + 1 /\ period' = Wait + 1 /\ tick' = FALSE
  /\ height' = 0 /\ blks' = <<>> /\ took' = 0
  /\ cached' = {} /\ batches' = {}
  /\ told' = [e \in Heights |-> IF told[e] = Never THEN Never ELSE Lost]
  /\ UNCHANGED <<setup, clock, arrived, heads>>

Reader == GoesOn \/ TimesOut \/ Reads \/ Flush \/ Fires
===============================================================================
