------------------------------ MODULE BlockMining ------------------------------
(***************************************************************************)
(* MinerServerNotify: a goroutine for every head of ChainNotify tries to   *)
(* mine a block on it, and publishes it when the next epoch has begun.     *)
(***************************************************************************)
EXTENDS ChainNotify

VARIABLES
  mining,     \* the heads that goroutines mine on
  published   \* the heads on which a block was published; its round is one more

vars == <<setup, clock, arrived, told, up, boot, sub, reader, left, fire, period, tick,
          height, blks, took, cached, batches, heads, mining, published>>
miningVars == <<mining, published>>

TypeOK == NotifyTypeOK /\ mining \subseteq heads /\ published \subseteq heads

Init == NotifyInit /\ mining = {} /\ published = {}

\* The head goes through an unbuffered channel to a goroutine of its own.
Delivers(batch) ==
  /\ Handles(batch)
  /\ mining' = mining \cup (heads' \ heads)
  /\ UNCHANGED published

\* The second after the new block's timestamp.  What became of a head shows then.
Due(h) == clock >= Timestamp(h.height) + EpochLen + 1
\* No election won, no sector of those the node asks for, an error of the node.  (If the
\* election proof itself fails, MinerMining reads a field of a nil proof for its message
\* and the process ends: that is Stops.)
MiningFails(h) ==
  /\ Due(h)
  /\ mining' = mining \ {h}
  /\ UNCHANGED <<setup, clock, arrived, told, up, boot, readerVars, cached, batches, heads,
                 published>>
\* publishBlockMsg sleeps until the second after the new block's timestamp.
Publishes(h) ==
  /\ Due(h)
  /\ mining' = mining \ {h} /\ published' = published \cup {h}
  /\ UNCHANGED <<setup, clock, arrived, told, up, boot, readerVars, cached, batches, heads>>

Works ==
  /\ up = "up"
  /\ \/ (Reader \/ \E e \in Heights : Caches(e)) /\ UNCHANGED miningVars
     \/ \E batch \in batches : Delivers(batch)
Mining == up = "up" /\ \E h \in mining : MiningFails(h) \/ Publishes(h)
Stops == NotifyStops /\ UNCHANGED miningVars
Starts == NotifyStarts /\ mining' = {} /\ UNCHANGED published

Passes == Second /\ (\A h \in mining : ~Due(h)) /\ UNCHANGED miningVars

Next ==
  \/ Works
  \/ Passes
  \/ Stops \/ Starts
  \/ (\E b \in Blocks : BlockArrives(b)) /\ UNCHANGED miningVars
  \/ (\E e \in Heights : MessageArrives(e)) /\ UNCHANGED miningVars
  \/ Mining

Spec == Init /\ [][Next]_vars
FairSpec == Spec /\ WF_vars(Works) /\ WF_vars(Passes) /\ WF_vars(Mining)

-------------------------------------------------------------------------------
\* Two blocks of one miner for one round are a fault that the network punishes: a
\* process publishes no second one, whatever comes in late.
OneBlockPerRound ==
  \A h, g \in published : h.height = g.height /\ h.boot = g.boot => h = g

Came(e) == {b \in Blocks : Height(b) = e /\ arrived[b] # Never}
Delay(b) == arrived[b] - Timestamp(Height(b))
\* The blocks of an epoch come close to one another, and so early that the batch is
\* handed over before the next epoch: a read and the next one have ended by then.
Timely(e) ==
  \A b, c \in Came(e) : /\ Delay(b) >= 1 /\ Delay(b) + 2 * Wait <= EpochLen
                        /\ Delay(b) - Delay(c) <= Wait
\* They come before the tick that follows the hand-over of the epoch before.
BeforeTick(e) ==
  \A c \in Came(e) : \E b \in Came(e - 1) : EpochLen + Delay(c) < 5 * Wait + 2 * Delay(b)
Whole(e) == \E h \in heads : h.height = e /\ h.blocks = Came(e)

\* Once the loop is in step it stays so.  When the next epoch has begun, all blocks of
\* an epoch that came are in its head, if there were several in the head before and that
\* was whole, if they are of one fork and follow their message, and if all blocks come in
\* time: one of any other epoch that came now would be read in place of theirs.
StaysInStep ==
  \A e \in Heights \ {1} :
    /\ boot = 1 /\ up = "up"
    /\ clock > Timestamp(e) + EpochLen
    /\ Cardinality(Came(e - 1)) > 1 /\ Whole(e - 1)
    /\ Came(e) # {} /\ TipSet(Came(e))
    /\ \A d \in Heights : Timely(d)
    /\ BeforeTick(e)
    /\ told[e] # Never /\ \A b \in Came(e) : told[e] <= arrived[b]
    => Whole(e)

\* The interval of the ticker is positive as long as no block is ahead of this host's
\* clock by as much as a wait.
PanicOnlyBySkew ==
  up = "panic" => \E b \in Blocks : arrived[b] # Never /\ Delay(b) <= -Wait

\* A block that came too late, or too early, keeps the loop from reading only until the
\* ticker fires, however the unsigned difference wraps.  (How soon is not said; what
\* begins in the last Wait + 1 seconds of the bounded time is not followed.)
ReaderResumes ==
  (up = "up" /\ took > Late /\ clock + Wait + 1 < LastSecond) ~> (took <= Late \/ up # "up")
===============================================================================
