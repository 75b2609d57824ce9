-------------------------------- MODULE WinPoSt --------------------------------
(***************************************************************************)
(* The window PoSt of one actor, computed by the miner itself:             *)
(* winPoStProofsServer polls the node every thirty seconds and starts a    *)
(* goroutine per partition for each deadline it has not done yet, which it *)
(* tells from the index of the last one it has.  Each goroutine proves its *)
(* partition and submits it with a message of the actor's worker address.  *)
(***************************************************************************)
EXTENDS Integers, FiniteSets

CONSTANTS
  N,            \* deadlines of a proving period (48)
  Parts,        \* partitions
  Calls,        \* other calls that send messages from the address
  MaxPolls,     \* bound: times a deadline is started
  Setups        \* the partitions at each index, and bounds: how often each of
                \* Kinds may happen

Kinds == {"deadline", "miss", "retry", "crash", "noproof",
          "call", "replace", "fallback", "fail", "lost"}

ASSUME WinPoStAssumption ==
  /\ N \in Nat /\ N >= 2
  /\ MaxPolls \in Nat
  /\ Setups \subseteq [parts : [0..(N - 1) -> SUBSET Parts], ops : [Kinds -> Nat]]

VARIABLES
  partsOf,   \* the partitions of the deadline with each index
  idx,       \* the index in the proving period of the deadline that is open
  deadInd,   \* the index of the last deadline done, -1 before the first
  polled,    \* a poll has come through in this deadline
  started,   \* times the partitions of this deadline were started
  calm,      \* deadlines with a poll since the last one without, up to N
  edge,      \* the last or the first deadline of a period went without a poll
             \* since the loop began
  spare,     \* those of them that are retries, or were before a restart
  msg, next, top, ops

Jobs == Parts \X (1..MaxPolls)   \* the goroutines of the deadline that is open
INSTANCE MsgNonce WITH Senders <- Jobs \cup Calls

schedVars == <<partsOf, idx, deadInd, polled, started, calm, edge, spare>>
vars == <<partsOf, idx, deadInd, polled, started, calm, edge, spare, msg, next, top, ops>>

TypeOK ==
  /\ partsOf \in [0..(N - 1) -> SUBSET Parts]
  /\ idx \in 0..(N - 1)
  /\ deadInd \in -1..(N - 1)
  /\ polled \in BOOLEAN /\ edge \in BOOLEAN
  /\ started \in 0..MaxPolls
  /\ calm \in 0..N /\ spare \in Nat
  /\ NonceTypeOK

Init ==
  /\ idx \in 0..(N - 1)
  /\ deadInd = -1 /\ polled = FALSE /\ started = 0
  /\ calm = 0 /\ edge = FALSE /\ spare = 0
  /\ NonceInit
  /\ \E s \in Setups : partsOf = s.parts /\ ops = s.ops

-------------------------------------------------------------------------------
\* winPoStProofs: a goroutine for each partition of the deadline that is open.
Starts ==
  /\ started < MaxPolls
  /\ started' = started + 1
  /\ msg' = [i \in Jobs \cup Calls |->
               IF i \notin Calls /\ i[1] \in partsOf[idx] /\ i[2] = started + 1
               THEN [msg[i] EXCEPT !.stage = "prove"] ELSE msg[i]]
  /\ UNCHANGED <<next, top>>

\* Mutants of Noted: the index wraps at the wrong deadline; it never wraps.
Noted_wrapsEarly ==
  IF idx > deadInd \/ (idx = 0 /\ deadInd = N - 2) THEN idx ELSE deadInd
Noted_onlyGreater == IF idx > deadInd THEN idx ELSE deadInd
\* The index is noted if it is greater, or if the period has begun anew.
Noted == IF idx > deadInd \/ (idx = 0 /\ deadInd = N - 1) THEN idx ELSE deadInd

\* A poll that comes through.  (After an error the loop asks again at once.)
Poll ==
  /\ polled' = TRUE
  /\ IF deadInd = idx
     THEN UNCHANGED <<deadInd, started, msg, next, top, ops>>
     ELSE Starts /\ deadInd' = Noted /\ UNCHANGED ops
  /\ UNCHANGED <<partsOf, idx, calm, edge, spare>>
\* retryPost calls WinPoStProofs with -1: the loop does not learn of it.
RetryPost ==
  /\ Spend("retry") /\ Starts
  /\ spare' = spare + 1
  /\ UNCHANGED <<partsOf, idx, deadInd, polled, calm, edge>>

\* A proof succeeds, or not: rows or files are missing.  Nothing is tried again.
ProofDone(i) ==
  /\ msg[i].stage = "prove"
  /\ \/ msg' = [msg EXCEPT ![i].stage = "ready"] /\ UNCHANGED ops
     \/ Spend("noproof") /\ msg' = [msg EXCEPT ![i].stage = "failed"]
  /\ UNCHANGED <<schedVars, next, top>>

\* Proofs and messages of a deadline take less time than it is open.
Settled == \A i \in Jobs \cup Calls : msg[i].stage \notin {"prove", "ready", "head", "read", "wire", "pool"}
NextIndex == IF idx = N - 1 THEN 0 ELSE idx + 1
\* A deadline closes and the next one opens; without a poll if the node was not to
\* be reached all along.  The pool is empty then (NoGap), and the nonces are counted
\* anew from the next one.
NextDeadline ==
  /\ Settled
  /\ polled \/ ops["miss"] > 0
  /\ ops["deadline"] > 0
  /\ ops' = [ops EXCEPT !["deadline"] = @ - 1, !["miss"] = IF polled THEN @ ELSE @ - 1]
  /\ idx' = NextIndex
  /\ calm' = IF ~polled THEN 0 ELSE IF calm < N THEN calm + 1 ELSE N
  /\ edge' = (edge \/ (~polled /\ idx \in {0, N - 1} /\ deadInd # -1))
  /\ polled' = FALSE /\ started' = 0 /\ spare' = 0
  /\ msg' = [i \in Jobs \cup Calls |-> NoMessage]
  /\ next' = 1 /\ top' = 1
  /\ UNCHANGED <<partsOf, deadInd>>

\* PoStMiner and the loops are memory; the actor is added again.
MinerCrash ==
  /\ Spend("crash")
  /\ msg' = [i \in Jobs \cup Calls |->
               IF msg[i].stage \in {"prove", "ready", "head", "read"}
               THEN [msg[i] EXCEPT !.stage = "failed"] ELSE msg[i]]
  /\ deadInd' = -1 /\ polled' = FALSE /\ calm' = 0 /\ edge' = FALSE
  /\ spare' = started
  /\ UNCHANGED <<partsOf, idx, started, next, top>>

-------------------------------------------------------------------------------
Nonces ==
  /\ \/ \E i \in Jobs \cup Calls : NonceStep(i) \/ NonceFault(i)
     \/ \E i \in Calls : Call(i) \/ ReplaceMsg(i)
  /\ UNCHANGED schedVars

Next ==
  \/ Poll \/ RetryPost \/ NextDeadline \/ MinerCrash
  \/ \E i \in Jobs : ProofDone(i)
  \/ Nonces

Spec == Init /\ [][Next]_vars
FairSpec ==
  /\ Spec
  /\ WF_vars(Poll) /\ WF_vars(NextDeadline)
  /\ \A i \in Jobs : WF_vars(ProofDone(i))
  /\ \A i \in Jobs \cup Calls : WF_vars(NonceStep(i) /\ UNCHANGED schedVars)

-------------------------------------------------------------------------------
\* A loop proves a deadline that it polls once: not again at every poll, nor after a
\* retry, and once more only if the miner was restarted; as long as neither the last
\* nor the first deadline of a period went without a poll.
OncePerDeadline ==
  ~edge => /\ started <= 1 + spare
           /\ polled => started >= 1

\* After a period of polled deadlines the loop is in step again, whatever was missed
\* before: it neither skips a deadline nor starts it at every poll.
InStepAfterPeriod ==
  calm >= N /\ polled => deadInd = idx /\ started >= 1

\* Partitions whose goroutines run at the same time may take the nonce of one another,
\* but no proof is refused for nothing: when the deadline's messages are through, the
\* nonce it was refused for has been executed, with a message that was sent in the same
\* deadline.  So the deadline does not lose the proofs of all of its partitions: one of
\* them lands, or met with an error, unless another sender's message landed.
SomePartitionLands ==
  Settled =>
    /\ \A i \in Jobs : msg[i].stage = "refused" =>
         \E j \in Jobs \cup Calls : msg[j].stage = "landed" /\ msg[j].nonce = msg[i].nonce
    /\ (\E i \in Jobs : msg[i].stage # "idle") /\ (\A i \in Calls : msg[i].stage # "landed") =>
         \E i \in Jobs : msg[i].stage \in {"landed", "failed"}
===============================================================================
