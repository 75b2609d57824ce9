------------------------------- MODULE MsgNonce -------------------------------
(***************************************************************************)
(* The nonces of the messages the miner signs itself.  Each of its senders *)
(* (submitPostMessage, CheckRecoveries, the ...ByPrivatKey calls) asks the *)
(* node for the next nonce of the address, estimates, signs and publishes  *)
(* to the gossip topic; nothing is held in between, and MpoolPush returns  *)
(* before the node that is asked for nonces has seen the message.          *)
(*                                                                         *)
(* The pool of that node (external) holds one message for each nonce from  *)
(* next, the first the chain has not executed, up to but not including top.*)
(***************************************************************************)
EXTENDS Naturals

CONSTANTS
  Senders,  \* the calls that send a message, all for one address
  Kinds     \* the kinds of faults and of operators' calls

VARIABLES
  msg,      \* the message of each sender, and how far it has got
  next,     \* the nonce of the address in the chain's state, counted from one
  top,      \* the nonce MpoolGetNonce gives
  ops       \* faults and calls of operators that are left

nonceVars == <<msg, next, top, ops>>

Message == [stage : {"idle",
                     "prove",    \* a partition's goroutine computes its proof
                     "ready",    \* all of the message is there but its nonce
                     "head",     \* checkNonce has asked for the chain's head
                     "read",     \* checkNonce has returned
                     "wire",     \* MpoolPush has returned
                     "pool", "landed",
                     "refused",  \* another message has its nonce
                     "failed"},  \* an error, or a publication that never arrives
            nonce : Nat,         \* from "head" on: first that of the head's state
            clash : BOOLEAN]     \* another message was under way when it was, or
                                 \* its nonce was not the pool's
NoMessage == [stage |-> "idle", nonce |-> 0, clash |-> FALSE]

NonceTypeOK ==
  /\ msg \in [Senders -> Message]
  /\ next \in Nat /\ top \in Nat
  /\ ops \in [Kinds -> Nat]

NonceInit ==
  /\ msg = [i \in Senders |-> NoMessage]
  /\ next = 1 /\ top = 1

Spend(op) == ops[op] > 0 /\ ops' = [ops EXCEPT ![op] = @ - 1]
UnderWay(i) == msg[i].stage \in {"read", "wire"}
Others(i) == {j \in Senders \ {i} : UnderWay(j)}

-------------------------------------------------------------------------------
\* A sender without anything to prove.
Call(i) ==
  /\ msg[i].stage = "idle"
  /\ Spend("call")
  /\ msg' = [msg EXCEPT ![i].stage = "ready"]
  /\ UNCHANGED <<next, top>>

\* An operator has a message of the pool signed again with other fees.
ReplaceMsg(i) ==
  /\ msg[i].stage = "idle"
  /\ \E j \in Senders :
       /\ msg[j].stage = "pool"
       /\ msg' = [msg EXCEPT ![i] = [stage |-> "read", nonce |-> msg[j].nonce, clash |-> TRUE],
                             ![j].clash = TRUE]
  /\ Spend("replace")
  /\ UNCHANGED <<next, top>>

\* Mutants of Reads: the messages that are under way are allowed for; the nonce is
\* always that of the chain's state; the nonce used last is taken for the next one.
Reads_ahead(i, n, clashing) ==
  msg' = [j \in Senders |->
            IF j = i THEN [stage |-> "read", nonce |-> IF Others(i) = {} THEN n ELSE n + 1,
                           clash |-> clashing # {}]
            ELSE IF j \in clashing THEN [msg[j] EXCEPT !.clash = TRUE] ELSE msg[j]]
Reads_state(i, n, clashing) ==
  msg' = [j \in Senders |->
            IF j = i THEN [stage |-> "read", nonce |-> next, clash |-> clashing # {}]
            ELSE IF j \in clashing THEN [msg[j] EXCEPT !.clash = TRUE] ELSE msg[j]]
Reads_last(i, n, clashing) ==
  msg' = [j \in Senders |->
            IF j = i THEN [stage |-> "read", nonce |-> n - 1, clash |-> clashing # {}]
            ELSE IF j \in clashing THEN [msg[j] EXCEPT !.clash = TRUE] ELSE msg[j]]
Reads(i, n, clashing) ==
  msg' = [j \in Senders |->
            IF j = i THEN [stage |-> "read", nonce |-> n, clash |-> clashing # {} \/ n # top]
            ELSE IF j \in clashing THEN [msg[j] EXCEPT !.clash = TRUE] ELSE msg[j]]
\* checkNonce asks for the head of the chain first.
ChainHead(i) ==
  /\ msg[i].stage = "ready"
  /\ msg' = [msg EXCEPT ![i].stage = "head", ![i].nonce = next]
  /\ UNCHANGED <<next, top, ops>>
\* The pool's next nonce; if the node cannot tell it, the nonce in the state of that
\* head, though messages may be in the pool, or have been executed since.
CheckNonce(i) ==
  /\ msg[i].stage = "head"
  /\ \/ Reads(i, top, Others(i)) /\ UNCHANGED ops
     \/ /\ Spend("fallback")
        /\ Reads(i, msg[i].nonce, Others(i) \cup {j \in Senders : msg[j].stage = "pool"})
  /\ UNCHANGED <<next, top>>

\* An error of the node on the way to MpoolPush.
CallFails(i) ==
  /\ msg[i].stage \in {"ready", "head", "read"}
  /\ Spend("fail")
  /\ msg' = [msg EXCEPT ![i].stage = "failed"]
  /\ UNCHANGED <<next, top>>
\* The estimate, the signature and the publication.
MpoolPush(i) ==
  /\ msg[i].stage = "read"
  /\ msg' = [msg EXCEPT ![i].stage = "wire"]
  /\ UNCHANGED <<next, top, ops>>

-------------------------------------------------------------------------------
(* The gossip network, the node's pool and the chain.                      *)
GossipLost(i) ==
  /\ msg[i].stage = "wire"
  /\ Spend("lost")
  /\ msg' = [msg EXCEPT ![i].stage = "failed"]
  /\ UNCHANGED <<next, top>>
Arrive(i) ==
  /\ msg[i].stage = "wire"
  /\ \/ /\ msg[i].nonce = top
        /\ msg' = [msg EXCEPT ![i].stage = "pool"]
        /\ top' = top + 1
     \/ /\ msg[i].nonce < top        \* the nonce is taken
        /\ msg' = [msg EXCEPT ![i].stage = "refused"]
        /\ UNCHANGED top
     \/ /\ msg[i].nonce \in next..(top - 1)     \* it pays more than the one there
        /\ msg' = [j \in Senders |->
                     IF j = i THEN [msg[i] EXCEPT !.stage = "pool"]
                     ELSE IF msg[j].stage = "pool" /\ msg[j].nonce = msg[i].nonce
                          THEN [msg[j] EXCEPT !.stage = "refused"] ELSE msg[j]]
        /\ UNCHANGED top
  /\ UNCHANGED <<next, ops>>
Execute(i) ==
  /\ msg[i].stage = "pool" /\ msg[i].nonce = next
  /\ msg' = [msg EXCEPT ![i].stage = "landed"]
  /\ next' = next + 1
  /\ UNCHANGED <<top, ops>>

-------------------------------------------------------------------------------
NonceStep(i) == ChainHead(i) \/ CheckNonce(i) \/ MpoolPush(i) \/ Arrive(i) \/ Execute(i)
NonceFault(i) == CallFails(i) \/ GossipLost(i)

\* A message that waits for a nonce beyond the pool's would keep all later ones of
\* the address waiting with it: no nonce is ever skipped, though messages fail
\* after they have read theirs.
NoGap ==
  /\ next <= top
  /\ \A i \in Senders : UnderWay(i) => msg[i].nonce <= top
  /\ \A n \in next..(top - 1) : \E i \in Senders : msg[i].stage = "pool" /\ msg[i].nonce = n

\* A message is refused or replaced only if it met another of the address: when one of
\* the two read its nonce the other was under way, or in the pool and its nonce was
\* taken on purpose or for want of the pool's; or if the nonce it read was not the pool's.
RefusedByOverlap ==
  \A i \in Senders : msg[i].stage = "refused" => msg[i].clash

\* What is published, and not lost on the way, has its nonce executed in the end:
\* itself, or a message that was taken for it.
NonceMoves ==
  \A i \in Senders :
    msg[i].stage = "wire" ~> next > msg[i].nonce \/ msg[i].stage = "failed"
===============================================================================
