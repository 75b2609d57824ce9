--------------------------- MODULE SectorLifecycle ---------------------------
(***************************************************************************)
(* What the task table promises about a sector, without workers, sessions, *)
(* messages or failures: the sector is at one stage of the pipeline, what  *)
(* it has behind it is never lost, and it is only ever put at a stage that *)
(* it is ready for.  SealTask implements this, and says what it takes for  *)
(* a stage to be behind a sector there (InOrder).                          *)
(***************************************************************************)
EXTENDS Naturals

CONSTANT Sectors

VARIABLES
  at,    \* the stage of each sector, "absent" before it has one
  done   \* the stages each sector has behind it

Position == [PC1 |-> 1, PC2 |-> 2, PRECOMMIT |-> 3, SEED |-> 4, C1 |-> 5, C2 |-> 6,
             COMMIT |-> 7, PROVING |-> 8]
Stages == DOMAIN Position

\* C1's output is a temporary file: nothing later is promised of it.
Lasting == Stages \ {"C1", "PROVING"}
OnChain == {"PRECOMMIT", "COMMIT"}
Earlier(t) == {u \in Lasting : Position[u] < Position[t]}

Ready(s, t) == Earlier(t) \subseteq done[s]

\* A daemon starts on the table and the chain that its predecessor left.
Init ==
  /\ at \in [Sectors -> Stages \cup {"absent"}]
  /\ done \in [Sectors -> SUBSET Lasting]
  /\ \A s \in Sectors : at[s] # "absent" => Ready(s, at[s])
  /\ \A s \in Sectors : \A t \in done[s] : Ready(s, t)

\* The stage at hand has its result: the sector goes to the next one.
Finish(s) ==
  /\ at[s] \in Lasting \ OnChain
  /\ done' = [done EXCEPT ![s] = @ \cup {at[s]}]
  /\ \E t \in Stages : /\ Position[t] = Position[at[s]] + 1
                       /\ at' = [at EXCEPT ![s] = t]

\* A message of the sector is executed, or a stage is said to be done, wherever
\* the table has the sector.
Land(s, t) ==
  /\ Ready(s, t)
  /\ done' = [done EXCEPT ![s] = @ \cup {t}]
  /\ UNCHANGED at

\* Anything else, resets, retries and failure rules included.
Place(s, t) ==
  /\ Ready(s, t)
  /\ at' = [at EXCEPT ![s] = t]
  /\ UNCHANGED done

Next == \E s \in Sectors :
  \/ Finish(s)
  \/ \E t \in Lasting : Land(s, t)
  \/ \E t \in Stages : Place(s, t)

Spec == Init /\ [][Next]_<<at, done>>

(***************************************************************************)
(* A stage is behind a sector only with every lasting stage before it, and *)
(* a sector is only ever at a stage it is ready for.                       *)
(***************************************************************************)
Ordered ==
  /\ \A s \in Sectors : \A t \in done[s] : Ready(s, t)
  /\ \A s \in Sectors : at[s] # "absent" => Ready(s, at[s])
===============================================================================
