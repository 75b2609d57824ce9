------------------------------ MODULE MCWinPoSt ------------------------------
EXTENDS WinPoSt, TLC
CONSTANT c1

Single == [i \in 0..(N - 1) |-> {0}]
\* The first deadline of a period has two partitions, the last one none.
Mixed == [i \in 0..(N - 1) |-> IF i = 0 THEN {0, 1} ELSE IF i = N - 1 THEN {} ELSE {0}]

None == [k \in Kinds |-> 0]
MCSetups ==
  {[parts |-> Single,
    ops |-> [None EXCEPT !["deadline"] = 10, !["miss"] = 2, !["retry"] = 1, !["crash"] = 1]],
   [parts |-> Mixed,
    ops |-> [None EXCEPT !["deadline"] = 2, !["retry"] = 1, !["lost"] = 1, !["fallback"] = 1]],
   [parts |-> Mixed,
    ops |-> [None EXCEPT !["deadline"] = 2, !["crash"] = 1, !["noproof"] = 1, !["fallback"] = 1]],
   [parts |-> Mixed,
    ops |-> [None EXCEPT !["deadline"] = 2, !["call"] = 1, !["replace"] = 1, !["fail"] = 1,
                         !["fallback"] = 1]]}
=============================================================================
