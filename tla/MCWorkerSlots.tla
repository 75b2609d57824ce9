---------------------------- MODULE MCWorkerSlots ----------------------------
(* WorkerSlots instantiated for TLC: sessions as model values.             *)
EXTENDS WorkerSlots, TLC
CONSTANTS s1, s2, s3, s4

\* Limits of tasks, some of which have none (the default of C1 and C2).
SomeUnlimited == {-1, 1}

\* Sessions are interchangeable: nothing orders or names them.
SessionSymmetry == Permutations(Sessions)
===============================================================================
