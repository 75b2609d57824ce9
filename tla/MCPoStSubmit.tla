---------------------------- MODULE MCPoStSubmit ----------------------------
EXTENDS PoStSubmit, TLC
CONSTANTS w1, w2, s1, s2

All == {s1, s2}
Faults == {"retry", "readd", "wcrash", "lost", "fault", "abort", "reset", "pushfail",
           "mcrash"}
Setup(d, r, p, o) == [disk |-> d, rows |-> r, parts |-> p, cli |-> FALSE, ops |-> o]
MCSetups == {
  \* one worker, whatever happens; deadlines that close too early
  Setup(w1 :> All, All, {0}, Faults),
  Setup(w1 :> All, All, {0}, {"late", "reset"}),
  \* a sector that is not in the table yet; the same with two partitions
  Setup(w1 :> All, {s1}, {0}, {"refind", "retry", "abort", "reset"}),
  Setup(w1 :> All, {s1}, {0, 1}, {"abort"}),
  \* two workers that read everything, and a map that is reset under them
  Setup(w1 :> All @@ w2 :> All, All, {0}, {"reset"}),
  \* two workers that each lack a sector, and one that lacks them all
  Setup(w1 :> {s1} @@ w2 :> {s2}, All, {0}, {}),
  Setup(w1 :> {} @@ w2 :> All, All, {0}, {"reset"}),
  \* an actor added by "worker addPost"
  [Setup(w1 :> All, All, {0}, {"retry", "readd"}) EXCEPT !.cli = TRUE]}
=============================================================================
