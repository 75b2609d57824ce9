----------------------------- MODULE MCBlockMining -----------------------------
EXTENDS BlockMining

S(ds, ms, fs, n) == [delays |-> ds, tellings |-> ms, forks |-> fs, crashes |-> n]
MCSetups ==
  {S({1, 6, 10, 14}, {0, 20}, {}, 0),
   S({1, 16, 17}, {0}, {}, 0),
   S({-8, -1, 1}, {-20}, {}, 0),
   S({1, 32}, {0}, {}, 1),
   S({1, 5}, {0}, {<<1, 2>>, <<2, 1>>}, 0)}
=============================================================================
