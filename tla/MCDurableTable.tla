--------------------------- MODULE MCDurableTable ---------------------------
EXTENDS DurableTable, TLC

CONSTANTS small1, small2, small3, large

MCObjects == {small1, small2, small3, large}
MCSize == [o \in MCObjects |-> IF o = large THEN 2 ELSE 1]
Symmetry == Permutations(Threads) \cup Permutations(Keys)
              \cup Permutations(MCObjects \ {large})
=============================================================================
