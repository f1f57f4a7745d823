------------------------- MODULE MCFileSystemStore -------------------------
EXTENDS FileSystemStore, TLC

CONSTANTS short, long

MCValues == {short, long}
MCSize == [v \in MCValues |-> IF v = short THEN 1 ELSE 2]
Symmetry == Permutations(Threads) \cup Permutations(Keys) \cup Permutations(Files)
=============================================================================
