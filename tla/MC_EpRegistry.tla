---------------------------- MODULE MC_EpRegistry ----------------------------
EXTENDS EpRegistry, TLC

MCSymmetry == Permutations(Threads) \cup Permutations(Slots)
=============================================================================
