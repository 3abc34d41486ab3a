----------------------------- MODULE MCServiceMap -----------------------------
EXTENDS ServiceMap, TLC

NameSymmetry == Permutations(Reports) \union Permutations(Functions)
=============================================================================
