--------------------------- MODULE MCStoreRestart ---------------------------
EXTENDS StoreRestart, TLC

\* Requests differ in nothing but their name; no property is a liveness one.
MCSymmetry == Permutations(Requests \ Seeds)
=============================================================================
