------------------------------ MODULE MCSystem ------------------------------
EXTENDS System, TLC

\* Requests differ in nothing but their name, those of the first accounts apart.
MCSymmetry == Permutations(Requests \ Seeds)
=============================================================================
