--------------------------- MODULE MCAuthService ---------------------------
EXTENDS AuthService, TLC

\* Requests differ in nothing but their name, those of the first accounts apart; no
\* property is a liveness one.
MCSymmetry == Permutations(Requests \ Seeds)
=============================================================================
