--------------------------- MODULE MCUserService ---------------------------
EXTENDS UserService, TLC

\* Requests differ in nothing but their name, nor do addresses.
MCSymmetry == Permutations(Requests) \cup Permutations(Emails)
=============================================================================
