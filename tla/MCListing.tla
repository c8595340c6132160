------------------------------ MODULE MCListing -----------------------------
EXTENDS Listing, TLC

\* Accounts differ in nothing but their id; no property is a liveness one.
MCSymmetry == Permutations(Ids)
=============================================================================
