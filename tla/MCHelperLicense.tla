-------------------------- MODULE MCHelperLicense --------------------------
EXTENDS HelperLicense, TLC

\* Users and downloads are interchangeable.
Symmetry == Permutations(Users) \cup Permutations(Ops)
=============================================================================
