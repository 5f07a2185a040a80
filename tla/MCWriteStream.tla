---------------------------- MODULE MCWriteStream ----------------------------
\* Instances of WriteStream small enough for TLC.
EXTENDS WriteStream, TLC

Symmetry == Permutations(Users)
==============================================================================
