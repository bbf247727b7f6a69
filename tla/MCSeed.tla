------------------------------- MODULE MCSeed -------------------------------
\* Instances of Seed for TLC.  The processes differ in nothing but their modes.
EXTENDS Seed, TLC

Symmetry == Permutations(Processes)
=============================================================================
