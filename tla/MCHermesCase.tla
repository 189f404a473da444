---------------------------- MODULE MCHermesCase ----------------------------
\* Small instances of HermesCase.
EXTENDS HermesCase, TLC

\* Executions are not ordered, and neither are processes
Symmetry == Permutations(Turns) \cup Permutations(Workers)
=============================================================================
