-------------------------- MODULE MCDraftDelivery --------------------------
\* Small instances of DraftDelivery.
EXTENDS DraftDelivery, TLC

\* Turns are not ordered; of the processes only one runs the drain
Symmetry == Permutations(Turns)
=============================================================================
