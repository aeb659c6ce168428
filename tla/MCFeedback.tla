----------------------------- MODULE MCFeedback -----------------------------
\* A flagged turn and one hand-written case.
EXTENDS Feedback, TLC
Symmetry == Permutations(Systems)
=============================================================================
