---------------------------- MODULE MCToolCache ----------------------------
\* One ingesting process, so that ingested_at grows with every commit.
EXTENDS ToolCache

NoCodes == [c \in Contents |-> {}]
OneWidth == [m \in Models |-> 1]
Configured == [w \in Workers |-> NewModel]

Symmetry == Permutations(Callers) \cup Permutations(Keys)
=============================================================================
