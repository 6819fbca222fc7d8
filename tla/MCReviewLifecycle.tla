------------------------- MODULE MCReviewLifecycle -------------------------
\* Small instances of ReviewLifecycle for TLC.
EXTENDS ReviewLifecycleRefinement, TLC

\* Heads, handlers and jobs are only compared for equality.
Symmetry == Permutations(Heads) \cup Permutations(Handlers) \cup Permutations(Jobs)
=============================================================================
