----------------------------- MODULE MCLifecycle -----------------------------
\* Instances of Lifecycle for TLC.
EXTENDS Lifecycle, TLC

\* Threads take the same steps.
Symmetry == Permutations(Threads)

=============================================================================
