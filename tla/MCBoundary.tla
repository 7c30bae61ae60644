----------------------------- MODULE MCBoundary ------------------------------
\* Instances of Boundary for TLC.
EXTENDS Boundary, TLC

\* Threads take the same steps, and no definition prefers a resource.
Symmetry == Permutations(Threads) \union Permutations(Resources)

=============================================================================
