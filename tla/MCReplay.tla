------------------------------ MODULE MCReplay ------------------------------
\* Instances of Replay for TLC.
EXTENDS Replay, TLC

\* Threads take the same steps, and so do the stores a copy is restored into.
Symmetry == Permutations(Threads) \union Permutations(Stores \ {Home})

=============================================================================
