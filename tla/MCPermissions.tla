---------------------------- MODULE MCPermissions ----------------------------
\* Instances of Permissions for TLC.
EXTENDS Permissions, TLC

\* Threads take the same steps, and so do grantors that are no participants.
Symmetry == Permutations(Threads) \union Permutations(Grantors \ Participants)

=============================================================================
