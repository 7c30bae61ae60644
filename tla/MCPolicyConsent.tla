--------------------------- MODULE MCPolicyConsent ---------------------------
\* Instances of PolicyConsent for TLC.
EXTENDS PolicyConsent, TLC

CONSTANTS alice, bob, s1, s2

\* One participant governs both scopes.
Both == {<<alice, s1>>, <<alice, s2>>}

\* Each of two participants governs one.
Each == {<<alice, s1>>, <<bob, s2>>}

\* Threads take the same steps, and so do scopes that are governed alike.
Symmetry == Permutations(Threads)
ScopeSymmetry == Permutations(Threads) \union Permutations({s1, s2})

\* What an idle thread was last called for is overwritten before it is read, and
\* the projection is a function of the history.
View == <<history, owner, pc, calls,
          [t \in Threads |-> IF pc[t] = "idle" THEN << >> ELSE <<op[t], scope[t], allowed[t]>>]>>

=============================================================================
