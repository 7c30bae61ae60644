---------------------------- MODULE MCEventStore ----------------------------
\* Instances of EventStore for TLC.
EXTENDS EventStore, TLC

\* Nothing tells threads, relationships or actors apart.
Symmetry ==
    Permutations(Threads) \union Permutations(Relationships) \union Permutations(Actors)

\* A draft is read only on the way from StartCommit to the append.
Live ==
    <<log, rows, owner, depth, pc, batch, nextId, acknowledged,
      [t \in Threads |-> IF pc[t] \in {"head", "seq", "append"} THEN draft[t] ELSE << >>]>>

=============================================================================
