--------------------------- MODULE AppendOnlyLog ---------------------------
(***************************************************************************)
(* What the event store promises to the rest of the SDK, with no threads,  *)
(* locks or transactions: each relationship has one history, a batch of    *)
(* events is added to the ends of the histories in one step, what was      *)
(* added stays where it is, and a caller is told that an event is          *)
(* committed only when it is in a history.                                 *)
(***************************************************************************)
EXTENDS Naturals, Sequences

CONSTANT Relationships

VARIABLES
    history,        \* [Relationships -> sequence of events]
    acknowledged    \* identifiers of the events whose commit returned

\* h[j] continues the history before it: it names its predecessor, takes the
\* next sequence number of its actor and has an identifier of its own.
Continues(h, j) ==
    LET sameActor == {i \in 1..(j - 1) : h[i].actor = h[j].actor}
    IN  /\ h[j].prev = (IF j = 1 THEN 0 ELSE h[j - 1].id)
        /\ \A i \in sameActor : h[i].seq < h[j].seq
        /\ h[j].seq = 1 \/ \E i \in sameActor : h[i].seq = h[j].seq - 1
        /\ \A i \in 1..(j - 1) : h[i].id # h[j].id

WellChained(h) == \A j \in 1..Len(h) : Continues(h, j)

StartsWith(h, g) ==
    /\ Len(g) <= Len(h)
    /\ \A i \in 1..Len(g) : h[i] = g[i]

Ids(h) == {h[i].id : i \in 1..Len(h)}

AllIds(hs) == UNION {Ids(hs[r]) : r \in Relationships}

Init ==
    /\ history = [r \in Relationships |-> << >>]
    /\ acknowledged = {}

\* A batch, possibly over several relationships, is added as a whole.
Extend ==
    /\ \A r \in Relationships :
          /\ StartsWith(history'[r], history[r])
          /\ WellChained(history'[r])
    /\ UNCHANGED acknowledged

\* The caller learns that events of the histories are committed.
Acknowledge ==
    /\ acknowledged \subseteq acknowledged'
    /\ acknowledged' \subseteq AllIds(history)
    /\ UNCHANGED history

Next == Extend \/ Acknowledge

Spec == Init /\ [][Next]_<<history, acknowledged>>

=============================================================================
