------------------------------ MODULE Handoff ------------------------------
(***************************************************************************)
(* What the execution bridge promises a host about its requests, with no   *)
(* threads, guard, history or evaluations.  A request is reserved, then    *)
(* its executor is entered, then its outcome is recorded; on the way it    *)
(* may be withdrawn, which is final and without effect, or its outcome may *)
(* be lost, after which it is for the host to reconcile and never entered  *)
(* again.  Requests in hand are nested: one that is reserved while others  *)
(* are in hand was made in their callbacks, and it is settled before any   *)
(* of them goes on.                                                        *)
(***************************************************************************)
EXTENDS Naturals

CONSTANT Requests

VARIABLES
    stage,      \* [Requests -> Stages]
    around,     \* [Requests -> SUBSET Requests], in hand when this one was reserved
    entries     \* [Requests -> Nat], how often the executor was entered

Stages == {"new", "reserved", "running", "answered", "withdrawn", "lost"}

InHand == {q \in Requests : stage[q] \in {"reserved", "running"}}

\* No other request is in hand inside this one.
Innermost(q) == \A p \in Requests : q \notin around[p]

Move(q, from, to) ==
    /\ stage[q] = from
    /\ stage' = [stage EXCEPT ![q] = to]

Settle(q, from, to) ==
    /\ Innermost(q)
    /\ Move(q, from, to)
    /\ around' = [around EXCEPT ![q] = {}]

Init ==
    /\ stage = [q \in Requests |-> "new"]
    /\ around = [q \in Requests |-> {}]
    /\ entries = [q \in Requests |-> 0]

Reserve(q) ==
    /\ Move(q, "new", "reserved")
    /\ around' = [around EXCEPT ![q] = InHand]
    /\ UNCHANGED entries

Enter(q) ==
    /\ Innermost(q)
    /\ Move(q, "reserved", "running")
    /\ entries' = [entries EXCEPT ![q] = @ + 1]
    /\ UNCHANGED around

Answer(q) == Settle(q, "running", "answered") /\ UNCHANGED entries

\* A denial, a change under the guard, a fault: the executor is not entered.
Withdraw(q) == Settle(q, "reserved", "withdrawn") /\ UNCHANGED entries

\* A fault after the entry: nothing is recorded.
Lose(q) == Settle(q, "running", "lost") /\ UNCHANGED entries

\* The process ends: everything in hand is withdrawn or lost.
Halt ==
    /\ stage' = [q \in Requests |->
                    CASE stage[q] = "reserved" -> "withdrawn"
                      [] stage[q] = "running"  -> "lost"
                      [] OTHER                 -> stage[q]]
    /\ around' = [q \in Requests |-> {}]
    /\ UNCHANGED entries

Next ==
    \/ \E q \in Requests : Reserve(q) \/ Enter(q) \/ Answer(q) \/ Withdraw(q) \/ Lose(q)
    \/ Halt

Spec == Init /\ [][Next]_<<stage, around, entries>>

=============================================================================
