------------------------------ MODULE Lifecycle ------------------------------
(***************************************************************************)
(* The lifecycle of a relationship and the authority to change it          *)
(* (core.py: grant_lifecycle_authority, revoke_lifecycle_authority,        *)
(* transition; their projection in state.py, their rules in governance.py).*)
(* Every operation checks, records its decision and commits its change;    *)
(* each read and each commit is a step of its own, and a commit reads the  *)
(* head afresh, so it follows whatever was committed since the check.  A   *)
(* host may put an operation inside the store's execution guard.           *)
(*                                                                         *)
(* history holds the events after RelationshipCreated that matter here.    *)
(* What a change is about is a participant (authority) or a state.         *)
(***************************************************************************)
EXTENDS LifecycleRules, Naturals, Sequences

CONSTANTS
    Threads,
    Participants,
    System,         \* tria:system, the host's administration
    NoThread,       \* the guard is free
    MaxCalls        \* bound on the operations called

ASSUME LifecycleAssumption ==
    /\ NoThread \notin Threads
    /\ System \notin Participants
    /\ Participants # {}
    /\ Participants \intersect States = {}
    /\ MaxCalls \in Nat

VARIABLES
    history,        \* committed events of the relationship
    owner,          \* holder of the execution guard
    pc,             \* where each thread is in its operation
    op,             \* the operation and its arguments
    allowed,        \* the decision the thread has just taken
    from,           \* the lifecycle that transition() read
    calls

vars == <<history, owner, pc, op, allowed, from, calls>>

Kinds == {"transition", "grant", "revoke"}

Operation == [kind : Kinds, actor : Participants \union {System},
              about : States \union Participants]

Operations ==
    {o \in Operation :
        IF o.kind = "transition" THEN o.actor # System /\ o.about \in States
                                 ELSE o.about \in Participants}

\* An authority decision, a transition decision, or the change itself.
Event ==
    {e \in [type : {"authority", "permitted"} \union Kinds, by : Operations,
            from : States, allow : BOOLEAN] : e.type \in Kinds => e.type = e.by.kind}

-----------------------------------------------------------------------------
\* The projection of the first n events (reduce_events).

Moves(h, n) == {i \in 1..n : h[i].type = "transition"}

LifecycleAt(h, n) ==
    IF Moves(h, n) = {} THEN "FORMING"
    ELSE h[CHOOSE i \in Moves(h, n) : \A j \in Moves(h, n) : j <= i].by.about

\* The last grant or revocation of a's authority is a grant.
AuthorityAt(h, n, a) ==
    \E i \in 1..n :
        /\ h[i].type = "grant" /\ h[i].by.about = a
        /\ \A j \in (i + 1)..n : ~(h[j].type = "revoke" /\ h[j].by.about = a)

Now == LifecycleAt(history, Len(history))
HasAuthority(a) == AuthorityAt(history, Len(history), a)

-----------------------------------------------------------------------------

CanLock(t) == owner \in {NoThread, t}

Goto(t, places, to) ==
    /\ pc[t] \in places
    /\ pc' = [pc EXCEPT ![t] = to]

\* Mutant: an event is appended without the lock.
CommitUnlocked(t, type) ==
    history' = Append(history, [type |-> type, by |-> op[t], from |-> from[t],
                                allow |-> allowed[t]])

Commit(t, type) ==
    /\ CanLock(t)
    /\ history' = Append(history, [type |-> type, by |-> op[t], from |-> from[t],
                                   allow |-> allowed[t]])

Init ==
    /\ history = << >>
    /\ owner = NoThread
    /\ pc = [t \in Threads |-> "idle"]
    /\ op = [t \in Threads |-> CHOOSE o \in Operations : o.kind = "grant"]
    /\ allowed = [t \in Threads |-> FALSE]
    /\ from = [t \in Threads |-> "FORMING"]
    /\ calls = 0

\* An operation is called; tria:system needs no authority.
Call(t, o) ==
    /\ calls < MaxCalls
    /\ calls' = calls + 1
    /\ Goto(t, {"idle"}, IF o.actor = System THEN "commit" ELSE "authority")
    /\ op' = [op EXCEPT ![t] = o]
    /\ allowed' = [allowed EXCEPT ![t] = FALSE]
    /\ from' = [from EXCEPT ![t] = "FORMING"]
    /\ UNCHANGED <<history, owner>>

CheckAuthority(t) ==
    /\ Goto(t, {"authority"}, "record authority")
    /\ CanLock(t)
    /\ allowed' = [allowed EXCEPT ![t] = HasAuthority(op[t].actor)]
    /\ UNCHANGED <<history, owner, op, from, calls>>

\* Mutant: the denial is recorded and not raised.
RecordAuthorityOnly(t) ==
    /\ Goto(t, {"record authority"}, IF op[t].kind = "transition" THEN "from" ELSE "commit")
    /\ Commit(t, "authority")
    /\ UNCHANGED <<owner, op, allowed, from, calls>>

\* The decision is recorded, a denial is raised.
RecordAuthority(t) ==
    /\ Goto(t, {"record authority"},
            IF ~allowed[t] THEN "idle"
            ELSE IF op[t].kind = "transition" THEN "from" ELSE "commit")
    /\ Commit(t, "authority")
    /\ UNCHANGED <<owner, op, allowed, from, calls>>

ReadFrom(t) ==
    /\ Goto(t, {"from"}, "check")
    /\ CanLock(t)
    /\ from' = [from EXCEPT ![t] = Now]
    /\ UNCHANGED <<history, owner, op, allowed, calls>>

\* check_lifecycle_transition reads the state again.
CheckTransition(t) ==
    /\ Goto(t, {"check"}, "record")
    /\ CanLock(t)
    /\ allowed' = [allowed EXCEPT ![t] = op[t].about \in Successors(Now)]
    /\ UNCHANGED <<history, owner, op, from, calls>>

RecordTransition(t) ==
    /\ Goto(t, {"record"}, IF allowed[t] THEN "commit" ELSE "idle")
    /\ Commit(t, "permitted")
    /\ UNCHANGED <<owner, op, allowed, from, calls>>

CommitChange(t) ==
    /\ Goto(t, {"commit"}, "idle")
    /\ Commit(t, op[t].kind)
    /\ UNCHANGED <<owner, op, allowed, from, calls>>

\* A commit is stale: ConcurrentWriteError.  Never inside the guard (module
\* EventStore, GuardedCommitFits).
Refused(t) ==
    /\ Goto(t, {"record authority", "record", "commit"}, "idle")
    /\ owner = NoThread
    /\ UNCHANGED <<history, owner, op, allowed, from, calls>>

\* with relationship.execution_guard(): ... around operations.
EnterGuard(t) ==
    /\ pc[t] = "idle"
    /\ owner = NoThread
    /\ owner' = t
    /\ UNCHANGED <<history, pc, op, allowed, from, calls>>

ExitGuard(t) ==
    /\ pc[t] = "idle"
    /\ owner = t
    /\ owner' = NoThread
    /\ UNCHANGED <<history, pc, op, allowed, from, calls>>

Next ==
    \E t \in Threads :
        \/ \E o \in Operations : Call(t, o)
        \/ CheckAuthority(t) \/ RecordAuthority(t)
        \/ ReadFrom(t) \/ CheckTransition(t) \/ RecordTransition(t)
        \/ CommitChange(t) \/ Refused(t)
        \/ EnterGuard(t) \/ ExitGuard(t)

Spec == Init /\ [][Next]_vars

-----------------------------------------------------------------------------

\* The type invariant.
TypeOK ==
    /\ history \in Seq(Event)
    /\ owner \in Threads \union {NoThread}
    /\ pc \in [Threads -> {"idle", "authority", "record authority", "from", "check",
                           "record", "commit"}]
    /\ op \in [Threads -> Operations]
    /\ allowed \in [Threads -> BOOLEAN]
    /\ from \in [Threads -> States]
    /\ calls \in Nat

\* A change a participant made is explained by the record before it: a decision
\* that the actor holds authority, which was so at some point before it was
\* recorded, and for a transition a later decision that the state may be entered,
\* which was so after the authority was checked.  (transition() records each
\* decision before it goes on.)
AuthorityExplained(h, i, j) ==
    /\ h[j].type = "authority" /\ h[j].allow /\ h[j].by = h[i].by
    /\ \E n \in 0..(j - 1) : AuthorityAt(h, n, h[i].by.actor)

TransitionExplained(h, i, j, k) ==
    /\ h[k].type = "permitted" /\ h[k].allow /\ h[k].by = h[i].by /\ h[k].from = h[i].from
    /\ \E n \in j..(k - 1) : h[i].by.about \in Successors(LifecycleAt(h, n))

ChangesExplained ==
    \A i \in 1..Len(history) :
        history[i].type \in Kinds /\ history[i].by.actor # System =>
            \E j \in 1..(i - 1) :
                /\ AuthorityExplained(history, i, j)
                /\ history[i].type = "transition" =>
                      \E k \in (j + 1)..(i - 1) : TransitionExplained(history, i, j, k)

\* Inside the guard the checks of an operation still hold at its commit: the actor
\* has the authority, and a transition leaves the state it says it leaves, along
\* the graph.
GuardedChangeLegal ==
    [][\A t \in Threads :
          /\ owner = t
          /\ pc[t] = "commit"
          /\ history' # history
          /\ op[t].actor # System
          => /\ HasAuthority(op[t].actor)
             /\ op[t].kind = "transition" =>
                   op[t].about \in Successors(Now) /\ from[t] = Now]_vars

\* "DISSOLVED is terminal in this projection version" (lifecycle-authority.md:33).
DissolvedIsTerminal == [][Now = "DISSOLVED" => Now' = "DISSOLVED"]_vars

=============================================================================
