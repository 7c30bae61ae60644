----------------------------- MODULE Permissions -----------------------------
(***************************************************************************)
(* Permissions on one resource: granted and revoked by the host in a       *)
(* participant's name (core.py: grant_permission, revoke_permission),      *)
(* delegated by a participant that holds DELEGATE (delegate_permission),   *)
(* and checked against the projection of the history (state.py,            *)
(* governance.py), which blocks a key whose latest grant and latest        *)
(* revocation are not causally ordered (causality.py) and a capability the *)
(* lifecycle does not permit.  A delegation checks, records its decision   *)
(* and commits; each is a step of its own.                                 *)
(*                                                                         *)
(* An event's identifier is its position in the history.  Purposes,        *)
(* conditions and expiry are left out: as functions of one grant, the      *)
(* arguments of a check and the clock they block checks and open nothing   *)
(* that is blocked here (module ExecutionBridge has expiry).               *)
(***************************************************************************)
EXTENDS LifecycleRules, Naturals, Sequences, FiniteSets

CONSTANTS
    Threads,
    Participants,
    Grantors,       \* in whose names the host grants and revokes
    Delegators,     \* the participants that delegate
    Capabilities,   \* that permissions are given for
    Governance,     \* tria:governance, the actor of decisions
    NoThread,       \* the guard is free
    MaxCalls,       \* bound on the operations called
    MaxParents      \* bound on the causal parents of an event

ASSUME PermissionAssumption ==
    /\ NoThread \notin Threads
    /\ Governance \notin Participants \union Grantors
    /\ Participants # {} /\ Capabilities # {}
    /\ Capabilities \subseteq Capability
    /\ Delegators \subseteq Participants
    /\ MaxCalls \in Nat /\ MaxParents \in Nat

VARIABLES
    history,        \* committed events of the relationship
    owner,          \* holder of the execution guard
    pc,             \* where each thread is in delegate_permission
    op,             \* its arguments
    allowed,        \* the decision it has taken
    calls

vars == <<history, owner, pc, op, allowed, calls>>

Delegate == "DELEGATE"
Key == Participants \X Capabilities

\* key is the permission an event is about, or the state a transition enters.
Event == [type : {"granted", "revoked", "decided", "transition"},
          actor : Participants \union Grantors \union {Governance},
          key : Key \union States, parents : SUBSET Nat, delegated : BOOLEAN,
          by : Participants, allow : BOOLEAN]
Operation == [by : Participants, key : Key, parents : SUBSET Nat]

-----------------------------------------------------------------------------
\* The projection of the first n events.

\* The events a causal chain from event r leads back to.
Ancestors(h) ==
    LET before[r \in 1..Len(h)] ==
            h[r].parents \union UNION {before[p] : p \in h[r].parents}
    IN  before

\* One actor's events are in the order of its sequence numbers.
Precedes(h, l, r) ==
    \/ h[l].actor = h[r].actor /\ l < r
    \/ l \in Ancestors(h)[r]

\* Mutant: a grantee's permissions are not told apart.
OfGrantee(h, n, type, key) == {i \in 1..n : h[i].type = type /\ h[i].key[1] = key[1]}

Of(h, n, type, key) == {i \in 1..n : h[i].type = type /\ h[i].key = key}
Latest(S) == CHOOSE i \in S : \A j \in S : j <= i

\* Mutant: an ambiguity is forgotten with the next event.
AmbiguousUntilNext(h, n, key) ==
    LET grants == Of(h, n, "granted", key)
        revokes == Of(h, n, "revoked", key)
    IN  /\ grants # {} /\ revokes # {}
        /\ ~Precedes(h, Latest(grants), Latest(revokes))
        /\ ~Precedes(h, Latest(revokes), Latest(grants))
        /\ Latest(revokes) = n

\* ambiguous_permissions
Ambiguous(h, n, key) ==
    LET grants == Of(h, n, "granted", key)
        revokes == Of(h, n, "revoked", key)
    IN  /\ grants # {} /\ revokes # {}
        /\ ~Precedes(h, Latest(grants), Latest(revokes))
        /\ ~Precedes(h, Latest(revokes), Latest(grants))

\* PermissionRecord.active
Active(h, n, key) ==
    LET grants == Of(h, n, "granted", key)
        revokes == Of(h, n, "revoked", key)
    IN  grants # {} /\ \A r \in revokes : r < Latest(grants)

LifecycleAt(h, n) ==
    LET moves == {i \in 1..n : h[i].type = "transition"}
    IN  IF moves = {} THEN "FORMING" ELSE h[Latest(moves)].key

\* The record of the key, without the lifecycle.
Open(h, n, key) == Active(h, n, key) /\ ~Ambiguous(h, n, key)

\* require_capability allows.
AllowedAt(h, n, key) == Open(h, n, key) /\ key[2] \in Permitted(LifecycleAt(h, n))
Allowed(key) == AllowedAt(history, Len(history), key)

-----------------------------------------------------------------------------

CanLock(t) == owner \in {NoThread, t}

Goto(t, from, to) ==
    /\ pc[t] = from
    /\ pc' = [pc EXCEPT ![t] = to]

ParentSets == {P \in SUBSET (1..Len(history)) : Cardinality(P) <= MaxParents}

\* Mutant: a commit does not wait for the lock.
CommitUnlocked(t, e) ==
    /\ history' = Append(history, e)

Commit(t, e) ==
    /\ CanLock(t)
    /\ history' = Append(history, e)

Change(type, actor, key, parents, delegated) ==
    [type |-> type, actor |-> actor, key |-> key, parents |-> parents,
     delegated |-> delegated, by |-> key[1], allow |-> FALSE]

NoOperation == CHOOSE o \in [by : Participants, key : Key, parents : {{}}] : TRUE

Init ==
    /\ history = << >>
    /\ owner = NoThread
    /\ pc = [t \in Threads |-> "idle"]
    /\ op = [t \in Threads |-> NoOperation]
    /\ allowed = [t \in Threads |-> FALSE]
    /\ calls = 0

Called ==
    /\ calls < MaxCalls
    /\ calls' = calls + 1

\* The locals of delegate_permission are gone with its return.
Finish(t) ==
    /\ pc' = [pc EXCEPT ![t] = "idle"]
    /\ op' = [op EXCEPT ![t] = NoOperation]
    /\ allowed' = [allowed EXCEPT ![t] = FALSE]

\* The host grants in a participant's or its own name: no check of authority.
GrantPermission(t, actor, key) ==
    /\ pc[t] = "idle"
    /\ Called
    /\ \E P \in ParentSets : Commit(t, Change("granted", actor, key, P, FALSE))
    /\ UNCHANGED <<owner, pc, op, allowed>>

RevokePermission(t, actor, key) ==
    /\ pc[t] = "idle"
    /\ Called
    /\ \E P \in ParentSets : Commit(t, Change("revoked", actor, key, P, FALSE))
    /\ UNCHANGED <<owner, pc, op, allowed>>

\* transition: decided on the first n events, which outside the guard need not be
\* all of them (module Lifecycle has its steps and the authority it takes).
Transition(t, a, to) ==
    /\ pc[t] = "idle"
    /\ Called
    /\ \E n \in 0..Len(history) :
          /\ owner = t => n = Len(history)
          /\ to \in Successors(LifecycleAt(history, n))
    /\ Commit(t, [type |-> "transition", actor |-> a, key |-> to, parents |-> {},
                  delegated |-> FALSE, by |-> a, allow |-> FALSE])
    /\ UNCHANGED <<owner, pc, op, allowed>>

\* delegate_permission is called.
StartDelegation(t, by, key) ==
    /\ Goto(t, "idle", "check")
    /\ Called
    /\ \E P \in ParentSets :
          op' = [op EXCEPT ![t] = [by |-> by, key |-> key, parents |-> P]]
    /\ UNCHANGED <<history, owner, allowed>>

\* Mutant: the capability to be delegated is checked instead of DELEGATE.
CheckDelegatedCapability(t) ==
    /\ Goto(t, "check", "record")
    /\ CanLock(t)
    /\ allowed' = [allowed EXCEPT ![t] = Allowed(<<op[t].by, op[t].key[2]>>)]
    /\ UNCHANGED <<history, owner, op, calls>>

\* check_capability(delegated_by, resource, DELEGATE)
CheckDelegate(t) ==
    /\ Goto(t, "check", "record")
    /\ CanLock(t)
    /\ allowed' = [allowed EXCEPT ![t] = Allowed(<<op[t].by, Delegate>>)]
    /\ UNCHANGED <<history, owner, op, calls>>

\* The decision is recorded, a denial is raised (DelegationError).
RecordDecision(t) ==
    /\ pc[t] = "record"
    /\ IF allowed[t] THEN Goto(t, "record", "commit") /\ UNCHANGED <<op, allowed>>
                     ELSE Finish(t)
    /\ Commit(t, [type |-> "decided", actor |-> Governance, key |-> op[t].key,
                  parents |-> {}, delegated |-> TRUE, by |-> op[t].by, allow |-> allowed[t]])
    /\ UNCHANGED <<owner, calls>>

CommitDelegation(t) ==
    /\ pc[t] = "commit"
    /\ Commit(t, [Change("granted", op[t].by, op[t].key, op[t].parents, TRUE)
                     EXCEPT !.by = op[t].by])
    /\ Finish(t)
    /\ UNCHANGED <<owner, calls>>

\* A commit is stale: ConcurrentWriteError.  Never inside the guard (module
\* EventStore, GuardedCommitFits).
Refused(t) ==
    /\ pc[t] \in {"record", "commit"}
    /\ owner = NoThread
    /\ Finish(t)
    /\ UNCHANGED <<history, owner, calls>>

\* with relationship.execution_guard(): ... around operations.
EnterGuard(t) ==
    /\ pc[t] = "idle"
    /\ owner = NoThread
    /\ owner' = t
    /\ UNCHANGED <<history, pc, op, allowed, calls>>

ExitGuard(t) ==
    /\ pc[t] = "idle"
    /\ owner = t
    /\ owner' = NoThread
    /\ UNCHANGED <<history, pc, op, allowed, calls>>

Next ==
    \E t \in Threads :
        \/ \E a \in Grantors, k \in Key : GrantPermission(t, a, k) \/ RevokePermission(t, a, k)
        \/ \E a \in Participants, s \in States : Transition(t, a, s)
        \/ \E a \in Delegators, k \in Key : StartDelegation(t, a, k)
        \/ CheckDelegate(t) \/ RecordDecision(t) \/ CommitDelegation(t)
        \/ Refused(t)
        \/ EnterGuard(t) \/ ExitGuard(t)

Spec == Init /\ [][Next]_vars

-----------------------------------------------------------------------------

\* The type invariant.
TypeOK ==
    /\ history \in Seq(Event)
    /\ owner \in Threads \union {NoThread}
    /\ pc \in [Threads -> {"idle", "check", "record", "commit"}]
    /\ op \in [Threads -> Operation]
    /\ allowed \in [Threads -> BOOLEAN]
    /\ calls \in Nat

\* Revocation dominates: a key is allowed only while its latest revocation, if
\* there is one, causally precedes its latest grant.
RevocationDominates ==
    \A key \in Key : Allowed(key) =>
        LET grants == Of(history, Len(history), "granted", key)
            revokes == Of(history, Len(history), "revoked", key)
        IN  revokes # {} => Precedes(history, Latest(revokes), Latest(grants))

\* A key is opened by a grant of that key, or by a transition that permits again
\* what its record had left open, and by nothing else: no decision, no revocation
\* and no event about another key resolves an ambiguity, and no transition does.
OpenedByGrant ==
    [][\A key \in Key :
          ~Allowed(key) /\ Allowed(key)' =>
              LET last == history'[Len(history')]
              IN  \/ last.type = "granted" /\ last.key = key
                  \/ last.type = "transition" /\ Open(history, Len(history), key)]_vars

\* A delegated grant is explained by the record before it: an ALLOW decision
\* for the same delegation, made when the grantor did hold DELEGATE.
DelegationExplained ==
    \A i \in 1..Len(history) :
        history[i].type = "granted" /\ history[i].delegated =>
            \E j \in 1..(i - 1) :
                /\ history[j].type = "decided" /\ history[j].allow
                /\ history[j].by = history[i].by /\ history[j].key = history[i].key
                /\ \E n \in 0..(j - 1) : AllowedAt(history, n, <<history[i].by, Delegate>>)

\* Inside the guard the grantor still holds DELEGATE when the grant commits.
GuardedDelegationHeld ==
    [][\A t \in Threads :
          owner = t /\ pc[t] = "commit" /\ history' # history =>
              Allowed(<<op[t].by, Delegate>>)]_vars

\* The causal past of each event by both rules of the document together: causal
\* parents, and the order of an actor's own events.
CausalPast(h) ==
    LET past[i \in 1..Len(h)] ==
            LET before == h[i].parents \union {j \in 1..(i - 1) : h[j].actor = h[i].actor}
            IN  before \union UNION {past[j] : j \in before}
    IN  past

\* "If a grant and revocation are cross-actor and neither causally precedes the
\* other, authorization fails closed even if storage order would otherwise leave
\* the permission active" (delegation-and-races.md:11).
UnorderedRaceFailsClosed ==
    \A key \in Key : Allowed(key) =>
        LET g == Latest(Of(history, Len(history), "granted", key))
        IN  \A r \in Of(history, Len(history), "revoked", key) :
                r \in CausalPast(history)[g] \/ g \in CausalPast(history)[r]

=============================================================================
