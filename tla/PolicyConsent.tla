---------------------------- MODULE PolicyConsent ----------------------------
(***************************************************************************)
(* Policies, the authority over them, and the consents they put in         *)
(* question (core.py: grant_consent to revoke_policy; their projection in  *)
(* state.py, their rules in governance.py).  A policy change checks the    *)
(* actor's authority for a scope, records the decision and commits, an     *)
(* adoption reads the definitions in between, a revocation the adoption    *)
(* first.  Each read and each commit is a step of its own unless the host  *)
(* puts the operation inside the execution guard.                          *)
(*                                                                         *)
(* A policy is an identifier with its version.  Registering and amending   *)
(* are one operation here: they are checked and projected alike.           *)
(***************************************************************************)
EXTENDS Naturals, Sequences

CONSTANTS
    Threads,
    Participants,
    Scopes,
    Policies,
    System,           \* tria:system, the host's administration
    Grantors,         \* who grants and revokes policy authority
    NoScope,          \* not defined, not adopted
    NoThread,         \* the guard is free
    InitialAuthority, \* who holds policy authority when the model begins
    MaxCalls          \* bound on the operations called

ASSUME PolicyAssumption ==
    /\ NoThread \notin Threads
    /\ NoScope \notin Scopes
    /\ System \notin Participants
    /\ Grantors \subseteq Participants \union {System}
    /\ Participants # {} /\ Scopes # {}
    /\ InitialAuthority \subseteq Participants \X Scopes
    /\ MaxCalls \in Nat

VARIABLES
    history,        \* committed events of the relationship
    state,          \* their projection
    owner,          \* holder of the execution guard
    pc,             \* where each thread is in its operation
    op,             \* the change it was called for
    scope,          \* the scope it needs authority over
    allowed,        \* the decision it has just taken
    calls

vars == <<history, state, owner, pc, op, scope, allowed, calls>>

Consents == [type : {"consented", "withdrawn"}, actor : Participants, scope : Scopes]
Authorities == [type : {"authorized", "deauthorized"}, actor : Grantors,
                holder : Participants, scope : Scopes]
Definitions == [type : {"defined"}, actor : Participants, policy : Policies,
                scope : Scopes, impacting : BOOLEAN]
Adoptions == [type : {"adopted"}, actor : Participants, policy : Policies, scope : Scopes]
Revocations == [type : {"revoked"}, actor : Participants, policy : Policies]

Change == Consents \union Authorities \union Definitions \union Adoptions \union Revocations
Kinds == {"consented", "withdrawn", "authorized", "deauthorized", "defined", "adopted", "revoked"}

Decision == [type : {"decided"}, operation : Kinds, actor : Participants, scope : Scopes,
             allow : BOOLEAN]
Event == Change \union Decision

Projection == [consent : SUBSET (Participants \X Scopes),
               reconsent : SUBSET (Participants \X Scopes),
               authority : SUBSET (Participants \X Scopes),
               definition : [Policies -> Scopes \union {NoScope}],
               adoption : [Policies -> Scopes \union {NoScope}],
               inForce : SUBSET Policies]

\* tria:system and a participant who consents ask nobody.
NeedsAuthority(c) ==
    c.type \in {"authorized", "deauthorized", "defined", "adopted", "revoked"} /\ c.actor # System

-----------------------------------------------------------------------------
\* reduce_events, one event: what each part of the projection makes of it.

Consent(s, e) ==
    IF e.type = "consented" THEN s.consent \union {<<e.actor, e.scope>>}
    ELSE IF e.type = "withdrawn" THEN s.consent \ {<<e.actor, e.scope>>}
    ELSE s.consent

\* Mutant: only a policy's first version asks for renewal.
ReconsentFirstVersion(s, e) ==
    IF e.type = "consented" THEN s.reconsent \ {<<e.actor, e.scope>>}
    ELSE IF e.type = "defined" /\ e.impacting /\ s.definition[e.policy] = NoScope
    THEN s.reconsent \union {k \in s.consent : k[2] = e.scope}
    ELSE s.reconsent

\* A consent-impacting version asks to renew the consents active in its scope.
Reconsent(s, e) ==
    IF e.type = "consented" THEN s.reconsent \ {<<e.actor, e.scope>>}
    ELSE IF e.type = "defined" /\ e.impacting
    THEN s.reconsent \union {k \in s.consent : k[2] = e.scope}
    ELSE s.reconsent

Authority(s, e) ==
    IF e.type = "authorized" THEN s.authority \union {<<e.holder, e.scope>>}
    ELSE IF e.type = "deauthorized" THEN s.authority \ {<<e.holder, e.scope>>}
    ELSE s.authority

Definition(s, e) ==
    IF e.type = "defined" THEN [s.definition EXCEPT ![e.policy] = e.scope] ELSE s.definition

Adoption(s, e) ==
    IF e.type = "adopted" THEN [s.adoption EXCEPT ![e.policy] = e.scope] ELSE s.adoption

InForce(s, e) ==
    IF e.type = "adopted" THEN s.inForce \union {e.policy}
    ELSE IF e.type = "revoked" THEN s.inForce \ {e.policy}
    ELSE s.inForce

Reduce(s, e) ==
    [consent |-> Consent(s, e), reconsent |-> Reconsent(s, e), authority |-> Authority(s, e),
     definition |-> Definition(s, e), adoption |-> Adoption(s, e), inForce |-> InForce(s, e)]

\* require_active_consent
ConsentAllowed(a, s) ==
    <<a, s>> \in state.consent /\ <<a, s>> \notin state.reconsent

\* require_policy_authority
HasAuthority(a, s) == <<a, s>> \in state.authority

\* The same, of the first n events.
AuthorityAt(n, a, s) ==
    \/ /\ <<a, s>> \in InitialAuthority
       /\ \A j \in 1..n : ~(history[j].type = "deauthorized"
                            /\ history[j].holder = a /\ history[j].scope = s)
    \/ \E i \in 1..n :
          /\ history[i].type = "authorized" /\ history[i].holder = a /\ history[i].scope = s
          /\ \A j \in (i + 1)..n : ~(history[j].type = "deauthorized"
                                     /\ history[j].holder = a /\ history[j].scope = s)

-----------------------------------------------------------------------------

CanLock(t) == owner \in {NoThread, t}

Goto(t, places, to) ==
    /\ pc[t] \in places
    /\ pc' = [pc EXCEPT ![t] = to]

\* Mutant: an event is appended without the lock.
CommitUnlocked(t, e) ==
    /\ history' = Append(history, e)
    /\ state' = Reduce(state, e)

Commit(t, e) ==
    /\ CanLock(t)
    /\ history' = Append(history, e)
    /\ state' = Reduce(state, e)

Init ==
    /\ history = << >>
    /\ state = [consent |-> {}, reconsent |-> {}, authority |-> InitialAuthority,
                definition |-> [p \in Policies |-> NoScope],
                adoption |-> [p \in Policies |-> NoScope], inForce |-> {}]
    /\ owner = NoThread
    /\ pc = [t \in Threads |-> "idle"]
    /\ op = [t \in Threads |-> CHOOSE c \in Consents : TRUE]
    /\ scope = [t \in Threads |-> CHOOSE s \in Scopes : TRUE]
    /\ allowed = [t \in Threads |-> FALSE]
    /\ calls = 0

Begin(t, c, s) ==
    /\ calls < MaxCalls
    /\ calls' = calls + 1
    /\ Goto(t, {"idle"}, IF NeedsAuthority(c) THEN "check" ELSE "commit")
    /\ op' = [op EXCEPT ![t] = c]
    /\ scope' = [scope EXCEPT ![t] = s]
    /\ allowed' = [allowed EXCEPT ![t] = FALSE]
    /\ UNCHANGED <<history, state, owner>>

\* An operation that is told its scope.
Call(t, c) == c.type # "revoked" /\ Begin(t, c, c.scope)

\* Mutant: a revocation is checked in any scope.
CallRevokeAnywhere(t, c) ==
    /\ CanLock(t)
    /\ \E s \in Scopes : Begin(t, c, s)

\* revoke_policy takes the scope of the adoption; without one it raises at once.
CallRevoke(t, c) ==
    /\ CanLock(t)
    /\ state.adoption[c.policy] # NoScope
    /\ Begin(t, c, state.adoption[c.policy])

CheckAuthority(t) ==
    /\ Goto(t, {"check"}, "record")
    /\ CanLock(t)
    /\ allowed' = [allowed EXCEPT ![t] = HasAuthority(op[t].actor, scope[t])]
    /\ UNCHANGED <<history, state, owner, op, scope, calls>>

\* The decision is recorded, a denial is raised.
RecordDecision(t) ==
    /\ Goto(t, {"record"},
            IF ~allowed[t] THEN "idle"
            ELSE IF op[t].type = "adopted" THEN "definition" ELSE "commit")
    /\ Commit(t, [type |-> "decided", operation |-> op[t].type, actor |-> op[t].actor,
                  scope |-> scope[t], allow |-> allowed[t]])
    /\ UNCHANGED <<owner, op, scope, allowed, calls>>

\* adopt_policy: a policy that was not registered raises.
ReadDefinition(t) ==
    /\ Goto(t, {"definition"},
            IF state.definition[op[t].policy] = NoScope THEN "idle" ELSE "commit")
    /\ CanLock(t)
    /\ UNCHANGED <<history, state, owner, op, scope, allowed, calls>>

CommitChange(t) ==
    /\ Goto(t, {"commit"}, "idle")
    /\ Commit(t, op[t])
    /\ UNCHANGED <<owner, op, scope, allowed, calls>>

\* A commit is stale: ConcurrentWriteError.  Never inside the guard (module
\* EventStore, GuardedCommitFits).
Refused(t) ==
    /\ Goto(t, {"record", "commit"}, "idle")
    /\ owner = NoThread
    /\ UNCHANGED <<history, state, owner, op, scope, allowed, calls>>

\* with relationship.execution_guard(): ... around operations.
EnterGuard(t) ==
    /\ pc[t] = "idle"
    /\ owner = NoThread
    /\ owner' = t
    /\ UNCHANGED <<history, state, pc, op, scope, allowed, calls>>

ExitGuard(t) ==
    /\ pc[t] = "idle"
    /\ owner = t
    /\ owner' = NoThread
    /\ UNCHANGED <<history, state, pc, op, scope, allowed, calls>>

Next ==
    \E t \in Threads :
        \/ \E c \in Change \ Revocations : Call(t, c)
        \/ \E c \in Revocations : CallRevoke(t, c)
        \/ CheckAuthority(t) \/ RecordDecision(t) \/ ReadDefinition(t)
        \/ CommitChange(t) \/ Refused(t)
        \/ EnterGuard(t) \/ ExitGuard(t)

Spec == Init /\ [][Next]_vars

-----------------------------------------------------------------------------

\* The type invariant.
TypeOK ==
    /\ history \in Seq(Event)
    /\ state \in Projection
    /\ owner \in Threads \union {NoThread}
    /\ pc \in [Threads -> {"idle", "check", "record", "definition", "commit"}]
    /\ op \in [Threads -> Change]
    /\ scope \in [Threads -> Scopes]
    /\ allowed \in [Threads -> BOOLEAN]
    /\ calls \in Nat

\* A consent is relied on exactly when the participant granted it after the last
\* policy version that changes its terms, and has not withdrawn it since: a
\* version puts in question what was granted before it, whatever was withdrawn,
\* renewed or amended in between, and nothing else (require_active_consent on the
\* projection of reduce_events).
GrantedSince(h, a, s) ==
    \E i \in 1..Len(h) :
        /\ h[i].type = "consented" /\ h[i].actor = a /\ h[i].scope = s
        /\ \A j \in (i + 1)..Len(h) :
              /\ ~(h[j].type = "withdrawn" /\ h[j].actor = a /\ h[j].scope = s)
              /\ ~(h[j].type = "defined" /\ h[j].scope = s /\ h[j].impacting)

ConsentFollowsTerms ==
    \A a \in Participants, s \in Scopes : ConsentAllowed(a, s) <=> GrantedSince(history, a, s)

\* Every policy change a participant made is explained by the record before it: an
\* ALLOW decision for that operation, taken while the actor held authority over
\* the scope, which for a revocation is a scope the policy was adopted in before
\* the decision; an adopted policy was defined before (_require_policy_authority,
\* adopt_policy, revoke_policy).
ExplainedBy(e, j) ==
    LET d == history[j]
    IN  /\ d.type = "decided" /\ d.allow
        /\ d.operation = e.type /\ d.actor = e.actor
        /\ \E n \in 0..(j - 1) : AuthorityAt(n, d.actor, d.scope)
        /\ IF e.type = "revoked"
           THEN \E k \in 1..(j - 1) :
                   history[k].type = "adopted" /\ history[k].policy = e.policy
                                               /\ history[k].scope = d.scope
           ELSE d.scope = e.scope

PolicyChangesExplained ==
    \A i \in 1..Len(history) :
        history[i].type # "decided" /\ NeedsAuthority(history[i]) =>
            /\ \E j \in 1..(i - 1) : ExplainedBy(history[i], j)
            /\ history[i].type = "adopted" =>
                  \E k \in 1..(i - 1) :
                      history[k].type = "defined" /\ history[k].policy = history[i].policy

\* Inside the guard the checks of a policy change still hold at its commit: the
\* actor has authority over the scope, and a revocation's scope is the one the
\* policy is adopted in.
GuardedPolicyChange ==
    [][\A t \in Threads :
          owner = t /\ pc[t] = "commit" /\ history' # history /\ NeedsAuthority(op[t]) =>
              /\ HasAuthority(op[t].actor, scope[t])
              /\ op[t].type = "adopted" => state.definition[op[t].policy] # NoScope
              /\ op[t].type = "revoked" => scope[t] = state.adoption[op[t].policy]]_vars

\* "Registering, amending, adopting, or revoking a policy requires active
\* authority for the policy's scope." (policy-authority.md:12): who adopts a
\* policy held authority over the scope the policy is defined in.
AdopterGoverns ==
    [][\A t \in Threads :
          pc[t] = "commit" /\ history' # history /\ pc'[t] = "idle" /\ op[t].type = "adopted" =>
              \E n \in 0..Len(history) :
                  AuthorityAt(n, op[t].actor, state.definition[op[t].policy])]_vars

=============================================================================
