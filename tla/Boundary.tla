------------------------------ MODULE Boundary ------------------------------
(***************************************************************************)
(* References that cross from one relationship to another (boundary.py):   *)
(* disclosed at the source, admitted at the target with the handle that    *)
(* the disclosure returned, derived from at the target.  Each operation    *)
(* reads, checks a capability and commits; a read and a commit are steps   *)
(* of their own, and the commit reads the head afresh.  The relationships  *)
(* share a store, so its guard covers both.                                *)
(*                                                                         *)
(* An event's identifier and hash are its position in the history of its   *)
(* relationship, a disclosure's identifier (uuid4) is a number.  resource  *)
(* stands for resource and reference.  One actor in each relationship      *)
(* discloses, admits and derives, and the host grants and revokes in one   *)
(* name.  A check asks the record of its key only: races of several names  *)
(* and the lifecycle, which block more, are in module Permissions.         *)
(***************************************************************************)
EXTENDS Naturals, Sequences

CONSTANTS
    Threads,
    Relationships,
    Resources,      \* what the source relationships hold
    NoThread,       \* the guard is free
    MaxDisclosures, \* bound on the disclosures begun
    MaxChanges,     \* bound on grants and revocations
    MaxCalls        \* bound on admissions and derivations begun

ASSUME BoundaryAssumption ==
    /\ NoThread \notin Threads
    /\ Relationships # {} /\ Resources # {}
    /\ MaxDisclosures \in Nat /\ MaxChanges \in Nat /\ MaxCalls \in Nat

VARIABLES
    history,        \* [Relationships -> committed events]
    handles,        \* the DisclosureHandles that were returned to hosts
    owner,          \* holder of the execution guard
    pc,             \* where each thread is in its operation
    draft,          \* the event it is about to commit, and where
    nextId,         \* source of fresh disclosure identifiers
    changes, calls

vars == <<history, handles, owner, pc, draft, nextId, changes, calls>>

Positive == Nat \ {0}
Key == ({"DISCLOSE"} \X Resources) \union ({"STORE", "DERIVE"} \X Positive)

Disclosed == [type : {"disclosed"}, id : Positive, source : Relationships,
              target : Relationships, resource : Resources]
Admitted == [type : {"admitted"}, id : Positive, source : Relationships,
             event : Positive, resource : Resources]
Derived == [type : {"derived"}, id : Positive, source : Relationships,
            event : Positive, parent : Positive]
Movement == Disclosed \union Admitted \union Derived
Event == Movement \union [type : {"granted", "revoked"}, key : Key]

Handle == [id : Positive, source : Relationships, event : Positive, hash : Positive,
           target : Relationships, resource : Resources]

\* The authority a movement needs in the relationship that records it.
Needs(e) ==
    CASE e.type = "disclosed" -> <<"DISCLOSE", e.resource>>
      [] e.type = "admitted"  -> <<"STORE", e.id>>
      [] e.type = "derived"   -> <<"DERIVE", e.id>>

-----------------------------------------------------------------------------

\* check_capability on the first n events.
AllowedAt(h, n, key) ==
    \E i \in 1..n :
        /\ h[i].type = "granted" /\ h[i].key = key
        /\ \A j \in (i + 1)..n : ~(h[j].type = "revoked" /\ h[j].key = key)

Allowed(r, key) == AllowedAt(history[r], Len(history[r]), key)

\* The admissions of a disclosure that relationship r has recorded.
Admissions(r, id) ==
    {i \in 1..Len(history[r]) : history[r][i].type = "admitted" /\ history[r][i].id = id}

\* Mutant: the handle's resource and reference are not compared with the payload.
VerifiedButResource(source, h) ==
    /\ source = h.source
    /\ h.event \in 1..Len(history[source])
    /\ h.hash = h.event
    /\ \E x \in Resources :
          history[source][h.event] =
             [type |-> "disclosed", id |-> h.id, source |-> h.source,
              target |-> h.target, resource |-> x]

\* _verified_source_event
Verified(source, h) ==
    /\ source = h.source
    /\ h.event \in 1..Len(history[source])
    /\ h.hash = h.event
    /\ history[source][h.event] =
          [type |-> "disclosed", id |-> h.id, source |-> h.source,
           target |-> h.target, resource |-> h.resource]

-----------------------------------------------------------------------------

CanLock(t) == owner \in {NoThread, t}

Goto(t, from, to) ==
    /\ pc[t] = from
    /\ pc' = [pc EXCEPT ![t] = to]

\* Mutant: an event is appended without the lock.
CommitUnlocked(t, r, e) ==
    history' = [history EXCEPT ![r] = Append(@, e)]

Commit(t, r, e) ==
    /\ CanLock(t)
    /\ history' = [history EXCEPT ![r] = Append(@, e)]

Begin(t, r, e, to) ==
    /\ Goto(t, "idle", to)
    /\ CanLock(t)
    /\ draft' = [draft EXCEPT ![t] = [rel |-> r, event |-> e]]

SomeRelationship == CHOOSE r \in Relationships : TRUE
NoDraft == [rel |-> SomeRelationship,
            event |-> [type |-> "derived", id |-> 1, source |-> SomeRelationship,
                       event |-> 1, parent |-> 1]]

\* The locals of an operation are gone with its return.
Finish(t) ==
    /\ pc' = [pc EXCEPT ![t] = "idle"]
    /\ draft' = [draft EXCEPT ![t] = NoDraft]

Init ==
    /\ history = [r \in Relationships |-> << >>]
    /\ handles = {}
    /\ owner = NoThread
    /\ pc = [t \in Threads |-> "idle"]
    /\ draft = [t \in Threads |-> NoDraft]
    /\ nextId = 1
    /\ changes = 0
    /\ calls = 0

\* The host changes the authority of a relationship, for what exists.
GrantOrRevoke(t, r, key, type) ==
    /\ pc[t] = "idle"
    /\ changes < MaxChanges
    /\ changes' = changes + 1
    /\ key[1] # "DISCLOSE" => key[2] < nextId
    /\ Commit(t, r, [type |-> type, key |-> key])
    /\ UNCHANGED <<handles, owner, pc, draft, nextId, calls>>

\* disclose_reference: check DISCLOSE at the source.  A denied operation, here
\* and below, raises and changes nothing.
Disclose(t, source, target, resource) ==
    /\ nextId <= MaxDisclosures
    /\ Allowed(source, <<"DISCLOSE", resource>>)
    /\ Begin(t, source, [type |-> "disclosed", id |-> nextId, source |-> source,
                         target |-> target, resource |-> resource], "commit")
    /\ nextId' = nextId + 1
    /\ UNCHANGED <<history, handles, owner, changes, calls>>

\* Handles as hosts submit them: as returned, or with a field altered, or naming
\* the event of another.
Altered(h) ==
    {[h EXCEPT !.id = d] : d \in 1..(nextId - 1)}
    \union {[h EXCEPT !.source = r] : r \in Relationships}
    \union {[h EXCEPT !.target = r] : r \in Relationships}
    \union {[h EXCEPT !.resource = x] : x \in Resources}
    \union {[h EXCEPT !.event = g.event] : g \in handles}
    \union {[h EXCEPT !.hash = g.hash] : g \in handles}
    \union {[h EXCEPT !.event = g.event, !.hash = g.hash] : g \in handles}

Submitted == handles \union UNION {Altered(h) : h \in handles}

\* admit_disclosure: the source event is verified, then the target compared.
VerifySource(t, target, source, h) ==
    /\ calls < MaxCalls
    /\ calls' = calls + 1
    /\ Verified(source, h)
    /\ target = h.target
    /\ Begin(t, target, [type |-> "admitted", id |-> h.id, source |-> h.source,
                         event |-> h.event, resource |-> h.resource], "verified")
    /\ UNCHANGED <<history, handles, owner, nextId, changes>>

\* No earlier admission in the target's events.
NotAdmittedYet(t) ==
    /\ CanLock(t)
    /\ pc[t] = "verified"
    /\ IF Admissions(draft[t].rel, draft[t].event.id) = {}
          THEN Goto(t, "verified", "check") /\ UNCHANGED draft
          ELSE Finish(t)
    /\ UNCHANGED <<history, handles, owner, nextId, changes, calls>>

\* derive_from_disclosure: the last admission of the disclosure.
FindAdmission(t, target, id) ==
    /\ calls < MaxCalls
    /\ calls' = calls + 1
    /\ \E i \in Admissions(target, id) :
          /\ \A j \in Admissions(target, id) : j <= i
          /\ Begin(t, target, [type |-> "derived", id |-> id, parent |-> i,
                               source |-> history[target][i].source,
                               event |-> history[target][i].event], "check")
    /\ UNCHANGED <<history, handles, owner, nextId, changes>>

\* Mutant: who may store may derive.
CheckStore(t) ==
    /\ CanLock(t)
    /\ pc[t] = "check"
    /\ IF Allowed(draft[t].rel, <<"STORE", draft[t].event.id>>)
          THEN Goto(t, "check", "commit") /\ UNCHANGED draft
          ELSE Finish(t)
    /\ UNCHANGED <<history, handles, owner, nextId, changes, calls>>

\* check_capability: STORE for an admission, DERIVE for a derivation.
Check(t) ==
    /\ CanLock(t)
    /\ pc[t] = "check"
    /\ IF Allowed(draft[t].rel, Needs(draft[t].event))
          THEN Goto(t, "check", "commit") /\ UNCHANGED draft
          ELSE Finish(t)
    /\ UNCHANGED <<history, handles, owner, nextId, changes, calls>>

\* The event is committed; a disclosure returns its handle.
CommitMovement(t) ==
    LET r == draft[t].rel
        e == draft[t].event
    IN  /\ pc[t] = "commit"
        /\ Commit(t, r, e)
        /\ handles' = IF e.type # "disclosed" THEN handles
                      ELSE handles \union {[id |-> e.id, source |-> e.source,
                              event |-> Len(history'[r]), hash |-> Len(history'[r]),
                              target |-> e.target, resource |-> e.resource]}
        /\ Finish(t)
        /\ UNCHANGED <<owner, nextId, changes, calls>>

\* The commit is stale (ConcurrentWriteError): never inside the guard (module
\* EventStore, GuardedCommitFits).
Refused(t) ==
    /\ pc[t] = "commit"
    /\ owner = NoThread
    /\ Finish(t)
    /\ UNCHANGED <<history, handles, owner, nextId, changes, calls>>

\* with relationship.execution_guard(): ... around operations.
EnterGuard(t) ==
    /\ pc[t] = "idle"
    /\ owner = NoThread
    /\ owner' = t
    /\ UNCHANGED <<history, handles, pc, draft, nextId, changes, calls>>

ExitGuard(t) ==
    /\ pc[t] = "idle"
    /\ owner = t
    /\ owner' = NoThread
    /\ UNCHANGED <<history, handles, pc, draft, nextId, changes, calls>>

Keys == ({"DISCLOSE"} \X Resources) \union ({"STORE", "DERIVE"} \X (1..MaxDisclosures))

Step(t) ==
    \/ \E r \in Relationships, key \in Keys, type \in {"granted", "revoked"} :
          GrantOrRevoke(t, r, key, type)
    \/ \E r, target \in Relationships, x \in Resources : Disclose(t, r, target, x)
    \/ \E r, target \in Relationships, h \in Submitted : VerifySource(t, target, r, h)
    \/ NotAdmittedYet(t)
    \/ \E r \in Relationships, id \in 1..MaxDisclosures : FindAdmission(t, r, id)
    \/ Check(t)
    \/ CommitMovement(t)
    \/ Refused(t)
    \/ EnterGuard(t)
    \/ ExitGuard(t)

Next == \E t \in Threads : Step(t)

Spec == Init /\ [][Next]_vars

-----------------------------------------------------------------------------

\* The type invariant.
TypeOK ==
    /\ history \in [Relationships -> Seq(Event)]
    /\ handles \subseteq Handle
    /\ owner \in Threads \union {NoThread}
    /\ pc \in [Threads -> {"idle", "verified", "check", "commit"}]
    /\ draft \in [Threads -> [rel : Relationships, event : Movement]]
    /\ nextId \in Positive
    /\ changes \in Nat /\ calls \in Nat

\* What event e of relationship r claims to follow is on record: an admission
\* names a disclosure to r of the same reference in the named source; a
\* derivation names an admission of the same disclosure in r.
Traced(hs, r, e) ==
    /\ e.type = "admitted" =>
          /\ e.event \in 1..Len(hs[e.source])
          /\ hs[e.source][e.event] =
                [type |-> "disclosed", id |-> e.id, source |-> e.source,
                 target |-> r, resource |-> e.resource]
    /\ e.type = "derived" =>
          /\ e.parent \in 1..Len(hs[r])
          /\ hs[r][e.parent].type = "admitted"
          /\ hs[r][e.parent].id = e.id
          /\ hs[r][e.parent].source = e.source
          /\ hs[r][e.parent].event = e.event

\* Every admission is traced to the disclosure it stands for, whichever field of
\* a handle was altered and wherever it was submitted: no reference enters a
\* relationship that it was not disclosed to, or as another.
AdmissionTraced ==
    \A r \in Relationships : \A i \in 1..Len(history[r]) :
        history[r][i].type = "admitted" => Traced(history, r, history[r][i])

\* Every derivation is traced to an admission in its own relationship, and with
\* it to the disclosure: disclosure alone never leads to a derivation.
DerivationTraced ==
    \A r \in Relationships : \A i \in 1..Len(history[r]) :
        history[r][i].type = "derived" =>
            /\ history[r][i].parent < i
            /\ Traced(history, r, history[r][i])

\* Whatever is moved into a relationship or derived there is on record where it
\* came from, back to the disclosure.
MovementTraced == AdmissionTraced /\ DerivationTraced

\* Each movement had an authority of its own: DISCLOSE, STORE or DERIVE of what
\* is moved was allowed, in the relationship that records the movement, at some
\* moment before it did.
MovementAuthorized ==
    \A r \in Relationships : \A i \in 1..Len(history[r]) :
        history[r][i].type \in {"disclosed", "admitted", "derived"} =>
            \E n \in 0..(i - 1) : AllowedAt(history[r], n, Needs(history[r][i]))

\* Inside the guard a movement is allowed at the moment it commits, and an
\* admission is the first of its disclosure.
GuardedMovement ==
    [][\A t \in Threads :
          owner = t /\ pc[t] = "commit" /\ history' # history =>
              /\ Allowed(draft[t].rel, Needs(draft[t].event))
              /\ draft[t].event.type = "admitted" =>
                    Admissions(draft[t].rel, draft[t].event.id) = {}]_vars

=============================================================================
