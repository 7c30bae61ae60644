---------------------------- MODULE BoundaryProofs ----------------------------
(***************************************************************************)
(* Proofs about Boundary.  Histories only grow, so what a draft or an      *)
(* event was traced to, and the moment it was authorized at, stay on       *)
(* record; and while a thread holds the guard no history changes but by    *)
(* its own commits, so what it has checked still holds.                    *)
(***************************************************************************)
EXTENDS Boundary, TLAPS

PCs == {"idle", "verified", "check", "commit"}

\* An event of each type has that type's fields.
LEMMA EventTypes ==
    ASSUME NEW e \in Event
    PROVE  /\ e.type = "disclosed" => e \in Disclosed
           /\ e.type = "admitted" => e \in Admitted
           /\ e.type = "derived" => e \in Derived
           /\ e.type \in {"granted", "revoked", "disclosed", "admitted", "derived"}
BY DEF Event, Movement, Disclosed, Admitted, Derived

LEMMA LenType ==
    ASSUME TypeOK, NEW r \in Relationships
    PROVE  /\ history[r] \in Seq(Event)
           /\ Len(history[r]) \in Nat
           /\ \A i \in 1..Len(history[r]) : history[r][i] \in Event
BY DEF TypeOK

\* An altered handle is still a handle.
LEMMA SubmittedType ==
    ASSUME TypeOK, NEW h \in Submitted
    PROVE  h \in Handle
<1>1. handles \subseteq Handle /\ nextId \in Nat \ {0}
  BY DEF TypeOK, Positive
<1>2. ASSUME NEW g \in handles, NEW f \in Altered(g)
      PROVE  f \in Handle
  <2>1. CASE f \in {[g EXCEPT !.id = d] : d \in 1..(nextId - 1)}
    BY <1>1, <2>1 DEF Handle, Positive
  <2>2. CASE f \in {[g EXCEPT !.source = r] : r \in Relationships}
    BY <1>1, <2>2 DEF Handle
  <2>3. CASE f \in {[g EXCEPT !.target = r] : r \in Relationships}
    BY <1>1, <2>3 DEF Handle
  <2>4. CASE f \in {[g EXCEPT !.resource = x] : x \in Resources}
    BY <1>1, <2>4 DEF Handle
  <2>5. \A k \in handles : k.event \in Positive /\ k.hash \in Positive
    BY <1>1 DEF Handle
  <2>6. CASE f \in {[g EXCEPT !.event = k.event] : k \in handles}
    BY <1>1, <2>5, <2>6 DEF Handle
  <2>7. CASE f \in {[g EXCEPT !.hash = k.hash] : k \in handles}
    BY <1>1, <2>5, <2>7 DEF Handle
  <2>8. CASE f \in {[g EXCEPT !.event = k.event, !.hash = k.hash] : k \in handles}
    <3>1. PICK k \in handles : f = [g EXCEPT !.event = k.event, !.hash = k.hash]
      BY <2>8
    <3> QED
      BY <1>1, <2>5, <3>1 DEF Handle
  <2> QED
    BY <1>2, <2>1, <2>2, <2>3, <2>4, <2>6, <2>7, <2>8 DEF Altered
<1>3. h \in handles \/ \E g \in handles : h \in Altered(g)
  BY DEF Submitted
<1> QED
  BY <1>1, <1>2, <1>3

LEMMA NoDraftType == NoDraft \in [rel : Relationships, event : Movement]
<1>1. SomeRelationship \in Relationships
  BY BoundaryAssumption DEF SomeRelationship
<1>2. NoDraft.event \in Derived
  BY <1>1 DEF NoDraft, Derived, Positive
<1> QED
  BY <1>1, <1>2 DEF NoDraft, Movement

-----------------------------------------------------------------------------
\* The type invariant.

LEMMA InitType == Init => TypeOK
<1> SUFFICES ASSUME Init PROVE TypeOK
  OBVIOUS
<1>1. history \in [Relationships -> Seq(Event)]
  BY DEF Init
<1> QED
  BY <1>1, NoDraftType DEF Init, TypeOK, Positive

LEMMA CommitType ==
    ASSUME TypeOK, NEW t \in Threads, NEW r \in Relationships, NEW e \in Event, Commit(t, r, e)
    PROVE  /\ history' \in [Relationships -> Seq(Event)]
           /\ \A q \in Relationships : q # r => history'[q] = history[q]
           /\ history'[r] = Append(history[r], e)
           /\ Len(history'[r]) = Len(history[r]) + 1
           /\ history'[r][Len(history[r]) + 1] = e
<1>1. history \in [Relationships -> Seq(Event)]
  BY DEF TypeOK
<1>2. history' = [history EXCEPT ![r] = Append(@, e)]
  BY DEF Commit
<1>3. Append(history[r], e) \in Seq(Event)
  BY <1>1
<1> QED
  BY <1>1, <1>2, <1>3

LEMMA TypeStep ==
    ASSUME TypeOK, [Next]_vars
    PROVE  TypeOK'
<1> USE DEF TypeOK
<1>1. CASE UNCHANGED vars
  BY <1>1 DEF vars
<1>2. ASSUME NEW t \in Threads, NEW r \in Relationships, NEW key \in Keys,
             NEW type \in {"granted", "revoked"}, GrantOrRevoke(t, r, key, type)
      PROVE  TypeOK'
  <2>1. key \in Key
    BY BoundaryAssumption DEF Keys, Key, Positive
  <2>2. [type |-> type, key |-> key] \in Event
    BY <2>1 DEF Event
  <2>3. history' \in [Relationships -> Seq(Event)]
    BY <1>2, <2>2, CommitType DEF GrantOrRevoke
  <2> QED
    BY <1>2, <2>3 DEF GrantOrRevoke
<1>3. ASSUME NEW t \in Threads, NEW r \in Relationships, NEW target \in Relationships,
             NEW x \in Resources, Disclose(t, r, target, x)
      PROVE  TypeOK'
  <2>1. [type |-> "disclosed", id |-> nextId, source |-> r, target |-> target,
         resource |-> x] \in Movement
    BY DEF Movement, Disclosed
  <2>2. nextId' \in Positive
    BY <1>3 DEF Disclose, Positive
  <2> QED
    BY <1>3, <2>1, <2>2 DEF Disclose, Begin, Goto
<1>4. ASSUME NEW t \in Threads, NEW r \in Relationships, NEW target \in Relationships,
             NEW h \in Submitted, VerifySource(t, target, r, h)
      PROVE  TypeOK'
  <2>1. h \in Handle
    BY SubmittedType
  <2>2. [type |-> "admitted", id |-> h.id, source |-> h.source,
         event |-> h.event, resource |-> h.resource] \in Movement
    BY <2>1 DEF Movement, Admitted, Handle
  <2> QED
    BY <1>4, <2>2 DEF VerifySource, Begin, Goto
<1>5. ASSUME NEW t \in Threads, NEW r \in Relationships, NEW id \in 1..MaxDisclosures,
             FindAdmission(t, r, id)
      PROVE  TypeOK'
  <2>1. PICK i \in Admissions(r, id) :
           Begin(t, r, [type |-> "derived", id |-> id, parent |-> i,
                        source |-> history[r][i].source,
                        event |-> history[r][i].event], "check")
    BY <1>5 DEF FindAdmission
  <2>2. i \in Positive /\ id \in Positive
    BY LenType, BoundaryAssumption DEF Admissions, Positive
  <2>3. history[r][i] \in Admitted
    BY LenType, EventTypes DEF Admissions
  <2>4. [type |-> "derived", id |-> id, parent |-> i, source |-> history[r][i].source,
         event |-> history[r][i].event] \in Movement
    BY <2>2, <2>3 DEF Movement, Admitted, Derived
  <2> QED
    BY <1>5, <2>1, <2>4 DEF FindAdmission, Begin, Goto
<1>6. ASSUME NEW t \in Threads, NotAdmittedYet(t) \/ Check(t) \/ Refused(t)
      PROVE  TypeOK'
  BY <1>6, NoDraftType DEF NotAdmittedYet, Check, Refused, Goto, Finish
<1>7. ASSUME NEW t \in Threads, CommitMovement(t)
      PROVE  TypeOK'
  <2> DEFINE r == draft[t].rel
             e == draft[t].event
  <2>1. r \in Relationships /\ e \in Movement /\ e \in Event
    BY DEF Event
  <2>2. /\ history' \in [Relationships -> Seq(Event)]
        /\ Len(history'[r]) = Len(history[r]) + 1
    BY <1>7, <2>1, CommitType DEF CommitMovement
  <2>3. Len(history'[r]) \in Positive
    BY <2>1, <2>2, LenType DEF Positive
  <2>4. handles' \subseteq Handle
    BY <1>7, <2>1, <2>3, EventTypes DEF CommitMovement, Disclosed, Handle
  <2> QED
    BY <1>7, <2>2, <2>4, NoDraftType DEF CommitMovement, Finish
<1>8. ASSUME NEW t \in Threads, EnterGuard(t) \/ ExitGuard(t)
      PROVE  TypeOK'
  BY <1>8 DEF EnterGuard, ExitGuard
<1> HIDE DEF TypeOK
<1>9. CASE UNCHANGED vars
  BY <1>1, <1>9
<1>10. CASE Next
  BY <1>2, <1>3, <1>4, <1>5, <1>6, <1>7, <1>8, <1>10 DEF Next, Step
<1> QED
  BY <1>9, <1>10

\* Every variable keeps its type; a draft is an event that its operation may
\* commit, a handle what a disclosure returned.
THEOREM TypeCorrect == Spec => []TypeOK
<1>1. Init => TypeOK
  BY InitType
<1>2. TypeOK /\ [Next]_vars => TypeOK'
  BY TypeStep
<1> QED
  BY <1>1, <1>2, PTL DEF Spec

-----------------------------------------------------------------------------
\* Histories only grow.

Extends(h, g) == Len(h) <= Len(g) /\ \A i \in 1..Len(h) : g[i] = h[i]

\* What is new in a history is a change of authority or a thread's draft.
LEMMA NewEvent ==
    ASSUME TypeOK, [Next]_vars, NEW r \in Relationships
    PROVE  \/ history'[r] = history[r]
           \/ \E e \in Event :
                 /\ history'[r] = Append(history[r], e)
                 /\ \/ e.type \in {"granted", "revoked"}
                    \/ \E t \in Threads :
                          /\ pc[t] = "commit" /\ draft[t].rel = r
                          /\ e = draft[t].event
<1>1. CASE history' = history
  BY <1>1
<1>2. ASSUME NEW t \in Threads, NEW q \in Relationships, NEW key \in Keys,
             NEW type \in {"granted", "revoked"}, GrantOrRevoke(t, q, key, type)
      PROVE  \/ history'[r] = history[r]
             \/ \E e \in Event : history'[r] = Append(history[r], e) /\ e.type \in {"granted", "revoked"}
  <2>1. key \in Key
    BY BoundaryAssumption DEF Keys, Key, Positive
  <2>2. [type |-> type, key |-> key] \in Event
    BY <2>1 DEF Event
  <2> QED
    BY <1>2, <2>2, CommitType DEF GrantOrRevoke
<1>3. ASSUME NEW t \in Threads, CommitMovement(t)
      PROVE  \/ history'[r] = history[r]
             \/ /\ draft[t].event \in Event /\ pc[t] = "commit" /\ draft[t].rel = r
                /\ history'[r] = Append(history[r], draft[t].event)
  <2>1. draft[t].rel \in Relationships /\ draft[t].event \in Event
    BY DEF TypeOK, Event
  <2>2. Commit(t, draft[t].rel, draft[t].event) /\ pc[t] = "commit"
    BY <1>3 DEF CommitMovement
  <2> QED
    BY <2>1, <2>2, CommitType
<1>4. history' = history
      \/ \E t \in Threads :
            \/ CommitMovement(t)
            \/ \E q \in Relationships, key \in Keys, type \in {"granted", "revoked"} :
                  GrantOrRevoke(t, q, key, type)
  <2>1. CASE UNCHANGED vars
    BY <2>1 DEF vars
  <2>2. CASE Next
    BY <2>2 DEF Next, Step, Disclose, VerifySource, NotAdmittedYet, FindAdmission, Check,
                Refused, EnterGuard, ExitGuard
  <2> QED
    BY <2>1, <2>2
<1> QED
  BY <1>1, <1>2, <1>3, <1>4

LEMMA Growth ==
    ASSUME TypeOK, [Next]_vars, NEW r \in Relationships
    PROVE  Extends(history[r], history'[r])
<1>1. history[r] \in Seq(Event)
  BY LenType
<1>2. CASE history'[r] = history[r]
  BY <1>1, <1>2 DEF Extends
<1>3. ASSUME NEW e \in Event, history'[r] = Append(history[r], e)
      PROVE  Extends(history[r], history'[r])
  BY <1>1, <1>3 DEF Extends
<1> QED
  BY <1>2, <1>3, NewEvent

\* What an event is traced to stays on record.
LEMMA TracedStays ==
    ASSUME TypeOK, [Next]_vars, NEW r \in Relationships, NEW e \in Event, Traced(history, r, e)
    PROVE  Traced(history', r, e)
<1>1. CASE e.type = "admitted"
  <2>1. e.source \in Relationships /\ e.event \in Nat
    BY <1>1, EventTypes DEF Admitted, Positive
  <2>2. Extends(history[e.source], history'[e.source])
    BY <2>1, Growth
  <2>3. Len(history[e.source]) \in Nat /\ Len(history'[e.source]) \in Nat
    BY <2>1, LenType, TypeStep DEF TypeOK
  <2>4. e.event \in 1..Len(history[e.source])
    BY <1>1 DEF Traced
  <2>5. /\ e.event \in 1..Len(history'[e.source])
        /\ history'[e.source][e.event] = history[e.source][e.event]
    BY <2>2, <2>3, <2>4 DEF Extends
  <2> QED
    BY <1>1, <2>5 DEF Traced
<1>2. CASE e.type = "derived"
  <2>1. e.parent \in Nat
    BY <1>2, EventTypes DEF Derived, Positive
  <2>2. Extends(history[r], history'[r])
    BY Growth
  <2>3. Len(history[r]) \in Nat /\ Len(history'[r]) \in Nat
    BY LenType, TypeStep DEF TypeOK
  <2>4. e.parent \in 1..Len(history[r])
    BY <1>2 DEF Traced
  <2>5. /\ e.parent \in 1..Len(history'[r])
        /\ history'[r][e.parent] = history[r][e.parent]
    BY <2>2, <2>3, <2>4 DEF Extends
  <2> QED
    BY <1>2, <2>5 DEF Traced
<1> QED
  BY <1>1, <1>2 DEF Traced

\* So does the moment at which it was authorized.
LEMMA AllowedStays ==
    ASSUME TypeOK, [Next]_vars, NEW r \in Relationships, NEW key,
           NEW n \in 0..Len(history[r]), AllowedAt(history[r], n, key)
    PROVE  AllowedAt(history'[r], n, key) /\ n \in 0..Len(history'[r])
<1>1. Extends(history[r], history'[r])
  BY Growth
<1>2. Len(history[r]) \in Nat /\ Len(history'[r]) \in Nat
  BY LenType, TypeStep DEF TypeOK
<1>3. PICK i \in 1..n :
         /\ history[r][i].type = "granted" /\ history[r][i].key = key
         /\ \A j \in (i + 1)..n : ~(history[r][j].type = "revoked" /\ history[r][j].key = key)
  BY DEF AllowedAt
<1>4. history'[r][i] = history[r][i] /\ \A j \in (i + 1)..n : history'[r][j] = history[r][j]
  BY <1>1, <1>2 DEF Extends
<1>5. AllowedAt(history'[r], n, key)
  BY <1>3, <1>4 DEF AllowedAt
<1>6. n \in 0..Len(history'[r])
  BY <1>1, <1>2 DEF Extends
<1> QED
  BY <1>5, <1>6

-----------------------------------------------------------------------------
\* The inductive invariant.

\* A draft is traced already, and once checked it has been authorized.
DraftTraced ==
    \A t \in Threads : pc[t] # "idle" => Traced(history, draft[t].rel, draft[t].event)

DraftAuthorized ==
    \A t \in Threads : pc[t] = "commit" =>
        \E n \in 0..Len(history[draft[t].rel]) :
            AllowedAt(history[draft[t].rel], n, Needs(draft[t].event))

IInv ==
    /\ TypeOK
    /\ DraftTraced
    /\ DraftAuthorized
    /\ AdmissionTraced
    /\ DerivationTraced
    /\ MovementAuthorized

LEMMA DraftTracedStep ==
    ASSUME IInv, [Next]_vars
    PROVE  DraftTraced'
<1> SUFFICES ASSUME NEW t \in Threads, pc'[t] # "idle"
             PROVE  Traced(history', draft'[t].rel, draft'[t].event)
  BY DEF DraftTraced
<1> USE DEF IInv
<1>1. draft[t].rel \in Relationships /\ draft[t].event \in Event
  BY DEF TypeOK, Event
<1>2. CASE pc[t] # "idle" /\ draft'[t] = draft[t]
  <2>1. Traced(history, draft[t].rel, draft[t].event)
    BY <1>2 DEF DraftTraced
  <2> QED
    BY <1>1, <1>2, <2>1, TracedStays
<1>3. ASSUME NEW r \in Relationships, NEW target \in Relationships, NEW x \in Resources,
             Disclose(t, r, target, x)
      PROVE  Traced(history', draft'[t].rel, draft'[t].event)
  <2>1. draft'[t].event.type = "disclosed"
    BY <1>3 DEF Disclose, Begin, TypeOK
  <2> QED
    BY <2>1 DEF Traced
<1>4. ASSUME NEW r \in Relationships, NEW target \in Relationships, NEW h \in Submitted,
             VerifySource(t, target, r, h)
      PROVE  Traced(history', draft'[t].rel, draft'[t].event)
  <2>1. draft'[t] = [rel |-> target,
             event |-> [type |-> "admitted", id |-> h.id, source |-> h.source,
                        event |-> h.event, resource |-> h.resource]]
    BY <1>4 DEF VerifySource, Begin, TypeOK
  <2>2. Verified(r, h) /\ target = h.target /\ history' = history
    BY <1>4 DEF VerifySource
  <2> QED
    BY <2>1, <2>2 DEF Traced, Verified
<1>5. ASSUME NEW r \in Relationships, NEW id \in 1..MaxDisclosures, FindAdmission(t, r, id)
      PROVE  Traced(history', draft'[t].rel, draft'[t].event)
  <2>1. PICK i \in Admissions(r, id) :
           Begin(t, r, [type |-> "derived", id |-> id, parent |-> i,
                        source |-> history[r][i].source,
                        event |-> history[r][i].event], "check")
    BY <1>5 DEF FindAdmission
  <2>2. draft'[t] = [rel |-> r,
             event |-> [type |-> "derived", id |-> id, parent |-> i,
                        source |-> history[r][i].source, event |-> history[r][i].event]]
    BY <2>1 DEF Begin, TypeOK
  <2>3. history' = history
    BY <1>5 DEF FindAdmission
  <2> QED
    BY <2>2, <2>3 DEF Traced, Admissions
<1>6. \/ pc[t] # "idle" /\ draft'[t] = draft[t]
      \/ \E r, target \in Relationships, x \in Resources : Disclose(t, r, target, x)
      \/ \E r, target \in Relationships, h \in Submitted : VerifySource(t, target, r, h)
      \/ \E r \in Relationships, id \in 1..MaxDisclosures : FindAdmission(t, r, id)
  <2>1. CASE UNCHANGED vars
    BY <2>1 DEF vars
  <2>2. ASSUME NEW u \in Threads, Step(u), u # t
        PROVE  pc[t] # "idle" /\ draft'[t] = draft[t]
    BY <2>2 DEF Step, GrantOrRevoke, Disclose, VerifySource, NotAdmittedYet, FindAdmission,
                Check, CommitMovement, Refused, EnterGuard, ExitGuard, Begin, Goto, Finish, TypeOK
  <2>3. CASE NotAdmittedYet(t) \/ Check(t) \/ CommitMovement(t) \/ Refused(t)
    BY <2>3 DEF NotAdmittedYet, Check, CommitMovement, Refused, Goto, Finish, TypeOK
  <2>4. CASE \/ EnterGuard(t) \/ ExitGuard(t)
             \/ \E r \in Relationships, key \in Keys, type \in {"granted", "revoked"} :
                   GrantOrRevoke(t, r, key, type)
    BY <2>4 DEF GrantOrRevoke, EnterGuard, ExitGuard
  <2> QED
    BY <2>1, <2>2, <2>3, <2>4 DEF Next, Step
<1> QED
  BY <1>2, <1>3, <1>4, <1>5, <1>6

LEMMA DraftAuthorizedStep ==
    ASSUME IInv, [Next]_vars
    PROVE  DraftAuthorized'
<1> SUFFICES ASSUME NEW t \in Threads, pc'[t] = "commit"
             PROVE  \E n \in 0..Len(history'[draft'[t].rel]) :
                       AllowedAt(history'[draft'[t].rel], n, Needs(draft'[t].event))
  BY DEF DraftAuthorized, AllowedAt, Needs
<1> USE DEF IInv
<1>1. CASE pc[t] = "commit" /\ draft'[t] = draft[t]
  <2>1. draft[t].rel \in Relationships
    BY DEF TypeOK
  <2>2. PICK n \in 0..Len(history[draft[t].rel]) :
           AllowedAt(history[draft[t].rel], n, Needs(draft[t].event))
    BY <1>1 DEF DraftAuthorized
  <2> QED
    BY <1>1, <2>1, <2>2, AllowedStays
<1>2. ASSUME history' = history, draft'[t].rel \in Relationships,
             Allowed(draft'[t].rel, Needs(draft'[t].event))
      PROVE  \E n \in 0..Len(history'[draft'[t].rel]) :
                AllowedAt(history'[draft'[t].rel], n, Needs(draft'[t].event))
  <2>1. Len(history[draft'[t].rel]) \in 0..Len(history[draft'[t].rel])
    BY <1>2, LenType
  <2> QED
    BY <1>2, <2>1 DEF Allowed
<1>3. \/ pc[t] = "commit" /\ draft'[t] = draft[t]
      \/ history' = history /\ draft'[t].rel \in Relationships
         /\ Allowed(draft'[t].rel, Needs(draft'[t].event))
  <2>1. CASE UNCHANGED vars
    BY <2>1 DEF vars
  <2>2. ASSUME NEW u \in Threads, Step(u), u # t
        PROVE  pc[t] = "commit" /\ draft'[t] = draft[t]
    BY <2>2 DEF Step, GrantOrRevoke, Disclose, VerifySource, NotAdmittedYet, FindAdmission,
                Check, CommitMovement, Refused, EnterGuard, ExitGuard, Begin, Goto, Finish, TypeOK
  <2>3. ASSUME NEW r \in Relationships, NEW target \in Relationships, NEW x \in Resources,
               Disclose(t, r, target, x)
        PROVE  /\ history' = history /\ draft'[t].rel \in Relationships
               /\ Allowed(draft'[t].rel, Needs(draft'[t].event))
    BY <2>3 DEF Disclose, Begin, TypeOK, Needs
  <2>4. CASE Check(t)
    BY <2>4 DEF Check, Goto, Finish, TypeOK
  <2>5. CASE \/ NotAdmittedYet(t) \/ CommitMovement(t) \/ Refused(t)
             \/ \E r, target \in Relationships, h \in Submitted : VerifySource(t, target, r, h)
             \/ \E r \in Relationships, id \in 1..MaxDisclosures : FindAdmission(t, r, id)
    BY <2>5 DEF NotAdmittedYet, CommitMovement, Refused, VerifySource, FindAdmission, Begin,
                Goto, Finish, TypeOK
  <2>6. CASE \/ EnterGuard(t) \/ ExitGuard(t)
             \/ \E r \in Relationships, key \in Keys, type \in {"granted", "revoked"} :
                   GrantOrRevoke(t, r, key, type)
    BY <2>6 DEF GrantOrRevoke, EnterGuard, ExitGuard
  <2> QED
    BY <2>1, <2>2, <2>3, <2>4, <2>5, <2>6 DEF Next, Step
<1> QED
  BY <1>1, <1>2, <1>3

\* What a new event is: a change of authority, or a draft, which is traced and
\* authorized.
LEMMA NewMovement ==
    ASSUME IInv, [Next]_vars, NEW r \in Relationships, NEW i \in 1..Len(history'[r])
    PROVE  \/ i \in 1..Len(history[r]) /\ history'[r][i] = history[r][i]
           \/ i = Len(history[r]) + 1 /\ history'[r][i].type \in {"granted", "revoked"}
           \/ /\ i = Len(history[r]) + 1
              /\ history'[r][i] \in Event
              /\ Traced(history, r, history'[r][i])
              /\ \E n \in 0..Len(history[r]) :
                    AllowedAt(history[r], n, Needs(history'[r][i]))
<1> USE DEF IInv
<1>1. history[r] \in Seq(Event) /\ Len(history[r]) \in Nat
  BY LenType
<1>2. CASE history'[r] = history[r]
  BY <1>2
<1>3. ASSUME NEW e \in Event, history'[r] = Append(history[r], e)
      PROVE  \/ i \in 1..Len(history[r]) /\ history'[r][i] = history[r][i]
             \/ i = Len(history[r]) + 1 /\ history'[r][i] = e
  BY <1>1, <1>3
<1>4. ASSUME NEW t \in Threads, pc[t] = "commit", draft[t].rel = r
      PROVE  /\ Traced(history, r, draft[t].event)
             /\ \E n \in 0..Len(history[r]) : AllowedAt(history[r], n, Needs(draft[t].event))
  BY <1>4 DEF DraftTraced, DraftAuthorized
<1> QED
  BY <1>2, <1>3, <1>4, NewEvent

LEMMA TracedStep ==
    ASSUME IInv, [Next]_vars
    PROVE  AdmissionTraced' /\ DerivationTraced'
<1> USE DEF IInv
<1> SUFFICES ASSUME NEW r \in Relationships, NEW i \in 1..Len(history'[r])
             PROVE  /\ history'[r][i].type = "admitted" => Traced(history', r, history'[r][i])
                    /\ history'[r][i].type = "derived" =>
                          /\ history'[r][i].parent < i
                          /\ Traced(history', r, history'[r][i])
  BY DEF AdmissionTraced, DerivationTraced
<1>1. Len(history[r]) \in Nat
  BY LenType
<1>2. CASE i \in 1..Len(history[r]) /\ history'[r][i] = history[r][i]
  <2>1. history[r][i] \in Event
    BY <1>2, LenType
  <2> QED
    BY <1>2, <2>1, TracedStays DEF AdmissionTraced, DerivationTraced
<1>3. CASE /\ i = Len(history[r]) + 1
           /\ history'[r][i] \in Event
           /\ Traced(history, r, history'[r][i])
  <2>1. Traced(history', r, history'[r][i])
    BY <1>3, TracedStays
  <2>2. ASSUME history'[r][i].type = "derived"
        PROVE  history'[r][i].parent < i
    <3>1. history'[r][i].parent \in 1..Len(history[r])
      BY <1>3, <2>2 DEF Traced
    <3> QED
      BY <1>1, <1>3, <3>1
  <2> QED
    BY <2>1, <2>2
<1> QED
  BY <1>2, <1>3, NewMovement

LEMMA AuthorizedStep ==
    ASSUME IInv, [Next]_vars
    PROVE  MovementAuthorized'
<1> USE DEF IInv
<1> SUFFICES ASSUME NEW r \in Relationships, NEW i \in 1..Len(history'[r]),
                    history'[r][i].type \in {"disclosed", "admitted", "derived"}
             PROVE  \E n \in 0..(i - 1) : AllowedAt(history'[r], n, Needs(history'[r][i]))
  BY DEF MovementAuthorized, AllowedAt, Needs
<1>1. Len(history[r]) \in Nat
  BY LenType
<1>2. CASE i \in 1..Len(history[r]) /\ history'[r][i] = history[r][i]
  <2>1. PICK n \in 0..(i - 1) : AllowedAt(history[r], n, Needs(history[r][i]))
    BY <1>2 DEF MovementAuthorized
  <2>2. n \in 0..Len(history[r])
    BY <1>1, <1>2
  <2> QED
    BY <1>2, <2>1, <2>2, AllowedStays
<1>3. CASE /\ i = Len(history[r]) + 1
           /\ \E n \in 0..Len(history[r]) : AllowedAt(history[r], n, Needs(history'[r][i]))
  <2>1. PICK n \in 0..Len(history[r]) : AllowedAt(history[r], n, Needs(history'[r][i]))
    BY <1>3
  <2>2. n \in 0..(i - 1)
    BY <1>1, <1>3
  <2> QED
    BY <2>1, <2>2, AllowedStays
<1> QED
  BY <1>2, <1>3, NewMovement

\* Drafts and events are traced to what they name and were authorized.
THEOREM Invariance == Spec => []IInv
<1>1. Init => IInv
  <2> SUFFICES ASSUME Init PROVE IInv
    OBVIOUS
  <2>1. DraftTraced /\ DraftAuthorized
    BY DEF Init, DraftTraced, DraftAuthorized
  <2>2. \A r \in Relationships : 1..Len(history[r]) = {}
    BY DEF Init
  <2> QED
    BY <2>1, <2>2, InitType DEF IInv, AdmissionTraced, DerivationTraced, MovementAuthorized
<1>2. IInv /\ [Next]_vars => IInv'
  <2> SUFFICES ASSUME IInv, [Next]_vars PROVE IInv'
    OBVIOUS
  <2>1. TypeOK'
    BY TypeStep DEF IInv
  <2> QED
    BY <2>1, DraftTracedStep, DraftAuthorizedStep, TracedStep, AuthorizedStep DEF IInv
<1> QED
  BY <1>1, <1>2, PTL DEF Spec

\* No reference enters a relationship that it was not disclosed to, whichever
\* field of a handle a host altered (_verified_source_event, admit_disclosure).
THEOREM AdmissionAlwaysTraced == Spec => []AdmissionTraced
<1>1. IInv => AdmissionTraced
  BY DEF IInv
<1> QED
  BY <1>1, Invariance, PTL

\* Disclosure alone never leads to a derivation (derive_from_disclosure).
THEOREM DerivationAlwaysTraced == Spec => []DerivationTraced
<1>1. IInv => DerivationTraced
  BY DEF IInv
<1> QED
  BY <1>1, Invariance, PTL

\* Everything that crossed a boundary is traced to what it stands for
\* (MovementTraced).
THEOREM MovementAlwaysTraced == Spec => []MovementTraced
BY AdmissionAlwaysTraced, DerivationAlwaysTraced, PTL DEF MovementTraced

\* Disclosure, admission and derivation each had an authority of their own.
THEOREM MovementAlwaysAuthorized == Spec => []MovementAuthorized
<1>1. IInv => MovementAuthorized
  BY DEF IInv
<1> QED
  BY <1>1, Invariance, PTL

-----------------------------------------------------------------------------
\* Inside the guard.

\* What the holder of the guard has checked still holds.
CheckedInGuard ==
    \A t \in Threads : owner = t =>
        /\ pc[t] = "commit" => Allowed(draft[t].rel, Needs(draft[t].event))
        /\ pc[t] \in {"check", "commit"} /\ draft[t].event.type = "admitted" =>
              Admissions(draft[t].rel, draft[t].event.id) = {}

LEMMA GuardStep ==
    ASSUME TypeOK, CheckedInGuard, [Next]_vars
    PROVE  CheckedInGuard'
<1> SUFFICES ASSUME NEW t \in Threads, owner' = t
             PROVE  /\ pc'[t] = "commit" => Allowed(draft[t].rel, Needs(draft[t].event))'
                    /\ pc'[t] \in {"check", "commit"} /\ draft'[t].event.type = "admitted" =>
                          (Admissions(draft[t].rel, draft[t].event.id) = {})'
  BY DEF CheckedInGuard
<1> USE DEF Allowed, Admissions
<1>1. CASE UNCHANGED vars
  BY <1>1 DEF vars, CheckedInGuard
<1>2. ASSUME NEW u \in Threads, EnterGuard(u)
      PROVE  pc'[t] = "idle"
  BY <1>2 DEF EnterGuard
<1>3. ASSUME NEW u \in Threads, ExitGuard(u)
      PROVE  FALSE
  BY <1>3, BoundaryAssumption DEF ExitGuard
<1>4. ASSUME NEW u \in Threads, u # t, Step(u), ~EnterGuard(u), ~ExitGuard(u)
      PROVE  FALSE
  <2>1. owner = t
    BY <1>4 DEF Step, GrantOrRevoke, Disclose, VerifySource, NotAdmittedYet, FindAdmission,
                Check, CommitMovement, Refused
  <2>2. ~CanLock(u) /\ owner # NoThread
    BY <1>4, <2>1, BoundaryAssumption DEF CanLock
  <2> QED
    BY <1>4, <2>2 DEF Step, GrantOrRevoke, Disclose, VerifySource, NotAdmittedYet,
                FindAdmission, Check, CommitMovement, Refused, Begin, Commit
<1>5. CASE owner = t /\ NotAdmittedYet(t)
  BY <1>5 DEF NotAdmittedYet, Goto, Finish, TypeOK
<1>6. CASE owner = t /\ Check(t)
  BY <1>6 DEF Check, Goto, Finish, TypeOK, CheckedInGuard
<1>7. CASE CommitMovement(t) \/ Refused(t)
  BY <1>7 DEF CommitMovement, Refused, Finish, TypeOK
<1>8. ASSUME NEW r \in Relationships, NEW key \in Keys, NEW type \in {"granted", "revoked"},
             GrantOrRevoke(t, r, key, type)
      PROVE  pc'[t] = "idle"
  BY <1>8 DEF GrantOrRevoke
<1>9. ASSUME NEW r \in Relationships, NEW target \in Relationships, NEW x \in Resources,
             Disclose(t, r, target, x)
      PROVE  /\ Allowed(draft[t].rel, Needs(draft[t].event))'
             /\ draft'[t].event.type # "admitted"
  BY <1>9 DEF Disclose, Begin, TypeOK, Needs
<1>10. ASSUME NEW r \in Relationships, NEW target \in Relationships, NEW h \in Submitted,
              VerifySource(t, target, r, h)
       PROVE  pc'[t] = "verified"
  BY <1>10 DEF VerifySource, Begin, Goto, TypeOK
<1>11. ASSUME NEW r \in Relationships, NEW id \in 1..MaxDisclosures, FindAdmission(t, r, id)
       PROVE  pc'[t] = "check" /\ draft'[t].event.type # "admitted"
  BY <1>11 DEF FindAdmission, Begin, Goto, TypeOK
<1>12. ASSUME Step(t), ~EnterGuard(t), ~ExitGuard(t)
       PROVE  owner = t
  BY <1>12 DEF Step, GrantOrRevoke, Disclose, VerifySource, NotAdmittedYet, FindAdmission,
               Check, CommitMovement, Refused
<1> QED
  BY <1>1, <1>2, <1>3, <1>4, <1>5, <1>6, <1>7, <1>8, <1>9, <1>10, <1>11, <1>12
  DEF Next, Step

\* Inside the guard a movement is allowed when it commits, and an admission is
\* the first of its disclosure.
THEOREM GuardedMovementsAllowed == Spec => GuardedMovement
<1>1. Init => TypeOK /\ CheckedInGuard
  BY InitType DEF Init, CheckedInGuard
<1>2. TypeOK /\ CheckedInGuard /\ [Next]_vars => (TypeOK /\ CheckedInGuard)'
  BY TypeStep, GuardStep
<1>3. CheckedInGuard =>
        \A t \in Threads : owner = t /\ pc[t] = "commit" =>
            /\ Allowed(draft[t].rel, Needs(draft[t].event))
            /\ draft[t].event.type = "admitted" =>
                  Admissions(draft[t].rel, draft[t].event.id) = {}
  BY DEF CheckedInGuard
<1>4. CheckedInGuard /\ [Next]_vars =>
        [\A t \in Threads :
            owner = t /\ pc[t] = "commit" /\ history' # history =>
                /\ Allowed(draft[t].rel, Needs(draft[t].event))
                /\ draft[t].event.type = "admitted" =>
                      Admissions(draft[t].rel, draft[t].event.id) = {}]_vars
  BY <1>3
<1> QED
  BY <1>1, <1>2, <1>4, PTL DEF Spec, GuardedMovement

=============================================================================
