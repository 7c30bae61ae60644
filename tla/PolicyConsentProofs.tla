------------------------- MODULE PolicyConsentProofs -------------------------
(***************************************************************************)
(* What holds of PolicyConsent for every number of threads, participants,  *)
(* scopes, policies and calls.  For consent, the incremental projection is *)
(* compared with the whole history, event by event.  For a policy change   *)
(* inside the guard, nobody else commits and its own decision leaves the   *)
(* projection alone, so each check still holds at the commit.              *)
(***************************************************************************)
EXTENDS PolicyConsent, SequenceTheorems, TLAPS

\* Only the decision to be recorded has a participant as its actor for sure:
\* nobody records one for tria:system.
InOperation ==
    \A t \in Threads :
        /\ pc[t] \in {"check", "record", "definition"} => NeedsAuthority(op[t])
        /\ pc[t] = "definition" => op[t].type = "adopted"

\* The checks an operation inside the guard has passed still hold.
CheckedInGuard ==
    \A t \in Threads : owner = t =>
        /\ pc[t] = "record" /\ allowed[t] => HasAuthority(op[t].actor, scope[t])
        /\ pc[t] = "definition" => HasAuthority(op[t].actor, scope[t])
        /\ pc[t] = "commit" /\ NeedsAuthority(op[t]) => HasAuthority(op[t].actor, scope[t])
        /\ pc[t] = "commit" /\ op[t].type = "adopted" =>
              state.definition[op[t].policy] # NoScope
        /\ pc[t] \in {"check", "record", "commit"} /\ op[t].type = "revoked" =>
              scope[t] = state.adoption[op[t].policy]

IInv == TypeOK /\ InOperation /\ ConsentFollowsTerms /\ CheckedInGuard

-----------------------------------------------------------------------------
\* Events and their projection.

\* An event's type says which kind it is.
LEMMA EventCases ==
    ASSUME NEW e \in Event
    PROVE  \/ e.type \in {"consented", "withdrawn"} /\ e \in Consents
           \/ e.type \in {"authorized", "deauthorized"} /\ e \in Authorities
           \/ e.type = "defined" /\ e \in Definitions
           \/ e.type = "adopted" /\ e \in Adoptions
           \/ e.type = "revoked" /\ e \in Revocations
           \/ e.type = "decided" /\ e \in Decision
BY DEF Event, Change, Consents, Authorities, Definitions, Adoptions, Revocations, Decision

\* Who needs authority is a participant, and only a consent or the host needs none.
LEMMA NeedyActor ==
    ASSUME NEW c \in Change
    PROVE  /\ NeedsAuthority(c) => c.actor \in Participants
           /\ c.type \in {"defined", "adopted", "revoked"} => NeedsAuthority(c)
           /\ c.type \in Kinds
BY PolicyAssumption
DEF NeedsAuthority, Change, Consents, Authorities, Definitions, Adoptions, Revocations, Kinds

\* The projection keeps its type.
LEMMA ReduceType ==
    ASSUME NEW s \in Projection, NEW e \in Event
    PROVE  Reduce(s, e) \in Projection
<1>1. /\ s.consent \in SUBSET (Participants \X Scopes)
      /\ s.reconsent \in SUBSET (Participants \X Scopes)
      /\ s.authority \in SUBSET (Participants \X Scopes)
      /\ s.definition \in [Policies -> Scopes \union {NoScope}]
      /\ s.adoption \in [Policies -> Scopes \union {NoScope}]
      /\ s.inForce \in SUBSET Policies
    BY DEF Projection
<1>2. Consent(s, e) \in SUBSET (Participants \X Scopes)
    <2>1. e.type \in {"consented", "withdrawn"} =>
              e.actor \in Participants /\ e.scope \in Scopes
        BY EventCases DEF Consents
    <2> QED  BY <1>1, <2>1 DEF Consent
<1>3. Reconsent(s, e) \in SUBSET (Participants \X Scopes)
    BY <1>1 DEF Reconsent
<1>4. Authority(s, e) \in SUBSET (Participants \X Scopes)
    <2>1. e.type \in {"authorized", "deauthorized"} =>
              e.holder \in Participants /\ e.scope \in Scopes
        BY EventCases DEF Authorities
    <2> QED  BY <1>1, <2>1 DEF Authority
<1>5. Definition(s, e) \in [Policies -> Scopes \union {NoScope}]
    <2>1. e.type = "defined" => e.policy \in Policies /\ e.scope \in Scopes
        BY EventCases DEF Definitions
    <2> QED  BY <1>1, <2>1 DEF Definition
<1>6. Adoption(s, e) \in [Policies -> Scopes \union {NoScope}]
    <2>1. e.type = "adopted" => e.policy \in Policies /\ e.scope \in Scopes
        BY EventCases DEF Adoptions
    <2> QED  BY <1>1, <2>1 DEF Adoption
<1>7. InForce(s, e) \in SUBSET Policies
    <2>1. e.type \in {"adopted", "revoked"} => e.policy \in Policies
        BY EventCases DEF Adoptions, Revocations
    <2> QED  BY <1>1, <2>1 DEF InForce
<1> QED  BY <1>2, <1>3, <1>4, <1>5, <1>6, <1>7 DEF Reduce, Projection

\* What each event does to one consent.
LEMMA ReduceConsent ==
    ASSUME NEW s \in Projection, NEW e \in Event, NEW a \in Participants, NEW c \in Scopes
    PROVE  LET on(q) == <<a, c>> \in q.consent /\ <<a, c>> \notin q.reconsent
           IN  /\ e.type = "consented" /\ e.actor = a /\ e.scope = c => on(Reduce(s, e))
               /\ e.type = "withdrawn" /\ e.actor = a /\ e.scope = c => ~on(Reduce(s, e))
               /\ e.type = "defined" /\ e.scope = c /\ e.impacting => ~on(Reduce(s, e))
               /\ /\ ~(e.type \in {"consented", "withdrawn"} /\ e.actor = a /\ e.scope = c)
                  /\ ~(e.type = "defined" /\ e.scope = c /\ e.impacting)
                  => (on(Reduce(s, e)) <=> on(s))
<1>1. Reduce(s, e).consent = Consent(s, e) /\ Reduce(s, e).reconsent = Reconsent(s, e)
    BY DEF Reduce
<1>2. CASE e.type = "consented"  BY <1>1, <1>2 DEF Consent, Reconsent
<1>3. CASE e.type = "withdrawn"  BY <1>1, <1>3 DEF Consent, Reconsent
<1>4. CASE e.type = "defined"  BY <1>1, <1>4 DEF Consent, Reconsent
<1>5. CASE e.type \notin {"consented", "withdrawn", "defined"}
    BY <1>1, <1>5 DEF Consent, Reconsent
<1> QED  BY <1>2, <1>3, <1>4, <1>5

\* What a commit does.
LEMMA CommitStep ==
    ASSUME TypeOK, NEW t \in Threads, NEW e \in Event, Commit(t, e)
    PROVE  /\ history' \in Seq(Event)
           /\ state' = Reduce(state, e) /\ state' \in Projection
           /\ Len(history) \in Nat /\ Len(history') = Len(history) + 1
           /\ \A i \in 1..Len(history) : history'[i] = history[i]
           /\ history'[Len(history) + 1] = e
<1>1. history \in Seq(Event) /\ state \in Projection  BY DEF TypeOK
<1>2. history' = Append(history, e) /\ state' = Reduce(state, e)  BY DEF Commit
<1> QED  BY <1>1, <1>2, AppendProperties, LenProperties, ReduceType

\* The consents relied on and the history stay in step.
LEMMA ConsentStep ==
    ASSUME TypeOK, ConsentFollowsTerms, NEW t \in Threads, NEW e \in Event, Commit(t, e)
    PROVE  ConsentFollowsTerms'
<1> DEFINE n == Len(history)
<1>0. SUFFICES ASSUME NEW a \in Participants, NEW s \in Scopes
               PROVE  ConsentAllowed(a, s)' <=> GrantedSince(history', a, s)
    BY DEF ConsentFollowsTerms
<1>1. /\ n \in Nat /\ Len(history') = n + 1
      /\ \A i \in 1..n : history'[i] = history[i]
      /\ history'[n + 1] = e
      /\ state' = Reduce(state, e) /\ state \in Projection
    BY CommitStep DEF TypeOK
<1>2. ConsentAllowed(a, s) <=> GrantedSince(history, a, s)  BY DEF ConsentFollowsTerms
<1> DEFINE ends == \/ e.type = "withdrawn" /\ e.actor = a /\ e.scope = s
                   \/ e.type = "defined" /\ e.scope = s /\ e.impacting
           gives == e.type = "consented" /\ e.actor = a /\ e.scope = s
<1>3. CASE gives
    <2>1. ConsentAllowed(a, s)'  BY <1>1, <1>3, ReduceConsent DEF ConsentAllowed
    <2>2. GrantedSince(history', a, s)
        <3>1. n + 1 \in 1..Len(history') /\ (n + 1) + 1 > Len(history')  BY <1>1
        <3> QED  BY <1>1, <1>3, <3>1 DEF GrantedSince
    <2> QED  BY <2>1, <2>2
<1>4. CASE ends
    <2>1. ~ConsentAllowed(a, s)'  BY <1>1, <1>4, ReduceConsent DEF ConsentAllowed
    <2>2. ~GrantedSince(history', a, s)
        <3>1. SUFFICES ASSUME GrantedSince(history', a, s)  PROVE FALSE
            OBVIOUS
        <3>2. PICK i \in 1..(n + 1) :
                /\ history'[i].type = "consented" /\ history'[i].actor = a /\ history'[i].scope = s
                /\ \A j \in (i + 1)..(n + 1) :
                      /\ ~(history'[j].type = "withdrawn" /\ history'[j].actor = a
                                                          /\ history'[j].scope = s)
                      /\ ~(history'[j].type = "defined" /\ history'[j].scope = s
                                                        /\ history'[j].impacting)
            BY <1>1, <3>1 DEF GrantedSince
        <3>3. i # n + 1  BY <1>1, <1>4, <3>2
        <3>4. n + 1 \in (i + 1)..(n + 1)  BY <1>1, <3>3
        <3> QED  BY <1>1, <1>4, <3>2, <3>4
    <2> QED  BY <2>1, <2>2
<1>5. CASE ~gives /\ ~ends
    <2>1. ConsentAllowed(a, s)' <=> ConsentAllowed(a, s)
        BY <1>1, <1>5, ReduceConsent DEF ConsentAllowed
    <2>2. ASSUME GrantedSince(history, a, s)  PROVE GrantedSince(history', a, s)
        <3>1. PICK i \in 1..n :
                /\ history[i].type = "consented" /\ history[i].actor = a /\ history[i].scope = s
                /\ \A j \in (i + 1)..n :
                      /\ ~(history[j].type = "withdrawn" /\ history[j].actor = a
                                                         /\ history[j].scope = s)
                      /\ ~(history[j].type = "defined" /\ history[j].scope = s
                                                       /\ history[j].impacting)
            BY <2>2 DEF GrantedSince
        <3>2. i \in 1..(n + 1) /\ history'[i] = history[i]  BY <1>1
        <3>3. ASSUME NEW j \in (i + 1)..(n + 1)
              PROVE  /\ ~(history'[j].type = "withdrawn" /\ history'[j].actor = a
                                                         /\ history'[j].scope = s)
                     /\ ~(history'[j].type = "defined" /\ history'[j].scope = s
                                                       /\ history'[j].impacting)
            <4>1. CASE j = n + 1  BY <1>1, <1>5, <4>1
            <4>2. CASE j # n + 1
                <5>1. j \in (i + 1)..n /\ j \in 1..n  BY <1>1, <4>2
                <5> QED  BY <1>1, <3>1, <5>1
            <4> QED  BY <4>1, <4>2
        <3> QED  BY <1>1, <3>1, <3>2, <3>3 DEF GrantedSince
    <2>3. ASSUME GrantedSince(history', a, s)  PROVE GrantedSince(history, a, s)
        <3>1. PICK i \in 1..(n + 1) :
                /\ history'[i].type = "consented" /\ history'[i].actor = a /\ history'[i].scope = s
                /\ \A j \in (i + 1)..(n + 1) :
                      /\ ~(history'[j].type = "withdrawn" /\ history'[j].actor = a
                                                          /\ history'[j].scope = s)
                      /\ ~(history'[j].type = "defined" /\ history'[j].scope = s
                                                        /\ history'[j].impacting)
            BY <1>1, <2>3 DEF GrantedSince
        <3>2. i \in 1..n  BY <1>1, <1>5, <3>1
        <3>3. \A j \in (i + 1)..n : j \in (i + 1)..(n + 1) /\ history'[j] = history[j]
            BY <1>1, <3>2
        <3> QED  BY <1>1, <3>1, <3>2, <3>3 DEF GrantedSince
    <2>4. GrantedSince(history, a, s) \in BOOLEAN /\ GrantedSince(history', a, s) \in BOOLEAN
        BY DEF GrantedSince
    <2> QED  BY <1>2, <2>1, <2>2, <2>3
<1> QED  BY <1>3, <1>4, <1>5

-----------------------------------------------------------------------------
\* The invariant.

\* A decision leaves the projection alone.
LEMMA DecisionStep ==
    ASSUME IInv, NEW t \in Threads, RecordDecision(t)
    PROVE  /\ \E e \in Event : Commit(t, e)
           /\ state' = state
<1> DEFINE e == [type |-> "decided", operation |-> op[t].type, actor |-> op[t].actor,
                 scope |-> scope[t], allow |-> allowed[t]]
<1>1. Commit(t, e) /\ pc[t] = "record"  BY DEF RecordDecision, Goto
<1>2. op[t] \in Change /\ scope[t] \in Scopes /\ allowed[t] \in BOOLEAN /\ state \in Projection
    BY DEF IInv, TypeOK
<1>3. NeedsAuthority(op[t])  BY <1>1 DEF IInv, InOperation
<1>4. op[t].actor \in Participants /\ op[t].type \in Kinds  BY <1>2, <1>3, NeedyActor
<1>5. e \in Event  BY <1>2, <1>4 DEF Event, Decision
<1>6. Reduce(state, e) = state
    BY <1>2 DEF Reduce, Consent, Reconsent, Authority, Definition, Adoption, InForce, Projection
<1> QED  BY <1>1, <1>5, <1>6 DEF Commit

\* A change is an event.
LEMMA ChangeStep ==
    ASSUME TypeOK, NEW t \in Threads, CommitChange(t)
    PROVE  \E e \in Event : Commit(t, e)
BY DEF CommitChange, TypeOK, Event

\* Only a change and a decision are committed.
LEMMA OtherStep ==
    ASSUME [Next]_vars,
           ~(\E t \in Threads : RecordDecision(t) \/ CommitChange(t))
    PROVE  UNCHANGED <<history, state>>
BY DEF Next, vars, Call, CallRevoke, Begin, CheckAuthority, ReadDefinition, Refused,
       EnterGuard, ExitGuard

\* What an operation begins with.
LEMMA BeginStep ==
    ASSUME TypeOK, NEW t \in Threads,
           (\E c \in Change \ Revocations : Call(t, c)) \/ (\E c \in Revocations : CallRevoke(t, c))
    PROVE  \E c \in Change, s \in Scopes :
              /\ Begin(t, c, s)
              /\ c.type = "revoked" => s = state.adoption[c.policy]
<1>1. CASE \E c \in Change \ Revocations : Call(t, c)
    <2>1. PICK c \in Change \ Revocations : Call(t, c)  BY <1>1
    <2>2. c \in Change /\ c.type # "revoked" /\ Begin(t, c, c.scope)  BY <2>1 DEF Call
    <2>3. c.scope \in Scopes
        BY <2>1 DEF Change, Consents, Authorities, Definitions, Adoptions
    <2> QED  BY <2>2, <2>3
<1>2. CASE \E c \in Revocations : CallRevoke(t, c)
    <2>1. PICK c \in Revocations : CallRevoke(t, c)  BY <1>2
    <2>2. c \in Change /\ c.policy \in Policies  BY <2>1 DEF Revocations, Change
    <2>3. state.adoption[c.policy] \in Scopes
        BY <2>1, <2>2 DEF CallRevoke, TypeOK, Projection
    <2> QED  BY <2>1, <2>2, <2>3 DEF CallRevoke
<1> QED  BY <1>1, <1>2

\* Every state has its type.
LEMMA TypeStep ==
    ASSUME IInv, [Next]_vars
    PROVE  TypeOK'
<1> DEFINE PCs == {"idle", "check", "record", "definition", "commit"}
<1>0. TypeOK  BY DEF IInv
<1>1. history' \in Seq(Event) /\ state' \in Projection
    <2>1. CASE \E t \in Threads : RecordDecision(t) \/ CommitChange(t)
        BY <1>0, <2>1, DecisionStep, ChangeStep, CommitStep
    <2>2. CASE ~(\E t \in Threads : RecordDecision(t) \/ CommitChange(t))
        BY <1>0, <2>2, OtherStep DEF TypeOK
    <2> QED  BY <2>1, <2>2
<1>2. CASE UNCHANGED vars  BY <1>0, <1>2 DEF vars, TypeOK
<1>3. ASSUME NEW t \in Threads,
             (\E c \in Change \ Revocations : Call(t, c))
                 \/ (\E c \in Revocations : CallRevoke(t, c))
      PROVE  TypeOK'
    <2>1. PICK c \in Change, s \in Scopes : Begin(t, c, s)  BY <1>0, <1>3, BeginStep
    <2>2. pc' \in [Threads -> PCs]  BY <1>0, <2>1 DEF Begin, Goto, TypeOK
    <2>3. calls' \in Nat
        <3>1. calls \in Nat /\ calls' = calls + 1  BY <1>0, <2>1 DEF Begin, TypeOK
        <3> QED  BY <3>1
    <2>4. op' \in [Threads -> Change] /\ scope' \in [Threads -> Scopes]
          /\ allowed' \in [Threads -> BOOLEAN] /\ owner' \in Threads \union {NoThread}
        BY <1>0, <2>1 DEF Begin, TypeOK
    <2> QED  BY <1>1, <2>2, <2>3, <2>4 DEF TypeOK
<1>4. ASSUME NEW t \in Threads, CheckAuthority(t)  PROVE TypeOK'
    <2>1. HasAuthority(op[t].actor, scope[t]) \in BOOLEAN  BY DEF HasAuthority
    <2> QED  BY <1>0, <1>4, <2>1 DEF CheckAuthority, Goto, TypeOK
<1>5. ASSUME NEW t \in Threads, RecordDecision(t)  PROVE TypeOK'
    <2>1. pc' \in [Threads -> PCs]  BY <1>0, <1>5 DEF RecordDecision, Goto, TypeOK
    <2> QED  BY <1>0, <1>1, <1>5, <2>1 DEF RecordDecision, TypeOK
<1>6. ASSUME NEW t \in Threads, ReadDefinition(t)  PROVE TypeOK'
    <2>1. pc' \in [Threads -> PCs]  BY <1>0, <1>6 DEF ReadDefinition, Goto, TypeOK
    <2> QED  BY <1>0, <1>6, <2>1 DEF ReadDefinition, TypeOK
<1>7. ASSUME NEW t \in Threads, CommitChange(t)  PROVE TypeOK'
    <2>1. pc' \in [Threads -> PCs]  BY <1>0, <1>7 DEF CommitChange, Goto, TypeOK
    <2> QED  BY <1>0, <1>1, <1>7, <2>1 DEF CommitChange, TypeOK
<1>8. ASSUME NEW t \in Threads, Refused(t) \/ EnterGuard(t) \/ ExitGuard(t)  PROVE TypeOK'
    BY <1>0, <1>8 DEF Refused, EnterGuard, ExitGuard, Goto, TypeOK
<1> QED  BY <1>2, <1>3, <1>4, <1>5, <1>6, <1>7, <1>8 DEF Next

\* Where an operation is follows from what it is.
LEMMA OperationStep ==
    ASSUME IInv, [Next]_vars
    PROVE  InOperation'
<1>0. TypeOK /\ InOperation  BY DEF IInv
<1>1. CASE UNCHANGED vars  BY <1>0, <1>1 DEF vars, InOperation
<1>2. ASSUME NEW t \in Threads,
             (\E c \in Change \ Revocations : Call(t, c))
                 \/ (\E c \in Revocations : CallRevoke(t, c))
      PROVE  InOperation'
    <2>1. PICK c \in Change, s \in Scopes : Begin(t, c, s)  BY <1>0, <1>2, BeginStep
    <2>2. /\ op'[t] = c
          /\ pc'[t] = (IF NeedsAuthority(c) THEN "check" ELSE "commit")
          /\ \A u \in Threads \ {t} : pc'[u] = pc[u] /\ op'[u] = op[u]
        BY <1>0, <2>1 DEF Begin, Goto, TypeOK
    <2> QED  BY <1>0, <2>2 DEF InOperation
<1>3. ASSUME NEW t \in Threads, CheckAuthority(t)  PROVE InOperation'
    BY <1>0, <1>3 DEF CheckAuthority, Goto, TypeOK, InOperation
<1>4. ASSUME NEW t \in Threads, RecordDecision(t)  PROVE InOperation'
    <2>1. /\ pc[t] = "record" /\ UNCHANGED op
          /\ pc'[t] = "definition" => op[t].type = "adopted"
          /\ pc'[t] \in {"idle", "definition", "commit"}
          /\ \A u \in Threads \ {t} : pc'[u] = pc[u]
        BY <1>0, <1>4 DEF RecordDecision, Goto, TypeOK
    <2> QED  BY <1>0, <2>1 DEF InOperation
<1>5. ASSUME NEW t \in Threads, ReadDefinition(t) \/ CommitChange(t) \/ Refused(t)
      PROVE  InOperation'
    <2>1. /\ UNCHANGED op /\ pc'[t] \in {"idle", "commit"}
          /\ \A u \in Threads \ {t} : pc'[u] = pc[u]
        BY <1>0, <1>5 DEF ReadDefinition, CommitChange, Refused, Goto, TypeOK
    <2> QED  BY <1>0, <2>1 DEF InOperation
<1>6. ASSUME NEW t \in Threads, EnterGuard(t) \/ ExitGuard(t)  PROVE InOperation'
    BY <1>0, <1>6 DEF EnterGuard, ExitGuard, InOperation
<1> QED  BY <1>1, <1>2, <1>3, <1>4, <1>5, <1>6 DEF Next

\* Nobody else commits while the guard is held, and what the holder does next
\* either takes a check or records one.
LEMMA GuardStep ==
    ASSUME IInv, [Next]_vars
    PROVE  CheckedInGuard'
<1> DEFINE Checked(t) ==
              /\ pc[t] = "record" /\ allowed[t] => HasAuthority(op[t].actor, scope[t])
              /\ pc[t] = "definition" => HasAuthority(op[t].actor, scope[t])
              /\ pc[t] = "commit" /\ NeedsAuthority(op[t]) => HasAuthority(op[t].actor, scope[t])
              /\ pc[t] = "commit" /\ op[t].type = "adopted" =>
                    state.definition[op[t].policy] # NoScope
              /\ pc[t] \in {"check", "record", "commit"} /\ op[t].type = "revoked" =>
                    scope[t] = state.adoption[op[t].policy]
<1>1. SUFFICES ASSUME NEW u \in Threads, owner' = u  PROVE Checked(u)'
    BY DEF CheckedInGuard
<1>2. TypeOK /\ InOperation  BY DEF IInv
<1>3. owner = u => Checked(u)  BY DEF IInv, CheckedInGuard
<1>4. ASSUME pc'[u] = "idle"  PROVE Checked(u)'  BY <1>4
<1>5. CASE UNCHANGED vars  BY <1>1, <1>3, <1>5 DEF vars, HasAuthority
<1>6. ASSUME NEW t \in Threads, t # u,
             \/ \E c \in Change \ Revocations : Call(t, c)
             \/ \E c \in Revocations : CallRevoke(t, c)
             \/ CheckAuthority(t) \/ RecordDecision(t) \/ ReadDefinition(t)
             \/ CommitChange(t) \/ Refused(t) \/ EnterGuard(t) \/ ExitGuard(t)
      PROVE  Checked(u)'
    <2>1. owner = u
        BY <1>1, <1>6, PolicyAssumption
        DEF Call, CallRevoke, Begin, CheckAuthority, RecordDecision, ReadDefinition, CommitChange,
            Refused, EnterGuard, ExitGuard
    <2>2. ~CanLock(t)  BY <1>6, <2>1, PolicyAssumption DEF CanLock
    <2>3. UNCHANGED <<history, state>>
        BY <1>6, <2>2
        DEF Call, CallRevoke, Begin, CheckAuthority, RecordDecision, ReadDefinition, CommitChange,
            Refused, EnterGuard, ExitGuard, Commit
    <2>4. pc'[u] = pc[u] /\ op'[u] = op[u] /\ scope'[u] = scope[u] /\ allowed'[u] = allowed[u]
        BY <1>2, <1>6, <2>2
        DEF Call, CallRevoke, Begin, CheckAuthority, RecordDecision, ReadDefinition, CommitChange,
            Refused, EnterGuard, ExitGuard, Commit, Goto, TypeOK
    <2> QED  BY <1>3, <2>1, <2>3, <2>4 DEF HasAuthority
<1>7. CASE (\E c \in Change \ Revocations : Call(u, c))
               \/ (\E c \in Revocations : CallRevoke(u, c))
    <2>1. PICK c \in Change, s \in Scopes :
            Begin(u, c, s) /\ (c.type = "revoked" => s = state.adoption[c.policy])
        BY <1>2, <1>7, BeginStep
    <2>2. /\ op'[u] = c /\ scope'[u] = s /\ UNCHANGED state
          /\ pc'[u] = (IF NeedsAuthority(c) THEN "check" ELSE "commit")
        BY <1>2, <2>1 DEF Begin, Goto, TypeOK
    <2>3. c.type \in {"defined", "adopted", "revoked"} => NeedsAuthority(c)  BY NeedyActor
    <2>4. NeedsAuthority(c) \in BOOLEAN  BY DEF NeedsAuthority
    <2>5. CASE NeedsAuthority(c)
        <3>1. pc'[u] = "check"  BY <2>2, <2>5
        <3> QED  BY <2>1, <2>2, <3>1
    <2>6. CASE ~NeedsAuthority(c)
        <3>1. pc'[u] = "commit" /\ c.type # "adopted" /\ c.type # "revoked"
            BY <2>2, <2>3, <2>6
        <3> QED  BY <2>2, <2>6, <3>1
    <2> QED  BY <2>4, <2>5, <2>6
<1>8. CASE CheckAuthority(u)
    <2>1. /\ pc[u] = "check" /\ pc'[u] = "record" /\ owner = u
          /\ UNCHANGED <<state, op, scope>>
          /\ allowed'[u] = HasAuthority(op[u].actor, scope[u])
        BY <1>1, <1>2, <1>8 DEF CheckAuthority, Goto, TypeOK
    <2>2. HasAuthority(op[u].actor, scope[u])' = HasAuthority(op[u].actor, scope[u])
        BY <2>1 DEF HasAuthority
    <2> QED  BY <1>3, <2>1, <2>2
<1>9. CASE RecordDecision(u)
    <2>1. /\ pc[u] = "record" /\ owner = u /\ UNCHANGED <<op, scope, allowed>>
          /\ pc'[u] = (IF ~allowed[u] THEN "idle"
                       ELSE IF op[u].type = "adopted" THEN "definition" ELSE "commit")
        BY <1>1, <1>2, <1>9 DEF RecordDecision, Goto, TypeOK
    <2>2. state' = state  BY <1>9, DecisionStep
    <2>3. HasAuthority(op[u].actor, scope[u])' = HasAuthority(op[u].actor, scope[u])
        BY <2>1, <2>2 DEF HasAuthority
    <2>4. allowed[u] \in BOOLEAN  BY <1>2 DEF TypeOK
    <2>5. CASE ~allowed[u]  BY <1>4, <2>1, <2>5
    <2>6. CASE allowed[u] /\ op[u].type = "adopted"
        <3>1. pc'[u] = "definition"  BY <2>1, <2>6
        <3> QED  BY <1>3, <2>1, <2>3, <2>6, <3>1
    <2>7. CASE allowed[u] /\ op[u].type # "adopted"
        <3>1. pc'[u] = "commit"  BY <2>1, <2>7
        <3> QED  BY <1>3, <2>1, <2>2, <2>3, <2>7, <3>1
    <2> QED  BY <2>4, <2>5, <2>6, <2>7
<1>10. CASE ReadDefinition(u)
    <2>1. /\ pc[u] = "definition" /\ owner = u /\ UNCHANGED <<state, op, scope>>
          /\ pc'[u] = (IF state.definition[op[u].policy] = NoScope THEN "idle" ELSE "commit")
        BY <1>1, <1>2, <1>10 DEF ReadDefinition, Goto, TypeOK
    <2>2. op[u].type = "adopted"  BY <1>2, <2>1 DEF InOperation
    <2>3. CASE state.definition[op[u].policy] = NoScope  BY <1>4, <2>1, <2>3
    <2>4. CASE state.definition[op[u].policy] # NoScope
        <3>1. pc'[u] = "commit"  BY <2>1, <2>4
        <3> QED  BY <1>3, <2>1, <2>2, <2>4, <3>1 DEF HasAuthority
    <2> QED  BY <2>3, <2>4
<1>11. CASE CommitChange(u) \/ Refused(u)
    BY <1>2, <1>4, <1>11 DEF CommitChange, Refused, Goto, TypeOK
<1>12. CASE EnterGuard(u) \/ ExitGuard(u)
    BY <1>4, <1>12 DEF EnterGuard, ExitGuard
<1>13. ASSUME NEW t \in Threads,
              \/ \E c \in Change \ Revocations : Call(t, c)
              \/ \E c \in Revocations : CallRevoke(t, c)
              \/ CheckAuthority(t) \/ RecordDecision(t) \/ ReadDefinition(t)
              \/ CommitChange(t) \/ Refused(t) \/ EnterGuard(t) \/ ExitGuard(t)
       PROVE  Checked(u)'
    BY <1>6, <1>7, <1>8, <1>9, <1>10, <1>11, <1>12, <1>13
<1> QED  BY <1>5, <1>13 DEF Next

\* The invariant holds in every reachable state: the types, where an operation is,
\* the consents relied on, and the checks passed inside the guard.
THEOREM Invariance == Spec => []IInv
<1>1. Init => IInv
    <2> SUFFICES ASSUME Init  PROVE IInv
        OBVIOUS
    <2>1. (CHOOSE s \in Scopes : TRUE) \in Scopes  BY PolicyAssumption
    <2>2. (CHOOSE c \in Consents : TRUE) \in Change
        <3>1. \E c \in Consents : TRUE
            <4>1. PICK a \in Participants, s \in Scopes : TRUE  BY PolicyAssumption
            <4>2. [type |-> "consented", actor |-> a, scope |-> s] \in Consents  BY DEF Consents
            <4> QED  BY <4>2
        <3> QED  BY <3>1 DEF Change
    <2>3. state \in Projection  BY PolicyAssumption DEF Init, Projection
    <2>4. /\ op \in [Threads -> Change] /\ scope \in [Threads -> Scopes]
          /\ pc \in [Threads -> {"idle", "check", "record", "definition", "commit"}]
          /\ allowed \in [Threads -> BOOLEAN]
        BY <2>1, <2>2 DEF Init
    <2>5. history \in Seq(Event) /\ owner \in Threads \union {NoThread} /\ calls \in Nat
        BY DEF Init
    <2>6. TypeOK  BY <2>3, <2>4, <2>5 DEF TypeOK
    <2>7. InOperation  BY DEF Init, InOperation
    <2>8. ConsentFollowsTerms
        BY DEF Init, ConsentFollowsTerms, ConsentAllowed, GrantedSince
    <2>9. CheckedInGuard  BY PolicyAssumption DEF Init, CheckedInGuard
    <2> QED  BY <2>6, <2>7, <2>8, <2>9 DEF IInv
<1>2. IInv /\ [Next]_vars => IInv'
    <2> SUFFICES ASSUME IInv, [Next]_vars  PROVE IInv'
        OBVIOUS
    <2>1. TypeOK' /\ InOperation' /\ CheckedInGuard'  BY TypeStep, OperationStep, GuardStep
    <2>2. ConsentFollowsTerms'
        <3>1. CASE \E t \in Threads : RecordDecision(t) \/ CommitChange(t)
            BY <3>1, DecisionStep, ChangeStep, ConsentStep DEF IInv
        <3>2. CASE ~(\E t \in Threads : RecordDecision(t) \/ CommitChange(t))
            BY <3>2, OtherStep DEF IInv, ConsentFollowsTerms, ConsentAllowed
        <3> QED  BY <3>1, <3>2
    <2> QED  BY <2>1, <2>2 DEF IInv
<1> QED  BY <1>1, <1>2, PTL DEF Spec

\* Every variable keeps its type.
THEOREM TypeCorrect == Spec => []TypeOK
<1>1. IInv => TypeOK  BY DEF IInv
<1> QED  BY <1>1, Invariance, PTL

\* A consent is relied on exactly when it was granted after the last version that
\* changes its terms and not withdrawn since, whatever was renewed, amended or
\* withdrawn and in which order (require_active_consent).
THEOREM ConsentAlwaysFollowsTerms == Spec => []ConsentFollowsTerms
<1>1. IInv => ConsentFollowsTerms  BY DEF IInv
<1> QED  BY <1>1, Invariance, PTL

\* A policy change that runs inside the execution guard commits only while its
\* actor has authority over its scope, and a revocation only in the scope of the
\* adoption that is on record then (register_policy to revoke_policy).
THEOREM GuardedPolicyChangesAuthorized == Spec => GuardedPolicyChange
<1>1. IInv /\ [Next]_vars =>
        [\A t \in Threads :
            owner = t /\ pc[t] = "commit" /\ history' # history /\ NeedsAuthority(op[t]) =>
                /\ HasAuthority(op[t].actor, scope[t])
                /\ op[t].type = "adopted" => state.definition[op[t].policy] # NoScope
                /\ op[t].type = "revoked" => scope[t] = state.adoption[op[t].policy]]_vars
    BY DEF IInv, CheckedInGuard
<1> QED  BY <1>1, Invariance, PTL DEF Spec, GuardedPolicyChange

-----------------------------------------------------------------------------
\* Why changes are explained.  The definitions below are of a history h, so that
\* those of PolicyConsent can be compared at two moments (RecordIs).

AuthorityIn(h, n, a, s) ==
    \/ /\ <<a, s>> \in InitialAuthority
       /\ \A j \in 1..n : ~(h[j].type = "deauthorized" /\ h[j].holder = a /\ h[j].scope = s)
    \/ \E i \in 1..n :
          /\ h[i].type = "authorized" /\ h[i].holder = a /\ h[i].scope = s
          /\ \A j \in (i + 1)..n :
                ~(h[j].type = "deauthorized" /\ h[j].holder = a /\ h[j].scope = s)

AdoptedIn(h, p, s) ==
    \E k \in 1..Len(h) : h[k].type = "adopted" /\ h[k].policy = p /\ h[k].scope = s

DefinedIn(h, p) == \E k \in 1..Len(h) : h[k].type = "defined" /\ h[k].policy = p

HeldIn(h, a, s) == \E n \in 0..Len(h) : AuthorityIn(h, n, a, s)

\* The scope a change is checked in is its own, or one it was adopted in.
ScopeIn(h, c, s) == IF c.type = "revoked" THEN AdoptedIn(h, c.policy, s) ELSE s = c.scope

ExplainedIn(h, c, j) ==
    /\ h[j].type = "decided" /\ h[j].allow
    /\ h[j].operation = c.type /\ h[j].actor = c.actor
    /\ \E n \in 0..(j - 1) : AuthorityIn(h, n, h[j].actor, h[j].scope)
    /\ IF c.type = "revoked"
       THEN \E k \in 1..(j - 1) : h[k].type = "adopted" /\ h[k].policy = c.policy
                                                        /\ h[k].scope = h[j].scope
       ELSE h[j].scope = c.scope

DecidedIn(h, c) == \E j \in 1..Len(h) : ExplainedIn(h, c, j)

\* What the projection says is on record.
ProjectionIn(h, st) ==
    /\ \A a \in Participants, s \in Scopes : <<a, s>> \in st.authority => AuthorityIn(h, Len(h), a, s)
    /\ \A p \in Policies : st.definition[p] # NoScope => DefinedIn(h, p)
    /\ \A p \in Policies : st.adoption[p] # NoScope => AdoptedIn(h, p, st.adoption[p])

\* What an operation has on record when it goes on.
OperationIn(h, place, c, s, allow) ==
    /\ place \in {"check", "record"} => ScopeIn(h, c, s)
    /\ place = "record" /\ allow => HeldIn(h, c.actor, s)
    /\ place = "definition" => DecidedIn(h, c)
    /\ place = "commit" /\ NeedsAuthority(c) =>
          DecidedIn(h, c) /\ (c.type = "adopted" => DefinedIn(h, c.policy))

ChangesIn(h) ==
    \A i \in 1..Len(h) :
        h[i].type # "decided" /\ NeedsAuthority(h[i]) =>
            /\ \E j \in 1..(i - 1) : ExplainedIn(h, h[i], j)
            /\ h[i].type = "adopted" =>
                  \E k \in 1..(i - 1) : h[k].type = "defined" /\ h[k].policy = h[i].policy

RecordInv ==
    /\ ProjectionIn(history, state)
    /\ \A t \in Threads : OperationIn(history, pc[t], op[t], scope[t], allowed[t])
    /\ ChangesIn(history)

\* What the record explains is what the property asks.
LEMMA RecordIs == ChangesIn(history) => PolicyChangesExplained
BY DEF ChangesIn, ExplainedIn, AuthorityIn, PolicyChangesExplained, ExplainedBy, AuthorityAt

\* The record is only added to.
Extends(g, h) ==
    /\ Len(h) \in Nat /\ Len(g) \in Nat /\ Len(h) <= Len(g)
    /\ \A i \in 1..Len(h) : g[i] = h[i]

\* Authority held at some point of the record was held there ever after.
LEMMA AuthorityStays ==
    ASSUME NEW g, NEW h, Extends(g, h), NEW n \in 0..Len(h), NEW a, NEW s, AuthorityIn(h, n, a, s)
    PROVE  AuthorityIn(g, n, a, s)
<1>1. \A j \in 1..n : g[j] = h[j]  BY DEF Extends
<1>2. CASE \E i \in 1..n :
              /\ h[i].type = "authorized" /\ h[i].holder = a /\ h[i].scope = s
              /\ \A j \in (i + 1)..n : ~(h[j].type = "deauthorized"
                                         /\ h[j].holder = a /\ h[j].scope = s)
  <2>1. PICK i \in 1..n :
              /\ h[i].type = "authorized" /\ h[i].holder = a /\ h[i].scope = s
              /\ \A j \in (i + 1)..n : ~(h[j].type = "deauthorized"
                                         /\ h[j].holder = a /\ h[j].scope = s)
    BY <1>2
  <2>2. g[i] = h[i] /\ \A j \in (i + 1)..n : g[j] = h[j]  BY <1>1 DEF Extends
  <2> QED  BY <2>1, <2>2 DEF AuthorityIn
<1>3. CASE ~ \E i \in 1..n :
              /\ h[i].type = "authorized" /\ h[i].holder = a /\ h[i].scope = s
              /\ \A j \in (i + 1)..n : ~(h[j].type = "deauthorized"
                                         /\ h[j].holder = a /\ h[j].scope = s)
  BY <1>1, <1>3 DEF AuthorityIn
<1> QED  BY <1>2, <1>3

\* So an explanation stays one.
LEMMA ExplanationStays ==
    ASSUME NEW g, NEW h, Extends(g, h), NEW c, NEW j \in 1..Len(h), ExplainedIn(h, c, j)
    PROVE  ExplainedIn(g, c, j)
<1>1. g[j] = h[j] /\ (\A k \in 1..(j - 1) : g[k] = h[k]) /\ 0..(j - 1) \subseteq 0..Len(h)
    BY DEF Extends
<1>2. \A n \in 0..(j - 1) :
          AuthorityIn(h, n, h[j].actor, h[j].scope) => AuthorityIn(g, n, g[j].actor, g[j].scope)
    BY <1>1, AuthorityStays
<1> QED  BY <1>1, <1>2 DEF ExplainedIn

\* And so does what an operation has on record.
LEMMA OperationStays ==
    ASSUME NEW g, NEW h, Extends(g, h), NEW place, NEW c, NEW s, NEW allow,
           OperationIn(h, place, c, s, allow)
    PROVE  OperationIn(g, place, c, s, allow)
<1>1. 1..Len(h) \subseteq 1..Len(g) /\ 0..Len(h) \subseteq 0..Len(g)  BY DEF Extends
<1>2. ScopeIn(h, c, s) => ScopeIn(g, c, s)  BY <1>1 DEF Extends, ScopeIn, AdoptedIn
<1>3. HeldIn(h, c.actor, s) => HeldIn(g, c.actor, s)  BY <1>1, AuthorityStays DEF HeldIn
<1>4. DecidedIn(h, c) => DecidedIn(g, c)  BY <1>1, ExplanationStays DEF DecidedIn
<1>5. DefinedIn(h, c.policy) => DefinedIn(g, c.policy)  BY <1>1 DEF Extends, DefinedIn
<1> QED  BY <1>2, <1>3, <1>4, <1>5 DEF OperationIn

\* The projection of a history with one more event.
LEMMA ProjectionExtends ==
    ASSUME NEW g, NEW h, Extends(g, h), Len(g) = Len(h) + 1, NEW st \in Projection,
           ProjectionIn(h, st), NEW e \in Event, g[Len(h) + 1] = e
    PROVE  ProjectionIn(g, Reduce(st, e))
<1> DEFINE n == Len(h)
<1>1. n \in Nat /\ \A i \in 1..n : g[i] = h[i]  BY DEF Extends
<1>2. ASSUME NEW a \in Participants, NEW s \in Scopes, <<a, s>> \in Reduce(st, e).authority
      PROVE  AuthorityIn(g, n + 1, a, s)
    <2>1. <<a, s>> \in Authority(st, e)  BY <1>2 DEF Reduce
    <2>2. CASE e.type = "authorized" /\ e.holder = a /\ e.scope = s
        <3>1. n + 1 \in 1..(n + 1) /\ ((n + 1) + 1)..(n + 1) = {}  BY <1>1
        <3> QED  BY <2>2, <3>1 DEF AuthorityIn
    <2>3. CASE ~(e.type = "authorized" /\ e.holder = a /\ e.scope = s)
        <3>1. <<a, s>> \in st.authority  BY <2>1, <2>3 DEF Authority
        <3>2. ~(e.type = "deauthorized" /\ e.holder = a /\ e.scope = s)
            BY <2>1 DEF Authority
        <3>3. AuthorityIn(h, n, a, s)  BY <3>1 DEF ProjectionIn
        <3>4. AuthorityIn(g, n, a, s)  BY <1>1, <3>3, AuthorityStays
        <3>5. \A j : j \in 1..(n + 1) => j \in 1..n \/ j = n + 1  BY <1>1
        <3> QED  BY <1>1, <3>2, <3>4, <3>5 DEF AuthorityIn
    <2> QED  BY <2>2, <2>3
<1>3. ASSUME NEW p \in Policies, Reduce(st, e).definition[p] # NoScope
      PROVE  DefinedIn(g, p)
    <2>1. Definition(st, e)[p] # NoScope  BY <1>3 DEF Reduce
    <2>2. CASE e.type = "defined" /\ e.policy = p
        BY <1>1, <2>2 DEF DefinedIn
    <2>3. CASE ~(e.type = "defined" /\ e.policy = p)
        <3>1. st.definition[p] # NoScope  BY <2>1, <2>3 DEF Definition, Projection
        <3>2. DefinedIn(h, p)  BY <3>1 DEF ProjectionIn
        <3> QED  BY <1>1, <3>2 DEF DefinedIn
    <2> QED  BY <2>2, <2>3
<1>4. ASSUME NEW p \in Policies, Reduce(st, e).adoption[p] # NoScope
      PROVE  AdoptedIn(g, p, Reduce(st, e).adoption[p])
    <2>1. Reduce(st, e).adoption[p] = Adoption(st, e)[p]  BY DEF Reduce
    <2>2. CASE e.type = "adopted" /\ e.policy = p
        <3>1. Adoption(st, e)[p] = e.scope  BY <2>2 DEF Adoption, Projection
        <3> QED  BY <1>1, <2>1, <2>2, <3>1 DEF AdoptedIn
    <2>3. CASE ~(e.type = "adopted" /\ e.policy = p)
        <3>1. Adoption(st, e)[p] = st.adoption[p]  BY <2>3 DEF Adoption, Projection
        <3>2. AdoptedIn(h, p, st.adoption[p])  BY <1>4, <2>1, <3>1 DEF ProjectionIn
        <3> QED  BY <1>1, <2>1, <3>1, <3>2 DEF AdoptedIn
    <2> QED  BY <2>2, <2>3
<1> QED  BY <1>2, <1>3, <1>4 DEF ProjectionIn

\* Changes stay explained when one more event is, if it is a change.
LEMMA ChangesExtend ==
    ASSUME NEW g, NEW h, Extends(g, h), Len(g) = Len(h) + 1, ChangesIn(h),
           NEW e, g[Len(h) + 1] = e,
           e.type # "decided" /\ NeedsAuthority(e) =>
               DecidedIn(h, e) /\ (e.type = "adopted" => DefinedIn(h, e.policy))
    PROVE  ChangesIn(g)
<1> DEFINE n == Len(h)
<1>1. n \in Nat /\ \A i \in 1..n : g[i] = h[i]  BY DEF Extends
<1> SUFFICES ASSUME NEW i \in 1..(n + 1), g[i].type # "decided", NeedsAuthority(g[i])
             PROVE  /\ \E j \in 1..(i - 1) : ExplainedIn(g, g[i], j)
                    /\ g[i].type = "adopted" =>
                          \E k \in 1..(i - 1) : g[k].type = "defined" /\ g[k].policy = g[i].policy
    BY DEF ChangesIn
<1>2. CASE i = n + 1
    <2>1. g[i] = e /\ DecidedIn(h, e) /\ (e.type = "adopted" => DefinedIn(h, e.policy))
        BY <1>2
    <2>2. i - 1 = n  BY <1>1, <1>2
    <2>3. PICK j \in 1..n : ExplainedIn(h, e, j)  BY <2>1 DEF DecidedIn
    <2>4. ExplainedIn(g, e, j)  BY <2>3, ExplanationStays
    <2>5. e.type = "adopted" => \E k \in 1..n : g[k].type = "defined" /\ g[k].policy = e.policy
        BY <1>1, <2>1 DEF DefinedIn
    <2> QED  BY <2>1, <2>2, <2>4, <2>5
<1>3. CASE i # n + 1
    <2>1. i \in 1..n /\ g[i] = h[i] /\ 1..(i - 1) \subseteq 1..n  BY <1>1, <1>3
    <2>2. /\ \E j \in 1..(i - 1) : ExplainedIn(h, h[i], j)
          /\ h[i].type = "adopted" =>
                \E k \in 1..(i - 1) : h[k].type = "defined" /\ h[k].policy = h[i].policy
        BY <2>1 DEF ChangesIn
    <2>3. \E j \in 1..(i - 1) : ExplainedIn(g, g[i], j)  BY <2>1, <2>2, ExplanationStays
    <2> QED  BY <1>1, <2>1, <2>2, <2>3
<1> QED  BY <1>2, <1>3

\* A step that commits extends all three parts, and the other operations keep
\* what they have on record.
LEMMA CommitRecord ==
    ASSUME TypeOK, RecordInv, NEW t \in Threads, NEW e \in Event, Commit(t, e),
           e.type # "decided" /\ NeedsAuthority(e) =>
               DecidedIn(history, e) /\ (e.type = "adopted" => DefinedIn(history, e.policy))
    PROVE  /\ Extends(history', history)
           /\ ProjectionIn(history', state') /\ ChangesIn(history')
<1>1. Extends(history', history) /\ Len(history') = Len(history) + 1
      /\ history'[Len(history) + 1] = e /\ state' = Reduce(state, e) /\ state \in Projection
    BY CommitStep DEF Extends, TypeOK
<1> QED  BY <1>1, ProjectionExtends, ChangesExtend DEF RecordInv

\* Each operation has on record what it goes on with.
LEMMA RecordStep ==
    ASSUME IInv, RecordInv, [Next]_vars
    PROVE  RecordInv'
<1> DEFINE Op(u) == OperationIn(history, pc[u], op[u], scope[u], allowed[u])
           OpNext(u) == OperationIn(history', pc'[u], op'[u], scope'[u], allowed'[u])
<1>0. TypeOK /\ InOperation  BY DEF IInv
<1>1. Extends(history, history)  BY <1>0, LenProperties DEF Extends, TypeOK
<1>2. ASSUME NEW t \in Threads, UNCHANGED <<history, state>>, OpNext(t),
             \A u \in Threads \ {t} : pc'[u] = pc[u] /\ op'[u] = op[u] /\ scope'[u] = scope[u]
                                      /\ allowed'[u] = allowed[u]
      PROVE  RecordInv'
    BY <1>2 DEF RecordInv
<1>3. ASSUME NEW t \in Threads, Extends(history', history), ProjectionIn(history', state'),
             ChangesIn(history'), OpNext(t),
             \A u \in Threads \ {t} : pc'[u] = pc[u] /\ op'[u] = op[u] /\ scope'[u] = scope[u]
                                      /\ allowed'[u] = allowed[u]
      PROVE  RecordInv'
    <2>1. \A u \in Threads \ {t} : OpNext(u)
        <3> SUFFICES ASSUME NEW u \in Threads \ {t}  PROVE OpNext(u)
            OBVIOUS
        <3>1. Op(u)  BY DEF RecordInv
        <3>2. OperationIn(history', pc[u], op[u], scope[u], allowed[u])
            BY <1>3, <3>1, OperationStays
        <3> QED  BY <1>3, <3>2
    <2> QED  BY <1>3, <2>1 DEF RecordInv
<1>4. ASSUME NEW t \in Threads,
             (\E c \in Change \ Revocations : Call(t, c))
                 \/ (\E c \in Revocations : CallRevoke(t, c))
      PROVE  RecordInv'
    <2>1. \E c \in Change, s \in Scopes : Begin(t, c, s) /\ ScopeIn(history, c, s)
        <3>1. ASSUME NEW c \in Change \ Revocations, Call(t, c)
              PROVE  Begin(t, c, c.scope) /\ c.scope \in Scopes /\ ScopeIn(history, c, c.scope)
            BY <3>1 DEF Call, ScopeIn, Change, Consents, Authorities, Definitions, Adoptions
        <3>2. ASSUME NEW c \in Revocations, CallRevoke(t, c)
              PROVE  /\ Begin(t, c, state.adoption[c.policy])
                     /\ state.adoption[c.policy] \in Scopes
                     /\ ScopeIn(history, c, state.adoption[c.policy])
            <4>1. c.policy \in Policies /\ c.type = "revoked" /\ state.adoption[c.policy] # NoScope
                BY <3>2 DEF Revocations, CallRevoke
            <4>2. AdoptedIn(history, c.policy, state.adoption[c.policy])
                BY <4>1 DEF RecordInv, ProjectionIn
            <4> QED  BY <1>0, <3>2, <4>1, <4>2 DEF CallRevoke, ScopeIn, TypeOK, Projection
        <3>3. Change \ Revocations \subseteq Change /\ Revocations \subseteq Change  BY DEF Change
        <3> QED  BY <1>4, <3>1, <3>2, <3>3
    <2>2. PICK c \in Change, s \in Scopes : Begin(t, c, s) /\ ScopeIn(history, c, s)
        BY <2>1
    <2>3. /\ op'[t] = c /\ scope'[t] = s /\ UNCHANGED <<history, state>>
          /\ pc'[t] = (IF NeedsAuthority(c) THEN "check" ELSE "commit")
          /\ allowed'[t] = FALSE
          /\ \A u \in Threads \ {t} : pc'[u] = pc[u] /\ op'[u] = op[u] /\ scope'[u] = scope[u]
                                      /\ allowed'[u] = allowed[u]
        BY <1>0, <2>2 DEF Begin, Goto, TypeOK
    <2>4. OpNext(t)
        <3>1. CASE NeedsAuthority(c)  BY <2>2, <2>3, <3>1 DEF OperationIn
        <3>2. CASE ~NeedsAuthority(c)  BY <2>2, <2>3, <3>2 DEF OperationIn
        <3> QED  BY <3>1, <3>2
    <2> QED  BY <1>2, <2>3, <2>4
<1>5. ASSUME NEW t \in Threads, CheckAuthority(t)  PROVE RecordInv'
    <2>1. /\ pc[t] = "check" /\ pc'[t] = "record" /\ UNCHANGED <<history, state, op, scope>>
          /\ allowed'[t] = HasAuthority(op[t].actor, scope[t])
          /\ \A u \in Threads \ {t} : pc'[u] = pc[u] /\ allowed'[u] = allowed[u]
        BY <1>0, <1>5 DEF CheckAuthority, Goto, TypeOK
    <2>2. ScopeIn(history, op[t], scope[t])  BY <2>1 DEF RecordInv, OperationIn
    <2>3. HasAuthority(op[t].actor, scope[t]) => HeldIn(history, op[t].actor, scope[t])
        <3>1. op[t].actor \in Participants /\ scope[t] \in Scopes
            BY <1>0, <2>1, NeedyActor DEF InOperation, TypeOK
        <3>2. Len(history) \in 0..Len(history)  BY <1>1 DEF Extends
        <3> QED  BY <3>1, <3>2 DEF HasAuthority, HeldIn, RecordInv, ProjectionIn
    <2>4. OpNext(t)  BY <2>1, <2>2, <2>3 DEF OperationIn
    <2> QED  BY <1>2, <2>1, <2>4
<1>6. ASSUME NEW t \in Threads, RecordDecision(t)  PROVE RecordInv'
    <2> DEFINE e == [type |-> "decided", operation |-> op[t].type, actor |-> op[t].actor,
                     scope |-> scope[t], allow |-> allowed[t]]
               n == Len(history)
    <2>1. /\ pc[t] = "record" /\ UNCHANGED <<op, scope, allowed>> /\ Commit(t, e)
          /\ pc'[t] = (IF ~allowed[t] THEN "idle"
                       ELSE IF op[t].type = "adopted" THEN "definition" ELSE "commit")
          /\ \A u \in Threads \ {t} : pc'[u] = pc[u]
        BY <1>0, <1>6 DEF RecordDecision, Goto, TypeOK
    <2>2. op[t] \in Change /\ scope[t] \in Scopes /\ allowed[t] \in BOOLEAN /\ NeedsAuthority(op[t])
        BY <1>0, <2>1 DEF TypeOK, InOperation
    <2>3. e \in Event
        <3>1. op[t].actor \in Participants /\ op[t].type \in Kinds  BY <2>2, NeedyActor
        <3> QED  BY <2>2, <3>1 DEF Event, Decision
    <2>4. e.type = "decided" /\ e.operation = op[t].type /\ e.actor = op[t].actor
          /\ e.scope = scope[t] /\ e.allow = allowed[t]
        OBVIOUS
    <2> HIDE DEF e
    <2>5. Extends(history', history) /\ ProjectionIn(history', state') /\ ChangesIn(history')
        BY <1>0, <2>1, <2>3, <2>4, CommitRecord
    <2>6. n \in Nat /\ Len(history') = n + 1 /\ history'[n + 1] = e
        BY <1>0, <2>1, <2>3, CommitStep
    <2>7. OpNext(t)
        <3>1. CASE ~allowed[t]  BY <2>1, <3>1 DEF OperationIn
        <3>2. CASE allowed[t]
            <4>1. ScopeIn(history, op[t], scope[t]) /\ HeldIn(history, op[t].actor, scope[t])
                BY <2>1, <3>2 DEF RecordInv, OperationIn
            <4>2. PICK m \in 0..n : AuthorityIn(history, m, op[t].actor, scope[t])
                BY <4>1 DEF HeldIn
            <4>3. AuthorityIn(history', m, op[t].actor, scope[t])  BY <2>5, <4>2, AuthorityStays
            <4>4. (n + 1) - 1 = n /\ 1..n \subseteq 1..(n + 1) /\ n + 1 \in 1..(n + 1)  BY <2>6
            <4>5. IF op[t].type = "revoked"
                  THEN \E k \in 1..n : /\ history'[k].type = "adopted"
                                       /\ history'[k].policy = op[t].policy
                                       /\ history'[k].scope = scope[t]
                  ELSE scope[t] = op[t].scope
                BY <2>5, <4>1 DEF ScopeIn, AdoptedIn, Extends
            <4>6. ExplainedIn(history', op[t], n + 1)
                BY <2>4, <2>6, <3>2, <4>3, <4>4, <4>5 DEF ExplainedIn
            <4>7. DecidedIn(history', op[t])  BY <2>6, <4>4, <4>6 DEF DecidedIn
            <4>8. CASE op[t].type = "adopted"
                <5>1. pc'[t] = "definition"  BY <2>1, <3>2, <4>8
                <5> QED  BY <2>1, <4>7, <5>1 DEF OperationIn
            <4>9. CASE op[t].type # "adopted"
                <5>1. pc'[t] = "commit"  BY <2>1, <3>2, <4>9
                <5> QED  BY <2>1, <4>7, <4>9, <5>1 DEF OperationIn
            <4> QED  BY <4>8, <4>9
        <3> QED  BY <2>2, <3>1, <3>2
    <2> QED  BY <1>3, <2>1, <2>5, <2>7
<1>7. ASSUME NEW t \in Threads, ReadDefinition(t)  PROVE RecordInv'
    <2>1. /\ pc[t] = "definition" /\ UNCHANGED <<history, state, op, scope, allowed>>
          /\ pc'[t] = (IF state.definition[op[t].policy] = NoScope THEN "idle" ELSE "commit")
          /\ \A u \in Threads \ {t} : pc'[u] = pc[u]
        BY <1>0, <1>7 DEF ReadDefinition, Goto, TypeOK
    <2>2. DecidedIn(history, op[t])  BY <2>1 DEF RecordInv, OperationIn
    <2>3. op[t].policy \in Policies
        <3>1. op[t] \in Change /\ op[t].type = "adopted"  BY <1>0, <2>1 DEF TypeOK, InOperation
        <3>2. op[t] \in Event  BY <3>1 DEF Event
        <3> QED  BY <3>1, <3>2, EventCases DEF Adoptions
    <2>4. state.definition[op[t].policy] # NoScope => DefinedIn(history, op[t].policy)
        BY <2>3 DEF RecordInv, ProjectionIn
    <2>5. OpNext(t)
        <3>1. CASE state.definition[op[t].policy] = NoScope  BY <2>1, <3>1 DEF OperationIn
        <3>2. CASE state.definition[op[t].policy] # NoScope
            BY <2>1, <2>2, <2>4, <3>2 DEF OperationIn
        <3> QED  BY <3>1, <3>2
    <2> QED  BY <1>2, <2>1, <2>5
<1>8. ASSUME NEW t \in Threads, CommitChange(t)  PROVE RecordInv'
    <2>1. /\ pc[t] = "commit" /\ pc'[t] = "idle" /\ UNCHANGED <<op, scope, allowed>>
          /\ Commit(t, op[t]) /\ op[t] \in Event
          /\ \A u \in Threads \ {t} : pc'[u] = pc[u]
        BY <1>0, <1>8 DEF CommitChange, Goto, TypeOK, Event
    <2>2. NeedsAuthority(op[t]) =>
              DecidedIn(history, op[t]) /\ (op[t].type = "adopted" => DefinedIn(history, op[t].policy))
        BY <2>1 DEF RecordInv, OperationIn
    <2>3. Extends(history', history) /\ ProjectionIn(history', state') /\ ChangesIn(history')
        BY <1>0, <2>1, <2>2, CommitRecord
    <2>4. OpNext(t)  BY <2>1 DEF OperationIn
    <2> QED  BY <1>3, <2>1, <2>3, <2>4
<1>9. ASSUME NEW t \in Threads, Refused(t)  PROVE RecordInv'
    <2>1. /\ pc'[t] = "idle" /\ UNCHANGED <<history, state, op, scope, allowed>>
          /\ \A u \in Threads \ {t} : pc'[u] = pc[u]
        BY <1>0, <1>9 DEF Refused, Goto, TypeOK
    <2>2. OpNext(t)  BY <2>1 DEF OperationIn
    <2> QED  BY <1>2, <2>1, <2>2
<1>10. ASSUME NEW t \in Threads, EnterGuard(t) \/ ExitGuard(t)  PROVE RecordInv'
    BY <1>10 DEF EnterGuard, ExitGuard, RecordInv
<1>11. CASE UNCHANGED vars  BY <1>11 DEF vars, RecordInv
<1> QED  BY <1>4, <1>5, <1>6, <1>7, <1>8, <1>9, <1>10, <1>11 DEF Next

\* Every policy change of a participant is explained by the record before it,
\* however operations and changes of authority interleave: an ALLOW decision for
\* that change, taken when the actor did hold the authority
\* (_require_policy_authority, adopt_policy, revoke_policy).
THEOREM PolicyChangesAlwaysExplained == Spec => []PolicyChangesExplained
<1>1. Init => RecordInv
    <2> SUFFICES ASSUME Init  PROVE RecordInv
        OBVIOUS
    <2>1. Len(history) = 0  BY DEF Init
    <2>2. ProjectionIn(history, state)
        BY <2>1 DEF Init, ProjectionIn, AuthorityIn
    <2>3. \A t \in Threads : OperationIn(history, pc[t], op[t], scope[t], allowed[t])
        BY DEF Init, OperationIn
    <2>4. ChangesIn(history)  BY <2>1 DEF ChangesIn
    <2> QED  BY <2>2, <2>3, <2>4 DEF RecordInv
<1>2. IInv /\ RecordInv /\ [Next]_vars => RecordInv'
    BY RecordStep
<1>3. RecordInv => PolicyChangesExplained
    BY RecordIs DEF RecordInv
<1> QED  BY <1>1, <1>2, <1>3, Invariance, PTL DEF Spec

=============================================================================
