--------------------------- MODULE LifecycleProofs ---------------------------
(***************************************************************************)
(* What holds of Lifecycle for every number of threads, participants and   *)
(* calls.  The argument for an operation inside the guard: its own         *)
(* decisions do not move the projection, nobody else commits, so each      *)
(* check still holds at the commit.                                        *)
(***************************************************************************)
EXTENDS Lifecycle, SequenceTheorems, FiniteSetTheorems, WellFoundedInduction, TLAPS

\* Some operation the host can call.
LEMMA SomeOperation ==
    \E o \in Operations : o.kind = "grant"
<1>1. PICK p \in Participants : TRUE  BY LifecycleAssumption
<1>2. [kind |-> "grant", actor |-> System, about |-> p] \in Operations
    BY <1>1 DEF Operations, Operation, Kinds
<1> QED  BY <1>2

\* The history has a length.
LEMMA LenType ==
    ASSUME TypeOK
    PROVE  Len(history) \in Nat
<1>1. history \in Seq(Event)  BY DEF TypeOK
<1> QED  BY <1>1, LenProperties

\* What a commit appends: an event, one more.
LEMMA CommitEvent ==
    ASSUME TypeOK, NEW t \in Threads, NEW type, Commit(t, type),
           type \in {"authority", "permitted", op[t].kind}
    PROVE  /\ \E e \in Event : e.type = type /\ history' = Append(history, e)
           /\ history' \in Seq(Event)
           /\ Len(history') = Len(history) + 1
           /\ \A i \in 1..Len(history) : history'[i] = history[i]
           /\ history'[Len(history) + 1].type = type
<1> DEFINE e == [type |-> type, by |-> op[t], from |-> from[t], allow |-> allowed[t]]
<1>1. op[t] \in Operations /\ from[t] \in States /\ allowed[t] \in BOOLEAN  BY DEF TypeOK
<1>2. op[t].kind \in Kinds  BY <1>1 DEF Operations, Operation
<1>3. e \in Event /\ e.type = type  BY <1>1, <1>2 DEF Event, Kinds
<1>4. history' = Append(history, e)  BY DEF Commit
<1>5. history \in Seq(Event)  BY DEF TypeOK
<1> HIDE DEF e
<1> QED  BY <1>3, <1>4, <1>5, AppendProperties

\* A nonempty set of numbers up to n has a largest element.
LEMMA Largest ==
    ASSUME NEW n \in Nat, NEW S \in SUBSET (1..n), S # {}
    PROVE  \E i \in S : \A j \in S : j <= i
<1> DEFINE Tails == {i..n : i \in S}
<1>1. S \subseteq 1..n /\ \A i \in S : i \in Nat /\ i <= n  OBVIOUS
<1>2. IsWellFoundedOn(StrictSubsetOrdering(1..n), SUBSET (1..n))
    <2>1. IsFiniteSet(1..n)  BY FS_Interval
    <2> QED  BY <2>1, FS_StrictSubsetOrderingWellFounded, FS_FiniteSubsetsOfFinite
<1>3. Tails \subseteq SUBSET (1..n) /\ Tails # {}
    <2>1. \A i \in S : i..n \in SUBSET (1..n)  BY <1>1
    <2>2. \E i \in S : i..n \in Tails  OBVIOUS
    <2> QED  BY <2>1, <2>2
<1>4. PICK T \in Tails : \A U \in Tails : ~(<<U, T>> \in StrictSubsetOrdering(1..n))
    <2> HIDE DEF Tails
    <2> QED  BY <1>2, <1>3, WFMin
<1>5. PICK i \in S : T = i..n  BY <1>4
<1>6. ASSUME NEW j \in S, i < j  PROVE FALSE
    <2>1. j..n \in Tails /\ j..n \subseteq i..n  BY <1>1, <1>6
    <2>2. j..n # i..n
        <3>1. i \in i..n /\ i \notin j..n  BY <1>1, <1>6
        <3> QED  BY <3>1
    <2>3. <<j..n, T>> \in StrictSubsetOrdering(1..n)
        BY <1>3, <1>4, <1>5, <2>1, <2>2 DEF StrictSubsetOrdering
    <2> QED  BY <1>4, <2>1, <2>3
<1> QED  BY <1>1, <1>6

\* The lifecycle is one of the states.
LEMMA LifecycleType ==
    ASSUME NEW h \in Seq(Event)
    PROVE  LifecycleAt(h, Len(h)) \in States
<1>1. CASE Moves(h, Len(h)) = {}  BY <1>1 DEF LifecycleAt, States
<1>2. CASE Moves(h, Len(h)) # {}
    <2> DEFINE n == Len(h)
               last == CHOOSE i \in Moves(h, n) : \A j \in Moves(h, n) : j <= i
    <2>1. \E i \in Moves(h, n) : \A j \in Moves(h, n) : j <= i
        <3>1. n \in Nat  BY LenProperties
        <3>2. Moves(h, n) \in SUBSET (1..n)  BY DEF Moves
        <3> QED  BY <1>2, <3>1, <3>2, Largest
    <2>2. last \in Moves(h, n)  BY <2>1
    <2>3. last \in 1..n /\ h[last].type = "transition"  BY <2>2 DEF Moves
    <2>4. h[last] \in Event  BY <2>3, LenProperties
    <2>5. h[last].by.about \in States  BY <2>3, <2>4 DEF Event, Operations, Kinds
    <2> QED  BY <1>2, <2>5 DEF LifecycleAt
<1> QED  BY <1>1, <1>2

\* A decision does not move the projection.
LEMMA DecisionKeepsProjection ==
    ASSUME TypeOK, NEW t \in Threads, NEW type \in {"authority", "permitted"}, Commit(t, type)
    PROVE  /\ Now' = Now
           /\ \A a : HasAuthority(a)' = HasAuthority(a)
<1> DEFINE n == Len(history)
<1>1. /\ n \in Nat
      /\ Len(history') = n + 1
      /\ \A i \in 1..n : history'[i] = history[i]
      /\ history'[n + 1].type = type
    BY CommitEvent, LenType
<1>2. history'[n + 1].type \notin Kinds  BY <1>1 DEF Kinds
<1>3. Moves(history', n + 1) = Moves(history, n)
    BY <1>1, <1>2 DEF Moves, Kinds
<1>4. Now' = Now
    <2>1. \A i \in Moves(history, n) : history'[i] = history[i]  BY <1>1 DEF Moves
    <2>2. LifecycleAt(history', n + 1) = LifecycleAt(history, n)
        <3>1. CASE Moves(history, n) = {}  BY <1>3, <3>1 DEF LifecycleAt
        <3>2. CASE Moves(history, n) # {}
            <4>1. Moves(history, n) \in SUBSET (1..n)  BY DEF Moves
            <4>2. \E i \in Moves(history, n) : \A j \in Moves(history, n) : j <= i
                BY <1>1, <3>2, <4>1, Largest
            <4> DEFINE last == CHOOSE i \in Moves(history, n) : \A j \in Moves(history, n) : j <= i
            <4>3. last \in Moves(history, n)  BY <4>2
            <4>4. history'[last] = history[last]  BY <2>1, <4>3
            <4>5. LifecycleAt(history, n) = history[last].by.about  BY <3>2 DEF LifecycleAt
            <4>6. LifecycleAt(history', n + 1) = history'[last].by.about
                BY <1>3, <3>2 DEF LifecycleAt
            <4> QED  BY <4>4, <4>5, <4>6
        <3> QED  BY <3>1, <3>2
    <2> QED  BY <1>1, <2>2 DEF Now
<1>5. ASSUME NEW a  PROVE HasAuthority(a)' = HasAuthority(a)
    <2>1. AuthorityAt(history', n + 1, a) = AuthorityAt(history, n, a)
        <3>1. ASSUME AuthorityAt(history', n + 1, a)  PROVE AuthorityAt(history, n, a)
            BY <1>1, <1>2, <3>1 DEF AuthorityAt, Kinds
        <3>2. ASSUME AuthorityAt(history, n, a)  PROVE AuthorityAt(history', n + 1, a)
            <4>1. PICK i \in 1..n :
                    /\ history[i].type = "grant" /\ history[i].by.about = a
                    /\ \A j \in (i + 1)..n : ~(history[j].type = "revoke" /\ history[j].by.about = a)
                BY <3>2 DEF AuthorityAt
            <4>2. \A j \in (i + 1)..(n + 1) :
                      ~(history'[j].type = "revoke" /\ history'[j].by.about = a)
                BY <1>1, <1>2, <4>1 DEF Kinds
            <4>3. i \in 1..(n + 1) /\ history'[i] = history[i]  BY <1>1
            <4> QED  BY <4>1, <4>2, <4>3 DEF AuthorityAt
        <3>3. AuthorityAt(history', n + 1, a) \in BOOLEAN /\ AuthorityAt(history, n, a) \in BOOLEAN
            BY DEF AuthorityAt
        <3> QED  BY <3>1, <3>2, <3>3
    <2> QED  BY <1>1, <2>1 DEF HasAuthority
<1> QED  BY <1>4, <1>5

-----------------------------------------------------------------------------

\* The checks an operation inside the guard has passed still hold.
CheckedInGuard ==
    \A t \in Threads : owner = t =>
        /\ pc[t] = "record authority" /\ allowed[t] => HasAuthority(op[t].actor)
        /\ pc[t] \in {"from", "check", "record"} => HasAuthority(op[t].actor)
        /\ pc[t] \in {"check", "record"} => from[t] = Now
        /\ pc[t] = "record" /\ allowed[t] => op[t].about \in Successors(Now)
        /\ pc[t] = "commit" /\ op[t].actor # System =>
              /\ HasAuthority(op[t].actor)
              /\ op[t].kind = "transition" =>
                    op[t].about \in Successors(Now) /\ from[t] = Now

IInv == TypeOK /\ CheckedInGuard

\* Every state has its type.
LEMMA TypeStep ==
    ASSUME TypeOK, [Next]_vars
    PROVE  TypeOK'
<1> DEFINE PCs == {"idle", "authority", "record authority", "from", "check", "record", "commit"}
<1>1. CASE UNCHANGED vars  BY <1>1 DEF vars, TypeOK
<1>2. ASSUME NEW t \in Threads, NEW o \in Operations, Call(t, o)  PROVE TypeOK'
    <2>1. pc' \in [Threads -> PCs]  BY <1>2 DEF Call, Goto, TypeOK
    <2>2. op' \in [Threads -> Operations]  BY <1>2 DEF Call, TypeOK
    <2>3. from' \in [Threads -> States]  BY <1>2 DEF Call, TypeOK, States
    <2>4. allowed' \in [Threads -> BOOLEAN]  BY <1>2 DEF Call, TypeOK
    <2>5. calls' \in Nat
        <3>1. calls \in Nat  BY DEF TypeOK
        <3>2. calls' = calls + 1  BY <1>2 DEF Call
        <3> QED  BY <3>1, <3>2
    <2> QED  BY <1>2, <2>1, <2>2, <2>3, <2>4, <2>5 DEF Call, TypeOK
<1>3. ASSUME NEW t \in Threads, CheckAuthority(t)  PROVE TypeOK'
    <2>1. HasAuthority(op[t].actor) \in BOOLEAN  BY DEF HasAuthority, AuthorityAt
    <2> QED  BY <1>3, <2>1 DEF CheckAuthority, Goto, TypeOK
<1>4. ASSUME NEW t \in Threads, RecordAuthority(t)  PROVE TypeOK'
    <2>1. history' \in Seq(Event)  BY <1>4, CommitEvent DEF RecordAuthority
    <2>2. pc' \in [Threads -> PCs]  BY <1>4 DEF RecordAuthority, Goto, TypeOK
    <2> QED  BY <1>4, <2>1, <2>2 DEF RecordAuthority, TypeOK
<1>5. ASSUME NEW t \in Threads, ReadFrom(t)  PROVE TypeOK'
    <2>1. history \in Seq(Event)  BY DEF TypeOK
    <2>2. Now \in States  BY <2>1, LifecycleType DEF Now
    <2> QED  BY <1>5, <2>2 DEF ReadFrom, Goto, TypeOK
<1>6. ASSUME NEW t \in Threads, CheckTransition(t)  PROVE TypeOK'
    <2>1. (op[t].about \in Successors(Now)) \in BOOLEAN  OBVIOUS
    <2>2. allowed' \in [Threads -> BOOLEAN]  BY <1>6, <2>1 DEF CheckTransition, TypeOK
    <2>3. pc' \in [Threads -> PCs]  BY <1>6 DEF CheckTransition, Goto, TypeOK
    <2> QED  BY <1>6, <2>2, <2>3 DEF CheckTransition, TypeOK
<1>7. ASSUME NEW t \in Threads, RecordTransition(t)  PROVE TypeOK'
    <2>1. history' \in Seq(Event)  BY <1>7, CommitEvent DEF RecordTransition
    <2>2. pc' \in [Threads -> PCs]  BY <1>7 DEF RecordTransition, Goto, TypeOK
    <2> QED  BY <1>7, <2>1, <2>2 DEF RecordTransition, TypeOK
<1>8. ASSUME NEW t \in Threads, CommitChange(t)  PROVE TypeOK'
    <2>1. history' \in Seq(Event)  BY <1>8, CommitEvent DEF CommitChange
    <2>2. pc' \in [Threads -> PCs]  BY <1>8 DEF CommitChange, Goto, TypeOK
    <2> QED  BY <1>8, <2>1, <2>2 DEF CommitChange, TypeOK
<1>9. ASSUME NEW t \in Threads, Refused(t)  PROVE TypeOK'
    BY <1>9 DEF Refused, Goto, TypeOK
<1>10. ASSUME NEW t \in Threads, EnterGuard(t) \/ ExitGuard(t)  PROVE TypeOK'
    BY <1>10 DEF EnterGuard, ExitGuard, TypeOK
<1> QED  BY <1>1, <1>2, <1>3, <1>4, <1>5, <1>6, <1>7, <1>8, <1>9, <1>10 DEF Next

\* Nobody else commits while the guard is held, and what the holder does next
\* either takes a check or records one.
LEMMA GuardStep ==
    ASSUME IInv, [Next]_vars
    PROVE  CheckedInGuard'
<1> DEFINE Checked(t) ==
              /\ pc[t] = "record authority" /\ allowed[t] => HasAuthority(op[t].actor)
              /\ pc[t] \in {"from", "check", "record"} => HasAuthority(op[t].actor)
              /\ pc[t] \in {"check", "record"} => from[t] = Now
              /\ pc[t] = "record" /\ allowed[t] => op[t].about \in Successors(Now)
              /\ pc[t] = "commit" /\ op[t].actor # System =>
                    /\ HasAuthority(op[t].actor)
                    /\ op[t].kind = "transition" =>
                          op[t].about \in Successors(Now) /\ from[t] = Now
<1>1. SUFFICES ASSUME NEW u \in Threads, owner' = u  PROVE Checked(u)'
    BY DEF CheckedInGuard
<1>2. TypeOK  BY DEF IInv
<1>3. owner = u => Checked(u)  BY DEF IInv, CheckedInGuard
<1>4. ASSUME pc'[u] = "idle"  PROVE Checked(u)'  BY <1>4
<1>5. ASSUME UNCHANGED history  PROVE Now' = Now /\ \A a : HasAuthority(a)' = HasAuthority(a)
    BY <1>5 DEF Now, HasAuthority
<1>6. CASE UNCHANGED vars  BY <1>1, <1>3, <1>5, <1>6 DEF vars
<1>7. ASSUME NEW t \in Threads, t # u,
             \/ \E o \in Operations : Call(t, o)
             \/ CheckAuthority(t) \/ RecordAuthority(t) \/ ReadFrom(t)
             \/ CheckTransition(t) \/ RecordTransition(t) \/ CommitChange(t)
             \/ Refused(t) \/ EnterGuard(t) \/ ExitGuard(t)
      PROVE  Checked(u)'
    <2>1. owner = u
        BY <1>1, <1>7, LifecycleAssumption
        DEF Call, CheckAuthority, RecordAuthority, ReadFrom, CheckTransition, RecordTransition,
            CommitChange, Refused, EnterGuard, ExitGuard
    <2>2. ~CanLock(t)  BY <1>7, <2>1, LifecycleAssumption DEF CanLock
    <2>3. UNCHANGED history
        BY <1>7, <2>2 DEF Call, CheckAuthority, RecordAuthority, ReadFrom, CheckTransition,
            RecordTransition, CommitChange, Refused, EnterGuard, ExitGuard, Commit
    <2>4. pc'[u] = pc[u] /\ op'[u] = op[u] /\ allowed'[u] = allowed[u] /\ from'[u] = from[u]
        BY <1>2, <1>7, <2>2 DEF Call, CheckAuthority, RecordAuthority, ReadFrom, CheckTransition,
            RecordTransition, CommitChange, Refused, EnterGuard, ExitGuard, Commit, Goto, TypeOK
    <2> QED  BY <1>3, <1>5, <2>1, <2>3, <2>4
<1>8. ASSUME NEW o \in Operations, Call(u, o)  PROVE Checked(u)'
    <2>1. op'[u] = o /\ pc'[u] = (IF o.actor = System THEN "commit" ELSE "authority")
        BY <1>2, <1>8 DEF Call, Goto, TypeOK
    <2> QED  BY <2>1
<1>9. CASE CheckAuthority(u)
    <2>1. pc'[u] = "record authority" /\ UNCHANGED <<history, op>>
        BY <1>2, <1>9 DEF CheckAuthority, Goto, TypeOK
    <2>2. allowed'[u] = HasAuthority(op[u].actor)
        BY <1>2, <1>9 DEF CheckAuthority, TypeOK
    <2>3. HasAuthority(op[u].actor)' = HasAuthority(op[u].actor)  BY <2>1 DEF HasAuthority
    <2>4. pc'[u] = "record authority" /\ allowed'[u] => HasAuthority(op[u].actor)'
        BY <2>2, <2>3
    <2>5. /\ pc'[u] \notin {"from", "check", "record"} /\ pc'[u] \notin {"check", "record"}
          /\ pc'[u] # "record" /\ pc'[u] # "commit"
        BY <2>1
    <2> QED  BY <2>4, <2>5
<1>10. CASE RecordAuthority(u)
    <2>1. /\ pc[u] = "record authority" /\ owner = u /\ UNCHANGED <<op, allowed, from>>
          /\ pc'[u] = (IF ~allowed[u] THEN "idle"
                       ELSE IF op[u].kind = "transition" THEN "from" ELSE "commit")
        BY <1>1, <1>2, <1>10 DEF RecordAuthority, Goto, TypeOK
    <2>2. Now' = Now /\ \A a : HasAuthority(a)' = HasAuthority(a)
        BY <1>2, <1>10, DecisionKeepsProjection DEF RecordAuthority
    <2>3. allowed[u] \in BOOLEAN  BY <1>2 DEF TypeOK
    <2>4. CASE ~allowed[u]  BY <1>4, <2>1, <2>4
    <2>5. CASE allowed[u] /\ op[u].kind = "transition"
        <3>1. pc'[u] = "from"  BY <2>1, <2>5
        <3> QED  BY <1>3, <2>1, <2>2, <2>5, <3>1
    <2>6. CASE allowed[u] /\ op[u].kind # "transition"
        <3>1. pc'[u] = "commit"  BY <2>1, <2>6
        <3> QED  BY <1>3, <2>1, <2>2, <2>6, <3>1
    <2> QED  BY <2>3, <2>4, <2>5, <2>6
<1>11. CASE ReadFrom(u)
    <2>1. /\ pc[u] = "from" /\ pc'[u] = "check" /\ owner = u /\ UNCHANGED <<history, op>>
          /\ from'[u] = Now
        BY <1>1, <1>2, <1>11 DEF ReadFrom, Goto, TypeOK
    <2> QED  BY <1>3, <1>5, <2>1
<1>12. CASE CheckTransition(u)
    <2>1. /\ pc[u] = "check" /\ pc'[u] = "record" /\ owner = u
          /\ UNCHANGED <<history, op, from>>
          /\ allowed'[u] = (op[u].about \in Successors(Now))
        BY <1>1, <1>2, <1>12 DEF CheckTransition, Goto, TypeOK
    <2> QED  BY <1>3, <1>5, <2>1
<1>13. CASE RecordTransition(u)
    <2>1. /\ pc[u] = "record" /\ owner = u /\ UNCHANGED <<op, allowed, from>>
          /\ pc'[u] = (IF allowed[u] THEN "commit" ELSE "idle")
        BY <1>1, <1>2, <1>13 DEF RecordTransition, Goto, TypeOK
    <2>2. Now' = Now /\ \A a : HasAuthority(a)' = HasAuthority(a)
        BY <1>2, <1>13, DecisionKeepsProjection DEF RecordTransition
    <2> QED  BY <1>3, <2>1, <2>2
<1>14. CASE CommitChange(u) \/ Refused(u)
    BY <1>2, <1>4, <1>14 DEF CommitChange, Refused, Goto, TypeOK
<1>15. CASE EnterGuard(u) \/ ExitGuard(u)
    BY <1>4, <1>15 DEF EnterGuard, ExitGuard
<1>16. ASSUME NEW t \in Threads,
              \/ \E o \in Operations : Call(t, o)
              \/ CheckAuthority(t) \/ RecordAuthority(t) \/ ReadFrom(t)
              \/ CheckTransition(t) \/ RecordTransition(t) \/ CommitChange(t)
              \/ Refused(t) \/ EnterGuard(t) \/ ExitGuard(t)
       PROVE  Checked(u)'
    BY <1>7, <1>8, <1>9, <1>10, <1>11, <1>12, <1>13, <1>14, <1>15, <1>16
<1> QED  BY <1>6, <1>16 DEF Next

\* Every reachable state has its type, and inside the guard every check that was
\* passed still holds.
THEOREM Invariance == Spec => []IInv
<1>1. Init => IInv
    <2> SUFFICES ASSUME Init  PROVE IInv
        OBVIOUS
    <2>1. (CHOOSE o \in Operations : o.kind = "grant") \in Operations  BY SomeOperation
    <2>2. op \in [Threads -> Operations]  BY <2>1 DEF Init
    <2>3. /\ pc \in [Threads -> {"idle", "authority", "record authority", "from", "check",
                                 "record", "commit"}]
          /\ allowed \in [Threads -> BOOLEAN] /\ from \in [Threads -> States]
        BY DEF Init, States
    <2>4. history \in Seq(Event) /\ owner \in Threads \union {NoThread} /\ calls \in Nat
        BY DEF Init
    <2>5. TypeOK  BY <2>2, <2>3, <2>4 DEF TypeOK
    <2>6. CheckedInGuard  BY LifecycleAssumption DEF Init, CheckedInGuard
    <2> QED  BY <2>5, <2>6 DEF IInv
<1>2. IInv /\ [Next]_vars => IInv'
    BY TypeStep, GuardStep DEF IInv
<1> QED  BY <1>1, <1>2, PTL DEF Spec

\* An operation that runs inside the execution guard commits a change only if
\* its actor holds the authority and the graph has the transition at that
\* moment, whatever other threads do (transition, grant_lifecycle_authority,
\* revoke_lifecycle_authority).
THEOREM GuardedChangesLegal == Spec => GuardedChangeLegal
<1>1. IInv /\ [Next]_vars =>
        [\A t \in Threads :
            /\ owner = t
            /\ pc[t] = "commit"
            /\ history' # history
            /\ op[t].actor # System
            => /\ HasAuthority(op[t].actor)
               /\ op[t].kind = "transition" =>
                     op[t].about \in Successors(Now) /\ from[t] = Now]_vars
    BY DEF IInv, CheckedInGuard
<1> QED  BY <1>1, Invariance, PTL DEF Spec, GuardedChangeLegal

-----------------------------------------------------------------------------
\* Why changes are explained: what each operation has on record when it goes on,
\* of a history h so that two moments can be compared.

HeldIn(h, a) == \E n \in 0..Len(h) : AuthorityAt(h, n, a)

AuthorizedIn(h, o, j) ==
    /\ h[j].type = "authority" /\ h[j].allow /\ h[j].by = o
    /\ \E n \in 0..(j - 1) : AuthorityAt(h, n, o.actor)

OpenIn(h, o, j, last) == \E n \in j..last : o.about \in Successors(LifecycleAt(h, n))

PermittedIn(h, o, f, j, k) ==
    /\ h[k].type = "permitted" /\ h[k].allow /\ h[k].by = o /\ h[k].from = f
    /\ OpenIn(h, o, j, k - 1)

ChangeIn(h, o, f, last) ==
    \E j \in 1..last :
        /\ AuthorizedIn(h, o, j)
        /\ o.kind = "transition" => \E k \in (j + 1)..last : PermittedIn(h, o, f, j, k)

OperationIn(h, place, o, allow, f) ==
    /\ place = "record authority" /\ allow => HeldIn(h, o.actor)
    /\ place \in {"from", "check"} => \E j \in 1..Len(h) : AuthorizedIn(h, o, j)
    /\ place = "record" =>
          \E j \in 1..Len(h) : AuthorizedIn(h, o, j) /\ (allow => OpenIn(h, o, j, Len(h)))
    /\ place = "commit" /\ o.actor # System => ChangeIn(h, o, f, Len(h))

ChangesIn(h) ==
    \A i \in 1..Len(h) :
        h[i].type \in Kinds /\ h[i].by.actor # System =>
            h[i].by.kind = h[i].type /\ ChangeIn(h, h[i].by, h[i].from, i - 1)

RecordInv ==
    /\ \A t \in Threads : OperationIn(history, pc[t], op[t], allowed[t], from[t])
    /\ ChangesIn(history)

\* What the record explains is what the property asks.
LEMMA RecordIs == ChangesIn(history) => ChangesExplained
<1> SUFFICES ASSUME ChangesIn(history), NEW i \in 1..Len(history), history[i].type \in Kinds,
                    history[i].by.actor # System
             PROVE  \E j \in 1..(i - 1) :
                       /\ AuthorityExplained(history, i, j)
                       /\ history[i].type = "transition" =>
                             \E k \in (j + 1)..(i - 1) : TransitionExplained(history, i, j, k)
    BY DEF ChangesExplained
<1>1. /\ history[i].by.kind = history[i].type
      /\ ChangeIn(history, history[i].by, history[i].from, i - 1)
    BY DEF ChangesIn
<1> QED
    BY <1>1 DEF ChangeIn, AuthorizedIn, PermittedIn, OpenIn, AuthorityExplained, TransitionExplained

\* The record is only added to.
Extends(g, h) ==
    /\ Len(h) \in Nat /\ Len(g) \in Nat /\ Len(h) <= Len(g)
    /\ \A i \in 1..Len(h) : g[i] = h[i]

\* What held at some point of the record held there ever after: authority,
LEMMA AuthorityStays ==
    ASSUME NEW g, NEW h, Extends(g, h), NEW n \in 0..Len(h), NEW a, AuthorityAt(h, n, a)
    PROVE  AuthorityAt(g, n, a)
<1>1. PICK i \in 1..n :
          /\ h[i].type = "grant" /\ h[i].by.about = a
          /\ \A j \in (i + 1)..n : ~(h[j].type = "revoke" /\ h[j].by.about = a)
    BY DEF AuthorityAt
<1>2. g[i] = h[i] /\ \A j \in (i + 1)..n : g[j] = h[j]  BY DEF Extends
<1> QED  BY <1>1, <1>2 DEF AuthorityAt

\* the lifecycle,
LEMMA LifecycleStays ==
    ASSUME NEW g, NEW h, Extends(g, h), NEW n \in 0..Len(h)
    PROVE  LifecycleAt(g, n) = LifecycleAt(h, n)
<1>1. n \in Nat /\ \A i \in 1..n : g[i] = h[i]  BY DEF Extends
<1>2. Moves(g, n) = Moves(h, n)  BY <1>1 DEF Moves
<1>3. CASE Moves(h, n) = {}  BY <1>2, <1>3 DEF LifecycleAt
<1>4. CASE Moves(h, n) # {}
    <2> DEFINE last == CHOOSE i \in Moves(h, n) : \A j \in Moves(h, n) : j <= i
    <2>1. Moves(h, n) \in SUBSET (1..n)  BY DEF Moves
    <2>2. \E i \in Moves(h, n) : \A j \in Moves(h, n) : j <= i  BY <1>1, <1>4, <2>1, Largest
    <2>3. last \in 1..n  BY <2>1, <2>2
    <2>4. LifecycleAt(h, n) = h[last].by.about  BY <1>4 DEF LifecycleAt
    <2>5. LifecycleAt(g, n) = g[last].by.about  BY <1>2, <1>4 DEF LifecycleAt
    <2> HIDE DEF last
    <2> QED  BY <1>1, <2>3, <2>4, <2>5
<1> QED  BY <1>3, <1>4

\* an explanation,
LEMMA ExplanationStays ==
    ASSUME NEW g, NEW h, Extends(g, h), NEW o
    PROVE  /\ \A j \in 1..Len(h) : AuthorizedIn(h, o, j) => AuthorizedIn(g, o, j)
           /\ \A j \in 1..Len(h), last \in 0..Len(h) : OpenIn(h, o, j, last) => OpenIn(g, o, j, last)
           /\ \A f : \A j, k \in 1..Len(h) : PermittedIn(h, o, f, j, k) => PermittedIn(g, o, f, j, k)
           /\ \A f : \A last \in 0..Len(h) : ChangeIn(h, o, f, last) => ChangeIn(g, o, f, last)
<1>1. Len(h) \in Nat /\ \A i \in 1..Len(h) : g[i] = h[i]  BY DEF Extends
<1>2. ASSUME NEW j \in 1..Len(h), AuthorizedIn(h, o, j)  PROVE AuthorizedIn(g, o, j)
    <2>1. PICK n \in 0..(j - 1) : AuthorityAt(h, n, o.actor)  BY <1>2 DEF AuthorizedIn
    <2>2. AuthorityAt(g, n, o.actor)  BY <1>1, <2>1, AuthorityStays
    <2> QED  BY <1>1, <1>2, <2>2 DEF AuthorizedIn
<1>3. ASSUME NEW j \in 1..Len(h), NEW last \in 0..Len(h), OpenIn(h, o, j, last)
      PROVE  OpenIn(g, o, j, last)
    <2>1. PICK n \in j..last : o.about \in Successors(LifecycleAt(h, n))  BY <1>3 DEF OpenIn
    <2>2. n \in 0..Len(h)  BY <1>1, <2>1
    <2>3. LifecycleAt(g, n) = LifecycleAt(h, n)  BY <2>2, LifecycleStays
    <2> QED  BY <2>1, <2>3 DEF OpenIn
<1>4. ASSUME NEW f, NEW j \in 1..Len(h), NEW k \in 1..Len(h), PermittedIn(h, o, f, j, k)
      PROVE  PermittedIn(g, o, f, j, k)
    <2>1. k - 1 \in 0..Len(h)  BY <1>1
    <2> QED  BY <1>1, <1>3, <1>4, <2>1 DEF PermittedIn
<1>5. ASSUME NEW f, NEW last \in 0..Len(h), ChangeIn(h, o, f, last)
      PROVE  ChangeIn(g, o, f, last)
    <2>1. PICK j \in 1..last :
              /\ AuthorizedIn(h, o, j)
              /\ o.kind = "transition" => \E k \in (j + 1)..last : PermittedIn(h, o, f, j, k)
        BY <1>5 DEF ChangeIn
    <2>2. j \in 1..Len(h) /\ (j + 1)..last \subseteq 1..Len(h)  BY <1>1, <2>1
    <2> QED  BY <1>2, <1>4, <2>1, <2>2 DEF ChangeIn
<1> QED  BY <1>2, <1>3, <1>4, <1>5

\* and so what an operation has on record.
LEMMA OperationStays ==
    ASSUME NEW g, NEW h, Extends(g, h), NEW place, NEW o, NEW allow, NEW f,
           OperationIn(h, place, o, allow, f)
    PROVE  OperationIn(g, place, o, allow, f)
<1>1. /\ Len(h) \in Nat /\ Len(g) \in Nat /\ Len(h) <= Len(g)
      /\ 1..Len(h) \subseteq 1..Len(g) /\ 0..Len(h) \subseteq 0..Len(g) /\ Len(h) \in 0..Len(h)
    BY DEF Extends
<1>2. HeldIn(h, o.actor) => HeldIn(g, o.actor)  BY <1>1, AuthorityStays DEF HeldIn
<1>3. \A j \in 1..Len(h) : OpenIn(h, o, j, Len(h)) => OpenIn(g, o, j, Len(g))
    <2> SUFFICES ASSUME NEW j \in 1..Len(h), OpenIn(h, o, j, Len(h))  PROVE OpenIn(g, o, j, Len(g))
        OBVIOUS
    <2>1. OpenIn(g, o, j, Len(h))  BY <1>1, ExplanationStays
    <2>2. j..Len(h) \subseteq j..Len(g)  BY <1>1
    <2> QED  BY <2>1, <2>2 DEF OpenIn
<1>4. ChangeIn(h, o, f, Len(h)) => ChangeIn(g, o, f, Len(g))
    <2> SUFFICES ASSUME ChangeIn(h, o, f, Len(h))  PROVE ChangeIn(g, o, f, Len(g))
        OBVIOUS
    <2>1. ChangeIn(g, o, f, Len(h))  BY <1>1, ExplanationStays
    <2>2. \A j \in 1..Len(h) : (j + 1)..Len(h) \subseteq (j + 1)..Len(g)  BY <1>1
    <2> QED  BY <1>1, <2>1, <2>2 DEF ChangeIn
<1>5. \A j \in 1..Len(h) : AuthorizedIn(h, o, j) => AuthorizedIn(g, o, j)  BY ExplanationStays
<1>6. /\ place \in {"from", "check"} => \E j \in 1..Len(g) : AuthorizedIn(g, o, j)
      /\ place = "record" =>
            \E j \in 1..Len(g) : AuthorizedIn(g, o, j) /\ (allow => OpenIn(g, o, j, Len(g)))
    BY <1>1, <1>3, <1>5 DEF OperationIn
<1> QED  BY <1>2, <1>4, <1>6 DEF OperationIn

\* Changes stay explained when one more event is, if it is a change.
LEMMA ChangesExtend ==
    ASSUME NEW g, NEW h, Extends(g, h), Len(g) = Len(h) + 1, ChangesIn(h),
           NEW e, g[Len(h) + 1] = e,
           e.type \in Kinds /\ e.by.actor # System =>
               e.by.kind = e.type /\ ChangeIn(h, e.by, e.from, Len(h))
    PROVE  ChangesIn(g)
<1> DEFINE n == Len(h)
<1>1. n \in Nat /\ \A i \in 1..n : g[i] = h[i]  BY DEF Extends
<1> SUFFICES ASSUME NEW i \in 1..(n + 1), g[i].type \in Kinds, g[i].by.actor # System
             PROVE  g[i].by.kind = g[i].type /\ ChangeIn(g, g[i].by, g[i].from, i - 1)
    BY DEF ChangesIn
<1>2. CASE i = n + 1
    <2>1. g[i] = e /\ i - 1 = n /\ n \in 0..n  BY <1>1, <1>2
    <2> QED  BY <2>1, ExplanationStays
<1>3. CASE i # n + 1
    <2>1. i \in 1..n /\ g[i] = h[i] /\ i - 1 \in 0..n  BY <1>1, <1>3
    <2>2. h[i].by.kind = h[i].type /\ ChangeIn(h, h[i].by, h[i].from, i - 1)
        BY <2>1 DEF ChangesIn
    <2> QED  BY <2>1, <2>2, ExplanationStays
<1> QED  BY <1>2, <1>3

\* What a commit does to the record.
LEMMA CommitRecord ==
    ASSUME TypeOK, NEW t \in Threads, NEW type, Commit(t, type),
           type \in {"authority", "permitted", op[t].kind}
    PROVE  /\ Extends(history', history) /\ Len(history') = Len(history) + 1
           /\ history'[Len(history) + 1] =
                 [type |-> type, by |-> op[t], from |-> from[t], allow |-> allowed[t]]
<1>1. /\ history' \in Seq(Event) /\ Len(history') = Len(history) + 1
      /\ \A i \in 1..Len(history) : history'[i] = history[i]
    BY CommitEvent
<1>2. Len(history) \in Nat  BY LenType
<1>3. history'[Len(history) + 1] =
          [type |-> type, by |-> op[t], from |-> from[t], allow |-> allowed[t]]
    <2> DEFINE e == [type |-> type, by |-> op[t], from |-> from[t], allow |-> allowed[t]]
    <2>1. history' = Append(history, e) /\ history \in Seq(Event)  BY DEF Commit, TypeOK
    <2> HIDE DEF e
    <2>2. history'[Len(history) + 1] = e  BY <1>2, <2>1
    <2> QED  BY <2>2 DEF e
<1> QED  BY <1>1, <1>2, <1>3 DEF Extends

\* Each operation has on record what it goes on with.
LEMMA RecordStep ==
    ASSUME TypeOK, RecordInv, [Next]_vars
    PROVE  RecordInv'
<1> DEFINE n == Len(history)
           OpNext(u) == OperationIn(history', pc'[u], op'[u], allowed'[u], from'[u])
           Others(t) == \A u \in Threads \ {t} : pc'[u] = pc[u] /\ op'[u] = op[u]
                                                 /\ allowed'[u] = allowed[u] /\ from'[u] = from[u]
<1>1. n \in Nat  BY LenType
<1>2. ASSUME NEW t \in Threads, UNCHANGED history, OpNext(t), Others(t)  PROVE RecordInv'
    BY <1>2 DEF RecordInv
<1>3. ASSUME NEW t \in Threads, Extends(history', history), ChangesIn(history'), OpNext(t), Others(t)
      PROVE  RecordInv'
    <2>1. \A u \in Threads \ {t} : OpNext(u)
        <3> SUFFICES ASSUME NEW u \in Threads \ {t}  PROVE OpNext(u)
            OBVIOUS
        <3>1. OperationIn(history, pc[u], op[u], allowed[u], from[u])  BY DEF RecordInv
        <3>2. OperationIn(history', pc[u], op[u], allowed[u], from[u])
            BY <1>3, <3>1, OperationStays
        <3> QED  BY <1>3, <3>2
    <2> QED  BY <1>3, <2>1 DEF RecordInv
<1>4. ASSUME NEW t \in Threads, NEW o \in Operations, Call(t, o)  PROVE RecordInv'
    <2>1. /\ UNCHANGED history /\ Others(t) /\ op'[t] = o
          /\ pc'[t] = (IF o.actor = System THEN "commit" ELSE "authority")
        BY <1>4 DEF Call, Goto, TypeOK
    <2>2. OpNext(t)  BY <2>1 DEF OperationIn
    <2> QED  BY <1>2, <2>1, <2>2
<1>5. ASSUME NEW t \in Threads, CheckAuthority(t)  PROVE RecordInv'
    <2>1. /\ UNCHANGED history /\ Others(t) /\ op'[t] = op[t] /\ pc'[t] = "record authority"
          /\ allowed'[t] = AuthorityAt(history, n, op[t].actor)
        BY <1>5 DEF CheckAuthority, Goto, TypeOK, HasAuthority
    <2>2. allowed'[t] => HeldIn(history, op[t].actor)
        <3>1. n \in 0..n  BY <1>1
        <3> QED  BY <2>1, <3>1 DEF HeldIn
    <2>3. OpNext(t)  BY <2>1, <2>2 DEF OperationIn
    <2> QED  BY <1>2, <2>1, <2>3
<1>6. ASSUME NEW t \in Threads, RecordAuthority(t)  PROVE RecordInv'
    <2>1. /\ pc[t] = "record authority" /\ UNCHANGED <<op, allowed, from>> /\ Others(t)
          /\ Commit(t, "authority")
          /\ pc'[t] = (IF ~allowed[t] THEN "idle"
                       ELSE IF op[t].kind = "transition" THEN "from" ELSE "commit")
        BY <1>6 DEF RecordAuthority, Goto, TypeOK
    <2>2. /\ Extends(history', history) /\ Len(history') = n + 1
          /\ history'[n + 1] = [type |-> "authority", by |-> op[t], from |-> from[t],
                                allow |-> allowed[t]]
        BY <2>1, CommitRecord
    <2>3. ChangesIn(history')  BY <2>2, ChangesExtend DEF RecordInv, Kinds
    <2>4. OpNext(t)
        <3>1. CASE ~allowed[t]  BY <2>1, <3>1 DEF OperationIn
        <3>2. CASE allowed[t]
            <4>1. PICK m \in 0..n : AuthorityAt(history, m, op[t].actor)
                BY <2>1, <3>2 DEF RecordInv, OperationIn, HeldIn
            <4>2. AuthorityAt(history', m, op[t].actor)  BY <2>2, <4>1, AuthorityStays
            <4>3. (n + 1) - 1 = n /\ n + 1 \in 1..(n + 1)  BY <1>1
            <4>4. AuthorizedIn(history', op[t], n + 1)
                BY <2>2, <3>2, <4>1, <4>2, <4>3 DEF AuthorizedIn
            <4>5. CASE op[t].kind = "transition"
                <5>1. pc'[t] = "from"  BY <2>1, <3>2, <4>5
                <5> QED  BY <2>1, <2>2, <4>3, <4>4, <5>1 DEF OperationIn
            <4>6. CASE op[t].kind # "transition"
                <5>1. pc'[t] = "commit"  BY <2>1, <3>2, <4>6
                <5>2. ChangeIn(history', op[t], from[t], n + 1)
                    BY <4>3, <4>4, <4>6 DEF ChangeIn
                <5> QED  BY <2>1, <2>2, <5>1, <5>2 DEF OperationIn
            <4> QED  BY <4>5, <4>6
        <3> QED  BY <3>1, <3>2
    <2> QED  BY <1>3, <2>1, <2>2, <2>3, <2>4
<1>7. ASSUME NEW t \in Threads, ReadFrom(t)  PROVE RecordInv'
    <2>1. /\ UNCHANGED history /\ Others(t) /\ op'[t] = op[t] /\ pc[t] = "from" /\ pc'[t] = "check"
        BY <1>7 DEF ReadFrom, Goto, TypeOK
    <2>2. OpNext(t)  BY <2>1 DEF RecordInv, OperationIn
    <2> QED  BY <1>2, <1>7, <2>1, <2>2 DEF ReadFrom
<1>8. ASSUME NEW t \in Threads, CheckTransition(t)  PROVE RecordInv'
    <2>1. /\ UNCHANGED history /\ Others(t) /\ op'[t] = op[t] /\ pc[t] = "check"
          /\ pc'[t] = "record"
          /\ allowed'[t] = (op[t].about \in Successors(LifecycleAt(history, n)))
        BY <1>8 DEF CheckTransition, Goto, TypeOK, Now
    <2>2. PICK j \in 1..n : AuthorizedIn(history, op[t], j)  BY <2>1 DEF RecordInv, OperationIn
    <2>3. allowed'[t] => OpenIn(history, op[t], j, n)
        <3>1. n \in j..n  BY <1>1
        <3> QED  BY <2>1, <3>1 DEF OpenIn
    <2>4. OpNext(t)  BY <2>1, <2>2, <2>3 DEF OperationIn
    <2> QED  BY <1>2, <2>1, <2>4
<1>9. ASSUME NEW t \in Threads, RecordTransition(t)  PROVE RecordInv'
    <2>1. /\ pc[t] = "record" /\ UNCHANGED <<op, allowed, from>> /\ Others(t)
          /\ Commit(t, "permitted") /\ pc'[t] = (IF allowed[t] THEN "commit" ELSE "idle")
        BY <1>9 DEF RecordTransition, Goto, TypeOK
    <2>2. /\ Extends(history', history) /\ Len(history') = n + 1
          /\ history'[n + 1] = [type |-> "permitted", by |-> op[t], from |-> from[t],
                                allow |-> allowed[t]]
        BY <2>1, CommitRecord
    <2>3. ChangesIn(history')  BY <2>2, ChangesExtend DEF RecordInv, Kinds
    <2>4. OpNext(t)
        <3>1. CASE ~allowed[t]  BY <2>1, <3>1 DEF OperationIn
        <3>2. CASE allowed[t]
            <4>1. PICK j \in 1..n : AuthorizedIn(history, op[t], j) /\ OpenIn(history, op[t], j, n)
                BY <2>1, <3>2 DEF RecordInv, OperationIn
            <4>2. (n + 1) - 1 = n /\ j \in 1..(n + 1) /\ n + 1 \in (j + 1)..(n + 1) /\ n \in 0..n
                BY <1>1
            <4>3. AuthorizedIn(history', op[t], j) /\ OpenIn(history', op[t], j, n)
                BY <2>2, <4>1, <4>2, ExplanationStays
            <4>4. PermittedIn(history', op[t], from[t], j, n + 1)
                BY <2>2, <3>2, <4>2, <4>3 DEF PermittedIn
            <4>5. ChangeIn(history', op[t], from[t], n + 1)  BY <4>2, <4>3, <4>4 DEF ChangeIn
            <4>6. pc'[t] = "commit"  BY <2>1, <3>2
            <4> QED  BY <2>1, <2>2, <4>5, <4>6 DEF OperationIn
        <3> QED  BY <3>1, <3>2
    <2> QED  BY <1>3, <2>1, <2>2, <2>3, <2>4
<1>10. ASSUME NEW t \in Threads, CommitChange(t)  PROVE RecordInv'
    <2>1. /\ pc[t] = "commit" /\ pc'[t] = "idle" /\ UNCHANGED <<op, allowed, from>> /\ Others(t)
          /\ Commit(t, op[t].kind)
        BY <1>10 DEF CommitChange, Goto, TypeOK
    <2>2. /\ Extends(history', history) /\ Len(history') = n + 1
          /\ history'[n + 1] = [type |-> op[t].kind, by |-> op[t], from |-> from[t],
                                allow |-> allowed[t]]
        BY <2>1, CommitRecord
    <2>3. op[t].actor # System => ChangeIn(history, op[t], from[t], n)
        BY <2>1 DEF RecordInv, OperationIn
    <2>4. ChangesIn(history')  BY <2>2, <2>3, ChangesExtend DEF RecordInv
    <2>5. OpNext(t)  BY <2>1 DEF OperationIn
    <2> QED  BY <1>3, <2>1, <2>2, <2>4, <2>5
<1>11. ASSUME NEW t \in Threads, Refused(t)  PROVE RecordInv'
    <2>1. UNCHANGED history /\ Others(t) /\ pc'[t] = "idle"
        BY <1>11 DEF Refused, Goto, TypeOK
    <2>2. OpNext(t)  BY <2>1 DEF OperationIn
    <2> QED  BY <1>2, <2>1, <2>2
<1>12. ASSUME NEW t \in Threads, EnterGuard(t) \/ ExitGuard(t)  PROVE RecordInv'
    BY <1>12 DEF EnterGuard, ExitGuard, RecordInv
<1>13. CASE UNCHANGED vars  BY <1>13 DEF vars, RecordInv
<1> QED  BY <1>4, <1>5, <1>6, <1>7, <1>8, <1>9, <1>10, <1>11, <1>12, <1>13 DEF Next

\* Every change a participant made is explained by the record before it, however
\* operations interleave: an ALLOW decision on an authority that did hold, and for
\* a transition a later permission that the graph did give after that decision
\* (transition, grant_lifecycle_authority, revoke_lifecycle_authority).
THEOREM ChangesAlwaysExplained == Spec => []ChangesExplained
<1>1. Init => RecordInv
    <2> SUFFICES ASSUME Init  PROVE RecordInv
        OBVIOUS
    <2>1. Len(history) = 0  BY DEF Init
    <2>2. \A t \in Threads : OperationIn(history, pc[t], op[t], allowed[t], from[t])
        BY DEF Init, OperationIn
    <2>3. ChangesIn(history)  BY <2>1 DEF ChangesIn
    <2> QED  BY <2>2, <2>3 DEF RecordInv
<1>2. IInv /\ RecordInv /\ [Next]_vars => RecordInv'
    BY RecordStep DEF IInv
<1>3. RecordInv => ChangesExplained
    BY RecordIs DEF RecordInv
<1> QED  BY <1>1, <1>2, <1>3, Invariance, PTL DEF Spec

=============================================================================
