------------------------ MODULE ExecutionBridgeProofs ------------------------
(***************************************************************************)
(* Proofs about ExecutionBridge for every set of threads and requests,     *)
(* every depth of nesting and every bound: an executor is entered at most  *)
(* once for a request, only when the relationship authorizes it at that    *)
(* moment and after a check that nothing followed, the history tells of    *)
(* every entry, and requests in hand at once are nested.                   *)
(***************************************************************************)
EXTENDS ExecutionBridge, TLAPS

USE DEF lock, control, counters

\* The program counters, as one set.
PCs == {"idle"} \union Preparing \union Guarded

\* A call is its thread and its level.
LEMMA CallParts ==
    ASSUME NEW c \in Calls
    PROVE  /\ Thread(c) \in Threads
           /\ Level(c) \in Nat /\ Level(c) > 0 /\ Level(c) \in 0..MaxDepth
           /\ \A d \in Calls : Thread(d) = Thread(c) /\ Level(d) = Level(c) => d = c
BY BridgeAssumption DEF Calls, Thread, Level

\* Of two calls of a thread one is inside the other.
LEMMA CallsNested ==
    ASSUME NEW c \in Calls, NEW d \in Calls, d # c, Thread(d) = Thread(c)
    PROVE  Inside(d, c) \/ Inside(c, d)
<1>1. Level(c) \in Nat /\ Level(d) \in Nat /\ Level(c) # Level(d)  BY CallParts
<1> QED  BY <1>1 DEF Inside

\* No call is inside itself, and only one of two is inside the other.
LEMMA InsideOrder ==
    ASSUME NEW c \in Calls, NEW d \in Calls, Inside(d, c)
    PROVE  d # c /\ ~Inside(c, d) /\ Thread(d) = Thread(c)
<1>1. Level(c) \in Nat /\ Level(d) \in Nat  BY CallParts
<1> QED  BY <1>1 DEF Inside

\* There is a request to put where none is meant.
LEMMA AnyRequestType == AnyRequest \in Requests
BY BridgeAssumption DEF AnyRequest

\* Committing keeps the history a sequence of events.
LEMMA CommitType ==
    ASSUME TypeOK, NEW type \in {"Change", "Proposed", "Resolved", "Reserved", "Result"},
           NEW q \in Requests, NEW status \in Statuses, Commit(type, q, status)
    PROVE  history' \in Seq(Event)
<1>1. [type |-> type, req |-> q, status |-> status] \in Event  BY DEF Event
<1> QED  BY <1>1 DEF Commit, TypeOK

\* The history has a length.
LEMMA LenType ==
    ASSUME TypeOK
    PROVE  Len(history) \in Nat
BY DEF TypeOK

\* The decisions are outcomes and their resolutions are statuses.
LEMMA DecisionTypes ==
    /\ Lifecycle \in Outcomes /\ Consent \in Outcomes /\ Capability \in Outcomes
    /\ \A o \in Outcomes : Resolution(o) \in Statuses
BY DEF Lifecycle, Consent, Capability, Outcomes, Resolution, Statuses, ResultStatuses

\* Every change of the authority leaves an authority.
LEMMA ChangedType ==
    ASSUME NEW a \in Authority, NEW b \in Changed(a)
    PROVE  b \in Authority
BY DEF Authority, Changed

\* Leaving a with-block keeps the types of what it assigns.
LEMMA LeaveType ==
    ASSUME TypeOK, NEW c \in Calls, Leave(c)
    PROVE  /\ owner' \in Threads \union {NoThread}
           /\ entered' \subseteq 0..MaxDepth
           /\ pc' \in [Calls -> PCs]
           /\ \A d \in Calls : pc'[d] = (IF d = c THEN "idle" ELSE pc[d])
BY DEF TypeOK, Leave, Release, PCs

\* Every step keeps the types.
LEMMA TypeStep ==
    ASSUME TypeOK, [Next]_vars
    PROVE  TypeOK'
<1> USE BridgeAssumption DEF TypeOK
<1>1. CASE Change
    <2>1. history' \in Seq(Event)  BY <1>1, CommitType, AnyRequestType DEF Change, Statuses
    <2>2. authority' \in Authority  BY <1>1, ChangedType DEF Change
    <2>3. UNCHANGED <<expired, lock, pc, req, phase, outcome, head, evaluated, effects, lost,
                      attempts, faults>>
        BY <1>1 DEF Change
    <2>4. changes' \in Nat  BY <1>1 DEF Change
    <2> QED  BY <2>1, <2>2, <2>3, <2>4
<1>2. CASE Expire
    BY <1>2 DEF Expire
<1>3. ASSUME NEW c \in Calls, NEW q \in Requests, Execute(c, q)  PROVE TypeOK'
    <2>1. pc' \in [Calls -> PCs]  BY <1>3 DEF Execute, Goto, Preparing, PCs
    <2>2. req' \in [Calls -> Requests] /\ attempts' \in Nat  BY <1>3 DEF Execute
    <2>3. UNCHANGED <<history, authority, expired, lock, phase, outcome, head, evaluated,
                      effects, lost, changes, faults>>
        BY <1>3 DEF Execute
    <2> QED  BY <2>1, <2>2, <2>3 DEF PCs
<1>4. ASSUME NEW c \in Calls, Propose(c)  PROVE TypeOK'
    <2>1. history' \in Seq(Event)  BY <1>4, CommitType DEF Propose, Statuses
    <2> QED  BY <1>4, <2>1 DEF Propose, Goto, Preparing
<1>5. ASSUME NEW c \in Calls, Refused(c)  PROVE TypeOK'
    BY <1>5 DEF Refused, Preparing
<1>6. ASSUME NEW c \in Calls, PrepareEvaluate(c)  PROVE TypeOK'
    <2>1. PICK decision \in Outcomes, next \in {"consent", "cap", "resolve"} :
              Decide(c, decision, next, "record") /\ pc[c] \in {"life", "consent", "cap"}
        BY <1>6, DecisionTypes DEF PrepareEvaluate
    <2>2. pc' \in [Calls -> PCs] /\ outcome' \in [Calls -> Outcomes]
        BY <2>1 DEF Decide, Preparing, PCs
    <2> QED  BY <1>6, <2>2 DEF PrepareEvaluate, PCs
<1>7. ASSUME NEW c \in Calls, ResolveContext(c)  PROVE TypeOK'
    BY <1>7 DEF ResolveContext, Goto, Preparing
<1>8. ASSUME NEW c \in Calls, RecordPrepared(c)  PROVE TypeOK'
    <2>1. history' \in Seq(Event)  BY <1>8, CommitType, DecisionTypes DEF RecordPrepared
    <2> QED  BY <1>8, <2>1 DEF RecordPrepared, Goto, Preparing
<1>9. ASSUME NEW c \in Calls, Translate(c)  PROVE TypeOK'
    BY <1>9 DEF Translate, Goto, Preparing
<1>10. ASSUME NEW c \in Calls, RecordFailed(c)  PROVE TypeOK'
    <2>1. history' \in Seq(Event)
        BY <1>10, CommitType DEF RecordFailed, Statuses, ResultStatuses
    <2> QED  BY <1>10, <2>1 DEF RecordFailed, Goto, Preparing
<1>11. ASSUME NEW c \in Calls, AcquireGuard(c)  PROVE TypeOK'
    <2>1. Thread(c) \in Threads /\ Level(c) \in 0..MaxDepth  BY CallParts
    <2> QED  BY <1>11, <2>1 DEF AcquireGuard, Goto, Guarded
<1>12. ASSUME NEW c \in Calls, RejectDuplicate(c)  PROVE TypeOK'
    <2>1. history' \in Seq(Event)  BY <1>12, CommitType DEF RejectDuplicate, Statuses
    <2> QED  BY <1>12, <2>1, LeaveType DEF RejectDuplicate, PCs
<1>13. ASSUME NEW c \in Calls, Reserve(c)  PROVE TypeOK'
    <2>1. history' \in Seq(Event)  BY <1>13, CommitType DEF Reserve, Statuses
    <2>2. Len(history') \in Nat  BY <2>1
    <2> QED  BY <1>13, <2>1, <2>2 DEF Reserve, Goto, Guarded
<1>14. ASSUME NEW c \in Calls, Evaluate(c)  PROVE TypeOK'
    <2>1. PICK decision \in Outcomes, next \in {"final consent", "final cap", "compare"} :
              /\ Decide(c, decision, next, "compare")
              /\ pc[c] \in {"final life", "final consent", "final cap"}
        BY <1>14, DecisionTypes DEF Evaluate
    <2>2. pc' \in [Calls -> PCs] /\ outcome' \in [Calls -> Outcomes]
        BY <2>1 DEF Decide, Guarded, PCs
    <2>3. evaluated' \in [Calls -> Nat]
        <3>1. Len(history) \in Nat  BY LenType
        <3> QED  BY <1>14, <3>1 DEF Evaluate
    <2> QED  BY <1>14, <2>2, <2>3 DEF Evaluate, PCs
<1>15. ASSUME NEW c \in Calls, RecordFinal(c)  PROVE TypeOK'
    <2>1. Compared(c) \in Outcomes  BY DEF Compared, Outcomes
    <2>2. history' \in Seq(Event)
        BY <1>15, <2>1, CommitType, DecisionTypes DEF RecordFinal
    <2> QED  BY <1>15, <2>1, <2>2 DEF RecordFinal, Goto, Guarded
<1>16. ASSUME NEW c \in Calls, Recheck(c)  PROVE TypeOK'
    <2>1. history' \in Seq(Event)  BY <1>16, CommitType DEF Recheck, Statuses
    <2>2. Len(history) \in Nat  BY LenType
    <2>3. CASE UNCHANGED lock /\ pc' = [pc EXCEPT ![c] = "final life"]
        <3>1. \/ UNCHANGED <<head, phase>>
              \/ /\ head' = [head EXCEPT ![c] = Len(history)]
                 /\ phase' = [phase EXCEPT ![c] = "last"]
            BY <1>16 DEF Recheck
        <3>2. head' \in [Calls -> Nat]
            <4>1. CASE UNCHANGED <<head, phase>>  BY <4>1
            <4>2. CASE head' = [head EXCEPT ![c] = Len(history)]  BY <2>2, <4>2
            <4> QED  BY <3>1, <4>1, <4>2
        <3>3. phase' \in [Calls -> {"prepare", "final", "last"}]  BY <3>1
        <3> QED  BY <1>16, <2>1, <2>3, <3>2, <3>3 DEF Recheck, Guarded
    <2>4. CASE Leave(c) /\ UNCHANGED <<head, phase>>
        BY <1>16, <2>1, <2>4, LeaveType DEF Recheck, PCs
    <2> QED  BY <1>16, <2>3, <2>4 DEF Recheck
<1>17. ASSUME NEW c \in Calls, DenyLast(c)  PROVE TypeOK'
    <2>1. Compared(c) \in Outcomes  BY DEF Compared, Outcomes
    <2>2. history' \in Seq(Event)  BY <1>17, <2>1, CommitType, DecisionTypes DEF DenyLast
    <2> QED  BY <1>17, <2>2, LeaveType DEF DenyLast, PCs
<1>18. ASSUME NEW c \in Calls, AllowLast(c)  PROVE TypeOK'
    BY <1>18 DEF AllowLast, Goto, Guarded
<1>19. ASSUME NEW c \in Calls, EnterExecutor(c)  PROVE TypeOK'
    <2>1. effects' \in [Requests -> Nat]  BY <1>19 DEF EnterExecutor
    <2> QED  BY <1>19, <2>1 DEF EnterExecutor, Goto, Guarded
<1>20. ASSUME NEW c \in Calls, LeaveExecutor(c)  PROVE TypeOK'
    BY <1>20 DEF LeaveExecutor, Goto, Guarded
<1>21. ASSUME NEW c \in Calls, RecordResult(c)  PROVE TypeOK'
    <2>1. history' \in Seq(Event)  BY <1>21, CommitType DEF RecordResult, Statuses
    <2> QED  BY <1>21, <2>1, LeaveType DEF RecordResult, PCs
<1>22. ASSUME NEW c \in Calls, Abandon(c)  PROVE TypeOK'
    <2>1. lost' \subseteq Requests /\ Leave(c)  BY <1>22 DEF Abandon
    <2>2. faults' \in Nat  BY <1>22 DEF Abandon, Fault
    <2> QED  BY <1>22, <2>1, <2>2, LeaveType DEF Abandon, Fault, PCs
<1>23. CASE Crash
    <2>1. lost' \subseteq Requests  BY <1>23 DEF Crash
    <2>2. faults' \in Nat  BY <1>23 DEF Crash, Fault
    <2> QED  BY <1>23, <2>1, <2>2 DEF Crash, Fault
<1>24. ASSUME NEW t \in Threads, EnterGuard(t) \/ ExitGuard(t)  PROVE TypeOK'
    <2>1. owner' \in Threads \union {NoThread} /\ entered' \subseteq 0..MaxDepth
        <3>1. CASE EnterGuard(t)
            <4>1. 0 \in 0..MaxDepth  OBVIOUS
            <4>2. owner' = t /\ entered' = {0}  BY <3>1 DEF EnterGuard
            <4> HIDE DEF TypeOK
            <4> QED  BY <4>1, <4>2
        <3>2. CASE ExitGuard(t)
            <4>1. owner' \in {NoThread, owner} /\ entered' \subseteq entered
                BY <3>2 DEF ExitGuard, Release
            <4> QED  BY <4>1
        <3> QED  BY <1>24, <3>1, <3>2
    <2>2. UNCHANGED <<history, authority, expired, pc, req, phase, outcome, head, evaluated,
                      effects, lost, counters>>
        BY <1>24 DEF EnterGuard, ExitGuard
    <2> QED  BY <2>1, <2>2
<1>25. CASE UNCHANGED vars
    BY <1>25 DEF vars
<1> HIDE DEF TypeOK
<1>26. ASSUME NEW c \in Calls, Proceed(c)  PROVE TypeOK'
    BY <1>4, <1>5, <1>6, <1>7, <1>8, <1>9, <1>10, <1>11, <1>12, <1>13, <1>14, <1>15, <1>16,
       <1>17, <1>18, <1>19, <1>20, <1>21, <1>26 DEF Proceed
<1> QED
    BY <1>1, <1>2, <1>3, <1>22, <1>23, <1>24, <1>25, <1>26 DEF Next, OtherCaller, Reentrant

\* What one call does leaves the locals of the others alone, and only execute()
\* starts a call.
LEMMA LocalStep ==
    ASSUME TypeOK, NEW c \in Calls,
           Proceed(c) \/ Abandon(c) \/ \E q \in Requests : Execute(c, q)
    PROVE  /\ \A d \in Calls : d # c =>
                 /\ pc'[d] = pc[d] /\ req'[d] = req[d] /\ phase'[d] = phase[d]
                 /\ outcome'[d] = outcome[d] /\ head'[d] = head[d]
                 /\ evaluated'[d] = evaluated[d]
           /\ pc[c] = "idle" => \E q \in Requests : Execute(c, q)
<1> USE DEF TypeOK
<1>1. CASE \E q \in Requests : Execute(c, q)
    BY <1>1 DEF Execute, Goto
<1>2. CASE \/ Propose(c) \/ Refused(c) \/ PrepareEvaluate(c) \/ ResolveContext(c)
           \/ RecordPrepared(c) \/ Translate(c) \/ RecordFailed(c) \/ AcquireGuard(c)
    BY <1>2 DEF Propose, Refused, PrepareEvaluate, ResolveContext, RecordPrepared, Translate,
                RecordFailed, AcquireGuard, Decide, Goto
<1>3. CASE \/ RejectDuplicate(c) \/ Reserve(c) \/ Evaluate(c) \/ RecordFinal(c) \/ Recheck(c)
           \/ DenyLast(c)
    BY <1>3 DEF RejectDuplicate, Reserve, Evaluate, RecordFinal, Recheck, DenyLast, Leave,
                Decide, Goto
<1>4. CASE \/ AllowLast(c) \/ EnterExecutor(c) \/ LeaveExecutor(c) \/ RecordResult(c)
           \/ Abandon(c)
    BY <1>4 DEF AllowLast, EnterExecutor, LeaveExecutor, RecordResult, Abandon, Fault, Leave,
                Goto, Guarded
<1> QED  BY <1>1, <1>2, <1>3, <1>4 DEF Proceed

\* A step by which no call enters or leaves the guarded part.
LEMMA GuardSame ==
    ASSUME GuardExclusive, UNCHANGED lock,
           \A d \in Calls : pc'[d] \in Guarded <=> pc[d] \in Guarded
    PROVE  GuardExclusive'
BY DEF GuardExclusive

\* A call takes the lock: it was free, or its thread's.
LEMMA GuardTaken ==
    ASSUME TypeOK, GuardExclusive, NEW c \in Calls, AcquireGuard(c)
    PROVE  GuardExclusive'
<1>1. /\ owner \in {NoThread, Thread(c)} /\ owner' = Thread(c)
      /\ entered' = entered \union {Level(c)}
      /\ \A d \in Calls : pc'[d] = (IF d = c THEN "check" ELSE pc[d])
    BY DEF AcquireGuard, CanLock, Goto, TypeOK
<1>2. Thread(c) \in Threads  BY CallParts
<1>3. owner' # NoThread /\ entered' # {}  BY <1>1, <1>2, BridgeAssumption
<1>4. ASSUME NEW d \in Calls, d # c
      PROVE  pc'[d] \in Guarded <=> owner' = Thread(d) /\ Level(d) \in entered'
    <2>1. Thread(d) = Thread(c) => Level(d) # Level(c)  BY <1>4, CallParts
    <2>2. Thread(d) # NoThread  BY CallParts, BridgeAssumption
    <2> QED  BY <1>1, <1>4, <2>1, <2>2 DEF GuardExclusive
<1>5. pc'[c] \in Guarded /\ owner' = Thread(c) /\ Level(c) \in entered'
    BY <1>1 DEF Guarded
<1> QED  BY <1>3, <1>4, <1>5 DEF GuardExclusive

\* A call leaves its with-block: the lock stays with the thread as long as another
\* of its blocks is open.
LEMMA GuardLeft ==
    ASSUME TypeOK, GuardExclusive, NEW c \in Calls, pc[c] \in Guarded, Leave(c)
    PROVE  GuardExclusive'
<1>1. /\ owner = Thread(c) /\ entered' = entered \ {Level(c)}
      /\ owner' = IF entered' = {} THEN NoThread ELSE owner
    BY DEF GuardExclusive, Leave, Release
<1>2. \A d \in Calls : pc'[d] = (IF d = c THEN "idle" ELSE pc[d])  BY LeaveType
<1>3. Thread(c) # NoThread  BY CallParts, BridgeAssumption
<1>4. ASSUME NEW d \in Calls, d # c
      PROVE  pc'[d] \in Guarded <=> owner' = Thread(d) /\ Level(d) \in entered'
    <2>1. Thread(d) = Thread(c) => Level(d) # Level(c)  BY <1>4, CallParts
    <2>2. Thread(d) # NoThread  BY CallParts, BridgeAssumption
    <2> QED  BY <1>1, <1>2, <1>4, <2>1, <2>2 DEF GuardExclusive
<1>5. pc'[c] \notin Guarded /\ Level(c) \notin entered'  BY <1>1, <1>2 DEF Guarded
<1> QED  BY <1>1, <1>3, <1>4, <1>5 DEF GuardExclusive

\* The host takes the lock for itself, as level 0, or gives that back.
LEMMA GuardOfHost ==
    ASSUME TypeOK, GuardExclusive, NEW t \in Threads, EnterGuard(t) \/ ExitGuard(t)
    PROVE  GuardExclusive'
<1>1. \A c \in Calls : Thread(c) = t => pc[c] \notin Guarded
    BY DEF EnterGuard, ExitGuard, Guarded
<1>2. \A c \in Calls : Level(c) # 0 /\ Thread(c) # NoThread
    <2>1. ASSUME NEW c \in Calls  PROVE Level(c) # 0 /\ Thread(c) # NoThread
        <3>1. Level(c) \in Nat /\ Level(c) > 0 /\ Thread(c) \in Threads  BY CallParts
        <3> QED  BY <3>1, BridgeAssumption
    <2> QED  BY <2>1
<1>3. t # NoThread /\ UNCHANGED pc  BY BridgeAssumption DEF EnterGuard, ExitGuard
<1>4. CASE EnterGuard(t)
    <2>1. owner = NoThread /\ owner' = t /\ entered' = {0}  BY <1>4 DEF EnterGuard
    <2> QED  BY <1>1, <1>2, <1>3, <2>1 DEF GuardExclusive
<1>5. CASE ExitGuard(t)
    <2>1. /\ owner = t /\ entered' = entered \ {0}
          /\ owner' = IF entered' = {} THEN NoThread ELSE owner
        BY <1>5 DEF ExitGuard, Release
    <2> QED  BY <1>1, <1>2, <1>3, <2>1 DEF GuardExclusive
<1> QED  BY <1>4, <1>5

\* Every step keeps the guard to the calls of its owner.
LEMMA GuardStep ==
    ASSUME TypeOK, GuardExclusive, [Next]_vars
    PROVE  GuardExclusive'
<1>1. ASSUME NEW c \in Calls,
             \/ \E q \in Requests : Execute(c, q)
             \/ Propose(c) \/ Refused(c) \/ PrepareEvaluate(c) \/ ResolveContext(c)
             \/ RecordPrepared(c) \/ Translate(c) \/ RecordFailed(c)
             \/ Reserve(c) \/ Evaluate(c) \/ RecordFinal(c) \/ AllowLast(c) \/ EnterExecutor(c)
             \/ LeaveExecutor(c)
      PROVE  GuardExclusive'
    <2>1. UNCHANGED lock
        BY <1>1 DEF Execute, Propose, Refused, PrepareEvaluate, ResolveContext, RecordPrepared,
                    Translate, RecordFailed, Reserve, Evaluate, RecordFinal, AllowLast,
                    EnterExecutor, LeaveExecutor
    <2>2. \A d \in Calls : d # c => pc'[d] = pc[d]
        BY <1>1, LocalStep DEF Proceed
    <2>3. pc'[c] \in Guarded <=> pc[c] \in Guarded
        BY <1>1 DEF Execute, Propose, Refused, PrepareEvaluate, ResolveContext, RecordPrepared,
                    Translate, RecordFailed, Reserve, Evaluate, RecordFinal, AllowLast,
                    EnterExecutor, LeaveExecutor, Decide, Goto, Guarded, TypeOK
    <2> QED  BY <2>1, <2>2, <2>3, GuardSame
<1>2. ASSUME NEW c \in Calls,
             RejectDuplicate(c) \/ DenyLast(c) \/ RecordResult(c) \/ Abandon(c)
      PROVE  GuardExclusive'
    <2>1. pc[c] \in Guarded /\ Leave(c)
        BY <1>2 DEF RejectDuplicate, DenyLast, RecordResult, Abandon, Guarded
    <2> QED  BY <2>1, GuardLeft
<1>3. ASSUME NEW c \in Calls, Recheck(c)  PROVE GuardExclusive'
    <2>1. pc[c] \in Guarded  BY <1>3 DEF Recheck, Guarded
    <2>2. CASE Leave(c)  BY <2>1, <2>2, GuardLeft
    <2>3. CASE UNCHANGED lock /\ pc' = [pc EXCEPT ![c] = "final life"]
        <3>1. \A d \in Calls : pc'[d] \in Guarded <=> pc[d] \in Guarded
            BY <2>1, <2>3 DEF TypeOK, Guarded
        <3> QED  BY <2>3, <3>1, GuardSame
    <2> QED  BY <1>3, <2>2, <2>3 DEF Recheck
<1>4. CASE Crash
    BY <1>4 DEF Crash, GuardExclusive, Guarded
<1>5. CASE Change \/ Expire \/ UNCHANGED vars
    <2>1. UNCHANGED <<lock, pc>>  BY <1>5 DEF Change, Expire, vars
    <2> QED  BY <2>1, GuardSame
<1>6. ASSUME NEW c \in Calls, Proceed(c)  PROVE GuardExclusive'
    BY <1>1, <1>2, <1>3, <1>6, GuardTaken DEF Proceed
<1> QED
    BY <1>1, <1>2, <1>4, <1>5, <1>6, GuardOfHost DEF Next, OtherCaller, Reentrant

\* Every step keeps a call in its callback while another is inside it.
LEMMA NestingStep ==
    ASSUME TypeOK, Nesting, [Next]_vars
    PROVE  Nesting'
<1>1. ASSUME NEW c \in Calls, ~Suspended(c),
             Proceed(c) \/ Abandon(c) \/ \E q \in Requests : Execute(c, q)
      PROVE  Nesting'
    <2> SUFFICES ASSUME NEW a \in Calls, NEW b \in Calls, Inside(b, a), pc'[b] # "idle"
                 PROVE  pc'[a] \in Callbacks
        BY DEF Nesting
    <2>1. \A d \in Calls : d # c => pc'[d] = pc[d]  BY <1>1, LocalStep
    <2>2. a # c
        <3>1. b # a  BY InsideOrder
        <3> QED  BY <1>1, <2>1, <3>1 DEF Suspended
    <2>3. CASE pc[b] # "idle"  BY <2>1, <2>2, <2>3 DEF Nesting
    <2>4. CASE pc[b] = "idle"
        <3>1. b = c  BY <2>1, <2>4
        <3>2. PICK q \in Requests : Execute(c, q)  BY <1>1, <2>4, <3>1, LocalStep
        <3>3. HostCode(Thread(c)) /\ pc[a] # "idle"  BY <3>1, <3>2 DEF Execute
        <3>4. Thread(a) = Thread(c)  BY <3>1, InsideOrder
        <3>5. pc[a] \in Callbacks  BY <3>3, <3>4 DEF HostCode
        <3> QED  BY <2>1, <2>2, <3>5
    <2> QED  BY <2>3, <2>4
<1>2. CASE Crash
    BY <1>2 DEF Crash, Nesting
<1>3. ASSUME UNCHANGED pc  PROVE Nesting'
    BY <1>3 DEF Nesting
<1>4. CASE Change \/ Expire \/ UNCHANGED vars \/ \E t \in Threads : EnterGuard(t) \/ ExitGuard(t)
    <2>1. UNCHANGED pc  BY <1>4 DEF Change, Expire, vars, EnterGuard, ExitGuard
    <2> QED  BY <1>3, <2>1
<1> QED  BY <1>1, <1>2, <1>4 DEF Next, OtherCaller, Reentrant

\* The order of calls, inside the guard and inside each other.
CallInv == TypeOK /\ GuardExclusive /\ Nesting

\* The initial state is typed and nobody is inside the guard.
LEMMA InitType == Init => CallInv
<1> SUFFICES ASSUME Init  PROVE CallInv  OBVIOUS
<1>1. authority \in Authority  BY DEF Init, Authority
<1>2. req \in [Calls -> Requests]  BY AnyRequestType DEF Init
<1>3. outcome \in [Calls -> Outcomes]  BY DEF Init, Outcomes
<1>4. history \in Seq(Event)  BY DEF Init
<1>5. TypeOK  BY <1>1, <1>2, <1>3, <1>4 DEF Init, TypeOK
<1>6. \A c \in Calls : Thread(c) # NoThread  BY CallParts, BridgeAssumption
<1>7. GuardExclusive  BY <1>6 DEF Init, GuardExclusive, Guarded
<1>8. Nesting  BY DEF Init, Nesting
<1> QED  BY <1>5, <1>7, <1>8 DEF CallInv

\* The types hold in every reachable state, only calls of the guard's owner are in
\* the guarded part of execute(), and a call with another inside it is in one of its
\* callbacks.
THEOREM TypeCorrect == Spec => []CallInv
<1>1. Init => CallInv  BY InitType
<1>2. CallInv /\ [Next]_vars => CallInv'
    BY TypeStep, GuardStep, NestingStep DEF CallInv
<1> QED  BY <1>1, <1>2, PTL DEF Spec

-----------------------------------------------------------------------------
\* At most one entry.

IInv ==
    /\ CallInv
    /\ ReservationInv
    /\ AtMostOnce

\* A committed event stays committed.
LEMMA HasStays ==
    ASSUME TypeOK, NEW e \in Event,
           history' = history \/ history' = Append(history, e),
           NEW type, NEW q, Has(type, q)
    PROVE  Has(type, q)'
<1>1. CASE history' = history  BY <1>1 DEF Has
<1>2. CASE history' = Append(history, e)
    <2>1. PICK i \in 1..Len(history) : history[i].type = type /\ history[i].req = q
        BY DEF Has
    <2>2. i \in 1..Len(history') /\ history'[i] = history[i]
        BY <1>2, <2>1 DEF TypeOK
    <2> QED  BY <2>1, <2>2 DEF Has
<1> QED  BY <1>1, <1>2

\* The history is only extended, by one event at a time.
LEMMA HistoryGrows ==
    ASSUME TypeOK, [Next]_vars
    PROVE  \/ history' = history
           \/ \E e \in Event : history' = Append(history, e)
<1>1. ASSUME NEW type \in {"Change", "Proposed", "Resolved", "Reserved", "Result"},
             NEW q \in Requests, NEW status \in Statuses, Commit(type, q, status)
      PROVE  \E e \in Event : history' = Append(history, e)
    BY <1>1 DEF Commit, Event
<1>2. ASSUME Change
      PROVE  \E e \in Event : history' = Append(history, e)
    BY <1>1, <1>2, AnyRequestType DEF Change, Statuses
<1>3. ASSUME NEW c \in Calls,
             Propose(c) \/ RecordPrepared(c) \/ RecordFailed(c) \/ RejectDuplicate(c)
      PROVE  \E e \in Event : history' = Append(history, e)
    <2>1. req[c] \in Requests /\ outcome[c] \in Outcomes  BY DEF TypeOK
    <2> QED
        BY <1>1, <1>3, <2>1, DecisionTypes
        DEF Propose, RecordPrepared, RecordFailed, RejectDuplicate, Statuses, ResultStatuses
<1>4. ASSUME NEW c \in Calls,
             Reserve(c) \/ RecordFinal(c) \/ DenyLast(c) \/ RecordResult(c)
      PROVE  \E e \in Event : history' = Append(history, e)
    <2>1. req[c] \in Requests /\ outcome[c] \in Outcomes  BY DEF TypeOK
    <2>2. Compared(c) \in Outcomes  BY <2>1 DEF Compared, Outcomes
    <2> QED
        BY <1>1, <1>4, <2>1, <2>2, DecisionTypes
        DEF Reserve, RecordFinal, DenyLast, RecordResult, Statuses
<1>5. ASSUME NEW c \in Calls, Recheck(c)
      PROVE  \/ history' = history
             \/ \E e \in Event : history' = Append(history, e)
    <2>1. req[c] \in Requests  BY DEF TypeOK
    <2> QED  BY <1>1, <1>5, <2>1 DEF Recheck, Statuses
<1>6. ASSUME NEW c \in Calls,
             \/ Refused(c) \/ PrepareEvaluate(c) \/ ResolveContext(c) \/ Translate(c)
             \/ AcquireGuard(c) \/ Evaluate(c) \/ AllowLast(c) \/ EnterExecutor(c)
             \/ LeaveExecutor(c) \/ Abandon(c) \/ \E q \in Requests : Execute(c, q)
      PROVE  history' = history
    BY <1>6 DEF Refused, PrepareEvaluate, ResolveContext, Translate, AcquireGuard, Evaluate,
                AllowLast, EnterExecutor, LeaveExecutor, Abandon, Fault, Execute
<1>7. CASE \/ Expire \/ Crash \/ UNCHANGED vars
           \/ \E t \in Threads : EnterGuard(t) \/ ExitGuard(t)
    BY <1>7 DEF Expire, Crash, Fault, EnterGuard, ExitGuard, vars
<1> QED
    BY <1>2, <1>3, <1>4, <1>5, <1>6, <1>7 DEF Next, Proceed, OtherCaller, Reentrant


\* What is reserved stays reserved.
LEMMA ReservedStays ==
    ASSUME TypeOK, [Next]_vars
    PROVE  ReservedRequests \subseteq ReservedRequests'
<1>1. CASE history' = history  BY <1>1 DEF ReservedRequests, Reserved, Has
<1>2. CASE \E e \in Event : history' = Append(history, e)
    <2>1. PICK e \in Event : history' = Append(history, e)  BY <1>2
    <2>2. \A q : Has("Reserved", q) => Has("Reserved", q)'  BY <2>1, HasStays
    <2> QED  BY <2>2 DEF ReservedRequests, Reserved
<1> QED  BY <1>1, <1>2, HistoryGrows

\* The reservation argument: Reserve needs that there is none for the request, so
\* there was no effect and no other call that holds one has this request, and no
\* other can come to it until the entry is made.
LEMMA ReservationStep ==
    ASSUME IInv, [Next]_vars
    PROVE  ReservationInv' /\ AtMostOnce'
<1>1. TypeOK /\ ReservationInv /\ AtMostOnce /\ ReservedRequests \subseteq ReservedRequests'
    BY ReservedStays DEF IInv, CallInv
<1>2. ASSUME UNCHANGED effects,
             \A d \in Calls : pc'[d] \in Held =>
                 /\ req'[d] = req[d]
                 /\ pc[d] \in Held
                 /\ pc'[d] \notin Running => pc[d] \notin Running
      PROVE  ReservationInv' /\ AtMostOnce'
    <2>1. \A q \in Requests : effects'[q] > 0 => q \in ReservedRequests'
        BY <1>1, <1>2 DEF ReservationInv
    <2>2. \A d \in Calls : pc'[d] \in Held => req'[d] \in ReservedRequests'
        BY <1>1, <1>2 DEF ReservationInv
    <2>3. \A d \in Calls : pc'[d] \in Held \ Running => effects'[req'[d]] = 0
        BY <1>1, <1>2 DEF ReservationInv
    <2>4. \A d, e \in Calls : pc'[d] \in Held /\ pc'[e] \in Held /\ req'[d] = req'[e] => d = e
        BY <1>1, <1>2 DEF ReservationInv
    <2>5. AtMostOnce'  BY <1>1, <1>2 DEF AtMostOnce
    <2> QED  BY <2>1, <2>2, <2>3, <2>4, <2>5 DEF ReservationInv
<1>3. ASSUME NEW c \in Calls,
             \/ Propose(c) \/ Refused(c) \/ PrepareEvaluate(c) \/ ResolveContext(c)
             \/ RecordPrepared(c) \/ Translate(c) \/ RecordFailed(c) \/ AcquireGuard(c)
             \/ \E q \in Requests : Execute(c, q)
      PROVE  ReservationInv' /\ AtMostOnce'
    <2>1. UNCHANGED effects
        BY <1>3 DEF Propose, Refused, PrepareEvaluate, ResolveContext, RecordPrepared,
                    Translate, RecordFailed, AcquireGuard, Execute
    <2>2. pc'[c] \notin Held
        BY <1>1, <1>3 DEF Propose, Refused, PrepareEvaluate, ResolveContext, RecordPrepared, Decide,
                    Translate, RecordFailed, AcquireGuard, Execute, Goto, TypeOK, Held, Guarded
    <2>3. \A d \in Calls : d # c => pc'[d] = pc[d] /\ req'[d] = req[d]
        BY <1>1, <1>3, LocalStep DEF Proceed
    <2> QED  BY <1>2, <2>1, <2>2, <2>3
<1>4. ASSUME NEW c \in Calls,
             \/ RejectDuplicate(c) \/ DenyLast(c) \/ RecordResult(c) \/ Abandon(c)
      PROVE  ReservationInv' /\ AtMostOnce'
    <2>1. UNCHANGED <<effects, req>> /\ Leave(c)
        BY <1>4 DEF RejectDuplicate, DenyLast, RecordResult, Abandon, Fault
    <2>2. \A d \in Calls : pc'[d] = (IF d = c THEN "idle" ELSE pc[d])
        BY <1>1, <2>1, LeaveType
    <2> QED  BY <1>2, <2>1, <2>2 DEF Held, Guarded
<1>5. ASSUME NEW c \in Calls, Reserve(c)  PROVE ReservationInv' /\ AtMostOnce'
    <2>1. /\ UNCHANGED <<effects, req>> /\ ~Reserved(req[c])
          /\ \A d \in Calls : pc'[d] = (IF d = c THEN "final life" ELSE pc[d])
        BY <1>1, <1>5 DEF Reserve, Goto, TypeOK
    <2>2. req[c] \in Requests /\ req[c] \notin ReservedRequests
        BY <1>1, <2>1 DEF TypeOK, ReservedRequests
    <2>3. effects[req[c]] = 0
        <3>1. effects[req[c]] \in Nat  BY <1>1, <2>2 DEF TypeOK
        <3> QED  BY <1>1, <2>2, <3>1 DEF ReservationInv
    <2>4. req[c] \in ReservedRequests'
        <3> DEFINE e == [type |-> "Reserved", req |-> req[c], status |-> "none"]
        <3>1. e \in Event  BY <2>2 DEF Event, Statuses
        <3>2. history' = Append(history, e)  BY <1>5 DEF Reserve, Commit
        <3>3. /\ Len(history) + 1 \in 1..Len(history')
              /\ history'[Len(history) + 1] = e
            <4> HIDE DEF e
            <4> QED  BY <1>1, <3>1, <3>2 DEF TypeOK
        <3>4. \E i \in 1..Len(history') :
                  history'[i].type = "Reserved" /\ history'[i].req = req[c]
            BY <3>3
        <3> QED  BY <2>2, <3>4 DEF ReservedRequests, Reserved, Has
    <2>5. \A d \in Calls : d # c /\ pc'[d] \in Held => pc[d] \in Held /\ req[d] # req[c]
        BY <1>1, <2>1, <2>2 DEF ReservationInv
    <2>6. \A q \in Requests : effects'[q] > 0 => q \in ReservedRequests'
        BY <1>1, <2>1 DEF ReservationInv
    <2>7. \A d \in Calls : pc'[d] \in Held => req'[d] \in ReservedRequests'
        BY <1>1, <2>1, <2>4, <2>5 DEF ReservationInv
    <2>8. \A d \in Calls : pc'[d] \in Held \ Running => effects'[req'[d]] = 0
        BY <1>1, <2>1, <2>3, <2>5 DEF ReservationInv
    <2>9. \A d, e \in Calls : pc'[d] \in Held /\ pc'[e] \in Held /\ req'[d] = req'[e] => d = e
        BY <1>1, <2>1, <2>5 DEF ReservationInv
    <2>10. AtMostOnce'  BY <1>1, <2>1 DEF AtMostOnce
    <2> QED  BY <2>6, <2>7, <2>8, <2>9, <2>10 DEF ReservationInv
<1>6. ASSUME NEW c \in Calls,
             Evaluate(c) \/ RecordFinal(c) \/ Recheck(c) \/ AllowLast(c) \/ LeaveExecutor(c)
      PROVE  ReservationInv' /\ AtMostOnce'
    <2>1. UNCHANGED <<effects, req>>
        BY <1>6 DEF Evaluate, RecordFinal, Recheck, AllowLast, LeaveExecutor
    <2>2. /\ pc[c] \in Held
          /\ pc'[c] \in Held \ Running => pc[c] \notin Running
        BY <1>1, <1>6 DEF Evaluate, RecordFinal, Recheck, AllowLast, LeaveExecutor, Decide, Leave,
                    Goto, TypeOK, Held, Guarded, Running
    <2>3. \A d \in Calls : d # c => pc'[d] = pc[d]
        BY <1>1, <1>6, LocalStep DEF Proceed
    <2> QED  BY <1>2, <2>1, <2>2, <2>3
<1>7. ASSUME NEW c \in Calls, EnterExecutor(c)  PROVE ReservationInv' /\ AtMostOnce'
    <2>1. /\ pc[c] = "call" /\ UNCHANGED <<req, history>>
          /\ \A d \in Calls : pc'[d] = (IF d = c THEN "executing" ELSE pc[d])
          /\ \A q \in Requests : effects'[q] = (IF q = req[c] THEN effects[q] + 1 ELSE effects[q])
        BY <1>1, <1>7 DEF EnterExecutor, Goto, TypeOK
    <2>2. pc[c] \in Held \ Running /\ pc'[c] \in Held /\ pc'[c] \in Running
        BY <2>1 DEF Held, Guarded, Running
    <2>3. req[c] \in ReservedRequests /\ effects[req[c]] = 0 /\ req[c] \in Requests
        BY <1>1, <2>2 DEF ReservationInv, TypeOK
    <2>4. \A d \in Calls : d # c /\ pc'[d] \in Held =>
              pc[d] \in Held /\ req[d] # req[c] /\ effects'[req[d]] = effects[req[d]]
        BY <1>1, <2>1, <2>2 DEF ReservationInv, TypeOK
    <2>5. \A q \in Requests : effects'[q] > 0 => q \in ReservedRequests'
        BY <1>1, <2>1, <2>3 DEF ReservationInv
    <2>6. \A d \in Calls : pc'[d] \in Held => req'[d] \in ReservedRequests'
        BY <1>1, <2>1, <2>3, <2>4 DEF ReservationInv
    <2>7. \A d \in Calls : pc'[d] \in Held \ Running => effects'[req'[d]] = 0
        BY <1>1, <2>1, <2>2, <2>4 DEF ReservationInv
    <2>8. \A d, e \in Calls : pc'[d] \in Held /\ pc'[e] \in Held /\ req'[d] = req'[e] => d = e
        BY <1>1, <2>1, <2>4 DEF ReservationInv
    <2>9. AtMostOnce'
        <3>1. \A q \in Requests : effects[q] <= 1  BY <1>1 DEF AtMostOnce
        <3>2. \A q \in Requests : effects'[q] <= 1  BY <2>1, <2>3, <3>1
        <3> QED  BY <3>2 DEF AtMostOnce
    <2> QED  BY <2>5, <2>6, <2>7, <2>8, <2>9 DEF ReservationInv
<1>8. CASE Crash
    <2>1. UNCHANGED effects /\ \A d \in Calls : pc'[d] \notin Held
        BY <1>8 DEF Crash, Fault, Held, Guarded
    <2> QED  BY <1>2, <2>1
<1>9. CASE Change \/ Expire \/ UNCHANGED vars \/ \E t \in Threads : EnterGuard(t) \/ ExitGuard(t)
    <2>1. UNCHANGED <<effects, pc, req>>
        BY <1>9 DEF Change, Expire, vars, EnterGuard, ExitGuard
    <2> QED  BY <1>2, <2>1
<1>10. ASSUME NEW c \in Calls, Proceed(c)  PROVE ReservationInv' /\ AtMostOnce'
    BY <1>3, <1>4, <1>5, <1>6, <1>7, <1>10 DEF Proceed
<1> QED
    BY <1>3, <1>4, <1>8, <1>9, <1>10 DEF Next, OtherCaller, Reentrant

\* The inductive invariant holds in every reachable state.
THEOREM Invariance == Spec => []IInv
<1>1. Init => IInv
    <2> SUFFICES ASSUME Init  PROVE ReservationInv /\ AtMostOnce
        BY InitType DEF IInv
    <2> QED  BY DEF Init, ReservationInv, AtMostOnce, Held, Guarded
<1>2. IInv /\ [Next]_vars /\ CallInv' => IInv'
    BY ReservationStep DEF IInv
<1> QED  BY <1>1, <1>2, TypeCorrect, PTL DEF Spec

\* A request enters an executor at most once (ExecutionBridge.execute), for any
\* number of threads and attempts, any nesting of calls in callbacks, and any
\* changes of authority, faults and restarts.
COROLLARY AtMostOnceAlways == Spec => []AtMostOnce
<1>1. IInv => AtMostOnce  BY DEF IInv
<1> QED  BY <1>1, Invariance, PTL


-----------------------------------------------------------------------------
\* Every entry is authorized.

\* A commit moves the end of the history past every snapshot.
LEMMA CommitMoves ==
    ASSUME TypeOK, NEW type, NEW q, NEW status, Commit(type, q, status)
    PROVE  Len(history') = Len(history) + 1
BY DEF Commit, TypeOK

\* What head and the length of the history are compared by.
LEMMA EqualIsAtMost ==
    ASSUME NEW m \in Nat, NEW n, n = m
    PROVE  n <= m
  OBVIOUS

\* A snapshot is behind the history once something was committed.
LEMMA LaterIsMore ==
    ASSUME NEW h \in Nat, NEW n \in Nat, h <= n, NEW k, k = n + 1
    PROVE  k # h /\ h <= k
  OBVIOUS

\* What a call commits needs the lock.
LEMMA CommitsNeedLock ==
    ASSUME GuardExclusive, NEW c \in Calls, history' # history,
           Proceed(c) \/ Abandon(c) \/ \E q \in Requests : Execute(c, q)
    PROVE  CanLock(Thread(c)) /\ pc[c] # "idle"
<1>1. CASE Propose(c) \/ RecordPrepared(c) \/ RecordFailed(c)
    BY <1>1 DEF Propose, RecordPrepared, RecordFailed, Goto
<1>2. CASE \/ RejectDuplicate(c) \/ Reserve(c) \/ RecordFinal(c) \/ Recheck(c) \/ DenyLast(c)
           \/ RecordResult(c)
    <2>1. pc[c] \in Guarded /\ pc[c] # "idle"
        BY <1>2 DEF RejectDuplicate, Reserve, RecordFinal, Recheck, DenyLast, RecordResult, Goto,
                    Guarded
    <2> QED  BY <2>1 DEF GuardExclusive, CanLock
<1> QED
    BY <1>1, <1>2
    DEF Proceed, Refused, PrepareEvaluate, ResolveContext, Translate, AcquireGuard, Evaluate,
        AllowLast, EnterExecutor, LeaveExecutor, Abandon, Fault, Execute

\* While one call is in the guarded part, another commits only inside a callback of
\* that one.
LEMMA OthersCommit ==
    ASSUME CallInv, NEW u \in Calls, pc[u] \in Guarded, NEW c \in Calls, c # u, ~Suspended(c),
           Proceed(c) \/ Abandon(c) \/ \E q \in Requests : Execute(c, q)
    PROVE  history' = history \/ pc[u] \in Callbacks
<1> SUFFICES ASSUME history' # history  PROVE pc[u] \in Callbacks
    OBVIOUS
<1>1. CanLock(Thread(c)) /\ pc[c] # "idle"  BY CommitsNeedLock DEF CallInv
<1>2. owner = Thread(u) /\ Thread(u) # NoThread
    BY CallParts, BridgeAssumption DEF CallInv, GuardExclusive
<1>3. Thread(c) = Thread(u)  BY <1>1, <1>2 DEF CanLock
<1>4. ~Inside(u, c)  BY DEF Suspended, Guarded
<1>5. Inside(c, u)  BY <1>3, <1>4, CallsNested
<1> QED  BY <1>1, <1>5 DEF CallInv, Nesting

\* No call changes the authority itself.
LEMMA AuthorityStays ==
    ASSUME NEW c \in Calls, Proceed(c) \/ Abandon(c) \/ \E q \in Requests : Execute(c, q)
    PROVE  UNCHANGED authority
BY DEF Proceed, Propose, Refused, PrepareEvaluate, ResolveContext, RecordPrepared, Translate,
       RecordFailed, AcquireGuard, RejectDuplicate, Reserve, Evaluate, RecordFinal, Recheck,
       DenyLast, AllowLast, EnterExecutor, LeaveExecutor, RecordResult, Abandon, Fault, Execute

\* A call that is about to enter the executor is in no callback, so nobody commits.
LEMMA NobodyChanges ==
    ASSUME CallInv, NEW u \in Calls, pc[u] = "call",
           OtherCaller \/ \E t \in Threads : Reentrant(t)
    PROVE  FALSE
<1>1. owner = Thread(u) /\ Thread(u) # NoThread
    BY CallParts, BridgeAssumption DEF CallInv, GuardExclusive, Guarded
<1>2. PICK t \in Threads : Reentrant(t)  BY <1>1 DEF OtherCaller
<1>3. t = Thread(u)  BY <1>1, <1>2 DEF Reentrant
<1>4. HostCode(Thread(u))  BY <1>2, <1>3 DEF Reentrant
<1> QED  BY <1>4 DEF HostCode, Callbacks

\* The evaluation argument: what was found is only invalidated by a commit, a
\* commit under the guard is the thread's own, in a callback, and it moves the
\* history past the snapshot, which the comparison before the handoff sees.
LEMMA EvaluationStep ==
    ASSUME CallInv, EvaluationInv, [Next]_vars, CallInv'
    PROVE  EvaluationInv'
<1> DEFINE Checking == {"final life", "final consent", "final cap", "compare", "recheck"}
           Found(c) ==
              /\ pc[c] \in Checking => head[c] <= Len(history)
              /\ pc[c] \in {"final consent", "final cap"} /\ Len(history) = head[c] =>
                    authority.life = "ACTIVE"
              /\ pc[c] = "final cap" /\ Len(history) = head[c] =>
                    authority.consent /\ ~authority.reconsent
              /\ pc[c] = "compare" /\ Compared(c) = "ALLOW" => Authorized
              /\ pc[c] = "call" => Authorized
           Evaluating == Checking \union {"call"}
<1> TypeOK /\ GuardExclusive /\ TypeOK'  BY DEF CallInv
<1>1. ASSUME NEW u \in Calls  PROVE Found(u)
    BY DEF EvaluationInv
<1>2. SUFFICES ASSUME NEW u \in Calls, pc'[u] \in Evaluating  PROVE Found(u)'
    <2>1. \A u \in Calls : pc'[u] \notin Evaluating => Found(u)'  OBVIOUS
    <2> QED  BY <1>2, <2>1 DEF EvaluationInv
<1>3. Len(history) \in Nat /\ head[u] \in Nat  BY LenType DEF TypeOK
<1>4. ASSUME UNCHANGED <<history, authority>>,
             pc'[u] = pc[u], head'[u] = head[u], outcome'[u] = outcome[u]
      PROVE  Found(u)'
    BY <1>1, <1>4 DEF Compared, Authorized
\* The history moves on while u waits in a callback: its snapshot is left behind.
<1>5. ASSUME pc'[u] = pc[u], head'[u] = head[u], pc[u] \in Checking,
             Len(history') = Len(history) + 1
      PROVE  Found(u)'
    <2>1. head[u] <= Len(history)  BY <1>1, <1>5
    <2>2. Len(history') # head[u] /\ head[u] <= Len(history')
        BY <1>3, <1>5, <2>1, LaterIsMore
    <2>3. Compared(u)' # "ALLOW"  BY <1>5, <2>2 DEF Compared
    <2> QED  BY <1>5, <2>2, <2>3
\* The authority changes: a callback of u, or somebody else while u is outside.
<1>6. ASSUME OtherCaller \/ \E t \in Threads : Reentrant(t)
      PROVE  Found(u)'
    <2>1. Change  BY <1>6 DEF OtherCaller, Reentrant
    <2>2. UNCHANGED <<pc, head, outcome>> /\ Len(history') = Len(history) + 1
        BY <2>1, CommitMoves DEF Change
    <2>3. pc[u] # "call"  BY <1>6, NobodyChanges
    <2> QED  BY <1>2, <1>5, <2>2, <2>3
\* Another call moves: what it commits, it commits in a callback of u.
<1>7. ASSUME NEW c \in Calls, c # u, ~Suspended(c),
             Proceed(c) \/ Abandon(c) \/ \E q \in Requests : Execute(c, q)
      PROVE  Found(u)'
    <2>1. pc'[u] = pc[u] /\ head'[u] = head[u] /\ outcome'[u] = outcome[u]
        BY <1>7, LocalStep
    <2>2. UNCHANGED authority  BY <1>7, AuthorityStays
    <2>3. CASE history' = history  BY <1>4, <2>1, <2>2, <2>3
    <2>4. CASE history' # history
        <3>1. pc[u] \in Guarded  BY <1>2, <2>1 DEF Guarded
        <3>2. pc[u] \in Callbacks  BY <1>7, <2>4, <3>1, OthersCommit
        <3>3. pc[u] \in Checking  BY <1>2, <2>1, <3>2 DEF Callbacks
        <3>4. Len(history') = Len(history) + 1
            <4>1. \E e \in Event : history' = Append(history, e)  BY <2>4, HistoryGrows
            <4> QED  BY <4>1 DEF TypeOK
        <3> QED  BY <1>5, <2>1, <3>3, <3>4
    <2> QED  BY <2>3, <2>4
\* Steps of u that do not end in an evaluation.
<1>8. ASSUME \/ Propose(u) \/ Refused(u) \/ PrepareEvaluate(u) \/ ResolveContext(u)
             \/ RecordPrepared(u) \/ Translate(u) \/ RecordFailed(u) \/ AcquireGuard(u)
             \/ RejectDuplicate(u) \/ DenyLast(u) \/ EnterExecutor(u) \/ LeaveExecutor(u)
             \/ RecordResult(u) \/ Abandon(u) \/ \E q \in Requests : Execute(u, q)
      PROVE  FALSE
    BY <1>2, <1>8
    DEF Propose, Refused, PrepareEvaluate, ResolveContext, RecordPrepared, Translate, RecordFailed,
        AcquireGuard, RejectDuplicate, DenyLast, EnterExecutor, LeaveExecutor, RecordResult,
        Abandon, Execute, Decide, Leave, Goto, TypeOK
<1>9. CASE Reserve(u)
    <2>1. pc'[u] = "final life" /\ head'[u] = Len(history')
        BY <1>9 DEF Reserve, Goto, TypeOK
    <2>2. Len(history') \in Nat
        <3>1. history' \in Seq(Event)  BY DEF TypeOK
        <3> QED  BY <3>1
    <2>3. head'[u] <= Len(history')  BY <2>1, <2>2, EqualIsAtMost
    <2> QED  BY <2>1, <2>3
<1>10. CASE Evaluate(u)
    <2>1. UNCHANGED <<history, authority, head>>  BY <1>10 DEF Evaluate
    <2>2. CASE pc[u] = "final life"
        <3>1. Decide(u, Lifecycle, "final consent", "compare")  BY <1>10, <2>2 DEF Evaluate
        <3>2. outcome'[u] = Lifecycle
              /\ pc'[u] = (IF Lifecycle = "ALLOW" THEN "final consent" ELSE "compare")
            BY <3>1 DEF Decide, TypeOK
        <3>3. head'[u] <= Len(history')  BY <1>1, <2>1, <2>2
        <3>4. Lifecycle = "ALLOW" => authority.life = "ACTIVE"  BY DEF Lifecycle
        <3> QED  BY <2>1, <3>2, <3>3, <3>4 DEF Compared
    <2>3. CASE pc[u] = "final consent"
        <3>1. Decide(u, Consent, "final cap", "compare")  BY <1>10, <2>3 DEF Evaluate
        <3>2. outcome'[u] = Consent
              /\ pc'[u] = (IF Consent = "ALLOW" THEN "final cap" ELSE "compare")
            BY <3>1 DEF Decide, TypeOK
        <3>3. head'[u] <= Len(history')  BY <1>1, <2>1, <2>3
        <3>4. Consent = "ALLOW" => authority.consent /\ ~authority.reconsent  BY DEF Consent
        <3>5. Len(history) = head[u] => authority.life = "ACTIVE"  BY <1>1, <2>3
        <3> QED  BY <2>1, <3>2, <3>3, <3>4, <3>5 DEF Compared
    <2>4. CASE pc[u] = "final cap"
        <3>1. Decide(u, Capability, "compare", "compare")  BY <1>10, <2>4 DEF Evaluate
        <3>2. outcome'[u] = Capability /\ pc'[u] = "compare"
            BY <3>1 DEF Decide, TypeOK
        <3>3. head'[u] <= Len(history')  BY <1>1, <2>1, <2>4
        <3>4. Capability = "ALLOW" => authority.grant # "revoked"  BY DEF Capability
        <3>5. Len(history) = head[u] =>
                  authority.life = "ACTIVE" /\ authority.consent /\ ~authority.reconsent
            BY <1>1, <2>4
        <3>6. Compared(u)' = "ALLOW" => Len(history) = head[u] /\ Capability = "ALLOW"
            BY <2>1, <3>2 DEF Compared
        <3>7. Compared(u)' = "ALLOW" => Authorized'
            BY <2>1, <3>4, <3>5, <3>6 DEF Authorized
        <3> QED  BY <3>2, <3>3, <3>7
    <2> QED  BY <1>10, <2>2, <2>3, <2>4 DEF Evaluate
<1>11. CASE RecordFinal(u)
    <2>1. pc'[u] = "recheck" /\ pc[u] = "compare" /\ UNCHANGED head
        BY <1>11 DEF RecordFinal, Goto, TypeOK
    <2>2. Len(history') = Len(history) + 1  BY <1>11, CommitMoves DEF RecordFinal
    <2>3. head[u] <= Len(history)  BY <1>1, <2>1
    <2> QED  BY <1>3, <2>1, <2>2, <2>3
<1>12. CASE Recheck(u)
    <2>1. pc'[u] = "final life" /\ head'[u] = Len(history) /\ UNCHANGED history
        BY <1>2, <1>12 DEF Recheck, Leave, TypeOK
    <2>2. head'[u] <= Len(history')
        <3>1. Len(history') = Len(history)  BY <2>1
        <3> QED  BY <1>3, <2>1, <3>1, EqualIsAtMost
    <2> QED  BY <2>1, <2>2
<1>13. CASE AllowLast(u)
    <2>1. pc'[u] = "call" /\ UNCHANGED authority /\ Authorized
        BY <1>1, <1>13 DEF AllowLast, Goto, TypeOK
    <2> QED  BY <2>1 DEF Authorized
<1>14. CASE Expire \/ UNCHANGED vars \/ \E t \in Threads : EnterGuard(t) \/ ExitGuard(t)
    <2>1. UNCHANGED <<history, authority, pc, head, outcome>>
        BY <1>14 DEF Expire, EnterGuard, ExitGuard, vars
    <2> QED  BY <1>4, <2>1
<1>15. CASE Crash
    BY <1>2, <1>15 DEF Crash
<1>16. ASSUME NEW c \in Calls, ~Suspended(c),
              Proceed(c) \/ Abandon(c) \/ \E q \in Requests : Execute(c, q)
       PROVE  Found(u)'
    <2>1. CASE c = u
        BY <1>8, <1>9, <1>10, <1>11, <1>12, <1>13, <1>16, <2>1 DEF Proceed
    <2> QED  BY <1>7, <1>16, <2>1
<1> HIDE DEF Found
<1> QED  BY <1>6, <1>14, <1>15, <1>16 DEF Next

\* The relationship authorizes every executor entry at the moment it is made,
\* for any interleaving and nesting of executions, revocations, policy and
\* lifecycle changes and callbacks (the "enforced local order" of
\* ExecutionBridge.execute).
THEOREM EntryAlwaysAuthorized == Spec => EntryAuthorized
<1>1. Init => EvaluationInv
    BY DEF Init, EvaluationInv
<1>2. CallInv /\ EvaluationInv /\ [Next]_vars /\ CallInv' => EvaluationInv'
    BY EvaluationStep
<1>3. ASSUME TypeOK, EvaluationInv, [Next]_vars  PROVE [Entering => Authorized]_vars
    <2> SUFFICES ASSUME NEW q \in Requests, effects'[q] > effects[q]  PROVE Authorized
        BY DEF Entering
    <2>1. ~UNCHANGED effects
        <3>1. effects[q] \in Nat  BY <1>3 DEF TypeOK
        <3> QED  BY <3>1
    <2>2. PICK c \in Calls : EnterExecutor(c)
        BY <1>3, <2>1
        DEF Next, OtherCaller, Expire, Crash, Reentrant, EnterGuard, ExitGuard, Change, Abandon,
            Fault, Execute, Proceed, Propose, Refused, PrepareEvaluate, ResolveContext,
            RecordPrepared, Translate, RecordFailed, AcquireGuard, RejectDuplicate, Reserve,
            Evaluate, RecordFinal, Recheck, DenyLast, AllowLast, LeaveExecutor, RecordResult, vars
    <2>3. pc[c] = "call"  BY <2>2 DEF EnterExecutor, Goto
    <2> QED  BY <1>3, <2>3 DEF EvaluationInv
<1>4. CallInv /\ EvaluationInv /\ [Next]_vars => [Entering => Authorized]_vars
    BY <1>3 DEF CallInv
<1> QED  BY <1>1, <1>2, <1>4, TypeCorrect, PTL DEF Spec, EntryAuthorized

-----------------------------------------------------------------------------
\* The history tells of every effect.

\* EntryOnRecord and Has("Result", q), of any history.
EntryOn(h, q) ==
    \E i, j \in 1..Len(h) :
        /\ i < j
        /\ h[i].type = "Reserved" /\ h[i].req = q
        /\ h[j].type = "Resolved" /\ h[j].req = q /\ h[j].status = "AUTHORIZED"

ResultOn(h, q) == \E i \in 1..Len(h) : h[i].type = "Result" /\ h[i].req = q

\* Past an ALLOW of the final decision, up to the result.
Cleared(place, ph, o) ==
    \/ place \in {"final life", "final consent", "final cap", "compare"} /\ ph = "last"
    \/ place = "recheck" /\ o = "ALLOW"
    \/ place \in Running \union {"call"}

\* The history is complete, and will be after the steps that calls are about
\* to take: who may enter is on record, who has entered has no result yet.
EffectInv ==
    /\ \A c \in Calls : Cleared(pc[c], phase[c], outcome[c]) => EntryOn(history, req[c])
    /\ \A c \in Calls :
          pc[c] \in Running => effects[req[c]] > 0 /\ ~ResultOn(history, req[c])
    /\ EffectsOnRecord

\* What a commit does to the history.
LEMMA CommitEvent ==
    ASSUME TypeOK, NEW type \in {"Change", "Proposed", "Resolved", "Reserved", "Result"},
           NEW q \in Requests, NEW status \in Statuses, Commit(type, q, status)
    PROVE  LET e == [type |-> type, req |-> q, status |-> status]
           IN  e \in Event /\ history' = Append(history, e)
BY DEF Commit, Event

\* The history after an event is appended, position by position.
LEMMA AppendEvent ==
    ASSUME TypeOK, NEW e \in Event, history' = Append(history, e)
    PROVE  /\ Len(history) \in Nat /\ Len(history') = Len(history) + 1
           /\ history'[Len(history) + 1] = e
           /\ \A i \in 1..Len(history) : history'[i] = history[i]
BY DEF TypeOK

\* What is on record stays on record.
LEMMA EntryStays ==
    ASSUME TypeOK, NEW e \in Event, history' = history \/ history' = Append(history, e),
           NEW q, EntryOn(history, q)
    PROVE  EntryOn(history', q)
<1>1. CASE history' = history  BY <1>1
<1>2. CASE history' = Append(history, e)
    <2>1. /\ 1..Len(history) \subseteq 1..Len(history')
          /\ \A i \in 1..Len(history) : history'[i] = history[i]
        BY <1>2, AppendEvent
    <2>2. PICK i \in 1..Len(history), j \in 1..Len(history) :
              /\ i < j
              /\ history[i].type = "Reserved" /\ history[i].req = q
              /\ history[j].type = "Resolved" /\ history[j].req = q
              /\ history[j].status = "AUTHORIZED"
        BY DEF EntryOn
    <2> QED  BY <2>1, <2>2 DEF EntryOn
<1> QED  BY <1>1, <1>2

\* A step that neither enters an executor nor records a result.
LEMMA EffectFrame ==
    ASSUME TypeOK, EffectInv, UNCHANGED effects, lost \subseteq lost',
           NEW e \in Event, e.type # "Result",
           history' = history \/ history' = Append(history, e),
           \A c \in Calls : pc'[c] \in Running => pc[c] \in Running /\ req'[c] = req[c],
           \A c \in Calls :
              pc[c] \in Running => (pc'[c] \in Running /\ req'[c] = req[c]) \/ req[c] \in lost',
           \A c \in Calls : Cleared(pc'[c], phase'[c], outcome'[c]) =>
              \/ Cleared(pc[c], phase[c], outcome[c]) /\ req'[c] = req[c]
              \/ EntryOn(history', req'[c])
    PROVE  EffectInv'
<1>1. ASSUME NEW c \in Calls, Cleared(pc'[c], phase'[c], outcome'[c])
      PROVE  EntryOn(history', req'[c])
    <2>1. CASE Cleared(pc[c], phase[c], outcome[c]) /\ req'[c] = req[c]
        <3>1. EntryOn(history, req[c])  BY <2>1 DEF EffectInv
        <3>2. EntryOn(history', req[c])  BY <3>1, EntryStays
        <3> QED  BY <2>1, <3>2
    <2>2. CASE EntryOn(history', req'[c])  BY <2>2
    <2> QED  BY <1>1, <2>1, <2>2
<1>2. \A q : ResultOn(history', q) <=> ResultOn(history, q)
    <2>1. CASE history' = history  BY <2>1
    <2>2. CASE history' = Append(history, e)
        BY <2>2, AppendEvent DEF ResultOn
    <2> QED  BY <2>1, <2>2
<1>3. ASSUME NEW c \in Calls, pc'[c] \in Running
      PROVE  effects'[req'[c]] > 0 /\ ~ResultOn(history', req'[c])
    <2>1. pc[c] \in Running /\ req'[c] = req[c]  BY <1>3
    <2>2. effects[req[c]] > 0 /\ ~ResultOn(history, req[c])  BY <2>1 DEF EffectInv
    <2> QED  BY <1>2, <2>1, <2>2
<1>4. EntryOnRecord'
    <2> SUFFICES ASSUME NEW q \in Requests, effects'[q] > 0  PROVE EntryOn(history', q)
        BY DEF EntryOnRecord, EntryOn
    <2>1. EntryOn(history, q)  BY DEF EffectInv, EffectsOnRecord, EntryOnRecord, EntryOn
    <2> QED  BY <2>1, EntryStays
<1>5. ResultOfEntry'
    <2>1. CASE history' = history
        BY <2>1 DEF EffectInv, EffectsOnRecord, ResultOfEntry
    <2>2. CASE history' = Append(history, e)
        BY <2>2, AppendEvent DEF EffectInv, EffectsOnRecord, ResultOfEntry
    <2> QED  BY <2>1, <2>2
<1>6. EntryAccountedFor'
    <2> SUFFICES ASSUME NEW q \in Requests, effects'[q] > 0
                 PROVE  \/ ResultOn(history', q)
                        \/ q \in lost'
                        \/ \E c \in Calls : req'[c] = q /\ pc'[c] \in Running
        BY DEF EntryAccountedFor, Has, ResultOn
    <2>1. \/ ResultOn(history, q)
          \/ q \in lost
          \/ \E c \in Calls : req[c] = q /\ pc[c] \in Running
        BY DEF EffectInv, EffectsOnRecord, EntryAccountedFor, Has, ResultOn
    <2> QED  BY <1>2, <2>1 DEF Running
<1> QED  BY <1>1, <1>3, <1>4, <1>5, <1>6 DEF EffectInv, EffectsOnRecord

\* The entry argument: the final record precedes the entry, no other call under the
\* guard has the same request, so none records its result, and only a fault takes an
\* entered call away.
LEMMA EffectStep ==
    ASSUME IInv, EffectInv, [Next]_vars
    PROVE  EffectInv'
<1> DEFINE Same(c) == \A u \in Calls \ {c} : /\ pc'[u] = pc[u] /\ req'[u] = req[u]
                                               /\ phase'[u] = phase[u] /\ outcome'[u] = outcome[u]
<1>1. TypeOK /\ ReservationInv  BY DEF IInv, CallInv
<1>2. PICK nothing \in Event : nothing.type = "Change"
    <2>1. PICK q \in Requests : TRUE  BY BridgeAssumption
    <2>2. [type |-> "Change", req |-> q, status |-> "none"] \in Event  BY DEF Event, Statuses
    <2> QED  BY <2>2
\* A step of c that leaves it outside what Cleared is about.
<1>3. ASSUME NEW c \in Calls, Same(c), UNCHANGED effects, lost \subseteq lost',
             ~Cleared(pc'[c], phase'[c], outcome'[c]),
             pc[c] \in Running => req[c] \in lost',
             NEW e \in Event, e.type # "Result", history' = history \/ history' = Append(history, e)
      PROVE  EffectInv'
    BY <1>1, <1>3, EffectFrame DEF Cleared
<1>4. CASE Change
    <2>1. UNCHANGED <<pc, req, phase, outcome, effects, lost>>  BY <1>4 DEF Change
    <2>2. PICK e \in Event : e.type # "Result" /\ history' = Append(history, e)
        BY <1>1, <1>4, CommitEvent, AnyRequestType DEF Change, Statuses
    <2> QED  BY <1>1, <2>1, <2>2, EffectFrame
<1>5. ASSUME NEW c \in Calls,
             \/ \E q \in Requests : Execute(c, q)
             \/ Refused(c) \/ PrepareEvaluate(c) \/ ResolveContext(c) \/ Translate(c)
             \/ AcquireGuard(c)
      PROVE  EffectInv'
    <2>1. Same(c) /\ UNCHANGED <<effects, lost, history>>
        BY <1>1, <1>5, LocalStep
        DEF Proceed, Execute, Refused, PrepareEvaluate, ResolveContext, Translate, AcquireGuard
    <2>2. /\ pc[c] \notin Running
          /\ pc'[c] \in {"idle", "propose", "consent", "cap", "resolve", "record", "fail", "enter",
                         "check"}
        BY <1>1, <1>5 DEF Execute, Refused, PrepareEvaluate, ResolveContext, Translate, AcquireGuard,
               Decide, Goto, TypeOK, Running
    <2> QED  BY <1>2, <1>3, <2>1, <2>2 DEF Cleared, Running
<1>6. ASSUME NEW c \in Calls,
             \/ Propose(c) \/ RecordPrepared(c) \/ RecordFailed(c) \/ RejectDuplicate(c)
             \/ DenyLast(c) \/ Reserve(c)
      PROVE  EffectInv'
    <2>1. Same(c) /\ UNCHANGED <<effects, lost>>
        BY <1>1, <1>6, LocalStep
        DEF Proceed, Propose, RecordPrepared, RecordFailed, RejectDuplicate, DenyLast, Reserve
    <2>2. /\ pc[c] \notin Running
          /\ \/ pc'[c] \in {"life", "translate", "idle"}
             \/ pc'[c] = "final life" /\ phase'[c] = "final"
        BY <1>1, <1>6 DEF Propose, RecordPrepared, RecordFailed, RejectDuplicate, DenyLast, Reserve,
               Leave, Goto, TypeOK, Running
    <2>3. req[c] \in Requests /\ outcome[c] \in Outcomes /\ Compared(c) \in Outcomes
        BY <1>1 DEF TypeOK, Compared, Outcomes
    <2>4. \E type \in {"Proposed", "Resolved", "Reserved"}, status \in Statuses :
              Commit(type, req[c], status)
        BY <1>6, <2>3, DecisionTypes
        DEF Propose, RecordPrepared, RecordFailed, RejectDuplicate, DenyLast, Reserve, Statuses,
            ResultStatuses
    <2>5. PICK e \in Event : e.type # "Result" /\ history' = Append(history, e)
        BY <1>1, <2>3, <2>4, CommitEvent
    <2> QED  BY <1>3, <2>1, <2>2, <2>5 DEF Cleared, Running
<1>7. ASSUME NEW c \in Calls, Evaluate(c) \/ AllowLast(c) \/ LeaveExecutor(c)  PROVE EffectInv'
    <2>1. Same(c) /\ UNCHANGED <<effects, lost, history, req, phase>>
        BY <1>1, <1>7, LocalStep DEF Proceed, Evaluate, AllowLast, LeaveExecutor
    <2>2. \/ /\ pc[c] \in {"final life", "final consent", "final cap"}
             /\ pc'[c] \in {"final consent", "final cap", "compare"}
          \/ pc[c] = "compare" /\ phase[c] = "last" /\ pc'[c] = "call"
          \/ pc[c] = "executing" /\ pc'[c] = "result"
        BY <1>1, <1>7 DEF Evaluate, AllowLast, LeaveExecutor, Decide, Goto, TypeOK
    <2>3. Cleared(pc'[c], phase'[c], outcome'[c]) => Cleared(pc[c], phase[c], outcome[c])
        BY <2>1, <2>2 DEF Cleared, Running
    <2>4. pc'[c] \in Running <=> pc[c] \in Running  BY <2>2 DEF Running
    <2> QED  BY <1>1, <1>2, <2>1, <2>3, <2>4, EffectFrame
<1>8. ASSUME NEW c \in Calls, RecordFinal(c)  PROVE EffectInv'
    <2> DEFINE e == [type |-> "Resolved", req |-> req[c], status |-> Resolution(Compared(c))]
    <2>1. /\ Same(c) /\ UNCHANGED <<effects, lost, req>>
          /\ pc[c] = "compare" /\ pc'[c] = "recheck" /\ outcome'[c] = Compared(c)
        BY <1>1, <1>8 DEF RecordFinal, Goto, TypeOK
    <2>2. req[c] \in Requests /\ Compared(c) \in Outcomes  BY <1>1 DEF TypeOK, Compared, Outcomes
    <2>3. e \in Event /\ history' = Append(history, e)
        BY <1>1, <1>8, <2>2, CommitEvent, DecisionTypes DEF RecordFinal
    <2>4. /\ e.type = "Resolved" /\ e.req = req[c]
          /\ Compared(c) = "ALLOW" => e.status = "AUTHORIZED"
        BY DEF Resolution
    <2>5. Reserved(req[c])
        BY <1>1, <2>1, <2>2 DEF ReservationInv, ReservedRequests, Held, Guarded
    <2> HIDE DEF e
    <2>6. outcome'[c] = "ALLOW" => EntryOn(history', req'[c])
        <3>1. PICK i \in 1..Len(history) :
                  history[i].type = "Reserved" /\ history[i].req = req[c]
            BY <2>5 DEF Reserved, Has
        <3>2. /\ i \in 1..Len(history') /\ history'[i] = history[i] /\ i < Len(history) + 1
              /\ Len(history) + 1 \in 1..Len(history') /\ history'[Len(history) + 1] = e
            BY <1>1, <2>3, <3>1, AppendEvent
        <3> QED  BY <2>1, <2>4, <3>1, <3>2 DEF EntryOn
    <2>7. Cleared(pc'[c], phase'[c], outcome'[c]) => outcome'[c] = "ALLOW"
        BY <2>1 DEF Cleared, Running
    <2>8. pc[c] \notin Running /\ pc'[c] \notin Running  BY <2>1 DEF Running
    <2> QED  BY <1>1, <2>1, <2>3, <2>4, <2>6, <2>7, <2>8, EffectFrame
<1>9. ASSUME NEW c \in Calls, Recheck(c)  PROVE EffectInv'
    <2>1. Same(c) /\ UNCHANGED <<effects, lost, req>> /\ pc[c] = "recheck"
        BY <1>1, <1>9, LocalStep DEF Proceed, Recheck, Leave
    <2>2. req[c] \in Requests  BY <1>1 DEF TypeOK
    <2>3. \E e \in Event : e.type # "Result" /\ (history' = history \/ history' = Append(history, e))
        <3>1. UNCHANGED history \/ Commit("Resolved", req[c], "BLOCKED")  BY <1>9 DEF Recheck
        <3> QED  BY <1>1, <1>2, <2>2, <3>1, CommitEvent DEF Statuses
    <2>4. \/ pc'[c] = "idle"
          \/ pc'[c] = "final life" /\ outcome[c] = "ALLOW"
        BY <1>1, <1>9 DEF Recheck, Leave, TypeOK
    <2>5. Cleared(pc'[c], phase'[c], outcome'[c]) => Cleared(pc[c], phase[c], outcome[c])
        BY <2>1, <2>4 DEF Cleared, Running
    <2>6. pc[c] \notin Running /\ pc'[c] \notin Running  BY <2>1, <2>4 DEF Running
    <2> QED  BY <1>1, <2>1, <2>3, <2>5, <2>6, EffectFrame
<1>10. ASSUME NEW c \in Calls, EnterExecutor(c)  PROVE EffectInv'
    <2>1. /\ Same(c) /\ UNCHANGED <<history, req, lost, phase, outcome>>
          /\ pc[c] = "call" /\ pc'[c] = "executing"
          /\ \A q \in Requests : effects'[q] = (IF q = req[c] THEN effects[q] + 1 ELSE effects[q])
        BY <1>1, <1>10 DEF EnterExecutor, Goto, TypeOK
    <2>2. req[c] \in Requests /\ effects[req[c]] = 0
        BY <1>1, <2>1 DEF TypeOK, ReservationInv, Held, Guarded, Running
    <2>3. EntryOn(history, req[c])  BY <2>1 DEF EffectInv, Cleared
    <2>4. \A u \in Calls : u # c /\ pc[u] \in Running =>
              req[u] \in Requests /\ effects[req[u]] > 0 /\ ~ResultOn(history, req[u])
        BY <1>1 DEF EffectInv, TypeOK
    <2>5. ~ResultOn(history, req[c])
        BY <2>2 DEF EffectInv, EffectsOnRecord, ResultOfEntry, ResultOn
    <2>6. \A u \in Calls :
              Cleared(pc'[u], phase'[u], outcome'[u]) => EntryOn(history', req'[u])
        <3> SUFFICES ASSUME NEW u \in Calls, Cleared(pc'[u], phase'[u], outcome'[u])
                     PROVE  EntryOn(history, req[u])
            BY <2>1
        <3>1. CASE u = c  BY <2>3, <3>1
        <3>2. CASE u # c  BY <2>1, <3>2 DEF EffectInv
        <3> QED  BY <3>1, <3>2
    <2>7. \A u \in Calls :
              pc'[u] \in Running => effects'[req'[u]] > 0 /\ ~ResultOn(history', req'[u])
        <3> SUFFICES ASSUME NEW u \in Calls, pc'[u] \in Running
                     PROVE  effects'[req[u]] > 0 /\ ~ResultOn(history, req[u])
            BY <2>1
        <3>1. CASE u = c  BY <2>1, <2>2, <2>5, <3>1
        <3>2. CASE u # c
            <4>1. req[u] \in Requests /\ effects[req[u]] > 0 /\ ~ResultOn(history, req[u])
                BY <2>1, <2>4, <3>2
            <4>2. req[u] # req[c]  BY <2>2, <4>1
            <4> QED  BY <2>1, <4>1, <4>2
        <3> QED  BY <3>1, <3>2
    <2>8. EntryOnRecord'
        BY <2>1, <2>3 DEF EffectInv, EffectsOnRecord, EntryOnRecord, EntryOn
    <2>9. ResultOfEntry'
        <3>1. ResultOfEntry  BY DEF EffectInv, EffectsOnRecord
        <3>2. ASSUME NEW i \in 1..Len(history), history[i].type = "Result"
              PROVE  effects'[history[i].req] > 0
            <4>1. effects[history[i].req] > 0  BY <3>1, <3>2 DEF ResultOfEntry
            <4>2. history[i] \in Event  BY <1>1 DEF TypeOK
            <4>3. history[i].req \in Requests  BY <4>2 DEF Event
            <4>4. effects'[history[i].req] \in {effects[history[i].req], effects[history[i].req] + 1}
                BY <2>1, <4>3
            <4>5. effects[history[i].req] \in Nat  BY <1>1, <4>3 DEF TypeOK
            <4> QED  BY <4>1, <4>4, <4>5
        <3> QED  BY <2>1, <3>1, <3>2 DEF ResultOfEntry
    <2>10. EntryAccountedFor'
        <3> SUFFICES ASSUME NEW q \in Requests, effects'[q] > 0
                     PROVE  \/ ResultOn(history, q)
                            \/ q \in lost
                            \/ \E u \in Calls : req[u] = q /\ pc'[u] \in Running
            BY <2>1 DEF EntryAccountedFor, Has, ResultOn
        <3>1. CASE q = req[c]  BY <2>1, <3>1 DEF Running
        <3>2. CASE q # req[c]
            <4>1. effects[q] > 0  BY <2>1, <3>2
            <4>2. \A u \in Calls : pc[u] \in Running => u # c  BY <2>1 DEF Running
            <4> QED
                BY <2>1, <4>1, <4>2 DEF EffectInv, EffectsOnRecord, EntryAccountedFor, Has, ResultOn
        <3> QED  BY <3>1, <3>2
    <2> QED  BY <2>6, <2>7, <2>8, <2>9, <2>10 DEF EffectInv, EffectsOnRecord
<1>11. ASSUME NEW c \in Calls, RecordResult(c)  PROVE EffectInv'
    <2> DEFINE n == Len(history)
    <2>1. /\ Same(c) /\ UNCHANGED <<effects, req, lost, phase, outcome>>
          /\ pc[c] = "result" /\ pc'[c] = "idle"
        BY <1>1, <1>11 DEF RecordResult, Leave, TypeOK
    <2>2. req[c] \in Requests  BY <1>1 DEF TypeOK
    <2>3. PICK status \in ResultStatuses : Commit("Result", req[c], status)
        BY <1>11 DEF RecordResult
    <2> DEFINE e == [type |-> "Result", req |-> req[c], status |-> status]
    <2>4. e \in Event /\ history' = Append(history, e)
        BY <1>1, <2>2, <2>3, CommitEvent DEF Statuses
    <2>5. e.type = "Result" /\ e.req = req[c]  OBVIOUS
    <2> HIDE DEF e
    <2>6. /\ n \in Nat /\ Len(history') = n + 1 /\ history'[n + 1] = e
          /\ \A i \in 1..n : history'[i] = history[i]
        BY <1>1, <2>4, AppendEvent
    <2>7. effects[req[c]] > 0 /\ ~ResultOn(history, req[c])  BY <2>1 DEF EffectInv, Running
    <2>8. \A u \in Calls : u # c /\ pc[u] \in Running => req[u] # req[c]
        BY <1>1, <2>1 DEF ReservationInv, Held, Running, Guarded
    <2>9. \A q : EntryOn(history, q) => EntryOn(history', q)  BY <1>1, <2>4, EntryStays
    <2>10. \A q : ResultOn(history, q) => ResultOn(history', q)  BY <2>6 DEF ResultOn
    <2>11. ResultOn(history', req[c])
        <3>1. n + 1 \in 1..Len(history')  BY <2>6
        <3> QED  BY <2>5, <2>6, <3>1 DEF ResultOn
    <2>12. \A u \in Calls :
               Cleared(pc'[u], phase'[u], outcome'[u]) => EntryOn(history', req'[u])
        <3> SUFFICES ASSUME NEW u \in Calls, Cleared(pc'[u], phase'[u], outcome'[u])
                     PROVE  EntryOn(history', req[u])
            BY <2>1
        <3>1. u # c  BY <2>1 DEF Cleared, Running
        <3>2. EntryOn(history, req[u])  BY <2>1, <3>1 DEF EffectInv
        <3> QED  BY <2>9, <3>2
    <2>13. \A u \in Calls :
               pc'[u] \in Running => effects'[req'[u]] > 0 /\ ~ResultOn(history', req'[u])
        <3> SUFFICES ASSUME NEW u \in Calls, pc'[u] \in Running
                     PROVE  effects[req[u]] > 0 /\ ~ResultOn(history', req[u])
            BY <2>1
        <3>1. u # c /\ pc[u] \in Running  BY <2>1 DEF Running
        <3>2. effects[req[u]] > 0 /\ ~ResultOn(history, req[u])  BY <3>1 DEF EffectInv
        <3>3. req[u] # req[c]  BY <2>8, <3>1
        <3> QED  BY <2>5, <2>6, <3>2, <3>3 DEF ResultOn
    <2>14. EntryOnRecord'
        BY <2>1, <2>9 DEF EffectInv, EffectsOnRecord, EntryOnRecord, EntryOn
    <2>15. ResultOfEntry'
        <3> SUFFICES ASSUME NEW i \in 1..(n + 1), history'[i].type = "Result"
                     PROVE  /\ effects[history'[i].req] > 0
                            /\ \A j \in 1..(n + 1) : history'[j].type = "Result"
                                  /\ history'[j].req = history'[i].req => j = i
            BY <2>1, <2>6 DEF ResultOfEntry
        <3>1. CASE i = n + 1
            <4>1. history'[i] = e  BY <2>6, <3>1
            <4>2. \A j \in 1..n :
                      ~(history'[j].type = "Result" /\ history'[j].req = req[c])
                BY <2>6, <2>7 DEF ResultOn
            <4> QED  BY <2>5, <2>6, <2>7, <3>1, <4>1, <4>2
        <3>2. CASE i # n + 1
            <4>1. i \in 1..n /\ history'[i] = history[i]  BY <2>6, <3>2
            <4>2. /\ effects[history[i].req] > 0
                  /\ \A j \in 1..n : history[j].type = "Result"
                        /\ history[j].req = history[i].req => j = i
                BY <4>1 DEF EffectInv, EffectsOnRecord, ResultOfEntry
            <4>3. history[i].req # req[c]
                <5>1. history[i].type = "Result"  BY <4>1
                <5> QED  BY <2>7, <4>1, <5>1 DEF ResultOn
            <4>4. \A j \in 1..(n + 1) : j \in 1..n \/ j = n + 1  BY <2>6
            <4> QED  BY <2>5, <2>6, <4>1, <4>2, <4>3, <4>4
        <3> QED  BY <3>1, <3>2
    <2>16. EntryAccountedFor'
        <3> SUFFICES ASSUME NEW q \in Requests, effects[q] > 0
                     PROVE  \/ ResultOn(history', q)
                            \/ q \in lost
                            \/ \E u \in Calls : req[u] = q /\ pc'[u] \in Running
            BY <2>1 DEF EntryAccountedFor, Has, ResultOn
        <3>1. \A u \in Calls : pc[u] \in Running => u = c \/ pc'[u] \in Running
            BY <2>1
        <3>2. \/ ResultOn(history, q)
              \/ q \in lost
              \/ \E u \in Calls : req[u] = q /\ pc[u] \in Running
            BY DEF EffectInv, EffectsOnRecord, EntryAccountedFor, Has, ResultOn
        <3> QED  BY <2>10, <2>11, <3>1, <3>2
    <2> QED  BY <2>12, <2>13, <2>14, <2>15, <2>16 DEF EffectInv, EffectsOnRecord
<1>12. ASSUME NEW c \in Calls, Abandon(c)  PROVE EffectInv'
    <2>1. /\ Same(c) /\ UNCHANGED <<effects, history>> /\ pc'[c] = "idle"
          /\ lost \subseteq lost' /\ (pc[c] \in Running => req[c] \in lost')
        BY <1>1, <1>12 DEF Abandon, Fault, Leave, TypeOK, Running
    <2> QED  BY <1>2, <1>3, <2>1 DEF Cleared, Running
<1>13. CASE Crash
    <2>1. /\ UNCHANGED <<effects, history>> /\ lost \subseteq lost'
          /\ \A u \in Calls : pc'[u] = "idle" /\ (pc[u] \in Running => req[u] \in lost')
        BY <1>1, <1>13 DEF Crash, Fault, TypeOK, Running
    <2>2. \A u \in Calls : pc'[u] \notin Running /\ ~Cleared(pc'[u], phase'[u], outcome'[u])
        BY <2>1 DEF Cleared, Running
    <2> QED  BY <1>1, <1>2, <2>1, <2>2, EffectFrame
<1>14. CASE Expire \/ UNCHANGED vars \/ \E t \in Threads : EnterGuard(t) \/ ExitGuard(t)
    <2>1. UNCHANGED <<pc, req, phase, outcome, effects, lost, history>>
        BY <1>14 DEF Expire, EnterGuard, ExitGuard, vars
    <2> QED  BY <1>1, <1>2, <2>1, EffectFrame
<1>15. ASSUME NEW c \in Calls, Proceed(c)  PROVE EffectInv'
    BY <1>5, <1>6, <1>7, <1>8, <1>9, <1>10, <1>11, <1>15 DEF Proceed
<1> QED
    BY <1>4, <1>5, <1>12, <1>13, <1>14, <1>15 DEF Next, OtherCaller, Reentrant

\* The history is complete in every reachable state.
THEOREM EffectInvariance == Spec => []EffectInv
<1>1. Init => EffectInv
    <2> SUFFICES ASSUME Init  PROVE EffectInv
        OBVIOUS
    <2>1. \A c \in Calls : pc[c] = "idle" /\ phase[c] = "prepare"  BY DEF Init
    <2>2. history = << >> /\ \A q \in Requests : effects[q] = 0  BY DEF Init
    <2>3. EffectsOnRecord
        BY <2>2 DEF EffectsOnRecord, EntryOnRecord, ResultOfEntry, EntryAccountedFor
    <2> QED  BY <2>1, <2>3 DEF EffectInv, Cleared, Running
<1>2. IInv /\ EffectInv /\ [Next]_vars => EffectInv'
    BY EffectStep
<1> QED  BY <1>1, <1>2, Invariance, PTL DEF Spec

\* The history tells of every effect (record_plan before the handoff, the
\* outcome after it in ExecutionBridge.execute): an entered request has its
\* reservation and then its final AUTHORIZED record in the history before the
\* entry, no result is recorded for a request that did not enter or twice, and an
\* entry without a result is still running or was cut off by a fault.
COROLLARY EffectsAlwaysOnRecord == Spec => []EffectsOnRecord
<1>1. EffectInv => EffectsOnRecord  BY DEF EffectInv
<1> QED  BY <1>1, EffectInvariance, PTL


-----------------------------------------------------------------------------
\* The last check is the last thing before the entry.

\* From the last evaluation on, nothing was committed since it read the permission.
LastInv ==
    \A c \in Calls :
        \/ pc[c] = "compare" /\ Compared(c) = "ALLOW"
        \/ pc[c] = "call"
        => evaluated[c] = Len(history)

\* Every step keeps it: others commit only in callbacks of the call's own, and an
\* evaluation that was followed by a commit does not compare.
LEMMA LastStep ==
    ASSUME CallInv, EvaluationInv, LastInv, [Next]_vars
    PROVE  LastInv'
<1> TypeOK  BY DEF CallInv
<1> SUFFICES ASSUME NEW u \in Calls,
                    (pc'[u] = "compare" /\ Compared(u)' = "ALLOW") \/ pc'[u] = "call"
             PROVE  evaluated'[u] = Len(history')
    BY DEF LastInv
<1>1. Len(history) \in Nat /\ head[u] \in Nat  BY LenType DEF TypeOK
<1>2. ASSUME UNCHANGED history, pc'[u] = pc[u], head'[u] = head[u], outcome'[u] = outcome[u],
             evaluated'[u] = evaluated[u]
      PROVE  evaluated'[u] = Len(history')
    BY <1>2 DEF LastInv, Compared
\* The history moves on while u waits in a callback: its snapshot is left behind.
<1>3. ASSUME pc'[u] = pc[u], head'[u] = head[u], pc[u] # "call", Len(history') = Len(history) + 1
      PROVE  evaluated'[u] = Len(history')
    <2>1. pc[u] = "compare" /\ Compared(u)' = "ALLOW"  BY <1>3
    <2>2. head[u] <= Len(history)  BY <2>1 DEF EvaluationInv
    <2>3. Len(history') # head[u]  BY <1>1, <1>3, <2>2, LaterIsMore
    <2> QED  BY <1>3, <2>1, <2>3 DEF Compared
<1>4. ASSUME NEW c \in Calls, c # u, ~Suspended(c),
             Proceed(c) \/ Abandon(c) \/ \E q \in Requests : Execute(c, q)
      PROVE  evaluated'[u] = Len(history')
    <2>1. /\ pc'[u] = pc[u] /\ head'[u] = head[u] /\ outcome'[u] = outcome[u]
          /\ evaluated'[u] = evaluated[u]
        BY <1>4, LocalStep
    <2>2. CASE history' = history  BY <1>2, <2>1, <2>2
    <2>3. CASE history' # history
        <3>1. pc[u] \in Guarded  BY <2>1 DEF Guarded
        <3>2. pc[u] \in Callbacks  BY <1>4, <2>3, <3>1, OthersCommit
        <3>3. Len(history') = Len(history) + 1
            <4>1. \E e \in Event : history' = Append(history, e)  BY <2>3, HistoryGrows
            <4> QED  BY <4>1 DEF TypeOK
        <3> QED  BY <1>3, <2>1, <3>2, <3>3 DEF Callbacks
    <2> QED  BY <2>2, <2>3
<1>5. CASE Evaluate(u)
    <2>1. UNCHANGED <<history, head>>  BY <1>5 DEF Evaluate
    <2>2. CASE pc[u] = "final life"
        <3>1. outcome'[u] = Lifecycle
              /\ pc'[u] = (IF Lifecycle = "ALLOW" THEN "final consent" ELSE "compare")
            BY <1>5, <2>2 DEF Evaluate, Decide, TypeOK
        <3> QED  BY <3>1 DEF Compared
    <2>3. CASE pc[u] = "final consent"
        <3>1. outcome'[u] = Consent
              /\ pc'[u] = (IF Consent = "ALLOW" THEN "final cap" ELSE "compare")
            BY <1>5, <2>3 DEF Evaluate, Decide, TypeOK
        <3> QED  BY <3>1 DEF Compared
    <2>4. CASE pc[u] = "final cap"
        <3>1. evaluated'[u] = Len(history)  BY <1>5, <2>4 DEF Evaluate, TypeOK
        <3> QED  BY <2>1, <3>1
    <2> QED  BY <1>5, <2>2, <2>3, <2>4 DEF Evaluate
<1>6. CASE AllowLast(u)
    BY <1>6 DEF AllowLast, LastInv, Goto, TypeOK
<1>7. ASSUME \/ Propose(u) \/ Refused(u) \/ PrepareEvaluate(u) \/ ResolveContext(u)
             \/ RecordPrepared(u) \/ Translate(u) \/ RecordFailed(u) \/ AcquireGuard(u)
             \/ RejectDuplicate(u) \/ Reserve(u) \/ RecordFinal(u) \/ Recheck(u) \/ DenyLast(u)
             \/ EnterExecutor(u) \/ LeaveExecutor(u) \/ RecordResult(u) \/ Abandon(u)
             \/ \E q \in Requests : Execute(u, q)
      PROVE  FALSE
    BY <1>7
    DEF Propose, Refused, PrepareEvaluate, ResolveContext, RecordPrepared, Translate, RecordFailed,
        AcquireGuard, RejectDuplicate, Reserve, RecordFinal, Recheck, DenyLast, EnterExecutor,
        LeaveExecutor, RecordResult, Abandon, Execute, Decide, Leave, Goto, TypeOK
<1>8. CASE Expire \/ UNCHANGED vars \/ \E t \in Threads : EnterGuard(t) \/ ExitGuard(t)
    <2>1. UNCHANGED <<history, pc, head, outcome, evaluated>>
        BY <1>8 DEF Expire, EnterGuard, ExitGuard, vars
    <2> QED  BY <1>2, <2>1
<1>9. CASE Crash
    BY <1>9 DEF Crash
<1>10. CASE OtherCaller \/ \E t \in Threads : Reentrant(t)
    <2>1. Change  BY <1>10 DEF OtherCaller, Reentrant
    <2>2. UNCHANGED <<pc, head>> /\ Len(history') = Len(history) + 1
        BY <2>1, CommitMoves DEF Change
    <2>3. pc[u] # "call"  BY <1>10, NobodyChanges
    <2> QED  BY <1>3, <2>2, <2>3
<1>11. ASSUME NEW c \in Calls, ~Suspended(c),
              Proceed(c) \/ Abandon(c) \/ \E q \in Requests : Execute(c, q)
       PROVE  evaluated'[u] = Len(history')
    <2>1. CASE c = u
        BY <1>5, <1>6, <1>7, <1>11, <2>1 DEF Proceed
    <2> QED  BY <1>4, <1>11, <2>1
<1> QED  BY <1>8, <1>9, <1>10, <1>11 DEF Next

\* "No further writes or extension callbacks occur between this check and entry"
\* (ExecutionBridge.execute): whoever enters the executor read the permission and
\* its expiry after the last commit to the relationship.
THEOREM LastCheckAlwaysLast == Spec => LastCheckIsLast
<1>1. Init => EvaluationInv /\ LastInv
    BY DEF Init, EvaluationInv, LastInv
<1>2. CallInv /\ EvaluationInv /\ LastInv /\ [Next]_vars /\ CallInv' =>
          EvaluationInv' /\ LastInv'
    BY EvaluationStep, LastStep
<1>3. LastInv =>
          [\A c \in Calls : pc[c] = "call" /\ pc'[c] = "executing" =>
                evaluated[c] = Len(history)]_vars
    BY DEF LastInv
<1> QED  BY <1>1, <1>2, <1>3, TypeCorrect, PTL DEF Spec, LastCheckIsLast


-----------------------------------------------------------------------------
\* The bridge implements the handoff of its requests.

LEMMA RunningIsHeld == Running \subseteq Held
BY DEF Running, Held, Guarded

\* Who holds a request says its stage; every other request is settled.
StagesHeld ==
    /\ \A c \in Calls : pc[c] \in Held =>
          Stage(req[c]) = (IF pc[c] \in Running THEN "running" ELSE "reserved")
    /\ \A q \in Requests :
          (\A c \in Calls : pc[c] \in Held => req[c] # q) => Stage(q) = Settled(q)

\* No two calls hold the same request.
LEMMA StagesOfHolders == IInv => StagesHeld
<1> SUFFICES ASSUME IInv  PROVE StagesHeld
    OBVIOUS
<1>1. ASSUME NEW c \in Calls, pc[c] \in Held
      PROVE  Stage(req[c]) = (IF pc[c] \in Running THEN "running" ELSE "reserved")
    <2>1. \A d \in Calls : pc[d] \in Held /\ req[d] = req[c] => d = c
        BY <1>1 DEF IInv, ReservationInv
    <2> QED  BY <1>1, <2>1, RunningIsHeld DEF Stage
<1>2. ASSUME NEW q \in Requests, \A c \in Calls : pc[c] \in Held => req[c] # q
      PROVE  Stage(q) = Settled(q)
    BY <1>2, RunningIsHeld DEF Stage
<1> QED  BY <1>1, <1>2 DEF StagesHeld

\* The requests in hand are those that a call holds.
LEMMA InHandHeld ==
    ASSUME IInv, NEW q \in Requests
    PROVE  Stage(q) \in {"reserved", "running"} <=>
              \E c \in Calls : pc[c] \in Held /\ req[c] = q
<1>1. StagesHeld  BY StagesOfHolders
<1>2. Settled(q) \notin {"reserved", "running"}  BY DEF Settled
<1>3. CASE \E c \in Calls : pc[c] \in Held /\ req[c] = q
    BY <1>1, <1>3 DEF StagesHeld
<1>4. CASE \A c \in Calls : pc[c] \in Held => req[c] # q
    BY <1>1, <1>2, <1>4 DEF StagesHeld
<1> QED  BY <1>3, <1>4

\* What an event of another kind, or of another request, leaves settled as it was.
LEMMA SettledSame ==
    ASSUME TypeOK, NEW e \in Event, history' = history \/ history' = Append(history, e),
           NEW q \in Requests, effects'[q] = effects[q],
           e.type \notin {"Reserved", "Result"} \/ e.req # q
    PROVE  Settled(q)' = Settled(q)
<1>1. \A type \in {"Reserved", "Result"} : Has(type, q)' <=> Has(type, q)
    <2>1. CASE history' = history  BY <2>1 DEF Has
    <2>2. CASE history' = Append(history, e)
        BY <2>2, AppendEvent DEF Has
    <2> QED  BY <2>1, <2>2
<1>2. Has("Result", q)' <=> Has("Result", q)  BY <1>1
<1>3. Reserved(q)' <=> Reserved(q)  BY <1>1 DEF Reserved
<1> QED  BY <1>2, <1>3 DEF Settled

\* A step by which no call comes to hold a request or leaves one keeps the nesting, ...
LEMMA AroundStays ==
    ASSUME \A c \in Calls :
              \/ pc[c] \notin Held /\ pc'[c] \notin Held
              \/ pc[c] \in Held /\ pc'[c] \in Held /\ req'[c] = req[c],
           NEW q
    PROVE  Around(q)' = Around(q)
<1>1. \A p : p \in Around(q) <=>
          \E d, e \in Calls : /\ pc[d] \in Held /\ pc[e] \in Held /\ req[e] = q
                              /\ Inside(e, d) /\ p = req[d]
    BY DEF Around
<1>2. \A p : p \in Around(q)' <=>
          \E d, e \in Calls : /\ pc'[d] \in Held /\ pc'[e] \in Held /\ req'[e] = q
                              /\ Inside(e, d) /\ p = req'[d]
    BY DEF Around
<1>3. \A p : p \in Around(q)' <=> p \in Around(q)  BY <1>1, <1>2
<1> QED  BY <1>3

\* ... and the stages, as long as none enters its executor.
LEMMA StagesStay ==
    ASSUME TypeOK, UNCHANGED effects,
           NEW e \in Event, e.type \notin {"Reserved", "Result"},
           history' = history \/ history' = Append(history, e),
           \A c \in Calls :
              \/ pc[c] \notin Held /\ pc'[c] \notin Held
              \/ /\ pc[c] \in Held /\ pc'[c] \in Held /\ req'[c] = req[c]
                 /\ pc'[c] \in Running <=> pc[c] \in Running
    PROVE  \A q \in Requests : Stage(q)' = Stage(q) /\ Around(q)' = Around(q)
<1> SUFFICES ASSUME NEW q \in Requests
             PROVE  Stage(q)' = Stage(q) /\ Around(q)' = Around(q)
    OBVIOUS
<1>1. Settled(q)' = Settled(q)  BY SettledSame
<1>2. (\E c \in Calls : req'[c] = q /\ pc'[c] \in Running)
         <=> (\E c \in Calls : req[c] = q /\ pc[c] \in Running)
    BY RunningIsHeld
<1>3. (\E c \in Calls : req'[c] = q /\ pc'[c] \in Held)
         <=> (\E c \in Calls : req[c] = q /\ pc[c] \in Held)
    OBVIOUS
<1>4. Stage(q)' = Stage(q)  BY <1>1, <1>2, <1>3 DEF Stage
<1> QED  BY <1>4, AroundStays

\* No request in hand was made inside the one of a call that is not suspended.
LEMMA ActiveIsInnermost ==
    ASSUME IInv, NEW c \in Calls, pc[c] \in Held, ~Suspended(c), NEW p
    PROVE  req[c] \notin Around(p)
<1> SUFFICES ASSUME req[c] \in Around(p)  PROVE FALSE
    OBVIOUS
<1>1. PICK d \in Calls, e \in Calls :
          pc[d] \in Held /\ pc[e] \in Held /\ Inside(e, d) /\ req[c] = req[d]
    BY DEF Around
<1>2. d = c  BY <1>1 DEF IInv, ReservationInv
<1>3. pc[e] # "idle"  BY <1>1 DEF Held, Guarded
<1> QED  BY <1>1, <1>2, <1>3 DEF Suspended

\* The requests around those of the other calls stay when one that is not suspended
\* comes to hold its request or leaves it.
LEMMA AroundOthers ==
    ASSUME NEW c \in Calls, ~Suspended(c), NEW q,
           \A u \in Calls : u # c => pc'[u] = pc[u] /\ req'[u] = req[u],
           pc[c] \in Held => req[c] # q, pc'[c] \in Held => req'[c] # q
    PROVE  Around(q)' = Around(q)
<1>1. \A e \in Calls : pc[e] \in Held => ~Inside(e, c)  BY DEF Suspended, Held, Guarded
<1>2. ~Inside(c, c)  BY InsideOrder
<1>3. \A e \in Calls : pc'[e] \in Held => ~Inside(e, c)  BY <1>1, <1>2
<1>4. \A p : p \in Around(q) <=>
          \E d, e \in Calls : /\ d # c /\ e # c
                              /\ pc[d] \in Held /\ pc[e] \in Held /\ req[e] = q
                              /\ Inside(e, d) /\ p = req[d]
    BY <1>1 DEF Around
<1>5. \A p : p \in Around(q)' <=>
          \E d, e \in Calls : /\ d # c /\ e # c
                              /\ pc'[d] \in Held /\ pc'[e] \in Held /\ req'[e] = q
                              /\ Inside(e, d) /\ p = req'[d]
    BY <1>3 DEF Around
<1>6. \A p : p \in Around(q)' <=> p \in Around(q)  BY <1>4, <1>5
<1> QED  BY <1>6

\* The stages as the function that Handoff is given.
LEMMA MoveStage ==
    ASSUME NEW q \in Requests, NEW to,
           \A p \in Requests : Stage(p)' = (IF p = q THEN to ELSE Stage(p))
    PROVE  Abstract!Move(q, Stage(q), to)
BY DEF Abstract!Move

\* A call that is not suspended leaves its request: how that looks to the host.
LEMMA HolderSettles ==
    ASSUME IInv, IInv', NEW c \in Calls, pc[c] \in Held, pc'[c] \notin Held, ~Suspended(c),
           \A u \in Calls : u # c => pc'[u] = pc[u] /\ req'[u] = req[u],
           NEW q \in Requests, q = req[c], NEW to, Settled(q)' = to,
           \A p \in Requests : p # q => Settled(p)' = Settled(p)
    PROVE  /\ Stage(q) = (IF pc[c] \in Running THEN "running" ELSE "reserved")
           /\ Abstract!Settle(q, Stage(q), to)
<1>2. StagesHeld /\ StagesHeld'
    <2>1. IInv' => StagesHeld'  BY StagesOfHolders, PTL
    <2> QED  BY <2>1, StagesOfHolders
<1>3. \A u \in Calls : u # c /\ pc[u] \in Held => req[u] # q
    BY DEF IInv, ReservationInv
<1>4. \A u \in Calls : pc'[u] \in Held => pc[u] \in Held /\ req'[u] = req[u] /\ req'[u] # q
    BY <1>3
<1>5. Stage(q)' = Settled(q)'  BY <1>2, <1>4 DEF StagesHeld
<1>6. ASSUME NEW p \in Requests, p # q  PROVE Stage(p)' = Stage(p)
    <2>1. CASE \E u \in Calls : pc[u] \in Held /\ req[u] = p
        <3>1. PICK u \in Calls : pc[u] \in Held /\ req[u] = p  BY <2>1
        <3>2. pc'[u] = pc[u] /\ req'[u] = p  BY <1>6, <3>1
        <3> QED  BY <1>2, <3>1, <3>2 DEF StagesHeld
    <2>2. CASE \A u \in Calls : pc[u] \in Held => req[u] # p
        <3>1. \A u \in Calls : pc'[u] \in Held => req'[u] # p  BY <1>4, <2>2
        <3>2. Stage(p) = Settled(p)  BY <1>2, <2>2 DEF StagesHeld
        <3>3. Stage(p)' = Settled(p)'  BY <1>2, <3>1 DEF StagesHeld
        <3> QED  BY <1>6, <3>2, <3>3
    <2> QED  BY <2>1, <2>2
<1>7. Abstract!Move(q, Stage(q), to)
    <2>1. \A p \in Requests : Stage(p)' = (IF p = q THEN to ELSE Stage(p))
        BY <1>5, <1>6
    <2> QED  BY <2>1, MoveStage
<1>8. \A p \in Requests : q \notin Around(p)  BY ActiveIsInnermost
<1>9. Around(q)' = {}  BY <1>4 DEF Around
<1>10. \A p \in Requests : p # q => Around(p)' = Around(p)  BY <1>4, AroundOthers
<1>11. Abstract!Settle(q, Stage(q), to)
    BY <1>7, <1>8, <1>9, <1>10 DEF Abstract!Settle, Abstract!Innermost
<1> QED  BY <1>2, <1>11 DEF StagesHeld

\* The holder of a request leaves it without a result: before the entry it is
\* withdrawn, after it lost.
LEMMA HolderLeaves ==
    ASSUME IInv, EffectInv, IInv', UNCHANGED effects,
           NEW e \in Event, e.type \notin {"Reserved", "Result"},
           history' = history \/ history' = Append(history, e),
           NEW c \in Calls, pc[c] \in Held, pc'[c] \notin Held, ~Suspended(c),
           \A u \in Calls : u # c => pc'[u] = pc[u] /\ req'[u] = req[u]
    PROVE  Abstract!Next
<1>1. TypeOK /\ ReservationInv  BY DEF IInv, CallInv
<1> PICK q \in Requests : q = req[c]  BY <1>1 DEF TypeOK
<1>2. \A p \in Requests : Settled(p)' = Settled(p)  BY <1>1, SettledSame
<1>3. CASE pc[c] \in Running
    <2>1. effects[q] > 0 /\ ~Has("Result", q)
        BY <1>3 DEF EffectInv, ResultOn, Has
    <2>2. Settled(q)' = "lost"  BY <1>2, <2>1 DEF Settled
    <2>3. Stage(q) = "running" /\ Abstract!Settle(q, Stage(q), "lost")
        BY <1>2, <1>3, <2>2, HolderSettles
    <2>4. Abstract!Lose(q)  BY <2>3 DEF Abstract!Lose
    <2> QED  BY <2>4 DEF Abstract!Next
<1>4. CASE pc[c] \notin Running
    <2>1. effects[q] = 0 /\ Reserved(q)
        BY <1>1, <1>4 DEF ReservationInv, ReservedRequests
    <2>2. Settled(q)' = "withdrawn"  BY <1>2, <2>1 DEF Settled
    <2>3. Stage(q) = "reserved" /\ Abstract!Settle(q, Stage(q), "withdrawn")
        BY <1>2, <1>4, <2>2, HolderSettles
    <2>4. Abstract!Withdraw(q)  BY <2>3 DEF Abstract!Withdraw
    <2> QED  BY <2>4 DEF Abstract!Next
<1> QED  BY <1>3, <1>4

\* There are events that say nothing of reservations and results.
LEMMA SomeEvent == \E e \in Event : e.type \notin {"Reserved", "Result"}
<1>1. PICK q \in Requests : TRUE  BY BridgeAssumption
<1> DEFINE e == [type |-> "Change", req |-> q, status |-> "none"]
<1>2. e \in Event /\ e.type = "Change"  BY DEF Event, Statuses
<1> QED  BY <1>2

\* Reservations and results apart, what a call commits is a proposal or a
\* resolution.
LEMMA OtherEvent ==
    ASSUME TypeOK, NEW type \in {"Proposed", "Resolved"}, NEW q \in Requests,
           NEW status \in Statuses, Commit(type, q, status)
    PROVE  \E e \in Event : e.type \notin {"Reserved", "Result"} /\ history' = Append(history, e)
BY CommitEvent

LEMMA PreparingEvent ==
    ASSUME TypeOK, NEW c \in Calls,
           \/ Propose(c) \/ Refused(c) \/ PrepareEvaluate(c) \/ ResolveContext(c)
           \/ RecordPrepared(c) \/ Translate(c) \/ RecordFailed(c) \/ AcquireGuard(c)
           \/ RejectDuplicate(c) \/ \E q \in Requests : Execute(c, q)
    PROVE  \E e \in Event : /\ e.type \notin {"Reserved", "Result"}
                            /\ history' = history \/ history' = Append(history, e)
<1>1. req[c] \in Requests /\ outcome[c] \in Outcomes  BY DEF TypeOK
<1>2. CASE Propose(c)
    BY <1>1, <1>2, OtherEvent DEF Propose, Statuses
<1>3. CASE RecordPrepared(c) \/ RecordFailed(c) \/ RejectDuplicate(c)
    <2>1. \E status \in Statuses : Commit("Resolved", req[c], status)
        BY <1>1, <1>3, DecisionTypes
        DEF RecordPrepared, RecordFailed, RejectDuplicate, Statuses, ResultStatuses
    <2> QED  BY <1>1, <2>1, OtherEvent
<1>4. CASE \/ Refused(c) \/ PrepareEvaluate(c) \/ ResolveContext(c) \/ Translate(c)
           \/ AcquireGuard(c) \/ \E q \in Requests : Execute(c, q)
    <2>1. history' = history
        BY <1>4 DEF Refused, PrepareEvaluate, ResolveContext, Translate, AcquireGuard, Execute
    <2> QED  BY <2>1, SomeEvent
<1> QED  BY <1>2, <1>3, <1>4

LEMMA GuardedEvent ==
    ASSUME TypeOK, NEW c \in Calls,
           \/ Evaluate(c) \/ RecordFinal(c) \/ AllowLast(c) \/ LeaveExecutor(c)
           \/ Recheck(c) \/ DenyLast(c)
    PROVE  \E e \in Event : /\ e.type \notin {"Reserved", "Result"}
                            /\ history' = history \/ history' = Append(history, e)
<1>1. req[c] \in Requests /\ Compared(c) \in Outcomes  BY DEF TypeOK, Compared, Outcomes
<1>2. CASE history' = history  BY <1>2, SomeEvent
<1>3. CASE \E status \in Statuses : Commit("Resolved", req[c], status)
    BY <1>1, <1>3, OtherEvent
<1>4. (RecordFinal(c) \/ DenyLast(c) \/ Recheck(c)) =>
          \/ history' = history
          \/ \E status \in Statuses : Commit("Resolved", req[c], status)
    BY <1>1, DecisionTypes DEF RecordFinal, DenyLast, Recheck, Statuses
<1> QED
    BY <1>2, <1>3, <1>4 DEF Evaluate, AllowLast, LeaveExecutor

\* Every step is a step of the handoff of one request, or its end by a crash, or
\* changes neither a stage nor the nesting.
LEMMA HandoffStep ==
    ASSUME IInv, EffectInv, IInv', EffectInv', [Next]_vars
    PROVE  [Abstract!Next]_<<[q \in Requests |-> Stage(q)], [q \in Requests |-> Around(q)],
                             effects>>
<1> DEFINE stage == [q \in Requests |-> Stage(q)]
           around == [q \in Requests |-> Around(q)]
<1>1. TypeOK /\ GuardExclusive /\ ReservationInv  BY DEF IInv, CallInv
<1>2. StagesHeld /\ StagesHeld'
    <2>1. IInv' => StagesHeld'  BY StagesOfHolders, PTL
    <2> QED  BY <2>1, StagesOfHolders
<1>3. ASSUME UNCHANGED effects,
             \A q \in Requests : Stage(q)' = Stage(q) /\ Around(q)' = Around(q)
      PROVE  UNCHANGED <<stage, around, effects>>
    BY <1>3
\* Outside the guard, up to the duplicate check.
<1>5. ASSUME NEW c \in Calls,
             \/ Propose(c) \/ Refused(c) \/ PrepareEvaluate(c) \/ ResolveContext(c)
             \/ RecordPrepared(c) \/ Translate(c) \/ RecordFailed(c) \/ AcquireGuard(c)
             \/ RejectDuplicate(c) \/ \E q \in Requests : Execute(c, q)
      PROVE  UNCHANGED <<stage, around, effects>>
    <2>1. PICK e \in Event : /\ e.type \notin {"Reserved", "Result"}
                             /\ history' = history \/ history' = Append(history, e)
        BY <1>1, <1>5, PreparingEvent
    <2>2. \A u \in Calls : u # c => pc'[u] = pc[u] /\ req'[u] = req[u]
        BY <1>1, <1>5, LocalStep DEF Proceed
    <2>3. UNCHANGED effects /\ pc[c] \notin Held /\ pc'[c] \notin Held
        BY <1>1, <1>5 DEF Propose, Refused, PrepareEvaluate, ResolveContext, RecordPrepared,
                Translate, RecordFailed, AcquireGuard, RejectDuplicate, Execute, Decide, Leave,
                Goto, TypeOK, Held, Guarded
    <2>4. \A q \in Requests : Stage(q)' = Stage(q) /\ Around(q)' = Around(q)
        <3>1. \A u \in Calls :
                  \/ pc[u] \notin Held /\ pc'[u] \notin Held
                  \/ /\ pc[u] \in Held /\ pc'[u] \in Held /\ req'[u] = req[u]
                     /\ pc'[u] \in Running <=> pc[u] \in Running
            BY <2>2, <2>3
        <3> QED  BY <1>1, <2>1, <2>3, <3>1, StagesStay
    <2> QED  BY <1>3, <2>3, <2>4
<1>6. ASSUME NEW c \in Calls, ~Suspended(c), Reserve(c)  PROVE Abstract!Next
    <2> PICK q \in Requests : q = req[c]  BY <1>1 DEF TypeOK
    <2>1. /\ pc[c] = "check" /\ ~Reserved(q) /\ UNCHANGED <<effects, req>>
          /\ \A u \in Calls : pc'[u] = (IF u = c THEN "final life" ELSE pc[u])
        BY <1>1, <1>6 DEF Reserve, Goto, TypeOK
    <2>2. pc[c] \notin Held /\ pc'[c] \in Held /\ pc'[c] \notin Running
        BY <2>1 DEF Held, Guarded, Running
    <2>3. \A u \in Calls : pc[u] \in Held => req[u] # q
        BY <1>1, <2>1 DEF ReservationInv, ReservedRequests
    <2>4. Stage(q) = "new"
        <3>1. Stage(q) = Settled(q)  BY <1>2, <2>3 DEF StagesHeld
        <3>2. ~(effects[q] > 0)  BY <1>1, <2>1 DEF ReservationInv, ReservedRequests
        <3> QED  BY <2>1, <3>1, <3>2 DEF Settled
    <2>5. \A p \in Requests : p # q => Settled(p)' = Settled(p)
        <3> DEFINE e == [type |-> "Reserved", req |-> q, status |-> "none"]
        <3>1. e \in Event /\ history' = Append(history, e)
            BY <1>1, <1>6, CommitEvent DEF Reserve, Statuses
        <3>2. e.req = q  OBVIOUS
        <3> HIDE DEF e
        <3> QED  BY <1>1, <2>1, <3>1, <3>2, SettledSame
    <2>6. \A p \in Requests : Stage(p)' = (IF p = q THEN "reserved" ELSE Stage(p))
        <3>1. Stage(q)' = "reserved"  BY <1>2, <2>1, <2>2 DEF StagesHeld
        <3>2. ASSUME NEW p \in Requests, p # q, NEW u \in Calls, pc[u] \in Held, req[u] = p
              PROVE  Stage(p)' = Stage(p)
            <4>1. pc'[u] = pc[u] /\ req'[u] = p  BY <2>1, <2>2, <3>2
            <4> QED  BY <1>2, <3>2, <4>1 DEF StagesHeld
        <3>3. ASSUME NEW p \in Requests, p # q, \A u \in Calls : pc[u] \in Held => req[u] # p
              PROVE  Stage(p)' = Stage(p)
            <4>1. \A u \in Calls : pc'[u] \in Held => req'[u] # p  BY <2>1, <3>3
            <4>2. Stage(p) = Settled(p)  BY <1>2, <3>3 DEF StagesHeld
            <4>3. Stage(p)' = Settled(p)'  BY <1>2, <4>1 DEF StagesHeld
            <4> QED  BY <2>5, <3>3, <4>2, <4>3
        <3> QED  BY <3>1, <3>2, <3>3
    <2>7. Abstract!Move(q, "new", "reserved")  BY <2>4, <2>6, MoveStage
    <2>8. \A p \in Requests : p # q => Around(p)' = Around(p)
        <3>1. \A u \in Calls : u # c => pc'[u] = pc[u] /\ req'[u] = req[u]  BY <2>1
        <3> QED  BY <1>6, <2>1, <2>2, <3>1, AroundOthers
    <2>9. \A u \in Calls : pc[u] \in Held => Inside(c, u)
        <3> SUFFICES ASSUME NEW u \in Calls, pc[u] \in Held  PROVE Inside(c, u)
            OBVIOUS
        <3>1. Thread(u) = Thread(c)
            <4>1. pc[u] \in Guarded /\ pc[c] \in Guarded  BY <2>1 DEF Held, Guarded
            <4> QED  BY <1>1, <4>1 DEF GuardExclusive
        <3>2. u # c /\ pc[u] # "idle"  BY <2>2 DEF Held, Guarded
        <3>3. ~Inside(u, c)  BY <1>6, <3>2 DEF Suspended
        <3> QED  BY <3>1, <3>2, <3>3, CallsNested
    <2>10. Around(q)' = Abstract!InHand
        <3>1. \A p : p \in Around(q)' <=> \E d \in Calls : pc[d] \in Held /\ p = req[d]
            <4>1. \A p : p \in Around(q)' <=>
                      \E d, e \in Calls : /\ pc'[d] \in Held /\ pc'[e] \in Held /\ req'[e] = q
                                          /\ Inside(e, d) /\ p = req'[d]
                BY DEF Around
            <4>2. \A e \in Calls : pc'[e] \in Held /\ req'[e] = q <=> e = c
                BY <2>1, <2>2, <2>3
            <4>3. \A d \in Calls : pc'[d] \in Held /\ Inside(c, d) <=> pc[d] \in Held
                BY <2>1, <2>2, <2>9, InsideOrder
            <4> QED  BY <2>1, <4>1, <4>2, <4>3
        <3>2. \A p \in Requests :
                  p \in Abstract!InHand <=> \E d \in Calls : pc[d] \in Held /\ req[d] = p
            BY InHandHeld DEF Abstract!InHand
        <3>3. Abstract!InHand \subseteq Requests  BY DEF Abstract!InHand
        <3>4. \A d \in Calls : req[d] \in Requests  BY <1>1 DEF TypeOK
        <3>5. \A p : p \in Around(q)' <=> p \in Abstract!InHand  BY <3>1, <3>2, <3>3, <3>4
        <3> QED  BY <3>5
    <2>11. Abstract!Reserve(q)
        <3>1. around' = [around EXCEPT ![q] = Abstract!InHand]  BY <2>8, <2>10
        <3> QED  BY <2>1, <2>7, <3>1 DEF Abstract!Reserve
    <2> QED  BY <2>11 DEF Abstract!Next
\* Under the guard, without leaving it or entering.
<1>7. ASSUME NEW c \in Calls,
             \/ Evaluate(c) \/ RecordFinal(c) \/ AllowLast(c) \/ LeaveExecutor(c)
             \/ Recheck(c) /\ pc'[c] = "final life"
      PROVE  UNCHANGED <<stage, around, effects>>
    <2>1. PICK e \in Event : /\ e.type \notin {"Reserved", "Result"}
                             /\ history' = history \/ history' = Append(history, e)
        BY <1>1, <1>7, GuardedEvent
    <2>2. \A u \in Calls : u # c => pc'[u] = pc[u] /\ req'[u] = req[u]
        BY <1>1, <1>7, LocalStep DEF Proceed
    <2>3. /\ UNCHANGED <<effects, req>> /\ pc[c] \in Held /\ pc'[c] \in Held
          /\ pc'[c] \in Running <=> pc[c] \in Running
        BY <1>1, <1>7 DEF Evaluate, RecordFinal, AllowLast, LeaveExecutor, Recheck, Decide, Goto,
                TypeOK, Held, Guarded, Running
    <2>4. \A q \in Requests : Stage(q)' = Stage(q) /\ Around(q)' = Around(q)
        <3>1. \A u \in Calls :
                  \/ pc[u] \notin Held /\ pc'[u] \notin Held
                  \/ /\ pc[u] \in Held /\ pc'[u] \in Held /\ req'[u] = req[u]
                     /\ pc'[u] \in Running <=> pc[u] \in Running
            BY <2>2, <2>3
        <3> QED  BY <1>1, <2>1, <2>3, <3>1, StagesStay
    <2> QED  BY <1>3, <2>3, <2>4
<1>8. ASSUME NEW c \in Calls, ~Suspended(c), EnterExecutor(c)  PROVE Abstract!Next
    <2> PICK q \in Requests : q = req[c]  BY <1>1 DEF TypeOK
    <2>1. /\ pc[c] = "call" /\ UNCHANGED <<history, req>>
          /\ effects' = [effects EXCEPT ![q] = @ + 1]
          /\ \A u \in Calls : pc'[u] = (IF u = c THEN "executing" ELSE pc[u])
        BY <1>1, <1>8 DEF EnterExecutor, Goto, TypeOK
    <2>2. pc[c] \in Held /\ pc[c] \notin Running /\ pc'[c] \in Held /\ pc'[c] \in Running
        BY <2>1 DEF Held, Guarded, Running
    <2>3. \A p \in Requests : p # q => Settled(p)' = Settled(p)
        <3>1. \A p \in Requests : p # q => effects'[p] = effects[p]
            BY <1>1, <2>1 DEF TypeOK
        <3> QED  BY <1>1, <2>1, <3>1, SomeEvent, SettledSame
    <2>4. \A p \in Requests : Stage(p)' = (IF p = q THEN "running" ELSE Stage(p))
        <3>1. Stage(q)' = "running"  BY <1>2, <2>1, <2>2 DEF StagesHeld
        <3>2. ASSUME NEW p \in Requests, p # q, NEW u \in Calls, pc[u] \in Held, req[u] = p
              PROVE  Stage(p)' = Stage(p)
            <4>1. pc'[u] = pc[u] /\ req'[u] = p  BY <2>1, <3>2
            <4> QED  BY <1>2, <3>2, <4>1 DEF StagesHeld
        <3>3. ASSUME NEW p \in Requests, p # q, \A u \in Calls : pc[u] \in Held => req[u] # p
              PROVE  Stage(p)' = Stage(p)
            <4>1. \A u \in Calls : pc'[u] \in Held => req'[u] # p  BY <2>1, <3>3
            <4>2. Stage(p) = Settled(p)  BY <1>2, <3>3 DEF StagesHeld
            <4>3. Stage(p)' = Settled(p)'  BY <1>2, <4>1 DEF StagesHeld
            <4> QED  BY <2>3, <3>3, <4>2, <4>3
        <3> QED  BY <3>1, <3>2, <3>3
    <2>5. Stage(q) = "reserved"  BY <1>2, <2>2 DEF StagesHeld
    <2>6. Abstract!Move(q, "reserved", "running")  BY <2>4, <2>5, MoveStage
    <2>7. \A p \in Requests : Around(p)' = Around(p)
        <3>1. \A u \in Calls :
                  \/ pc[u] \notin Held /\ pc'[u] \notin Held
                  \/ pc[u] \in Held /\ pc'[u] \in Held /\ req'[u] = req[u]
            BY <2>1, <2>2
        <3> QED  BY <3>1, AroundStays
    <2>8. Abstract!Innermost(q)
        <3>1. \A p \in Requests : q \notin Around(p)  BY <1>8, <2>2, ActiveIsInnermost
        <3> QED  BY <3>1 DEF Abstract!Innermost
    <2>9. UNCHANGED around  BY <2>7
    <2>10. Abstract!Enter(q)  BY <2>1, <2>6, <2>8, <2>9 DEF Abstract!Enter
    <2> QED  BY <2>10 DEF Abstract!Next
<1>9. ASSUME NEW c \in Calls, ~Suspended(c), RecordResult(c)  PROVE Abstract!Next
    <2> PICK q \in Requests : q = req[c]  BY <1>1 DEF TypeOK
    <2>1. pc[c] = "result" /\ pc'[c] = "idle" /\ UNCHANGED <<effects, req>>
        BY <1>1, <1>9 DEF RecordResult, Leave, TypeOK
    <2>2. PICK status \in ResultStatuses : Commit("Result", q, status)
        BY <1>9 DEF RecordResult
    <2> DEFINE e == [type |-> "Result", req |-> q, status |-> status]
    <2>3. e \in Event /\ history' = Append(history, e)
        BY <1>1, <2>2, CommitEvent DEF Statuses
    <2>4. e.type = "Result" /\ e.req = q  OBVIOUS
    <2> HIDE DEF e
    <2>5. Settled(q)' = "answered"
        <3>1. effects[q] > 0  BY <2>1 DEF EffectInv, Running
        <3>2. Has("Result", q)'
            <4>1. Len(history') = Len(history) + 1 /\ history'[Len(history) + 1] = e
                  /\ Len(history) \in Nat
                BY <1>1, <2>3, AppendEvent
            <4>2. Len(history) + 1 \in 1..Len(history')  BY <4>1
            <4> QED  BY <2>1, <2>4, <4>1, <4>2 DEF Has
        <3> QED  BY <2>1, <3>1, <3>2 DEF Settled
    <2>6. \A p \in Requests : p # q => Settled(p)' = Settled(p)
        BY <1>1, <2>1, <2>3, <2>4, SettledSame
    <2>7. pc[c] \in Held /\ pc[c] \in Running /\ pc'[c] \notin Held
        BY <2>1 DEF Held, Guarded, Running
    <2>8. \A u \in Calls : u # c => pc'[u] = pc[u] /\ req'[u] = req[u]
        BY <1>1, <1>9, LocalStep DEF Proceed
    <2>9. Stage(q) = "running" /\ Abstract!Settle(q, Stage(q), "answered")
        BY <1>9, <2>5, <2>6, <2>7, <2>8, HolderSettles
    <2>10. Abstract!Answer(q)  BY <2>1, <2>9 DEF Abstract!Answer
    <2> QED  BY <2>10 DEF Abstract!Next
\* The ways out of the guard without a result.
<1>10. ASSUME NEW c \in Calls, ~Suspended(c),
              DenyLast(c) \/ (Recheck(c) /\ pc'[c] # "final life")
       PROVE  Abstract!Next
    <2>1. PICK e \in Event : /\ e.type \notin {"Reserved", "Result"}
                             /\ history' = history \/ history' = Append(history, e)
        BY <1>1, <1>10, GuardedEvent
    <2>2. UNCHANGED effects /\ pc[c] \in Held /\ pc'[c] \notin Held
        BY <1>1, <1>10 DEF DenyLast, Recheck, Leave, TypeOK, Held, Guarded
    <2>3. \A u \in Calls : u # c => pc'[u] = pc[u] /\ req'[u] = req[u]
        BY <1>1, <1>10, LocalStep DEF Proceed
    <2> QED  BY <1>10, <2>1, <2>2, <2>3, HolderLeaves
<1>11. ASSUME NEW c \in Calls, ~Suspended(c), Abandon(c)
       PROVE  Abstract!Next \/ UNCHANGED <<stage, around, effects>>
    <2>1. /\ UNCHANGED <<effects, req, history>> /\ pc'[c] \notin Held
        BY <1>1, <1>11 DEF Abandon, Fault, Leave, TypeOK, Held, Guarded
    <2>2. \A u \in Calls : u # c => pc'[u] = pc[u] /\ req'[u] = req[u]
        BY <1>1, <1>11, LocalStep
    <2>3. CASE pc[c] \in Held
        BY <1>11, <2>1, <2>2, <2>3, SomeEvent, HolderLeaves
    <2>4. CASE pc[c] \notin Held
        <3>1. \A u \in Calls :
                  \/ pc[u] \notin Held /\ pc'[u] \notin Held
                  \/ /\ pc[u] \in Held /\ pc'[u] \in Held /\ req'[u] = req[u]
                     /\ pc'[u] \in Running <=> pc[u] \in Running
            BY <2>1, <2>2, <2>4
        <3>2. \A q \in Requests : Stage(q)' = Stage(q) /\ Around(q)' = Around(q)
            BY <1>1, <2>1, <3>1, SomeEvent, StagesStay
        <3> QED  BY <1>3, <2>1, <3>2
    <2> QED  BY <2>3, <2>4
<1>12. ASSUME Crash  PROVE Abstract!Next
    <2>1. /\ UNCHANGED <<effects, req, history>>
          /\ \A u \in Calls : pc'[u] \notin Held
        BY <1>12 DEF Crash, Fault, Held, Guarded
    <2>2. \A q \in Requests : Around(q)' = {}  BY <2>1 DEF Around
    <2>3. \A q \in Requests : Stage(q)' = Settled(q)
        <3>1. \A q \in Requests : Stage(q)' = Settled(q)'  BY <1>2, <2>1 DEF StagesHeld
        <3>2. \A q \in Requests : Settled(q)' = Settled(q)
            BY <1>1, <2>1, SomeEvent, SettledSame
        <3> QED  BY <3>1, <3>2
    <2>4. ASSUME NEW q \in Requests
          PROVE  Settled(q) = CASE Stage(q) = "reserved" -> "withdrawn"
                                [] Stage(q) = "running"  -> "lost"
                                [] OTHER                 -> Stage(q)
        <3>1. CASE \A u \in Calls : pc[u] \in Held => req[u] # q
            <4>1. Stage(q) = Settled(q)  BY <1>2, <3>1 DEF StagesHeld
            <4>2. Settled(q) \notin {"reserved", "running"}  BY DEF Settled
            <4> QED  BY <4>1, <4>2
        <3>2. ASSUME NEW u \in Calls, pc[u] \in Held, req[u] = q, pc[u] \in Running
              PROVE  Stage(q) = "running" /\ Settled(q) = "lost"
            <4>1. Stage(q) = "running"  BY <1>2, <3>2 DEF StagesHeld
            <4>2. effects[q] > 0 /\ ~Has("Result", q)  BY <3>2 DEF EffectInv, ResultOn, Has
            <4> QED  BY <4>1, <4>2 DEF Settled
        <3>3. ASSUME NEW u \in Calls, pc[u] \in Held, req[u] = q, pc[u] \notin Running
              PROVE  Stage(q) = "reserved" /\ Settled(q) = "withdrawn"
            <4>1. Stage(q) = "reserved"  BY <1>2, <3>3 DEF StagesHeld
            <4>2. effects[q] = 0 /\ Reserved(q)
                BY <1>1, <3>3 DEF ReservationInv, ReservedRequests
            <4> QED  BY <4>1, <4>2 DEF Settled
        <3> QED  BY <3>1, <3>2, <3>3
    <2>5. stage' = [q \in Requests |-> CASE stage[q] = "reserved" -> "withdrawn"
                                         [] stage[q] = "running"  -> "lost"
                                         [] OTHER                 -> stage[q]]
        BY <2>3, <2>4
    <2>6. around' = [q \in Requests |-> {}]  BY <2>2
    <2> QED  BY <2>1, <2>5, <2>6 DEF Abstract!Next, Abstract!Halt
<1>13. ASSUME Change  PROVE UNCHANGED <<stage, around, effects>>
    <2>1. UNCHANGED <<effects, req, pc>>  BY <1>13 DEF Change
    <2>2. PICK e \in Event : e.type = "Change" /\ history' = Append(history, e)
        BY <1>1, <1>13, AnyRequestType, CommitEvent DEF Change, Statuses
    <2>3. \A p \in Requests : Stage(p)' = Stage(p) /\ Around(p)' = Around(p)
        BY <1>1, <2>1, <2>2, StagesStay
    <2> QED  BY <1>3, <2>1, <2>3
<1>14. ASSUME Expire \/ UNCHANGED vars \/ \E t \in Threads : EnterGuard(t) \/ ExitGuard(t)
       PROVE  UNCHANGED <<stage, around, effects>>
    <2>1. UNCHANGED <<effects, req, pc, history>>
        BY <1>14 DEF Expire, EnterGuard, ExitGuard, vars
    <2>2. \A p \in Requests : Stage(p)' = Stage(p) /\ Around(p)' = Around(p)
        BY <1>1, <2>1, SomeEvent, StagesStay
    <2> QED  BY <1>3, <2>1, <2>2
<1> HIDE DEF stage, around
<1>15. ASSUME NEW c \in Calls, ~Suspended(c), Proceed(c)
       PROVE  Abstract!Next \/ UNCHANGED <<stage, around, effects>>
    BY <1>5, <1>6, <1>7, <1>8, <1>9, <1>10, <1>15 DEF Proceed
<1>16. Abstract!Next \/ UNCHANGED <<stage, around, effects>>
    BY <1>5, <1>11, <1>12, <1>13, <1>14, <1>15 DEF Next, OtherCaller, Reentrant
<1> QED  BY <1>16 DEF stage, around

\* The bridge keeps the promise of docs/execution-bridge.md as module Handoff
\* states it: a request is reserved, entered and answered in this order and by one
\* attempt; one made in a callback of another is settled before that one goes on;
\* and one that was withdrawn or whose outcome was lost is never reserved or
\* entered again, for any number of threads, requests and attempts, any depth of
\* nesting, and any changes of authority and faults.
THEOREM Refinement == Spec => ImplementsHandoff
<1>1. Init => Abstract!Init
    <2> SUFFICES ASSUME Init  PROVE Abstract!Init
        OBVIOUS
    <2>1. \A c \in Calls : pc[c] \notin Held /\ pc[c] \notin Running
        BY DEF Init, Held, Running, Guarded
    <2>2. \A q \in Requests : Stage(q) = "new"
        BY <2>1 DEF Init, Stage, Settled, Reserved, Has
    <2>3. \A q \in Requests : Around(q) = {}  BY <2>1 DEF Around
    <2> QED  BY <2>2, <2>3 DEF Init, Abstract!Init
<1>2. IInv /\ EffectInv /\ IInv' /\ EffectInv' /\ [Next]_vars =>
          [Abstract!Next]_<<[q \in Requests |-> Stage(q)], [q \in Requests |-> Around(q)],
                            effects>>
    BY HandoffStep
<1> QED  BY <1>1, <1>2, Invariance, EffectInvariance, PTL DEF Spec, ImplementsHandoff, Abstract!Spec

=============================================================================
