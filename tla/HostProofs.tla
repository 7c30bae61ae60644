------------------------------ MODULE HostProofs ------------------------------
(***************************************************************************)
(* Proofs about the three components of a host that share no state, each   *)
(* for any values of its constants, and about the host of module MCHost,   *)
(* which is all three.                                                     *)
(*                                                                         *)
(* The owners of a SQLite file (SqliteSession), for any processes, threads *)
(* and stores: a file has one owner, which has it as long as it has a      *)
(* store open and no longer (Ownership), and no store is taken from a      *)
(* thread in its guard (GuardedStoreStays).  The invariant says of every   *)
(* session that it counts its open stores; of the calls of open and close  *)
(* what they rely on between two steps, the registry lock above all; and   *)
(* of guards that they are of different sessions.  A step of open or close *)
(* changes one session of its own process (OnSession), so the rest of the  *)
(* invariant is proved once for all of them (OthersKept, SessionChanged).  *)
(*                                                                         *)
(* The model pilot (Pilot), for any number of trials, plans, directories   *)
(* and runs that die anywhere: the type invariant; that what was sent is   *)
(* on disk and sent once (SentOnRecord); that no call follows a faulty one *)
(* and none exceeds the plan's limits (SpendingBounded); that the results  *)
(* and their contrasts are those of the journal (ResultsEarned).  The      *)
(* invariant has two parts.  Past speaks only of what is on disk and was   *)
(* sent, hence is kept by every step that sends nothing (Kept), the death  *)
(* of a run included.  InRun ties the locals of a run to them.  Accounts,  *)
(* proved from both, ties the sums a run keeps to those of its calls: what *)
(* a sum is follows by induction, from the order of the natural numbers    *)
(* being well-founded.                                                     *)
(*                                                                         *)
(* diagnose() (Diagnosis), for any call, any purposes and any number of    *)
(* commits while it runs: its type invariant, that every finding was right *)
(* at some moment of the call (FindingsTraced), that a clear report was    *)
(* earned (ClearEarned) and that an assessment stands (AssessmentStands).  *)
(* A finding on a consent needs a strengthening: the host's engine, which  *)
(* may be lenient, is asked only after the core was, so while it is the    *)
(* next to be asked the consent was active at some moment of the call.  A  *)
(* clear report needs the bookkeeping of what is still to be checked.      *)
(* That a report without a commit is exact (QuietReportExact) and that the *)
(* rubric of the experiment agrees with it (RubricAgrees) need the order   *)
(* of the checks: each is made in its turn, on a state where those before  *)
(* it allowed, so all that do not allow find one verdict.                  *)
(***************************************************************************)
EXTENDS MCHost, FiniteSetTheorems, WellFoundedInduction, TLAPS

-----------------------------------------------------------------------------
\* The owners of a SQLite file: the inductive invariant.

\* A session's process has started, and what has its file open lives.
SessionsOfProcesses ==
    \A i \in DOMAIN session :
        /\ life[session[i].pid] # "unborn"
        /\ \A p \in session[i].fds : life[p] = "alive"

\* At most one session's file is open anywhere: it has the flock.
OneLock ==
    \A i, j \in DOMAIN session : session[i].fds # {} /\ session[j].fds # {} => i = j

\* A store that was constructed, and a registry that is not empty, have a session.
SessionsKnown ==
    /\ \A s \in Stores : store[s].state = "new" \/ store[s].session \in DOMAIN session
    /\ \A p \in Processes : registered[p] = NoSession \/ registered[p] \in DOMAIN session

\* A session of a living process counts its open stores; it has the connection,
\* the lock and the registry's entry as long as there are any.
CountedOf(i) ==
    life[session[i].pid] = "alive" =>
        /\ IsFiniteSet(OpenIn(i))
        /\ session[i].refs = Cardinality(OpenIn(i))
        /\ session[i].conn <=> OpenIn(i) # {}
        /\ OpenIn(i) # {} =>
              session[i].pid \in session[i].fds /\ registered[session[i].pid] = i

Counted == \A i \in DOMAIN session : CountedOf(i)

\* A living process's registry has no session of its own without open stores.
RegisteredInUse ==
    \A p \in Processes :
        /\ life[p] = "alive" /\ registered[p] # NoSession
        /\ session[registered[p]].pid = p
        => OpenIn(registered[p]) # {}

\* The session i that a thread of process p is creating: the last of its process.
CreatingIn(i, p) ==
    /\ i \in DOMAIN session
    /\ session[i].pid = p /\ p \in session[i].fds
    /\ ~session[i].conn /\ session[i].refs = 0
    /\ \A j \in DOMAIN session : session[j].pid = p => j <= i

\* What a thread in open() or close() relies on: its store is its own to open, or
\* still open, and the registry lock is its own while it connects or closes.
CallsInOrder ==
    \A t \in Threads :
        /\ at[t] # "idle" => Alive(t)
        /\ at[t] \in {"open", "connect"} =>
              /\ store[arg[t]].state = "new"
              /\ \A u \in Threads \ {t} : at[u] \in {"open", "connect"} => arg[u] # arg[t]
        /\ at[t] \in {"connect", "closing"} => registry[Pid(t)] = t
        /\ at[t] = "closing" => Check(t, arg[t])
        /\ at[t] = "connect" =>
              registered[Pid(t)] = NoSession /\ \E i \in DOMAIN session : CreatingIn(i, Pid(t))

\* The guards of two threads are of different sessions.
GuardsApart ==
    \A t \in Threads : \A k \in DOMAIN guards[t] :
        /\ Alive(t)
        /\ store[guards[t][k]].state # "new"
        /\ SessionOf(guards[t][k]).pid = Pid(t)
        /\ \A u \in Threads \ {t} : ~InGuardOf(u, store[guards[t][k]].session)

SessionInv ==
    /\ SessionTypeOK /\ SessionsOfProcesses /\ OneLock /\ SessionsKnown /\ Counted
    /\ RegisteredInUse /\ LockReleased /\ CallsInOrder /\ GuardsApart

\* What the model says about a session that is in the sequence.
LEMMA SessionFields ==
    ASSUME SessionTypeOK
    PROVE  /\ Len(session) \in Nat /\ DOMAIN session = 1..Len(session)
           /\ \A i \in DOMAIN session : /\ session[i] \in Session
                                        /\ session[i].pid \in Processes /\ session[i].refs \in Nat
                                        /\ session[i].conn \in BOOLEAN
                                        /\ session[i].fds \in SUBSET Processes
                                        /\ i \in Nat /\ i # NoSession
<1>1. Len(session) \in Nat /\ DOMAIN session = 1..Len(session)
          /\ \A i \in 1..Len(session) : session[i] \in Session
    BY DEF SessionTypeOK
<1>2. \A i \in 1..Len(session) : i \in Nat /\ i # 0  BY <1>1
<1> QED  BY <1>1, <1>2 DEF Session, NoSession

\* A function on the positions of the sessions whose values are sessions.
LEMMA SessionsAgain ==
    ASSUME SessionTypeOK, NEW f, f = [i \in DOMAIN session |-> f[i]],
           \A i \in DOMAIN session : f[i] \in Session
    PROVE  f \in Seq(Session) /\ DOMAIN f = DOMAIN session /\ Len(f) = Len(session)
<1>1. Len(session) \in Nat /\ DOMAIN session = 1..Len(session)  BY SessionFields
<1>2. f \in [1..Len(session) -> Session]  BY <1>1
<1>3. f \in Seq(Session)  BY <1>1, <1>2
<1>4. DOMAIN f = 1..Len(f) /\ Len(f) \in Nat  BY <1>3
<1>5. DOMAIN f = 1..Len(session)  BY <1>2
<1>6. Len(f) = Len(session)  BY <1>1, <1>4, <1>5
<1> QED  BY <1>1, <1>3, <1>5, <1>6

\* A running store's session is counted.
LEMMA RunningStore ==
    ASSUME SessionInv, NEW s \in Stores, Running(s)
    PROVE  /\ store[s].session \in DOMAIN session
           /\ SessionOf(s).conn /\ SessionOf(s).pid \in SessionOf(s).fds
           /\ registered[SessionOf(s).pid] = store[s].session
<1>1. store[s].state = "open" /\ life[SessionOf(s).pid] = "alive"  BY DEF Running
<1>2. store[s].session \in DOMAIN session  BY <1>1 DEF SessionInv, SessionsKnown
<1>3. s \in OpenIn(store[s].session)  BY <1>1 DEF OpenIn
<1>4. CountedOf(store[s].session)  BY <1>2 DEF SessionInv, Counted
<1> QED  BY <1>1, <1>2, <1>3, <1>4 DEF CountedOf, SessionOf

\* The invariant implies what the run checks.
LEMMA Owned == SessionInv => Ownership
<1> SUFFICES ASSUME SessionInv  PROVE Ownership
    OBVIOUS
<1>1. ASSUME NEW r \in Stores, NEW s \in Stores, Running(r), Running(s)
      PROVE  store[r].session = store[s].session
    <2>1. /\ store[r].session \in DOMAIN session /\ SessionOf(r).fds # {}
          /\ store[s].session \in DOMAIN session /\ SessionOf(s).fds # {}
        BY <1>1, RunningStore
    <2> QED  BY <2>1 DEF SessionInv, OneLock, SessionOf
<1>2. OneOwner  BY <1>1, RunningStore DEF OneOwner
<1>3. RefsCounted  BY DEF SessionInv, Counted, CountedOf, RefsCounted
<1>4. LockReleased  BY DEF SessionInv
<1>5. GuardExclusive
    <2> SUFFICES ASSUME NEW t \in Threads, NEW u \in Threads,
                        NEW k \in DOMAIN guards[t], NEW l \in DOMAIN guards[u]
                 PROVE  /\ SessionOf(guards[t][k]).pid = Pid(t)
                        /\ Running(guards[t][k]) /\ Running(guards[u][l]) => t = u
        BY DEF GuardExclusive
    <2>1. SessionOf(guards[t][k]).pid = Pid(t)  BY DEF SessionInv, GuardsApart
    <2>2. guards[t][k] \in Stores /\ guards[u][l] \in Stores
        <3>1. guards[t] \in Seq(Stores) /\ guards[u] \in Seq(Stores)
            BY DEF SessionInv, SessionTypeOK
        <3> QED  BY <3>1
    <2>3. ASSUME Running(guards[t][k]), Running(guards[u][l]), t # u  PROVE FALSE
        <3>1. store[guards[u][l]].session = store[guards[t][k]].session
            BY <1>1, <2>2, <2>3
        <3>2. InGuardOf(u, store[guards[t][k]].session)  BY <3>1 DEF InGuardOf
        <3> QED  BY <2>3, <3>2 DEF SessionInv, GuardsApart
    <2> QED  BY <2>1, <2>3
<1> QED  BY <1>2, <1>3, <1>4, <1>5 DEF Ownership

-----------------------------------------------------------------------------
\* Steps that leave the sessions and the stores alone.

\* The part of the invariant that speaks of them only.
LEMMA SessionsStill ==
    ASSUME SessionInv, UNCHANGED <<life, registered, session, store>>
    PROVE  /\ SessionsOfProcesses' /\ OneLock' /\ SessionsKnown' /\ Counted' /\ RegisteredInUse'
<1>1. \A i : OpenIn(i)' = OpenIn(i)  BY DEF OpenIn
<1>2. SessionsOfProcesses' /\ OneLock' /\ SessionsKnown'
    BY DEF SessionInv, SessionsOfProcesses, OneLock, SessionsKnown
<1>3. Counted'  BY <1>1 DEF SessionInv, Counted, CountedOf
<1>4. RegisteredInUse'  BY <1>1 DEF SessionInv, RegisteredInUse
<1> QED  BY <1>2, <1>3, <1>4

\* A call that begins, is refused or waits on.
LEMMA QuietStep ==
    ASSUME SessionInv, NEW t \in Threads,
           \/ \E s \in Stores : CallOpen(t, s) \/ CallClose(t, s) \/ CallGuard(t, s)
           \/ OpenRefused(t) \/ CloseNothing(t) \/ CloseBegin(t)
    PROVE  SessionInv'
<1> DEFINE To == {"idle", "open", "close", "closing", "guard"}
<1>1. /\ UNCHANGED <<life, registered, session, store, inherited, guards>>
      /\ Alive(t) /\ at[t] \in {"idle", "open", "close"}
    BY DEF CallOpen, CallClose, CallGuard, Call, OpenRefused, CloseNothing, CloseBegin, Step
<1>2. PICK to \in To : at' = [at EXCEPT ![t] = to]
    BY DEF CallOpen, CallClose, CallGuard, Call, OpenRefused, CloseNothing, CloseBegin, Step
<1>3. \A u \in Threads : at'[u] = (IF u = t THEN to ELSE at[u])
    BY <1>2 DEF SessionInv, SessionTypeOK
<1>4. \A u \in Threads \ {t} : arg'[u] = arg[u]
    BY DEF CallOpen, CallClose, CallGuard, Call, OpenRefused, CloseNothing, CloseBegin, SessionInv,
           SessionTypeOK
<1>5. SessionTypeOK'
    <2>1. arg' \in [Threads -> Stores] /\ opened' \in Nat
        <3>1. \/ UNCHANGED <<arg, opened>>
              \/ opened' = opened + 1 /\ \E s \in Stores : arg' = [arg EXCEPT ![t] = s]
            BY DEF CallOpen, CallClose, CallGuard, Call, OpenRefused, CloseNothing, CloseBegin
        <3>2. arg \in [Threads -> Stores] /\ opened \in Nat  BY DEF SessionInv, SessionTypeOK
        <3>3. opened' \in Nat  BY <3>1, <3>2
        <3>4. arg' \in [Threads -> Stores]  BY <3>1, <3>2
        <3> QED  BY <3>3, <3>4
    <2>2. registry' \in [Processes -> Threads \union {NoThread, Gone}]
        BY DEF CallOpen, CallClose, CallGuard, Call, OpenRefused, CloseNothing, CloseBegin,
               SessionInv, SessionTypeOK
    <2>3. at' \in [Threads -> {"idle", "open", "connect", "close", "closing", "guard"}]
        BY <1>2 DEF SessionInv, SessionTypeOK
    <2> QED  BY <1>1, <2>1, <2>2, <2>3 DEF SessionInv, SessionTypeOK
<1>6. \A u \in Threads : at[u] \in {"connect", "closing"} => registry'[Pid(u)] = u
    <2>1. \A u \in Threads : at[u] \in {"connect", "closing"} => registry[Pid(u)] = u
        BY DEF SessionInv, CallsInOrder
    <2>2. \/ UNCHANGED registry
          \/ registry[Pid(t)] = NoThread /\ registry' = [registry EXCEPT ![Pid(t)] = t]
        BY DEF CallOpen, CallClose, CallGuard, Call, OpenRefused, CloseNothing, CloseBegin,
               RegistryFree
    <2>3. \A u \in Threads : u # NoThread /\ Pid(u) \in Processes
        BY SessionAssumption DEF Pid
    <2> QED  BY <2>1, <2>2, <2>3 DEF SessionInv, SessionTypeOK
<1>7. LockReleased'
    <2> SUFFICES ASSUME NEW i \in DOMAIN session, session[i].pid \in session[i].fds,
                        OpenIn(i) = {}
                 PROVE  \E u \in Threads : /\ Pid(u) = session[i].pid /\ at'[u] = "connect"
                                           /\ registry'[session[i].pid] = u
        BY <1>1 DEF LockReleased, OpenIn
    <2>1. PICK u \in Threads : Pid(u) = session[i].pid /\ at[u] = "connect"
        BY DEF SessionInv, LockReleased
    <2> QED  BY <1>1, <1>3, <1>6, <2>1
<1>8. CallsInOrder'
    <2> SUFFICES ASSUME NEW u \in Threads
                 PROVE  /\ at'[u] # "idle" => Alive(u)'
                        /\ at'[u] \in {"open", "connect"} =>
                              /\ store[arg'[u]].state = "new"
                              /\ \A v \in Threads \ {u} :
                                     at'[v] \in {"open", "connect"} => arg'[v] # arg'[u]
                        /\ at'[u] \in {"connect", "closing"} => registry'[Pid(u)] = u
                        /\ at'[u] = "closing" => Check(u, arg[u]) /\ arg'[u] = arg[u]
                        /\ at'[u] = "connect" =>
                              registered[Pid(u)] = NoSession /\ \E i \in DOMAIN session : CreatingIn(i, Pid(u))
        BY <1>1 DEF CallsInOrder, Check, SessionOf, CreatingIn
    <2>1. CallsInOrder  BY DEF SessionInv
    <2>2. Alive(u)' <=> Alive(u)  BY <1>1 DEF Alive
    <2>3. to = "closing" => CloseBegin(t)
        BY <1>3 DEF CallOpen, CallClose, CallGuard, Call, OpenRefused, CloseNothing, Step, SessionInv,
                    SessionTypeOK
    <2>4. to = "closing" => Check(t, arg[t]) /\ arg'[t] = arg[t] /\ registry'[Pid(t)] = t
        BY <2>3, SessionAssumption DEF CloseBegin, SessionInv, SessionTypeOK, Pid
    <2>5. to = "open" => \E s \in Stores : CallOpen(t, s)
        BY <1>3 DEF CallClose, CallGuard, Call, OpenRefused, CloseNothing, CloseBegin, Step,
                    SessionInv, SessionTypeOK
    <2>6. to = "open" =>
              /\ store[arg'[t]].state = "new"
              /\ \A v \in Threads : at[v] \in {"open", "connect"} => arg[v] # arg'[t]
        BY <2>5 DEF CallOpen, Call, SessionInv, SessionTypeOK
    <2>7. at'[u] # "idle" => Alive(u)'  BY <1>1, <1>3, <2>1, <2>2 DEF CallsInOrder
    <2>8. ASSUME at'[u] \in {"open", "connect"}
          PROVE  /\ store[arg'[u]].state = "new"
                 /\ \A v \in Threads \ {u} : at'[v] \in {"open", "connect"} => arg'[v] # arg'[u]
        <3>1. CASE u = t  BY <1>3, <1>4, <2>6, <2>8, <3>1
        <3>2. CASE u # t  BY <1>3, <1>4, <2>1, <2>6, <2>8, <3>2 DEF CallsInOrder
        <3> QED  BY <3>1, <3>2
    <2>9. at'[u] \in {"connect", "closing"} => registry'[Pid(u)] = u
        BY <1>3, <1>6, <2>4
    <2>10. at'[u] = "closing" => Check(u, arg[u]) /\ arg'[u] = arg[u]
        BY <1>3, <1>4, <2>1, <2>4 DEF CallsInOrder
    <2>11. at'[u] = "connect" => at[u] = "connect"  BY <1>3
    <2> QED  BY <2>1, <2>7, <2>8, <2>9, <2>10, <2>11 DEF CallsInOrder
<1>9. GuardsApart'
    BY <1>1 DEF SessionInv, GuardsApart, Alive, SessionOf, InGuardOf
<1> QED  BY <1>1, <1>5, <1>7, <1>8, <1>9, SessionsStill DEF SessionInv

\* A guard is entered when no other thread is in one of the session, and left.
LEMMA GuardStep ==
    ASSUME SessionInv, NEW t \in Threads, Enter(t) \/ Leave(t)
    PROVE  SessionInv'
<1>1. /\ UNCHANGED <<life, registry, registered, session, store, inherited, arg, opened>>
      /\ Alive(t) /\ at[t] \in {"idle", "guard"} /\ at' = [at EXCEPT ![t] = "idle"]
    BY DEF Enter, Leave, Step
<1>2. \A u \in Threads : at'[u] = (IF u = t THEN "idle" ELSE at[u])
    BY <1>1 DEF SessionInv, SessionTypeOK
<1>3. guards[t] \in Seq(Stores) /\ arg[t] \in Stores  BY DEF SessionInv, SessionTypeOK
<1>4. PICK g \in Seq(Stores) :
          /\ guards' = [guards EXCEPT ![t] = g]
          /\ \A k \in DOMAIN g :
                \/ k \in DOMAIN guards[t] /\ g[k] = guards[t][k]
                \/ g[k] = arg[t] /\ Check(t, arg[t]) /\ CanLockSession(t, arg[t])
    <2>1. CASE Enter(t) /\ Check(t, arg[t])
        <3>1. Append(guards[t], arg[t]) \in Seq(Stores)
                 /\ \A k \in DOMAIN Append(guards[t], arg[t]) :
                       \/ k \in DOMAIN guards[t] /\ Append(guards[t], arg[t])[k] = guards[t][k]
                       \/ Append(guards[t], arg[t])[k] = arg[t]
            BY <1>3
        <3> QED  BY <2>1, <3>1 DEF Enter
    <2>2. CASE Enter(t) /\ ~Check(t, arg[t])
        <3>1. guards' = [guards EXCEPT ![t] = guards[t]]
            BY <2>2 DEF Enter, SessionInv, SessionTypeOK
        <3> QED  BY <1>3, <3>1
    <2>3. CASE Leave(t)
        <3> DEFINE g == SubSeq(guards[t], 1, Len(guards[t]) - 1)
        <3>1. guards' = [guards EXCEPT ![t] = g] /\ guards[t] # << >>  BY <2>3 DEF Leave
        <3>2. g \in Seq(Stores) /\ \A k \in DOMAIN g : k \in DOMAIN guards[t] /\ g[k] = guards[t][k]
            BY <1>3, <3>1
        <3> QED  BY <3>1, <3>2
    <2> QED  BY <2>1, <2>2, <2>3
<1>5. SessionTypeOK'
    BY <1>1, <1>4 DEF SessionInv, SessionTypeOK
<1>6. LockReleased'
    BY <1>1, <1>2 DEF SessionInv, LockReleased, OpenIn
<1>7. CallsInOrder'
    BY <1>1, <1>2 DEF SessionInv, CallsInOrder, Alive, Check, SessionOf, CreatingIn
<1>8. GuardsApart'
    <2>1. \A u \in Threads : guards'[u] = (IF u = t THEN g ELSE guards[u])
        BY <1>4 DEF SessionInv, SessionTypeOK
    <2>2. GuardsApart  BY DEF SessionInv
    <2> DEFINE In(v, i) == \E l \in DOMAIN guards'[v] : store[guards'[v][l]].session = i
    <2>3. ASSUME NEW i, In(t, i)
          PROVE  \A u \in Threads \ {t} : ~InGuardOf(u, i)
        <3>1. PICK k \in DOMAIN g : store[g[k]].session = i  BY <2>1, <2>3
        <3>2. CASE k \in DOMAIN guards[t] /\ g[k] = guards[t][k]
            BY <2>2, <3>1, <3>2 DEF GuardsApart
        <3>3. CASE g[k] = arg[t] /\ CanLockSession(t, arg[t])
            BY <3>1, <3>3 DEF CanLockSession
        <3> QED  BY <1>4, <3>2, <3>3
    <2>4. \A u \in Threads \ {t} : \A i : In(u, i) <=> InGuardOf(u, i)
        BY <2>1 DEF InGuardOf
    <2> SUFFICES ASSUME NEW u \in Threads, NEW k \in DOMAIN guards'[u]
                 PROVE  /\ Alive(u)
                        /\ store[guards'[u][k]].state # "new"
                        /\ SessionOf(guards'[u][k]).pid = Pid(u)
                        /\ \A v \in Threads \ {u} : ~In(v, store[guards'[u][k]].session)
        BY <1>1 DEF GuardsApart, Alive, SessionOf, InGuardOf
    <2>5. CASE u = t
        <3>1. guards'[u] = g /\ k \in DOMAIN g  BY <2>1, <2>5
        <3>2. store[g[k]].state # "new" /\ SessionOf(g[k]).pid = Pid(t)
            BY <1>4, <2>2, <3>1 DEF GuardsApart, Check
        <3>3. In(t, store[g[k]].session)  BY <2>5, <3>1
        <3> HIDE DEF In
        <3>4. \A v \in Threads \ {u} : ~In(v, store[g[k]].session)
            BY <2>3, <2>4, <2>5, <3>3
        <3> QED  BY <1>1, <2>5, <3>1, <3>2, <3>4
    <2>6. CASE u # t
        <3>1. guards'[u] = guards[u] /\ k \in DOMAIN guards[u]  BY <2>1, <2>6
        <3>2. InGuardOf(u, store[guards[u][k]].session)  BY <3>1 DEF InGuardOf
        <3> HIDE DEF In
        <3>3. ~In(t, store[guards[u][k]].session)  BY <2>3, <2>6, <3>2
        <3>4. \A v \in Threads \ {u} : ~In(v, store[guards[u][k]].session)
            BY <2>2, <2>4, <3>1, <3>3 DEF GuardsApart
        <3> QED  BY <2>2, <3>1, <3>4 DEF GuardsApart
    <2> QED  BY <2>5, <2>6
<1> QED  BY <1>1, <1>5, <1>6, <1>7, <1>8, SessionsStill DEF SessionInv

-----------------------------------------------------------------------------
\* Steps of open() and close() that change a session.

\* Such a step changes one session of the thread's own process, the store it is
\* called on and the process's registry, and the thread is idle or connects then.
OnSession(t, i, to) ==
    /\ UNCHANGED <<life, inherited, guards, arg, opened>>
    /\ Alive(t) /\ at' = [at EXCEPT ![t] = to]
    /\ DOMAIN session \subseteq DOMAIN session'
    /\ i \in DOMAIN session' /\ session'[i].pid = Pid(t)
    /\ i \in DOMAIN session => session[i].pid = Pid(t)
    /\ \A j \in DOMAIN session' : j # i => j \in DOMAIN session /\ session'[j] = session[j]
    /\ \A p \in Processes : p # Pid(t) => registered'[p] = registered[p] /\ registry'[p] = registry[p]
    /\ \A s \in Stores : s # arg[t] => store'[s] = store[s]
    /\ registry[Pid(t)] \in {NoThread, t}

\* The other threads rely on what it leaves alone: a store that is opened is the
\* thread's own, and one that is closed or connected has the registry locked.
LEMMA OthersKept ==
    ASSUME SessionInv, NEW t \in Threads, NEW i, NEW to \in {"idle", "connect"},
           OnSession(t, i, to),
           \/ at[t] \in {"open", "connect"}
           \/ /\ at[t] = "closing"
              /\ store'[arg[t]].session = store[arg[t]].session /\ store'[arg[t]].state # "new",
           to = "connect" =>
               /\ store'[arg[t]].state = "new"
               /\ registry'[Pid(t)] = t /\ registered'[Pid(t)] = NoSession
               /\ \E k \in DOMAIN session' : CreatingIn(k, Pid(t))'
    PROVE  GuardsApart' /\ CallsInOrder'
<1>1. CallsInOrder /\ GuardsApart /\ SessionsKnown /\ SessionTypeOK  BY DEF SessionInv
<1>2. \A u \in Threads : at'[u] = (IF u = t THEN to ELSE at[u])
    BY <1>1 DEF OnSession, SessionTypeOK
<1>3. \A u \in Threads : Pid(u) \in Processes /\ arg[u] \in Stores /\ u # NoThread
    BY <1>1, SessionAssumption DEF SessionTypeOK, Pid
<1>4. at[t] = "closing" => store[arg[t]].state = "open" /\ SessionOf(arg[t]).pid = Pid(t)
    BY <1>1 DEF CallsInOrder, Check
<1>5. at[t] # "closing" => store[arg[t]].state = "new"
    BY <1>1 DEF CallsInOrder
\* The session of a constructed store stays the same, and of the same process.
<1>6. ASSUME NEW s \in Stores, store[s].state # "new"
      PROVE  /\ store'[s].session = store[s].session /\ store'[s].state # "new"
             /\ SessionOf(s)'.pid = SessionOf(s).pid
    <2>1. store'[s].session = store[s].session /\ store'[s].state # "new"
        BY <1>5, <1>6 DEF OnSession
    <2>2. store[s].session \in DOMAIN session  BY <1>1, <1>6 DEF SessionsKnown
    <2>3. session'[store[s].session].pid = session[store[s].session].pid
        BY <2>2 DEF OnSession
    <2> QED  BY <2>1, <2>3 DEF SessionOf
<1>7. GuardsApart'
    <2>1. \A u \in Threads : \A k \in DOMAIN guards[u] : guards[u][k] \in Stores
        <3>1. \A u \in Threads : guards[u] \in Seq(Stores)  BY <1>1 DEF SessionTypeOK
        <3> QED  BY <3>1
    <2>2. \A u \in Threads : \A k \in DOMAIN guards[u] :
              /\ store'[guards[u][k]].session = store[guards[u][k]].session
              /\ store'[guards[u][k]].state # "new"
              /\ session'[store'[guards[u][k]].session].pid = SessionOf(guards[u][k]).pid
        BY <1>1, <1>6, <2>1 DEF GuardsApart, SessionOf
    <2>3. guards' = guards /\ life' = life  BY DEF OnSession
    <2>4. \A u \in Threads : \A n : InGuardOf(u, n)' <=> InGuardOf(u, n)
        BY <2>2, <2>3 DEF InGuardOf
    <2> SUFFICES ASSUME NEW u \in Threads, NEW k \in DOMAIN guards[u]
                 PROVE  /\ Alive(u)
                        /\ store'[guards[u][k]].state # "new"
                        /\ session'[store'[guards[u][k]].session].pid = Pid(u)
                        /\ \A v \in Threads \ {u} : ~InGuardOf(v, store[guards[u][k]].session)
        BY <2>2, <2>3, <2>4 DEF GuardsApart, Alive, SessionOf
    <2> QED  BY <1>1, <2>2 DEF GuardsApart
<1>8. ASSUME NEW u \in Threads, u # t
      PROVE  /\ at[u] # "idle" => Alive(u)'
             /\ at[u] \in {"open", "connect"} => store'[arg[u]].state = "new" /\ arg[u] # arg[t]
             /\ at[u] \in {"connect", "closing"} => Pid(u) # Pid(t) /\ registry'[Pid(u)] = u
             /\ at[u] = "closing" => Check(u, arg[u])'
             /\ at[u] = "connect" => /\ registered'[Pid(u)] = NoSession
                                     /\ \E k \in DOMAIN session' : CreatingIn(k, Pid(u))'
    <2>1. at[u] # "idle" => Alive(u)'  BY <1>1 DEF CallsInOrder, Alive, OnSession
    <2>2. at[u] \in {"open", "connect"} => arg[u] # arg[t]
        BY <1>1, <1>4, <1>8 DEF CallsInOrder
    <2>3. at[u] \in {"open", "connect"} => store'[arg[u]].state = "new"
        BY <1>1, <1>3, <2>2 DEF CallsInOrder, OnSession
    <2>4. at[u] \in {"connect", "closing"} => Pid(u) # Pid(t) /\ registry'[Pid(u)] = u
        BY <1>1, <1>3, <1>8 DEF CallsInOrder, OnSession
    <2>5. ASSUME at[u] = "closing"  PROVE Check(u, arg[u])'
        <3>1. Check(u, arg[u])  BY <1>1, <2>5 DEF CallsInOrder
        <3>2. arg[u] # arg[t]  BY <1>4, <1>5, <2>4, <2>5, <3>1 DEF Check
        <3>3. store'[arg[u]] = store[arg[u]]  BY <1>3, <3>2 DEF OnSession
        <3>4. SessionOf(arg[u])'.pid = SessionOf(arg[u]).pid
            <4>1. arg' = arg  BY DEF OnSession
            <4>2. store[arg[u]].session \in DOMAIN session
                BY <1>1, <1>3, <3>1 DEF SessionsKnown, Check
            <4>3. session'[store[arg[u]].session].pid = session[store[arg[u]].session].pid
                BY <4>2 DEF OnSession
            <4> QED  BY <3>3, <4>1, <4>3 DEF SessionOf
        <3> QED  BY <3>1, <3>3, <3>4 DEF Check, OnSession
    <2>6. ASSUME at[u] = "connect"
          PROVE  /\ registered'[Pid(u)] = NoSession
                 /\ \E k \in DOMAIN session' : CreatingIn(k, Pid(u))'
        <3>1. registered'[Pid(u)] = NoSession
            BY <1>1, <1>3, <2>4, <2>6 DEF CallsInOrder, OnSession
        <3>2. PICK k \in DOMAIN session : CreatingIn(k, Pid(u))
            BY <1>1, <2>6 DEF CallsInOrder
        <3>3. k # i /\ k \in DOMAIN session' /\ session'[k] = session[k]
            BY <2>4, <2>6, <3>2 DEF OnSession, CreatingIn
        <3>4. CreatingIn(k, Pid(u))'
            BY <2>4, <2>6, <3>2, <3>3 DEF OnSession, CreatingIn
        <3> QED  BY <3>1, <3>3, <3>4
    <2> QED  BY <2>1, <2>2, <2>3, <2>4, <2>5, <2>6
<1>9. CallsInOrder'
    <2>1. arg' = arg  BY DEF OnSession
    <2>2. Alive(t)'  BY DEF OnSession, Alive
    <2> SUFFICES ASSUME NEW u \in Threads
                 PROVE  /\ at'[u] # "idle" => Alive(u)'
                        /\ at'[u] \in {"open", "connect"} =>
                              /\ store'[arg[u]].state = "new"
                              /\ \A v \in Threads \ {u} :
                                     at'[v] \in {"open", "connect"} => arg[v] # arg[u]
                        /\ at'[u] \in {"connect", "closing"} => registry'[Pid(u)] = u
                        /\ at'[u] = "closing" => Check(u, arg[u])'
                        /\ at'[u] = "connect" => /\ registered'[Pid(u)] = NoSession
                                                 /\ \E k \in DOMAIN session' : CreatingIn(k, Pid(u))'
        BY <2>1 DEF CallsInOrder, Check, SessionOf
    <2>3. CASE u = t  BY <1>2, <1>8, <2>2, <2>3
    <2>4. CASE u # t  BY <1>1, <1>2, <1>8, <2>4 DEF CallsInOrder
    <2> QED  BY <2>3, <2>4
<1> QED  BY <1>7, <1>9

\* The rest of the invariant, after such a step on session i: what has to be seen
\* of the step is about i only.
LEMMA SessionChanged ==
    ASSUME SessionInv, NEW t \in Threads, NEW i, NEW to \in {"idle", "connect"},
           OnSession(t, i, to),
           \A j \in DOMAIN session : j # i => OpenIn(j)' = OpenIn(j),
           session'[i].fds \subseteq {Pid(t)} \union (IF i \in DOMAIN session THEN session[i].fds ELSE {}),
           ~Locked \/ (i \in DOMAIN session /\ session[i].fds # {}),
           CountedOf(i)',
           \/ registered'[Pid(t)] = registered[Pid(t)]
           \/ registered[Pid(t)] \in {NoSession, i} /\ registered'[Pid(t)] \in {NoSession, i},
           registered'[Pid(t)] = i => OpenIn(i)' # {},
           store'[arg[t]].state = "new" \/ store'[arg[t]].session \in DOMAIN session',
           Pid(t) \in session'[i].fds =>
               OpenIn(i)' # {} \/ (to = "connect" /\ registry'[Pid(t)] = t),
           at[t] = "connect" => CreatingIn(i, Pid(t))
    PROVE  /\ SessionsOfProcesses' /\ OneLock' /\ SessionsKnown' /\ Counted' /\ RegisteredInUse'
           /\ LockReleased'
<1>1. /\ SessionTypeOK /\ SessionsOfProcesses /\ OneLock /\ SessionsKnown /\ Counted
      /\ RegisteredInUse /\ LockReleased /\ CallsInOrder
    BY DEF SessionInv
<1>2. Pid(t) \in Processes /\ life[Pid(t)] = "alive" /\ life' = life
    BY SessionAssumption DEF OnSession, Alive, Pid
<1>3. /\ DOMAIN session \subseteq DOMAIN session' /\ i \in DOMAIN session' /\ session'[i].pid = Pid(t)
      /\ \A j \in DOMAIN session' : j # i => j \in DOMAIN session /\ session'[j] = session[j]
    BY DEF OnSession
<1>4. SessionsOfProcesses'
    <2> SUFFICES ASSUME NEW j \in DOMAIN session'
                 PROVE  /\ life[session'[j].pid] # "unborn"
                        /\ \A p \in session'[j].fds : life[p] = "alive"
        BY <1>2 DEF SessionsOfProcesses
    <2>1. CASE j = i  BY <1>1, <1>2, <1>3, <2>1 DEF SessionsOfProcesses
    <2>2. CASE j # i  BY <1>1, <1>3, <2>2 DEF SessionsOfProcesses
    <2> QED  BY <2>1, <2>2
<1>5. \A j \in DOMAIN session : j # i => session[j].fds = {} \/ session'[i].fds = {}
    BY <1>1, <1>3 DEF OneLock, Locked
<1>6. OneLock'
    <2> SUFFICES ASSUME NEW j \in DOMAIN session', NEW k \in DOMAIN session',
                        session'[j].fds # {}, session'[k].fds # {}
                 PROVE  j = k
        BY DEF OneLock
    <2>1. CASE j = i \/ k = i  BY <1>3, <1>5, <2>1
    <2>2. CASE j # i /\ k # i  BY <1>1, <1>3, <2>2 DEF OneLock
    <2> QED  BY <2>1, <2>2
<1>7. SessionsKnown'
    <2>1. ASSUME NEW s \in Stores
          PROVE  store'[s].state = "new" \/ store'[s].session \in DOMAIN session'
        <3>1. CASE s = arg[t]  BY <3>1
        <3>2. CASE s # arg[t]  BY <1>1, <1>3, <3>2 DEF OnSession, SessionsKnown
        <3> QED  BY <3>1, <3>2
    <2>2. ASSUME NEW p \in Processes
          PROVE  registered'[p] = NoSession \/ registered'[p] \in DOMAIN session'
        <3>1. registered'[p] = registered[p] \/ registered'[p] \in {NoSession, i}
            BY DEF OnSession
        <3> QED  BY <1>1, <1>3, <3>1 DEF SessionsKnown
    <2> QED  BY <2>1, <2>2 DEF SessionsKnown
<1>8. Counted'
    <2> SUFFICES ASSUME NEW j \in DOMAIN session'  PROVE CountedOf(j)'
        BY DEF Counted
    <2>1. CASE j = i  BY <2>1
    <2>2. CASE j # i
        <3>1. j \in DOMAIN session /\ session'[j] = session[j] /\ OpenIn(j)' = OpenIn(j)
                 /\ CountedOf(j)
            BY <1>1, <1>3, <2>2 DEF Counted
        <3>2. session[j].pid \in Processes  BY <1>1, <3>1, SessionFields
        <3>3. ASSUME registered[session[j].pid] = j  PROVE registered'[session[j].pid] = j
            <4>1. j # NoSession  BY <1>1, <3>1, SessionFields
            <4>2. CASE session[j].pid = Pid(t)  BY <2>2, <3>3, <4>1, <4>2
            <4>3. CASE session[j].pid # Pid(t)  BY <3>2, <3>3, <4>3 DEF OnSession
            <4> QED  BY <4>2, <4>3
        <3> QED  BY <1>2, <3>1, <3>3 DEF CountedOf
    <2> QED  BY <2>1, <2>2
<1>9. RegisteredInUse'
    <2> DEFINE Open(j) == {s \in Stores : store'[s].state = "open" /\ store'[s].session = j}
    <2>1. \A j : OpenIn(j)' = Open(j)  BY DEF OpenIn
    <2> SUFFICES ASSUME NEW p \in Processes, life[p] = "alive", registered'[p] # NoSession,
                        session'[registered'[p]].pid = p
                 PROVE  Open(registered'[p]) # {}
        BY <1>2 DEF RegisteredInUse, OpenIn
    <2>2. CASE registered'[p] = i
        <3>1. p = Pid(t)  BY <1>3, <2>2
        <3>2. Open(i) # {}  BY <2>1, <2>2, <3>1
        <3> QED  BY <2>2, <3>2
    <2>3. CASE registered'[p] # i
        <3>1. registered'[p] = registered[p]  BY <2>3 DEF OnSession
        <3>2. registered[p] \in DOMAIN session  BY <1>1, <3>1 DEF SessionsKnown
        <3>3. session'[registered[p]] = session[registered[p]]  BY <1>3, <2>3, <3>1, <3>2
        <3>4. OpenIn(registered[p]) # {}  BY <1>1, <3>1, <3>3 DEF RegisteredInUse
        <3>5. Open(registered[p]) # {}
            <4>1. \A j \in DOMAIN session : j # i => Open(j) = OpenIn(j)  BY <2>1
            <4> QED  BY <2>3, <3>1, <3>2, <3>4, <4>1
        <3> QED  BY <3>1, <3>5
    <2> QED  BY <2>2, <2>3
<1>10. LockReleased'
    <2>1. \A u \in Threads : at'[u] = (IF u = t THEN to ELSE at[u])
        BY <1>1 DEF OnSession, SessionTypeOK
    <2> SUFFICES ASSUME NEW j \in DOMAIN session', session'[j].pid \in session'[j].fds,
                        OpenIn(j)' = {}
                 PROVE  \E u \in Threads : /\ Pid(u) = session'[j].pid /\ at'[u] = "connect"
                                           /\ registry'[session'[j].pid] = u
        BY DEF LockReleased
    <2>2. CASE j = i  BY <1>3, <2>1, <2>2
    <2>3. CASE j # i
        <3>1. j \in DOMAIN session /\ session'[j] = session[j] /\ OpenIn(j) = {}
            BY <1>3, <2>3
        <3>2. PICK u \in Threads : /\ Pid(u) = session[j].pid /\ at[u] = "connect"
                                   /\ registry[session[j].pid] = u
            BY <1>1, <3>1 DEF LockReleased
        <3>3. u # t
            <4> SUFFICES ASSUME u = t  PROVE FALSE
                OBVIOUS
            <4>1. CreatingIn(i, Pid(t))  BY <3>2
            <4>2. session[i].fds # {} /\ i \in DOMAIN session  BY <4>1 DEF CreatingIn
            <4> QED  BY <1>1, <2>3, <3>1, <4>2 DEF OneLock
        <3>4. Pid(u) # Pid(t) /\ Pid(u) \in Processes
            BY <3>2, <3>3, SessionAssumption DEF OnSession, Pid
        <3>5. registry'[Pid(u)] = u  BY <3>2, <3>4 DEF OnSession
        <3> QED  BY <2>1, <3>1, <3>2, <3>3, <3>5
    <2> QED  BY <2>2, <2>3
<1> QED  BY <1>4, <1>6, <1>7, <1>8, <1>9, <1>10


\* A store that is opened in session i becomes one of the open ones of i.
LEMMA StoreOpened ==
    ASSUME SessionTypeOK, NEW s \in Stores, NEW i \in Nat, store[s].state = "new",
           store' = [store EXCEPT ![s] = [state |-> "open", session |-> i]]
    PROVE  /\ store' \in [Stores -> [state : {"new", "open", "closed"}, session : Nat]]
           /\ store'[s] = [state |-> "open", session |-> i]
           /\ \A r \in Stores : r # s => store'[r] = store[r]
           /\ s \notin OpenIn(i) /\ OpenIn(i)' = OpenIn(i) \union {s}
           /\ \A j : j # i => OpenIn(j)' = OpenIn(j)
<1>1. store \in [Stores -> [state : {"new", "open", "closed"}, session : Nat]]
    BY DEF SessionTypeOK
<1>2. [state |-> "open", session |-> i] \in [state : {"new", "open", "closed"}, session : Nat]
    OBVIOUS
<1>3. store' \in [Stores -> [state : {"new", "open", "closed"}, session : Nat]]
    BY <1>1, <1>2
<1>4. /\ store'[s] = [state |-> "open", session |-> i]
      /\ \A r \in Stores : r # s => store'[r] = store[r]
    BY <1>1
<1>5. s \notin OpenIn(i) /\ OpenIn(i)' = OpenIn(i) \union {s}  BY <1>4 DEF OpenIn
<1>6. \A j : j # i => OpenIn(j)' = OpenIn(j)  BY <1>4 DEF OpenIn
<1> QED  BY <1>3, <1>4, <1>5, <1>6

\* The session a thread is creating is the one its connection is made for.
LEMMA CreatingIs ==
    ASSUME SessionInv, NEW t \in Threads, at[t] = "connect"
    PROVE  CreatingIn(Creating(t), Pid(t)) /\ registered[Pid(t)] = NoSession
<1>1. PICK k \in DOMAIN session : CreatingIn(k, Pid(t))  BY DEF SessionInv, CallsInOrder
<1> DEFINE LastOf(j) == /\ session[j].pid = Pid(t)
                      /\ \A l \in DOMAIN session : session[l].pid = Pid(t) => l <= j
<1>2. LastOf(k)  BY <1>1 DEF CreatingIn
<1>3. Creating(t) \in DOMAIN session /\ LastOf(Creating(t))  BY <1>2 DEF Creating
<1>4. k \in Nat /\ Creating(t) \in Nat  BY <1>3, SessionFields DEF SessionInv
<1>5. k <= Creating(t) /\ Creating(t) <= k  BY <1>2, <1>3
<1>6. Creating(t) = k  BY <1>4, <1>5
<1> QED  BY <1>1, <1>6 DEF SessionInv, CallsInOrder

\* An instance that finds its process's session is counted by it.
LEMMA OpenSharedStep ==
    ASSUME SessionInv, NEW t \in Threads, OpenShared(t)
    PROVE  SessionInv'
<1>1. PICK i : i = registered[Pid(t)]
    OBVIOUS
<1>2. /\ Step(t, "open", "idle") /\ RegistryFree(t) /\ i # NoSession /\ session[i].pid = Pid(t)
      /\ session' = [session EXCEPT ![i].refs = @ + 1]
      /\ store' = [store EXCEPT ![arg[t]] = [state |-> "open", session |-> i]]
      /\ UNCHANGED <<life, registry, registered, inherited, guards, arg, opened>>
    BY <1>1 DEF OpenShared
<1>3. /\ SessionTypeOK /\ SessionsKnown /\ Counted /\ RegisteredInUse /\ CallsInOrder
    BY DEF SessionInv
<1>4. Pid(t) \in Processes /\ arg[t] \in Stores /\ Alive(t) /\ at[t] = "open"
         /\ at' = [at EXCEPT ![t] = "idle"]
    BY <1>2, <1>3, SessionAssumption DEF SessionTypeOK, Pid, Step
<1>5. i \in DOMAIN session /\ OpenIn(i) # {}
    BY <1>1, <1>2, <1>3, <1>4 DEF SessionsKnown, RegisteredInUse, Alive
<1>6. store[arg[t]].state = "new"  BY <1>3, <1>4 DEF CallsInOrder
<1>7. i \in Nat /\ session[i].refs \in Nat /\ session[i] \in Session  BY <1>3, <1>5, SessionFields
<1>8. /\ store' \in [Stores -> [state : {"new", "open", "closed"}, session : Nat]]
      /\ store'[arg[t]] = [state |-> "open", session |-> i]
      /\ \A r \in Stores : r # arg[t] => store'[r] = store[r]
      /\ arg[t] \notin OpenIn(i) /\ OpenIn(i)' = OpenIn(i) \union {arg[t]}
      /\ \A j : j # i => OpenIn(j)' = OpenIn(j)
    BY <1>2, <1>3, <1>4, <1>6, <1>7, StoreOpened
<1>9. /\ DOMAIN session' = DOMAIN session /\ session' \in Seq(Session)
      /\ session'[i] = [session[i] EXCEPT !.refs = @ + 1]
      /\ \A j \in DOMAIN session : j # i => session'[j] = session[j]
    <2> DEFINE f == [session EXCEPT ![i].refs = @ + 1]
    <2>1. [session[i] EXCEPT !.refs = @ + 1] \in Session  BY <1>7 DEF Session
    <2>2. /\ DOMAIN f = DOMAIN session /\ f[i] = [session[i] EXCEPT !.refs = @ + 1]
          /\ \A j \in DOMAIN session : j # i => f[j] = session[j]
        BY <1>5
    <2>3. f = [j \in DOMAIN session |-> f[j]]
        OBVIOUS
    <2>4. \A j \in DOMAIN session : f[j] \in Session  BY <1>3, <2>1, <2>2, SessionFields
    <2> HIDE DEF f
    <2>5. f \in Seq(Session)  BY <1>3, <2>3, <2>4, SessionsAgain
    <2>6. session' = f  BY <1>2 DEF f
    <2> QED  BY <2>2, <2>5, <2>6
<1>10. /\ session'[i].pid = Pid(t) /\ session'[i].refs = session[i].refs + 1
       /\ session'[i].conn = session[i].conn /\ session'[i].fds = session[i].fds
    BY <1>2, <1>7, <1>9 DEF Session
<1>11. OnSession(t, i, "idle")
    BY <1>2, <1>4, <1>5, <1>8, <1>9, <1>10 DEF OnSession, RegistryFree
<1>12. CountedOf(i)  BY <1>3, <1>5 DEF Counted
<1>13. CountedOf(i)'
    <2>1. Cardinality(OpenIn(i) \union {arg[t]}) = Cardinality(OpenIn(i)) + 1
             /\ IsFiniteSet(OpenIn(i) \union {arg[t]})
        BY <1>2, <1>4, <1>8, <1>12, FS_AddElement DEF CountedOf, Alive
    <2> QED  BY <1>1, <1>2, <1>4, <1>5, <1>8, <1>10, <1>12, <2>1 DEF CountedOf, Alive
<1>14. SessionTypeOK'
    <2>1. at' \in [Threads -> {"idle", "open", "connect", "close", "closing", "guard"}]
        BY <1>3, <1>4 DEF SessionTypeOK
    <2> QED  BY <1>2, <1>3, <1>8, <1>9, <2>1 DEF SessionTypeOK
<1>15. GuardsApart' /\ CallsInOrder'
    BY <1>4, <1>11, OthersKept
<1>16. session[i].fds # {}  BY <1>2, <1>4, <1>5, <1>12 DEF CountedOf, Alive
<1>17. /\ SessionsOfProcesses' /\ OneLock' /\ SessionsKnown' /\ Counted' /\ RegisteredInUse'
       /\ LockReleased'
    BY <1>2, <1>4, <1>5, <1>8, <1>9, <1>10, <1>11, <1>13, <1>16, SessionChanged
<1> QED  BY <1>14, <1>15, <1>17 DEF SessionInv

\* The session that is changed in its fields only.
LEMMA SessionSet ==
    ASSUME SessionTypeOK, NEW i \in DOMAIN session, NEW x \in Session,
           session' = [session EXCEPT ![i] = x]
    PROVE  /\ DOMAIN session' = DOMAIN session /\ session' \in Seq(Session)
           /\ session'[i] = x
           /\ \A j \in DOMAIN session : j # i => session'[j] = session[j]
<1> DEFINE f == [session EXCEPT ![i] = x]
<1>1. /\ DOMAIN f = DOMAIN session /\ f[i] = x
      /\ \A j \in DOMAIN session : j # i => f[j] = session[j]
    OBVIOUS
<1>2. f = [j \in DOMAIN session |-> f[j]]
    OBVIOUS
<1>3. \A j \in DOMAIN session : f[j] \in Session  BY <1>1, SessionFields
<1> HIDE DEF f
<1>4. f \in Seq(Session)  BY <1>2, <1>3, SessionsAgain
<1>5. session' = f  BY DEF f
<1> QED  BY <1>1, <1>4, <1>5

\* The first instance of the file creates a session and locks the file.
LEMMA LockFileStep ==
    ASSUME SessionInv, NEW t \in Threads, LockFile(t)
    PROVE  SessionInv'
<1>1. PICK i : i = Len(session) + 1
    OBVIOUS
<1>2. PICK x : x = [pid |-> Pid(t), refs |-> 0, conn |-> FALSE, fds |-> {Pid(t)}]
    OBVIOUS
<1>3. /\ Step(t, "open", "connect") /\ RegistryFree(t) /\ registered[Pid(t)] = NoSession /\ ~Locked
      /\ registry' = [registry EXCEPT ![Pid(t)] = t]
      /\ session' = Append(session, x)
      /\ UNCHANGED <<life, registered, store, inherited, guards, arg, opened>>
    BY <1>2 DEF LockFile
<1>4. /\ SessionTypeOK /\ SessionsKnown /\ CallsInOrder
    BY DEF SessionInv
<1>5. Pid(t) \in Processes /\ arg[t] \in Stores /\ Alive(t) /\ at[t] = "open"
         /\ at' = [at EXCEPT ![t] = "connect"]
    BY <1>3, <1>4, SessionAssumption DEF SessionTypeOK, Pid, Step
<1>6. store[arg[t]].state = "new"  BY <1>4, <1>5 DEF CallsInOrder
<1>7. /\ x \in Session /\ x.pid = Pid(t) /\ x.refs = 0 /\ x.conn = FALSE /\ x.fds = {Pid(t)}
    BY <1>2, <1>5 DEF Session
<1>8. /\ i \in Nat /\ i \notin DOMAIN session /\ DOMAIN session' = DOMAIN session \union {i}
      /\ session' \in Seq(Session) /\ session'[i] = x
      /\ \A j \in DOMAIN session : session'[j] = session[j] /\ j <= i
    <2>1. session \in Seq(Session)  BY <1>4 DEF SessionTypeOK
    <2>2. DOMAIN session = 1..Len(session) /\ Len(session) \in Nat  BY <2>1
    <2>3. DOMAIN Append(session, x) = 1..(Len(session) + 1)  BY <2>1, <1>7
    <2>4. Append(session, x)[Len(session) + 1] = x
             /\ \A j \in 1..Len(session) : Append(session, x)[j] = session[j]
        BY <2>1, <1>7
    <2>5. Append(session, x) \in Seq(Session)  BY <2>1, <1>7
    <2> QED  BY <1>1, <1>3, <2>2, <2>3, <2>4, <2>5
<1>9. \A j : OpenIn(j)' = OpenIn(j)  BY <1>3 DEF OpenIn
<1>10. OpenIn(i) = {}  BY <1>4, <1>8 DEF SessionsKnown, OpenIn
<1>11. registry'[Pid(t)] = t
          /\ \A p \in Processes : p # Pid(t) => registry'[p] = registry[p]
    BY <1>3, <1>4, <1>5 DEF SessionTypeOK
<1>12. OnSession(t, i, "connect")
    BY <1>3, <1>5, <1>7, <1>8, <1>11 DEF OnSession, RegistryFree
<1>13. CountedOf(i)'
    <2>1. OpenIn(i)' = {} /\ IsFiniteSet({}) /\ Cardinality({}) = 0  BY <1>9, <1>10, FS_EmptySet
    <2> QED  BY <1>7, <1>8, <2>1 DEF CountedOf
<1>14. SessionTypeOK'
    <2>1. at' \in [Threads -> {"idle", "open", "connect", "close", "closing", "guard"}]
        BY <1>4, <1>5 DEF SessionTypeOK
    <2>2. registry' \in [Processes -> Threads \union {NoThread, Gone}]
        BY <1>3, <1>4, <1>5 DEF SessionTypeOK
    <2> QED  BY <1>3, <1>4, <1>8, <2>1, <2>2 DEF SessionTypeOK
<1>15. CreatingIn(i, Pid(t))'
    <2>1. \A j \in DOMAIN session' : j <= i  BY <1>8
    <2>2. Pid(t)' = Pid(t)  BY DEF Pid
    <2> QED  BY <1>7, <1>8, <2>1, <2>2 DEF CreatingIn
<1>16. GuardsApart' /\ CallsInOrder'
    <2>1. store'[arg[t]].state = "new" /\ registered'[Pid(t)] = NoSession  BY <1>3, <1>6
    <2>2. \E k \in DOMAIN session' : CreatingIn(k, Pid(t))'  BY <1>8, <1>15
    <2> QED  BY <1>5, <1>11, <1>12, <2>1, <2>2, OthersKept
<1>17. /\ SessionsOfProcesses' /\ OneLock' /\ SessionsKnown' /\ Counted' /\ RegisteredInUse'
       /\ LockReleased'
    <2>1. store'[arg[t]].state = "new"  BY <1>3, <1>6
    <2>2. registered'[Pid(t)] = registered[Pid(t)] /\ registered'[Pid(t)] # i
        BY <1>3, <1>8, <1>1, SessionFields, <1>4 DEF NoSession
    <2>3. session'[i].fds \subseteq {Pid(t)} \union (IF i \in DOMAIN session THEN session[i].fds ELSE {})
        BY <1>7, <1>8
    <2>4. at[t] # "connect"  BY <1>5
    <2> QED  BY <1>3, <1>9, <1>11, <1>12, <1>13, <2>1, <2>2, <2>3, <2>4, SessionChanged
<1> QED  BY <1>14, <1>16, <1>17 DEF SessionInv

\* The connection is made, and the file's first store is open.
LEMMA ConnectStep ==
    ASSUME SessionInv, NEW t \in Threads, Connect(t)
    PROVE  SessionInv'
<1>1. PICK i : i = Creating(t)
    OBVIOUS
<1>2. at[t] = "connect"  BY DEF Connect, Step
<1>3. CreatingIn(i, Pid(t)) /\ registered[Pid(t)] = NoSession  BY <1>1, <1>2, CreatingIs
<1>4. i \in DOMAIN session /\ session[i].pid = Pid(t) /\ Pid(t) \in session[i].fds
         /\ session[i].conn = FALSE /\ session[i].refs = 0
    <2>1. session[i].conn \in BOOLEAN  BY <1>3, SessionFields DEF CreatingIn, SessionInv
    <2> QED  BY <1>3, <2>1 DEF CreatingIn
<1>5. /\ SessionTypeOK /\ SessionsKnown /\ Counted /\ RegisteredInUse /\ CallsInOrder
    BY DEF SessionInv
<1>6. i \in Nat /\ i # NoSession /\ session[i] \in Session  BY <1>4, <1>5, SessionFields
<1>7. PICK x : x = [session[i] EXCEPT !.conn = TRUE, !.refs = 1]
    OBVIOUS
<1>8. x \in Session /\ x.pid = Pid(t) /\ x.refs = 1 /\ x.conn = TRUE /\ x.fds = session[i].fds
    BY <1>4, <1>6, <1>7 DEF Session
<1>9. /\ Step(t, "connect", "idle")
      /\ session' = [session EXCEPT ![i] = x]
      /\ registered' = [registered EXCEPT ![Pid(t)] = i]
      /\ store' = [store EXCEPT ![arg[t]] = [state |-> "open", session |-> i]]
      /\ registry' = [registry EXCEPT ![Pid(t)] = NoThread]
      /\ UNCHANGED <<life, inherited, guards, arg, opened>>
    <2>1. [session EXCEPT ![i].conn = TRUE, ![i].refs = 1] = [session EXCEPT ![i] = x]
        BY <1>4, <1>7
    <2> QED  BY <1>1, <2>1 DEF Connect
<1>10. Pid(t) \in Processes /\ arg[t] \in Stores /\ Alive(t) /\ at' = [at EXCEPT ![t] = "idle"]
    BY <1>9, <1>5, SessionAssumption DEF SessionTypeOK, Pid, Step
<1>11. store[arg[t]].state = "new" /\ registry[Pid(t)] = t  BY <1>2, <1>5 DEF CallsInOrder
<1>12. /\ DOMAIN session' = DOMAIN session /\ session' \in Seq(Session) /\ session'[i] = x
       /\ \A j \in DOMAIN session : j # i => session'[j] = session[j]
    BY <1>4, <1>5, <1>8, <1>9, SessionSet
<1>13. /\ store' \in [Stores -> [state : {"new", "open", "closed"}, session : Nat]]
       /\ store'[arg[t]] = [state |-> "open", session |-> i]
       /\ \A r \in Stores : r # arg[t] => store'[r] = store[r]
       /\ OpenIn(i)' = OpenIn(i) \union {arg[t]}
       /\ \A j : j # i => OpenIn(j)' = OpenIn(j)
    BY <1>5, <1>6, <1>9, <1>10, <1>11, StoreOpened
<1>14. OpenIn(i) = {}
    <2>1. CountedOf(i)  BY <1>4, <1>5 DEF Counted
    <2> QED  BY <1>4, <1>10, <2>1 DEF CountedOf, Alive
<1>15. /\ registered'[Pid(t)] = i /\ registry'[Pid(t)] = NoThread
       /\ \A p \in Processes : p # Pid(t) => registered'[p] = registered[p] /\ registry'[p] = registry[p]
    BY <1>5, <1>9, <1>10 DEF SessionTypeOK
<1>16. OnSession(t, i, "idle")
    BY <1>4, <1>8, <1>9, <1>10, <1>11, <1>12, <1>13, <1>15 DEF OnSession
<1>17. CountedOf(i)'
    <2>1. OpenIn(i)' = {arg[t]}  BY <1>13, <1>14
    <2>2. IsFiniteSet({arg[t]}) /\ Cardinality({arg[t]}) = 1  BY FS_Singleton
    <2> QED  BY <1>4, <1>8, <1>12, <1>15, <2>1, <2>2 DEF CountedOf
<1>18. SessionTypeOK'
    <2>1. at' \in [Threads -> {"idle", "open", "connect", "close", "closing", "guard"}]
        BY <1>5, <1>10 DEF SessionTypeOK
    <2>2. registry' \in [Processes -> Threads \union {NoThread, Gone}]
        BY <1>5, <1>9, <1>10 DEF SessionTypeOK
    <2>3. registered' \in [Processes -> Nat]  BY <1>5, <1>6, <1>9 DEF SessionTypeOK
    <2> QED  BY <1>5, <1>9, <1>12, <1>13, <2>1, <2>2, <2>3 DEF SessionTypeOK
<1>19. GuardsApart' /\ CallsInOrder'
    BY <1>2, <1>16, OthersKept
<1>20. /\ SessionsOfProcesses' /\ OneLock' /\ SessionsKnown' /\ Counted' /\ RegisteredInUse'
       /\ LockReleased'
    <2>1. OpenIn(i)' # {}  BY <1>13
    <2>2. session'[i].fds \subseteq {Pid(t)} \union (IF i \in DOMAIN session THEN session[i].fds ELSE {})
        BY <1>4, <1>8, <1>12
    <2>3. i \in DOMAIN session /\ session[i].fds # {}  BY <1>4
    <2>4. registered[Pid(t)] \in {NoSession, i} /\ registered'[Pid(t)] \in {NoSession, i}
        BY <1>3, <1>15
    <2>5. store'[arg[t]].session \in DOMAIN session'  BY <1>4, <1>12, <1>13
    <2> QED  BY <1>3, <1>13, <1>16, <1>17, <2>1, <2>2, <2>3, <2>4, <2>5, SessionChanged
<1> QED  BY <1>18, <1>19, <1>20 DEF SessionInv

\* The file cannot be used: the session that was begun releases it.
LEMMA ConnectFailsStep ==
    ASSUME SessionInv, NEW t \in Threads, ConnectFails(t)
    PROVE  SessionInv'
<1>1. PICK i : i = Creating(t)
    OBVIOUS
<1>2. at[t] = "connect"  BY DEF ConnectFails, Step
<1>3. CreatingIn(i, Pid(t)) /\ registered[Pid(t)] = NoSession  BY <1>1, <1>2, CreatingIs
<1>4. i \in DOMAIN session /\ session[i].pid = Pid(t) /\ Pid(t) \in session[i].fds
         /\ session[i].conn = FALSE /\ session[i].refs = 0
    <2>1. session[i].conn \in BOOLEAN  BY <1>3, SessionFields DEF CreatingIn, SessionInv
    <2> QED  BY <1>3, <2>1 DEF CreatingIn
<1>5. /\ SessionTypeOK /\ SessionsKnown /\ Counted /\ RegisteredInUse /\ CallsInOrder
    BY DEF SessionInv
<1>6. i \in Nat /\ i # NoSession /\ session[i] \in Session  BY <1>4, <1>5, SessionFields
<1>7. PICK x : x = [session[i] EXCEPT !.fds = @ \ {Pid(t)}]
    OBVIOUS
<1>8. x \in Session /\ x.pid = Pid(t) /\ x.refs = 0 /\ x.conn = FALSE /\ x.fds = session[i].fds \ {Pid(t)}
    BY <1>4, <1>6, <1>7 DEF Session
<1>9. /\ Step(t, "connect", "idle")
      /\ session' = [session EXCEPT ![i] = x]
      /\ registry' = [registry EXCEPT ![Pid(t)] = NoThread]
      /\ UNCHANGED <<life, registered, store, inherited, guards, arg, opened>>
    BY <1>1, <1>4, <1>7 DEF ConnectFails
<1>10. Pid(t) \in Processes /\ arg[t] \in Stores /\ Alive(t) /\ at' = [at EXCEPT ![t] = "idle"]
    BY <1>9, <1>5, SessionAssumption DEF SessionTypeOK, Pid, Step
<1>11. store[arg[t]].state = "new" /\ registry[Pid(t)] = t  BY <1>2, <1>5 DEF CallsInOrder
<1>12. /\ DOMAIN session' = DOMAIN session /\ session' \in Seq(Session) /\ session'[i] = x
       /\ \A j \in DOMAIN session : j # i => session'[j] = session[j]
    BY <1>4, <1>5, <1>8, <1>9, SessionSet
<1>13. \A j : OpenIn(j)' = OpenIn(j)  BY <1>9 DEF OpenIn
<1>14. OpenIn(i) = {}
    <2>1. CountedOf(i)  BY <1>4, <1>5 DEF Counted
    <2> QED  BY <1>4, <1>10, <2>1 DEF CountedOf, Alive
<1>15. \A p \in Processes : p # Pid(t) => registered'[p] = registered[p] /\ registry'[p] = registry[p]
    BY <1>5, <1>9, <1>10 DEF SessionTypeOK
<1>16. OnSession(t, i, "idle")
    BY <1>4, <1>8, <1>9, <1>10, <1>11, <1>12, <1>15 DEF OnSession
<1>17. CountedOf(i)'
    <2>1. OpenIn(i)' = {} /\ IsFiniteSet({}) /\ Cardinality({}) = 0  BY <1>13, <1>14, FS_EmptySet
    <2> QED  BY <1>8, <1>12, <2>1 DEF CountedOf
<1>18. SessionTypeOK'
    <2>1. at' \in [Threads -> {"idle", "open", "connect", "close", "closing", "guard"}]
        BY <1>5, <1>10 DEF SessionTypeOK
    <2>2. registry' \in [Processes -> Threads \union {NoThread, Gone}]
        BY <1>5, <1>9, <1>10 DEF SessionTypeOK
    <2> QED  BY <1>5, <1>9, <1>12, <2>1, <2>2 DEF SessionTypeOK
<1>19. GuardsApart' /\ CallsInOrder'
    BY <1>2, <1>16, OthersKept
<1>20. /\ SessionsOfProcesses' /\ OneLock' /\ SessionsKnown' /\ Counted' /\ RegisteredInUse'
       /\ LockReleased'
    <2>1. Pid(t) \notin session'[i].fds  BY <1>8, <1>12
    <2>2. session'[i].fds \subseteq {Pid(t)} \union (IF i \in DOMAIN session THEN session[i].fds ELSE {})
        BY <1>4, <1>8, <1>12
    <2>3. i \in DOMAIN session /\ session[i].fds # {}  BY <1>4
    <2>4. registered'[Pid(t)] = registered[Pid(t)] /\ registered'[Pid(t)] # i
        BY <1>3, <1>6, <1>9
    <2>5. store'[arg[t]].state = "new"  BY <1>9, <1>11
    <2> QED  BY <1>3, <1>13, <1>16, <1>17, <2>1, <2>2, <2>3, <2>4, <2>5, SessionChanged
<1> QED  BY <1>18, <1>19, <1>20 DEF SessionInv

\* A store is closed; the last one of its session closes the connection, releases
\* the file and takes the session off the registry.
LEMMA CloseEndStep ==
    ASSUME SessionInv, NEW t \in Threads, CloseEnd(t)
    PROVE  SessionInv'
<1>1. PICK i : i = store[arg[t]].session
    OBVIOUS
<1> DEFINE last == session[i].refs = 1
<1>2. PICK x : x = [session[i] EXCEPT !.refs = @ - 1, !.conn = @ /\ ~last,
                                      !.fds = IF last THEN @ \ {Pid(t)} ELSE @]
    OBVIOUS
<1>3. /\ SessionTypeOK /\ SessionsKnown /\ Counted /\ RegisteredInUse /\ CallsInOrder
    BY DEF SessionInv
<1>4. Step(t, "closing", "idle")  BY DEF CloseEnd
<1>5. Pid(t) \in Processes /\ arg[t] \in Stores /\ Alive(t) /\ at[t] = "closing"
         /\ at' = [at EXCEPT ![t] = "idle"]
    BY <1>3, <1>4, SessionAssumption DEF SessionTypeOK, Pid, Step
<1>6. store[arg[t]].state = "open" /\ session[i].pid = Pid(t) /\ registry[Pid(t)] = t
    BY <1>1, <1>3, <1>5 DEF CallsInOrder, Check, SessionOf
<1>7. i \in DOMAIN session  BY <1>1, <1>3, <1>5, <1>6 DEF SessionsKnown
<1>8. i \in Nat /\ i # NoSession /\ session[i] \in Session  BY <1>3, <1>7, SessionFields
<1>9. arg[t] \in OpenIn(i)  BY <1>1, <1>5, <1>6 DEF OpenIn
<1>10. /\ IsFiniteSet(OpenIn(i)) /\ session[i].refs = Cardinality(OpenIn(i))
       /\ session[i].conn = TRUE /\ Pid(t) \in session[i].fds /\ registered[Pid(t)] = i
    <2>1. CountedOf(i)  BY <1>3, <1>7 DEF Counted
    <2>2. session[i].conn \in BOOLEAN  BY <1>8 DEF Session
    <2> QED  BY <1>5, <1>6, <1>9, <2>1, <2>2 DEF CountedOf, Alive
\* What is left open, and its number.
<1>11. /\ IsFiniteSet(OpenIn(i) \ {arg[t]})
       /\ Cardinality(OpenIn(i) \ {arg[t]}) = session[i].refs - 1
       /\ session[i].refs - 1 \in Nat
       /\ last <=> OpenIn(i) \ {arg[t]} = {}
    <2>1. /\ IsFiniteSet(OpenIn(i) \ {arg[t]})
          /\ Cardinality(OpenIn(i) \ {arg[t]}) = session[i].refs - 1
        BY <1>9, <1>10, FS_RemoveElement
    <2>2. session[i].refs - 1 \in Nat  BY <2>1, FS_CardinalityType
    <2>3. session[i].refs \in Nat  BY <1>8 DEF Session
    <2>4. session[i].refs - 1 = 0 <=> OpenIn(i) \ {arg[t]} = {}
        BY <2>1, FS_EmptySet
    <2> QED  BY <2>1, <2>2, <2>3, <2>4
<1>12. /\ x.pid = Pid(t) /\ x.refs = session[i].refs - 1
       /\ x.conn <=> ~last
       /\ x.fds = (IF last THEN session[i].fds \ {Pid(t)} ELSE session[i].fds)
       /\ x \in Session
    <2>1. session[i] \in [pid : Processes, refs : Nat, conn : BOOLEAN, fds : SUBSET Processes]
        BY <1>8 DEF Session
    <2>2. /\ x.pid = session[i].pid /\ x.refs = session[i].refs - 1
          /\ x.conn = (session[i].conn /\ ~last)
          /\ x.fds = (IF last THEN session[i].fds \ {Pid(t)} ELSE session[i].fds)
        BY <1>2, <2>1
    <2>3. x \in Session
        <3>1. PICK n \in Nat, b \in BOOLEAN, f \in SUBSET Processes :
                  x = [session[i] EXCEPT !.refs = n, !.conn = b, !.fds = f]
            <4>1. (session[i].conn /\ ~last) \in BOOLEAN
                OBVIOUS
            <4>2. (IF last THEN session[i].fds \ {Pid(t)} ELSE session[i].fds) \in SUBSET Processes
                BY <2>1
            <4> QED  BY <1>2, <1>11, <4>1, <4>2
        <3> QED  BY <2>1, <3>1 DEF Session
    <2> QED  BY <1>6, <1>10, <2>2, <2>3
<1>13. /\ store' = [store EXCEPT ![arg[t]].state = "closed"]
       /\ session' = [session EXCEPT ![i] = x]
       /\ registered' = IF last THEN [registered EXCEPT ![Pid(t)] = NoSession] ELSE registered
       /\ registry' = [registry EXCEPT ![Pid(t)] = NoThread]
       /\ UNCHANGED <<life, inherited, guards, arg, opened>>
    <2>1. [session EXCEPT ![i].refs = @ - 1, ![i].conn = @ /\ ~last,
                          ![i].fds = IF last THEN @ \ {Pid(t)} ELSE @]
              = [session EXCEPT ![i] = x]
        BY <1>2, <1>7
    <2> QED  BY <1>1, <2>1 DEF CloseEnd
<1> HIDE DEF last
<1>14. /\ DOMAIN session' = DOMAIN session /\ session' \in Seq(Session) /\ session'[i] = x
       /\ \A j \in DOMAIN session : j # i => session'[j] = session[j]
    BY <1>3, <1>7, <1>12, <1>13, SessionSet
<1>15. /\ store' \in [Stores -> [state : {"new", "open", "closed"}, session : Nat]]
       /\ store'[arg[t]].state = "closed" /\ store'[arg[t]].session = i
       /\ \A s \in Stores : s # arg[t] => store'[s] = store[s]
    <2>1. store \in [Stores -> [state : {"new", "open", "closed"}, session : Nat]]
        BY <1>3 DEF SessionTypeOK
    <2> QED  BY <1>1, <1>5, <1>13, <2>1
<1>16. OpenIn(i)' = OpenIn(i) \ {arg[t]} /\ \A j : j # i => OpenIn(j)' = OpenIn(j)
    <2>1. OpenIn(i)' = OpenIn(i) \ {arg[t]}  BY <1>15 DEF OpenIn
    <2>2. \A j : j # i => OpenIn(j)' = OpenIn(j)  BY <1>1, <1>15 DEF OpenIn
    <2> QED  BY <2>1, <2>2
<1>17. /\ registered'[Pid(t)] = (IF last THEN NoSession ELSE i) /\ registry'[Pid(t)] = NoThread
       /\ \A p \in Processes : p # Pid(t) => registered'[p] = registered[p] /\ registry'[p] = registry[p]
    BY <1>3, <1>5, <1>10, <1>13 DEF SessionTypeOK
<1>18. OnSession(t, i, "idle")
    BY <1>5, <1>6, <1>7, <1>12, <1>13, <1>14, <1>15, <1>17 DEF OnSession
<1>19. CountedOf(i)'
    <2>1. OpenIn(i)' # {} => ~last  BY <1>11, <1>16
    <2> QED  BY <1>7, <1>10, <1>11, <1>12, <1>14, <1>16, <1>17, <2>1 DEF CountedOf
<1>20. SessionTypeOK'
    <2>1. at' \in [Threads -> {"idle", "open", "connect", "close", "closing", "guard"}]
        BY <1>3, <1>5 DEF SessionTypeOK
    <2>2. registry' \in [Processes -> Threads \union {NoThread, Gone}]
        BY <1>3, <1>5, <1>13 DEF SessionTypeOK
    <2>3. registered' \in [Processes -> Nat]  BY <1>3, <1>13 DEF SessionTypeOK, NoSession
    <2> QED  BY <1>3, <1>13, <1>14, <1>15, <2>1, <2>2, <2>3 DEF SessionTypeOK
<1>21. GuardsApart' /\ CallsInOrder'
    <2>1. store'[arg[t]].session = store[arg[t]].session /\ store'[arg[t]].state # "new"
        BY <1>1, <1>15
    <2> QED  BY <1>5, <1>18, <2>1, OthersKept
<1>22. /\ SessionsOfProcesses' /\ OneLock' /\ SessionsKnown' /\ Counted' /\ RegisteredInUse'
       /\ LockReleased'
    <2>1. session'[i].fds \subseteq {Pid(t)} \union (IF i \in DOMAIN session THEN session[i].fds ELSE {})
        BY <1>7, <1>12, <1>14
    <2>2. i \in DOMAIN session /\ session[i].fds # {}  BY <1>7, <1>10
    <2>3. registered[Pid(t)] \in {NoSession, i} /\ registered'[Pid(t)] \in {NoSession, i}
        BY <1>10, <1>17
    <2>4. registered'[Pid(t)] = i => OpenIn(i)' # {}  BY <1>8, <1>11, <1>16, <1>17
    <2>5. store'[arg[t]].session \in DOMAIN session'  BY <1>7, <1>14, <1>15
    <2>6. Pid(t) \in session'[i].fds => OpenIn(i)' # {}  BY <1>11, <1>12, <1>14, <1>16
    <2>7. at[t] # "connect"  BY <1>5
    <2> QED  BY <1>16, <1>18, <1>19, <2>1, <2>2, <2>3, <2>4, <2>5, <2>6, <2>7, SessionChanged
<1> QED  BY <1>20, <1>21, <1>22 DEF SessionInv

-----------------------------------------------------------------------------
\* Processes start, fork and end.

\* A session's process has started, so a process that starts has none.
LEMMA Unborn ==
    ASSUME SessionInv, NEW c \in Processes, life[c] = "unborn"
    PROVE  /\ \A i \in DOMAIN session : session[i].pid # c /\ c \notin session[i].fds
           /\ \A t \in Threads : Pid(t) = c => at[t] = "idle" /\ DOMAIN guards[t] = {}
<1>1. \A i \in DOMAIN session : session[i].pid # c /\ c \notin session[i].fds
    BY DEF SessionInv, SessionsOfProcesses
<1>2. \A t \in Threads : Pid(t) = c => at[t] = "idle"
    BY DEF SessionInv, CallsInOrder, Alive
<1>3. \A t \in Threads : Pid(t) = c => DOMAIN guards[t] = {}
    BY DEF SessionInv, GuardsApart, Alive
<1> QED  BY <1>1, <1>2, <1>3

\* A process is started anew.
LEMMA SpawnStep ==
    ASSUME SessionInv, NEW p \in Processes, Spawn(p)
    PROVE  SessionInv'
<1>1. /\ life[p] = "unborn" /\ life' = [life EXCEPT ![p] = "alive"]
      /\ UNCHANGED <<registry, registered, session, store, inherited, guards, at, arg, opened>>
    BY DEF Spawn
<1>2. \A q \in Processes : life'[q] = (IF q = p THEN "alive" ELSE life[q])
    BY <1>1 DEF SessionInv, SessionTypeOK
<1>3. /\ \A i \in DOMAIN session : session[i].pid # p /\ session[i].pid \in Processes
      /\ \A i \in DOMAIN session : \A q \in session[i].fds : q \in Processes /\ q # p
    BY <1>1, Unborn, SessionFields DEF SessionInv
<1>4. \A t \in Threads : Pid(t) \in Processes  BY SessionAssumption DEF Pid
<1>5. SessionTypeOK'  BY <1>1 DEF SessionInv, SessionTypeOK
<1>6. SessionsOfProcesses' /\ OneLock' /\ SessionsKnown'
    BY <1>1, <1>2, <1>3 DEF SessionInv, SessionsOfProcesses, OneLock, SessionsKnown
<1>7. \A i : OpenIn(i)' = OpenIn(i)  BY <1>1 DEF OpenIn
<1>8. Counted'  BY <1>1, <1>2, <1>3, <1>7 DEF SessionInv, Counted, CountedOf
<1>9. RegisteredInUse'
    BY <1>1, <1>2, <1>3, <1>7 DEF SessionInv, RegisteredInUse, SessionsKnown
<1>10. LockReleased'  BY <1>1, <1>7 DEF SessionInv, LockReleased
<1>11. CallsInOrder'
    BY <1>1, <1>2, <1>4 DEF SessionInv, CallsInOrder, Alive, Check, SessionOf, CreatingIn
<1>12. GuardsApart'
    BY <1>1, <1>2, <1>4 DEF SessionInv, GuardsApart, Alive, SessionOf, InGuardOf
<1> QED  BY <1>5, <1>6, <1>8, <1>9, <1>10, <1>11, <1>12 DEF SessionInv

\* A process ends: its threads, its connections and its hold of files are gone.
LEMMA EndStep ==
    ASSUME SessionInv, NEW p \in Processes, End(p)
    PROVE  SessionInv'
<1>1. /\ life[p] = "alive" /\ life' = [life EXCEPT ![p] = "ended"]
      /\ session' = [i \in DOMAIN session |->
                         [session[i] EXCEPT !.fds = @ \ {p}, !.conn = @ /\ session[i].pid # p]]
      /\ guards' = [t \in Threads |-> IF Pid(t) = p THEN << >> ELSE guards[t]]
      /\ at' = [t \in Threads |-> IF Pid(t) = p THEN "idle" ELSE at[t]]
      /\ UNCHANGED <<registry, registered, store, inherited, arg, opened>>
    BY DEF End
<1>0. UNCHANGED <<registry, registered, store, inherited, arg, opened>>  BY <1>1
<1>2. SessionTypeOK  BY DEF SessionInv
<1>3. \A q \in Processes : life'[q] = (IF q = p THEN "ended" ELSE life[q])
    BY <1>1, <1>2 DEF SessionTypeOK
<1>4. /\ DOMAIN session' = DOMAIN session
      /\ \A i \in DOMAIN session :
            /\ session[i].pid \in Processes /\ session[i].fds \subseteq Processes
            /\ session'[i].pid = session[i].pid /\ session'[i].refs = session[i].refs
            /\ session'[i].fds = session[i].fds \ {p}
            /\ session'[i].conn <=> session[i].conn /\ session[i].pid # p
    BY <1>1, <1>2, SessionFields DEF Session
<1>5. SessionTypeOK'
    <2>1. \A i \in DOMAIN session : session'[i] \in Session
        <3> SUFFICES ASSUME NEW i \in DOMAIN session  PROVE session'[i] \in Session
            OBVIOUS
        <3>1. session[i] \in [pid : Processes, refs : Nat, conn : BOOLEAN, fds : SUBSET Processes]
            BY <1>2, SessionFields DEF Session
        <3>2. PICK b \in BOOLEAN, f \in SUBSET Processes :
                  session'[i] = [session[i] EXCEPT !.fds = f, !.conn = b]
            <4>1. (session[i].conn /\ session[i].pid # p) \in BOOLEAN
                OBVIOUS
            <4> QED  BY <1>1, <3>1, <4>1
        <3> QED  BY <3>1, <3>2 DEF Session
    <2>2. session' \in Seq(Session)
        <3> DEFINE f == [i \in DOMAIN session |->
                            [session[i] EXCEPT !.fds = @ \ {p}, !.conn = @ /\ session[i].pid # p]]
        <3>1. session' = f  BY <1>1
        <3>2. f = [i \in DOMAIN session |-> f[i]]
            OBVIOUS
        <3> HIDE DEF f
        <3>3. \A i \in DOMAIN session : f[i] \in Session  BY <2>1, <3>1
        <3> QED  BY <1>2, <3>1, <3>2, <3>3, SessionsAgain
    <2>3. guards' \in [Threads -> Seq(Stores)]
        <3>1. << >> \in Seq(Stores)
            OBVIOUS
        <3> QED  BY <1>1, <1>2, <3>1 DEF SessionTypeOK
    <2>4. at' \in [Threads -> {"idle", "open", "connect", "close", "closing", "guard"}]
        BY <1>1, <1>2 DEF SessionTypeOK
    <2>5. life' \in [Processes -> {"unborn", "alive", "ended"}]  BY <1>1, <1>2 DEF SessionTypeOK
    <2> QED  BY <1>1, <1>2, <2>2, <2>3, <2>4, <2>5 DEF SessionTypeOK
<1>6. \A t \in Threads :
         /\ Pid(t) \in Processes
         /\ at'[t] = (IF Pid(t) = p THEN "idle" ELSE at[t])
         /\ guards'[t] = (IF Pid(t) = p THEN << >> ELSE guards[t])
    BY <1>1, SessionAssumption DEF Pid
<1>7. \A i : OpenIn(i)' = OpenIn(i)  BY <1>0 DEF OpenIn
<1>8. SessionsOfProcesses'
    BY <1>3, <1>4 DEF SessionInv, SessionsOfProcesses
<1>9. OneLock' /\ SessionsKnown'
    BY <1>0, <1>4 DEF SessionInv, OneLock, SessionsKnown
<1>10. Counted'
    <2> SUFFICES ASSUME NEW i \in DOMAIN session, life'[session[i].pid] = "alive"
                 PROVE  /\ IsFiniteSet(OpenIn(i)) /\ session[i].refs = Cardinality(OpenIn(i))
                        /\ session'[i].conn <=> OpenIn(i) # {}
                        /\ OpenIn(i) # {} =>
                              session[i].pid \in session'[i].fds /\ registered[session[i].pid] = i
        BY <1>0, <1>4, <1>7 DEF Counted, CountedOf
    <2>1. session[i].pid # p /\ life[session[i].pid] = "alive"  BY <1>3, <1>4
    <2> QED  BY <1>4, <2>1 DEF SessionInv, Counted, CountedOf
<1>11. RegisteredInUse'
    BY <1>0, <1>3, <1>4, <1>7 DEF SessionInv, RegisteredInUse, SessionsKnown
<1>12. LockReleased'
    <2> SUFFICES ASSUME NEW i \in DOMAIN session, session[i].pid \in session'[i].fds, OpenIn(i) = {}
                 PROVE  \E t \in Threads : /\ Pid(t) = session[i].pid /\ at'[t] = "connect"
                                           /\ registry[session[i].pid] = t
        BY <1>0, <1>4, <1>7 DEF LockReleased
    <2>1. session[i].pid # p /\ session[i].pid \in session[i].fds  BY <1>4
    <2> QED  BY <1>6, <2>1 DEF SessionInv, LockReleased
<1>13. CallsInOrder'
    <2> SUFFICES ASSUME NEW t \in Threads, at'[t] # "idle"
                 PROVE  /\ Alive(t)'
                        /\ at'[t] \in {"open", "connect"} =>
                              /\ store[arg[t]].state = "new"
                              /\ \A u \in Threads \ {t} :
                                     at'[u] \in {"open", "connect"} => arg[u] # arg[t]
                        /\ at'[t] \in {"connect", "closing"} => registry[Pid(t)] = t
                        /\ at'[t] = "closing" => Check(t, arg[t])'
                        /\ at'[t] = "connect" =>
                              registered[Pid(t)] = NoSession /\ \E i \in DOMAIN session : CreatingIn(i, Pid(t))'
        BY <1>0, <1>4 DEF CallsInOrder, Check, SessionOf
    <2>1. Pid(t) # p /\ at'[t] = at[t] /\ CallsInOrder  BY <1>6 DEF SessionInv
    <2>2. Alive(t)'  BY <1>3, <1>6, <2>1 DEF CallsInOrder, Alive
    <2>3. at[t] \in {"open", "connect"} =>
              /\ store[arg[t]].state = "new"
              /\ \A u \in Threads \ {t} : at'[u] \in {"open", "connect"} => arg[u] # arg[t]
        BY <1>6, <2>1 DEF CallsInOrder
    <2>4. ASSUME at[t] = "closing"  PROVE Check(t, arg[t])'
        <3>1. Check(t, arg[t])  BY <2>1, <2>4 DEF CallsInOrder
        <3>2. arg[t] \in Stores  BY <1>2 DEF SessionTypeOK
        <3>3. store[arg[t]].session \in DOMAIN session
            BY <3>1, <3>2 DEF Check, SessionInv, SessionsKnown
        <3> QED  BY <1>0, <1>4, <3>1, <3>3 DEF Check, SessionOf
    <2>5. ASSUME at[t] = "connect"  PROVE \E i \in DOMAIN session : CreatingIn(i, Pid(t))'
        <3>1. PICK i \in DOMAIN session : CreatingIn(i, Pid(t))  BY <2>1, <2>5 DEF CallsInOrder
        <3>2. CreatingIn(i, Pid(t))'  BY <1>4, <2>1, <3>1 DEF CreatingIn
        <3> QED  BY <3>2
    <2> QED  BY <2>1, <2>2, <2>3, <2>4, <2>5 DEF CallsInOrder
<1>14. GuardsApart'
    <2> SUFFICES ASSUME NEW t \in Threads, NEW k \in DOMAIN guards'[t]
                 PROVE  /\ Alive(t)'
                        /\ store[guards'[t][k]].state # "new"
                        /\ session'[store[guards'[t][k]].session].pid = Pid(t)
                        /\ \A u \in Threads \ {t} : \A l \in DOMAIN guards'[u] :
                              store[guards'[u][l]].session # store[guards'[t][k]].session
        BY <1>0 DEF GuardsApart, SessionOf, InGuardOf
    <2>1. Pid(t) # p /\ guards'[t] = guards[t] /\ GuardsApart  BY <1>6 DEF SessionInv
    <2>2. k \in DOMAIN guards[t] /\ guards[t] \in Seq(Stores)  BY <1>2, <2>1 DEF SessionTypeOK
    <2>3. guards[t][k] \in Stores  BY <2>2
    <2>4. Alive(t) /\ store[guards[t][k]].state # "new"
             /\ session[store[guards[t][k]].session].pid = Pid(t)
             /\ \A u \in Threads \ {t} : \A l \in DOMAIN guards[u] :
                    store[guards[u][l]].session # store[guards[t][k]].session
        BY <2>1, <2>2 DEF GuardsApart, SessionOf, InGuardOf
    <2>5. store[guards[t][k]].session \in DOMAIN session
        BY <2>3, <2>4 DEF SessionInv, SessionsKnown
    <2>6. Alive(t)'  BY <1>3, <1>6, <2>1, <2>4 DEF Alive
    <2>7. \A u \in Threads \ {t} : \A l \in DOMAIN guards'[u] :
              store[guards'[u][l]].session # store[guards[t][k]].session
        BY <1>6, <2>4
    <2> QED  BY <1>4, <2>1, <2>4, <2>5, <2>6, <2>7
<1> QED  BY <1>5, <1>8, <1>9, <1>10, <1>11, <1>12, <1>13, <1>14 DEF SessionInv

\* A forked child has its parent's files, registry and stores, and no session.
LEMMA ForkStep ==
    ASSUME SessionInv, NEW t \in Threads, NEW c \in Processes, Fork(t, c)
    PROVE  SessionInv'
<1>1. PICK p : p = Pid(t)
    OBVIOUS
<1>2. /\ Alive(t) /\ at[t] = "idle" /\ at' = [at EXCEPT ![t] = "idle"]
      /\ life[c] = "unborn" /\ life' = [life EXCEPT ![c] = "alive"]
      /\ registered' = [registered EXCEPT ![c] = registered[p]]
      /\ registry' = [registry EXCEPT ![c] = IF RegistryFree(t) THEN NoThread ELSE Gone]
      /\ inherited' = [inherited EXCEPT ![c] = {s \in Stores : Constructed(p, s)}]
      /\ session' = [i \in DOMAIN session |-> IF p \in session[i].fds
                          THEN [session[i] EXCEPT !.fds = @ \union {c}] ELSE session[i]]
      /\ UNCHANGED <<store, guards, arg, opened>>
    BY <1>1 DEF Fork, Step
<1>3. SessionTypeOK  BY DEF SessionInv
<1>4. at' = at /\ UNCHANGED <<store, guards, arg>>  BY <1>2, <1>3 DEF SessionTypeOK
<1>5. p \in Processes /\ life[p] = "alive" /\ \A u \in Threads : Pid(u) \in Processes
    BY <1>1, <1>2, SessionAssumption DEF Pid, Alive
<1>6. /\ \A q \in Processes : life'[q] = (IF q = c THEN "alive" ELSE life[q])
      /\ \A q \in Processes : q # c => registry'[q] = registry[q] /\ registered'[q] = registered[q]
      /\ registered'[c] = registered[p]
    BY <1>2, <1>3 DEF SessionTypeOK
<1>7. /\ DOMAIN session' = DOMAIN session
      /\ \A i \in DOMAIN session :
            /\ session[i].pid \in Processes /\ session[i].fds \subseteq Processes
            /\ session'[i].pid = session[i].pid /\ session'[i].refs = session[i].refs
            /\ session'[i].conn = session[i].conn
            /\ session[i].fds \subseteq session'[i].fds
            /\ session'[i].fds \subseteq session[i].fds \union {c}
            /\ session'[i].fds # {} => session[i].fds # {}
            /\ session[i].pid # c
    <2>1. \A i \in DOMAIN session : session[i] \in Session /\ session[i].pid # c
        BY <1>2, <1>3, SessionFields, Unborn
    <2> QED  BY <1>2, <2>1 DEF Session
<1>8. SessionTypeOK'
    <2>1. \A i \in DOMAIN session : session'[i] \in Session
        BY <1>2, <1>3, SessionFields DEF Session
    <2>2. session' \in Seq(Session)
        <3> DEFINE f == [i \in DOMAIN session |-> IF p \in session[i].fds
                             THEN [session[i] EXCEPT !.fds = @ \union {c}] ELSE session[i]]
        <3>1. session' = f  BY <1>2
        <3>2. f = [i \in DOMAIN session |-> f[i]]
            OBVIOUS
        <3> HIDE DEF f
        <3>3. \A i \in DOMAIN session : f[i] \in Session  BY <2>1, <3>1
        <3> QED  BY <1>3, <3>1, <3>2, <3>3, SessionsAgain
    <2>3. life' \in [Processes -> {"unborn", "alive", "ended"}]  BY <1>2, <1>3 DEF SessionTypeOK
    <2>4. registry' \in [Processes -> Threads \union {NoThread, Gone}]
        BY <1>2, <1>3 DEF SessionTypeOK
    <2>5. registered' \in [Processes -> Nat]  BY <1>2, <1>3, <1>5 DEF SessionTypeOK
    <2>6. inherited' \in [Processes -> SUBSET Stores]  BY <1>2, <1>3 DEF SessionTypeOK
    <2>7. UNCHANGED <<at, store, guards, arg, opened>>  BY <1>2, <1>4
    <2> QED  BY <1>3, <2>2, <2>3, <2>4, <2>5, <2>6, <2>7 DEF SessionTypeOK
<1>9. \A i : OpenIn(i)' = OpenIn(i)  BY <1>4 DEF OpenIn
<1>10. SessionsOfProcesses'  BY <1>6, <1>7 DEF SessionInv, SessionsOfProcesses
<1>11. OneLock'  BY <1>7 DEF SessionInv, OneLock
<1>12. SessionsKnown'
    BY <1>4, <1>5, <1>6, <1>7 DEF SessionInv, SessionsKnown
<1>13. Counted'
    <2> SUFFICES ASSUME NEW i \in DOMAIN session, life'[session[i].pid] = "alive"
                 PROVE  /\ IsFiniteSet(OpenIn(i)) /\ session[i].refs = Cardinality(OpenIn(i))
                        /\ session'[i].conn <=> OpenIn(i) # {}
                        /\ OpenIn(i) # {} =>
                              session[i].pid \in session'[i].fds /\ registered[session[i].pid] = i
        BY <1>6, <1>7, <1>9 DEF Counted, CountedOf
    <2>1. life[session[i].pid] = "alive"  BY <1>6, <1>7
    <2> QED  BY <1>7, <2>1 DEF SessionInv, Counted, CountedOf
<1>14. RegisteredInUse'
    <2> DEFINE Open(j) == {s \in Stores : store[s].state = "open" /\ store[s].session = j}
    <2> SUFFICES ASSUME NEW q \in Processes, life'[q] = "alive", registered'[q] # NoSession,
                        session'[registered'[q]].pid = q
                 PROVE  Open(registered'[q]) # {}
        BY <1>4 DEF RegisteredInUse, OpenIn
    <2>1. SessionsKnown /\ RegisteredInUse  BY DEF SessionInv
    <2>2. q # c  BY <1>5, <1>6, <1>7, <2>1 DEF SessionsKnown
    <2>3. registered'[q] = registered[q] /\ life[q] = "alive"  BY <1>6, <2>2
    <2>4. session[registered[q]].pid = q  BY <1>7, <2>1, <2>3 DEF SessionsKnown
    <2>5. OpenIn(registered[q]) # {}  BY <2>1, <2>3, <2>4 DEF RegisteredInUse
    <2> QED  BY <2>3, <2>5 DEF OpenIn
<1>15. LockReleased'
    <2> SUFFICES ASSUME NEW i \in DOMAIN session, session[i].pid \in session'[i].fds, OpenIn(i) = {}
                 PROVE  \E u \in Threads : /\ Pid(u) = session[i].pid /\ at[u] = "connect"
                                           /\ registry'[session[i].pid] = u
        BY <1>4, <1>7, <1>9 DEF LockReleased
    <2>1. session[i].pid \in session[i].fds /\ registry'[session[i].pid] = registry[session[i].pid]
        BY <1>6, <1>7
    <2> QED  BY <2>1 DEF SessionInv, LockReleased
<1>16. CallsInOrder'
    <2> SUFFICES ASSUME NEW u \in Threads, at[u] # "idle"
                 PROVE  /\ Alive(u)'
                        /\ at[u] \in {"open", "connect"} =>
                              /\ store[arg[u]].state = "new"
                              /\ \A v \in Threads \ {u} :
                                     at[v] \in {"open", "connect"} => arg[v] # arg[u]
                        /\ at[u] \in {"connect", "closing"} => registry'[Pid(u)] = u
                        /\ at[u] = "closing" => Check(u, arg[u])'
                        /\ at[u] = "connect" =>
                              registered'[Pid(u)] = NoSession /\ \E i \in DOMAIN session : CreatingIn(i, Pid(u))'
        BY <1>4, <1>7 DEF CallsInOrder, Check, SessionOf
    <2>1. Pid(u) # c /\ CallsInOrder /\ Pid(u) \in Processes
        BY <1>2, <1>5, Unborn DEF SessionInv
    <2>2. Alive(u)'  BY <1>6, <2>1 DEF CallsInOrder, Alive
    <2>3. at[u] \in {"connect", "closing"} => registry'[Pid(u)] = u
        BY <1>6, <2>1 DEF CallsInOrder
    <2>4. ASSUME at[u] = "closing"  PROVE Check(u, arg[u])'
        <3>1. Check(u, arg[u])  BY <2>1, <2>4 DEF CallsInOrder
        <3>2. arg[u] \in Stores  BY <1>3 DEF SessionTypeOK
        <3>3. store[arg[u]].session \in DOMAIN session
            BY <3>1, <3>2 DEF Check, SessionInv, SessionsKnown
        <3> QED  BY <1>4, <1>7, <3>1, <3>3 DEF Check, SessionOf
    <2>5. ASSUME at[u] = "connect"
          PROVE  registered'[Pid(u)] = NoSession /\ \E i \in DOMAIN session : CreatingIn(i, Pid(u))'
        <3>1. registered'[Pid(u)] = NoSession  BY <1>6, <2>1, <2>5 DEF CallsInOrder
        <3>2. PICK i \in DOMAIN session : CreatingIn(i, Pid(u))  BY <2>1, <2>5 DEF CallsInOrder
        <3>3. CreatingIn(i, Pid(u))'  BY <1>7, <2>1, <3>2 DEF CreatingIn
        <3> QED  BY <3>1, <3>3
    <2> QED  BY <2>1, <2>2, <2>3, <2>4, <2>5 DEF CallsInOrder
<1>17. GuardsApart'
    <2> SUFFICES ASSUME NEW u \in Threads, NEW k \in DOMAIN guards[u]
                 PROVE  /\ Alive(u)'
                        /\ store[guards[u][k]].state # "new"
                        /\ session'[store[guards[u][k]].session].pid = Pid(u)
                        /\ \A v \in Threads \ {u} : ~InGuardOf(v, store[guards[u][k]].session)
        BY <1>4 DEF GuardsApart, SessionOf, InGuardOf
    <2>1. GuardsApart  BY DEF SessionInv
    <2>2. guards[u][k] \in Stores
        <3>1. guards[u] \in Seq(Stores)  BY <1>3 DEF SessionTypeOK
        <3> QED  BY <3>1
    <2>3. Alive(u) /\ store[guards[u][k]].state # "new"
             /\ session[store[guards[u][k]].session].pid = Pid(u)
             /\ \A v \in Threads \ {u} : ~InGuardOf(v, store[guards[u][k]].session)
        BY <2>1 DEF GuardsApart, SessionOf
    <2>4. store[guards[u][k]].session \in DOMAIN session
        BY <2>2, <2>3 DEF SessionInv, SessionsKnown
    <2>5. Alive(u)'  BY <1>5, <1>6, <2>3 DEF Alive
    <2> QED  BY <1>7, <2>3, <2>4, <2>5
<1> QED  BY <1>8, <1>10, <1>11, <1>12, <1>13, <1>14, <1>15, <1>16, <1>17 DEF SessionInv

\* The invariant holds before the first call.
LEMMA SessionBegins == SessionInit => SessionInv
<1> SUFFICES ASSUME SessionInit  PROVE SessionInv
    OBVIOUS
<1>1. /\ life = [p \in Processes |-> IF p = First THEN "alive" ELSE "unborn"]
      /\ registry = [p \in Processes |-> NoThread] /\ registered = [p \in Processes |-> NoSession]
      /\ session = << >> /\ DOMAIN session = {}
      /\ store = [s \in Stores |-> [state |-> "new", session |-> NoSession]]
      /\ inherited = [p \in Processes |-> {}] /\ guards = [t \in Threads |-> << >>]
      /\ at = [t \in Threads |-> "idle"] /\ arg = [t \in Threads |-> SomeStore] /\ opened = 0
    BY DEF SessionInit
<1>2. SomeStore \in Stores  BY SessionAssumption DEF SomeStore
<1>3. SessionTypeOK
    <2>1. session \in Seq(Session) /\ << >> \in Seq(Stores)  BY <1>1
    <2> QED  BY <1>1, <1>2, <2>1 DEF SessionTypeOK, NoSession
<1>4. SessionsOfProcesses /\ OneLock /\ SessionsKnown /\ Counted /\ RegisteredInUse /\ LockReleased
    BY <1>1 DEF SessionsOfProcesses, OneLock, SessionsKnown, Counted, RegisteredInUse, LockReleased
<1>5. CallsInOrder  BY <1>1 DEF CallsInOrder
<1>6. GuardsApart  BY <1>1 DEF GuardsApart
<1> QED  BY <1>3, <1>4, <1>5, <1>6 DEF SessionInv

\* Every step keeps it.
LEMMA SessionSteps == SessionInv /\ [SessionNext]_sessionVars => SessionInv'
<1> SUFFICES ASSUME SessionInv, [SessionNext]_sessionVars  PROVE SessionInv'
    OBVIOUS
<1>1. ASSUME NEW t \in Threads, NEW s \in Stores,
             CallOpen(t, s) \/ CallClose(t, s) \/ CallGuard(t, s)
      PROVE  SessionInv'
    BY <1>1, QuietStep
<1>2. ASSUME NEW t \in Threads, Proceed(t)  PROVE SessionInv'
    <2>1. CASE OpenRefused(t) \/ CloseNothing(t) \/ CloseBegin(t)  BY <2>1, QuietStep
    <2>2. CASE OpenShared(t)  BY <2>2, OpenSharedStep
    <2>3. CASE LockFile(t)  BY <2>3, LockFileStep
    <2>4. CASE Connect(t)  BY <2>4, ConnectStep
    <2>5. CASE ConnectFails(t)  BY <2>5, ConnectFailsStep
    <2>6. CASE CloseEnd(t)  BY <2>6, CloseEndStep
    <2>7. CASE Enter(t) \/ Leave(t)  BY <2>7, GuardStep
    <2> QED  BY <1>2, <2>1, <2>2, <2>3, <2>4, <2>5, <2>6, <2>7 DEF Proceed
<1>3. ASSUME NEW t \in Threads, NEW c \in Processes, Fork(t, c)  PROVE SessionInv'
    BY <1>3, ForkStep
<1>4. ASSUME NEW p \in Processes, Spawn(p) \/ End(p)  PROVE SessionInv'
    BY <1>4, SpawnStep, EndStep
<1>5. CASE UNCHANGED sessionVars
    <2>1. UNCHANGED <<life, registry, registered, session, store, inherited, guards, at, arg, opened>>
        BY <1>5 DEF sessionVars
    <2>2. SessionTypeOK'  BY <2>1 DEF SessionInv, SessionTypeOK
    <2>3. LockReleased'  BY <2>1 DEF SessionInv, LockReleased, OpenIn
    <2>4. CallsInOrder'
        BY <2>1 DEF SessionInv, CallsInOrder, Alive, Check, SessionOf, CreatingIn
    <2>5. GuardsApart'  BY <2>1 DEF SessionInv, GuardsApart, Alive, SessionOf, InGuardOf
    <2> QED  BY <2>1, <2>2, <2>3, <2>4, <2>5, SessionsStill DEF SessionInv
<1> QED  BY <1>1, <1>2, <1>3, <1>4, <1>5 DEF SessionNext

-----------------------------------------------------------------------------
\* What holds of the owners of a file.

\* The invariant holds in every state of every behaviour.
THEOREM SessionInvariance == SessionSpec => []SessionInv
BY SessionBegins, SessionSteps, PTL DEF SessionSpec

\* Every variable keeps its type.
COROLLARY SessionTypeCorrect == SessionSpec => []SessionTypeOK
<1>1. SessionInv => SessionTypeOK  BY DEF SessionInv
<1> QED  BY <1>1, SessionInvariance, PTL

\* The file has one owner at a time, which has it as long as it has a store open
\* and no longer, and one thread at a time in a guard (store.py: _Session,
\* SQLiteEventStore).
COROLLARY OwnershipAlways == SessionSpec => []Ownership
BY Owned, SessionInvariance, PTL

\* The body of GuardedStoreStays.
GuardedStaysStep ==
    \A t \in Threads, s \in Stores :
        /\ \E k \in DOMAIN guards[t] : guards[t][k] = s
        /\ Running(s) /\ ~Running(s)' /\ life'[Pid(t)] = "alive"
        => at[t] = "closing" /\ arg[t] = s

\* What keeps every running store running.
StoresKept ==
    /\ \A s \in Stores : store[s].state # "new" => store'[s] = store[s]
    /\ \A i \in DOMAIN session : session'[i].pid = session[i].pid
    /\ \A p \in Processes : life[p] = "alive" => life'[p] = "alive"

\* Every step but the end of a close and of a process keeps them.
LEMMA StepsKeepStores ==
    ASSUME SessionInv, SessionNext,
           \A u \in Threads : ~CloseEnd(u), \A p \in Processes : ~End(p)
    PROVE  StoresKept
<1>1. SessionTypeOK /\ CallsInOrder  BY DEF SessionInv
<1>2. CASE UNCHANGED <<life, session, store>>  BY <1>2 DEF StoresKept
<1>3. ASSUME NEW t \in Threads, OpenShared(t) \/ Connect(t),
             NEW i \in DOMAIN session, NEW x, x.pid = session[i].pid,
             session' = [session EXCEPT ![i] = x]
      PROVE  StoresKept
    <2>1. store[arg[t]].state = "new"  BY <1>1, <1>3 DEF OpenShared, Connect, Step, CallsInOrder
    <2>2. \A s \in Stores : s # arg[t] => store'[s] = store[s]
        BY <1>1, <1>3 DEF OpenShared, Connect, SessionTypeOK
    <2>3. life' = life  BY <1>3 DEF OpenShared, Connect
    <2>4. \A j \in DOMAIN session : session'[j].pid = session[j].pid  BY <1>3
    <2> QED  BY <2>1, <2>2, <2>3, <2>4 DEF StoresKept
<1>4. ASSUME NEW t \in Threads, OpenShared(t)  PROVE StoresKept
    <2>1. PICK i : i = registered[Pid(t)]
        OBVIOUS
    <2>2. i \in DOMAIN session
        BY <1>4, <2>1, SessionAssumption DEF OpenShared, SessionInv, SessionsKnown, Pid
    <2>3. PICK x : x = [session[i] EXCEPT !.refs = @ + 1]
        OBVIOUS
    <2>4. x.pid = session[i].pid  BY <1>1, <2>2, <2>3, SessionFields DEF Session
    <2>5. session' = [session EXCEPT ![i] = x]  BY <1>4, <2>1, <2>2, <2>3 DEF OpenShared
    <2> QED  BY <1>3, <1>4, <2>2, <2>4, <2>5
<1>5. ASSUME NEW t \in Threads, Connect(t)  PROVE StoresKept
    <2>1. PICK i : i = Creating(t)
        OBVIOUS
    <2>2. i \in DOMAIN session  BY <1>5, <2>1, CreatingIs DEF Connect, Step, CreatingIn
    <2>3. PICK x : x = [session[i] EXCEPT !.conn = TRUE, !.refs = 1]
        OBVIOUS
    <2>4. x.pid = session[i].pid  BY <1>1, <2>2, <2>3, SessionFields DEF Session
    <2>5. [session EXCEPT ![i].conn = TRUE, ![i].refs = 1] = [session EXCEPT ![i] = x]
        BY <2>2, <2>3
    <2>6. session' = [session EXCEPT ![i] = x]  BY <1>5, <2>1, <2>5 DEF Connect
    <2> QED  BY <1>3, <1>5, <2>2, <2>4, <2>6
<1>6. ASSUME NEW t \in Threads, ConnectFails(t)  PROVE StoresKept
    <2>1. PICK i : i = Creating(t)
        OBVIOUS
    <2>2. i \in DOMAIN session  BY <1>6, <2>1, CreatingIs DEF ConnectFails, Step, CreatingIn
    <2>3. PICK x : x = [session[i] EXCEPT !.fds = @ \ {Pid(t)}]
        OBVIOUS
    <2>4. x.pid = session[i].pid  BY <1>1, <2>2, <2>3, SessionFields DEF Session
    <2>5. session' = [session EXCEPT ![i] = x]  BY <1>6, <2>1, <2>2, <2>3 DEF ConnectFails
    <2>6. UNCHANGED <<life, store>>  BY <1>6 DEF ConnectFails
    <2> QED  BY <2>2, <2>4, <2>5, <2>6 DEF StoresKept
<1>7. ASSUME NEW t \in Threads, LockFile(t)  PROVE StoresKept
    <2>1. PICK x : x = [pid |-> Pid(t), refs |-> 0, conn |-> FALSE, fds |-> {Pid(t)}]
        OBVIOUS
    <2>2. session' = Append(session, x) /\ UNCHANGED <<life, store>>  BY <1>7, <2>1 DEF LockFile
    <2>3. x \in Session  BY <2>1, SessionAssumption DEF Session, Pid
    <2>4. \A i \in 1..Len(session) : Append(session, x)[i] = session[i]
        BY <1>1, <2>3 DEF SessionTypeOK
    <2> QED  BY <1>1, <2>2, <2>4, SessionFields DEF StoresKept
<1>8. ASSUME NEW t \in Threads, NEW c \in Processes, Fork(t, c)  PROVE StoresKept
    <2>1. UNCHANGED store /\ life' = [life EXCEPT ![c] = "alive"]  BY <1>8 DEF Fork
    <2>2. PICK p : p = Pid(t)
        OBVIOUS
    <2>3. session' = [i \in DOMAIN session |-> IF p \in session[i].fds
                          THEN [session[i] EXCEPT !.fds = @ \union {c}] ELSE session[i]]
        BY <1>8, <2>2 DEF Fork
    <2>4. \A i \in DOMAIN session : session'[i].pid = session[i].pid
        BY <1>1, <2>3, SessionFields DEF Session
    <2> QED  BY <1>1, <2>1, <2>4 DEF StoresKept, SessionTypeOK
<1>9. ASSUME NEW p \in Processes, Spawn(p)  PROVE StoresKept
    BY <1>1, <1>9 DEF Spawn, StoresKept, SessionTypeOK
<1>10. ASSUME NEW t \in Threads,
              \/ \E s \in Stores : CallOpen(t, s) \/ CallClose(t, s) \/ CallGuard(t, s)
              \/ OpenRefused(t) \/ CloseNothing(t) \/ CloseBegin(t) \/ Enter(t) \/ Leave(t)
       PROVE  StoresKept
    <2>1. UNCHANGED <<life, session, store>>
        BY <1>10 DEF CallOpen, CallClose, CallGuard, Call, OpenRefused, CloseNothing, CloseBegin,
                     Enter, Leave
    <2> QED  BY <1>2, <2>1
<1> QED  BY <1>4, <1>5, <1>6, <1>7, <1>8, <1>9, <1>10 DEF SessionNext, Proceed

\* So a store stops running when it is closed or its process ends; the thread that
\* closes it has waited for the guards of the others.
LEMMA GuardedStays == SessionInv /\ SessionNext => GuardedStaysStep
<1> SUFFICES ASSUME SessionInv, SessionNext, NEW t \in Threads, NEW s \in Stores,
                    NEW k \in DOMAIN guards[t], guards[t][k] = s,
                    Running(s), ~Running(s)', life'[Pid(t)] = "alive"
             PROVE  at[t] = "closing" /\ arg[t] = s
    BY DEF GuardedStaysStep
<1>1. store[s].state = "open" /\ life[SessionOf(s).pid] = "alive"  BY DEF Running
<1>2. store[s].session \in DOMAIN session /\ SessionOf(s).pid \in Processes
    BY <1>1, RunningStore, SessionFields DEF SessionInv, SessionOf
<1>3. SessionOf(s).pid = Pid(t)  BY DEF SessionInv, GuardsApart
<1>4. ~StoresKept  BY <1>1, <1>2 DEF StoresKept, Running, SessionOf
<1>5. ASSUME NEW p \in Processes, End(p)  PROVE FALSE
    <2>1. UNCHANGED store /\ life' = [life EXCEPT ![p] = "ended"]  BY <1>5 DEF End
    <2>2. session' = [i \in DOMAIN session |->
                         [session[i] EXCEPT !.fds = @ \ {p}, !.conn = @ /\ session[i].pid # p]]
        BY <1>5 DEF End
    <2>3. session'[store[s].session].pid = SessionOf(s).pid
        BY <1>2, <2>2, SessionFields DEF Session, SessionOf, SessionInv
    <2>4. life'[SessionOf(s).pid] # "alive"
        BY <1>1, <2>1, <2>3 DEF Running, SessionOf
    <2> QED  BY <1>3, <2>4
<1>6. ASSUME NEW u \in Threads, CloseEnd(u)  PROVE at[t] = "closing" /\ arg[t] = s
    <2>2. /\ at[u] = "closing" /\ UNCHANGED life /\ CanLockSession(u, arg[u])
          /\ store' = [store EXCEPT ![arg[u]].state = "closed"]
        BY <1>6 DEF CloseEnd, Step
    <2>3. PICK i : i = store[arg[u]].session
        OBVIOUS
    <2>4. arg[u] \in Stores /\ store[arg[u]].state = "open"
        BY <2>2 DEF SessionInv, SessionTypeOK, CallsInOrder, Check
    <2>5. i \in DOMAIN session  BY <2>3, <2>4 DEF SessionInv, SessionsKnown
    <2>6. session'[store[s].session].pid = SessionOf(s).pid
        <3> DEFINE last == session[i].refs = 1
        <3>1. session' = [session EXCEPT ![i].refs = @ - 1, ![i].conn = @ /\ ~last,
                                         ![i].fds = IF last THEN @ \ {Pid(u)} ELSE @]
            BY <1>6, <2>3 DEF CloseEnd
        <3> HIDE DEF last
        <3>2. \A j \in DOMAIN session : session[j] \in Session
            BY SessionFields DEF SessionInv
        <3>3. \A j \in DOMAIN session : session'[j].pid = session[j].pid
            BY <2>5, <3>1, <3>2 DEF Session
        <3> QED  BY <1>2, <3>3 DEF SessionOf
    <2>7. s = arg[u]
        <3>1. s # arg[u] => store'[s] = store[s]  BY <2>2 DEF SessionInv, SessionTypeOK
        <3> QED  BY <1>1, <2>2, <2>6, <3>1 DEF Running, SessionOf
    <2>8. InGuardOf(t, store[arg[u]].session)  BY <2>7 DEF InGuardOf
    <2>9. t = u  BY <2>2, <2>8 DEF CanLockSession
    <2> QED  BY <2>2, <2>7, <2>9
<1> QED  BY <1>4, <1>5, <1>6, StepsKeepStores

\* No step takes a store away from a thread that is in its guard: only that thread
\* closes it (store.py: SQLiteEventStore.close waits for the session's lock).
THEOREM GuardedStoreAlwaysStays == SessionSpec => GuardedStoreStays
<1>1. SessionInv /\ [SessionNext]_sessionVars => [GuardedStaysStep]_sessionVars
    BY GuardedStays
<1> QED  BY <1>1, SessionInvariance, PTL DEF SessionSpec, GuardedStoreStays, GuardedStaysStep

-----------------------------------------------------------------------------
\* The guarded model pilot.

Phases == {"idle", "setup", "begin", "loop", "started", "waiting", "answered", "finished"}
Calling == {"started", "waiting", "answered"}
Underway == Calling \union {"loop", "finished"}
Reply == Answers \union {NoReply}
Sent == [dir : Dirs, trial : 1..Trials, answer : Reply]
JournalRecord == [event : {"run_started", "call_started", "call_finished", "run_finished"},
                  trial : 0..Trials, answer : Reply]
RowStatuses == {"valid", "model_mismatch", "refused", "malformed_response", "transport_error",
                "invalid_reply", "usage_unresolved", "usage_exceeded_reservation",
                "not_attempted_after_stop", "not_attempted_source_changed", "not_attempted_budget"}
Stops == {"no", "transport_error", "invalid_reply", "model_mismatch", "usage_unresolved",
          "usage_exceeded_reservation", "source_changed", "budget_limit"}
Results == [stop : Stops, rows : Seq(RowStatuses), calls : Nat, reported : Nat, contrasts : BOOLEAN]
OnePlan == {<< >>} \union {<<p>> : p \in Plan}
Folder == [exists : BOOLEAN, plan : OnePlan, journal : Seq(JournalRecord), results : Seq(Results)]
Run == [dir : Dirs \union {NoRun.dir}, stop : Stops, calls : Nat, reserved : Nat, reported : Nat,
        rows : Seq(RowStatuses), answer : Reply]

PilotTypeInv ==
    /\ source \in Versions
    /\ plan \in OnePlan
    /\ folder \in [Dirs -> Folder]
    /\ sent \in Seq(Sent)
    /\ phase \in Phases
    /\ run \in Run

\* A call was answered harmlessly and its answer journaled.
Settled(k) ==
    LET d == sent[k].dir IN
    /\ Harmless(folder[d].plan[1], sent[k].trial, sent[k].answer)
    /\ \E f \in At(d, "call_finished") :
          /\ JournalOf(d)[f].trial = sent[k].trial
          /\ JournalOf(d)[f].answer = sent[k].answer

\* The limit on calls, for a directory that was sent any.
CallsWithinLimit ==
    \A d \in Dirs : SentTo(d) # {} => Cardinality(SentTo(d)) <= folder[d].plan[1].limits.calls

Past ==
    /\ JournaledFirst /\ SentOnce
    /\ \A j, k \in DOMAIN sent : sent[j].dir = sent[k].dir /\ j < k => Settled(j)
    /\ CallsWithinLimit
    /\ \A d \in Dirs : SentTo(d) # {} => folder[d].exists /\ folder[d].plan # << >>

InRun ==
    /\ phase # "idle" => run.dir \in Dirs /\ folder[run.dir].exists
    /\ phase = "idle" => run = NoRun
    /\ phase \in {"setup", "begin"} =>
          SentTo(run.dir) = {} /\ run.rows = << >> /\ run.calls = 0 /\ run.stop = "no"
    /\ phase = "setup" => plan # << >>
    /\ phase \in Underway \union {"begin"} => folder[run.dir].plan # << >>
    /\ phase \in Underway =>
          /\ Len(run.rows) <= Trials
          /\ run.calls <= folder[run.dir].plan[1].limits.calls
          /\ Cardinality(SentTo(run.dir)) = IF phase = "started" THEN run.calls - 1 ELSE run.calls
          /\ run.calls <= Len(run.rows) + (IF phase \in Calling THEN 1 ELSE 0)
    /\ phase \in Calling => run.stop = "no" /\ Index <= Trials
    /\ phase \in {"loop", "started", "finished"} =>
          \A k \in SentTo(run.dir) : sent[k].trial <= Len(run.rows)
    /\ phase \in {"loop", "started"} /\ run.stop = "no" =>
          \A k \in SentTo(run.dir) : Settled(k)
    /\ phase = "started" =>
          \E j \in At(run.dir, "call_started") : JournalOf(run.dir)[j].trial = Index
    /\ phase \in {"waiting", "answered"} =>
          /\ sent # << >> /\ sent[Len(sent)].dir = run.dir /\ sent[Len(sent)].trial = Index
          /\ \A k \in SentTo(run.dir) : k = Len(sent) \/ sent[k].trial <= Len(run.rows)
    /\ phase = "answered" => run.answer \in Answers /\ sent[Len(sent)].answer = run.answer

PilotInv == PilotTypeInv /\ Past /\ InRun

-----------------------------------------------------------------------------
\* What is on disk is only added to, and a plan under which calls were sent stays.
OnlyAdded ==
    \A d \in Dirs :
        /\ folder[d].exists => folder'[d].exists
        /\ SentTo(d) # {} => folder'[d].plan = folder[d].plan
        /\ \A k \in DOMAIN JournalOf(d) :
              k \in DOMAIN JournalOf(d)' /\ JournalOf(d)'[k] = JournalOf(d)[k]

LEMMA SentType ==
    ASSUME PilotTypeInv, NEW k \in DOMAIN sent
    PROVE  sent[k] \in Sent /\ sent[k].dir \in Dirs /\ sent[k].trial \in 1..Trials /\ k \in Nat
<1>1. sent \in Seq(Sent)
  BY DEF PilotTypeInv
<1>2. sent[k] \in Sent /\ k \in Nat
  BY <1>1
<1> QED BY <1>2 DEF Sent

LEMMA AddedAt ==
    ASSUME OnlyAdded, NEW d \in Dirs, NEW event, NEW k \in At(d, event)
    PROVE  k \in At(d, event)' /\ JournalOf(d)'[k] = JournalOf(d)[k]
BY DEF OnlyAdded, At

\* A settled call stays settled.
LEMMA SettledStays ==
    ASSUME PilotTypeInv, OnlyAdded, NEW k \in DOMAIN sent, k \in DOMAIN sent',
           sent'[k] = sent[k], Settled(k)
    PROVE  Settled(k)'
<1> DEFINE d == sent[k].dir
<1>1. d \in Dirs /\ k \in SentTo(d)
  BY SentType DEF SentTo
<1>2. folder'[d].plan = folder[d].plan
  BY <1>1 DEF OnlyAdded
<1>3. PICK f \in At(d, "call_finished") :
        JournalOf(d)[f].trial = sent[k].trial /\ JournalOf(d)[f].answer = sent[k].answer
  BY DEF Settled
<1>4. f \in At(d, "call_finished")' /\ JournalOf(d)'[f] = JournalOf(d)[f]
  BY <1>1, <1>3, AddedAt
<1>5. Harmless(folder[d].plan[1], sent[k].trial, sent[k].answer)'
  BY <1>2 DEF Settled, Harmless, Resolved
<1> QED BY <1>2, <1>3, <1>4, <1>5 DEF Settled, JournalOf, At, Harmless, Resolved

\* A step that sends nothing keeps the past.
LEMMA Kept ==
    ASSUME PilotTypeInv, Past, OnlyAdded, sent' = sent
    PROVE  /\ Past'
           /\ \A d : SentTo(d)' = SentTo(d)
<1>1. \A d : SentTo(d)' = SentTo(d)
  BY DEF SentTo
<1>2. JournaledFirst'
  <2> SUFFICES ASSUME NEW k \in DOMAIN sent
               PROVE  \E j \in At(sent[k].dir, "call_started")' :
                         JournalOf(sent[k].dir)'[j].trial = sent[k].trial
    BY DEF JournaledFirst, At, JournalOf
  <2>1. PICK j \in At(sent[k].dir, "call_started") : JournalOf(sent[k].dir)[j].trial = sent[k].trial
    BY DEF Past, JournaledFirst
  <2> QED BY <2>1, SentType, AddedAt
<1>3. SentOnce'
  BY DEF Past, SentOnce
<1>4. ASSUME NEW j \in DOMAIN sent, NEW k \in DOMAIN sent, sent[j].dir = sent[k].dir, j < k
      PROVE  Settled(j)'
  BY <1>4, SettledStays DEF Past
<1>5. CallsWithinLimit'
  BY <1>1 DEF Past, CallsWithinLimit, OnlyAdded
<1>6. \A d \in Dirs : SentTo(d) # {} => folder'[d].exists /\ folder'[d].plan # << >>
  BY DEF Past, OnlyAdded
<1> QED BY <1>1, <1>2, <1>3, <1>4, <1>5, <1>6 DEF Past

\* A record is appended to the journal of the run.
LEMMA Journaled ==
    ASSUME PilotTypeInv, run.dir \in Dirs, NEW record \in JournalRecord, Journal(record)
    PROVE  /\ folder' \in [Dirs -> Folder]
           /\ OnlyAdded
           /\ \A d \in Dirs : folder'[d].plan = folder[d].plan /\ folder'[d].exists = folder[d].exists
           /\ \E k \in DOMAIN folder'[run.dir].journal : folder'[run.dir].journal[k] = record
<1> DEFINE old == JournalOf(run.dir)
           new == Append(old, record)
<1>1. folder \in [Dirs -> Folder] /\ folder[run.dir] \in Folder /\ old \in Seq(JournalRecord)
  BY DEF PilotTypeInv, Folder, JournalOf
<1>2. new \in Seq(JournalRecord) /\ Len(new) = Len(old) + 1 /\ new[Len(old) + 1] = record
      /\ \A k \in DOMAIN old : k \in DOMAIN new /\ new[k] = old[k]
  BY <1>1
<1>3. folder' = [folder EXCEPT ![run.dir] = [@ EXCEPT !.journal = new]]
  BY DEF Journal, JournalOf
<1>4. folder'[run.dir] = [folder[run.dir] EXCEPT !.journal = new]
  BY <1>1, <1>3
<1> HIDE DEF new
<1>5. /\ folder'[run.dir] \in Folder /\ folder'[run.dir].journal = new
      /\ folder'[run.dir].plan = folder[run.dir].plan /\ folder'[run.dir].exists = folder[run.dir].exists
  BY <1>1, <1>2, <1>4 DEF Folder
<1>6. \A d \in Dirs : d # run.dir => folder'[d] = folder[d]
  BY <1>1, <1>3
<1>7. folder' \in [Dirs -> Folder]
  BY <1>1, <1>3, <1>5, <1>6
<1>8. OnlyAdded
  BY <1>2, <1>5, <1>6 DEF OnlyAdded, JournalOf
<1>9. \E k \in DOMAIN folder'[run.dir].journal : folder'[run.dir].journal[k] = record
  <2>1. Len(old) + 1 \in DOMAIN new
    BY <1>2
  <2> QED BY <2>1, <1>2, <1>5
<1> QED BY <1>5, <1>6, <1>7, <1>8, <1>9

-----------------------------------------------------------------------------
\* What the host does beside a run: the sources, its plan.
LEMMA PilotHostStep ==
    ASSUME PilotInv, PilotTypeInv', UNCHANGED <<folder, sent, phase, run>>,
           phase # "setup" \/ plan' = plan
    PROVE  PilotInv'
<1>1. OnlyAdded
  BY DEF OnlyAdded, JournalOf
<1>2. Past' /\ \A d : SentTo(d)' = SentTo(d)
  BY <1>1, Kept DEF PilotInv
<1>3. \A k \in SentTo(run.dir) : k \in DOMAIN sent /\ (Settled(k) => Settled(k)')
  <2>1. \A k \in SentTo(run.dir) : k \in DOMAIN sent
    BY DEF SentTo
  <2> QED BY <1>1, <2>1, SettledStays DEF PilotInv
<1>4. \A j \in At(run.dir, "call_started") :
         j \in At(run.dir, "call_started")' /\ JournalOf(run.dir)'[j] = JournalOf(run.dir)[j]
  BY DEF At, JournalOf
<1>5. Index' = Index
  BY DEF Index
<1>6. InRun'
  BY <1>2, <1>3, <1>4, <1>5 DEF PilotInv, InRun
<1> QED BY <1>2, <1>6 DEF PilotInv

-----------------------------------------------------------------------------
\* Types of what the steps of a run use.

LEMMA NoRunType ==
    /\ NoRun \in Run /\ NoRun.rows = << >> /\ NoRun.calls = 0
    /\ \A d \in Dirs : [NoRun EXCEPT !.dir = d] \in Run
    /\ \A d : LET r == [NoRun EXCEPT !.dir = d] IN
                 r.dir = d /\ r.rows = << >> /\ r.calls = 0 /\ r.stop = "no"
<1> DEFINE c == CHOOSE d \in Dirs : TRUE
<1>1. NoRun = [dir |-> c, stop |-> "no", calls |-> 0, reserved |-> 0, reported |-> 0,
               rows |-> << >>, answer |-> NoReply]
  BY DEF NoRun
<1>2. NoRun.dir = c
  BY <1>1
<1>3. NoReply \in Reply /\ << >> \in Seq(RowStatuses)
  BY DEF Reply
<1> HIDE DEF c
<1> QED BY <1>1, <1>2, <1>3 DEF Run, Stops

LEMMA PlanType ==
    ASSUME PilotTypeInv, run.dir \in Dirs, folder[run.dir].plan # << >>
    PROVE  /\ Doc \in Plan /\ Doc.limits.calls \in Nat
           /\ \A i \in 1..Trials : Doc.bound[i] \in Nat /\ Reserve(Doc, i) \in Nat
<1>1. folder[run.dir] \in Folder
  BY DEF PilotTypeInv
<1>2. folder[run.dir].plan \in OnePlan
  BY <1>1 DEF Folder
<1>3. PICK p \in Plan : folder[run.dir].plan = <<p>>
  BY <1>2 DEF OnePlan
<1>4. Doc = p
  BY <1>3 DEF Doc
<1>5. p.bound \in [1..Trials -> InputBounds] /\ p.limits \in Limits
  BY DEF Plan
<1>6. p.limits.calls \in Nat
  <2>1. p.limits \in [calls : Nat, usd : Nat]
    BY <1>5, PilotAssumption
  <2> QED BY <2>1
<1>7. \A i \in 1..Trials : p.bound[i] \in Nat
  BY <1>5, PilotAssumption
<1>8. \A i \in 1..Trials : Reserve(p, i) \in Nat
  BY <1>7, PilotAssumption DEF Reserve
<1> QED BY <1>4, <1>6, <1>7, <1>8

LEMMA RunFields ==
    ASSUME PilotTypeInv
    PROVE  /\ run.stop \in Stops /\ run.calls \in Nat /\ run.reserved \in Nat /\ run.reported \in Nat
           /\ run.rows \in Seq(RowStatuses) /\ Len(run.rows) \in Nat /\ run.answer \in Reply
           /\ Index = Len(run.rows) + 1 /\ Index \in Nat
<1>1. run \in Run
  BY DEF PilotTypeInv
<1>2. /\ run.stop \in Stops /\ run.calls \in Nat /\ run.reserved \in Nat /\ run.reported \in Nat
      /\ run.rows \in Seq(RowStatuses) /\ run.answer \in Reply
  BY <1>1 DEF Run
<1>3. Len(run.rows) \in Nat
  BY <1>2
<1> QED BY <1>2, <1>3 DEF Index

-----------------------------------------------------------------------------
\* The steps of a run.

LEMMA StartStep ==
    ASSUME PilotInv, NEW d \in Dirs, Start(d)
    PROVE  PilotInv'
<1>1. /\ phase = "idle" /\ phase' = "setup" /\ plan # << >> /\ ~folder[d].exists
      /\ folder' = [folder EXCEPT ![d].exists = TRUE] /\ run' = [NoRun EXCEPT !.dir = d]
      /\ UNCHANGED <<source, plan, sent>>
  BY DEF Start, Goto
<1>2. run' \in Run /\ run'.dir = d /\ run'.rows = << >> /\ run'.calls = 0 /\ run'.stop = "no"
  BY <1>1, NoRunType
<1>3. folder \in [Dirs -> Folder] /\ folder[d] \in Folder
  BY DEF PilotInv, PilotTypeInv
<1>4. folder'[d] = [folder[d] EXCEPT !.exists = TRUE] /\ \A e \in Dirs : e # d => folder'[e] = folder[e]
  BY <1>1, <1>3
<1>5. /\ folder'[d] \in Folder /\ folder'[d].exists /\ folder'[d].plan = folder[d].plan
      /\ folder'[d].journal = folder[d].journal
  BY <1>3, <1>4 DEF Folder
<1>6. PilotTypeInv'
  <2>1. folder' \in [Dirs -> Folder]
    BY <1>1, <1>3, <1>4, <1>5
  <2> QED BY <1>1, <1>2, <2>1 DEF PilotInv, PilotTypeInv, Phases
<1>7. OnlyAdded
  BY <1>4, <1>5 DEF OnlyAdded, JournalOf
<1>8. Past' /\ \A e : SentTo(e)' = SentTo(e)
  BY <1>1, <1>7, Kept DEF PilotInv
<1>9. SentTo(run.dir)' = {}
  <2>1. SentTo(d) = {}
    BY <1>1 DEF PilotInv, Past
  <2> QED BY <1>1, <1>2, <2>1 DEF SentTo
<1>10. InRun'
  BY <1>1, <1>2, <1>5, <1>9 DEF InRun, Underway, Calling
<1> QED BY <1>6, <1>8, <1>10 DEF PilotInv

LEMMA SetupStep ==
    ASSUME PilotInv, Setup
    PROVE  PilotInv'
<1>1. /\ phase = "setup" /\ phase' = "begin" /\ plan # << >> /\ run.dir \in Dirs
      /\ SentTo(run.dir) = {} /\ run.rows = << >> /\ run.calls = 0 /\ run.stop = "no"
      /\ folder' = [folder EXCEPT ![run.dir].plan = plan] /\ folder[run.dir].exists
      /\ UNCHANGED <<source, plan, sent, run>>
  BY DEF Setup, Goto, PilotInv, InRun
<1>3. folder \in [Dirs -> Folder] /\ folder[run.dir] \in Folder /\ plan \in OnePlan
  BY <1>1 DEF PilotInv, PilotTypeInv
<1>4. /\ folder'[run.dir] = [folder[run.dir] EXCEPT !.plan = plan]
      /\ \A e \in Dirs : e # run.dir => folder'[e] = folder[e]
  BY <1>1, <1>3
<1>5. /\ folder'[run.dir] \in Folder /\ folder'[run.dir].exists /\ folder'[run.dir].plan = plan
      /\ folder'[run.dir].journal = folder[run.dir].journal
  BY <1>1, <1>3, <1>4 DEF Folder
<1>6. PilotTypeInv'
  <2>1. folder' \in [Dirs -> Folder]
    BY <1>1, <1>3, <1>4, <1>5
  <2> QED BY <1>1, <2>1 DEF PilotInv, PilotTypeInv, Phases
<1>7. OnlyAdded
  BY <1>1, <1>4, <1>5 DEF OnlyAdded, JournalOf
<1>8. Past' /\ \A e : SentTo(e)' = SentTo(e)
  BY <1>1, <1>7, Kept DEF PilotInv
<1>10. InRun'
  <2>1. SentTo(run.dir)' = {}
    BY <1>1 DEF SentTo
  <2> QED BY <1>1, <1>5, <2>1 DEF InRun, Underway, Calling
<1> QED BY <1>6, <1>8, <1>10 DEF PilotInv

LEMMA BeginStep ==
    ASSUME PilotInv, Begin
    PROVE  PilotInv'
<1>1. /\ phase = "begin" /\ phase' = "loop" /\ run.dir \in Dirs
      /\ SentTo(run.dir) = {} /\ run.rows = << >> /\ run.calls = 0 /\ run.stop = "no"
      /\ folder[run.dir].plan # << >> /\ folder[run.dir].exists
      /\ UNCHANGED <<source, plan, sent, run>>
  BY DEF Begin, Goto, PilotInv, InRun
<1> DEFINE record == Record("run_started", 0, NoReply)
<1>2. record \in JournalRecord
  BY PilotAssumption DEF Record, JournalRecord, Reply
<1>3. /\ folder' \in [Dirs -> Folder] /\ OnlyAdded
      /\ \A d \in Dirs : folder'[d].plan = folder[d].plan /\ folder'[d].exists = folder[d].exists
  BY <1>1, <1>2, Journaled DEF Begin, PilotInv
<1>4. PilotTypeInv'
  BY <1>1, <1>3 DEF PilotInv, PilotTypeInv, Phases
<1>5. Past' /\ \A e : SentTo(e)' = SentTo(e)
  BY <1>1, <1>3, Kept DEF PilotInv
<1>6. Doc.limits.calls \in Nat
  BY <1>1, PlanType DEF PilotInv
<1>7. InRun'
  <2>1. SentTo(run.dir)' = {} /\ Cardinality({}) = 0
    BY <1>1, FS_EmptySet DEF SentTo
  <2>2. 0 <= folder'[run.dir].plan[1].limits.calls
    BY <1>1, <1>3, <1>6 DEF Doc
  <2> QED BY <1>1, <1>3, <2>1, <2>2, PilotAssumption DEF InRun, Underway, Calling
<1> QED BY <1>4, <1>5, <1>7 DEF PilotInv

\* A row is added to a run and nothing sent: a skip.
LEMMA SkipStep ==
    ASSUME PilotInv, NEW stop \in Stops \ {"no"}, NEW status \in RowStatuses, AtTrial, Skip(stop, status)
    PROVE  PilotInv'
<1>1. /\ phase = "loop" /\ phase' = "loop" /\ run.dir \in Dirs /\ Index <= Trials
      /\ run' = [run EXCEPT !.stop = stop, !.rows = Append(@, status)]
      /\ UNCHANGED <<source, plan, folder, sent>>
  BY DEF AtTrial, Skip, PilotInv, InRun
<1>2. run \in Run /\ run.rows \in Seq(RowStatuses)
  BY DEF PilotInv, PilotTypeInv, Run
<1>3. Append(run.rows, status) \in Seq(RowStatuses) /\ Len(Append(run.rows, status)) = Len(run.rows) + 1
  BY <1>2
<1>4. /\ run' \in Run /\ run'.dir = run.dir /\ run'.stop = stop /\ run'.calls = run.calls
      /\ Len(run'.rows) = Len(run.rows) + 1
  BY <1>1, <1>2, <1>3 DEF Run
<1>5. PilotTypeInv'
  BY <1>1, <1>4 DEF PilotInv, PilotTypeInv
<1>6. OnlyAdded
  BY <1>1 DEF OnlyAdded, JournalOf
<1>7. Past' /\ \A e : SentTo(e)' = SentTo(e)
  BY <1>1, <1>6, Kept DEF PilotInv
<1>8. SentTo(run.dir)' = SentTo(run.dir)
  BY <1>1, <1>4 DEF SentTo
<1>9. \A k \in SentTo(run.dir) : sent[k].trial <= Len(run'.rows)
  <2>1. \A k \in SentTo(run.dir) : sent[k].trial <= Len(run.rows) /\ sent[k].trial \in Nat
    <3>1. \A k \in SentTo(run.dir) : k \in DOMAIN sent
      BY DEF SentTo
    <3> QED BY <1>1, <3>1, SentType, PilotAssumption DEF PilotInv, InRun
  <2> QED BY <1>4, <2>1, RunFields DEF PilotInv
<1>10. InRun'
  BY <1>1, <1>4, <1>8, <1>9, RunFields DEF PilotInv, InRun, Underway, Calling, Stops
<1> QED BY <1>5, <1>7, <1>10 DEF PilotInv

\* A run is over, whatever was done last.
LEMMA PilotEndStep ==
    ASSUME PilotInv, PilotTypeInv', OnlyAdded, sent' = sent, phase' = "idle", run' = NoRun
    PROVE  PilotInv'
<1>1. Past'
  BY Kept DEF PilotInv
<1>2. InRun'
  BY DEF InRun, Underway, Calling
<1> QED BY <1>1, <1>2 DEF PilotInv

LEMMA FinishRunStep ==
    ASSUME PilotInv, FinishRun
    PROVE  PilotInv'
<1>1. /\ phase = "loop" /\ phase' = "finished" /\ run.dir \in Dirs
      /\ folder[run.dir].plan # << >> /\ folder[run.dir].exists
      /\ UNCHANGED <<source, plan, sent, run>>
  BY DEF FinishRun, PilotInv, InRun, Underway
<1> DEFINE record == Record("run_finished", 0, NoReply)
<1>2. record \in JournalRecord
  BY PilotAssumption DEF Record, JournalRecord, Reply
<1>3. /\ folder' \in [Dirs -> Folder] /\ OnlyAdded
      /\ \A d \in Dirs : folder'[d].plan = folder[d].plan /\ folder'[d].exists = folder[d].exists
  BY <1>1, <1>2, Journaled DEF FinishRun, PilotInv
<1>4. PilotTypeInv'
  BY <1>1, <1>3 DEF PilotInv, PilotTypeInv, Phases
<1>5. Past' /\ \A e : SentTo(e)' = SentTo(e)
  BY <1>1, <1>3, Kept DEF PilotInv
<1>6. SentTo(run.dir)' = SentTo(run.dir)
  BY <1>1 DEF SentTo
<1>7. InRun'
  BY <1>1, <1>3, <1>6 DEF PilotInv, InRun, Underway, Calling
<1> QED BY <1>4, <1>5, <1>7 DEF PilotInv

LEMMA SaveResultsStep ==
    ASSUME PilotInv, SaveResults
    PROVE  PilotInv'
<1> DEFINE result == [stop |-> run.stop, rows |-> run.rows, calls |-> run.calls,
                      reported |-> run.reported, contrasts |-> Complete(run.rows)]
<1>1. /\ phase = "finished" /\ phase' = "idle" /\ run.dir \in Dirs /\ run' = NoRun
      /\ folder' = [folder EXCEPT ![run.dir].results = <<result>>]
      /\ UNCHANGED <<source, plan, sent>>
  BY DEF SaveResults, Goto, PilotInv, InRun
<1>2. result \in Results
  BY RunFields DEF PilotInv, Results, Complete
<1> HIDE DEF result
<1>3. <<result>> \in Seq(Results)
  BY <1>2
<1>4. folder \in [Dirs -> Folder] /\ folder[run.dir] \in Folder
  BY <1>1 DEF PilotInv, PilotTypeInv
<1>5. /\ folder'[run.dir] = [folder[run.dir] EXCEPT !.results = <<result>>]
      /\ \A e \in Dirs : e # run.dir => folder'[e] = folder[e]
  BY <1>1, <1>4
<1>6. /\ folder'[run.dir] \in Folder /\ folder'[run.dir].exists = folder[run.dir].exists
      /\ folder'[run.dir].plan = folder[run.dir].plan /\ folder'[run.dir].journal = folder[run.dir].journal
  BY <1>3, <1>4, <1>5 DEF Folder
<1>7. PilotTypeInv'
  <2>1. folder' \in [Dirs -> Folder]
    BY <1>1, <1>4, <1>5, <1>6
  <2> QED BY <1>1, <2>1, NoRunType DEF PilotInv, PilotTypeInv, Phases
<1>8. OnlyAdded
  BY <1>5, <1>6 DEF OnlyAdded, JournalOf
<1> QED BY <1>1, <1>7, <1>8, PilotEndStep

LEMMA DieStep ==
    ASSUME PilotInv, Die
    PROVE  PilotInv'
<1>1. PilotTypeInv' /\ sent' = sent /\ phase' = "idle" /\ run' = NoRun
  BY NoRunType DEF Die, PilotInv, PilotTypeInv, Phases
<1>2. OnlyAdded
  BY DEF Die, OnlyAdded, JournalOf
<1> QED BY <1>1, <1>2, PilotEndStep

LEMMA StartCallStep ==
    ASSUME PilotInv, StartCall
    PROVE  PilotInv'
<1>1. /\ phase = "loop" /\ phase' = "started" /\ run.dir \in Dirs /\ Index <= Trials /\ run.stop = "no"
      /\ folder[run.dir].plan # << >> /\ folder[run.dir].exists
      /\ run' = [run EXCEPT !.calls = @ + 1, !.reserved = @ + Reserve(Doc, Index)]
      /\ run.calls < Doc.limits.calls
      /\ UNCHANGED <<source, plan, sent>>
  BY DEF StartCall, AtTrial, BudgetLeft, PilotInv, InRun, Underway
<1>2. Index \in 1..Trials
  BY <1>1, RunFields, PilotAssumption DEF PilotInv
<1> DEFINE record == Record("call_started", Index, NoReply)
<1>3. record \in JournalRecord /\ record.event = "call_started" /\ record.trial = Index
  BY <1>2 DEF Record, JournalRecord, Reply
<1>4. Journal(record)
  BY DEF StartCall
<1> HIDE DEF record
<1>5. /\ folder' \in [Dirs -> Folder] /\ OnlyAdded
      /\ \A d \in Dirs : folder'[d].plan = folder[d].plan /\ folder'[d].exists = folder[d].exists
      /\ \E k \in DOMAIN folder'[run.dir].journal : folder'[run.dir].journal[k] = record
  BY <1>1, <1>3, <1>4, Journaled DEF PilotInv
<1>6. Reserve(Doc, Index) \in Nat /\ Doc.limits.calls \in Nat
  BY <1>1, <1>2, PlanType DEF PilotInv
<1>7. run' \in Run /\ run'.dir = run.dir /\ run'.rows = run.rows /\ run'.calls = run.calls + 1
      /\ run'.stop = "no" /\ Index' = Index
  <2>1. run \in Run
    BY DEF PilotInv, PilotTypeInv
  <2>2. run.calls + 1 \in Nat /\ run.reserved + Reserve(Doc, Index) \in Nat
    BY <1>6, RunFields DEF PilotInv
  <2>3. run' \in Run /\ run'.dir = run.dir /\ run'.rows = run.rows /\ run'.calls = run.calls + 1
        /\ run'.stop = run.stop
    BY <1>1, <2>1, <2>2 DEF Run
  <2> QED BY <1>1, <2>3 DEF Index
<1>8. PilotTypeInv'
  BY <1>1, <1>5, <1>7 DEF PilotInv, PilotTypeInv, Phases
<1>9. Past' /\ \A e : SentTo(e)' = SentTo(e)
  BY <1>1, <1>5, Kept DEF PilotInv
<1>10. SentTo(run.dir)' = SentTo(run.dir)
  BY <1>1, <1>7 DEF SentTo
<1>11. \A k \in SentTo(run.dir) : Settled(k)'
  <2>1. \A k \in SentTo(run.dir) : k \in DOMAIN sent /\ Settled(k)
    BY <1>1 DEF PilotInv, InRun, SentTo
  <2> QED BY <1>1, <1>5, <2>1, SettledStays DEF PilotInv
<1>12. \E j \in At(run.dir, "call_started")' : JournalOf(run.dir)'[j].trial = Index'
  BY <1>3, <1>5, <1>7 DEF At, JournalOf
<1>13. /\ Len(run'.rows) <= Trials /\ run'.calls <= folder'[run.dir].plan[1].limits.calls
       /\ Cardinality(SentTo(run.dir)) = run'.calls - 1 /\ run'.calls <= Len(run'.rows) + 1
       /\ \A k \in SentTo(run.dir) : sent[k].trial <= Len(run.rows)
  <2>1. /\ Len(run.rows) <= Trials /\ Cardinality(SentTo(run.dir)) = run.calls
        /\ run.calls <= Len(run.rows)
        /\ \A k \in SentTo(run.dir) : sent[k].trial <= Len(run.rows)
    BY <1>1, RunFields DEF PilotInv, InRun, Underway, Calling
  <2>2. run.calls + 1 <= Doc.limits.calls
    BY <1>1, <1>6, RunFields DEF PilotInv
  <2>3. folder'[run.dir].plan[1] = Doc
    BY <1>1, <1>5 DEF Doc
  <2> QED BY <1>7, <2>1, <2>2, <2>3, RunFields DEF PilotInv
<1>14. InRun'
  BY <1>1, <1>5, <1>7, <1>10, <1>11, <1>12, <1>13 DEF InRun, Underway, Calling
<1> QED BY <1>8, <1>9, <1>14 DEF PilotInv

LEMMA SendStep ==
    ASSUME PilotInv, Send
    PROVE  PilotInv'
<1> DEFINE call == [dir |-> run.dir, trial |-> Index, answer |-> NoReply]
           new == Len(sent) + 1
<1>1. /\ phase = "started" /\ phase' = "waiting" /\ run.dir \in Dirs /\ Index <= Trials /\ run.stop = "no"
      /\ folder[run.dir].plan # << >> /\ folder[run.dir].exists
      /\ sent' = Append(sent, call)
      /\ UNCHANGED <<source, plan, folder, run>>
      /\ Len(run.rows) <= Trials /\ run.calls <= folder[run.dir].plan[1].limits.calls
      /\ Cardinality(SentTo(run.dir)) = run.calls - 1 /\ run.calls <= Len(run.rows) + 1
  BY DEF Send, Goto, PilotInv, InRun, Underway, Calling
<1>2. /\ \A k \in SentTo(run.dir) : Settled(k) /\ sent[k].trial <= Len(run.rows)
      /\ \E j \in At(run.dir, "call_started") : JournalOf(run.dir)[j].trial = Index
  BY <1>1 DEF PilotInv, InRun
<1>3. call \in Sent /\ call.dir = run.dir /\ call.trial = Index
  <2>1. Index \in 1..Trials
    BY <1>1, RunFields, PilotAssumption DEF PilotInv
  <2> QED BY <1>1, <2>1 DEF Sent, Reply
<1> HIDE DEF call
<1>4. /\ sent \in Seq(Sent) /\ Len(sent) \in Nat /\ sent' \in Seq(Sent) /\ Len(sent') = new
      /\ DOMAIN sent = 1..Len(sent) /\ DOMAIN sent' = 1..new
      /\ sent'[new] = call /\ \A k \in DOMAIN sent : sent'[k] = sent[k]
  BY <1>1, <1>3 DEF PilotInv, PilotTypeInv
<1>5. /\ \A d \in Dirs \ {run.dir} : SentTo(d)' = SentTo(d)
      /\ SentTo(run.dir)' = SentTo(run.dir) \union {new} /\ new \notin SentTo(run.dir)
  BY <1>1, <1>3, <1>4 DEF SentTo
<1>6. OnlyAdded
  BY <1>1 DEF OnlyAdded, JournalOf
<1>7. \A k \in DOMAIN sent : Settled(k) => Settled(k)'
  BY <1>4, <1>6, SettledStays DEF PilotInv
<1>8. Cardinality(SentTo(run.dir)') = run.calls
  <2>1. IsFiniteSet(SentTo(run.dir))
    <3>1. IsFiniteSet(1..Len(sent))
      BY <1>4, FS_Interval
    <3> QED BY <1>4, <3>1, FS_Subset DEF SentTo
  <2>2. Cardinality(SentTo(run.dir) \union {new}) = Cardinality(SentTo(run.dir)) + 1
    BY <1>5, <2>1, FS_AddElement
  <2> QED BY <1>1, <1>5, <2>2, RunFields DEF PilotInv
<1>9. PilotTypeInv'
  BY <1>1, <1>4 DEF PilotInv, PilotTypeInv, Phases
<1>10. Past'
  <2>1. JournaledFirst'
    <3> SUFFICES ASSUME NEW k \in DOMAIN sent'
                 PROVE  \E j \in DOMAIN folder[sent'[k].dir].journal :
                           /\ folder[sent'[k].dir].journal[j].event = "call_started"
                           /\ folder[sent'[k].dir].journal[j].trial = sent'[k].trial
      <4>1. folder' = folder
        BY <1>1
      <4> QED BY <4>1 DEF JournaledFirst, At, JournalOf
    <3>1. CASE k \in DOMAIN sent
      BY <1>4, <3>1 DEF PilotInv, Past, JournaledFirst, At, JournalOf
    <3>2. CASE k = new
      BY <1>2, <1>3, <1>4, <3>2 DEF At, JournalOf
    <3> QED BY <1>4, <3>1, <3>2
  <2>2. \A k \in DOMAIN sent : sent[k].dir = run.dir => sent[k].trial # Index
    BY <1>2, SentType, RunFields, PilotAssumption DEF PilotInv, SentTo
  <2>3. SentOnce'
    <3> SUFFICES ASSUME NEW j \in DOMAIN sent', NEW k \in DOMAIN sent',
                        sent'[j].dir = sent'[k].dir, sent'[j].trial = sent'[k].trial
                 PROVE  j = k
      BY DEF SentOnce
    <3>1. CASE j \in DOMAIN sent /\ k \in DOMAIN sent
      BY <1>4, <3>1 DEF PilotInv, Past, SentOnce
    <3>2. CASE j = new \/ k = new
      BY <1>3, <1>4, <2>2, <3>2
    <3> QED BY <1>4, <3>1, <3>2
  <2>4. ASSUME NEW j \in DOMAIN sent', NEW k \in DOMAIN sent', sent'[j].dir = sent'[k].dir, j < k
        PROVE  Settled(j)'
    <3>1. j \in DOMAIN sent
      BY <1>4, <2>4
    <3>2. Settled(j)
      <4>1. CASE k \in DOMAIN sent
        BY <1>4, <2>4, <3>1, <4>1 DEF PilotInv, Past
      <4>2. CASE k = new
        BY <1>2, <1>3, <1>4, <2>4, <3>1, <4>2 DEF SentTo
      <4> QED BY <1>4, <4>1, <4>2
    <3> QED BY <1>7, <3>1, <3>2
  <2>5. CallsWithinLimit'
    <3>1. \A d \in Dirs \ {run.dir} :
             SentTo(d)' # {} => Cardinality(SentTo(d)') <= folder[d].plan[1].limits.calls
      BY <1>5 DEF PilotInv, Past, CallsWithinLimit
    <3>2. Cardinality(SentTo(run.dir)') <= folder[run.dir].plan[1].limits.calls
      BY <1>1, <1>8
    <3>3. \A d \in Dirs : SentTo(d)' # {} => Cardinality(SentTo(d)') <= folder[d].plan[1].limits.calls
      BY <1>1, <3>1, <3>2 DEF SentTo
    <3> QED BY <1>1, <3>3 DEF CallsWithinLimit
  <2>6. \A d \in Dirs : SentTo(d)' # {} => folder[d].exists /\ folder[d].plan # << >>
    <3>1. \A d \in Dirs \ {run.dir} : SentTo(d)' # {} => folder[d].exists /\ folder[d].plan # << >>
      BY <1>5 DEF PilotInv, Past
    <3> QED BY <1>1, <3>1
  <2> QED BY <1>1, <2>1, <2>3, <2>4, <2>5, <2>6 DEF Past
<1>11. InRun'
  <2>1. sent' # << >> /\ sent'[Len(sent')].dir = run.dir /\ sent'[Len(sent')].trial = Index
    BY <1>3, <1>4
  <2>2. \A k \in SentTo(run.dir)' : k = Len(sent') \/ sent'[k].trial <= Len(run.rows)
    BY <1>2, <1>4, <1>5 DEF SentTo
  <2>3. Index' = Index
    BY <1>1 DEF Index
  <2> QED BY <1>1, <1>8, <2>1, <2>2, <2>3 DEF InRun, Underway, Calling
<1> QED BY <1>9, <1>10, <1>11 DEF PilotInv

LEMMA ReceiveStep ==
    ASSUME PilotInv, NEW a \in Answers, Receive(a)
    PROVE  PilotInv'
<1> DEFINE n == Len(sent)
<1>1. /\ phase = "waiting" /\ phase' = "answered" /\ run.dir \in Dirs /\ Index <= Trials /\ run.stop = "no"
      /\ folder[run.dir].plan # << >> /\ folder[run.dir].exists
      /\ sent' = [sent EXCEPT ![n] = [@ EXCEPT !.answer = a]]
      /\ run' = [run EXCEPT !.answer = a]
      /\ UNCHANGED <<source, plan, folder>>
      /\ sent # << >> /\ sent[n].dir = run.dir /\ sent[n].trial = Index
      /\ \A k \in SentTo(run.dir) : k = n \/ sent[k].trial <= Len(run.rows)
  BY DEF Receive, Goto, PilotInv, InRun, Underway, Calling
<1>2. /\ Len(run.rows) <= Trials /\ run.calls <= folder[run.dir].plan[1].limits.calls
      /\ Cardinality(SentTo(run.dir)) = run.calls /\ run.calls <= Len(run.rows) + 1
  BY <1>1 DEF PilotInv, InRun, Underway, Calling
<1>3. sent \in Seq(Sent) /\ n \in DOMAIN sent /\ sent[n] \in Sent
  <2>1. sent \in Seq(Sent)
    BY DEF PilotInv, PilotTypeInv
  <2>2. n \in DOMAIN sent
    BY <1>1, <2>1
  <2> QED BY <2>1, <2>2
<1> HIDE DEF n
<1>4. /\ DOMAIN sent' = DOMAIN sent /\ sent'[n] = [sent[n] EXCEPT !.answer = a]
      /\ \A k \in DOMAIN sent : k # n => sent'[k] = sent[k]
  BY <1>1, <1>3
<1>5. sent'[n] \in Sent /\ sent'[n].dir = sent[n].dir /\ sent'[n].trial = sent[n].trial /\ sent'[n].answer = a
  BY <1>3, <1>4 DEF Sent, Reply
<1>6. \A k \in DOMAIN sent : sent'[k].dir = sent[k].dir /\ sent'[k].trial = sent[k].trial
  BY <1>4, <1>5
<1>7. sent' \in Seq(Sent) /\ Len(sent') = n /\ sent' # << >>
  <2>1. \A k \in DOMAIN sent : sent'[k] \in Sent
    BY <1>3, <1>4, <1>5
  <2>2. Len(sent') = n /\ sent' \in Seq(Sent)
    BY <1>3, <1>4, <2>1, <1>1 DEF n
  <2> QED BY <1>1, <1>3, <1>4, <2>2
<1>8. run' \in Run /\ run'.dir = run.dir /\ run'.stop = "no" /\ run'.calls = run.calls
      /\ run'.rows = run.rows /\ run'.answer = a
  <2>1. run \in Run
    BY DEF PilotInv, PilotTypeInv
  <2> QED BY <1>1, <2>1 DEF Run, Reply
<1>9. PilotTypeInv'
  BY <1>1, <1>7, <1>8 DEF PilotInv, PilotTypeInv, Phases
<1>10. \A d : SentTo(d)' = SentTo(d)
  BY <1>4, <1>6 DEF SentTo
<1>11. Past'
  <2>1. JournaledFirst'
    <3> SUFFICES ASSUME NEW k \in DOMAIN sent
                 PROVE  \E j \in DOMAIN folder[sent[k].dir].journal :
                           /\ folder[sent[k].dir].journal[j].event = "call_started"
                           /\ folder[sent[k].dir].journal[j].trial = sent[k].trial
      <4>1. folder' = folder
        BY <1>1
      <4> QED BY <4>1, <1>4, <1>6 DEF JournaledFirst, At, JournalOf
    <3> QED BY DEF PilotInv, Past, JournaledFirst, At, JournalOf
  <2>2. SentOnce'
    BY <1>4, <1>6 DEF PilotInv, Past, SentOnce
  <2>3. ASSUME NEW j \in DOMAIN sent', NEW k \in DOMAIN sent', sent'[j].dir = sent'[k].dir, j < k
        PROVE  Settled(j)'
    <3>1. j \in DOMAIN sent /\ k \in DOMAIN sent /\ j # n /\ sent[j].dir = sent[k].dir
      BY <1>3, <1>4, <1>6, <2>3 DEF n
    <3>2. Settled(j) /\ sent'[j] = sent[j]
      BY <1>4, <2>3, <3>1 DEF PilotInv, Past
    <3>3. OnlyAdded
      BY <1>1 DEF OnlyAdded, JournalOf
    <3> QED BY <3>1, <3>2, <3>3, SettledStays DEF PilotInv
  <2>4. CallsWithinLimit'
    BY <1>1, <1>10 DEF PilotInv, Past, CallsWithinLimit
  <2>5. \A d \in Dirs : SentTo(d)' # {} => folder[d].exists /\ folder[d].plan # << >>
    BY <1>10 DEF PilotInv, Past
  <2> QED BY <1>1, <2>1, <2>2, <2>3, <2>4, <2>5 DEF Past
<1>12. InRun'
  <2>1. SentTo(run.dir)' = SentTo(run.dir)
    BY <1>4, <1>6, <1>8 DEF SentTo
  <2>2. \A k \in SentTo(run.dir) : k = Len(sent') \/ sent'[k].trial <= Len(run.rows)
    BY <1>1, <1>6, <1>7 DEF SentTo
  <2>3. Index' = Index
    BY <1>8 DEF Index
  <2> QED BY <1>1, <1>2, <1>5, <1>7, <1>8, <2>1, <2>2, <2>3 DEF InRun, Underway, Calling
<1> QED BY <1>9, <1>11, <1>12 DEF PilotInv

\* What settles a call, and its types.
LEMMA Settling ==
    ASSUME PilotTypeInv, run.dir \in Dirs, folder[run.dir].plan # << >>, NEW a \in Answers, NEW i \in 1..Trials
    PROVE  /\ Stop(i, a) \in Stops /\ RowStatus(i, a) \in RowStatuses
           /\ Resolved(a) => Cost(a) \in Nat
           /\ Stop(i, a) = "no" => Harmless(Doc, i, a)
<1>1. /\ a.status \in Silent \union {"valid", "model_mismatch", "refused", "malformed_response"}
      /\ a.input \in Tokens /\ a.output \in Tokens
  BY DEF Answers, Tokens, Silent
<1>2. Resolved(a) => a.input \in Nat /\ a.output \in Nat
  BY <1>1, PilotAssumption DEF Resolved, Tokens
<1>3. Doc.bound[i] \in Nat /\ MaxOutput \in Nat
  BY PlanType, PilotAssumption
<1>4. Stop(i, a) \in Stops /\ RowStatus(i, a) \in RowStatuses
  BY <1>1 DEF Stop, RowStatus, Stops, RowStatuses, Silent
<1>5. Resolved(a) => Cost(a) \in Nat
  BY <1>2 DEF Cost
<1>6. ASSUME Stop(i, a) = "no"
      PROVE  Harmless(Doc, i, a)
  <2>1. a.status \in {"valid", "refused", "malformed_response"}
    BY <1>1, <1>6 DEF Stop, Silent
  <2>2. Resolved(a) /\ ~Over(Doc, i, a)
    BY <1>6, <2>1 DEF Stop
  <2>3. a.input <= Doc.bound[i] /\ a.output <= MaxOutput
    BY <1>2, <1>3, <2>2 DEF Over
  <2> QED BY <2>1, <2>2, <2>3 DEF Harmless
<1> QED BY <1>4, <1>5, <1>6

LEMMA FinishCallStep ==
    ASSUME PilotInv, FinishCall
    PROVE  PilotInv'
<1> DEFINE a == run.answer
           n == Len(sent)
           record == Record("call_finished", Index, a)
<1>1. /\ phase = "answered" /\ phase' = "loop" /\ run.dir \in Dirs /\ Index <= Trials
      /\ folder[run.dir].plan # << >> /\ folder[run.dir].exists
      /\ run' = [run EXCEPT !.stop = Stop(Index, a), !.answer = NoReply,
                            !.reported = IF Resolved(a) THEN @ + Cost(a) ELSE @,
                            !.rows = Append(@, RowStatus(Index, a))]
      /\ UNCHANGED <<source, plan, sent>>
      /\ sent # << >> /\ sent[n].dir = run.dir /\ sent[n].trial = Index
      /\ a \in Answers /\ sent[n].answer = a
      /\ Journal(record)
  BY DEF FinishCall, Goto, PilotInv, InRun, Underway, Calling
<1>2. /\ Len(run.rows) <= Trials /\ run.calls <= folder[run.dir].plan[1].limits.calls
      /\ Cardinality(SentTo(run.dir)) = run.calls /\ run.calls <= Len(run.rows) + 1
      /\ \A k \in SentTo(run.dir) : k = n \/ sent[k].trial <= Len(run.rows)
  BY <1>1 DEF PilotInv, InRun, Underway, Calling
<1>3. Index \in 1..Trials /\ Index = Len(run.rows) + 1 /\ Len(run.rows) \in Nat
  BY <1>1, RunFields, PilotAssumption DEF PilotInv
<1>4. record \in JournalRecord /\ record.event = "call_finished" /\ record.trial = Index /\ record.answer = a
  BY <1>1, <1>3 DEF Record, JournalRecord, Reply
<1>5. n \in DOMAIN sent /\ n \in Nat /\ \A k \in DOMAIN sent : k \in Nat /\ (k # n => k < n)
  <2>1. sent \in Seq(Sent)
    BY DEF PilotInv, PilotTypeInv
  <2> QED BY <1>1, <2>1
<1> HIDE DEF a, n, record
<1>6. /\ folder' \in [Dirs -> Folder] /\ OnlyAdded
      /\ \A d \in Dirs : folder'[d].plan = folder[d].plan /\ folder'[d].exists = folder[d].exists
      /\ \E k \in DOMAIN folder'[run.dir].journal : folder'[run.dir].journal[k] = record
  BY <1>1, <1>4, Journaled DEF PilotInv
<1>7. /\ Stop(Index, a) \in Stops /\ RowStatus(Index, a) \in RowStatuses
      /\ Resolved(a) => Cost(a) \in Nat
      /\ Stop(Index, a) = "no" => Harmless(Doc, Index, a)
  BY <1>1, <1>3, Settling DEF PilotInv
<1>8. /\ run' \in Run /\ run'.dir = run.dir /\ run'.stop = Stop(Index, a) /\ run'.calls = run.calls
      /\ Len(run'.rows) = Len(run.rows) + 1
  <2>1. run \in Run /\ run.rows \in Seq(RowStatuses) /\ run.reported \in Nat
    BY RunFields DEF PilotInv, PilotTypeInv
  <2> DEFINE rows == Append(run.rows, RowStatus(Index, a))
             cost == IF Resolved(a) THEN run.reported + Cost(a) ELSE run.reported
  <2>2. rows \in Seq(RowStatuses) /\ Len(rows) = Len(run.rows) + 1
    BY <1>7, <2>1
  <2>3. cost \in Nat
    BY <1>7, <2>1
  <2>4. NoReply \in Reply
    BY DEF Reply
  <2>5. run' = [run EXCEPT !.stop = Stop(Index, a), !.answer = NoReply, !.reported = cost, !.rows = rows]
    BY <1>1
  <2> HIDE DEF rows, cost
  <2> QED BY <1>7, <2>1, <2>2, <2>3, <2>4, <2>5 DEF Run
<1>9. PilotTypeInv'
  BY <1>1, <1>6, <1>8 DEF PilotInv, PilotTypeInv, Phases
<1>10. Past'
  BY <1>1, <1>6, Kept DEF PilotInv
<1>11. SentTo(run.dir)' = SentTo(run.dir)
  BY <1>1, <1>8 DEF SentTo
<1>12. \A k \in SentTo(run.dir) : sent[k].trial <= Len(run'.rows)
  <2> SUFFICES ASSUME NEW k \in SentTo(run.dir)
               PROVE  sent[k].trial <= Len(run.rows) + 1
    BY <1>8
  <2>1. k \in DOMAIN sent
    BY DEF SentTo
  <2>2. sent[k].trial \in Nat
    BY <2>1, SentType, PilotAssumption DEF PilotInv
  <2> QED BY <1>1, <1>2, <1>3, <2>2
<1>13. ASSUME Stop(Index, a) = "no", NEW k \in SentTo(run.dir)
       PROVE  Settled(k)'
  <2>1. k \in DOMAIN sent /\ sent[k].dir = run.dir
    BY DEF SentTo
  <2>2. CASE k = n
    <3>1. Harmless(folder'[run.dir].plan[1], Index, a)
      BY <1>1, <1>6, <1>7, <1>13 DEF Doc
    <3>2. \E f \in DOMAIN folder'[run.dir].journal :
             /\ folder'[run.dir].journal[f].event = "call_finished"
             /\ folder'[run.dir].journal[f].trial = Index /\ folder'[run.dir].journal[f].answer = a
      BY <1>4, <1>6
    <3>3. sent'[k].dir = run.dir /\ sent'[k].trial = Index /\ sent'[k].answer = a
      BY <1>1, <2>2
    <3> QED BY <3>1, <3>2, <3>3 DEF Settled, At, JournalOf, Harmless, Resolved
  <2>3. CASE k # n
    <3>1. Settled(k)
      BY <1>1, <1>5, <2>1, <2>3 DEF PilotInv, Past
    <3> QED BY <1>1, <1>6, <2>1, <3>1, SettledStays DEF PilotInv
  <2> QED BY <2>2, <2>3
<1>14. InRun'
  <2>1. /\ Len(run'.rows) <= Trials /\ run'.calls <= folder'[run.dir].plan[1].limits.calls
        /\ Cardinality(SentTo(run.dir)) = run'.calls /\ run'.calls <= Len(run'.rows)
    BY <1>1, <1>2, <1>3, <1>6, <1>8
  <2> QED BY <1>1, <1>6, <1>8, <1>11, <1>12, <1>13, <2>1 DEF InRun, Underway, Calling
<1> QED BY <1>9, <1>10, <1>14 DEF PilotInv

-----------------------------------------------------------------------------
\* The theorems

LEMMA PilotBegins == PilotInit => PilotInv
<1> SUFFICES ASSUME PilotInit PROVE PilotInv
  OBVIOUS
<1>1. NoFolder \in Folder /\ NoFolder.plan = << >> /\ NoFolder.journal = << >>
  BY DEF NoFolder, Folder, OnePlan
<1>2. folder \in [Dirs -> Folder]
  BY <1>1 DEF PilotInit
<1>3. PilotTypeInv
  BY <1>2, NoRunType DEF PilotInit, PilotTypeInv, OnePlan, Phases
<1>4. \A d : SentTo(d) = {}
  BY DEF PilotInit, SentTo
<1>5. Past
  BY <1>4 DEF PilotInit, Past, JournaledFirst, SentOnce, CallsWithinLimit
<1>6. InRun
  BY DEF PilotInit, InRun, Underway, Calling
<1> QED BY <1>3, <1>5, <1>6 DEF PilotInv

LEMMA PilotSteps == PilotInv /\ [PilotNext]_pilotVars => PilotInv'
<1> SUFFICES ASSUME PilotInv, [PilotNext]_pilotVars PROVE PilotInv'
  OBVIOUS
<1>1. CASE UNCHANGED pilotVars
  <2>1. PilotTypeInv'
    BY <1>1 DEF pilotVars, PilotInv, PilotTypeInv
  <2> QED BY <1>1, <2>1, PilotHostStep DEF pilotVars
<1>2. ASSUME NEW b \in [1..Trials -> InputBounds], NEW l \in Limits, Prepare(b, l)
      PROVE  PilotInv'
  <2>1. /\ plan' = <<[bound |-> b, limits |-> l, source |-> source]>> /\ phase = "idle"
        /\ UNCHANGED <<source, folder, sent, phase, run>>
    BY <1>2 DEF Prepare
  <2>2. plan' \in OnePlan
    <3>1. [bound |-> b, limits |-> l, source |-> source] \in Plan
      BY DEF PilotInv, PilotTypeInv, Plan
    <3> QED BY <2>1, <3>1 DEF OnePlan
  <2>3. PilotTypeInv'
    BY <2>1, <2>2 DEF PilotInv, PilotTypeInv
  <2> QED BY <2>1, <2>3, PilotHostStep
<1>3. ASSUME NEW l \in Limits, EditPlan(l)
      PROVE  PilotInv'
  <2>1. /\ plan' = <<[plan[1] EXCEPT !.limits = l]>> /\ phase = "idle" /\ plan # << >>
        /\ UNCHANGED <<source, folder, sent, phase, run>>
    BY <1>3 DEF EditPlan
  <2>2. plan' \in OnePlan
    <3>1. PICK p \in Plan : plan = <<p>>
      BY <2>1 DEF PilotInv, PilotTypeInv, OnePlan
    <3>2. [p EXCEPT !.limits = l] \in Plan
      BY DEF Plan
    <3> QED BY <2>1, <3>1, <3>2 DEF OnePlan
  <2>3. PilotTypeInv'
    BY <2>1, <2>2 DEF PilotInv, PilotTypeInv
  <2> QED BY <2>1, <2>3, PilotHostStep
<1>4. ASSUME NEW v \in Versions, EditSource(v)
      PROVE  PilotInv'
  <2>1. source' = v /\ UNCHANGED <<plan, folder, sent, phase, run>>
    BY <1>4 DEF EditSource
  <2>2. PilotTypeInv'
    BY <2>1 DEF PilotInv, PilotTypeInv
  <2> QED BY <2>1, <2>2, PilotHostStep
<1>5. CASE SkipAfterStop
  BY <1>5, SkipStep, RunFields DEF SkipAfterStop, RowStatuses, PilotInv
<1>6. CASE SkipSourceChanged
  BY <1>6, SkipStep DEF SkipSourceChanged, RowStatuses, Stops
<1>7. CASE SkipBudget
  BY <1>7, SkipStep DEF SkipBudget, RowStatuses, Stops
<1>8. CASE \E d \in Dirs : Start(d)
  BY <1>8, StartStep
<1>9. CASE RunStep
  BY <1>5, <1>6, <1>7, <1>9, SetupStep, BeginStep, StartCallStep, SendStep, ReceiveStep,
     FinishCallStep, FinishRunStep, SaveResultsStep DEF RunStep
<1>10. CASE Die
  BY <1>10, DieStep
<1> QED BY <1>1, <1>2, <1>3, <1>4, <1>8, <1>9, <1>10 DEF PilotNext

\* What is known of the pilot holds in every reachable state.
THEOREM PilotInvariance == PilotSpec => []PilotInv
BY PilotBegins, PilotSteps, PTL DEF PilotSpec

\* Every variable of the pilot keeps its type, and a run has reserved no more
\* calls than it has rows, but for the one under way (run_pilot).
THEOREM PilotTypeCorrect == PilotSpec => []PilotTypeOK
<1>1. PilotInv => PilotTypeOK
  <2> SUFFICES ASSUME PilotInv PROVE PilotTypeOK
    OBVIOUS
  <2>1. \A d \in Dirs : DOMAIN folder[d] = DOMAIN NoFolder
    <3>1. \A d \in Dirs : folder[d] \in Folder
      BY DEF PilotInv, PilotTypeInv
    <3> QED BY <3>1 DEF Folder, NoFolder
  <2>2. \A k \in DOMAIN sent : sent[k].trial \in 1..Trials
    BY SentType DEF PilotInv
  <2>3. run.calls <= Len(run.rows) + 1 /\ Len(run.rows) <= Trials
    <3>1. CASE phase \in Underway
      <4>1. /\ run.calls <= Len(run.rows) + (IF phase \in Calling THEN 1 ELSE 0)
            /\ Len(run.rows) <= Trials
        BY <3>1 DEF PilotInv, InRun
      <4>2. run.calls \in Nat /\ Len(run.rows) \in Nat
        BY RunFields DEF PilotInv
      <4>3. CASE phase \in Calling
        BY <4>1, <4>3
      <4>4. CASE phase \notin Calling
        <5>1. run.calls <= Len(run.rows) + 0
          BY <4>1, <4>4
        <5> QED BY <4>1, <4>2, <5>1
      <4> QED BY <4>3, <4>4
    <3>2. CASE phase \in {"idle", "setup", "begin"}
      <4>1. run.calls = 0 /\ run.rows = << >>
        BY <3>2, NoRunType DEF PilotInv, InRun
      <4> QED BY <4>1, PilotAssumption
    <3> QED BY <3>1, <3>2 DEF PilotInv, PilotTypeInv, Phases, Underway, Calling
  <2> QED BY <2>1, <2>2, <2>3 DEF PilotInv, PilotTypeInv, PilotTypeOK, OnePlan, Phases
<1> QED BY <1>1, PilotInvariance, PTL

\* Every call that was sent is in the journal, and none is sent twice for one
\* directory, wherever runs die and however often they are started (run_pilot).
THEOREM SentAlwaysOnRecord == PilotSpec => []SentOnRecord
<1>1. PilotInv => SentOnRecord
  BY DEF PilotInv, Past, SentOnRecord
<1> QED BY <1>1, PilotInvariance, PTL

-----------------------------------------------------------------------------
\* Sums of sequences of numbers, by induction over sets of numbers.

\* A set of numbers that is not empty has a least one.
LEMMA Least ==
    ASSUME NEW S \in SUBSET Nat, S # {}
    PROVE  \E x \in S : \A y \in S : x <= y
<1>1. PICK x \in S : \A y \in S : ~ (<<y, x>> \in OpToRel(<, Nat))
  BY NatLessThanWellFounded, WFMin
<1>2. ASSUME NEW y \in S, y < x
      PROVE  FALSE
  <2>1. <<y, x>> \in OpToRel(<, Nat)
    BY <1>2 DEF OpToRel
  <2> QED BY <1>1, <2>1
<1>3. \A y \in S : x <= y
  <2>1. \A y \in S : ~(y < x)
    BY <1>2
  <2>2. x \in Nat /\ \A y \in S : y \in Nat
    BY <1>1
  <2> QED BY <2>1, <2>2
<1> QED BY <1>3

\* What holds of 0, and of n + 1 when of n, holds of every number.
LEMMA Induction ==
    ASSUME NEW S, 0 \in S, \A n \in Nat : n \in S => n + 1 \in S
    PROVE  \A n \in Nat : n \in S
<1> SUFFICES ASSUME Nat \ S # {} PROVE FALSE
  OBVIOUS
<1>1. PICK x \in Nat \ S : \A y \in Nat \ S : x <= y
  BY Least
<1>2. x # 0 /\ x - 1 \in Nat
  BY <1>1
<1>3. x - 1 \in S
  BY <1>1, <1>2
<1>4. (x - 1) + 1 \in S
  BY <1>2, <1>3
<1> QED BY <1>1, <1>2, <1>4

\* The equation of Total: f has the sums of the first elements of s.
Sums(f, s, n) == f = [m \in 0..n |-> IF m = 0 THEN 0 ELSE f[m - 1] + s[m]]

LEMMA SumsStep ==
    ASSUME NEW f, NEW s, NEW n \in Nat, Sums(f, s, n)
    PROVE  f[0] = 0 /\ \A m \in 1..n : f[m] = f[m - 1] + s[m]
<1>1. f[0] = 0
  <2>1. 0 \in 0..n
    OBVIOUS
  <2> QED BY <2>1 DEF Sums
<1>2. ASSUME NEW m \in 1..n
      PROVE  f[m] = f[m - 1] + s[m]
  <2>1. m \in 0..n /\ m # 0
    OBVIOUS
  <2>2. f[m] = IF m = 0 THEN 0 ELSE f[m - 1] + s[m]
    BY <2>1 DEF Sums
  <2> QED BY <2>1, <2>2
<1> QED BY <1>1, <1>2

LEMMA SumsExist ==
    ASSUME NEW s
    PROVE  \A n \in Nat : \E f : Sums(f, s, n)
<1> DEFINE S == {n \in Nat : \E f : Sums(f, s, n)}
<1>1. 0 \in S
  <2> DEFINE z == [m \in 0..0 |-> 0]
             w == [m \in 0..0 |-> IF m = 0 THEN 0 ELSE z[m - 1] + s[m]]
  <2>1. \A m \in 0..0 : w[m] = z[m]
    OBVIOUS
  <2>2. z = w
    BY <2>1
  <2>3. Sums(z, s, 0)
    <3> HIDE DEF z
    <3> QED BY <2>2 DEF Sums
  <2> QED BY <2>3
<1>2. ASSUME NEW n \in Nat, n \in S
      PROVE  n + 1 \in S
  <2>1. PICK f : Sums(f, s, n)
    BY <1>2
  <2> DEFINE last == f[n] + s[n + 1]
             g == [m \in 0..(n + 1) |-> IF m = n + 1 THEN last ELSE f[m]]
             h == [m \in 0..(n + 1) |-> IF m = 0 THEN 0 ELSE g[m - 1] + s[m]]
  <2>2. f[0] = 0 /\ \A m \in 1..n : f[m] = f[m - 1] + s[m]
    BY <2>1, SumsStep
  <2> HIDE DEF last
  <2>3. g[n + 1] = last /\ \A m \in 0..n : g[m] = f[m]
    OBVIOUS
  <2>4. h[0] = 0 /\ \A m \in 1..(n + 1) : h[m] = g[m - 1] + s[m]
    <3> HIDE DEF g
    <3>1. 0 \in 0..(n + 1) /\ \A m \in 1..(n + 1) : m \in 0..(n + 1) /\ m # 0
      OBVIOUS
    <3> QED BY <3>1
  <2>5. DOMAIN g = 0..(n + 1) /\ DOMAIN h = 0..(n + 1)
        /\ g = [m \in 0..(n + 1) |-> g[m]] /\ h = [m \in 0..(n + 1) |-> h[m]]
    OBVIOUS
  <2>6. \A m \in 0..(n + 1) : g[m] = h[m]
    <3> HIDE DEF g, h
    <3> TAKE m \in 0..(n + 1)
    <3>1. CASE m = 0
      BY <2>2, <2>3, <2>4, <3>1
    <3>2. CASE m = n + 1
      <4>1. m \in 1..(n + 1) /\ m - 1 = n /\ n \in 0..n
        BY <3>2
      <4>2. h[n + 1] = g[n] + s[n + 1]
        BY <2>4, <3>2, <4>1
      <4> QED BY <2>3, <3>2, <4>1, <4>2 DEF last
    <3>3. CASE m \in 1..n
      <4>1. m \in 1..(n + 1) /\ m \in 0..n /\ m - 1 \in 0..n
        BY <3>3
      <4> QED BY <2>2, <2>3, <2>4, <3>3, <4>1
    <3> QED BY <3>1, <3>2, <3>3
  <2>7. g = h
    <3> HIDE DEF g, h
    <3> QED BY <2>5, <2>6
  <2>8. Sums(g, s, n + 1)
    <3> HIDE DEF g
    <3> QED BY <2>7 DEF Sums
  <2> QED BY <2>8
<1> HIDE DEF S
<1>3. \A n \in Nat : n \in S
  BY <1>1, <1>2, Induction
<1> QED BY <1>3 DEF S

\* The sum of a sequence is the last of its sums.
LEMMA TotalIs ==
    ASSUME NEW s \in Seq(Nat)
    PROVE  \E f : Sums(f, s, Len(s)) /\ Total(s) = f[Len(s)]
<1> DEFINE f == CHOOSE f : f = [m \in 0..Len(s) |-> IF m = 0 THEN 0 ELSE f[m - 1] + s[m]]
<1>1. Len(s) \in Nat
  OBVIOUS
<1>2. \E g : g = [m \in 0..Len(s) |-> IF m = 0 THEN 0 ELSE g[m - 1] + s[m]]
  <2>1. \E g : Sums(g, s, Len(s))
    BY <1>1, SumsExist
  <2> QED BY <2>1 DEF Sums
<1>3. f = [m \in 0..Len(s) |-> IF m = 0 THEN 0 ELSE f[m - 1] + s[m]]
  BY <1>2, Zenon
<1>4. Total(s) = f[Len(s)]
  BY Zenon DEF Total
<1> HIDE DEF f
<1> QED BY <1>3, <1>4 DEF Sums

\* Sequences that agree so far have the same sums so far, which are numbers.
LEMMA SumsAgree ==
    ASSUME NEW s \in Seq(Nat), NEW t \in Seq(Nat), NEW f, NEW g, NEW a \in Nat, a <= Len(s), a <= Len(t),
           Sums(f, s, Len(s)), Sums(g, t, Len(t)), \A k \in 1..a : s[k] = t[k]
    PROVE  f[a] \in Nat /\ f[a] = g[a]
<1> DEFINE S == {n \in Nat : n <= a => f[n] \in Nat /\ f[n] = g[n]}
<1>1. /\ Len(s) \in Nat /\ Len(t) \in Nat
      /\ f[0] = 0 /\ \A m \in 1..Len(s) : f[m] = f[m - 1] + s[m]
      /\ g[0] = 0 /\ \A m \in 1..Len(t) : g[m] = g[m - 1] + t[m]
  <2>1. Len(s) \in Nat /\ Len(t) \in Nat
    OBVIOUS
  <2> QED BY <2>1, SumsStep
<1>2. 0 \in S
  BY <1>1
<1>3. ASSUME NEW n \in Nat, n \in S
      PROVE  n + 1 \in S
  <2> SUFFICES ASSUME n + 1 <= a PROVE f[n + 1] \in Nat /\ f[n + 1] = g[n + 1]
    OBVIOUS
  <2>1. f[n] \in Nat /\ f[n] = g[n]
    BY <1>3
  <2>2. n + 1 \in 1..Len(s) /\ n + 1 \in 1..Len(t) /\ n + 1 \in 1..a /\ (n + 1) - 1 = n
    BY <1>1
  <2>3. f[n + 1] = f[n] + s[n + 1] /\ g[n + 1] = g[n] + t[n + 1]
    BY <1>1, <2>2
  <2>4. s[n + 1] \in Nat /\ s[n + 1] = t[n + 1]
    BY <2>2
  <2> QED BY <2>1, <2>3, <2>4
<1> HIDE DEF S
<1>4. \A n \in Nat : n \in S
  BY <1>2, <1>3, Induction
<1> QED BY <1>4 DEF S

LEMMA TotalType ==
    ASSUME NEW s \in Seq(Nat)
    PROVE  Total(s) \in Nat
<1>1. PICK f : Sums(f, s, Len(s)) /\ Total(s) = f[Len(s)]
  BY TotalIs
<1>2. Len(s) \in Nat /\ Len(s) <= Len(s)
  OBVIOUS
<1> QED BY <1>1, <1>2, SumsAgree

\* One more element adds to the sum.
LEMMA TotalGrows ==
    ASSUME NEW s \in Seq(Nat), NEW t \in Seq(Nat), Len(t) = Len(s) + 1, \A k \in 1..Len(s) : t[k] = s[k]
    PROVE  Total(t) = Total(s) + t[Len(t)]
<1>1. PICK f : Sums(f, s, Len(s)) /\ Total(s) = f[Len(s)]
  BY TotalIs
<1>2. PICK g : Sums(g, t, Len(t)) /\ Total(t) = g[Len(t)]
  BY TotalIs
<1>3. Len(s) \in Nat /\ Len(t) \in Nat /\ Len(t) \in 1..Len(t) /\ Len(t) - 1 = Len(s)
  OBVIOUS
<1>4. g[Len(t)] = g[Len(s)] + t[Len(t)]
  BY <1>2, <1>3, SumsStep
<1>5. Len(s) <= Len(s) /\ Len(s) <= Len(t) /\ \A k \in 1..Len(s) : s[k] = t[k]
  BY <1>3
<1>6. f[Len(s)] = g[Len(s)]
  <2> SUFFICES ASSUME NEW a \in Nat, a = Len(s), NEW b, b = Len(t)
               PROVE  f[a] = g[a]
    BY <1>3
  <2>1. a <= Len(s) /\ a <= Len(t) /\ \A k \in 1..a : s[k] = t[k]
    BY <1>5
  <2>2. Sums(f, s, Len(s)) /\ Sums(g, t, Len(t))
    BY <1>1, <1>2
  <2> QED BY ONLY s \in Seq(Nat), t \in Seq(Nat), a \in Nat, <2>1, <2>2, SumsAgree
<1> QED BY <1>1, <1>2, <1>4, <1>6

\* Another last element changes the sum by the difference.
LEMMA TotalReplaced ==
    ASSUME NEW s \in Seq(Nat), NEW t \in Seq(Nat), NEW n \in Nat \ {0}, Len(s) = n, Len(t) = n,
           \A k \in 1..(n - 1) : t[k] = s[k]
    PROVE  Total(t) + s[n] = Total(s) + t[n]
<1> DEFINE p == [k \in 1..(n - 1) |-> s[k]]
<1>1. p \in Seq(Nat) /\ Len(p) = n - 1
  <2>1. \A k \in 1..(n - 1) : s[k] \in Nat
    OBVIOUS
  <2> QED BY <2>1
<1>2. /\ \A k \in 1..Len(p) : s[k] = p[k] /\ t[k] = p[k]
      /\ Len(s) = Len(p) + 1 /\ Len(t) = Len(p) + 1
  BY <1>1
<1> HIDE DEF p
<1>3. Total(s) = Total(p) + s[Len(s)]
  BY <1>1, <1>2, TotalGrows
<1>4. Total(t) = Total(p) + t[Len(t)]
  BY <1>1, <1>2, TotalGrows
<1>5. Total(p) \in Nat /\ s[n] \in Nat /\ t[n] \in Nat
  BY <1>1, TotalType
<1> QED BY <1>3, <1>4, <1>5

\* The sum of zeros.
LEMMA TotalZero ==
    ASSUME NEW s \in Seq(Nat), \A k \in 1..Len(s) : s[k] = 0
    PROVE  Total(s) = 0
<1>1. PICK f : Sums(f, s, Len(s)) /\ Total(s) = f[Len(s)]
  BY TotalIs
<1>2. Len(s) \in Nat
  OBVIOUS
<1>3. f[0] = 0 /\ \A m \in 1..Len(s) : f[m] = f[m - 1] + s[m]
  BY <1>1, <1>2, SumsStep
<1> DEFINE S == {n \in Nat : n <= Len(s) => f[n] = 0}
<1>4. 0 \in S
  BY <1>3
<1>5. ASSUME NEW n \in Nat, n \in S
      PROVE  n + 1 \in S
  <2> SUFFICES ASSUME n + 1 <= Len(s) PROVE f[n + 1] = 0
    OBVIOUS
  <2>1. n + 1 \in 1..Len(s) /\ (n + 1) - 1 = n /\ f[n] = 0
    BY <1>2, <1>5
  <2>2. f[n + 1] = f[n] + s[n + 1]
    BY <1>3, <2>1
  <2> QED BY <2>1, <2>2
<1> HIDE DEF S
<1>6. \A n \in Nat : n \in S
  BY <1>4, <1>5, Induction
<1>7. f[Len(s)] = 0
  BY <1>2, <1>6 DEF S
<1> QED BY <1>1, <1>7

-----------------------------------------------------------------------------
\* The accounts of a run: what it has reserved and what it reports.

\* What the calls of a directory reserved, and what they cost.
Reserved(q, p, d) == [k \in 1..Len(q) |-> IF q[k].dir = d THEN Reserve(p, q[k].trial) ELSE 0]
Costs(q, d) ==
    [k \in 1..Len(q) |-> IF q[k].dir = d /\ Resolved(q[k].answer) THEN Cost(q[k].answer) ELSE 0]
ReservedOf(d) == Reserved(sent, folder[d].plan[1], d)
ReportedOf(d) == Costs(sent, d)

\* The trials whose calls are finished in a journal, and those that were sent.
Finished(journal) ==
    {journal[k].trial : k \in {j \in DOMAIN journal : journal[j].event = "call_finished"}}
FinishedOf(d) == Finished(folder[d].journal)
TrialsOf(d) == {sent[k].trial : k \in SentTo(d)}

\* A valid row is that of a call that was answered validly and within its bounds.
ValidCall(d, i) ==
    \E k \in SentTo(d) :
        /\ sent[k].trial = i /\ sent[k].answer.status = "valid"
        /\ Harmless(folder[d].plan[1], i, sent[k].answer)

\* The reservations of the calls that were sent are within the budget; while a
\* run is under way they are what it has counted.
WithinBudget ==
    \A d \in Dirs : SentTo(d) # {} => Total(ReservedOf(d)) <= folder[d].plan[1].limits.usd

Budgeted ==
    /\ WithinBudget
    /\ phase \in {"setup", "begin"} => run.reserved = 0
    /\ phase \in Underway =>
          /\ run.reserved <= Doc.limits.usd
          /\ run.reserved = IF phase = "started" THEN Total(ReservedOf(run.dir)) + Reserve(Doc, Index)
                            ELSE Total(ReservedOf(run.dir))

\* What a run will report is what is in its journal, but for the call under way.
Reported ==
    /\ phase \in {"setup", "begin"} => FinishedOf(run.dir) = {} /\ run.reported = 0
    /\ phase \in {"loop", "started", "finished"} =>
          /\ FinishedOf(run.dir) = TrialsOf(run.dir)
          /\ run.reported = Total(ReportedOf(run.dir))
    /\ phase \in {"waiting", "answered"} => FinishedOf(run.dir) \union {Index} = TrialsOf(run.dir)
    /\ phase = "waiting" =>
          /\ sent[Len(sent)].answer = NoReply
          /\ run.reported = Total(ReportedOf(run.dir))
    /\ phase = "answered" =>
          IF Resolved(run.answer)
          THEN run.reported + Cost(run.answer) = Total(ReportedOf(run.dir))
          ELSE run.reported = Total(ReportedOf(run.dir))
    /\ phase = "finished" =>
          /\ Len(run.rows) = Trials
          /\ JournalOf(run.dir) # << >> /\ Last(JournalOf(run.dir)).event = "run_finished"
    /\ phase \in Underway =>
          \A i \in DOMAIN run.rows : run.rows[i] = "valid" => ValidCall(run.dir, i)

\* A directory that no run has used is empty; that of the run has no results.
EmptyAtFirst ==
    \A d \in Dirs : ~folder[d].exists => folder[d].journal = << >> /\ folder[d].results = << >>

Unused ==
    /\ EmptyAtFirst
    /\ phase # "idle" => folder[run.dir].results = << >>

\* What ResultsEarned says of one directory.
EarnedAt(d) ==
    LET r == folder[d].results[1] IN
    /\ Last(JournalOf(d)).event = "run_finished"
    /\ Len(r.rows) = Trials
    /\ r.calls = Cardinality(SentTo(d))
    /\ FinishedOf(d) = TrialsOf(d)
    /\ r.reported = Total(ReportedOf(d))
    /\ r.contrasts => \A i \in 1..Trials : ValidCall(d, i)

Earned == \A d \in Dirs : folder[d].results # << >> => EarnedAt(d)

Accounts == Budgeted /\ Reported /\ Unused /\ Earned

LEMMA ReservedTypes ==
    ASSUME NEW q \in Seq(Sent), NEW p \in Plan, NEW d
    PROVE  Reserved(q, p, d) \in Seq(Nat) /\ Len(Reserved(q, p, d)) = Len(q)
<1> DEFINE v(k) == IF q[k].dir = d THEN Reserve(p, q[k].trial) ELSE 0
<1>1. Len(q) \in Nat /\ \A k \in 1..Len(q) : q[k].trial \in 1..Trials
  <2>1. Len(q) \in Nat /\ \A k \in 1..Len(q) : q[k] \in Sent
    OBVIOUS
  <2> QED BY <2>1 DEF Sent
<1>2. \A i \in 1..Trials : Reserve(p, i) \in Nat
  <2>1. p.bound \in [1..Trials -> InputBounds] /\ MaxOutput \in Nat /\ InputBounds \subseteq Nat
    BY PilotAssumption DEF Plan
  <2>2. \A i \in 1..Trials : p.bound[i] \in Nat
    BY <2>1
  <2> QED BY <2>1, <2>2 DEF Reserve
<1>3. \A k \in 1..Len(q) : v(k) \in Nat
  BY <1>1, <1>2
<1> HIDE DEF v
<1>4. [k \in 1..Len(q) |-> v(k)] \in Seq(Nat) /\ Len([k \in 1..Len(q) |-> v(k)]) = Len(q)
  BY <1>1, <1>3
<1> QED BY <1>4 DEF Reserved, v

LEMMA CostTypes ==
    ASSUME NEW q \in Seq(Sent), NEW d
    PROVE  Costs(q, d) \in Seq(Nat) /\ Len(Costs(q, d)) = Len(q)
<1> DEFINE v(k) == IF q[k].dir = d /\ Resolved(q[k].answer) THEN Cost(q[k].answer) ELSE 0
<1>1. Len(q) \in Nat /\ \A k \in 1..Len(q) : q[k].answer \in Reply
  <2>1. Len(q) \in Nat /\ \A k \in 1..Len(q) : q[k] \in Sent
    OBVIOUS
  <2> QED BY <2>1 DEF Sent
<1>2. ASSUME NEW a \in Reply, Resolved(a)
      PROVE  Cost(a) \in Nat
  <2>1. a.input \in Tokens /\ a.output \in Tokens
    BY DEF Reply, Answers, NoReply, Tokens
  <2>2. a.input \in Nat /\ a.output \in Nat
    BY <1>2, <2>1, PilotAssumption DEF Resolved, Tokens
  <2> QED BY <2>2 DEF Cost
<1>3. \A k \in 1..Len(q) : v(k) \in Nat
  BY <1>1, <1>2
<1> HIDE DEF v
<1>4. [k \in 1..Len(q) |-> v(k)] \in Seq(Nat) /\ Len([k \in 1..Len(q) |-> v(k)]) = Len(q)
  BY <1>1, <1>3
<1> QED BY <1>4 DEF Costs, v

\* A call adds its reservation to those of its directory.
LEMMA ReservedGrows ==
    ASSUME NEW q \in Seq(Sent), NEW p \in Plan, NEW c \in Sent, NEW d
    PROVE  Total(Reserved(Append(q, c), p, d)) =
              Total(Reserved(q, p, d)) + IF c.dir = d THEN Reserve(p, c.trial) ELSE 0
<1> DEFINE r == Append(q, c)
           s == Reserved(q, p, d)
           t == Reserved(r, p, d)
<1>1. /\ r \in Seq(Sent) /\ Len(q) \in Nat /\ Len(r) = Len(q) + 1 /\ r[Len(r)] = c
      /\ \A k \in 1..Len(q) : r[k] = q[k]
  OBVIOUS
<1> HIDE DEF r
<1>2. s \in Seq(Nat) /\ Len(s) = Len(q) /\ t \in Seq(Nat) /\ Len(t) = Len(r)
  BY <1>1, ReservedTypes
<1>3. \A k \in 1..Len(q) : t[k] = s[k]
  BY <1>1 DEF Reserved
<1>4. t[Len(r)] = IF c.dir = d THEN Reserve(p, c.trial) ELSE 0
  BY <1>1 DEF Reserved
<1> HIDE DEF s, t
<1>5. Total(t) = Total(s) + t[Len(t)]
  BY <1>1, <1>2, <1>3, TotalGrows
<1> QED BY <1>2, <1>4, <1>5 DEF r, s, t

LEMMA ReservedNone ==
    ASSUME NEW q \in Seq(Sent), NEW p \in Plan, NEW d, \A k \in 1..Len(q) : q[k].dir # d
    PROVE  Total(Reserved(q, p, d)) = 0
<1>1. Reserved(q, p, d) \in Seq(Nat) /\ Len(Reserved(q, p, d)) = Len(q)
  BY ReservedTypes
<1>2. \A k \in 1..Len(q) : Reserved(q, p, d)[k] = 0
  BY DEF Reserved
<1> QED BY <1>1, <1>2, TotalZero

LEMMA CostsNone ==
    ASSUME NEW q \in Seq(Sent), NEW d, \A k \in 1..Len(q) : q[k].dir # d
    PROVE  Total(Costs(q, d)) = 0
<1>1. Costs(q, d) \in Seq(Nat) /\ Len(Costs(q, d)) = Len(q)
  BY CostTypes
<1>2. \A k \in 1..Len(q) : Costs(q, d)[k] = 0
  BY DEF Costs
<1> QED BY <1>1, <1>2, TotalZero

\* A call that is not answered has cost nothing yet.
LEMMA CostsUnanswered ==
    ASSUME NEW q \in Seq(Sent), NEW c \in Sent, c.answer = NoReply, NEW d
    PROVE  Total(Costs(Append(q, c), d)) = Total(Costs(q, d))
<1> DEFINE r == Append(q, c)
           s == Costs(q, d)
           t == Costs(r, d)
<1>1. /\ r \in Seq(Sent) /\ Len(q) \in Nat /\ Len(r) = Len(q) + 1 /\ r[Len(r)] = c
      /\ \A k \in 1..Len(q) : r[k] = q[k]
  OBVIOUS
<1> HIDE DEF r
<1>2. s \in Seq(Nat) /\ Len(s) = Len(q) /\ t \in Seq(Nat) /\ Len(t) = Len(r)
  BY <1>1, CostTypes
<1>3. \A k \in 1..Len(q) : t[k] = s[k]
  BY <1>1 DEF Costs
<1>4. t[Len(r)] = 0
  BY <1>1 DEF Costs, Resolved, NoReply
<1> HIDE DEF s, t
<1>5. Total(t) = Total(s) + t[Len(t)] /\ Total(s) \in Nat
  BY <1>1, <1>2, <1>3, TotalGrows, TotalType
<1> QED BY <1>2, <1>4, <1>5 DEF r, s, t

\* The answer of the last call adds its cost to those of its directory.
LEMMA CostsAnswered ==
    ASSUME NEW q \in Seq(Sent), NEW r \in Seq(Sent), NEW n \in Nat \ {0}, Len(q) = n, Len(r) = n,
           \A k \in 1..(n - 1) : r[k] = q[k], q[n].answer = NoReply, r[n].dir = q[n].dir, NEW d
    PROVE  Total(Costs(r, d)) = Total(Costs(q, d)) +
              IF r[n].dir = d /\ Resolved(r[n].answer) THEN Cost(r[n].answer) ELSE 0
<1> DEFINE s == Costs(q, d)
           t == Costs(r, d)
<1>1. s \in Seq(Nat) /\ Len(s) = n /\ t \in Seq(Nat) /\ Len(t) = n
  BY CostTypes
<1>2. \A k \in 1..(n - 1) : t[k] = s[k]
  BY DEF Costs
<1>3. s[n] = 0 /\ t[n] = IF r[n].dir = d /\ Resolved(r[n].answer) THEN Cost(r[n].answer) ELSE 0
  BY DEF Costs, Resolved, NoReply
<1> HIDE DEF s, t
<1>4. Total(t) + s[n] = Total(s) + t[n]
  BY <1>1, <1>2, TotalReplaced
<1>5. Total(s) \in Nat /\ Total(t) \in Nat /\ t[n] \in Nat
  BY <1>1, TotalType
<1> QED BY <1>3, <1>4, <1>5 DEF s, t

-----------------------------------------------------------------------------
\* What a step leaves of the accounts.

LEMMA FolderType ==
    ASSUME PilotTypeInv, NEW d \in Dirs
    PROVE  /\ folder[d] \in Folder /\ folder[d].journal \in Seq(JournalRecord)
           /\ folder[d].plan # << >> => folder[d].plan[1] \in Plan /\ folder[d].plan[1].limits.usd \in Nat
<1>1. folder[d] \in Folder
  BY DEF PilotTypeInv
<1>2. folder[d].plan \in OnePlan /\ folder[d].journal \in Seq(JournalRecord)
  BY <1>1 DEF Folder
<1>3. ASSUME folder[d].plan # << >>
      PROVE  folder[d].plan[1] \in Plan /\ folder[d].plan[1].limits.usd \in Nat
  <2>1. PICK p \in Plan : folder[d].plan = <<p>>
    BY <1>2, <1>3 DEF OnePlan
  <2>2. p.limits \in [calls : Nat, usd : Nat]
    BY PilotAssumption DEF Plan
  <2> QED BY <2>1, <2>2
<1> QED BY <1>1, <1>2, <1>3

\* What was sent to a directory, and hence what it says of it, stays.
LEMMA Unsent ==
    ASSUME sent' = sent, NEW d
    PROVE  /\ SentTo(d)' = SentTo(d) /\ TrialsOf(d)' = TrialsOf(d)
           /\ ReportedOf(d)' = ReportedOf(d)
           /\ folder'[d].plan = folder[d].plan => ReservedOf(d)' = ReservedOf(d)
<1>1. SentTo(d)' = SentTo(d)
  BY DEF SentTo
<1>2. TrialsOf(d)' = TrialsOf(d)
  BY <1>1 DEF TrialsOf
<1>3. ReportedOf(d)' = ReportedOf(d)
  BY DEF ReportedOf, Costs
<1>4. folder'[d].plan = folder[d].plan => ReservedOf(d)' = ReservedOf(d)
  BY DEF ReservedOf, Reserved
<1> QED BY <1>1, <1>2, <1>3, <1>4

LEMMA ValidStays ==
    ASSUME NEW d, NEW i, ValidCall(d, i), folder'[d].plan = folder[d].plan,
           \A k \in SentTo(d) : sent[k].trial = i => k \in SentTo(d)' /\ sent'[k] = sent[k]
    PROVE  ValidCall(d, i)'
<1>1. PICK k \in SentTo(d) :
        /\ sent[k].trial = i /\ sent[k].answer.status = "valid"
        /\ Harmless(folder[d].plan[1], i, sent[k].answer)
  BY DEF ValidCall
<1>2. k \in SentTo(d)' /\ sent'[k] = sent[k]
  BY <1>1
<1>3. Harmless(folder'[d].plan[1], i, sent'[k].answer)
  BY <1>1, <1>2
<1> QED BY <1>1, <1>2, <1>3 DEF ValidCall, Harmless, Resolved

LEMMA EarnedStays ==
    ASSUME NEW d, EarnedAt(d), folder'[d] = folder[d], SentTo(d)' = SentTo(d),
           \A k \in SentTo(d) : sent'[k] = sent[k], Total(ReportedOf(d)') = Total(ReportedOf(d))
    PROVE  EarnedAt(d)'
<1>1. TrialsOf(d)' = TrialsOf(d)
  BY DEF TrialsOf
<1>2. FinishedOf(d)' = FinishedOf(d)
  BY DEF FinishedOf, JournalOf
<1>3. \A i : ValidCall(d, i) => ValidCall(d, i)'
  BY ValidStays
<1>4. JournalOf(d)' = JournalOf(d)
  BY DEF JournalOf
<1> QED BY <1>1, <1>2, <1>3, <1>4 DEF EarnedAt

\* Of what is over, a step that sends nothing and saves no results keeps all.
LEMMA LastingKept ==
    ASSUME Accounts, sent' = sent,
           \A d \in Dirs : SentTo(d) # {} => folder'[d].plan = folder[d].plan,
           \A d \in Dirs : folder'[d].results = folder[d].results,
           \A d \in Dirs : folder[d].results # << >> \/ ~folder'[d].exists => folder'[d] = folder[d]
    PROVE  WithinBudget' /\ EmptyAtFirst' /\ Earned'
<1>1. WithinBudget'
  <2> SUFFICES ASSUME NEW d \in Dirs, SentTo(d)' # {}
               PROVE  Total(ReservedOf(d)') <= folder'[d].plan[1].limits.usd
    BY DEF WithinBudget
  <2>1. SentTo(d) # {} /\ folder'[d].plan = folder[d].plan /\ ReservedOf(d)' = ReservedOf(d)
    BY Unsent
  <2>2. Total(ReservedOf(d)) <= folder[d].plan[1].limits.usd
    BY <2>1 DEF Accounts, Budgeted, WithinBudget
  <2> QED BY <2>1, <2>2
<1>2. EmptyAtFirst'
  BY DEF Accounts, Unused, EmptyAtFirst
<1>3. Earned'
  <2> SUFFICES ASSUME NEW d \in Dirs, folder'[d].results # << >>
               PROVE  EarnedAt(d)'
    BY DEF Earned
  <2>1. EarnedAt(d) /\ folder'[d] = folder[d]
    BY DEF Accounts, Earned
  <2>2. SentTo(d)' = SentTo(d) /\ ReportedOf(d)' = ReportedOf(d)
    BY Unsent
  <2>3. Total(ReportedOf(d)') = Total(ReportedOf(d))
    BY <2>2
  <2> QED BY <2>1, <2>2, <2>3, EarnedStays
<1> QED BY <1>1, <1>2, <1>3

\* A record is appended to the journal of the run.
LEMMA JournalGrows ==
    ASSUME PilotTypeInv, Accounts, phase # "idle", run.dir \in Dirs, folder[run.dir].exists,
           NEW record \in JournalRecord, Journal(record)
    PROVE  /\ \A d \in Dirs : /\ folder'[d].plan = folder[d].plan /\ folder'[d].exists = folder[d].exists
                              /\ folder'[d].results = folder[d].results
                              /\ d # run.dir => folder'[d] = folder[d]
           /\ folder'[run.dir].journal # << >> /\ Last(folder'[run.dir].journal) = record
           /\ \A d \in Dirs : d = run.dir =>
                 FinishedOf(d)' = FinishedOf(d) \union
                    (IF record.event = "call_finished" THEN {record.trial} ELSE {})
           /\ sent' = sent => WithinBudget' /\ EmptyAtFirst' /\ Earned'
<1> DEFINE old == folder[run.dir].journal
           new == Append(old, record)
<1>1. folder \in [Dirs -> Folder] /\ folder[run.dir] \in Folder /\ old \in Seq(JournalRecord)
  BY FolderType DEF PilotTypeInv
<1>2. /\ Len(old) \in Nat /\ DOMAIN old = 1..Len(old) /\ DOMAIN new = 1..(Len(old) + 1)
      /\ new[Len(old) + 1] = record /\ \A k \in DOMAIN old : new[k] = old[k]
      /\ Len(new) = Len(old) + 1 /\ new # << >>
  <2> HIDE DEF old
  <2>1. Len(old) \in Nat /\ DOMAIN old = 1..Len(old)
    BY <1>1
  <2>2. Len(new) = Len(old) + 1 /\ DOMAIN new = 1..(Len(old) + 1)
    BY <1>1
  <2>3. new[Len(old) + 1] = record /\ \A k \in DOMAIN old : new[k] = old[k]
    BY <1>1
  <2>4. new # << >>
    <3>1. Len(new) # 0
      BY <2>1, <2>2
    <3> QED BY <3>1
  <2> QED BY <2>1, <2>2, <2>3, <2>4
<1>3. folder' = [folder EXCEPT ![run.dir] = [@ EXCEPT !.journal = new]]
  BY DEF Journal
<1>4. folder'[run.dir] = [folder[run.dir] EXCEPT !.journal = new]
  BY <1>1, <1>3
<1> HIDE DEF new, old
<1>5. /\ folder'[run.dir].journal = new /\ folder'[run.dir].plan = folder[run.dir].plan
      /\ folder'[run.dir].exists = folder[run.dir].exists /\ folder'[run.dir].results = folder[run.dir].results
  BY <1>1, <1>4 DEF Folder
<1>6. \A d \in Dirs : d # run.dir => folder'[d] = folder[d]
  BY <1>1, <1>3
<1>7. Last(new) = record
  BY <1>2 DEF Last
<1>8. ASSUME NEW d \in Dirs, d = run.dir
      PROVE  FinishedOf(d)' = FinishedOf(d) \union
                (IF record.event = "call_finished" THEN {record.trial} ELSE {})
  <2>1. FinishedOf(d) = Finished(old) /\ FinishedOf(d)' = Finished(new)
    BY <1>5, <1>8 DEF FinishedOf, old
  <2>2. DOMAIN new = DOMAIN old \union {Len(old) + 1} /\ Len(old) + 1 \notin DOMAIN old
    BY <1>2
  <2>3. Finished(new) = Finished(old) \union
           (IF record.event = "call_finished" THEN {record.trial} ELSE {})
    BY <1>2, <2>2 DEF Finished
  <2> QED BY <2>1, <2>3
<1>9. folder[run.dir].results = << >>
  BY DEF Accounts, Unused
<1>10. \A d \in Dirs : /\ folder'[d].plan = folder[d].plan /\ folder'[d].exists = folder[d].exists
                       /\ folder'[d].results = folder[d].results
  BY <1>5, <1>6
<1>11. ASSUME sent' = sent PROVE WithinBudget' /\ EmptyAtFirst' /\ Earned'
  <2>1. \A d \in Dirs : folder[d].results # << >> \/ ~folder'[d].exists => folder'[d] = folder[d]
    BY <1>6, <1>9, <1>10
  <2> QED BY <1>10, <1>11, <2>1, LastingKept
<1> QED BY <1>5, <1>2, <1>6, <1>7, <1>8, <1>10, <1>11

-----------------------------------------------------------------------------
\* The steps of the pilot keep the accounts.

LEMMA HostKeepsAccounts ==
    ASSUME Accounts, UNCHANGED <<folder, sent, phase, run>>
    PROVE  Accounts'
<1>1. WithinBudget' /\ EmptyAtFirst' /\ Earned'
  BY LastingKept
<1>2. Doc' = Doc /\ Index' = Index /\ phase' = phase /\ run' = run /\ sent' = sent
  BY DEF Doc, Index
<1>3. \A d : /\ ReservedOf(d)' = ReservedOf(d) /\ ReportedOf(d)' = ReportedOf(d)
             /\ FinishedOf(d)' = FinishedOf(d) /\ TrialsOf(d)' = TrialsOf(d)
             /\ JournalOf(d)' = JournalOf(d)
             /\ \A i : ValidCall(d, i) => ValidCall(d, i)'
  <2> TAKE d
  <2>1. SentTo(d)' = SentTo(d) /\ ReservedOf(d)' = ReservedOf(d) /\ ReportedOf(d)' = ReportedOf(d)
        /\ TrialsOf(d)' = TrialsOf(d)
    BY Unsent
  <2>2. FinishedOf(d)' = FinishedOf(d) /\ JournalOf(d)' = JournalOf(d)
    BY DEF FinishedOf, JournalOf
  <2>3. \A i : ValidCall(d, i) => ValidCall(d, i)'
    BY <2>1, ValidStays
  <2> QED BY <2>1, <2>2, <2>3
<1>4. \A d : ReservedOf(d)' = ReservedOf(d)
  BY <1>3
<1>5. ReservedOf(run.dir)' = ReservedOf(run.dir) /\ Reserve(Doc, Index)' = Reserve(Doc, Index)
  BY <1>2 DEF ReservedOf, Reserved, Reserve
<1>6. /\ ReportedOf(run.dir)' = ReportedOf(run.dir) /\ FinishedOf(run.dir)' = FinishedOf(run.dir)
      /\ TrialsOf(run.dir)' = TrialsOf(run.dir) /\ JournalOf(run.dir)' = JournalOf(run.dir)
  BY <1>2 DEF ReportedOf, Costs, FinishedOf, JournalOf, TrialsOf, SentTo
<1>7. \A i : ValidCall(run.dir, i) => ValidCall(run.dir, i)'
  BY <1>2 DEF ValidCall, SentTo, Harmless, Resolved
<1>8. Budgeted'
  BY <1>1, <1>2, <1>5 DEF Accounts, Budgeted
<1>9. Reported'
  BY <1>2, <1>6, <1>7 DEF Accounts, Reported, Resolved, Cost
<1>10. Unused'
  BY <1>1 DEF Accounts, Unused
<1> QED BY <1>1, <1>8, <1>9, <1>10 DEF Accounts

LEMMA StartKeepsAccounts ==
    ASSUME PilotInv, Accounts, NEW d \in Dirs, Start(d)
    PROVE  Accounts'
<1>1. /\ phase' = "setup" /\ ~folder[d].exists
      /\ folder' = [folder EXCEPT ![d].exists = TRUE] /\ run' = [NoRun EXCEPT !.dir = d] /\ sent' = sent
  BY DEF Start, Goto
<1>2. run'.dir = d /\ run'.reserved = 0 /\ run'.reported = 0
  BY <1>1 DEF NoRun
<1>3. folder \in [Dirs -> Folder] /\ folder[d] \in Folder
  BY DEF PilotInv, PilotTypeInv
<1>4. folder'[d] = [folder[d] EXCEPT !.exists = TRUE] /\ \A e \in Dirs : e # d => folder'[e] = folder[e]
  BY <1>1, <1>3
<1>5. /\ folder'[d].exists /\ folder'[d].plan = folder[d].plan
      /\ folder'[d].journal = folder[d].journal /\ folder'[d].results = folder[d].results
  BY <1>3, <1>4 DEF Folder
<1>6. folder[d].journal = << >> /\ folder[d].results = << >>
  BY <1>1 DEF Accounts, Unused, EmptyAtFirst
<1>7. WithinBudget' /\ EmptyAtFirst' /\ Earned'
  <2>1. \A e \in Dirs : SentTo(e) # {} => folder'[e].plan = folder[e].plan
    BY <1>4, <1>5
  <2>2. \A e \in Dirs : folder'[e].results = folder[e].results
    BY <1>4, <1>5
  <2>3. \A e \in Dirs : folder[e].results # << >> \/ ~folder'[e].exists => folder'[e] = folder[e]
    BY <1>4, <1>5, <1>6
  <2> QED BY <1>1, <2>1, <2>2, <2>3, LastingKept
<1>8. FinishedOf(run.dir)' = {}
  <2>1. DOMAIN folder'[d].journal = {}
    BY <1>5, <1>6
  <2> QED BY <1>2, <2>1 DEF FinishedOf, Finished
<1>9. Budgeted' /\ Reported' /\ Unused'
  BY <1>1, <1>2, <1>5, <1>6, <1>7, <1>8 DEF Budgeted, Reported, Unused, Underway, Calling
<1> QED BY <1>7, <1>9 DEF Accounts

LEMMA SetupKeepsAccounts ==
    ASSUME PilotInv, Accounts, Setup
    PROVE  Accounts'
<1>1. /\ phase = "setup" /\ phase' = "begin" /\ run.dir \in Dirs /\ SentTo(run.dir) = {}
      /\ folder' = [folder EXCEPT ![run.dir].plan = plan] /\ folder[run.dir].exists
      /\ UNCHANGED <<sent, run>>
  BY DEF Setup, Goto, PilotInv, InRun
<1>2. folder \in [Dirs -> Folder] /\ folder[run.dir] \in Folder
  BY <1>1 DEF PilotInv, PilotTypeInv
<1>3. /\ folder'[run.dir] = [folder[run.dir] EXCEPT !.plan = plan]
      /\ \A e \in Dirs : e # run.dir => folder'[e] = folder[e]
  BY <1>1, <1>2
<1>4. /\ folder'[run.dir].exists /\ folder'[run.dir].journal = folder[run.dir].journal
      /\ folder'[run.dir].results = folder[run.dir].results
  BY <1>1, <1>2, <1>3 DEF Folder
<1>5. /\ folder[run.dir].results = << >> /\ FinishedOf(run.dir) = {} /\ run.reserved = 0 /\ run.reported = 0
  BY <1>1 DEF Accounts, Unused, Reported, Budgeted
<1>6. WithinBudget' /\ EmptyAtFirst' /\ Earned'
  <2>1. \A e \in Dirs : SentTo(e) # {} => folder'[e].plan = folder[e].plan
    BY <1>1, <1>3
  <2>2. \A e \in Dirs : folder'[e].results = folder[e].results
    BY <1>3, <1>4
  <2>3. \A e \in Dirs : folder[e].results # << >> \/ ~folder'[e].exists => folder'[e] = folder[e]
    BY <1>3, <1>4, <1>5
  <2> QED BY <1>1, <2>1, <2>2, <2>3, LastingKept
<1>7. FinishedOf(run.dir)' = {}
  <2>1. FinishedOf(run.dir)' = FinishedOf(run.dir)
    BY <1>1, <1>4 DEF FinishedOf, JournalOf
  <2> QED BY <1>5, <2>1
<1>8. Budgeted' /\ Reported' /\ Unused'
  BY <1>1, <1>4, <1>5, <1>6, <1>7 DEF Budgeted, Reported, Unused, Underway, Calling
<1> QED BY <1>6, <1>8 DEF Accounts

LEMMA BeginKeepsAccounts ==
    ASSUME PilotInv, Accounts, Begin
    PROVE  Accounts'
<1>1. /\ phase = "begin" /\ phase' = "loop" /\ run.dir \in Dirs /\ folder[run.dir].exists
      /\ SentTo(run.dir) = {} /\ run.rows = << >> /\ folder[run.dir].plan # << >>
      /\ UNCHANGED <<sent, run>>
  BY DEF Begin, Goto, PilotInv, InRun, Underway
<1> DEFINE record == Record("run_started", 0, NoReply)
<1>2. record \in JournalRecord /\ record.event # "call_finished"
  BY PilotAssumption DEF Record, JournalRecord, Reply
<1>3. Journal(record)
  BY DEF Begin
<1> HIDE DEF record
<1>4. /\ folder'[run.dir].plan = folder[run.dir].plan /\ folder'[run.dir].results = folder[run.dir].results
      /\ FinishedOf(run.dir)' = FinishedOf(run.dir) /\ WithinBudget' /\ EmptyAtFirst' /\ Earned'
  <2>1. \A d \in Dirs : d = run.dir => FinishedOf(d)' = FinishedOf(d)
    BY <1>1, <1>2, <1>3, JournalGrows DEF PilotInv
  <2>2. FinishedOf(run.dir)' = FinishedOf(run.dir)
    BY <1>1, <2>1 DEF FinishedOf, JournalOf
  <2> QED BY <1>1, <1>2, <1>3, <2>2, JournalGrows DEF PilotInv
<1>5. /\ folder[run.dir].results = << >> /\ FinishedOf(run.dir) = {} /\ run.reserved = 0 /\ run.reported = 0
  BY <1>1 DEF Accounts, Unused, Reported, Budgeted
<1>6. Total(ReservedOf(run.dir)) = 0 /\ Total(ReportedOf(run.dir)) = 0 /\ Doc.limits.usd \in Nat
  <2>1. sent \in Seq(Sent) /\ \A k \in 1..Len(sent) : sent[k].dir # run.dir
    <3>1. sent \in Seq(Sent)
      BY DEF PilotInv, PilotTypeInv
    <3>2. DOMAIN sent = 1..Len(sent)
      BY <3>1
    <3> QED BY <1>1, <3>1, <3>2 DEF SentTo
  <2>2. Doc \in Plan /\ Doc.limits.usd \in Nat
    BY <1>1, FolderType DEF PilotInv, Doc
  <2>3. Total(Reserved(sent, Doc, run.dir)) = 0 /\ Total(Costs(sent, run.dir)) = 0
    BY <2>1, <2>2, ReservedNone, CostsNone
  <2> QED BY <2>2, <2>3 DEF ReservedOf, ReportedOf, Doc
<1>7. /\ ReservedOf(run.dir)' = ReservedOf(run.dir) /\ ReportedOf(run.dir)' = ReportedOf(run.dir)
      /\ Doc' = Doc /\ TrialsOf(run.dir)' = {}
  BY <1>1, <1>4 DEF ReservedOf, Reserved, ReportedOf, Costs, Doc, TrialsOf, SentTo
<1>8. Budgeted'
  BY <1>1, <1>4, <1>5, <1>6, <1>7 DEF Budgeted, Underway, Calling
<1>9. Reported'
  BY <1>1, <1>4, <1>5, <1>6, <1>7 DEF Reported, Underway, Calling
<1>10. Unused'
  BY <1>1, <1>4, <1>5 DEF Unused
<1> QED BY <1>4, <1>8, <1>9, <1>10 DEF Accounts

\* A row of a trial that is not attempted.
LEMMA SkipKeepsAccounts ==
    ASSUME PilotInv, Accounts, NEW stop, NEW status, status # "valid", AtTrial, Skip(stop, status)
    PROVE  Accounts'
<1>1. /\ phase = "loop" /\ phase' = "loop"
      /\ run' = [run EXCEPT !.stop = stop, !.rows = Append(@, status)] /\ UNCHANGED <<folder, sent>>
  BY DEF AtTrial, Skip
<1>2. run \in Run /\ run.rows \in Seq(RowStatuses)
  BY RunFields DEF PilotInv, PilotTypeInv
<1> DEFINE rows == Append(run.rows, status)
<1>3. \A i \in DOMAIN rows : rows[i] = "valid" => i \in DOMAIN run.rows /\ run.rows[i] = "valid"
  BY <1>2
<1> HIDE DEF rows
<1>4. /\ run'.dir = run.dir /\ run'.reserved = run.reserved /\ run'.reported = run.reported
      /\ run'.rows = rows
  BY <1>1, <1>2 DEF Run, rows
<1>5. WithinBudget' /\ EmptyAtFirst' /\ Earned'
  BY <1>1, LastingKept
<1>6. /\ Doc' = Doc /\ ReservedOf(run.dir)' = ReservedOf(run.dir) /\ ReportedOf(run.dir)' = ReportedOf(run.dir)
      /\ FinishedOf(run.dir)' = FinishedOf(run.dir) /\ TrialsOf(run.dir)' = TrialsOf(run.dir)
  BY <1>1, <1>4 DEF Doc, ReservedOf, Reserved, ReportedOf, Costs, FinishedOf, JournalOf, TrialsOf, SentTo
<1>7. \A i : ValidCall(run.dir, i) => ValidCall(run.dir, i)'
  BY <1>1, <1>4 DEF ValidCall, SentTo, Harmless, Resolved
<1>8. Budgeted'
  BY <1>1, <1>4, <1>5, <1>6 DEF Accounts, Budgeted, Underway, Calling
<1>9. Reported'
  BY <1>1, <1>3, <1>4, <1>6, <1>7 DEF Accounts, Reported, Underway, Calling
<1>10. Unused'
  BY <1>1, <1>4, <1>5 DEF Accounts, Unused
<1> QED BY <1>5, <1>8, <1>9, <1>10 DEF Accounts

LEMMA StartCallKeepsAccounts ==
    ASSUME PilotInv, Accounts, StartCall
    PROVE  Accounts'
<1>1. /\ phase = "loop" /\ phase' = "started" /\ run.dir \in Dirs /\ Index <= Trials
      /\ folder[run.dir].plan # << >> /\ folder[run.dir].exists
      /\ run' = [run EXCEPT !.calls = @ + 1, !.reserved = @ + Reserve(Doc, Index)]
      /\ run.reserved + Reserve(Doc, Index) <= Doc.limits.usd
      /\ sent' = sent
  BY DEF StartCall, AtTrial, BudgetLeft, PilotInv, InRun, Underway
<1>2. Index \in 1..Trials
  BY <1>1, RunFields, PilotAssumption DEF PilotInv
<1> DEFINE record == Record("call_started", Index, NoReply)
<1>3. record \in JournalRecord /\ record.event # "call_finished"
  BY <1>2 DEF Record, JournalRecord, Reply
<1>4. Journal(record)
  BY DEF StartCall
<1> HIDE DEF record
<1>5. run \in Run
  BY DEF PilotInv, PilotTypeInv
<1>6. /\ run'.dir = run.dir /\ run'.reserved = run.reserved + Reserve(Doc, Index)
      /\ run'.reported = run.reported /\ run'.rows = run.rows
  BY <1>1, <1>5 DEF Run
<1>7. /\ folder'[run.dir].plan = folder[run.dir].plan /\ folder'[run.dir].results = folder[run.dir].results
      /\ FinishedOf(run.dir)' = FinishedOf(run.dir) /\ WithinBudget' /\ EmptyAtFirst' /\ Earned'
  <2>1. \A d \in Dirs : d = run.dir => FinishedOf(d)' = FinishedOf(d)
    BY <1>1, <1>3, <1>4, JournalGrows DEF PilotInv
  <2>2. FinishedOf(run.dir)' = FinishedOf(run.dir)
    BY <1>1, <1>6, <2>1 DEF FinishedOf, JournalOf
  <2> QED BY <1>1, <1>3, <1>4, <2>2, JournalGrows DEF PilotInv
<1>8. /\ Doc' = Doc /\ Index' = Index /\ ReservedOf(run.dir)' = ReservedOf(run.dir)
      /\ ReportedOf(run.dir)' = ReportedOf(run.dir) /\ TrialsOf(run.dir)' = TrialsOf(run.dir)
  BY <1>1, <1>6, <1>7 DEF Doc, Index, ReservedOf, Reserved, ReportedOf, Costs, TrialsOf, SentTo
<1>9. Reserve(Doc, Index)' = Reserve(Doc, Index)
  BY <1>8 DEF Reserve
<1>10. \A i : ValidCall(run.dir, i) => ValidCall(run.dir, i)'
  BY <1>1, <1>6, <1>7 DEF ValidCall, SentTo, Harmless, Resolved
<1>11. Budgeted'
  BY <1>1, <1>6, <1>7, <1>8, <1>9 DEF Accounts, Budgeted, Underway, Calling
<1>12. Reported'
  BY <1>1, <1>6, <1>7, <1>8, <1>10 DEF Accounts, Reported, Underway, Calling
<1>13. Unused'
  BY <1>1, <1>6, <1>7 DEF Accounts, Unused
<1> QED BY <1>7, <1>11, <1>12, <1>13 DEF Accounts

LEMMA SendKeepsAccounts ==
    ASSUME PilotInv, Accounts, Send
    PROVE  Accounts'
<1> DEFINE call == [dir |-> run.dir, trial |-> Index, answer |-> NoReply]
           new == Len(sent) + 1
<1>1. /\ phase = "started" /\ phase' = "waiting" /\ run.dir \in Dirs /\ Index <= Trials
      /\ folder[run.dir].plan # << >> /\ sent' = Append(sent, call) /\ UNCHANGED <<folder, run>>
  BY DEF Send, Goto, PilotInv, InRun, Underway, Calling
<1>2. call \in Sent /\ call.dir = run.dir /\ call.trial = Index /\ call.answer = NoReply
  <2>1. Index \in 1..Trials
    BY <1>1, RunFields, PilotAssumption DEF PilotInv
  <2> QED BY <1>1, <2>1 DEF Sent, Reply
<1> HIDE DEF call
<1>3. /\ sent \in Seq(Sent) /\ sent' \in Seq(Sent) /\ Len(sent') = new /\ DOMAIN sent' = DOMAIN sent \union {new}
      /\ sent'[new] = call /\ \A k \in DOMAIN sent : sent'[k] = sent[k] /\ k # new
  BY <1>1, <1>2 DEF PilotInv, PilotTypeInv
<1>4. \A d : SentTo(d)' = SentTo(d) \union (IF d = run.dir THEN {new} ELSE {})
  BY <1>2, <1>3 DEF SentTo
<1>5. \A d : TrialsOf(d)' = TrialsOf(d) \union (IF d = run.dir THEN {Index} ELSE {})
  <2> TAKE d
  <2>1. \A k \in SentTo(d) : sent'[k] = sent[k]
    BY <1>3 DEF SentTo
  <2> QED BY <1>2, <1>3, <1>4, <2>1 DEF TrialsOf
<1>6. \A d : Total(ReportedOf(d)') = Total(ReportedOf(d))
  <2> TAKE d
  <2>1. Total(Costs(Append(sent, call), d)) = Total(Costs(sent, d))
    BY <1>2, <1>3, CostsUnanswered
  <2>2. ReportedOf(d)' = Costs(Append(sent, call), d)
    BY <1>1 DEF ReportedOf, Costs
  <2> QED BY <2>1, <2>2 DEF ReportedOf
<1>7. ASSUME NEW d \in Dirs, folder[d].plan # << >>
      PROVE  Total(ReservedOf(d)') =
                Total(ReservedOf(d)) + IF d = run.dir THEN Reserve(Doc, Index) ELSE 0
  <2>1. folder[d].plan[1] \in Plan
    BY <1>7, FolderType DEF PilotInv
  <2>2. Total(Reserved(Append(sent, call), folder[d].plan[1], d)) =
           Total(Reserved(sent, folder[d].plan[1], d)) +
              IF call.dir = d THEN Reserve(folder[d].plan[1], call.trial) ELSE 0
    BY <1>2, <1>3, <2>1, ReservedGrows
  <2>3. ReservedOf(d)' = Reserved(Append(sent, call), folder[d].plan[1], d)
    BY <1>1 DEF ReservedOf, Reserved
  <2> QED BY <1>2, <2>2, <2>3 DEF ReservedOf, Doc
<1>8. /\ run.reserved <= Doc.limits.usd
      /\ run.reserved = Total(ReservedOf(run.dir)) + Reserve(Doc, Index)
      /\ FinishedOf(run.dir) = TrialsOf(run.dir) /\ run.reported = Total(ReportedOf(run.dir))
      /\ \A i \in DOMAIN run.rows : run.rows[i] = "valid" => ValidCall(run.dir, i)
      /\ folder[run.dir].results = << >>
  BY <1>1 DEF Accounts, Budgeted, Reported, Unused, Underway, Calling
<1>9. \A d \in Dirs : d = run.dir => Total(ReservedOf(d)') = run.reserved
  BY <1>1, <1>7, <1>8
<1>10. WithinBudget'
  <2> SUFFICES ASSUME NEW d \in Dirs, SentTo(d)' # {}
               PROVE  Total(ReservedOf(d)') <= folder[d].plan[1].limits.usd
    BY <1>1 DEF WithinBudget
  <2>1. CASE d = run.dir
    BY <1>8, <1>9, <2>1 DEF Doc
  <2>2. CASE d # run.dir
    <3>1. SentTo(d) # {} /\ folder[d].plan # << >>
      BY <1>4, <2>2 DEF PilotInv, Past
    <3>2. Total(ReservedOf(d)) <= folder[d].plan[1].limits.usd
      BY <3>1 DEF Accounts, Budgeted, WithinBudget
    <3>3. Total(ReservedOf(d)) \in Nat
      BY <1>3, <3>1, FolderType, ReservedTypes, TotalType DEF PilotInv, ReservedOf
    <3> QED BY <1>7, <2>2, <3>1, <3>2, <3>3
  <2> QED BY <2>1, <2>2
<1>11. Earned'
  <2> SUFFICES ASSUME NEW d \in Dirs, folder[d].results # << >>
               PROVE  EarnedAt(d)'
    BY <1>1 DEF Earned
  <2>1. d # run.dir /\ EarnedAt(d)
    BY <1>8 DEF Accounts, Earned
  <2>2. SentTo(d)' = SentTo(d) /\ \A k \in SentTo(d) : sent'[k] = sent[k]
    BY <1>3, <1>4, <2>1 DEF SentTo
  <2>3. folder'[d] = folder[d] /\ Total(ReportedOf(d)') = Total(ReportedOf(d))
    BY <1>1, <1>6
  <2> QED BY <2>1, <2>2, <2>3, EarnedStays
<1>12. /\ FinishedOf(run.dir)' = FinishedOf(run.dir) /\ Doc' = Doc /\ Index' = Index
       /\ JournalOf(run.dir)' = JournalOf(run.dir)
  BY <1>1 DEF FinishedOf, JournalOf, Doc, Index
<1>13. \A i : ValidCall(run.dir, i) => ValidCall(run.dir, i)'
  <2>1. \A k \in SentTo(run.dir) : k \in SentTo(run.dir)' /\ sent'[k] = sent[k]
    BY <1>1, <1>3 DEF SentTo
  <2> QED BY <1>1, <2>1 DEF ValidCall, SentTo, Harmless, Resolved
<1>14. Total(ReservedOf(run.dir))' = run.reserved /\ Total(ReportedOf(run.dir))' = run.reported
       /\ TrialsOf(run.dir)' = FinishedOf(run.dir) \union {Index}
  <2>1. /\ \A e \in Dirs : e = run.dir => Total(ReportedOf(e)') = run.reported
        /\ \A e \in Dirs : e = run.dir => TrialsOf(e)' = FinishedOf(run.dir) \union {Index}
    BY <1>5, <1>6, <1>8
  <2> QED BY <1>1, <1>9, <2>1 DEF ReportedOf, ReservedOf, TrialsOf, SentTo
<1>15. Budgeted'
  BY <1>1, <1>8, <1>10, <1>12, <1>14 DEF Budgeted, Underway, Calling
<1>16. Reported'
  BY <1>1, <1>2, <1>3, <1>8, <1>12, <1>13, <1>14 DEF Reported, Underway, Calling
<1>17. Unused'
  BY <1>1 DEF Accounts, Unused, EmptyAtFirst
<1> QED BY <1>11, <1>15, <1>16, <1>17 DEF Accounts

LEMMA ReceiveKeepsAccounts ==
    ASSUME PilotInv, Accounts, NEW a \in Answers, Receive(a)
    PROVE  Accounts'
<1> DEFINE n == Len(sent)
<1>1. /\ phase = "waiting" /\ phase' = "answered" /\ run.dir \in Dirs
      /\ folder[run.dir].plan # << >> /\ sent' = [sent EXCEPT ![n] = [@ EXCEPT !.answer = a]]
      /\ run' = [run EXCEPT !.answer = a] /\ folder' = folder
      /\ sent # << >> /\ sent[n].dir = run.dir /\ sent[n].trial = Index
  BY DEF Receive, Goto, PilotInv, InRun, Underway, Calling
<1>2. sent \in Seq(Sent) /\ n \in Nat \ {0} /\ n \in DOMAIN sent /\ DOMAIN sent = 1..n /\ sent[n] \in Sent
  <2>1. sent \in Seq(Sent)
    BY DEF PilotInv, PilotTypeInv
  <2>2. n \in Nat \ {0} /\ DOMAIN sent = 1..n
    BY <1>1, <2>1
  <2> QED BY <2>1, <2>2
<1> HIDE DEF n
<1>3. /\ DOMAIN sent' = DOMAIN sent /\ sent'[n] = [sent[n] EXCEPT !.answer = a]
      /\ \A k \in DOMAIN sent : k # n => sent'[k] = sent[k]
  BY <1>1, <1>2
<1>4. sent'[n] \in Sent /\ sent'[n].dir = sent[n].dir /\ sent'[n].trial = sent[n].trial /\ sent'[n].answer = a
  BY <1>2, <1>3 DEF Sent, Reply
<1>5. \A k \in DOMAIN sent : sent'[k].dir = sent[k].dir /\ sent'[k].trial = sent[k].trial
  BY <1>3, <1>4
<1>6. sent' \in Seq(Sent) /\ Len(sent') = n
  <2>1. \A k \in DOMAIN sent : sent'[k] \in Sent
    BY <1>2, <1>3, <1>4
  <2> QED BY <1>1, <1>2, <1>3, <2>1 DEF n
<1>7. \A d : SentTo(d)' = SentTo(d)
  BY <1>3, <1>5 DEF SentTo
<1>8. \A d : TrialsOf(d)' = TrialsOf(d)
  <2> TAKE d
  <2>1. \A k \in SentTo(d) : sent'[k].trial = sent[k].trial
    BY <1>5 DEF SentTo
  <2> QED BY <1>7, <2>1 DEF TrialsOf
<1>9. \A d : ReservedOf(d)' = ReservedOf(d)
  <2> TAKE d
  <2>1. DOMAIN sent = 1..Len(sent) /\ Len(sent') = Len(sent)
    BY <1>2, <1>6 DEF n
  <2>2. \A k \in 1..Len(sent) : sent'[k].dir = sent[k].dir /\ sent'[k].trial = sent[k].trial
    BY <1>5, <2>1
  <2>3. Reserved(sent', folder[d].plan[1], d) = Reserved(sent, folder[d].plan[1], d)
    BY <2>1, <2>2 DEF Reserved
  <2> QED BY <1>1, <2>3 DEF ReservedOf
<1>10. /\ folder[run.dir].results = << >> /\ sent[n].answer = NoReply
       /\ run.reserved <= Doc.limits.usd /\ run.reserved = Total(ReservedOf(run.dir))
       /\ run.reported = Total(ReportedOf(run.dir))
       /\ FinishedOf(run.dir) \union {Index} = TrialsOf(run.dir)
       /\ \A i \in DOMAIN run.rows : run.rows[i] = "valid" => ValidCall(run.dir, i)
  BY <1>1 DEF Accounts, Unused, Budgeted, Reported, Underway, Calling, n
<1>11. \A d : Total(ReportedOf(d)') = Total(ReportedOf(d)) +
                 IF d = run.dir /\ Resolved(a) THEN Cost(a) ELSE 0
  <2> TAKE d
  <2>1. \A k \in 1..(n - 1) : sent'[k] = sent[k]
    BY <1>2, <1>3
  <2>2. Len(sent) = n
    BY DEF n
  <2>3. Total(Costs(sent', d)) = Total(Costs(sent, d)) +
           IF sent'[n].dir = d /\ Resolved(sent'[n].answer) THEN Cost(sent'[n].answer) ELSE 0
    BY <1>2, <1>4, <1>6, <1>10, <2>1, <2>2, CostsAnswered
  <2> QED BY <1>1, <1>4, <2>3 DEF ReportedOf
<1>12. \A d : Total(ReportedOf(d)) \in Nat
  BY <1>2, CostTypes, TotalType DEF ReportedOf
<1>13. /\ run'.dir = run.dir /\ run'.reserved = run.reserved /\ run'.reported = run.reported
       /\ run'.rows = run.rows /\ run'.answer = a
  <2>1. run \in Run
    BY DEF PilotInv, PilotTypeInv
  <2> QED BY <1>1, <2>1 DEF Run
<1>14. WithinBudget'
  <2> SUFFICES ASSUME NEW d \in Dirs, SentTo(d) # {}
               PROVE  Total(ReservedOf(d)') <= folder[d].plan[1].limits.usd
    BY <1>1, <1>7 DEF WithinBudget
  <2>1. Total(ReservedOf(d)') = Total(ReservedOf(d))
    BY <1>9
  <2> QED BY <2>1 DEF Accounts, Budgeted, WithinBudget
<1>15. Earned'
  <2> SUFFICES ASSUME NEW d \in Dirs, folder[d].results # << >>
               PROVE  EarnedAt(d)'
    BY <1>1 DEF Earned
  <2>1. d # run.dir /\ EarnedAt(d)
    BY <1>10 DEF Accounts, Earned
  <2>2. SentTo(d)' = SentTo(d) /\ \A k \in SentTo(d) : sent'[k] = sent[k]
    BY <1>1, <1>3, <1>7, <2>1 DEF SentTo
  <2>3. folder'[d] = folder[d] /\ Total(ReportedOf(d)') = Total(ReportedOf(d))
    BY <1>1, <1>11, <1>12, <2>1
  <2> QED BY <2>1, <2>2, <2>3, EarnedStays
<1>16. /\ FinishedOf(run.dir)' = FinishedOf(run.dir) /\ Doc' = Doc /\ Index' = Index
       /\ TrialsOf(run.dir)' = TrialsOf(run.dir)
       /\ Total(ReservedOf(run.dir))' = run.reserved
       /\ Total(ReportedOf(run.dir))' = run.reported + IF Resolved(a) THEN Cost(a) ELSE 0
  <2>1. /\ \A d \in Dirs : d = run.dir => TrialsOf(d)' = TrialsOf(run.dir)
        /\ \A d \in Dirs : d = run.dir => Total(ReservedOf(d)') = run.reserved
        /\ \A d \in Dirs : d = run.dir =>
              Total(ReportedOf(d)') = run.reported + IF Resolved(a) THEN Cost(a) ELSE 0
    BY <1>8, <1>9, <1>10, <1>11
  <2> QED BY <1>1, <1>13, <2>1 DEF FinishedOf, Doc, Index, TrialsOf, SentTo, ReservedOf, ReportedOf
<1>17. \A i \in DOMAIN run.rows : ValidCall(run.dir, i) => ValidCall(run.dir, i)'
  <2> SUFFICES ASSUME NEW i \in DOMAIN run.rows, ValidCall(run.dir, i)
               PROVE  ValidCall(run.dir, i)'
    OBVIOUS
  <2>1. i \in Nat /\ i # Index
    BY RunFields DEF PilotInv
  <2>2. PICK k \in SentTo(run.dir) :
          /\ sent[k].trial = i /\ sent[k].answer.status = "valid"
          /\ Harmless(folder[run.dir].plan[1], i, sent[k].answer)
    BY DEF ValidCall
  <2>3. sent'[k] = sent[k] /\ k \in DOMAIN sent'
    BY <1>1, <1>3, <2>1, <2>2 DEF SentTo
  <2>4. k \in SentTo(run.dir)'
    BY <1>13, <2>2, <2>3 DEF SentTo
  <2> QED BY <1>1, <1>13, <2>2, <2>3, <2>4 DEF ValidCall, Harmless, Resolved
<1>18. run.reported \in Nat /\ (Resolved(a) => Cost(a) \in Nat)
  <2>1. run.reported \in Nat
    BY RunFields DEF PilotInv
  <2>2. a.input \in Tokens /\ a.output \in Tokens
    BY DEF Answers, Tokens
  <2>3. Resolved(a) => a.input \in Nat /\ a.output \in Nat
    BY <2>2, PilotAssumption DEF Resolved, Tokens
  <2> QED BY <2>1, <2>3 DEF Cost
<1>19. Budgeted'
  BY <1>1, <1>10, <1>13, <1>14, <1>16 DEF Budgeted, Underway, Calling
<1>20. Reported'
  BY <1>1, <1>10, <1>13, <1>16, <1>17, <1>18 DEF Reported, Underway, Calling, Resolved, Cost
<1>21. Unused'
  BY <1>1, <1>13 DEF Accounts, Unused, EmptyAtFirst
<1> QED BY <1>15, <1>19, <1>20, <1>21 DEF Accounts

LEMMA FinishCallKeepsAccounts ==
    ASSUME PilotInv, Accounts, FinishCall
    PROVE  Accounts'
<1> DEFINE a == run.answer
           n == Len(sent)
           record == Record("call_finished", Index, a)
           rows == Append(run.rows, RowStatus(Index, a))
           reported == IF Resolved(a) THEN run.reported + Cost(a) ELSE run.reported
<1>1. /\ phase = "answered" /\ phase' = "loop" /\ run.dir \in Dirs /\ Index <= Trials
      /\ folder[run.dir].plan # << >> /\ folder[run.dir].exists
      /\ run' = [run EXCEPT !.stop = Stop(Index, a), !.answer = NoReply, !.reported = reported,
                            !.rows = rows]
      /\ sent' = sent /\ sent # << >> /\ sent[n].dir = run.dir /\ sent[n].trial = Index
      /\ a \in Answers /\ sent[n].answer = a /\ Journal(record)
  BY DEF FinishCall, Goto, PilotInv, InRun, Underway, Calling
<1>2. Index \in 1..Trials /\ Index = Len(run.rows) + 1 /\ run.rows \in Seq(RowStatuses)
  BY <1>1, RunFields, PilotAssumption DEF PilotInv
<1>3. record \in JournalRecord /\ record.event = "call_finished" /\ record.trial = Index
  BY <1>1, <1>2 DEF Record, JournalRecord, Reply
<1>4. n \in SentTo(run.dir)
  <2>1. sent \in Seq(Sent)
    BY DEF PilotInv, PilotTypeInv
  <2>2. n \in DOMAIN sent
    BY <1>1, <2>1
  <2> QED BY <1>1, <2>2 DEF SentTo
<1>5. \A i \in DOMAIN rows : \/ i \in DOMAIN run.rows /\ rows[i] = run.rows[i]
                             \/ i = Index /\ rows[i] = RowStatus(Index, a)
  <2> DEFINE status == RowStatus(Index, a)
  <2> HIDE DEF status
  <2>1. \A i \in DOMAIN Append(run.rows, status) :
           \/ i \in DOMAIN run.rows /\ Append(run.rows, status)[i] = run.rows[i]
           \/ i = Index /\ Append(run.rows, status)[i] = status
    BY <1>2
  <2> QED BY <2>1 DEF status
<1> HIDE DEF a, n, record, rows, reported
<1>6. run'.dir = run.dir /\ run'.reserved = run.reserved /\ run'.reported = reported /\ run'.rows = rows
  <2>1. run \in Run
    BY DEF PilotInv, PilotTypeInv
  <2> QED BY <1>1, <2>1 DEF Run
<1>7. /\ folder'[run.dir].plan = folder[run.dir].plan /\ folder'[run.dir].results = folder[run.dir].results
      /\ WithinBudget' /\ EmptyAtFirst' /\ Earned'
  BY <1>1, <1>3, JournalGrows DEF PilotInv
<1>8. FinishedOf(run.dir)' = FinishedOf(run.dir) \union {Index}
  <2>1. \A d \in Dirs : d = run.dir => FinishedOf(d)' = FinishedOf(d) \union {Index}
    BY <1>1, <1>3, JournalGrows DEF PilotInv
  <2> QED BY <1>1, <1>6, <2>1 DEF FinishedOf
<1>9. /\ Doc' = Doc /\ ReservedOf(run.dir)' = ReservedOf(run.dir)
      /\ ReportedOf(run.dir)' = ReportedOf(run.dir) /\ TrialsOf(run.dir)' = TrialsOf(run.dir)
  BY <1>1, <1>6, <1>7 DEF Doc, ReservedOf, Reserved, ReportedOf, Costs, TrialsOf, SentTo
<1>10. /\ folder[run.dir].results = << >>
       /\ run.reserved <= Doc.limits.usd /\ run.reserved = Total(ReservedOf(run.dir))
       /\ FinishedOf(run.dir) \union {Index} = TrialsOf(run.dir)
       /\ \A i \in DOMAIN run.rows : run.rows[i] = "valid" => ValidCall(run.dir, i)
       /\ reported = Total(ReportedOf(run.dir))
  BY <1>1 DEF Accounts, Unused, Budgeted, Reported, Underway, Calling, a, reported
<1>11. ASSUME RowStatus(Index, a) = "valid"
       PROVE  ValidCall(run.dir, Index)
  <2>1. a.status = "valid" /\ Resolved(a) /\ ~Over(Doc, Index, a)
    BY <1>11 DEF RowStatus
  <2>2. a.input \in Nat /\ a.output \in Nat
    <3>1. a.input \in Tokens /\ a.output \in Tokens
      BY <1>1 DEF Answers, Tokens
    <3> QED BY <2>1, <3>1, PilotAssumption DEF Resolved, Tokens
  <2>3. Doc.bound[Index] \in Nat /\ MaxOutput \in Nat
    BY <1>1, <1>2, PlanType, PilotAssumption DEF PilotInv
  <2>4. Harmless(folder[run.dir].plan[1], Index, a)
    BY <2>1, <2>2, <2>3 DEF Harmless, Over, Doc
  <2> QED BY <1>1, <1>4, <2>1, <2>4 DEF ValidCall
<1>12. \A i \in DOMAIN rows : rows[i] = "valid" => ValidCall(run.dir, i)
  BY <1>5, <1>10, <1>11
<1>13. \A i : ValidCall(run.dir, i) => ValidCall(run.dir, i)'
  BY <1>1, <1>6, <1>7 DEF ValidCall, SentTo, Harmless, Resolved
<1>14. Budgeted'
  BY <1>1, <1>6, <1>7, <1>9, <1>10 DEF Budgeted, Underway, Calling
<1>15. Reported'
  BY <1>1, <1>6, <1>8, <1>9, <1>10, <1>12, <1>13 DEF Reported, Underway, Calling
<1>16. Unused'
  BY <1>1, <1>6, <1>7, <1>10 DEF Unused
<1> QED BY <1>7, <1>14, <1>15, <1>16 DEF Accounts

LEMMA FinishRunKeepsAccounts ==
    ASSUME PilotInv, Accounts, FinishRun
    PROVE  Accounts'
<1>1. /\ phase = "loop" /\ phase' = "finished" /\ run.dir \in Dirs /\ Index > Trials
      /\ folder[run.dir].plan # << >> /\ folder[run.dir].exists /\ Len(run.rows) <= Trials
      /\ UNCHANGED <<sent, run>>
  BY DEF FinishRun, PilotInv, InRun, Underway
<1> DEFINE record == Record("run_finished", 0, NoReply)
<1>2. record \in JournalRecord /\ record.event = "run_finished"
  BY PilotAssumption DEF Record, JournalRecord, Reply
<1>3. Journal(record)
  BY DEF FinishRun
<1> HIDE DEF record
<1>4. /\ folder'[run.dir].plan = folder[run.dir].plan /\ folder'[run.dir].results = folder[run.dir].results
      /\ folder'[run.dir].journal # << >> /\ Last(folder'[run.dir].journal) = record
      /\ WithinBudget' /\ EmptyAtFirst' /\ Earned'
  BY <1>1, <1>2, <1>3, JournalGrows DEF PilotInv
<1>5. FinishedOf(run.dir)' = FinishedOf(run.dir)
  <2>1. \A d \in Dirs : d = run.dir => FinishedOf(d)' = FinishedOf(d)
    BY <1>1, <1>2, <1>3, JournalGrows DEF PilotInv
  <2> QED BY <1>1, <2>1 DEF FinishedOf
<1>6. /\ Doc' = Doc /\ ReservedOf(run.dir)' = ReservedOf(run.dir)
      /\ ReportedOf(run.dir)' = ReportedOf(run.dir) /\ TrialsOf(run.dir)' = TrialsOf(run.dir)
  BY <1>1, <1>4 DEF Doc, ReservedOf, Reserved, ReportedOf, Costs, TrialsOf, SentTo
<1>7. \A i : ValidCall(run.dir, i) => ValidCall(run.dir, i)'
  BY <1>1, <1>4 DEF ValidCall, SentTo, Harmless, Resolved
<1>8. Len(run.rows) = Trials
  BY <1>1, RunFields, PilotAssumption DEF PilotInv
<1>9. Budgeted'
  BY <1>1, <1>4, <1>6 DEF Accounts, Budgeted, Underway, Calling
<1>10. Reported'
  BY <1>1, <1>2, <1>4, <1>5, <1>6, <1>7, <1>8 DEF Accounts, Reported, JournalOf, Underway, Calling
<1>11. Unused'
  BY <1>1, <1>4 DEF Accounts, Unused
<1> QED BY <1>4, <1>9, <1>10, <1>11 DEF Accounts

LEMMA SaveResultsKeepsAccounts ==
    ASSUME PilotInv, Accounts, SaveResults
    PROVE  Accounts'
<1> DEFINE result == [stop |-> run.stop, rows |-> run.rows, calls |-> run.calls,
                      reported |-> run.reported, contrasts |-> Complete(run.rows)]
<1>1. /\ phase = "finished" /\ phase' = "idle" /\ run.dir \in Dirs /\ folder[run.dir].exists
      /\ folder' = [folder EXCEPT ![run.dir].results = <<result>>] /\ sent' = sent
      /\ Cardinality(SentTo(run.dir)) = run.calls
  BY DEF SaveResults, Goto, PilotInv, InRun, Underway, Calling
<1>2. /\ FinishedOf(run.dir) = TrialsOf(run.dir) /\ run.reported = Total(ReportedOf(run.dir))
      /\ Len(run.rows) = Trials /\ Last(JournalOf(run.dir)).event = "run_finished"
      /\ \A i \in DOMAIN run.rows : run.rows[i] = "valid" => ValidCall(run.dir, i)
  BY <1>1 DEF Accounts, Reported, Underway, Calling
<1>3. folder \in [Dirs -> Folder] /\ folder[run.dir] \in Folder
  BY <1>1 DEF PilotInv, PilotTypeInv
<1>4. /\ folder'[run.dir] = [folder[run.dir] EXCEPT !.results = <<result>>]
      /\ \A e \in Dirs : e # run.dir => folder'[e] = folder[e]
  BY <1>1, <1>3
<1>5. /\ folder'[run.dir].exists = folder[run.dir].exists /\ folder'[run.dir].plan = folder[run.dir].plan
      /\ folder'[run.dir].journal = folder[run.dir].journal /\ folder'[run.dir].results[1] = result
  <2> HIDE DEF result
  <2> QED BY <1>3, <1>4 DEF Folder
<1>6. WithinBudget'
  <2> SUFFICES ASSUME NEW d \in Dirs, SentTo(d)' # {}
               PROVE  Total(ReservedOf(d)') <= folder'[d].plan[1].limits.usd
    BY DEF WithinBudget
  <2>1. SentTo(d) # {} /\ folder'[d].plan = folder[d].plan
    BY <1>1, <1>4, <1>5 DEF SentTo
  <2>2. ReservedOf(d)' = ReservedOf(d)
    BY <1>1, <2>1, Unsent
  <2>3. Total(ReservedOf(d)) <= folder[d].plan[1].limits.usd
    BY <2>1 DEF Accounts, Budgeted, WithinBudget
  <2> QED BY <2>1, <2>2, <2>3
<1>7. EmptyAtFirst'
  <2> SUFFICES ASSUME NEW d \in Dirs, ~folder'[d].exists
               PROVE  folder'[d].journal = << >> /\ folder'[d].results = << >>
    BY DEF EmptyAtFirst
  <2>1. d # run.dir
    BY <1>1, <1>5
  <2> QED BY <1>4, <2>1 DEF Accounts, Unused, EmptyAtFirst
<1>8. ASSUME NEW d \in Dirs, d = run.dir
      PROVE  EarnedAt(d)'
  <2>1. /\ SentTo(d)' = SentTo(d) /\ TrialsOf(d)' = TrialsOf(d) /\ ReportedOf(d)' = ReportedOf(d)
    BY <1>1, Unsent
  <2>2. FinishedOf(d)' = FinishedOf(d) /\ JournalOf(d)' = JournalOf(d)
    BY <1>5, <1>8 DEF FinishedOf, JournalOf
  <2>3. \A i : ValidCall(d, i) => ValidCall(d, i)'
    <3>1. folder'[d].plan = folder[d].plan /\ \A k \in SentTo(d) : k \in SentTo(d)' /\ sent'[k] = sent[k]
      BY <1>1, <1>5, <1>8, <2>1
    <3> QED BY <3>1, ValidStays
  <2>4. Complete(run.rows) => \A i \in 1..Trials : ValidCall(d, i)
    <3>1. DOMAIN run.rows = 1..Trials
      BY <1>2, RunFields DEF PilotInv
    <3> QED BY <1>2, <1>8, <3>1 DEF Complete
  <2>5. Total(ReportedOf(d)') = run.reported /\ Total(ReportedOf(d))' = run.reported
    BY <1>2, <1>8, <2>1
  <2>6. Cardinality(SentTo(d)') = run.calls
    BY <1>1, <1>8, <2>1
  <2>7. /\ folder'[d].results[1].rows = run.rows /\ folder'[d].results[1].calls = run.calls
        /\ folder'[d].results[1].reported = run.reported
        /\ folder'[d].results[1].contrasts = Complete(run.rows)
    BY <1>5, <1>8
  <2> QED BY <1>2, <1>8, <2>1, <2>2, <2>3, <2>4, <2>5, <2>6, <2>7 DEF EarnedAt
<1>9. Earned'
  <2> SUFFICES ASSUME NEW d \in Dirs, d # run.dir, folder'[d].results # << >>
               PROVE  EarnedAt(d)'
    BY <1>8 DEF Earned
  <2>1. folder'[d] = folder[d]
    BY <1>4
  <2>2. EarnedAt(d)
    BY <2>1 DEF Accounts, Earned
  <2>3. SentTo(d)' = SentTo(d) /\ ReportedOf(d)' = ReportedOf(d)
    BY <1>1, Unsent
  <2>4. Total(ReportedOf(d)') = Total(ReportedOf(d)) /\ \A k \in SentTo(d) : sent'[k] = sent[k]
    BY <1>1, <2>3
  <2> QED BY <2>1, <2>2, <2>3, <2>4, EarnedStays
<1> QED BY <1>1, <1>6, <1>7, <1>9 DEF Accounts, Budgeted, Reported, Unused, Underway, Calling

LEMMA DieKeepsAccounts ==
    ASSUME Accounts, Die
    PROVE  Accounts'
<1>1. folder' = folder /\ sent' = sent /\ phase' = "idle"
  BY DEF Die
<1>2. WithinBudget' /\ EmptyAtFirst' /\ Earned'
  BY <1>1, LastingKept
<1> QED BY <1>1, <1>2 DEF Accounts, Budgeted, Reported, Unused, Underway, Calling

LEMMA AccountsBegin == PilotInit => Accounts
<1> SUFFICES ASSUME PilotInit PROVE Accounts
  OBVIOUS
<1>1. \A d \in Dirs : folder[d].journal = << >> /\ folder[d].results = << >>
  BY DEF PilotInit, NoFolder
<1>2. phase = "idle" /\ \A d : SentTo(d) = {}
  BY DEF PilotInit, SentTo
<1> QED BY <1>1, <1>2 DEF Accounts, Budgeted, WithinBudget, Reported, Unused, EmptyAtFirst, Earned,
                          Underway, Calling

LEMMA AccountsSteps == PilotInv /\ Accounts /\ [PilotNext]_pilotVars => Accounts'
<1> SUFFICES ASSUME PilotInv, Accounts, [PilotNext]_pilotVars PROVE Accounts'
  OBVIOUS
<1>1. CASE UNCHANGED <<folder, sent, phase, run>>
  BY <1>1, HostKeepsAccounts
<1>2. CASE \E d \in Dirs : Start(d)
  BY <1>2, StartKeepsAccounts
<1>3. CASE RunStep
  <2>1. CASE SkipAfterStop \/ SkipSourceChanged \/ SkipBudget
    BY <2>1, SkipKeepsAccounts DEF SkipAfterStop, SkipSourceChanged, SkipBudget
  <2> QED BY <1>3, <2>1, SetupKeepsAccounts, BeginKeepsAccounts, StartCallKeepsAccounts,
             SendKeepsAccounts, ReceiveKeepsAccounts, FinishCallKeepsAccounts,
             FinishRunKeepsAccounts, SaveResultsKeepsAccounts DEF RunStep
<1>4. CASE Die
  BY <1>4, DieKeepsAccounts
<1>5. UNCHANGED pilotVars => UNCHANGED <<folder, sent, phase, run>>
  BY DEF pilotVars
<1>6. /\ \A b, l : Prepare(b, l) => UNCHANGED <<folder, sent, phase, run>>
      /\ \A l : EditPlan(l) => UNCHANGED <<folder, sent, phase, run>>
      /\ \A v : EditSource(v) => UNCHANGED <<folder, sent, phase, run>>
  BY DEF Prepare, EditPlan, EditSource
<1> QED BY <1>1, <1>2, <1>3, <1>4, <1>5, <1>6 DEF PilotNext

\* No run sends calls beyond the limits of its plan, in number or in what they
\* reserve, nor after an answer that forbids it, also with a plan that was
\* edited and with runs that die (run_pilot).
THEOREM SpendingAlwaysBounded == PilotSpec => []SpendingBounded
<1>1. PilotInv /\ Accounts => SpendingBounded
  <2> SUFFICES ASSUME PilotInv, Accounts PROVE SpendingBounded
    OBVIOUS
  <2>1. NoCallAfterFault
    BY DEF PilotInv, Past, NoCallAfterFault, Settled
  <2>2. WithinLimits
    BY DEF WithinLimits, PilotInv, Past, CallsWithinLimit, Accounts, Budgeted, WithinBudget, ReservedOf, Reserved
  <2> QED BY <2>1, <2>2 DEF SpendingBounded
<1>2. PilotSpec => []Accounts
  BY AccountsBegin, AccountsSteps, PilotInvariance, PTL DEF PilotSpec
<1> QED BY <1>1, <1>2, PilotInvariance, PTL

\* The results that are saved are those of a finished journal, with the cost of
\* the calls that were sent, and contrasts mean that every trial was answered
\* validly and within its reservation (run_pilot, summarize).
THEOREM ResultsAlwaysEarned == PilotSpec => []ResultsEarned
<1>1. Accounts => ResultsEarned
  <2> SUFFICES ASSUME Accounts PROVE ResultsEarned
    OBVIOUS
  <2>1. \A d \in Dirs : FinishedOf(d) = {JournalOf(d)[k].trial : k \in At(d, "call_finished")}
    BY DEF FinishedOf, Finished, JournalOf, At
  <2>2. ResultsOnRecord
    BY <2>1 DEF Accounts, Earned, EarnedAt, ResultsOnRecord, TrialsOf, ReportedOf, Costs
  <2>3. ContrastsEarned
    BY DEF Accounts, Earned, EarnedAt, ContrastsEarned, ValidCall
  <2> QED BY <2>2, <2>3 DEF ResultsEarned
<1>2. PilotSpec => []Accounts
  BY AccountsBegin, AccountsSteps, PilotInvariance, PTL DEF PilotSpec
<1> QED BY <1>1, <1>2, PTL

-----------------------------------------------------------------------------
\* diagnose().

Names == {"lifecycle", "participant", "consent floor", "consent", "act", "read"}
CheckOf == [name : Names \ {"participant"}, claim : Claims \union {NoClaim}]
Finding == [check : [name : Names, claim : Claims \union {NoClaim}], outcome : Outcomes]
Conditions == {"CLEAR", "UNCERTAINTY", "ERROR", "CONTRADICTION", "PROBABLE_DECEPTION",
               "ADVERSARIAL_MANIPULATION"}
Statuses == {"none", "active", "contested"}
Assessment == [claim : Claims, condition : Conditions]
Observations == {"host_authentication", "external_authority_current", "reversibility"}

\* The claims of a state are such as register_claim admits.
Sound(r) ==
    \A c \in Claims : r.claims[c].status # "none" =>
        \/ r.claims[c].type = "OBSERVATION" /\ r.claims[c].sourced
        \/ r.claims[c].type \in {"INFERENCE", "INTERPRETATION"} /\ r.claims[c].derived
        \/ r.claims[c].type = "SHARED_CLAIM"

DiagnosisTypeInv ==
    /\ ask \in Ask
    /\ rels \in Seq(Relationship) /\ Len(rels) >= 1
    /\ \A i \in DOMAIN rels : Sound(rels[i])
    /\ stage \in {"call", "checks", "refused", "reported"}
    /\ base \in 1..Len(rels)
    /\ todo \in Seq(CheckOf)
    /\ toAssess \in Seq(Claims)
    /\ stage # "checks" => todo = << >> /\ toAssess = << >>
    /\ findings \in Seq(Finding)
    /\ stage \in {"call", "refused"} => findings = << >>
    /\ conditions \in Seq(Assessment)
    /\ (report # << >>) <=> (stage = "reported")
    /\ report # << >> => report[1].end \in base..Len(rels)

-----------------------------------------------------------------------------
\* What the governance engine decides of a check on a state.

\* The decision FindingsTraced asks for.
Right(check, r) ==
    IF ~Satisfied(IF check.name = "consent floor" THEN "consent" ELSE check.name, check.claim, r)
    THEN Refusal(check.name, r)
    ELSE IF ask.governance = "core" THEN "ALLOW" ELSE ask.governance

Traced(f) == \E k \in base..Len(rels) : f.outcome = Right(f.check, rels[k])

\* Decide() of a check that is not about consent is the right decision.
LEMMA Decided ==
    ASSUME ask \in Ask, NEW check \in CheckOf, NEW r \in Relationship,
           check.name \notin {"consent floor", "consent"}
    PROVE  Decide(check, r) = Right(check, r)
<1>1. CASE check.name = "lifecycle"
  BY <1>1 DEF CheckOf, Names, Decide, Core, Host, Right, Satisfied, Refusal, Working, Relationship, Ask
<1>2. CASE check.name = "act"
  BY <1>2 DEF CheckOf, Names, Decide, Core, Host, Right, Satisfied, Refusal, PurposeMatches, Relationship, Ask
<1>3. CASE check.name = "read"
  BY <1>3 DEF CheckOf, Names, Decide, Core, Host, Right, Satisfied, Refusal, Relationship, Ask
<1> QED BY <1>1, <1>2, <1>3 DEF CheckOf, Names

\* The core's answer on a consent, and the host's.
LEMMA DecidedConsent ==
    ASSUME ask \in Ask, NEW check \in CheckOf, NEW r \in Relationship
    PROVE  /\ check.name = "consent floor" =>
                Decide(check, r) = IF r.consent = "active" THEN "ALLOW" ELSE "REQUIRE_CONSENT"
           /\ check.name = "consent" =>
                Decide(check, r) = IF ask.governance # "core" THEN ask.governance
                                   ELSE IF r.consent = "active" THEN "ALLOW" ELSE "REQUIRE_CONSENT"
BY DEF CheckOf, Names, Decide, Core, Host, Relationship, Ask

LEMMA RightConsent ==
    ASSUME ask \in Ask, NEW check \in CheckOf, NEW r \in Relationship,
           check.name \in {"consent floor", "consent"}
    PROVE  Right(check, r) = IF r.consent # "active" THEN "REQUIRE_CONSENT"
                             ELSE IF ask.governance = "core" THEN "ALLOW" ELSE ask.governance
BY DEF CheckOf, Names, Right, Satisfied, Refusal, Relationship, Ask

LEMMA DecideType ==
    ASSUME ask \in Ask, NEW check \in CheckOf, NEW r \in Relationship
    PROVE  Decide(check, r) \in Outcomes
<1>1. Core(check, r) \in Outcomes
  BY DEF CheckOf, Names, Core, Outcomes
<1>2. ask.governance # "core" => ask.governance \in Outcomes
  BY DEF Ask, Outcomes
<1> QED BY <1>1, <1>2 DEF Decide, Host

\* What is found by one check, with its types.
LEMMA FoundType ==
    ASSUME ask \in Ask, NEW check \in CheckOf, NEW r \in Relationship
    PROVE  /\ Found(check, r) \in Seq(Finding)
           /\ \A i \in 1..Len(Found(check, r)) :
                 \/ /\ Found(check, r)[i].check = check /\ Found(check, r)[i].outcome = Decide(check, r)
                    /\ check.name # "consent floor" \/ Decide(check, r) # "ALLOW"
                 \/ /\ Found(check, r)[i].check = About("participant")
                    /\ Found(check, r)[i].outcome = "BLOCK"
                    /\ ~ask.participant
<1>1. Decide(check, r) \in Outcomes
  BY DecideType
<1> DEFINE f == [check |-> check, outcome |-> Decide(check, r)]
           g == [check |-> About("participant"), outcome |-> "BLOCK"]
           floor == check.name = "consent floor" /\ Decide(check, r) = "ALLOW"
           stranger == check.name = "lifecycle" /\ Decide(check, r) = "ALLOW" /\ ~ask.participant
<1>2. f \in Finding /\ g \in Finding
  BY <1>1 DEF Finding, CheckOf, Names, About, Outcomes
<1>f. /\ f.check = check /\ f.outcome = Decide(check, r)
      /\ g.check = About("participant") /\ g.outcome = "BLOCK"
  OBVIOUS
<1>3. Found(check, r) = IF floor THEN << >> ELSE IF stranger THEN <<f, g>> ELSE <<f>>
  BY DEF Found
<1>4. CASE floor
  <2>1. Found(check, r) = << >>
    BY <1>3, <1>4
  <2> HIDE DEF f, g, floor
  <2> QED BY <2>1
<1>5. CASE ~floor /\ stranger
  <2>1. Found(check, r) = <<f, g>>
    BY <1>3, <1>5
  <2>2. ~ask.participant
    BY <1>5
  <2>3. check.name # "consent floor" \/ Decide(check, r) # "ALLOW"
    BY <1>5
  <2> HIDE DEF f, g
  <2>4. Found(check, r) \in Seq(Finding) /\ \A i \in 1..Len(Found(check, r)) : Found(check, r)[i] \in {f, g}
    BY <1>2, <2>1
  <2> QED BY <1>f, <2>2, <2>3, <2>4
<1>6. CASE ~floor /\ ~stranger
  <2>1. Found(check, r) = <<f>>
    BY <1>3, <1>6
  <2>3. check.name # "consent floor" \/ Decide(check, r) # "ALLOW"
    BY <1>6
  <2> HIDE DEF f, g
  <2>4. Found(check, r) \in Seq(Finding) /\ \A i \in 1..Len(Found(check, r)) : Found(check, r)[i] = f
    BY <1>2, <2>1
  <2> QED BY <1>f, <2>3, <2>4
<1> QED BY <1>4, <1>5, <1>6

\* A check that found only ALLOW was satisfied, and nothing narrowed it.
LEMMA Allowed ==
    ASSUME ask \in Ask, NEW check \in CheckOf, NEW r \in Relationship,
           \A i \in DOMAIN Found(check, r) : Found(check, r)[i].outcome = "ALLOW"
    PROVE  /\ Decide(check, r) = "ALLOW"
           /\ check.name = "lifecycle" => ask.participant /\ ask.governance \in {"core", "ALLOW"}
<1> DEFINE f == [check |-> check, outcome |-> Decide(check, r)]
           g == [check |-> About("participant"), outcome |-> "BLOCK"]
<1>1. Found(check, r) = IF check.name = "consent floor" /\ Decide(check, r) = "ALLOW" THEN << >>
                        ELSE IF check.name = "lifecycle" /\ Decide(check, r) = "ALLOW" /\ ~ask.participant
                        THEN <<f, g>> ELSE <<f>>
  BY DEF Found
<1>f. f.outcome = Decide(check, r) /\ g.outcome = "BLOCK"
  OBVIOUS
<1> HIDE DEF f, g
<1>2. Decide(check, r) = "ALLOW"
  <2>1. CASE Found(check, r) = <<f>>
    BY <2>1, <1>f
  <2>2. CASE Found(check, r) = <<f, g>>
    BY <2>2, <1>f
  <2> QED BY <1>1, <2>1, <2>2
<1>3. check.name = "lifecycle" => ask.participant
  <2>1. Found(check, r) # <<f, g>>
    BY <1>f
  <2> QED BY <1>1, <1>2, <2>1
<1>4. check.name = "lifecycle" => ask.governance \in {"core", "ALLOW"}
  BY <1>2 DEF Decide, Host, Ask
<1> QED BY <1>2, <1>3, <1>4

\* A check decided ALLOW is satisfied; for a consent that the host's engine
\* decides, provided the core found it before.
LEMMA AllowedSatisfied ==
    ASSUME ask \in Ask, NEW check \in CheckOf, NEW r \in Relationship,
           Decide(check, r) = "ALLOW", check.name \notin {"consent floor", "consent"}
    PROVE  Satisfied(check.name, check.claim, r)
<1>1. Right(check, r) = "ALLOW"
  BY Decided
<1>2. Refusal(check.name, r) # "ALLOW"
  BY DEF Refusal
<1> QED BY <1>1, <1>2 DEF Right

-----------------------------------------------------------------------------
\* The agenda of a call.

\* The check that settles what a request demands; a requester who is no
\* participant is found by the first.
Settles(d) == IF d.name = "participant" THEN About("lifecycle") ELSE d

LEMMA RequestedType == Requested \in Seq(Claims)
<1>1. Primary \in Claims /\ Other \in Claims
  BY DEF Claims
<1>2. <<Primary>> \in Seq(Claims) /\ <<Other>> \in Seq(Claims) /\ << >> \in Seq(Claims)
  BY <1>1
<1>3. \A s \in Seq(Claims), t \in Seq(Claims) : s \o t \in Seq(Claims)
  OBVIOUS
<1> DEFINE s == IF Given.claim_status # "none" THEN <<Primary>> ELSE << >>
           t == IF ask.other THEN <<Other>> ELSE << >>
<1>4. s \in Seq(Claims) /\ t \in Seq(Claims)
  BY <1>2
<1>5. Requested = s \o t
  BY DEF Requested, Where
<1> HIDE DEF s, t
<1> QED BY <1>3, <1>4, <1>5

Reads == [i \in DOMAIN Requested |-> [name |-> "read", claim |-> Requested[i]]]

\* The members of a concatenation.
LEMMA Concatenated ==
    ASSUME NEW S, NEW s \in Seq(S), NEW t \in Seq(S)
    PROVE  /\ s \o t \in Seq(S) /\ Len(s \o t) = Len(s) + Len(t)
           /\ \A i \in 1..Len(s) : (s \o t)[i] = s[i]
           /\ \A j \in 1..Len(t) : (s \o t)[Len(s) + j] = t[j]
           /\ \A i \in 1..Len(s \o t) :
                 i \in 1..Len(s) \/ \E j \in 1..Len(t) : i = Len(s) + j
<1>1. s \o t \in Seq(S) /\ Len(s \o t) = Len(s) + Len(t)
  OBVIOUS
<1>2. \A i \in 1..Len(s) : (s \o t)[i] = s[i]
  OBVIOUS
<1>3. \A j \in 1..Len(t) : (s \o t)[Len(s) + j] = t[j]
  OBVIOUS
<1>4. Len(s) \in Nat /\ Len(t) \in Nat
  OBVIOUS
<1>5. ASSUME NEW i \in 1..Len(s \o t), i \notin 1..Len(s)
      PROVE  \E j \in 1..Len(t) : i = Len(s) + j
  <2>1. i - Len(s) \in 1..Len(t) /\ i = Len(s) + (i - Len(s))
    BY <1>1, <1>4, <1>5
  <2> QED BY <2>1
<1> QED BY <1>1, <1>2, <1>3, <1>5

\* The host is asked about a consent right after the core.
Paired(g) ==
    \A i \in 1..Len(g) : g[i].name = "consent" =>
        \E k \in 1..Len(g) : i = k + 1 /\ g[k].name = "consent floor"

\* An agenda that begins with the checks of the relationship and ends with those
\* of the claims keeps the places and the members of both.
LEMMA AgendaOf ==
    ASSUME NEW front \in Seq(CheckOf), NEW rest \in Seq(CheckOf), Paired(front),
           \A i \in 1..Len(rest) : rest[i].name = "read"
    PROVE  /\ front \o rest \in Seq(CheckOf) /\ Paired(front \o rest)
           /\ \A i \in 1..Len(front) : \E k \in 1..Len(front \o rest) : (front \o rest)[k] = front[i]
           /\ \A j \in 1..Len(rest) : \E k \in 1..Len(front \o rest) : (front \o rest)[k] = rest[j]
<1> DEFINE g == front \o rest
<1>1. /\ g \in Seq(CheckOf) /\ Len(g) = Len(front) + Len(rest)
      /\ \A i \in 1..Len(front) : g[i] = front[i]
      /\ \A j \in 1..Len(rest) : g[Len(front) + j] = rest[j]
      /\ \A i \in 1..Len(g) : i \in 1..Len(front) \/ \E j \in 1..Len(rest) : i = Len(front) + j
  BY Concatenated
<1> HIDE DEF g
<1>2. \A i \in 1..Len(front) : i \in 1..Len(g)
  BY <1>1
<1>3. \A j \in 1..Len(rest) : Len(front) + j \in 1..Len(g)
  BY <1>1
<1>4. ASSUME NEW i \in 1..Len(g), g[i].name = "consent"
      PROVE  \E k \in 1..Len(g) : i = k + 1 /\ g[k].name = "consent floor"
  <2>1. i \in 1..Len(front) /\ front[i].name = "consent"
    BY <1>1, <1>4
  <2>2. \E k \in 1..Len(front) : i = k + 1 /\ front[k].name = "consent floor"
    BY <2>1 DEF Paired
  <2> QED BY <2>2, <1>1, <1>2
<1>5. \A i \in 1..Len(front) : \E k \in 1..Len(g) : g[k] = front[i]
  BY <1>1, <1>2
<1>6. \A j \in 1..Len(rest) : \E k \in 1..Len(g) : g[k] = rest[j]
  BY <1>1, <1>3
<1>7. Paired(g)
  BY <1>4 DEF Paired
<1> QED BY <1>1, <1>5, <1>6, <1>7 DEF g

\* The agenda is made of checks, pairs those of consent, and settles everything
\* the request demands.
LEMMA AgendaShape ==
    /\ Agenda \in Seq(CheckOf) /\ Paired(Agenda)
    /\ \A d \in Demanded : \E i \in 1..Len(Agenda) : Agenda[i] = Settles(d)
<1> DEFINE l == About("lifecycle")
           f == About("consent floor")
           c == About("consent")
           a == About("act")
           SettledBy(d) == \E i \in 1..Len(Agenda) : Agenda[i] = d
           Shape == /\ Agenda \in Seq(CheckOf) /\ Paired(Agenda)
                    /\ SettledBy(l) /\ SettledBy(a) /\ \A j \in 1..Len(Reads) : SettledBy(Reads[j])
<1>1. l \in CheckOf /\ f \in CheckOf /\ c \in CheckOf /\ a \in CheckOf
  BY DEF CheckOf, Names, About
<1>n. /\ l.name = "lifecycle" /\ f.name = "consent floor" /\ c.name = "consent" /\ a.name = "act"
  BY DEF About
<1>2. Reads \in Seq(CheckOf) /\ \A i \in 1..Len(Reads) : Reads[i].name = "read"
  <2>1. \A i \in 1..Len(Requested) : [name |-> "read", claim |-> Requested[i]] \in CheckOf
    BY RequestedType DEF CheckOf, Names
  <2> QED BY <2>1, RequestedType DEF Reads
<1> DEFINE Both(front) ==
              /\ front \o Reads \in Seq(CheckOf) /\ Paired(front \o Reads)
              /\ \A i \in 1..Len(front) :
                    \E k \in 1..Len(front \o Reads) : (front \o Reads)[k] = front[i]
              /\ \A j \in 1..Len(Reads) :
                    \E k \in 1..Len(front \o Reads) : (front \o Reads)[k] = Reads[j]
<1>3. Given.consent_required => Shape /\ SettledBy(c)
  <2> DEFINE front == <<l, f, c, a>>
  <2>1. Given.consent_required => Agenda = front \o Reads
    BY DEF Agenda, Reads
  <2> HIDE DEF l, f, c, a
  <2>2. /\ front \in Seq(CheckOf) /\ Len(front) = 4
        /\ front[1] = l /\ front[2] = f /\ front[3] = c /\ front[4] = a
    BY <1>1
  <2> HIDE DEF front
  <2>3. \A i \in 1..Len(front) : i = 1 \/ i = 2 \/ i = 3 \/ i = 4
    BY <2>2
  <2>4. /\ 1 \in 1..Len(front) /\ 2 \in 1..Len(front)
        /\ 3 \in 1..Len(front) /\ 4 \in 1..Len(front)
    BY <2>2
  <2>5. Paired(front)
    <3>1. ASSUME NEW i \in 1..Len(front), front[i].name = "consent"
          PROVE  i = 2 + 1
      <4>1. front[1].name # "consent" /\ front[2].name # "consent" /\ front[4].name # "consent"
        BY <1>n, <2>2
      <4>2. i = 3
        BY <3>1, <4>1, <2>3
      <4> QED BY <4>2
    <3>2. front[2].name = "consent floor"
      BY <1>n, <2>2
    <3> QED BY <3>1, <3>2, <2>4 DEF Paired
  <2>6. Both(front)
    BY <1>2, <2>2, <2>5, AgendaOf
  <2>7. ASSUME Agenda = front \o Reads
        PROVE  Shape /\ SettledBy(c)
    <3>1. \A i \in 1..Len(front) : SettledBy(front[i])
      BY <2>6, <2>7
    <3>2. SettledBy(l) /\ SettledBy(a) /\ SettledBy(c)
      BY <2>2, <2>4, <3>1
    <3>3. \A j \in 1..Len(Reads) : SettledBy(Reads[j])
      BY <2>6, <2>7
    <3> HIDE DEF SettledBy
    <3> QED BY <2>6, <2>7, <3>2, <3>3
  <2> HIDE DEF SettledBy, Shape
  <2> QED BY <2>1, <2>7
<1>4. ~Given.consent_required => Shape
  <2> DEFINE front == <<l, a>>
  <2>1. ~Given.consent_required => Agenda = front \o Reads
    BY DEF Agenda, Reads
  <2> HIDE DEF l, f, c, a
  <2>2. front \in Seq(CheckOf) /\ Len(front) = 2 /\ front[1] = l /\ front[2] = a
    BY <1>1
  <2> HIDE DEF front
  <2>3. \A i \in 1..Len(front) : i = 1 \/ i = 2
    BY <2>2
  <2>4. 1 \in 1..Len(front) /\ 2 \in 1..Len(front)
    BY <2>2
  <2>5. Paired(front)
    <3>1. \A i \in 1..Len(front) : front[i].name # "consent"
      BY <1>n, <2>2, <2>3
    <3> QED BY <3>1 DEF Paired
  <2>6. Both(front)
    BY <1>2, <2>2, <2>5, AgendaOf
  <2>7. ASSUME Agenda = front \o Reads
        PROVE  Shape
    <3>1. \A i \in 1..Len(front) : SettledBy(front[i])
      BY <2>6, <2>7
    <3>2. SettledBy(l) /\ SettledBy(a)
      BY <2>2, <2>4, <3>1
    <3>3. \A j \in 1..Len(Reads) : SettledBy(Reads[j])
      BY <2>6, <2>7
    <3> HIDE DEF SettledBy
    <3> QED BY <2>6, <2>7, <3>2, <3>3
  <2> HIDE DEF Shape
  <2> QED BY <2>1, <2>7
<1>5. Shape
  <2> HIDE DEF Shape
  <2> QED BY <1>3, <1>4
<1>6. ASSUME NEW d \in Demanded
      PROVE  SettledBy(Settles(d))
  <2>1. CASE d = l \/ d = About("participant")
    <3>1. Settles(d) = l
      BY <2>1 DEF Settles, About
    <3> HIDE DEF l
    <3> QED BY <3>1, <1>5
  <2>2. CASE d = a
    <3>1. Settles(d) = a
      BY <2>2 DEF Settles, About
    <3> HIDE DEF a
    <3> QED BY <3>1, <1>5
  <2>3. CASE Given.consent_required /\ d = c
    <3>1. Settles(d) = c
      BY <2>3 DEF Settles, About
    <3>2. SettledBy(c)
      <4> HIDE DEF SettledBy, Shape
      <4> QED BY <1>3, <2>3
    <3> HIDE DEF c, SettledBy
    <3> QED BY <3>1, <3>2
  <2>4. ASSUME NEW x \in Claims, InContext(x), d = [name |-> "read", claim |-> x]
        PROVE  SettledBy(Settles(d))
    <3>1. Settles(d) = d
      BY <2>4 DEF Settles
    <3>2. PICK j \in DOMAIN Requested : Requested[j] = x
      BY <2>4 DEF InContext
    <3>3. j \in 1..Len(Reads) /\ Reads[j] = d
      BY <2>4, <3>2, RequestedType DEF Reads
    <3> HIDE DEF l, a
    <3> QED BY <3>1, <3>3, <1>5
  <2> HIDE DEF SettledBy
  <2> QED BY <2>1, <2>2, <2>3, <2>4 DEF Demanded
<1> HIDE DEF l, a
<1> QED BY <1>5, <1>6

-----------------------------------------------------------------------------
\* The inductive invariant.

\* While the host's engine is the next to be asked about a consent, the core has
\* found it active; otherwise the core is asked right before.
Floor ==
    \A i \in 1..Len(todo) : todo[i].name = "consent" =>
        \/ i = 1 /\ \E k \in base..Len(rels) : rels[k].consent = "active"
        \/ \E k \in 1..Len(todo) : i = k + 1 /\ todo[k].name = "consent floor"

Pending(check) == \E i \in 1..Len(todo) : todo[i] = check
HeldOnce(d) == \E k \in base..Len(rels) : Satisfied(d.name, d.claim, rels[k])

\* Nothing that is demanded is forgotten: a finding denies it, it is still to be
\* checked, or it was satisfied at some moment of the call.
Cover ==
    stage = "checks" =>
        \/ \E i \in 1..Len(findings) : findings[i].outcome # "ALLOW"
        \/ /\ \A d \in Demanded : Pending(Settles(d)) \/ HeldOnce(d)
           /\ Pending(About("lifecycle")) \/ ask.governance \in {"core", "ALLOW"}

\* An assessment was made on a status that may since have become contested.
Assessed ==
    \A i \in 1..Len(conditions) : \E status \in Statuses :
        /\ conditions[i].condition = Condition(status, ask.integrity[conditions[i].claim])
        /\ status = "contested" => Now.claims[conditions[i].claim].status = "contested"

AllTraced == \A i \in 1..Len(findings) : Traced(findings[i])

DiagnosisInv == DiagnosisTypeInv /\ AllTraced /\ Floor /\ Cover /\ Assessed /\ ClearEarned

-----------------------------------------------------------------------------
\* Other threads: the states read so far stay, one that register_claim admits
\* is appended, and a contested claim stays contested.

Grown(r) ==
    /\ r \in Relationship /\ Sound(r)
    /\ rels' = Append(rels, r)
    /\ UNCHANGED <<ask, stage, base, todo, toAssess, findings, conditions, report>>
    /\ \A c \in Claims : Now.claims[c].status = "contested" => r.claims[c].status = "contested"

LEMMA NowType == DiagnosisTypeInv => Now \in Relationship /\ Sound(Now)
<1> SUFFICES ASSUME DiagnosisTypeInv PROVE Now \in Relationship /\ Sound(Now)
  OBVIOUS
<1>1. Len(rels) \in 1..Len(rels)
  BY DEF DiagnosisTypeInv
<1> QED BY <1>1 DEF DiagnosisTypeInv, Now

LEMMA Grows ==
    ASSUME DiagnosisTypeInv,
           \/ \E to \in Lifecycles : Transition(to)
           \/ \E p \in Purposes \union {NoPurpose} : GrantAct(p)
           \/ RevokeAct \/ GrantConsent \/ RevokeConsent
           \/ \E c \in Claims :
                 \/ GrantRead(c) \/ RevokeRead(c) \/ DisputeClaim(c)
                 \/ \E claim \in Claim : RegisterClaim(c, claim)
    PROVE  \E r : Grown(r)
<1>1. Now \in Relationship /\ Sound(Now)
  BY NowType
<1>2. ASSUME NEW r, Commit(r), r \in Relationship, Sound(r),
             \A c \in Claims : Now.claims[c].status = "contested" => r.claims[c].status = "contested"
      PROVE  \E x : Grown(x)
  BY <1>2 DEF Commit, Grown
<1>3. ASSUME NEW r, Commit(r), r \in Relationship, r.claims = Now.claims
      PROVE  \E x : Grown(x)
  BY <1>1, <1>2, <1>3 DEF Sound
<1>4. ASSUME NEW to \in Lifecycles, Transition(to)
      PROVE  \E x : Grown(x)
  <2> DEFINE r == [Now EXCEPT !.life = to]
  <2>1. r \in Relationship /\ r.claims = Now.claims
    BY <1>1 DEF Relationship
  <2> QED BY <1>3, <1>4, <2>1 DEF Transition
<1>5. ASSUME NEW p \in Purposes \union {NoPurpose}, GrantAct(p)
      PROVE  \E x : Grown(x)
  <2> DEFINE r == [Now EXCEPT !.act = "active", !.purpose = p]
  <2>1. r \in Relationship /\ r.claims = Now.claims
    BY <1>1 DEF Relationship
  <2> QED BY <1>3, <1>5, <2>1 DEF GrantAct
<1>6. ASSUME RevokeAct
      PROVE  \E x : Grown(x)
  <2> DEFINE r == [Now EXCEPT !.act = "revoked"]
  <2>1. r \in Relationship /\ r.claims = Now.claims
    BY <1>1 DEF Relationship
  <2> QED BY <1>3, <1>6, <2>1 DEF RevokeAct
<1>7. ASSUME GrantConsent
      PROVE  \E x : Grown(x)
  <2> DEFINE r == [Now EXCEPT !.consent = "active"]
  <2>1. r \in Relationship /\ r.claims = Now.claims
    BY <1>1 DEF Relationship
  <2> QED BY <1>3, <1>7, <2>1 DEF GrantConsent
<1>8. ASSUME RevokeConsent
      PROVE  \E x : Grown(x)
  <2> DEFINE r == [Now EXCEPT !.consent = "revoked"]
  <2>1. r \in Relationship /\ r.claims = Now.claims
    BY <1>1 DEF Relationship
  <2> QED BY <1>3, <1>8, <2>1 DEF RevokeConsent
<1>9. ASSUME NEW c \in Claims, GrantRead(c) \/ RevokeRead(c)
      PROVE  \E x : Grown(x)
  <2> DEFINE r == [Now EXCEPT !.read = @ \union {c}]
             s == [Now EXCEPT !.read = @ \ {c}]
  <2>1. r \in Relationship /\ r.claims = Now.claims /\ s \in Relationship /\ s.claims = Now.claims
    BY <1>1 DEF Relationship
  <2> QED BY <1>3, <1>9, <2>1 DEF GrantRead, RevokeRead
<1>10. ASSUME NEW c \in Claims, DisputeClaim(c)
       PROVE  \E x : Grown(x)
  <2> DEFINE r == [Now EXCEPT !.claims[c].status = "contested"]
  <2>1. Now.claims[c] \in Claim
    BY <1>1 DEF Relationship
  <2>2. r \in Relationship
    BY <1>1, <2>1 DEF Relationship, Claim
  <2>3. /\ r.claims[c].status = "contested"
        /\ r.claims[c].type = Now.claims[c].type /\ r.claims[c].sourced = Now.claims[c].sourced
        /\ r.claims[c].derived = Now.claims[c].derived
        /\ \A d \in Claims : d # c => r.claims[d] = Now.claims[d]
    BY <1>1, <2>1 DEF Relationship, Claim
  <2>4. Commit(r) /\ Now.claims[c].status # "none"
    BY <1>10 DEF DisputeClaim
  <2> HIDE DEF r
  <2>5. Sound(r)
    BY <1>1, <2>3, <2>4 DEF Sound
  <2>6. \A d \in Claims : Now.claims[d].status = "contested" => r.claims[d].status = "contested"
    BY <2>3
  <2> QED BY <1>2, <2>2, <2>4, <2>5, <2>6
<1>11. ASSUME NEW c \in Claims, NEW claim \in Claim, RegisterClaim(c, claim)
       PROVE  \E x : Grown(x)
  <2> DEFINE r == [Now EXCEPT !.claims[c] = claim]
  <2>1. r \in Relationship
    BY <1>1 DEF Relationship
  <2>2. r.claims[c] = claim /\ \A d \in Claims : d # c => r.claims[d] = Now.claims[d]
    BY <1>1 DEF Relationship
  <2>3. Commit(r) /\ Now.claims[c].status = "none" /\ Admitted(claim)
    BY <1>11 DEF RegisterClaim
  <2> HIDE DEF r
  <2>4. Sound(r)
    BY <1>1, <2>2, <2>3 DEF Sound, Admitted, Claim
  <2>5. \A d \in Claims : Now.claims[d].status = "contested" => r.claims[d].status = "contested"
    BY <2>2, <2>3
  <2> QED BY <1>2, <2>1, <2>3, <2>4, <2>5
<1> QED BY <1>4, <1>5, <1>6, <1>7, <1>8, <1>9, <1>10, <1>11

\* What the request demands does not change while it is diagnosed.
LEMMA SameRequest ==
    ASSUME ask' = ask
    PROVE  /\ Given' = Given /\ Demanded' = Demanded
           /\ \A c : InContext(c)' = InContext(c)
BY DEF Demanded, Given, InContext, Requested

\* A check satisfied by a state that was read stays satisfied by it.
LEMMA SameState ==
    ASSUME ask' = ask, NEW name, NEW c, NEW k, rels'[k] = rels[k], Satisfied(name, c, rels[k])
    PROVE  Satisfied(name, c, rels[k])'
BY DEF Satisfied, Given

\* A commit of another thread leaves what is known of the earlier states.
LEMMA GrownStep ==
    ASSUME DiagnosisInv, NEW r, Grown(r)
    PROVE  DiagnosisInv'
<1> USE DEF Grown
<1>1. /\ rels \in Seq(Relationship) /\ Len(rels) >= 1 /\ base \in 1..Len(rels)
      /\ rels' \in Seq(Relationship) /\ Len(rels') = Len(rels) + 1
      /\ \A k \in 1..Len(rels) : rels'[k] = rels[k]
      /\ rels'[Len(rels) + 1] = r
  BY DEF DiagnosisInv, DiagnosisTypeInv
<1>2. \A k \in base..Len(rels) : k \in base'..Len(rels') /\ rels'[k] = rels[k]
  BY <1>1
<1>3. DiagnosisTypeInv'
  <2>1. \A i \in DOMAIN rels' : Sound(rels'[i])
    <3>1. \A i \in DOMAIN rels' : i \in 1..Len(rels) \/ i = Len(rels) + 1
      BY <1>1
    <3>2. \A i \in 1..Len(rels) : Sound(rels[i])
      BY DEF DiagnosisInv, DiagnosisTypeInv
    <3> QED BY <1>1, <3>1, <3>2
  <2>2. report' # << >> => report'[1].end \in base'..Len(rels')
    BY <1>1 DEF DiagnosisInv, DiagnosisTypeInv
  <2>3. base' \in 1..Len(rels')
    BY <1>1
  <2> QED BY <1>1, <2>1, <2>2, <2>3 DEF DiagnosisInv, DiagnosisTypeInv
<1>5. AllTraced'
  <2> SUFFICES ASSUME NEW i \in 1..Len(findings)
               PROVE  Traced(findings[i])'
    BY DEF AllTraced
  <2>1. PICK k \in base..Len(rels) : findings[i].outcome = Right(findings[i].check, rels[k])
    BY DEF DiagnosisInv, AllTraced, Traced
  <2>2. k \in base'..Len(rels') /\ rels'[k] = rels[k]
    BY <1>2
  <2>3. findings'[i].outcome = Right(findings[i].check, rels'[k])
    BY <2>1, <2>2
  <2>4. Right(findings[i].check, rels[k])' = Right(findings[i].check, rels'[k])
    BY DEF Right, Satisfied, Refusal, Given
  <2> QED BY <2>2, <2>3, <2>4 DEF Traced
<1>6. Floor'
  <2> SUFFICES ASSUME NEW i \in 1..Len(todo), todo[i].name = "consent"
               PROVE  \/ i = 1 /\ \E k \in base'..Len(rels') : rels'[k].consent = "active"
                      \/ \E k \in 1..Len(todo) : i = k + 1 /\ todo[k].name = "consent floor"
    BY DEF Floor
  <2>1. \/ i = 1 /\ \E k \in base..Len(rels) : rels[k].consent = "active"
        \/ \E k \in 1..Len(todo) : i = k + 1 /\ todo[k].name = "consent floor"
    BY DEF DiagnosisInv, Floor
  <2>2. (\E k \in base..Len(rels) : rels[k].consent = "active") =>
           \E k \in base'..Len(rels') : rels'[k].consent = "active"
    BY <1>2
  <2> QED BY <2>1, <2>2
<1>7. ASSUME NEW d, HeldOnce(d)
      PROVE  HeldOnce(d)'
  <2>1. PICK k \in base..Len(rels) : Satisfied(d.name, d.claim, rels[k])
    BY <1>7 DEF HeldOnce
  <2>2. Satisfied(d.name, d.claim, rels[k])'
    BY <2>1, <1>2, SameState
  <2> QED BY <2>2, <1>2 DEF HeldOnce
<1>8. Cover'
  <2>1. Demanded' = Demanded
    BY SameRequest
  <2>3. CASE \E i \in 1..Len(findings) : findings[i].outcome # "ALLOW"
    BY <2>3 DEF Cover
  <2>4. CASE /\ \A d \in Demanded : Pending(Settles(d)) \/ HeldOnce(d)
             /\ Pending(About("lifecycle")) \/ ask.governance \in {"core", "ALLOW"}
    BY <2>1, <2>4, <1>7 DEF Cover, Pending
  <2>5. CASE stage # "checks"
    BY <2>5 DEF Cover
  <2> QED BY <2>3, <2>4, <2>5 DEF DiagnosisInv, Cover
<1>9. Assessed'
  <2>1. Now' = r
    BY <1>1 DEF Now
  <2> SUFFICES ASSUME NEW i \in 1..Len(conditions)
               PROVE  \E status \in Statuses :
                        /\ conditions[i].condition = Condition(status, ask.integrity[conditions[i].claim])
                        /\ status = "contested" => Now'.claims[conditions[i].claim].status = "contested"
    BY DEF Assessed
  <2>2. conditions[i].claim \in Claims
    <3>1. conditions \in Seq(Assessment)
      BY DEF DiagnosisInv, DiagnosisTypeInv
    <3>2. conditions[i] \in Assessment
      BY <3>1
    <3> QED BY <3>2 DEF Assessment
  <2>3. PICK status \in Statuses :
          /\ conditions[i].condition = Condition(status, ask.integrity[conditions[i].claim])
          /\ status = "contested" => Now.claims[conditions[i].claim].status = "contested"
    BY DEF DiagnosisInv, Assessed
  <2> QED BY <2>1, <2>2, <2>3
<1>10. ClearEarned'
  <2>1. Returned' = Returned /\ (report' # << >> => Returned \in base..Len(rels))
    BY DEF DiagnosisInv, DiagnosisTypeInv, Returned
  <2>2. rels'[base] = rels[base]
    BY <1>1
  <2> SUFFICES ASSUME report # << >>, report[1].summary = "clear"
               PROVE  /\ \A d \in Demanded : \E k \in base..Returned : Satisfied(d.name, d.claim, rels[k])'
                      /\ (/\ ask.governance \in {"core", "ALLOW"}
                          /\ Given.host_authentication = "true" /\ Given.external_authority_current = "true"
                          /\ Given.reversibility \in {"true", "other"}
                          /\ \A c \in Claims : InContext(c) => rels[base].claims[c].status # "contested")'
    BY <2>1, SameRequest DEF ClearEarned
  <2>3. /\ \A d \in Demanded : \E k \in base..Returned : Satisfied(d.name, d.claim, rels[k])
        /\ ask.governance \in {"core", "ALLOW"}
        /\ Given.host_authentication = "true" /\ Given.external_authority_current = "true"
        /\ Given.reversibility \in {"true", "other"}
        /\ \A c \in Claims : InContext(c) => rels[base].claims[c].status # "contested"
    BY DEF DiagnosisInv, ClearEarned
  <2>4. ASSUME NEW d \in Demanded
        PROVE  \E k \in base..Returned : Satisfied(d.name, d.claim, rels[k])'
    <3>1. PICK k \in base..Returned : Satisfied(d.name, d.claim, rels[k])
      BY <2>3
    <3>2. k \in base..Len(rels)
      BY <1>1, <2>1
    <3>3. Satisfied(d.name, d.claim, rels[k])'
      BY <3>1, <3>2, <1>2, SameState
    <3> QED BY <3>3
  <2> QED BY <2>2, <2>3, <2>4, SameRequest
<1> QED BY <1>3, <1>5, <1>6, <1>8, <1>9, <1>10 DEF DiagnosisInv

-----------------------------------------------------------------------------
\* diagnose()

LEMMA WhereType == \A x, y \in BOOLEAN : Where(x, y) \in Seq(Claims)
<1>1. <<Primary>> \in Seq(Claims) /\ <<Other>> \in Seq(Claims) /\ << >> \in Seq(Claims)
  BY DEF Claims
<1>2. \A s \in Seq(Claims), t \in Seq(Claims) : s \o t \in Seq(Claims)
  OBVIOUS
<1> SUFFICES ASSUME NEW x \in BOOLEAN, NEW y \in BOOLEAN
             PROVE  Where(x, y) \in Seq(Claims)
  OBVIOUS
<1> DEFINE s == IF x THEN <<Primary>> ELSE << >>
           t == IF y THEN <<Other>> ELSE << >>
<1>3. s \in Seq(Claims) /\ t \in Seq(Claims)
  BY <1>1
<1>4. Where(x, y) = s \o t
  BY DEF Where
<1> HIDE DEF s, t
<1> QED BY <1>2, <1>3, <1>4

\* The first reading: everything demanded is on the agenda.
LEMMA SnapshotStep ==
    ASSUME DiagnosisInv, Snapshot
    PROVE  DiagnosisInv'
<1>1. /\ ask' = ask /\ rels' = rels /\ findings' = findings /\ conditions' = conditions
      /\ report' = report /\ base' = Len(rels) /\ stage = "call"
  BY DEF Snapshot
<1>2. /\ ask \in Ask /\ rels \in Seq(Relationship) /\ Len(rels) >= 1 /\ base \in 1..Len(rels)
      /\ findings = << >> /\ report = << >> /\ todo = << >> /\ toAssess = << >>
      /\ conditions \in Seq(Assessment) /\ \A i \in DOMAIN rels : Sound(rels[i])
  BY <1>1 DEF DiagnosisInv, DiagnosisTypeInv
<1>3. base' \in 1..Len(rels')
  BY <1>1, <1>2
<1>4. \/ stage' = "refused" /\ todo' = << >> /\ toAssess' = << >>
      \/ /\ stage' = "checks" /\ todo' = Agenda
         /\ toAssess' = Where(Assessable(Primary, Now), Assessable(Other, Now))
  BY <1>2 DEF Snapshot
<1>5. todo' \in Seq(CheckOf) /\ toAssess' \in Seq(Claims)
  <2>1. Assessable(Primary, Now) \in BOOLEAN /\ Assessable(Other, Now) \in BOOLEAN
    BY DEF Assessable
  <2>2. Where(Assessable(Primary, Now), Assessable(Other, Now)) \in Seq(Claims)
    BY <2>1, WhereType
  <2>3. CASE todo' = << >> /\ toAssess' = << >>
    BY <2>3
  <2>4. CASE todo' = Agenda /\ toAssess' = Where(Assessable(Primary, Now), Assessable(Other, Now))
    BY <2>2, <2>4, AgendaShape
  <2> QED BY <1>4, <2>3, <2>4
<1>6. DiagnosisTypeInv'
  BY <1>1, <1>2, <1>3, <1>4, <1>5 DEF DiagnosisTypeInv
<1>7. AllTraced'
  BY <1>1, <1>2 DEF AllTraced
<1>8. Floor'
  <2>1. CASE todo' = << >>
    BY <2>1 DEF Floor
  <2>2. CASE todo' = Agenda
    BY <2>2, AgendaShape DEF Floor, Paired
  <2> QED BY <1>4, <2>1, <2>2
<1>9. Cover'
  <2>1. CASE stage' = "refused"
    BY <2>1 DEF Cover
  <2>2. CASE todo' = Agenda
    <3>1. \A d \in Demanded : Pending(Settles(d))'
      BY <2>2, AgendaShape DEF Pending, Settles
    <3>2. About("lifecycle") \in Demanded /\ Settles(About("lifecycle")) = About("lifecycle")
      BY DEF Demanded, Settles, About
    <3>3. Pending(About("lifecycle"))'
      <4>1. \E i \in 1..Len(Agenda) : Agenda[i] = About("lifecycle")
        BY <3>2, AgendaShape
      <4> QED BY <4>1, <2>2 DEF Pending, About
    <3> QED BY <3>1, <3>3, <1>1, SameRequest DEF Cover
  <2> QED BY <1>4, <2>1, <2>2
<1>10. Assessed'
  BY <1>1 DEF DiagnosisInv, Assessed, Now
<1>11. ClearEarned'
  BY <1>1, <1>2 DEF ClearEarned
<1> QED BY <1>6, <1>7, <1>8, <1>9, <1>10, <1>11 DEF DiagnosisInv

LEMMA Shortened ==
    ASSUME NEW S, NEW s \in Seq(S), s # << >>
    PROVE  /\ Head(s) \in S /\ Head(s) = s[1] /\ 1 \in 1..Len(s)
           /\ Tail(s) \in Seq(S) /\ Len(Tail(s)) = Len(s) - 1
           /\ \A i \in 1..Len(Tail(s)) : i + 1 \in 1..Len(s) /\ Tail(s)[i] = s[i + 1]
           /\ \A i \in 1..Len(s) : i = 1 \/ \E k \in 1..Len(Tail(s)) : i = k + 1
<1>1. \A i \in 1..Len(s) : i = 1 \/ i - 1 \in 1..Len(Tail(s))
  OBVIOUS
<1>2. /\ Head(s) \in S /\ Head(s) = s[1] /\ 1 \in 1..Len(s)
      /\ Tail(s) \in Seq(S) /\ Len(Tail(s)) = Len(s) - 1
      /\ \A i \in 1..Len(Tail(s)) : i + 1 \in 1..Len(s) /\ Tail(s)[i] = s[i + 1]
  OBVIOUS
<1> QED BY <1>1, <1>2

LEMMA DemandedNames ==
    \A d \in Demanded : d.name \in {"lifecycle", "participant", "act", "consent", "read"}
BY DEF Demanded, About

\* One check: its findings are right and what it allows is satisfied.
LEMMA EvaluateStep ==
    ASSUME DiagnosisInv, Evaluate
    PROVE  DiagnosisInv'
<1> DEFINE check == Head(todo)
           found == Found(check, Now)
           denied == \E i \in DOMAIN found : found[i].outcome # "ALLOW"
<1>1. /\ ask' = ask /\ rels' = rels /\ stage' = stage /\ base' = base /\ toAssess' = toAssess
      /\ conditions' = conditions /\ report' = report
      /\ stage = "checks" /\ todo # << >>
      /\ findings' = findings \o found
      /\ todo' = IF denied THEN << >> ELSE Tail(todo)
  BY DEF Evaluate
<1>2. /\ ask \in Ask /\ rels \in Seq(Relationship) /\ Len(rels) >= 1 /\ base \in 1..Len(rels)
      /\ todo \in Seq(CheckOf) /\ findings \in Seq(Finding) /\ report = << >>
  BY <1>1 DEF DiagnosisInv, DiagnosisTypeInv
<1>3. check \in CheckOf /\ 1 \in 1..Len(todo) /\ check = todo[1]
  <2>1. todo \in Seq(CheckOf) /\ todo # << >>
    BY <1>1, <1>2
  <2> QED BY <2>1, Shortened
<1>4. Now \in Relationship
  BY NowType DEF DiagnosisInv
<1>5. Len(rels) \in base..Len(rels) /\ rels[Len(rels)] = Now
  BY <1>2 DEF Now
<1> HIDE DEF check
<1>6. \A i \in 1..Len(found) :
         \/ /\ found[i].check = check /\ found[i].outcome = Decide(check, Now)
            /\ check.name # "consent floor" \/ Decide(check, Now) # "ALLOW"
         \/ /\ found[i].check = About("participant") /\ found[i].outcome = "BLOCK"
            /\ ~ask.participant
  BY <1>2, <1>3, <1>4, FoundType
<1>f. found \in Seq(Finding)
  BY <1>2, <1>3, <1>4, FoundType
<1>7. ~denied => /\ Decide(check, Now) = "ALLOW"
                 /\ check.name = "lifecycle" => ask.participant /\ ask.governance \in {"core", "ALLOW"}
  BY <1>2, <1>3, <1>4, Allowed
<1> HIDE DEF found
<1>8. /\ findings' \in Seq(Finding) /\ Len(findings') = Len(findings) + Len(found)
      /\ \A i \in 1..Len(findings) : i \in 1..Len(findings') /\ findings'[i] = findings[i]
      /\ \A j \in 1..Len(found) :
            Len(findings) + j \in 1..Len(findings') /\ findings'[Len(findings) + j] = found[j]
      /\ \A i \in 1..Len(findings') :
            i \in 1..Len(findings) \/ \E j \in 1..Len(found) : i = Len(findings) + j
  <2>1. findings \in Seq(Finding) /\ findings' = findings \o found
    BY <1>1, <1>2
  <2>2. /\ findings' \in Seq(Finding) /\ Len(findings') = Len(findings) + Len(found)
        /\ \A i \in 1..Len(findings) : findings'[i] = findings[i]
        /\ \A j \in 1..Len(found) : findings'[Len(findings) + j] = found[j]
        /\ \A i \in 1..Len(findings') :
              i \in 1..Len(findings) \/ \E j \in 1..Len(found) : i = Len(findings) + j
    BY <2>1, <1>f, Concatenated
  <2>3. Len(findings) \in Nat /\ Len(found) \in Nat
    BY <2>1, <1>f
  <2>4. /\ \A i \in 1..Len(findings) : i \in 1..Len(findings')
        /\ \A j \in 1..Len(found) : Len(findings) + j \in 1..Len(findings')
    BY <2>2, <2>3
  <2> QED BY <2>2, <2>4
<1>9. /\ todo' \in Seq(CheckOf)
      /\ ~denied => /\ Len(todo') = Len(todo) - 1
                    /\ \A i \in 1..Len(todo') : i + 1 \in 1..Len(todo) /\ todo'[i] = todo[i + 1]
                    /\ \A i \in 1..Len(todo) : i = 1 \/ \E k \in 1..Len(todo') : i = k + 1
  <2>1. CASE denied
    BY <1>1, <2>1
  <2>2. CASE ~denied
    <3>1. todo' = Tail(todo) /\ todo \in Seq(CheckOf) /\ todo # << >>
      BY <1>1, <1>2, <2>2
    <3> QED BY <3>1, Shortened
  <2> QED BY <2>1, <2>2
<1>c. check.name = "consent" => \E k \in base..Len(rels) : rels[k].consent = "active"
  <2>1. \A k \in 1..Len(todo) : 1 # k + 1
    BY <1>2
  <2> QED BY <2>1, <1>3 DEF DiagnosisInv, Floor
<1>10. DiagnosisTypeInv'
  BY <1>1, <1>2, <1>8, <1>9 DEF DiagnosisInv, DiagnosisTypeInv
<1>11. ASSUME NEW j \in 1..Len(found)
       PROVE  \E k \in base..Len(rels) : found[j].outcome = Right(found[j].check, rels[k])
  <2>1. CASE /\ found[j].check = About("participant") /\ found[j].outcome = "BLOCK"
             /\ ~ask.participant
    <3>1. Right(About("participant"), Now) = "BLOCK"
      BY <2>1 DEF Right, Satisfied, Refusal, About
    <3> QED BY <2>1, <3>1, <1>5
  <2>2. CASE /\ found[j].check = check /\ found[j].outcome = Decide(check, Now)
             /\ check.name # "consent floor" \/ Decide(check, Now) # "ALLOW"
    <3>1. CASE check.name \notin {"consent floor", "consent"}
      <4>1. Decide(check, Now) = Right(check, Now)
        BY <3>1, <1>2, <1>3, <1>4, Decided
      <4> QED BY <2>2, <4>1, <1>5
    <3>2. CASE check.name = "consent floor"
      <4>1. Now.consent # "active" /\ Decide(check, Now) = "REQUIRE_CONSENT"
        BY <2>2, <3>2, <1>2, <1>3, <1>4, DecidedConsent
      <4>2. Right(check, Now) = "REQUIRE_CONSENT"
        BY <4>1, <3>2, <1>2, <1>3, <1>4, RightConsent
      <4> QED BY <2>2, <4>1, <4>2, <1>5
    <3>3. CASE check.name = "consent" /\ ask.governance = "core"
      <4>1. Decide(check, Now) = Right(check, Now)
        BY <3>3, <1>2, <1>3, <1>4, DecidedConsent, RightConsent
      <4> QED BY <2>2, <4>1, <1>5
    <3>4. CASE check.name = "consent" /\ ask.governance # "core"
      <4>1. PICK k \in base..Len(rels) : rels[k].consent = "active"
        BY <3>4, <1>c
      <4>2. rels[k] \in Relationship
        BY <4>1, <1>2
      <4>3. Right(check, rels[k]) = ask.governance
        BY <3>4, <4>1, <4>2, <1>2, <1>3, RightConsent
      <4>4. Decide(check, Now) = ask.governance
        BY <3>4, <1>2, <1>3, <1>4, DecidedConsent
      <4> QED BY <2>2, <4>3, <4>4
    <3> QED BY <3>1, <3>2, <3>3, <3>4
  <2> QED BY <1>6, <2>1, <2>2
<1>13. AllTraced'
  <2> SUFFICES ASSUME NEW i \in 1..Len(findings')
               PROVE  Traced(findings[i])'
    BY DEF AllTraced
  <2>a. \A k : Right(findings'[i].check, rels[k]) = Right(findings[i].check, rels[k])'
    BY <1>1 DEF Right, Satisfied, Refusal, Given
  <2> SUFFICES \E k \in base..Len(rels) : findings'[i].outcome = Right(findings'[i].check, rels[k])
    BY <2>a, <1>1 DEF Traced
  <2>1. CASE i \in 1..Len(findings)
    BY <2>1, <1>8 DEF DiagnosisInv, AllTraced, Traced
  <2>2. CASE \E j \in 1..Len(found) : i = Len(findings) + j
    BY <2>2, <1>8, <1>11
  <2> QED BY <2>1, <2>2, <1>8
<1>14. Floor'
  <2>1. CASE denied
    <3>1. todo' = << >>
      BY <1>1, <2>1
    <3> QED BY <3>1 DEF Floor
  <2>2. CASE ~denied
    <3> SUFFICES ASSUME NEW i \in 1..Len(todo'), todo'[i].name = "consent"
                 PROVE  \/ i = 1 /\ \E k \in base..Len(rels) : rels[k].consent = "active"
                        \/ \E k \in 1..Len(todo') : i = k + 1 /\ todo'[k].name = "consent floor"
      <4>1. base' = base /\ rels' = rels
        BY <1>1
      <4> QED BY <4>1 DEF Floor
    <3>1. i + 1 \in 1..Len(todo) /\ i + 1 # 1 /\ todo[i + 1].name = "consent"
      BY <2>2, <1>9
    <3>2. PICK k \in 1..Len(todo) : i + 1 = k + 1 /\ todo[k].name = "consent floor"
      BY <3>1 DEF DiagnosisInv, Floor
    <3>3. k = i
      <4>1. Len(todo') \in Nat /\ Len(todo) \in Nat
        BY <1>2, <1>9
      <4>2. i \in Nat
        BY <4>1
      <4>3. k \in Nat
        BY <4>1
      <4>4. i + 1 = k + 1
        BY <3>2
      <4> QED BY <4>2, <4>3, <4>4
    <3>4. CASE i = 1
      <4>1. Now.consent = "active"
        <5>1. check.name = "consent floor"
          BY <3>2, <3>3, <3>4, <1>3
        <5> QED BY <5>1, <2>2, <1>2, <1>3, <1>4, <1>7, DecidedConsent
      <4> QED BY <4>1, <3>4, <1>5
    <3>5. CASE i # 1
      <4>1. PICK m \in 1..Len(todo') : i = m + 1
        BY <3>5, <2>2, <1>9, <3>2, <3>3
      <4>2. todo'[m] = todo[i]
        BY <4>1, <2>2, <1>9
      <4> QED BY <4>1, <4>2, <3>2, <3>3
    <3> QED BY <3>4, <3>5
  <2> QED BY <2>1, <2>2
<1>15. Cover'
  <2>1. CASE \E i \in 1..Len(findings) : findings[i].outcome # "ALLOW"
    BY <2>1, <1>8 DEF Cover
  <2>2. CASE denied
    <3>1. PICK j \in 1..Len(found) : found[j].outcome # "ALLOW"
      BY <2>2, <1>f
    <3> QED BY <3>1, <1>8 DEF Cover
  <2>3. CASE /\ ~denied
             /\ \A d \in Demanded : Pending(Settles(d)) \/ HeldOnce(d)
             /\ Pending(About("lifecycle")) \/ ask.governance \in {"core", "ALLOW"}
    <3>1. \A c : Pending(c) => c = check \/ \E i \in 1..Len(todo') : todo'[i] = c
      <4> SUFFICES ASSUME NEW i \in 1..Len(todo), i # 1
                   PROVE  \E k \in 1..Len(todo') : todo'[k] = todo[i]
        BY <1>3 DEF Pending
      <4>1. PICK k \in 1..Len(todo') : i = k + 1
        BY <2>3, <1>9
      <4>2. todo'[k] = todo[k + 1]
        BY <2>3, <1>9
      <4> QED BY <4>1, <4>2
    <3>2. ASSUME NEW d \in Demanded, Settles(d) = check
          PROVE  HeldOnce(d)
      <4>1. CASE d.name = "participant"
        <5>1. ask.participant
          BY <2>3, <3>2, <4>1, <1>7 DEF Settles, About
        <5>2. Satisfied(d.name, d.claim, Now)
          BY <4>1, <5>1 DEF Satisfied
        <5> QED BY <5>2, <1>5 DEF HeldOnce
      <4>2. CASE d.name # "participant" /\ check.name # "consent"
        <5>1. d = check
          BY <3>2, <4>2 DEF Settles
        <5>2. check.name # "consent floor"
          BY <5>1, DemandedNames
        <5>3. Satisfied(d.name, d.claim, Now)
          BY <2>3, <4>2, <5>1, <5>2, <1>2, <1>3, <1>4, <1>7, AllowedSatisfied
        <5> QED BY <5>3, <1>5 DEF HeldOnce
      <4>3. CASE d.name # "participant" /\ check.name = "consent"
        <5>1. d = check
          BY <3>2, <4>3 DEF Settles
        <5>2. PICK k \in base..Len(rels) : rels[k].consent = "active"
          BY <4>3, <1>c
        <5>3. Satisfied(d.name, d.claim, rels[k])
          BY <4>3, <5>1, <5>2 DEF Satisfied
        <5> QED BY <5>3 DEF HeldOnce
      <4> QED BY <4>1, <4>2, <4>3
    <3>3. \A d \in Demanded : (\E i \in 1..Len(todo') : todo'[i] = Settles(d)) \/ HeldOnce(d)
      BY <2>3, <3>1, <3>2
    <3>4. \A d : HeldOnce(d) => HeldOnce(d)'
      BY <1>1 DEF HeldOnce, Satisfied, Given
    <3>5. (\E i \in 1..Len(todo') : todo'[i] = About("lifecycle")) \/ ask.governance \in {"core", "ALLOW"}
      BY <2>3, <3>1, <1>7 DEF About
    <3>6. Demanded' = Demanded
      BY <1>1, SameRequest
    <3> QED BY <3>3, <3>4, <3>5, <3>6, <1>1 DEF Cover, Pending
  <2> QED BY <2>1, <2>2, <2>3, <1>1 DEF DiagnosisInv, Cover
<1>16. Assessed'
  BY <1>1 DEF DiagnosisInv, Assessed, Now
<1>17. ClearEarned'
  BY <1>1, <1>2 DEF ClearEarned
<1> QED BY <1>10, <1>13, <1>14, <1>15, <1>16, <1>17 DEF DiagnosisInv

\* A condition is one of the five or CLEAR.
LEMMA ConditionType == \A status, kinds : Condition(status, kinds) \in Conditions
BY DEF Condition, Conditions

\* More evidence, or a dispute, never makes a condition less severe.
LEMMA Monotone ==
    ASSUME NEW before, NEW after, NEW kinds \in SUBSET Kinds, NEW more \in SUBSET Kinds,
           before = "contested" => after = "contested"
    PROVE  Severity(Condition(before, kinds)) <= Severity(Condition(after, kinds \union more))
<1>1. Deceptive(kinds) => Deceptive(kinds \union more)
  BY DEF Deceptive
<1>2. \A k \in Kinds : k \in kinds => k \in kinds \union more
  OBVIOUS
<1> HIDE DEF Deceptive
<1> QED BY <1>1, <1>2 DEF Condition, Severity, Kinds

\* One assessment, on a new reading.
LEMMA AssessStep ==
    ASSUME DiagnosisInv, Assess
    PROVE  DiagnosisInv'
<1> DEFINE c == Head(toAssess)
           x == Condition(Now.claims[c].status, ask.integrity[c])
<1>1. /\ ask' = ask /\ rels' = rels /\ stage' = stage /\ base' = base /\ todo' = todo
      /\ findings' = findings /\ report' = report
      /\ stage = "checks" /\ toAssess # << >>
      /\ conditions' = Append(conditions, [claim |-> c, condition |-> x])
      /\ toAssess' = Tail(toAssess)
  BY DEF Assess
<1>2. /\ rels \in Seq(Relationship) /\ Len(rels) >= 1 /\ base \in 1..Len(rels)
      /\ toAssess \in Seq(Claims) /\ conditions \in Seq(Assessment) /\ report = << >>
  BY <1>1 DEF DiagnosisInv, DiagnosisTypeInv
<1>3. c \in Claims /\ toAssess' \in Seq(Claims)
  BY <1>1, <1>2, Shortened
<1>4. Now.claims[c].status \in Statuses
  <2>1. Now \in Relationship
    BY NowType DEF DiagnosisInv
  <2>2. Now.claims[c] \in Claim
    BY <2>1, <1>3 DEF Relationship
  <2> QED BY <2>2 DEF Claim, Statuses
<1> HIDE DEF c
<1>5. [claim |-> c, condition |-> x] \in Assessment
  BY <1>3, ConditionType DEF Assessment
<1> DEFINE a == [claim |-> c, condition |-> x]
<1>6. a.claim = c /\ a.condition = x
  OBVIOUS
<1> HIDE DEF a, x
<1>7. /\ conditions' \in Seq(Assessment) /\ Len(conditions') = Len(conditions) + 1
      /\ \A i \in 1..Len(conditions) : conditions'[i] = conditions[i]
      /\ conditions'[Len(conditions) + 1] = a
      /\ \A i \in 1..Len(conditions') : i \in 1..Len(conditions) \/ i = Len(conditions) + 1
  <2>1. conditions' = Append(conditions, a) /\ a \in Assessment
    BY <1>1, <1>5 DEF a
  <2> QED BY <2>1, <1>2
<1>8. DiagnosisTypeInv'
  BY <1>1, <1>2, <1>3, <1>7 DEF DiagnosisInv, DiagnosisTypeInv
<1>9. AllTraced'
  <2> SUFFICES ASSUME NEW i \in 1..Len(findings)
               PROVE  Traced(findings[i])'
    BY <1>1 DEF AllTraced
  <2>1. PICK k \in base..Len(rels) : findings[i].outcome = Right(findings[i].check, rels[k])
    BY DEF DiagnosisInv, AllTraced, Traced
  <2>2. Right(findings[i].check, rels[k])' = Right(findings[i].check, rels[k])
    BY <1>1 DEF Right, Satisfied, Refusal, Given
  <2> QED BY <1>1, <2>1, <2>2 DEF Traced
<1>10. Floor'
  BY <1>1 DEF DiagnosisInv, Floor
<1>11. Cover'
  <2>1. Demanded' = Demanded
    BY <1>1, SameRequest
  <2>2. \A d : HeldOnce(d) => HeldOnce(d)'
    BY <1>1 DEF HeldOnce, Satisfied, Given
  <2> QED BY <1>1, <2>1, <2>2 DEF DiagnosisInv, Cover, Pending
<1>12. Assessed'
  <2> SUFFICES ASSUME NEW i \in 1..Len(conditions')
               PROVE  \E status \in Statuses :
                        /\ conditions'[i].condition = Condition(status, ask.integrity[conditions'[i].claim])
                        /\ status = "contested" => Now.claims[conditions'[i].claim].status = "contested"
    <3>1. ask' = ask /\ Now' = Now
      BY <1>1 DEF Now
    <3> QED BY <3>1 DEF Assessed
  <2>1. CASE i \in 1..Len(conditions)
    BY <2>1, <1>7 DEF DiagnosisInv, Assessed
  <2>2. CASE i = Len(conditions) + 1
    BY <2>2, <1>4, <1>6, <1>7 DEF x
  <2> QED BY <2>1, <2>2, <1>7
<1>13. ClearEarned'
  BY <1>1, <1>2 DEF ClearEarned
<1> QED BY <1>8, <1>9, <1>10, <1>11, <1>12, <1>13 DEF DiagnosisInv

\* A summary is clear only if every outcome allows and nothing is open.
LEMMA ClearSummary ==
    ASSUME NEW outcomes \in SUBSET Outcomes, NEW open \in BOOLEAN, Summary(outcomes, open) = "clear"
    PROVE  outcomes \subseteq {"ALLOW"} /\ ~open
<1> DEFINE hits == {i \in DOMAIN Precedence : Precedence[i] \in outcomes}
<1>1. DOMAIN Precedence = 1..5
  BY DEF Precedence
<1>2. \A i \in 1..5 : Precedence[i] # "clear"
  BY DEF Precedence
<1>3. hits \subseteq 1..5
  BY <1>1
<1>4. ASSUME hits # {}
      PROVE  FALSE
  <2>1. \E i \in hits : \A j \in hits : i <= j
    <3> HIDE DEF hits
    <3>1. \A j \in hits : j \in 1..5
      BY <1>3
    <3>2. CASE 1 \in hits
      BY <3>1, <3>2
    <3>3. CASE 1 \notin hits /\ 2 \in hits
      BY <3>1, <3>3
    <3>4. CASE 1 \notin hits /\ 2 \notin hits /\ 3 \in hits
      BY <3>1, <3>4
    <3>5. CASE 1 \notin hits /\ 2 \notin hits /\ 3 \notin hits /\ 4 \in hits
      BY <3>1, <3>5
    <3>6. CASE 1 \notin hits /\ 2 \notin hits /\ 3 \notin hits /\ 4 \notin hits
      <4>1. 5 \in hits /\ \A j \in hits : j = 5
        BY <3>1, <3>6, <1>4
      <4> QED BY <4>1
    <3> QED BY <3>2, <3>3, <3>4, <3>5, <3>6
  <2> DEFINE i == CHOOSE i \in hits : \A j \in hits : i <= j
  <2>2. i \in hits
    BY <2>1
  <2>3. Summary(outcomes, open) = Precedence[i]
    BY <1>4 DEF Summary
  <2> HIDE DEF i
  <2> QED BY <2>2, <2>3, <1>2, <1>3
<1>5. ~open
  BY <1>4 DEF Summary
<1>6. \A o \in outcomes : o = "ALLOW"
  <2>1. /\ Precedence[1] = "BLOCK" /\ Precedence[2] = "REQUIRE_CONSENT" /\ Precedence[3] = "PAUSE"
        /\ Precedence[4] = "ESCALATE" /\ Precedence[5] = "DEFER"
    BY DEF Precedence
  <2>2. 1 \notin hits /\ 2 \notin hits /\ 3 \notin hits /\ 4 \notin hits /\ 5 \notin hits
    BY <1>4
  <2> QED BY <1>1, <2>1, <2>2 DEF Outcomes
<1> QED BY <1>5, <1>6

\* The report sums up what was found.
LEMMA ReportStep ==
    ASSUME DiagnosisInv, Report
    PROVE  DiagnosisInv'
<1> DEFINE signals == ClaimSignals(rels[base]) \union HostSignals
                      \union {<<a.condition, a.claim>> : a \in Adverse}
           outcomes == {findings[i].outcome : i \in DOMAIN findings}
           open == signals # {} \/ Unknowns # {}
           paper == [summary |-> Summary(outcomes, open), signals |-> signals,
                     unknowns |-> Unknowns, end |-> Len(rels)]
<1>1. /\ ask' = ask /\ rels' = rels /\ base' = base /\ todo' = todo /\ toAssess' = toAssess
      /\ findings' = findings /\ conditions' = conditions
      /\ stage = "checks" /\ todo = << >> /\ toAssess = << >> /\ stage' = "reported"
      /\ report' = <<paper>>
  BY DEF Report
<1>2. /\ ask \in Ask /\ rels \in Seq(Relationship) /\ Len(rels) >= 1 /\ base \in 1..Len(rels)
      /\ findings \in Seq(Finding)
  BY DEF DiagnosisInv, DiagnosisTypeInv
<1>3. paper.summary = Summary(outcomes, open) /\ paper.end = Len(rels)
  OBVIOUS
<1> HIDE DEF paper
<1>4. report' # << >> /\ report'[1] = paper
  BY <1>1
<1>5. DiagnosisTypeInv'
  <2>1. report'[1].end \in base'..Len(rels')
    BY <1>1, <1>2, <1>3, <1>4
  <2> QED BY <1>1, <1>4, <2>1 DEF DiagnosisInv, DiagnosisTypeInv
<1>6. AllTraced'
  <2> SUFFICES ASSUME NEW i \in 1..Len(findings)
               PROVE  Traced(findings[i])'
    BY <1>1 DEF AllTraced
  <2>1. PICK k \in base..Len(rels) : findings[i].outcome = Right(findings[i].check, rels[k])
    BY DEF DiagnosisInv, AllTraced, Traced
  <2>2. Right(findings[i].check, rels[k])' = Right(findings[i].check, rels[k])
    BY <1>1 DEF Right, Satisfied, Refusal, Given
  <2> QED BY <1>1, <2>1, <2>2 DEF Traced
<1>7. Floor' /\ Cover'
  BY <1>1 DEF Floor, Cover
<1>8. Assessed'
  BY <1>1 DEF DiagnosisInv, Assessed, Now
<1>9. ClearEarned'
  <2> SUFFICES ASSUME report'[1].summary = "clear"
               PROVE  /\ \A d \in Demanded : HeldOnce(d)
                      /\ ask.governance \in {"core", "ALLOW"}
                      /\ Given.host_authentication = "true" /\ Given.external_authority_current = "true"
                      /\ Given.reversibility \in {"true", "other"}
                      /\ \A c \in Claims : InContext(c) => rels[base].claims[c].status # "contested"
    <3>1. Demanded' = Demanded /\ Given' = Given /\ \A c : InContext(c)' = InContext(c)
      BY <1>1, SameRequest
    <3>2. Returned' = Len(rels)
      BY <1>3, <1>4 DEF Returned
    <3>3. \A d : HeldOnce(d) => \E k \in base'..Returned' : Satisfied(d.name, d.claim, rels[k])'
      BY <1>1, <3>2 DEF HeldOnce, Satisfied, Given
    <3> QED BY <1>1, <3>1, <3>3 DEF ClearEarned
  <2>1. outcomes \subseteq {"ALLOW"} /\ ~open
    <3>1. outcomes \in SUBSET Outcomes
      <4>1. \A i \in DOMAIN findings : findings[i] \in Finding
        BY <1>2
      <4> QED BY <4>1 DEF Finding
    <3>2. Summary(outcomes, open) = "clear"
      BY <1>3, <1>4
    <3>3. open \in BOOLEAN
      OBVIOUS
    <3> HIDE DEF outcomes, open
    <3> QED BY <3>1, <3>2, <3>3, ClearSummary
  <2>2. \A i \in 1..Len(findings) : findings[i].outcome = "ALLOW"
    <3>1. DOMAIN findings = 1..Len(findings)
      BY <1>2
    <3>2. \A i \in DOMAIN findings : findings[i].outcome \in outcomes
      OBVIOUS
    <3> HIDE DEF outcomes
    <3> QED BY <2>1, <3>1, <3>2
  <2>3. \A d : ~Pending(d)
    BY <1>1 DEF Pending
  <2>4. (\A d \in Demanded : HeldOnce(d)) /\ ask.governance \in {"core", "ALLOW"}
    BY <1>1, <2>2, <2>3 DEF DiagnosisInv, Cover
  <2>5. ClaimSignals(rels[base]) = {} /\ HostSignals = {} /\ Unknowns = {}
    BY <2>1
  <2>6. \A c \in Claims : InContext(c) => rels[base].claims[c].status # "contested"
    <3> SUFFICES ASSUME NEW c \in Claims, InContext(c), rels[base].claims[c].status = "contested"
                 PROVE  FALSE
      OBVIOUS
    <3>1. <<"contested_claim_in_context", c>> \in ClaimSignals(rels[base])
      BY DEF ClaimSignals
    <3> QED BY <3>1, <2>5
  <2>7. \A x \in Observations : Given[x] # "false" /\ Given[x] # "none"
    <3>1. ASSUME NEW x \in Observations, Given[x] = "false"
          PROVE  FALSE
      <4>1. <<x, NoClaim>> \in HostSignals
        BY <3>1 DEF HostSignals, Observations
      <4> QED BY <4>1, <2>5
    <3>2. ASSUME NEW x \in Observations, Given[x] = "none"
          PROVE  FALSE
      <4>1. x \in Unknowns
        BY <3>2 DEF Unknowns, Observations
      <4> QED BY <4>1, <2>5
    <3> QED BY <3>1, <3>2
  <2>8. Given \in Evidence
    BY <1>2 DEF Ask, Given
  <2>9. /\ Given.host_authentication = "true" /\ Given.external_authority_current = "true"
        /\ Given.reversibility \in {"true", "other"}
    BY <2>7, <2>8 DEF Evidence, Truth, Observations
  <2> QED BY <2>4, <2>6, <2>9
<1> QED BY <1>5, <1>6, <1>7, <1>8, <1>9 DEF DiagnosisInv

-----------------------------------------------------------------------------
\* The theorems

LEMMA DiagnosisBegins == DiagnosisInit => DiagnosisInv
<1> SUFFICES ASSUME DiagnosisInit PROVE DiagnosisInv
  OBVIOUS
<1>1. /\ ask \in Ask /\ rels = <<Built(ask.given, ask.other)>> /\ stage = "call" /\ base = 1
      /\ todo = << >> /\ toAssess = << >> /\ findings = << >> /\ conditions = << >> /\ report = << >>
  BY DiagnosisAssumption DEF DiagnosisInit
<1> DEFINE r == Built(ask.given, ask.other)
<1>2. ask.given \in Evidence /\ ask.other \in BOOLEAN
  BY <1>1 DEF Ask
<1>3. r \in Relationship
  BY <1>2 DEF Built, Evidence, Relationship, Lifecycles, Claims, Claim, NoRecord
<1>4. Sound(r)
  BY <1>2 DEF Built, Sound, Claims, NoRecord
<1> HIDE DEF r
<1>5. rels \in Seq(Relationship) /\ Len(rels) = 1 /\ rels[1] = r /\ DOMAIN rels = {1}
  BY <1>1, <1>3 DEF r
<1>6. DiagnosisTypeInv
  BY <1>1, <1>4, <1>5 DEF DiagnosisTypeInv
<1> QED BY <1>1, <1>6 DEF DiagnosisInv, AllTraced, Floor, Cover, Assessed, ClearEarned

LEMMA Idle ==
    ASSUME DiagnosisInv, UNCHANGED diagnosisVars
    PROVE  DiagnosisInv'
<1>1. UNCHANGED <<ask, rels, stage, base, todo, toAssess, findings, conditions, report>>
  BY DEF diagnosisVars
<1>2. DiagnosisTypeInv'
  BY <1>1 DEF DiagnosisInv, DiagnosisTypeInv
<1>3. AllTraced'
  <2> SUFFICES ASSUME NEW i \in 1..Len(findings)
               PROVE  Traced(findings[i])'
    BY <1>1 DEF AllTraced
  <2>1. PICK k \in base..Len(rels) : findings[i].outcome = Right(findings[i].check, rels[k])
    BY DEF DiagnosisInv, AllTraced, Traced
  <2>2. Right(findings[i].check, rels[k])' = Right(findings[i].check, rels[k])
    BY <1>1 DEF Right, Satisfied, Refusal, Given
  <2> QED BY <1>1, <2>1, <2>2 DEF Traced
<1>4. Floor'
  BY <1>1 DEF DiagnosisInv, Floor
<1>5. Cover'
  <2>1. Demanded' = Demanded
    BY <1>1, SameRequest
  <2>2. \A d : HeldOnce(d) => HeldOnce(d)'
    BY <1>1 DEF HeldOnce, Satisfied, Given
  <2> QED BY <1>1, <2>1, <2>2 DEF DiagnosisInv, Cover, Pending
<1>6. Assessed'
  BY <1>1 DEF DiagnosisInv, Assessed, Now
<1>7. ClearEarned'
  <2>1. Demanded' = Demanded /\ Given' = Given /\ \A c : InContext(c)' = InContext(c)
    BY <1>1, SameRequest
  <2>2. Returned' = Returned
    BY <1>1 DEF Returned
  <2>3. \A d \in Demanded : (\E k \in base..Returned : Satisfied(d.name, d.claim, rels[k]))
                              => \E k \in base..Returned : Satisfied(d.name, d.claim, rels[k])'
    <3> SUFFICES ASSUME NEW d \in Demanded, NEW k \in base..Returned, Satisfied(d.name, d.claim, rels[k])
                 PROVE  Satisfied(d.name, d.claim, rels[k])'
      OBVIOUS
    <3> QED BY <1>1, SameState
  <2> QED BY <1>1, <2>1, <2>2, <2>3 DEF DiagnosisInv, ClearEarned
<1> QED BY <1>2, <1>3, <1>4, <1>5, <1>6, <1>7 DEF DiagnosisInv

LEMMA DiagnosisSteps == DiagnosisInv /\ [DiagnosisNext]_diagnosisVars => DiagnosisInv'
<1> SUFFICES ASSUME DiagnosisInv, [DiagnosisNext]_diagnosisVars PROVE DiagnosisInv'
  OBVIOUS
<1>1. CASE UNCHANGED diagnosisVars
  BY <1>1, Idle
<1>2. CASE Diagnose
  BY <1>2, SnapshotStep, EvaluateStep, AssessStep, ReportStep DEF Diagnose
<1>3. CASE DiagnosisNext /\ ~Diagnose
  <2>1. PICK r : Grown(r)
    BY <1>3, Grows DEF DiagnosisInv, DiagnosisNext
  <2> QED BY <2>1, GrownStep
<1> QED BY <1>1, <1>2, <1>3

\* What is known of a diagnosis holds in every reachable state.
THEOREM DiagnosisInvariance == DiagnosisSpec => []DiagnosisInv
BY DiagnosisBegins, DiagnosisSteps, PTL DEF DiagnosisSpec

\* Every variable of a diagnosis keeps its type, and the claims of a history are
\* such as register_claim admits.
THEOREM DiagnosisTypeCorrect == DiagnosisSpec => []DiagnosisTypeOK
<1>1. DiagnosisInv => DiagnosisTypeOK
  <2> SUFFICES ASSUME DiagnosisInv PROVE DiagnosisTypeOK
    OBVIOUS
  <2>1. \A i \in DOMAIN rels : rels[i] \in Relationship /\ Sound(rels[i])
    BY DEF DiagnosisInv, DiagnosisTypeInv
  <2>2. \A i \in DOMAIN findings : findings[i].outcome \in Outcomes
    <3>1. \A i \in DOMAIN findings : findings[i] \in Finding
      BY DEF DiagnosisInv, DiagnosisTypeInv
    <3> QED BY <3>1 DEF Finding
  <2>3. base \in DOMAIN rels
    BY DEF DiagnosisInv, DiagnosisTypeInv
  <2> QED BY <2>1, <2>2, <2>3 DEF DiagnosisInv, DiagnosisTypeInv, DiagnosisTypeOK, Sound
<1> QED BY <1>1, DiagnosisInvariance, PTL

\* Each finding was the right decision at some moment of the call, and a clear
\* report was earned, whatever is committed meanwhile and whatever engine the
\* host has (diagnose, Runtime.evaluate, require_consent).
THEOREM ReportAlwaysEarned == DiagnosisSpec => []ReportEarned
<1>1. DiagnosisInv => FindingsTraced
  <2> SUFFICES ASSUME DiagnosisInv, NEW i \in DOMAIN findings
               PROVE  \E k \in base..Len(rels) : findings[i].outcome = Right(findings[i].check, rels[k])
    BY DEF FindingsTraced, Right
  <2>1. i \in 1..Len(findings)
    BY DEF DiagnosisInv, DiagnosisTypeInv
  <2> QED BY <2>1 DEF DiagnosisInv, AllTraced, Traced
<1>2. DiagnosisInv => ReportEarned
  BY <1>1 DEF DiagnosisInv, ReportEarned
<1> QED BY <1>2, DiagnosisInvariance, PTL

\* An assessment is never made less severe by a later state or more evidence
\* (assess_truth_integrity).
THEOREM AssessmentAlwaysStands == DiagnosisSpec => []AssessmentStands
<1>1. DiagnosisInv => AssessmentStands
  <2> SUFFICES ASSUME DiagnosisInv, NEW i \in DOMAIN conditions, NEW more \in SUBSET Kinds
               PROVE  Severity(conditions[i].condition)
                        <= Severity(Condition(Now.claims[conditions[i].claim].status,
                                              ask.integrity[conditions[i].claim] \union more))
    BY DEF AssessmentStands
  <2>1. i \in 1..Len(conditions) /\ conditions \in Seq(Assessment) /\ ask \in Ask
    BY DEF DiagnosisInv, DiagnosisTypeInv
  <2>2. conditions[i].claim \in Claims
    <3>1. conditions[i] \in Assessment
      BY <2>1
    <3> QED BY <3>1 DEF Assessment
  <2>3. ask.integrity[conditions[i].claim] \in SUBSET Kinds
    BY <2>1, <2>2 DEF Ask
  <2>4. PICK status \in Statuses :
          /\ conditions[i].condition = Condition(status, ask.integrity[conditions[i].claim])
          /\ status = "contested" => Now.claims[conditions[i].claim].status = "contested"
    BY <2>1 DEF DiagnosisInv, Assessed
  <2> QED BY <2>3, <2>4, Monotone
<1> QED BY <1>1, DiagnosisInvariance, PTL

-----------------------------------------------------------------------------
\* Exact reports: the order of the checks and what they find on one state.

Rank(name) ==
    CASE name = "lifecycle" -> 1 [] name = "consent floor" -> 2 [] name = "consent" -> 3
      [] name = "act" -> 4 [] name = "read" -> 5

\* The checks left: of something demanded, or of the core before a consent, in
\* the order of Runtime.evaluate.
InOrder(s) ==
    /\ \A i \in 1..Len(s) :
          IF s[i].name = "consent floor" THEN Given.consent_required ELSE s[i] \in Demanded
    /\ \A i, j \in 1..Len(s) : i < j => s[j].name = "read" \/ Rank(s[i].name) < Rank(s[j].name)

\* What the request demands of a state and does not have there.
Fails(name, r) == \E d \in Demanded : d.name = name /\ ~Satisfied(name, d.claim, r)

\* The one outcome besides ALLOW that the checks of one state can have.
Verdict(r) ==
    IF Fails("lifecycle", r) THEN IF r.life = "DISSOLVED" THEN "BLOCK" ELSE "PAUSE"
    ELSE IF ask.governance \in {"ESCALATE", "DEFER"} THEN ask.governance
    ELSE IF Fails("participant", r) THEN "BLOCK"
    ELSE IF Fails("consent", r) THEN "REQUIRE_CONSENT"
    ELSE IF Fails("act", r) \/ Fails("read", r) THEN "BLOCK"
    ELSE "ALLOW"

\* Checks are left only while all allow; without a commit all that do not allow
\* found the verdict.
Quiet ==
    /\ todo # << >> => \A i \in 1..Len(findings) : findings[i].outcome = "ALLOW"
    /\ stage = "checks" /\ Len(rels) = base =>
          \A i \in 1..Len(findings) : findings[i].outcome \in {"ALLOW", Verdict(rels[base])}

\* Claims are assessed on evidence.
Evidenced ==
    /\ \A i \in 1..Len(toAssess) : ask.integrity[toAssess[i]] # {}
    /\ \A i \in 1..Len(conditions) : ask.integrity[conditions[i].claim] # {}

Signals == ClaimSignals(rels[base]) \union HostSignals \union {<<a.condition, a.claim>> : a \in Adverse}

\* The report lists what is open, and without a commit sums up the verdict.
Summed ==
    report # << >> =>
        /\ report[1].signals = Signals /\ report[1].unknowns = Unknowns
        /\ Returned = base =>
              report[1].summary = IF Verdict(rels[base]) # "ALLOW" THEN Verdict(rels[base])
                                  ELSE IF Signals # {} \/ Unknowns # {} THEN "review" ELSE "clear"

ExactInv ==
    /\ rels[1] = Built(ask.given, ask.other)
    /\ InOrder(todo) /\ Quiet /\ Evidenced /\ Summed

LEMMA FailsIs ==
    ASSUME NEW r
    PROVE  /\ Fails("lifecycle", r) <=> r.life \notin Working
           /\ Fails("participant", r) <=> ~ask.participant
           /\ Fails("consent", r) <=> Given.consent_required /\ r.consent # "active"
           /\ Fails("act", r) <=> ~Satisfied("act", NoClaim, r)
           /\ Fails("read", r) <=> \E c \in Claims : InContext(c) /\ ~Satisfied("read", c, r)
<1>0. /\ About("lifecycle") \in Demanded /\ About("participant") \in Demanded
      /\ Given.consent_required => About("consent") \in Demanded
      /\ \A d \in Demanded : d.name = "consent" => Given.consent_required
      /\ \A name : About(name).name = name
  BY DEF Demanded, About
<1>1. Fails("lifecycle", r) <=> r.life \notin Working
  BY <1>0 DEF Fails, Satisfied
<1>2. Fails("participant", r) <=> ~ask.participant
  BY <1>0 DEF Fails, Satisfied
<1>3. Fails("consent", r) <=> Given.consent_required /\ r.consent # "active"
  BY <1>0 DEF Fails, Satisfied
<1>4. Fails("act", r) <=> ~Satisfied("act", NoClaim, r)
  <2>1. \A d \in Demanded : d.name = "act" => d.claim = NoClaim
    BY DEF Demanded, About
  <2>2. \E d \in Demanded : d.name = "act" /\ d.claim = NoClaim
    <3>1. About("act") \in Demanded
      BY DEF Demanded
    <3> QED BY <3>1 DEF About
  <2> QED BY <2>1, <2>2 DEF Fails
<1>5. Fails("read", r) <=> \E c \in Claims : InContext(c) /\ ~Satisfied("read", c, r)
  <2>1. \A d \in Demanded : d.name = "read" => d.claim \in Claims /\ InContext(d.claim)
    BY DEF Demanded, About
  <2>2. ASSUME NEW c \in Claims, InContext(c)
        PROVE  \E d \in Demanded : d.name = "read" /\ d.claim = c
    <3>1. [name |-> "read", claim |-> c] \in Demanded
      BY <2>2 DEF Demanded
    <3> QED BY <3>1
  <2> QED BY <2>1, <2>2 DEF Fails
<1> QED BY <1>1, <1>2, <1>3, <1>4, <1>5

LEMMA RankIs ==
    /\ Rank("lifecycle") = 1 /\ Rank("consent floor") = 2 /\ Rank("consent") = 3
    /\ Rank("act") = 4 /\ Rank("read") = 5
BY DEF Rank

LEMMA VerdictType == ASSUME ask \in Ask, NEW r PROVE Verdict(r) \in Outcomes
BY DEF Verdict, Outcomes

\* A check made in its turn, on a state where the checks before it allowed,
\* allows or finds the verdict on that state.
InTurn(check, r) ==
    /\ IF check.name = "consent floor" THEN Given.consent_required ELSE check \in Demanded
    /\ check.name # "lifecycle" =>
          ~Fails("lifecycle", r) /\ ~Fails("participant", r) /\ ask.governance \in {"core", "ALLOW"}
    /\ check.name = "consent" => r.consent = "active"
    /\ check.name \in {"act", "read"} => ~Fails("consent", r)

LEMMA FindsVerdict ==
    ASSUME ask \in Ask, NEW check \in CheckOf, NEW r \in Relationship, InTurn(check, r)
    PROVE  \A i \in 1..Len(Found(check, r)) : Found(check, r)[i].outcome \in {"ALLOW", Verdict(r)}
<1>1. ask.governance \in {"core", "ALLOW", "ESCALATE", "DEFER"}
  BY DEF Ask
<1>2. Decide(check, r) \in {"ALLOW", Verdict(r)}
  <2>1. CASE check.name = "lifecycle"
    <3>1. Decide(check, r) = Right(check, r)
      BY <2>1, Decided
    <3>2. Satisfied("lifecycle", check.claim, r) <=> ~Fails("lifecycle", r)
      BY FailsIs DEF Satisfied
    <3>3. CASE Fails("lifecycle", r)
      BY <2>1, <3>1, <3>2, <3>3 DEF Right, Refusal, Verdict
    <3>4. CASE ~Fails("lifecycle", r)
      <4>1. Decide(check, r) = IF ask.governance = "core" THEN "ALLOW" ELSE ask.governance
        BY <2>1, <3>1, <3>2, <3>4 DEF Right
      <4> QED BY <4>1, <3>4, <1>1 DEF Verdict
    <3> QED BY <3>3, <3>4
  <2>2. CASE check.name = "consent floor"
    <3>1. Decide(check, r) = IF r.consent = "active" THEN "ALLOW" ELSE "REQUIRE_CONSENT"
      BY <2>2, DecidedConsent
    <3>2. r.consent # "active" => Verdict(r) = "REQUIRE_CONSENT"
      BY <2>2, <1>1, FailsIs DEF Verdict, InTurn
    <3> QED BY <3>1, <3>2
  <2>3. CASE check.name = "consent"
    <3>1. Decide(check, r) = IF ask.governance # "core" THEN ask.governance
                             ELSE IF r.consent = "active" THEN "ALLOW" ELSE "REQUIRE_CONSENT"
      BY <2>3, DecidedConsent
    <3> QED BY <2>3, <3>1 DEF InTurn
  <2>4. CASE check.name \in {"act", "read"}
    <3>1. Decide(check, r) = Right(check, r)
      BY <2>4, Decided
    <3>2. CASE Satisfied(check.name, check.claim, r)
      BY <2>4, <3>1, <3>2 DEF Right, InTurn
    <3>3. CASE ~Satisfied(check.name, check.claim, r)
      <4>1. Right(check, r) = "BLOCK"
        BY <2>4, <3>3 DEF Right, Refusal
      <4>2. Fails("act", r) \/ Fails("read", r)
        BY <2>4, <3>3 DEF Fails, InTurn
      <4>3. Verdict(r) = "BLOCK"
        BY <2>4, <4>2 DEF Verdict, InTurn
      <4> QED BY <3>1, <4>1, <4>3
    <3> QED BY <3>2, <3>3
  <2> QED BY <2>1, <2>2, <2>3, <2>4 DEF CheckOf, Names
<1> DEFINE f == [check |-> check, outcome |-> Decide(check, r)]
           g == [check |-> About("participant"), outcome |-> "BLOCK"]
           stranger == check.name = "lifecycle" /\ Decide(check, r) = "ALLOW" /\ ~ask.participant
<1>3. Found(check, r) = IF check.name = "consent floor" /\ Decide(check, r) = "ALLOW" THEN << >>
                        ELSE IF stranger THEN <<f, g>> ELSE <<f>>
  BY DEF Found
<1>4. f.outcome = Decide(check, r) /\ g.outcome = "BLOCK"
  OBVIOUS
<1>5. stranger => Verdict(r) = "BLOCK"
  <2> SUFFICES ASSUME stranger PROVE Verdict(r) = "BLOCK"
    OBVIOUS
  <2>1. Right(check, r) = "ALLOW"
    BY Decided
  <2>2. ~Fails("lifecycle", r)
    BY <2>1, FailsIs DEF Right, Refusal, Satisfied
  <2>3. ask.governance \in {"core", "ALLOW"}
    BY <2>1, <2>2, FailsIs, <1>1 DEF Right, Refusal
  <2>4. Fails("participant", r)
    BY FailsIs
  <2> QED BY <2>2, <2>3, <2>4 DEF Verdict
<1> DEFINE found == Found(check, r)
           right == {"ALLOW", Verdict(r)}
<1> HIDE DEF f, g, stranger, found
<1>a. f.outcome \in right /\ (stranger => g.outcome \in right)
  BY <1>2, <1>4, <1>5
<1> HIDE DEF right
<1> DEFINE Allowing == \A i \in 1..Len(found) : found[i].outcome \in right
<1>6. found = << >> => Allowing
  OBVIOUS
<1>7. found = <<f>> => Allowing
  <2>1. found = <<f>> => \A i \in 1..Len(found) : found[i] = f
    OBVIOUS
  <2> QED BY <2>1, <1>a
<1>8. stranger /\ found = <<f, g>> => Allowing
  <2>1. found = <<f, g>> => \A i \in 1..Len(found) : found[i] = f \/ found[i] = g
    OBVIOUS
  <2> QED BY <2>1, <1>a
<1>9. Allowing
  <2> HIDE DEF Allowing
  <2> QED BY <1>3, <1>6, <1>7, <1>8 DEF found
<1> QED BY <1>9 DEF found, right

-----------------------------------------------------------------------------

\* The verdict and the signals of a state that was read do not change.
LEMMA SameVerdict ==
    ASSUME ask' = ask, base' = base, rels'[base] = rels[base]
    PROVE  Verdict(rels[base])' = Verdict(rels[base])
<1>1. Demanded' = Demanded /\ Given' = Given
  BY SameRequest
<1>2. \A name, c : Satisfied(name, c, rels[base])' <=> Satisfied(name, c, rels[base])
  BY <1>1 DEF Satisfied
<1>3. \A name : Fails(name, rels[base])' <=> Fails(name, rels[base])
  BY <1>1, <1>2 DEF Fails
<1> QED BY <1>3 DEF Verdict

LEMMA SameSignals ==
    ASSUME ask' = ask, base' = base, rels'[base] = rels[base], conditions' = conditions
    PROVE  Signals' = Signals /\ Unknowns' = Unknowns
<1>1. Given' = Given /\ \A c : InContext(c)' = InContext(c)
  BY SameRequest
<1>2. ClaimSignals(rels[base])' = ClaimSignals(rels[base])
  BY <1>1 DEF ClaimSignals
<1>3. HostSignals' = HostSignals /\ Unknowns' = Unknowns
  BY <1>1 DEF HostSignals, Unknowns
<1>4. Adverse' = Adverse
  BY DEF Adverse
<1> QED BY <1>2, <1>3, <1>4 DEF Signals

LEMMA ReportStays ==
    ASSUME Summed, ask' = ask, report' = report,
           report # << >> => base' = base /\ rels'[base] = rels[base] /\ conditions' = conditions
    PROVE  Summed'
<1>1. CASE report = << >>
  BY <1>1 DEF Summed
<1>2. CASE report # << >>
  <2>1. Verdict(rels[base])' = Verdict(rels[base]) /\ Signals' = Signals /\ Unknowns' = Unknowns
    BY <1>2, SameVerdict, SameSignals
  <2>2. Returned' = Returned /\ base' = base
    BY <1>2 DEF Returned
  <2> QED BY <1>2, <2>1, <2>2 DEF Summed
<1> QED BY <1>1, <1>2

LEMMA OrderStays ==
    ASSUME InOrder(todo), ask' = ask, todo' = todo
    PROVE  InOrder(todo)'
BY SameRequest DEF InOrder

LEMMA JoinedInOrder ==
    ASSUME NEW s \in Seq(CheckOf), NEW t \in Seq(CheckOf), InOrder(s), InOrder(t),
           \A i \in 1..Len(t) : t[i].name = "read"
    PROVE  InOrder(s \o t)
<1> DEFINE g == s \o t
<1>1. /\ Len(g) = Len(s) + Len(t)
      /\ \A i \in 1..Len(s) : g[i] = s[i]
      /\ \A j \in 1..Len(t) : g[Len(s) + j] = t[j]
      /\ \A i \in 1..Len(g) : i \in 1..Len(s) \/ \E j \in 1..Len(t) : i = Len(s) + j
  BY Concatenated
<1> HIDE DEF g
<1>2. ASSUME NEW i \in 1..Len(g)
      PROVE  IF g[i].name = "consent floor" THEN Given.consent_required ELSE g[i] \in Demanded
  <2>1. CASE i \in 1..Len(s)
    BY <2>1, <1>1 DEF InOrder
  <2>2. CASE \E j \in 1..Len(t) : i = Len(s) + j
    BY <2>2, <1>1 DEF InOrder
  <2> QED BY <2>1, <2>2, <1>1
<1>3. ASSUME NEW i \in 1..Len(g), NEW j \in 1..Len(g), i < j
      PROVE  g[j].name = "read" \/ Rank(g[i].name) < Rank(g[j].name)
  <2>1. CASE j \in 1..Len(s)
    <3>1. i \in 1..Len(s)
      BY <1>3, <2>1
    <3>2. s[j].name = "read" \/ Rank(s[i].name) < Rank(s[j].name)
      BY <1>3, <2>1, <3>1 DEF InOrder
    <3> QED BY <1>1, <2>1, <3>1, <3>2
  <2>2. CASE \E k \in 1..Len(t) : j = Len(s) + k
    BY <2>2, <1>1
  <2> QED BY <2>1, <2>2, <1>1
<1> QED BY <1>2, <1>3 DEF InOrder, g

LEMMA AgendaInOrder == InOrder(Agenda)
<1> DEFINE l == About("lifecycle")
           f == About("consent floor")
           c == About("consent")
           a == About("act")
<1>1. l \in CheckOf /\ f \in CheckOf /\ c \in CheckOf /\ a \in CheckOf
  BY DEF CheckOf, Names, About
<1>2. /\ l.name = "lifecycle" /\ f.name = "consent floor" /\ c.name = "consent" /\ a.name = "act"
  BY DEF About
<1>3. l \in Demanded /\ a \in Demanded /\ (Given.consent_required => c \in Demanded)
  BY DEF Demanded
<1>4. Reads \in Seq(CheckOf) /\ (\A i \in 1..Len(Reads) : Reads[i].name = "read") /\ InOrder(Reads)
  <2>1. \A i \in 1..Len(Requested) :
           /\ [name |-> "read", claim |-> Requested[i]] \in CheckOf
           /\ [name |-> "read", claim |-> Requested[i]] \in Demanded
    <3> SUFFICES ASSUME NEW i \in 1..Len(Requested)
                 PROVE  /\ [name |-> "read", claim |-> Requested[i]] \in CheckOf
                        /\ [name |-> "read", claim |-> Requested[i]] \in Demanded
      OBVIOUS
    <3>1. Requested[i] \in Claims /\ i \in DOMAIN Requested
      BY RequestedType
    <3>2. InContext(Requested[i])
      BY <3>1 DEF InContext
    <3> QED BY <3>1, <3>2 DEF CheckOf, Names, Demanded
  <2>2. /\ Reads \in Seq(CheckOf) /\ Len(Reads) = Len(Requested)
        /\ \A i \in 1..Len(Reads) : Reads[i].name = "read" /\ Reads[i] \in Demanded
    BY <2>1, RequestedType DEF Reads
  <2> QED BY <2>2 DEF InOrder
<1>5. CASE Given.consent_required
  <2> DEFINE front == <<l, f, c, a>>
  <2>1. Agenda = front \o Reads
    BY <1>5 DEF Agenda, Reads
  <2> HIDE DEF l, f, c, a
  <2>2. /\ front \in Seq(CheckOf) /\ Len(front) = 4
        /\ front[1] = l /\ front[2] = f /\ front[3] = c /\ front[4] = a
    BY <1>1
  <2> HIDE DEF front
  <2>3. InOrder(front)
    <3>1. \A i \in 1..Len(front) : i = 1 \/ i = 2 \/ i = 3 \/ i = 4
      BY <2>2
    <3>2. \A i \in 1..Len(front) :
             IF front[i].name = "consent floor" THEN Given.consent_required ELSE front[i] \in Demanded
      BY <3>1, <2>2, <1>2, <1>3, <1>5
    <3>3. \A i \in 1..Len(front) : Rank(front[i].name) = i
      BY <3>1, <2>2, <1>2, RankIs
    <3> QED BY <3>2, <3>3 DEF InOrder
  <2> QED BY <2>1, <2>2, <2>3, <1>4, JoinedInOrder
<1>6. CASE ~Given.consent_required
  <2> DEFINE front == <<l, a>>
  <2>1. Agenda = front \o Reads
    BY <1>6 DEF Agenda, Reads
  <2> HIDE DEF l, f, c, a
  <2>2. front \in Seq(CheckOf) /\ Len(front) = 2 /\ front[1] = l /\ front[2] = a
    BY <1>1
  <2> HIDE DEF front
  <2>3. InOrder(front)
    <3>1. \A i \in 1..Len(front) : i = 1 \/ i = 2
      BY <2>2
    <3>2. \A i \in 1..Len(front) :
             IF front[i].name = "consent floor" THEN Given.consent_required ELSE front[i] \in Demanded
      BY <3>1, <2>2, <1>2, <1>3
    <3>3. Rank(front[1].name) = 1 /\ Rank(front[2].name) = 4
      <4>1. front[1].name = "lifecycle" /\ front[2].name = "act"
        BY <2>2, <1>2
      <4> QED BY <4>1, RankIs
    <3>4. \A i, j \in 1..Len(front) : i < j => i = 1 /\ j = 2
      BY <3>1
    <3>5. \A i, j \in 1..Len(front) : i < j => Rank(front[i].name) < Rank(front[j].name)
      <4> SUFFICES ASSUME NEW i \in 1..Len(front), NEW j \in 1..Len(front), i < j
                   PROVE  Rank(front[i].name) < Rank(front[j].name)
        OBVIOUS
      <4>1. i = 1 /\ j = 2
        BY <3>4
      <4>2. Rank(front[i].name) = 1 /\ Rank(front[j].name) = 4
        BY <4>1, <3>3
      <4> QED BY <4>2
    <3> QED BY <3>2, <3>5 DEF InOrder
  <2> QED BY <2>1, <2>2, <2>3, <1>4, JoinedInOrder
<1> QED BY <1>5, <1>6

-----------------------------------------------------------------------------

\* The invariant of exact reports begins and stays with every step.
LEMMA ExactBegins == DiagnosisInit => ExactInv
<1> SUFFICES ASSUME DiagnosisInit PROVE ExactInv
  OBVIOUS
<1>1. /\ rels = <<Built(ask.given, ask.other)>> /\ stage = "call"
      /\ todo = << >> /\ toAssess = << >> /\ findings = << >> /\ conditions = << >> /\ report = << >>
  BY DEF DiagnosisInit
<1> DEFINE r == Built(ask.given, ask.other)
<1>2. rels[1] = r
  <2> HIDE DEF r
  <2> QED BY <1>1 DEF r
<1> HIDE DEF r
<1>3. InOrder(todo) /\ Quiet /\ Evidenced /\ Summed
  BY <1>1 DEF InOrder, Quiet, Evidenced, Summed
<1> QED BY <1>2, <1>3 DEF ExactInv, r

LEMMA ExactGrown ==
    ASSUME DiagnosisInv, ExactInv, NEW r, Grown(r)
    PROVE  ExactInv'
<1>1. /\ ask' = ask /\ stage' = stage /\ base' = base /\ todo' = todo /\ toAssess' = toAssess
      /\ findings' = findings /\ conditions' = conditions /\ report' = report
      /\ rels' = Append(rels, r) /\ r \in Relationship
  BY DEF Grown
<1>2. /\ rels \in Seq(Relationship) /\ Len(rels) >= 1 /\ base \in 1..Len(rels)
  BY DEF DiagnosisInv, DiagnosisTypeInv
<1>3. /\ Len(rels') = Len(rels) + 1 /\ rels'[1] = rels[1] /\ rels'[base] = rels[base]
  BY <1>1, <1>2
<1>4. InOrder(todo)'
  BY <1>1, OrderStays DEF ExactInv
<1>5. Quiet'
  <2>1. Len(rels') # base'
    BY <1>1, <1>2, <1>3
  <2> QED BY <1>1, <2>1 DEF ExactInv, Quiet
<1>6. Evidenced'
  BY <1>1 DEF ExactInv, Evidenced
<1>7. Summed'
  BY <1>1, <1>3, ReportStays DEF ExactInv
<1>8. rels'[1] = Built(ask'.given, ask'.other)
  BY <1>1, <1>3 DEF ExactInv
<1>9. (rels[1] = Built(ask.given, ask.other))'
  BY <1>8
<1> QED BY <1>4, <1>5, <1>6, <1>7, <1>9 DEF ExactInv

\* The claims to assess have evidence.
LEMMA WhereEvidence ==
    ASSUME NEW x \in BOOLEAN, NEW y \in BOOLEAN,
           x => ask.integrity[Primary] # {}, y => ask.integrity[Other] # {}
    PROVE  \A i \in 1..Len(Where(x, y)) : ask.integrity[Where(x, y)[i]] # {}
<1> DEFINE s == IF x THEN <<Primary>> ELSE << >>
           t == IF y THEN <<Other>> ELSE << >>
<1>1. s \in Seq(Claims) /\ \A i \in 1..Len(s) : ask.integrity[s[i]] # {}
  <2>1. Primary \in Claims
    BY DEF Claims
  <2> QED BY <2>1
<1>2. t \in Seq(Claims) /\ \A i \in 1..Len(t) : ask.integrity[t[i]] # {}
  <2>1. Other \in Claims
    BY DEF Claims
  <2> QED BY <2>1
<1>3. Where(x, y) = s \o t
  BY DEF Where
<1> HIDE DEF s, t
<1>4. /\ \A i \in 1..Len(s) : (s \o t)[i] = s[i]
      /\ \A j \in 1..Len(t) : (s \o t)[Len(s) + j] = t[j]
      /\ \A i \in 1..Len(s \o t) : i \in 1..Len(s) \/ \E j \in 1..Len(t) : i = Len(s) + j
  BY <1>1, <1>2, Concatenated
<1>5. \A i \in 1..Len(s \o t) : ask.integrity[(s \o t)[i]] # {}
  <2> SUFFICES ASSUME NEW i \in 1..Len(s \o t) PROVE ask.integrity[(s \o t)[i]] # {}
    OBVIOUS
  <2>1. CASE i \in 1..Len(s)
    BY <2>1, <1>1, <1>4
  <2>2. CASE i \notin 1..Len(s)
    <3>1. PICK j \in 1..Len(t) : i = Len(s) + j
      BY <2>2, <1>4
    <3>2. (s \o t)[i] = t[j]
      BY <3>1, <1>4
    <3> QED BY <3>1, <3>2, <1>2
  <2> QED BY <2>1, <2>2
<1> QED BY <1>3, <1>5

LEMMA ExactSnapshot ==
    ASSUME DiagnosisInv, ExactInv, Snapshot
    PROVE  ExactInv'
<1>1. /\ ask' = ask /\ rels' = rels /\ findings' = findings /\ conditions' = conditions
      /\ report' = report /\ stage = "call"
  BY DEF Snapshot
<1>2. findings = << >> /\ report = << >>
  BY <1>1 DEF DiagnosisInv, DiagnosisTypeInv
<1>3. /\ todo' = todo \/ todo' = Agenda
      /\ toAssess' = toAssess \/ toAssess' = Where(Assessable(Primary, Now), Assessable(Other, Now))
  BY DEF Snapshot
<1>4. InOrder(todo)'
  <2>1. CASE todo' = todo
    BY <1>1, <2>1, OrderStays DEF ExactInv
  <2>2. CASE todo' = Agenda
    <3>1. Given' = Given /\ Demanded' = Demanded
      BY <1>1, SameRequest
    <3>2. InOrder(Agenda)
      BY AgendaInOrder
    <3> QED BY <2>2, <3>1, <3>2 DEF InOrder
  <2> QED BY <1>3, <2>1, <2>2
<1>5. Quiet'
  BY <1>1, <1>2 DEF Quiet
<1>6. Evidenced'
  <2>1. CASE toAssess' = toAssess
    BY <1>1, <2>1 DEF ExactInv, Evidenced
  <2>2. CASE toAssess' = Where(Assessable(Primary, Now), Assessable(Other, Now))
    <3> DEFINE x == Assessable(Primary, Now)
               y == Assessable(Other, Now)
    <3>1. /\ x \in BOOLEAN /\ y \in BOOLEAN
          /\ x => ask.integrity[Primary] # {}
          /\ y => ask.integrity[Other] # {}
      BY DEF Assessable
    <3> HIDE DEF x, y
    <3>2. \A i \in 1..Len(Where(x, y)) : ask.integrity[Where(x, y)[i]] # {}
      BY <3>1, WhereEvidence
    <3>3. toAssess' = Where(x, y)
      BY <2>2 DEF x, y
    <3>4. \A i \in 1..Len(toAssess') : ask'.integrity[toAssess'[i]] # {}
      BY <1>1, <3>2, <3>3
    <3> QED BY <1>1, <3>4 DEF ExactInv, Evidenced
  <2> QED BY <1>3, <2>1, <2>2
<1>7. Summed'
  BY <1>1, <1>2 DEF Summed
<1>8. (rels[1] = Built(ask.given, ask.other))'
  <2>1. rels'[1] = Built(ask'.given, ask'.other)
    BY <1>1 DEF ExactInv
  <2> QED BY <2>1
<1> QED BY <1>4, <1>5, <1>6, <1>7, <1>8 DEF ExactInv

\* The next check is in its turn, as long as nothing was committed.
LEMMA NextInTurn ==
    ASSUME DiagnosisInv, ExactInv, stage = "checks", todo # << >>, Len(rels) = base
    PROVE  InTurn(todo[1], rels[base])
<1>1. /\ ask \in Ask /\ rels \in Seq(Relationship) /\ base \in 1..Len(rels)
      /\ todo \in Seq(CheckOf) /\ 1 \in 1..Len(todo) /\ todo[1] \in CheckOf
  BY DEF DiagnosisInv, DiagnosisTypeInv
<1> DEFINE r == rels[base]
           name == todo[1].name
<1>2. \A i \in 1..Len(todo) : i = 1 \/ todo[i].name = "read" \/ Rank(name) < Rank(todo[i].name)
  <2> SUFFICES ASSUME NEW i \in 1..Len(todo), i # 1
               PROVE  todo[i].name = "read" \/ Rank(todo[1].name) < Rank(todo[i].name)
    OBVIOUS
  <2>1. 1 < i
    BY <1>1
  <2> QED BY <2>1, <1>1 DEF ExactInv, InOrder
<1>3. /\ \A d \in Demanded : Pending(Settles(d)) \/ Satisfied(d.name, d.claim, r)
      /\ Pending(About("lifecycle")) \/ ask.governance \in {"core", "ALLOW"}
  <2>1. \A i \in 1..Len(findings) : findings[i].outcome = "ALLOW"
    BY DEF ExactInv, Quiet
  <2>2. \A k \in base..Len(rels) : k = base
    BY <1>1
  <2>3. \A d : HeldOnce(d) => Satisfied(d.name, d.claim, r)
    BY <2>2 DEF HeldOnce
  <2> QED BY <2>1, <2>3 DEF DiagnosisInv, Cover
<1> HIDE DEF r
<1>4. IF name = "consent floor" THEN Given.consent_required ELSE todo[1] \in Demanded
  BY <1>1 DEF ExactInv, InOrder
<1>5. /\ name \in {"lifecycle", "consent floor", "consent", "act", "read"}
      /\ Rank("lifecycle") = 1 /\ Rank("consent floor") = 2 /\ Rank("consent") = 3
      /\ Rank("act") = 4 /\ Rank("read") = 5
  BY <1>1, RankIs DEF CheckOf, Names
<1> HIDE DEF name
<1>6. name # "lifecycle" => ~Pending(About("lifecycle"))
  <2> SUFFICES ASSUME name # "lifecycle", NEW i \in 1..Len(todo), todo[i] = About("lifecycle")
               PROVE  FALSE
    BY DEF Pending
  <2>1. todo[i].name = "lifecycle"
    BY DEF About
  <2>2. i # 1
    BY <2>1 DEF name
  <2>3. Rank(name) < 1
    BY <1>2, <1>5, <2>1, <2>2
  <2>4. Rank(name) \in {1, 2, 3, 4, 5}
    BY <1>5
  <2> QED BY <2>3, <2>4
<1>7. name \in {"act", "read"} => ~Pending(About("consent"))
  <2> SUFFICES ASSUME name \in {"act", "read"}, NEW i \in 1..Len(todo), todo[i] = About("consent")
               PROVE  FALSE
    BY DEF Pending
  <2>1. todo[i].name = "consent"
    BY DEF About
  <2>2. i # 1
    BY <2>1 DEF name
  <2>3. Rank(name) < 3
    BY <1>2, <1>5, <2>1, <2>2
  <2>4. Rank(name) \in {4, 5}
    BY <1>5
  <2> QED BY <2>3, <2>4
<1>8. name # "lifecycle" =>
         ~Fails("lifecycle", r) /\ ~Fails("participant", r) /\ ask.governance \in {"core", "ALLOW"}
  <2>1. \A d \in Demanded : d.name \in {"lifecycle", "participant"} => Settles(d) = About("lifecycle")
    BY DEF Demanded, Settles, About
  <2> QED BY <1>3, <1>6, <2>1 DEF Fails
<1>9. name = "consent" => r.consent = "active"
  <2> SUFFICES ASSUME name = "consent" PROVE r.consent = "active"
    OBVIOUS
  <2>1. \A k \in 1..Len(todo) : 1 # k + 1
    BY <1>1
  <2>2. \E k \in base..Len(rels) : rels[k].consent = "active"
    BY <2>1, <1>1 DEF DiagnosisInv, Floor, name
  <2>3. \A k \in base..Len(rels) : k = base
    BY <1>1
  <2> QED BY <2>2, <2>3 DEF r
<1>10. name \in {"act", "read"} => ~Fails("consent", r)
  <2>1. \A d \in Demanded : d.name = "consent" => Settles(d) = About("consent")
    BY DEF Demanded, Settles, About
  <2> QED BY <1>3, <1>7, <2>1 DEF Fails
<1> QED BY <1>4, <1>8, <1>9, <1>10 DEF InTurn, r, name

LEMMA ExactEvaluate ==
    ASSUME DiagnosisInv, ExactInv, Evaluate
    PROVE  ExactInv'
<1> DEFINE check == Head(todo)
           found == Found(check, Now)
           denied == \E i \in DOMAIN found : found[i].outcome # "ALLOW"
<1>1. /\ ask' = ask /\ rels' = rels /\ stage' = stage /\ base' = base /\ toAssess' = toAssess
      /\ conditions' = conditions /\ report' = report
      /\ stage = "checks" /\ todo # << >>
      /\ findings' = findings \o found
      /\ todo' = IF denied THEN << >> ELSE Tail(todo)
  BY DEF Evaluate
<1>2. /\ ask \in Ask /\ rels \in Seq(Relationship) /\ Len(rels) >= 1 /\ base \in 1..Len(rels)
      /\ todo \in Seq(CheckOf) /\ findings \in Seq(Finding)
  BY <1>1 DEF DiagnosisInv, DiagnosisTypeInv
<1>3. check \in CheckOf /\ check = todo[1]
  <2>1. todo \in Seq(CheckOf) /\ todo # << >>
    BY <1>1, <1>2
  <2> QED BY <2>1, Shortened
<1>4. Now \in Relationship /\ Now = rels[Len(rels)]
  BY NowType DEF DiagnosisInv, Now
<1> HIDE DEF check
<1>5. found \in Seq(Finding)
  BY <1>2, <1>3, <1>4, FoundType
<1>6. Len(rels) = base => \A i \in 1..Len(found) : found[i].outcome \in {"ALLOW", Verdict(rels[base])}
  <2> SUFFICES ASSUME Len(rels) = base
               PROVE  \A i \in 1..Len(found) : found[i].outcome \in {"ALLOW", Verdict(rels[base])}
    OBVIOUS
  <2>1. InTurn(check, rels[base])
    BY <1>1, <1>3, NextInTurn
  <2>2. Now = rels[base] /\ rels[base] \in Relationship
    BY <1>4
  <2>3. \A i \in 1..Len(Found(check, rels[base])) :
           Found(check, rels[base])[i].outcome \in {"ALLOW", Verdict(rels[base])}
    BY <1>2, <1>3, <2>1, <2>2, FindsVerdict
  <2> QED BY <2>2, <2>3
<1>7. denied \/ \A i \in 1..Len(found) : found[i].outcome = "ALLOW"
  <2>1. DOMAIN found = 1..Len(found)
    BY <1>5
  <2> HIDE DEF found
  <2> QED BY <2>1
<1> HIDE DEF found, denied
<1>8. /\ Len(findings') = Len(findings) + Len(found)
      /\ \A i \in 1..Len(findings) : findings'[i] = findings[i]
      /\ \A j \in 1..Len(found) : findings'[Len(findings) + j] = found[j]
      /\ \A i \in 1..Len(findings') :
            i \in 1..Len(findings) \/ \E j \in 1..Len(found) : i = Len(findings) + j
  <2>1. findings \in Seq(Finding) /\ findings' = findings \o found
    BY <1>1, <1>2
  <2>2. /\ Len(findings \o found) = Len(findings) + Len(found)
        /\ \A i \in 1..Len(findings) : (findings \o found)[i] = findings[i]
        /\ \A j \in 1..Len(found) : (findings \o found)[Len(findings) + j] = found[j]
        /\ \A i \in 1..Len(findings \o found) :
              i \in 1..Len(findings) \/ \E j \in 1..Len(found) : i = Len(findings) + j
    <3>1. findings \in Seq(Finding)
      BY <2>1
    <3> QED BY <3>1, <1>5, Concatenated
  <2> QED BY <2>1, <2>2
<1>9. \A i \in 1..Len(findings) : findings[i].outcome = "ALLOW"
  BY <1>1 DEF ExactInv, Quiet
<1>10. InOrder(todo)'
  <2>1. Given' = Given /\ Demanded' = Demanded
    BY <1>1, SameRequest
  <2>2. CASE denied
    <3>1. todo' = << >>
      BY <1>1, <2>2
    <3> QED BY <3>1 DEF InOrder
  <2>3. CASE ~denied
    <3>1. /\ Len(todo') = Len(todo) - 1
          /\ \A i \in 1..Len(todo') : i + 1 \in 1..Len(todo) /\ todo'[i] = todo[i + 1]
      <4>1. todo' = Tail(todo) /\ todo \in Seq(CheckOf) /\ todo # << >>
        BY <1>1, <1>2, <2>3
      <4> QED BY <4>1, Shortened
    <3>2. \A i \in 1..Len(todo') :
             IF todo'[i].name = "consent floor" THEN Given.consent_required ELSE todo'[i] \in Demanded
      BY <3>1 DEF ExactInv, InOrder
    <3>3. ASSUME NEW i \in 1..Len(todo'), NEW j \in 1..Len(todo'), i < j
          PROVE  todo'[j].name = "read" \/ Rank(todo'[i].name) < Rank(todo'[j].name)
      <4>1. i + 1 \in 1..Len(todo) /\ j + 1 \in 1..Len(todo) /\ i + 1 < j + 1
        BY <3>1, <3>3
      <4>2. todo[j + 1].name = "read" \/ Rank(todo[i + 1].name) < Rank(todo[j + 1].name)
        BY <4>1 DEF ExactInv, InOrder
      <4> QED BY <3>1, <4>2
    <3>4. \A name : Rank(name)' = Rank(name)
      BY DEF Rank
    <3> QED BY <2>1, <3>2, <3>3, <3>4 DEF InOrder
  <2> QED BY <2>2, <2>3
<1>11. Quiet'
  <2>1. todo' # << >> => \A i \in 1..Len(findings') : findings'[i].outcome = "ALLOW"
    <3>1. todo' # << >> => \A i \in 1..Len(found) : found[i].outcome = "ALLOW"
      BY <1>1, <1>7
    <3> QED BY <3>1, <1>8, <1>9
  <2>2. Len(rels) = base =>
           \A i \in 1..Len(findings') : findings'[i].outcome \in {"ALLOW", Verdict(rels[base])}
    BY <1>6, <1>8, <1>9
  <2>3. Verdict(rels[base])' = Verdict(rels[base])
    BY <1>1, SameVerdict
  <2> QED BY <1>1, <2>1, <2>2, <2>3 DEF Quiet
<1>12. Evidenced'
  BY <1>1 DEF ExactInv, Evidenced
<1>13. Summed'
  BY <1>1, ReportStays DEF ExactInv
<1>14. (rels[1] = Built(ask.given, ask.other))'
  <2>1. rels'[1] = Built(ask'.given, ask'.other)
    BY <1>1 DEF ExactInv
  <2> QED BY <2>1
<1> QED BY <1>10, <1>11, <1>12, <1>13, <1>14 DEF ExactInv

LEMMA ExactAssess ==
    ASSUME DiagnosisInv, ExactInv, Assess
    PROVE  ExactInv'
<1> DEFINE a == [claim |-> Head(toAssess),
                 condition |-> Condition(Now.claims[Head(toAssess)].status, ask.integrity[Head(toAssess)])]
<1>1. /\ ask' = ask /\ rels' = rels /\ stage' = stage /\ base' = base /\ todo' = todo
      /\ findings' = findings /\ report' = report
      /\ stage = "checks" /\ toAssess # << >>
      /\ conditions' = Append(conditions, a) /\ toAssess' = Tail(toAssess)
  BY DEF Assess
<1>2. toAssess \in Seq(Claims) /\ conditions \in Seq(Assessment) /\ report = << >>
  BY <1>1 DEF DiagnosisInv, DiagnosisTypeInv
<1>3. a.claim = Head(toAssess)
  OBVIOUS
<1> HIDE DEF a
<1>4. /\ Head(toAssess) = toAssess[1] /\ 1 \in 1..Len(toAssess)
      /\ \A i \in 1..Len(toAssess') : i + 1 \in 1..Len(toAssess) /\ toAssess'[i] = toAssess[i + 1]
  BY <1>1, <1>2, Shortened
<1>5. /\ Len(conditions') = Len(conditions) + 1
      /\ \A i \in 1..Len(conditions) : conditions'[i] = conditions[i]
      /\ conditions'[Len(conditions) + 1] = a
      /\ \A i \in 1..Len(conditions') : i \in 1..Len(conditions) \/ i = Len(conditions) + 1
  BY <1>1, <1>2
<1>6. Evidenced'
  <2>1. \A i \in 1..Len(toAssess') : ask.integrity[toAssess'[i]] # {}
    BY <1>4 DEF ExactInv, Evidenced
  <2>2. \A i \in 1..Len(conditions') : ask.integrity[conditions'[i].claim] # {}
    <3> SUFFICES ASSUME NEW i \in 1..Len(conditions') PROVE ask.integrity[conditions'[i].claim] # {}
      OBVIOUS
    <3>1. CASE i \in 1..Len(conditions)
      BY <3>1, <1>5 DEF ExactInv, Evidenced
    <3>2. CASE i = Len(conditions) + 1
      <4>1. conditions'[i].claim = toAssess[1]
        BY <3>2, <1>3, <1>4, <1>5
      <4> QED BY <4>1, <1>4 DEF ExactInv, Evidenced
    <3> QED BY <3>1, <3>2, <1>5
  <2> QED BY <1>1, <2>1, <2>2 DEF Evidenced
<1>7. InOrder(todo)'
  BY <1>1, OrderStays DEF ExactInv
<1>8. Quiet'
  <2>1. Verdict(rels[base])' = Verdict(rels[base])
    BY <1>1, SameVerdict
  <2> QED BY <1>1, <2>1 DEF ExactInv, Quiet
<1>9. Summed'
  BY <1>1, <1>2 DEF Summed
<1>10. (rels[1] = Built(ask.given, ask.other))'
  <2>1. rels'[1] = Built(ask'.given, ask'.other)
    BY <1>1 DEF ExactInv
  <2> QED BY <2>1
<1> QED BY <1>6, <1>7, <1>8, <1>9, <1>10 DEF ExactInv

LEMMA ExactIdle ==
    ASSUME DiagnosisInv, ExactInv, UNCHANGED diagnosisVars
    PROVE  ExactInv'
<1>1. UNCHANGED <<ask, rels, stage, base, todo, toAssess, findings, conditions, report>>
  BY DEF diagnosisVars
<1>2. InOrder(todo)'
  BY <1>1, OrderStays DEF ExactInv
<1>3. Quiet'
  <2>1. Verdict(rels[base])' = Verdict(rels[base])
    BY <1>1, SameVerdict
  <2> QED BY <1>1, <2>1 DEF ExactInv, Quiet
<1>4. Evidenced'
  BY <1>1 DEF ExactInv, Evidenced
<1>5. Summed'
  BY <1>1, ReportStays DEF ExactInv
<1>6. (rels[1] = Built(ask.given, ask.other))'
  <2>1. rels'[1] = Built(ask'.given, ask'.other)
    BY <1>1 DEF ExactInv
  <2> QED BY <2>1
<1> QED BY <1>2, <1>3, <1>4, <1>5, <1>6 DEF ExactInv

\* What a report sums up when at most one outcome besides ALLOW was found.
LEMMA SummaryOf ==
    ASSUME NEW v \in Outcomes, NEW outcomes \in SUBSET {"ALLOW", v}, v = "ALLOW" \/ v \in outcomes,
           NEW open \in BOOLEAN
    PROVE  Summary(outcomes, open) = IF v # "ALLOW" THEN v ELSE IF open THEN "review" ELSE "clear"
<1> DEFINE hits == {i \in DOMAIN Precedence : Precedence[i] \in outcomes}
<1>1. /\ DOMAIN Precedence = 1..5
      /\ Precedence[1] = "BLOCK" /\ Precedence[2] = "REQUIRE_CONSENT" /\ Precedence[3] = "PAUSE"
      /\ Precedence[4] = "ESCALATE" /\ Precedence[5] = "DEFER"
  BY DEF Precedence
<1>2. \A i \in 1..5 : i \in {1, 2, 3, 4, 5}
  OBVIOUS
<1>3. CASE v = "ALLOW"
  <2>1. hits = {}
    BY <1>1, <1>2, <1>3
  <2> QED BY <1>3, <2>1 DEF Summary
<1>4. CASE v # "ALLOW"
  <2>1. PICK k \in 1..5 : Precedence[k] = v
    BY <1>1, <1>4 DEF Outcomes
  <2>2. hits = {k}
    <3>1. \A j \in 1..5 : j # k => Precedence[j] # v /\ Precedence[j] # "ALLOW"
      BY <1>1, <1>2, <2>1
    <3> QED BY <1>1, <1>4, <2>1, <3>1
  <2> DEFINE first == CHOOSE i \in hits : \A j \in hits : i <= j
  <2>3. first = k
    <3> HIDE DEF hits
    <3> QED BY <2>2
  <2>4. Summary(outcomes, open) = Precedence[first]
    BY <2>2 DEF Summary
  <2> HIDE DEF first
  <2> QED BY <1>4, <2>1, <2>3, <2>4
<1> QED BY <1>3, <1>4

\* The findings of a call without a commit come down to the verdict.
LEMMA VerdictFound ==
    ASSUME DiagnosisInv, ExactInv, stage = "checks", todo = << >>, Len(rels) = base
    PROVE  \/ Verdict(rels[base]) = "ALLOW"
           \/ \E i \in 1..Len(findings) : findings[i].outcome = Verdict(rels[base])
<1>1. CASE \E i \in 1..Len(findings) : findings[i].outcome # "ALLOW"
  BY <1>1 DEF ExactInv, Quiet
<1>2. CASE /\ \A d \in Demanded : Pending(Settles(d)) \/ HeldOnce(d)
           /\ Pending(About("lifecycle")) \/ ask.governance \in {"core", "ALLOW"}
  <2>1. base \in Nat
    BY DEF DiagnosisInv, DiagnosisTypeInv
  <2>2. \A k \in base..Len(rels) : k = base
    BY <2>1
  <2>3. \A d \in Demanded : Satisfied(d.name, d.claim, rels[base])
    BY <1>2, <2>2 DEF Pending, HeldOnce
  <2>4. \A name : ~Fails(name, rels[base])
    BY <2>3 DEF Fails
  <2>5. ask.governance \in {"core", "ALLOW"}
    BY <1>2 DEF Pending
  <2> QED BY <2>4, <2>5 DEF Verdict
<1> QED BY <1>1, <1>2 DEF DiagnosisInv, Cover

LEMMA ExactReport ==
    ASSUME DiagnosisInv, ExactInv, Report
    PROVE  ExactInv'
<1> DEFINE outcomes == {findings[i].outcome : i \in DOMAIN findings}
           open == Signals # {} \/ Unknowns # {}
           paper == [summary |-> Summary(outcomes, open), signals |-> Signals,
                     unknowns |-> Unknowns, end |-> Len(rels)]
<1>1. /\ ask' = ask /\ rels' = rels /\ base' = base /\ todo' = todo /\ toAssess' = toAssess
      /\ findings' = findings /\ conditions' = conditions
      /\ stage = "checks" /\ todo = << >> /\ toAssess = << >> /\ stage' = "reported"
      /\ report' = <<paper>>
  BY DEF Report, Signals
<1>2. /\ ask \in Ask /\ rels \in Seq(Relationship) /\ base \in 1..Len(rels) /\ findings \in Seq(Finding)
  BY DEF DiagnosisInv, DiagnosisTypeInv
<1>3. /\ paper.summary = Summary(outcomes, open) /\ paper.end = Len(rels)
      /\ paper.signals = Signals /\ paper.unknowns = Unknowns
  OBVIOUS
<1> HIDE DEF paper
<1>4. report'[1] = paper
  BY <1>1
<1>5. Len(rels) = base =>
         Summary(outcomes, open) = IF Verdict(rels[base]) # "ALLOW" THEN Verdict(rels[base])
                                   ELSE IF open THEN "review" ELSE "clear"
  <2> SUFFICES ASSUME Len(rels) = base
               PROVE  Summary(outcomes, open) = IF Verdict(rels[base]) # "ALLOW" THEN Verdict(rels[base])
                                                ELSE IF open THEN "review" ELSE "clear"
    OBVIOUS
  <2>1. DOMAIN findings = 1..Len(findings)
    BY <1>2
  <2>2. outcomes \in SUBSET {"ALLOW", Verdict(rels[base])}
    BY <1>1, <2>1 DEF ExactInv, Quiet
  <2>3. Verdict(rels[base]) = "ALLOW" \/ Verdict(rels[base]) \in outcomes
    BY <1>1, <2>1, VerdictFound
  <2>4. Verdict(rels[base]) \in Outcomes
    BY <1>2, VerdictType
  <2>5. open \in BOOLEAN
    OBVIOUS
  <2> HIDE DEF outcomes, open
  <2> QED BY <2>2, <2>3, <2>4, <2>5, SummaryOf
<1>6. InOrder(todo)'
  BY <1>1, OrderStays DEF ExactInv
<1>7. Quiet'
  BY <1>1 DEF ExactInv, Quiet
<1>8. Evidenced'
  BY <1>1 DEF ExactInv, Evidenced
<1>9. Summed'
  <2>1. Verdict(rels[base])' = Verdict(rels[base]) /\ Signals' = Signals /\ Unknowns' = Unknowns
    BY <1>1, SameVerdict, SameSignals
  <2>2. Returned' = Len(rels) /\ base' = base
    BY <1>1, <1>3, <1>4 DEF Returned
  <2> HIDE DEF outcomes
  <2> QED BY <1>3, <1>4, <1>5, <2>1, <2>2 DEF Summed
<1>10. (rels[1] = Built(ask.given, ask.other))'
  <2>1. rels'[1] = Built(ask'.given, ask'.other)
    BY <1>1 DEF ExactInv
  <2> QED BY <2>1
<1> QED BY <1>6, <1>7, <1>8, <1>9, <1>10 DEF ExactInv

LEMMA ExactSteps == DiagnosisInv /\ ExactInv /\ [DiagnosisNext]_diagnosisVars => ExactInv'
<1> SUFFICES ASSUME DiagnosisInv, ExactInv, [DiagnosisNext]_diagnosisVars PROVE ExactInv'
  OBVIOUS
<1>1. CASE UNCHANGED diagnosisVars
  BY <1>1, ExactIdle
<1>2. CASE Diagnose
  BY <1>2, ExactSnapshot, ExactEvaluate, ExactAssess, ExactReport DEF Diagnose
<1>3. CASE DiagnosisNext /\ ~Diagnose
  <2>1. PICK r : Grown(r)
    BY <1>3, Grows DEF DiagnosisInv, DiagnosisNext
  <2> QED BY <2>1, ExactGrown
<1> QED BY <1>1, <1>2, <1>3

LEMMA ExactInvariance == DiagnosisSpec => []ExactInv
BY ExactBegins, ExactSteps, DiagnosisInvariance, PTL DEF DiagnosisSpec

\* There is something to review exactly when the report lists a signal or an
\* unknown.
Review(r) ==
    \/ Given.host_authentication # "true" \/ Given.external_authority_current # "true"
    \/ Given.reversibility \in {"none", "false"}
    \/ \E d \in Demanded : /\ d.name = "read"
                           /\ \/ r.claims[d.claim].status = "contested"
                              \/ /\ r.claims[d.claim].status = "active"
                                 /\ r.claims[d.claim].type = "SHARED_CLAIM"
                                 /\ ~r.claims[d.claim].sourced /\ ~r.claims[d.claim].derived
    \/ Adverse # {}

LEMMA Reviewed ==
    ASSUME DiagnosisInv
    PROVE  (Signals # {} \/ Unknowns # {}) <=> Review(rels[base])
<1> DEFINE r == rels[base]
<1>1. r \in Relationship /\ Sound(r) /\ Given \in Evidence
  BY DEF DiagnosisInv, DiagnosisTypeInv, Ask, Given
<1> HIDE DEF r
<1>2. HostSignals # {} \/ Unknowns # {}
        <=> \/ Given.host_authentication # "true" \/ Given.external_authority_current # "true"
            \/ Given.reversibility \in {"none", "false"}
  <2>1. HostSignals # {} <=> \E x \in Observations : Given[x] = "false"
    BY DEF HostSignals, Observations
  <2>2. Unknowns # {} <=> \E x \in Observations : Given[x] = "none"
    BY DEF Unknowns, Observations
  <2>3. /\ Given.host_authentication \in Truth /\ Given.external_authority_current \in Truth
        /\ Given.reversibility \in Truth \union {"other"}
    BY <1>1 DEF Evidence
  <2> QED BY <2>1, <2>2, <2>3 DEF Observations, Truth
<1>3. ClaimSignals(r) # {}
        <=> \E c \in Claims : /\ InContext(c)
                              /\ \/ r.claims[c].status = "contested"
                                 \/ /\ r.claims[c].status # "none"
                                    /\ ~r.claims[c].sourced /\ ~r.claims[c].derived
  BY DEF ClaimSignals
<1>4. \A c \in Claims :
         \/ r.claims[c].status = "contested"
         \/ r.claims[c].status # "none" /\ ~r.claims[c].sourced /\ ~r.claims[c].derived
         <=> \/ r.claims[c].status = "contested"
             \/ /\ r.claims[c].status = "active" /\ r.claims[c].type = "SHARED_CLAIM"
                /\ ~r.claims[c].sourced /\ ~r.claims[c].derived
  <2> SUFFICES ASSUME NEW c \in Claims
               PROVE  \/ r.claims[c].status = "contested"
                      \/ r.claims[c].status # "none" /\ ~r.claims[c].sourced /\ ~r.claims[c].derived
                      <=> \/ r.claims[c].status = "contested"
                          \/ /\ r.claims[c].status = "active" /\ r.claims[c].type = "SHARED_CLAIM"
                             /\ ~r.claims[c].sourced /\ ~r.claims[c].derived
    OBVIOUS
  <2>1. r.claims[c].status \in Statuses
    <3>1. r.claims[c] \in Claim
      BY <1>1 DEF Relationship
    <3> QED BY <3>1 DEF Claim, Statuses
  <2> QED BY <1>1, <2>1 DEF Sound, Statuses
<1>5. \A c \in Claims : InContext(c) <=> \E d \in Demanded : d.name = "read" /\ d.claim = c
  <2>1. \A d \in Demanded : d.name = "read" => d.claim \in Claims /\ InContext(d.claim)
    BY DEF Demanded, About
  <2>2. ASSUME NEW c \in Claims, InContext(c)
        PROVE  \E d \in Demanded : d.name = "read" /\ d.claim = c
    <3>1. [name |-> "read", claim |-> c] \in Demanded
      BY <2>2 DEF Demanded
    <3> QED BY <3>1
  <2> QED BY <2>1, <2>2
<1>6. \A d \in Demanded : d.name = "read" => d.claim \in Claims
  BY DEF Demanded, About
<1>7. {<<a.condition, a.claim>> : a \in Adverse} # {} <=> Adverse # {}
  OBVIOUS
<1>8. ClaimSignals(r) # {}
        <=> \E d \in Demanded : /\ d.name = "read"
                                /\ \/ r.claims[d.claim].status = "contested"
                                   \/ /\ r.claims[d.claim].status = "active"
                                      /\ r.claims[d.claim].type = "SHARED_CLAIM"
                                      /\ ~r.claims[d.claim].sourced /\ ~r.claims[d.claim].derived
  BY <1>3, <1>4, <1>5, <1>6
<1>9. Signals # {} <=> \/ ClaimSignals(r) # {} \/ HostSignals # {}
                       \/ {<<a.condition, a.claim>> : a \in Adverse} # {}
  BY DEF Signals, r
<1> QED BY <1>2, <1>7, <1>8, <1>9 DEF Review, r

\* A report without a commit refuses as the first unsatisfied check does, else as
\* the host's engine, and is clear only with nothing to review (diagnose).
THEOREM QuietReportAlwaysExact == DiagnosisSpec => []QuietReportExact
<1>1. DiagnosisInv /\ ExactInv => QuietReportExact
  <2> SUFFICES ASSUME DiagnosisInv, ExactInv, report # << >>, Returned = base
               PROVE  report[1].summary =
                        CASE Fails("lifecycle", rels[base]) ->
                                IF rels[base].life = "DISSOLVED" THEN "BLOCK" ELSE "PAUSE"
                          [] ~Fails("lifecycle", rels[base]) /\ ask.governance \in {"ESCALATE", "DEFER"} ->
                                ask.governance
                          [] ~Fails("lifecycle", rels[base]) /\ ask.governance \in {"core", "ALLOW"} ->
                                IF Fails("participant", rels[base]) THEN "BLOCK"
                                ELSE IF Fails("consent", rels[base]) THEN "REQUIRE_CONSENT"
                                ELSE IF Fails("act", rels[base]) \/ Fails("read", rels[base]) THEN "BLOCK"
                                ELSE IF Review(rels[base]) THEN "review" ELSE "clear"
    BY DEF QuietReportExact, Fails, Review
  <2>1. report[1].summary = IF Verdict(rels[base]) # "ALLOW" THEN Verdict(rels[base])
                            ELSE IF Signals # {} \/ Unknowns # {} THEN "review" ELSE "clear"
    BY DEF ExactInv, Summed
  <2>2. ask.governance \in {"core", "ALLOW", "ESCALATE", "DEFER"}
    BY DEF DiagnosisInv, DiagnosisTypeInv, Ask
  <2>3. CASE Fails("lifecycle", rels[base])
    BY <2>1, <2>3 DEF Verdict
  <2>4. CASE ~Fails("lifecycle", rels[base]) /\ ask.governance \in {"ESCALATE", "DEFER"}
    BY <2>1, <2>4 DEF Verdict
  <2>5. CASE ~Fails("lifecycle", rels[base]) /\ ask.governance \in {"core", "ALLOW"}
    BY <2>1, <2>5, Reviewed DEF Verdict
  <2> QED BY <2>2, <2>3, <2>4, <2>5
<1> QED BY <1>1, DiagnosisInvariance, ExactInvariance, PTL

\* The rules of the rubric, by the answers they give.
LEMMA RubricIs ==
    ASSUME NEW e
    PROVE  /\ Rubric(e) \in {"EXECUTE", "REQUEST_EVIDENCE", "DEFER"}
           /\ Rubric(e) = "EXECUTE" <=> \A i \in 1..11 : ~Rules(e)[i][1]
           /\ Rubric(e) = "REQUEST_EVIDENCE" => \E i \in {1, 3, 5, 7} : Rules(e)[i][1]
<1> DEFINE hits == {i \in 1..11 : Rules(e)[i][1]}
           first == CHOOSE i \in hits : \A j \in hits : i <= j
<1>1. \A i \in 1..11 : Rules(e)[i][2] = IF i \in {1, 3, 5, 7} THEN "REQUEST_EVIDENCE" ELSE "DEFER"
  <2>1. \A i \in 1..11 : i \in {1, 2, 3, 4, 5, 6, 7, 8, 9, 10, 11}
    OBVIOUS
  <2> QED BY <2>1 DEF Rules
<1>2. Rubric(e) = IF hits = {} THEN "EXECUTE" ELSE Rules(e)[first][2]
  BY DEF Rubric
<1>3. hits # {} => first \in hits
  <2> SUFFICES ASSUME hits # {} PROVE \E i \in hits : \A j \in hits : i <= j
    OBVIOUS
  <2>1. hits \in SUBSET Nat
    OBVIOUS
  <2> HIDE DEF hits
  <2> QED BY <2>1, Least
<1>4. \A i : i \in hits <=> i \in 1..11 /\ Rules(e)[i][1]
  OBVIOUS
<1> HIDE DEF hits, first
<1>5. CASE hits = {}
  BY <1>2, <1>4, <1>5
<1>6. CASE hits # {}
  <2>1. first \in 1..11 /\ Rules(e)[first][1]
    BY <1>3, <1>4, <1>6
  <2>2. Rubric(e) = IF first \in {1, 3, 5, 7} THEN "REQUEST_EVIDENCE" ELSE "DEFER"
    BY <1>1, <1>2, <1>6, <2>1
  <2> QED BY <2>1, <2>2
<1> QED BY <1>5, <1>6

LEMMA RulesAre ==
    ASSUME NEW e
    PROVE  /\ Rules(e)[1][1] <=> e.host_authentication = "none"
           /\ Rules(e)[2][1] <=> e.host_authentication = "false"
           /\ Rules(e)[3][1] <=> e.external_authority_current = "none"
           /\ Rules(e)[4][1] <=> e.external_authority_current = "false"
           /\ Rules(e)[5][1] <=> e.reversibility = "none"
           /\ Rules(e)[6][1] <=> e.reversibility = "false"
           /\ Rules(e)[7][1] <=> e.claim_status = "contested"
           /\ Rules(e)[8][1] <=> e.lifecycle = "RESTING"
           /\ Rules(e)[9][1] <=> e.permission_state # "active"
           /\ Rules(e)[10][1] <=> (e.required_purpose # NoPurpose
                                   /\ e.permission_purpose \notin {NoPurpose, e.required_purpose})
           /\ Rules(e)[11][1] <=> (e.consent_required /\ e.consent_state # "active")
BY DEF Rules

\* Without the host's own claim only the claim of the scenario is in the context.
LEMMA ScenarioContext ==
    ASSUME ~ask.other
    PROVE  \A c \in Claims : InContext(c) <=> c = Primary /\ Given.claim_status # "none"
<1>1. Given.claim_status # "none" => Requested = <<Primary>> \o << >>
  BY DEF Requested, Where
<1>2. Given.claim_status = "none" => Requested = << >> \o << >>
  BY DEF Requested, Where
<1>3. <<Primary>> \o << >> = <<Primary>> /\ << >> \o << >> = << >>
  OBVIOUS
<1>4. DOMAIN <<Primary>> = {1} /\ <<Primary>>[1] = Primary /\ DOMAIN << >> = {}
  OBVIOUS
<1> QED BY <1>1, <1>2, <1>3, <1>4 DEF InContext

\* The relationship of a scenario without the host's own claim: what the checks
\* and the review ask of it, in the words of the scenario.
LEMMA ScenarioVerdict ==
    ASSUME ask \in Ask, ask.participant, ~ask.other, ask.governance = "core",
           NEW r, r = Built(ask.given, ask.other)
    PROVE  Verdict(r) = "ALLOW" <=>
             /\ Given.lifecycle # "RESTING" /\ Given.permission_state = "active"
             /\ Given.permission_purpose \in {NoPurpose, Given.required_purpose}
             /\ Given.consent_required => Given.consent_state = "active"
<1>1. /\ Given = ask.given /\ Given \in Evidence /\ Given.consent_required \in BOOLEAN
      /\ Given.lifecycle \in {"FORMING", "ACTIVE", "RESTING"}
  BY DEF Given, Ask, Evidence
<1>2. /\ r.life = Given.lifecycle /\ r.act = Given.permission_state
      /\ r.purpose = Given.permission_purpose
      /\ r.consent = "active" <=> Given.consent_required /\ Given.consent_state = "active"
      /\ r.read = {c \in Claims : IF c = Primary THEN Given.claim_status # "none" ELSE FALSE}
  BY <1>1 DEF Built
<1>3. \A c \in Claims : InContext(c) => c = Primary /\ Given.claim_status # "none"
  BY ScenarioContext
<1>4. ~Fails("read", r) \/ r.life = "DISSOLVED"
  <2>1. \A c \in Claims : InContext(c) => c \in r.read
    BY <1>2, <1>3
  <2> QED BY <2>1, FailsIs DEF Satisfied
<1>5. r.life # "DISSOLVED" /\ (r.life \in Working <=> Given.lifecycle # "RESTING")
  BY <1>1, <1>2 DEF Working
<1>6. Fails("lifecycle", r) <=> Given.lifecycle = "RESTING"
  BY <1>5, FailsIs
<1>7. ~Fails("participant", r)
  BY FailsIs
<1>8. Fails("consent", r) <=> Given.consent_required /\ Given.consent_state # "active"
  BY <1>2, FailsIs
<1>9. Fails("act", r) <=> ~ /\ Given.lifecycle # "RESTING" /\ Given.permission_state = "active"
                            /\ Given.permission_purpose \in {NoPurpose, Given.required_purpose}
  <2>1. Satisfied("act", NoClaim, r) <=> /\ r.life \in Working /\ r.act = "active"
                                         /\ r.purpose # NoPurpose => r.purpose = Given.required_purpose
    BY DEF Satisfied
  <2> QED BY <1>2, <1>5, <2>1, FailsIs
<1> QED BY <1>1, <1>4, <1>5, <1>6, <1>7, <1>8, <1>9 DEF Verdict

LEMMA ScenarioReview ==
    ASSUME ask \in Ask, ~ask.other, NEW r, r = Built(ask.given, ask.other), Adverse = {}
    PROVE  Review(r) <=> \/ Given.host_authentication # "true" \/ Given.external_authority_current # "true"
                         \/ Given.reversibility \in {"none", "false"}
                         \/ Given.claim_status = "contested"
<1>1. Given = ask.given /\ Given \in Evidence
  BY DEF Given, Ask
<1>2. /\ Primary \in Claims /\ r.claims[Primary].status = Given.claim_status
      /\ r.claims[Primary].type = "INTERPRETATION"
  BY <1>1, DiagnosisAssumption DEF Built, Claims
<1>3. InContext(Primary) <=> Given.claim_status # "none"
  BY <1>2, ScenarioContext
<1>4. ~InContext(Other)
  BY DiagnosisAssumption, ScenarioContext DEF Claims
<1>5. \A d \in Demanded : d.name = "read" => d.claim = Primary /\ Given.claim_status # "none"
  <2>1. \A d \in Demanded : d.name = "read" => d.claim \in Claims /\ InContext(d.claim)
    BY DEF Demanded, About
  <2> QED BY <2>1, <1>3, <1>4 DEF Claims
<1>6. Given.claim_status # "none" => \E d \in Demanded : d.name = "read" /\ d.claim = Primary
  <2> SUFFICES ASSUME Given.claim_status # "none"
               PROVE  \E d \in Demanded : d.name = "read" /\ d.claim = Primary
    OBVIOUS
  <2>1. [name |-> "read", claim |-> Primary] \in Demanded
    BY <1>2, <1>3 DEF Demanded
  <2> QED BY <2>1
<1>7. (\E d \in Demanded : /\ d.name = "read"
                           /\ \/ r.claims[d.claim].status = "contested"
                              \/ /\ r.claims[d.claim].status = "active"
                                 /\ r.claims[d.claim].type = "SHARED_CLAIM"
                                 /\ ~r.claims[d.claim].sourced /\ ~r.claims[d.claim].derived)
        <=> Given.claim_status = "contested"
  BY <1>2, <1>5, <1>6
<1> QED BY <1>7 DEF Review

\* The rubric of the experiment and the report given to an agent agree on every
\* scenario: on when to execute, outside the gap of the purpose, and on what to
\* ask evidence for (rubric_decision, diagnose).
THEOREM RubricAlwaysAgrees == DiagnosisSpec => []RubricAgrees
<1>1. DiagnosisInv /\ ExactInv => RubricAgrees
  <2> SUFFICES ASSUME DiagnosisInv, ExactInv, report # << >>, Returned = 1,
                      ask.participant, ~ask.other, ask.governance = "core",
                      \A c \in Claims : ask.integrity[c] = {},
                      Given.reversibility # "other"
               PROVE  /\ ~PurposeGap(Given) => (Rubric(Given) = "EXECUTE" <=> report[1].summary = "clear")
                      /\ Rubric(Given) = "REQUEST_EVIDENCE" =>
                            \/ report[1].unknowns # {}
                            \/ <<"contested_claim_in_context", Primary>> \in report[1].signals
    BY DEF RubricAgrees
  <2>1. /\ ask \in Ask /\ conditions \in Seq(Assessment)
        /\ base \in 1..Len(rels) /\ report[1].end \in base..Len(rels)
    BY DEF DiagnosisInv, DiagnosisTypeInv
  <2>2. base = 1
    BY <2>1 DEF Returned
  <2> DEFINE r == rels[1]
  <2>3. r = Built(ask.given, ask.other)
    BY DEF ExactInv
  <2>4. Adverse = {}
    <3>1. \A i \in 1..Len(conditions) : FALSE
      <4> SUFFICES ASSUME NEW i \in 1..Len(conditions) PROVE FALSE
        OBVIOUS
      <4>1. conditions[i] \in Assessment
        BY <2>1
      <4>2. conditions[i].claim \in Claims
        BY <4>1 DEF Assessment
      <4> QED BY <4>2 DEF ExactInv, Evidenced
    <3>2. DOMAIN conditions = 1..Len(conditions)
      BY <2>1
    <3> QED BY <3>1, <3>2 DEF Adverse
  <2>5. /\ report[1].summary = IF Verdict(r) # "ALLOW" THEN Verdict(r)
                               ELSE IF Signals # {} \/ Unknowns # {} THEN "review" ELSE "clear"
        /\ report[1].signals = Signals /\ report[1].unknowns = Unknowns
    BY <2>2 DEF ExactInv, Summed
  <2>6. (Signals # {} \/ Unknowns # {}) <=> Review(r)
    BY <2>2, Reviewed
  <2>7. Verdict(r) # "clear"
    BY <2>1, VerdictType DEF Outcomes
  <2>8. report[1].summary = "clear" <=> Verdict(r) = "ALLOW" /\ ~Review(r)
    BY <2>5, <2>6, <2>7
  <2> HIDE DEF r
  <2>9. Verdict(r) = "ALLOW" <=>
             /\ Given.lifecycle # "RESTING" /\ Given.permission_state = "active"
             /\ Given.permission_purpose \in {NoPurpose, Given.required_purpose}
             /\ Given.consent_required => Given.consent_state = "active"
    BY <2>1, <2>3, ScenarioVerdict
  <2>10. Review(r) <=> \/ Given.host_authentication # "true" \/ Given.external_authority_current # "true"
                       \/ Given.reversibility \in {"none", "false"}
                       \/ Given.claim_status = "contested"
    BY <2>1, <2>3, <2>4, ScenarioReview
  <2>11. Given \in Evidence
    BY <2>1 DEF Ask, Given
  <2>12. ASSUME ~PurposeGap(Given)
         PROVE  Rubric(Given) = "EXECUTE" <=> report[1].summary = "clear"
    <3>1. Rubric(Given) = "EXECUTE" <=> \A i \in 1..11 : ~Rules(Given)[i][1]
      BY RubricIs
    <3>2. (\A i \in 1..11 : ~Rules(Given)[i][1]) <=>
             /\ ~Rules(Given)[1][1] /\ ~Rules(Given)[2][1] /\ ~Rules(Given)[3][1] /\ ~Rules(Given)[4][1]
             /\ ~Rules(Given)[5][1] /\ ~Rules(Given)[6][1] /\ ~Rules(Given)[7][1] /\ ~Rules(Given)[8][1]
             /\ ~Rules(Given)[9][1] /\ ~Rules(Given)[10][1] /\ ~Rules(Given)[11][1]
      <4>1. \A i \in 1..11 : i \in {1, 2, 3, 4, 5, 6, 7, 8, 9, 10, 11}
        OBVIOUS
      <4> QED BY <4>1
    <3>3. /\ Given.host_authentication \in Truth /\ Given.external_authority_current \in Truth
          /\ Given.reversibility \in Truth \union {"other"}
      BY <2>11 DEF Evidence
    <3>4. Given.permission_purpose \in {NoPurpose, Given.required_purpose}
            <=> ~(Given.required_purpose # NoPurpose
                  /\ Given.permission_purpose \notin {NoPurpose, Given.required_purpose})
      BY <2>12 DEF PurposeGap
    <3> QED BY <3>1, <3>2, <3>3, <3>4, <2>8, <2>9, <2>10, RulesAre DEF Truth
  <2>13. ASSUME Rubric(Given) = "REQUEST_EVIDENCE"
         PROVE  \/ report[1].unknowns # {}
                \/ <<"contested_claim_in_context", Primary>> \in report[1].signals
    <3>1. \/ Given.host_authentication = "none" \/ Given.external_authority_current = "none"
          \/ Given.reversibility = "none" \/ Given.claim_status = "contested"
      <4>1. \E i \in {1, 3, 5, 7} : Rules(Given)[i][1]
        BY <2>13, RubricIs
      <4> QED BY <4>1, RulesAre
    <3>2. ASSUME NEW x \in Observations, Given[x] = "none"
          PROVE  report[1].unknowns # {}
      <4>1. x \in Unknowns
        BY <3>2 DEF Unknowns, Observations
      <4> QED BY <4>1, <2>5
    <3>3. ASSUME Given.claim_status = "contested"
          PROVE  <<"contested_claim_in_context", Primary>> \in report[1].signals
      <4>1. Primary \in Claims
        BY DEF Claims
      <4>2. InContext(Primary)
        BY <3>3, <4>1, ScenarioContext
      <4>3. rels[base].claims[Primary].status = "contested"
        <5>1. r.claims[Primary].status = Given.claim_status
          BY <2>3, <4>1, DiagnosisAssumption DEF Built, Given
        <5> QED BY <5>1, <2>2, <3>3 DEF r
      <4>4. <<"contested_claim_in_context", Primary>> \in ClaimSignals(rels[base])
        BY <4>1, <4>2, <4>3 DEF ClaimSignals
      <4> QED BY <4>4, <2>5 DEF Signals
    <3> QED BY <3>1, <3>2, <3>3 DEF Observations
  <2> QED BY <2>12, <2>13
<1> QED BY <1>1, DiagnosisInvariance, ExactInvariance, PTL

-----------------------------------------------------------------------------
\* The host: three components that share no state.

\* At the start every component is at its own start.
LEMMA HostBegins == HostInit => SessionInit /\ PilotInit /\ DiagnosisInit
BY DEF HostInit

\* A step is a step of the component in focus, and a stutter of the others.
LEMMA HostSteps ==
    [HostNext]_hostVars =>
        [SessionNext]_sessionVars /\ [PilotNext]_pilotVars /\ [DiagnosisNext]_diagnosisVars
<1> SUFFICES ASSUME [HostNext]_hostVars
             PROVE  [SessionNext]_sessionVars /\ [PilotNext]_pilotVars /\ [DiagnosisNext]_diagnosisVars
    OBVIOUS
<1>1. CASE SessionFocus(SessionNext)  BY <1>1 DEF SessionFocus
<1>2. CASE PilotFocus(PilotNext)  BY <1>2 DEF PilotFocus
<1>3. CASE DiagnosisFocus(DiagnosisNext)  BY <1>3 DEF DiagnosisFocus
<1>4. CASE UNCHANGED hostVars  BY <1>4 DEF hostVars
<1> QED  BY <1>1, <1>2, <1>3, <1>4 DEF HostNext

\* A host's behaviour is one of each of its components, so that what is proved of
\* a component holds in the host the run checks.
THEOREM HostImplementsParts == HostSpec => SessionSpec /\ PilotSpec /\ DiagnosisSpec
BY HostBegins, HostSteps, PTL DEF HostSpec, SessionSpec, PilotSpec, DiagnosisSpec

\* The variables of the three components keep their types.
THEOREM HostTypeCorrect == HostSpec => []TypeOK
<1>1. SessionTypeOK /\ PilotTypeOK /\ DiagnosisTypeOK => TypeOK  BY DEF TypeOK
<1> QED  BY <1>1, HostImplementsParts, SessionTypeCorrect, PilotTypeCorrect, DiagnosisTypeCorrect, PTL

==============================================================================
