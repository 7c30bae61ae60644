---------------------------- MODULE SqliteSession ----------------------------
(***************************************************************************)
(* Who may use one SQLite file (store.py: _Session, SQLiteEventStore).     *)
(* The stores of a process share one session: a connection, a lock for     *)
(* writes and execution, a reference count and a flock on a file beside    *)
(* the database.  A registry under a lock of its own finds the session.    *)
(* Processes end at any moment, and fork while their threads run.          *)
(*                                                                         *)
(* What a store does under its guard is module EventStore; here a guard is *)
(* entered, possibly nested, and left.  The flock belongs to the open file *)
(* a session holds: it is held as long as some process has it open, and a  *)
(* forked child has what its parent had.                                   *)
(***************************************************************************)
EXTENDS Naturals, Sequences, FiniteSets

CONSTANTS
    Processes,
    First,          \* the process that exists at the start
    Threads,
    ProcessOf,      \* the process of each thread
    Stores,         \* the SQLiteEventStore objects that may be constructed
    NoThread,       \* a lock is free
    Gone,           \* a lock is held by a thread that was not forked
    MaxSessionCalls,\* bound on the calls of open, close and execution_guard
    MaxDepth        \* bound on the guards one thread nests

ASSUME SessionAssumption ==
    /\ First \in Processes
    /\ ProcessOf \in [Threads -> Processes]
    /\ NoThread \notin Threads /\ Gone \notin Threads /\ NoThread # Gone
    /\ Stores # {}
    /\ MaxSessionCalls \in Nat /\ MaxDepth \in Nat

VARIABLES
    life,           \* of each process
    registry,       \* holder of each process's _registry_lock
    registered,     \* each process's _sessions.get(path)
    session,        \* the sessions created, in that order
    store,          \* state and session of each store
    inherited,      \* the open stores each process was forked with
    guards,         \* the stores whose guards each thread is in, outermost first
    at,             \* where each thread is in open, close or execution_guard
    arg,            \* the store it is called on
    opened          \* number of calls

sessionVars == <<life, registry, registered, session, store, inherited, guards, at, arg, opened>>

NoSession == 0      \* the registry has no session for the path
Session == [pid : Processes, refs : Nat, conn : BOOLEAN, fds : SUBSET Processes]
SomeStore == CHOOSE s \in Stores : TRUE

-----------------------------------------------------------------------------

Pid(t) == ProcessOf[t]
SessionOf(s) == session[store[s].session]
Constructed(p, s) ==
    store[s].state # "new" /\ (SessionOf(s).pid = p \/ s \in inherited[p])

\* _check does not raise.
Check(t, s) == store[s].state = "open" /\ SessionOf(s).pid = Pid(t)

InGuardOf(t, i) == \E k \in DOMAIN guards[t] : store[guards[t][k]].session = i

\* The session's RLock is free or the thread's own.
CanLockSession(t, s) == \A u \in Threads \ {t} : ~InGuardOf(u, store[s].session)

Alive(t) == life[Pid(t)] = "alive"
Step(t, from, to) == Alive(t) /\ at[t] = from /\ at' = [at EXCEPT ![t] = to]
RegistryFree(t) == registry[Pid(t)] = NoThread
Locked == \E i \in DOMAIN session : session[i].fds # {}

Call(t, s, to) ==
    /\ Step(t, "idle", to)
    /\ opened < MaxSessionCalls
    /\ opened' = opened + 1
    /\ arg' = [arg EXCEPT ![t] = s]
    /\ UNCHANGED <<life, registry, registered, session, store, inherited, guards>>

SessionInit ==
    /\ life = [p \in Processes |-> IF p = First THEN "alive" ELSE "unborn"]
    /\ registry = [p \in Processes |-> NoThread]
    /\ registered = [p \in Processes |-> NoSession]
    /\ session = << >>
    /\ store = [s \in Stores |-> [state |-> "new", session |-> NoSession]]
    /\ inherited = [p \in Processes |-> {}]
    /\ guards = [t \in Threads |-> << >>]
    /\ at = [t \in Threads |-> "idle"]
    /\ arg = [t \in Threads |-> SomeStore]
    /\ opened = 0

-----------------------------------------------------------------------------
\* SQLiteEventStore(path)

CallOpen(t, s) ==
    /\ store[s].state = "new"
    /\ \A u \in Threads : at[u] \in {"open", "connect"} => arg[u] # s
    /\ Call(t, s, "open")

\* Mutant: an instance that finds the session does not count itself.
OpenSharedUncounted(t) ==
    LET i == registered[Pid(t)] IN
    /\ Step(t, "open", "idle")
    /\ RegistryFree(t)
    /\ i # NoSession /\ session[i].pid = Pid(t)
    /\ store' = [store EXCEPT ![arg[t]] = [state |-> "open", session |-> i]]
    /\ UNCHANGED <<life, registry, registered, session, inherited, guards, arg, opened>>

OpenShared(t) ==
    LET i == registered[Pid(t)] IN
    /\ Step(t, "open", "idle")
    /\ RegistryFree(t)
    /\ i # NoSession /\ session[i].pid = Pid(t)
    /\ session' = [session EXCEPT ![i].refs = @ + 1]
    /\ store' = [store EXCEPT ![arg[t]] = [state |-> "open", session |-> i]]
    /\ UNCHANGED <<life, registry, registered, inherited, guards, arg, opened>>

\* PersistenceError: the registry is a parent's, or another process has the file.
OpenRefused(t) ==
    /\ Step(t, "open", "idle")
    /\ RegistryFree(t)
    /\ IF registered[Pid(t)] = NoSession THEN Locked
                                         ELSE session[registered[Pid(t)]].pid # Pid(t)
    /\ UNCHANGED <<life, registry, registered, session, store, inherited, guards, arg, opened>>

\* _Session(path): flock(LOCK_EX | LOCK_NB), with the registry lock held.
LockFile(t) ==
    /\ Step(t, "open", "connect")
    /\ RegistryFree(t)
    /\ registered[Pid(t)] = NoSession
    /\ ~Locked
    /\ registry' = [registry EXCEPT ![Pid(t)] = t]
    /\ session' = Append(session, [pid |-> Pid(t), refs |-> 0, conn |-> FALSE, fds |-> {Pid(t)}])
    /\ UNCHANGED <<life, registered, store, inherited, guards, arg, opened>>

\* The session a thread is creating is the last one of its process.
Creating(t) == CHOOSE i \in DOMAIN session : /\ session[i].pid = Pid(t)
                                             /\ \A j \in DOMAIN session :
                                                   session[j].pid = Pid(t) => j <= i

Connect(t) ==
    LET i == Creating(t) IN
    /\ Step(t, "connect", "idle")
    /\ session' = [session EXCEPT ![i].conn = TRUE, ![i].refs = 1]
    /\ registered' = [registered EXCEPT ![Pid(t)] = i]
    /\ store' = [store EXCEPT ![arg[t]] = [state |-> "open", session |-> i]]
    /\ registry' = [registry EXCEPT ![Pid(t)] = NoThread]
    /\ UNCHANGED <<life, inherited, guards, arg, opened>>

\* The file is no database or cannot be written: its lock is released again.
ConnectFails(t) ==
    /\ Step(t, "connect", "idle")
    /\ session' = [session EXCEPT ![Creating(t)].fds = @ \ {Pid(t)}]
    /\ registry' = [registry EXCEPT ![Pid(t)] = NoThread]
    /\ UNCHANGED <<life, registered, store, inherited, guards, arg, opened>>

-----------------------------------------------------------------------------
\* close()

CallClose(t, s) == Constructed(Pid(t), s) /\ Call(t, s, "close")

\* Mutant: the registry lock is kept when there is nothing to close.
CloseNothingLocked(t) ==
    /\ Step(t, "close", "idle")
    /\ RegistryFree(t)
    /\ ~Check(t, arg[t])
    /\ registry' = [registry EXCEPT ![Pid(t)] = t]
    /\ UNCHANGED <<life, registered, session, store, inherited, guards, arg, opened>>

\* The store is closed already, or _check raises.
CloseNothing(t) ==
    /\ Step(t, "close", "idle")
    /\ RegistryFree(t)
    /\ ~Check(t, arg[t])
    /\ UNCHANGED <<life, registry, registered, session, store, inherited, guards, arg, opened>>

\* The registry lock is held while the session's lock is waited for.
CloseBegin(t) ==
    /\ Step(t, "close", "closing")
    /\ RegistryFree(t)
    /\ Check(t, arg[t])
    /\ registry' = [registry EXCEPT ![Pid(t)] = t]
    /\ UNCHANGED <<life, registered, session, store, inherited, guards, arg, opened>>

\* Mutant: the session is closed without waiting for its lock.
CloseUnlocked(t) ==
    LET s == arg[t]
        i == store[s].session
        last == session[i].refs = 1
    IN
    /\ Step(t, "closing", "idle")
    /\ store' = [store EXCEPT ![s].state = "closed"]
    /\ session' = [session EXCEPT ![i].refs = @ - 1, ![i].conn = @ /\ ~last,
                                  ![i].fds = IF last THEN @ \ {Pid(t)} ELSE @]
    /\ registered' = IF last THEN [registered EXCEPT ![Pid(t)] = NoSession] ELSE registered
    /\ registry' = [registry EXCEPT ![Pid(t)] = NoThread]
    /\ UNCHANGED <<life, inherited, guards, arg, opened>>

CloseEnd(t) ==
    LET s == arg[t]
        i == store[s].session
        last == session[i].refs = 1
    IN
    /\ Step(t, "closing", "idle")
    /\ CanLockSession(t, s)
    /\ store' = [store EXCEPT ![s].state = "closed"]
    /\ session' = [session EXCEPT ![i].refs = @ - 1, ![i].conn = @ /\ ~last,
                                  ![i].fds = IF last THEN @ \ {Pid(t)} ELSE @]
    /\ registered' = IF last THEN [registered EXCEPT ![Pid(t)] = NoSession] ELSE registered
    /\ registry' = [registry EXCEPT ![Pid(t)] = NoThread]
    /\ UNCHANGED <<life, inherited, guards, arg, opened>>

-----------------------------------------------------------------------------
\* with store.execution_guard(): ...

CallGuard(t, s) ==
    /\ Constructed(Pid(t), s) /\ Check(t, s)
    /\ Len(guards[t]) < MaxDepth
    /\ Call(t, s, "guard")

\* _check is repeated under the lock.
Enter(t) ==
    /\ Step(t, "guard", "idle")
    /\ CanLockSession(t, arg[t])
    /\ guards' = IF Check(t, arg[t]) THEN [guards EXCEPT ![t] = Append(@, arg[t])] ELSE guards
    /\ UNCHANGED <<life, registry, registered, session, store, inherited, arg, opened>>

Leave(t) ==
    /\ Step(t, "idle", "idle")
    /\ guards[t] # << >>
    /\ guards' = [guards EXCEPT ![t] = SubSeq(@, 1, Len(@) - 1)]
    /\ UNCHANGED <<life, registry, registered, session, store, inherited, arg, opened>>

-----------------------------------------------------------------------------
\* Processes

Spawn(p) ==
    /\ life[p] = "unborn"
    /\ life' = [life EXCEPT ![p] = "alive"]
    /\ UNCHANGED <<registry, registered, session, store, inherited, guards, at, arg, opened>>

\* The child has a copy of the memory, of the locks that other threads hold,
\* and of the files, but only the thread that forked.
Fork(t, c) ==
    LET p == Pid(t) IN
    /\ Step(t, "idle", "idle")
    /\ life[c] = "unborn"
    /\ life' = [life EXCEPT ![c] = "alive"]
    /\ registered' = [registered EXCEPT ![c] = registered[p]]
    /\ registry' = [registry EXCEPT ![c] = IF RegistryFree(t) THEN NoThread ELSE Gone]
    /\ inherited' = [inherited EXCEPT ![c] = {s \in Stores : Constructed(p, s)}]
    /\ session' = [i \in DOMAIN session |-> IF p \in session[i].fds
                        THEN [session[i] EXCEPT !.fds = @ \union {c}] ELSE session[i]]
    /\ UNCHANGED <<store, guards, arg, opened>>

\* A process ends, by itself or by a crash, and its files are closed.
End(p) ==
    /\ life[p] = "alive"
    /\ life' = [life EXCEPT ![p] = "ended"]
    /\ session' = [i \in DOMAIN session |->
                       [session[i] EXCEPT !.fds = @ \ {p}, !.conn = @ /\ session[i].pid # p]]
    /\ guards' = [t \in Threads |-> IF Pid(t) = p THEN << >> ELSE guards[t]]
    /\ at' = [t \in Threads |-> IF Pid(t) = p THEN "idle" ELSE at[t]]
    /\ UNCHANGED <<registry, registered, store, inherited, arg, opened>>

Proceed(t) ==
    \/ OpenShared(t) \/ OpenRefused(t) \/ LockFile(t) \/ Connect(t) \/ ConnectFails(t)
    \/ CloseNothing(t) \/ CloseBegin(t) \/ CloseEnd(t)
    \/ Enter(t) \/ Leave(t)

SessionNext ==
    \/ \E t \in Threads :
          \/ \E s \in Stores : CallOpen(t, s) \/ CallClose(t, s) \/ CallGuard(t, s)
          \/ Proceed(t)
          \/ \E c \in Processes : Fork(t, c)
    \/ \E p \in Processes : Spawn(p) \/ End(p)

SessionSpec == SessionInit /\ [][SessionNext]_sessionVars

-----------------------------------------------------------------------------

\* The type invariant.
SessionTypeOK ==
    /\ life \in [Processes -> {"unborn", "alive", "ended"}]
    /\ registry \in [Processes -> Threads \union {NoThread, Gone}]
    /\ registered \in [Processes -> Nat]
    /\ session \in Seq(Session)
    /\ store \in [Stores -> [state : {"new", "open", "closed"},
                             session : Nat]]
    /\ inherited \in [Processes -> SUBSET Stores]
    /\ guards \in [Threads -> Seq(Stores)]
    /\ at \in [Threads -> {"idle", "open", "connect", "close", "closing", "guard"}]
    /\ arg \in [Threads -> Stores]
    /\ opened \in Nat

Running(s) == store[s].state = "open" /\ life[SessionOf(s).pid] = "alive"
OpenIn(i) == {s \in Stores : store[s].state = "open" /\ store[s].session = i}

\* "One owning process per canonical database path is enforced ... for the
\* lifetime of all open SDK instances" (persistence.md): the open stores of all
\* processes have one session, with its connection open and the file locked.
OneOwner ==
    /\ \A r, s \in Stores : Running(r) /\ Running(s) => store[r].session = store[s].session
    /\ \A s \in Stores : Running(s) =>
          /\ SessionOf(s).conn /\ SessionOf(s).pid \in SessionOf(s).fds
          /\ registered[SessionOf(s).pid] = store[s].session

\* The reference count of a session is the number of its open stores, so its
\* last close, and no earlier one, closes the connection and the lock.
RefsCounted ==
    \A i \in DOMAIN session : life[session[i].pid] = "alive" =>
        /\ session[i].refs = Cardinality(OpenIn(i))
        /\ session[i].conn <=> OpenIn(i) # {}

\* "Close every store or use context managers to release ownership": a process
\* has the lock only for a store it has open, for one it is opening, or because
\* it was forked.
LockReleased ==
    \A i \in DOMAIN session : LET p == session[i].pid IN
        p \in session[i].fds =>
            \/ OpenIn(i) # {}
            \/ \E t \in Threads : Pid(t) = p /\ at[t] = "connect" /\ registry[p] = t

\* No two threads, of one process or of two, are in the guards of open stores
\* of the file at a time; none is in the guard of a store it was forked with.
GuardExclusive ==
    \A t, u \in Threads : \A k \in DOMAIN guards[t], l \in DOMAIN guards[u] :
        /\ SessionOf(guards[t][k]).pid = Pid(t)
        /\ Running(guards[t][k]) /\ Running(guards[u][l]) => t = u

\* The file has one owner at a time, which has it as long as it has a store open
\* and no longer, and one thread at a time in a guard.
Ownership == OneOwner /\ RefsCounted /\ LockReleased /\ GuardExclusive

\* A store is closed under a guard only by the thread that is in it.
GuardedStoreStays ==
    [][\A t \in Threads, s \in Stores :
          /\ \E k \in DOMAIN guards[t] : guards[t][k] = s
          /\ Running(s) /\ ~Running(s)' /\ life'[Pid(t)] = "alive"
          => at[t] = "closing" /\ arg[t] = s]_sessionVars

\* close() holds the registry lock and waits for the guard of a thread that
\* waits for the registry lock.
Deadlocked(p) ==
    \E t, u \in Threads :
        /\ Pid(t) = p /\ Pid(u) = p /\ t # u
        /\ at[t] = "closing" /\ registry[p] = t
        /\ InGuardOf(u, store[arg[t]].session) /\ at[u] \in {"open", "close"}

\* Every call returns, unless its process ends, is deadlocked because a store is
\* opened or closed inside a guard, or was forked while its registry was locked.
CallsReturn ==
    \A t \in Threads :
        at[t] # "idle" ~> \/ at[t] = "idle"
                          \/ Deadlocked(Pid(t))
                          \/ registry[Pid(t)] = Gone

=============================================================================
