----------------------------- MODULE EventStore -----------------------------
(***************************************************************************)
(* The event store shared by the threads of the owning process             *)
(* (store.py) and the optimistic commit every relationship operation ends  *)
(* in (core.py, Relationship._commit).  A commit reads the head, reads the *)
(* actor's sequence, builds an event and appends it; each of the three     *)
(* takes the store's reentrant lock on its own.  An append validates the   *)
(* batch against the stored history, inserts its rows in one transaction   *)
(* and commits.  The threads share one database connection, so a read      *)
(* would see the rows of an open transaction: only the lock hides them.    *)
(*                                                                         *)
(* An event keeps what the validation looks at.  Its hash covers its whole *)
(* content, so prev holds the identifier of the predecessor for the hash   *)
(* of the predecessor; 0 is None.                                          *)
(***************************************************************************)
EXTENDS Naturals, Sequences

CONSTANTS
    Threads,        \* threads of the owning process
    Relationships,
    Actors,
    NoThread,       \* the lock is free
    MaxIds,         \* bound on the events ever built
    MaxDepth        \* bound on the nesting of the lock

ASSUME StoreAssumption ==
    /\ NoThread \notin Threads
    /\ Relationships # {} /\ Actors # {}
    /\ MaxIds \in Nat
    /\ MaxDepth \in Nat

VARIABLES
    log,            \* [Relationships -> Seq(Event)], the committed rows
    rows,           \* [Relationships -> Seq(Event)], rows of the open transaction
    owner, depth,   \* the store's RLock: its holder and nesting
    pc,             \* where each thread is in its current call
    draft,          \* the EventProposal of a thread's _commit and the head it read
    batch,          \* the events a thread appends, grouped by relationship
    nextId,         \* source of fresh event identifiers (uuid4)
    acknowledged    \* identifiers of the events whose append returned

vars == <<log, rows, owner, depth, pc, draft, batch, nextId, acknowledged>>

Event == [id : Nat \ {0}, actor : Actors, seq : Nat \ {0}, prev : Nat]
Draft == [rel : Relationships, actor : Actors, prior : Nat]
Batch == [Relationships -> Seq(Event)]
NoEvents == [r \in Relationships |-> << >>]

NoDraft == [rel |-> CHOOSE r \in Relationships : TRUE,
            actor |-> CHOOSE a \in Actors : TRUE, prior |-> 0]

HeadId(h) == IF h = << >> THEN 0 ELSE h[Len(h)].id
Ids(h) == {h[i].id : i \in 1..Len(h)}
AllIds(hs) == UNION {Ids(hs[r]) : r \in Relationships}

\* n = 1 + max((e.actor_sequence ...), default=0) over the first k events of h.
IsNextSequence(h, k, a, n) ==
    LET ofActor == {i \in 1..k : h[i].actor = a}
    IN  /\ \A i \in ofActor : h[i].seq < n
        /\ n = 1 \/ \E i \in ofActor : h[i].seq = n - 1

\* What _validate_append asks of the event at position j of a history.
Fits(h, j) ==
    /\ h[j].prev = (IF j = 1 THEN 0 ELSE h[j - 1].id)
    /\ IsNextSequence(h, j - 1, h[j].actor, h[j].seq)
    /\ \A i \in 1..(j - 1) : h[i].id # h[j].id

\* The rows a read through the shared connection returns.
Stored(r) == log[r] \o rows[r]

\* Mutant: only the first event of each group is validated.
AppendableFirst(b) ==
    \A r \in Relationships :
        b[r] # << >> => Fits(Stored(r) \o b[r], Len(Stored(r)) + 1)

Appendable(b) ==
    \A r \in Relationships :
        LET h == Stored(r) \o b[r]
        IN  \A j \in (Len(Stored(r)) + 1)..Len(h) : Fits(h, j)

\* Mutant: nobody is excluded.
LockOfAnyone(t) == owner \in Threads \union {NoThread}

CanLock(t) == owner \in {NoThread, t}

Lock(t) ==
    /\ CanLock(t)
    /\ owner' = t
    /\ depth' = depth + 1

Unlock ==
    /\ owner' = IF depth = 1 THEN NoThread ELSE owner
    /\ depth' = depth - 1

Goto(t, from, to) ==
    /\ pc[t] = from
    /\ pc' = [pc EXCEPT ![t] = to]

-----------------------------------------------------------------------------

Init ==
    /\ log = NoEvents
    /\ rows = NoEvents
    /\ owner = NoThread
    /\ depth = 0
    /\ pc = [t \in Threads |-> "idle"]
    /\ draft = [t \in Threads |-> NoDraft]
    /\ batch = [t \in Threads |-> NoEvents]
    /\ nextId = 1
    /\ acknowledged = {}

\* A relationship operation reaches _commit.
StartCommit(t, r, a) ==
    /\ Goto(t, "idle", "head")
    /\ draft' = [draft EXCEPT ![t] = [rel |-> r, actor |-> a, prior |-> 0]]
    /\ UNCHANGED <<log, rows, owner, depth, batch, nextId, acknowledged>>

\* prior = self.events[-1].event_hash if self.events else None
ReadHead(t) ==
    /\ Goto(t, "head", "seq")
    /\ CanLock(t)
    /\ draft' = [draft EXCEPT ![t].prior = HeadId(Stored(draft[t].rel))]
    /\ UNCHANGED <<log, rows, owner, depth, batch, nextId, acknowledged>>

\* Mutant: the sequence is read without the lock.
ReadSequenceUnlocked(t) ==
    LET d == draft[t]
        h == Stored(d.rel)
    IN  /\ Goto(t, "seq", "append")
        /\ nextId <= MaxIds
        /\ \E n \in 1..(Len(h) + 1) :
              /\ IsNextSequence(h, Len(h), d.actor, n)
              /\ batch' = [batch EXCEPT ![t] = [NoEvents EXCEPT ![d.rel] =
                    <<[id |-> nextId, actor |-> d.actor, seq |-> n, prev |-> d.prior]>>]]
        /\ nextId' = nextId + 1
        /\ UNCHANGED <<log, rows, owner, depth, draft, acknowledged>>

\* The actor's sequence is read after the head, then the event is built.
ReadSequence(t) ==
    LET d == draft[t]
        h == Stored(d.rel)
    IN  /\ Goto(t, "seq", "append")
        /\ CanLock(t)
        /\ nextId <= MaxIds
        /\ \E n \in 1..(Len(h) + 1) :
              /\ IsNextSequence(h, Len(h), d.actor, n)
              /\ batch' = [batch EXCEPT ![t] = [NoEvents EXCEPT ![d.rel] =
                    <<[id |-> nextId, actor |-> d.actor, seq |-> n, prev |-> d.prior]>>]]
        /\ nextId' = nextId + 1
        /\ UNCHANGED <<log, rows, owner, depth, draft, acknowledged>>

\* A host builds two events for append_many against what it lists: for one
\* relationship, chained or (stale) both on the same head, or for two.
BuildBatch(t, r, q, a, stale) ==
    /\ Goto(t, "idle", "submit")
    /\ CanLock(t)
    /\ nextId < MaxIds
    /\ \E n \in 1..(Len(Stored(r)) + 1), m \in 1..(Len(Stored(q)) + 2) :
        LET first  == [id |-> nextId, actor |-> a, seq |-> n, prev |-> HeadId(Stored(r))]
            before == IF q = r /\ ~stale THEN Append(Stored(r), first) ELSE Stored(q)
            second == [id |-> nextId + 1, actor |-> a, seq |-> m, prev |-> HeadId(before)]
        IN  /\ IsNextSequence(Stored(r), Len(Stored(r)), a, n)
            /\ IsNextSequence(before, Len(before), a, m)
            /\ batch' = [batch EXCEPT ![t] =
                  IF q = r THEN [NoEvents EXCEPT ![r] = <<first, second>>]
                           ELSE [NoEvents EXCEPT ![r] = <<first>>, ![q] = <<second>>]]
    /\ nextId' = nextId + 2
    /\ UNCHANGED <<log, rows, owner, depth, draft, acknowledged>>

\* A caller that saw no result, or a failure, submits the same events again.
Resubmit(t) ==
    /\ batch[t] # NoEvents
    /\ Goto(t, "idle", "submit")
    /\ UNCHANGED <<log, rows, owner, depth, draft, batch, nextId, acknowledged>>

\* append_many takes the lock, begins the transaction and validates.
BeginAppend(t) ==
    /\ Goto(t, pc[t], "insert")
    /\ pc[t] \in {"append", "submit"}
    /\ Lock(t)
    /\ Appendable(batch[t])
    /\ UNCHANGED <<log, rows, draft, batch, nextId, acknowledged>>

\* Validation fails: ConcurrentWriteError, nothing inserted, lock released.
RefuseAppend(t) ==
    /\ Goto(t, pc[t], "idle")
    /\ pc[t] \in {"append", "submit"}
    /\ CanLock(t)
    /\ ~Appendable(batch[t])
    /\ UNCHANGED <<log, rows, owner, depth, draft, batch, nextId, acknowledged>>

\* One row of conn.executemany.
InsertRow(t, r) ==
    /\ pc[t] = "insert"
    /\ Len(rows[r]) < Len(batch[t][r])
    /\ rows' = [rows EXCEPT ![r] = Append(@, batch[t][r][Len(@) + 1])]
    /\ UNCHANGED <<log, owner, depth, pc, draft, batch, nextId, acknowledged>>

\* COMMIT: the rows are durable, the lock is released.
CommitRows(t) ==
    /\ Goto(t, "insert", "return")
    /\ rows = batch[t]
    /\ log' = [r \in Relationships |-> log[r] \o batch[t][r]]
    /\ rows' = NoEvents
    /\ Unlock
    /\ UNCHANGED <<draft, batch, nextId, acknowledged>>

\* Mutant: the rows inserted before the failure stay.
RollbackKeepsRows(t) ==
    /\ Goto(t, "insert", "idle")
    /\ log' = [r \in Relationships |-> log[r] \o rows[r]]
    /\ rows' = NoEvents
    /\ Unlock
    /\ UNCHANGED <<draft, batch, nextId, acknowledged>>

\* Mutant: the exception is swallowed after ROLLBACK.
RollbackSwallowed(t) ==
    /\ Goto(t, "insert", "return")
    /\ rows' = NoEvents
    /\ Unlock
    /\ UNCHANGED <<log, draft, batch, nextId, acknowledged>>

\* An insert or the COMMIT raises, or the thread is interrupted: ROLLBACK.
Rollback(t) ==
    /\ Goto(t, "insert", "idle")
    /\ rows' = NoEvents
    /\ Unlock
    /\ UNCHANGED <<log, draft, batch, nextId, acknowledged>>

\* append_many returns to its caller.
Return(t) ==
    /\ Goto(t, "return", "idle")
    /\ acknowledged' = acknowledged \union AllIds(batch[t])
    /\ UNCHANGED <<log, rows, owner, depth, draft, batch, nextId>>

\* with store.execution_guard(): ... around a sequence of operations.
EnterGuard(t) ==
    /\ pc[t] = "idle"
    /\ depth < MaxDepth
    /\ Lock(t)
    /\ UNCHANGED <<log, rows, pc, draft, batch, nextId, acknowledged>>

ExitGuard(t) ==
    /\ pc[t] = "idle"
    /\ owner = t
    /\ Unlock
    /\ UNCHANGED <<log, rows, pc, draft, batch, nextId, acknowledged>>

\* The process ends: threads, lock and the open transaction are gone, committed
\* rows stay.  Batches stay too: a host may hold them outside the process.
Crash ==
    /\ \E t \in Threads : pc[t] # "idle"
    /\ rows' = NoEvents
    /\ owner' = NoThread
    /\ depth' = 0
    /\ pc' = [t \in Threads |-> "idle"]
    /\ UNCHANGED <<log, draft, batch, nextId, acknowledged>>

ThreadStep(t) ==
    \/ \E r \in Relationships, a \in Actors : StartCommit(t, r, a)
    \/ ReadHead(t)
    \/ ReadSequence(t)
    \/ \E r, q \in Relationships, a \in Actors, stale \in BOOLEAN :
          BuildBatch(t, r, q, a, stale)
    \/ Resubmit(t)
    \/ BeginAppend(t)
    \/ RefuseAppend(t)
    \/ \E r \in Relationships : InsertRow(t, r)
    \/ CommitRows(t)
    \/ Rollback(t)
    \/ Return(t)
    \/ EnterGuard(t)
    \/ ExitGuard(t)

Next == Crash \/ \E t \in Threads : ThreadStep(t)

Spec == Init /\ [][Next]_vars

-----------------------------------------------------------------------------

\* The type invariant.
TypeOK ==
    /\ log \in [Relationships -> Seq(Event)]
    /\ rows \in [Relationships -> Seq(Event)]
    /\ owner \in Threads \union {NoThread}
    /\ depth \in Nat
    /\ pc \in [Threads -> {"idle", "head", "seq", "append", "submit", "insert", "return"}]
    /\ draft \in [Threads -> Draft]
    /\ batch \in [Threads -> Batch]
    /\ nextId \in Nat \ {0}
    /\ acknowledged \subseteq Nat

\* Rows exist only inside the transaction of the thread that holds the lock,
\* they are the first rows of the batch it validated, and that validation
\* still holds: nothing can change the history it was made against.
LockHeld ==
    /\ owner = NoThread <=> depth = 0
    /\ \A t \in Threads : pc[t] = "insert" => owner = t

RowsValidated ==
    /\ (\A t \in Threads : pc[t] # "insert") => rows = NoEvents
    /\ \A t \in Threads : pc[t] = "insert" =>
          \A r \in Relationships :
              /\ Len(rows[r]) <= Len(batch[t][r])
              /\ \A i \in 1..Len(rows[r]) : rows[r][i] = batch[t][r][i]
              /\ LET h == log[r] \o batch[t][r]
                 IN  \A j \in (Len(log[r]) + 1)..Len(h) : Fits(h, j)

TransactionExclusive == LockHeld /\ RowsValidated

\* Every stored history is one chain: each event names the event before it,
\* carries its actor's next sequence number and an identifier used once
\* (what verify_event_chain and _validate_append rely on), however commits
\* and batches of several threads interleave, fail or crash.
WellChained(h) == \A j \in 1..Len(h) : Fits(h, j)
ChainIntact == \A r \in Relationships : WellChained(log[r])

\* What a caller was told is committed is in a history (the part of the log's
\* promise that needs an invariant of its own).
AcknowledgedStored ==
    /\ acknowledged \subseteq AllIds(log)
    /\ \A t \in Threads : pc[t] = "return" => AllIds(batch[t]) \subseteq AllIds(log)

\* A batch, over one relationship or several, is in the histories whole or
\* not at all, whatever is interrupted or retried (append_many's promise).
AllOrNothing ==
    \A t \in Threads :
        \/ AllIds(batch[t]) \subseteq AllIds(log)
        \/ AllIds(batch[t]) \intersect AllIds(log) = {}

\* The head a commit read is a committed event, never a row that a rollback
\* can take away: readers use the writer's connection (SQLiteEventStore._list).
PriorIsCommitted ==
    \A t \in Threads :
        pc[t] \in {"seq", "append"} =>
            draft[t].prior \in {0} \union Ids(log[draft[t].rel])

\* A commit is refused only when another event reached its relationship after
\* it read the head: the separately read actor sequence never makes an event
\* stale by itself (the order of the two reads in _commit).
ConflictMeansProgress ==
    \A t \in Threads :
        /\ pc[t] = "append"
        /\ CanLock(t)
        /\ draft[t].prior = HeadId(log[draft[t].rel])
        => Appendable(batch[t])

\* Inside the execution guard a commit is never refused: every record the
\* execution bridge makes between reservation and result is written.
GuardedCommitFits ==
    \A t \in Threads :
        owner = t /\ pc[t] = "append" => Appendable(batch[t])

\* What a commit reads outside the append is good enough: a commit is refused
\* only because of an event that somebody else committed meanwhile.
CommitsFit == PriorIsCommitted /\ ConflictMeansProgress /\ GuardedCommitFits

\* The store is an append-only log: histories are only extended, a batch at a
\* time, and what a caller was told is committed stays through crashes.
Abstract == INSTANCE AppendOnlyLog WITH history <- log
ImplementsLog == Abstract!Spec

=============================================================================
