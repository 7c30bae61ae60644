------------------------------- MODULE Replay -------------------------------
(***************************************************************************)
(* Portable replay (portable.py): a relationship's history leaves its      *)
(* store as a bundle of its events and their projection, and a verified    *)
(* bundle is restored into a store that has no history for it.  An export  *)
(* checks DISCLOSE, records the decision, lists the events and reduces     *)
(* them from a second listing; an import verifies, lists the destination,  *)
(* appends and lists it again.  Each of these takes the store's lock on    *)
(* its own, and the copies of one relationship go on independently.        *)
(*                                                                         *)
(* One relationship in several stores, one exporting actor; an event that  *)
(* is no decision is a grant or revocation of the actor's DISCLOSE by the  *)
(* host.  An event names its predecessor by identifier; intact says that   *)
(* its content still has the hash it carries.                              *)
(***************************************************************************)
EXTENDS Naturals, Sequences

CONSTANTS
    Threads,
    Stores,
    Home,           \* the store in which the relationship was created
    NoThread,       \* a store's guard is free
    MaxEvents       \* bound on the events ever committed

ASSUME ReplayAssumption ==
    /\ NoThread \notin Threads
    /\ Home \in Stores
    /\ MaxEvents \in Nat

VARIABLES
    log,            \* [Stores -> committed events of the relationship]
    exports,        \* the bundles that exports returned, each with its decision
    restored,       \* [Stores -> bundles whose restoration was reported]
    owner,          \* [Stores -> holder of the execution guard]
    pc,             \* where each thread is in its operation
    draft,          \* the locals of that operation
    nextId          \* source of fresh event identifiers (uuid4)

vars == <<log, exports, restored, owner, pc, draft, nextId>>

Positive == Nat \ {0}
Kinds == {"created", "granted", "revoked", "allowed", "denied"}
Event == [id : Positive, kind : Kinds, prev : Nat, intact : BOOLEAN]
Projection == [valid : BOOLEAN, open : BOOLEAN, last : Nat]
Bundle == [events : Seq(Event), projection : Projection]
Export == [bundle : Bundle, decision : Nat]
Draft == [store : Stores, bundle : Bundle, decision : Nat]

HeadId(h) == IF h = << >> THEN 0 ELSE h[Len(h)].id

\* verify_event_chain
ChainValid(h) ==
    \A i \in 1..Len(h) :
        h[i].intact /\ h[i].prev = (IF i = 1 THEN 0 ELSE h[i - 1].id)

\* A history begins with its only RelationshipCreated event.
Rooted(h) == h # << >> /\ \A i \in 1..Len(h) : h[i].kind = "created" <=> i = 1

\* DISCLOSE after the first n events.
OpenAt(h, n) ==
    \E i \in 1..n : h[i].kind = "granted" /\ \A j \in (i + 1)..n : h[j].kind # "revoked"

\* reduce_events; every event sets last_event_id.
Project(h) ==
    [valid |-> Rooted(h) /\ ChainValid(h),
     open  |-> OpenAt(h, Len(h)),
     last  |-> HeadId(h)]

\* Mutant: the projection is not compared with the replayed events.
VerifiedEvents(b) == Rooted(b.events) /\ ChainValid(b.events)

\* verify_replay_bundle
Verified(b) ==
    /\ Rooted(b.events)
    /\ ChainValid(b.events)
    /\ b.projection = Project(b.events)

\* What _validate_append asks of a restored batch: it continues the history.
Appendable(h, batch) ==
    \A i \in 1..Len(batch) :
        /\ batch[i].intact
        /\ batch[i].prev = (IF i = 1 THEN HeadId(h) ELSE batch[i - 1].id)
        /\ \A j \in 1..Len(h) : h[j].id # batch[i].id

-----------------------------------------------------------------------------

CanLock(t, s) == owner[s] \in {NoThread, t}

Goto(t, from, to) ==
    /\ pc[t] = from
    /\ pc' = [pc EXCEPT ![t] = to]

NoBundle == [events |-> << >>, projection |-> Project(<< >>)]
NoDraft == [store |-> Home, bundle |-> NoBundle, decision |-> 0]

\* The locals of an operation are gone with its return.
Finish(t) ==
    /\ pc' = [pc EXCEPT ![t] = "idle"]
    /\ draft' = [draft EXCEPT ![t] = NoDraft]

\* Mutant: an event is appended without the lock.
CommitUnlocked(t, s, kind) ==
    /\ nextId < MaxEvents
    /\ log' = [log EXCEPT ![s] = Append(@,
          [id |-> nextId + 1, kind |-> kind, prev |-> HeadId(@), intact |-> TRUE])]
    /\ nextId' = nextId + 1

\* Relationship._commit: one step, as module EventStore shows.
Commit(t, s, kind) ==
    /\ CanLock(t, s)
    /\ nextId < MaxEvents
    /\ log' = [log EXCEPT ![s] = Append(@,
          [id |-> nextId + 1, kind |-> kind, prev |-> HeadId(@), intact |-> TRUE])]
    /\ nextId' = nextId + 1

Init ==
    /\ log = [s \in Stores |-> IF s = Home
          THEN <<[id |-> 1, kind |-> "created", prev |-> 0, intact |-> TRUE]>>
          ELSE << >>]
    /\ exports = {}
    /\ restored = [s \in Stores |-> << >>]
    /\ owner = [s \in Stores |-> NoThread]
    /\ pc = [t \in Threads |-> "idle"]
    /\ draft = [t \in Threads |-> NoDraft]
    /\ nextId = 1

\* The host grants or revokes the actor's DISCLOSE in one of the copies.
GrantOrRevoke(t, s, kind) ==
    /\ pc[t] = "idle"
    /\ log[s] # << >>
    /\ Commit(t, s, kind)
    /\ UNCHANGED <<exports, restored, owner, pc, draft>>

\* export_replay_bundle: check_capability on the store's projection.
CheckDisclose(t, s) ==
    /\ log[s] # << >>
    /\ CanLock(t, s)
    /\ Goto(t, "idle", IF OpenAt(log[s], Len(log[s])) THEN "allow" ELSE "deny")
    /\ draft' = [draft EXCEPT ![t].store = s]
    /\ UNCHANGED <<log, exports, restored, owner, nextId>>

\* The denial is recorded, then ReplayExportError.
RecordDenial(t) ==
    /\ pc[t] = "deny"
    /\ Commit(t, draft[t].store, "denied")
    /\ Finish(t)
    /\ UNCHANGED <<exports, restored, owner>>

\* Mutant: only denials are recorded.
RecordNoAllow(t) ==
    /\ Goto(t, "allow", "list")
    /\ UNCHANGED <<log, exports, restored, owner, draft, nextId>>

RecordAllow(t) ==
    /\ Goto(t, "allow", "list")
    /\ Commit(t, draft[t].store, "allowed")
    /\ draft' = [draft EXCEPT ![t].decision = nextId']
    /\ UNCHANGED <<exports, restored, owner>>

\* _build_replay_bundle: events = relationship.events ...
ListEvents(t) ==
    /\ Goto(t, "list", "reduce")
    /\ CanLock(t, draft[t].store)
    /\ draft' = [draft EXCEPT ![t].bundle.events = log[draft[t].store]]
    /\ UNCHANGED <<log, exports, restored, owner, nextId>>

\* The bundle that the second listing completes.
Built(t) == [draft[t].bundle EXCEPT !.projection = Project(log[draft[t].store])]

\* ... then relationship.state, and the bundle is returned.
ReduceState(t) ==
    /\ pc[t] = "reduce"
    /\ CanLock(t, draft[t].store)
    /\ exports' = exports \union {[bundle |-> Built(t), decision |-> draft[t].decision]}
    /\ Finish(t)
    /\ UNCHANGED <<log, restored, owner, nextId>>

\* Bundles as hosts submit them: as returned, cut short, without their root,
\* with a changed event or with the projection of another bundle.
Damaged(b) ==
    {[b EXCEPT !.events = SubSeq(@, 1, n)] : n \in 0..Len(b.events)}
    \union {[b EXCEPT !.events = SubSeq(@, 2, Len(@))]}
    \union {[b EXCEPT !.events[i].intact = FALSE] : i \in 1..Len(b.events)}
    \union {[b EXCEPT !.projection = x.bundle.projection] : x \in exports}

Submitted == UNION {Damaged(x.bundle) : x \in exports}

\* import_replay_bundle: the bundle verifies and the destination is empty.  A
\* refused import raises and changes nothing.
BeginImport(t, s, b) ==
    /\ Verified(b)
    /\ CanLock(t, s)
    /\ log[s] = << >>
    /\ Goto(t, "idle", "append")
    /\ draft' = [draft EXCEPT ![t].store = s, ![t].bundle = b]
    /\ UNCHANGED <<log, exports, restored, owner, nextId>>

\* store.append_many(events)
AppendEvents(t) ==
    LET s == draft[t].store
        events == draft[t].bundle.events
    IN  /\ Goto(t, "append", "check")
        /\ CanLock(t, s)
        /\ Appendable(log[s], events)
        /\ log' = [log EXCEPT ![s] = @ \o events]
        /\ UNCHANGED <<exports, restored, owner, draft, nextId>>

\* Mutant: a batch that is already there counts as restored.
RefuseKnown(t) ==
    /\ Goto(t, "append", "check")
    /\ CanLock(t, draft[t].store)
    /\ ~Appendable(log[draft[t].store], draft[t].bundle.events)
    /\ UNCHANGED <<log, exports, restored, owner, draft, nextId>>

\* The store refuses the batch: ReplayImportError.
RefuseAppend(t) ==
    /\ pc[t] = "append"
    /\ CanLock(t, draft[t].store)
    /\ ~Appendable(log[draft[t].store], draft[t].bundle.events)
    /\ Finish(t)
    /\ UNCHANGED <<log, exports, restored, owner, nextId>>

\* The check after the write: chain and length.  It also fails when a commit
\* has followed the import; the history stays then, and is not reported.
CheckRestored(t) ==
    LET s == draft[t].store
        events == draft[t].bundle.events
        sound == ChainValid(log[s]) /\ Len(log[s]) = Len(events)
    IN  /\ pc[t] = "check"
        /\ CanLock(t, s)
        /\ restored' = IF sound THEN [restored EXCEPT ![s] = Append(@, draft[t].bundle)]
                       ELSE restored
        /\ Finish(t)
        /\ UNCHANGED <<log, exports, owner, nextId>>

\* An operation ends with an exception of the store (a stale commit, a storage
\* failure) or an interrupt.
Raise(t) ==
    /\ pc[t] # "idle"
    /\ Finish(t)
    /\ UNCHANGED <<log, exports, restored, owner, nextId>>

\* with store.execution_guard(): ... around operations.
EnterGuard(t, s) ==
    /\ pc[t] = "idle"
    /\ owner[s] = NoThread
    /\ owner' = [owner EXCEPT ![s] = t]
    /\ UNCHANGED <<log, exports, restored, pc, draft, nextId>>

ExitGuard(t, s) ==
    /\ pc[t] = "idle"
    /\ owner[s] = t
    /\ owner' = [owner EXCEPT ![s] = NoThread]
    /\ UNCHANGED <<log, exports, restored, pc, draft, nextId>>

Step(t) ==
    \/ \E s \in Stores, kind \in {"granted", "revoked"} : GrantOrRevoke(t, s, kind)
    \/ \E s \in Stores : CheckDisclose(t, s)
    \/ RecordDenial(t)
    \/ RecordAllow(t)
    \/ ListEvents(t)
    \/ ReduceState(t)
    \/ \E s \in Stores, b \in Submitted : BeginImport(t, s, b)
    \/ AppendEvents(t)
    \/ RefuseAppend(t)
    \/ CheckRestored(t)
    \/ Raise(t)
    \/ \E s \in Stores : EnterGuard(t, s)
    \/ \E s \in Stores : ExitGuard(t, s)

Next == \E t \in Threads : Step(t)

Spec == Init /\ [][Next]_vars

-----------------------------------------------------------------------------

\* The type invariant.
TypeOK ==
    /\ log \in [Stores -> Seq(Event)]
    /\ exports \subseteq Export
    /\ restored \in [Stores -> Seq(Bundle)]
    /\ owner \in [Stores -> Threads \union {NoThread}]
    /\ pc \in [Threads -> {"idle", "allow", "deny", "list", "reduce", "append", "check"}]
    /\ draft \in [Threads -> Draft]
    /\ nextId \in Positive

StartsWith(h, g) ==
    /\ Len(g) <= Len(h)
    /\ \A i \in 1..Len(g) : h[i] = g[i]

\* Every copy of the relationship is one rooted, unbroken history without a
\* repeated event, also when two imports race for one store, or an import is
\* overtaken by one that the other store's copy has outgrown meanwhile.
CopiesSound ==
    \A s \in Stores : log[s] # << >> =>
        /\ Rooted(log[s]) /\ ChainValid(log[s])
        /\ \A i, j \in 1..Len(log[s]) : log[s][i].id = log[s][j].id => i = j

\* A copy begins with the whole history of a bundle that an export returned,
\* never with part of it, however the bundle was damaged on its way
\* (verify_replay_bundle): what is restored can be checked against its export.
RestoredFromExport ==
    \A s \in Stores \ {Home} : log[s] # << >> =>
        \E x \in exports : x.bundle.events # << >> /\ StartsWith(log[s], x.bundle.events)

\* Every copy is one sound history that begins with a whole exported one.
CopiesOfExports == CopiesSound /\ RestoredFromExport

\* Every bundle that left a store carries the ALLOW decision of its own export,
\* and DISCLOSE was held at some moment before that decision.
ExportOnRecord ==
    \A x \in exports :
        \E d \in 1..Len(x.bundle.events) :
            /\ x.bundle.events[d].id = x.decision
            /\ x.bundle.events[d].kind = "allowed"
            /\ \E n \in 0..(d - 1) : OpenAt(x.bundle.events, n)

\* Of the imports that race for a store at most one is told that it restored,
\* and the store's history begins with what that one restored.
ReportedOnce ==
    \A s \in Stores :
        /\ Len(restored[s]) <= 1
        /\ \A i \in 1..Len(restored[s]) : StartsWith(log[s], restored[s][i].events)

\* Inside the store's guard an export is whole: its bundle verifies, ends with
\* the decision that allowed it, and DISCLOSE is still held.  Outside the guard
\* a commit between the two listings makes a bundle that does not verify.
GuardedExportWhole ==
    [][\A t \in Threads :
          pc[t] = "reduce" /\ owner[draft[t].store] = t /\ exports' # exports =>
              /\ Verified(Built(t))
              /\ HeadId(Built(t).events) = draft[t].decision
              /\ OpenAt(Built(t).events, Len(Built(t).events))]_vars

\* Every bundle that an export returns verifies ("self-contained replay bundles
\* for verification", docs/portable-replay.md).
ExportVerifies == \A x \in exports : Verified(x.bundle)

=============================================================================
