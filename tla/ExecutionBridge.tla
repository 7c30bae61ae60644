--------------------------- MODULE ExecutionBridge ---------------------------
(***************************************************************************)
(* The guarded handoff of an invocation to an executor (execution.py) with *)
(* the preparation it starts from (runtime.py).  Threads call execute() on *)
(* one relationship, possibly with the same request, while other callers   *)
(* change what the authorization reads: permission, consent, policy,       *)
(* lifecycle.  Preparation runs without the store's guard, so every read   *)
(* and commit of it is a step of its own.  From the duplicate check to the *)
(* recorded result the thread holds the guard.  What can still happen then *)
(* is a callback on the thread itself, the clock, a storage failure and    *)
(* the end of the process.                                                 *)
(*                                                                         *)
(* The guard is a reentrant lock, and host code runs inside it: the host   *)
(* between its own execution_guard() and what it calls there, a custom     *)
(* governance engine or store, a context resolver, an adapter, the         *)
(* executor.  It may change the relationship and it may call execute()     *)
(* again.  A call is a thread and a level: the call at level k + 1 is made *)
(* in a callback of the one at level k, which goes on when it has          *)
(* returned.                                                               *)
(*                                                                         *)
(* A commit is one step that needs the lock (module EventStore refines it  *)
(* further); outside the guard it may be refused as stale.  record_plan    *)
(* commits its decisions and then a resolution: the resolution stands for  *)
(* them.  A request has one consent and one EXECUTE requirement, read one  *)
(* after the other as Runtime.evaluate does.  A callback that takes the    *)
(* guard around a call is not told from one that does not: nobody else     *)
(* happening to commit meanwhile gives the same histories.                 *)
(***************************************************************************)
EXTENDS Naturals, Sequences

CONSTANTS
    Threads,
    Requests,       \* request identifiers
    NoThread,       \* the guard is free
    MaxDepth,       \* bound on the nesting of execute()
    MaxAttempts,    \* bound on calls of execute()
    MaxChanges,     \* bound on changes of the authority
    MaxFaults       \* bound on crashes, interrupts and storage failures

ASSUME BridgeAssumption ==
    /\ NoThread \notin Threads
    /\ Requests # {}
    /\ MaxDepth \in Nat
    /\ MaxAttempts \in Nat /\ MaxChanges \in Nat /\ MaxFaults \in Nat

\* Calls of execute(), by thread and level of nesting.
Calls == Threads \X (1..MaxDepth)
Thread(c) == c[1]
Level(c) == c[2]

\* d is made in a callback of c, or of a call made there.
Inside(d, c) == Thread(d) = Thread(c) /\ Level(d) > Level(c)

VARIABLES
    history,        \* committed events of the relationship
    authority,      \* its projection, as far as evaluate() reads it
    expired,        \* the clock passed the expiry of a timed permission
    owner,          \* the thread that owns the store's execution guard
    entered,        \* the owner's open with-blocks: 0 is the host's, k the call's at level k
    pc,             \* where each call is in execute()
    req,            \* the request a call executes
    phase,          \* which evaluation: "prepare", "final" or "last"
    outcome,        \* the decision the evaluation has come to
    head,           \* length of the history at the last snapshot of its events
    evaluated,      \* length of the history when evaluation read the permission
    effects,        \* [Requests -> Nat], executor entries (outside the process)
    lost,           \* requests whose attempt a fault ended after executor entry
    attempts, changes, faults

lock == <<owner, entered>>
control == <<lock, pc, req, phase, outcome, head, evaluated>>
counters == <<attempts, changes, faults>>
vars == <<history, authority, expired, control, effects, lost, counters>>

Outcomes == {"ALLOW", "PAUSE", "BLOCK", "REQUIRE_CONSENT"}
ResultStatuses == {"COMPLETED", "FAILED", "UNKNOWN_EFFECT"}
Statuses == {"none", "AUTHORIZED", "BLOCKED", "PAUSED"} \union ResultStatuses
Event == [type : {"Change", "Proposed", "Resolved", "Reserved", "Result"},
          req : Requests, status : Statuses]
Authority == [life : {"ACTIVE", "DISSOLVING", "DISSOLVED"}, grant : {"open", "timed", "revoked"},
              consent : BOOLEAN, reconsent : BOOLEAN]

Preparing == {"propose", "life", "consent", "cap", "resolve", "record", "translate",
              "fail", "enter"}
Guarded == {"check", "final life", "final consent", "final cap", "compare", "recheck",
            "call", "executing", "result"}

\* Past the duplicate check with a reservation; past the entry.
Held == Guarded \ {"check"}
Running == {"executing", "result"}

\* Where execute() runs host code: a custom governance engine while it evaluates,
\* the context resolver, the adapter, a custom store after a record, the executor.
Callbacks == {"life", "consent", "cap", "resolve", "translate", "final life",
              "final consent", "final cap", "compare", "recheck", "executing"}

\* A call waits for the calls made in its callbacks.
Suspended(c) == \E d \in Calls : Inside(d, c) /\ pc[d] # "idle"

\* The thread runs host code: outside every call or in a callback.
HostCode(t) == \A c \in Calls : Thread(c) = t => pc[c] \in Callbacks \union {"idle"}

Has(type, q) ==
    \E i \in 1..Len(history) : history[i].type = type /\ history[i].req = q

\* Mutant: only a finished execution counts as started.
ReservedByResult(q) == Has("Result", q)

Reserved(q) == Has("Reserved", q)

\* A commit; status is "none" where the event carries none.
Commit(type, q, status) ==
    history' = Append(history, [type |-> type, req |-> q, status |-> status])

CanLock(t) == owner \in {NoThread, t}

\* Closing one of the owner's with-blocks: the last one gives the lock back.
Release(level) ==
    /\ entered' = entered \ {level}
    /\ owner' = IF entered' = {} THEN NoThread ELSE owner

Goto(c, from, to) ==
    /\ pc[c] = from
    /\ pc' = [pc EXCEPT ![c] = to]

\* Runtime.record_plan: the status of the resolution.
Resolution(o) ==
    CASE o = "ALLOW" -> "AUTHORIZED"
      [] o = "PAUSE" -> "PAUSED"
      [] OTHER       -> "BLOCKED"

-----------------------------------------------------------------------------
\* The decisions of the governance engine on the current projection.

Lifecycle ==
    CASE authority.life = "ACTIVE"    -> "ALLOW"
      [] authority.life = "DISSOLVED" -> "BLOCK"
      [] OTHER                        -> "PAUSE"

Consent == IF authority.consent /\ ~authority.reconsent THEN "ALLOW" ELSE "REQUIRE_CONSENT"

Capability ==
    IF /\ authority.life = "ACTIVE"
       /\ \/ authority.grant = "open"
          \/ authority.grant = "timed" /\ ~expired
    THEN "ALLOW" ELSE "BLOCK"

\* What the projection requires of an executor entry, expiry apart: expiry is
\* sampled at the last evaluation.
Authorized ==
    /\ authority.life = "ACTIVE"
    /\ authority.consent /\ ~authority.reconsent
    /\ authority.grant # "revoked"

-----------------------------------------------------------------------------

\* Stands where no request is meant.
AnyRequest == CHOOSE q \in Requests : TRUE

Init ==
    /\ history = << >>
    /\ authority = [life |-> "ACTIVE", grant |-> "timed", consent |-> TRUE, reconsent |-> FALSE]
    /\ expired = FALSE
    /\ owner = NoThread
    /\ entered = {}
    /\ pc = [c \in Calls |-> "idle"]
    /\ req = [c \in Calls |-> AnyRequest]
    /\ phase = [c \in Calls |-> "prepare"]
    /\ outcome = [c \in Calls |-> "ALLOW"]
    /\ head = [c \in Calls |-> 0]
    /\ evaluated = [c \in Calls |-> 0]
    /\ effects = [q \in Requests |-> 0]
    /\ lost = {}
    /\ attempts = 0
    /\ changes = 0
    /\ faults = 0

\* The new projection after one event of a participant or administrator: grant
\* or revoke the permission or the consent, register or amend a policy that
\* impacts the consent's scope, move the lifecycle.
Changed(a) ==
    {[a EXCEPT !.grant = g] : g \in {"open", "timed", "revoked"}}
    \union {[a EXCEPT !.consent = TRUE, !.reconsent = FALSE],
            [a EXCEPT !.consent = FALSE],
            [a EXCEPT !.reconsent = a.reconsent \/ a.consent]}
    \union {[a EXCEPT !.life = l] : l \in
                CASE a.life = "ACTIVE"     -> {"DISSOLVING"}
                  [] a.life = "DISSOLVING" -> {"ACTIVE", "DISSOLVED"}
                  [] OTHER                 -> {}}

Change ==
    /\ changes < MaxChanges
    /\ changes' = changes + 1
    /\ \E a \in Changed(authority) : a # authority /\ authority' = a
    /\ Commit("Change", AnyRequest, "none")
    /\ UNCHANGED <<expired, control, effects, lost, attempts, faults>>

\* Another caller commits: it needs the lock.
OtherCaller == owner = NoThread /\ Change

\* Host code on the thread that owns the guard commits.
Reentrant(t) == owner = t /\ HostCode(t) /\ Change

\* The host enters and leaves execution_guard() around what it calls (bounded
\* with the calls: it enters while there are some left to make).
EnterGuard(t) ==
    /\ attempts < MaxAttempts
    /\ owner = NoThread
    /\ \A c \in Calls : Thread(c) = t => pc[c] = "idle"
    /\ owner' = t
    /\ entered' = {0}
    /\ UNCHANGED <<history, authority, expired, pc, req, phase, outcome, head, evaluated,
                   effects, lost, counters>>

ExitGuard(t) ==
    /\ owner = t
    /\ \A c \in Calls : Thread(c) = t => pc[c] = "idle"
    /\ Release(0)
    /\ UNCHANGED <<history, authority, expired, pc, req, phase, outcome, head, evaluated,
                   effects, lost, counters>>

\* Time passes the expiry, at any moment.
Expire ==
    /\ ~expired
    /\ expired' = TRUE
    /\ UNCHANGED <<history, authority, control, effects, lost, counters>>

-----------------------------------------------------------------------------
\* Preparation, without the guard.

\* The host calls execute(), or a callback of the calls outside this one does.
Execute(c, q) ==
    /\ Goto(c, "idle", "propose")
    /\ HostCode(Thread(c))
    /\ \A d \in Calls : Inside(c, d) => pc[d] # "idle"
    /\ attempts < MaxAttempts
    /\ attempts' = attempts + 1
    /\ req' = [req EXCEPT ![c] = q]
    /\ UNCHANGED <<history, authority, expired, lock, phase, outcome, head, evaluated,
                   effects, lost, changes, faults>>

\* record_invocation_proposed
Propose(c) ==
    /\ Goto(c, "propose", "life")
    /\ CanLock(Thread(c))
    /\ Commit("Proposed", req[c], "none")
    /\ phase' = [phase EXCEPT ![c] = "prepare"]
    /\ UNCHANGED <<authority, expired, lock, req, outcome, head, evaluated,
                   effects, lost, counters>>

\* A commit outside the guard is stale: ConcurrentWriteError leaves execute().
Refused(c) ==
    /\ pc[c] \in {"propose", "record", "fail"}
    /\ owner = NoThread
    /\ pc' = [pc EXCEPT ![c] = "idle"]
    /\ UNCHANGED <<history, authority, expired, lock, req, phase, outcome, head, evaluated,
                   effects, lost, counters>>

\* The next requirement after a decision, or the end of the evaluation.
Decide(c, decision, next, end) ==
    /\ CanLock(Thread(c))
    /\ outcome' = [outcome EXCEPT ![c] = decision]
    /\ pc' = [pc EXCEPT ![c] = IF decision = "ALLOW" THEN next ELSE end]

\* Runtime.evaluate in prepare(): each requirement reads the state afresh.
PrepareEvaluate(c) ==
    /\ \/ pc[c] = "life" /\ Decide(c, Lifecycle, "consent", "record")
       \/ pc[c] = "consent" /\ Decide(c, Consent, "cap", "record")
       \/ pc[c] = "cap" /\ Decide(c, Capability, "resolve", "record")
    /\ UNCHANGED <<history, authority, expired, lock, req, phase, head, evaluated,
                   effects, lost, counters>>

\* The host's context resolver returns or raises (recorded as FAILED).
ResolveContext(c) ==
    /\ \/ Goto(c, "resolve", "record")
       \/ Goto(c, "resolve", "fail")
    /\ UNCHANGED <<history, authority, expired, lock, req, phase, outcome, head, evaluated,
                   effects, lost, counters>>

\* record_plan in prepare(): a denied plan is returned, an allowed one translated.
RecordPrepared(c) ==
    /\ Goto(c, "record", IF outcome[c] = "ALLOW" THEN "translate" ELSE "idle")
    /\ CanLock(Thread(c))
    /\ Commit("Resolved", req[c], Resolution(outcome[c]))
    /\ UNCHANGED <<authority, expired, lock, req, phase, outcome, head, evaluated,
                   effects, lost, counters>>

\* The adapter returns the wire request, raises (recorded as FAILED), or
\* returns something else, which is refused without a record.
Translate(c) ==
    /\ \/ Goto(c, "translate", "enter")
       \/ Goto(c, "translate", "fail")
       \/ Goto(c, "translate", "idle")
    /\ UNCHANGED <<history, authority, expired, lock, req, phase, outcome, head, evaluated,
                   effects, lost, counters>>

RecordFailed(c) ==
    /\ Goto(c, "fail", "idle")
    /\ CanLock(Thread(c))
    /\ Commit("Resolved", req[c], "FAILED")
    /\ UNCHANGED <<authority, expired, lock, req, phase, outcome, head, evaluated,
                   effects, lost, counters>>

-----------------------------------------------------------------------------
\* execute() under the guard.

\* The lock is reentrant: its owner takes it again for a nested call.
AcquireGuard(c) ==
    /\ Goto(c, "enter", "check")
    /\ CanLock(Thread(c))
    /\ owner' = Thread(c)
    /\ entered' = entered \union {Level(c)}
    /\ UNCHANGED <<history, authority, expired, req, phase, outcome, head, evaluated,
                   effects, lost, counters>>

\* Mutant: an early return keeps the lock.
LeaveLocked(c) ==
    /\ pc' = [pc EXCEPT ![c] = "idle"]
    /\ UNCHANGED lock

\* Leaving the with-block, by a return or an exception.
Leave(c) ==
    /\ pc' = [pc EXCEPT ![c] = "idle"]
    /\ Release(Level(c))

RejectDuplicate(c) ==
    /\ pc[c] = "check"
    /\ Reserved(req[c])
    /\ Commit("Resolved", req[c], "BLOCKED")
    /\ Leave(c)
    /\ UNCHANGED <<authority, expired, req, phase, outcome, head, evaluated,
                   effects, lost, counters>>

Reserve(c) ==
    /\ Goto(c, "check", "final life")
    /\ ~Reserved(req[c])
    /\ Commit("Reserved", req[c], "none")
    /\ head' = [head EXCEPT ![c] = Len(history')]
    /\ phase' = [phase EXCEPT ![c] = "final"]
    /\ UNCHANGED <<authority, expired, lock, req, outcome, evaluated, effects, lost, counters>>

\* Runtime.evaluate for the final decision and again before the handoff.
Evaluate(c) ==
    /\ \/ /\ pc[c] = "final life"
          /\ Decide(c, Lifecycle, "final consent", "compare")
          /\ UNCHANGED evaluated
       \/ /\ pc[c] = "final consent"
          /\ Decide(c, Consent, "final cap", "compare")
          /\ UNCHANGED evaluated
       \/ /\ pc[c] = "final cap"
          /\ Decide(c, Capability, "compare", "compare")
          /\ evaluated' = [evaluated EXCEPT ![c] = Len(history)]
    /\ UNCHANGED <<history, authority, expired, lock, req, phase, head, effects, lost, counters>>

\* Mutant: the evaluation is not compared with the snapshot.
ComparedNever(c) == outcome[c]

\* The decision after the comparison with the snapshot (_changed_plan).
Compared(c) == IF Len(history) # head[c] THEN "BLOCK" ELSE outcome[c]

\* record_plan(operation="execution.final") after the first evaluation.
RecordFinal(c) ==
    /\ Goto(c, "compare", "recheck")
    /\ phase[c] = "final"
    /\ outcome' = [outcome EXCEPT ![c] = Compared(c)]
    /\ Commit("Resolved", req[c], Resolution(Compared(c)))
    /\ UNCHANGED <<authority, expired, lock, req, phase, head, evaluated,
                   effects, lost, counters>>

\* Mutant: the recorded decision is used for the handoff.
RecheckOnce(c) ==
    /\ pc[c] = "recheck"
    /\ \/ /\ outcome[c] = "ALLOW" /\ Len(history) = head[c] + 1
          /\ pc' = [pc EXCEPT ![c] = "call"]
          /\ UNCHANGED <<history, lock>>
       \/ /\ outcome[c] # "ALLOW" \/ Len(history) # head[c] + 1
          /\ Leave(c)
          /\ UNCHANGED history
    /\ UNCHANGED <<authority, expired, req, phase, head, outcome, evaluated,
                   effects, lost, counters>>

\* Anything beyond the recorded plan: a callback changed the relationship.
Recheck(c) ==
    /\ pc[c] = "recheck"
    /\ \/ /\ outcome[c] = "ALLOW"
          /\ Len(history) = head[c] + 1
          /\ head' = [head EXCEPT ![c] = Len(history)]
          /\ phase' = [phase EXCEPT ![c] = "last"]
          /\ pc' = [pc EXCEPT ![c] = "final life"]
          /\ UNCHANGED <<history, lock>>
       \/ /\ outcome[c] = "ALLOW"
          /\ Len(history) # head[c] + 1
          /\ Commit("Resolved", req[c], "BLOCKED")
          /\ Leave(c)
          /\ UNCHANGED <<head, phase>>
       \/ /\ outcome[c] # "ALLOW"
          /\ Leave(c)
          /\ UNCHANGED <<history, head, phase>>
    /\ UNCHANGED <<authority, expired, req, outcome, evaluated, effects, lost, counters>>

\* The last evaluation denies, or a callback changed the relationship during it.
DenyLast(c) ==
    /\ pc[c] = "compare"
    /\ phase[c] = "last"
    /\ Compared(c) # "ALLOW"
    /\ Commit("Resolved", req[c], Resolution(Compared(c)))
    /\ Leave(c)
    /\ UNCHANGED <<authority, expired, req, phase, outcome, head, evaluated,
                   effects, lost, counters>>

AllowLast(c) ==
    /\ Goto(c, "compare", "call")
    /\ phase[c] = "last"
    /\ Compared(c) = "ALLOW"
    /\ UNCHANGED <<history, authority, expired, lock, req, phase, outcome, head, evaluated,
                   effects, lost, counters>>

EnterExecutor(c) ==
    /\ Goto(c, "call", "executing")
    /\ effects' = [effects EXCEPT ![req[c]] = @ + 1]
    /\ UNCHANGED <<history, authority, expired, lock, req, phase, outcome, head, evaluated,
                   lost, counters>>

\* Mutant: an exception of the executor leaves execute() unrecorded.
LeaveExecutorRaising(c) ==
    /\ pc[c] = "executing"
    /\ Leave(c)
    /\ UNCHANGED <<history, authority, expired, req, phase, outcome, head, evaluated,
                   effects, lost, counters>>

\* The executor returns or raises; the response is normalized or is unknown.
LeaveExecutor(c) ==
    /\ Goto(c, "executing", "result")
    /\ UNCHANGED <<history, authority, expired, lock, req, phase, outcome, head, evaluated,
                   effects, lost, counters>>

RecordResult(c) ==
    /\ pc[c] = "result"
    /\ \E status \in ResultStatuses : Commit("Result", req[c], status)
    /\ Leave(c)
    /\ UNCHANGED <<authority, expired, req, phase, outcome, head, evaluated,
                   effects, lost, counters>>

-----------------------------------------------------------------------------
\* Faults.

Fault ==
    /\ faults < MaxFaults
    /\ faults' = faults + 1
    /\ UNCHANGED <<history, authority, expired, req, phase, outcome, head, evaluated,
                   effects, attempts, changes>>

\* Storage fails under the guard, a custom engine raises there, or the thread is
\* interrupted (KeyboardInterrupt is no Exception): the innermost execute() is
\* left with no further record.
Abandon(c) ==
    /\ Fault
    /\ pc[c] \in Guarded
    /\ lost' = IF pc[c] \in Running THEN lost \union {req[c]} ELSE lost
    /\ Leave(c)

\* The process ends and is started again on the same database.
Crash ==
    /\ Fault
    /\ owner # NoThread \/ \E c \in Calls : pc[c] # "idle"
    /\ lost' = lost \union {req[c] : c \in {d \in Calls : pc[d] \in Running}}
    /\ pc' = [c \in Calls |-> "idle"]
    /\ owner' = NoThread
    /\ entered' = {}

-----------------------------------------------------------------------------

\* What a call does of its own once execute() is called.
Proceed(c) ==
    \/ Propose(c) \/ Refused(c) \/ PrepareEvaluate(c) \/ ResolveContext(c)
    \/ RecordPrepared(c) \/ Translate(c) \/ RecordFailed(c) \/ AcquireGuard(c)
    \/ RejectDuplicate(c) \/ Reserve(c) \/ Evaluate(c) \/ RecordFinal(c) \/ Recheck(c)
    \/ DenyLast(c) \/ AllowLast(c) \/ EnterExecutor(c) \/ LeaveExecutor(c) \/ RecordResult(c)

Next ==
    \/ OtherCaller
    \/ Expire
    \/ Crash
    \/ \E t \in Threads : EnterGuard(t) \/ ExitGuard(t) \/ Reentrant(t)
    \/ \E c \in Calls :
          /\ ~Suspended(c)
          /\ \/ \E q \in Requests : Execute(c, q)
             \/ Proceed(c)
             \/ Abandon(c)

Spec == Init /\ [][Next]_vars

\* What the guard's owner does next of its own.
HolderStep ==
    \/ \E t \in Threads : ExitGuard(t)
    \/ \E c \in Calls : owner = Thread(c) /\ ~Suspended(c) /\ Proceed(c)

\* The owner of the guard waits for nobody, so the scheduler's running it is
\* enough; that callbacks return is the contract of execution-bridge.md, and that
\* the host leaves its own execution_guard() is the host's.  Nothing is assumed of
\* threads waiting for the lock.
FairSpec == Spec /\ WF_vars(HolderStep)

-----------------------------------------------------------------------------

TypeOK ==
    /\ history \in Seq(Event)
    /\ authority \in Authority
    /\ expired \in BOOLEAN
    /\ owner \in Threads \union {NoThread}
    /\ entered \subseteq 0..MaxDepth
    /\ pc \in [Calls -> {"idle"} \union Preparing \union Guarded]
    /\ req \in [Calls -> Requests]
    /\ phase \in [Calls -> {"prepare", "final", "last"}]
    /\ outcome \in [Calls -> Outcomes]
    /\ head \in [Calls -> Nat]
    /\ evaluated \in [Calls -> Nat]
    /\ effects \in [Requests -> Nat]
    /\ lost \subseteq Requests
    /\ attempts \in Nat /\ changes \in Nat /\ faults \in Nat

\* A request enters an executor at most once, however many threads execute it
\* and however their calls are nested, and also when the process ends in the
\* middle and execute() is called again.
AtMostOnce == \A q \in Requests : effects[q] <= 1

\* Why: only calls of the guard's owner are past the duplicate check, each in a
\* with-block of its own that is still open, ...
GuardExclusive ==
    /\ owner = NoThread <=> entered = {}
    /\ \A c \in Calls : pc[c] \in Guarded <=> owner = Thread(c) /\ Level(c) \in entered

\* ... a call stays in its callback while another is made inside it, ...
Nesting ==
    \A c, d \in Calls : Inside(d, c) /\ pc[d] # "idle" => pc[c] \in Callbacks

ReservedRequests == {q \in Requests : Reserved(q)}

\* ... and each has reserved a request of its own, which up to the handoff has no
\* effect yet.
ReservationInv ==
    /\ \A q \in Requests : effects[q] > 0 => q \in ReservedRequests
    /\ \A c \in Calls : pc[c] \in Held => req[c] \in ReservedRequests
    /\ \A c \in Calls : pc[c] \in Held \ Running => effects[req[c]] = 0
    /\ \A c, d \in Calls : pc[c] \in Held /\ pc[d] \in Held /\ req[c] = req[d] => c = d

\* What the evaluation has found so far still holds as long as nothing was
\* committed since the snapshot, and at the handoff it holds outright.
EvaluationInv ==
    \A c \in Calls :
        /\ pc[c] \in {"final life", "final consent", "final cap", "compare", "recheck"} =>
              head[c] <= Len(history)
        /\ pc[c] \in {"final consent", "final cap"} /\ Len(history) = head[c] =>
              authority.life = "ACTIVE"
        /\ pc[c] = "final cap" /\ Len(history) = head[c] =>
              authority.consent /\ ~authority.reconsent
        /\ pc[c] = "compare" /\ Compared(c) = "ALLOW" => Authorized
        /\ pc[c] = "call" => Authorized

\* An executor that was entered is on durable record: a reservation and, after
\* it, an AUTHORIZED resolution of the same request.  A crash cannot leave an
\* effect that the history does not warn about.
EntryOnRecord ==
    \A q \in Requests : effects[q] > 0 =>
        \E i, j \in 1..Len(history) :
            /\ i < j
            /\ history[i].type = "Reserved" /\ history[i].req = q
            /\ history[j].type = "Resolved" /\ history[j].req = q
            /\ history[j].status = "AUTHORIZED"

\* A result is recorded only for a request whose executor was entered, once.
ResultOfEntry ==
    \A i \in 1..Len(history) : history[i].type = "Result" =>
        /\ effects[history[i].req] > 0
        /\ \A j \in 1..Len(history) :
              history[j].type = "Result" /\ history[j].req = history[i].req => j = i

\* Every entry has its result, is still running, or was cut off by a fault.
EntryAccountedFor ==
    \A q \in Requests : effects[q] > 0 =>
        \/ Has("Result", q)
        \/ q \in lost
        \/ \E c \in Calls : req[c] = q /\ pc[c] \in Running

\* The history tells of every effect, before it and after, and of no other.
EffectsOnRecord == EntryOnRecord /\ ResultOfEntry /\ EntryAccountedFor

Entering == \E q \in Requests : effects'[q] > effects[q]

\* An executor is entered only when the relationship authorizes it at that
\* moment, whatever was revoked, dissolved or put under re-consent since the
\* request was prepared, translated or finally evaluated.
EntryAuthorized == [][Entering => Authorized]_vars

\* "Last check follows ALL preparation and store callbacks.  No further writes
\* or extension callbacks occur between this check and entry": the entering
\* call read the permission, and its expiry, after the last commit.
LastCheckIsLast ==
    [][\A c \in Calls : pc[c] = "call" /\ pc'[c] = "executing" =>
          evaluated[c] = Len(history)]_vars

\* A thread that holds the guard releases it: no path of execute(), nested or
\* not, keeps the relationship locked for everybody else.
GuardReleased == owner # NoThread ~> owner = NoThread

\* An entered executor is followed by a recorded result unless a fault ends
\* the attempt.
EntryAnswered ==
    \A q \in Requests : effects[q] > 0 ~> Has("Result", q) \/ q \in lost

\* What a request has come to that no call holds under the guard.
Settled(q) ==
    IF effects[q] > 0 THEN IF Has("Result", q) THEN "answered" ELSE "lost"
    ELSE IF Reserved(q) THEN "withdrawn" ELSE "new"

\* How far a request is, for the host.
Stage(q) ==
    IF \E c \in Calls : req[c] = q /\ pc[c] \in Running THEN "running"
    ELSE IF \E c \in Calls : req[c] = q /\ pc[c] \in Held THEN "reserved"
    ELSE Settled(q)

\* The requests in hand whose callbacks the holder of q was called in.
Around(q) ==
    {req[c] : c \in {d \in Calls : /\ pc[d] \in Held
                                  /\ \E e \in Calls : /\ pc[e] \in Held /\ req[e] = q
                                                       /\ Inside(e, d)}}

\* The bridge hands requests off as module Handoff says: each in its order, a
\* request made in a callback settled before the one around it goes on, and
\* never again one that was withdrawn or lost, whatever crashes and is called
\* again.
Abstract == INSTANCE Handoff WITH
    stage <- [q \in Requests |-> Stage(q)],
    around <- [q \in Requests |-> Around(q)],
    entries <- effects
ImplementsHandoff == Abstract!Spec

=============================================================================
