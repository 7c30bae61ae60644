----------------------------- MODULE ReplayProofs -----------------------------
(***************************************************************************)
(* Proofs about Replay.  A copy is only ever extended, so what a listing   *)
(* saw stays the beginning of it; the events of a bundle that verifies are *)
(* those of the export it came from, because the projection names the last *)
(* of them; and while a thread holds the guard of a store nobody else      *)
(* commits in it.                                                          *)
(***************************************************************************)
EXTENDS Replay, TLAPS

PCs == {"idle", "allow", "deny", "list", "reduce", "append", "check"}

Fresh(kind, h) == [id |-> nextId + 1, kind |-> kind, prev |-> HeadId(h), intact |-> TRUE]

-----------------------------------------------------------------------------
\* Types.

LEMMA HeadType ==
    ASSUME NEW h \in Seq(Event)
    PROVE  /\ HeadId(h) \in Nat
           /\ HeadId(h) = 0 => h = << >>
<1>1. CASE h = << >>
  BY <1>1 DEF HeadId
<1>2. CASE h # << >>
  <2>1. h[Len(h)] \in Event
    BY <1>2
  <2>2. h[Len(h)].id \in Nat \ {0}
    BY <2>1 DEF Event, Positive
  <2> QED
    BY <1>2, <2>2 DEF HeadId
<1> QED
  BY <1>1, <1>2

LEMMA ProjectType ==
    ASSUME NEW h \in Seq(Event)
    PROVE  Project(h) \in Projection
<1>1. (Rooted(h) /\ ChainValid(h)) \in BOOLEAN
  OBVIOUS
<1>2. OpenAt(h, Len(h)) \in BOOLEAN
  BY DEF OpenAt
<1>3. HeadId(h) \in Nat
  BY HeadType
<1> QED
  BY <1>1, <1>2, <1>3 DEF Project, Projection

LEMMA NoDraftType == NoDraft \in Draft
<1>1. << >> \in Seq(Event)
  OBVIOUS
<1>2. NoBundle \in Bundle
  BY <1>1, ProjectType DEF NoBundle, Bundle
<1> QED
  BY <1>2, ReplayAssumption DEF NoDraft, Draft

LEMMA FinishType ==
    ASSUME TypeOK, NEW t \in Threads, Finish(t)
    PROVE  /\ pc' \in [Threads -> PCs]
           /\ draft' \in [Threads -> Draft]
           /\ pc'[t] = "idle"
           /\ \A u \in Threads : u # t => pc'[u] = pc[u] /\ draft'[u] = draft[u]
BY NoDraftType DEF TypeOK, Finish, PCs

\* A commit adds one event, which names the last one and is new.
LEMMA CommitEffect ==
    ASSUME TypeOK, NEW t \in Threads, NEW s \in Stores, NEW kind \in Kinds, Commit(t, s, kind)
    PROVE  /\ Fresh(kind, log[s]) \in Event
           /\ log' \in [Stores -> Seq(Event)]
           /\ log'[s] = Append(log[s], Fresh(kind, log[s]))
           /\ \A q \in Stores : q # s => log'[q] = log[q]
           /\ nextId' = nextId + 1
           /\ nextId' \in Positive
           /\ owner[s] \in {NoThread, t}
<1>1. log \in [Stores -> Seq(Event)] /\ nextId \in Positive
  BY DEF TypeOK
<1>2. HeadId(log[s]) \in Nat
  BY <1>1, HeadType
<1>3. Fresh(kind, log[s]) \in Event
  BY <1>1, <1>2 DEF Fresh, Event, Positive
<1>4. log' = [log EXCEPT ![s] = Append(log[s], Fresh(kind, log[s]))]
  BY <1>1 DEF Commit, Fresh
<1>5. Append(log[s], Fresh(kind, log[s])) \in Seq(Event)
  BY <1>1, <1>3
<1> QED
  BY <1>1, <1>3, <1>4, <1>5 DEF Commit, CanLock, Positive

LEMMA BuiltType ==
    ASSUME TypeOK, NEW t \in Threads
    PROVE  /\ Built(t) \in Bundle
           /\ Built(t).events = draft[t].bundle.events
           /\ Built(t).projection = Project(log[draft[t].store])
<1>1. draft[t] \in Draft
  BY DEF TypeOK
<1>2. draft[t].bundle \in Bundle /\ draft[t].store \in Stores
  BY <1>1 DEF Draft
<1>3. log[draft[t].store] \in Seq(Event)
  BY <1>2 DEF TypeOK
<1>4. Project(log[draft[t].store]) \in Projection
  BY <1>3, ProjectType
<1> QED
  BY <1>2, <1>4 DEF Built, Bundle

\* What may become of a bundle is a bundle.
LEMMA DamagedType ==
    ASSUME exports \subseteq Export, NEW b \in Bundle, NEW d \in Damaged(b)
    PROVE  d \in Bundle
<1>1. b.events \in Seq(Event) /\ b.projection \in Projection
  BY DEF Bundle
<1>2. CASE d \in {[b EXCEPT !.events = SubSeq(@, 1, n)] : n \in 0..Len(b.events)}
  <2>1. PICK n \in 0..Len(b.events) : d = [b EXCEPT !.events = SubSeq(b.events, 1, n)]
    BY <1>2
  <2>2. SubSeq(b.events, 1, n) \in Seq(Event)
    BY <1>1
  <2> QED
    BY <1>1, <2>1, <2>2 DEF Bundle
<1>3. CASE d \in {[b EXCEPT !.events = SubSeq(@, 2, Len(@))]}
  <2>1. SubSeq(b.events, 2, Len(b.events)) \in Seq(Event)
    BY <1>1
  <2> QED
    BY <1>1, <1>3, <2>1 DEF Bundle
<1>4. CASE d \in {[b EXCEPT !.events[i].intact = FALSE] : i \in 1..Len(b.events)}
  <2>1. PICK i \in 1..Len(b.events) :
           d = [b EXCEPT !.events = [b.events EXCEPT ![i] = [b.events[i] EXCEPT !.intact = FALSE]]]
    BY <1>4
  <2>2. b.events[i] \in Event
    BY <1>1
  <2>3. [b.events[i] EXCEPT !.intact = FALSE] \in Event
    BY <2>2 DEF Event
  <2>4. [b.events EXCEPT ![i] = [b.events[i] EXCEPT !.intact = FALSE]] \in Seq(Event)
    BY <1>1, <2>3
  <2> QED
    BY <1>1, <2>1, <2>4 DEF Bundle
<1>5. CASE d \in {[b EXCEPT !.projection = x.bundle.projection] : x \in exports}
  <2>1. PICK x \in exports : d = [b EXCEPT !.projection = x.bundle.projection]
    BY <1>5
  <2>2. x.bundle.projection \in Projection
    BY <2>1 DEF Export, Bundle
  <2> QED
    BY <1>1, <2>1, <2>2 DEF Bundle
<1> QED
  BY <1>2, <1>3, <1>4, <1>5 DEF Damaged

LEMMA SubmittedType ==
    ASSUME TypeOK, NEW b \in Submitted
    PROVE  b \in Bundle
<1>1. PICK x \in exports : b \in Damaged(x.bundle)
  BY DEF Submitted
<1>2. exports \subseteq Export /\ x.bundle \in Bundle
  BY DEF TypeOK, Export
<1> QED
  BY <1>1, <1>2, DamagedType

LEMMA InitType == Init => TypeOK
<1> SUFFICES ASSUME Init PROVE TypeOK
  OBVIOUS
<1>1. [id |-> 1, kind |-> "created", prev |-> 0, intact |-> TRUE] \in Event
  BY DEF Event, Kinds, Positive
<1>2. log \in [Stores -> Seq(Event)]
  BY <1>1 DEF Init
<1>3. restored \in [Stores -> Seq(Bundle)]
  BY DEF Init
<1> QED
  BY <1>2, <1>3, NoDraftType DEF Init, TypeOK, Positive

LEMMA TypeStep ==
    ASSUME TypeOK, [Next]_vars
    PROVE  TypeOK'
<1>1. CASE UNCHANGED vars
  BY <1>1 DEF vars, TypeOK
<1>2. ASSUME NEW t \in Threads, Step(t)
      PROVE  TypeOK'
  <2>1. ASSUME NEW s \in Stores, NEW kind \in {"granted", "revoked"}, GrantOrRevoke(t, s, kind)
        PROVE  TypeOK'
    <3>1. kind \in Kinds /\ Commit(t, s, kind)
      BY <2>1 DEF Kinds, GrantOrRevoke
    <3> QED
      BY <2>1, <3>1, CommitEffect DEF TypeOK, GrantOrRevoke
  <2>2. ASSUME NEW s \in Stores, CheckDisclose(t, s)
        PROVE  TypeOK'
    <3>1. draft' \in [Threads -> Draft]
      BY <2>2 DEF TypeOK, CheckDisclose, Draft
    <3>2. pc' \in [Threads -> PCs]
      BY <2>2 DEF TypeOK, CheckDisclose, Goto, PCs
    <3> QED
      BY <2>2, <3>1, <3>2 DEF TypeOK, CheckDisclose, PCs
  <2>3. CASE RecordDenial(t)
    <3>1. Commit(t, draft[t].store, "denied") /\ "denied" \in Kinds /\ Finish(t)
      BY <2>3 DEF RecordDenial, Kinds
    <3>2. draft[t].store \in Stores
      BY DEF TypeOK, Draft
    <3> QED
      BY <2>3, <3>1, <3>2, CommitEffect, FinishType DEF TypeOK, RecordDenial, PCs
  <2>4. CASE RecordAllow(t)
    <3>1. Commit(t, draft[t].store, "allowed") /\ "allowed" \in Kinds
      BY <2>4 DEF RecordAllow, Kinds
    <3>2. draft[t].store \in Stores /\ draft \in [Threads -> Draft]
      BY DEF TypeOK, Draft
    <3>3. log' \in [Stores -> Seq(Event)] /\ nextId' \in Positive
      BY <3>1, <3>2, CommitEffect
    <3>4. draft' \in [Threads -> Draft]
      BY <2>4, <3>2, <3>3 DEF RecordAllow, Draft, Positive
    <3>5. pc' \in [Threads -> PCs]
      BY <2>4 DEF TypeOK, RecordAllow, Goto, PCs
    <3> QED
      BY <2>4, <3>3, <3>4, <3>5 DEF TypeOK, RecordAllow, PCs
  <2>5. CASE ListEvents(t)
    <3>1. draft[t] \in Draft /\ draft \in [Threads -> Draft]
      BY DEF TypeOK
    <3>2. draft[t].bundle \in Bundle /\ log[draft[t].store] \in Seq(Event)
      BY <3>1 DEF Draft, TypeOK
    <3>3. [draft[t].bundle EXCEPT !.events = log[draft[t].store]] \in Bundle
      BY <3>2 DEF Bundle
    <3>4. draft' \in [Threads -> Draft]
      BY <2>5, <3>1, <3>3 DEF ListEvents, Draft
    <3>5. pc' \in [Threads -> PCs]
      BY <2>5 DEF TypeOK, ListEvents, Goto, PCs
    <3> QED
      BY <2>5, <3>4, <3>5 DEF TypeOK, ListEvents, PCs
  <2>6. CASE ReduceState(t)
    <3>1. draft[t].decision \in Nat
      BY DEF TypeOK, Draft
    <3>2. [bundle |-> Built(t), decision |-> draft[t].decision] \in Export
      BY <3>1, BuiltType DEF Export
    <3>3. exports' \subseteq Export
      BY <2>6, <3>2 DEF ReduceState, TypeOK
    <3>4. Finish(t)
      BY <2>6 DEF ReduceState
    <3> QED
      BY <2>6, <3>3, <3>4, FinishType DEF TypeOK, ReduceState, PCs
  <2>7. ASSUME NEW s \in Stores, NEW b \in Submitted, BeginImport(t, s, b)
        PROVE  TypeOK'
    <3>1. b \in Bundle
      BY SubmittedType
    <3>2. draft' \in [Threads -> Draft]
      BY <2>7, <3>1 DEF TypeOK, BeginImport, Draft
    <3>3. pc' \in [Threads -> PCs]
      BY <2>7 DEF TypeOK, BeginImport, Goto, PCs
    <3> QED
      BY <2>7, <3>2, <3>3 DEF TypeOK, BeginImport, PCs
  <2>8. CASE AppendEvents(t)
    <3>1. draft[t].store \in Stores /\ draft[t].bundle \in Bundle
      BY DEF TypeOK, Draft
    <3>2. log[draft[t].store] \o draft[t].bundle.events \in Seq(Event)
      BY <3>1 DEF TypeOK, Bundle
    <3>3. log' \in [Stores -> Seq(Event)]
      BY <2>8, <3>1, <3>2 DEF TypeOK, AppendEvents
    <3> QED
      BY <2>8, <3>3 DEF TypeOK, AppendEvents, Goto
  <2>9. CASE RefuseAppend(t) \/ Raise(t)
    <3>1. Finish(t)
      BY <2>9 DEF RefuseAppend, Raise
    <3> QED
      BY <2>9, <3>1, FinishType DEF TypeOK, RefuseAppend, Raise, PCs
  <2>10. CASE CheckRestored(t)
    <3>1. draft[t].store \in Stores /\ draft[t].bundle \in Bundle
      BY DEF TypeOK, Draft
    <3>2. Append(restored[draft[t].store], draft[t].bundle) \in Seq(Bundle)
      BY <3>1 DEF TypeOK
    <3>3. restored' \in [Stores -> Seq(Bundle)]
      BY <2>10, <3>1, <3>2 DEF TypeOK, CheckRestored
    <3>4. Finish(t)
      BY <2>10 DEF CheckRestored
    <3> QED
      BY <2>10, <3>3, <3>4, FinishType DEF TypeOK, CheckRestored, PCs
  <2>11. ASSUME NEW s \in Stores, EnterGuard(t, s) \/ ExitGuard(t, s)
         PROVE  TypeOK'
    BY <2>11 DEF TypeOK, EnterGuard, ExitGuard
  <2> QED
    BY <1>2, <2>1, <2>2, <2>3, <2>4, <2>5, <2>6, <2>7, <2>8, <2>9, <2>10, <2>11 DEF Step
<1> QED
  BY <1>1, <1>2 DEF Next

-----------------------------------------------------------------------------
\* Histories that are extended.

Distinct(h) == \A i, j \in 1..Len(h) : h[i].id = h[j].id => i = j
Sound(h) == Rooted(h) /\ ChainValid(h) /\ Distinct(h)
KnownIds(h) == \A i \in 1..Len(h) : h[i].id <= nextId

LEMMA AppendSound ==
    ASSUME TypeOK, NEW h \in Seq(Event), Sound(h), KnownIds(h),
           NEW kind \in Kinds \ {"created"}, Fresh(kind, h) \in Event
    PROVE  /\ Sound(Append(h, Fresh(kind, h)))
           /\ StartsWith(Append(h, Fresh(kind, h)), h)
<1> DEFINE e == Fresh(kind, h)
           g == Append(h, e)
<1>1. /\ g \in Seq(Event)
      /\ Len(h) \in Nat /\ Len(g) = Len(h) + 1
      /\ \A i \in 1..Len(h) : g[i] = h[i]
      /\ g[Len(h) + 1] = e
  OBVIOUS
<1>2. /\ e.id = nextId + 1 /\ e.kind = kind /\ e.intact = TRUE
      /\ e.prev = HeadId(h)
  BY DEF Fresh
<1>3. h # << >> /\ Len(h) > 0
  BY DEF Sound, Rooted
<1>4. Rooted(g)
  <2>1. ASSUME NEW i \in 1..Len(g)
        PROVE  g[i].kind = "created" <=> i = 1
    BY <1>1, <1>2, <1>3 DEF Sound, Rooted
  <2> QED
    BY <2>1, <1>1 DEF Rooted
<1>5. ChainValid(g)
  <2>1. ASSUME NEW i \in 1..Len(g)
        PROVE  g[i].intact /\ g[i].prev = (IF i = 1 THEN 0 ELSE g[i - 1].id)
    <3>1. CASE i \in 1..Len(h)
      <4>1. g[i] = h[i] /\ (i # 1 => g[i - 1] = h[i - 1])
        BY <1>1, <3>1
      <4>2. h[i].intact /\ h[i].prev = (IF i = 1 THEN 0 ELSE h[i - 1].id)
        BY <3>1 DEF Sound, ChainValid
      <4> QED
        BY <4>1, <4>2
    <3>2. CASE i = Len(h) + 1
      <4>1. i # 1 /\ i - 1 = Len(h) /\ g[i - 1] = h[Len(h)]
        BY <1>1, <1>3, <3>2
      <4>2. HeadId(h) = h[Len(h)].id
        BY <1>3 DEF HeadId
      <4> QED
        BY <1>1, <1>2, <3>2, <4>1, <4>2
    <3> QED
      BY <1>1, <3>1, <3>2
  <2> QED
    BY <2>1 DEF ChainValid
<1>6. Distinct(g)
  <2>1. \A i \in 1..Len(h) : h[i].id \in Nat /\ h[i].id <= nextId
    <3>1. \A i \in 1..Len(h) : h[i] \in Event
      OBVIOUS
    <3> QED
      BY <3>1 DEF KnownIds, Event, Positive
  <2>2. nextId \in Nat
    BY DEF TypeOK, Positive
  <2>3. ASSUME NEW i \in 1..Len(g), NEW j \in 1..Len(g), g[i].id = g[j].id
        PROVE  i = j
    <3>1. CASE i \in 1..Len(h) /\ j \in 1..Len(h)
      BY <1>1, <2>3, <3>1 DEF Sound, Distinct
    <3>2. CASE i \notin 1..Len(h) /\ j \in 1..Len(h)
      BY <1>1, <1>2, <2>1, <2>2, <2>3, <3>2
    <3>3. CASE i \in 1..Len(h) /\ j \notin 1..Len(h)
      BY <1>1, <1>2, <2>1, <2>2, <2>3, <3>3
    <3>4. CASE i \notin 1..Len(h) /\ j \notin 1..Len(h)
      BY <1>1, <3>4
    <3> QED
      BY <3>1, <3>2, <3>3, <3>4
  <2> QED
    BY <2>3 DEF Distinct
<1>7. StartsWith(g, h)
  BY <1>1 DEF StartsWith
<1> QED
  BY <1>4, <1>5, <1>6, <1>7 DEF Sound

LEMMA PrefixSound ==
    ASSUME NEW h \in Seq(Event), NEW g \in Seq(Event), Sound(h), StartsWith(h, g), g # << >>
    PROVE  Sound(g)
<1>1. /\ Len(g) \in Nat /\ Len(h) \in Nat /\ Len(g) <= Len(h)
      /\ \A i \in 1..Len(g) : g[i] = h[i] /\ i \in 1..Len(h)
  BY DEF StartsWith
<1>2. Rooted(g)
  BY <1>1 DEF Sound, Rooted
<1>3. ChainValid(g)
  <2>1. ASSUME NEW i \in 1..Len(g)
        PROVE  g[i].intact /\ g[i].prev = (IF i = 1 THEN 0 ELSE g[i - 1].id)
    <3>1. i # 1 => g[i - 1] = h[i - 1]
      BY <1>1
    <3>2. h[i].intact /\ h[i].prev = (IF i = 1 THEN 0 ELSE h[i - 1].id)
      BY <1>1 DEF Sound, ChainValid
    <3> QED
      BY <1>1, <3>1, <3>2
  <2> QED
    BY <2>1 DEF ChainValid
<1>4. Distinct(g)
  BY <1>1 DEF Sound, Distinct
<1> QED
  BY <1>2, <1>3, <1>4 DEF Sound

LEMMA StartsWithTrans ==
    ASSUME NEW f \in Seq(Event), NEW g \in Seq(Event), NEW h \in Seq(Event),
           StartsWith(h, g), StartsWith(g, f)
    PROVE  StartsWith(h, f)
<1>1. Len(f) \in Nat /\ Len(g) \in Nat /\ Len(h) \in Nat
  OBVIOUS
<1> QED
  BY <1>1 DEF StartsWith

\* What was open after n events stays so in every continuation.
LEMMA OpenStable ==
    ASSUME NEW h \in Seq(Event), NEW g \in Seq(Event), StartsWith(h, g), NEW n \in 0..Len(g)
    PROVE  OpenAt(h, n) <=> OpenAt(g, n)
<1>1. Len(g) \in Nat /\ Len(h) \in Nat /\ \A i \in 1..n : h[i] = g[i]
  BY DEF StartsWith
<1>2. \A i \in 1..n : \A j \in (i + 1)..n : h[j] = g[j]
  BY <1>1
<1> QED
  BY <1>1, <1>2 DEF OpenAt

-----------------------------------------------------------------------------
\* The inductive invariant.

Copies ==
    /\ log[Home] # << >>
    /\ \A s \in Stores : KnownIds(log[s]) /\ (log[s] # << >> => Sound(log[s]))
    /\ \A t \in Threads :
          pc[t] \in {"allow", "deny", "list", "reduce"} => log[draft[t].store] # << >>

\* The events of a bundle are sound, and its projection names none of them but
\* the last: it may be later than they are, never earlier.
Whole(b) ==
    /\ Sound(b.events) /\ KnownIds(b.events)
    /\ \A n \in 1..Len(b.events) : b.events[n].id = b.projection.last => n = Len(b.events)

Bundles ==
    /\ \A x \in exports : Whole(x.bundle)
    /\ \A t \in Threads : pc[t] = "reduce" =>
          /\ draft[t].bundle.events # << >>
          /\ StartsWith(log[draft[t].store], draft[t].bundle.events)
    /\ \A t \in Threads : pc[t] \in {"append", "check"} =>
          \E x \in exports : draft[t].bundle.events = x.bundle.events

OnRecord(h, id) ==
    \E d \in 1..Len(h) :
        h[d].id = id /\ h[d].kind = "allowed" /\ \E n \in 0..(d - 1) : OpenAt(h, n)

Record ==
    \A t \in Threads :
        LET h == log[draft[t].store]
        IN  /\ pc[t] = "allow" => \E n \in 0..Len(h) : OpenAt(h, n)
            /\ pc[t] = "list" => OnRecord(h, draft[t].decision)
            /\ pc[t] = "reduce" => OnRecord(draft[t].bundle.events, draft[t].decision)

Current(h, id) == HeadId(h) = id /\ OpenAt(h, Len(h))

\* In the guard nothing is added between the steps of an export.
Guarded ==
    \A t \in Threads :
        LET h == log[draft[t].store]
        IN  owner[draft[t].store] = t =>
            /\ pc[t] = "allow" => OpenAt(h, Len(h))
            /\ pc[t] = "list" => Current(h, draft[t].decision)
            /\ pc[t] = "reduce" =>
                  draft[t].bundle.events = h /\ Current(h, draft[t].decision)

\* Who checks a restored store is the only one to have restored it.
Reported ==
    /\ \A s \in Stores :
          /\ log[s] = << >> => restored[s] = << >>
          /\ \A t \in Threads : pc[t] = "check" /\ draft[t].store = s =>
                /\ log[s] # << >> /\ restored[s] = << >>
                /\ StartsWith(log[s], draft[t].bundle.events)
    /\ \A t, u \in Threads :
          pc[t] = "check" /\ pc[u] = "check" /\ draft[t].store = draft[u].store => t = u

IInv ==
    /\ TypeOK /\ Copies /\ Bundles /\ Record /\ Guarded /\ Reported
    /\ RestoredFromExport /\ ExportOnRecord /\ ReportedOnce

LEMMA Types ==
    ASSUME TypeOK
    PROVE  /\ \A s \in Stores : log[s] \in Seq(Event)
           /\ \A t \in Threads :
                /\ draft[t].store \in Stores /\ log[draft[t].store] \in Seq(Event)
                /\ draft[t].bundle \in Bundle /\ draft[t].bundle.events \in Seq(Event)
           /\ \A x \in exports : x.bundle \in Bundle /\ x.bundle.events \in Seq(Event)
           /\ nextId \in Nat
<1>1. \A t \in Threads : draft[t].store \in Stores /\ draft[t].bundle \in Bundle
  BY DEF TypeOK, Draft
<1>2. \A x \in exports : x.bundle \in Bundle
  BY DEF TypeOK, Export
<1> QED
  BY <1>1, <1>2 DEF TypeOK, Bundle, Positive

\* A step of another thread leaves a thread's locals alone.
LEMMA Locals ==
    ASSUME TypeOK, NEW u \in Threads, Step(u), NEW t \in Threads, t # u
    PROVE  pc'[t] = pc[t] /\ draft'[t] = draft[t]
<1>1. pc \in [Threads -> PCs] /\ draft \in [Threads -> Draft]
  BY DEF TypeOK, PCs
<1> QED
  BY <1>1 DEF Step, GrantOrRevoke, CheckDisclose, RecordDenial, RecordAllow, ListEvents,
              ReduceState, BeginImport, AppendEvents, RefuseAppend, CheckRestored, Raise,
              EnterGuard, ExitGuard, Finish, Goto

\* What a step does to a copy: nothing, one event more on a copy that is not
\* empty, or a restored history in an empty one.
Extended(s) ==
    \E kind \in Kinds \ {"created"} :
        /\ log[s] # << >>
        /\ Fresh(kind, log[s]) \in Event
        /\ log'[s] = Append(log[s], Fresh(kind, log[s]))
        /\ nextId' = nextId + 1

Restored(t, s) ==
    /\ AppendEvents(t)
    /\ draft[t].store = s
    /\ log[s] = << >>
    /\ log'[s] = draft[t].bundle.events
    /\ nextId' = nextId

LEMMA CommitExtends ==
    ASSUME TypeOK, NEW u \in Threads, NEW q \in Stores, NEW kind \in Kinds \ {"created"},
           Commit(u, q, kind), log[q] # << >>, NEW s \in Stores
    PROVE  /\ nextId <= nextId'
           /\ log'[s] = log[s] \/ (Extended(s) /\ owner[s] \in {NoThread, u})
<1>1. nextId \in Nat
  BY Types
<1> QED
  BY <1>1, CommitEffect DEF Extended

\* A restored batch has a root, so it fits an empty history only.
LEMMA AppendRestores ==
    ASSUME TypeOK, Copies, Bundles, NEW u \in Threads, AppendEvents(u)
    PROVE  LET q == draft[u].store
           IN  /\ Restored(u, q) /\ owner[q] \in {NoThread, u}
               /\ draft[u].bundle.events # << >>
               /\ \A s \in Stores : s # q => log'[s] = log[s]
<1> DEFINE q == draft[u].store
           events == draft[u].bundle.events
<1>1. q \in Stores /\ log[q] \in Seq(Event) /\ events \in Seq(Event)
  BY Types
<1>2. pc[u] = "append" /\ Appendable(log[q], events) /\ owner[q] \in {NoThread, u}
      /\ log' = [log EXCEPT ![q] = log[q] \o events] /\ nextId' = nextId
  BY DEF AppendEvents, Goto, CanLock
<1>3. Sound(events)
  <2>1. PICK x \in exports : events = x.bundle.events
    BY <1>2 DEF Bundles
  <2> QED
    BY <2>1 DEF Bundles, Whole
<1>4. events # << >> /\ 1 \in 1..Len(events)
  BY <1>1, <1>3 DEF Sound, Rooted
<1>5. events[1].prev = 0 /\ events[1].prev = HeadId(log[q])
  BY <1>2, <1>3, <1>4 DEF Sound, ChainValid, Appendable
<1>6. log[q] = << >>
  BY <1>1, <1>5, HeadType
<1>7. log[q] \o events = events
  BY <1>1, <1>6
<1>8. log'[q] = events /\ \A s \in Stores : s # q => log'[s] = log[s]
  BY <1>1, <1>2, <1>7 DEF TypeOK
<1> QED
  BY <1>2, <1>4, <1>6, <1>8 DEF Restored

LEMMA LogStep ==
    ASSUME TypeOK, Copies, Bundles, NEW u \in Threads, Step(u), NEW s \in Stores
    PROVE  /\ nextId <= nextId'
           /\ \/ log'[s] = log[s]
              \/ Extended(s) /\ owner[s] \in {NoThread, u}
              \/ Restored(u, s) /\ owner[s] \in {NoThread, u}
<1>1. nextId \in Nat
  BY Types
<1>2. ASSUME NEW q \in Stores, NEW kind \in {"granted", "revoked"}, GrantOrRevoke(u, q, kind)
      PROVE  nextId <= nextId' /\ (log'[s] = log[s] \/ (Extended(s) /\ owner[s] \in {NoThread, u}))
  <2>1. Commit(u, q, kind) /\ log[q] # << >> /\ kind \in Kinds \ {"created"}
    BY <1>2 DEF GrantOrRevoke, Kinds
  <2> QED
    BY <2>1, CommitExtends
<1>3. ASSUME RecordDenial(u) \/ RecordAllow(u)
      PROVE  nextId <= nextId' /\ (log'[s] = log[s] \/ (Extended(s) /\ owner[s] \in {NoThread, u}))
  <2>1. PICK kind \in Kinds \ {"created"} : Commit(u, draft[u].store, kind)
    BY <1>3 DEF RecordDenial, RecordAllow, Kinds
  <2>2. draft[u].store \in Stores /\ log[draft[u].store] # << >>
    BY <1>3, Types DEF Copies, RecordDenial, RecordAllow, Goto
  <2> QED
    BY <2>1, <2>2, CommitExtends
<1>4. CASE AppendEvents(u)
  <2>1. nextId' = nextId
    BY <1>4, AppendRestores DEF Restored
  <2> QED
    BY <1>1, <1>4, <2>1, AppendRestores
<1>5. CASE UNCHANGED <<log, nextId>>
  BY <1>1, <1>5
<1> QED
  BY <1>2, <1>3, <1>4, <1>5 DEF Step, CheckDisclose, ListEvents, ReduceState, BeginImport,
      RefuseAppend, CheckRestored, Raise, EnterGuard, ExitGuard

LEMMA Grows ==
    ASSUME TypeOK, Copies, Bundles, NEW u \in Threads, Step(u), NEW s \in Stores
    PROVE  /\ StartsWith(log'[s], log[s])
           /\ log[s] # << >> => log'[s] # << >>
           /\ log'[s] \in Seq(Event)
<1>1. log[s] \in Seq(Event) /\ log'[s] \in Seq(Event)
  <2>1. TypeOK'
    BY TypeStep DEF Next
  <2> QED
    BY <2>1 DEF TypeOK
<1>2. CASE log'[s] = log[s]
  BY <1>1, <1>2 DEF StartsWith
<1>3. CASE Extended(s)
  <2>1. PICK e \in Event : log'[s] = Append(log[s], e)
    BY <1>3 DEF Extended
  <2> QED
    BY <1>1, <2>1 DEF StartsWith
<1>4. CASE Restored(u, s)
  <2>1. log[s] = << >>
    BY <1>4 DEF Restored
  <2> QED
    BY <1>1, <2>1 DEF StartsWith
<1> QED
  BY <1>1, <1>2, <1>3, <1>4, LogStep

\* Whoever is on the way of an export in the next state was so, or begins now.
LEMMA ExportPaths ==
    ASSUME TypeOK, NEW u \in Threads, Step(u), NEW t \in Threads
    PROVE  /\ pc'[t] = "allow" =>
                \/ pc[t] = "allow" /\ draft'[t] = draft[t] /\ t # u
                \/ t = u /\ CheckDisclose(t, draft'[t].store) /\ draft'[t].store \in Stores
                     /\ OpenAt(log[draft'[t].store], Len(log[draft'[t].store]))
           /\ pc'[t] = "deny" =>
                \/ pc[t] = "deny" /\ draft'[t] = draft[t] /\ t # u
                \/ t = u /\ CheckDisclose(t, draft'[t].store) /\ draft'[t].store \in Stores
           /\ pc'[t] = "list" =>
                \/ pc[t] = "list" /\ draft'[t] = draft[t] /\ t # u
                \/ t = u /\ RecordAllow(t)
           /\ pc'[t] = "reduce" =>
                \/ pc[t] = "reduce" /\ draft'[t] = draft[t] /\ t # u
                \/ t = u /\ ListEvents(t)
           /\ pc'[t] = "append" =>
                \/ pc[t] = "append" /\ draft'[t] = draft[t] /\ t # u
                \/ t = u /\ \E s \in Stores, b \in Submitted : BeginImport(t, s, b)
           /\ pc'[t] = "check" =>
                \/ pc[t] = "check" /\ draft'[t] = draft[t] /\ t # u
                \/ t = u /\ AppendEvents(t)
<1>1. CASE t # u
  BY <1>1, Locals
<1>2. CASE t = u
  <2>0. pc \in [Threads -> PCs] /\ draft \in [Threads -> Draft]
    BY DEF TypeOK, PCs
  <2>1. ASSUME NEW s \in Stores, CheckDisclose(t, s)
        PROVE  /\ draft'[t].store = s /\ pc'[t] \in {"allow", "deny"}
               /\ pc'[t] = "allow" => OpenAt(log[s], Len(log[s]))
    BY <2>0, <2>1 DEF CheckDisclose, Goto, Draft
  <2>2. ASSUME NEW s \in Stores, \/ \E kind \in {"granted", "revoked"} : GrantOrRevoke(t, s, kind)
                                 \/ EnterGuard(t, s) \/ ExitGuard(t, s)
        PROVE  pc'[t] = "idle"
    BY <2>2 DEF GrantOrRevoke, EnterGuard, ExitGuard
  <2>3. ASSUME RecordDenial(t) \/ ReduceState(t) \/ RefuseAppend(t) \/ CheckRestored(t) \/ Raise(t)
        PROVE  pc'[t] = "idle"
    BY <2>0, <2>3 DEF RecordDenial, ReduceState, RefuseAppend, CheckRestored, Raise, Finish
  <2>4. /\ RecordAllow(t) => pc'[t] = "list"
        /\ ListEvents(t) => pc'[t] = "reduce"
        /\ AppendEvents(t) => pc'[t] = "check"
        /\ \A s \in Stores, b \in Submitted : BeginImport(t, s, b) => pc'[t] = "append"
    BY <2>0 DEF RecordAllow, ListEvents, AppendEvents, BeginImport, Goto
  <2> QED
    BY <1>2, <2>1, <2>2, <2>3, <2>4 DEF Step
<1> QED
  BY <1>1, <1>2

LEMMA CopiesStep ==
    ASSUME TypeOK, Copies, Bundles, NEW u \in Threads, Step(u)
    PROVE  Copies'
<1>1. log'[Home] # << >>
  BY Grows, ReplayAssumption DEF Copies
<1>2. ASSUME NEW s \in Stores
      PROVE  KnownIds(log[s])' /\ (log'[s] # << >> => Sound(log'[s]))
  <2>1. /\ log[s] \in Seq(Event) /\ nextId \in Nat /\ nextId' \in Nat /\ nextId <= nextId'
        /\ \A i \in 1..Len(log[s]) : log[s][i].id \in Nat
    <3>1. TypeOK'
      BY TypeStep DEF Next
    <3>2. log[s] \in Seq(Event) /\ nextId \in Nat /\ nextId' \in Nat /\ nextId <= nextId'
      BY <3>1, Types, LogStep DEF TypeOK, Positive
    <3>3. \A i \in 1..Len(log[s]) : log[s][i] \in Event
      BY <3>2
    <3> QED
      BY <3>2, <3>3 DEF Event, Positive
  <2>2. CASE log'[s] = log[s]
    BY <2>1, <2>2 DEF Copies, KnownIds
  <2>3. CASE Extended(s)
    <3>1. PICK kind \in Kinds \ {"created"} :
             /\ log[s] # << >> /\ Fresh(kind, log[s]) \in Event
             /\ log'[s] = Append(log[s], Fresh(kind, log[s])) /\ nextId' = nextId + 1
      BY <2>3 DEF Extended
    <3>2. Sound(log[s]) /\ KnownIds(log[s])
      BY <3>1 DEF Copies
    <3>3. Sound(log'[s])
      BY <2>1, <3>1, <3>2, AppendSound
    <3>4. /\ Len(log'[s]) = Len(log[s]) + 1
          /\ \A i \in 1..Len(log[s]) : log'[s][i] = log[s][i]
          /\ log'[s][Len(log[s]) + 1] = Fresh(kind, log[s])
      BY <2>1, <3>1
    <3>5. Fresh(kind, log[s]).id = nextId + 1
      BY DEF Fresh
    <3> QED
      BY <2>1, <3>1, <3>2, <3>3, <3>4, <3>5 DEF KnownIds
  <2>4. CASE Restored(u, s)
    <3>1. pc[u] = "append" /\ log'[s] = draft[u].bundle.events /\ nextId' = nextId
      BY <2>4 DEF Restored, AppendEvents, Goto
    <3>2. PICK x \in exports : log'[s] = x.bundle.events
      BY <3>1 DEF Bundles
    <3> QED
      BY <3>1, <3>2 DEF Bundles, Whole, KnownIds
  <2> QED
    BY <2>2, <2>3, <2>4, LogStep
<1>3. ASSUME NEW t \in Threads, pc'[t] \in {"allow", "deny", "list", "reduce"}
      PROVE  log'[draft'[t].store] # << >>
  <2>0. draft \in [Threads -> Draft] /\ draft[t].store \in Stores
    BY Types DEF TypeOK
  <2>1. CASE pc[t] \in {"allow", "deny", "list", "reduce"} /\ draft'[t].store = draft[t].store
    BY <2>0, <2>1, Grows DEF Copies
  <2>2. CASE CheckDisclose(t, draft'[t].store) /\ draft'[t].store \in Stores
    BY <2>2 DEF CheckDisclose
  <2>3. RecordAllow(t) => pc[t] = "allow" /\ draft'[t].store = draft[t].store
    BY <2>0 DEF RecordAllow, Goto, Draft
  <2>4. ListEvents(t) => pc[t] = "list" /\ draft'[t].store = draft[t].store
    BY <2>0 DEF ListEvents, Goto, Draft
  <2> QED
    BY <1>3, <2>1, <2>2, <2>3, <2>4, ExportPaths
<1> QED
  BY <1>1, <1>2, <1>3 DEF Copies

-----------------------------------------------------------------------------
\* Bundles.

\* A bundle that verifies has all the events of the export it came from.
LEMMA VerifiedWhole ==
    ASSUME TypeOK, Bundles, NEW x \in exports, NEW b \in Damaged(x.bundle), Verified(b)
    PROVE  b.events = x.bundle.events
<1> DEFINE e == x.bundle.events
<1>0. /\ x.bundle \in Bundle /\ e \in Seq(Event) /\ Len(e) \in Nat
      /\ Whole(x.bundle) /\ Sound(e)
      /\ \A i \in 1..Len(e) : e[i] \in Event
  BY Types DEF Bundles, Whole
<1>1. CASE b \in {[x.bundle EXCEPT !.events = SubSeq(@, 1, n)] : n \in 0..Len(e)}
  <2>1. PICK n \in 0..Len(e) : b = [x.bundle EXCEPT !.events = SubSeq(e, 1, n)]
    BY <1>1
  <2>2. b.events = SubSeq(e, 1, n) /\ b.projection = x.bundle.projection
    BY <1>0, <2>1 DEF Bundle
  <2>3. Len(b.events) = n /\ \A i \in 1..n : b.events[i] = e[i]
    BY <1>0, <2>2
  <2>4. n # 0
    BY <2>2, <1>0 DEF Verified, Rooted
  <2>5. x.bundle.projection.last = e[n].id
    <3>1. b.projection = Project(b.events)
      BY DEF Verified
    <3>2. HeadId(b.events) = e[n].id
      BY <2>3, <2>4, <1>0 DEF HeadId
    <3> QED
      BY <2>2, <3>1, <3>2 DEF Project
  <2>6. n = Len(e)
    BY <1>0, <2>4, <2>5 DEF Whole
  <2> QED
    BY <1>0, <2>2, <2>6
<1>2. CASE b \in {[x.bundle EXCEPT !.events = SubSeq(@, 2, Len(@))]}
  <2>1. b.events = SubSeq(e, 2, Len(e))
    BY <1>0, <1>2 DEF Bundle
  <2>2. b.events # << >>
    BY DEF Verified, Rooted
  <2>3. Len(e) >= 2
    BY <1>0, <2>1, <2>2
  <2>4. Len(b.events) = Len(e) - 1 /\ b.events[1] = e[2]
    BY <1>0, <2>1, <2>3
  <2>5. 1 \in 1..Len(b.events) /\ 2 \in 1..Len(e)
    BY <1>0, <2>3, <2>4
  <2>6. b.events[1].kind = "created" /\ e[2].kind # "created"
    BY <1>0, <2>5 DEF Verified, Rooted, Sound
  <2> QED
    BY <2>4, <2>6
<1>3. CASE b \in {[x.bundle EXCEPT !.events[i].intact = FALSE] : i \in 1..Len(e)}
  <2>1. PICK i \in 1..Len(e) :
           b = [x.bundle EXCEPT !.events = [e EXCEPT ![i] = [e[i] EXCEPT !.intact = FALSE]]]
    BY <1>3
  <2>2. b.events = [e EXCEPT ![i] = [e[i] EXCEPT !.intact = FALSE]]
    BY <1>0, <2>1 DEF Bundle
  <2>3. Len(b.events) = Len(e) /\ b.events[i] = [e[i] EXCEPT !.intact = FALSE]
    BY <1>0, <2>2
  <2>4. ~b.events[i].intact
    BY <1>0, <2>3 DEF Event
  <2> QED
    BY <2>3, <2>4 DEF Verified, ChainValid
<1>4. CASE b \in {[x.bundle EXCEPT !.projection = y.bundle.projection] : y \in exports}
  BY <1>0, <1>4 DEF Bundle
<1> QED
  BY <1>1, <1>2, <1>3, <1>4 DEF Damaged

\* A listing followed by a projection of the same or a longer history.
LEMMA BuiltWhole ==
    ASSUME TypeOK, Copies, Bundles, NEW t \in Threads, pc[t] = "reduce"
    PROVE  Whole(Built(t))
<1> DEFINE h == log[draft[t].store]
           e == draft[t].bundle.events
<1>1. /\ h \in Seq(Event) /\ e \in Seq(Event) /\ h # << >> /\ Sound(h) /\ KnownIds(h)
      /\ StartsWith(h, e) /\ e # << >>
  BY Types DEF Copies, Bundles
<1>2. Built(t).events = e /\ Built(t).projection.last = HeadId(h)
  <2>1. Project(h).last = HeadId(h)
    BY DEF Project
  <2>2. Built(t).events = e /\ Built(t).projection = Project(h)
    BY BuiltType
  <2> QED
    BY <2>1, <2>2
<1>3. Sound(e)
  BY <1>1, PrefixSound
<1>4. /\ Len(e) \in Nat /\ Len(h) \in Nat /\ Len(e) <= Len(h) /\ Len(h) \in 1..Len(h)
      /\ \A i \in 1..Len(e) : e[i] = h[i] /\ i \in 1..Len(h)
  BY <1>1 DEF StartsWith
<1>5. KnownIds(e)
  BY <1>1, <1>4 DEF KnownIds
<1>6. ASSUME NEW n \in 1..Len(e), e[n].id = HeadId(h)
      PROVE  n = Len(e)
  <2>1. HeadId(h) = h[Len(h)].id
    BY <1>1 DEF HeadId
  <2>2. n = Len(h)
    BY <1>1, <1>4, <1>6, <2>1 DEF Sound, Distinct
  <2> QED
    BY <1>4, <2>2
<1> QED
  BY <1>2, <1>3, <1>5, <1>6 DEF Whole

LEMMA BundlesStep ==
    ASSUME TypeOK, Copies, Bundles, NEW u \in Threads, Step(u)
    PROVE  Bundles' /\ exports \subseteq exports'
<1>0. TypeOK' /\ nextId \in Nat /\ nextId' \in Nat /\ nextId <= nextId'
  <2>1. TypeOK'
    BY TypeStep DEF Next
  <2>2. nextId <= nextId'
    BY LogStep, ReplayAssumption
  <2> QED
    BY <2>1, <2>2 DEF TypeOK, Positive
<1>1. exports' = exports \/ ReduceState(u)
  BY DEF Step, GrantOrRevoke, CheckDisclose, RecordDenial, RecordAllow, ListEvents,
         BeginImport, AppendEvents, RefuseAppend, CheckRestored, Raise, EnterGuard, ExitGuard
<1>2. exports \subseteq exports'
  BY <1>1 DEF ReduceState
<1>3. ASSUME NEW x \in exports'
      PROVE  Whole(x.bundle)'
  <2>1. Whole(x.bundle)
    <3>1. CASE x \in exports
      BY <3>1 DEF Bundles
    <3>2. CASE x \notin exports
      <4>1. ReduceState(u)
        BY <1>1, <1>3, <3>2
      <4>2. pc[u] = "reduce" /\ x = [bundle |-> Built(u), decision |-> draft[u].decision]
        BY <1>3, <3>2, <4>1 DEF ReduceState
      <4>3. x.bundle = Built(u)
        BY <4>2
      <4> QED
        BY <4>2, <4>3, BuiltWhole
    <3> QED
      BY <3>1, <3>2
  <2>2. \A i \in 1..Len(x.bundle.events) : x.bundle.events[i].id \in Nat
    <3>1. x.bundle \in Bundle
      BY <1>0 DEF TypeOK, Export
    <3>2. x.bundle.events \in Seq(Event)
      BY <3>1 DEF Bundle
    <3>3. \A i \in 1..Len(x.bundle.events) : x.bundle.events[i] \in Event
      BY <3>2
    <3> QED
      BY <3>3 DEF Event, Positive
  <2> QED
    BY <1>0, <2>1, <2>2 DEF Whole, KnownIds
<1>4. ASSUME NEW t \in Threads, pc'[t] = "reduce"
      PROVE  /\ draft'[t].bundle.events # << >>
             /\ StartsWith(log'[draft'[t].store], draft'[t].bundle.events)
  <2>0. draft[t].store \in Stores /\ draft[t].bundle \in Bundle /\ draft \in [Threads -> Draft]
        /\ log[draft[t].store] \in Seq(Event) /\ draft[t].bundle.events \in Seq(Event)
    BY Types DEF TypeOK
  <2>1. CASE pc[t] = "reduce" /\ draft'[t] = draft[t]
    <3>1. StartsWith(log[draft[t].store], draft[t].bundle.events) /\ draft[t].bundle.events # << >>
      BY <2>1 DEF Bundles
    <3>2. StartsWith(log'[draft[t].store], log[draft[t].store]) /\ log'[draft[t].store] \in Seq(Event)
      BY <2>0, Grows
    <3> QED
      BY <2>0, <2>1, <3>1, <3>2, StartsWithTrans
  <2>2. CASE ListEvents(t)
    <3>1. /\ pc[t] = "list" /\ log' = log
          /\ draft'[t].store = draft[t].store
          /\ draft'[t].bundle.events = log[draft[t].store]
      BY <2>0, <2>2 DEF ListEvents, Goto, Draft, Bundle
    <3>2. log[draft[t].store] # << >>
      BY <3>1 DEF Copies
    <3> QED
      BY <2>0, <3>1, <3>2 DEF StartsWith
  <2> QED
    BY <1>4, <2>1, <2>2, ExportPaths
<1>5. ASSUME NEW t \in Threads, pc'[t] \in {"append", "check"}
      PROVE  \E x \in exports' : draft'[t].bundle.events = x.bundle.events
  <2>0. draft \in [Threads -> Draft]
    BY DEF TypeOK
  <2>1. CASE pc[t] \in {"append", "check"} /\ draft'[t] = draft[t]
    BY <1>2, <2>1 DEF Bundles
  <2>2. AppendEvents(t) => pc[t] = "append" /\ draft'[t] = draft[t]
    BY DEF AppendEvents, Goto
  <2>3. ASSUME NEW s \in Stores, NEW b \in Submitted, BeginImport(t, s, b)
        PROVE  \E x \in exports' : draft'[t].bundle.events = x.bundle.events
    <3>1. draft'[t].bundle = b /\ Verified(b)
      BY <2>0, <2>3 DEF BeginImport, Draft
    <3>2. PICK x \in exports : b \in Damaged(x.bundle)
      BY DEF Submitted
    <3> QED
      BY <1>2, <3>1, <3>2, VerifiedWhole
  <2> QED
    BY <1>5, <2>1, <2>2, <2>3, ExportPaths
<1> QED
  BY <1>2, <1>3, <1>4, <1>5 DEF Bundles

\* A restored copy begins with a whole export.
LEMMA RestoredStep ==
    ASSUME TypeOK, Copies, Bundles, RestoredFromExport, NEW u \in Threads, Step(u)
    PROVE  RestoredFromExport'
<1> SUFFICES ASSUME NEW s \in Stores \ {Home}, log'[s] # << >>
             PROVE  \E x \in exports' : /\ x.bundle.events # << >>
                                         /\ StartsWith(log'[s], x.bundle.events)
  BY DEF RestoredFromExport
<1>1. exports \subseteq exports'
  BY BundlesStep
<1>2. log[s] \in Seq(Event) /\ log'[s] \in Seq(Event) /\ StartsWith(log'[s], log[s])
  BY Types, Grows
<1>3. CASE log[s] # << >>
  <2>1. PICK x \in exports : x.bundle.events # << >> /\ StartsWith(log[s], x.bundle.events)
    BY <1>3 DEF RestoredFromExport
  <2>2. x.bundle.events \in Seq(Event)
    BY Types
  <2> QED
    BY <1>1, <1>2, <2>1, <2>2, StartsWithTrans
<1>4. CASE log[s] = << >>
  <2>1. Restored(u, s)
    BY <1>4, LogStep DEF Extended
  <2>2. pc[u] = "append" /\ log'[s] = draft[u].bundle.events
    BY <2>1 DEF Restored, AppendEvents, Goto
  <2>3. PICK x \in exports : log'[s] = x.bundle.events
    BY <2>2 DEF Bundles
  <2> QED
    BY <1>1, <1>2, <2>3 DEF StartsWith
<1> QED
  BY <1>3, <1>4

-----------------------------------------------------------------------------
\* The decision of an export.

LEMMA OnRecordStable ==
    ASSUME NEW h \in Seq(Event), NEW g \in Seq(Event), StartsWith(h, g), NEW id \in Nat,
           OnRecord(g, id)
    PROVE  OnRecord(h, id)
<1>1. PICK d \in 1..Len(g) :
         g[d].id = id /\ g[d].kind = "allowed" /\ \E n \in 0..(d - 1) : OpenAt(g, n)
  BY DEF OnRecord
<1>2. PICK n \in 0..(d - 1) : OpenAt(g, n)
  BY <1>1
<1>3. Len(g) \in Nat /\ Len(h) \in Nat /\ d \in 1..Len(h) /\ h[d] = g[d] /\ n \in 0..Len(g)
  BY DEF StartsWith
<1>4. OpenAt(h, n)
  BY <1>2, <1>3, OpenStable
<1> QED
  BY <1>1, <1>3, <1>4 DEF OnRecord

\* What RecordAllow leaves behind it.
LEMMA Allowed ==
    ASSUME TypeOK, Copies, NEW t \in Threads, RecordAllow(t)
    PROVE  LET s == draft[t].store
               h == log[s]
               g == log'[s]
           IN  /\ draft'[t].store = s /\ draft'[t].decision = nextId'
               /\ h \in Seq(Event) /\ g \in Seq(Event) /\ StartsWith(g, h)
               /\ Len(g) = Len(h) + 1 /\ g # << >>
               /\ g[Len(g)].id = nextId' /\ g[Len(g)].kind = "allowed"
               /\ pc[t] = "allow"
<1> DEFINE s == draft[t].store
           e == Fresh("allowed", log[s])
<1>1. s \in Stores /\ log[s] \in Seq(Event) /\ draft \in [Threads -> Draft]
  BY Types DEF TypeOK
<1>2. Commit(t, s, "allowed") /\ "allowed" \in Kinds /\ pc[t] = "allow"
  BY DEF RecordAllow, Goto, Kinds
<1>3. e \in Event /\ log'[s] = Append(log[s], e) /\ nextId' = nextId + 1
  BY <1>1, <1>2, CommitEffect
<1>4. /\ Len(log'[s]) = Len(log[s]) + 1 /\ log'[s][Len(log'[s])] = e
      /\ log'[s] \in Seq(Event) /\ \A i \in 1..Len(log[s]) : log'[s][i] = log[s][i]
      /\ Len(log[s]) \in Nat
  BY <1>1, <1>3
<1>5. e.id = nextId + 1 /\ e.kind = "allowed"
  BY DEF Fresh
<1>6. StartsWith(log'[s], log[s])
  BY <1>4 DEF StartsWith
<1>7. draft'[t].store = s /\ draft'[t].decision = nextId'
  BY <1>1 DEF RecordAllow, Draft
<1>8. log'[s] # << >>
  BY <1>4
<1> QED
  BY <1>1, <1>2, <1>3, <1>4, <1>5, <1>6, <1>7, <1>8

LEMMA RecordStep ==
    ASSUME TypeOK, Copies, Bundles, Record, NEW u \in Threads, Step(u)
    PROVE  Record'
<1> SUFFICES ASSUME NEW t \in Threads
             PROVE  LET h == log'[draft'[t].store]
                    IN  /\ pc'[t] = "allow" => \E n \in 0..Len(h) : OpenAt(h, n)
                        /\ pc'[t] = "list" => OnRecord(h, draft'[t].decision)
                        /\ pc'[t] = "reduce" =>
                              OnRecord(draft'[t].bundle.events, draft'[t].decision)
  BY DEF Record
<1> DEFINE s == draft[t].store
<1>0. /\ s \in Stores /\ log[s] \in Seq(Event) /\ log'[s] \in Seq(Event)
      /\ StartsWith(log'[s], log[s]) /\ Len(log[s]) \in Nat /\ Len(log[s]) <= Len(log'[s])
      /\ Len(log'[s]) \in Nat
      /\ draft \in [Threads -> Draft] /\ draft[t].bundle \in Bundle
      /\ draft[t].decision \in Nat
  BY Types, Grows DEF TypeOK, Draft, StartsWith
<1>1. ASSUME pc'[t] = "allow"
      PROVE  \E n \in 0..Len(log'[draft'[t].store]) : OpenAt(log'[draft'[t].store], n)
  <2>1. CASE pc[t] = "allow" /\ draft'[t] = draft[t]
    <3>1. PICK n \in 0..Len(log[s]) : OpenAt(log[s], n)
      BY <2>1 DEF Record
    <3>2. OpenAt(log'[s], n) /\ n \in 0..Len(log'[s])
      BY <1>0, <3>1, OpenStable
    <3> QED
      BY <2>1, <3>2
  <2>2. CASE CheckDisclose(t, draft'[t].store) /\ draft'[t].store \in Stores
             /\ OpenAt(log[draft'[t].store], Len(log[draft'[t].store]))
    <3>1. log' = log
      BY <2>2 DEF CheckDisclose
    <3>2. Len(log[draft'[t].store]) \in Nat
      BY <2>2, Types
    <3> QED
      BY <2>2, <3>1, <3>2
  <2> QED
    BY <1>1, <2>1, <2>2, ExportPaths
<1>2. ASSUME pc'[t] = "list"
      PROVE  OnRecord(log'[draft'[t].store], draft'[t].decision)
  <2>1. CASE pc[t] = "list" /\ draft'[t] = draft[t]
    BY <1>0, <2>1, OnRecordStable DEF Record
  <2>2. CASE RecordAllow(t)
    <3> DEFINE g == log'[s]
    <3>1. /\ draft'[t].store = s /\ draft'[t].decision = nextId'
          /\ Len(g) = Len(log[s]) + 1 /\ g[Len(g)].id = nextId'
          /\ g[Len(g)].kind = "allowed" /\ pc[t] = "allow"
      BY <2>2, Allowed
    <3>2. PICK n \in 0..Len(log[s]) : OpenAt(log[s], n)
      BY <3>1 DEF Record
    <3>3. OpenAt(g, n)
      BY <1>0, <3>2, OpenStable
    <3>4. Len(g) \in 1..Len(g) /\ n \in 0..(Len(g) - 1)
      BY <1>0, <3>1, <3>2
    <3>5. OnRecord(g, nextId')
      BY <3>1, <3>3, <3>4 DEF OnRecord
    <3> QED
      BY <3>1, <3>5
  <2> QED
    BY <1>2, <2>1, <2>2, ExportPaths
<1>3. ASSUME pc'[t] = "reduce"
      PROVE  OnRecord(draft'[t].bundle.events, draft'[t].decision)
  <2>1. CASE pc[t] = "reduce" /\ draft'[t] = draft[t]
    BY <2>1 DEF Record
  <2>2. CASE ListEvents(t)
    <3>1. /\ pc[t] = "list" /\ draft'[t].decision = draft[t].decision
          /\ draft'[t].bundle.events = log[s]
      BY <1>0, <2>2 DEF ListEvents, Goto, Draft, Bundle
    <3> QED
      BY <3>1 DEF Record
  <2> QED
    BY <1>3, <2>1, <2>2, ExportPaths
<1> QED
  BY <1>1, <1>2, <1>3

LEMMA OnRecordStep ==
    ASSUME TypeOK, Record, ExportOnRecord, NEW u \in Threads, Step(u)
    PROVE  ExportOnRecord'
<1>1. CASE exports' = exports
  BY <1>1 DEF ExportOnRecord
<1>2. CASE ReduceState(u)
  <2>1. OnRecord(draft[u].bundle.events, draft[u].decision)
    BY <1>2 DEF ReduceState, Record
  <2>2. ASSUME NEW x \in exports'
        PROVE  x \in exports \/ (x.bundle.events = draft[u].bundle.events
                                 /\ x.decision = draft[u].decision)
    <3>1. CASE x = [bundle |-> Built(u), decision |-> draft[u].decision]
      <4>1. x.bundle = Built(u) /\ x.decision = draft[u].decision
        BY <3>1
      <4> QED
        BY <4>1, BuiltType
    <3> QED
      BY <1>2, <2>2, <3>1 DEF ReduceState
  <2> QED
    BY <2>1, <2>2 DEF ExportOnRecord, OnRecord
<1> QED
  BY <1>1, <1>2 DEF Step, GrantOrRevoke, CheckDisclose, RecordDenial, RecordAllow, ListEvents,
      BeginImport, AppendEvents, RefuseAppend, CheckRestored, Raise, EnterGuard, ExitGuard

-----------------------------------------------------------------------------
\* Inside the guard.

\* Whoever is in an operation and holds the guard held it before the step, and
\* only that thread changes the store.
LEMMA Held ==
    ASSUME TypeOK, Copies, Bundles, NEW u \in Threads, Step(u), NEW t \in Threads,
           NEW s \in Stores, owner'[s] = t, pc'[t] # "idle"
    PROVE  owner[s] = t /\ (u # t => log'[s] = log[s])
<1>0. owner \in [Stores -> Threads \union {NoThread}] /\ pc \in [Threads -> PCs]
      /\ NoThread \notin Threads
  BY ReplayAssumption DEF TypeOK, PCs
<1>1. owner[s] = t
  <2>1. CASE \E q \in Stores : EnterGuard(u, q)
    <3>1. PICK q \in Stores : EnterGuard(u, q)
      BY <2>1
    <3>2. pc' = pc /\ pc[u] = "idle" /\ owner' = [owner EXCEPT ![q] = u]
      BY <3>1 DEF EnterGuard
    <3> QED
      BY <1>0, <3>2
  <2>2. CASE \E q \in Stores : ExitGuard(u, q)
    <3>1. PICK q \in Stores : ExitGuard(u, q)
      BY <2>2
    <3>2. owner' = [owner EXCEPT ![q] = NoThread]
      BY <3>1 DEF ExitGuard
    <3> QED
      BY <1>0, <3>2
  <2>3. CASE owner' = owner
    BY <2>3
  <2> QED
    BY <2>1, <2>2, <2>3 DEF Step, GrantOrRevoke, CheckDisclose, RecordDenial, RecordAllow,
       ListEvents, ReduceState, BeginImport, AppendEvents, RefuseAppend, CheckRestored, Raise
<1> QED
  BY <1>0, <1>1, LogStep

LEMMA GuardedStep ==
    ASSUME TypeOK, Copies, Bundles, Guarded, NEW u \in Threads, Step(u)
    PROVE  Guarded'
<1> SUFFICES ASSUME NEW t \in Threads, owner'[draft'[t].store] = t
             PROVE  LET h == log'[draft'[t].store]
                    IN  /\ pc'[t] = "allow" => OpenAt(h, Len(h))
                        /\ pc'[t] = "list" => Current(h, draft'[t].decision)
                        /\ pc'[t] = "reduce" => /\ draft'[t].bundle.events = h
                                                /\ Current(h, draft'[t].decision)
  BY DEF Guarded
<1> DEFINE s == draft[t].store
<1>0. /\ s \in Stores /\ log[s] \in Seq(Event) /\ Len(log[s]) \in Nat
      /\ draft \in [Threads -> Draft] /\ draft[t].bundle \in Bundle
  BY Types DEF TypeOK
<1>1. ASSUME pc'[t] = "allow"
      PROVE  OpenAt(log'[draft'[t].store], Len(log'[draft'[t].store]))
  <2>1. CASE pc[t] = "allow" /\ draft'[t] = draft[t] /\ t # u
    <3>1. owner[s] = t /\ log'[s] = log[s]
      BY <1>0, <1>1, <2>1, Held
    <3> QED
      BY <2>1, <3>1 DEF Guarded
  <2>2. CASE CheckDisclose(t, draft'[t].store)
             /\ OpenAt(log[draft'[t].store], Len(log[draft'[t].store]))
    <3>1. log' = log
      BY <2>2 DEF CheckDisclose
    <3> QED
      BY <2>2, <3>1
  <2> QED
    BY <1>1, <2>1, <2>2, ExportPaths
<1>2. ASSUME pc'[t] = "list"
      PROVE  Current(log'[draft'[t].store], draft'[t].decision)
  <2>1. CASE pc[t] = "list" /\ draft'[t] = draft[t] /\ t # u
    <3>1. owner[s] = t /\ log'[s] = log[s]
      BY <1>0, <1>2, <2>1, Held
    <3> QED
      BY <2>1, <3>1 DEF Guarded
  <2>2. CASE RecordAllow(t)
    <3> DEFINE h == log[s]
               g == log'[s]
    <3>1. /\ draft'[t].store = s /\ draft'[t].decision = nextId'
          /\ g \in Seq(Event) /\ StartsWith(g, h) /\ Len(g) = Len(h) + 1 /\ g # << >>
          /\ g[Len(g)].id = nextId' /\ g[Len(g)].kind = "allowed" /\ pc[t] = "allow"
      BY <2>2, Allowed
    <3>2. owner[s] = t
      BY <1>0, <1>2, <3>1, Held
    <3>3. OpenAt(h, Len(h))
      BY <3>1, <3>2 DEF Guarded
    <3>4. \A i \in 1..Len(h) : g[i] = h[i]
      BY <3>1 DEF StartsWith
    <3>5. PICK i \in 1..Len(h) :
             h[i].kind = "granted" /\ \A j \in (i + 1)..Len(h) : h[j].kind # "revoked"
      BY <3>3 DEF OpenAt
    <3>6. g[i].kind = "granted" /\ i \in 1..Len(g)
      BY <1>0, <3>1, <3>4, <3>5
    <3>7. ASSUME NEW j \in (i + 1)..Len(g)
          PROVE  g[j].kind # "revoked"
      <4>1. CASE j \in 1..Len(h)
        BY <1>0, <3>4, <3>5, <4>1
      <4>2. CASE j = Len(g)
        BY <3>1, <4>2
      <4> QED
        BY <1>0, <3>1, <4>1, <4>2
    <3>8. OpenAt(g, Len(g))
      BY <3>6, <3>7 DEF OpenAt
    <3>9. HeadId(g) = nextId'
      BY <3>1 DEF HeadId
    <3> QED
      BY <3>1, <3>8, <3>9 DEF Current
  <2> QED
    BY <1>2, <2>1, <2>2, ExportPaths
<1>3. ASSUME pc'[t] = "reduce"
      PROVE  /\ draft'[t].bundle.events = log'[draft'[t].store]
             /\ Current(log'[draft'[t].store], draft'[t].decision)
  <2>1. CASE pc[t] = "reduce" /\ draft'[t] = draft[t] /\ t # u
    <3>1. owner[s] = t /\ log'[s] = log[s]
      BY <1>0, <1>3, <2>1, Held
    <3> QED
      BY <2>1, <3>1 DEF Guarded
  <2>2. CASE ListEvents(t)
    <3>1. /\ pc[t] = "list" /\ draft'[t].store = s /\ draft'[t].decision = draft[t].decision
          /\ draft'[t].bundle.events = log[s] /\ log' = log
      BY <1>0, <2>2 DEF ListEvents, Goto, Draft, Bundle
    <3>2. owner[s] = t
      BY <1>0, <1>3, <3>1, Held
    <3> QED
      BY <3>1, <3>2 DEF Guarded
  <2> QED
    BY <1>3, <2>1, <2>2, ExportPaths
<1> QED
  BY <1>1, <1>2, <1>3

-----------------------------------------------------------------------------
\* Reports of a restoration.

LEMMA ReportEffect ==
    ASSUME TypeOK, NEW u \in Threads, Step(u), NEW s \in Stores
    PROVE  \/ restored'[s] = restored[s]
           \/ /\ pc[u] = "check" /\ draft[u].store = s
              /\ log' = log
              /\ restored'[s] = Append(restored[s], draft[u].bundle)
<1>1. CASE CheckRestored(u)
  <2>1. restored \in [Stores -> Seq(Bundle)] /\ draft[u].store \in Stores
    BY Types DEF TypeOK
  <2> QED
    BY <1>1, <2>1 DEF CheckRestored
<1>2. CASE restored' = restored
  BY <1>2
<1> QED
  BY <1>1, <1>2 DEF Step, GrantOrRevoke, CheckDisclose, RecordDenial, RecordAllow, ListEvents,
      ReduceState, BeginImport, AppendEvents, RefuseAppend, Raise, EnterGuard, ExitGuard

LEMMA ReportedStep ==
    ASSUME TypeOK, Copies, Bundles, Reported, NEW u \in Threads, Step(u)
    PROVE  Reported'
<1>1. ASSUME NEW s \in Stores, log'[s] = << >>
      PROVE  restored'[s] = << >>
  <2>1. log[s] = << >>
    BY <1>1, Grows
  <2> QED
    BY <2>1, ReportEffect DEF Reported
<1>2. ASSUME NEW s \in Stores, NEW t \in Threads, pc'[t] = "check", draft'[t].store = s
      PROVE  /\ log'[s] # << >> /\ restored'[s] = << >>
             /\ StartsWith(log'[s], draft'[t].bundle.events)
  <2>1. CASE pc[t] = "check" /\ draft'[t] = draft[t] /\ t # u
    <3>1. /\ log[s] # << >> /\ restored[s] = << >>
          /\ StartsWith(log[s], draft[t].bundle.events)
      BY <1>2, <2>1 DEF Reported
    <3>2. restored'[s] = restored[s]
      BY <1>2, <2>1, ReportEffect DEF Reported
    <3>3. draft[t].bundle.events \in Seq(Event) /\ log[s] \in Seq(Event)
      BY Types
    <3> QED
      BY <2>1, <3>1, <3>2, <3>3, Grows, StartsWithTrans
  <2>2. CASE AppendEvents(t)
    <3>1. draft' = draft /\ restored' = restored
      BY <2>2 DEF AppendEvents
    <3>2. /\ log[s] = << >> /\ log'[s] = draft[t].bundle.events
          /\ draft[t].bundle.events # << >> /\ draft[t].bundle.events \in Seq(Event)
      BY <1>2, <2>2, <3>1, AppendRestores, Types DEF Restored
    <3>3. restored[s] = << >>
      BY <3>2 DEF Reported
    <3>4. StartsWith(log'[s], draft[t].bundle.events)
      BY <3>2 DEF StartsWith
    <3> QED
      BY <3>1, <3>2, <3>3, <3>4
  <2> QED
    BY <1>2, <2>1, <2>2, ExportPaths
<1>3. ASSUME NEW t \in Threads, NEW v \in Threads, pc'[t] = "check", pc'[v] = "check",
             draft'[t].store = draft'[v].store, AppendEvents(t), pc[v] = "check",
             draft'[v] = draft[v]
      PROVE  FALSE
  <2>1. draft' = draft /\ log[draft[t].store] = << >>
    BY <1>3, AppendRestores DEF AppendEvents, Restored
  <2>2. draft[v].store \in Stores
    BY Types
  <2> QED
    BY <1>3, <2>1, <2>2 DEF Reported
<1>4. ASSUME NEW t \in Threads, NEW v \in Threads, pc'[t] = "check", pc'[v] = "check",
             draft'[t].store = draft'[v].store
      PROVE  t = v
  <2>1. \/ pc[t] = "check" /\ draft'[t] = draft[t] /\ t # u
        \/ t = u /\ AppendEvents(t)
    BY <1>4, ExportPaths
  <2>2. \/ pc[v] = "check" /\ draft'[v] = draft[v] /\ v # u
        \/ v = u /\ AppendEvents(v)
    BY <1>4, ExportPaths
  <2> QED
    BY <1>3, <1>4, <2>1, <2>2 DEF Reported
<1> QED
  BY <1>1, <1>2, <1>4 DEF Reported

LEMMA ReportedOnceStep ==
    ASSUME TypeOK, Copies, Bundles, Reported, ReportedOnce, NEW u \in Threads, Step(u)
    PROVE  ReportedOnce'
<1> SUFFICES ASSUME NEW s \in Stores
             PROVE  /\ Len(restored'[s]) <= 1
                    /\ \A i \in 1..Len(restored'[s]) :
                          StartsWith(log'[s], restored'[s][i].events)
  BY DEF ReportedOnce
<1>0. restored[s] \in Seq(Bundle) /\ log[s] \in Seq(Event)
  BY DEF TypeOK
<1>1. CASE restored'[s] = restored[s]
  <2>1. ASSUME NEW i \in 1..Len(restored[s])
        PROVE  StartsWith(log'[s], restored[s][i].events)
    <3>1. restored[s][i] \in Bundle
      BY <1>0
    <3>2. restored[s][i].events \in Seq(Event) /\ StartsWith(log[s], restored[s][i].events)
      BY <3>1 DEF Bundle, ReportedOnce
    <3> QED
      BY <1>0, <3>2, Grows, StartsWithTrans
  <2> QED
    BY <1>1, <2>1 DEF ReportedOnce
<1>2. CASE /\ pc[u] = "check" /\ draft[u].store = s
           /\ log' = log
           /\ restored'[s] = Append(restored[s], draft[u].bundle)
  <2>1. restored[s] = << >> /\ StartsWith(log[s], draft[u].bundle.events)
    BY <1>2 DEF Reported
  <2>2. restored'[s] = <<draft[u].bundle>>
    BY <1>2, <2>1
  <2> QED
    BY <1>2, <2>1, <2>2
<1> QED
  BY <1>1, <1>2, ReportEffect

-----------------------------------------------------------------------------
\* The invariant and the properties.

LEMMA InitInv == Init => IInv
<1> SUFFICES ASSUME Init PROVE IInv
  OBVIOUS
<1> DEFINE root == [id |-> 1, kind |-> "created", prev |-> 0, intact |-> TRUE]
<1>1. TypeOK
  BY InitType
<1>2. /\ \A s \in Stores : log[s] = (IF s = Home THEN <<root>> ELSE << >>)
      /\ \A s \in Stores : restored[s] = << >>
      /\ \A t \in Threads : pc[t] = "idle"
      /\ exports = {} /\ nextId = 1 /\ Home \in Stores
  BY ReplayAssumption DEF Init
<1>3. Sound(<<root>>)
  BY DEF Sound, Rooted, ChainValid, Distinct
<1>4. KnownIds(<<root>>) /\ KnownIds(<< >>)
  BY <1>2 DEF KnownIds
<1>5. Copies
  BY <1>2, <1>3, <1>4 DEF Copies
<1>6. Bundles /\ Record /\ Guarded /\ Reported
  BY <1>2 DEF Bundles, Record, Guarded, Reported
<1>7. RestoredFromExport /\ ExportOnRecord /\ ReportedOnce
  BY <1>2 DEF RestoredFromExport, ExportOnRecord, ReportedOnce
<1> QED
  BY <1>1, <1>5, <1>6, <1>7 DEF IInv

LEMMA InvStep == IInv /\ [Next]_vars => IInv'
<1> SUFFICES ASSUME IInv, [Next]_vars PROVE IInv'
  OBVIOUS
<1> USE DEF IInv
<1>1. CASE UNCHANGED vars
  BY <1>1 DEF vars, TypeOK, Copies, Bundles, Record, Guarded, Reported, RestoredFromExport,
     ExportOnRecord, ReportedOnce, KnownIds, Whole
<1>2. ASSUME NEW u \in Threads, Step(u)
      PROVE  IInv'
  BY <1>2, TypeStep, CopiesStep, BundlesStep, RecordStep, GuardedStep, ReportedStep,
     RestoredStep, OnRecordStep, ReportedOnceStep DEF Next
<1> QED
  BY <1>1, <1>2 DEF Next

\* The inductive invariant holds in every reachable state.
THEOREM Invariance == Spec => []IInv
BY InitInv, InvStep, PTL DEF Spec

\* Every operation leaves the stores, the bundles and the locals well formed.
THEOREM TypeCorrect == Spec => []TypeOK
<1>1. IInv => TypeOK
  BY DEF IInv
<1> QED
  BY Invariance, <1>1, PTL

\* Whatever imports race, every copy stays one rooted, unbroken history without
\* a repeated event (CopiesSound).
THEOREM CopiesAlwaysSound == Spec => []CopiesSound
<1>1. IInv => CopiesSound
  BY DEF IInv, Copies, Sound, Distinct, CopiesSound
<1> QED
  BY Invariance, <1>1, PTL

\* A copy begins with the whole history of an exported bundle, however the
\* bundle was damaged on its way (RestoredFromExport).
THEOREM RestoredAlwaysFromExport == Spec => []RestoredFromExport
<1>1. IInv => RestoredFromExport
  BY DEF IInv
<1> QED
  BY Invariance, <1>1, PTL

\* Every copy is one sound history that begins with a whole exported one
\* (CopiesOfExports).
THEOREM CopiesAlwaysOfExports == Spec => []CopiesOfExports
BY CopiesAlwaysSound, RestoredAlwaysFromExport, PTL DEF CopiesOfExports

\* Every exported bundle contains the ALLOW decision of its own export, made
\* after DISCLOSE was held (ExportOnRecord).
THEOREM ExportAlwaysOnRecord == Spec => []ExportOnRecord
<1>1. IInv => ExportOnRecord
  BY DEF IInv
<1> QED
  BY Invariance, <1>1, PTL

\* At most one of the imports that race for a store reports that it restored
\* (ReportedOnce).
THEOREM ReportedAlwaysOnce == Spec => []ReportedOnce
<1>1. IInv => ReportedOnce
  BY DEF IInv
<1> QED
  BY Invariance, <1>1, PTL

\* Inside the store's guard a bundle verifies, ends with its decision, and
\* DISCLOSE is held when it is returned (GuardedExportWhole).
THEOREM GuardedExportAlwaysWhole == Spec => GuardedExportWhole
<1> DEFINE A == \A t \in Threads :
                  pc[t] = "reduce" /\ owner[draft[t].store] = t /\ exports' # exports =>
                      /\ Verified(Built(t))
                      /\ HeadId(Built(t).events) = draft[t].decision
                      /\ OpenAt(Built(t).events, Len(Built(t).events))
<1>1. ASSUME IInv
      PROVE  A
  <2> SUFFICES ASSUME NEW t \in Threads, pc[t] = "reduce", owner[draft[t].store] = t
               PROVE  /\ Verified(Built(t))
                      /\ HeadId(Built(t).events) = draft[t].decision
                      /\ OpenAt(Built(t).events, Len(Built(t).events))
    OBVIOUS
  <2> DEFINE h == log[draft[t].store]
  <2>1. draft[t].bundle.events = h /\ Current(h, draft[t].decision)
    BY <1>1 DEF IInv, Guarded
  <2>2. Built(t).events = h /\ Built(t).projection = Project(h)
    BY <1>1, <2>1, BuiltType DEF IInv
  <2>3. Rooted(h) /\ ChainValid(h)
    BY <1>1, Types DEF IInv, Copies, Sound
  <2> QED
    BY <2>1, <2>2, <2>3 DEF Verified, Current
<1>2. IInv => [A]_vars
  BY <1>1
<1> QED
  BY Invariance, <1>2, PTL DEF GuardedExportWhole

=============================================================================
