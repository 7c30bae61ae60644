-------------------------- MODULE EventStoreProofs --------------------------
(***************************************************************************)
(* Proofs about EventStore for every set of threads, relationships and     *)
(* actors and every bound: its types, the transaction invariant, the chain *)
(* and the refinement of AppendOnlyLog.                                    *)
(***************************************************************************)
EXTENDS EventStore, TLAPS

-----------------------------------------------------------------------------
\* Histories and batches.

\* A history followed by validated events is one chain (_validate_append).
LEMMA ChainExtends ==
    ASSUME NEW h \in Seq(Event), NEW g \in Seq(Event), WellChained(h),
           \A j \in (Len(h) + 1)..Len(h \o g) : Fits(h \o g, j)
    PROVE  WellChained(h \o g)
<1> SUFFICES ASSUME NEW j \in 1..Len(h \o g)  PROVE Fits(h \o g, j)
    BY DEF WellChained
<1>1. CASE j \in 1..Len(h)
    <2>1. Fits(h, j)  BY <1>1 DEF WellChained
    <2>2. \A i \in 1..j : (h \o g)[i] = h[i]  BY <1>1
    <2> QED  BY <1>1, <2>1, <2>2 DEF Fits, IsNextSequence
<1>2. CASE j \notin 1..Len(h)
    <2>1. j \in (Len(h) + 1)..Len(h \o g)  BY <1>2
    <2> QED  BY <2>1
<1> QED  BY <1>1, <1>2

\* Appending events only adds identifiers.
LEMMA IdsConcat ==
    ASSUME NEW h \in Seq(Event), NEW g \in Seq(Event)
    PROVE  /\ Ids(h) \subseteq Ids(h \o g)
           /\ Ids(g) \subseteq Ids(h \o g)
<1>1. \A i \in 1..Len(h) : i \in 1..Len(h \o g) /\ (h \o g)[i] = h[i]
    OBVIOUS
<1>2. \A i \in 1..Len(g) : Len(h) + i \in 1..Len(h \o g) /\ (h \o g)[Len(h) + i] = g[i]
    OBVIOUS
<1> QED  BY <1>1, <1>2 DEF Ids

\* Identifiers of events are natural numbers.
LEMMA IdsNat ==
    ASSUME NEW b \in Batch
    PROVE  AllIds(b) \subseteq Nat
<1>1. ASSUME NEW r \in Relationships, NEW i \in 1..Len(b[r])  PROVE b[r][i].id \in Nat
    <2>1. b[r] \in Seq(Event)  BY DEF Batch
    <2>2. b[r][i] \in Event  BY <2>1
    <2> QED  BY <2>2 DEF Event
<1> QED  BY <1>1 DEF AllIds, Ids

\* The initial batch and draft are typed.
LEMMA InitialTypes ==
    /\ NoEvents \in Batch
    /\ NoDraft \in Draft
<1>1. NoEvents \in Batch  BY DEF NoEvents, Batch
<1>2. NoDraft \in Draft  BY StoreAssumption DEF NoDraft, Draft
<1> QED  BY <1>1, <1>2

\* Batches of one or two events.
LEMMA BatchOne ==
    ASSUME NEW r \in Relationships, NEW e \in Event
    PROVE  [NoEvents EXCEPT ![r] = <<e>>] \in Batch
<1>1. <<e>> \in Seq(Event)  OBVIOUS
<1> QED  BY <1>1, InitialTypes DEF Batch

LEMMA BatchTwo ==
    ASSUME NEW r \in Relationships, NEW e \in Event, NEW f \in Event
    PROVE  [NoEvents EXCEPT ![r] = <<e, f>>] \in Batch
<1>1. <<e, f>> \in Seq(Event)  OBVIOUS
<1> QED  BY <1>1, InitialTypes DEF Batch

LEMMA BatchPair ==
    ASSUME NEW r \in Relationships, NEW q \in Relationships,
           NEW e \in Event, NEW f \in Event
    PROVE  [NoEvents EXCEPT ![r] = <<e>>, ![q] = <<f>>] \in Batch
<1>1. <<e>> \in Seq(Event) /\ <<f>> \in Seq(Event)  OBVIOUS
<1> QED  BY <1>1, InitialTypes DEF Batch

-----------------------------------------------------------------------------

\* EventStore keeps its types: every read, append, rollback and crash of the
\* store leaves sequences of well-formed events and a lock with a real holder.
\* The lock is part of the induction: releasing it keeps depth a natural number
\* only because whoever releases it holds it.
THEOREM TypeCorrect == Spec => [](TypeOK /\ LockHeld)
<1>1. Init => TypeOK /\ LockHeld
    BY InitialTypes, StoreAssumption DEF Init, TypeOK, LockHeld, Batch, NoEvents
<1>2. ASSUME TypeOK, LockHeld, [Next]_vars  PROVE TypeOK' /\ LockHeld'
    <2> USE <1>2, StoreAssumption DEF TypeOK, LockHeld
    <2>1. ASSUME NEW t \in Threads, NEW r \in Relationships, NEW a \in Actors,
                 StartCommit(t, r, a)
          PROVE  TypeOK' /\ LockHeld'
        BY <2>1 DEF StartCommit, Goto, Draft
    <2>2. ASSUME NEW t \in Threads, ReadHead(t)  PROVE TypeOK' /\ LockHeld'
        <3> DEFINE d == draft[t]
        <3>1. d \in Draft  OBVIOUS
        <3>2. Stored(d.rel) \in Seq(Event)  BY <3>1 DEF Stored, Draft
        <3>3. HeadId(Stored(d.rel)) \in Nat
            <4> DEFINE h == Stored(d.rel)
            <4>1. CASE h = << >>  BY <4>1 DEF HeadId
            <4>2. CASE h # << >>
                <5>1. h[Len(h)] \in Event  BY <3>2, <4>2
                <5> QED  BY <4>2, <5>1 DEF HeadId, Event
            <4> QED  BY <4>1, <4>2
        <3>4. draft' \in [Threads -> Draft]
            BY <2>2, <3>1, <3>3 DEF ReadHead, Draft
        <3>5. pc' \in [Threads -> {"idle", "head", "seq", "append", "submit", "insert", "return"}]
            BY <2>2 DEF ReadHead, Goto
        <3>6. LockHeld'  BY <2>2 DEF ReadHead, Goto
        <3> QED  BY <2>2, <3>4, <3>5, <3>6 DEF ReadHead
    <2>3. ASSUME NEW t \in Threads, ReadSequence(t)  PROVE TypeOK' /\ LockHeld'
        <3> DEFINE d == draft[t]
        <3>1. d \in Draft /\ d.rel \in Relationships /\ d.actor \in Actors /\ d.prior \in Nat
            BY DEF Draft
        <3>2. PICK n \in 1..(Len(Stored(d.rel)) + 1) :
                  batch' = [batch EXCEPT ![t] = [NoEvents EXCEPT ![d.rel] =
                      <<[id |-> nextId, actor |-> d.actor, seq |-> n, prev |-> d.prior]>>]]
            BY <2>3 DEF ReadSequence
        <3>3. [id |-> nextId, actor |-> d.actor, seq |-> n, prev |-> d.prior] \in Event
            BY <3>1 DEF Event
        <3>4. [NoEvents EXCEPT ![d.rel] =
                  <<[id |-> nextId, actor |-> d.actor, seq |-> n, prev |-> d.prior]>>] \in Batch
            <4> DEFINE e == [id |-> nextId, actor |-> d.actor, seq |-> n, prev |-> d.prior]
            <4>1. e \in Event /\ d.rel \in Relationships  BY <3>1, <3>3
            <4>2. [NoEvents EXCEPT ![d.rel] = <<e>>] \in Batch
                <5> HIDE DEF e, d
                <5> QED  BY <4>1, BatchOne
            <4> QED  BY <4>2
        <3>5. batch' \in [Threads -> Batch]  BY <3>2, <3>4
        <3>6. LockHeld'  BY <2>3 DEF ReadSequence, Goto
        <3>7. pc' \in [Threads -> {"idle", "head", "seq", "append", "submit", "insert", "return"}]
            BY <2>3 DEF ReadSequence, Goto
        <3> QED  BY <2>3, <3>5, <3>6, <3>7 DEF ReadSequence
    <2>4. ASSUME NEW t \in Threads, NEW r \in Relationships, NEW q \in Relationships,
                 NEW a \in Actors, NEW stale \in BOOLEAN, BuildBatch(t, r, q, a, stale)
          PROVE  TypeOK' /\ LockHeld'
        <3>1. PICK n \in Nat \ {0}, m \in Nat \ {0}, p1 \in Nat, p2 \in Nat :
                LET first  == [id |-> nextId, actor |-> a, seq |-> n, prev |-> p1]
                    second == [id |-> nextId + 1, actor |-> a, seq |-> m, prev |-> p2]
                IN  batch' = [batch EXCEPT ![t] =
                      IF q = r THEN [NoEvents EXCEPT ![r] = <<first, second>>]
                               ELSE [NoEvents EXCEPT ![r] = <<first>>, ![q] = <<second>>]]
            <4> DEFINE first(n) == [id |-> nextId, actor |-> a, seq |-> n,
                                    prev |-> HeadId(Stored(r))]
                       before(n) == IF q = r /\ ~stale THEN Append(Stored(r), first(n))
                                                       ELSE Stored(q)
            <4>1. PICK n \in 1..(Len(Stored(r)) + 1), m \in 1..(Len(Stored(q)) + 2) :
                    batch' = [batch EXCEPT ![t] =
                      LET second == [id |-> nextId + 1, actor |-> a, seq |-> m,
                                     prev |-> HeadId(before(n))]
                      IN  IF q = r THEN [NoEvents EXCEPT ![r] = <<first(n), second>>]
                                   ELSE [NoEvents EXCEPT ![r] = <<first(n)>>, ![q] = <<second>>]]
                BY <2>4 DEF BuildBatch
            <4>2. Stored(r) \in Seq(Event) /\ Stored(q) \in Seq(Event)  BY DEF Stored
            <4>3. ASSUME NEW h \in Seq(Event)  PROVE HeadId(h) \in Nat
                <5>1. CASE h = << >>  BY <5>1 DEF HeadId
                <5>2. CASE h # << >>
                    <6>1. h[Len(h)] \in Event  BY <4>3, <5>2
                    <6> QED  BY <5>2, <6>1 DEF HeadId, Event
                <5> QED  BY <5>1, <5>2
            <4>4. HeadId(Stored(r)) \in Nat  BY <4>2, <4>3
            <4>5. n \in Nat \ {0} /\ m \in Nat \ {0}  BY <4>2
            <4>6. first(n) \in Event  BY <4>4, <4>5 DEF Event
            <4>7. before(n) \in Seq(Event)  BY <4>2, <4>6
            <4>8. HeadId(before(n)) \in Nat  BY <4>3, <4>7
            <4> QED  BY <4>1, <4>4, <4>5, <4>8
        <3> DEFINE first  == [id |-> nextId, actor |-> a, seq |-> n, prev |-> p1]
                   second == [id |-> nextId + 1, actor |-> a, seq |-> m, prev |-> p2]
                   built  == IF q = r THEN [NoEvents EXCEPT ![r] = <<first, second>>]
                                ELSE [NoEvents EXCEPT ![r] = <<first>>, ![q] = <<second>>]
        <3>2. first \in Event /\ second \in Event  BY DEF Event
        <3>4. built \in Batch
            <4> HIDE DEF first, second
            <4> QED  BY <3>2, BatchOne, BatchTwo, BatchPair
        <3>5. batch' = [batch EXCEPT ![t] = built]  BY <3>1
        <3>6. batch' \in [Threads -> Batch]
            <4> HIDE DEF built
            <4> QED  BY <3>4, <3>5
        <3>7. LockHeld'  BY <2>4 DEF BuildBatch, Goto
        <3>8. pc' \in [Threads -> {"idle", "head", "seq", "append", "submit", "insert", "return"}]
            BY <2>4 DEF BuildBatch, Goto
        <3> QED  BY <2>4, <3>6, <3>7, <3>8 DEF BuildBatch
    <2>5. ASSUME NEW t \in Threads, Resubmit(t)  PROVE TypeOK' /\ LockHeld'
        BY <2>5 DEF Resubmit, Goto
    <2>6. ASSUME NEW t \in Threads, BeginAppend(t)  PROVE TypeOK' /\ LockHeld'
        <3>1. LockHeld'  BY <2>6 DEF BeginAppend, Goto, Lock, CanLock
        <3>2. pc' \in [Threads -> {"idle", "head", "seq", "append", "submit", "insert", "return"}]
            BY <2>6 DEF BeginAppend, Goto
        <3> QED  BY <2>6, <3>1, <3>2 DEF BeginAppend, Lock
    <2>7. ASSUME NEW t \in Threads, RefuseAppend(t)  PROVE TypeOK' /\ LockHeld'
        BY <2>7 DEF RefuseAppend, Goto
    <2>8. ASSUME NEW t \in Threads, NEW r \in Relationships, InsertRow(t, r)  PROVE TypeOK' /\ LockHeld'
        <3>1. batch[t][r] \in Seq(Event)  BY DEF Batch
        <3>2. batch[t][r][Len(rows[r]) + 1] \in Event  BY <2>8, <3>1 DEF InsertRow
        <3>3. rows' \in [Relationships -> Seq(Event)]  BY <2>8, <3>2 DEF InsertRow
        <3> QED  BY <2>8, <3>3 DEF InsertRow
    <2>9. ASSUME NEW t \in Threads, CommitRows(t)  PROVE TypeOK' /\ LockHeld'
        BY <2>9, InitialTypes DEF CommitRows, Goto, Unlock, Batch
    <2>10. ASSUME NEW t \in Threads, Rollback(t)  PROVE TypeOK' /\ LockHeld'
        BY <2>10, InitialTypes DEF Rollback, Goto, Unlock, Batch
    <2>11. ASSUME NEW t \in Threads, Return(t)  PROVE TypeOK' /\ LockHeld'
        <3>1. AllIds(batch[t]) \subseteq Nat  BY IdsNat
        <3>2. LockHeld'  BY <2>11 DEF Return, Goto
        <3>3. pc' \in [Threads -> {"idle", "head", "seq", "append", "submit", "insert", "return"}]
            BY <2>11 DEF Return, Goto
        <3>4. acknowledged' \subseteq Nat  BY <2>11, <3>1 DEF Return
        <3> QED  BY <2>11, <3>2, <3>3, <3>4 DEF Return
    <2>12. ASSUME NEW t \in Threads, EnterGuard(t)  PROVE TypeOK' /\ LockHeld'
        BY <2>12 DEF EnterGuard, Lock, CanLock
    <2>13. ASSUME NEW t \in Threads, ExitGuard(t)  PROVE TypeOK' /\ LockHeld'
        BY <2>13 DEF ExitGuard, Unlock
    <2>14. CASE Crash
        BY <2>14, InitialTypes DEF Crash, Batch
    <2>15. CASE UNCHANGED vars
        BY <2>15 DEF vars
    <2> QED
        BY <2>1, <2>2, <2>3, <2>4, <2>5, <2>6, <2>7, <2>8, <2>9, <2>10, <2>11,
           <2>12, <2>13, <2>14, <2>15 DEF Next, ThreadStep
<1> QED  BY <1>1, <1>2, PTL DEF Spec

-----------------------------------------------------------------------------
\* The inductive invariant.  ChainIntact alone is not inductive: that a COMMIT
\* extends the chain it validated needs that no other thread committed since
\* (RowsValidated, LockHeld).

IInv ==
    /\ TypeOK
    /\ LockHeld
    /\ RowsValidated
    /\ ChainIntact
    /\ AcknowledgedStored

\* Outside the transaction of a thread, what a read returns is the log.
LEMMA StoredIsLog ==
    ASSUME TypeOK, LockHeld, RowsValidated, NEW t \in Threads,
           CanLock(t), pc[t] # "insert"
    PROVE  rows = NoEvents /\ \A r \in Relationships : Stored(r) = log[r]
<1>1. \A u \in Threads : pc[u] # "insert"
    BY StoreAssumption DEF LockHeld, CanLock
<1>2. rows = NoEvents  BY <1>1 DEF RowsValidated
<1>3. \A r \in Relationships : log[r] \in Seq(Event)  BY DEF TypeOK
<1> QED  BY <1>2, <1>3 DEF Stored, NoEvents

\* A COMMIT adds the batch to the identifiers of the log and keeps the old ones.
LEMMA CommitAddsIds ==
    ASSUME TypeOK, NEW t \in Threads, CommitRows(t)
    PROVE  /\ AllIds(log) \subseteq AllIds(log')
           /\ AllIds(batch[t]) \subseteq AllIds(log')
<1>1. ASSUME NEW r \in Relationships
      PROVE  Ids(log[r]) \subseteq Ids(log'[r]) /\ Ids(batch[t][r]) \subseteq Ids(log'[r])
    <2>1. log[r] \in Seq(Event) /\ batch[t][r] \in Seq(Event)
        BY DEF TypeOK, Batch
    <2>2. log'[r] = log[r] \o batch[t][r]  BY DEF CommitRows
    <2> QED  BY <2>1, <2>2, IdsConcat
<1> QED  BY <1>1 DEF AllIds

\* The histories stay well-chained, rows stay validated and acknowledged events
\* stay stored, however the threads interleave, fail and crash.
LEMMA InductionStep ==
    ASSUME IInv, [Next]_vars, TypeOK', LockHeld'
    PROVE  RowsValidated' /\ ChainIntact' /\ AcknowledgedStored'
<1> USE DEF IInv
<1>1. ASSUME UNCHANGED <<log, rows, acknowledged>>,
             \A u \in Threads : pc'[u] \in {"insert", "return"} =>
                 pc'[u] = pc[u] /\ batch'[u] = batch[u],
             \/ \A u \in Threads : pc[u] = "insert" <=> pc'[u] = "insert"
             \/ rows = NoEvents
      PROVE  RowsValidated' /\ ChainIntact' /\ AcknowledgedStored'
    <2>1. RowsValidated'
        <3>1. (\A u \in Threads : pc'[u] # "insert") => rows' = NoEvents
            BY <1>1 DEF RowsValidated
        <3>2. ASSUME NEW u \in Threads, pc'[u] = "insert", NEW r \in Relationships
              PROVE  /\ Len(rows'[r]) <= Len(batch'[u][r])
                     /\ \A i \in 1..Len(rows'[r]) : rows'[r][i] = batch'[u][r][i]
                     /\ LET h == log'[r] \o batch'[u][r]
                        IN  \A j \in (Len(log'[r]) + 1)..Len(h) : Fits(h, j)
            <4>1. pc[u] = "insert" /\ batch'[u] = batch[u]  BY <1>1, <3>2
            <4> QED  BY <1>1, <4>1 DEF RowsValidated
        <3>3. RowsValidated' <=>
                /\ (\A u \in Threads : pc'[u] # "insert") => rows' = NoEvents
                /\ \A u \in Threads : pc'[u] = "insert" => \A r \in Relationships :
                     /\ Len(rows'[r]) <= Len(batch'[u][r])
                     /\ \A i \in 1..Len(rows'[r]) : rows'[r][i] = batch'[u][r][i]
                     /\ LET h == log'[r] \o batch'[u][r]
                        IN  \A j \in (Len(log'[r]) + 1)..Len(h) : Fits(h, j)
            BY DEF RowsValidated, NoEvents
        <3> QED  BY <3>1, <3>2, <3>3
    <2>2. ChainIntact'  BY <1>1 DEF ChainIntact
    <2>3. AcknowledgedStored'  BY <1>1 DEF AcknowledgedStored
    <2> QED  BY <2>1, <2>2, <2>3
<1>2. ASSUME NEW t \in Threads, NEW r \in Relationships, NEW a \in Actors,
             StartCommit(t, r, a)
      PROVE  RowsValidated' /\ ChainIntact' /\ AcknowledgedStored'
    <2>1. \A u \in Threads : pc'[u] \in {"insert", "return"} => pc'[u] = pc[u]
        BY <1>2 DEF StartCommit, Goto, TypeOK
    <2>2. \A u \in Threads : pc[u] = "insert" <=> pc'[u] = "insert"
        BY <1>2 DEF StartCommit, Goto, TypeOK
    <2> QED  BY <1>1, <1>2, <2>1, <2>2 DEF StartCommit
<1>3. ASSUME NEW t \in Threads, ReadHead(t)
      PROVE  RowsValidated' /\ ChainIntact' /\ AcknowledgedStored'
    <2>1. \A u \in Threads : pc'[u] \in {"insert", "return"} => pc'[u] = pc[u]
        BY <1>3 DEF ReadHead, Goto, TypeOK
    <2>2. \A u \in Threads : pc[u] = "insert" <=> pc'[u] = "insert"
        BY <1>3 DEF ReadHead, Goto, TypeOK
    <2> QED  BY <1>1, <1>3, <2>1, <2>2 DEF ReadHead
<1>4. ASSUME NEW t \in Threads, ReadSequence(t)
      PROVE  RowsValidated' /\ ChainIntact' /\ AcknowledgedStored'
    <2>1. \A u \in Threads : pc'[u] \in {"insert", "return"} =>
              pc'[u] = pc[u] /\ batch'[u] = batch[u]
        BY <1>4 DEF ReadSequence, Goto, TypeOK
    <2>2. \A u \in Threads : pc[u] = "insert" <=> pc'[u] = "insert"
        BY <1>4 DEF ReadSequence, Goto, TypeOK
    <2> QED  BY <1>1, <1>4, <2>1, <2>2 DEF ReadSequence
<1>5. ASSUME NEW t \in Threads, NEW r \in Relationships, NEW q \in Relationships,
             NEW a \in Actors, NEW stale \in BOOLEAN, BuildBatch(t, r, q, a, stale)
      PROVE  RowsValidated' /\ ChainIntact' /\ AcknowledgedStored'
    <2>1. \A u \in Threads : pc'[u] \in {"insert", "return"} =>
              pc'[u] = pc[u] /\ batch'[u] = batch[u]
        BY <1>5 DEF BuildBatch, Goto, TypeOK
    <2>2. \A u \in Threads : pc[u] = "insert" <=> pc'[u] = "insert"
        BY <1>5 DEF BuildBatch, Goto, TypeOK
    <2> QED  BY <1>1, <1>5, <2>1, <2>2 DEF BuildBatch
<1>6. ASSUME NEW t \in Threads, Resubmit(t)
      PROVE  RowsValidated' /\ ChainIntact' /\ AcknowledgedStored'
    <2>1. \A u \in Threads : pc'[u] \in {"insert", "return"} => pc'[u] = pc[u]
        BY <1>6 DEF Resubmit, Goto, TypeOK
    <2>2. \A u \in Threads : pc[u] = "insert" <=> pc'[u] = "insert"
        BY <1>6 DEF Resubmit, Goto, TypeOK
    <2> QED  BY <1>1, <1>6, <2>1, <2>2 DEF Resubmit
<1>7. ASSUME NEW t \in Threads, BeginAppend(t)
      PROVE  RowsValidated' /\ ChainIntact' /\ AcknowledgedStored'
    <2>1. CanLock(t) /\ pc[t] # "insert"  BY <1>7 DEF BeginAppend, Lock
    <2>2. rows = NoEvents /\ \A r \in Relationships : Stored(r) = log[r]
        BY <2>1, StoredIsLog
    <2>3. \A u \in Threads : u # t => pc[u] # "insert" /\ pc'[u] = pc[u]
        BY <1>7, <2>1, StoreAssumption DEF LockHeld, CanLock, BeginAppend, Goto, TypeOK
    <2>4. pc'[t] = "insert"  BY <1>7 DEF BeginAppend, Goto, TypeOK
    <2>5. UNCHANGED <<log, rows, batch, acknowledged>>  BY <1>7 DEF BeginAppend
    <2>6. ASSUME NEW u \in Threads, pc'[u] = "insert", NEW r \in Relationships
          PROVE  /\ Len(rows'[r]) <= Len(batch'[u][r])
                 /\ \A i \in 1..Len(rows'[r]) : rows'[r][i] = batch'[u][r][i]
                 /\ LET h == log'[r] \o batch'[u][r]
                    IN  \A j \in (Len(log'[r]) + 1)..Len(h) : Fits(h, j)
        <3>1. u = t  BY <2>3, <2>6
        <3>2. batch[t][r] \in Seq(Event)  BY DEF TypeOK, Batch
        <3>3. rows[r] = << >>  BY <2>2 DEF NoEvents
        <3>4. \A j \in (Len(log[r]) + 1)..Len(log[r] \o batch[t][r]) :
                  Fits(log[r] \o batch[t][r], j)
            BY <1>7, <2>2 DEF BeginAppend, Appendable
        <3>5. log' = log /\ rows' = rows /\ batch' = batch  BY <2>5
        <3>6. log[r] \in Seq(Event)  BY DEF TypeOK
        <3>7. /\ Len(rows[r]) <= Len(batch[t][r])
              /\ \A i \in 1..Len(rows[r]) : rows[r][i] = batch[t][r][i]
            BY <3>2, <3>3
        <3> QED  BY <3>1, <3>4, <3>5, <3>7
    <2>7. RowsValidated'  BY <2>4, <2>6 DEF RowsValidated
    <2>8. ChainIntact'  BY <2>5 DEF ChainIntact
    <2>9. AcknowledgedStored'  BY <2>3, <2>4, <2>5 DEF AcknowledgedStored
    <2> QED  BY <2>7, <2>8, <2>9
<1>8. ASSUME NEW t \in Threads, RefuseAppend(t)
      PROVE  RowsValidated' /\ ChainIntact' /\ AcknowledgedStored'
    <2>1. \A u \in Threads : pc'[u] \in {"insert", "return"} => pc'[u] = pc[u]
        BY <1>8 DEF RefuseAppend, Goto, TypeOK
    <2>2. \A u \in Threads : pc[u] = "insert" <=> pc'[u] = "insert"
        BY <1>8 DEF RefuseAppend, Goto, TypeOK
    <2> QED  BY <1>1, <1>8, <2>1, <2>2 DEF RefuseAppend
<1>9. ASSUME NEW t \in Threads, NEW r \in Relationships, InsertRow(t, r)
      PROVE  RowsValidated' /\ ChainIntact' /\ AcknowledgedStored'
    <2>1. UNCHANGED <<log, owner, pc, batch, acknowledged>>  BY <1>9 DEF InsertRow
    <2>2. \A u \in Threads : pc[u] = "insert" => u = t
        BY <1>9 DEF InsertRow, LockHeld
    <2>3. ASSUME NEW q \in Relationships
          PROVE  /\ Len(rows'[q]) <= Len(batch[t][q])
                 /\ \A i \in 1..Len(rows'[q]) : rows'[q][i] = batch[t][q][i]
        <3>1. batch[t][q] \in Seq(Event) /\ rows[q] \in Seq(Event)  BY DEF TypeOK, Batch
        <3>2. /\ Len(rows[q]) <= Len(batch[t][q])
              /\ \A i \in 1..Len(rows[q]) : rows[q][i] = batch[t][q][i]
            BY <1>9 DEF InsertRow, RowsValidated
        <3>3. CASE q = r
            <4>1. Len(rows[q]) < Len(batch[t][q])  BY <1>9, <3>3 DEF InsertRow
            <4>2. rows'[q] = Append(rows[q], batch[t][q][Len(rows[q]) + 1])
                BY <1>9, <3>3 DEF InsertRow, TypeOK
            <4>3. batch[t][q][Len(rows[q]) + 1] \in Event  BY <3>1, <4>1
            <4> QED  BY <3>1, <3>2, <4>1, <4>2, <4>3
        <3>4. CASE q # r
            <4>1. rows'[q] = rows[q]  BY <1>9, <3>4 DEF InsertRow, TypeOK
            <4> QED  BY <3>2, <4>1
        <3> QED  BY <3>3, <3>4
    <2>4. pc[t] = "insert"  BY <1>9 DEF InsertRow
    <2>5. RowsValidated'
        <3>1. log' = log /\ pc' = pc /\ batch' = batch  BY <2>1
        <3>2. ASSUME NEW u \in Threads, pc'[u] = "insert", NEW q \in Relationships
              PROVE  /\ Len(rows'[q]) <= Len(batch'[u][q])
                     /\ \A i \in 1..Len(rows'[q]) : rows'[q][i] = batch'[u][q][i]
                     /\ LET h == log'[q] \o batch'[u][q]
                        IN  \A j \in (Len(log'[q]) + 1)..Len(h) : Fits(h, j)
            <4>1. u = t  BY <2>2, <3>1, <3>2
            <4>2. \A j \in (Len(log[q]) + 1)..Len(log[q] \o batch[t][q]) :
                      Fits(log[q] \o batch[t][q], j)
                BY <2>4 DEF RowsValidated
            <4> QED  BY <2>3, <3>1, <4>1, <4>2
        <3>3. \E u \in Threads : pc'[u] = "insert"  BY <2>4, <3>1
        <3> QED  BY <3>2, <3>3 DEF RowsValidated
    <2>6. ChainIntact' /\ AcknowledgedStored'
        BY <2>1 DEF ChainIntact, AcknowledgedStored
    <2> QED  BY <2>5, <2>6
<1>10. ASSUME NEW t \in Threads, CommitRows(t)
       PROVE  RowsValidated' /\ ChainIntact' /\ AcknowledgedStored'
    <2>1. pc[t] = "insert" /\ rows' = NoEvents /\ UNCHANGED <<batch, acknowledged>>
        BY <1>10 DEF CommitRows, Goto
    <2>2. \A u \in Threads : u # t => pc[u] # "insert" /\ pc'[u] = pc[u]
        BY <1>10, <2>1 DEF LockHeld, CommitRows, Goto, TypeOK
    <2>3. pc'[t] = "return"  BY <1>10 DEF CommitRows, Goto, TypeOK
    <2>4. RowsValidated'  BY <2>1, <2>2, <2>3 DEF RowsValidated, NoEvents
    <2>5. ASSUME NEW r \in Relationships  PROVE WellChained(log'[r])
        <3>1. log[r] \in Seq(Event) /\ batch[t][r] \in Seq(Event)  BY DEF TypeOK, Batch
        <3>2. log'[r] = log[r] \o batch[t][r]  BY <1>10 DEF CommitRows
        <3>3. WellChained(log[r])  BY DEF ChainIntact
        <3>4. \A j \in (Len(log[r]) + 1)..Len(log[r] \o batch[t][r]) :
                  Fits(log[r] \o batch[t][r], j)
            BY <2>1 DEF RowsValidated
        <3> QED  BY <3>1, <3>2, <3>3, <3>4, ChainExtends
    <2>6. ChainIntact'  BY <2>5 DEF ChainIntact
    <2>7. AcknowledgedStored'
        BY <1>10, <2>1, <2>2, <2>3, CommitAddsIds DEF AcknowledgedStored
    <2> QED  BY <2>4, <2>6, <2>7
<1>11. ASSUME NEW t \in Threads, Rollback(t)
       PROVE  RowsValidated' /\ ChainIntact' /\ AcknowledgedStored'
    <2>1. pc[t] = "insert" /\ rows' = NoEvents /\ UNCHANGED <<log, batch, acknowledged>>
        BY <1>11 DEF Rollback, Goto
    <2>2. \A u \in Threads : u # t => pc[u] # "insert" /\ pc'[u] = pc[u]
        BY <1>11, <2>1 DEF LockHeld, Rollback, Goto, TypeOK
    <2>3. pc'[t] = "idle"  BY <1>11 DEF Rollback, Goto, TypeOK
    <2>4. RowsValidated'  BY <2>1, <2>2, <2>3 DEF RowsValidated, NoEvents
    <2>5. ChainIntact'  BY <2>1 DEF ChainIntact
    <2>6. AcknowledgedStored'  BY <2>1, <2>2, <2>3 DEF AcknowledgedStored
    <2> QED  BY <2>4, <2>5, <2>6
<1>12. ASSUME NEW t \in Threads, Return(t)
       PROVE  RowsValidated' /\ ChainIntact' /\ AcknowledgedStored'
    <2>1. pc[t] = "return" /\ UNCHANGED <<log, rows, batch>>  BY <1>12 DEF Return, Goto
    <2>2. \A u \in Threads : u # t => pc'[u] = pc[u]  BY <1>12 DEF Return, Goto, TypeOK
    <2>3. pc'[t] = "idle"  BY <1>12 DEF Return, Goto, TypeOK
    <2>4. RowsValidated'  BY <2>1, <2>2, <2>3 DEF RowsValidated
    <2>5. ChainIntact'  BY <2>1 DEF ChainIntact
    <2>6. AcknowledgedStored'  BY <1>12, <2>1, <2>2, <2>3 DEF Return, AcknowledgedStored
    <2> QED  BY <2>4, <2>5, <2>6
<1>13. ASSUME NEW t \in Threads, EnterGuard(t)
       PROVE  RowsValidated' /\ ChainIntact' /\ AcknowledgedStored'
    BY <1>1, <1>13 DEF EnterGuard
<1>14. ASSUME NEW t \in Threads, ExitGuard(t)
       PROVE  RowsValidated' /\ ChainIntact' /\ AcknowledgedStored'
    BY <1>1, <1>14 DEF ExitGuard
<1>15. CASE Crash
    <2>1. /\ rows' = NoEvents /\ UNCHANGED <<log, acknowledged>>
          /\ \A u \in Threads : pc'[u] = "idle"
        BY <1>15 DEF Crash
    <2>2. RowsValidated'  BY <2>1 DEF RowsValidated, NoEvents
    <2>3. ChainIntact' /\ AcknowledgedStored'
        BY <2>1 DEF ChainIntact, AcknowledgedStored
    <2> QED  BY <2>2, <2>3
<1>16. CASE UNCHANGED vars
    BY <1>1, <1>16 DEF vars
<1> QED
    BY <1>2, <1>3, <1>4, <1>5, <1>6, <1>7, <1>8, <1>9, <1>10, <1>11, <1>12, <1>13,
       <1>14, <1>15, <1>16 DEF Next, ThreadStep

\* Histories are one chain (ChainIntact) and rows exist only in the transaction
\* of the lock holder (TransactionExclusive), for any number of threads and any
\* batches: the inductive invariant holds in every reachable state.
THEOREM Invariance == Spec => []IInv
<1>1. Init => IInv
    <2> SUFFICES ASSUME Init  PROVE IInv  OBVIOUS
    <2>1. TypeOK /\ LockHeld
        BY InitialTypes, StoreAssumption DEF Init, TypeOK, LockHeld, Batch, NoEvents
    <2>2. RowsValidated  BY DEF Init, RowsValidated
    <2>3. ChainIntact  BY DEF Init, ChainIntact, WellChained, NoEvents
    <2>4. AcknowledgedStored  BY DEF Init, AcknowledgedStored
    <2> QED  BY <2>1, <2>2, <2>3, <2>4 DEF IInv
<1>2. IInv /\ [Next]_vars /\ (TypeOK /\ LockHeld)' => IInv'
    BY InductionStep DEF IInv
<1> QED  BY <1>1, <1>2, TypeCorrect, PTL DEF Spec

\* Every history verifies as one chain (_validate_append, verify_event_chain).
COROLLARY ChainAlwaysIntact == Spec => []ChainIntact
<1>1. IInv => ChainIntact  BY DEF IInv
<1> QED  BY <1>1, Invariance, PTL

\* An open transaction belongs to the lock holder and stays validated until its
\* COMMIT (SQLiteEventStore.append_many under execution_guard).
COROLLARY TransactionAlwaysExclusive == Spec => []TransactionExclusive
<1>1. IInv => TransactionExclusive  BY DEF IInv, TransactionExclusive
<1> QED  BY <1>1, Invariance, PTL

-----------------------------------------------------------------------------
\* The refinement.

\* The two modules' chain conditions agree.
LEMMA SameChain == \A h : WellChained(h) => Abstract!WellChained(h)
    BY DEF WellChained, Fits, IsNextSequence, Abstract!WellChained, Abstract!Continues

\* A concatenation starts with its first part.
LEMMA ExtensionStarts ==
    ASSUME NEW h \in Seq(Event), NEW g \in Seq(Event)
    PROVE  Abstract!StartsWith(h \o g, h)
<1>1. Len(h) <= Len(h \o g)  OBVIOUS
<1>2. \A i \in 1..Len(h) : (h \o g)[i] = h[i]  OBVIOUS
<1> QED  BY <1>1, <1>2 DEF Abstract!StartsWith

\* Every step of the store is a step of the append-only log or changes nothing
\* of it: only COMMIT touches the histories, only Return the acknowledgements.
THEOREM Refinement == Spec => ImplementsLog
<1>1. Init => Abstract!Init
    BY DEF Init, Abstract!Init, NoEvents
<1>2. ASSUME IInv, IInv', [Next]_vars
      PROVE  [Abstract!Next]_<<log, acknowledged>>
    <2> USE <1>2 DEF IInv
    <2>1. ASSUME NEW t \in Threads, CommitRows(t)  PROVE Abstract!Extend
        <3>1. ASSUME NEW r \in Relationships
              PROVE  Abstract!StartsWith(log'[r], log[r]) /\ Abstract!WellChained(log'[r])
            <4>1. log[r] \in Seq(Event) /\ batch[t][r] \in Seq(Event)  BY DEF TypeOK, Batch
            <4>2. log'[r] = log[r] \o batch[t][r]  BY <2>1 DEF CommitRows
            <4>3. Abstract!StartsWith(log'[r], log[r])
                BY <4>1, <4>2, ExtensionStarts
            <4>4. WellChained(log'[r])  BY DEF ChainIntact
            <4> QED  BY <4>3, <4>4, SameChain
        <3> QED  BY <2>1, <3>1 DEF Abstract!Extend, CommitRows
    <2>2. ASSUME NEW t \in Threads, Return(t)  PROVE Abstract!Acknowledge
        <3>1. log' = log /\ acknowledged \subseteq acknowledged'  BY <2>2 DEF Return
        <3>2. acknowledged' \subseteq AllIds(log')  BY DEF AcknowledgedStored
        <3> QED
            BY <3>1, <3>2 DEF Abstract!Acknowledge, Abstract!AllIds, Abstract!Ids, AllIds, Ids
    <2>3. CASE UNCHANGED <<log, acknowledged>>  BY <2>3
    <2>4. \/ UNCHANGED <<log, acknowledged>>
          \/ \E t \in Threads : CommitRows(t) \/ Return(t)
        BY DEF Next, ThreadStep, StartCommit, ReadHead, ReadSequence, BuildBatch, Resubmit,
               BeginAppend, RefuseAppend, InsertRow, Rollback, EnterGuard, ExitGuard, Crash, vars
    <2> QED  BY <2>1, <2>2, <2>3, <2>4 DEF Abstract!Next
<1>3. IInv /\ IInv' /\ [Next]_vars => [Abstract!Next]_<<log, acknowledged>>
    BY <1>2
<1> QED  BY <1>1, <1>3, Invariance, PTL DEF Spec, ImplementsLog, Abstract!Spec

-----------------------------------------------------------------------------
\* Batches are whole.  Identifiers are fresh, so a COMMIT adds those of its own
\* batch to the log and none of another thread's.

IdsInv ==
    /\ \A i \in AllIds(log) : i < nextId
    /\ \A t \in Threads : \A i \in AllIds(batch[t]) : i < nextId
    /\ \A t, u \in Threads : t # u => AllIds(batch[t]) \intersect AllIds(batch[u]) = {}
    /\ AllOrNothing

\* The identifiers of a batch with one event, of one with two.
LEMMA IdsOfOne ==
    ASSUME NEW r \in Relationships, NEW e
    PROVE  AllIds([NoEvents EXCEPT ![r] = <<e>>]) = {e.id}
<1> DEFINE b == [NoEvents EXCEPT ![r] = <<e>>]
<1>1. b[r] = <<e>> /\ \A q \in Relationships : q # r => b[q] = << >>  BY DEF NoEvents
<1>2. Ids(<<e>>) = {e.id} /\ Ids(<< >>) = {}  BY DEF Ids
<1> HIDE DEF b
<1>3. AllIds(b) = {e.id}  BY <1>1, <1>2 DEF AllIds
<1> QED  BY <1>3 DEF b

LEMMA IdsOfEvents ==
    /\ Ids(<< >>) = {}
    /\ \A e : Ids(<<e>>) = {e.id}
    /\ \A e, f : Ids(<<e, f>>) = {e.id, f.id}
<1>1. ASSUME NEW e  PROVE Ids(<<e>>) = {e.id}  BY DEF Ids
<1>2. ASSUME NEW e, NEW f  PROVE Ids(<<e, f>>) = {e.id, f.id}
    <2> DEFINE s == <<e, f>>
    <2>1. Len(s) = 2 /\ s[1] = e /\ s[2] = f /\ 1..2 = {1, 2}  OBVIOUS
    <2> HIDE DEF s
    <2>2. Ids(s) = {e.id, f.id}  BY <2>1 DEF Ids
    <2> QED  BY <2>2 DEF s
<1>3. Ids(<< >>) = {}  BY DEF Ids
<1> QED  BY <1>1, <1>2, <1>3

LEMMA IdsOfTwo ==
    ASSUME NEW r \in Relationships, NEW e, NEW f
    PROVE  AllIds([NoEvents EXCEPT ![r] = <<e, f>>]) = {e.id, f.id}
<1> DEFINE b == [NoEvents EXCEPT ![r] = <<e, f>>]
<1>1. b[r] = <<e, f>> /\ \A p \in Relationships : p # r => b[p] = << >>  BY DEF NoEvents
<1> HIDE DEF b
<1>2. Ids(b[r]) = {e.id, f.id} /\ \A p \in Relationships : p # r => Ids(b[p]) = {}
    <2>1. Ids(<<e, f>>) = {e.id, f.id} /\ Ids(<< >>) = {}  BY IdsOfEvents
    <2> QED  BY <1>1, <2>1, Zenon
<1>3. AllIds(b) = {e.id, f.id}  BY <1>2 DEF AllIds
<1> QED  BY <1>3 DEF b

LEMMA IdsOfPair ==
    ASSUME NEW r \in Relationships, NEW q \in Relationships, q # r, NEW e, NEW f
    PROVE  AllIds([NoEvents EXCEPT ![r] = <<e>>, ![q] = <<f>>]) = {e.id, f.id}
<1> DEFINE b == [NoEvents EXCEPT ![r] = <<e>>, ![q] = <<f>>]
<1>1. b[r] = <<e>> /\ b[q] = <<f>> /\ \A p \in Relationships \ {r, q} : b[p] = << >>
    BY DEF NoEvents
<1> HIDE DEF b
<1>2. /\ Ids(b[r]) = {e.id} /\ Ids(b[q]) = {f.id}
      /\ \A p \in Relationships \ {r, q} : Ids(b[p]) = {}
    <2>1. Ids(<<e>>) = {e.id} /\ Ids(<<f>>) = {f.id} /\ Ids(<< >>) = {}  BY IdsOfEvents
    <2> QED  BY <1>1, <2>1, Zenon
<1>3. AllIds(b) = {e.id, f.id}  BY <1>2 DEF AllIds
<1> QED  BY <1>3 DEF b

\* A batch is built of fresh identifiers.
LEMMA BuiltIds ==
    ASSUME TypeOK, NEW t \in Threads, NEW r \in Relationships, NEW q \in Relationships,
           NEW a \in Actors, NEW stale \in BOOLEAN, BuildBatch(t, r, q, a, stale)
    PROVE  /\ AllIds(batch'[t]) = {nextId, nextId + 1}
           /\ \A u \in Threads : u # t => batch'[u] = batch[u]
<1> DEFINE first(n) == [id |-> nextId, actor |-> a, seq |-> n, prev |-> HeadId(Stored(r))]
           before(n) == IF q = r /\ ~stale THEN Append(Stored(r), first(n)) ELSE Stored(q)
           second(n, m) == [id |-> nextId + 1, actor |-> a, seq |-> m, prev |-> HeadId(before(n))]
<1>1. PICK n \in 1..(Len(Stored(r)) + 1), m \in 1..(Len(Stored(q)) + 2) :
          batch' = [batch EXCEPT ![t] =
              IF q = r THEN [NoEvents EXCEPT ![r] = <<first(n), second(n, m)>>]
                       ELSE [NoEvents EXCEPT ![r] = <<first(n)>>, ![q] = <<second(n, m)>>]]
    BY DEF BuildBatch
<1> DEFINE e == first(n)
           f == second(n, m)
           built == IF q = r THEN [NoEvents EXCEPT ![r] = <<e, f>>]
                             ELSE [NoEvents EXCEPT ![r] = <<e>>, ![q] = <<f>>]
<1>2. e.id = nextId /\ f.id = nextId + 1  OBVIOUS
<1>3. batch' = [batch EXCEPT ![t] = built]  BY <1>1
<1>4. AllIds(built) = {e.id, f.id}
    <2> HIDE DEF e, f
    <2>1. CASE q = r
        <3>1. AllIds([NoEvents EXCEPT ![r] = <<e, f>>]) = {e.id, f.id}  BY IdsOfTwo
        <3> QED  BY <2>1, <3>1
    <2>2. CASE q # r
        <3>1. AllIds([NoEvents EXCEPT ![r] = <<e>>, ![q] = <<f>>]) = {e.id, f.id}
            BY <2>2, IdsOfPair
        <3>2. built = [NoEvents EXCEPT ![r] = <<e>>, ![q] = <<f>>]  BY <2>2, Zenon
        <3> QED  BY <3>1, <3>2, Zenon
    <2> QED  BY <2>1, <2>2
<1> HIDE DEF built, e, f
<1>5. batch'[t] = built /\ \A u \in Threads : u # t => batch'[u] = batch[u]
    BY <1>3 DEF TypeOK
<1> QED  BY <1>2, <1>4, <1>5

\* So is the event of a commit.
LEMMA BuiltEvent ==
    ASSUME TypeOK, NEW t \in Threads, ReadSequence(t)
    PROVE  \E n \in Nat \ {0} :
              LET d == draft[t]
                  e == [id |-> nextId, actor |-> d.actor, seq |-> n, prev |-> d.prior]
              IN  /\ IsNextSequence(Stored(d.rel), Len(Stored(d.rel)), d.actor, n)
                  /\ batch' = [batch EXCEPT ![t] = [NoEvents EXCEPT ![d.rel] = <<e>>]]
<1>1. draft[t].rel \in Relationships  BY DEF TypeOK, Draft
<1>2. Stored(draft[t].rel) \in Seq(Event)  BY <1>1 DEF TypeOK, Stored
<1>3. \A n \in 1..(Len(Stored(draft[t].rel)) + 1) : n \in Nat \ {0}  BY <1>2
<1> QED  BY <1>3 DEF ReadSequence

\* What a COMMIT adds to the identifiers of the log.
LEMMA CommitIds ==
    ASSUME TypeOK, NEW t \in Threads, CommitRows(t)
    PROVE  AllIds(log') = AllIds(log) \union AllIds(batch[t])
<1>1. ASSUME NEW r \in Relationships
      PROVE  Ids(log'[r]) = Ids(log[r]) \union Ids(batch[t][r])
    <2> DEFINE h == log[r]
               g == batch[t][r]
    <2>1. h \in Seq(Event) /\ g \in Seq(Event)  BY DEF TypeOK, Batch
    <2>2. log'[r] = h \o g  BY DEF CommitRows
    <2> HIDE DEF h, g
    <2>3. Ids(h) \union Ids(g) \subseteq Ids(h \o g)  BY <2>1, IdsConcat
    <2>4. ASSUME NEW i \in 1..Len(h \o g)  PROVE (h \o g)[i].id \in Ids(h) \union Ids(g)
        <3>1. CASE i \in 1..Len(h)  BY <2>1, <3>1 DEF Ids
        <3>2. CASE i \notin 1..Len(h)
            <4>1. i - Len(h) \in 1..Len(g) /\ (h \o g)[i] = g[i - Len(h)]  BY <2>1, <2>4, <3>2
            <4> QED  BY <4>1 DEF Ids
        <3> QED  BY <3>1, <3>2
    <2>5. Ids(h \o g) \subseteq Ids(h) \union Ids(g)  BY <2>4 DEF Ids
    <2> QED  BY <2>2, <2>3, <2>5 DEF h, g
<1> QED  BY <1>1 DEF AllIds

\* Identifiers stay fresh and batches whole.
LEMMA IdsStep ==
    ASSUME IInv, IdsInv, [Next]_vars
    PROVE  IdsInv'
<1>1. TypeOK  BY DEF IInv
<1>2. nextId \in Nat \ {0}  BY <1>1 DEF TypeOK
<1>3. ASSUME UNCHANGED <<log, batch, nextId>>  PROVE IdsInv'
    BY <1>3 DEF IdsInv, AllOrNothing
<1>4. ASSUME NEW t \in Threads, UNCHANGED log, nextId < nextId',
             nextId' \in Nat, \A i \in AllIds(batch'[t]) : nextId <= i /\ i < nextId' /\ i \in Nat,
             \A u \in Threads : u # t => batch'[u] = batch[u]
      PROVE  IdsInv'
    <2>1. \A i \in AllIds(log) : i \in Nat  BY <1>1, IdsNat DEF TypeOK, Batch
    <2>2. \A u \in Threads : \A i \in AllIds(batch[u]) : i \in Nat  BY <1>1, IdsNat DEF TypeOK
    <2>3. \A i \in AllIds(log') : i < nextId'  BY <1>2, <1>4, <2>1 DEF IdsInv
    <2>4. \A u \in Threads : \A i \in AllIds(batch'[u]) : i < nextId'
        BY <1>2, <1>4, <2>2 DEF IdsInv
    <2>5. AllIds(batch'[t]) \intersect AllIds(log') = {}
        BY <1>2, <1>4, <2>1 DEF IdsInv
    <2>6. \A u \in Threads : u # t => AllIds(batch'[t]) \intersect AllIds(batch'[u]) = {}
        BY <1>2, <1>4, <2>2 DEF IdsInv
    <2>7. \A v, u \in Threads : v # u => AllIds(batch'[v]) \intersect AllIds(batch'[u]) = {}
        <3> SUFFICES ASSUME NEW v \in Threads, NEW u \in Threads, v # u
                     PROVE  AllIds(batch'[v]) \intersect AllIds(batch'[u]) = {}
            OBVIOUS
        <3>1. CASE v # t /\ u # t  BY <1>4, <3>1 DEF IdsInv
        <3>2. CASE v = t \/ u = t  BY <2>6, <3>2
        <3> QED  BY <3>1, <3>2
    <2>8. AllOrNothing'  BY <1>4, <2>5 DEF IdsInv, AllOrNothing
    <2> QED  BY <2>3, <2>4, <2>7, <2>8 DEF IdsInv
<1>5. ASSUME NEW t \in Threads, ReadSequence(t)  PROVE IdsInv'
    <2> DEFINE d == draft[t]
    <2>1. PICK n \in Nat \ {0} : batch' = [batch EXCEPT ![t] = [NoEvents EXCEPT ![d.rel] =
              <<[id |-> nextId, actor |-> d.actor, seq |-> n, prev |-> d.prior]>>]]
        BY <1>1, <1>5, BuiltEvent
    <2>2. d.rel \in Relationships  BY <1>1 DEF TypeOK, Draft
    <2>3. AllIds(batch'[t]) = {nextId}  BY <1>1, <2>1, <2>2, IdsOfOne DEF TypeOK
    <2>4. \A u \in Threads : u # t => batch'[u] = batch[u]  BY <1>1, <2>1 DEF TypeOK
    <2>5. UNCHANGED log /\ nextId' = nextId + 1  BY <1>5 DEF ReadSequence
    <2> QED  BY <1>2, <1>4, <2>3, <2>4, <2>5
<1>6. ASSUME NEW t \in Threads, NEW r \in Relationships, NEW q \in Relationships,
             NEW a \in Actors, NEW stale \in BOOLEAN, BuildBatch(t, r, q, a, stale)
      PROVE  IdsInv'
    <2>1. /\ AllIds(batch'[t]) = {nextId, nextId + 1}
          /\ \A u \in Threads : u # t => batch'[u] = batch[u]
        BY <1>1, <1>6, BuiltIds
    <2>2. UNCHANGED log /\ nextId' = nextId + 2  BY <1>6 DEF BuildBatch
    <2> QED  BY <1>2, <1>4, <2>1, <2>2
<1>7. ASSUME NEW t \in Threads, CommitRows(t)  PROVE IdsInv'
    <2>1. UNCHANGED <<batch, nextId>>  BY <1>7 DEF CommitRows
    <2>2. AllIds(log') = AllIds(log) \union AllIds(batch[t])  BY <1>1, <1>7, CommitIds
    <2>3. AllOrNothing'  BY <2>1, <2>2 DEF IdsInv, AllOrNothing
    <2> QED  BY <2>1, <2>2, <2>3 DEF IdsInv
<1>8. \/ UNCHANGED <<log, batch, nextId>>
      \/ \E t \in Threads : ReadSequence(t) \/ CommitRows(t)
      \/ \E t \in Threads, r \in Relationships, q \in Relationships, a \in Actors,
            stale \in BOOLEAN : BuildBatch(t, r, q, a, stale)
    BY DEF Next, ThreadStep, StartCommit, ReadHead, Resubmit, BeginAppend, RefuseAppend, InsertRow,
           Rollback, Return, EnterGuard, ExitGuard, Crash, vars
<1> QED  BY <1>3, <1>5, <1>6, <1>7, <1>8

\* No identifier is used twice: those in the log and in the threads' batches are
\* below the next, and no two threads share one.
THEOREM IdsInvariance == Spec => []IdsInv
<1>1. Init => IdsInv
    <2> SUFFICES ASSUME Init  PROVE IdsInv
        OBVIOUS
    <2>1. AllIds(NoEvents) = {}  BY DEF AllIds, Ids, NoEvents
    <2> QED  BY <2>1 DEF Init, IdsInv, AllOrNothing
<1>2. IInv /\ IdsInv /\ [Next]_vars => IdsInv'
    BY IdsStep
<1> QED  BY <1>1, <1>2, Invariance, PTL DEF Spec

\* A batch, over one relationship or several, is in the histories whole or not at
\* all, whatever fails, crashes or is submitted again (append_many).
COROLLARY BatchesWhole == Spec => []AllOrNothing
<1>1. IdsInv => AllOrNothing  BY DEF IdsInv
<1> QED  BY <1>1, IdsInvariance, PTL

-----------------------------------------------------------------------------
\* Why a commit that nobody overtook fits.  What a _commit read outside the append
\* is a place in the history, for the head, and a later one, for the sequence.

IdAt(h, k) == IF k = 0 THEN 0 ELSE h[k].id

HeadIn(h, p) == \E k \in 0..Len(h) : p = IdAt(h, k)

ReadIn(h, d, n) ==
    \E k \in 0..Len(h) : \E m \in k..Len(h) : d.prior = IdAt(h, k) /\ IsNextSequence(h, m, d.actor, n)

BuiltIn(hs, d, b) ==
    /\ LET e == b[d.rel][1]
       IN  /\ e \in Event /\ b = [NoEvents EXCEPT ![d.rel] = <<e>>]
           /\ e.actor = d.actor /\ e.prev = d.prior
           /\ ReadIn(hs[d.rel], d, e.seq)
    /\ AllIds(b) \intersect AllIds(hs) = {}

\* What thread t's commit has read of the histories hs, inside the guard or not.
CommitIn(hs, place, d, b, inGuard) ==
    /\ place \in {"seq", "append"} =>
          HeadIn(hs[d.rel], d.prior) /\ (inGuard => d.prior = HeadId(hs[d.rel]))
    /\ place = "append" => BuiltIn(hs, d, b)

CommitInv == \A t \in Threads : CommitIn(log, pc[t], draft[t], batch[t], owner = t)

\* An event that names the head, read no earlier than its sequence, fits: the
\* identifiers of a chain are used once, so the head is at one place only.
LEMMA BuiltFits ==
    ASSUME NEW h \in Seq(Event), WellChained(h), NEW d \in Draft, d.prior = HeadId(h),
           NEW e \in Event, e.actor = d.actor, e.prev = d.prior, ReadIn(h, d, e.seq),
           e.id \notin Ids(h)
    PROVE  Fits(h \o <<e>>, Len(h) + 1)
<1> DEFINE n == Len(h)
           g == h \o <<e>>
<1>1. n \in Nat /\ g[n + 1] = e /\ \A i \in 1..n : g[i] = h[i]  OBVIOUS
<1>2. \A i \in 1..n : h[i] \in Event /\ h[i].id \in Nat \ {0}
    <2>1. \A i \in 1..n : h[i] \in Event  OBVIOUS
    <2>2. \A x \in Event : x.id \in Nat \ {0}  BY DEF Event
    <2> QED  BY <2>1, <2>2
<1>3. PICK k \in 0..n : \E m \in k..n :
          d.prior = IdAt(h, k) /\ IsNextSequence(h, m, e.actor, e.seq)
    BY DEF ReadIn
<1>4. PICK m \in k..n : d.prior = IdAt(h, k) /\ IsNextSequence(h, m, e.actor, e.seq)
    BY <1>3
<1>5. HeadId(h) = IdAt(h, n)  BY <1>1 DEF HeadId, IdAt
<1>6. k = n
    <2> SUFFICES ASSUME k # n  PROVE FALSE
        OBVIOUS
    <2> HIDE DEF n
    <2>1. n # 0 /\ n \in 1..n /\ h[n].id = IdAt(h, k)
        <3>1. k \in Nat /\ k <= n /\ n # 0 /\ n \in 1..n  BY <1>1
        <3>2. IdAt(h, n) = IdAt(h, k)  BY <1>4, <1>5
        <3> QED  BY <3>1, <3>2 DEF IdAt
    <2>2. CASE k = 0  BY <1>2, <2>1, <2>2 DEF IdAt
    <2>3. CASE k # 0
        <3>1. k \in 1..(n - 1) /\ h[k].id = h[n].id  BY <1>1, <1>4, <2>1, <2>3 DEF IdAt
        <3>2. Fits(h, n)  BY <2>1 DEF WellChained, n
        <3> QED  BY <3>1, <3>2 DEF Fits
    <2> QED  BY <2>2, <2>3
<1>7. m = n  BY <1>1, <1>4, <1>6
<1> HIDE DEF g
<1>8. IsNextSequence(g, n, e.actor, e.seq)
    <2>1. {i \in 1..n : g[i].actor = e.actor} = {i \in 1..n : h[i].actor = e.actor}  BY <1>1
    <2>2. IsNextSequence(h, n, e.actor, e.seq)  BY <1>4, <1>7
    <2> QED  BY <1>1, <2>1, <2>2 DEF IsNextSequence
<1>9. e.prev = (IF n + 1 = 1 THEN 0 ELSE g[(n + 1) - 1].id)
    <2>1. e.prev = IdAt(h, n)  BY <1>5
    <2> QED  BY <1>1, <2>1 DEF IdAt
<1>10. \A i \in 1..n : g[i].id # e.id  BY <1>1 DEF Ids
<1>11. (n + 1) - 1 = n  BY <1>1
<1>12. Fits(g, n + 1)  BY <1>1, <1>8, <1>9, <1>10, <1>11 DEF Fits
<1> QED  BY <1>12 DEF g

\* So the batch of a commit whose head nobody moved is accepted.
LEMMA NotOvertaken ==
    ASSUME IInv, CommitInv, NEW t \in Threads, pc[t] = "append", CanLock(t),
           draft[t].prior = HeadId(log[draft[t].rel])
    PROVE  Appendable(batch[t])
<1> DEFINE d == draft[t]
           b == batch[t]
<1>1. TypeOK /\ d \in Draft /\ d.rel \in Relationships  BY DEF IInv, TypeOK, Draft
<1>2. \A r \in Relationships : Stored(r) = log[r] /\ log[r] \in Seq(Event) /\ WellChained(log[r])
    BY StoredIsLog DEF IInv, ChainIntact, TypeOK
<1>3. BuiltIn(log, d, b)  BY DEF CommitInv, CommitIn
<1> DEFINE e == b[d.rel][1]
<1>4. /\ e \in Event /\ b = [NoEvents EXCEPT ![d.rel] = <<e>>]
      /\ e.actor = d.actor /\ e.prev = d.prior
      /\ ReadIn(log[d.rel], d, e.seq)
    BY <1>3 DEF BuiltIn
<1>5. b[d.rel] = <<e>> /\ \A r \in Relationships : r # d.rel => b[r] = << >>
    BY <1>1, <1>4 DEF NoEvents
<1>6. e.id \notin Ids(log[d.rel])
    <2>1. AllIds(b) = {e.id}  BY <1>1, <1>4, IdsOfOne
    <2>2. Ids(log[d.rel]) \subseteq AllIds(log)  BY <1>1 DEF AllIds
    <2> QED  BY <1>3, <2>1, <2>2 DEF BuiltIn
<1> SUFFICES ASSUME NEW r \in Relationships,
                    NEW j \in (Len(Stored(r)) + 1)..Len(Stored(r) \o b[r])
             PROVE  Fits(Stored(r) \o b[r], j)
    BY DEF Appendable
<1> HIDE DEF d, b, e
<1>7. CASE r = d.rel
    <2>1. Stored(r) = log[r] /\ b[r] = <<e>> /\ log[r] \in Seq(Event)  BY <1>2, <1>5, <1>7
    <2>2. j = Len(log[r]) + 1  BY <2>1
    <2>3. Fits(log[r] \o <<e>>, Len(log[r]) + 1)
        BY <1>1, <1>2, <1>4, <1>6, <1>7, BuiltFits DEF d
    <2> QED  BY <2>1, <2>2, <2>3
<1>8. CASE r # d.rel
    <2>1. Stored(r) = log[r] /\ b[r] = << >> /\ log[r] \in Seq(Event)  BY <1>2, <1>5, <1>8
    <2> QED  BY <2>1
<1> QED  BY <1>7, <1>8

\* A place in the history, read before a COMMIT, is one after it.
LEMMA CommitStays ==
    ASSUME TypeOK, NEW t \in Threads, NEW u \in Threads, u # t, CommitRows(t),
           pc[t] = "insert", owner = t,
           AllIds(batch[u]) \intersect AllIds(batch[t]) = {},
           CommitIn(log, pc[u], draft[u], batch[u], owner = u)
    PROVE  CommitIn(log', pc[u], draft[u], batch[u], FALSE)
<1> DEFINE d == draft[u]
           h == log[d.rel]
           g == log'[d.rel]
<1>1. d.rel \in Relationships /\ h \in Seq(Event)  BY DEF TypeOK, Draft
<1>2. /\ Len(h) \in Nat /\ Len(g) \in Nat /\ Len(h) <= Len(g)
      /\ \A i \in 1..Len(h) : g[i] = h[i]
    <2>1. batch[t][d.rel] \in Seq(Event)  BY <1>1 DEF TypeOK, Batch
    <2>2. g = h \o batch[t][d.rel]  BY <1>1 DEF CommitRows
    <2> HIDE DEF h, g
    <2> QED  BY <1>1, <2>1, <2>2
<1> HIDE DEF h, g
<1>3. \A k \in 0..Len(h) : IdAt(g, k) = IdAt(h, k)  BY <1>2 DEF IdAt
<1>4. ASSUME NEW p, HeadIn(h, p)  PROVE HeadIn(g, p)
    BY <1>2, <1>3, <1>4 DEF HeadIn
<1>5. ASSUME NEW m \in 0..Len(h), NEW a, NEW n, IsNextSequence(h, m, a, n)
      PROVE  IsNextSequence(g, m, a, n)
    <2>1. 1..m \subseteq 1..Len(h)  BY <1>2
    <2>2. {i \in 1..m : g[i].actor = a} = {i \in 1..m : h[i].actor = a}  BY <1>2, <2>1
    <2> QED  BY <1>2, <1>5, <2>1, <2>2 DEF IsNextSequence
<1>6. ASSUME NEW n, ReadIn(h, d, n)  PROVE ReadIn(g, d, n)
    <2>1. PICK k \in 0..Len(h) : \E m \in k..Len(h) :
              d.prior = IdAt(h, k) /\ IsNextSequence(h, m, d.actor, n)
        BY <1>6 DEF ReadIn
    <2>2. PICK m \in k..Len(h) : d.prior = IdAt(h, k) /\ IsNextSequence(h, m, d.actor, n)
        BY <2>1
    <2>3. m \in 0..Len(h)  BY <1>2, <2>1
    <2>4. k \in 0..Len(g) /\ m \in k..Len(g)  BY <1>2, <2>1
    <2>5. d.prior = IdAt(g, k) /\ IsNextSequence(g, m, d.actor, n)
        BY <1>3, <1>5, <2>2, <2>3
    <2> QED  BY <2>4, <2>5 DEF ReadIn
<1>7. AllIds(log') = AllIds(log) \union AllIds(batch[t])  BY CommitIds
<1>8. pc[u] \in {"seq", "append"} => HeadIn(g, d.prior)
    BY <1>4 DEF CommitIn, h
<1>9. pc[u] = "append" => BuiltIn(log', d, batch[u])
    <2> SUFFICES ASSUME pc[u] = "append"  PROVE BuiltIn(log', d, batch[u])
        OBVIOUS
    <2>1. BuiltIn(log, d, batch[u])  BY DEF CommitIn
    <2>2. AllIds(batch[u]) \intersect AllIds(log') = {}  BY <1>7, <2>1 DEF BuiltIn
    <2> QED  BY <1>6, <2>1, <2>2 DEF BuiltIn, h, g
<1> QED  BY <1>8, <1>9 DEF CommitIn, g

\* Every commit keeps what it read, and inside the guard the head does not move.
LEMMA CommitStep ==
    ASSUME IInv, IdsInv, CommitInv, [Next]_vars
    PROVE  CommitInv'
<1> DEFINE Op(u) == CommitIn(log, pc[u], draft[u], batch[u], owner = u)
           OpNext(u) == CommitIn(log', pc'[u], draft'[u], batch'[u], owner' = u)
<1>0. TypeOK /\ LockHeld /\ \A u \in Threads : Op(u)  BY DEF IInv, CommitInv
<1>1. ASSUME NEW u \in Threads, UNCHANGED log,
             pc'[u] \in {"seq", "append"} =>
                 /\ pc'[u] = pc[u] /\ draft'[u] = draft[u] /\ batch'[u] = batch[u]
                 /\ owner' = u => owner = u
      PROVE  OpNext(u)
    BY <1>0, <1>1 DEF CommitIn
<1>2. ASSUME NEW t \in Threads, NEW r \in Relationships, NEW a \in Actors, StartCommit(t, r, a)
      PROVE  CommitInv'
    <2>1. /\ UNCHANGED <<log, batch, owner>> /\ pc'[t] = "head"
          /\ \A u \in Threads : u # t => pc'[u] = pc[u] /\ draft'[u] = draft[u]
        BY <1>0, <1>2 DEF StartCommit, Goto, TypeOK
    <2>2. \A u \in Threads : OpNext(u)  BY <1>1, <2>1
    <2> QED  BY <2>2 DEF CommitInv
<1>3. ASSUME NEW t \in Threads, ReadHead(t)  PROVE CommitInv'
    <2> DEFINE d == draft[t]
    <2>1. /\ UNCHANGED <<log, batch, owner>> /\ pc'[t] = "seq" /\ pc[t] = "head"
          /\ \A u \in Threads : u # t => pc'[u] = pc[u] /\ draft'[u] = draft[u]
        BY <1>0, <1>3 DEF ReadHead, Goto, TypeOK
    <2>2. d \in Draft /\ d.rel \in Relationships  BY <1>0 DEF TypeOK, Draft
    <2>3. Stored(d.rel) = log[d.rel]
        BY <1>0, <1>3, <2>1, <2>2, StoredIsLog DEF ReadHead, IInv
    <2>4. draft'[t].rel = d.rel /\ draft'[t].prior = HeadId(log[d.rel])
        BY <1>0, <1>3, <2>2, <2>3 DEF ReadHead, TypeOK, Draft
    <2>5. HeadIn(log[d.rel], HeadId(log[d.rel]))
        <3> DEFINE h == log[d.rel]
        <3>1. h \in Seq(Event)  BY <1>0, <2>2 DEF TypeOK
        <3> HIDE DEF h
        <3>2. Len(h) \in 0..Len(h) /\ HeadId(h) = IdAt(h, Len(h))  BY <3>1 DEF HeadId, IdAt
        <3>3. HeadIn(h, HeadId(h))  BY <3>2 DEF HeadIn
        <3> QED  BY <3>3 DEF h
    <2>6. OpNext(t)  BY <2>1, <2>4, <2>5 DEF CommitIn
    <2>7. \A u \in Threads : u # t => OpNext(u)  BY <1>1, <2>1
    <2> QED  BY <2>6, <2>7 DEF CommitInv
<1>4. ASSUME NEW t \in Threads, ReadSequence(t)  PROVE CommitInv'
    <2> DEFINE d == draft[t]
               e(n) == [id |-> nextId, actor |-> d.actor, seq |-> n, prev |-> d.prior]
    <2>1. /\ UNCHANGED <<log, draft, owner>> /\ pc'[t] = "append" /\ pc[t] = "seq"
          /\ \A u \in Threads : u # t => pc'[u] = pc[u]
        BY <1>0, <1>4 DEF ReadSequence, Goto, TypeOK
    <2>2. /\ d \in Draft /\ d.rel \in Relationships /\ d.actor \in Actors /\ d.prior \in Nat
          /\ nextId \in Nat \ {0}
        BY <1>0 DEF TypeOK, Draft
    <2>3. Stored(d.rel) = log[d.rel] /\ log[d.rel] \in Seq(Event)
        BY <1>0, <1>4, <2>1, <2>2, StoredIsLog DEF ReadSequence, IInv, TypeOK
    <2>4. PICK n \in Nat \ {0} :
              /\ IsNextSequence(log[d.rel], Len(log[d.rel]), d.actor, n)
              /\ batch' = [batch EXCEPT ![t] = [NoEvents EXCEPT ![d.rel] = <<e(n)>>]]
        BY <1>0, <1>4, <2>3, BuiltEvent
    <2>5. e(n) \in Event /\ e(n).id = nextId /\ e(n).actor = d.actor /\ e(n).seq = n
          /\ e(n).prev = d.prior
        BY <2>2 DEF Event
    <2> HIDE DEF e
    <2>6. batch'[t] = [NoEvents EXCEPT ![d.rel] = <<e(n)>>]
          /\ \A u \in Threads : u # t => batch'[u] = batch[u]
        BY <1>0, <2>4 DEF TypeOK
    <2>7. HeadIn(log[d.rel], d.prior) /\ (owner = t => d.prior = HeadId(log[d.rel]))
        BY <1>0, <2>1 DEF CommitIn
    <2>8. ReadIn(log[d.rel], d, n)
        <3> DEFINE h == log[d.rel]
        <3>1. PICK k \in 0..Len(h) : d.prior = IdAt(h, k)  BY <2>7 DEF HeadIn
        <3>2. Len(h) \in k..Len(h)  BY <2>3, <3>1
        <3> HIDE DEF h
        <3>3. IsNextSequence(h, Len(h), d.actor, n)  BY <2>4 DEF h
        <3>4. ReadIn(h, d, n)  BY <3>1, <3>2, <3>3 DEF ReadIn
        <3> QED  BY <3>4 DEF h
    <2>9. AllIds(batch'[t]) \intersect AllIds(log) = {}
        <3>1. AllIds(batch'[t]) = {nextId}  BY <2>2, <2>5, <2>6, IdsOfOne
        <3> QED  BY <2>2, <3>1 DEF IdsInv
    <2>10. batch'[t][d.rel][1] = e(n)  BY <2>2, <2>6 DEF NoEvents
    <2>11. BuiltIn(log, d, batch'[t])  BY <2>10, <2>5, <2>6, <2>8, <2>9 DEF BuiltIn
    <2>12. OpNext(t)  BY <2>1, <2>7, <2>11 DEF CommitIn
    <2>13. \A u \in Threads : u # t => OpNext(u)  BY <1>1, <2>1, <2>6
    <2> QED  BY <2>12, <2>13 DEF CommitInv
<1>5. ASSUME NEW t \in Threads, NEW r \in Relationships, NEW q \in Relationships,
             NEW a \in Actors, NEW stale \in BOOLEAN, BuildBatch(t, r, q, a, stale)
      PROVE  CommitInv'
    <2>1. /\ UNCHANGED <<log, draft, owner>> /\ pc'[t] = "submit"
          /\ \A u \in Threads : u # t => pc'[u] = pc[u] /\ batch'[u] = batch[u]
        BY <1>0, <1>5, BuiltIds DEF BuildBatch, Goto, TypeOK
    <2>2. \A u \in Threads : OpNext(u)  BY <1>1, <2>1
    <2> QED  BY <2>2 DEF CommitInv
<1>6. ASSUME NEW t \in Threads, BeginAppend(t)  PROVE CommitInv'
    <2>1. /\ UNCHANGED <<log, draft, batch>> /\ pc'[t] = "insert" /\ owner' = t
          /\ \A u \in Threads : u # t => pc'[u] = pc[u]
        BY <1>0, <1>6 DEF BeginAppend, Lock, Goto, TypeOK
    <2>2. \A u \in Threads : OpNext(u)  BY <1>1, <2>1
    <2> QED  BY <2>2 DEF CommitInv
<1>7. ASSUME NEW t \in Threads, CommitRows(t)  PROVE CommitInv'
    <2>1. /\ UNCHANGED <<draft, batch>> /\ pc'[t] = "return" /\ pc[t] = "insert" /\ owner = t
          /\ owner' \in {t, NoThread} /\ \A u \in Threads : u # t => pc'[u] = pc[u]
        BY <1>0, <1>7 DEF CommitRows, Unlock, Goto, TypeOK, LockHeld
    <2>2. ASSUME NEW u \in Threads, u # t  PROVE OpNext(u)
        <3>1. AllIds(batch[u]) \intersect AllIds(batch[t]) = {}  BY <2>2 DEF IdsInv
        <3>2. CommitIn(log', pc[u], draft[u], batch[u], FALSE)
            BY <1>0, <1>7, <2>1, <2>2, <3>1, CommitStays
        <3>3. owner' # u  BY <2>1, <2>2, StoreAssumption
        <3> QED  BY <2>1, <2>2, <3>2, <3>3 DEF CommitIn
    <2>3. OpNext(t)  BY <2>1 DEF CommitIn
    <2> QED  BY <2>2, <2>3 DEF CommitInv
<1>8. ASSUME NEW t \in Threads,
             \/ Resubmit(t) \/ RefuseAppend(t) \/ Rollback(t) \/ Return(t)
             \/ EnterGuard(t) \/ ExitGuard(t) \/ \E r \in Relationships : InsertRow(t, r)
      PROVE  CommitInv'
    <2>1. UNCHANGED <<log, draft, batch>>
        BY <1>8 DEF Resubmit, RefuseAppend, Rollback, Return, EnterGuard, ExitGuard, InsertRow
    <2>2. \A u \in Threads : pc'[u] = pc[u] \/ pc'[u] \in {"idle", "submit"}
        BY <1>0, <1>8 DEF Resubmit, RefuseAppend, Rollback, Return, EnterGuard, ExitGuard,
               InsertRow, Goto, TypeOK
    <2>3. owner' \in {owner, NoThread} \/ (owner' = t /\ pc'[t] = "idle")
        BY <1>8 DEF Resubmit, RefuseAppend, Rollback, Return, EnterGuard, ExitGuard, InsertRow,
               Lock, Unlock
    <2>4. \A u \in Threads : OpNext(u)  BY <1>1, <2>1, <2>2, <2>3, StoreAssumption
    <2> QED  BY <2>4 DEF CommitInv
<1>9. CASE Crash
    <2>1. UNCHANGED log /\ \A u \in Threads : pc'[u] = "idle"  BY <1>9 DEF Crash
    <2>2. \A u \in Threads : OpNext(u)  BY <1>1, <2>1
    <2> QED  BY <2>2 DEF CommitInv
<1>10. CASE UNCHANGED vars  BY <1>10 DEF vars, CommitInv
<1> QED
    BY <1>2, <1>3, <1>4, <1>5, <1>6, <1>7, <1>8, <1>9, <1>10 DEF Next, ThreadStep

\* What a commit reads outside the append is good enough, for any number of
\* threads: the head is a committed event, a refusal means that another event
\* reached the relationship since, and inside the guard there is none
\* (Relationship._commit: the head is read before the sequence).
THEOREM CommitsAlwaysFit == Spec => []CommitsFit
<1>1. Init => CommitInv
    BY DEF Init, CommitInv, CommitIn
<1>2. IInv /\ IdsInv /\ CommitInv /\ [Next]_vars => CommitInv'
    BY CommitStep
<1>3. IInv /\ CommitInv => CommitsFit
    <2> SUFFICES ASSUME IInv, CommitInv  PROVE CommitsFit
        OBVIOUS
    <2>1. PriorIsCommitted
        <3> SUFFICES ASSUME NEW t \in Threads, pc[t] \in {"seq", "append"}
                     PROVE  draft[t].prior \in {0} \union Ids(log[draft[t].rel])
            BY DEF PriorIsCommitted
        <3> DEFINE h == log[draft[t].rel]
        <3>1. PICK k \in 0..Len(h) : draft[t].prior = IdAt(h, k)
            BY DEF CommitInv, CommitIn, HeadIn
        <3>2. h \in Seq(Event)  BY DEF IInv, TypeOK, Draft
        <3> QED  BY <3>1, <3>2 DEF IdAt, Ids
    <2>2. ConflictMeansProgress  BY NotOvertaken DEF ConflictMeansProgress
    <2>3. GuardedCommitFits
        <3> SUFFICES ASSUME NEW t \in Threads, owner = t, pc[t] = "append"
                     PROVE  Appendable(batch[t])
            BY DEF GuardedCommitFits
        <3>1. draft[t].prior = HeadId(log[draft[t].rel])  BY DEF CommitInv, CommitIn
        <3>2. CanLock(t)  BY DEF CanLock
        <3> QED  BY <3>1, <3>2, NotOvertaken
    <2> QED  BY <2>1, <2>2, <2>3 DEF CommitsFit
<1> QED  BY <1>1, <1>2, <1>3, Invariance, IdsInvariance, PTL DEF Spec

=============================================================================
