-------------------------- MODULE PermissionsProofs --------------------------
(***************************************************************************)
(* Proofs about Permissions for every set of threads, participants and     *)
(* capabilities and every bound: a revocation dominates a grant it does    *)
(* not precede, nothing opens a permission but a grant or a transition     *)
(* that permits again what was granted, and a delegated grant is explained *)
(* by a decision taken while its grantor held DELEGATE.                    *)
(*                                                                         *)
(* The causal past of an event is a recursive function over the history.   *)
(* That it exists, what it contains and that later events leave it alone   *)
(* is shown by induction, over sets of numbers: Induction follows from     *)
(* the order of the natural numbers being well-founded.                    *)
(***************************************************************************)
EXTENDS Permissions, WellFoundedInduction, TLAPS

-----------------------------------------------------------------------------
\* Numbers.

\* A set of numbers that is not empty has a least one.
LEMMA Least ==
    ASSUME NEW S \in SUBSET Nat, S # {}
    PROVE  \E x \in S : \A y \in S : x <= y
<1>1. PICK x \in S : \A y \in S : ~ (<<y, x>> \in OpToRel(<, Nat))
    BY NatLessThanWellFounded, WFMin
<1>2. ASSUME NEW y \in S, y < x  PROVE FALSE
    <2>1. <<y, x>> \in OpToRel(<, Nat)  BY <1>2 DEF OpToRel
    <2> QED  BY <1>1, <2>1
<1>3. \A y \in S : x <= y
    <2>1. \A y \in S : ~(y < x)  BY <1>2
    <2>2. x \in Nat /\ \A y \in S : y \in Nat  BY <1>1
    <2> QED  BY <2>1, <2>2
<1> QED  BY <1>3

\* What holds of 0, and of n + 1 when of n, holds of every number.
LEMMA Induction ==
    ASSUME NEW S, 0 \in S, \A n \in Nat : n \in S => n + 1 \in S
    PROVE  \A n \in Nat : n \in S
<1> SUFFICES ASSUME Nat \ S # {}  PROVE FALSE
    OBVIOUS
<1>1. PICK x \in Nat \ S : \A y \in Nat \ S : x <= y  BY Least
<1>2. x # 0 /\ x - 1 \in Nat  BY <1>1
<1>3. x - 1 \in S  BY <1>1, <1>2
<1>4. (x - 1) + 1 \in S  BY <1>2, <1>3
<1> QED  BY <1>1, <1>2, <1>4

\* The latest of some positions is one of them and no other is later.
LEMMA LatestIs ==
    ASSUME NEW n \in Nat, NEW S \in SUBSET (1..n), S # {}
    PROVE  Latest(S) \in S /\ \A j \in S : j <= Latest(S)
<1> DEFINE Bounds == {m \in Nat : \A j \in S : j <= m}
<1>1. n \in Bounds  OBVIOUS
<1>2. PICK m \in Bounds : \A k \in Bounds : m <= k  BY <1>1, Least
<1>3. m \in Nat /\ \A j \in S : j <= m  BY <1>2
<1>4. m \in S
    <2> SUFFICES ASSUME m \notin S  PROVE FALSE
        OBVIOUS
    <2>1. PICK j \in S : TRUE  OBVIOUS
    <2>2. m - 1 \in Nat  BY <1>3, <2>1
    <2>3. \A i \in S : i <= m - 1  BY <1>3
    <2>4. m - 1 \in Bounds  BY <2>2, <2>3
    <2> QED  BY <1>2, <1>3, <2>4
<1>5. \E i \in S : \A j \in S : j <= i  BY <1>3, <1>4
<1> QED  BY <1>5 DEF Latest

-----------------------------------------------------------------------------
\* The causal past of an event.

\* Causal parents are earlier events of the history.
Backward(h) == \A r \in 1..Len(h) : h[r].parents \subseteq 1..(r - 1)

\* The equation of Ancestors, for the first n events.
Chains(f, h, n) ==
    f = [r \in 1..n |-> h[r].parents \union UNION {f[p] : p \in h[r].parents}]

\* The equation has a solution, however long the history is.
LEMMA ChainsExist ==
    ASSUME NEW h, Len(h) \in Nat, Backward(h)
    PROVE  \A n \in Nat : n <= Len(h) => \E f : Chains(f, h, n)
<1> DEFINE S == {n \in Nat : n <= Len(h) => \E f : Chains(f, h, n)}
<1>1. 0 \in S
    <2>1. Chains([r \in 1..0 |-> {}], h, 0)  BY DEF Chains
    <2> QED  BY <2>1
<1>2. ASSUME NEW n \in Nat, n \in S  PROVE n + 1 \in S
    <2> SUFFICES ASSUME n + 1 <= Len(h)  PROVE \E g : Chains(g, h, n + 1)
        OBVIOUS
    <2>1. PICK f : Chains(f, h, n)  BY <1>2
    <2> DEFINE last == h[n + 1].parents \union UNION {f[p] : p \in h[n + 1].parents}
               g == [r \in 1..(n + 1) |-> IF r = n + 1 THEN last ELSE f[r]]
               k == [r \in 1..(n + 1) |-> h[r].parents \union UNION {g[p] : p \in h[r].parents}]
    <2> HIDE DEF last
    <2>2. \A r \in 1..(n + 1) : h[r].parents \subseteq 1..(r - 1)
        BY DEF Backward
    <2>3. \A r \in 1..n : g[r] = k[r]
        <3> TAKE r \in 1..n
        <3>1. g[r] = f[r]  OBVIOUS
        <3>2. f[r] = h[r].parents \union UNION {f[p] : p \in h[r].parents}
            BY <2>1 DEF Chains
        <3>3. \A p \in h[r].parents : g[p] = f[p]  BY <2>2
        <3>4. {g[p] : p \in h[r].parents} = {f[p] : p \in h[r].parents}  BY <3>3
        <3>5. k[r] = h[r].parents \union UNION {g[p] : p \in h[r].parents}
            <4> HIDE DEF g
            <4> QED  OBVIOUS
        <3> HIDE DEF k, g
        <3> QED  BY <3>1, <3>2, <3>4, <3>5
    <2>4. g[n + 1] = k[n + 1]
        <3>1. g[n + 1] = last  OBVIOUS
        <3>2. \A p \in h[n + 1].parents : g[p] = f[p]  BY <2>2
        <3>3. {g[p] : p \in h[n + 1].parents} = {f[p] : p \in h[n + 1].parents}  BY <3>2
        <3>4. k[n + 1] = h[n + 1].parents \union UNION {g[p] : p \in h[n + 1].parents}
            <4>1. n + 1 \in 1..(n + 1)  OBVIOUS
            <4> HIDE DEF g
            <4> QED  BY <4>1
        <3> HIDE DEF k, g
        <3> QED  BY <3>1, <3>3, <3>4 DEF last
    <2>5. \A r \in 1..(n + 1) : g[r] = k[r]
        <3>1. \A r \in 1..(n + 1) : r \in 1..n \/ r = n + 1  OBVIOUS
        <3> HIDE DEF k, g
        <3> QED  BY <2>3, <2>4, <3>1
    <2>6. DOMAIN k = 1..(n + 1) /\ g = [r \in 1..(n + 1) |-> g[r]]
             /\ k = [r \in 1..(n + 1) |-> k[r]]
        OBVIOUS
    <2>7. g = k
        <3> HIDE DEF k, g
        <3> QED  BY <2>5, <2>6
    <2>8. Chains(g, h, n + 1)
        <3> HIDE DEF g
        <3> QED  BY <2>7 DEF Chains
    <2> QED  BY <2>8
<1> HIDE DEF S
<1>3. \A n \in Nat : n \in S  BY <1>1, <1>2, Induction
<1> QED  BY <1>3 DEF S

\* The causal past of an event: its parents, and theirs.
LEMMA AncestorsAre ==
    ASSUME NEW h, Len(h) \in Nat, Backward(h), NEW r \in 1..Len(h)
    PROVE  Ancestors(h)[r] =
              h[r].parents \union UNION {Ancestors(h)[p] : p \in h[r].parents}
<1>1. \E f : f = [s \in 1..Len(h) |-> h[s].parents \union UNION {f[p] : p \in h[s].parents}]
    <2>1. \E f : Chains(f, h, Len(h))  BY ChainsExist
    <2> QED  BY <2>1 DEF Chains
<1>2. Ancestors(h) = [s \in 1..Len(h) |->
                         h[s].parents \union UNION {Ancestors(h)[p] : p \in h[s].parents}]
    BY <1>1, Zenon DEF Ancestors
<1> DEFINE F == Ancestors(h)
<1>3. F = [s \in 1..Len(h) |-> h[s].parents \union UNION {F[p] : p \in h[s].parents}]
    BY <1>2
<1> HIDE DEF F
<1>4. F[r] = h[r].parents \union UNION {F[p] : p \in h[r].parents}
    BY <1>3
<1> QED  BY <1>4 DEF F

\* The causal past of an event is in the past.
LEMMA AncestorsBefore ==
    ASSUME NEW h, Len(h) \in Nat, Backward(h)
    PROVE  \A r \in 1..Len(h) : Ancestors(h)[r] \subseteq 1..(r - 1)
<1> DEFINE F == Ancestors(h)
           S == {n \in Nat : \A r \in 1..Len(h) : r <= n => F[r] \subseteq 1..(r - 1)}
<1>1. 0 \in S  OBVIOUS
<1>2. ASSUME NEW n \in Nat, n \in S  PROVE n + 1 \in S
    <2> SUFFICES ASSUME NEW r \in 1..Len(h), r = n + 1  PROVE F[r] \subseteq 1..(r - 1)
        BY <1>2
    <2>1. F[r] = h[r].parents \union UNION {F[p] : p \in h[r].parents}  BY AncestorsAre
    <2>2. h[r].parents \subseteq 1..(r - 1)  BY DEF Backward
    <2>3. ASSUME NEW p \in h[r].parents  PROVE F[p] \subseteq 1..(r - 1)
        <3>1. p \in 1..Len(h) /\ p <= n  BY <2>2
        <3>2. F[p] \subseteq 1..(p - 1)  BY <1>2, <3>1
        <3> HIDE DEF F
        <3> QED  BY <2>2, <3>2
    <2> HIDE DEF F
    <2> QED  BY <2>1, <2>2, <2>3
<1> HIDE DEF S
<1>3. \A n \in Nat : n \in S  BY <1>1, <1>2, Induction
<1> QED  BY <1>3 DEF S

\* g starts with h.
Extends(g, h) ==
    /\ Len(h) \in Nat /\ Len(g) \in Nat /\ Len(h) <= Len(g)
    /\ \A r \in 1..Len(h) : g[r] = h[r]
    /\ Backward(g) /\ Backward(h)

\* Later events leave the causal past of an event alone.
LEMMA AncestorsStay ==
    ASSUME NEW g, NEW h, Extends(g, h)
    PROVE  \A r \in 1..Len(h) : Ancestors(g)[r] = Ancestors(h)[r]
<1> DEFINE F == Ancestors(h)
           G == Ancestors(g)
           S == {n \in Nat : \A r \in 1..Len(h) : r <= n => G[r] = F[r]}
<1>1. 0 \in S  OBVIOUS
<1>2. ASSUME NEW n \in Nat, n \in S  PROVE n + 1 \in S
    <2> SUFFICES ASSUME NEW r \in 1..Len(h), r = n + 1  PROVE G[r] = F[r]
        BY <1>2
    <2>1. F[r] = h[r].parents \union UNION {F[p] : p \in h[r].parents}
        BY AncestorsAre DEF Extends
    <2>2. G[r] = g[r].parents \union UNION {G[p] : p \in g[r].parents}
        <3>1. r \in 1..Len(g)  BY DEF Extends
        <3> QED  BY <3>1, AncestorsAre DEF Extends
    <2>3. g[r] = h[r] /\ h[r].parents \subseteq 1..(r - 1)  BY DEF Extends, Backward
    <2>4. ASSUME NEW p \in h[r].parents  PROVE G[p] = F[p]
        <3>1. p \in 1..Len(h) /\ p <= n  BY <2>3 DEF Extends
        <3> QED  BY <1>2, <3>1
    <2> HIDE DEF F, G
    <2>5. {G[p] : p \in h[r].parents} = {F[p] : p \in h[r].parents}  BY <2>4
    <2> QED  BY <2>1, <2>2, <2>3, <2>5
<1> HIDE DEF S
<1>3. \A n \in Nat : n \in S  BY <1>1, <1>2, Induction
<1>4. Len(h) \in Nat  BY DEF Extends
<1> QED  BY <1>3, <1>4 DEF S

-----------------------------------------------------------------------------
\* Permissions in a longer history.

\* The grants and revocations of a key are positions of the history.
LEMMA OfWithin ==
    ASSUME NEW h, NEW n, NEW type, NEW key
    PROVE  Of(h, n, type, key) \subseteq 1..n
BY DEF Of

\* A record depends on the grants and revocations of the key and their past.
LEMMA SameRecord ==
    ASSUME NEW g, NEW h, Extends(g, h), NEW n \in 0..Len(h), NEW m, NEW key,
           Of(g, m, "granted", key) = Of(h, n, "granted", key),
           Of(g, m, "revoked", key) = Of(h, n, "revoked", key)
    PROVE  Open(g, m, key) <=> Open(h, n, key)
<1> DEFINE grants == Of(h, n, "granted", key)
           revokes == Of(h, n, "revoked", key)
<1>1. grants \subseteq 1..n /\ revokes \subseteq 1..n  BY OfWithin
<1>2. Active(g, m, key) <=> Active(h, n, key)  BY DEF Active
<1> SUFFICES ASSUME grants # {}, revokes # {}
             PROVE  Ambiguous(g, m, key) <=> Ambiguous(h, n, key)
    <2>1. (grants = {} \/ revokes = {}) => ~Ambiguous(g, m, key) /\ ~Ambiguous(h, n, key)
        BY DEF Ambiguous
    <2> QED  BY <1>2, <2>1 DEF Open
<1> DEFINE a == Latest(grants)
           b == Latest(revokes)
<1>3. n \in Nat /\ 1..n \subseteq 1..Len(h)  BY DEF Extends
<1>4. a \in 1..Len(h) /\ b \in 1..Len(h)
    <2>1. a \in grants /\ b \in revokes
        <3> HIDE DEF grants, revokes
        <3> QED  BY <1>1, <1>3, LatestIs
    <2> QED  BY <1>1, <1>3, <2>1
<1>5. Ambiguous(h, n, key) <=> ~Precedes(h, a, b) /\ ~Precedes(h, b, a)
    BY DEF Ambiguous
<1>6. Ambiguous(g, m, key) <=> ~Precedes(g, a, b) /\ ~Precedes(g, b, a)
    BY DEF Ambiguous
<1> HIDE DEF a, b
<1>7. g[a] = h[a] /\ g[b] = h[b]  BY <1>4 DEF Extends
<1>8. Ancestors(g)[a] = Ancestors(h)[a] /\ Ancestors(g)[b] = Ancestors(h)[b]
    BY <1>4, AncestorsStay
<1>9. /\ Precedes(g, a, b) <=> Precedes(h, a, b)
      /\ Precedes(g, b, a) <=> Precedes(h, b, a)
    BY <1>7, <1>8 DEF Precedes
<1> QED  BY <1>5, <1>6, <1>9

\* The lifecycle depends on the transitions.
LEMMA SameLifecycle ==
    ASSUME NEW g, NEW h, NEW n \in Nat, NEW m \in Nat, n <= m,
           \A i \in 1..n : g[i] = h[i], \A i \in (n + 1)..m : g[i].type # "transition"
    PROVE  LifecycleAt(g, m) = LifecycleAt(h, n)
<1> DEFINE S == {i \in 1..n : h[i].type = "transition"}
<1>1. {i \in 1..m : g[i].type = "transition"} = S
    <2>1. \A i \in 1..m : i \in 1..n \/ i \in (n + 1)..m  OBVIOUS
    <2>2. 1..n \subseteq 1..m  OBVIOUS
    <2> QED  BY <2>1, <2>2
<1>2. S # {} => Latest(S) \in 1..n
    <2>1. S \in SUBSET (1..n)  OBVIOUS
    <2> HIDE DEF S
    <2>2. S # {} => Latest(S) \in S  BY <2>1, LatestIs
    <2> QED  BY <2>1, <2>2
<1>3. LifecycleAt(g, m) = IF S = {} THEN "FORMING" ELSE g[Latest(S)].key
    BY <1>1 DEF LifecycleAt
<1>4. LifecycleAt(h, n) = IF S = {} THEN "FORMING" ELSE h[Latest(S)].key
    BY DEF LifecycleAt
<1> HIDE DEF S
<1> QED  BY <1>2, <1>3, <1>4

\* What was allowed after n events was, whatever happened since.
LEMMA AllowedStays ==
    ASSUME NEW g, NEW h, Extends(g, h), NEW n \in 0..Len(h), NEW key
    PROVE  AllowedAt(g, n, key) <=> AllowedAt(h, n, key)
<1>1. \A i \in 1..n : g[i] = h[i]  BY DEF Extends
<1>2. \A type : Of(g, n, type, key) = Of(h, n, type, key)  BY <1>1 DEF Of
<1>3. n \in Nat  BY DEF Extends
<1>4. LifecycleAt(g, n) = LifecycleAt(h, n)  BY <1>1, <1>3, SameLifecycle
<1>5. Open(g, n, key) <=> Open(h, n, key)  BY <1>2, SameRecord
<1> QED  BY <1>4, <1>5 DEF AllowedAt

\* The history with one more event.
LEMMA Appended ==
    ASSUME NEW h \in Seq(Event), NEW e \in Event, Backward(h), e.parents \subseteq 1..Len(h)
    PROVE  /\ Append(h, e) \in Seq(Event)
           /\ Len(h) \in Nat /\ Len(Append(h, e)) = Len(h) + 1
           /\ Append(h, e)[Len(h) + 1] = e
           /\ \A i \in 1..Len(h) : Append(h, e)[i] = h[i]
           /\ Extends(Append(h, e), h)
<1> DEFINE g == Append(h, e)
<1>1. /\ g \in Seq(Event) /\ Len(h) \in Nat /\ Len(g) = Len(h) + 1 /\ g[Len(h) + 1] = e
      /\ \A i \in 1..Len(h) : g[i] = h[i]
    OBVIOUS
<1> HIDE DEF g
<1>2. Backward(g)
    <2> SUFFICES ASSUME NEW r \in 1..Len(g)  PROVE g[r].parents \subseteq 1..(r - 1)
        BY DEF Backward
    <2>1. CASE r = Len(h) + 1  BY <1>1, <2>1
    <2>2. CASE r # Len(h) + 1
        <3>1. r \in 1..Len(h)  BY <1>1, <2>2
        <3> QED  BY <1>1, <3>1 DEF Backward
    <2> QED  BY <2>1, <2>2
<1>3. Extends(g, h)  BY <1>1, <1>2 DEF Extends
<1> QED  BY <1>1, <1>3 DEF g

\* An event that is no transition leaves the lifecycle alone.
LEMMA LifecycleStays ==
    ASSUME NEW h \in Seq(Event), NEW e \in Event, Backward(h), e.parents \subseteq 1..Len(h),
           e.type # "transition"
    PROVE  LifecycleAt(Append(h, e), Len(h) + 1) = LifecycleAt(h, Len(h))
<1> DEFINE g == Append(h, e)
<1>1. Len(h) \in Nat /\ g[Len(h) + 1] = e /\ \A i \in 1..Len(h) : g[i] = h[i]
    BY Appended
<1> HIDE DEF g
<1>2. \A i \in (Len(h) + 1)..(Len(h) + 1) : g[i].type # "transition"
    <2>1. \A i \in (Len(h) + 1)..(Len(h) + 1) : i = Len(h) + 1  BY <1>1
    <2> QED  BY <1>1, <2>1
<1>3. LifecycleAt(g, Len(h) + 1) = LifecycleAt(h, Len(h))
    BY <1>1, <1>2, SameLifecycle
<1> QED  BY <1>3 DEF g

\* A decision leaves every answer alone.
LEMMA Unaffected ==
    ASSUME NEW h \in Seq(Event), NEW e \in Event, Backward(h), e.parents \subseteq 1..Len(h),
           NEW key, e.type = "decided"
    PROVE  AllowedAt(Append(h, e), Len(h) + 1, key) <=> AllowedAt(h, Len(h), key)
<1> DEFINE g == Append(h, e)
<1>1. /\ Len(h) \in Nat /\ Extends(g, h) /\ g[Len(h) + 1] = e
      /\ \A i \in 1..Len(h) : g[i] = h[i]
    BY Appended
<1>2. LifecycleAt(g, Len(h) + 1) = LifecycleAt(h, Len(h))  BY LifecycleStays
<1> HIDE DEF g
<1>3. ASSUME NEW type \in {"granted", "revoked"}
      PROVE  Of(g, Len(h) + 1, type, key) = Of(h, Len(h), type, key)
    <2>1. \A i \in 1..(Len(h) + 1) : i \in 1..Len(h) \/ i = Len(h) + 1  BY <1>1
    <2>2. 1..Len(h) \subseteq 1..(Len(h) + 1)  BY <1>1
    <2>3. e.type # type  BY <1>3
    <2> QED  BY <1>1, <2>1, <2>2, <2>3 DEF Of
<1>4. Len(h) \in 0..Len(h)  BY <1>1
<1>5. Open(g, Len(h) + 1, key) <=> Open(h, Len(h), key)
    BY <1>1, <1>3, <1>4, SameRecord
<1>6. AllowedAt(g, Len(h) + 1, key) <=> AllowedAt(h, Len(h), key)
    BY <1>2, <1>5 DEF AllowedAt
<1> QED  BY <1>6 DEF g

-----------------------------------------------------------------------------
\* The inductive invariant.

\* There is an ALLOW decision about the delegation among the first m events,
\* taken when the grantor held DELEGATE.
Decided(h, m, by, key) ==
    \E j \in 1..m :
        /\ h[j].type = "decided" /\ h[j].allow /\ h[j].by = by /\ h[j].key = key
        /\ \E n \in 0..(j - 1) : AllowedAt(h, n, <<by, Delegate>>)

\* Causal parents, also those of a delegation under way, are committed events.
PastOnly ==
    /\ Backward(history)
    /\ \A t \in Threads : op[t].parents \subseteq 1..Len(history)

\* A delegation that was allowed was so when its grantor held DELEGATE, and is
\* committed only after the decision; under the guard the grantor still does.
DelegationInv ==
    \A t \in Threads :
        /\ pc[t] = "record" /\ allowed[t] =>
              \E n \in 0..Len(history) : AllowedAt(history, n, <<op[t].by, Delegate>>)
        /\ pc[t] = "commit" =>
              allowed[t] /\ Decided(history, Len(history), op[t].by, op[t].key)
        /\ owner = t /\ pc[t] \in {"record", "commit"} /\ allowed[t] =>
              Allowed(<<op[t].by, Delegate>>)

IInv ==
    /\ TypeOK
    /\ PastOnly
    /\ DelegationInv
    /\ DelegationExplained

\* The arguments of no operation are arguments.
LEMMA NoOperationType ==
    NoOperation \in Operation /\ NoOperation.parents = {}
<1> DEFINE S == [by : Participants, key : Key, parents : {{}}]
<1>1. \E o : o \in S
    <2>1. PICK p \in Participants, c \in Capabilities : TRUE  BY PermissionAssumption
    <2>2. [by |-> p, key |-> <<p, c>>, parents |-> {}] \in S  BY DEF Key
    <2> QED  BY <2>2
<1>2. NoOperation \in S  BY <1>1 DEF NoOperation
<1> QED  BY <1>2 DEF Operation

\* What a thread commits: a change of the host, a decision, a delegated grant.
Committed(t, e) ==
    /\ CanLock(t)
    /\ history' = Append(history, e)
    /\ e \in Event /\ e.parents \subseteq 1..Len(history)
    /\ \/ /\ pc[t] = "idle" /\ UNCHANGED <<owner, pc, op, allowed>>
          /\ e.type \in {"granted", "revoked", "transition"} /\ ~e.delegated
       \/ /\ pc[t] = "record" /\ UNCHANGED owner
          /\ e.type = "decided" /\ e.allow = allowed[t] /\ e.by = op[t].by /\ e.key = op[t].key
          /\ \/ allowed[t] /\ pc' = [pc EXCEPT ![t] = "commit"] /\ UNCHANGED <<op, allowed>>
             \/ Finish(t)
       \/ /\ pc[t] = "commit" /\ UNCHANGED owner
          /\ e.type = "granted" /\ e.by = op[t].by /\ e.key = op[t].key
          /\ Finish(t)

\* What a thread does without a commit.
Kept(t) ==
    /\ UNCHANGED history
    /\ \/ /\ pc[t] = "idle" /\ pc' = [pc EXCEPT ![t] = "check"]
          /\ UNCHANGED <<owner, allowed>>
          /\ \E o \in Operation : o.parents \subseteq 1..Len(history) /\ op' = [op EXCEPT ![t] = o]
       \/ /\ pc[t] = "check" /\ pc' = [pc EXCEPT ![t] = "record"]
          /\ UNCHANGED <<owner, op>>
          /\ allowed' = [allowed EXCEPT ![t] = Allowed(<<op[t].by, Delegate>>)]
       \/ /\ pc[t] \in {"record", "commit"} /\ UNCHANGED owner
          /\ Finish(t)
       \/ /\ pc[t] = "idle" /\ UNCHANGED <<pc, op, allowed>>
          /\ owner' \in {t, NoThread} /\ owner \in {t, NoThread}

\* Every step of a thread is one or the other.
LEMMA Shapes ==
    ASSUME TypeOK, PastOnly, NEW t \in Threads,
           \/ \E a \in Grantors, k \in Key : GrantPermission(t, a, k) \/ RevokePermission(t, a, k)
           \/ \E a \in Participants, s \in States : Transition(t, a, s)
           \/ \E a \in Delegators, k \in Key : StartDelegation(t, a, k)
           \/ CheckDelegate(t) \/ RecordDecision(t) \/ CommitDelegation(t)
           \/ Refused(t)
           \/ EnterGuard(t) \/ ExitGuard(t)
    PROVE  calls' \in Nat /\ (Kept(t) \/ \E e \in Event : Committed(t, e))
<1>0. Len(history) \in Nat /\ op[t] \in Operation /\ calls \in Nat  BY DEF TypeOK
<1>1. ASSUME NEW a \in Grantors, NEW k \in Key,
             GrantPermission(t, a, k) \/ RevokePermission(t, a, k)
      PROVE  calls' \in Nat /\ \E e \in Event : Committed(t, e)
    <2>1. PICK P \in ParentSets, type \in {"granted", "revoked"} :
              Commit(t, Change(type, a, k, P, FALSE))
        BY <1>1 DEF GrantPermission, RevokePermission
    <2> DEFINE e == Change(type, a, k, P, FALSE)
    <2>2. P \in SUBSET Nat /\ P \subseteq 1..Len(history)  BY <1>0 DEF ParentSets
    <2>3. /\ e \in Event /\ e.parents = P /\ e.type = type /\ ~e.delegated
        <3>1. k[1] \in Participants  BY DEF Key
        <3> QED  BY <2>2, <3>1 DEF Change, Event
    <2>4. CanLock(t) /\ history' = Append(history, e)  BY <2>1 DEF Commit
    <2> HIDE DEF e
    <2>5. pc[t] = "idle" /\ UNCHANGED <<owner, pc, op, allowed>> /\ calls' = calls + 1
        BY <1>1 DEF GrantPermission, RevokePermission, Called
    <2>6. Committed(t, e)  BY <2>2, <2>3, <2>4, <2>5 DEF Committed
    <2> QED  BY <1>0, <2>3, <2>5, <2>6
<1>2. ASSUME NEW a \in Delegators, NEW k \in Key, StartDelegation(t, a, k)
      PROVE  calls' \in Nat /\ Kept(t)
    <2>1. PICK P \in ParentSets : op' = [op EXCEPT ![t] = [by |-> a, key |-> k, parents |-> P]]
        BY <1>2 DEF StartDelegation
    <2>2. P \in SUBSET Nat /\ P \subseteq 1..Len(history)  BY <1>0 DEF ParentSets
    <2> DEFINE o == [by |-> a, key |-> k, parents |-> P]
    <2>3. o \in Operation /\ o.parents \subseteq 1..Len(history)
        BY <2>2, PermissionAssumption DEF Operation
    <2> HIDE DEF o
    <2>4. op' = [op EXCEPT ![t] = o]  BY <2>1 DEF o
    <2>5. /\ pc[t] = "idle" /\ pc' = [pc EXCEPT ![t] = "check"] /\ calls' = calls + 1
          /\ UNCHANGED <<history, owner, allowed>>
        BY <1>2 DEF StartDelegation, Goto, Called
    <2>6. Kept(t)  BY <2>3, <2>4, <2>5, Zenon DEF Kept
    <2> QED  BY <1>0, <2>5, <2>6
<1>3. CASE CheckDelegate(t)
    BY <1>0, <1>3 DEF CheckDelegate, Goto, Kept
<1>4. CASE RecordDecision(t)
    <2> DEFINE e == [type |-> "decided", actor |-> Governance, key |-> op[t].key,
                     parents |-> {}, delegated |-> TRUE, by |-> op[t].by, allow |-> allowed[t]]
    <2>1. e \in Event  BY <1>0 DEF TypeOK, Event, Operation
    <2>2. /\ e.type = "decided" /\ e.allow = allowed[t] /\ e.by = op[t].by /\ e.key = op[t].key
          /\ e.parents = {}
        OBVIOUS
    <2>3. CanLock(t) /\ history' = Append(history, e)  BY <1>4 DEF RecordDecision, Commit
    <2> HIDE DEF e
    <2>4. Committed(t, e)
        BY <1>4, <2>1, <2>2, <2>3 DEF Committed, RecordDecision, Goto
    <2> QED  BY <1>0, <1>4, <2>1, <2>4 DEF RecordDecision
<1>5. CASE CommitDelegation(t)
    <2> DEFINE c == Change("granted", op[t].by, op[t].key, op[t].parents, TRUE)
               e == [c EXCEPT !.by = op[t].by]
    <2>1. op[t].by \in Participants /\ op[t].key \in Key /\ op[t].parents \in SUBSET Nat
        BY <1>0 DEF Operation
    <2>2. c \in Event /\ c.parents = op[t].parents /\ c.type = "granted" /\ c.key = op[t].key
        <3>1. op[t].key[1] \in Participants  BY <2>1 DEF Key
        <3> QED  BY <2>1, <3>1 DEF Change, Event
    <2>3. CanLock(t) /\ history' = Append(history, e)  BY <1>5 DEF CommitDelegation, Commit
    <2> HIDE DEF c
    <2>4. /\ e \in Event /\ e.parents = op[t].parents /\ e.type = "granted" /\ e.key = op[t].key
          /\ e.by = op[t].by
        BY <2>1, <2>2 DEF Event
    <2> HIDE DEF e
    <2>5. Committed(t, e)
        BY <1>5, <2>3, <2>4 DEF Committed, CommitDelegation, PastOnly
    <2> QED  BY <1>0, <1>5, <2>4, <2>5 DEF CommitDelegation
<1>6. CASE Refused(t)
    BY <1>0, <1>6 DEF Refused, Kept
<1>7. CASE EnterGuard(t) \/ ExitGuard(t)
    BY <1>0, <1>7 DEF EnterGuard, ExitGuard, Kept
<1>8. ASSUME NEW a \in Participants, NEW s \in States, Transition(t, a, s)
      PROVE  calls' \in Nat /\ \E e \in Event : Committed(t, e)
    <2> DEFINE e == [type |-> "transition", actor |-> a, key |-> s, parents |-> {},
                     delegated |-> FALSE, by |-> a, allow |-> FALSE]
    <2>1. e \in Event /\ e.type = "transition" /\ ~e.delegated /\ e.parents = {}
        BY DEF Event
    <2>2. CanLock(t) /\ history' = Append(history, e)  BY <1>8 DEF Transition, Commit
    <2> HIDE DEF e
    <2>3. pc[t] = "idle" /\ UNCHANGED <<owner, pc, op, allowed>> /\ calls' = calls + 1
        BY <1>8 DEF Transition, Called
    <2>4. Committed(t, e)  BY <2>1, <2>2, <2>3 DEF Committed
    <2> QED  BY <1>0, <2>1, <2>3, <2>4
<1> QED  BY <1>1, <1>2, <1>3, <1>4, <1>5, <1>6, <1>7, <1>8

\* The types are kept, and causal parents stay committed events.
LEMMA TypeStep ==
    ASSUME TypeOK, PastOnly, [Next]_vars
    PROVE  TypeOK' /\ PastOnly'
<1>0. Len(history) \in Nat  BY DEF TypeOK
<1>1. CASE UNCHANGED vars
    BY <1>1 DEF vars, TypeOK, PastOnly
<1>2. ASSUME NEW t \in Threads, calls' \in Nat, Kept(t)
      PROVE  TypeOK' /\ PastOnly'
    <2>1. UNCHANGED history /\ owner' \in Threads \union {NoThread}
        BY <1>2 DEF Kept, TypeOK
    <2>2. pc' \in [Threads -> {"idle", "check", "record", "commit"}]
        BY <1>2 DEF Kept, Finish, TypeOK
    <2>3. op' \in [Threads -> Operation]
        BY <1>2, NoOperationType DEF Kept, Finish, TypeOK
    <2>4. allowed' \in [Threads -> BOOLEAN]
        <3>1. Allowed(<<op[t].by, Delegate>>) \in BOOLEAN  BY DEF Allowed, AllowedAt
        <3> QED  BY <1>2, <3>1 DEF Kept, Finish, TypeOK
    <2>5. \A u \in Threads : op'[u].parents \subseteq 1..Len(history)
        BY <1>2, NoOperationType DEF Kept, Finish, TypeOK, PastOnly
    <2> QED  BY <1>2, <2>1, <2>2, <2>3, <2>4, <2>5 DEF TypeOK, PastOnly
<1>3. ASSUME NEW t \in Threads, calls' \in Nat, NEW e \in Event, Committed(t, e)
      PROVE  TypeOK' /\ PastOnly'
    <2>1. /\ history' \in Seq(Event) /\ Backward(history')
          /\ Len(history') = Len(history) + 1
        <3>1. Backward(history) /\ e.parents \subseteq 1..Len(history)
                 /\ history' = Append(history, e)
            BY <1>3 DEF PastOnly, Committed
        <3> QED  BY <3>1, Appended DEF TypeOK, Extends
    <2>2. 1..Len(history) \subseteq 1..Len(history')  BY <1>0, <2>1
    <2>3. UNCHANGED owner  BY <1>3 DEF Committed
    <2>4. pc' \in [Threads -> {"idle", "check", "record", "commit"}]
        BY <1>3 DEF Committed, Finish, TypeOK
    <2>5. op' \in [Threads -> Operation] /\ allowed' \in [Threads -> BOOLEAN]
        BY <1>3, NoOperationType DEF Committed, Finish, TypeOK
    <2>6. \A u \in Threads : op'[u].parents \subseteq 1..Len(history)
        BY <1>3, NoOperationType DEF Committed, Finish, TypeOK, PastOnly
    <2> QED  BY <1>3, <2>1, <2>2, <2>3, <2>4, <2>5, <2>6 DEF TypeOK, PastOnly
<1> QED  BY <1>1, <1>2, <1>3, Shapes DEF Next

-----------------------------------------------------------------------------
\* The record of a key is opened by a grant.

\* After an event the record of a key is open only if it was before, or if the
\* event grants that key.
LEMMA Opening ==
    ASSUME NEW h \in Seq(Event), NEW e \in Event, Backward(h), e.parents \subseteq 1..Len(h),
           NEW key, Open(Append(h, e), Len(h) + 1, key),
           ~(e.type = "granted" /\ e.key = key)
    PROVE  Open(h, Len(h), key)
<1> DEFINE g == Append(h, e)
           m == Len(h) + 1
           n == Len(h)
<1>1. n \in Nat /\ Extends(g, h) /\ g[m] = e /\ \A i \in 1..n : g[i] = h[i]
    BY Appended
<1>2. Open(g, m, key)  OBVIOUS
<1> HIDE DEF g
<1>3. (\A i \in 1..m : i \in 1..n \/ i = m) /\ 1..n \subseteq 1..m /\ m \notin 1..n  BY <1>1
<1>4. Of(g, m, "granted", key) = Of(h, n, "granted", key)
    BY <1>1, <1>3 DEF Of
<1> DEFINE grants == Of(g, m, "granted", key)
<1>5. grants # {} /\ \A r \in Of(g, m, "revoked", key) : r < Latest(grants)
    BY <1>2 DEF Open, Active
<1>6. Latest(grants) \in 1..n
    <2>1. grants \subseteq 1..n  BY <1>4, OfWithin
    <2> HIDE DEF grants
    <2>2. Latest(grants) \in grants  BY <1>1, <1>5, <2>1, LatestIs
    <2> QED  BY <2>1, <2>2
<1>7. m \notin Of(g, m, "revoked", key)
    <2> HIDE DEF grants
    <2> QED  BY <1>1, <1>5, <1>6
<1>8. Of(g, m, "revoked", key) = Of(h, n, "revoked", key)
    BY <1>1, <1>3, <1>7 DEF Of
<1>9. n \in 0..Len(h)  BY <1>1
<1> QED  BY <1>1, <1>2, <1>4, <1>8, <1>9, SameRecord

-----------------------------------------------------------------------------
\* A delegated grant is explained.

\* A decision on record stays one.
LEMMA DecidedStays ==
    ASSUME NEW g, NEW h, Extends(g, h), NEW m \in 0..Len(h), NEW by, NEW key,
           Decided(h, m, by, key)
    PROVE  Decided(g, m, by, key)
<1>1. PICK j \in 1..m :
          /\ h[j].type = "decided" /\ h[j].allow /\ h[j].by = by /\ h[j].key = key
          /\ \E n \in 0..(j - 1) : AllowedAt(h, n, <<by, Delegate>>)
    BY DEF Decided
<1>2. PICK n \in 0..(j - 1) : AllowedAt(h, n, <<by, Delegate>>)  BY <1>1
<1>3. j \in 1..Len(h) /\ n \in 0..Len(h)  BY DEF Extends
<1>4. AllowedAt(g, n, <<by, Delegate>>)  BY <1>2, <1>3, AllowedStays
<1>5. g[j] = h[j]  BY <1>3 DEF Extends
<1> QED  BY <1>1, <1>4, <1>5 DEF Decided

\* DelegationExplained, in the words of Decided.
LEMMA ExplainedBy ==
    DelegationExplained <=>
        \A i \in 1..Len(history) :
            history[i].type = "granted" /\ history[i].delegated =>
                Decided(history, i - 1, history[i].by, history[i].key)
BY DEF DelegationExplained, Decided

\* Every step keeps the invariant: a decision is taken on an answer that the
\* history can always be asked for again, and is committed before the grant.
LEMMA DelegationStep ==
    ASSUME IInv, [Next]_vars, TypeOK', PastOnly'
    PROVE  DelegationInv' /\ DelegationExplained'
<1>0. /\ TypeOK /\ PastOnly /\ DelegationInv /\ DelegationExplained /\ Len(history) \in Nat
      /\ history \in Seq(Event)
    BY DEF IInv, TypeOK
<1>1. CASE UNCHANGED vars
    BY <1>0, <1>1 DEF vars, DelegationInv, DelegationExplained, Allowed
<1>2. ASSUME NEW t \in Threads, Kept(t)
      PROVE  DelegationInv' /\ DelegationExplained'
    <2>1. UNCHANGED history  BY <1>2 DEF Kept
    <2>2. DelegationExplained'  BY <1>0, <2>1 DEF DelegationExplained
    <2> SUFFICES ASSUME NEW u \in Threads
                 PROVE  /\ pc'[u] = "record" /\ allowed'[u] =>
                              \E n \in 0..Len(history) :
                                  AllowedAt(history, n, <<op'[u].by, Delegate>>)
                        /\ pc'[u] = "commit" =>
                              allowed'[u] /\ Decided(history, Len(history), op'[u].by, op'[u].key)
                        /\ owner' = u /\ pc'[u] \in {"record", "commit"} /\ allowed'[u] =>
                              Allowed(<<op'[u].by, Delegate>>)
        BY <2>1, <2>2 DEF DelegationInv, Allowed
    <2>3. CASE pc'[u] = pc[u] /\ op'[u] = op[u] /\ allowed'[u] = allowed[u]
        <3>1. pc[u] \in {"record", "commit"} /\ owner' = u => owner = u
            BY <1>2, PermissionAssumption DEF Kept, Finish
        <3> QED  BY <1>0, <2>3, <3>1 DEF DelegationInv
    <2>4. CASE pc'[u] = "idle" \/ pc'[u] = "check"
        BY <2>4
    <2>5. CASE u = t /\ pc'[t] = "record" /\ UNCHANGED op
                  /\ allowed'[t] = Allowed(<<op[t].by, Delegate>>)
        <3>1. Len(history) \in 0..Len(history)  BY <1>0
        <3> QED  BY <2>5, <3>1 DEF Allowed
    <2>6. \/ pc'[u] = pc[u] /\ op'[u] = op[u] /\ allowed'[u] = allowed[u]
          \/ pc'[u] = "idle" \/ pc'[u] = "check"
          \/ u = t /\ pc'[t] = "record" /\ UNCHANGED op
                  /\ allowed'[t] = Allowed(<<op[t].by, Delegate>>)
        BY <1>0, <1>2 DEF Kept, Finish, TypeOK
    <2> QED  BY <2>3, <2>4, <2>5, <2>6
<1>3. ASSUME NEW t \in Threads, NEW e \in Event, Committed(t, e)
      PROVE  DelegationInv' /\ DelegationExplained'
    <2> DEFINE n == Len(history)
    <2>1. /\ history' = Append(history, e) /\ e.parents \subseteq 1..n /\ Backward(history)
        BY <1>0, <1>3 DEF Committed, PastOnly
    <2>2. /\ Len(history') = n + 1 /\ history'[n + 1] = e
          /\ \A i \in 1..n : history'[i] = history[i]
          /\ Extends(history', history)
        BY <1>0, <2>1, Appended
    <2>3. n \in 0..n /\ n \in 0..Len(history)  BY <1>0
    <2>4. \A by, key : Decided(history, n, by, key) => Decided(history', n, by, key)
        BY <2>2, <2>3, DecidedStays
    <2>5. \A by, key : Decided(history', n, by, key) => Decided(history', n + 1, by, key)
        <3>1. 1..n \subseteq 1..(n + 1)  BY <1>0
        <3> QED  BY <3>1 DEF Decided
    <2>6. \A key : \A k \in 0..n : AllowedAt(history, k, key) => AllowedAt(history', k, key)
        BY <2>2, AllowedStays
    <2>7. 0..n \subseteq 0..(n + 1)  BY <1>0
    <2>8. DelegationExplained'
        <3> SUFFICES ASSUME NEW i \in 1..(n + 1), history'[i].type = "granted", history'[i].delegated
                     PROVE  Decided(history', i - 1, history'[i].by, history'[i].key)
            BY <2>2 DEF DelegationExplained, Decided
        <3>1. CASE i = n + 1
            <4>1. history'[i] = e  BY <2>2, <3>1
            <4>2. pc[t] = "commit" /\ e.by = op[t].by /\ e.key = op[t].key
                BY <1>3, <4>1 DEF Committed
            <4>3. Decided(history, n, e.by, e.key)  BY <1>0, <4>2 DEF DelegationInv
            <4>4. i - 1 = n  BY <1>0, <3>1
            <4> QED  BY <2>4, <4>1, <4>3, <4>4
        <3>2. CASE i # n + 1
            <4>1. i \in 1..n /\ i - 1 \in 0..Len(history) /\ history'[i] = history[i]
                BY <1>0, <2>2, <3>2
            <4>2. Decided(history, i - 1, history[i].by, history[i].key)
                BY <1>0, <4>1, ExplainedBy
            <4> QED  BY <2>2, <4>1, <4>2, DecidedStays
        <3> QED  BY <3>1, <3>2
    <2>9. ASSUME NEW u \in Threads
          PROVE  /\ pc'[u] = "record" /\ allowed'[u] =>
                       \E k \in 0..(n + 1) : AllowedAt(history', k, <<op'[u].by, Delegate>>)
                 /\ pc'[u] = "commit" =>
                       allowed'[u] /\ Decided(history', n + 1, op'[u].by, op'[u].key)
                 /\ owner' = u /\ pc'[u] \in {"record", "commit"} /\ allowed'[u] =>
                       AllowedAt(history', n + 1, <<op'[u].by, Delegate>>)
        <3>1. CASE pc'[u] = pc[u] /\ op'[u] = op[u] /\ allowed'[u] = allowed[u]
                     /\ (pc[u] \in {"record", "commit"} => u # t)
            <4>1. pc[u] \in {"record", "commit"} => owner' # u
                BY <1>3, <3>1, PermissionAssumption DEF Committed, CanLock, Finish
            <4>2. pc[u] = "record" /\ allowed[u] =>
                      \E k \in 0..n : AllowedAt(history, k, <<op[u].by, Delegate>>)
                BY <1>0 DEF DelegationInv
            <4>3. pc[u] = "commit" => allowed[u] /\ Decided(history, n, op[u].by, op[u].key)
                BY <1>0 DEF DelegationInv
            <4> QED  BY <2>4, <2>5, <2>6, <2>7, <3>1, <4>1, <4>2, <4>3
        <3>2. CASE pc'[u] = "idle"  BY <3>2
        <3>3. CASE /\ u = t /\ pc[t] = "record" /\ pc'[t] = "commit" /\ allowed[t]
                   /\ UNCHANGED <<op, allowed, owner>>
                   /\ e.type = "decided" /\ e.allow = allowed[t] /\ e.by = op[t].by
                   /\ e.key = op[t].key
            <4>1. PICK k \in 0..n : AllowedAt(history, k, <<op[t].by, Delegate>>)
                BY <1>0, <3>3 DEF DelegationInv
            <4>2. AllowedAt(history', k, <<op[t].by, Delegate>>)  BY <2>6, <4>1
            <4>3. n + 1 \in 1..(n + 1) /\ (n + 1) - 1 = n  BY <1>0
            <4>4. Decided(history', n + 1, op[t].by, op[t].key)
                BY <2>2, <3>3, <4>2, <4>3 DEF Decided
            <4>5. owner = t => AllowedAt(history', n + 1, <<op[t].by, Delegate>>)
                <5>1. owner = t => AllowedAt(history, n, <<op[t].by, Delegate>>)
                    BY <1>0, <3>3 DEF DelegationInv, Allowed
                <5>2. AllowedAt(Append(history, e), n + 1, <<op[t].by, Delegate>>)
                         <=> AllowedAt(history, n, <<op[t].by, Delegate>>)
                    BY <1>0, <2>1, <3>3, Unaffected
                <5> QED  BY <2>1, <5>1, <5>2
            <4> QED  BY <3>3, <4>4, <4>5
        <3>4. \/ pc'[u] = pc[u] /\ op'[u] = op[u] /\ allowed'[u] = allowed[u]
                     /\ (pc[u] \in {"record", "commit"} => u # t)
              \/ pc'[u] = "idle"
              \/ /\ u = t /\ pc[t] = "record" /\ pc'[t] = "commit" /\ allowed[t]
                 /\ UNCHANGED <<op, allowed, owner>>
                 /\ e.type = "decided" /\ e.allow = allowed[t] /\ e.by = op[t].by
                 /\ e.key = op[t].key
            BY <1>0, <1>3 DEF Committed, Finish, TypeOK
        <3> QED  BY <3>1, <3>2, <3>3, <3>4
    <2>10. DelegationInv'
        BY <2>2, <2>9 DEF DelegationInv, Allowed
    <2> QED  BY <2>8, <2>10
<1> QED  BY <1>0, <1>1, <1>2, <1>3, Shapes DEF Next

-----------------------------------------------------------------------------
\* The theorems.

\* The invariant holds in every reachable state.
THEOREM Invariance == Spec => []IInv
<1>1. Init => IInv
    <2> SUFFICES ASSUME Init  PROVE IInv
        OBVIOUS
    <2>1. TypeOK  BY NoOperationType DEF Init, TypeOK
    <2>2. history = << >> /\ \A t \in Threads : pc[t] = "idle" /\ op[t].parents = {}
        BY NoOperationType DEF Init
    <2>3. PastOnly  BY <2>2 DEF PastOnly, Backward
    <2>4. DelegationInv /\ DelegationExplained  BY <2>2 DEF DelegationInv, DelegationExplained
    <2> QED  BY <2>1, <2>3, <2>4 DEF IInv
<1>2. IInv /\ [Next]_vars => IInv'
    BY TypeStep, DelegationStep DEF IInv
<1> QED  BY <1>1, <1>2, PTL DEF Spec

\* The types hold in every reachable state.
COROLLARY TypeCorrect == Spec => []TypeOK
<1>1. IInv => TypeOK  BY DEF IInv
<1> QED  BY <1>1, Invariance, PTL

\* A delegated grant (core.py: delegate_permission) stands after an ALLOW
\* decision about the same delegation, taken when its grantor held DELEGATE, for
\* any interleaving with grants, revocations, refusals and other delegations.
COROLLARY DelegationAlwaysExplained == Spec => []DelegationExplained
<1>1. IInv => DelegationExplained  BY DEF IInv
<1> QED  BY <1>1, Invariance, PTL

\* A revocation dominates (causality.py: ambiguous_permissions; state.py): as long
\* as a key is allowed, its latest revocation causally precedes its latest grant.
THEOREM RevocationAlwaysDominates == Spec => []RevocationDominates
<1>1. ASSUME IInv  PROVE RevocationDominates
    <2> SUFFICES ASSUME NEW key \in Key, Allowed(key),
                        Of(history, Len(history), "revoked", key) # {}
                 PROVE  Precedes(history,
                                 Latest(Of(history, Len(history), "revoked", key)),
                                 Latest(Of(history, Len(history), "granted", key)))
        BY DEF RevocationDominates
    <2> DEFINE grants == Of(history, Len(history), "granted", key)
               revokes == Of(history, Len(history), "revoked", key)
               g == Latest(grants)
               r == Latest(revokes)
    <2>1. Len(history) \in Nat /\ Backward(history)  BY <1>1 DEF IInv, TypeOK, PastOnly
    <2>2. grants \subseteq 1..Len(history) /\ revokes \subseteq 1..Len(history)  BY OfWithin
    <2>3. grants # {} /\ \A s \in revokes : s < g
        BY DEF Allowed, AllowedAt, Open, Active
    <2>4. ~Ambiguous(history, Len(history), key)  BY DEF Allowed, AllowedAt, Open
    <2>5. revokes # {}  OBVIOUS
    <2>6. Precedes(history, g, r) \/ Precedes(history, r, g)
        BY <2>3, <2>4, <2>5 DEF Ambiguous
    <2> HIDE DEF grants, revokes
    <2>7. g \in grants /\ r \in revokes  BY <2>1, <2>2, <2>3, <2>5, LatestIs
    <2>8. r < g /\ r \in 1..Len(history) /\ g \in 1..Len(history)
        BY <2>2, <2>3, <2>7
    <2> HIDE DEF g, r
    <2>9. ~Precedes(history, g, r)
        <3>1. Ancestors(history)[r] \subseteq 1..(r - 1)  BY <2>1, <2>8, AncestorsBefore
        <3>2. g \notin 1..(r - 1) /\ ~(g < r)  BY <2>1, <2>8
        <3> QED  BY <3>1, <3>2 DEF Precedes
    <2>10. Precedes(history, r, g)  BY <2>6, <2>9
    <2> QED  BY <2>10 DEF grants, revokes, g, r
<1>2. IInv => RevocationDominates  BY <1>1
<1> QED  BY <1>2, Invariance, PTL

\* A step that changes the history is a commit of some thread.
LEMMA EventOfStep ==
    ASSUME TypeOK, PastOnly, [Next]_vars, history' # history
    PROVE  \E t \in Threads, e \in Event : Committed(t, e)
<1>1. PICK t \in Threads : Kept(t) \/ \E e \in Event : Committed(t, e)
    BY Shapes DEF Next, vars
<1>2. ~Kept(t)  BY DEF Kept
<1> QED  BY <1>1, <1>2

\* A key that was not allowed is allowed after a step only if the step granted
\* that very key, or was a transition and the record of the key was open already:
\* no decision and no event about another key, causal parents or not, and no
\* transition resolves a revocation or an ambiguity.
THEOREM OnlyGrantsOpen == Spec => OpenedByGrant
<1>1. ASSUME IInv, [Next]_vars, NEW key \in Key, ~Allowed(key), Allowed(key)'
      PROVE  \/ history'[Len(history')].type = "granted" /\ history'[Len(history')].key = key
             \/ history'[Len(history')].type = "transition" /\ Open(history, Len(history), key)
    <2>1. history' # history  BY <1>1 DEF Allowed
    <2>2. PICK t \in Threads, e \in Event : Committed(t, e)
        BY <1>1, <2>1, EventOfStep DEF IInv
    <2>3. /\ history' = Append(history, e) /\ e.parents \subseteq 1..Len(history)
          /\ history \in Seq(Event) /\ Backward(history)
        BY <1>1, <2>2 DEF IInv, TypeOK, PastOnly, Committed
    <2>4. Len(history') = Len(history) + 1 /\ history'[Len(history) + 1] = e
        BY <2>3, Appended
    <2>5. /\ Open(Append(history, e), Len(history) + 1, key)
          /\ key[2] \in Permitted(LifecycleAt(Append(history, e), Len(history) + 1))
        BY <1>1, <2>3, <2>4 DEF Allowed, AllowedAt
    <2> SUFFICES ASSUME ~(e.type = "granted" /\ e.key = key)
                 PROVE  e.type = "transition" /\ Open(history, Len(history), key)
        BY <2>4
    <2>6. Open(history, Len(history), key)  BY <2>3, <2>5, Opening
    <2>7. key[2] \notin Permitted(LifecycleAt(history, Len(history)))
        BY <1>1, <2>6 DEF Allowed, AllowedAt
    <2>8. e.type = "transition"  BY <2>3, <2>5, <2>7, LifecycleStays
    <2> QED  BY <2>6, <2>8
<1>2. IInv /\ [Next]_vars =>
          [\A key \in Key : ~Allowed(key) /\ Allowed(key)' =>
              LET last == history'[Len(history')]
              IN  \/ last.type = "granted" /\ last.key = key
                  \/ last.type = "transition" /\ Open(history, Len(history), key)]_vars
    BY <1>1
<1> QED  BY <1>2, Invariance, PTL DEF Spec, OpenedByGrant

\* When a delegation commits while its thread holds the execution guard, its
\* grantor holds DELEGATE at that moment: between the check and the grant nobody
\* else can commit a revocation.
THEOREM DelegationHeldUnderGuard == Spec => GuardedDelegationHeld
<1>1. IInv => \A t \in Threads : owner = t /\ pc[t] = "commit" => Allowed(<<op[t].by, Delegate>>)
    BY DEF IInv, DelegationInv
<1>2. IInv => [\A t \in Threads :
                  owner = t /\ pc[t] = "commit" /\ history' # history =>
                      Allowed(<<op[t].by, Delegate>>)]_vars
    BY <1>1
<1> QED  BY <1>2, Invariance, PTL DEF GuardedDelegationHeld

=============================================================================
