-------------------------- MODULE EngineHostProofs --------------------------
(***************************************************************************)
(* Proofs about EngineHost for any number of calls, engines and processes: *)
(* type correctness, the accounting and the bounds of the permits, the     *)
(* exclusive ownership of processes, and, from these, what a cancellation  *)
(* may do, that nobody waits for a free permit, the bound on processes and *)
(* that a pinned process keeps its owner.                                  *)
(***************************************************************************)
EXTENDS EngineHost, FiniteSetTheorems, TLAPS

-----------------------------------------------------------------------------
(* The inductive invariant                                                 *)

HeldIn(f) == {r \in Requests : f[r] \in HoldingPhases}
PinnedIn(bk) == {p \in Procs : bk[p] # NoKey}

\* Permits a and byKey cover the calls entered in f and the processes pinned in
\* bk; exactly so until the host is disposed (dispose forgets the pins but not
\* their permits, which nobody asks for any more).
Accounted(f, bk, a, byKey, d) ==
    /\ a \in Nat
    /\ byKey \in [Keys -> Nat]
    /\ a >= Cardinality(EnteredIn(f)) + Cardinality(PinnedIn(bk))
    /\ ~d => a = Cardinality(EnteredIn(f)) + Cardinality(PinnedIn(bk))
    /\ \A k \in Keys :
        LET used == Cardinality(EnteredIn(f) \cap OfKey(k))
                      + Cardinality({p \in Procs : bk[p] = k})
        IN  byKey[k] >= used /\ (~d => byKey[k] = used)

\* No permit beyond the limits.
Bounded(a, byKey) ==
    /\ a <= MaxProcesses
    /\ \A k \in Keys : byKey[k] <= MaxProcessesPerEngine

\* The size of the union of two disjoint finite sets.
LEMMA DisjointUnion ==
    ASSUME NEW S, NEW T, IsFiniteSet(S), IsFiniteSet(T), S \cap T = {}
    PROVE  Cardinality(S \cup T) = Cardinality(S) + Cardinality(T)
<1>1. Cardinality(S \cup T) = Cardinality(S) + Cardinality(T) - Cardinality({})
  BY FS_Union
<1>2. Cardinality(S) \in Nat /\ Cardinality(T) \in Nat /\ Cardinality({}) = 0
  BY FS_CardinalityType, FS_EmptySet
<1> QED BY <1>1, <1>2

\* The calls that hold a permit are finitely many, in all and per engine.
LEMMA EnteredFinite ==
    ASSUME NEW f
    PROVE  /\ IsFiniteSet(EnteredIn(f))
           /\ Cardinality(EnteredIn(f)) \in Nat
           /\ \A k \in Keys : /\ IsFiniteSet(EnteredIn(f) \cap OfKey(k))
                              /\ Cardinality(EnteredIn(f) \cap OfKey(k)) \in Nat
<1>1. EnteredIn(f) \subseteq Requests /\ \A k \in Keys : EnteredIn(f) \cap OfKey(k) \subseteq Requests
  BY DEF EnteredIn
<1> QED BY <1>1, FS_Subset, FS_CardinalityType, RequestsAssumption

\* The pinned processes are finitely many, in all and per engine.
LEMMA PinnedFinite ==
    ASSUME NEW bk
    PROVE  /\ IsFiniteSet(PinnedIn(bk))
           /\ Cardinality(PinnedIn(bk)) \in Nat
           /\ \A k \in Keys : /\ IsFiniteSet({p \in Procs : bk[p] = k})
                              /\ Cardinality({p \in Procs : bk[p] = k}) \in Nat
<1>1. PinnedIn(bk) \subseteq Procs /\ \A k \in Keys : {p \in Procs : bk[p] = k} \subseteq Procs
  BY DEF PinnedIn
<1> QED BY <1>1, FS_Subset, FS_CardinalityType, RequestsAssumption

\* _wakeWaiters hands each waiter it completes one permit of its engine, within
\* the limits, and touches no other call.
LEMMA WakeKeepsAccount ==
    ASSUME NEW f \in [Requests -> Phases], NEW bk, NEW a, NEW byKey,
           Accounted(f, bk, a, byKey, disposed), Bounded(a, byKey),
           WakeWaiters(f, a, byKey)
    PROVE  /\ pc' \in [Requests -> Phases]
           /\ Accounted(pc', bk, active', activeByKey', disposed)
           /\ Bounded(active', activeByKey')
           /\ \A r \in Requests : pc'[r] = f[r] \/ (f[r] = "queued" /\ pc'[r] = "granted")
           /\ HeldIn(pc') = HeldIn(f)
<1>1. PICK G \in SUBSET QueuedIn(f) :
        /\ IF disposed THEN G = {} ELSE Grants(G, QueuedIn(f), a, byKey)
        /\ pc' = [r \in Requests |-> IF r \in G THEN "granted" ELSE f[r]]
        /\ active' = a + Cardinality(G)
        /\ activeByKey' = [k \in Keys |-> byKey[k] + Cardinality(G \cap OfKey(k))]
  BY DEF WakeWaiters
<1>2. /\ G \subseteq Requests
      /\ \A r \in G : f[r] = "queued"
      /\ IsFiniteSet(G) /\ Cardinality(G) \in Nat
      /\ \A k \in Keys : IsFiniteSet(G \cap OfKey(k)) /\ Cardinality(G \cap OfKey(k)) \in Nat
  <2>1. G \subseteq Requests /\ \A r \in G : f[r] = "queued"
    BY DEF QueuedIn
  <2>2. \A k \in Keys : G \cap OfKey(k) \subseteq Requests
    BY <2>1
  <2> QED BY <2>1, <2>2, FS_Subset, FS_CardinalityType, RequestsAssumption
<1>3. pc' \in [Requests -> Phases]
  BY <1>1 DEF Phases, EnteredPhases
<1>4. EnteredIn(pc') = EnteredIn(f) \cup G /\ EnteredIn(f) \cap G = {}
  BY <1>1, <1>2 DEF EnteredIn, EnteredPhases, HoldingPhases
<1>5. /\ Cardinality(EnteredIn(pc')) = Cardinality(EnteredIn(f)) + Cardinality(G)
      /\ Cardinality(EnteredIn(f)) \in Nat
  <2>1. IsFiniteSet(EnteredIn(f)) /\ Cardinality(EnteredIn(f)) \in Nat
    BY EnteredFinite
  <2> QED BY <1>2, <1>4, <2>1, DisjointUnion
<1>6. \A k \in Keys :
        /\ Cardinality(EnteredIn(pc') \cap OfKey(k))
             = Cardinality(EnteredIn(f) \cap OfKey(k)) + Cardinality(G \cap OfKey(k))
        /\ Cardinality(EnteredIn(f) \cap OfKey(k)) \in Nat
  <2> TAKE k \in Keys
  <2>1. /\ EnteredIn(pc') \cap OfKey(k) = (EnteredIn(f) \cap OfKey(k)) \cup (G \cap OfKey(k))
        /\ (EnteredIn(f) \cap OfKey(k)) \cap (G \cap OfKey(k)) = {}
    BY <1>4
  <2>2. IsFiniteSet(EnteredIn(f) \cap OfKey(k)) /\ Cardinality(EnteredIn(f) \cap OfKey(k)) \in Nat
    BY EnteredFinite
  <2>3. IsFiniteSet(G \cap OfKey(k))
    BY <1>2
  <2> QED BY <2>1, <2>2, <2>3, DisjointUnion
<1>7. Accounted(pc', bk, active', activeByKey', disposed)
  <2> DEFINE pinned == Cardinality(PinnedIn(bk))
             pinnedOf(k) == Cardinality({p \in Procs : bk[p] = k})
  <2>1. pinned \in Nat /\ \A k \in Keys : pinnedOf(k) \in Nat
    BY PinnedFinite
  <2>2. \A k \in Keys :
          /\ byKey[k] \in Nat /\ byKey[k] >= Cardinality(EnteredIn(f) \cap OfKey(k)) + pinnedOf(k)
          /\ ~disposed => byKey[k] = Cardinality(EnteredIn(f) \cap OfKey(k)) + pinnedOf(k)
    BY DEF Accounted
  <2>3. /\ a \in Nat /\ a >= Cardinality(EnteredIn(f)) + pinned
        /\ ~disposed => a = Cardinality(EnteredIn(f)) + pinned
    BY DEF Accounted
  <2> HIDE DEF pinned, pinnedOf
  <2>4. /\ active' \in Nat /\ active' >= Cardinality(EnteredIn(pc')) + pinned
        /\ ~disposed => active' = Cardinality(EnteredIn(pc')) + pinned
    BY <1>1, <1>2, <1>5, <2>1, <2>3
  <2>5. ASSUME NEW k \in Keys
        PROVE  /\ activeByKey'[k] \in Nat
               /\ activeByKey'[k] >= Cardinality(EnteredIn(pc') \cap OfKey(k)) + pinnedOf(k)
               /\ ~disposed =>
                    activeByKey'[k] = Cardinality(EnteredIn(pc') \cap OfKey(k)) + pinnedOf(k)
    <3> DEFINE old == Cardinality(EnteredIn(f) \cap OfKey(k))
               new == Cardinality(EnteredIn(pc') \cap OfKey(k))
               got == Cardinality(G \cap OfKey(k))
    <3>1. activeByKey'[k] = byKey[k] + got
      BY <1>1
    <3>2. new = old + got /\ old \in Nat /\ got \in Nat /\ pinnedOf(k) \in Nat
      BY <1>2, <1>6, <2>1
    <3>3. /\ byKey[k] \in Nat /\ byKey[k] >= old + pinnedOf(k)
          /\ ~disposed => byKey[k] = old + pinnedOf(k)
      BY <2>2
    <3> HIDE DEF old, new, got
    <3>4. /\ activeByKey'[k] \in Nat
          /\ activeByKey'[k] >= new + pinnedOf(k)
          /\ ~disposed => activeByKey'[k] = new + pinnedOf(k)
      BY <3>1, <3>2, <3>3
    <3> QED BY <3>4 DEF new
  <2>6. activeByKey' \in [Keys -> Nat]
    BY <1>1, <2>5
  <2> QED BY <2>4, <2>5, <2>6 DEF Accounted, pinned, pinnedOf
<1>8. Bounded(active', activeByKey')
  <2>1. CASE disposed
    <3>1. G = {} /\ Cardinality(G) = 0 /\ \A k \in Keys : Cardinality(G \cap OfKey(k)) = 0
      BY <2>1, <1>1, FS_EmptySet
    <3>2. active' = a + 0 /\ \A k \in Keys : activeByKey'[k] = byKey[k] + 0
      BY <3>1, <1>1
    <3> QED BY <3>2 DEF Bounded, Accounted
  <2>2. CASE ~disposed
    <3>1. Grants(G, QueuedIn(f), a, byKey)
      BY <2>2, <1>1
    <3>2. \A k \in Keys : activeByKey'[k] <= MaxProcessesPerEngine
      <4> TAKE k \in Keys
      <4>1. CASE G \cap OfKey(k) = {}
        <5>1. Cardinality(G \cap OfKey(k)) = 0
          BY <4>1, FS_EmptySet
        <5>2. activeByKey'[k] = byKey[k] + 0
          BY <5>1, <1>1
        <5> QED BY <5>2 DEF Bounded, Accounted
      <4>2. CASE G \cap OfKey(k) # {}
        <5>1. activeByKey'[k] = byKey[k] + Cardinality(G \cap OfKey(k))
          BY <1>1
        <5> QED BY <4>2, <5>1, <3>1 DEF Grants
      <4> QED BY <4>1, <4>2
    <3> QED BY <1>1, <3>1, <3>2 DEF Grants, Bounded
  <2> QED BY <2>1, <2>2
<1>9. /\ \A r \in Requests : pc'[r] = f[r] \/ (f[r] = "queued" /\ pc'[r] = "granted")
      /\ HeldIn(pc') = HeldIn(f)
  BY <1>1, <1>2 DEF HeldIn, HoldingPhases
<1> QED BY <1>3, <1>7, <1>8, <1>9

\* The finally block takes one permit of r's engine back.
LEMMA LeaveKeepsAccount ==
    ASSUME NEW f \in [Requests -> Phases], NEW bk, NEW a, NEW byKey, NEW d,
           NEW r \in EnteredIn(f), NEW ph \in Phases \ EnteredPhases,
           Accounted(f, bk, a, byKey, d), Bounded(a, byKey)
    PROVE  /\ Accounted([f EXCEPT ![r] = ph], bk, a - 1, [byKey EXCEPT ![KeyOf[r]] = @ - 1], d)
           /\ Bounded(a - 1, [byKey EXCEPT ![KeyOf[r]] = @ - 1])
<1> DEFINE g == [f EXCEPT ![r] = ph]
           by == [byKey EXCEPT ![KeyOf[r]] = @ - 1]
<1>1. r \in Requests /\ KeyOf[r] \in Keys /\ EnteredIn(g) = EnteredIn(f) \ {r}
  BY RequestAttributes DEF EnteredIn
<1>2. /\ Cardinality(EnteredIn(g)) = Cardinality(EnteredIn(f)) - 1
      /\ Cardinality(EnteredIn(f)) \in Nat /\ Cardinality(EnteredIn(g)) \in Nat
  <2>1. IsFiniteSet(EnteredIn(f))
    BY EnteredFinite
  <2>2. Cardinality(EnteredIn(f) \ {r}) = Cardinality(EnteredIn(f)) - 1
    BY <2>1, FS_RemoveElement
  <2> QED BY <1>1, <2>2, EnteredFinite
<1>3. \A k \in Keys : 
        LET old == Cardinality(EnteredIn(f) \cap OfKey(k))
            new == Cardinality(EnteredIn(g) \cap OfKey(k))
        IN  old \in Nat /\ new \in Nat /\ new = IF k = KeyOf[r] THEN old - 1 ELSE old
  <2> TAKE k \in Keys
  <2>1. /\ IsFiniteSet(EnteredIn(f) \cap OfKey(k))
        /\ Cardinality(EnteredIn(f) \cap OfKey(k)) \in Nat
        /\ Cardinality(EnteredIn(g) \cap OfKey(k)) \in Nat
    BY EnteredFinite
  <2>2. CASE k = KeyOf[r]
    <3>1. /\ EnteredIn(g) \cap OfKey(k) = (EnteredIn(f) \cap OfKey(k)) \ {r}
          /\ r \in EnteredIn(f) \cap OfKey(k)
      BY <1>1, <2>2 DEF OfKey
    <3>2. Cardinality((EnteredIn(f) \cap OfKey(k)) \ {r})
            = Cardinality(EnteredIn(f) \cap OfKey(k)) - 1
      BY <3>1, <2>1, FS_RemoveElement
    <3> QED BY <2>1, <2>2, <3>1, <3>2
  <2>3. CASE k # KeyOf[r]
    <3>1. EnteredIn(g) \cap OfKey(k) = EnteredIn(f) \cap OfKey(k)
      BY <1>1, <2>3 DEF OfKey
    <3> QED BY <2>1, <2>3, <3>1
  <2> QED BY <2>2, <2>3
<1> HIDE DEF g
<1> DEFINE pinned == Cardinality(PinnedIn(bk))
           pinnedOf(k) == Cardinality({p \in Procs : bk[p] = k})
<1>4. pinned \in Nat /\ \A k \in Keys : pinnedOf(k) \in Nat
  BY PinnedFinite
<1>5. /\ a \in Nat /\ a >= Cardinality(EnteredIn(f)) + pinned
      /\ ~d => a = Cardinality(EnteredIn(f)) + pinned
      /\ byKey \in [Keys -> Nat]
      /\ \A k \in Keys :
          /\ byKey[k] >= Cardinality(EnteredIn(f) \cap OfKey(k)) + pinnedOf(k)
          /\ ~d => byKey[k] = Cardinality(EnteredIn(f) \cap OfKey(k)) + pinnedOf(k)
  BY DEF Accounted
<1> HIDE DEF pinned, pinnedOf
<1>6. /\ a - 1 \in Nat /\ a - 1 >= Cardinality(EnteredIn(g)) + pinned
      /\ ~d => a - 1 = Cardinality(EnteredIn(g)) + pinned
  BY <1>2, <1>4, <1>5
<1>7. ASSUME NEW k \in Keys
      PROVE  /\ by[k] \in Nat /\ by[k] <= byKey[k]
             /\ by[k] >= Cardinality(EnteredIn(g) \cap OfKey(k)) + pinnedOf(k)
             /\ ~d => by[k] = Cardinality(EnteredIn(g) \cap OfKey(k)) + pinnedOf(k)
  <2>1. by[k] = IF k = KeyOf[r] THEN byKey[k] - 1 ELSE byKey[k]
    BY <1>5
  <2> DEFINE old == Cardinality(EnteredIn(f) \cap OfKey(k))
             new == Cardinality(EnteredIn(g) \cap OfKey(k))
  <2>2. /\ old \in Nat /\ new \in Nat /\ new = IF k = KeyOf[r] THEN old - 1 ELSE old
        /\ pinnedOf(k) \in Nat
    BY <1>3, <1>4
  <2>3. /\ byKey[k] \in Nat /\ byKey[k] >= old + pinnedOf(k)
        /\ ~d => byKey[k] = old + pinnedOf(k)
    BY <1>5
  <2> HIDE DEF old, new, by
  <2>4. /\ by[k] \in Nat /\ by[k] <= byKey[k] /\ by[k] >= new + pinnedOf(k)
        /\ ~d => by[k] = new + pinnedOf(k)
    BY <2>1, <2>2, <2>3
  <2> QED BY <2>4 DEF new
<1>8. by \in [Keys -> Nat]
  BY <1>5, <1>7
<1> HIDE DEF by
<1>9. Accounted(g, bk, a - 1, by, d)
  BY <1>6, <1>7, <1>8 DEF Accounted, pinned, pinnedOf
<1>10. Bounded(a - 1, by)
  <2>1. a - 1 <= MaxProcesses
    BY <1>5, LimitAssumption DEF Bounded
  <2>2. \A k \in Keys : by[k] <= MaxProcessesPerEngine
    <3> TAKE k \in Keys
    <3>1. byKey[k] \in Nat /\ byKey[k] <= MaxProcessesPerEngine
      BY <1>5 DEF Bounded
    <3>2. by[k] \in Nat /\ by[k] <= byKey[k]
      BY <1>7
    <3> QED BY <3>1, <3>2, LimitAssumption
  <2> QED BY <2>1, <2>2 DEF Bounded
<1> QED BY <1>9, <1>10 DEF g, by

\* The pins and the permits once the processes of S are unpinned, as in Drop.
KeysWithout(S) == [p \in Procs |-> IF p \in S THEN NoKey ELSE benchmarkKeys[p]]
ActiveWithout(S, a) == a - Cardinality(S \cap Pinned)
ActiveByKeyWithout(S, byKey) == [k \in Keys |-> byKey[k] - Cardinality(S \cap PinnedOf(k))]

\* Unpinning the processes of S gives back one permit for each that was pinned.
LEMMA UnpinKeepsAccount ==
    ASSUME NEW f, NEW a, NEW byKey, NEW d, NEW S \in SUBSET Procs,
           benchmarkKeys \in [Procs -> Keys \cup {NoKey}],
           Accounted(f, benchmarkKeys, a, byKey, d), Bounded(a, byKey)
    PROVE  /\ Accounted(f, KeysWithout(S), ActiveWithout(S, a), ActiveByKeyWithout(S, byKey), d)
           /\ Bounded(ActiveWithout(S, a), ActiveByKeyWithout(S, byKey))
<1> DEFINE bk == [p \in Procs |-> IF p \in S THEN NoKey ELSE benchmarkKeys[p]]
           a2 == a - Cardinality(S \cap Pinned)
           by == [k \in Keys |-> byKey[k] - Cardinality(S \cap PinnedOf(k))]
           entered == Cardinality(EnteredIn(f))
           enteredOf(k) == Cardinality(EnteredIn(f) \cap OfKey(k))
           pinnedOf(k) == Cardinality({p \in Procs : bk[p] = k})
<1>1. entered \in Nat /\ \A k \in Keys : enteredOf(k) \in Nat
  BY EnteredFinite
<1>2. /\ a \in Nat /\ a >= entered + Cardinality(Pinned)
      /\ ~d => a = entered + Cardinality(Pinned)
      /\ byKey \in [Keys -> Nat]
      /\ \A k \in Keys : /\ byKey[k] >= enteredOf(k) + Cardinality(PinnedOf(k))
                         /\ ~d => byKey[k] = enteredOf(k) + Cardinality(PinnedOf(k))
  BY DEF Accounted, Pinned, PinnedOf, PinnedIn
<1>3. /\ Cardinality(S \cap Pinned) \in Nat /\ Cardinality(Pinned) \in Nat
      /\ Cardinality(PinnedIn(bk)) \in Nat
      /\ Cardinality(PinnedIn(bk)) = Cardinality(Pinned) - Cardinality(S \cap Pinned)
  <2>1. PinnedIn(bk) = Pinned \ S /\ Pinned \cap S = S \cap Pinned
    BY DEF PinnedIn, Pinned
  <2>2. IsFiniteSet(Pinned) /\ IsFiniteSet(S \cap Pinned) /\ IsFiniteSet(PinnedIn(bk))
    <3>1. Pinned \subseteq Procs /\ S \cap Pinned \subseteq Procs /\ PinnedIn(bk) \subseteq Procs
      BY DEF Pinned, PinnedIn
    <3> QED BY <3>1, FS_Subset, RequestsAssumption
  <2>3. Cardinality(Pinned \ S) = Cardinality(Pinned) - Cardinality(Pinned \cap S)
    BY <2>2, FS_Difference
  <2> QED BY <2>1, <2>2, <2>3, FS_CardinalityType
<1>4. \A k \in Keys :
        /\ Cardinality(S \cap PinnedOf(k)) \in Nat /\ Cardinality(PinnedOf(k)) \in Nat
        /\ pinnedOf(k) \in Nat
        /\ pinnedOf(k) = Cardinality(PinnedOf(k)) - Cardinality(S \cap PinnedOf(k))
  <2> TAKE k \in Keys
  <2>1. {p \in Procs : bk[p] = k} = PinnedOf(k) \ S /\ PinnedOf(k) \cap S = S \cap PinnedOf(k)
    BY SentinelAssumption DEF PinnedOf
  <2>2. /\ IsFiniteSet(PinnedOf(k)) /\ IsFiniteSet(S \cap PinnedOf(k))
        /\ IsFiniteSet(PinnedOf(k) \ S)
    <3>1. PinnedOf(k) \subseteq Procs /\ S \cap PinnedOf(k) \subseteq Procs
          /\ PinnedOf(k) \ S \subseteq Procs
      BY DEF PinnedOf
    <3> QED BY <3>1, FS_Subset, RequestsAssumption
  <2>3. Cardinality(PinnedOf(k) \ S) = Cardinality(PinnedOf(k)) - Cardinality(PinnedOf(k) \cap S)
    BY <2>2, FS_Difference
  <2> QED BY <2>1, <2>2, <2>3, FS_CardinalityType
<1> HIDE DEF entered, enteredOf, pinnedOf, bk
<1>5. /\ a2 \in Nat /\ a2 <= a /\ a2 >= entered + Cardinality(PinnedIn(bk))
      /\ ~d => a2 = entered + Cardinality(PinnedIn(bk))
  BY <1>1, <1>2, <1>3
<1>6. ASSUME NEW k \in Keys
      PROVE  /\ by[k] \in Nat /\ by[k] <= byKey[k] /\ by[k] >= enteredOf(k) + pinnedOf(k)
             /\ ~d => by[k] = enteredOf(k) + pinnedOf(k)
  <2> DEFINE x == Cardinality(S \cap PinnedOf(k))
             y == Cardinality(PinnedOf(k))
  <2>1. by[k] = byKey[k] - x
    OBVIOUS
  <2>2. /\ byKey[k] \in Nat /\ byKey[k] >= enteredOf(k) + y
        /\ ~d => byKey[k] = enteredOf(k) + y
    BY <1>2
  <2>3. x \in Nat /\ y \in Nat /\ pinnedOf(k) \in Nat /\ pinnedOf(k) = y - x /\ enteredOf(k) \in Nat
    BY <1>1, <1>4
  <2> HIDE DEF x, y, by
  <2> QED BY <2>1, <2>2, <2>3
<1>7. by \in [Keys -> Nat]
  BY <1>6
<1> HIDE DEF a2, by
<1>8. Accounted(f, bk, a2, by, d)
  BY <1>5, <1>6, <1>7 DEF Accounted, entered, enteredOf, pinnedOf
<1>9. Bounded(a2, by)
  <2>1. a2 <= MaxProcesses
    BY <1>2, <1>5, LimitAssumption DEF Bounded
  <2>2. \A k \in Keys : by[k] <= MaxProcessesPerEngine
    <3> TAKE k \in Keys
    <3>1. byKey[k] \in Nat /\ byKey[k] <= MaxProcessesPerEngine
      BY <1>2 DEF Bounded
    <3>2. by[k] \in Nat /\ by[k] <= byKey[k]
      BY <1>6
    <3> QED BY <3>1, <3>2, LimitAssumption
  <2> QED BY <2>1, <2>2 DEF Bounded
<1> QED BY <1>8, <1>9 DEF bk, a2, by, KeysWithout, ActiveWithout, ActiveByKeyWithout

\* Failing the calls that await an answer changes neither who holds a permit nor
\* who holds a process.
LEMMA FailPendingKeepsHolders ==
    ASSUME NEW f \in [Requests -> Phases], NEW S
    PROVE  /\ FailPending(S, f) \in [Requests -> Phases]
           /\ EnteredIn(FailPending(S, f)) = EnteredIn(f)
           /\ HeldIn(FailPending(S, f)) = HeldIn(f)
           /\ \A r \in Requests : FailPending(S, f)[r] \in DirectPhases => f[r] \in DirectPhases
<1>1. \A r \in Requests :
        \/ FailPending(S, f)[r] = f[r]
        \/ f[r] = "sent" /\ FailPending(S, f)[r] = "failing"
        \/ f[r] = "polling" /\ FailPending(S, f)[r] = "pollFailing"
        \/ f[r] = "controlling" /\ FailPending(S, f)[r] = "controlFailing"
  BY DEF FailPending
<1>2. FailPending(S, f) \in [Requests -> Phases]
  <2>1. \A r \in Requests : FailPending(S, f)[r] \in Phases
    BY <1>1 DEF Phases, EnteredPhases, HoldingPhases, DirectPhases
  <2> QED BY <2>1 DEF FailPending
<1> QED BY <1>1, <1>2 DEF EnteredIn, HeldIn, EnteredPhases, HoldingPhases, DirectPhases

\* _discardProcess and kill, on any set of processes.
LEMMA DropKeepsAccount ==
    ASSUME NEW f \in [Requests -> Phases], NEW a, NEW byKey, NEW S \in SUBSET Procs,
           benchmarkKeys \in [Procs -> Keys \cup {NoKey}],
           Accounted(f, benchmarkKeys, a, byKey, disposed), Bounded(a, byKey),
           Drop(S, f, a, byKey)
    PROVE  /\ pc' \in [Requests -> Phases]
           /\ Accounted(pc', benchmarkKeys', active', activeByKey', disposed)
           /\ Bounded(active', activeByKey')
           /\ HeldIn(pc') = HeldIn(f)
           /\ \A r \in Requests : pc'[r] \in DirectPhases => f[r] \in DirectPhases
<1> DEFINE bk == KeysWithout(S)
           a2 == ActiveWithout(S, a)
           by == ActiveByKeyWithout(S, byKey)
           g == FailPending(S, f)
<1>1. Accounted(f, bk, a2, by, disposed) /\ Bounded(a2, by)
  BY UnpinKeepsAccount
<1>2. benchmarkKeys' = bk /\ WakeWaiters(g, a2, by)
  BY DEF Drop, KeysWithout, ActiveWithout, ActiveByKeyWithout
<1>3. /\ g \in [Requests -> Phases] /\ EnteredIn(g) = EnteredIn(f) /\ HeldIn(g) = HeldIn(f)
      /\ \A r \in Requests : g[r] \in DirectPhases => f[r] \in DirectPhases
  BY FailPendingKeepsHolders
<1> HIDE DEF bk, a2, by, g
<1>4. Accounted(g, bk, a2, by, disposed)
  BY <1>1, <1>3 DEF Accounted
<1>5. /\ pc' \in [Requests -> Phases]
      /\ Accounted(pc', bk, active', activeByKey', disposed)
      /\ Bounded(active', activeByKey')
      /\ \A r \in Requests : pc'[r] = g[r] \/ (g[r] = "queued" /\ pc'[r] = "granted")
      /\ HeldIn(pc') = HeldIn(g)
  BY <1>1, <1>2, <1>3, <1>4, WakeKeepsAccount
<1> QED BY <1>2, <1>3, <1>5 DEF DirectPhases

\* A benchmark launch hands its permit from the call to the process.
LEMMA PinKeepsAccount ==
    ASSUME NEW f \in [Requests -> Phases], NEW a, NEW byKey, NEW d,
           NEW r \in EnteredIn(f), NEW p \in Procs, NEW ph \in Phases \ EnteredPhases,
           benchmarkKeys \in [Procs -> Keys \cup {NoKey}], benchmarkKeys[p] = NoKey,
           Accounted(f, benchmarkKeys, a, byKey, d)
    PROVE  Accounted([f EXCEPT ![r] = ph], [benchmarkKeys EXCEPT ![p] = KeyOf[r]], a, byKey, d)
<1> DEFINE bk == [benchmarkKeys EXCEPT ![p] = KeyOf[r]]
           g == [f EXCEPT ![r] = ph]
<1>1. /\ r \in Requests /\ KeyOf[r] \in Keys /\ KeyOf[r] # NoKey
      /\ EnteredIn(g) = EnteredIn(f) \ {r} /\ r \in EnteredIn(f)
      /\ PinnedIn(bk) = PinnedIn(benchmarkKeys) \cup {p} /\ p \notin PinnedIn(benchmarkKeys)
  BY RequestAttributes, SentinelAssumption DEF EnteredIn, PinnedIn
<1>2. Cardinality(EnteredIn(g)) + Cardinality(PinnedIn(bk))
        = Cardinality(EnteredIn(f)) + Cardinality(PinnedIn(benchmarkKeys))
  <2> DEFINE E == EnteredIn(f)
             P == PinnedIn(benchmarkKeys)
  <2>1. /\ IsFiniteSet(E) /\ Cardinality(E) \in Nat /\ IsFiniteSet(P) /\ Cardinality(P) \in Nat
    BY EnteredFinite, PinnedFinite
  <2>2. r \in E /\ p \notin P /\ EnteredIn(g) = E \ {r} /\ PinnedIn(bk) = P \cup {p}
    BY <1>1
  <2> HIDE DEF E, P, g, bk
  <2>3. Cardinality(E \ {r}) = Cardinality(E) - 1
    BY <2>1, <2>2, FS_RemoveElement
  <2>4. Cardinality(P \cup {p}) = Cardinality(P) + 1
    BY <2>1, <2>2, FS_AddElement
  <2>5. Cardinality(E \ {r}) + Cardinality(P \cup {p}) = Cardinality(E) + Cardinality(P)
    BY <2>1, <2>3, <2>4
  <2> QED BY <2>2, <2>5 DEF E, P
<1>3. \A k \in Keys : Cardinality(EnteredIn(g) \cap OfKey(k)) + Cardinality({q \in Procs : bk[q] = k})
        = Cardinality(EnteredIn(f) \cap OfKey(k)) + Cardinality({q \in Procs : benchmarkKeys[q] = k})
  <2> TAKE k \in Keys
  <2> DEFINE E == EnteredIn(f) \cap OfKey(k)
             P == {q \in Procs : benchmarkKeys[q] = k}
  <2>1. /\ IsFiniteSet(E) /\ Cardinality(E) \in Nat /\ IsFiniteSet(P) /\ Cardinality(P) \in Nat
    BY EnteredFinite, PinnedFinite
  <2>2. CASE k = KeyOf[r]
    <3>1. /\ EnteredIn(g) \cap OfKey(k) = E \ {r} /\ r \in E
          /\ {q \in Procs : bk[q] = k} = P \cup {p} /\ p \notin P
      BY <1>1, <2>2, SentinelAssumption DEF OfKey
    <3> HIDE DEF E, P
    <3>2. Cardinality(E \ {r}) = Cardinality(E) - 1
      BY <3>1, <2>1, FS_RemoveElement
    <3>3. Cardinality(P \cup {p}) = Cardinality(P) + 1
      BY <3>1, <2>1, FS_AddElement
    <3>4. Cardinality(E \ {r}) + Cardinality(P \cup {p}) = Cardinality(E) + Cardinality(P)
      BY <2>1, <3>2, <3>3
    <3> QED BY <3>1, <3>4 DEF E, P
  <2>3. CASE k # KeyOf[r]
    <3>1. EnteredIn(g) \cap OfKey(k) = E /\ {q \in Procs : bk[q] = k} = P
      BY <1>1, <2>3, SentinelAssumption DEF OfKey
    <3> QED BY <3>1
  <2> QED BY <2>2, <2>3
<1> HIDE DEF bk, g
<1>4. Accounted(g, bk, a, byKey, d)
  BY <1>2, <1>3 DEF Accounted
<1> QED BY <1>4 DEF bk, g

-----------------------------------------------------------------------------
(* Ownership of processes                                                  *)

\* Who may touch a process: one call, or the idle pool of one engine, or one
\* background benchmark; and nobody refers to a process never started.
Owning ==
    /\ \A r \in HeldIn(pc) :
          /\ proc[r] \in Procs /\ state[proc[r]] # "unborn"
          /\ benchmarkKeys[proc[r]] = NoKey
          /\ \A k \in Keys : proc[r] \notin idleProcesses[k]
    /\ \A r, s \in HeldIn(pc) : r # s => proc[r] # proc[s]
    /\ \A k \in Keys : \A p \in idleProcesses[k] : state[p] = "up" /\ benchmarkKeys[p] = NoKey
    /\ \A j, k \in Keys : j # k => idleProcesses[j] \cap idleProcesses[k] = {}
    /\ \A p \in Procs : benchmarkKeys[p] # NoKey => state[p] # "unborn"
    /\ \A r \in Requests : pc[r] \in DirectPhases =>
                             proc[r] \in Procs /\ state[proc[r]] # "unborn"
    /\ \A x \in Runs : benchmarkOwners[x] # NoProc => state[benchmarkOwners[x]] # "unborn"

IInv ==
    /\ TypeOK
    /\ Accounted(pc, benchmarkKeys, active, activeByKey, disposed)
    /\ Bounded(active, activeByKey)
    /\ Owning

CallsTyped ==
    /\ ahead \in [Requests -> SUBSET Requests]
    /\ proc \in [Requests -> Procs \cup {NoProc}]
    /\ reply \in [Requests -> {"none", "plain", "running", "finished", "accepted", "refused"}]
    /\ cancelled \subseteq Requests /\ outcomeUnknown \subseteq Requests
    /\ paused \subseteq Requests /\ fresh \subseteq Requests

PoolTyped ==
    /\ state \in [Procs -> {"unborn", "up", "defunct"}]
    /\ idleProcesses \in [Keys -> SUBSET Procs]
    /\ jobOwners \in [Requests -> Procs \cup {NoProc}]
    /\ benchmarkOwners \in [Runs -> Procs \cup {NoProc}]
    /\ benchmarkKeys \in [Procs -> Keys \cup {NoKey}]

\* A step that only lets go of processes, kills some or shelves calls keeps the
\* owners apart.
LEMMA LettingGo ==
    ASSUME Owning,
           HeldIn(pc') \subseteq HeldIn(pc),
           \A r \in HeldIn(pc') : proc'[r] = proc[r],
           \A p \in Procs : state[p] # "unborn" => state'[p] # "unborn",
           \A p \in Procs : benchmarkKeys'[p] = benchmarkKeys[p] \/ benchmarkKeys'[p] = NoKey,
           \A k \in Keys : \A p \in idleProcesses'[k] :
                p \in idleProcesses[k] /\ p \in Procs /\ state'[p] = state[p],
           \A r \in Requests : pc'[r] \in DirectPhases =>
                proc'[r] \in Procs /\ state'[proc'[r]] # "unborn",
           \A x \in Runs : benchmarkOwners'[x] = NoProc
                \/ (benchmarkOwners'[x] = benchmarkOwners[x] /\ benchmarkOwners[x] \in Procs)
    PROVE  Owning'
  BY DEF Owning

\* A step that ends in _wakeWaiters and moves no process keeps the invariant.
LEMMA WakingStep ==
    ASSUME IInv, NEW f \in [Requests -> Phases], NEW a, NEW byKey,
           HeldIn(f) \subseteq HeldIn(pc),
           \A r \in Requests : f[r] \in DirectPhases => pc[r] \in DirectPhases,
           Accounted(f, benchmarkKeys, a, byKey, disposed), Bounded(a, byKey),
           WakeWaiters(f, a, byKey),
           CallsTyped', proc' = proc, UNCHANGED <<poolVars, disposed>>
    PROVE  IInv'
<1>1. /\ pc' \in [Requests -> Phases]
      /\ Accounted(pc', benchmarkKeys, active', activeByKey', disposed)
      /\ Bounded(active', activeByKey')
      /\ \A r \in Requests : pc'[r] = f[r] \/ (f[r] = "queued" /\ pc'[r] = "granted")
      /\ HeldIn(pc') = HeldIn(f)
  BY WakeKeepsAccount
<1>2. TypeOK'
  <2>1. active' \in Nat /\ activeByKey' \in [Keys -> Nat]
    BY <1>1 DEF Accounted
  <2>2. PoolTyped' /\ disposed' \in BOOLEAN
    BY DEF IInv, TypeOK, PoolTyped, poolVars
  <2> QED BY <1>1, <2>1, <2>2 DEF TypeOK, CallsTyped, PoolTyped
<1>3. Owning'
  <2>1. \A r \in Requests : pc'[r] \in DirectPhases => pc[r] \in DirectPhases
    BY <1>1 DEF DirectPhases
  <2> QED BY <1>1, <2>1 DEF IInv, Owning, poolVars
<1>4. Accounted(pc, benchmarkKeys, active, activeByKey, disposed)'
  BY <1>1 DEF poolVars
<1>5. Bounded(active, activeByKey)'
  BY <1>1
<1> QED BY <1>2, <1>3, <1>4, <1>5 DEF IInv

\* A step that discards the processes of S keeps the invariant.
LEMMA DroppingStep ==
    ASSUME IInv, NEW f \in [Requests -> Phases], NEW a, NEW byKey, NEW S \in SUBSET Procs,
           HeldIn(f) \subseteq HeldIn(pc),
           \A r \in Requests : f[r] \in DirectPhases => pc[r] \in DirectPhases,
           Accounted(f, benchmarkKeys, a, byKey, disposed), Bounded(a, byKey),
           Drop(S, f, a, byKey),
           CallsTyped', proc' = proc, disposed' = disposed
    PROVE  IInv'
<1>1. /\ pc' \in [Requests -> Phases]
      /\ Accounted(pc', benchmarkKeys', active', activeByKey', disposed)
      /\ Bounded(active', activeByKey')
      /\ HeldIn(pc') = HeldIn(f)
      /\ \A r \in Requests : pc'[r] \in DirectPhases => f[r] \in DirectPhases
  BY DropKeepsAccount DEF IInv, TypeOK
<1>2. PoolTyped'
  BY DEF IInv, TypeOK, PoolTyped, Drop
<1>3. TypeOK'
  <2>1. active' \in Nat /\ activeByKey' \in [Keys -> Nat]
    BY <1>1 DEF Accounted
  <2>2. disposed' \in BOOLEAN
    BY DEF IInv, TypeOK
  <2> QED BY <1>1, <1>2, <2>1, <2>2 DEF TypeOK, CallsTyped, PoolTyped
<1>4. Owning'
  <2>1. PoolTyped /\ CallsTyped
    BY DEF IInv, TypeOK, PoolTyped, CallsTyped
  <2>2. \A p \in Procs :
          /\ state[p] # "unborn" => state'[p] # "unborn"
          /\ benchmarkKeys'[p] = benchmarkKeys[p] \/ benchmarkKeys'[p] = NoKey
    BY <2>1 DEF Drop
  <2>3. \A k \in Keys : \A p \in idleProcesses'[k] :
          p \in idleProcesses[k] /\ p \in Procs /\ state'[p] = state[p]
    BY <2>1 DEF Drop, PoolTyped
  <2>4. \A r \in Requests : pc'[r] \in DirectPhases =>
          proc'[r] \in Procs /\ state'[proc'[r]] # "unborn"
    BY <1>1, <2>2 DEF IInv, Owning
  <2>5. \A x \in Runs : benchmarkOwners'[x] = NoProc
          \/ (benchmarkOwners'[x] = benchmarkOwners[x] /\ benchmarkOwners[x] \in Procs)
    BY <2>1 DEF Drop, PoolTyped
  <2> QED BY <1>1, <2>2, <2>3, <2>4, <2>5, LettingGo DEF IInv
<1>5. Accounted(pc, benchmarkKeys, active, activeByKey, disposed)'
  BY <1>1
<1>6. Bounded(active, activeByKey)'
  BY <1>1
<1> QED BY <1>3, <1>4, <1>5, <1>6 DEF IInv

\* A step that neither takes nor gives permits nor changes who holds processes.
LEMMA QuietStep ==
    ASSUME IInv, pc' \in [Requests -> Phases],
           EnteredIn(pc') = EnteredIn(pc), HeldIn(pc') = HeldIn(pc),
           CallsTyped', \A r \in HeldIn(pc) : proc'[r] = proc[r],
           \A r \in Requests : pc'[r] \in DirectPhases =>
                proc'[r] \in Procs /\ state[proc'[r]] # "unborn",
           jobOwners' \in [Requests -> Procs \cup {NoProc}],
           UNCHANGED <<active, activeByKey, state, idleProcesses, benchmarkOwners,
                       benchmarkKeys, disposed>>
    PROVE  IInv'
<1>1. TypeOK'
  <2>1. PoolTyped' /\ disposed' \in BOOLEAN /\ active' \in Nat /\ activeByKey' \in [Keys -> Nat]
    BY DEF IInv, TypeOK, PoolTyped
  <2> QED BY <2>1 DEF TypeOK, CallsTyped, PoolTyped
<1>2. Owning'
  BY DEF IInv, Owning
<1>3. Accounted(pc, benchmarkKeys, active, activeByKey, disposed)'
  BY DEF IInv, Accounted
<1>4. Bounded(active, activeByKey)'
  BY DEF IInv, Bounded
<1> QED BY <1>1, <1>2, <1>3, <1>4 DEF IInv

-----------------------------------------------------------------------------
(* The invariant holds initially and is preserved by every action          *)

\* The host starts with no call, no permit and no process in use.
LEMMA InitIInv == Init => IInv
<1> SUFFICES ASSUME Init PROVE IInv
  OBVIOUS
<1>1. TypeOK
  BY DEF Init, TypeOK, Phases
<1>2. Owning
  BY DEF Init, Owning, HeldIn, HoldingPhases, DirectPhases
<1>3. EnteredIn(pc) = {} /\ PinnedIn(benchmarkKeys) = {}
      /\ \A k \in Keys : {p \in Procs : benchmarkKeys[p] = k} = {}
  BY SentinelAssumption DEF Init, EnteredIn, EnteredPhases, HoldingPhases, PinnedIn
<1>4. /\ Cardinality(EnteredIn(pc)) = 0 /\ Cardinality(PinnedIn(benchmarkKeys)) = 0
      /\ \A k \in Keys : /\ Cardinality(EnteredIn(pc) \cap OfKey(k)) = 0
                         /\ Cardinality({p \in Procs : benchmarkKeys[p] = k}) = 0
  <2>1. \A k \in Keys : EnteredIn(pc) \cap OfKey(k) = {}
    BY <1>3
  <2> QED BY <1>3, <2>1, FS_EmptySet
<1>5. Accounted(pc, benchmarkKeys, active, activeByKey, disposed)
  BY <1>4 DEF Init, Accounted
<1>6. Bounded(active, activeByKey)
  BY LimitAssumption DEF Init, Bounded
<1> QED BY <1>1, <1>2, <1>5, <1>6 DEF IInv

\* The steps that move neither a permit nor a process keep the invariant.
LEMMA QuietActions ==
    ASSUME IInv, NEW r \in Requests,
           \/ SubmitDirect(r) \/ SubmitControl(r) \/ Reject(r) \/ QueueTimeout(r)
           \/ Dispatch(r) \/ JobEvent(r) \/ Elapse(r) \/ Answer(r)
           \/ ControlSettle(r) \/ ControlFail(r) \/ CancelQueuedListings
    PROVE  IInv'
<1> USE DEF EnteredIn, HeldIn, EnteredPhases, HoldingPhases, DirectPhases, FinalPhases,
            Phases, poolVars, callVars, permitVars
<1>0. /\ pc \in [Requests -> Phases] /\ CallsTyped /\ PoolTyped
      /\ \A q \in Requests : pc[q] \in DirectPhases => proc[q] \in Procs /\ state[proc[q]] # "unborn"
  BY DEF IInv, TypeOK, CallsTyped, PoolTyped, Owning
<1>1. CASE SubmitDirect(r)
  <2> DEFINE owner == benchmarkOwners[ParamRun(r)]
  <2>1. owner \in Procs /\ state[owner] # "unborn"
    <3>1. ParamRun(r) \in Runs
      BY <1>1, RequestAttributes DEF SubmitDirect, ParamRun
    <3> QED BY <1>0, <1>1, <3>1 DEF SubmitDirect, PoolTyped, IInv, Owning
  <2>2. /\ proc' = [proc EXCEPT ![r] = owner]
        /\ \/ pc' = [pc EXCEPT ![r] = "polling"]
           \/ pc' = [pc EXCEPT ![r] = "pollFailing"]
        /\ pc[r] = "new"
        /\ UNCHANGED <<ahead, reply, cancelled, outcomeUnknown, paused, fresh,
                       active, activeByKey, poolVars, disposed>>
    BY <1>1 DEF SubmitDirect
  <2> HIDE DEF owner
  <2>3. CallsTyped'
    BY <1>0, <2>1, <2>2 DEF CallsTyped
  <2>4. \A q \in HeldIn(pc) : proc'[q] = proc[q]
    BY <1>0, <2>2
  <2>5. \A q \in Requests : pc'[q] \in DirectPhases => proc'[q] \in Procs /\ state[proc'[q]] # "unborn"
    BY <1>0, <2>1, <2>2 DEF CallsTyped
  <2> QED BY <1>0, <2>2, <2>3, <2>4, <2>5, QuietStep DEF PoolTyped
<1>2. CASE SubmitControl(r)
  <2> DEFINE owner == jobOwners[JobOf[r]]
  <2>1. \/ /\ owner \in Up
           /\ proc' = [proc EXCEPT ![r] = owner] /\ pc' = [pc EXCEPT ![r] = "controlling"]
        \/ proc' = proc /\ pc' = [pc EXCEPT ![r] = "failed"]
    BY <1>2 DEF SubmitControl
  <2>2. /\ pc[r] = "new"
        /\ UNCHANGED <<ahead, reply, cancelled, outcomeUnknown, paused, fresh,
                       active, activeByKey, poolVars, disposed>>
    BY <1>2 DEF SubmitControl
  <2>3. owner \in Up => owner \in Procs /\ state[owner] # "unborn"
    BY DEF Up
  <2> HIDE DEF owner
  <2>4. CallsTyped'
    BY <1>0, <2>1, <2>2, <2>3 DEF CallsTyped
  <2>5. \A q \in HeldIn(pc) : proc'[q] = proc[q]
    <3>1. \A q \in HeldIn(pc) : q # r /\ q \in Requests
      BY <2>2
    <3> QED BY <1>0, <2>1, <3>1 DEF CallsTyped
  <2>6. \A q \in Requests : pc'[q] \in DirectPhases => proc'[q] \in Procs /\ state[proc'[q]] # "unborn"
    BY <1>0, <2>1, <2>2, <2>3 DEF CallsTyped
  <2> QED BY <1>0, <2>1, <2>2, <2>4, <2>5, <2>6, QuietStep DEF PoolTyped
<1>3. CASE Reject(r)
  BY <1>0, <1>3, QuietStep DEF Reject, CallsTyped, PoolTyped
<1>4. CASE QueueTimeout(r)
  BY <1>0, <1>4, QuietStep DEF QueueTimeout, CallsTyped, PoolTyped
<1>5. CASE Dispatch(r)
  BY <1>0, <1>5, QuietStep DEF Dispatch, CallsTyped, PoolTyped
<1>6. CASE JobEvent(r)
  BY <1>0, <1>6, QuietStep DEF JobEvent, CallsTyped, PoolTyped
<1>7. CASE Elapse(r)
  BY <1>0, <1>7, QuietStep DEF Elapse, CallsTyped, PoolTyped
<1>8. CASE Answer(r)
  <2>1. CallsTyped'
    BY <1>0, <1>8 DEF Answer, Answers, CallsTyped
  <2> QED BY <1>0, <1>8, <2>1, QuietStep DEF Answer, PoolTyped
<1>9. CASE ControlSettle(r)
  <2>1. CallsTyped'
    BY <1>0, <1>9 DEF ControlSettle, CallsTyped
  <2> QED BY <1>0, <1>9, <2>1, QuietStep DEF ControlSettle, PoolTyped
<1>10. CASE ControlFail(r)
  BY <1>0, <1>10, QuietStep DEF ControlFail, CallsTyped, PoolTyped
<1>11. CASE CancelQueuedListings
  BY <1>0, <1>11, QuietStep DEF CancelQueuedListings, CallsTyped, PoolTyped
<1> QED BY <1>1, <1>2, <1>3, <1>4, <1>5, <1>6, <1>7, <1>8, <1>9, <1>10, <1>11

\* The permit of r is given back and r ends in phase ph.
LEMMA Leaving ==
    ASSUME IInv, NEW r \in Requests, pc[r] \in EnteredPhases, NEW ph \in FinalPhases
    PROVE  /\ [pc EXCEPT ![r] = ph] \in [Requests -> Phases]
           /\ HeldIn([pc EXCEPT ![r] = ph]) \subseteq HeldIn(pc)
           /\ \A q \in Requests : [pc EXCEPT ![r] = ph][q] \in DirectPhases => pc[q] \in DirectPhases
           /\ Accounted([pc EXCEPT ![r] = ph], benchmarkKeys, active - 1, ByKeyWithout(r), disposed)
           /\ Bounded(active - 1, ByKeyWithout(r))
<1>1. /\ pc \in [Requests -> Phases] /\ ph \in Phases \ EnteredPhases /\ r \in EnteredIn(pc)
      /\ ph \notin DirectPhases /\ ph \notin HoldingPhases
  BY DEF IInv, TypeOK, Phases, FinalPhases, EnteredPhases, HoldingPhases, DirectPhases, EnteredIn
<1>2. /\ Accounted([pc EXCEPT ![r] = ph], benchmarkKeys, active - 1, ByKeyWithout(r), disposed)
      /\ Bounded(active - 1, ByKeyWithout(r))
  BY <1>1, LeaveKeepsAccount DEF IInv, ByKeyWithout
<1> QED BY <1>1, <1>2 DEF HeldIn

\* Entering the queue, leaving send() without a process and giving up a wait.
LEMMA WakingActions ==
    ASSUME IInv, NEW r \in Requests,
           \/ SubmitOrdinary(r) \/ GrantedTooLate(r) \/ StartFails(r)
           \/ PollUnfinished(r) \/ Cancel(r)
    PROVE  IInv'
<1>0. /\ pc \in [Requests -> Phases] /\ CallsTyped
      /\ Accounted(pc, benchmarkKeys, active, activeByKey, disposed) /\ Bounded(active, activeByKey)
  BY DEF IInv, TypeOK, CallsTyped
<1>a. ASSUME LeaveEmptyHanded(r), pc[r] \in {"granted", "starting"},
             UNCHANGED <<callVars, poolVars, disposed>>
      PROVE  IInv'
  <2> DEFINE ph == IF r \in cancelled THEN "cancelled" ELSE "failed"
  <2>1. ph \in FinalPhases /\ pc[r] \in EnteredPhases
    BY <1>a DEF FinalPhases, EnteredPhases
  <2>2. WakeWaiters([pc EXCEPT ![r] = ph], active - 1, ByKeyWithout(r))
    BY <1>a DEF LeaveEmptyHanded
  <2>3. CallsTyped' /\ proc' = proc
    BY <1>0, <1>a DEF CallsTyped, callVars
  <2> HIDE DEF ph
  <2> QED BY <1>a, <2>1, <2>2, <2>3, Leaving, WakingStep
<1>b. ASSUME NEW f \in [Requests -> Phases],
             EnteredIn(f) = EnteredIn(pc), HeldIn(f) = HeldIn(pc),
             \A q \in Requests : f[q] \in DirectPhases => pc[q] \in DirectPhases,
             WakeWaiters(f, active, activeByKey), CallsTyped', proc' = proc,
             UNCHANGED <<poolVars, disposed>>
      PROVE  IInv'
  <2>1. Accounted(f, benchmarkKeys, active, activeByKey, disposed)
    BY <1>0, <1>b DEF Accounted
  <2> QED BY <1>0, <1>b, <2>1, WakingStep
<1>1. CASE SubmitOrdinary(r)
  <2> DEFINE f == [pc EXCEPT ![r] = "queued"]
  <2>1. /\ f \in [Requests -> Phases] /\ EnteredIn(f) = EnteredIn(pc) /\ HeldIn(f) = HeldIn(pc)
        /\ \A q \in Requests : f[q] \in DirectPhases => pc[q] \in DirectPhases
    BY <1>0, <1>1 DEF SubmitOrdinary, Phases, EnteredIn, HeldIn, EnteredPhases, HoldingPhases, DirectPhases
  <2>2. CallsTyped' /\ proc' = proc
    BY <1>0, <1>1 DEF SubmitOrdinary, CallsTyped, QueuedIn
  <2>3. WakeWaiters(f, active, activeByKey) /\ UNCHANGED <<poolVars, disposed>>
    BY <1>1 DEF SubmitOrdinary
  <2> HIDE DEF f
  <2> QED BY <1>b, <2>1, <2>2, <2>3
<1>2. CASE GrantedTooLate(r)
  BY <1>2, <1>a DEF GrantedTooLate
<1>3. CASE StartFails(r)
  BY <1>3, <1>a DEF StartFails
<1>4. CASE PollUnfinished(r)
  <2> DEFINE f == [pc EXCEPT ![r] = "done"]
  <2>1. /\ f \in [Requests -> Phases] /\ EnteredIn(f) = EnteredIn(pc) /\ HeldIn(f) = HeldIn(pc)
        /\ \A q \in Requests : f[q] \in DirectPhases => pc[q] \in DirectPhases
    BY <1>0, <1>4 DEF PollUnfinished, Phases, FinalPhases, EnteredIn, HeldIn, EnteredPhases,
                      HoldingPhases, DirectPhases
  <2>2. CallsTyped' /\ proc' = proc
    BY <1>0, <1>4 DEF PollUnfinished, CallsTyped, callVars
  <2>3. WakeWaiters(f, active, activeByKey) /\ UNCHANGED <<poolVars, disposed>>
    BY <1>4 DEF PollUnfinished
  <2> HIDE DEF f
  <2> QED BY <1>b, <2>1, <2>2, <2>3
<1>5. CASE Cancel(r)
  <2> DEFINE f == [pc EXCEPT ![r] = IF @ = "queued" THEN "cancelled" ELSE @]
  <2>1. /\ f \in [Requests -> Phases] /\ EnteredIn(f) = EnteredIn(pc) /\ HeldIn(f) = HeldIn(pc)
        /\ \A q \in Requests : f[q] \in DirectPhases => pc[q] \in DirectPhases
    BY <1>0, <1>5 DEF Cancel, Phases, FinalPhases, EnteredIn, HeldIn, EnteredPhases,
                      HoldingPhases, DirectPhases
  <2>2. CallsTyped' /\ proc' = proc
    BY <1>0, <1>5, RequestAttributes DEF Cancel, CallsTyped
  <2>3. WakeWaiters(f, active, activeByKey) /\ UNCHANGED <<poolVars, disposed>>
    BY <1>5 DEF Cancel
  <2> HIDE DEF f
  <2> QED BY <1>b, <2>1, <2>2, <2>3
<1> QED BY <1>1, <1>2, <1>3, <1>4, <1>5

\* Discarding processes while every call keeps its permit keeps the invariant.
LEMMA DroppingOnly ==
    ASSUME IInv, NEW f \in [Requests -> Phases], NEW S \in SUBSET Procs,
           EnteredIn(f) = EnteredIn(pc), HeldIn(f) = HeldIn(pc),
           \A q \in Requests : f[q] \in DirectPhases => pc[q] \in DirectPhases,
           Drop(S, f, active, activeByKey), CallsTyped', proc' = proc, disposed' = disposed
    PROVE  IInv'
<1>1. Accounted(f, benchmarkKeys, active, activeByKey, disposed)
  BY DEF IInv, Accounted
<1>2. Bounded(active, activeByKey)
  BY DEF IInv
<1> QED BY <1>1, <1>2, DroppingStep

\* A killed process takes its pending calls with it.
LEMMA KillStep ==
    ASSUME IInv, NEW S, Kill(S, pc), UNCHANGED <<callVars, disposed>>
    PROVE  IInv'
<1>1. S \cap Up \in SUBSET Procs /\ Drop(S \cap Up, pc, active, activeByKey)
  BY DEF Kill, Up
<1>2. CallsTyped' /\ proc' = proc /\ disposed' = disposed /\ pc \in [Requests -> Phases]
  BY DEF IInv, TypeOK, CallsTyped, callVars
<1> QED BY <1>1, <1>2, DroppingOnly

\* cancelListings kills what the listings hold and drops the queued ones.
LEMMA CancelListingsStep ==
    ASSUME IInv, CancelListings
    PROVE  IInv'
<1> DEFINE f == [q \in Requests |-> IF q \in Listings /\ pc[q] = "queued"
                                   THEN "cancelled" ELSE pc[q]]
           S == {proc[q] : q \in Listings} \cap Up
<1>0. pc \in [Requests -> Phases] /\ CallsTyped
  BY DEF IInv, TypeOK, CallsTyped
<1>1. Drop(S, f, active, activeByKey) /\ proc' = proc /\ disposed' = disposed
  BY DEF CancelListings, Kill
<1>2. S \in SUBSET Procs
  BY DEF Up
<1>3. /\ f \in [Requests -> Phases] /\ EnteredIn(f) = EnteredIn(pc) /\ HeldIn(f) = HeldIn(pc)
      /\ \A q \in Requests : f[q] \in DirectPhases => pc[q] \in DirectPhases
  BY <1>0 DEF Phases, FinalPhases, EnteredIn, HeldIn, EnteredPhases, HoldingPhases, DirectPhases
<1>4. CallsTyped'
  BY <1>0 DEF CancelListings, CallsTyped, Listings
<1> HIDE DEF f, S
<1> QED BY <1>1, <1>2, <1>3, <1>4, DroppingOnly

\* The actions that discard or kill a process on behalf of one call.
LEMMA DroppingActions ==
    ASSUME IInv, NEW r \in Requests,
           \/ BeginStart(r) \/ Watchdog(r) \/ Fail(r) \/ PollFail(r)
    PROVE  IInv'
<1>0. /\ pc \in [Requests -> Phases] /\ CallsTyped /\ PoolTyped /\ Owning
      /\ Accounted(pc, benchmarkKeys, active, activeByKey, disposed) /\ Bounded(active, activeByKey)
  BY DEF IInv, TypeOK, CallsTyped, PoolTyped
<1>1. CASE BeginStart(r)
  <2> DEFINE f == [pc EXCEPT ![r] = "starting"]
  <2>1. PICK E \in SUBSET Idle : Drop(E, f, active, activeByKey)
    BY <1>1 DEF BeginStart
  <2>2. E \in SUBSET Procs
    BY <1>0 DEF PoolTyped, Idle
  <2>3. /\ f \in [Requests -> Phases] /\ EnteredIn(f) = EnteredIn(pc) /\ HeldIn(f) = HeldIn(pc)
        /\ \A q \in Requests : f[q] \in DirectPhases => pc[q] \in DirectPhases
    BY <1>0, <1>1 DEF BeginStart, Phases, EnteredIn, HeldIn, EnteredPhases, HoldingPhases, DirectPhases
  <2>4. CallsTyped' /\ proc' = proc /\ disposed' = disposed
    BY <1>0, <1>1 DEF BeginStart, CallsTyped, callVars
  <2> HIDE DEF f
  <2> QED BY <2>1, <2>2, <2>3, <2>4, DroppingOnly
<1>2. CASE Watchdog(r)
  BY <1>2, KillStep DEF Watchdog
<1>3. CASE Fail(r)
  <2> DEFINE ph == IF r \in cancelled THEN "cancelled" ELSE "failed"
  <2>1. /\ Drop({proc[r]}, [pc EXCEPT ![r] = ph], active - 1, ByKeyWithout(r))
        /\ pc[r] \in HoldingPhases
        /\ ph \in FinalPhases /\ disposed' = disposed /\ proc' = proc
    BY <1>3 DEF Fail, FinalPhases, HoldingPhases
  <2>2. pc[r] \in EnteredPhases /\ {proc[r]} \in SUBSET Procs
    BY <1>0, <2>1 DEF Owning, HeldIn, EnteredPhases
  <2>3. CallsTyped'
    BY <1>0, <1>3 DEF Fail, CallsTyped
  <2> HIDE DEF ph
  <2> QED BY <2>1, <2>2, <2>3, Leaving, DroppingStep
<1>4. CASE PollFail(r)
  <2> DEFINE f == [pc EXCEPT ![r] = "failed"]
  <2>1. Drop({proc[r]}, f, active, activeByKey) /\ proc' = proc /\ disposed' = disposed
    BY <1>4 DEF PollFail, callVars
  <2>2. {proc[r]} \in SUBSET Procs
    BY <1>0, <1>4 DEF PollFail, Owning, DirectPhases
  <2>3. /\ f \in [Requests -> Phases] /\ EnteredIn(f) = EnteredIn(pc) /\ HeldIn(f) = HeldIn(pc)
        /\ \A q \in Requests : f[q] \in DirectPhases => pc[q] \in DirectPhases
    BY <1>0, <1>4 DEF PollFail, Phases, FinalPhases, EnteredIn, HeldIn, EnteredPhases,
                      HoldingPhases, DirectPhases
  <2>4. CallsTyped'
    BY <1>0, <1>4 DEF PollFail, CallsTyped, callVars
  <2> HIDE DEF f
  <2> QED BY <2>1, <2>2, <2>3, <2>4, DroppingOnly
<1> QED BY <1>1, <1>2, <1>3, <1>4

\* A call takes a process out of the idle pool.
LEMMA ReuseIdleStep ==
    ASSUME IInv, NEW r \in Requests, ReuseIdle(r)
    PROVE  IInv'
<1>1. PICK p \in idleProcesses[KeyOf[r]] :
        /\ idleProcesses' = [idleProcesses EXCEPT ![KeyOf[r]] = @ \ {p}]
        /\ proc' = [proc EXCEPT ![r] = p]
  BY DEF ReuseIdle
<1>2. /\ pc[r] = "granted" /\ pc' = [pc EXCEPT ![r] = "acquired"]
      /\ UNCHANGED <<ahead, reply, cancelled, outcomeUnknown, paused, fresh, active, activeByKey,
                     state, jobOwners, benchmarkOwners, benchmarkKeys, disposed>>
  BY DEF ReuseIdle
<1>3. /\ pc \in [Requests -> Phases] /\ CallsTyped /\ PoolTyped /\ Owning
      /\ disposed \in BOOLEAN /\ active \in Nat /\ activeByKey \in [Keys -> Nat]
  BY DEF IInv, TypeOK, CallsTyped, PoolTyped
<1>4. p \in Procs /\ state[p] = "up" /\ benchmarkKeys[p] = NoKey /\ KeyOf[r] \in Keys
  BY <1>3, RequestAttributes DEF PoolTyped, Owning
<1>5. TypeOK'
  BY <1>1, <1>2, <1>3, <1>4 DEF TypeOK, CallsTyped, PoolTyped, Phases, EnteredPhases, HoldingPhases
<1>6. EnteredIn(pc') = EnteredIn(pc) /\ HeldIn(pc') = HeldIn(pc) \cup {r} /\ r \notin HeldIn(pc)
  BY <1>2, <1>3 DEF EnteredIn, HeldIn, EnteredPhases, HoldingPhases
<1>7. Owning'
  <2>1. \A q \in HeldIn(pc') : /\ proc'[q] \in Procs /\ state[proc'[q]] # "unborn"
                              /\ benchmarkKeys[proc'[q]] = NoKey
                              /\ \A k \in Keys : proc'[q] \notin idleProcesses'[k]
    <3>1. \A k \in Keys : p \notin idleProcesses'[k]
      BY <1>1, <1>3, <1>4 DEF Owning, PoolTyped
    <3>2. \A k \in Keys : idleProcesses'[k] \subseteq idleProcesses[k]
      BY <1>1, <1>3, <1>4 DEF PoolTyped
    <3> QED BY <1>1, <1>3, <1>4, <1>6, <3>1, <3>2 DEF Owning, CallsTyped, HeldIn
  <2>2. \A q, s \in HeldIn(pc') : q # s => proc'[q] # proc'[s]
    <3>1. \A q \in HeldIn(pc) : proc[q] # p
      BY <1>1, <1>3, <1>4 DEF Owning
    <3> QED BY <1>1, <1>3, <1>6, <3>1 DEF Owning, CallsTyped, HeldIn
  <2>3. \A k \in Keys : \A q \in idleProcesses'[k] : state[q] = "up" /\ benchmarkKeys[q] = NoKey
    BY <1>1, <1>3, <1>4 DEF Owning, PoolTyped
  <2>4. \A j, k \in Keys : j # k => idleProcesses'[j] \cap idleProcesses'[k] = {}
    BY <1>1, <1>3, <1>4 DEF Owning, PoolTyped
  <2>5. \A q \in Requests : pc'[q] \in DirectPhases => proc'[q] \in Procs /\ state[proc'[q]] # "unborn"
    BY <1>1, <1>2, <1>3, <1>4 DEF Owning, CallsTyped, DirectPhases
  <2> QED BY <1>2, <1>3, <2>1, <2>2, <2>3, <2>4, <2>5 DEF Owning
<1>8. Accounted(pc, benchmarkKeys, active, activeByKey, disposed)' /\ Bounded(active, activeByKey)'
  BY <1>2, <1>6 DEF IInv, Accounted, Bounded
<1> QED BY <1>5, <1>7, <1>8 DEF IInv

\* A new process starts, or is killed at once by a host disposed meanwhile.
LEMMA StartedStep ==
    ASSUME IInv, NEW r \in Requests, Started(r)
    PROVE  IInv'
<1>0. /\ pc \in [Requests -> Phases] /\ CallsTyped /\ PoolTyped /\ Owning
      /\ disposed \in BOOLEAN /\ active \in Nat /\ activeByKey \in [Keys -> Nat]
      /\ Accounted(pc, benchmarkKeys, active, activeByKey, disposed) /\ Bounded(active, activeByKey)
  BY DEF IInv, TypeOK, CallsTyped, PoolTyped
<1>1. /\ pc[r] = "starting"
      /\ UNCHANGED <<ahead, reply, cancelled, outcomeUnknown, paused, fresh, idleProcesses,
                     jobOwners, benchmarkOwners, benchmarkKeys, disposed>>
  BY DEF Started
<1>2. PICK p \in Procs :
        /\ state[p] = "unborn"
        /\ IF disposed
           THEN /\ state' = [state EXCEPT ![p] = "defunct"]
                /\ LeaveEmptyHanded(r) /\ UNCHANGED proc
           ELSE /\ state' = [state EXCEPT ![p] = "up"]
                /\ proc' = [proc EXCEPT ![r] = p]
                /\ pc' = [pc EXCEPT ![r] = "acquired"]
                /\ UNCHANGED <<active, activeByKey>>
  BY DEF Started
<1>3. \A q \in Procs : state[q] # "unborn" => state'[q] = state[q] /\ q # p
  BY <1>0, <1>2 DEF PoolTyped
<1>4. CASE disposed
  <2> DEFINE ph == IF r \in cancelled THEN "cancelled" ELSE "failed"
             f == [pc EXCEPT ![r] = ph]
  <2>1. WakeWaiters(f, active - 1, ByKeyWithout(r)) /\ proc' = proc
    BY <1>2, <1>4 DEF LeaveEmptyHanded
  <2>2. /\ f \in [Requests -> Phases] /\ HeldIn(f) \subseteq HeldIn(pc)
        /\ \A q \in Requests : f[q] \in DirectPhases => pc[q] \in DirectPhases
        /\ Accounted(f, benchmarkKeys, active - 1, ByKeyWithout(r), disposed)
        /\ Bounded(active - 1, ByKeyWithout(r))
    <3>1. ph \in FinalPhases /\ pc[r] \in EnteredPhases
      BY <1>1 DEF FinalPhases, EnteredPhases
    <3> HIDE DEF ph
    <3> QED BY <3>1, Leaving
  <2> HIDE DEF f, ph
  <2>3. /\ pc' \in [Requests -> Phases]
        /\ Accounted(pc', benchmarkKeys, active', activeByKey', disposed)
        /\ Bounded(active', activeByKey')
        /\ \A q \in Requests : pc'[q] = f[q] \/ (f[q] = "queued" /\ pc'[q] = "granted")
        /\ HeldIn(pc') = HeldIn(f)
    BY <2>1, <2>2, WakeKeepsAccount
  <2>4. TypeOK'
    <3>1. active' \in Nat /\ activeByKey' \in [Keys -> Nat]
      BY <2>3 DEF Accounted
    <3> QED BY <1>0, <1>1, <1>2, <1>4, <2>1, <2>3, <3>1 DEF TypeOK, CallsTyped, PoolTyped
  <2>5. Owning'
    <3>1. \A q \in Requests : pc'[q] \in DirectPhases => pc[q] \in DirectPhases
      BY <2>2, <2>3 DEF DirectPhases
    <3>2. \A k \in Keys : \A q \in idleProcesses'[k] :
            q \in idleProcesses[k] /\ q \in Procs /\ state'[q] = state[q]
      BY <1>0, <1>1, <1>3 DEF Owning, PoolTyped
    <3>3. \A x \in Runs : benchmarkOwners'[x] = NoProc
            \/ (benchmarkOwners'[x] = benchmarkOwners[x] /\ benchmarkOwners[x] \in Procs)
      BY <1>0, <1>1 DEF PoolTyped
    <3>4. \A q \in Requests : pc'[q] \in DirectPhases =>
            proc'[q] \in Procs /\ state'[proc'[q]] # "unborn"
      BY <1>0, <1>3, <2>1, <3>1 DEF Owning
    <3> QED BY <1>0, <1>1, <1>3, <2>1, <2>2, <2>3, <3>2, <3>3, <3>4, LettingGo
  <2> QED BY <1>1, <2>3, <2>4, <2>5 DEF IInv
<1>5. CASE ~disposed
  <2>1. /\ state' = [state EXCEPT ![p] = "up"] /\ proc' = [proc EXCEPT ![r] = p]
        /\ pc' = [pc EXCEPT ![r] = "acquired"] /\ UNCHANGED <<active, activeByKey>>
    BY <1>2, <1>5
  <2>2. TypeOK'
    BY <1>0, <1>1, <2>1 DEF TypeOK, CallsTyped, PoolTyped, Phases, EnteredPhases, HoldingPhases
  <2>3. EnteredIn(pc') = EnteredIn(pc) /\ HeldIn(pc') = HeldIn(pc) \cup {r} /\ r \notin HeldIn(pc)
    BY <1>0, <1>1, <2>1 DEF EnteredIn, HeldIn, EnteredPhases, HoldingPhases
  <2>4. Owning'
    <3>1. /\ benchmarkKeys[p] = NoKey /\ \A k \in Keys : p \notin idleProcesses[k]
          /\ \A q \in HeldIn(pc) : proc[q] # p
      BY <1>0, <1>2 DEF Owning
    <3>2. /\ proc'[r] = p /\ \A q \in HeldIn(pc) : proc'[q] = proc[q]
          /\ state'[p] = "up"
      BY <1>0, <2>1, <2>3 DEF CallsTyped, PoolTyped, HeldIn
    <3>3. \A q \in HeldIn(pc') : /\ proc'[q] \in Procs /\ state'[proc'[q]] # "unborn"
                                /\ benchmarkKeys'[proc'[q]] = NoKey
                                /\ \A k \in Keys : proc'[q] \notin idleProcesses'[k]
      BY <1>0, <1>1, <1>3, <2>3, <3>1, <3>2 DEF Owning
    <3>4. \A q, s \in HeldIn(pc') : q # s => proc'[q] # proc'[s]
      BY <1>0, <2>3, <3>1, <3>2 DEF Owning
    <3>5. \A k \in Keys : \A q \in idleProcesses'[k] : state'[q] = "up" /\ benchmarkKeys'[q] = NoKey
      BY <1>0, <1>1, <1>3 DEF Owning, PoolTyped
    <3>6. \A q \in Requests : pc'[q] \in DirectPhases => proc'[q] \in Procs /\ state'[proc'[q]] # "unborn"
      <4>1. \A q \in Requests : pc'[q] \in DirectPhases => q # r /\ pc[q] \in DirectPhases
        BY <1>0, <2>1 DEF DirectPhases
      <4>2. \A q \in Requests : q # r => proc'[q] = proc[q]
        BY <1>0, <2>1 DEF CallsTyped
      <4> QED BY <1>0, <1>3, <4>1, <4>2 DEF Owning
    <3>7. /\ \A q \in Procs : benchmarkKeys'[q] # NoKey => state'[q] # "unborn"
          /\ \A x \in Runs : benchmarkOwners'[x] # NoProc => state'[benchmarkOwners'[x]] # "unborn"
          /\ \A j, k \in Keys : j # k => idleProcesses'[j] \cap idleProcesses'[k] = {}
      BY <1>0, <1>1, <1>3 DEF Owning, PoolTyped
    <3> QED BY <3>3, <3>4, <3>5, <3>6, <3>7 DEF Owning
  <2>5. Accounted(pc, benchmarkKeys, active, activeByKey, disposed)' /\ Bounded(active, activeByKey)'
    BY <1>0, <1>1, <2>1, <2>3 DEF Accounted, Bounded
  <2> QED BY <2>2, <2>4, <2>5 DEF IInv
<1> QED BY <1>4, <1>5

\* A process that nobody holds any more joins the idle pool of one engine.
LEMMA Pooling ==
    ASSUME Owning, PoolTyped, NEW p \in Procs, NEW k0 \in Keys,
           HeldIn(pc') \subseteq HeldIn(pc), proc' = proc, state' = state, state[p] = "up",
           \A q \in HeldIn(pc') : proc[q] # p,
           \A k \in Keys : p \notin idleProcesses[k],
           idleProcesses' = [idleProcesses EXCEPT ![k0] = @ \cup {p}],
           \A q \in Procs : benchmarkKeys'[q] = benchmarkKeys[q] \/ benchmarkKeys'[q] = NoKey,
           benchmarkKeys'[p] = NoKey,
           \A q \in Requests : pc'[q] \in DirectPhases => pc[q] \in DirectPhases,
           \A x \in Runs : benchmarkOwners'[x] = NoProc \/ benchmarkOwners'[x] = benchmarkOwners[x]
    PROVE  Owning'
<1>1. \A k \in Keys : /\ idleProcesses'[k] \subseteq idleProcesses[k] \cup {p}
                     /\ k # k0 => idleProcesses'[k] = idleProcesses[k]
                     /\ idleProcesses[k] \subseteq Procs
  BY DEF PoolTyped
<1>2. \A q \in HeldIn(pc') : \A k \in Keys : proc[q] \notin idleProcesses'[k]
  BY <1>1 DEF Owning
<1>3. ASSUME NEW k \in Keys, NEW q \in idleProcesses'[k]
      PROVE  state'[q] = "up" /\ benchmarkKeys'[q] = NoKey
  <2>1. CASE q = p
    BY <2>1
  <2>2. CASE q # p
    <3>1. q \in idleProcesses[k]
      BY <1>1, <2>2
    <3>2. q \in Procs
      <4>1. idleProcesses[k] \in SUBSET Procs
        BY DEF PoolTyped
      <4> QED BY <3>1, <4>1
    <3>3. state[q] = "up" /\ benchmarkKeys[q] = NoKey
      BY <3>1 DEF Owning
    <3> QED BY <3>2, <3>3
  <2> QED BY <2>1, <2>2
<1>4. \A j, k \in Keys : j # k => idleProcesses'[j] \cap idleProcesses'[k] = {}
  BY <1>1 DEF Owning
<1>5. \A q \in HeldIn(pc') : /\ proc'[q] \in Procs /\ state'[proc'[q]] # "unborn"
                            /\ benchmarkKeys'[proc'[q]] = NoKey
  BY DEF Owning
<1>6. \A q \in Requests : pc'[q] \in DirectPhases => proc'[q] \in Procs /\ state'[proc'[q]] # "unborn"
  BY DEF Owning
<1> QED BY <1>2, <1>3, <1>4, <1>5, <1>6 DEF Owning

\* A finished call returns its process to the pool, or discards it.
LEMMA SettleStep ==
    ASSUME IInv, NEW r \in Requests, Settle(r)
    PROVE  IInv'
<1> DEFINE p == proc[r]
           f == [pc EXCEPT ![r] = "done"]
<1>0. /\ pc \in [Requests -> Phases] /\ CallsTyped /\ PoolTyped /\ Owning
      /\ disposed \in BOOLEAN /\ active \in Nat /\ activeByKey \in [Keys -> Nat]
  BY DEF IInv, TypeOK, CallsTyped, PoolTyped
<1>1. /\ pc[r] = "answered" /\ r \in HeldIn(pc) /\ pc[r] \in EnteredPhases /\ p \in Procs
      /\ UNCHANGED <<callVars, disposed>> /\ KeyOf[r] \in Keys
  BY <1>0, RequestAttributes DEF Settle, HeldIn, HoldingPhases, EnteredPhases, Owning
<1>2. /\ f \in [Requests -> Phases] /\ HeldIn(f) \subseteq HeldIn(pc)
      /\ \A q \in Requests : f[q] \in DirectPhases => pc[q] \in DirectPhases
      /\ Accounted(f, benchmarkKeys, active - 1, ByKeyWithout(r), disposed)
      /\ Bounded(active - 1, ByKeyWithout(r))
  BY <1>1, Leaving DEF FinalPhases
<1>3. CallsTyped' /\ proc' = proc /\ disposed' = disposed
  BY <1>0, <1>1 DEF CallsTyped, callVars
<1>4. CASE CanIdle(KeyOf[r], p)
  <2>1. /\ idleProcesses' = [idleProcesses EXCEPT ![KeyOf[r]] = @ \cup {p}]
        /\ jobOwners' = [j \in Requests |-> IF jobOwners[j] = p THEN NoProc ELSE jobOwners[j]]
        /\ WakeWaiters(f, active - 1, ByKeyWithout(r))
        /\ UNCHANGED <<state, benchmarkOwners, benchmarkKeys>>
    BY <1>4 DEF Settle
  <2>2. state[p] = "up"
    BY <1>4 DEF CanIdle
  <2>3. r \notin HeldIn(f)
    BY <1>0 DEF HeldIn, HoldingPhases
  <2> HIDE DEF f
  <2>4. /\ pc' \in [Requests -> Phases]
        /\ Accounted(pc', benchmarkKeys, active', activeByKey', disposed)
        /\ Bounded(active', activeByKey')
        /\ \A q \in Requests : pc'[q] = f[q] \/ (f[q] = "queued" /\ pc'[q] = "granted")
        /\ HeldIn(pc') = HeldIn(f)
    BY <1>2, <2>1, WakeKeepsAccount
  <2>5. TypeOK'
    <3>1. active' \in Nat /\ activeByKey' \in [Keys -> Nat]
      BY <2>4 DEF Accounted
    <3>2. PoolTyped'
      BY <1>0, <1>1, <2>1 DEF PoolTyped
    <3> QED BY <1>0, <1>3, <2>4, <3>1, <3>2 DEF TypeOK, CallsTyped, PoolTyped
  <2>6. Owning'
    <3>1. \A q \in HeldIn(pc') : proc[q] # p
      BY <1>0, <1>1, <1>2, <2>3, <2>4 DEF Owning
    <3>2. /\ benchmarkKeys[p] = NoKey /\ \A k \in Keys : p \notin idleProcesses[k]
      BY <1>0, <1>1 DEF Owning
    <3>3. \A q \in Requests : pc'[q] \in DirectPhases => pc[q] \in DirectPhases
      BY <1>2, <2>4 DEF DirectPhases
    <3> HIDE DEF p
    <3> QED BY <1>0, <1>1, <1>2, <1>3, <2>1, <2>2, <2>4, <3>1, <3>2, <3>3, Pooling
  <2> QED BY <1>3, <2>1, <2>4, <2>5, <2>6 DEF IInv
<1>5. CASE ~CanIdle(KeyOf[r], p)
  <2>1. Drop({p}, f, active - 1, ByKeyWithout(r))
    BY <1>5 DEF Settle
  <2> HIDE DEF f, p
  <2> QED BY <1>1, <1>2, <1>3, <2>1, DroppingStep
<1> QED BY <1>4, <1>5

\* A launched benchmark takes over the permit and the process of its call.
LEMMA PinBenchmarkStep ==
    ASSUME IInv, NEW r \in Requests, PinBenchmark(r)
    PROVE  IInv'
<1> DEFINE p == proc[r]
           f == [pc EXCEPT ![r] = "done"]
           bk == [benchmarkKeys EXCEPT ![p] = KeyOf[r]]
<1>0. /\ pc \in [Requests -> Phases] /\ CallsTyped /\ PoolTyped /\ Owning
      /\ disposed \in BOOLEAN /\ active \in Nat /\ activeByKey \in [Keys -> Nat]
      /\ Accounted(pc, benchmarkKeys, active, activeByKey, disposed) /\ Bounded(active, activeByKey)
  BY DEF IInv, TypeOK, CallsTyped, PoolTyped
<1>1. /\ pc[r] = "answered" /\ r \in HeldIn(pc) /\ r \in EnteredIn(pc)
      /\ p \in Procs /\ state[p] # "unborn" /\ benchmarkKeys[p] = NoKey
      /\ KeyOf[r] \in Keys /\ RunOf[r] \in Runs
  BY <1>0, RequestAttributes
     DEF PinBenchmark, IsLaunch, HeldIn, EnteredIn, HoldingPhases, EnteredPhases, Owning
<1>2. /\ jobOwners' = [j \in Requests |-> IF jobOwners[j] = p THEN NoProc ELSE jobOwners[j]]
      /\ benchmarkOwners' = [benchmarkOwners EXCEPT ![RunOf[r]] = p]
      /\ benchmarkKeys' = bk
      /\ UNCHANGED <<callVars, state, idleProcesses, disposed>>
      /\ WakeWaiters(f, active, activeByKey)
  BY DEF PinBenchmark
<1>3. Accounted(f, bk, active, activeByKey, disposed)
  <2>1. "done" \in Phases \ EnteredPhases
    BY DEF Phases, FinalPhases, EnteredPhases, HoldingPhases
  <2> QED BY <1>0, <1>1, <2>1, PinKeepsAccount DEF PoolTyped
<1>4. /\ f \in [Requests -> Phases] /\ HeldIn(f) = HeldIn(pc) \ {r}
      /\ \A q \in Requests : f[q] \in DirectPhases => pc[q] \in DirectPhases
  BY <1>0 DEF Phases, FinalPhases, HeldIn, HoldingPhases, DirectPhases
<1>5. CallsTyped' /\ proc' = proc /\ disposed' = disposed
  BY <1>0, <1>2 DEF CallsTyped, callVars
<1>6. PoolTyped'
  BY <1>0, <1>1, <1>2 DEF PoolTyped
<1>7. \A q \in Procs : bk[q] = IF q = p THEN KeyOf[r] ELSE benchmarkKeys[q]
  BY <1>0 DEF PoolTyped
<1>8. \A x \in Runs : benchmarkOwners'[x] = IF x = RunOf[r] THEN p ELSE benchmarkOwners[x]
  BY <1>0, <1>1, <1>2 DEF PoolTyped
<1> HIDE DEF f, bk
<1>9. /\ pc' \in [Requests -> Phases]
      /\ Accounted(pc', bk, active', activeByKey', disposed)
      /\ Bounded(active', activeByKey')
      /\ \A q \in Requests : pc'[q] = f[q] \/ (f[q] = "queued" /\ pc'[q] = "granted")
      /\ HeldIn(pc') = HeldIn(f)
  BY <1>0, <1>2, <1>3, <1>4, WakeKeepsAccount
<1>10. TypeOK'
  <2>1. active' \in Nat /\ activeByKey' \in [Keys -> Nat]
    BY <1>9 DEF Accounted
  <2> QED BY <1>0, <1>5, <1>6, <1>9, <2>1 DEF TypeOK, CallsTyped, PoolTyped
<1>11. Owning'
  <2>1. \A q \in HeldIn(pc') : q \in HeldIn(pc) /\ proc[q] # p
    BY <1>0, <1>1, <1>4, <1>9 DEF Owning
  <2>2. \A k \in Keys : p \notin idleProcesses[k] /\ idleProcesses[k] \subseteq Procs
    BY <1>0, <1>1 DEF Owning, PoolTyped
  <2>3. \A q \in Requests : pc'[q] \in DirectPhases => pc[q] \in DirectPhases
    BY <1>4, <1>9 DEF DirectPhases
  <2> HIDE DEF p
  <2>4. \A q \in HeldIn(pc') : /\ proc'[q] \in Procs /\ state'[proc'[q]] # "unborn"
                              /\ benchmarkKeys'[proc'[q]] = NoKey
                              /\ \A k \in Keys : proc'[q] \notin idleProcesses'[k]
    BY <1>0, <1>2, <1>5, <1>7, <2>1 DEF Owning
  <2>5. \A k \in Keys : \A q \in idleProcesses'[k] : state'[q] = "up" /\ benchmarkKeys'[q] = NoKey
    BY <1>0, <1>2, <1>7, <2>2 DEF Owning
  <2>6. \A q \in Procs : benchmarkKeys'[q] # NoKey => state'[q] # "unborn"
    BY <1>0, <1>1, <1>2, <1>7 DEF Owning
  <2>7. \A x \in Runs : benchmarkOwners'[x] # NoProc => state'[benchmarkOwners'[x]] # "unborn"
    BY <1>0, <1>1, <1>2, <1>8 DEF Owning
  <2> QED BY <1>0, <1>2, <1>5, <2>1, <2>3, <2>4, <2>5, <2>6, <2>7 DEF Owning
<1> QED BY <1>2, <1>5, <1>9, <1>10, <1>11 DEF IInv

\* A finished benchmark gives both back.
LEMMA PollFinishedStep ==
    ASSUME IInv, NEW r \in Requests, PollFinished(r)
    PROVE  IInv'
<1> DEFINE p == proc[r]
           f == [pc EXCEPT ![r] = "done"]
<1>0. /\ pc \in [Requests -> Phases] /\ CallsTyped /\ PoolTyped /\ Owning
      /\ disposed \in BOOLEAN /\ active \in Nat /\ activeByKey \in [Keys -> Nat]
      /\ Accounted(pc, benchmarkKeys, active, activeByKey, disposed) /\ Bounded(active, activeByKey)
  BY DEF IInv, TypeOK, CallsTyped, PoolTyped
<1>1. /\ pc[r] = "polled" /\ p \in Pinned /\ p \in Procs /\ KeyOf[r] \in Keys
      /\ UNCHANGED <<callVars, disposed>>
  BY RequestAttributes DEF PollFinished, Pinned
<1>2. /\ f \in [Requests -> Phases] /\ EnteredIn(f) = EnteredIn(pc) /\ HeldIn(f) = HeldIn(pc)
      /\ \A q \in Requests : f[q] \in DirectPhases => pc[q] \in DirectPhases
  BY <1>0, <1>1 DEF Phases, FinalPhases, EnteredIn, HeldIn, EnteredPhases, HoldingPhases, DirectPhases
<1>3. CallsTyped' /\ proc' = proc /\ disposed' = disposed
  BY <1>0, <1>1 DEF CallsTyped, callVars
<1>4. Accounted(f, benchmarkKeys, active, activeByKey, disposed)
  BY <1>0, <1>2 DEF Accounted
<1>5. CASE CanIdle(KeyOf[r], p)
  <2> DEFINE bk == KeysWithout({p})
             by == [activeByKey EXCEPT ![benchmarkKeys[p]] = @ - 1]
  <2>1. /\ benchmarkOwners' = [x \in Runs |-> IF benchmarkOwners[x] = p THEN NoProc ELSE benchmarkOwners[x]]
        /\ benchmarkKeys' = [benchmarkKeys EXCEPT ![p] = NoKey]
        /\ idleProcesses' = [idleProcesses EXCEPT ![KeyOf[r]] = @ \cup {p}]
        /\ WakeWaiters(f, active - 1, by)
        /\ UNCHANGED <<state, jobOwners>>
    BY <1>5 DEF PollFinished
  <2>2. state[p] = "up"
    BY <1>5 DEF CanIdle
  <2>3. benchmarkKeys' = bk
    BY <1>0, <2>1 DEF PoolTyped, KeysWithout
  <2>4. ActiveWithout({p}, active) = active - 1 /\ ActiveByKeyWithout({p}, activeByKey) = by
    <3>1. {p} \cap Pinned = {p} /\ Cardinality({p}) = 1
      BY <1>1, FS_Singleton
    <3>2. benchmarkKeys[p] \in Keys
      BY <1>0, <1>1 DEF PoolTyped, Pinned
    <3>3. \A k \in Keys : Cardinality({p} \cap PinnedOf(k)) = IF k = benchmarkKeys[p] THEN 1 ELSE 0
      <4> TAKE k \in Keys
      <4>1. {p} \cap PinnedOf(k) = IF k = benchmarkKeys[p] THEN {p} ELSE {}
        BY <1>1 DEF PinnedOf
      <4> QED BY <4>1, FS_Singleton, FS_EmptySet
    <3>4. \A k \in Keys : ActiveByKeyWithout({p}, activeByKey)[k] = by[k]
      BY <1>0, <3>2, <3>3 DEF ActiveByKeyWithout
    <3>5. ActiveByKeyWithout({p}, activeByKey) = by
      BY <1>0, <3>4 DEF ActiveByKeyWithout
    <3> QED BY <3>1, <3>5 DEF ActiveWithout
  <2>5. {p} \in SUBSET Procs
    BY <1>1
  <2> HIDE DEF f, by, p
  <2>6. Accounted(f, bk, active - 1, by, disposed) /\ Bounded(active - 1, by)
    BY <1>0, <1>4, <2>4, <2>5, UnpinKeepsAccount DEF PoolTyped
  <2>7. /\ pc' \in [Requests -> Phases]
        /\ Accounted(pc', bk, active', activeByKey', disposed)
        /\ Bounded(active', activeByKey')
        /\ \A q \in Requests : pc'[q] = f[q] \/ (f[q] = "queued" /\ pc'[q] = "granted")
        /\ HeldIn(pc') = HeldIn(f)
    BY <1>2, <2>1, <2>6, WakeKeepsAccount
  <2>8. TypeOK'
    <3>1. active' \in Nat /\ activeByKey' \in [Keys -> Nat]
      BY <2>7 DEF Accounted
    <3>2. PoolTyped'
      BY <1>0, <1>1, <2>1 DEF PoolTyped
    <3> QED BY <1>0, <1>3, <2>7, <3>1, <3>2 DEF TypeOK, CallsTyped, PoolTyped
  <2>9. Owning'
    <3>1. /\ \A q \in HeldIn(pc) : proc[q] # p
          /\ \A k \in Keys : p \notin idleProcesses[k]
      BY <1>0, <1>1 DEF Owning, Pinned
    <3>2. \A q \in Requests : pc'[q] \in DirectPhases => pc[q] \in DirectPhases
      BY <1>2, <2>7 DEF DirectPhases
    <3>3. /\ \A q \in Procs : benchmarkKeys'[q] = benchmarkKeys[q] \/ benchmarkKeys'[q] = NoKey
          /\ benchmarkKeys'[p] = NoKey
      BY <1>0, <1>1, <2>1 DEF PoolTyped
    <3>4. \A x \in Runs : benchmarkOwners'[x] = NoProc \/ benchmarkOwners'[x] = benchmarkOwners[x]
      BY <2>1
    <3>5. HeldIn(pc') \subseteq HeldIn(pc)
      BY <1>2, <2>7
    <3> QED BY <1>0, <1>1, <1>3, <2>1, <2>2, <3>1, <3>2, <3>3, <3>4, <3>5, Pooling
  <2> QED BY <1>3, <2>3, <2>7, <2>8, <2>9 DEF IInv
<1>6. CASE ~CanIdle(KeyOf[r], p)
  <2>1. Drop({p}, f, active, activeByKey)
    BY <1>6 DEF PollFinished
  <2> HIDE DEF f, p
  <2> QED BY <1>0, <1>1, <1>2, <1>3, <1>4, <2>1, DroppingStep
<1> QED BY <1>5, <1>6

\* A disposed host forgets every pin; the permits stay counted for nobody.
LEMMA DisposeStep ==
    ASSUME IInv, Dispose
    PROVE  IInv'
<1> DEFINE g == FailPending(Up, pc)
<1>0. /\ pc \in [Requests -> Phases] /\ CallsTyped /\ PoolTyped /\ Owning
      /\ disposed \in BOOLEAN /\ active \in Nat /\ activeByKey \in [Keys -> Nat]
      /\ Accounted(pc, benchmarkKeys, active, activeByKey, disposed) /\ Bounded(active, activeByKey)
  BY DEF IInv, TypeOK, CallsTyped, PoolTyped
<1>1. /\ disposed' = TRUE
      /\ pc' = [r \in Requests |-> IF pc[r] = "queued" THEN "failed" ELSE g[r]]
      /\ state' = [p \in Procs |-> IF p \in Up THEN "defunct" ELSE state[p]]
      /\ idleProcesses' = [k \in Keys |-> {}]
      /\ jobOwners' = [r \in Requests |-> NoProc]
      /\ benchmarkOwners' = [x \in Runs |-> NoProc]
      /\ benchmarkKeys' = [p \in Procs |-> NoKey]
      /\ UNCHANGED <<callVars, active, activeByKey>>
  BY DEF Dispose
<1>2. /\ g \in [Requests -> Phases] /\ EnteredIn(g) = EnteredIn(pc) /\ HeldIn(g) = HeldIn(pc)
      /\ \A r \in Requests : g[r] \in DirectPhases => pc[r] \in DirectPhases
  BY <1>0, FailPendingKeepsHolders
<1> HIDE DEF g
<1>3. /\ pc' \in [Requests -> Phases]
      /\ EnteredIn(pc') \subseteq EnteredIn(pc) /\ HeldIn(pc') \subseteq HeldIn(pc)
      /\ \A r \in Requests : pc'[r] \in DirectPhases => pc[r] \in DirectPhases
  <2>1. \A r \in Requests : pc'[r] = "failed" \/ pc'[r] = g[r]
    BY <1>1
  <2>2. "failed" \in Phases \ (EnteredPhases \cup HoldingPhases \cup DirectPhases)
    BY DEF Phases, FinalPhases, EnteredPhases, HoldingPhases, DirectPhases
  <2>3. pc' \in [Requests -> Phases]
    BY <1>1, <1>2, <2>1, <2>2
  <2>4. EnteredIn(pc') \subseteq EnteredIn(g)
    BY <2>1, <2>2 DEF EnteredIn
  <2>5. HeldIn(pc') \subseteq HeldIn(g)
    BY <2>1, <2>2 DEF HeldIn
  <2> QED BY <1>2, <2>1, <2>2, <2>3, <2>4, <2>5
<1>4. CallsTyped' /\ proc' = proc
  BY <1>0, <1>1 DEF CallsTyped, callVars
<1>5. PoolTyped'
  BY <1>0, <1>1 DEF PoolTyped
<1>6. TypeOK'
  BY <1>0, <1>1, <1>3, <1>4, <1>5 DEF TypeOK, CallsTyped, PoolTyped
<1>7. Owning'
  <2>1. \A p \in Procs : state[p] # "unborn" => state'[p] # "unborn"
    BY <1>1
  <2>2. \A r \in Requests : pc'[r] \in DirectPhases => proc'[r] \in Procs /\ state'[proc'[r]] # "unborn"
    BY <1>0, <1>3, <1>4, <2>1 DEF Owning
  <2> QED BY <1>1, <1>3, <1>4, <2>1, <2>2, <1>0 DEF Owning
<1>8. Accounted(pc', benchmarkKeys', active', activeByKey', disposed')
  <2>1. PinnedIn(benchmarkKeys') = {} /\ Cardinality(PinnedIn(benchmarkKeys')) = 0
    BY <1>1, FS_EmptySet DEF PinnedIn
  <2>2. \A k \in Keys : Cardinality({p \in Procs : benchmarkKeys'[p] = k}) = 0
    <3>1. \A k \in Keys : {p \in Procs : benchmarkKeys'[p] = k} = {}
      BY <1>1, SentinelAssumption
    <3> QED BY <3>1, FS_EmptySet
  <2>3. /\ Cardinality(EnteredIn(pc')) <= Cardinality(EnteredIn(pc))
        /\ Cardinality(EnteredIn(pc')) \in Nat /\ Cardinality(EnteredIn(pc)) \in Nat
    BY <1>3, EnteredFinite, FS_Subset
  <2>4. \A k \in Keys :
          /\ Cardinality(EnteredIn(pc') \cap OfKey(k)) <= Cardinality(EnteredIn(pc) \cap OfKey(k))
          /\ Cardinality(EnteredIn(pc') \cap OfKey(k)) \in Nat
          /\ Cardinality(EnteredIn(pc) \cap OfKey(k)) \in Nat
    <3> TAKE k \in Keys
    <3>1. EnteredIn(pc') \cap OfKey(k) \subseteq EnteredIn(pc) \cap OfKey(k)
      BY <1>3
    <3> QED BY <3>1, EnteredFinite, FS_Subset
  <2>5. active' >= Cardinality(EnteredIn(pc')) + Cardinality(PinnedIn(benchmarkKeys'))
    <3>1. active >= Cardinality(EnteredIn(pc)) + Cardinality(PinnedIn(benchmarkKeys))
      BY <1>0 DEF Accounted
    <3>2. Cardinality(PinnedIn(benchmarkKeys)) \in Nat
      BY PinnedFinite
    <3> QED BY <1>0, <1>1, <2>1, <2>3, <3>1, <3>2
  <2>6. ASSUME NEW k \in Keys
        PROVE  activeByKey'[k] >= Cardinality(EnteredIn(pc') \cap OfKey(k))
                                    + Cardinality({p \in Procs : benchmarkKeys'[p] = k})
    <3>1. activeByKey[k] >= Cardinality(EnteredIn(pc) \cap OfKey(k))
                              + Cardinality({p \in Procs : benchmarkKeys[p] = k})
      BY <1>0 DEF Accounted
    <3>2. Cardinality({p \in Procs : benchmarkKeys[p] = k}) \in Nat
      BY PinnedFinite
    <3> DEFINE before == Cardinality(EnteredIn(pc) \cap OfKey(k))
               after == Cardinality(EnteredIn(pc') \cap OfKey(k))
               pins == Cardinality({p \in Procs : benchmarkKeys[p] = k})
               left == Cardinality({p \in Procs : benchmarkKeys'[p] = k})
    <3>3. /\ after <= before /\ after \in Nat /\ before \in Nat /\ left = 0 /\ pins \in Nat
          /\ activeByKey[k] >= before + pins
      BY <2>2, <2>4, <3>1, <3>2
    <3>4. activeByKey'[k] = activeByKey[k] /\ activeByKey[k] \in Nat
      BY <1>0, <1>1
    <3> HIDE DEF before, after, pins, left
    <3>5. activeByKey'[k] >= after + left
      BY <3>3, <3>4
    <3> QED BY <3>5 DEF after, left
  <2> QED BY <1>0, <1>1, <2>5, <2>6 DEF Accounted
<1> QED BY <1>0, <1>1, <1>6, <1>7, <1>8 DEF IInv

\* Every step of the host keeps the invariant.
LEMMA NextStep ==
    ASSUME IInv, [Next]_vars
    PROVE  IInv'
<1>1. ASSUME NEW r \in Requests,
             \/ SubmitDirect(r) \/ SubmitControl(r) \/ Reject(r) \/ QueueTimeout(r)
             \/ Dispatch(r) \/ JobEvent(r) \/ Elapse(r) \/ Answer(r)
             \/ ControlSettle(r) \/ ControlFail(r) \/ CancelQueuedListings
      PROVE  IInv'
  BY <1>1, QuietActions
<1>2. ASSUME NEW r \in Requests,
             \/ SubmitOrdinary(r) \/ GrantedTooLate(r) \/ StartFails(r)
             \/ PollUnfinished(r) \/ Cancel(r)
      PROVE  IInv'
  BY <1>2, WakingActions
<1>3. ASSUME NEW r \in Requests,
             \/ BeginStart(r) \/ Watchdog(r) \/ Fail(r) \/ PollFail(r)
      PROVE  IInv'
  BY <1>3, DroppingActions
<1>4. ASSUME NEW r \in Requests,
             \/ ReuseIdle(r) \/ Started(r) \/ Settle(r) \/ PinBenchmark(r) \/ PollFinished(r)
      PROVE  IInv'
  BY <1>4, ReuseIdleStep, StartedStep, SettleStep, PinBenchmarkStep, PollFinishedStep
<1>5. ASSUME NEW r \in Requests,
             \/ Submit(r) \/ QueueTimeout(r) \/ HostStep(r)
             \/ Started(r) \/ StartFails(r)
             \/ JobEvent(r) \/ Answer(r) \/ Elapse(r) \/ Watchdog(r) \/ Cancel(r)
      PROVE  IInv'
  BY <1>1, <1>2, <1>3, <1>4, <1>5 DEF Submit, HostStep
<1>6. ASSUME NEW p \in Procs, Crash(p)
      PROVE  IInv'
  BY <1>6, KillStep DEF Crash
<1>7. CASE CancelListings
  BY <1>7, CancelListingsStep
<1>8. CASE CancelQueuedListings
  <2>1. PICK r \in Requests : pc[r] = "queued"
    BY <1>8 DEF CancelQueuedListings, QueuedIn
  <2> QED BY <1>1, <1>8, <2>1
<1>9. CASE Dispose
  BY <1>9, DisposeStep
<1>10. CASE UNCHANGED vars
  BY <1>10 DEF vars, callVars, permitVars, poolVars, IInv, TypeOK, Accounted, Bounded, Owning,
               HeldIn, EnteredIn, PinnedIn
<1> QED BY <1>5, <1>6, <1>7, <1>8, <1>9, <1>10 DEF Next

\* The invariant holds in every reachable state.
LEMMA Invariance == Spec => []IInv
<1>1. Init => IInv
  BY InitIInv
<1>2. IInv /\ [Next]_vars => IInv'
  BY NextStep
<1> QED BY <1>1, <1>2, PTL DEF Spec

-----------------------------------------------------------------------------
(* The results                                                             *)

\* Every variable of the host keeps its type; in particular no permit count
\* ever becomes negative.
THEOREM TypeCorrect == Spec => []TypeOK
<1>1. IInv => TypeOK
  BY DEF IInv
<1> QED BY <1>1, Invariance, PTL

\* For any number of calls, engines and processes: until the host is disposed,
\* _active and _activeByKey are the calls in send() past _enter plus the pins.
THEOREM PermitsAreAccounted == Spec => []PermitsAccounted
<1>1. IInv => PermitsAccounted
  BY DEF IInv, Accounted, PermitsAccounted, Entered, Pinned, PinnedIn, PinnedOf
<1> QED BY <1>1, Invariance, PTL

\* The limits on calls at work hold in all and for each engine.
THEOREM PermitsAreBounded == Spec => []PermitsBounded
<1>1. IInv => PermitsBounded
  BY DEF IInv, Bounded, PermitsBounded
<1> QED BY <1>1, Invariance, PTL

\* No process serves two calls, or a call and a benchmark, or sits in the idle
\* pool while it is in use, dead or pinned.
THEOREM ProcessesAreExclusive == Spec => []ExclusiveProcess
<1>1. ASSUME IInv PROVE ExclusiveProcess
  <2>1. Held = HeldIn(pc) /\ Owning
    BY <1>1 DEF Held, HeldIn, IInv
  <2>2. \A p \in Idle : \E k \in Keys : p \in idleProcesses[k] /\ p \in Procs
    BY <1>1 DEF Idle, IInv, TypeOK
  <2>3. \A r, s \in Held : r # s => proc[r] # proc[s]
    BY <2>1 DEF Owning
  <2>4. \A r \in Held : proc[r] \notin Idle \cup Pinned
    BY <2>1, <2>2 DEF Owning, Pinned
  <2>5. Idle \subseteq Up \ Pinned
    BY <2>1, <2>2 DEF Owning, Up, Pinned
  <2>6. \A j, k \in Keys : j # k => idleProcesses[j] \cap idleProcesses[k] = {}
    BY <2>1 DEF Owning
  <2> QED BY <2>3, <2>4, <2>5, <2>6 DEF ExclusiveProcess
<1> QED BY <1>1, Invariance, PTL

-----------------------------------------------------------------------------
(* The life of one call                                                    *)

\* What a step that ends in _wakeWaiters, with or without discarding processes,
\* makes of the phases f: a waiter is granted, a call awaiting an answer fails.
Follows(f) ==
    \A q \in Requests :
        \/ pc'[q] = f[q]
        \/ f[q] = "queued" /\ pc'[q] = "granted"
        \/ f[q] = "sent" /\ pc'[q] = "failing"
        \/ f[q] = "polling" /\ pc'[q] = "pollFailing"
        \/ f[q] = "controlling" /\ pc'[q] = "controlFailing"

\* What one step may do to the call q.
Moves(q) ==
    \/ pc'[q] = pc[q] /\ proc'[q] = proc[q]
    \/ Submit(q) /\ pc[q] = "new" /\ pc'[q] \in {"queued", "granted", "failed"} /\ proc'[q] = proc[q]
    \/ Submit(q) /\ pc[q] = "new" /\ pc'[q] \in DirectPhases
    \/ pc[q] = "queued" /\ pc'[q] \in {"granted", "failed", "cancelled"} /\ proc'[q] = proc[q]
    \/ pc[q] = "granted" /\ pc'[q] = "starting" /\ proc'[q] = proc[q]
    \/ pc[q] \in {"granted", "starting"} /\ pc'[q] \in {"acquired", "failed", "cancelled"}
    \/ pc[q] \in HoldingPhases /\ pc'[q] \in HoldingPhases
    \/ pc[q] \in HoldingPhases /\ pc'[q] = "done" /\ q \notin cancelled
    \/ /\ pc[q] \in HoldingPhases /\ pc'[q] \in {"failed", "cancelled"}
       /\ q \in Scoped \cap cancelled /\ ~IsListing(q) => q \in outcomeUnknown'
    \/ pc[q] \in DirectPhases /\ pc'[q] \in DirectPhases \cup FinalPhases

\* _wakeWaiters only moves waiters.
LEMMA WakeFollows ==
    ASSUME NEW f \in [Requests -> Phases], NEW a, NEW byKey, WakeWaiters(f, a, byKey)
    PROVE  Follows(f)
BY DEF WakeWaiters, QueuedIn, Follows

\* A discard moves waiters and the calls that await an answer.
LEMMA DropFollows ==
    ASSUME NEW f \in [Requests -> Phases], NEW S, NEW a, NEW byKey, Drop(S, f, a, byKey)
    PROVE  Follows(f)
<1> DEFINE g == FailPending(S, f)
<1>1. \A q \in Requests :
        \/ g[q] = f[q]
        \/ f[q] = "sent" /\ g[q] = "failing"
        \/ f[q] = "polling" /\ g[q] = "pollFailing"
        \/ f[q] = "controlling" /\ g[q] = "controlFailing"
  BY DEF FailPending
<1>2. g \in [Requests -> Phases]
  BY FailPendingKeepsHolders
<1> HIDE DEF g
<1>3. PICK G \in SUBSET QueuedIn(g) : pc' = [q \in Requests |-> IF q \in G THEN "granted" ELSE g[q]]
  BY DEF Drop, WakeWaiters, g
<1> QED BY <1>1, <1>3 DEF Follows, QueuedIn

\* A step about the call r moves every other call as the queue and the discarded
\* processes demand.
LEMMA OthersMove ==
    ASSUME pc \in [Requests -> Phases], NEW q \in Requests, NEW f, f[q] = pc[q], Follows(f),
           proc'[q] = proc[q]
    PROVE  Moves(q)
BY DEF Follows, Moves, HoldingPhases, DirectPhases

\* The call a step is about takes the phase the step gives it.
LEMMA ActorMoves ==
    ASSUME pc \in [Requests -> Phases], NEW r \in Requests, NEW ph,
           ph \notin {"queued", "sent", "polling", "controlling"},
           Follows([pc EXCEPT ![r] = ph]), proc' = proc
    PROVE  pc'[r] = ph /\ \A q \in Requests : q # r => Moves(q)
<1>1. pc'[r] = ph
  BY DEF Follows
<1>2. ASSUME NEW q \in Requests, q # r PROVE Moves(q)
  <2>1. [pc EXCEPT ![r] = ph][q] = pc[q]
    BY <1>2
  <2> QED BY <1>2, <2>1, OthersMove
<1> QED BY <1>1, <1>2

\* The steps that wake nobody and discard nothing.
LEMMA QuietMoves ==
    ASSUME TypeOK, NEW r \in Requests,
           \/ Submit(r) /\ (SubmitDirect(r) \/ SubmitControl(r) \/ Reject(r))
           \/ QueueTimeout(r) \/ ReuseIdle(r) \/ Dispatch(r) \/ JobEvent(r) \/ Elapse(r) \/ Answer(r)
           \/ ControlSettle(r) \/ ControlFail(r) \/ CancelQueuedListings
    PROVE  \A q \in Requests : Moves(q)
<1> USE DEF TypeOK, Moves, HoldingPhases, DirectPhases, FinalPhases, callVars, permitVars
<1>1. CASE Submit(r) /\ SubmitDirect(r)
  BY <1>1 DEF SubmitDirect
<1>2. CASE Submit(r) /\ SubmitControl(r)
  BY <1>2 DEF SubmitControl
<1>3. CASE Submit(r) /\ Reject(r)
  BY <1>3 DEF Reject
<1>4. CASE QueueTimeout(r)
  BY <1>4 DEF QueueTimeout
<1>5. CASE ReuseIdle(r)
  BY <1>5 DEF ReuseIdle
<1>6. CASE Dispatch(r)
  BY <1>6 DEF Dispatch
<1>7. CASE JobEvent(r) \/ Elapse(r)
  BY <1>7 DEF JobEvent, Elapse
<1>8. CASE Answer(r)
  BY <1>8 DEF Answer
<1>9. CASE ControlSettle(r) \/ ControlFail(r)
  BY <1>9 DEF ControlSettle, ControlFail
<1>10. CASE CancelQueuedListings
  BY <1>10 DEF CancelQueuedListings
<1> QED BY <1>1, <1>2, <1>3, <1>4, <1>5, <1>6, <1>7, <1>8, <1>9, <1>10

\* The steps by which a call enters the queue or leaves send().
LEMMA LeavingMoves ==
    ASSUME TypeOK, NEW r \in Requests,
           \/ Submit(r) /\ SubmitOrdinary(r)
           \/ GrantedTooLate(r) \/ StartFails(r) \/ Started(r) \/ PollUnfinished(r) \/ Cancel(r)
    PROVE  \A q \in Requests : Moves(q)
<1>0. pc \in [Requests -> Phases] /\ proc \in [Requests -> Procs \cup {NoProc}]
  BY DEF TypeOK
<1> USE DEF Phases, FinalPhases, EnteredPhases, HoldingPhases, DirectPhases
<1>a. ASSUME LeaveEmptyHanded(r), pc[r] \in {"granted", "starting"}, proc' = proc
      PROVE  \A q \in Requests : Moves(q)
  <2> DEFINE ph == IF r \in cancelled THEN "cancelled" ELSE "failed"
             f == [pc EXCEPT ![r] = ph]
  <2>1. f \in [Requests -> Phases] /\ ph \in {"cancelled", "failed"}
    BY <1>0
  <2>2. Follows(f)
    BY <1>a, <2>1, WakeFollows DEF LeaveEmptyHanded
  <2> HIDE DEF ph
  <2>3. pc'[r] = ph /\ \A q \in Requests : q # r => Moves(q)
    BY <1>0, <1>a, <2>1, <2>2, ActorMoves
  <2>4. Moves(r)
    BY <1>a, <2>1, <2>3 DEF Moves
  <2> QED BY <2>3, <2>4
<1>1. CASE Submit(r) /\ SubmitOrdinary(r)
  <2> DEFINE f == [pc EXCEPT ![r] = "queued"]
  <2>1. f \in [Requests -> Phases] /\ f[r] = "queued" /\ \A q \in Requests : q # r => f[q] = pc[q]
    BY <1>0
  <2>2. WakeWaiters(f, active, activeByKey) /\ proc' = proc /\ pc[r] = "new"
    BY <1>1 DEF SubmitOrdinary
  <2> HIDE DEF f
  <2>3. Follows(f)
    BY <2>1, <2>2, WakeFollows
  <2>4. Moves(r)
    BY <1>1, <2>1, <2>2, <2>3 DEF Follows, Moves
  <2> QED BY <1>0, <2>1, <2>2, <2>3, <2>4, OthersMove
<1>2. CASE GrantedTooLate(r)
  BY <1>2, <1>a DEF GrantedTooLate, callVars
<1>3. CASE StartFails(r)
  BY <1>3, <1>a DEF StartFails, callVars
<1>4. CASE Started(r)
  <2>1. PICK p \in Procs :
          IF disposed THEN LeaveEmptyHanded(r) /\ UNCHANGED proc
                      ELSE proc' = [proc EXCEPT ![r] = p] /\ pc' = [pc EXCEPT ![r] = "acquired"]
    BY <1>4 DEF Started
  <2>2. pc[r] = "starting"
    BY <1>4 DEF Started
  <2>3. CASE disposed
    BY <2>1, <2>2, <2>3, <1>a
  <2>4. CASE ~disposed
    BY <1>0, <2>1, <2>2, <2>4 DEF Moves
  <2> QED BY <2>3, <2>4
<1>5. CASE PollUnfinished(r)
  <2>1. [pc EXCEPT ![r] = "done"] \in [Requests -> Phases]
    BY <1>0
  <2>2. Follows([pc EXCEPT ![r] = "done"]) /\ proc' = proc /\ pc[r] = "polled"
    BY <1>5, <2>1, WakeFollows DEF PollUnfinished, callVars
  <2>3. pc'[r] = "done" /\ \A q \in Requests : q # r => Moves(q)
    BY <1>0, <2>2, ActorMoves
  <2> QED BY <2>2, <2>3 DEF Moves
<1>6. CASE Cancel(r)
  <2> DEFINE f == [pc EXCEPT ![r] = IF @ = "queued" THEN "cancelled" ELSE @]
  <2>1. f \in [Requests -> Phases] /\ \A q \in Requests : f[q] = pc[q] \/ (q = r /\ f[r] = "cancelled")
    BY <1>0
  <2>2. pc[r] \in EnteredPhases \cup {"queued"} /\ f[r] = IF pc[r] = "queued" THEN "cancelled" ELSE pc[r]
    BY <1>0, <1>6 DEF Cancel
  <2>3. WakeWaiters(f, active, activeByKey) /\ proc' = proc
    BY <1>6 DEF Cancel
  <2> HIDE DEF f
  <2>4. Follows(f)
    BY <2>1, <2>3, WakeFollows
  <2>5. \A q \in Requests : f[q] = pc[q] => Moves(q)
    BY <1>0, <2>3, <2>4, OthersMove
  <2>6. f[r] # pc[r] => Moves(r)
    BY <2>2, <2>3, <2>4 DEF Follows, Moves
  <2> QED BY <2>1, <2>5, <2>6
<1> QED BY <1>1, <1>2, <1>3, <1>4, <1>5, <1>6

\* The steps after the response of a call.
LEMMA AnsweredMoves ==
    ASSUME TypeOK, NEW r \in Requests,
           PinBenchmark(r) \/ Settle(r) \/ Fail(r) \/ PollFinished(r) \/ PollFail(r)
    PROVE  \A q \in Requests : Moves(q)
<1>0. pc \in [Requests -> Phases]
  BY DEF TypeOK
<1> USE DEF Phases, FinalPhases, EnteredPhases, HoldingPhases, DirectPhases
<1>a. ASSUME NEW ph \in FinalPhases, proc' = proc,
             \/ \E a, byKey : WakeWaiters([pc EXCEPT ![r] = ph], a, byKey)
             \/ \E S, a, byKey : Drop(S, [pc EXCEPT ![r] = ph], a, byKey)
      PROVE  pc'[r] = ph /\ \A q \in Requests : q # r => Moves(q)
  <2>1. [pc EXCEPT ![r] = ph] \in [Requests -> Phases]
    BY <1>0
  <2>2. Follows([pc EXCEPT ![r] = ph])
    BY <1>a, <2>1, WakeFollows, DropFollows
  <2> QED BY <1>0, <1>a, <2>2, ActorMoves
<1>1. CASE PinBenchmark(r)
  <2>1. pc'[r] = "done" /\ \A q \in Requests : q # r => Moves(q)
    BY <1>1, <1>a DEF PinBenchmark, callVars
  <2> QED BY <1>1, <2>1 DEF PinBenchmark, Moves
<1>2. CASE Settle(r)
  <2>1. /\ pc[r] = "answered" /\ r \notin cancelled /\ proc' = proc
        /\ \/ WakeWaiters([pc EXCEPT ![r] = "done"], active - 1, ByKeyWithout(r))
           \/ Drop({proc[r]}, [pc EXCEPT ![r] = "done"], active - 1, ByKeyWithout(r))
    BY <1>2 DEF Settle, callVars
  <2>2. pc'[r] = "done" /\ \A q \in Requests : q # r => Moves(q)
    BY <2>1, <1>a
  <2> QED BY <2>1, <2>2 DEF Moves
<1>3. CASE Fail(r)
  <2> DEFINE ph == IF r \in cancelled THEN "cancelled" ELSE "failed"
  <2>1. /\ pc[r] \in HoldingPhases /\ proc' = proc /\ ph \in {"cancelled", "failed"}
        /\ r \in Scoped \cap cancelled /\ ~IsListing(r) => r \in outcomeUnknown'
        /\ Drop({proc[r]}, [pc EXCEPT ![r] = ph], active - 1, ByKeyWithout(r))
    BY <1>3 DEF Fail
  <2> HIDE DEF ph
  <2>2. pc'[r] = ph /\ \A q \in Requests : q # r => Moves(q)
    BY <2>1, <1>a
  <2> QED BY <2>1, <2>2 DEF Moves
<1>4. CASE PollFinished(r)
  <2>1. /\ pc[r] = "polled" /\ proc' = proc
        /\ \/ \E a, byKey : WakeWaiters([pc EXCEPT ![r] = "done"], a, byKey)
           \/ Drop({proc[r]}, [pc EXCEPT ![r] = "done"], active, activeByKey)
    BY <1>4 DEF PollFinished, callVars
  <2>2. pc'[r] = "done" /\ \A q \in Requests : q # r => Moves(q)
    BY <2>1, <1>a
  <2> QED BY <2>1, <2>2 DEF Moves
<1>5. CASE PollFail(r)
  <2>1. pc[r] = "pollFailing" /\ pc'[r] = "failed" /\ \A q \in Requests : q # r => Moves(q)
    BY <1>5, <1>a DEF PollFail, callVars
  <2> QED BY <2>1 DEF Moves
<1> QED BY <1>1, <1>2, <1>3, <1>4, <1>5

\* Every step of the host moves every call as Moves says.
LEMMA CallMoves ==
    ASSUME TypeOK, [Next]_vars
    PROVE  \A q \in Requests : Moves(q)
<1>0. pc \in [Requests -> Phases]
  BY DEF TypeOK
<1>a. ASSUME NEW S, Drop(S, pc, active, activeByKey), proc' = proc
      PROVE  \A q \in Requests : Moves(q)
  BY <1>0, <1>a, DropFollows, OthersMove
<1>1. ASSUME NEW r \in Requests, BeginStart(r)
      PROVE  \A q \in Requests : Moves(q)
  <2>1. PICK E : Drop(E, [pc EXCEPT ![r] = "starting"], active, activeByKey)
    BY <1>1 DEF BeginStart
  <2>2. [pc EXCEPT ![r] = "starting"] \in [Requests -> Phases]
    BY <1>0 DEF Phases, EnteredPhases
  <2>3. Follows([pc EXCEPT ![r] = "starting"]) /\ proc' = proc /\ pc[r] = "granted"
    BY <1>1, <2>1, <2>2, DropFollows DEF BeginStart, callVars
  <2>4. pc'[r] = "starting" /\ \A q \in Requests : q # r => Moves(q)
    BY <1>0, <2>3, ActorMoves
  <2> QED BY <2>3, <2>4 DEF Moves
<1>2. ASSUME NEW r \in Requests, Watchdog(r)
      PROVE  \A q \in Requests : Moves(q)
  BY <1>2, <1>a DEF Watchdog, Kill, callVars
<1>3. ASSUME NEW p \in Procs, Crash(p)
      PROVE  \A q \in Requests : Moves(q)
  BY <1>3, <1>a DEF Crash, Kill, callVars
<1>4. CASE CancelListings
  <2> DEFINE f == [q \in Requests |-> IF q \in Listings /\ pc[q] = "queued"
                                     THEN "cancelled" ELSE pc[q]]
  <2>1. PICK S : Drop(S, f, active, activeByKey)
    BY <1>4 DEF CancelListings, Kill
  <2>2. /\ f \in [Requests -> Phases]
        /\ \A q \in Requests : f[q] = pc[q] \/ (pc[q] = "queued" /\ f[q] = "cancelled")
    BY <1>0 DEF Phases, FinalPhases
  <2> HIDE DEF f
  <2>3. Follows(f) /\ proc' = proc
    BY <1>4, <2>1, <2>2, DropFollows DEF CancelListings
  <2>4. \A q \in Requests : f[q] = pc[q] => Moves(q)
    BY <1>0, <2>3, OthersMove
  <2>5. \A q \in Requests : pc[q] = "queued" /\ f[q] = "cancelled" => Moves(q)
    BY <2>3 DEF Follows, Moves
  <2> QED BY <2>2, <2>4, <2>5
<1>5. CASE CancelQueuedListings
  <2>1. PICK r \in Requests : TRUE
    BY <1>5 DEF CancelQueuedListings, QueuedIn
  <2> QED BY <1>5, QuietMoves
<1>6. CASE Dispose
  <2>1. \A q \in Requests :
          \/ FailPending(Up, pc)[q] = pc[q]
          \/ pc[q] = "sent" /\ FailPending(Up, pc)[q] = "failing"
          \/ pc[q] = "polling" /\ FailPending(Up, pc)[q] = "pollFailing"
          \/ pc[q] = "controlling" /\ FailPending(Up, pc)[q] = "controlFailing"
    BY DEF FailPending
  <2>2. \A q \in Requests : pc'[q] = IF pc[q] = "queued" THEN "failed" ELSE FailPending(Up, pc)[q]
    BY <1>6 DEF Dispose
  <2>3. proc' = proc
    BY <1>6 DEF Dispose, callVars
  <2> QED BY <2>1, <2>2, <2>3 DEF Moves, HoldingPhases, DirectPhases
<1>7. CASE UNCHANGED vars
  BY <1>7 DEF vars, permitVars, callVars, Moves
<1> QED BY <1>1, <1>2, <1>3, <1>4, <1>5, <1>6, <1>7, QuietMoves, LeavingMoves, AnsweredMoves
        DEF Next, Submit, HostStep

\* A call has no process before it acquires one, and only a call at work or in
\* the queue is ever cancelled: a scoped call or a listing.
Unplaced ==
    \A r \in Requests : pc[r] \in {"new", "queued", "granted", "starting"} => proc[r] = NoProc

Cancellable ==
    \A r \in cancelled : /\ pc[r] \in EnteredPhases \cup FinalPhases \cup {"queued"}
                         /\ r \in Scoped \/ IsListing(r)

\* Who is cancelled by a step.
LEMMA CancelledGrows ==
    ASSUME [Next]_vars
    PROVE  \A q \in cancelled' \ cancelled :
              pc[q] \in EnteredPhases \cup {"queued"} /\ (q \in Scoped \/ IsListing(q))
<1> USE DEF callVars
<1>1. ASSUME NEW r \in Requests, Cancel(r)
      PROVE  cancelled' = cancelled \cup {r} /\ r \in Scoped /\ pc[r] \in EnteredPhases \cup {"queued"}
  BY <1>1 DEF Cancel
<1>2. CASE CancelListings
  BY <1>2 DEF CancelListings, Listings
<1>3. ASSUME NEW r \in Requests, Submit(r) \/ QueueTimeout(r) \/ HostStep(r)
      PROVE  cancelled' = cancelled
  BY <1>3 DEF Submit, SubmitDirect, SubmitControl, SubmitOrdinary, Reject, QueueTimeout, HostStep,
              GrantedTooLate, ReuseIdle, BeginStart, Dispatch, PinBenchmark, Settle, Fail,
              PollUnfinished, PollFinished, PollFail, ControlSettle, ControlFail
<1>4. ASSUME NEW r \in Requests,
             Started(r) \/ StartFails(r) \/ JobEvent(r) \/ Answer(r) \/ Elapse(r) \/ Watchdog(r)
      PROVE  cancelled' = cancelled
  BY <1>4 DEF Started, StartFails, JobEvent, Answer, Elapse, Watchdog
<1>5. ASSUME (\E p \in Procs : Crash(p)) \/ CancelQueuedListings \/ Dispose \/ UNCHANGED vars
      PROVE  cancelled' = cancelled
  BY <1>5 DEF Crash, CancelQueuedListings, Dispose, vars
<1> QED BY <1>1, <1>2, <1>3, <1>4, <1>5 DEF Next

\* Unplaced and Cancellable are kept.
LEMMA CallsInvariant ==
    ASSUME IInv, Unplaced, Cancellable, [Next]_vars
    PROVE  Unplaced' /\ Cancellable'
<1>0. pc \in [Requests -> Phases] /\ \A q \in Requests : Moves(q)
  BY CallMoves DEF IInv, TypeOK
<1> USE DEF Phases, FinalPhases, EnteredPhases, HoldingPhases, DirectPhases
<1>1. Unplaced'
  <2>1. ASSUME NEW r \in Requests, pc'[r] \in {"new", "queued", "granted", "starting"}
        PROVE  pc[r] \in {"new", "queued", "granted", "starting"} /\ proc'[r] = proc[r]
    BY <1>0, <2>1 DEF Moves
  <2> QED BY <2>1 DEF Unplaced
<1>2. Cancellable'
  <2>1. ASSUME NEW r \in Requests, pc[r] \in EnteredPhases \cup FinalPhases \cup {"queued"}
        PROVE  pc'[r] \in EnteredPhases \cup FinalPhases \cup {"queued"}
    BY <1>0, <2>1 DEF Moves
  <2>2. ASSUME NEW r \in cancelled'
        PROVE  /\ pc[r] \in EnteredPhases \cup FinalPhases \cup {"queued"}
               /\ r \in Scoped \/ IsListing(r)
    BY <2>2, CancelledGrows DEF Cancellable
  <2>3. \A r \in cancelled' : r \in Requests
    BY NextStep DEF IInv, TypeOK
  <2> QED BY <2>1, <2>2, <2>3 DEF Cancellable, IsListing
<1> QED BY <1>1, <1>2

\* Unplaced and Cancellable hold in every reachable state.
LEMMA CallsInvariance == Spec => [](Unplaced /\ Cancellable)
<1>1. Init => Unplaced /\ Cancellable
  BY DEF Init, Unplaced, Cancellable
<1>2. IInv /\ Unplaced /\ Cancellable /\ [Next]_vars => (Unplaced /\ Cancellable)'
  BY CallsInvariant
<1> QED BY <1>1, <1>2, Invariance, PTL DEF Spec

\* A cancelled call never returns a result, not even one already received, and a
\* scoped mutation that had a process ends with an unknown outcome.
THEOREM CancelledNeverReturns == Spec => CancellationWins
<1>1. ASSUME IInv, Cancellable, [Next]_vars, NEW r \in cancelled
      PROVE  /\ pc'[r] = "done" => pc[r] = "done"
             /\ (pc[r] \in HoldingPhases /\ pc'[r] = "cancelled" /\ ~IsListing(r))
                   => r \in outcomeUnknown'
  <2>1. r \in Requests /\ Moves(r)
    BY <1>1, CallMoves DEF IInv, TypeOK
  <2>2. pc[r] \in EnteredPhases \cup FinalPhases \cup {"queued"} /\ (r \in Scoped \/ IsListing(r))
    BY <1>1 DEF Cancellable
  <2> QED BY <1>1, <2>1, <2>2
          DEF Moves, EnteredPhases, FinalPhases, HoldingPhases, DirectPhases
<1>2. IInv /\ Cancellable /\ [Next]_vars
        => [\A r \in cancelled :
              /\ pc'[r] = "done" => pc[r] = "done"
              /\ (pc[r] \in HoldingPhases /\ pc'[r] = "cancelled" /\ ~IsListing(r))
                    => r \in outcomeUnknown']_vars
  BY <1>1
<1> QED BY <1>2, Invariance, CallsInvariance, PTL DEF Spec, CancellationWins

\* Cancelling the listings kills no process of another call and no pinned one,
\* whatever process a listing held before.
THEOREM ListingCancelIsSafe == Spec => ListingCancelSparesOthers
<1>1. ASSUME IInv, Unplaced, CancelListings, NEW p \in Procs,
             (\E r \in Held : proc[r] = p /\ ~IsListing(r)) \/ p \in Pinned
      PROVE  state'[p] = state[p] /\ benchmarkKeys'[p] = benchmarkKeys[p]
  <2>1. p \notin {proc[q] : q \in Listings}
    <3> SUFFICES ASSUME NEW q \in Listings, proc[q] = p PROVE FALSE
      OBVIOUS
    <3>1. q \in Requests /\ IsListing(q) /\ pc[q] \in EnteredPhases \cup {"queued"}
      BY DEF Listings
    <3>2. q \in HeldIn(pc)
      BY <1>1, <3>1, SentinelAssumption DEF Unplaced, EnteredPhases, HeldIn
    <3>3. Owning /\ Held = HeldIn(pc)
      BY <1>1 DEF IInv, Held, HeldIn
    <3> QED BY <1>1, <3>1, <3>2, <3>3 DEF Owning, Pinned
  <2>2. PICK f : Drop({proc[q] : q \in Listings} \cap Up, f, active, activeByKey)
    BY <1>1 DEF CancelListings, Kill
  <2> QED BY <2>1, <2>2 DEF Drop
<1>2. IInv /\ Unplaced /\ [Next]_vars
        => [CancelListings =>
              \A p \in Procs :
                (\/ \E r \in Held : proc[r] = p /\ ~IsListing(r)
                 \/ p \in Pinned) => state'[p] = state[p] /\ benchmarkKeys'[p] = benchmarkKeys[p]
           ]_vars
  BY <1>1
<1> QED BY <1>2, Invariance, CallsInvariance, PTL DEF Spec, ListingCancelSparesOthers

-----------------------------------------------------------------------------
(* Nobody waits for a free permit                                          *)

\* The waiters of f are at a limit, given the permits a and byKey.
Full(f, a, byKey) ==
    \A w \in QueuedIn(f) : a >= MaxProcesses \/ byKey[KeyOf[w]] >= MaxProcessesPerEngine

\* A waiter that the loop of _wakeWaiters leaves behind was refused with fewer
\* permits taken than at the end of the loop.
LEMMA WakeServes ==
    ASSUME NEW f \in [Requests -> Phases], NEW a \in Int, NEW byKey \in [Keys -> Int],
           ~disposed, WakeWaiters(f, a, byKey)
    PROVE  Full(pc', active', activeByKey')
<1>1. PICK G \in SUBSET QueuedIn(f) :
        /\ Grants(G, QueuedIn(f), a, byKey)
        /\ pc' = [r \in Requests |-> IF r \in G THEN "granted" ELSE f[r]]
        /\ active' = a + Cardinality(G)
        /\ activeByKey' = [k \in Keys |-> byKey[k] + Cardinality(G \cap OfKey(k))]
  BY DEF WakeWaiters
<1>2. IsFiniteSet(G) /\ Cardinality(G) \in Nat
  BY FS_Subset, FS_CardinalityType, RequestsAssumption DEF QueuedIn
<1> SUFFICES ASSUME NEW w \in QueuedIn(pc')
             PROVE  active' >= MaxProcesses \/ activeByKey'[KeyOf[w]] >= MaxProcessesPerEngine
  BY DEF Full
<1>3. w \in QueuedIn(f) \ G /\ w \in Requests /\ KeyOf[w] \in Keys
  BY <1>1, RequestAttributes DEF QueuedIn
<1> DEFINE k == KeyOf[w]
           before == G \cap ahead'[w]
<1>4. \/ a + Cardinality(before) >= MaxProcesses
      \/ byKey[k] + Cardinality(before \cap OfKey(k)) >= MaxProcessesPerEngine
  BY <1>1, <1>3 DEF Grants
<1>5. Cardinality(before) \in Nat /\ Cardinality(before) <= Cardinality(G)
  <2>1. before \subseteq G
    OBVIOUS
  <2> QED BY <1>2, <2>1, FS_Subset, FS_CardinalityType
<1>6. /\ Cardinality(before \cap OfKey(k)) \in Nat /\ Cardinality(G \cap OfKey(k)) \in Nat
      /\ Cardinality(before \cap OfKey(k)) <= Cardinality(G \cap OfKey(k))
  <2>1. before \cap OfKey(k) \subseteq G \cap OfKey(k) /\ G \cap OfKey(k) \subseteq G
    OBVIOUS
  <2>2. IsFiniteSet(G \cap OfKey(k))
    BY <1>2, <2>1, FS_Subset
  <2> QED BY <2>1, <2>2, FS_Subset, FS_CardinalityType
<1> HIDE DEF before
<1>7. activeByKey'[k] = byKey[k] + Cardinality(G \cap OfKey(k)) /\ byKey[k] \in Int
  BY <1>1, <1>3
<1>8. CASE a + Cardinality(before) >= MaxProcesses
  BY <1>1, <1>2, <1>5, <1>8, LimitAssumption
<1>9. CASE byKey[k] + Cardinality(before \cap OfKey(k)) >= MaxProcessesPerEngine
  <2> DEFINE x == Cardinality(before \cap OfKey(k))
             y == Cardinality(G \cap OfKey(k))
  <2>1. x \in Nat /\ y \in Nat /\ x <= y /\ byKey[k] + x >= MaxProcessesPerEngine
    BY <1>6, <1>9
  <2> HIDE DEF x
  <2>2. byKey[k] + y >= MaxProcessesPerEngine
    BY <1>7, <2>1, LimitAssumption
  <2> QED BY <1>7, <2>2
<1> QED BY <1>4, <1>8, <1>9

\* The same for a discard, which wakes the waiters with the permits it frees.
LEMMA DropServes ==
    ASSUME NEW f \in [Requests -> Phases], NEW a \in Int, NEW byKey \in [Keys -> Int],
           NEW S, ~disposed, Drop(S, f, a, byKey)
    PROVE  Full(pc', active', activeByKey')
<1> DEFINE a2 == a - Cardinality(S \cap Pinned)
           by == [k \in Keys |-> byKey[k] - Cardinality(S \cap PinnedOf(k))]
<1>1. Cardinality(S \cap Pinned) \in Nat /\ \A k \in Keys : Cardinality(S \cap PinnedOf(k)) \in Nat
  <2>1. S \cap Pinned \subseteq Procs /\ \A k \in Keys : S \cap PinnedOf(k) \subseteq Procs
    BY DEF Pinned, PinnedOf
  <2> QED BY <2>1, FS_Subset, FS_CardinalityType, RequestsAssumption
<1>2. a2 \in Int /\ by \in [Keys -> Int]
  <2>1. \A k \in Keys : byKey[k] \in Int /\ byKey[k] - Cardinality(S \cap PinnedOf(k)) \in Int
    BY <1>1
  <2>2. by \in [Keys -> Int]
    BY <2>1
  <2> QED BY <1>1, <2>2
<1>3. FailPending(S, f) \in [Requests -> Phases]
  BY FailPendingKeepsHolders
<1>4. WakeWaiters(FailPending(S, f), a2, by)
  BY DEF Drop
<1> HIDE DEF a2, by
<1> QED BY <1>2, <1>3, <1>4, WakeServes

\* A step that gives no permit back and queues nobody leaves the waiters as they are.
LEMMA StillFull ==
    ASSUME Full(pc, active, activeByKey), UNCHANGED <<active, activeByKey>>,
           \A q \in Requests : pc'[q] = "queued" => pc[q] = "queued"
    PROVE  Full(pc', active', activeByKey')
BY DEF Full, QueuedIn

\* Every action that gives a permit back, or queues a call, ends in _wakeWaiters.
LEMMA FullStep ==
    ASSUME IInv, Full(pc, active, activeByKey), ~disposed, ~disposed', [Next]_vars
    PROVE  Full(pc', active', activeByKey')
<1>0. /\ pc \in [Requests -> Phases] /\ active \in Int /\ active - 1 \in Int
      /\ activeByKey \in [Keys -> Int]
      /\ \A r \in Requests : ByKeyWithout(r) \in [Keys -> Int]
      /\ \A p \in Pinned : [activeByKey EXCEPT ![benchmarkKeys[p]] = @ - 1] \in [Keys -> Int]
  <2>1. pc \in [Requests -> Phases] /\ active \in Nat /\ activeByKey \in [Keys -> Nat]
    BY DEF IInv, TypeOK
  <2>2. \A j : [activeByKey EXCEPT ![j] = @ - 1]
                 = [k \in Keys |-> IF k = j THEN activeByKey[k] - 1 ELSE activeByKey[k]]
    BY <2>1
  <2>3. \A j : [activeByKey EXCEPT ![j] = @ - 1] \in [Keys -> Int]
    <3> TAKE j
    <3>1. \A k \in Keys : (IF k = j THEN activeByKey[k] - 1 ELSE activeByKey[k]) \in Int
      BY <2>1
    <3> QED BY <2>2, <3>1
  <2> QED BY <2>1, <2>3 DEF ByKeyWithout
<1>1. \A r \in Requests, ph \in Phases : [pc EXCEPT ![r] = ph] \in [Requests -> Phases]
  BY <1>0
<1>2. {"queued", "starting", "done", "failed", "cancelled"} \subseteq Phases
  BY DEF Phases, EnteredPhases, FinalPhases
<1> USE DEF callVars, permitVars
<1>3. ASSUME NEW r \in Requests,
             \/ SubmitDirect(r) \/ SubmitControl(r) \/ Reject(r) \/ QueueTimeout(r)
             \/ ReuseIdle(r) \/ Dispatch(r) \/ JobEvent(r) \/ Elapse(r) \/ Answer(r)
             \/ ControlSettle(r) \/ ControlFail(r) \/ CancelQueuedListings
      PROVE  Full(pc', active', activeByKey')
  <2>1. UNCHANGED <<active, activeByKey>>
    BY <1>3 DEF SubmitDirect, SubmitControl, Reject, QueueTimeout, ReuseIdle, Dispatch, JobEvent,
                Elapse, Answer, ControlSettle, ControlFail, CancelQueuedListings
  <2>2. \A q \in Requests : pc'[q] = "queued" => pc[q] = "queued"
    BY <1>0, <1>3 DEF SubmitDirect, SubmitControl, Reject, QueueTimeout, ReuseIdle, Dispatch,
                      JobEvent, Elapse, Answer, ControlSettle, ControlFail, CancelQueuedListings
  <2> QED BY <2>1, <2>2, StillFull
<1>4. ASSUME NEW r \in Requests,
             \/ SubmitOrdinary(r) \/ GrantedTooLate(r) \/ StartFails(r)
             \/ PollUnfinished(r) \/ PinBenchmark(r)
      PROVE  Full(pc', active', activeByKey')
  <2>1. \E ph \in Phases :
          \/ WakeWaiters([pc EXCEPT ![r] = ph], active, activeByKey)
          \/ WakeWaiters([pc EXCEPT ![r] = ph], active - 1, ByKeyWithout(r))
    BY <1>2, <1>4 DEF SubmitOrdinary, GrantedTooLate, StartFails, LeaveEmptyHanded,
                      PollUnfinished, PinBenchmark
  <2> QED BY <1>0, <1>1, <2>1, WakeServes
<1>5. ASSUME NEW r \in Requests, Cancel(r)
      PROVE  Full(pc', active', activeByKey')
  <2>1. [pc EXCEPT ![r] = IF @ = "queued" THEN "cancelled" ELSE @] \in [Requests -> Phases]
    BY <1>0, <1>2
  <2> QED BY <1>0, <1>5, <2>1, WakeServes DEF Cancel
<1>6. ASSUME NEW r \in Requests, Started(r)
      PROVE  Full(pc', active', activeByKey')
  <2>1. UNCHANGED <<active, activeByKey>> /\ pc' = [pc EXCEPT ![r] = "acquired"]
    BY <1>6 DEF Started
  <2> QED BY <1>0, <2>1, StillFull
<1>7. ASSUME NEW r \in Requests, Settle(r) \/ PollFinished(r)
      PROVE  Full(pc', active', activeByKey')
  <2>1. [pc EXCEPT ![r] = "done"] \in [Requests -> Phases]
    BY <1>1, <1>2
  <2>2. \E a \in Int, byKey \in [Keys -> Int] :
          \/ WakeWaiters([pc EXCEPT ![r] = "done"], a, byKey)
          \/ \E S : Drop(S, [pc EXCEPT ![r] = "done"], a, byKey)
    <3>1. CASE Settle(r)
      BY <1>0, <3>1 DEF Settle
    <3>2. CASE PollFinished(r)
      BY <1>0, <3>2 DEF PollFinished
    <3> QED BY <1>7, <3>1, <3>2
  <2> QED BY <2>1, <2>2, WakeServes, DropServes
<1>8. ASSUME NEW r \in Requests, BeginStart(r) \/ Watchdog(r) \/ Fail(r) \/ PollFail(r)
      PROVE  Full(pc', active', activeByKey')
  <2>1. \E f \in [Requests -> Phases], a \in Int, byKey \in [Keys -> Int] :
          \E S : Drop(S, f, a, byKey)
    <3>1. CASE BeginStart(r)
      <4>1. [pc EXCEPT ![r] = "starting"] \in [Requests -> Phases]
        BY <1>1, <1>2
      <4> QED BY <1>0, <3>1, <4>1 DEF BeginStart
    <3>2. CASE Watchdog(r)
      BY <1>0, <3>2 DEF Watchdog, Kill
    <3>3. CASE Fail(r)
      <4> DEFINE ph == IF r \in cancelled THEN "cancelled" ELSE "failed"
      <4>1. [pc EXCEPT ![r] = ph] \in [Requests -> Phases]
        BY <1>1, <1>2
      <4>2. Drop({proc[r]}, [pc EXCEPT ![r] = ph], active - 1, ByKeyWithout(r))
        BY <3>3 DEF Fail
      <4> HIDE DEF ph
      <4> QED BY <1>0, <4>1, <4>2
    <3>4. CASE PollFail(r)
      <4>1. [pc EXCEPT ![r] = "failed"] \in [Requests -> Phases]
        BY <1>1, <1>2
      <4> QED BY <1>0, <3>4, <4>1 DEF PollFail
    <3> QED BY <1>8, <3>1, <3>2, <3>3, <3>4
  <2> QED BY <2>1, DropServes
<1>9. ASSUME NEW p \in Procs, Crash(p)
      PROVE  Full(pc', active', activeByKey')
  BY <1>0, <1>9, DropServes DEF Crash, Kill
<1>10. CASE CancelListings
  <2> DEFINE f == [r \in Requests |-> IF r \in Listings /\ pc[r] = "queued"
                                      THEN "cancelled" ELSE pc[r]]
  <2>1. f \in [Requests -> Phases]
    BY <1>0, <1>2
  <2>2. \E S : Drop(S, f, active, activeByKey)
    BY <1>10 DEF CancelListings, Kill
  <2> HIDE DEF f
  <2> QED BY <1>0, <2>1, <2>2, DropServes
<1>11. CASE CancelQueuedListings
  <2>1. \E r \in Requests : TRUE
    BY <1>11 DEF CancelQueuedListings, QueuedIn
  <2> QED BY <1>3, <1>11, <2>1
<1>12. ~Dispose
  BY DEF Dispose
<1>13. CASE UNCHANGED vars
  BY <1>13, StillFull DEF vars
<1> QED BY <1>3, <1>4, <1>5, <1>6, <1>7, <1>8, <1>9, <1>10, <1>11, <1>12, <1>13
        DEF Next, Submit, HostStep

\* A disposed host stays disposed.
LEMMA NeverUndisposed ==
    ASSUME [Next]_vars, disposed
    PROVE  disposed'
<1>1. ASSUME NEW r \in Requests, Submit(r) \/ QueueTimeout(r) \/ HostStep(r)
      PROVE  disposed' = disposed
  BY <1>1 DEF Submit, SubmitDirect, SubmitControl, SubmitOrdinary, Reject, QueueTimeout, HostStep,
              GrantedTooLate, ReuseIdle, BeginStart, Dispatch, PinBenchmark, Settle, Fail,
              PollUnfinished, PollFinished, PollFail, ControlSettle, ControlFail
<1>2. ASSUME NEW r \in Requests,
             \/ Started(r) \/ StartFails(r) \/ JobEvent(r) \/ Answer(r) \/ Elapse(r)
             \/ Watchdog(r) \/ Cancel(r)
      PROVE  disposed' = disposed
  BY <1>2 DEF Started, StartFails, JobEvent, Answer, Elapse, Watchdog, Cancel
<1>3. ASSUME \/ \E p \in Procs : Crash(p)
             \/ CancelListings \/ CancelQueuedListings \/ Dispose \/ UNCHANGED vars
      PROVE  disposed' = disposed \/ disposed'
  BY <1>3 DEF Crash, CancelListings, CancelQueuedListings, Dispose, vars
<1> QED BY <1>1, <1>2, <1>3 DEF Next

\* Until the host is disposed a call waits only while the pool or its engine is at
\* its limit: no order of answers, deaths and cancellations strands a waiter.
THEOREM NobodyIsStranded == Spec => []NoStrandedWaiter
<1>1. Init => NoStrandedWaiter
  BY DEF Init, NoStrandedWaiter, QueuedIn
<1>2. ASSUME IInv, NoStrandedWaiter, [Next]_vars, ~disposed'
      PROVE  NoStrandedWaiter'
  <2>1. ~disposed
    BY <1>2, NeverUndisposed
  <2>2. Full(pc, active, activeByKey)
    BY <1>2, <2>1 DEF NoStrandedWaiter, Full
  <2>3. Full(pc', active', activeByKey')
    BY <1>2, <2>1, <2>2, FullStep
  <2> QED BY <2>3 DEF NoStrandedWaiter, Full, QueuedIn
<1>3. IInv /\ NoStrandedWaiter /\ [Next]_vars => NoStrandedWaiter'
  BY <1>2 DEF NoStrandedWaiter
<1> QED BY <1>1, <1>3, Invariance, PTL DEF Spec

-----------------------------------------------------------------------------
(* Live processes                                                          *)

\* Every live process is known to somebody: it is idle, pinned or held by a call.
\* This is what lets the host make room for a start by evicting idle processes.
KnownProcess(p) ==
    \/ \E k \in Keys : p \in idleProcesses[k]
    \/ benchmarkKeys[p] # NoKey
    \/ \E r \in HeldIn(pc) : proc[r] = p

AllKnown == \A p \in Procs : state[p] = "up" => KnownProcess(p)

\* A step that starts no process.
NoMore ==
    /\ \A p \in Procs : state'[p] = "up" => state[p] = "up"
    /\ \A q \in Requests : pc'[q] = "starting" => pc[q] = "starting"

\* A step after which a process that is still alive is known as before.
SameOwners ==
    /\ \A p \in Procs : state'[p] = "up" =>
          /\ \A k \in Keys : p \in idleProcesses[k] => p \in idleProcesses'[k]
          /\ benchmarkKeys'[p] = benchmarkKeys[p]
    /\ \A q \in HeldIn(pc) : \/ q \in HeldIn(pc') /\ proc'[q] = proc[q]
                             \/ state'[proc[q]] # "up"

\* With the same owners and no new process, every live process stays known.
LEMMA KnownKept ==
    ASSUME AllKnown, NoMore, SameOwners
    PROVE  AllKnown'
BY DEF AllKnown, KnownProcess, NoMore, SameOwners

\* With no more processes alive or starting the bound is kept.
LEMMA FewerProcesses ==
    ASSUME ProcessesBounded, NoMore
    PROVE  ProcessesBounded'
<1>1. Up' \subseteq Up /\ Starting' \subseteq Starting
  BY DEF NoMore, Up, Starting
<1>2. IsFiniteSet(Up) /\ IsFiniteSet(Starting)
  BY FS_Subset, RequestsAssumption DEF Up, Starting
<1>3. /\ Cardinality(Up') \in Nat /\ Cardinality(Up) \in Nat /\ Cardinality(Up') <= Cardinality(Up)
      /\ Cardinality(Starting') \in Nat /\ Cardinality(Starting) \in Nat
      /\ Cardinality(Starting') <= Cardinality(Starting)
  BY <1>1, <1>2, FS_Subset, FS_CardinalityType
<1> QED BY <1>3, LimitAssumption DEF ProcessesBounded

\* A step that ends in _wakeWaiters keeps the holders and the starts of f.
LEMMA FollowsHolders ==
    ASSUME NEW f \in [Requests -> Phases], Follows(f)
    PROVE  /\ HeldIn(pc') = HeldIn(f)
           /\ \A q \in Requests : pc'[q] = "starting" <=> f[q] = "starting"
BY DEF Follows, HeldIn, HoldingPhases

\* A call that leaves send() without a process, or the queue, changes no process.
LEMMA WakingKnown ==
    ASSUME NEW f \in [Requests -> Phases], NEW a, NEW byKey, WakeWaiters(f, a, byKey),
           pc \in [Requests -> Phases],
           HeldIn(f) = HeldIn(pc), \A q \in Requests : f[q] = "starting" => pc[q] = "starting",
           proc' = proc, UNCHANGED <<state, idleProcesses, benchmarkKeys>>
    PROVE  NoMore /\ SameOwners
<1>1. HeldIn(pc') = HeldIn(f) /\ \A q \in Requests : pc'[q] = "starting" <=> f[q] = "starting"
  BY WakeFollows, FollowsHolders
<1> QED BY <1>1 DEF NoMore, SameOwners

\* A discard takes a process from all its owners; whoever leaves had one of these.
LEMMA DroppingKnown ==
    ASSUME NEW f \in [Requests -> Phases], NEW a, NEW byKey, NEW S, Drop(S, f, a, byKey),
           pc \in [Requests -> Phases],
           \A q \in HeldIn(pc) : proc[q] \in Procs /\ (q \in HeldIn(f) \/ proc[q] \in S),
           proc' = proc
    PROVE  /\ SameOwners
           /\ \A p \in Procs : state'[p] = "up" => state[p] = "up" /\ p \notin S
           /\ \A q \in Requests : pc'[q] = "starting" <=> f[q] = "starting"
<1>1. HeldIn(pc') = HeldIn(f) /\ \A q \in Requests : pc'[q] = "starting" <=> f[q] = "starting"
  BY DropFollows, FollowsHolders
<1>2. \A p \in Procs : /\ state'[p] = IF p \in S THEN "defunct" ELSE state[p]
                       /\ benchmarkKeys'[p] = IF p \in S THEN NoKey ELSE benchmarkKeys[p]
  BY DEF Drop
<1>3. \A k \in Keys : idleProcesses'[k] = idleProcesses[k] \ S
  BY DEF Drop
<1> QED BY <1>1, <1>2, <1>3 DEF SameOwners

\* The steps that move no process.
LEMMA QuietKnown ==
    ASSUME IInv, NEW r \in Requests,
           \/ SubmitDirect(r) \/ SubmitControl(r) \/ Reject(r) \/ QueueTimeout(r)
           \/ Dispatch(r) \/ JobEvent(r) \/ Elapse(r) \/ Answer(r)
           \/ ControlSettle(r) \/ ControlFail(r) \/ CancelQueuedListings
    PROVE  NoMore /\ SameOwners
<1>0. pc \in [Requests -> Phases] /\ proc \in [Requests -> Procs \cup {NoProc}]
  BY DEF IInv, TypeOK
<1> USE DEF poolVars, callVars, permitVars, HeldIn, HoldingPhases
<1>1. UNCHANGED <<state, idleProcesses, benchmarkKeys>>
  BY DEF SubmitDirect, SubmitControl, Reject, QueueTimeout, Dispatch, JobEvent, Elapse, Answer,
         ControlSettle, ControlFail, CancelQueuedListings
<1>2. \A q \in HeldIn(pc) : q \in HeldIn(pc') /\ proc'[q] = proc[q]
  BY <1>0 DEF SubmitDirect, SubmitControl, Reject, QueueTimeout, Dispatch, JobEvent, Elapse, Answer,
              ControlSettle, ControlFail, CancelQueuedListings
<1>3. \A q \in Requests : pc'[q] = "starting" => pc[q] = "starting"
  BY <1>0 DEF SubmitDirect, SubmitControl, Reject, QueueTimeout, Dispatch, JobEvent, Elapse, Answer,
              ControlSettle, ControlFail, CancelQueuedListings
<1> QED BY <1>1, <1>2, <1>3 DEF NoMore, SameOwners

\* The steps that wake waiters and move no process.
LEMMA WakingActionsKnown ==
    ASSUME IInv, NEW r \in Requests,
           \/ SubmitOrdinary(r) \/ GrantedTooLate(r) \/ StartFails(r)
           \/ PollUnfinished(r) \/ Cancel(r)
    PROVE  NoMore /\ SameOwners
<1>0. pc \in [Requests -> Phases]
  BY DEF IInv, TypeOK
<1>a. ASSUME NEW ph \in Phases \ HoldingPhases, ph # "starting", pc[r] \notin HoldingPhases,
             \E a, byKey : WakeWaiters([pc EXCEPT ![r] = ph], a, byKey),
             proc' = proc, UNCHANGED poolVars
      PROVE  NoMore /\ SameOwners
  <2>1. /\ [pc EXCEPT ![r] = ph] \in [Requests -> Phases]
        /\ HeldIn([pc EXCEPT ![r] = ph]) = HeldIn(pc)
        /\ \A q \in Requests : [pc EXCEPT ![r] = ph][q] = "starting" => pc[q] = "starting"
    BY <1>0, <1>a DEF HeldIn
  <2> QED BY <1>0, <1>a, <2>1, WakingKnown DEF poolVars
<1> USE DEF callVars
<1>1. {"queued", "failed", "cancelled", "done"} \subseteq Phases \ HoldingPhases
  BY DEF Phases, FinalPhases, HoldingPhases
<1>2. ASSUME LeaveEmptyHanded(r), pc[r] \in {"granted", "starting"}, proc' = proc, UNCHANGED poolVars
      PROVE  NoMore /\ SameOwners
  <2> DEFINE ph == IF r \in cancelled THEN "cancelled" ELSE "failed"
  <2>1. ph \in Phases \ HoldingPhases /\ ph # "starting" /\ pc[r] \notin HoldingPhases
    BY <1>1, <1>2 DEF HoldingPhases
  <2>2. WakeWaiters([pc EXCEPT ![r] = ph], active - 1, ByKeyWithout(r))
    BY <1>2 DEF LeaveEmptyHanded
  <2> HIDE DEF ph
  <2> QED BY <1>a, <1>2, <2>1, <2>2
<1>3. CASE SubmitOrdinary(r)
  BY <1>1, <1>3, <1>a DEF SubmitOrdinary, HoldingPhases
<1>4. CASE GrantedTooLate(r) \/ StartFails(r)
  BY <1>2, <1>4 DEF GrantedTooLate, StartFails
<1>5. CASE PollUnfinished(r)
  BY <1>1, <1>5, <1>a DEF PollUnfinished, HoldingPhases
<1>6. CASE Cancel(r)
  <2> DEFINE f == [pc EXCEPT ![r] = IF @ = "queued" THEN "cancelled" ELSE @]
  <2>1. /\ f \in [Requests -> Phases] /\ HeldIn(f) = HeldIn(pc)
        /\ \A q \in Requests : f[q] = "starting" => pc[q] = "starting"
    BY <1>0, <1>1 DEF HeldIn, HoldingPhases
  <2>2. WakeWaiters(f, active, activeByKey) /\ proc' = proc /\ UNCHANGED poolVars
    BY <1>6 DEF Cancel
  <2> HIDE DEF f
  <2> QED BY <1>0, <2>1, <2>2, WakingKnown DEF poolVars
<1> QED BY <1>3, <1>4, <1>5, <1>6

\* The steps that only discard processes.
LEMMA DroppingActionsKnown ==
    ASSUME IInv, NEW r \in Requests,
           \/ Watchdog(r) \/ Fail(r) \/ PollFail(r)
           \/ Settle(r) /\ ~CanIdle(KeyOf[r], proc[r])
           \/ PollFinished(r) /\ ~CanIdle(KeyOf[r], proc[r])
           \/ (\E p \in Procs : Crash(p)) \/ CancelListings
    PROVE  NoMore /\ SameOwners
<1>0. pc \in [Requests -> Phases] /\ \A q \in HeldIn(pc) : proc[q] \in Procs
  BY DEF IInv, TypeOK, Owning
<1>a. ASSUME NEW ph \in FinalPhases, proc' = proc,
             \E a, byKey : Drop({proc[r]}, [pc EXCEPT ![r] = ph], a, byKey)
      PROVE  NoMore /\ SameOwners
  <2>1. /\ [pc EXCEPT ![r] = ph] \in [Requests -> Phases]
        /\ \A q \in HeldIn(pc) : q \in HeldIn([pc EXCEPT ![r] = ph]) \/ proc[q] \in {proc[r]}
        /\ \A q \in Requests : [pc EXCEPT ![r] = ph][q] = "starting" => pc[q] = "starting"
    BY <1>0 DEF HeldIn, Phases, FinalPhases
  <2> QED BY <1>0, <1>a, <2>1, DroppingKnown DEF NoMore
<1>b. ASSUME NEW f \in [Requests -> Phases], HeldIn(f) = HeldIn(pc),
             \A q \in Requests : f[q] = "starting" => pc[q] = "starting",
             \E S, a, byKey : Drop(S, f, a, byKey), proc' = proc
      PROVE  NoMore /\ SameOwners
  BY <1>0, <1>b, DroppingKnown DEF NoMore
<1> USE DEF callVars
<1>1. CASE Watchdog(r) \/ \E p \in Procs : Crash(p)
  BY <1>0, <1>1, <1>b DEF Watchdog, Crash, Kill
<1>2. CASE Fail(r)
  <2> DEFINE ph == IF r \in cancelled THEN "cancelled" ELSE "failed"
  <2>1. ph \in FinalPhases
    BY DEF FinalPhases
  <2>2. Drop({proc[r]}, [pc EXCEPT ![r] = ph], active - 1, ByKeyWithout(r)) /\ proc' = proc
    BY <1>2 DEF Fail
  <2> HIDE DEF ph
  <2> QED BY <1>a, <2>1, <2>2
<1>3. CASE PollFail(r)
  BY <1>3, <1>a DEF PollFail, FinalPhases
<1>4. CASE Settle(r) /\ ~CanIdle(KeyOf[r], proc[r])
  BY <1>4, <1>a DEF Settle, FinalPhases
<1>5. CASE PollFinished(r) /\ ~CanIdle(KeyOf[r], proc[r])
  BY <1>5, <1>a DEF PollFinished, FinalPhases
<1>6. CASE CancelListings
  <2> DEFINE f == [q \in Requests |-> IF q \in Listings /\ pc[q] = "queued"
                                      THEN "cancelled" ELSE pc[q]]
  <2>1. /\ f \in [Requests -> Phases] /\ HeldIn(f) = HeldIn(pc)
        /\ \A q \in Requests : f[q] = "starting" => pc[q] = "starting"
    BY <1>0 DEF HeldIn, HoldingPhases, Phases, FinalPhases
  <2>2. (\E S, a, byKey : Drop(S, f, a, byKey)) /\ proc' = proc
    BY <1>6 DEF CancelListings, Kill
  <2> HIDE DEF f
  <2> QED BY <2>1, <2>2, <1>b
<1> QED BY <1>1, <1>2, <1>3, <1>4, <1>5, <1>6

\* The steps that hand a process from one owner to the next.
LEMMA HandOver ==
    ASSUME IInv, AllKnown, NEW r \in Requests,
           \/ ReuseIdle(r) \/ PinBenchmark(r)
           \/ Settle(r) /\ CanIdle(KeyOf[r], proc[r])
           \/ PollFinished(r) /\ CanIdle(KeyOf[r], proc[r])
    PROVE  NoMore /\ AllKnown'
<1>0. /\ pc \in [Requests -> Phases] /\ CallsTyped /\ PoolTyped /\ KeyOf[r] \in Keys
      /\ \A q \in HeldIn(pc) : proc[q] \in Procs
  BY RequestAttributes DEF IInv, TypeOK, CallsTyped, PoolTyped, Owning
<1>1. CASE ReuseIdle(r)
  <2>1. PICK p \in idleProcesses[KeyOf[r]] :
          /\ idleProcesses' = [idleProcesses EXCEPT ![KeyOf[r]] = @ \ {p}]
          /\ proc' = [proc EXCEPT ![r] = p]
    BY <1>1 DEF ReuseIdle
  <2>2. /\ pc[r] = "granted" /\ pc' = [pc EXCEPT ![r] = "acquired"]
        /\ UNCHANGED <<state, benchmarkKeys>>
    BY <1>1 DEF ReuseIdle
  <2>3. r \in HeldIn(pc') /\ proc'[r] = p
    BY <1>0, <2>1, <2>2 DEF HeldIn, HoldingPhases, CallsTyped
  <2>4. \A q \in HeldIn(pc) : q \in HeldIn(pc') /\ proc'[q] = proc[q]
    BY <1>0, <2>1, <2>2 DEF HeldIn, HoldingPhases, CallsTyped
  <2>5. \A k \in Keys : \A x \in idleProcesses[k] : x = p \/ x \in idleProcesses'[k]
    BY <1>0, <2>1 DEF PoolTyped
  <2>6. ASSUME NEW x \in Procs, state'[x] = "up" PROVE KnownProcess(x)'
    <3>1. KnownProcess(x)
      BY <2>2, <2>6 DEF AllKnown
    <3>2. CASE x = p
      BY <2>3, <3>2 DEF KnownProcess
    <3>3. CASE x # p
      BY <2>2, <2>4, <2>5, <3>1, <3>3 DEF KnownProcess
    <3> QED BY <3>2, <3>3
  <2> QED BY <1>0, <2>2, <2>6 DEF NoMore, AllKnown
<1>a. ASSUME \E a, byKey : WakeWaiters([pc EXCEPT ![r] = "done"], a, byKey)
      PROVE  /\ \A q \in HeldIn(pc) : q = r \/ q \in HeldIn(pc')
             /\ \A q \in Requests : pc'[q] = "starting" => pc[q] = "starting"
  <2>1. /\ [pc EXCEPT ![r] = "done"] \in [Requests -> Phases]
        /\ \A q \in HeldIn(pc) : q = r \/ q \in HeldIn([pc EXCEPT ![r] = "done"])
        /\ \A q \in Requests : [pc EXCEPT ![r] = "done"][q] = "starting" => pc[q] = "starting"
    BY <1>0 DEF HeldIn, Phases, FinalPhases
  <2> QED BY <1>a, <2>1, WakeFollows, FollowsHolders
<1>2. CASE PinBenchmark(r)
  <2>1. /\ benchmarkKeys' = [benchmarkKeys EXCEPT ![proc[r]] = KeyOf[r]]
        /\ proc' = proc /\ UNCHANGED <<state, idleProcesses>>
    BY <1>2 DEF PinBenchmark, callVars
  <2>2. /\ \A q \in HeldIn(pc) : q = r \/ q \in HeldIn(pc')
        /\ \A q \in Requests : pc'[q] = "starting" => pc[q] = "starting"
    BY <1>2, <1>a DEF PinBenchmark
  <2>3. \A p \in Procs : /\ p = proc[r] => benchmarkKeys'[p] # NoKey
                         /\ p # proc[r] => benchmarkKeys'[p] = benchmarkKeys[p]
    BY <1>0, <2>1, SentinelAssumption DEF PoolTyped
  <2>4. AllKnown'
    BY <2>1, <2>2, <2>3 DEF AllKnown, KnownProcess
  <2> QED BY <2>1, <2>2, <2>4 DEF NoMore
<1>3. CASE (Settle(r) \/ PollFinished(r)) /\ CanIdle(KeyOf[r], proc[r])
  <2>1. /\ idleProcesses' = [idleProcesses EXCEPT ![KeyOf[r]] = @ \cup {proc[r]}]
        /\ benchmarkKeys' = benchmarkKeys \/ benchmarkKeys' = [benchmarkKeys EXCEPT ![proc[r]] = NoKey]
        /\ proc' = proc /\ state' = state
        /\ \E a, byKey : WakeWaiters([pc EXCEPT ![r] = "done"], a, byKey)
    BY <1>3 DEF Settle, PollFinished, callVars
  <2>2. /\ \A q \in HeldIn(pc) : q = r \/ q \in HeldIn(pc')
        /\ \A q \in Requests : pc'[q] = "starting" => pc[q] = "starting"
    BY <2>1, <1>a
  <2>3. /\ \A k \in Keys : idleProcesses[k] \subseteq idleProcesses'[k]
        /\ proc[r] \in idleProcesses'[KeyOf[r]]
        /\ \A p \in Procs : p # proc[r] => benchmarkKeys'[p] = benchmarkKeys[p]
    BY <1>0, <2>1 DEF PoolTyped
  <2>4. AllKnown'
    BY <1>0, <2>1, <2>2, <2>3 DEF AllKnown, KnownProcess
  <2> QED BY <2>1, <2>2, <2>4 DEF NoMore
<1> QED BY <1>1, <1>2, <1>3

\* A start makes room first: idle processes go until one more fits, and if they
\* do not suffice, all of them do, because every other live process and every
\* other start goes with a permit of its own.
LEMMA BeginStartRoom ==
    ASSUME IInv, AllKnown, ProcessesBounded, NEW r \in Requests, BeginStart(r)
    PROVE  AllKnown' /\ ProcessesBounded'
<1>0. /\ pc \in [Requests -> Phases] /\ PoolTyped /\ proc' = proc /\ pc[r] = "granted"
      /\ \A q \in HeldIn(pc) : proc[q] \in Procs
  BY DEF IInv, TypeOK, PoolTyped, Owning, BeginStart, callVars
<1> DEFINE f == [pc EXCEPT ![r] = "starting"]
<1>1. PICK E \in SUBSET Idle : Evicts(E) /\ Drop(E, f, active, activeByKey)
  BY DEF BeginStart
<1>2. /\ f \in [Requests -> Phases] /\ HeldIn(f) = HeldIn(pc)
      /\ \A q \in Requests : f[q] = "starting" <=> (q = r \/ pc[q] = "starting")
  BY <1>0 DEF HeldIn, HoldingPhases, Phases, EnteredPhases
<1> HIDE DEF f
<1>3. /\ SameOwners
      /\ \A p \in Procs : state'[p] = "up" => state[p] = "up" /\ p \notin E
      /\ \A q \in Requests : pc'[q] = "starting" <=> f[q] = "starting"
  BY <1>0, <1>1, <1>2, DroppingKnown
<1>4. AllKnown'
  BY <1>3 DEF AllKnown, KnownProcess, SameOwners
<1>5. /\ Up' \subseteq Up \ E /\ Starting' = Starting \cup {r} /\ r \notin Starting
      /\ E \subseteq Idle /\ Idle \subseteq Up
  <2>1. Up' \subseteq Up \ E
    BY <1>3 DEF Up
  <2>2. Starting' = Starting \cup {r} /\ r \notin Starting
    BY <1>0, <1>2, <1>3 DEF Starting
  <2>3. Idle \subseteq Up
    BY <1>0 DEF IInv, Owning, Idle, Up, PoolTyped
  <2> QED BY <1>1, <2>1, <2>2, <2>3
<1>6. /\ IsFiniteSet(Up) /\ IsFiniteSet(Idle) /\ IsFiniteSet(E) /\ IsFiniteSet(Starting)
      /\ IsFiniteSet(Up \ E)
  <2>1. Up \subseteq Procs /\ Starting \subseteq Requests
    BY DEF Up, Starting
  <2> QED BY <1>5, <2>1, FS_Subset, FS_Difference, RequestsAssumption
<1> DEFINE u == Cardinality(Up)
           s == Cardinality(Starting)
           e == Cardinality(E)
           u2 == Cardinality(Up')
           s2 == Cardinality(Starting')
<1>7. /\ u \in Nat /\ s \in Nat /\ e \in Nat /\ u2 \in Nat /\ s2 \in Nat
      /\ u2 <= u - e /\ s2 = s + 1
  <2>1. Cardinality(Up \ E) = u - Cardinality(Up \cap E)
    BY <1>6, FS_Difference
  <2>2. Up \cap E = E
    BY <1>5
  <2>3. u2 <= Cardinality(Up \ E) /\ IsFiniteSet(Up')
    BY <1>5, <1>6, FS_Subset
  <2>4. s2 = s + 1 /\ IsFiniteSet(Starting')
    BY <1>5, <1>6, FS_AddElement
  <2> QED BY <1>6, <2>1, <2>2, <2>3, <2>4, FS_CardinalityType
<1>8. u + s <= MaxProcesses
  BY DEF ProcessesBounded
<1>9. CASE u + s - MaxProcesses + 1 <= 0
  <2> HIDE DEF u, s, u2, s2, e
  <2>1. u2 + s2 <= MaxProcesses
    BY <1>7, <1>9, LimitAssumption
  <2> QED BY <1>4, <2>1 DEF u2, s2, ProcessesBounded
<1>10. CASE u + s - MaxProcesses + 1 > 0 /\ e = u + s - MaxProcesses + 1
  <2> HIDE DEF u, s, u2, s2, e
  <2>1. u2 + s2 <= MaxProcesses
    BY <1>7, <1>10, LimitAssumption
  <2> QED BY <1>4, <2>1 DEF u2, s2, ProcessesBounded
<1>11. CASE E = Idle
  <2> DEFINE W == {proc[q] : q \in HeldIn(pc)}
             P == PinnedIn(benchmarkKeys)
  <2>1. Up' \subseteq W \cup P
    <3> SUFFICES ASSUME NEW p \in Up' PROVE p \in W \cup P
      OBVIOUS
    <3>1. p \in Procs /\ p \in Up /\ p \notin Idle
      BY <1>5, <1>11 DEF Up
    <3>2. KnownProcess(p)
      BY <3>1 DEF AllKnown, Up
    <3> QED BY <3>1, <3>2 DEF KnownProcess, Idle, PinnedIn
  <2>2. /\ IsFiniteSet(HeldIn(pc)) /\ IsFiniteSet(W) /\ IsFiniteSet(P)
        /\ Cardinality(W) <= Cardinality(HeldIn(pc))
    <3>1. HeldIn(pc) \subseteq Requests
      BY DEF HeldIn
    <3>2. IsFiniteSet(HeldIn(pc))
      BY <3>1, FS_Subset, RequestsAssumption
    <3>3. IsFiniteSet(W) /\ Cardinality(W) <= Cardinality(HeldIn(pc))
      <4> DEFINE g == [q \in HeldIn(pc) |-> proc[q]]
      <4>1. g \in Surjection(HeldIn(pc), W)
        BY DEF Surjection
      <4> HIDE DEF g, W
      <4> QED BY <3>2, <4>1, FS_Surjection
    <3> QED BY <3>2, <3>3, PinnedFinite
  <2>3. u2 <= Cardinality(HeldIn(pc)) + Cardinality(P)
    <3>1. u2 <= Cardinality(W \cup P) /\ IsFiniteSet(W \cup P)
      BY <2>1, <2>2, FS_Union, FS_Subset
    <3>2. Cardinality(W \cup P) = Cardinality(W) + Cardinality(P) - Cardinality(W \cap P)
      BY <2>2, FS_Union
    <3>3. /\ Cardinality(W) \in Nat /\ Cardinality(P) \in Nat /\ Cardinality(W \cap P) \in Nat
          /\ Cardinality(HeldIn(pc)) \in Nat /\ Cardinality(W \cup P) \in Nat
      BY <2>2, <3>1, FS_CardinalityType, FS_Intersection
    <3> HIDE DEF W, P, u2
    <3> QED BY <1>7, <2>2, <3>1, <3>2, <3>3
  <2>4. Cardinality(HeldIn(pc)) + s2 <= Cardinality(EnteredIn(pc))
    <3>1. /\ HeldIn(pc) \cup Starting' \subseteq EnteredIn(pc)
          /\ HeldIn(pc) \cap Starting' = {}
      BY <1>0, <1>5 DEF HeldIn, Starting, EnteredIn, EnteredPhases, HoldingPhases
    <3>2. IsFiniteSet(EnteredIn(pc)) /\ IsFiniteSet(Starting')
      BY <1>5, <1>6, EnteredFinite, FS_AddElement
    <3>3. Cardinality(HeldIn(pc) \cup Starting') = Cardinality(HeldIn(pc)) + s2
      BY <2>2, <3>1, <3>2, DisjointUnion
    <3> QED BY <3>1, <3>2, <3>3, FS_Subset
  <2>5. Cardinality(EnteredIn(pc)) + Cardinality(P) <= MaxProcesses
    <3>1. /\ active \in Nat /\ active >= Cardinality(EnteredIn(pc)) + Cardinality(P)
          /\ active <= MaxProcesses
      BY DEF IInv, Accounted, Bounded
    <3>2. Cardinality(EnteredIn(pc)) \in Nat /\ Cardinality(P) \in Nat
      BY EnteredFinite, PinnedFinite
    <3> HIDE DEF P
    <3> QED BY <3>1, <3>2, LimitAssumption
  <2>6. /\ Cardinality(EnteredIn(pc)) \in Nat /\ Cardinality(P) \in Nat
        /\ Cardinality(HeldIn(pc)) \in Nat
    BY <2>2, EnteredFinite, PinnedFinite, FS_CardinalityType
  <2> HIDE DEF P, W, u, s, u2, s2, e
  <2>7. u2 + s2 <= MaxProcesses
    BY <1>7, <2>3, <2>4, <2>5, <2>6, LimitAssumption
  <2> QED BY <1>4, <2>7 DEF u2, s2, ProcessesBounded
<1>12. \/ u + s - MaxProcesses + 1 <= 0
       \/ u + s - MaxProcesses + 1 > 0 /\ e = u + s - MaxProcesses + 1
       \/ E = Idle
  BY <1>1 DEF Evicts
<1> QED BY <1>9, <1>10, <1>11, <1>12

\* A process that comes up takes the place of its start.
LEMMA StartedRoom ==
    ASSUME IInv, AllKnown, ProcessesBounded, NEW r \in Requests, Started(r)
    PROVE  AllKnown' /\ ProcessesBounded'
<1>0. /\ pc \in [Requests -> Phases] /\ CallsTyped /\ PoolTyped /\ pc[r] = "starting"
      /\ UNCHANGED <<idleProcesses, benchmarkKeys>>
      /\ \A q \in HeldIn(pc) : proc[q] \in Procs /\ q # r
  BY DEF IInv, TypeOK, CallsTyped, PoolTyped, Owning, Started, HeldIn, HoldingPhases
<1>1. PICK p \in Procs :
        /\ state[p] = "unborn"
        /\ IF disposed
           THEN /\ state' = [state EXCEPT ![p] = "defunct"]
                /\ LeaveEmptyHanded(r) /\ proc' = proc
           ELSE /\ state' = [state EXCEPT ![p] = "up"]
                /\ proc' = [proc EXCEPT ![r] = p]
                /\ pc' = [pc EXCEPT ![r] = "acquired"]
  BY DEF Started
<1>2. CASE disposed
  <2> DEFINE ph == IF r \in cancelled THEN "cancelled" ELSE "failed"
             f == [pc EXCEPT ![r] = ph]
  <2>1. /\ f \in [Requests -> Phases] /\ HeldIn(f) = HeldIn(pc)
        /\ \A q \in Requests : f[q] = "starting" => pc[q] = "starting"
    BY <1>0 DEF HeldIn, HoldingPhases, Phases, FinalPhases
  <2>2. WakeWaiters(f, active - 1, ByKeyWithout(r)) /\ proc' = proc
    BY <1>1, <1>2 DEF LeaveEmptyHanded
  <2> HIDE DEF f
  <2>3. HeldIn(pc') = HeldIn(f) /\ \A q \in Requests : pc'[q] = "starting" <=> f[q] = "starting"
    BY <2>1, <2>2, WakeFollows, FollowsHolders
  <2>4. \A q \in Procs : state'[q] = "up" => state[q] = "up"
    BY <1>0, <1>1, <1>2 DEF PoolTyped
  <2>5. NoMore /\ SameOwners
    BY <1>0, <2>1, <2>2, <2>3, <2>4 DEF NoMore, SameOwners
  <2> QED BY <2>5, KnownKept, FewerProcesses
<1>3. CASE ~disposed
  <2>1. /\ state' = [state EXCEPT ![p] = "up"] /\ proc' = [proc EXCEPT ![r] = p]
        /\ pc' = [pc EXCEPT ![r] = "acquired"]
    BY <1>1, <1>3
  <2>2. /\ Up' = Up \cup {p} /\ p \notin Up
        /\ Starting = Starting' \cup {r} /\ r \notin Starting'
    BY <1>0, <1>1, <2>1 DEF Up, Starting, PoolTyped
  <2>3. IsFiniteSet(Up) /\ IsFiniteSet(Starting')
    <3>1. Up \subseteq Procs /\ Starting' \subseteq Requests
      BY DEF Up, Starting
    <3> QED BY <3>1, FS_Subset, RequestsAssumption
  <2>4. /\ Cardinality(Up') = Cardinality(Up) + 1
        /\ Cardinality(Starting) = Cardinality(Starting') + 1
        /\ Cardinality(Up) \in Nat /\ Cardinality(Starting') \in Nat
    BY <2>2, <2>3, FS_AddElement, FS_CardinalityType
  <2>5. ProcessesBounded'
    BY <2>4, LimitAssumption DEF ProcessesBounded
  <2>6. /\ r \in HeldIn(pc') /\ proc'[r] = p
        /\ \A q \in HeldIn(pc) : q \in HeldIn(pc') /\ proc'[q] = proc[q]
    BY <1>0, <2>1 DEF HeldIn, HoldingPhases, CallsTyped
  <2>7. ASSUME NEW x \in Procs, state'[x] = "up" PROVE KnownProcess(x)'
    <3>1. CASE x = p
      BY <2>6, <3>1 DEF KnownProcess
    <3>2. CASE x # p
      <4>1. KnownProcess(x)
        BY <1>0, <2>1, <2>7, <3>2 DEF AllKnown, PoolTyped
      <4> QED BY <1>0, <2>6, <4>1 DEF KnownProcess
    <3> QED BY <3>1, <3>2
  <2> QED BY <2>5, <2>7 DEF AllKnown
<1> QED BY <1>2, <1>3

\* Every step keeps the live processes known and within the bound.
LEMMA RoomStep ==
    ASSUME IInv, AllKnown, ProcessesBounded, [Next]_vars
    PROVE  AllKnown' /\ ProcessesBounded'
<1>1. ASSUME NoMore, SameOwners PROVE AllKnown' /\ ProcessesBounded'
  BY <1>1, KnownKept, FewerProcesses
<1>2. ASSUME NEW r \in Requests,
             \/ SubmitDirect(r) \/ SubmitControl(r) \/ Reject(r) \/ QueueTimeout(r)
             \/ Dispatch(r) \/ JobEvent(r) \/ Elapse(r) \/ Answer(r)
             \/ ControlSettle(r) \/ ControlFail(r) \/ CancelQueuedListings
      PROVE  AllKnown' /\ ProcessesBounded'
  BY <1>1, <1>2, QuietKnown
<1>3. ASSUME NEW r \in Requests,
             \/ SubmitOrdinary(r) \/ GrantedTooLate(r) \/ StartFails(r)
             \/ PollUnfinished(r) \/ Cancel(r)
      PROVE  AllKnown' /\ ProcessesBounded'
  BY <1>1, <1>3, WakingActionsKnown
<1>4. ASSUME NEW r \in Requests,
             \/ Watchdog(r) \/ Fail(r) \/ PollFail(r)
             \/ Settle(r) /\ ~CanIdle(KeyOf[r], proc[r])
             \/ PollFinished(r) /\ ~CanIdle(KeyOf[r], proc[r])
             \/ (\E p \in Procs : Crash(p)) \/ CancelListings
      PROVE  AllKnown' /\ ProcessesBounded'
  BY <1>1, <1>4, DroppingActionsKnown
<1>5. ASSUME NEW r \in Requests,
             \/ ReuseIdle(r) \/ PinBenchmark(r)
             \/ Settle(r) /\ CanIdle(KeyOf[r], proc[r])
             \/ PollFinished(r) /\ CanIdle(KeyOf[r], proc[r])
      PROVE  AllKnown' /\ ProcessesBounded'
  BY <1>5, HandOver, FewerProcesses
<1>6. ASSUME NEW r \in Requests, BeginStart(r) \/ Started(r)
      PROVE  AllKnown' /\ ProcessesBounded'
  BY <1>6, BeginStartRoom, StartedRoom
<1>7. ASSUME NEW p \in Procs, Crash(p)
      PROVE  AllKnown' /\ ProcessesBounded'
  <2>1. pc \in [Requests -> Phases] /\ \A q \in HeldIn(pc) : proc[q] \in Procs
    BY DEF IInv, TypeOK, Owning
  <2>2. (\E S : Drop(S, pc, active, activeByKey)) /\ proc' = proc
    BY <1>7 DEF Crash, Kill, callVars
  <2>3. NoMore /\ SameOwners
    BY <2>1, <2>2, DroppingKnown DEF NoMore
  <2> QED BY <1>1, <2>3
<1>8. CASE CancelListings
  BY <1>4, <1>8 DEF CancelListings, Listings
<1>9. CASE CancelQueuedListings
  BY <1>2, <1>9 DEF CancelQueuedListings, QueuedIn
<1>10. CASE Dispose
  <2>1. \A p \in Procs : state'[p] # "up"
    BY <1>10 DEF Dispose, Up
  <2>2. \A q \in Requests : pc'[q] = "starting" => pc[q] = "starting"
    BY <1>10 DEF Dispose, FailPending
  <2> QED BY <2>1, <2>2, FewerProcesses DEF NoMore, AllKnown
<1>11. CASE UNCHANGED vars
  <2>1. NoMore /\ SameOwners
    BY <1>11 DEF vars, callVars, permitVars, poolVars, NoMore, SameOwners, HeldIn
  <2> QED BY <1>1, <2>1
<1> QED BY <1>2, <1>3, <1>4, <1>5, <1>6, <1>7, <1>8, <1>9, <1>10, <1>11 DEF Next, Submit, HostStep

\* Live processes and starts together never exceed the size of the pool.
THEOREM ProcessesAreBounded == Spec => []ProcessesBounded
<1>1. ASSUME Init PROVE AllKnown /\ ProcessesBounded
  <2>1. Up = {} /\ Starting = {}
    BY <1>1 DEF Init, Up, Starting
  <2>2. ProcessesBounded
    BY <2>1, FS_EmptySet, LimitAssumption DEF ProcessesBounded
  <2> QED BY <1>1, <2>2 DEF Init, AllKnown
<1>2. IInv /\ AllKnown /\ ProcessesBounded /\ [Next]_vars => (AllKnown /\ ProcessesBounded)'
  BY RoomStep
<1> QED BY <1>1, <1>2, Invariance, PTL DEF Spec

-----------------------------------------------------------------------------
(* Pinned processes can be found again                                     *)

\* Calls between _enter and their finally block.
InFlight(r) == pc[r] \in EnteredPhases \cup {"queued"}

\* The engine gives each started benchmark a run id of its own.
StartsAreFresh ==
    \A r, s \in Requests :
        (MethodOf[r] = "startBenchmark" /\ MethodOf[s] = "startBenchmark" /\ RunOf[r] = RunOf[s])
            => r = s

\* The caller has at most one launch of a run under way.
OneLaunchInFlight ==
    \A r, s \in Requests :
        (IsLaunch(r) /\ IsLaunch(s) /\ RunOf[r] = RunOf[s] /\ InFlight(r) /\ InFlight(s)) => r = s

\* A run has no owner while a launch of it is under way, nor before its start is
\* done, and nobody resumes it before that.
LaunchesUnowned ==
    /\ \A r \in Requests : (IsLaunch(r) /\ InFlight(r)) => benchmarkOwners[RunOf[r]] = NoProc
    /\ \A s \in Requests : (MethodOf[s] = "startBenchmark" /\ pc[s] # "done") =>
          /\ benchmarkOwners[RunOf[s]] = NoProc
          /\ \A r \in Requests :
                (MethodOf[r] = "resumeBenchmark" /\ RunOf[r] = RunOf[s]) => pc[r] = "new"

\* A step that pins nothing: owners are only forgotten, and the owner entries of
\* a process that stays pinned stay.
PinsOnlyGo ==
    /\ \A x \in Runs : benchmarkOwners'[x] \in {benchmarkOwners[x], NoProc}
    /\ \A p \in Procs : benchmarkKeys'[p] # NoKey =>
          /\ benchmarkKeys[p] # NoKey
          /\ \A x \in Runs : benchmarkOwners[x] = p => benchmarkOwners'[x] = p

\* A discard forgets exactly the owner entries of the processes it unpins.
LEMMA DropPins ==
    ASSUME NEW S, NEW f, NEW a, NEW byKey, Drop(S, f, a, byKey)
    PROVE  PinsOnlyGo
BY DEF Drop, PinsOnlyGo

\* Only PinBenchmark pins.
LEMMA PinsStep ==
    ASSUME IInv, [Next]_vars, \A r \in Requests : ~PinBenchmark(r)
    PROVE  PinsOnlyGo
<1> USE DEF poolVars, callVars, permitVars
<1>1. ASSUME UNCHANGED <<benchmarkOwners, benchmarkKeys>> PROVE PinsOnlyGo
  BY <1>1 DEF PinsOnlyGo
<1>2. ASSUME NEW r \in Requests,
             \/ Submit(r) \/ QueueTimeout(r) \/ GrantedTooLate(r) \/ ReuseIdle(r) \/ Dispatch(r)
             \/ PollUnfinished(r) \/ ControlSettle(r) \/ ControlFail(r)
             \/ Started(r) \/ StartFails(r) \/ JobEvent(r) \/ Answer(r) \/ Elapse(r) \/ Cancel(r)
             \/ CancelQueuedListings
      PROVE  PinsOnlyGo
  BY <1>1, <1>2 DEF Submit, SubmitDirect, SubmitControl, SubmitOrdinary, Reject, QueueTimeout,
       GrantedTooLate, ReuseIdle, Dispatch, PollUnfinished, ControlSettle, ControlFail, Started,
       StartFails, JobEvent, Answer, Elapse, Cancel, CancelQueuedListings
<1>3. ASSUME NEW r \in Requests, BeginStart(r) \/ Fail(r) \/ PollFail(r) \/ Watchdog(r)
      PROVE  PinsOnlyGo
  BY <1>3, DropPins DEF BeginStart, Fail, PollFail, Watchdog, Kill
<1>4. ASSUME NEW r \in Requests, Settle(r)
      PROVE  PinsOnlyGo
  BY <1>1, <1>4, DropPins DEF Settle
<1>5. ASSUME NEW r \in Requests, PollFinished(r)
      PROVE  PinsOnlyGo
  <2>1. CASE CanIdle(KeyOf[r], proc[r])
    <3>1. /\ benchmarkOwners' = [x \in Runs |->
                IF benchmarkOwners[x] = proc[r] THEN NoProc ELSE benchmarkOwners[x]]
          /\ benchmarkKeys' = [benchmarkKeys EXCEPT ![proc[r]] = NoKey]
      BY <1>5, <2>1 DEF PollFinished
    <3>2. benchmarkKeys \in [Procs -> Keys \cup {NoKey}]
      BY DEF IInv, TypeOK
    <3> QED BY <3>1, <3>2 DEF PinsOnlyGo
  <2>2. CASE ~CanIdle(KeyOf[r], proc[r])
    BY <1>5, <2>2, DropPins DEF PollFinished
  <2> QED BY <2>1, <2>2
<1>6. CASE (\E p \in Procs : Crash(p)) \/ CancelListings
  BY <1>6, DropPins DEF Crash, CancelListings, Kill
<1>7. CASE CancelQueuedListings \/ UNCHANGED vars
  BY <1>1, <1>7 DEF CancelQueuedListings, vars
<1>8. CASE Dispose
  BY <1>8 DEF Dispose, PinsOnlyGo
<1> QED BY <1>2, <1>3, <1>4, <1>5, <1>6, <1>7, <1>8 DEF Next, HostStep

\* A call that comes under way was submitted through the queue, about a run that
\* nobody owns.
LEMMA ComesUnderWay ==
    ASSUME IInv, NEW r \in Requests, Moves(r), InFlight(r)', ~InFlight(r)
    PROVE  pc[r] = "new" /\ (ParamRun(r) # NoRun => benchmarkOwners[ParamRun(r)] = NoProc)
<1>1. Submit(r) /\ pc[r] = "new" /\ pc'[r] \in {"queued", "granted"}
  BY DEF Moves, InFlight, EnteredPhases, HoldingPhases, DirectPhases, FinalPhases
<1>2. pc \in [Requests -> Phases]
  BY DEF IInv, TypeOK
<1> QED BY <1>1, <1>2 DEF Submit, SubmitDirect, SubmitControl, SubmitOrdinary, Reject

\* The owners of a run whose launch is under way, step by step.
LEMMA LaunchStep ==
    ASSUME StartsAreFresh, IInv, LaunchesUnowned, PinnedReachable, OneLaunchInFlight, [Next]_vars
    PROVE  LaunchesUnowned' /\ PinnedReachable'
<1>0. /\ pc \in [Requests -> Phases] /\ benchmarkOwners \in [Runs -> Procs \cup {NoProc}]
      /\ benchmarkKeys \in [Procs -> Keys \cup {NoKey}]
      /\ \A q \in Requests : Moves(q)
      /\ \A q \in Requests : IsLaunch(q) => RunOf[q] \in Runs
  BY CallMoves, RequestAttributes DEF IInv, TypeOK, IsLaunch
<1>1. ASSUME NEW r \in Requests, IsLaunch(r), InFlight(r)'
      PROVE  benchmarkOwners[RunOf[r]] = NoProc
  <2>1. CASE InFlight(r)
    BY <1>1, <2>1 DEF LaunchesUnowned
  <2>2. CASE ~InFlight(r)
    <3>1. pc[r] = "new" /\ (ParamRun(r) # NoRun => benchmarkOwners[ParamRun(r)] = NoProc)
      BY <1>0, <1>1, <2>2, ComesUnderWay
    <3>2. CASE MethodOf[r] = "startBenchmark"
      BY <3>1, <3>2 DEF LaunchesUnowned
    <3>3. CASE MethodOf[r] # "startBenchmark"
      BY <1>0, <1>1, <3>1, <3>3, SentinelAssumption DEF ParamRun
    <3> QED BY <3>2, <3>3
  <2> QED BY <2>1, <2>2
<1>2. ASSUME NEW s \in Requests, MethodOf[s] = "startBenchmark", pc'[s] # "done"
      PROVE  /\ pc[s] # "done" /\ benchmarkOwners[RunOf[s]] = NoProc
             /\ \A r \in Requests : (MethodOf[r] = "resumeBenchmark" /\ RunOf[r] = RunOf[s])
                                       => pc[r] = "new" /\ pc'[r] = "new"
  <2>1. pc[s] # "done"
    BY <1>0, <1>2 DEF Moves, HoldingPhases, DirectPhases
  <2>2. ASSUME NEW r \in Requests, MethodOf[r] = "resumeBenchmark", RunOf[r] = RunOf[s]
        PROVE  pc[r] = "new" /\ pc'[r] = "new"
    <3>1. pc[r] = "new"
      BY <1>2, <2>1, <2>2 DEF LaunchesUnowned
    <3>2. pc'[r] = "new" \/ Submit(r)
      BY <1>0, <3>1 DEF Moves, HoldingPhases, DirectPhases
    <3>3. ParamRun(r) = RunOf[s] /\ RunOf[s] # NoRun
      BY <1>0, <2>2, SentinelAssumption DEF ParamRun, IsLaunch, LaunchMethods
    <3>4. ~Submit(r)
      BY <1>2, <2>1, <3>3 DEF Submit, KnownToCaller
    <3> QED BY <3>1, <3>2, <3>4
  <2> QED BY <1>2, <2>1, <2>2 DEF LaunchesUnowned
<1>3. CASE \A r \in Requests : ~PinBenchmark(r)
  <2>1. PinsOnlyGo
    BY <1>3, PinsStep
  <2>2. PinnedReachable'
    BY <1>0, <2>1 DEF PinnedReachable, Pinned, PinsOnlyGo
  <2>3. \A q \in Requests : IsLaunch(q) /\ benchmarkOwners[RunOf[q]] = NoProc
                               => benchmarkOwners'[RunOf[q]] = NoProc
    BY <1>0, <2>1 DEF PinsOnlyGo
  <2>4. \A q \in Requests : MethodOf[q] = "startBenchmark" => IsLaunch(q)
    BY DEF IsLaunch, LaunchMethods
  <2> QED BY <1>1, <1>2, <2>2, <2>3, <2>4 DEF LaunchesUnowned, IsLaunch
<1>4. CASE \E r \in Requests : PinBenchmark(r)
  <2>1. PICK r \in Requests : PinBenchmark(r)
    BY <1>4
  <2>2. /\ pc[r] = "answered" /\ IsLaunch(r) /\ InFlight(r) /\ proc[r] \in Procs
        /\ benchmarkOwners' = [benchmarkOwners EXCEPT ![RunOf[r]] = proc[r]]
        /\ benchmarkKeys' = [benchmarkKeys EXCEPT ![proc[r]] = KeyOf[r]]
    BY <2>1 DEF PinBenchmark, InFlight, EnteredPhases, HoldingPhases, IInv, Owning, HeldIn
  <2>3. pc'[r] = "done"
    <3>1. [pc EXCEPT ![r] = "done"] \in [Requests -> Phases]
      BY <1>0 DEF Phases, FinalPhases
    <3>2. Follows([pc EXCEPT ![r] = "done"])
      BY <2>1, <3>1, WakeFollows DEF PinBenchmark
    <3> QED BY <1>0, <3>2 DEF Follows
  <2>4. benchmarkOwners[RunOf[r]] = NoProc
    BY <2>2 DEF LaunchesUnowned
  <2>5. \A x \in Runs : benchmarkOwners'[x] = IF x = RunOf[r] THEN proc[r] ELSE benchmarkOwners[x]
    BY <1>0, <2>2
  <2>6. PinnedReachable'
    <3> SUFFICES ASSUME NEW p \in Procs, benchmarkKeys'[p] # NoKey
                 PROVE  \E x \in Runs : benchmarkOwners'[x] = p
      BY DEF PinnedReachable, Pinned
    <3>1. CASE p = proc[r]
      BY <1>0, <2>2, <2>5, <3>1
    <3>2. CASE p # proc[r]
      <4>1. benchmarkKeys[p] # NoKey
        BY <1>0, <2>2, <3>2
      <4>2. PICK x \in Runs : benchmarkOwners[x] = p
        BY <4>1 DEF PinnedReachable, Pinned
      <4>3. x # RunOf[r]
        BY <2>4, <4>2, SentinelAssumption
      <4> QED BY <2>5, <4>2, <4>3
    <3> QED BY <3>1, <3>2
  <2>7. ASSUME NEW q \in Requests, IsLaunch(q), InFlight(q)'
        PROVE  benchmarkOwners'[RunOf[q]] = NoProc
    <3>1. q # r
      BY <2>3, <2>7 DEF InFlight, EnteredPhases, HoldingPhases
    <3>2. pc'[q] = pc[q] \/ pc[q] # "new"
      <4>1. [pc EXCEPT ![r] = "done"] \in [Requests -> Phases]
        BY <1>0 DEF Phases, FinalPhases
      <4>2. Follows([pc EXCEPT ![r] = "done"])
        BY <2>1, <4>1, WakeFollows DEF PinBenchmark
      <4> QED BY <1>0, <3>1, <4>2 DEF Follows
    <3>3. InFlight(q)
      BY <1>0, <2>7, <3>2, ComesUnderWay DEF InFlight
    <3>4. RunOf[q] # RunOf[r]
      BY <2>2, <2>7, <3>1, <3>3 DEF OneLaunchInFlight
    <3> QED BY <1>0, <1>1, <2>5, <2>7, <3>4
  <2>8. ASSUME NEW s \in Requests, MethodOf[s] = "startBenchmark", pc'[s] # "done"
        PROVE  RunOf[s] # RunOf[r]
    <3>1. s # r
      BY <2>3, <2>8
    <3>2. MethodOf[r] \in {"startBenchmark", "resumeBenchmark"}
      BY <2>2 DEF IsLaunch, LaunchMethods
    <3>3. MethodOf[r] = "resumeBenchmark" => RunOf[r] # RunOf[s]
      BY <1>2, <2>2, <2>8
    <3> QED BY <2>8, <3>1, <3>2, <3>3 DEF StartsAreFresh
  <2>9. \A s \in Requests : MethodOf[s] = "startBenchmark" => RunOf[s] \in Runs
    BY <1>0 DEF IsLaunch, LaunchMethods
  <2> QED BY <1>2, <2>5, <2>6, <2>7, <2>8, <2>9 DEF LaunchesUnowned, IsLaunch
<1> QED BY <1>3, <1>4

\* As long as the caller has at most one launch of a run under way, the run that
\* pinned a process names it as its owner, whatever polls, deaths and
\* cancellations come in between, so that a later poll can give its permit back.
THEOREM PinnedProcessesReachable ==
    ASSUME StartsAreFresh
    PROVE  Spec /\ []OneLaunchInFlight => []PinnedReachable
<1>1. Init => LaunchesUnowned /\ PinnedReachable
  <2> SUFFICES ASSUME Init PROVE LaunchesUnowned /\ PinnedReachable
    OBVIOUS
  <2>1. PinnedReachable
    BY DEF Init, PinnedReachable, Pinned
  <2>2. \A r \in Requests : IsLaunch(r) => RunOf[r] \in Runs
    BY RequestAttributes DEF IsLaunch
  <2> QED BY <2>1, <2>2 DEF Init, LaunchesUnowned, InFlight, IsLaunch, LaunchMethods
<1>2. IInv /\ OneLaunchInFlight /\ LaunchesUnowned /\ PinnedReachable /\ [Next]_vars
        => (LaunchesUnowned /\ PinnedReachable)'
  BY LaunchStep
<1> QED BY <1>1, <1>2, Invariance, PTL DEF Spec
=============================================================================
