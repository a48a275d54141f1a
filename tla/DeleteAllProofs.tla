-------------------------- MODULE DeleteAllProofs --------------------------
(***************************************************************************)
(* What holds of every run of delete-all, for any listing, any sizes of    *)
(* its batches and its pool, whatever others do and whatever answers are   *)
(* lost.                                                                   *)
(*                                                                         *)
(* An exit code of 0 means that the bucket is empty because the batches    *)
(* cut the listing without a gap (Cut), because a thread has dealt with    *)
(* what it neither still tries nor counts as failed (Pool), and because    *)
(* the tool looks at the failures when the pool is done (Ended).  The      *)
(* entry a thread tries is the least that is left of its batch; that there *)
(* is a least one is well-founded induction over the strict subsets.       *)
(***************************************************************************)
EXTENDS DeleteAll, FiniteSetTheorems, TLAPS

-----------------------------------------------------------------------------
(* The inductive invariant                                                 *)

Dealt == {"gone", "hidden", "newer"}
Filled == {b \in Batches : batch[b] # {}}

\* The batches cut the listing from its beginning, one after the other: none is left
\* out between two of them, and there is room for one more as long as entries are.
Cut ==
    /\ Filled = 1..Submitted
    /\ \E m \in 0..listed : InBatches = 1..m /\ Submitted <= m
    /\ \A b, c \in Batches : b # c => batch[b] \cap batch[c] = {}
    /\ popped <= Submitted /\ (lister = "waiting" => popped < Submitted)
    /\ lister = "joining" => InBatches = 1..listed /\ (~aborted => listed = EntryCount)

\* A thread has dealt with the entries of its batch but for those it still tries and
\* those that failed.
Pool ==
    \A b \in Batches :
        /\ work[b].pending \cup work[b].failed \subseteq batch[b]
        /\ batch[b] = {} => work[b].at = "queued"
        /\ work[b].at # "queued" =>
              /\ work[b].at = "done" <=> work[b].pending = {}
              /\ \A e \in batch[b] \ (work[b].pending \cup work[b].failed) : cell[e] \in Dealt

\* Exit code 0 comes after a whole listing and a pool without failures.
Ended ==
    exitCode = 0 =>
        /\ lister = "done" /\ InBatches = Entries
        /\ \A b \in Filled : work[b].at = "done" /\ work[b].failed = {}

IInv == TypeOK /\ Cut /\ Pool /\ Ended

-----------------------------------------------------------------------------
(* Batches                                                                 *)

\* The entry that a thread tries is one of those it is left with: a smallest number
\* exists, as no strict subset of the numbers below it is the set of those below another.
LEMMA Least ==
    ASSUME DeleteConstants, NEW S \in SUBSET Entries, S # {}
    PROVE  Min(S) \in S
<1> DEFINE Below(x) == {y \in Entries : y < x}
<1>1. IsFiniteSet(Entries)
    BY FS_Interval DEF Entries, DeleteConstants
<1>2. IsWellFoundedOn(StrictSubsetOrdering(Entries), SUBSET Entries)
    BY <1>1, FS_StrictSubsetOrderingWellFounded, FS_FiniteSubsetsOfFinite
<1>3. PICK T \in {Below(x) : x \in S} : \A U \in {Below(x) : x \in S} : ~ (<<U, T>> \in StrictSubsetOrdering(Entries))
  <2>1. {Below(x) : x \in S} \subseteq SUBSET Entries /\ {Below(x) : x \in S} # {}
      OBVIOUS
  <2> HIDE DEF Below
  <2> QED
      BY <1>2, <2>1, WFMin
<1>4. PICK x \in S : T = Below(x)
    BY <1>3
<1>5. ASSUME NEW y \in S, ~ (x <= y) PROVE FALSE
  <2>1. y \in Nat /\ x \in Nat /\ y < x
      BY <1>5 DEF Entries, DeleteConstants
  <2>2. Below(y) \subseteq Below(x) /\ y \in Below(x) /\ y \notin Below(y)
      BY <2>1 DEF Entries, DeleteConstants
  <2>3. <<Below(y), Below(x)>> \in StrictSubsetOrdering(Entries)
      BY <2>2 DEF StrictSubsetOrdering
  <2> QED
      BY <1>3, <1>4, <2>3
<1> QED
    BY <1>5 DEF Min

\* The next batch has a number, and its thread is queued.
LEMMA SubmitStep ==
    ASSUME DeleteConstants, IInv, lister = "listing", NEW n \in listed..EntryCount,
           1..n \ InBatches # {}, Submit(1..n \ InBatches), listed' = n
    PROVE  /\ Submitted + 1 \in Batches /\ Submitted \in Nat
           /\ batch' \in [Batches -> SUBSET Entries]
           /\ batch[Submitted + 1] = {} /\ batch'[Submitted + 1] # {}
           /\ \A b \in Batches : b # Submitted + 1 => batch'[b] = batch[b]
           /\ Submitted' = Submitted + 1 /\ Filled' = 1..(Submitted + 1) /\ InBatches' = 1..n
           /\ \E m \in 0..listed' : InBatches' = 1..m /\ Submitted' <= m
           /\ \A b, c \in Batches : b # c => batch'[b] \cap batch'[c] = {}
<1>1. TypeOK /\ Cut
    BY DEF IInv
<1>2. PICK m \in 0..listed : InBatches = 1..m /\ Submitted <= m
    BY <1>1 DEF Cut
<1>3. Submitted \in Nat
  <2>1. IsFiniteSet(Batches)
      BY FS_Interval DEF Batches, DeleteConstants
  <2>2. {b \in Batches : batch[b] # {}} \in SUBSET Batches
      OBVIOUS
  <2> QED
      BY <2>1, <2>2, FS_Subset, FS_CardinalityType DEF Submitted
<1>4. m \in Nat /\ n \in Nat /\ m < n /\ n <= EntryCount
    BY <1>1, <1>2 DEF TypeOK, DeleteConstants
<1>5. Submitted + 1 \in Batches /\ Submitted + 1 \notin Filled
    BY <1>1, <1>2, <1>3, <1>4 DEF Cut, Batches, DeleteConstants
<1>6. batch[Submitted + 1] = {}
    BY <1>5 DEF Filled
<1> DEFINE new == 1..n \ InBatches
<1>7. new \in SUBSET Entries /\ new = (m + 1)..n
    BY <1>2, <1>4 DEF Entries, DeleteConstants
<1>8. /\ batch' \in [Batches -> SUBSET Entries] /\ batch'[Submitted + 1] = new
      /\ \A b \in Batches : b # Submitted + 1 => batch'[b] = batch[b]
    BY <1>1, <1>5, <1>7 DEF Submit, TypeOK
<1>9. Filled' = 1..(Submitted + 1)
  <2>1. Filled' = Filled \cup {Submitted + 1}
      BY <1>5, <1>8 DEF Filled
  <2> QED
      BY <1>1, <1>3, <2>1 DEF Cut
<1>10. Submitted' = Submitted + 1
  <2>1. Submitted' = Cardinality(Filled')
      BY DEF Submitted, Filled
  <2>2. Cardinality(1..(Submitted + 1)) = Submitted + 1
      BY <1>3, FS_Interval
  <2> QED
      BY <1>9, <2>1, <2>2, Zenon
<1>11. InBatches' = InBatches \cup new
    BY <1>5, <1>6, <1>8 DEF InBatches
<1>12. InBatches' = 1..n
    BY <1>2, <1>4, <1>7, <1>11
<1>13. \A b \in Batches : batch[b] \subseteq InBatches
    BY DEF InBatches
<1>14. \A b, c \in Batches : b # c => batch'[b] \cap batch'[c] = {}
    BY <1>1, <1>8, <1>13 DEF Cut
<1>15. \E k \in 0..listed' : InBatches' = 1..k /\ Submitted' <= k
    BY <1>2, <1>3, <1>4, <1>10, <1>12
<1> QED
    BY <1>3, <1>5, <1>6, <1>8, <1>9, <1>10, <1>12, <1>14, <1>15

-----------------------------------------------------------------------------
(* Threads                                                                 *)

\* One thread goes on with its batch, and other batches are only dealt with.
LEMMA ThreadStep ==
    ASSUME IInv, NEW b \in Batches, NEW w \in Threads, work' = [work EXCEPT ![b] = w],
           batch[b] # {}, work[b].at # "done",
           w.pending \cup w.failed \subseteq batch[b], w.at # "queued", w.at = "done" <=> w.pending = {},
           cell' \in [Entries -> Cells],
           \A e \in batch[b] \ (w.pending \cup w.failed) : cell'[e] \in Dealt,
           \A e \in Entries \ batch[b] : cell[e] \in Dealt => cell'[e] \in Dealt,
           UNCHANGED <<versioning, fixedVars, rewrites, listVars>>
    PROVE  IInv'
<1>1. TypeOK /\ Cut /\ Pool /\ Ended
    BY DEF IInv
<1>2. /\ work' \in [Batches -> Threads] /\ work'[b] = w
      /\ \A c \in Batches : c # b => work'[c] = work[c]
    BY <1>1 DEF TypeOK
<1>3. TypeOK'
    BY <1>1, <1>2 DEF TypeOK, fixedVars, listVars
<1>4. Cut'
  <2>1. UNCHANGED <<Filled, Submitted, InBatches>>
      BY DEF Filled, Submitted, InBatches, listVars
  <2> QED
      BY <1>1, <2>1 DEF Cut, listVars
<1>5. Pool'
  <2> SUFFICES ASSUME NEW c \in Batches
               PROVE  /\ work'[c].pending \cup work'[c].failed \subseteq batch[c]
                      /\ batch[c] = {} => work'[c].at = "queued"
                      /\ work'[c].at # "queued" =>
                            /\ work'[c].at = "done" <=> work'[c].pending = {}
                            /\ \A e \in batch[c] \ (work'[c].pending \cup work'[c].failed) : cell'[e] \in Dealt
      BY DEF Pool, listVars
  <2>1. CASE c = b
      BY <1>2, <2>1
  <2>2. CASE c # b
    <3>1. batch[c] \subseteq Entries \ batch[b]
        BY <1>1, <2>2 DEF TypeOK, Cut
    <3> QED
        BY <1>1, <1>2, <2>2, <3>1 DEF Pool
  <2> QED
      BY <2>1, <2>2
<1>6. Ended'
  <2>1. exitCode # 0
      BY <1>1 DEF Ended, Filled
  <2> QED
      BY <2>1 DEF Ended, listVars
<1> QED
    BY <1>3, <1>4, <1>5, <1>6 DEF IInv

\* What a call of DELETE does to the entries it names, and to others.
LEMMA DeleteStep ==
    ASSUME TypeOK, NEW entries, Delete(entries)
    PROVE  /\ cell' \in [Entries -> Cells]
           /\ \A e \in Entries : e \in entries \/ cell[e] \in Dealt => cell'[e] \in Dealt
           /\ \A e \in Entries : e \notin entries => cell'[e] = cell[e]
BY DEF TypeOK, Delete, Cells, Dealt

\* A thread that has a batch to deal with.
LEMMA Threaded ==
    ASSUME IInv, NEW b \in Batches, work[b].at \notin {"queued", "done"}
    PROVE  /\ TypeOK /\ work[b] \in Threads /\ batch[b] # {} /\ batch[b] \subseteq Entries
           /\ work[b].pending \cup work[b].failed \subseteq batch[b] /\ work[b].pending # {}
           /\ \A e \in batch[b] \ (work[b].pending \cup work[b].failed) : cell[e] \in Dealt
BY DEF IInv, TypeOK, Pool

\* The entry that is tried.
LEMMA TriedEntry ==
    ASSUME DeleteConstants, IInv, NEW b \in Batches, work[b].at \notin {"queued", "done"}
    PROVE  At(b) \in work[b].pending /\ At(b) \in batch[b] /\ At(b) \in Entries
<1>1. work[b].pending \in SUBSET Entries /\ work[b].pending # {}
    BY Threaded DEF Threads
<1>2. At(b) \in work[b].pending
    BY <1>1, Least DEF At
<1> QED
    BY <1>2, Threaded

\* After a call for all of a batch: what is tried again and what failed is not dealt with.
LEMMA AfterBulkStep ==
    ASSUME DeleteConstants, IInv, NEW b \in Batches, work[b].at = "bulk",
           NEW retry \in SUBSET work[b].pending, NEW failed \in SUBSET work[b].pending, AfterBulk(b, retry, failed),
           cell' \in [Entries -> Cells],
           \A e \in Entries : e \in work[b].pending \ (retry \cup failed) \/ cell[e] \in Dealt => cell'[e] \in Dealt,
           UNCHANGED <<versioning, fixedVars, rewrites, listVars>>
    PROVE  IInv'
<1>1. /\ TypeOK /\ work[b] \in Threads /\ batch[b] # {} /\ batch[b] \subseteq Entries
      /\ work[b].pending \cup work[b].failed \subseteq batch[b]
      /\ \A e \in batch[b] \ (work[b].pending \cup work[b].failed) : cell[e] \in Dealt
    BY Threaded
<1> DEFINE last == work[b].tries + 1 = Attempts
           w == [at |-> IF retry = {} THEN "done" ELSE IF last THEN "single" ELSE "bulk",
                 pending |-> retry, tries |-> IF last THEN 0 ELSE work[b].tries + 1,
                 failed |-> work[b].failed \cup failed]
<1>2. w \in Threads
  <2>1. (IF last THEN 0 ELSE work[b].tries + 1) \in 0..(Attempts - 1)
      BY <1>1 DEF Threads, DeleteConstants
  <2>2. retry \in SUBSET Entries /\ work[b].failed \cup failed \in SUBSET Entries
      BY <1>1 DEF Threads
  <2> HIDE DEF last
  <2> QED
      BY <2>1, <2>2 DEF Threads
<1>3. w.at # "queued" /\ (w.at = "done" <=> w.pending = {}) /\ w.pending = retry /\ w.failed = work[b].failed \cup failed
    OBVIOUS
<1>4. work' = [work EXCEPT ![b] = w]
    BY DEF AfterBulk
<1> HIDE DEF w
<1>5. w.pending \cup w.failed \subseteq batch[b]
    BY <1>1, <1>3
<1>6. \A e \in batch[b] \ (w.pending \cup w.failed) : cell'[e] \in Dealt
    BY <1>1, <1>3
<1>7. \A e \in Entries \ batch[b] : cell[e] \in Dealt => cell'[e] \in Dealt
    OBVIOUS
<1> QED
    BY <1>1, <1>2, <1>3, <1>4, <1>5, <1>6, <1>7, ThreadStep

\* The thread tries on, or opens the last resort; the entry it tries may be dealt with.
LEMMA TryOnStep ==
    ASSUME DeleteConstants, IInv, NEW b \in Batches, work[b].at \notin {"queued", "done"},
           NEW at \in {"single", "recheck", "emptying", "final"}, (Try(b, at) /\ Again(b)) \/ Go(b, at),
           cell' \in [Entries -> Cells], \A e \in Entries \ {At(b)} : cell[e] \in Dealt => cell'[e] \in Dealt,
           UNCHANGED <<versioning, fixedVars, rewrites, listVars>>
    PROVE  IInv'
<1>1. /\ TypeOK /\ work[b] \in Threads /\ batch[b] # {} /\ batch[b] \subseteq Entries
      /\ work[b].pending \cup work[b].failed \subseteq batch[b] /\ work[b].pending # {}
      /\ \A e \in batch[b] \ (work[b].pending \cup work[b].failed) : cell[e] \in Dealt
    BY Threaded
<1>2. At(b) \in work[b].pending /\ At(b) \in batch[b]
    BY TriedEntry
<1>3. PICK tries \in 0..(Attempts - 1) : work' = [work EXCEPT ![b] = [work[b] EXCEPT !.at = at, !.tries = tries]]
  <2>1. work[b].tries \in 0..(Attempts - 1) /\ b \in DOMAIN work
      BY <1>1 DEF Threads, TypeOK
  <2>2. CASE Try(b, at) /\ Again(b)
    <3>1. work[b].tries + 1 \in 0..(Attempts - 1)
        BY <2>1, <2>2 DEF Again, DeleteConstants
    <3> QED
        BY <2>1, <2>2, <3>1 DEF Try
  <2>3. CASE Go(b, at)
    <3>1. 0 \in 0..(Attempts - 1)
        BY DEF DeleteConstants
    <3> QED
        BY <2>1, <2>3, <3>1 DEF Go
  <2> QED
      BY <2>2, <2>3
<1> DEFINE w == [work[b] EXCEPT !.at = at, !.tries = tries]
<1>4. /\ w \in Threads /\ w.at # "queued" /\ (w.at = "done" <=> w.pending = {})
      /\ w.pending = work[b].pending /\ w.failed = work[b].failed
    BY <1>1 DEF Threads
<1>5. work' = [work EXCEPT ![b] = w]
    BY <1>3
<1> HIDE DEF w
<1>6. \A e \in batch[b] \ (w.pending \cup w.failed) : cell'[e] \in Dealt
    BY <1>1, <1>2, <1>4
<1>7. \A e \in Entries \ batch[b] : cell[e] \in Dealt => cell'[e] \in Dealt
    BY <1>2
<1> QED
    BY <1>1, <1>4, <1>5, <1>6, <1>7, ThreadStep

\* The recovery of an entry is over: it is dealt with, or it has failed.
LEMMA SettleStep ==
    ASSUME DeleteConstants, IInv, NEW b \in Batches, work[b].at \notin {"queued", "done"},
           NEW failed \in {{}, {At(b)}}, Settle(b, failed),
           cell' \in [Entries -> Cells], failed = {} => cell'[At(b)] \in Dealt,
           \A e \in Entries \ {At(b)} : cell[e] \in Dealt => cell'[e] \in Dealt,
           UNCHANGED <<versioning, fixedVars, rewrites, listVars>>
    PROVE  IInv'
<1>1. /\ TypeOK /\ work[b] \in Threads /\ batch[b] # {} /\ batch[b] \subseteq Entries
      /\ work[b].pending \cup work[b].failed \subseteq batch[b] /\ work[b].pending # {}
      /\ \A e \in batch[b] \ (work[b].pending \cup work[b].failed) : cell[e] \in Dealt
    BY Threaded
<1>2. At(b) \in work[b].pending /\ At(b) \in batch[b]
    BY TriedEntry
<1> DEFINE rest == work[b].pending \ {At(b)}
           w == [at |-> IF rest = {} THEN "done" ELSE "single", pending |-> rest, tries |-> 0,
                 failed |-> work[b].failed \cup failed]
<1>3. /\ w \in Threads /\ w.at # "queued" /\ (w.at = "done" <=> w.pending = {})
      /\ w.pending = rest /\ w.failed = work[b].failed \cup failed
  <2>1. 0 \in 0..(Attempts - 1) /\ rest \in SUBSET Entries /\ work[b].failed \cup failed \in SUBSET Entries
      BY <1>1, <1>2 DEF Threads, DeleteConstants
  <2> HIDE DEF rest
  <2> QED
      BY <2>1 DEF Threads
<1>4. work' = [work EXCEPT ![b] = w]
    BY DEF Settle
<1> HIDE DEF w
<1>5. w.pending \cup w.failed \subseteq batch[b]
    BY <1>1, <1>2, <1>3
<1>6. \A e \in batch[b] \ (w.pending \cup w.failed) : cell'[e] \in Dealt
  <2> SUFFICES ASSUME NEW e \in batch[b] \ (w.pending \cup w.failed) PROVE cell'[e] \in Dealt
      OBVIOUS
  <2>1. CASE e = At(b)
      BY <1>3, <2>1
  <2>2. CASE e # At(b)
      BY <1>1, <1>3, <2>2
  <2> QED
      BY <2>1, <2>2
<1>7. \A e \in Entries \ batch[b] : cell[e] \in Dealt => cell'[e] \in Dealt
    BY <1>2
<1> QED
    BY <1>1, <1>3, <1>4, <1>5, <1>6, <1>7, ThreadStep

-----------------------------------------------------------------------------
(* The initial states                                                      *)

LEMMA InitInv == ASSUME DeleteConstants, Init PROVE IInv
<1>1. TypeOK
  <2>1. Waiting \in Threads /\ 0 \in 0..MaxRewrites /\ 0 \in 0..EntryCount
      BY DEF Waiting, Threads, DeleteConstants
  <2>2. cell \in [Entries -> Cells] /\ batch \in [Batches -> SUBSET Entries] /\ work \in [Batches -> Threads]
      BY <2>1 DEF Init, Cells
  <2>3. /\ versioning \in BOOLEAN /\ custom \in BOOLEAN /\ tagged \in BOOLEAN /\ terse \in BOOLEAN
        /\ plain \in BOOLEAN /\ aborted \in BOOLEAN
      BY DEF Init
  <2>4. /\ batchSize \in BatchSizes /\ rewrites \in 0..MaxRewrites /\ exitCode \in 0..2
        /\ listed \in 0..EntryCount /\ popped \in 0..EntryCount /\ lister = "probing"
      BY <2>1 DEF Init
  <2> QED
      BY <2>2, <2>3, <2>4 DEF TypeOK
<1>2. Filled = {} /\ InBatches = {} /\ Submitted = 0
  <2>1. Filled = {} /\ InBatches = {}
      BY DEF Init, Filled, InBatches
  <2>2. Submitted = Cardinality(Filled)
      BY DEF Submitted, Filled
  <2>3. Cardinality({}) = 0
      BY FS_EmptySet
  <2> QED
      BY <2>1, <2>2, <2>3, Zenon
<1>3. Cut
    BY <1>2 DEF Init, Cut, DeleteConstants
<1>4. Pool /\ Ended
    BY DEF Init, Pool, Ended, Waiting
<1> QED
    BY <1>1, <1>3, <1>4 DEF IInv

-----------------------------------------------------------------------------
(* The steps                                                               *)

\* A rewritten entry needs nothing more.
LEMMA RewriteKeeps ==
    ASSUME DeleteConstants, IInv, NEW e \in Entries, Rewrite(e) PROVE IInv'
<1>1. TypeOK'
    BY DEF IInv, TypeOK, providerVars, fixedVars, listVars, Rewrite, Cells, Dealt, DeleteConstants
<1>2. Cut'
  <2>1. UNCHANGED <<Filled, Submitted, InBatches>>
      BY DEF Filled, Submitted, InBatches, Rewrite, listVars
  <2> QED
      BY <2>1 DEF IInv, Cut, Rewrite, listVars
<1>3. Pool'
    BY DEF IInv, Pool, providerVars, listVars, Rewrite, TypeOK, Cells, Dealt, DeleteConstants
<1>4. Ended'
    BY DEF IInv, Ended, Filled, InBatches, listVars, Rewrite
<1> QED
    BY <1>1, <1>2, <1>3, <1>4 DEF IInv

\* Versioning changes what a delete does, not what it is for.
LEMMA EnableVersioningKeeps ==
    ASSUME DeleteConstants, IInv, EnableVersioning PROVE IInv'
<1>1. TypeOK'
    BY DEF IInv, TypeOK, providerVars, fixedVars, listVars, EnableVersioning
<1>2. Cut'
    BY DEF IInv, Cut, Filled, Submitted, InBatches, providerVars, listVars, EnableVersioning
<1>3. Pool'
    BY DEF IInv, Pool, providerVars, listVars, EnableVersioning
<1>4. Ended'
    BY DEF IInv, Ended, Filled, InBatches, providerVars, listVars, EnableVersioning
<1> QED
    BY <1>1, <1>2, <1>3, <1>4 DEF IInv

\* The probe comes before the listing.
LEMMA ProbeKeeps ==
    ASSUME DeleteConstants, IInv, Probe PROVE IInv'
<1>1. TypeOK'
    BY DEF IInv, TypeOK, Probe, providerVars, fixedVars
<1>2. Cut'
    BY DEF IInv, Cut, Filled, Submitted, InBatches, providerVars, listVars, Probe
<1>3. Pool'
    BY DEF IInv, Pool, providerVars, listVars, Probe
<1>4. Ended'
    BY DEF IInv, Ended, Filled, InBatches, providerVars, listVars, Probe
<1> QED
    BY <1>1, <1>2, <1>3, <1>4 DEF IInv

\* A batch is cut from what is listed.
LEMMA ListKeeps ==
    ASSUME DeleteConstants, IInv, List PROVE IInv'
<1>0. TypeOK /\ Cut /\ Pool /\ Ended
    BY DEF IInv
<1>1. listed' \in listed..EntryCount /\ listed \in 0..EntryCount /\ listed' = listed + 1
    BY <1>0 DEF List, TypeOK, DeleteConstants
<1>2. CASE UNCHANGED batch /\ lister' = lister
  <2>1. TypeOK'
      BY <1>0, <1>1, <1>2 DEF TypeOK, List, providerVars, fixedVars
  <2>2. Cut'
    <3>1. UNCHANGED <<Filled, Submitted, InBatches>>
        BY <1>2 DEF Filled, Submitted, InBatches
    <3> QED
        BY <1>0, <1>1, <1>2, <3>1 DEF Cut, List
  <2>3. Pool' /\ Ended'
      BY <1>0, <1>2 DEF Pool, Ended, Filled, InBatches, List, providerVars
  <2> QED
      BY <2>1, <2>2, <2>3 DEF IInv
<1>3. CASE Submit(1..listed' \ InBatches)
  <2>1. 1..listed' \ InBatches # {}
    <3>1. PICK m \in 0..listed : InBatches = 1..m
        BY <1>0 DEF Cut
    <3>2. listed' \in 1..listed' /\ listed' \notin 1..m
        BY <1>1, <3>1
    <3> QED
        BY <3>1, <3>2
  <2>2. /\ Submitted + 1 \in Batches /\ Submitted \in Nat
        /\ batch' \in [Batches -> SUBSET Entries]
        /\ batch[Submitted + 1] = {} /\ batch'[Submitted + 1] # {}
        /\ \A b \in Batches : b # Submitted + 1 => batch'[b] = batch[b]
        /\ Submitted' = Submitted + 1 /\ Filled' = 1..(Submitted + 1) /\ InBatches' = 1..listed'
        /\ \E m \in 0..listed' : InBatches' = 1..m /\ Submitted' <= m
        /\ \A b, c \in Batches : b # c => batch'[b] \cap batch'[c] = {}
      BY <1>1, <1>3, <2>1, SubmitStep DEF List
  <2>3. lister' \in {"listing", "waiting"} /\ (lister' = "waiting" => Submitted + 1 - popped >= 2 * DeleteWorkers)
      BY DEF List
  <2>4. TypeOK'
      BY <1>0, <1>1, <2>2, <2>3 DEF TypeOK, List, providerVars, fixedVars
  <2>5. Cut'
    <3>1. popped \in Nat /\ popped <= Submitted /\ 2 * DeleteWorkers >= 2
        BY <1>0 DEF Cut, TypeOK, DeleteConstants
    <3>2. popped' <= Submitted' /\ (lister' = "waiting" => popped' < Submitted')
        BY <2>2, <2>3, <3>1 DEF List, DeleteConstants
    <3> QED
        BY <2>2, <2>3, <3>2 DEF Cut
  <2>6. Pool'
      BY <1>0, <2>2 DEF Pool, TypeOK, List, providerVars
  <2>7. Ended'
      BY <1>0 DEF Ended, List
  <2> QED
      BY <2>4, <2>5, <2>6, <2>7 DEF IInv
<1> QED
    BY <1>2, <1>3 DEF List

\* The oldest future was submitted.
LEMMA WaitOldestKeeps ==
    ASSUME DeleteConstants, IInv, WaitOldest PROVE IInv'
<1>1. Submitted \in Nat
  <2>1. IsFiniteSet(Batches)
      BY FS_Interval DEF Batches, DeleteConstants
  <2>2. {b \in Batches : batch[b] # {}} \in SUBSET Batches
      OBVIOUS
  <2> QED
      BY <2>1, <2>2, FS_Subset, FS_CardinalityType DEF Submitted
<1>2. TypeOK'
  <2>1. popped' \in 0..EntryCount
    <3>1. popped < Submitted /\ popped \in Nat
        BY DEF IInv, TypeOK, Cut, WaitOldest, DeleteConstants
    <3>2. PICK m \in 0..listed : Submitted <= m
        BY DEF IInv, Cut
    <3>3. listed \in 0..EntryCount /\ Submitted \in Int
        BY <1>1 DEF IInv, TypeOK
    <3> QED
        BY <3>1, <3>2, <3>3 DEF WaitOldest, DeleteConstants
  <2> QED
      BY <2>1 DEF IInv, TypeOK, WaitOldest, providerVars, fixedVars
<1>3. Cut'
  <2>1. UNCHANGED <<Filled, Submitted, InBatches>>
      BY DEF Filled, Submitted, InBatches, WaitOldest
  <2>2. popped' <= Submitted'
      BY <1>1, <2>1 DEF IInv, TypeOK, Cut, WaitOldest
  <2> QED
      BY <2>1, <2>2 DEF IInv, Cut, WaitOldest
<1>4. Pool'
    BY DEF IInv, Pool, providerVars, listVars, WaitOldest
<1>5. Ended'
    BY DEF IInv, Ended, Filled, InBatches, providerVars, listVars, WaitOldest
<1> QED
    BY <1>2, <1>3, <1>4, <1>5 DEF IInv

\* The last batch.
LEMMA ListEndsKeeps ==
    ASSUME DeleteConstants, IInv, ListEnds PROVE IInv'
<1>0. TypeOK /\ Cut /\ Pool /\ Ended
    BY DEF IInv
<1>1. listed' \in listed..EntryCount /\ listed' = listed /\ lister' = "joining" /\ listed \in 0..EntryCount
    BY <1>0 DEF ListEnds, TypeOK, DeleteConstants
<1>2. listed < EntryCount => aborted'
    BY DEF ListEnds
<1>3. CASE 1..listed \ InBatches = {} /\ UNCHANGED batch
  <2>1. TypeOK'
      BY <1>0, <1>1, <1>3 DEF TypeOK, ListEnds, providerVars, fixedVars
  <2>2. Cut'
    <3>1. UNCHANGED <<Filled, Submitted, InBatches>>
        BY <1>3 DEF Filled, Submitted, InBatches
    <3>2. PICK m \in 0..listed : InBatches = 1..m /\ Submitted <= m
        BY <1>0 DEF Cut
    <3>3. m = listed
      <4>1. listed \in 1..listed => listed \in 1..m
          BY <1>3, <3>2
      <4> QED
          BY <1>1, <3>2, <4>1
    <3>4. ~aborted' => listed' = EntryCount
        BY <1>1, <1>2 DEF DeleteConstants
    <3> QED
        BY <1>0, <1>1, <3>1, <3>2, <3>3, <3>4 DEF Cut, ListEnds
  <2>3. Pool' /\ Ended'
      BY <1>0, <1>3 DEF Pool, Ended, Filled, InBatches, ListEnds, providerVars
  <2> QED
      BY <2>1, <2>2, <2>3 DEF IInv
<1>4. CASE 1..listed \ InBatches # {} /\ Submit(1..listed \ InBatches)
  <2>2. /\ Submitted + 1 \in Batches /\ Submitted \in Nat
        /\ batch' \in [Batches -> SUBSET Entries]
        /\ batch[Submitted + 1] = {} /\ batch'[Submitted + 1] # {}
        /\ \A b \in Batches : b # Submitted + 1 => batch'[b] = batch[b]
        /\ Submitted' = Submitted + 1 /\ Filled' = 1..(Submitted + 1) /\ InBatches' = 1..listed'
        /\ \E m \in 0..listed' : InBatches' = 1..m /\ Submitted' <= m
        /\ \A b, c \in Batches : b # c => batch'[b] \cap batch'[c] = {}
      BY <1>1, <1>4, SubmitStep DEF ListEnds
  <2>4. TypeOK'
      BY <1>0, <1>1, <2>2 DEF TypeOK, ListEnds, providerVars, fixedVars
  <2>5. Cut'
    <3>1. popped \in Nat /\ popped <= Submitted
        BY <1>0 DEF Cut, TypeOK, DeleteConstants
    <3>2. popped' <= Submitted' /\ (~aborted' => listed' = EntryCount)
        BY <1>1, <1>2, <2>2, <3>1 DEF ListEnds, DeleteConstants
    <3> QED
        BY <1>1, <2>2, <3>2 DEF Cut
  <2>6. Pool'
      BY <1>0, <2>2 DEF Pool, TypeOK, ListEnds, providerVars
  <2>7. Ended'
      BY <1>0 DEF Ended, ListEnds
  <2> QED
      BY <2>4, <2>5, <2>6, <2>7 DEF IInv
<1> QED
    BY <1>3, <1>4 DEF ListEnds

\* A listing that fails ends with an error.
LEMMA ListFailsKeeps ==
    ASSUME DeleteConstants, IInv, ListFails PROVE IInv'
<1>1. TypeOK'
    BY DEF IInv, TypeOK, providerVars, fixedVars, listVars, ListFails
<1>2. Cut'
    BY DEF IInv, Cut, Filled, Submitted, InBatches, providerVars, listVars, ListFails
<1>3. Pool'
    BY DEF IInv, Pool, providerVars, listVars, ListFails
<1>4. Ended'
    BY DEF IInv, Ended, Filled, InBatches, providerVars, listVars, ListFails
<1> QED
    BY <1>1, <1>2, <1>3, <1>4 DEF IInv

\* Exit code 0: every batch is done, and none has failures.
LEMMA JoinKeeps ==
    ASSUME DeleteConstants, IInv, Join PROVE IInv'
<1>1. TypeOK'
    BY DEF IInv, TypeOK, Join, providerVars, fixedVars
<1>2. Cut'
    BY DEF IInv, Cut, Filled, Submitted, InBatches, providerVars, listVars, Join
<1>3. Pool'
    BY DEF IInv, Pool, providerVars, listVars, Join
<1>4. Ended'
  <2> SUFFICES ASSUME exitCode' = 0 PROVE Ended'
      BY DEF Ended
  <2>1. lister = "joining" /\ Failed = {} /\ ~aborted /\ \A b \in 1..Submitted : work[b].at = "done"
      BY DEF Join
  <2>2. InBatches = Entries /\ Filled = 1..Submitted
      BY <2>1 DEF IInv, Cut, Entries
  <2>3. \A b \in Filled : work[b].at = "done" /\ work[b].failed = {}
      BY <2>1, <2>2 DEF Failed, Filled
  <2> QED
      BY <2>2, <2>3 DEF Ended, Join, Filled, InBatches
<1> QED
    BY <1>1, <1>2, <1>3, <1>4 DEF IInv

\* A thread takes its batch.
LEMMA BeginKeeps ==
    ASSUME DeleteConstants, IInv, NEW b \in Batches, Begin(b) PROVE IInv'
<1>1. TypeOK /\ Pool /\ batch[b] # {} /\ work[b].at = "queued" /\ batch[b] \subseteq Entries
    BY DEF IInv, TypeOK, Begin
<1> DEFINE w == [Waiting EXCEPT !.at = "bulk", !.pending = batch[b]]
<1>2. /\ w \in Threads /\ w.at # "queued" /\ (w.at = "done" <=> w.pending = {})
      /\ w.pending \cup w.failed = batch[b]
  <2>1. Waiting \in Threads /\ Waiting.failed = {}
      BY DEF Waiting, Threads, DeleteConstants
  <2> QED
      BY <1>1, <2>1 DEF Threads
<1>3. work' = [work EXCEPT ![b] = w]
    BY DEF Begin
<1> HIDE DEF w
<1>4. cell' = cell /\ cell \in [Entries -> Cells] /\ UNCHANGED <<versioning, fixedVars, rewrites, listVars>>
    BY <1>1 DEF Begin, providerVars, TypeOK
<1> QED
    BY <1>1, <1>2, <1>3, <1>4, ThreadStep

\* What is not named by an error was deleted.
LEMMA BulkKeeps ==
    ASSUME DeleteConstants, IInv, NEW b \in Batches, Bulk(b) PROVE IInv'
<1>0. PICK transient \in SUBSET work[b].pending : \E final \in SUBSET (work[b].pending \ transient) :
         /\ Delete(work[b].pending \ (transient \cup final))
         /\ LET retry == {e \in work[b].pending : Named(e, transient)}
            IN  AfterBulk(b, retry, {e \in work[b].pending \ retry : Named(e, final)})
    BY DEF Bulk
<1>1. PICK final \in SUBSET (work[b].pending \ transient) :
         /\ Delete(work[b].pending \ (transient \cup final))
         /\ LET retry == {e \in work[b].pending : Named(e, transient)}
            IN  AfterBulk(b, retry, {e \in work[b].pending \ retry : Named(e, final)})
    BY <1>0
<1> DEFINE retry == {e \in work[b].pending : Named(e, transient)}
           failed == {e \in work[b].pending \ retry : Named(e, final)}
<1>2. TypeOK /\ work[b].at = "bulk" /\ UNCHANGED <<versioning, fixedVars, rewrites, listVars>>
    BY DEF IInv, Bulk
<1>3. /\ cell' \in [Entries -> Cells]
      /\ \A e \in Entries : e \in work[b].pending \ (transient \cup final) \/ cell[e] \in Dealt => cell'[e] \in Dealt
    BY <1>1, <1>2, DeleteStep
<1>4. work[b].pending \ (retry \cup failed) \subseteq work[b].pending \ (transient \cup final)
    BY DEF Named
<1>5. \A e \in Entries : e \in work[b].pending \ (retry \cup failed) \/ cell[e] \in Dealt => cell'[e] \in Dealt
    BY <1>3, <1>4
<1>6. retry \in SUBSET work[b].pending /\ failed \in SUBSET work[b].pending /\ AfterBulk(b, retry, failed)
    BY <1>1
<1> HIDE DEF retry, failed
<1> QED
    BY <1>2, <1>3, <1>5, <1>6, AfterBulkStep

\* A call that raises is repeated, or its batch has failed.
LEMMA BulkRaisesKeeps ==
    ASSUME DeleteConstants, IInv, NEW b \in Batches, BulkRaises(b) PROVE IInv'
<1>1. PICK entries \in SUBSET work[b].pending : Delete(entries)
    BY DEF BulkRaises
<1>2. TypeOK /\ work[b].at = "bulk" /\ UNCHANGED <<versioning, fixedVars, rewrites, listVars>>
    BY DEF IInv, BulkRaises
<1>3. cell' \in [Entries -> Cells] /\ \A e \in Entries : cell[e] \in Dealt => cell'[e] \in Dealt
    BY <1>1, <1>2, DeleteStep
<1>4. PICK retry \in SUBSET work[b].pending, failed \in SUBSET work[b].pending :
          AfterBulk(b, retry, failed) /\ retry \cup failed = work[b].pending
    BY DEF BulkRaises
<1>5. \A e \in Entries : e \in work[b].pending \ (retry \cup failed) \/ cell[e] \in Dealt => cell'[e] \in Dealt
    BY <1>3, <1>4
<1> QED
    BY <1>2, <1>3, <1>4, <1>5, AfterBulkStep

\* One entry.
LEMMA SingleKeeps ==
    ASSUME DeleteConstants, IInv, NEW b \in Batches, Single(b) PROVE IInv'
<1>1. TypeOK /\ work[b].at = "single" /\ UNCHANGED <<versioning, fixedVars, rewrites, listVars>>
    BY DEF IInv, Single
<1>2. /\ At(b) \in Entries
      /\ Delete({At(b)}) \/ cell' = cell
    BY <1>1, TriedEntry DEF Single
<1>3. /\ cell' \in [Entries -> Cells] /\ \A e \in Entries : cell[e] \in Dealt => cell'[e] \in Dealt
      /\ Delete({At(b)}) => cell'[At(b)] \in Dealt
  <2>1. CASE Delete({At(b)})
      BY <1>1, <1>2, <2>1, DeleteStep
  <2>2. CASE cell' = cell /\ ~Delete({At(b)})
      BY <1>1, <2>2 DEF TypeOK
  <2> QED
      BY <1>2, <2>1, <2>2
<1>4. CASE Delete({At(b)}) /\ Settle(b, {})
    BY <1>1, <1>3, <1>4, SettleStep
<1>5. CASE Settle(b, {At(b)})
    BY <1>1, <1>3, <1>5, SettleStep
<1>6. CASE Again(b) /\ Try(b, "single")
    BY <1>1, <1>3, <1>6, TryOnStep
<1>7. CASE Go(b, "recheck")
    BY <1>1, <1>3, <1>7, TryOnStep
<1> QED
    BY <1>4, <1>5, <1>6, <1>7 DEF Single

\* Nothing is dealt with.
LEMMA RecheckKeeps ==
    ASSUME DeleteConstants, IInv, NEW b \in Batches, Recheck(b) PROVE IInv'
<1>1. /\ TypeOK /\ work[b].at = "recheck" /\ UNCHANGED <<versioning, fixedVars, rewrites, listVars>>
      /\ cell' = cell
    BY DEF IInv, Recheck, providerVars
<1>2. cell' \in [Entries -> Cells] /\ \A e \in Entries : cell[e] \in Dealt => cell'[e] \in Dealt
    BY <1>1 DEF TypeOK
<1>3. CASE Go(b, "emptying")
    BY <1>1, <1>2, <1>3, TryOnStep
<1>4. CASE Settle(b, {At(b)})
    BY <1>1, <1>2, <1>4, SettleStep
<1> QED
    BY <1>3, <1>4 DEF Recheck

\* An entry that was emptied is still tried, or failed.
LEMMA EmptyKeeps ==
    ASSUME DeleteConstants, IInv, NEW b \in Batches, Empty(b) PROVE IInv'
<1>1. TypeOK /\ work[b].at = "emptying" /\ UNCHANGED <<versioning, fixedVars, rewrites, listVars>>
    BY DEF IInv, Empty
<1>2. cell' \in [Entries -> Cells] /\ \A e \in Entries \ {At(b)} : cell[e] \in Dealt => cell'[e] \in Dealt
    BY <1>1 DEF TypeOK, Empty, PutEmpty, Cells
<1>3. CASE Go(b, "final")
    BY <1>1, <1>2, <1>3, TryOnStep
<1>4. CASE Settle(b, {At(b)})
    BY <1>1, <1>2, <1>4, SettleStep
<1> QED
    BY <1>3, <1>4 DEF Empty

\* One entry.
LEMMA FinalKeeps ==
    ASSUME DeleteConstants, IInv, NEW b \in Batches, Final(b) PROVE IInv'
<1>1. TypeOK /\ work[b].at = "final" /\ UNCHANGED <<versioning, fixedVars, rewrites, listVars>>
    BY DEF IInv, Final
<1>2. /\ At(b) \in Entries
      /\ Delete({At(b)}) \/ cell' = cell
    BY <1>1, TriedEntry DEF Final
<1>3. /\ cell' \in [Entries -> Cells] /\ \A e \in Entries : cell[e] \in Dealt => cell'[e] \in Dealt
      /\ Delete({At(b)}) => cell'[At(b)] \in Dealt
  <2>1. CASE Delete({At(b)})
      BY <1>1, <1>2, <2>1, DeleteStep
  <2>2. CASE cell' = cell /\ ~Delete({At(b)})
      BY <1>1, <2>2 DEF TypeOK
  <2> QED
      BY <1>2, <2>1, <2>2
<1>4. CASE Delete({At(b)}) /\ Settle(b, {})
    BY <1>1, <1>3, <1>4, SettleStep
<1>5. CASE Settle(b, {At(b)})
    BY <1>1, <1>3, <1>5, SettleStep
<1>6. CASE Again(b) /\ Try(b, "final")
    BY <1>1, <1>3, <1>6, TryOnStep
<1> QED
    BY <1>4, <1>5, <1>6 DEF Final

LEMMA NextInv == ASSUME DeleteConstants, IInv, [Next]_vars PROVE IInv'
<1>1. ASSUME NEW b \in Batches, PoolStep(b) PROVE IInv'
    BY <1>1, BeginKeeps, BulkKeeps, BulkRaisesKeeps, SingleKeeps, RecheckKeeps, EmptyKeeps, FinalKeeps DEF PoolStep
<1>2. CASE UNCHANGED vars
  <2>1. UNCHANGED <<Filled, Submitted, InBatches>>
      BY <1>2 DEF vars, listVars, Filled, Submitted, InBatches
  <2> QED
      BY <1>2, <2>1 DEF vars, providerVars, fixedVars, listVars, IInv, TypeOK, Cut, Pool, Ended
<1> QED
    BY <1>1, <1>2, RewriteKeeps, EnableVersioningKeeps, ProbeKeeps, ListKeeps, WaitOldestKeeps, ListEndsKeeps,
       ListFailsKeeps, JoinKeeps DEF Next

LEMMA InvariantHolds == ASSUME DeleteConstants PROVE Spec => []IInv
<1>1. Init => IInv
    BY InitInv
<1>2. IInv /\ [Next]_vars => IInv'
    BY NextInv
<1> QED
    BY <1>1, <1>2, PTL DEF Spec

-----------------------------------------------------------------------------
(* The theorems                                                            *)

\* Every variable keeps its type: the batches and the retries of the pool, and the
\* page window of the listing, stay in range.
THEOREM TypeCorrect == ASSUME DeleteConstants PROVE Spec => []TypeOK
BY InvariantHolds, PTL DEF IInv

\* delete-all reports success only when every entry it found is deleted, hidden by a
\* marker, or is an object that another client has written since.
THEOREM Gone == ASSUME DeleteConstants PROVE Spec => []SuccessMeansGone
<1>1. IInv => SuccessMeansGone
  <2> SUFFICES ASSUME IInv, exitCode = 0, NEW e \in Entries PROVE cell[e] \in {"gone", "hidden", "newer"}
      BY DEF SuccessMeansGone
  <2>1. PICK b \in Batches : e \in batch[b]
      BY DEF IInv, Ended, InBatches
  <2>2. work[b].at = "done" /\ work[b].failed = {} /\ work[b].pending = {}
      BY <2>1 DEF IInv, Ended, Filled, Pool
  <2> QED
      BY <2>1, <2>2 DEF IInv, Pool, Dealt
<1> QED
    BY <1>1, InvariantHolds, PTL

\* The empty PUT of the last resort carries If-Match where the listing gave an ETag, and
\* so never replaces another object; no other call leaves an empty object.
THEOREM PutSpares == ASSUME DeleteConstants PROVE Spec => ResetSparesOthers
<1> DEFINE Emptied(e) == cell'[e] = "empty" /\ cell[e] # "empty"
<1>1. ASSUME TypeOK, NEW entries, Delete(entries), NEW e \in Entries PROVE ~Emptied(e)
    BY <1>1 DEF Delete
<1>2. ASSUME TypeOK, NEW b \in Batches, Empty(b), NEW e \in Entries, Emptied(e), tagged PROVE cell[e] = "listed"
  <2>1. cell \in [Entries -> Cells]
      BY <1>2 DEF TypeOK
  <2>2. CASE Matches(At(b)) /\ PutEmpty(At(b))
      BY <1>2, <2>1, <2>2 DEF PutEmpty, Matches
  <2>3. CASE UNCHANGED cell
      BY <1>2, <2>3
  <2> QED
      BY <1>2, <2>2, <2>3 DEF Empty
<1>3. ASSUME TypeOK, NEW b \in Batches, PoolStep(b), ~Empty(b), NEW e \in Entries PROVE ~Emptied(e)
  <2>1. CASE Begin(b) \/ Recheck(b)
      BY <2>1 DEF Begin, Recheck, providerVars
  <2>2. CASE Bulk(b) \/ BulkRaises(b) \/ Single(b) \/ Final(b)
      BY <1>1, <1>3, <2>2 DEF Bulk, BulkRaises, Single, Final
  <2> QED
      BY <1>3, <2>1, <2>2 DEF PoolStep
<1>4. ASSUME TypeOK, NEW k \in Entries, Rewrite(k), NEW e \in Entries PROVE ~Emptied(e)
  <2>1. cell \in [Entries -> Cells]
      BY <1>4 DEF TypeOK
  <2> QED
      BY <1>4, <2>1 DEF Rewrite
<1>5. ASSUME TypeOK, Next, NEW e \in Entries, Emptied(e) PROVE \E b \in Batches : Empty(b)
    BY <1>3, <1>4, <1>5 DEF Next, EnableVersioning, Probe, List, WaitOldest, ListEnds, ListFails, Join, providerVars
<1>6. TypeOK /\ [Next]_vars
        => [\A e \in Entries : cell'[e] = "empty" /\ cell[e] # "empty" /\ tagged => cell[e] = "listed"]_vars
    BY <1>2, <1>5
<1> QED
    BY <1>6, TypeCorrect, PTL DEF Spec, ResetSparesOthers
=============================================================================
