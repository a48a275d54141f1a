------------------------ MODULE BenchmarkRunProofs ------------------------
(***************************************************************************)
(* What holds of every benchmark, with any number of workers, any budget,  *)
(* any resumes and any number of kills.                                    *)
(*                                                                         *)
(* That a completed run has recorded exactly its budget rests on its       *)
(* reservation being what its workers have in flight (LedgerKept), on its  *)
(* processedCount having all of its totals until an append fails, after    *)
(* which some worker is about to mark it failed (TotalsKept), and, for a   *)
(* run that was resumed, on the CSV it counted again being one that a      *)
(* single run at a time has written (RowsKept).                            *)
(***************************************************************************)
EXTENDS BenchmarkRun, FiniteSetTheorems, TLAPS

-----------------------------------------------------------------------------
(* The inductive invariant                                                 *)

Live(o) == run[o] # None

\* The operations that the workers of a run have in flight, one by one: a worker's
\* reservation of n is the pairs of the worker with 1 to n.
Units(g) == {u \in Workers \X (1..MaxBatch) : g[u[1]].phase = "busy" /\ u[2] <= g[u[1]].n}

\* No worker is about to mark the run failed, and none has: only then does
\* processedCount have every operation of the totals.
Intact(o) == Failing(o) = {} /\ run[o].status \notin {"failed", "stopped"}

\* Without a checkpoint there was no run.
Unstarted ==
    saved = None =>
        /\ \A o \in Owners : ~Live(o)
        /\ \A r \in Resumes : resuming[r] = None
        /\ csv.rows = 0 /\ csv.ops = 0 /\ lost.rows = 0 /\ lost.ops = 0

\* A registered run exists.
Registered == registry # 0 => Live(registry)

\* The reservation of a run is what its workers have in flight.
LedgerKept ==
    \A o \in Owners :
        /\ \A w \in Workers : lane[o][w].phase = "busy" => lane[o][w].n # 0
        /\ Live(o) => run[o].reserved = Cardinality(Units(lane[o]))

\* A run never counts less than it began with, nor more than its totals; it counts all
\* of them until an append fails.
TotalsKept ==
    \A o \in Owners : Live(o) =>
        /\ run[o].from <= run[o].ops /\ run[o].ops <= run[o].total
        /\ Intact(o) \/ lost.rows = 0 => run[o].total = run[o].ops

\* A run that is complete has nothing reserved, and has counted its budget.  What an
\* intact run has counted and reserved is within the budget, or what it began with;
\* without a failed append it is within the budget, also for a run that is yet to be
\* resumed.
BudgetKept ==
    /\ \A o \in Owners : Live(o) /\ run[o].status = "completed" => run[o].reserved = 0
    /\ mode = "count" =>
          /\ \A o \in Owners : Live(o) =>
                /\ ~run[o].expired
                /\ run[o].status = "completed" => Budget <= run[o].ops
                /\ Intact(o) => run[o].ops + run[o].reserved <= Bigger(Budget, run[o].from)
                /\ lost.rows = 0 => run[o].ops + run[o].reserved <= Budget
          /\ lost.rows = 0 =>
                /\ \A r \in Resumes : resuming[r] # None => resuming[r].ops <= Budget
                /\ csv.sound => csv.ops <= Budget

\* Nobody counts more than the CSV and the rows that were lost; without one, who counts
\* all the rows of a sound CSV counts its operations: only one run object at a time can
\* go on with it.
Counts(records, ops) ==
    /\ records <= csv.rows + lost.rows /\ ops <= csv.ops + lost.ops
    /\ lost.rows = 0 /\ csv.sound /\ records = csv.rows => ops = csv.ops

RowsKept ==
    /\ saved # None => saved.records <= csv.rows + lost.rows
    /\ \A o \in Owners : Live(o) => Counts(run[o].records, run[o].total)
    /\ \A r \in Resumes : resuming[r] # None => Counts(resuming[r].records, resuming[r].ops)

IInv == TypeOK /\ Unstarted /\ Registered /\ LedgerKept /\ TotalsKept /\ BudgetKept /\ RowsKept

-----------------------------------------------------------------------------
(* Reservations                                                            *)

LEMMA UnitsFinite ==
    ASSUME BenchmarkConstants, NEW g
    PROVE  IsFiniteSet(Units(g)) /\ Cardinality(Units(g)) \in Nat
<1>1. IsFiniteSet(1..MaxBatch)
    BY FS_Interval DEF BenchmarkConstants
<1>2. IsFiniteSet(Workers \X (1..MaxBatch))
    BY <1>1, FS_Product DEF BenchmarkConstants
<1>3. Units(g) \in SUBSET (Workers \X (1..MaxBatch))
    BY DEF Units
<1> QED
    BY <1>2, <1>3, FS_Subset, FS_CardinalityType

\* One worker's reservation of n is n operations.
LEMMA OneReservation ==
    ASSUME NEW w, NEW n \in Nat
    PROVE  IsFiniteSet({w} \X (1..n)) /\ Cardinality({w} \X (1..n)) = n
<1>1. IsFiniteSet({w}) /\ Cardinality({w}) = 1
    BY FS_Singleton
<1>2. IsFiniteSet(1..n) /\ Cardinality(1..n) = n
    BY FS_Interval
<1>3. IsFiniteSet({w} \X (1..n)) /\ Cardinality({w} \X (1..n)) = Cardinality({w}) * Cardinality(1..n)
    BY <1>1, <1>2, FS_Product
<1>4. 1 * n = n
    OBVIOUS
<1> QED
    BY <1>1, <1>2, <1>3, <1>4

\* A worker that had nothing in flight reserves n.
LEMMA UnitsGained ==
    ASSUME BenchmarkConstants, NEW g \in [Workers -> Lanes], NEW w \in Workers, g[w].phase # "busy",
           NEW n \in 1..MaxBatch, NEW h \in [Workers -> Lanes], h = [g EXCEPT ![w] = [phase |-> "busy", n |-> n]]
    PROVE  Cardinality(Units(h)) = Cardinality(Units(g)) + n
<1>1. Units(h) = Units(g) \cup ({w} \X (1..n)) /\ Units(g) \cap ({w} \X (1..n)) = {}
  <2>1. h[w].phase = "busy" /\ h[w].n = n /\ \A v \in Workers : v # w => h[v] = g[v]
      OBVIOUS
  <2>2. n \in Nat /\ 1..n \subseteq 1..MaxBatch /\ 1..n = {i \in 1..MaxBatch : i <= n}
      BY DEF BenchmarkConstants
  <2>3. ASSUME NEW u \in Workers \X (1..MaxBatch)
        PROVE  /\ u \in Units(h) <=> u \in Units(g) \/ u \in {w} \X (1..n)
               /\ ~ (u \in Units(g) /\ u \in {w} \X (1..n))
    <3>1. u[1] \in Workers /\ u[2] \in 1..MaxBatch /\ (u \in {w} \X (1..n) <=> u[1] = w /\ u[2] \in 1..n)
        BY <2>2
    <3> QED
        BY <2>1, <2>2, <3>1 DEF Units
  <2>4. /\ Units(h) \subseteq Workers \X (1..MaxBatch) /\ Units(g) \subseteq Workers \X (1..MaxBatch)
        /\ {w} \X (1..n) \subseteq Workers \X (1..MaxBatch)
      BY <2>2 DEF Units
  <2> QED
      BY <2>3, <2>4
<1>2. IsFiniteSet(Units(g)) /\ Cardinality(Units(g)) \in Nat /\ n \in Nat
    BY UnitsFinite DEF BenchmarkConstants
<1>3. IsFiniteSet({w} \X (1..n)) /\ Cardinality({w} \X (1..n)) = n
    BY <1>2, OneReservation
<1>4. Cardinality(Units(g) \cup ({w} \X (1..n)))
        = Cardinality(Units(g)) + Cardinality({w} \X (1..n)) - Cardinality(Units(g) \cap ({w} \X (1..n)))
    BY <1>2, <1>3, FS_Union
<1>5. Cardinality(Units(g) \cap ({w} \X (1..n))) = 0
    BY <1>1, FS_EmptySet
<1>6. Cardinality(Units(h)) = Cardinality(Units(g) \cup ({w} \X (1..n)))
    BY <1>1, Zenon
<1> QED
    BY <1>2, <1>3, <1>4, <1>5, <1>6

\* A worker gives back what it had in flight.
LEMMA UnitsLost ==
    ASSUME BenchmarkConstants, NEW g \in [Workers -> Lanes], NEW h \in [Workers -> Lanes],
           NEW w \in Workers, g[w].phase = "busy", h[w].phase # "busy",
           \A v \in Workers \ {w} : h[v] = g[v]
    PROVE  Cardinality(Units(g)) = Cardinality(Units(h)) + g[w].n
<1>1. h[w].phase # "busy" /\ \A v \in Workers : v # w => h[v] = g[v]
    OBVIOUS
<1>2. g[w] \in Lanes /\ g[w].n \in 0..MaxBatch
    BY DEF Lanes
<1>3. Units(g) = Units(h) \cup ({w} \X (1..g[w].n)) /\ Units(h) \cap ({w} \X (1..g[w].n)) = {}
  <2>1. 1..g[w].n = {i \in 1..MaxBatch : i <= g[w].n} /\ g[w].n \in Nat
      BY <1>2 DEF BenchmarkConstants
  <2>2. ASSUME NEW u \in Workers \X (1..MaxBatch)
        PROVE  /\ u \in Units(g) <=> u \in Units(h) \/ u \in {w} \X (1..g[w].n)
               /\ ~ (u \in Units(h) /\ u \in {w} \X (1..g[w].n))
    <3>1. u[1] \in Workers /\ u[2] \in 1..MaxBatch
        OBVIOUS
    <3>2. u \in {w} \X (1..g[w].n) <=> u[1] = w /\ u[2] \in 1..g[w].n
        OBVIOUS
    <3> QED
        BY <1>1, <2>1, <3>1, <3>2 DEF Units
  <2>3. /\ Units(h) \subseteq Workers \X (1..MaxBatch) /\ Units(g) \subseteq Workers \X (1..MaxBatch)
        /\ {w} \X (1..g[w].n) \subseteq Workers \X (1..MaxBatch)
      BY <2>1 DEF Units
  <2> QED
      BY <2>2, <2>3
<1>4. IsFiniteSet(Units(h)) /\ Cardinality(Units(h)) \in Nat /\ g[w].n \in Nat
    BY <1>2, UnitsFinite DEF BenchmarkConstants
<1>5. IsFiniteSet({w} \X (1..g[w].n)) /\ Cardinality({w} \X (1..g[w].n)) = g[w].n
    BY <1>4, OneReservation
<1>6. Cardinality(Units(h) \cup ({w} \X (1..g[w].n)))
        = Cardinality(Units(h)) + Cardinality({w} \X (1..g[w].n)) - Cardinality(Units(h) \cap ({w} \X (1..g[w].n)))
    BY <1>4, <1>5, FS_Union
<1>7. Cardinality(Units(h) \cap ({w} \X (1..g[w].n))) = 0
    BY <1>3, FS_EmptySet
<1>8. Cardinality(Units(g)) = Cardinality(Units(h) \cup ({w} \X (1..g[w].n)))
    BY <1>3, Zenon
<1> QED
    BY <1>4, <1>5, <1>6, <1>7, <1>8

\* Workers that have nothing in flight reserve nothing.
LEMMA NoUnits ==
    ASSUME NEW g, \A w \in Workers : g[w].phase # "busy"
    PROVE  Units(g) = {} /\ Cardinality(Units(g)) = 0
BY FS_EmptySet DEF Units

\* A worker goes from one point without anything in flight to another.
LEMMA UnitsSame ==
    ASSUME NEW g \in [Workers -> Lanes], NEW w \in Workers, g[w].phase # "busy",
           NEW x \in Lanes, x.phase # "busy", NEW h \in [Workers -> Lanes], h = [g EXCEPT ![w] = x]
    PROVE  Units(h) = Units(g)
<1>1. h[w] = x /\ \A v \in Workers : v # w => h[v] = g[v]
    OBVIOUS
<1> QED
    BY <1>1 DEF Units

\* Without a reservation no worker has anything in flight.
LEMMA NothingInFlight ==
    ASSUME BenchmarkConstants, IInv, NEW o \in Owners, Live(o), run[o].reserved = 0
    PROVE  InFlight(o) = {}
<1>1. Units(lane[o]) = {}
    BY UnitsFinite, FS_EmptySet DEF IInv, LedgerKept
<1>2. ASSUME NEW w \in Workers, lane[o][w].phase = "busy" PROVE FALSE
  <2>1. lane[o][w].n \in 1..MaxBatch
      BY <1>2 DEF IInv, TypeOK, LedgerKept, Lanes, BenchmarkConstants
  <2>2. <<w, 1>> \in Units(lane[o])
      BY <1>2, <2>1 DEF Units, BenchmarkConstants
  <2> QED
      BY <1>1, <2>2
<1> QED
    BY <1>2 DEF InFlight

-----------------------------------------------------------------------------
(* Run objects and lanes                                                   *)

LEMMA CheckpointTypes ==
    ASSUME NEW status, NEW records \in Nat
    PROVE  /\ Checkpoint(status, records) \in Checkpoints /\ Checkpoint(status, records) # None
           /\ Checkpoint(status, records).records = records
<1>1. Checkpoint(status, records).over \in BOOLEAN
    BY DEF Checkpoint
<1> QED
    BY <1>1 DEF Checkpoint, Checkpoints, None

\* A save that may raise leaves the checkpoint as it was, or with what the run knows.
LEMMA Persisted ==
    ASSUME TypeOK, NEW r, r.records \in Nat, Persist(r)
    PROVE  /\ saved' \in Checkpoints /\ (saved' = None => saved = None)
           /\ saved' = saved \/ (saved' # None /\ saved'.records = r.records)
BY CheckpointTypes DEF Persist, TypeOK

LEMMA LiveRun ==
    ASSUME IInv, NEW o \in Owners, Live(o)
    PROVE  /\ TypeOK /\ Unstarted /\ Registered /\ LedgerKept /\ TotalsKept /\ BudgetKept /\ RowsKept
           /\ run[o] \in Runs /\ lane[o] \in [Workers -> Lanes]
BY DEF IInv, TypeOK, Live

\* One run object changes.
LEMMA RunStep ==
    ASSUME TypeOK, NEW o \in Owners, NEW r \in Runs, run' = [run EXCEPT ![o] = r]
    PROVE  /\ run' \in [Owners -> {None} \cup Runs]
           /\ run'[o] = r /\ Live(o)'
           /\ \A q \in Owners : q # o => run'[q] = run[q] /\ (Live(q)' <=> Live(q))
<1>1. r # None
    BY DEF None, Runs, Terminal
<1> QED
    BY <1>1 DEF TypeOK, Live

\* One worker of one run changes.
LEMMA LaneStep ==
    ASSUME TypeOK, NEW o \in Owners, NEW w \in Workers, NEW x \in Lanes,
           lane' = [lane EXCEPT ![o][w] = x]
    PROVE  /\ lane' \in [Owners -> [Workers -> Lanes]]
           /\ lane'[o] = [lane[o] EXCEPT ![w] = x]
           /\ \A q \in Owners : q # o => lane'[q] = lane[q]
BY DEF TypeOK

-----------------------------------------------------------------------------
(* The initial states                                                      *)

LEMMA InitInv == ASSUME BenchmarkConstants, Init PROVE IInv
<1>1. TypeOK
  <2>1. Off \in Lanes /\ 0 \in 0..MaxOwners /\ 0 \in 0..MaxCrashes
      BY DEF Off, Lanes, BenchmarkConstants
  <2> QED
      BY <2>1 DEF Init, TypeOK, Checkpoints
<1>2. Unstarted /\ Registered /\ LedgerKept /\ TotalsKept /\ BudgetKept /\ RowsKept
    BY DEF Init, Unstarted, Registered, LedgerKept, TotalsKept, BudgetKept, RowsKept, Live, Off, BenchmarkConstants
<1> QED
    BY <1>1, <1>2 DEF IInv

-----------------------------------------------------------------------------
(* Rows                                                                    *)

\* A run that is intact was so before, if its workers that were failing still are.
LEMMA IntactBefore ==
    ASSUME NEW o \in Owners, \A w \in Workers : lane[o][w].phase = "failing" => lane'[o][w].phase = "failing",
           run[o].status \in {"failed", "stopped"} => run'[o].status \in {"failed", "stopped"}
    PROVE  Intact(o)' => Intact(o)
BY DEF Intact, Failing

\* The totals count an operation, and its reservation is given back.
LEMMA CountedKeeps ==
    ASSUME BenchmarkConstants, IInv, NEW o \in Owners, NEW w \in Workers, Live(o),
           lane[o][w].phase = "busy", NEW c \in 1..lane[o][w].n, NEW ops \in Nat, Counted(o, w, c, ops),
           NEW x \in Lanes, x.phase # "busy", lane' = [lane EXCEPT ![o][w] = x]
    PROVE  /\ run' \in [Owners -> {None} \cup Runs] /\ lane' \in [Owners -> [Workers -> Lanes]]
           /\ run'[o] \in Runs /\ Live(o)'
           /\ run'[o].status = run[o].status /\ run'[o].expired = run[o].expired /\ run'[o].from = run[o].from
           /\ run'[o].reserved + c <= run[o].reserved
           /\ run[o].status # "completed" /\ lane'[o][w] = x
           /\ \A q \in Owners : q # o => run'[q] = run[q] /\ (Live(q)' <=> Live(q))
           /\ \A q \in Owners : Intact(q)' => Intact(q)
           /\ LedgerKept'
<1>1. /\ TypeOK /\ LedgerKept /\ BudgetKept
      /\ run[o] \in Runs /\ lane[o] \in [Workers -> Lanes]
    BY LiveRun
<1>2. /\ lane' \in [Owners -> [Workers -> Lanes]] /\ lane'[o] = [lane[o] EXCEPT ![w] = x]
      /\ \A q \in Owners : q # o => lane'[q] = lane[q]
    BY <1>1, LaneStep
<1>3. lane[o][w].n \in 1..MaxBatch /\ c \in Nat \ {0} /\ c <= lane[o][w].n
    BY <1>1 DEF LedgerKept, Lanes, BenchmarkConstants
<1>4. /\ run[o].reserved = Cardinality(Units(lane'[o])) + lane[o][w].n
      /\ Cardinality(Units(lane'[o])) \in Nat
  <2>1. /\ lane'[o] \in [Workers -> Lanes] /\ lane'[o][w].phase # "busy"
        /\ \A v \in Workers \ {w} : lane'[o][v] = lane[o][v]
      BY <1>1, <1>2
  <2>2. Cardinality(Units(lane[o])) = Cardinality(Units(lane'[o])) + lane[o][w].n
      BY <1>1, <2>1, UnitsLost, Zenon
  <2> QED
      BY <1>1, <2>2, UnitsFinite DEF LedgerKept
<1>5. run[o].reserved - lane[o][w].n = Cardinality(Units(lane'[o]))
    BY <1>3, <1>4 DEF BenchmarkConstants
<1> DEFINE new == [run[o] EXCEPT !.reserved = @ - lane[o][w].n, !.records = @ + 1, !.total = @ + c, !.ops = ops]
<1>6. new \in Runs
  <2>1. /\ run[o].status \in {"running", "paused"} \cup Terminal /\ run[o].expired \in BOOLEAN /\ run[o].from \in Nat
        /\ run[o].records + 1 \in Nat /\ run[o].total + c \in Nat /\ run[o].reserved - lane[o][w].n \in Nat
      BY <1>1, <1>3, <1>4, <1>5 DEF Runs
  <2> QED
      BY <1>1, <2>1 DEF Runs
<1>7. run' = [run EXCEPT ![o] = new]
  <2>1. o \in DOMAIN run
      BY <1>1 DEF TypeOK
  <2> QED
      BY <2>1 DEF Counted
<1>8. /\ new.status = run[o].status /\ new.expired = run[o].expired /\ new.from = run[o].from
      /\ new.records = run[o].records + 1 /\ new.total = run[o].total + c /\ new.ops = ops
      /\ new.reserved = run[o].reserved - lane[o][w].n
    BY <1>1 DEF Runs
<1> HIDE DEF new
<1>9. /\ run' \in [Owners -> {None} \cup Runs] /\ run'[o] = new /\ Live(o)'
      /\ \A q \in Owners : q # o => run'[q] = run[q] /\ (Live(q)' <=> Live(q))
    BY <1>1, <1>6, <1>7, RunStep
<1>10. new.reserved + c <= run[o].reserved
    BY <1>3, <1>4, <1>5, <1>8 DEF BenchmarkConstants
<1>11. run[o].status # "completed"
  <2>1. run[o].reserved # 0
      BY <1>3, <1>4 DEF BenchmarkConstants
  <2> QED
      BY <1>1, <2>1 DEF BudgetKept
<1>12. LedgerKept'
  <2> SUFFICES ASSUME NEW q \in Owners
               PROVE  /\ \A v \in Workers : lane'[q][v].phase = "busy" => lane'[q][v].n # 0
                      /\ Live(q)' => run'[q].reserved = Cardinality(Units(lane'[q]))
      BY DEF LedgerKept
  <2>1. CASE q = o
      BY <1>1, <1>2, <1>5, <1>8, <1>9, <2>1 DEF LedgerKept
  <2>2. CASE q # o
      BY <1>1, <1>2, <1>9, <2>2 DEF LedgerKept
  <2> QED
      BY <2>1, <2>2
<1>13. \A q \in Owners : Intact(q)' => Intact(q)
  <2> SUFFICES ASSUME NEW q \in Owners PROVE Intact(q)' => Intact(q)
      OBVIOUS
  <2>1. \A v \in Workers : lane[q][v].phase = "failing" => lane'[q][v].phase = "failing"
      BY <1>1, <1>2
  <2>2. run'[q].status = run[q].status
      BY <1>8, <1>9
  <2> QED
      BY <2>1, <2>2, IntactBefore
<1> QED
    BY <1>1, <1>2, <1>6, <1>8, <1>9, <1>10, <1>11, <1>12, <1>13

\* An operation that ends: its count, its row, and its reservation given back.
LEMMA RecordKeeps ==
    ASSUME BenchmarkConstants, IInv, NEW o \in Owners, NEW w \in Workers, Live(o),
           lane[o][w].phase = "busy", NEW c \in 1..lane[o][w].n, Record(o, w, c),
           NEW x \in Lanes, x.phase # "busy", lane' = [lane EXCEPT ![o][w] = x],
           mode' = mode, resuming' = resuming
    PROVE  /\ run' \in [Owners -> {None} \cup Runs] /\ lane' \in [Owners -> [Workers -> Lanes]]
           /\ csv' \in [rows : Nat, ops : Nat, sound : BOOLEAN] /\ csv'.rows = csv.rows + 1
           /\ run'[o] \in Runs /\ run'[o].records <= csv'.rows + lost'.rows
           /\ LedgerKept' /\ TotalsKept' /\ BudgetKept'
           /\ \A q \in Owners : (Live(q)' <=> Live(q)) /\ (Live(q)' => Counts(run[q].records, run[q].total)')
           /\ \A r \in Resumes : resuming'[r] # None => Counts(resuming[r].records, resuming[r].ops)'
<1>1. /\ TypeOK /\ TotalsKept /\ BudgetKept /\ RowsKept
      /\ run[o] \in Runs /\ lane[o] \in [Workers -> Lanes]
    BY LiveRun
<1>2. /\ run[o].records \in Nat /\ run[o].total \in Nat /\ run[o].ops \in Nat /\ run[o].from \in Nat /\ run[o].reserved \in Nat
      /\ csv.rows \in Nat /\ csv.ops \in Nat /\ lost.rows \in Nat /\ lost.ops \in Nat /\ c \in Nat \ {0}
    BY <1>1 DEF TypeOK, Runs
<1> DEFINE total == run[o].total + c
<1>3. Counted(o, w, c, total) /\ total \in Nat
    BY <1>2 DEF Record
<1> HIDE DEF total
<1>4. /\ run' \in [Owners -> {None} \cup Runs] /\ lane' \in [Owners -> [Workers -> Lanes]]
      /\ run'[o] \in Runs /\ Live(o)'
      /\ run'[o].status = run[o].status /\ run'[o].expired = run[o].expired /\ run'[o].from = run[o].from
      /\ run'[o].reserved + c <= run[o].reserved
      /\ run[o].status # "completed"
      /\ \A q \in Owners : q # o => run'[q] = run[q] /\ (Live(q)' <=> Live(q))
      /\ \A q \in Owners : Intact(q)' => Intact(q)
      /\ LedgerKept'
    BY <1>3, CountedKeeps
<1>5. run'[o].records = run[o].records + 1 /\ run'[o].total = run[o].total + c /\ run'[o].ops = total
    BY <1>1, <1>3 DEF Counted, TypeOK, Runs
<1>6. run'[o].reserved \in Nat
    BY <1>4 DEF Runs
<1>7. /\ csv' \in [rows : Nat, ops : Nat, sound : BOOLEAN] /\ lost' = lost
      /\ csv'.rows = csv.rows + 1 /\ csv'.ops = csv.ops + c
      /\ csv'.sound = (csv.sound /\ csv.rows = run[o].records)
    BY <1>1, <1>2 DEF TypeOK, Record
<1>8. /\ Counts(run[o].records, run[o].total)
      /\ \A q \in Owners : Live(q) => Counts(run[q].records, run[q].total) /\ run[q].records \in Nat /\ run[q].total \in Nat
    BY <1>1 DEF RowsKept, TypeOK, Live, Runs
<1>9. \A r \in Resumes : resuming[r] # None =>
          Counts(resuming[r].records, resuming[r].ops) /\ resuming[r].records \in Nat /\ resuming[r].ops \in Nat
    BY <1>1 DEF RowsKept, TypeOK
<1>10. Counts(run[o].records, run[o].total)'
    BY <1>2, <1>4, <1>7, <1>8, <1>5 DEF Counts
<1>11. \A q \in Owners : Live(q)' => Counts(run[q].records, run[q].total)'
  <2> SUFFICES ASSUME NEW q \in Owners, Live(q), q # o PROVE Counts(run[q].records, run[q].total)'
      BY <1>4, <1>10
  <2> QED
      BY <1>2, <1>4, <1>7, <1>8 DEF Counts
<1>12. \A r \in Resumes : resuming'[r] # None => Counts(resuming[r].records, resuming[r].ops)'
    BY <1>2, <1>7, <1>9 DEF Counts
<1>13. run[o].from <= run[o].ops /\ run[o].ops <= run[o].total /\ (Intact(o) \/ lost.rows = 0 => run[o].total = run[o].ops)
    BY <1>1 DEF TotalsKept
<1>14. TotalsKept'
  <2> SUFFICES ASSUME NEW q \in Owners, Live(q)'
               PROVE  /\ run'[q].from <= run'[q].ops /\ run'[q].ops <= run'[q].total
                      /\ Intact(q)' \/ lost'.rows = 0 => run'[q].total = run'[q].ops
      BY DEF TotalsKept
  <2>1. CASE q = o
      BY <1>2, <1>4, <1>13, <1>5, <2>1 DEF total
  <2>2. CASE q # o
      BY <1>1, <1>4, <1>7, <2>2 DEF TotalsKept
  <2> QED
      BY <2>1, <2>2
<1>15. BudgetKept'
  <2>1. \A q \in Owners : Live(q)' /\ run'[q].status = "completed" => run'[q].reserved = 0
      BY <1>1, <1>4 DEF BudgetKept
  <2> SUFFICES ASSUME mode = "count"
               PROVE  /\ \A q \in Owners : Live(q)' =>
                            /\ ~run'[q].expired
                            /\ run'[q].status = "completed" => Budget <= run'[q].ops
                            /\ Intact(q)' => run'[q].ops + run'[q].reserved <= Bigger(Budget, run'[q].from)
                            /\ lost'.rows = 0 => run'[q].ops + run'[q].reserved <= Budget
                      /\ lost'.rows = 0 =>
                            /\ \A r \in Resumes : resuming'[r] # None => resuming'[r].ops <= Budget
                            /\ csv'.sound => csv'.ops <= Budget
      BY <2>1 DEF BudgetKept
  <2>2. /\ ~run[o].expired
        /\ Intact(o) => run[o].ops + run[o].reserved <= Bigger(Budget, run[o].from)
        /\ lost.rows = 0 => run[o].ops + run[o].reserved <= Budget
      BY <1>1 DEF BudgetKept
  <2>3. Bigger(Budget, run[o].from) \in Nat /\ Budget \in Nat
      BY <1>2 DEF Bigger, BenchmarkConstants
  <2>4. Intact(o)' => run'[o].ops + run'[o].reserved <= Bigger(Budget, run'[o].from)
      BY <1>2, <1>4, <1>6, <1>5, <1>13, <2>2, <2>3 DEF total
  <2>5. lost.rows = 0 => run'[o].ops + run'[o].reserved <= Budget
      BY <1>2, <1>4, <1>6, <1>5, <1>13, <2>2, <2>3 DEF total
  <2>6. lost.rows = 0 /\ csv'.sound => csv'.ops <= Budget
    <3>1. lost.rows = 0 /\ csv'.sound => csv.ops = run[o].total
        BY <1>7, <1>8 DEF Counts
    <3> QED
        BY <1>2, <1>4, <1>6, <1>5, <1>7, <2>3, <2>5, <3>1 DEF total
  <2>7. ASSUME NEW q \in Owners, Live(q)', q # o
        PROVE  /\ ~run'[q].expired
               /\ run'[q].status = "completed" => Budget <= run'[q].ops
               /\ Intact(q)' => run'[q].ops + run'[q].reserved <= Bigger(Budget, run'[q].from)
               /\ lost'.rows = 0 => run'[q].ops + run'[q].reserved <= Budget
      BY <1>1, <1>4, <1>7, <2>7 DEF BudgetKept
  <2>8. lost'.rows = 0 => \A r \in Resumes : resuming'[r] # None => resuming'[r].ops <= Budget
      BY <1>1, <1>7 DEF BudgetKept
  <2> QED
      BY <1>4, <1>7, <2>2, <2>4, <2>5, <2>6, <2>7, <2>8
<1> QED
    BY <1>4, <1>7, <1>10, <1>11, <1>12, <1>14, <1>15 DEF Counts

-----------------------------------------------------------------------------
(* Requests                                                                *)

\* A run object is made, from a CSV or from nothing.
LEMMA NewRunKeeps ==
    ASSUME BenchmarkConstants, IInv, NEW o \in Owners, NEW records \in Nat, NEW ops \in Nat, NEW late \in BOOLEAN,
           late => mode = "duration", NewRun(o, records, ops, late), StartWorkers(o), Counts(records, ops),
           mode = "count" /\ lost.rows = 0 => ops <= Budget,
           registry' = o, mode' = mode, csv' = csv, lost' = lost,
           \A s \in Resumes : resuming'[s] # None => resuming'[s] = resuming[s]
    PROVE  /\ run' \in [Owners -> {None} \cup Runs] /\ lane' \in [Owners -> [Workers -> Lanes]]
           /\ Registered' /\ LedgerKept' /\ TotalsKept' /\ BudgetKept'
           /\ \A q \in Owners : Live(q)' => Counts(run[q].records, run[q].total)'
<1>1. TypeOK /\ Unstarted /\ Registered /\ LedgerKept /\ TotalsKept /\ BudgetKept /\ RowsKept
    BY DEF IInv
<1> DEFINE r == [status |-> "running", records |-> records, total |-> ops, ops |-> ops, from |-> ops,
                 reserved |-> 0, expired |-> late]
<1>2. /\ r \in Runs /\ r.status = "running" /\ r.records = records /\ r.total = ops /\ r.ops = ops /\ r.from = ops
      /\ r.reserved = 0 /\ r.expired = late
    BY DEF Runs
<1>3. run' = [run EXCEPT ![o] = r]
    BY DEF NewRun
<1> HIDE DEF r
<1>4. /\ run' \in [Owners -> {None} \cup Runs] /\ run'[o] = r /\ Live(o)'
      /\ \A q \in Owners : q # o => run'[q] = run[q] /\ (Live(q)' <=> Live(q))
    BY <1>1, <1>2, <1>3, RunStep
<1>5. PICK phase \in {"idle", "off"} : lane' = [lane EXCEPT ![o] = [w \in Workers |-> [phase |-> phase, n |-> 0]]]
    BY DEF StartWorkers
<1>6. [w \in Workers |-> [phase |-> phase, n |-> 0]] \in [Workers -> Lanes]
    BY <1>5 DEF Lanes, BenchmarkConstants
<1>7. /\ lane' \in [Owners -> [Workers -> Lanes]] /\ lane'[o] = [w \in Workers |-> [phase |-> phase, n |-> 0]]
      /\ \A q \in Owners : q # o => lane'[q] = lane[q]
    BY <1>1, <1>5, <1>6 DEF TypeOK
<1>8. \A w \in Workers : lane'[o][w].phase # "busy"
    BY <1>5, <1>7
<1>9. Cardinality(Units(lane'[o])) = 0
    BY <1>8, NoUnits
<1>10. LedgerKept'
  <2> SUFFICES ASSUME NEW q \in Owners
               PROVE  /\ \A v \in Workers : lane'[q][v].phase = "busy" => lane'[q][v].n # 0
                      /\ Live(q)' => run'[q].reserved = Cardinality(Units(lane'[q]))
      BY DEF LedgerKept
  <2>1. CASE q = o
      BY <1>2, <1>4, <1>8, <1>9, <2>1
  <2>2. CASE q # o
      BY <1>1, <1>4, <1>7, <2>2 DEF LedgerKept
  <2> QED
      BY <2>1, <2>2
<1>11. \A q \in Owners : Live(q)' => Counts(run[q].records, run[q].total)'
  <2> SUFFICES ASSUME NEW q \in Owners, Live(q)' PROVE Counts(run[q].records, run[q].total)'
      OBVIOUS
  <2>1. CASE q = o
      BY <1>2, <1>4, <2>1 DEF Counts
  <2>2. CASE q # o
      BY <1>1, <1>4, <2>2 DEF RowsKept, Counts
  <2> QED
      BY <2>1, <2>2
<1>12. \A q \in Owners : q # o => (Intact(q)' => Intact(q))
    BY <1>4, <1>7, IntactBefore
<1>13. TotalsKept'
  <2> SUFFICES ASSUME NEW q \in Owners, Live(q)'
               PROVE  /\ run'[q].from <= run'[q].ops /\ run'[q].ops <= run'[q].total
                      /\ Intact(q)' \/ lost'.rows = 0 => run'[q].total = run'[q].ops
      BY DEF TotalsKept
  <2>1. CASE q = o
      BY <1>2, <1>4, <2>1
  <2>2. CASE q # o
      BY <1>1, <1>4, <1>12, <2>2 DEF TotalsKept
  <2> QED
      BY <2>1, <2>2
<1>14. ops <= Bigger(Budget, ops) /\ ops + 0 = ops
    BY DEF Bigger, BenchmarkConstants
<1>15. BudgetKept'
  <2>1. /\ ~(run'[o].status = "completed") /\ (mode = "count" => ~run'[o].expired)
        /\ run'[o].ops + run'[o].reserved <= Bigger(Budget, run'[o].from)
        /\ mode = "count" /\ lost'.rows = 0 => run'[o].ops + run'[o].reserved <= Budget
      BY <1>2, <1>4, <1>14
  <2>2. ASSUME NEW q \in Owners, Live(q)', q # o
        PROVE  /\ run'[q].status = "completed" => run'[q].reserved = 0
               /\ mode = "count" =>
                     /\ ~run'[q].expired
                     /\ run'[q].status = "completed" => Budget <= run'[q].ops
                     /\ Intact(q)' => run'[q].ops + run'[q].reserved <= Bigger(Budget, run'[q].from)
                     /\ lost'.rows = 0 => run'[q].ops + run'[q].reserved <= Budget
      BY <1>1, <1>4, <1>12, <2>2 DEF BudgetKept
  <2>3. mode = "count" /\ lost'.rows = 0 =>
            /\ \A s \in Resumes : resuming'[s] # None => resuming'[s].ops <= Budget
            /\ csv'.sound => csv'.ops <= Budget
      BY <1>1 DEF BudgetKept
  <2> QED
      BY <2>1, <2>2, <2>3 DEF BudgetKept
<1> QED
    BY <1>4, <1>7, <1>10, <1>11, <1>13, <1>15 DEF Registered

-----------------------------------------------------------------------------
(* The steps                                                               *)

\* Only a timed run expires.
LEMMA ExpireKeeps ==
    ASSUME BenchmarkConstants, IInv, NEW o \in Owners, Expire(o) PROVE IInv'
<1>1. TypeOK /\ Live(o) /\ run[o] \in Runs
    BY LiveRun DEF Expire, Live
<1>2. [run[o] EXCEPT !.expired = TRUE] \in Runs
    BY <1>1 DEF Runs
<1>3. /\ run' \in [Owners -> {None} \cup Runs] /\ \A q \in Owners : Live(q)' <=> Live(q)
      /\ \A q \in Owners : Live(q) => /\ run'[q].status = run[q].status /\ run'[q].records = run[q].records
                                      /\ run'[q].total = run[q].total /\ run'[q].ops = run[q].ops
                                      /\ run'[q].from = run[q].from /\ run'[q].reserved = run[q].reserved
    BY <1>1, <1>2, RunStep DEF Expire, Runs
<1>4. TypeOK'
    BY <1>1, <1>3 DEF TypeOK, Expire
<1>5. Unstarted'
    BY <1>1 DEF IInv, Unstarted, Expire
<1>6. Registered'
    BY <1>3 DEF IInv, Registered, TypeOK, Owners, Expire
<1>7. LedgerKept'
    BY <1>3 DEF IInv, LedgerKept, Expire
<1>8. TotalsKept'
    BY <1>3 DEF IInv, TotalsKept, Intact, Failing, Expire
<1>9. BudgetKept'
    BY <1>3 DEF IInv, BudgetKept, Intact, Failing, Expire
<1>10. RowsKept'
    BY <1>3 DEF IInv, RowsKept, Counts, Expire
<1> QED
    BY <1>4, <1>5, <1>6, <1>7, <1>9, <1>10, <1>8 DEF IInv

\* A worker reserves what is left of the budget, at most.
LEMMA ReserveKeeps ==
    ASSUME BenchmarkConstants, IInv, NEW o \in Owners, NEW w \in Workers, Live(o), Reserve(o, w) PROVE IInv'
<1>1. /\ TypeOK /\ Unstarted /\ Registered /\ LedgerKept /\ TotalsKept /\ BudgetKept /\ RowsKept
      /\ run[o] \in Runs /\ lane[o] \in [Workers -> Lanes]
    BY LiveRun
<1>2. PICK n \in 1..Smaller(Remaining(o), MaxBatch) :
          /\ run' = [run EXCEPT ![o].reserved = @ + n]
          /\ lane' = [lane EXCEPT ![o][w] = [phase |-> "busy", n |-> n]]
    BY DEF Reserve
<1>3. n \in 1..MaxBatch /\ n <= Remaining(o)
  <2>1. Remaining(o) \in Int /\ MaxBatch \in Nat
      BY <1>1 DEF TypeOK, Remaining, Smaller, Runs, BenchmarkConstants
  <2> QED
      BY <1>2, <2>1 DEF Smaller
<1>4. [run[o] EXCEPT !.reserved = @ + n] \in Runs /\ [phase |-> "busy", n |-> n] \in Lanes
    BY <1>1, <1>3 DEF Runs, Lanes
<1>5. /\ run' \in [Owners -> {None} \cup Runs] /\ run'[o] = [run[o] EXCEPT !.reserved = @ + n]
      /\ \A q \in Owners : (Live(q)' <=> Live(q)) /\ (q # o => run'[q] = run[q])
    BY <1>1, <1>2, <1>4, RunStep
<1>6. /\ lane' \in [Owners -> [Workers -> Lanes]]
      /\ lane'[o] = [lane[o] EXCEPT ![w] = [phase |-> "busy", n |-> n]]
      /\ \A q \in Owners : q # o => lane'[q] = lane[q]
    BY <1>1, <1>2, <1>4, LaneStep
<1>7. /\ run'[o].status = "running" /\ run'[o].records = run[o].records
      /\ run'[o].total = run[o].total /\ run'[o].ops = run[o].ops /\ run'[o].from = run[o].from
      /\ run'[o].reserved = run[o].reserved + n /\ run'[o].expired = run[o].expired
    BY <1>1, <1>5 DEF Reserve, Runs
<1>8. TypeOK'
    BY <1>1, <1>5, <1>6 DEF TypeOK, Reserve
<1>9. Unstarted'
    BY DEF IInv, Unstarted, Reserve
<1>10. Registered'
    BY <1>1, <1>5 DEF Registered, TypeOK, Owners, Reserve
<1>11. LedgerKept'
  <2>1. Cardinality(Units(lane'[o])) = Cardinality(Units(lane[o])) + n
    <3>1. lane[o][w].phase # "busy" /\ lane'[o] \in [Workers -> Lanes]
        BY <1>6 DEF Reserve
    <3> QED
        BY <1>1, <1>3, <1>6, <3>1, UnitsGained
  <2>2. \A v \in Workers : lane'[o][v].phase = "busy" => lane'[o][v].n # 0
      BY <1>1, <1>3, <1>6 DEF LedgerKept
  <2> SUFFICES ASSUME NEW q \in Owners
               PROVE  /\ \A v \in Workers : lane'[q][v].phase = "busy" => lane'[q][v].n # 0
                      /\ Live(q)' => run'[q].reserved = Cardinality(Units(lane'[q]))
      BY DEF LedgerKept
  <2>3. CASE q = o
      BY <1>1, <1>5, <1>6, <1>7, <2>1, <2>2, <2>3 DEF LedgerKept
  <2>4. CASE q # o
      BY <1>1, <1>5, <1>6, <1>7, <2>4 DEF LedgerKept
  <2> QED
      BY <2>3, <2>4
<1>12. \A q \in Owners : Intact(q)' => Intact(q)
  <2> SUFFICES ASSUME NEW q \in Owners PROVE Intact(q)' => Intact(q)
      OBVIOUS
  <2>1. \A v \in Workers : lane[q][v].phase = "failing" => lane'[q][v].phase = "failing"
      BY <1>1, <1>6 DEF Reserve
  <2>2. run[q].status \in {"failed", "stopped"} => run'[q].status \in {"failed", "stopped"}
      BY <1>1, <1>5, <1>7 DEF Reserve
  <2> QED
      BY <2>1, <2>2, IntactBefore
<1>13. TotalsKept'
    BY <1>1, <1>5, <1>7, <1>12 DEF TotalsKept, Reserve
<1>14. BudgetKept'
  <2>1. mode = "count" => /\ run[o].ops + run[o].reserved + n <= Budget
                          /\ Budget <= Bigger(Budget, run[o].from) /\ Bigger(Budget, run[o].from) \in Nat
      BY <1>1, <1>3 DEF Remaining, Smaller, Bigger, Runs, BenchmarkConstants
  <2>2. mode = "count" => /\ run'[o].ops + run'[o].reserved <= Budget
                          /\ run'[o].ops + run'[o].reserved <= Bigger(Budget, run'[o].from)
      BY <1>1, <1>3, <1>7, <2>1 DEF Runs, BenchmarkConstants
  <2> QED
      BY <1>1, <1>5, <1>7, <1>12, <2>2 DEF BudgetKept, Reserve
<1>15. RowsKept'
    BY <1>1, <1>5, <1>7 DEF RowsKept, Counts, Reserve
<1> QED
    BY <1>8, <1>9, <1>10, <1>11, <1>14, <1>15, <1>13 DEF IInv

\* A run is complete with nothing reserved, and its budget recorded.
LEMMA CompleteKeeps ==
    ASSUME BenchmarkConstants, IInv, NEW o \in Owners, NEW w \in Workers, Live(o), Complete(o, w) PROVE IInv'
<1>1. /\ TypeOK /\ Unstarted /\ Registered /\ LedgerKept /\ TotalsKept /\ BudgetKept /\ RowsKept
      /\ run[o] \in Runs /\ lane[o] \in [Workers -> Lanes]
    BY LiveRun
<1>2. [run[o] EXCEPT !.status = "completed"] \in Runs
    BY <1>1 DEF Runs, Terminal
<1>3. /\ run' \in [Owners -> {None} \cup Runs] /\ run'[o] = [run[o] EXCEPT !.status = "completed"]
      /\ \A q \in Owners : (Live(q)' <=> Live(q)) /\ (q # o => run'[q] = run[q])
    BY <1>1, <1>2, RunStep DEF Complete
<1>4. /\ run'[o].status = "completed" /\ run'[o].records = run[o].records /\ run'[o].total = run[o].total
      /\ run'[o].ops = run[o].ops /\ run'[o].from = run[o].from
      /\ run'[o].reserved = run[o].reserved /\ run'[o].expired = run[o].expired
    BY <1>3
<1>5. PICK x \in {Off, Raised} : lane' = [lane EXCEPT ![o][w] = x]
    BY DEF Complete
<1>6. /\ x \in Lanes /\ x.phase # "busy"
      /\ lane' \in [Owners -> [Workers -> Lanes]] /\ lane'[o] = [lane[o] EXCEPT ![w] = x]
      /\ \A q \in Owners : q # o => lane'[q] = lane[q]
  <2>1. x \in Lanes /\ x.phase # "busy"
      BY <1>5 DEF Off, Raised, Lanes, BenchmarkConstants
  <2> QED
      BY <1>1, <1>5, <2>1, LaneStep
<1>7. /\ saved' \in Checkpoints /\ (saved' = None => saved = None)
      /\ saved' = saved \/ (saved' # None /\ saved'.records = run[o].records)
  <2>1. run[o].records \in Nat
      BY <1>1 DEF Runs
  <2>2. CASE saved' = Checkpoint("completed", run[o].records)
      BY <2>1, <2>2, CheckpointTypes
  <2>3. CASE Persist(run'[o])
      BY <1>1, <1>4, <2>1, <2>3, Persisted
  <2> QED
      BY <2>2, <2>3 DEF Complete
<1>8. TypeOK'
  <2>1. UNCHANGED <<mode, registry, csv, resuming, crashes, lost>>
      BY DEF Complete
  <2>2. saved' \in Checkpoints
      BY <1>7
  <2> QED
      BY <1>1, <1>3, <1>6, <2>1, <2>2 DEF TypeOK
<1>9. Unstarted'
    BY <1>1, <1>7 DEF Unstarted
<1>10. Registered'
    BY <1>1, <1>3 DEF Registered, TypeOK, Owners, Complete
<1>11. LedgerKept'
  <2>1. Cardinality(Units(lane'[o])) = Cardinality(Units(lane[o]))
    <3>1. lane[o][w].phase # "busy" /\ lane'[o] \in [Workers -> Lanes]
        BY <1>6 DEF Complete
    <3>2. Units(lane'[o]) = Units(lane[o])
        BY <1>1, <1>6, <3>1, UnitsSame
    <3> QED
        BY <3>2, Zenon
  <2>2. \A v \in Workers : lane'[o][v].phase = "busy" => lane'[o][v].n # 0
      BY <1>1, <1>6 DEF LedgerKept
  <2> SUFFICES ASSUME NEW q \in Owners
               PROVE  /\ \A v \in Workers : lane'[q][v].phase = "busy" => lane'[q][v].n # 0
                      /\ Live(q)' => run'[q].reserved = Cardinality(Units(lane'[q]))
      BY DEF LedgerKept
  <2>3. CASE q = o
      BY <1>1, <1>3, <1>4, <1>6, <2>1, <2>2, <2>3 DEF LedgerKept
  <2>4. CASE q # o
      BY <1>1, <1>3, <1>4, <1>6, <2>4 DEF LedgerKept
  <2> QED
      BY <2>3, <2>4
<1>12. \A q \in Owners : Intact(q)' => Intact(q)
  <2> SUFFICES ASSUME NEW q \in Owners PROVE Intact(q)' => Intact(q)
      OBVIOUS
  <2>1. \A v \in Workers : lane[q][v].phase = "failing" => lane'[q][v].phase = "failing"
      BY <1>1, <1>6 DEF Complete
  <2>2. run[q].status \in {"failed", "stopped"} => run'[q].status \in {"failed", "stopped"}
      BY <1>1, <1>3, <1>4 DEF Complete
  <2> QED
      BY <2>1, <2>2, IntactBefore
<1>13. TotalsKept'
    BY <1>1, <1>3, <1>4, <1>12 DEF TotalsKept, Complete
<1>14. BudgetKept'
  <2>1. mode = "count" => Budget <= run'[o].ops
      BY <1>1, <1>4 DEF Complete, BudgetKept, Remaining, Smaller, Runs, BenchmarkConstants
  <2> QED
      BY <1>1, <1>3, <1>4, <1>12, <2>1 DEF BudgetKept, Complete
<1>15. RowsKept'
    BY <1>1, <1>3, <1>4, <1>7 DEF RowsKept, Counts, Complete
<1> QED
    BY <1>8, <1>9, <1>10, <1>11, <1>14, <1>15, <1>13 DEF IInv

\* A worker that leaves has nothing in flight.
LEMMA LeaveKeeps ==
    ASSUME BenchmarkConstants, IInv, NEW o \in Owners, NEW w \in Workers, Live(o), Leave(o, w) PROVE IInv'
<1>1. /\ TypeOK /\ Unstarted /\ Registered /\ LedgerKept /\ TotalsKept /\ BudgetKept /\ RowsKept
      /\ run[o] \in Runs /\ lane[o] \in [Workers -> Lanes]
    BY LiveRun
<1>2. Off \in Lanes
    BY DEF Off, Idle, Lanes, BenchmarkConstants
<1>3. /\ lane' \in [Owners -> [Workers -> Lanes]] /\ lane'[o] = [lane[o] EXCEPT ![w] = Off]
      /\ \A q \in Owners : q # o => lane'[q] = lane[q]
    BY <1>1, <1>2, LaneStep DEF Leave
<1>4. TypeOK'
    BY <1>1, <1>3 DEF TypeOK, Leave
<1>5. Unstarted'
    BY <1>1 DEF Unstarted, Leave
<1>6. Registered'
    BY <1>1 DEF Registered, Live, Leave
<1>7. LedgerKept'
  <2>1. Cardinality(Units(lane'[o])) = Cardinality(Units(lane[o]))
    <3>1. lane[o][w].phase # "busy" /\ lane'[o] \in [Workers -> Lanes] /\ Off.phase # "busy"
        BY <1>3 DEF Leave, Off
    <3>2. Units(lane'[o]) = Units(lane[o])
        BY <1>1, <1>2, <1>3, <3>1, UnitsSame
    <3> QED
        BY <3>2, Zenon
  <2>2. \A v \in Workers : lane'[o][v].phase = "busy" => lane'[o][v].n # 0
      BY <1>1, <1>3 DEF LedgerKept, Off
  <2> SUFFICES ASSUME NEW q \in Owners
               PROVE  /\ \A v \in Workers : lane'[q][v].phase = "busy" => lane'[q][v].n # 0
                      /\ Live(q)' => run'[q].reserved = Cardinality(Units(lane'[q]))
      BY DEF LedgerKept, Leave
  <2>3. CASE q = o
      BY <1>1, <1>3, <2>1, <2>2, <2>3 DEF LedgerKept, Leave
  <2>4. CASE q # o
      BY <1>1, <1>3, <2>4 DEF LedgerKept, Live, Leave
  <2> QED
      BY <2>3, <2>4
<1>8. \A q \in Owners : Intact(q)' => Intact(q)
  <2> SUFFICES ASSUME NEW q \in Owners PROVE Intact(q)' => Intact(q)
      OBVIOUS
  <2>1. \A v \in Workers : lane[q][v].phase = "failing" => lane'[q][v].phase = "failing"
      BY <1>1, <1>3 DEF Leave
  <2>2. run[q].status \in {"failed", "stopped"} => run'[q].status \in {"failed", "stopped"}
      BY DEF Leave
  <2> QED
      BY <2>1, <2>2, IntactBefore
<1>9. TotalsKept'
    BY <1>1, <1>8 DEF TotalsKept, Live, Leave
<1>10. BudgetKept'
    BY <1>1, <1>8 DEF BudgetKept, Live, Leave
<1>11. RowsKept'
    BY <1>1 DEF RowsKept, Counts, Live, Leave
<1> QED
    BY <1>4, <1>5, <1>6, <1>7, <1>10, <1>11, <1>9 DEF IInv

\* What was reserved is recorded, at most.
LEMMA FinishKeeps ==
    ASSUME BenchmarkConstants, IInv, NEW o \in Owners, NEW w \in Workers, Live(o), Finish(o, w) PROVE IInv'
<1>1. /\ TypeOK /\ Unstarted /\ Registered /\ LedgerKept /\ TotalsKept /\ BudgetKept /\ RowsKept
      /\ run[o] \in Runs /\ lane[o] \in [Workers -> Lanes]
    BY LiveRun
<1>2. PICK c \in 1..lane[o][w].n : Record(o, w, c)
    BY DEF Finish
<1>3. PICK x \in {Idle, Raised} : lane' = [lane EXCEPT ![o][w] = x]
    BY DEF Finish
<1>4. /\ x \in Lanes /\ x.phase # "busy" /\ lane[o][w].phase = "busy"
      /\ mode' = mode /\ resuming' = resuming
    BY <1>3 DEF Finish, Idle, Raised, Lanes, BenchmarkConstants
<1>5. /\ run' \in [Owners -> {None} \cup Runs] /\ lane' \in [Owners -> [Workers -> Lanes]]
      /\ csv' \in [rows : Nat, ops : Nat, sound : BOOLEAN] /\ csv'.rows = csv.rows + 1
      /\ run'[o] \in Runs /\ run'[o].records <= csv'.rows + lost'.rows
      /\ LedgerKept' /\ TotalsKept' /\ BudgetKept'
      /\ \A q \in Owners : (Live(q)' <=> Live(q)) /\ (Live(q)' => Counts(run[q].records, run[q].total)')
      /\ \A r \in Resumes : resuming'[r] # None => Counts(resuming[r].records, resuming[r].ops)'
    BY <1>2, <1>3, <1>4, RecordKeeps
<1>6. /\ saved' \in Checkpoints /\ (saved' = None => saved = None)
      /\ saved' = saved \/ (saved' # None /\ saved'.records = run'[o].records)
  <2>1. run'[o].records \in Nat
      BY <1>5 DEF Runs
  <2>2. Persist(run'[o])
      BY DEF Finish, Persist
  <2> QED
      BY <1>1, <2>1, <2>2, Persisted
<1>7. TypeOK'
  <2>1. UNCHANGED <<mode, registry, resuming, crashes, lost>>
      BY <1>2 DEF Finish, Record
  <2>2. saved' \in Checkpoints
      BY <1>6
  <2> QED
      BY <1>1, <1>5, <2>1, <2>2 DEF TypeOK
<1>8. Unstarted'
    BY <1>1, <1>6 DEF Unstarted
<1>9. Registered'
    BY <1>1, <1>5 DEF Registered, TypeOK, Owners, Finish
<1>10. LedgerKept'
    BY <1>5
<1>11. TotalsKept'
    BY <1>5
<1>12. BudgetKept'
    BY <1>5
<1>13. RowsKept'
  <2>1. saved # None => saved.records <= csv.rows + lost.rows /\ saved.records \in Nat
      BY <1>1 DEF RowsKept, TypeOK, Checkpoints
  <2>2. lost' = lost /\ csv.rows \in Nat /\ lost.rows \in Nat
      BY <1>1 DEF TypeOK, Record, Finish
  <2>3. saved' # None => saved'.records <= csv'.rows + lost'.rows
      BY <1>5, <1>6, <2>1, <2>2
  <2> QED
      BY <1>5, <2>3 DEF RowsKept
<1> QED
    BY <1>7, <1>8, <1>9, <1>10, <1>12, <1>13, <1>11 DEF IInv

\* A failed operation is one row, and gives back its reservation.
LEMMA FailKeeps ==
    ASSUME BenchmarkConstants, IInv, NEW o \in Owners, NEW w \in Workers, Live(o), Fail(o, w) PROVE IInv'
<1>1. /\ TypeOK /\ Unstarted /\ Registered /\ LedgerKept /\ TotalsKept /\ BudgetKept /\ RowsKept
      /\ run[o] \in Runs /\ lane[o] \in [Workers -> Lanes]
    BY LiveRun
<1>2. 1 \in 1..lane[o][w].n /\ Record(o, w, 1)
    BY <1>1 DEF Fail, LedgerKept, Lanes
<1>3. /\ Raised \in Lanes /\ Raised.phase # "busy"
      /\ lane[o][w].phase = "busy" /\ lane' = [lane EXCEPT ![o][w] = Raised]
      /\ mode' = mode /\ resuming' = resuming
    BY DEF Fail, Raised, Lanes, BenchmarkConstants
<1>4. /\ run' \in [Owners -> {None} \cup Runs] /\ lane' \in [Owners -> [Workers -> Lanes]]
      /\ csv' \in [rows : Nat, ops : Nat, sound : BOOLEAN] /\ csv'.rows = csv.rows + 1
      /\ run'[o] \in Runs /\ run'[o].records <= csv'.rows + lost'.rows
      /\ LedgerKept' /\ TotalsKept' /\ BudgetKept'
      /\ \A q \in Owners : (Live(q)' <=> Live(q)) /\ (Live(q)' => Counts(run[q].records, run[q].total)')
      /\ \A r \in Resumes : resuming'[r] # None => Counts(resuming[r].records, resuming[r].ops)'
    BY <1>2, <1>3, RecordKeeps
<1>5. TypeOK'
    BY <1>1, <1>4 DEF TypeOK, Fail, Record
<1>6. Unstarted'
    BY <1>1 DEF Unstarted, Fail
<1>7. Registered'
    BY <1>1, <1>4 DEF Registered, TypeOK, Owners, Fail
<1>8. LedgerKept'
    BY <1>4
<1>9. TotalsKept'
    BY <1>4
<1>10. BudgetKept'
    BY <1>4
<1>11. RowsKept'
  <2>1. saved # None => saved.records <= csv.rows + lost.rows /\ saved.records \in Nat
      BY <1>1 DEF RowsKept, TypeOK, Checkpoints
  <2>2. lost' = lost /\ csv.rows \in Nat /\ lost.rows \in Nat
      BY <1>1 DEF TypeOK, Record, Fail
  <2>3. saved' # None => saved'.records <= csv'.rows + lost'.rows
      BY <1>4, <2>1, <2>2 DEF Fail
  <2> QED
      BY <1>4, <2>3 DEF RowsKept
<1> QED
    BY <1>5, <1>6, <1>7, <1>8, <1>10, <1>11, <1>9 DEF IInv

\* An append that fails leaves the totals ahead of processedCount, and its worker on its
\* way to mark the run failed.
LEMMA AppendFailsKeeps ==
    ASSUME BenchmarkConstants, IInv, NEW o \in Owners, NEW w \in Workers, Live(o), AppendFails(o, w) PROVE IInv'
<1>1. /\ TypeOK /\ Unstarted /\ Registered /\ LedgerKept /\ TotalsKept /\ BudgetKept /\ RowsKept
      /\ run[o] \in Runs /\ lane[o] \in [Workers -> Lanes]
    BY LiveRun
<1>2. PICK c \in 1..lane[o][w].n :
          Counted(o, w, c, run[o].ops) /\ lost' = [rows |-> lost.rows + 1, ops |-> lost.ops + c]
    BY DEF AppendFails
<1>3. /\ run[o].records \in Nat /\ run[o].total \in Nat /\ run[o].ops \in Nat /\ run[o].from \in Nat /\ run[o].reserved \in Nat
      /\ csv.rows \in Nat /\ csv.ops \in Nat /\ lost.rows \in Nat /\ lost.ops \in Nat /\ c \in Nat \ {0}
    BY <1>1 DEF TypeOK, Runs
<1>4. /\ Raised \in Lanes /\ Raised.phase = "failing" /\ Raised.phase # "busy" /\ lane[o][w].phase = "busy"
      /\ lane' = [lane EXCEPT ![o][w] = Raised] /\ mode' = mode /\ resuming' = resuming /\ saved' = saved
    BY DEF AppendFails, Raised, Lanes, BenchmarkConstants
<1>5. /\ run' \in [Owners -> {None} \cup Runs] /\ lane' \in [Owners -> [Workers -> Lanes]]
      /\ run'[o] \in Runs /\ Live(o)'
      /\ run'[o].status = run[o].status /\ run'[o].expired = run[o].expired /\ run'[o].from = run[o].from
      /\ run[o].status # "completed" /\ lane'[o][w] = Raised
      /\ \A q \in Owners : q # o => run'[q] = run[q] /\ (Live(q)' <=> Live(q))
      /\ \A q \in Owners : Intact(q)' => Intact(q)
      /\ LedgerKept'
    BY <1>2, <1>3, <1>4, CountedKeeps
<1>6. run'[o].records = run[o].records + 1 /\ run'[o].total = run[o].total + c /\ run'[o].ops = run[o].ops
    BY <1>1, <1>2 DEF Counted, TypeOK, Runs
<1>7. /\ csv' \in [rows : Nat, ops : Nat, sound : BOOLEAN] /\ csv'.rows = csv.rows /\ csv'.ops = csv.ops
  <2>1. csv' \in {csv, [csv EXCEPT !.sound = FALSE]}
      BY DEF AppendFails
  <2> QED
      BY <1>1, <2>1 DEF TypeOK
<1>8. /\ lost' \in [rows : Nat, ops : Nat]
      /\ lost'.rows = lost.rows + 1 /\ lost'.ops = lost.ops + c /\ lost'.rows # 0
    BY <1>2, <1>3
<1>9. ~Intact(o)'
    BY <1>4, <1>5 DEF Intact, Failing
<1>10. TypeOK'
    BY <1>1, <1>5, <1>7, <1>8 DEF TypeOK, AppendFails
<1>11. Unstarted'
    BY <1>1, <1>4 DEF Unstarted
<1>12. Registered'
    BY <1>1, <1>5 DEF Registered, TypeOK, Owners, AppendFails
<1>13. TotalsKept'
  <2> SUFFICES ASSUME NEW q \in Owners, Live(q)'
               PROVE  /\ run'[q].from <= run'[q].ops /\ run'[q].ops <= run'[q].total
                      /\ Intact(q)' \/ lost'.rows = 0 => run'[q].total = run'[q].ops
      BY DEF TotalsKept
  <2>1. CASE q = o
      BY <1>1, <1>3, <1>5, <1>7, <1>8, <1>6, <1>9, <2>1 DEF TotalsKept
  <2>2. CASE q # o
      BY <1>1, <1>5, <1>7, <1>8, <1>6, <2>2 DEF TotalsKept
  <2> QED
      BY <2>1, <2>2
<1>14. BudgetKept'
    BY <1>1, <1>4, <1>5, <1>7, <1>8, <1>6, <1>9 DEF BudgetKept
<1>15. RowsKept'
  <2>1. saved' # None => saved'.records <= csv'.rows + lost'.rows
    <3>1. saved # None => saved.records <= csv.rows + lost.rows /\ saved.records \in Nat
        BY <1>1 DEF RowsKept, TypeOK, Checkpoints
    <3> QED
        BY <1>3, <1>4, <1>7, <1>8, <3>1
  <2>2. \A q \in Owners : Live(q) => Counts(run[q].records, run[q].total) /\ run[q].records \in Nat /\ run[q].total \in Nat
      BY <1>1 DEF RowsKept, TypeOK, Live, Runs
  <2>3. Counts(run[o].records, run[o].total)'
      BY <1>3, <1>5, <1>7, <1>8, <1>6, <2>2 DEF Counts
  <2>4. ASSUME NEW q \in Owners, Live(q)', q # o PROVE Counts(run[q].records, run[q].total)'
      BY <1>3, <1>5, <1>7, <1>8, <1>6, <2>2, <2>4 DEF Counts
  <2>5. ASSUME NEW r \in Resumes, resuming'[r] # None PROVE Counts(resuming[r].records, resuming[r].ops)'
    <3>1. Counts(resuming[r].records, resuming[r].ops) /\ resuming[r].records \in Nat /\ resuming[r].ops \in Nat
        BY <1>1, <1>4, <2>5 DEF RowsKept, TypeOK, Checkpoints
    <3> QED
        BY <1>3, <1>4, <1>7, <1>8, <3>1 DEF Counts
  <2> QED
      BY <2>1, <2>3, <2>4, <2>5 DEF RowsKept
<1> QED
    BY <1>5, <1>10, <1>11, <1>12, <1>13, <1>14, <1>15 DEF IInv

\* A failed run stays within its budget.
LEMMA MarkFailedKeeps ==
    ASSUME BenchmarkConstants, IInv, NEW o \in Owners, NEW w \in Workers, Live(o), MarkFailed(o, w) PROVE IInv'
<1>1. /\ TypeOK /\ Unstarted /\ Registered /\ LedgerKept /\ TotalsKept /\ BudgetKept /\ RowsKept
      /\ run[o] \in Runs /\ lane[o] \in [Workers -> Lanes]
    BY LiveRun
<1>2. [run[o] EXCEPT !.status = IF @ = "stopped" THEN @ ELSE "failed"] \in Runs
    BY <1>1 DEF Runs, Terminal
<1>3. /\ run' \in [Owners -> {None} \cup Runs] /\ run'[o] = [run[o] EXCEPT !.status = IF @ = "stopped" THEN @ ELSE "failed"]
      /\ \A q \in Owners : (Live(q)' <=> Live(q)) /\ (q # o => run'[q] = run[q])
    BY <1>1, <1>2, RunStep DEF MarkFailed
<1>4. /\ run'[o].status \in {"stopped", "failed"} /\ run'[o].records = run[o].records /\ run'[o].total = run[o].total
      /\ run'[o].ops = run[o].ops /\ run'[o].from = run[o].from
      /\ run'[o].reserved = run[o].reserved /\ run'[o].expired = run[o].expired
    BY <1>3
<1>5. Off \in Lanes
    BY DEF Off, Idle, Lanes, BenchmarkConstants
<1>6. /\ lane' \in [Owners -> [Workers -> Lanes]] /\ lane'[o] = [lane[o] EXCEPT ![w] = Off]
      /\ \A q \in Owners : q # o => lane'[q] = lane[q]
    BY <1>1, <1>5, LaneStep DEF MarkFailed
<1>7. /\ saved' \in Checkpoints /\ (saved' = None => saved = None)
      /\ saved' = saved \/ (saved' # None /\ saved'.records = run[o].records)
  <2>1. run'[o].records \in Nat
      BY <1>1, <1>4 DEF Runs
  <2>2. Persist(run'[o])
      BY DEF MarkFailed
  <2> QED
      BY <1>1, <1>4, <2>1, <2>2, Persisted
<1>8. TypeOK'
  <2>1. UNCHANGED <<mode, registry, csv, resuming, crashes, lost>>
      BY DEF MarkFailed
  <2>2. saved' \in Checkpoints
      BY <1>7
  <2> QED
      BY <1>1, <1>3, <1>6, <2>1, <2>2 DEF TypeOK
<1>9. Unstarted'
    BY <1>1, <1>7 DEF Unstarted
<1>10. Registered'
    BY <1>1, <1>3 DEF Registered, TypeOK, Owners, MarkFailed
<1>11. LedgerKept'
  <2>1. Cardinality(Units(lane'[o])) = Cardinality(Units(lane[o]))
    <3>1. lane[o][w].phase # "busy" /\ lane'[o] \in [Workers -> Lanes] /\ Off.phase # "busy"
        BY <1>6 DEF MarkFailed, Off
    <3>2. Units(lane'[o]) = Units(lane[o])
        BY <1>1, <1>5, <1>6, <3>1, UnitsSame
    <3> QED
        BY <3>2, Zenon
  <2>2. \A v \in Workers : lane'[o][v].phase = "busy" => lane'[o][v].n # 0
      BY <1>1, <1>6 DEF LedgerKept, Off
  <2> SUFFICES ASSUME NEW q \in Owners
               PROVE  /\ \A v \in Workers : lane'[q][v].phase = "busy" => lane'[q][v].n # 0
                      /\ Live(q)' => run'[q].reserved = Cardinality(Units(lane'[q]))
      BY DEF LedgerKept
  <2>3. CASE q = o
      BY <1>1, <1>3, <1>4, <1>6, <2>1, <2>2, <2>3 DEF LedgerKept
  <2>4. CASE q # o
      BY <1>1, <1>3, <1>4, <1>6, <2>4 DEF LedgerKept
  <2> QED
      BY <2>3, <2>4
<1>12. \A q \in Owners : Intact(q)' => Intact(q)
  <2> SUFFICES ASSUME NEW q \in Owners PROVE Intact(q)' => Intact(q)
      OBVIOUS
  <2>1. CASE q = o
      BY <1>4, <2>1 DEF Intact
  <2>2. CASE q # o
      BY <1>3, <1>6, <2>2, IntactBefore
  <2> QED
      BY <2>1, <2>2
<1>13. TotalsKept'
    BY <1>1, <1>3, <1>4, <1>12 DEF TotalsKept, MarkFailed
<1>14. BudgetKept'
    BY <1>1, <1>3, <1>4, <1>12 DEF BudgetKept, MarkFailed
<1>15. RowsKept'
    BY <1>1, <1>3, <1>4, <1>7 DEF RowsKept, Counts, MarkFailed
<1> QED
    BY <1>8, <1>9, <1>10, <1>11, <1>14, <1>15, <1>13 DEF IInv

\* A new run has recorded and reserved nothing.
LEMMA StartKeeps ==
    ASSUME BenchmarkConstants, IInv, Start PROVE IInv'
<1>1. TypeOK /\ Unstarted /\ Registered /\ LedgerKept /\ TotalsKept /\ BudgetKept /\ RowsKept
    BY DEF IInv
<1>2. /\ csv.rows = 0 /\ csv.ops = 0 /\ lost.rows = 0 /\ lost.ops = 0 /\ 1 \in Owners /\ 1 \in 0..MaxOwners
      /\ Counts(0, 0) /\ 0 <= Budget
    BY <1>1 DEF Start, Unstarted, Counts, Owners, BenchmarkConstants
<1>3. /\ run' \in [Owners -> {None} \cup Runs] /\ lane' \in [Owners -> [Workers -> Lanes]]
      /\ Registered' /\ LedgerKept' /\ TotalsKept' /\ BudgetKept'
      /\ \A q \in Owners : Live(q)' => Counts(run[q].records, run[q].total)'
    BY <1>2, NewRunKeeps DEF Start
<1>4. saved' \in Checkpoints /\ saved' # None /\ saved'.records = 0
    BY CheckpointTypes DEF Start
<1>5. TypeOK'
    BY <1>1, <1>2, <1>3, <1>4 DEF TypeOK, Start
<1>6. Unstarted'
    BY <1>4 DEF Unstarted
<1>7. Registered'
    BY <1>3
<1>8. LedgerKept'
    BY <1>3
<1>9. TotalsKept'
    BY <1>3
<1>10. BudgetKept'
    BY <1>3
<1>11. RowsKept'
    BY <1>1, <1>2, <1>3, <1>4 DEF RowsKept, Counts, Start
<1> QED
    BY <1>5, <1>6, <1>7, <1>8, <1>10, <1>11, <1>9 DEF IInv

\* The files are read as they are.
LEMMA StatusUnownedKeeps ==
    ASSUME BenchmarkConstants, IInv, StatusUnowned PROVE IInv'
<1>1. TypeOK /\ Unstarted /\ Registered /\ LedgerKept /\ TotalsKept /\ BudgetKept /\ RowsKept
    BY DEF IInv
<1>2. /\ saved' \in Checkpoints /\ saved' # None
      /\ saved' = saved \/ saved'.records = csv.rows
  <2>1. csv.rows \in Nat /\ saved \in Checkpoints /\ saved # None
      BY <1>1 DEF TypeOK, StatusUnowned, Restorable
  <2> QED
      BY <2>1, CheckpointTypes DEF StatusUnowned
<1>3. TypeOK'
    BY <1>1, <1>2 DEF TypeOK, StatusUnowned
<1>4. Unstarted'
    BY <1>2 DEF Unstarted, StatusUnowned
<1>5. Registered'
    BY <1>1, <1>2 DEF Registered, Live, StatusUnowned
<1>6. LedgerKept'
    BY <1>1, <1>2 DEF LedgerKept, Live, StatusUnowned
<1>7. TotalsKept'
    BY <1>1 DEF TotalsKept, Live, Intact, Failing, StatusUnowned
<1>8. BudgetKept'
    BY <1>1 DEF BudgetKept, Live, Intact, Failing, StatusUnowned
<1>9. RowsKept'
    BY <1>1, <1>2 DEF RowsKept, Live, Counts, TypeOK, StatusUnowned
<1> QED
    BY <1>3, <1>4, <1>5, <1>6, <1>8, <1>9, <1>7 DEF IInv

\* A control changes the status of a run that is not over.
LEMMA ControlKeeps ==
    ASSUME BenchmarkConstants, IInv, NEW status \in {"paused", "running", "stopped"}, Control(status) PROVE IInv'
<1>1. TypeOK /\ Unstarted /\ Registered /\ LedgerKept /\ TotalsKept /\ BudgetKept /\ RowsKept
    BY DEF IInv
<1>2. registry \in Owners /\ Live(registry) /\ run[registry] \in Runs
    BY <1>1 DEF Control, Registered, TypeOK, Live, Owners
<1>3. [run[registry] EXCEPT !.status = IF @ \in Terminal THEN @ ELSE status] \in Runs
    BY <1>2 DEF Runs, Terminal
<1>4. /\ run' \in [Owners -> {None} \cup Runs]
      /\ run'[registry] = [run[registry] EXCEPT !.status = IF @ \in Terminal THEN @ ELSE status]
      /\ \A q \in Owners : (Live(q)' <=> Live(q)) /\ (q # registry => run'[q] = run[q])
    BY <1>2, <1>1, <1>3, RunStep DEF Control
<1>5. /\ run'[registry].status \in {run[registry].status, "paused", "running", "stopped"}
      /\ run'[registry].records = run[registry].records /\ run'[registry].total = run[registry].total
      /\ run'[registry].ops = run[registry].ops /\ run'[registry].from = run[registry].from
      /\ run'[registry].reserved = run[registry].reserved /\ run'[registry].expired = run[registry].expired
    BY <1>2, <1>4
<1>6. /\ saved' \in Checkpoints /\ (saved' = None => saved = None)
      /\ saved' = saved \/ (saved' # None /\ saved'.records = run[registry].records)
  <2>1. run'[registry].records \in Nat
      BY <1>2, <1>5 DEF Runs
  <2>2. CASE Persist(run'[registry])
      BY <1>1, <1>5, <2>1, <2>2, Persisted
  <2>3. CASE saved' = saved
      BY <1>1, <2>3 DEF TypeOK
  <2> QED
      BY <2>2, <2>3 DEF Control
<1>7. TypeOK'
    BY <1>1, <1>4, <1>6 DEF TypeOK, Control
<1>8. Unstarted'
    BY <1>2, <1>1, <1>6 DEF Unstarted, Control
<1>9. Registered'
    BY <1>2, <1>4 DEF Registered, Control
<1>10. LedgerKept'
    BY <1>1, <1>4, <1>5 DEF LedgerKept, Control
<1>11. \A q \in Owners : Intact(q)' => Intact(q)
  <2> SUFFICES ASSUME NEW q \in Owners PROVE Intact(q)' => Intact(q)
      OBVIOUS
  <2>1. lane' = lane
      BY DEF Control
  <2>2. run[q].status \in {"failed", "stopped"} => run'[q].status \in {"failed", "stopped"}
    <3>1. CASE q = registry
        BY <1>2, <1>4, <3>1 DEF Terminal, Runs
    <3>2. CASE q # registry
        BY <1>4, <3>2
    <3> QED
        BY <3>1, <3>2
  <2> QED
      BY <2>1, <2>2, IntactBefore
<1>12. TotalsKept'
    BY <1>1, <1>4, <1>5, <1>11 DEF TotalsKept, Control
<1>13. BudgetKept'
    BY <1>1, <1>4, <1>5, <1>11 DEF BudgetKept, Control
<1>14. RowsKept'
    BY <1>2, <1>1, <1>4, <1>5, <1>6 DEF RowsKept, Counts, Control
<1> QED
    BY <1>7, <1>8, <1>9, <1>10, <1>13, <1>14, <1>12 DEF IInv

\* The files are read as they are.
LEMMA ControlUnownedKeeps ==
    ASSUME BenchmarkConstants, IInv, NEW status \in {"paused", "stopped"}, ControlUnowned(status) PROVE IInv'
<1>1. TypeOK /\ Unstarted /\ Registered /\ LedgerKept /\ TotalsKept /\ BudgetKept /\ RowsKept
    BY DEF IInv
<1>2. /\ saved' \in Checkpoints /\ saved' # None
      /\ saved' = saved \/ saved'.records = csv.rows
  <2>1. csv.rows \in Nat
      BY <1>1 DEF TypeOK
  <2> QED
      BY <2>1, CheckpointTypes DEF ControlUnowned
<1>3. TypeOK'
    BY <1>1, <1>2 DEF TypeOK, ControlUnowned
<1>4. Unstarted'
    BY <1>2 DEF Unstarted, ControlUnowned
<1>5. Registered'
    BY <1>1, <1>2 DEF Registered, Live, ControlUnowned
<1>6. LedgerKept'
    BY <1>1, <1>2 DEF LedgerKept, Live, ControlUnowned
<1>7. TotalsKept'
    BY <1>1 DEF TotalsKept, Live, Intact, Failing, ControlUnowned
<1>8. BudgetKept'
    BY <1>1 DEF BudgetKept, Live, Intact, Failing, ControlUnowned
<1>9. RowsKept'
    BY <1>1, <1>2 DEF RowsKept, Live, Counts, TypeOK, ControlUnowned
<1> QED
    BY <1>3, <1>4, <1>5, <1>6, <1>8, <1>9, <1>7 DEF IInv

\* What a resume has read is what a sound CSV counts.
LEMMA ResumeReadKeeps ==
    ASSUME BenchmarkConstants, IInv, NEW r \in Resumes, ResumeRead(r) PROVE IInv'
<1>1. TypeOK /\ Unstarted /\ Registered /\ LedgerKept /\ TotalsKept /\ BudgetKept /\ RowsKept
    BY DEF IInv
<1>2. csv.sound /\ saved # None
    BY DEF ResumeRead, Restorable
<1>3. /\ [records |-> csv.rows, ops |-> csv.ops] \in [records : Nat, ops : Nat]
      /\ Counts(csv.rows, csv.ops)
    BY <1>1 DEF TypeOK, Counts
<1>4. /\ resuming' \in [Resumes -> {None} \cup [records : Nat, ops : Nat]]
      /\ \A s \in Resumes : resuming'[s] \in {resuming[s], [records |-> csv.rows, ops |-> csv.ops]}
    BY <1>1, <1>3 DEF ResumeRead, TypeOK
<1>5. TypeOK'
    BY <1>1, <1>4 DEF TypeOK, ResumeRead
<1>6. Unstarted'
    BY <1>2 DEF Unstarted, ResumeRead
<1>7. Registered'
    BY <1>1 DEF Registered, Live, ResumeRead
<1>8. LedgerKept'
    BY <1>1 DEF LedgerKept, Live, ResumeRead
<1>9. TotalsKept'
    BY <1>1 DEF TotalsKept, Live, Intact, Failing, ResumeRead
<1>10. BudgetKept'
    BY <1>1, <1>2, <1>3, <1>4 DEF BudgetKept, Live, Intact, Failing, ResumeRead
<1>11. RowsKept'
  <2>1. \A s \in Resumes : resuming'[s] # None => Counts(resuming'[s].records, resuming'[s].ops)
      BY <1>1, <1>3, <1>4 DEF RowsKept
  <2> QED
      BY <1>1, <2>1 DEF RowsKept, Live, Counts, ResumeRead
<1> QED
    BY <1>5, <1>6, <1>7, <1>8, <1>10, <1>11, <1>9 DEF IInv

\* A resumed run goes on with what was read.
LEMMA ResumeStartKeeps ==
    ASSUME BenchmarkConstants, IInv, NEW r \in Resumes, ResumeStart(r) PROVE IInv'
<1>1. TypeOK /\ Unstarted /\ Registered /\ LedgerKept /\ TotalsKept /\ BudgetKept /\ RowsKept
    BY DEF IInv
<1>2. PICK o \in Owners, late \in BOOLEAN :
         /\ run[o] = None /\ (late => mode = "duration")
         /\ NewRun(o, resuming[r].records, resuming[r].ops, late)
         /\ registry' = o /\ StartWorkers(o)
    BY DEF ResumeStart
<1>3. /\ resuming[r] \in [records : Nat, ops : Nat] /\ resuming[r] # None
      /\ Counts(resuming[r].records, resuming[r].ops)
      /\ (mode = "count" /\ lost.rows = 0 => resuming[r].ops <= Budget)
    BY <1>1 DEF ResumeStart, TypeOK, RowsKept, BudgetKept
<1>4. resuming[r].records \in Nat /\ resuming[r].ops \in Nat
    BY <1>3
<1>5. \A s \in Resumes : resuming'[s] # None => resuming'[s] = resuming[s]
    BY <1>1 DEF ResumeStart, TypeOK
<1>6. /\ run' \in [Owners -> {None} \cup Runs] /\ lane' \in [Owners -> [Workers -> Lanes]]
      /\ Registered' /\ LedgerKept' /\ TotalsKept' /\ BudgetKept'
      /\ \A q \in Owners : Live(q)' => Counts(run[q].records, run[q].total)'
    BY <1>2, <1>3, <1>4, <1>5, NewRunKeeps DEF ResumeStart
<1>7. /\ saved' \in Checkpoints /\ (saved' = None => saved = None)
      /\ saved' = saved \/ (saved' # None /\ saved'.records = resuming[r].records)
  <2>1. saved \in Checkpoints
      BY <1>1 DEF TypeOK
  <2> QED
      BY <1>4, <2>1, CheckpointTypes DEF ResumeStart
<1>8. TypeOK'
  <2>1. resuming' \in [Resumes -> {None} \cup [records : Nat, ops : Nat]]
      BY <1>1 DEF ResumeStart, TypeOK
  <2>2. registry' \in 0..MaxOwners
      BY <1>2 DEF Owners
  <2>3. UNCHANGED <<mode, csv, crashes, lost>> /\ saved' \in Checkpoints
      BY <1>7 DEF ResumeStart
  <2> QED
      BY <1>1, <1>6, <2>1, <2>2, <2>3 DEF TypeOK
<1>9. Unstarted'
    BY <1>1, <1>3, <1>7 DEF Unstarted
<1>10. Registered'
    BY <1>6
<1>11. LedgerKept'
    BY <1>6
<1>12. TotalsKept'
    BY <1>6
<1>13. BudgetKept'
    BY <1>6
<1>14. RowsKept'
    BY <1>1, <1>3, <1>5, <1>6, <1>7 DEF RowsKept, Counts, ResumeStart
<1> QED
    BY <1>8, <1>9, <1>10, <1>11, <1>13, <1>14, <1>12 DEF IInv

\* A kill leaves the files, and no run.
LEMMA CrashKeeps ==
    ASSUME BenchmarkConstants, IInv, Crash PROVE IInv'
<1>1. TypeOK /\ Unstarted /\ Registered /\ LedgerKept /\ TotalsKept /\ BudgetKept /\ RowsKept
    BY DEF IInv
<1>2. /\ csv' \in [rows : Nat, ops : Nat, sound : BOOLEAN] /\ csv'.rows = csv.rows /\ csv'.ops = csv.ops
      /\ csv'.sound => csv.sound
    BY <1>1 DEF Crash, TypeOK
<1>3. \A q \in Owners : ~Live(q)'
    BY DEF Crash, Live
<1>4. \A r \in Resumes : resuming'[r] = None
    BY DEF Crash
<1>5. \A q \in Owners, w \in Workers : lane'[q][w].phase # "busy"
    BY DEF Crash, Off
<1>6. TypeOK'
  <2>1. Off \in Lanes
      BY DEF Off, Lanes, BenchmarkConstants
  <2>2. registry' \in 0..MaxOwners /\ crashes' \in 0..MaxCrashes
      BY <1>1 DEF Crash, TypeOK, BenchmarkConstants
  <2> QED
      BY <1>1, <1>2, <2>1, <2>2 DEF TypeOK, Crash
<1>7. Unstarted'
    BY <1>1, <1>2, <1>3, <1>4 DEF Unstarted, Crash
<1>8. Registered'
    BY DEF Registered, Crash
<1>9. LedgerKept'
    BY <1>3, <1>5 DEF LedgerKept
<1>10. TotalsKept'
    BY <1>3 DEF TotalsKept
<1>11. BudgetKept'
    BY <1>1, <1>2, <1>3, <1>4 DEF BudgetKept, Crash
<1>12. RowsKept'
    BY <1>1, <1>2, <1>3, <1>4 DEF RowsKept, Crash
<1> QED
    BY <1>6, <1>7, <1>8, <1>9, <1>11, <1>12, <1>10 DEF IInv

LEMMA NextInv == ASSUME BenchmarkConstants, IInv, [Next]_vars PROVE IInv'
<1>1. ASSUME NEW o \in Owners, Expire(o) PROVE IInv'
    BY <1>1, ExpireKeeps
<1>2. ASSUME NEW o \in Owners, NEW w \in Workers, Live(o), WorkerStep(o, w) PROVE IInv'
  <2>1. CASE Reserve(o, w)
      BY <1>2, <2>1, ReserveKeeps
  <2>2. CASE Complete(o, w)
      BY <1>2, <2>2, CompleteKeeps
  <2>3. CASE Leave(o, w)
      BY <1>2, <2>3, LeaveKeeps
  <2>4. CASE Finish(o, w)
      BY <1>2, <2>4, FinishKeeps
  <2>5. CASE Fail(o, w)
      BY <1>2, <2>5, FailKeeps
  <2>6. CASE AppendFails(o, w)
      BY <1>2, <2>6, AppendFailsKeeps
  <2>7. CASE MarkFailed(o, w)
      BY <1>2, <2>7, MarkFailedKeeps
  <2> QED
      BY <1>2, <2>1, <2>2, <2>3, <2>4, <2>5, <2>6, <2>7 DEF WorkerStep
<1>3. ASSUME NEW status \in {"paused", "running", "stopped"}, Control(status) PROVE IInv'
    BY <1>3, ControlKeeps
<1>4. ASSUME NEW status \in {"paused", "stopped"}, ControlUnowned(status) PROVE IInv'
    BY <1>4, ControlUnownedKeeps
<1>5. ASSUME NEW r \in Resumes, ResumeRead(r) \/ ResumeStart(r) PROVE IInv'
    BY <1>5, ResumeReadKeeps, ResumeStartKeeps
<1>6. CASE UNCHANGED vars
    BY <1>6 DEF vars, IInv, TypeOK, Unstarted, Registered, LedgerKept, TotalsKept, BudgetKept, RowsKept, Counts, Live,
                Intact, Failing
<1> QED
    BY <1>1, <1>2, <1>3, <1>4, <1>5, <1>6, StartKeeps, StatusUnownedKeeps, CrashKeeps DEF Next, Live

LEMMA InvariantHolds == ASSUME BenchmarkConstants PROVE Spec => []IInv
<1>1. Init => IInv
    BY InitInv
<1>2. IInv /\ [Next]_vars => IInv'
    BY NextInv
<1> QED
    BY <1>1, <1>2, PTL DEF Spec

-----------------------------------------------------------------------------
(* The theorems                                                            *)

\* Every variable keeps its type: the run objects and the worker threads of
\* _BENCHMARKS, the rows of the CSV and the checkpoint file.
THEOREM TypeCorrect == ASSUME BenchmarkConstants PROVE Spec => []TypeOK
BY InvariantHolds, PTL DEF IInv

\* A run that reports completion has nothing in flight.  One that counts operations has
\* then recorded exactly its budget (or what it was resumed with, if that is more), unless
\* a worker is about to mark it failed, and in any case as long as no append has failed:
\* however the workers' reservations, failures and short batches interleave, and however
\* often the process is killed and resumed.
THEOREM NeverOverrun == ASSUME BenchmarkConstants PROVE Spec => []CompletedIsExact
<1>1. IInv => CompletedIsExact
  <2> SUFFICES ASSUME IInv, NEW o \in Owners, Live(o), run[o].status = "completed"
               PROVE  /\ InFlight(o) = {} /\ run[o].reserved = 0
                      /\ mode = "count" =>
                            /\ Failing(o) = {} => run[o].ops = Bigger(Budget, run[o].from)
                            /\ lost.rows = 0 => run[o].ops = Budget
      BY DEF CompletedIsExact, Live
  <2>1. /\ run[o].reserved = 0 /\ run[o].from <= run[o].ops
        /\ run[o].ops \in Nat /\ run[o].from \in Nat /\ Budget \in Nat
      BY LiveRun DEF BudgetKept, TotalsKept, Runs, BenchmarkConstants
  <2>2. mode = "count" =>
            /\ Budget <= run[o].ops
            /\ Failing(o) = {} => run[o].ops + run[o].reserved <= Bigger(Budget, run[o].from)
            /\ lost.rows = 0 => run[o].ops + run[o].reserved <= Budget
      BY DEF IInv, BudgetKept, Intact
  <2>3. /\ mode = "count" /\ Failing(o) = {} => run[o].ops = Bigger(Budget, run[o].from)
        /\ mode = "count" /\ lost.rows = 0 => run[o].ops = Budget
      BY <2>1, <2>2 DEF Bigger
  <2> QED
      BY <2>1, <2>3, NothingInFlight
<1> QED
    BY <1>1, InvariantHolds, PTL

\* Neither the checkpoint nor a run object counts more than the CSV, which a resumed
\* run counts again, and the rows whose append has failed.
THEOREM NothingTakenBack == ASSUME BenchmarkConstants PROVE Spec => []ProgressNeverLost
<1>1. IInv => ProgressNeverLost
  <2> SUFFICES ASSUME IInv, NEW o \in Owners, Live(o) PROVE run[o].ops <= csv.ops + lost.ops
      BY DEF IInv, RowsKept, ProgressNeverLost, Live
  <2>1. run[o].ops <= run[o].total /\ run[o].total <= csv.ops + lost.ops
      BY DEF IInv, TotalsKept, RowsKept, Counts
  <2>2. run[o].ops \in Nat /\ run[o].total \in Nat /\ csv.ops \in Nat /\ lost.ops \in Nat
      BY LiveRun DEF TypeOK, Runs
  <2> QED
      BY <2>1, <2>2
<1> QED
    BY <1>1, InvariantHolds, PTL
=============================================================================
