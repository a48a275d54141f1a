---------------------------- MODULE BenchmarkRun ----------------------------
(***************************************************************************)
(* A benchmark of the Python engine (engines/python/src/main.py): the      *)
(* worker threads of a _BenchmarkRun and the budget they reserve from, the *)
(* CSV history to which every measured operation is appended, the bounded  *)
(* checkpoint, status and control requests from the executor's threads,    *)
(* and a process that may be killed and whose successor resumes the run    *)
(* from the two files.  The append may fail: the totals of the run then    *)
(* count a row that the CSV does not have.                                 *)
(*                                                                         *)
(* A row of the CSV counts one operation, or the objects that one          *)
(* multi-object DELETE removed.  Logs, latencies and payloads are left out.*)
(***************************************************************************)
EXTENDS Naturals, FiniteSets

CONSTANTS
    Workers,     \* concurrentThreads
    Budget,      \* operationCount
    MaxBatch,    \* objects of one multi-object DELETE
    Resumes,     \* resume requests that find no owner
    MaxOwners,   \* bound: run objects in one process
    MaxOps,      \* bound: operations of a run that only time ends
    MaxCrashes,  \* bound: kills of the process
    MaxLost      \* bound: rows that cannot be appended

\* What the bounds are: the proofs assume it, and the model checker evaluates it.
BenchmarkConstants ==
    /\ IsFiniteSet(Workers)
    /\ Budget \in Nat /\ MaxBatch \in Nat /\ MaxOps \in Nat /\ MaxCrashes \in Nat /\ MaxLost \in Nat
    /\ MaxOwners \in Nat \ {0}

Owners == 1..MaxOwners
None == [status |-> "none"]
Terminal == {"completed", "stopped", "failed"}

VARIABLES
    mode,       \* testMode: by number of operations ("count") or by time ("duration")
    registry,   \* the run object in _BENCHMARKS, 0 without one
    run,        \* the run objects of the process
    lane,       \* the worker threads of each
    csv,        \* rows of the CSV, operations they count, and whether they can be read back
    saved,      \* the checkpoint file: whether the run is over, and the rows of historyTotals
    resuming,   \* what a resume request has read, while it builds its run
    crashes,
    lost        \* auxiliary: rows whose append has failed, and the operations they count

vars == <<mode, registry, run, lane, csv, saved, resuming, crashes, lost>>

Off == [phase |-> "off", n |-> 0]
Idle == [phase |-> "idle", n |-> 0]
Raised == [phase |-> "failing", n |-> 0]
InFlight(o) == {w \in Workers : lane[o][w].phase = "busy"}
Failing(o) == {w \in Workers : lane[o][w].phase = "failing"}
Bigger(a, b) == IF a > b THEN a ELSE b
Smaller(a, b) == IF a < b THEN a ELSE b

\* _write_benchmark_state: the file is replaced by what the run knows.  Of its status it
\* matters whether the run is over; its processedCount is left out, since who reads the
\* file counts the operations of the CSV again.
Checkpoint(status, records) == [over |-> status \in Terminal, records |-> records]

\* snapshot(persist=True) of a run: it may raise, before or after the file is replaced.
Persist(r) == saved' \in {saved, Checkpoint(r.status, r.records)}

Init ==
    /\ mode \in {"count", "duration"}
    /\ registry = 0
    /\ run = [o \in Owners |-> None]
    /\ lane = [o \in Owners |-> [w \in Workers |-> Off]]
    /\ csv = [rows |-> 0, ops |-> 0, sound |-> TRUE]
    /\ saved = None
    /\ resuming = [r \in Resumes |-> None]
    /\ crashes = 0
    /\ lost = [rows |-> 0, ops |-> 0]

-----------------------------------------------------------------------------
(* The clock and the workers                                               *)

\* The active time of a run has reached durationSeconds.
Expire(o) ==
    /\ mode = "duration" /\ run[o] # None
    /\ run[o].status = "running" \/ run[o].reserved > 0
    /\ run' = [run EXCEPT ![o].expired = TRUE]
    /\ UNCHANGED <<mode, registry, lane, csv, saved, resuming, crashes, lost>>

\* What a worker may still reserve; a timed run asks for as much as it likes.
Remaining(o) ==
    LET taken == run[o].ops + run[o].reserved
    IN  IF mode = "count" THEN Budget - Smaller(Budget, taken)
        ELSE MaxOps - Smaller(MaxOps, csv.ops + lost.ops + run[o].reserved)

\* A worker takes one operation, or a batch for a multi-object DELETE.
Reserve(o, w) ==
    /\ lane[o][w].phase = "idle" /\ run[o].status = "running" /\ ~run[o].expired
    /\ \E n \in 1..Smaller(Remaining(o), MaxBatch) :
          /\ run' = [run EXCEPT ![o].reserved = @ + n]
          /\ lane' = [lane EXCEPT ![o][w] = [phase |-> "busy", n |-> n]]
    /\ UNCHANGED <<mode, registry, csv, saved, resuming, crashes, lost>>

\* The first worker to find nothing left ends the run at once.
CompleteEarly(o, w) ==
    /\ lane[o][w].phase = "idle" /\ run[o].status = "running"
    /\ run[o].expired \/ (mode = "count" /\ Remaining(o) = 0)
    /\ run' = [run EXCEPT ![o].status = "completed"]
    /\ \/ lane' = [lane EXCEPT ![o][w] = Off] /\ saved' = Checkpoint("completed", run[o].records)
       \/ lane' = [lane EXCEPT ![o][w] = Raised] /\ Persist(run'[o])
    /\ UNCHANGED <<mode, registry, csv, resuming, crashes, lost>>

\* A worker that finds nothing left, and nothing in flight, ends the run, and fails if
\* the state cannot be saved.
Complete(o, w) ==
    /\ lane[o][w].phase = "idle" /\ run[o].status = "running"
    /\ run[o].expired \/ (mode = "count" /\ Remaining(o) = 0)
    /\ run[o].reserved = 0
    /\ run' = [run EXCEPT ![o].status = "completed"]
    /\ \/ lane' = [lane EXCEPT ![o][w] = Off] /\ saved' = Checkpoint("completed", run[o].records)
       \/ lane' = [lane EXCEPT ![o][w] = Raised] /\ Persist(run'[o])
    /\ UNCHANGED <<mode, registry, csv, resuming, crashes, lost>>

\* A worker leaves a run that is over; while the run is paused it waits.
Leave(o, w) ==
    /\ lane[o][w].phase = "idle" /\ run[o].status \in Terminal
    /\ lane' = [lane EXCEPT ![o][w] = Off]
    /\ UNCHANGED <<mode, registry, run, csv, saved, resuming, crashes, lost>>

\* What a run counts when w gives its reservation back: historyTotals has c more
\* operations, and ops is the processedCount.
Counted(o, w, c, ops) ==
    run' = [run EXCEPT ![o].reserved = @ - lane[o][w].n, ![o].records = @ + 1, ![o].total = @ + c,
                       ![o].ops = ops]

\* _append_benchmark_history: the totals count the operation, its row goes to the CSV,
\* and processedCount becomes the total.  The row's sequence number is the run's own: a
\* second run object breaks the sequence, and so does a row that was lost before.
Record(o, w, c) ==
    /\ Counted(o, w, c, run[o].total + c)
    /\ csv' = [rows |-> csv.rows + 1, ops |-> csv.ops + c,
               sound |-> csv.sound /\ csv.rows = run[o].records]
    /\ UNCHANGED lost

\* An operation ended; a batch may have removed less than was reserved for it, and every
\* half second the state is saved.  A worker that cannot save it is on its way to mark the
\* run failed, and has given up the lock.
Finish(o, w) ==
    /\ lane[o][w].phase = "busy"
    /\ \E c \in 1..lane[o][w].n : Record(o, w, c)
    /\ \/ lane' = [lane EXCEPT ![o][w] = Idle]
          /\ saved' \in {saved, Checkpoint(run'[o].status, run'[o].records)}
       \/ lane' = [lane EXCEPT ![o][w] = Raised] /\ Persist(run'[o])
    /\ UNCHANGED <<mode, registry, resuming, crashes>>

\* An operation failed: its row is recorded, and the lock is given up ...
Fail(o, w) ==
    /\ lane[o][w].phase = "busy"
    /\ Record(o, w, 1)
    /\ lane' = [lane EXCEPT ![o][w] = Raised]
    /\ UNCHANGED <<mode, registry, saved, resuming, crashes>>

\* An operation ended or failed, and its row cannot be appended, or only in part: the
\* totals count it by then, but processedCount does not, and the reservation is gone.
AppendFails(o, w) ==
    /\ lane[o][w].phase = "busy" /\ lost.rows < MaxLost
    /\ \E c \in 1..lane[o][w].n :
          /\ Counted(o, w, c, run[o].ops)
          /\ lost' = [rows |-> lost.rows + 1, ops |-> lost.ops + c]
    /\ csv' \in {csv, [csv EXCEPT !.sound = FALSE]}
    /\ lane' = [lane EXCEPT ![o][w] = Raised]
    /\ UNCHANGED <<mode, registry, saved, resuming, crashes>>

\* ... before the run is marked, whatever it has become meanwhile unless stopped.
MarkFailed(o, w) ==
    /\ lane[o][w].phase = "failing"
    /\ run' = [run EXCEPT ![o].status = IF @ = "stopped" THEN @ ELSE "failed"]
    /\ lane' = [lane EXCEPT ![o][w] = Off]
    /\ Persist(run'[o])
    /\ UNCHANGED <<mode, registry, csv, resuming, crashes, lost>>

-----------------------------------------------------------------------------
(* Requests                                                                *)

\* "from" is auxiliary: what the run has counted when it begins.
NewRun(o, records, ops, late) ==
    run' = [run EXCEPT ![o] = [status |-> "running", records |-> records, total |-> ops, ops |-> ops,
                               from |-> ops, reserved |-> 0, expired |-> late]]

\* The threads start, unless the client cannot be built: the run is registered by then.
StartWorkers(o) ==
    \E phase \in {"idle", "off"} : lane' = [lane EXCEPT ![o] = [w \in Workers |-> [phase |-> phase, n |-> 0]]]

\* A start that fails before its checkpoint leaves a run that nobody can name.
Start ==
    /\ saved = None
    /\ registry' = 1 /\ NewRun(1, 0, 0, FALSE)
    /\ saved' = Checkpoint("running", 0)
    /\ StartWorkers(1)
    /\ UNCHANGED <<mode, csv, resuming, crashes, lost>>

\* _restore_benchmark_history accepts a CSV at least as long as the checkpoint.
Restorable == registry = 0 /\ saved # None /\ csv.sound /\ csv.rows >= saved.records

\* A status request asks the run object and changes nothing.  Without an owner the
\* files answer, and a run that was active becomes paused.
StatusUnowned ==
    /\ Restorable
    /\ saved' = IF saved.over THEN saved ELSE Checkpoint("paused", csv.rows)
    /\ UNCHANGED <<mode, registry, run, lane, csv, resuming, crashes, lost>>

\* pauseBenchmark, resumeBenchmark or stopBenchmark of a run that has an owner; the run
\* follows it although the state cannot be saved.
Control(status) ==
    /\ registry # 0
    /\ run' = [run EXCEPT ![registry].status = IF @ \in Terminal THEN @ ELSE status]
    /\ IF run[registry].status \in Terminal THEN UNCHANGED saved ELSE Persist(run'[registry])
    /\ UNCHANGED <<mode, registry, lane, csv, resuming, crashes, lost>>

\* A pause or stop of a run without an owner only rewrites the file.
ControlUnowned(status) ==
    /\ Restorable
    /\ saved' = Checkpoint(status, csv.rows)
    /\ UNCHANGED <<mode, registry, run, lane, csv, resuming, crashes, lost>>

\* The rows are counted on top of what the checkpoint has counted.
ResumeReadTwice(r) ==
    /\ Restorable /\ resuming[r] = None
    /\ resuming' = [resuming EXCEPT ![r] = [records |-> saved.records + csv.rows, ops |-> csv.ops + csv.ops]]
    /\ UNCHANGED <<mode, registry, run, lane, csv, saved, crashes, lost>>

\* A resume found no owner and read the files; the lock is not held ...
ResumeRead(r) ==
    /\ Restorable /\ resuming[r] = None
    /\ resuming' = [resuming EXCEPT ![r] = [records |-> csv.rows, ops |-> csv.ops]]
    /\ UNCHANGED <<mode, registry, run, lane, csv, saved, crashes, lost>>

\* ... when it registers its run object, perhaps over that of another resume.
ResumeStart(r) ==
    /\ resuming[r] # None
    /\ \E o \in Owners, late \in BOOLEAN :
          /\ run[o] = None /\ \A q \in Owners : q < o => run[q] # None
          /\ late => mode = "duration"
          /\ NewRun(o, resuming[r].records, resuming[r].ops, late)
          /\ registry' = o
          /\ StartWorkers(o)
    /\ saved' \in {saved, Checkpoint("running", resuming[r].records)}
    /\ resuming' = [resuming EXCEPT ![r] = None]
    /\ UNCHANGED <<mode, csv, crashes, lost>>

-----------------------------------------------------------------------------
\* The process is killed; a row that was being appended may be torn.
Crash ==
    /\ registry # 0 /\ crashes < MaxCrashes
    /\ crashes' = crashes + 1
    /\ csv' \in {csv, [csv EXCEPT !.sound = @ /\ \A o \in Owners : InFlight(o) = {}]}
    /\ registry' = 0
    /\ run' = [o \in Owners |-> None]
    /\ lane' = [o \in Owners |-> [w \in Workers |-> Off]]
    /\ resuming' = [r \in Resumes |-> None]
    /\ UNCHANGED <<mode, saved, lost>>

WorkerStep(o, w) ==
    Reserve(o, w) \/ Complete(o, w) \/ Leave(o, w) \/ Finish(o, w) \/ Fail(o, w)
    \/ AppendFails(o, w) \/ MarkFailed(o, w)

Next ==
    \/ \E o \in Owners : Expire(o)
    \/ \E o \in Owners, w \in Workers : run[o] # None /\ WorkerStep(o, w)
    \/ Start \/ StatusUnowned
    \/ \E status \in {"paused", "running", "stopped"} : Control(status)
    \/ \E status \in {"paused", "stopped"} : ControlUnowned(status)
    \/ \E r \in Resumes : ResumeRead(r) \/ ResumeStart(r)
    \/ Crash

Spec == Init /\ [][Next]_vars

-----------------------------------------------------------------------------
(* Properties                                                              *)

Runs == [status : {"running", "paused"} \cup Terminal, records : Nat, total : Nat, ops : Nat, from : Nat,
         reserved : Nat, expired : BOOLEAN]
Lanes == [phase : {"off", "idle", "busy", "failing"}, n : 0..MaxBatch]
Checkpoints == {None} \cup [over : BOOLEAN, records : Nat]

TypeOK ==
    /\ mode \in {"count", "duration"}
    /\ registry \in 0..MaxOwners
    /\ run \in [Owners -> {None} \cup Runs]
    /\ lane \in [Owners -> [Workers -> Lanes]]
    /\ csv \in [rows : Nat, ops : Nat, sound : BOOLEAN]
    /\ saved \in Checkpoints
    /\ resuming \in [Resumes -> {None} \cup [records : Nat, ops : Nat]]
    /\ crashes \in 0..MaxCrashes
    /\ lost \in [rows : Nat, ops : Nat]

\* A run that reports completion has no operation in flight.  One that counts
\* operations has then recorded exactly its budget (or what it began with, if that was
\* more), unless a worker is about to mark it failed: workers that reserve, fail and
\* fall short of a batch at the same time never overrun it for good, although a worker
\* whose append fails gives back what the run has not counted yet.  As long as no append
\* has failed, no restart and no worker overruns it at all.
CompletedIsExact ==
    \A o \in Owners : run[o] # None /\ run[o].status = "completed" =>
        /\ InFlight(o) = {} /\ run[o].reserved = 0
        /\ mode = "count" =>
              /\ Failing(o) = {} => run[o].ops = Bigger(Budget, run[o].from)
              /\ lost.rows = 0 => run[o].ops = Budget

\* Nobody knows more than the CSV, which a successor counts again, but for the rows
\* whose append has failed: neither a checkpoint, which the successor would refuse, nor
\* the run object that answers status requests, whose progress it would take back.
ProgressNeverLost ==
    /\ saved # None => saved.records <= csv.rows + lost.rows
    /\ \A o \in Owners : run[o] # None => run[o].ops <= csv.ops + lost.ops
=============================================================================
