-------------------------- MODULE EngineWorkProofs --------------------------
(***************************************************************************)
(* What holds of the engine whatever work it is given.                     *)
(*                                                                         *)
(* Downloads, benchmarks and deletions: a step of the engine is a step of  *)
(* the component or leaves it alone, so the engine implements the          *)
(* component (EngineRunsBenchmarks, EngineDeletes), and what the           *)
(* component's own proofs say of it holds of the engine.  Copies and       *)
(* histories are proved here.                                              *)
(***************************************************************************)
EXTENDS MCEngineWork, StagedDownloadProofs, Sequences

BRP == INSTANCE BenchmarkRunProofs
DAP == INSTANCE DeleteAllProofs WITH work <- pool

-----------------------------------------------------------------------------
(* Benchmarks                                                              *)

\* The engine implements a benchmark run.
LEMMA EngineRunsBenchmarks == EngineSpec => BRP!Spec
<1>1. EngineInit => BR!Init
    BY DEF EngineInit
<1>2. [EngineNext]_EngineVars => [BR!Next]_(BR!vars)
    BY DEF EngineNext, EngineVars, benchmarkVars, BR!vars
<1>3. BR!Init => BRP!Init
    BY DEF BR!Init, BRP!Init, BR!Owners, BRP!Owners, BR!None, BRP!None, BR!Off, BRP!Off
<1>4. [BR!Next]_(BR!vars) => [BRP!Next]_(BRP!vars)
  <2>1. ASSUME NEW o \in BR!Owners, BR!Expire(o) PROVE BRP!Next
      BY <2>1 DEF BR!Expire, BRP!Expire, BR!None, BRP!None, BR!Owners, BRP!Owners, BRP!Next
  <2>2. ASSUME NEW o \in BR!Owners, NEW w \in Workers, run[o] # BR!None, BR!Reserve(o, w) PROVE BRP!Next
      BY <2>2 DEF BR!Reserve, BRP!Reserve, BR!Smaller, BRP!Smaller, BR!Remaining, BRP!Remaining,
         BR!Owners, BRP!Owners, BR!None, BRP!None, BRP!WorkerStep, BRP!Next
  <2>3. ASSUME NEW o \in BR!Owners, NEW w \in Workers, run[o] # BR!None, BR!Complete(o, w) PROVE BRP!Next
      BY <2>3 DEF BR!Complete, BRP!Complete, BR!Off, BRP!Off, BR!Checkpoint, BRP!Checkpoint,
         BR!Remaining, BRP!Remaining, BR!Smaller, BRP!Smaller, BR!Owners, BRP!Owners, BR!None,
         BRP!None, BRP!WorkerStep, BR!Persist, BRP!Persist, BR!Raised, BRP!Raised, BR!Terminal,
         BRP!Terminal, BRP!Next
  <2>4. ASSUME NEW o \in BR!Owners, NEW w \in Workers, run[o] # BR!None, BR!Leave(o, w) PROVE BRP!Next
      BY <2>4 DEF BR!Leave, BRP!Leave, BR!Terminal, BRP!Terminal, BR!Off, BRP!Off, BR!Owners,
         BRP!Owners, BR!None, BRP!None, BRP!WorkerStep, BRP!Next
  <2>5. ASSUME NEW o \in BR!Owners, NEW w \in Workers, run[o] # BR!None, BR!Finish(o, w) PROVE BRP!Next
      BY <2>5 DEF BR!Finish, BRP!Finish, BR!Idle, BRP!Idle, BR!Checkpoint, BRP!Checkpoint,
         BR!Record, BRP!Record, BR!Counted, BRP!Counted, BR!Owners, BRP!Owners, BR!None, BRP!None,
         BRP!WorkerStep, BR!Persist, BRP!Persist, BR!Raised, BRP!Raised, BR!Terminal,
         BRP!Terminal, BRP!Next
  <2>6. ASSUME NEW o \in BR!Owners, NEW w \in Workers, run[o] # BR!None, BR!Fail(o, w) PROVE BRP!Next
      BY <2>6 DEF BR!Fail, BRP!Fail, BR!Record, BRP!Record, BR!Counted, BRP!Counted, BR!Raised,
         BRP!Raised, BR!Owners, BRP!Owners, BR!None, BRP!None, BRP!WorkerStep, BRP!Next
  <2>7. ASSUME NEW o \in BR!Owners, NEW w \in Workers, run[o] # BR!None, BR!AppendFails(o, w) PROVE BRP!Next
      BY <2>7 DEF BR!AppendFails, BRP!AppendFails, BR!Counted, BRP!Counted, BR!Raised, BRP!Raised,
         BR!Owners, BRP!Owners, BR!None, BRP!None, BRP!WorkerStep, BRP!Next
  <2>8. ASSUME NEW o \in BR!Owners, NEW w \in Workers, run[o] # BR!None, BR!MarkFailed(o, w) PROVE BRP!Next
      BY <2>8 DEF BR!MarkFailed, BRP!MarkFailed, BR!Off, BRP!Off, BR!Checkpoint, BRP!Checkpoint,
         BR!Owners, BRP!Owners, BR!None, BRP!None, BRP!WorkerStep, BR!Persist, BRP!Persist,
         BR!Terminal, BRP!Terminal, BRP!Next
  <2>9. ASSUME BR!Start PROVE BRP!Next
      BY <2>9 DEF BR!Start, BRP!Start, BR!None, BRP!None, BR!Checkpoint, BRP!Checkpoint,
         BR!NewRun, BRP!NewRun, BR!StartWorkers, BRP!StartWorkers, BR!Terminal, BRP!Terminal,
         BRP!Next
  <2>10. ASSUME BR!StatusUnowned PROVE BRP!Next
      BY <2>10 DEF BR!StatusUnowned, BRP!StatusUnowned, BR!Checkpoint, BRP!Checkpoint,
         BR!Restorable, BRP!Restorable, BR!None, BRP!None, BR!Terminal, BRP!Terminal, BRP!Next
  <2>11. ASSUME NEW status \in {"paused", "running", "stopped"}, BR!Control(status) PROVE BRP!Next
      BY <2>11 DEF BR!Control, BRP!Control, BR!Terminal, BRP!Terminal, BR!Checkpoint,
         BRP!Checkpoint, BR!Persist, BRP!Persist, BRP!Next
  <2>12. ASSUME NEW status \in {"paused", "stopped"}, BR!ControlUnowned(status) PROVE BRP!Next
      BY <2>12 DEF BR!ControlUnowned, BRP!ControlUnowned, BR!Checkpoint, BRP!Checkpoint,
         BR!Restorable, BRP!Restorable, BR!None, BRP!None, BR!Terminal, BRP!Terminal, BRP!Next
  <2>13. ASSUME NEW r \in Resumes, BR!ResumeRead(r) PROVE BRP!Next
      BY <2>13 DEF BR!ResumeRead, BRP!ResumeRead, BR!None, BRP!None, BR!Restorable,
         BRP!Restorable, BRP!Next
  <2>14. ASSUME NEW r \in Resumes, BR!ResumeStart(r) PROVE BRP!Next
      BY <2>14 DEF BR!ResumeStart, BRP!ResumeStart, BR!Owners, BRP!Owners, BR!None, BRP!None,
         BR!NewRun, BRP!NewRun, BR!StartWorkers, BRP!StartWorkers, BR!Checkpoint, BRP!Checkpoint,
         BR!Terminal, BRP!Terminal, BRP!Next
  <2>15. ASSUME BR!Crash PROVE BRP!Next
      BY <2>15 DEF BR!Crash, BRP!Crash, BR!Owners, BRP!Owners, BR!None, BRP!None, BR!Off, BRP!Off,
         BR!InFlight, BRP!InFlight, BRP!Next
  <2> QED
      BY <2>1, <2>2, <2>3, <2>4, <2>5, <2>6, <2>7, <2>8, <2>9, <2>10, <2>11, <2>12, <2>13, <2>14, <2>15
         DEF BR!Next, BR!WorkerStep, BR!vars, BRP!vars
<1> QED
    BY <1>1, <1>2, <1>3, <1>4, PTL DEF EngineSpec, BRP!Spec

\* The constants of the engine are those of a run.
LEMMA BenchmarkBounds == BRP!BenchmarkConstants
BY EngineAssumption DEF BRP!BenchmarkConstants, BR!BenchmarkConstants, BR!IsFiniteSet,
   BRP!IsFiniteSet

\* A benchmark that the engine reports as completed has nothing in flight, and when it counts
\* operations it has recorded exactly its budget, or what it was resumed with, unless a worker
\* is about to mark it failed (_BenchmarkRun.run, _append_benchmark_history); as long as no
\* append to the CSV has failed, no run and no worker is excepted.
THEOREM BenchmarkExact == EngineSpec => []CompletedIsExact
<1>1. BRP!Spec => []BRP!CompletedIsExact
    BY BenchmarkBounds, BRP!NeverOverrun
<1>2. BRP!CompletedIsExact => CompletedIsExact
    BY DEF CompletedIsExact, BR!CompletedIsExact, BR!Owners, BR!None, BR!InFlight,
       BR!Failing, BR!Bigger, BRP!CompletedIsExact, BRP!Owners, BRP!None, BRP!InFlight, BRP!Failing,
       BRP!Bigger
<1> QED
    BY <1>1, <1>2, EngineRunsBenchmarks, PTL

\* Neither the checkpoint nor the status of a run of the engine is ahead of its CSV, but for
\* the rows whose append has failed.
THEOREM BenchmarkProgress == EngineSpec => []ProgressNeverLost
<1>1. BRP!Spec => []BRP!ProgressNeverLost
    BY BenchmarkBounds, BRP!NothingTakenBack
<1>2. BRP!ProgressNeverLost => ProgressNeverLost
    BY DEF ProgressNeverLost, BR!ProgressNeverLost, BR!Owners, BR!None, BRP!ProgressNeverLost,
       BRP!Owners, BRP!None
<1> QED
    BY <1>1, <1>2, EngineRunsBenchmarks, PTL

(* Copies: the inductive invariant                                         *)
(*                                                                         *)
(* What is written is whole because of what each part holds where the copy *)
(* is (PartsKnown), and because the source is not deleted before the copy  *)
(* is over (SourceKnown).  Where the thread is tells how the object is     *)
(* copied (StrategyKnown), and so which writes look at the destination.    *)

\* Where the thread is fits how the object is copied; only relays keep an object.
StrategyKnown ==
    /\ strategy \notin SC!Relays => conflict = "replace"
    /\ place \in {"checking", "starting"} => strategy # "azureCopy"
    /\ place = "copying" => strategy = "serverCopy"
    /\ place \in {"collecting", "draining"} => strategy = "serverParts"
    /\ place \in {"opening", "putting", "relaying"} => strategy \in SC!Relays
    /\ place \in {"creating", "reporting", "completing"} => strategy \in SC!Relays \cup {"serverParts"}
    /\ place \in {"verifying", "publishing"} => strategy # "azureCopy"
    /\ place \in {"submitting", "polling"} => strategy = "azureCopy"
    /\ copying # "none" => strategy = "azureCopy" /\ place \notin {"asking", "submitting"}

\* A version of the source, the one that HEAD saw where it gave an ETag.
Right(v) == v # SC!Hole /\ (pinned => v = found)

\* The parts of a relay are of the one version that its GET streams; those of a server-side
\* copy are each of a version that was there, and none is copied once the pool is left.
PartsKnown ==
    /\ place = "asking" => \A p \in SC!Parts : part[p].at = "todo"
    /\ strategy \in SC!Relays /\ place \in {"putting", "creating", "relaying", "reporting", "completing"} =>
          /\ \A p \in SC!Parts : Right(part[p].of)
          /\ \A p, q \in SC!Parts : part[p].of = part[q].of
    /\ \A p \in SC!Parts :
          /\ part[p].at = "passed" => strategy = "serverParts" /\ place \in {"collecting", "reporting", "draining"}
          /\ strategy = "serverParts" /\ part[p].at \in {"sent", "taken"} => Right(part[p].of)
    /\ place = "completing" => SC!AllTaken

\* The source is there until the copy is over, and with it an asynchronous copy at work.
SourceKnown ==
    /\ source = SC!Hole => place = "over" /\ copying # "pending"
    /\ place \in {"draining", "aborting", "leaving", "removing", "over"} => result # "none"
    /\ place \in {"asking", "submitting"} => result = "none"
    /\ place = "removing" => result # "failed"
    /\ copying = "pending" => result \in {"none", "failed"}

\* Nothing is committed before the copy begins.
CommitKnown == place \in {"asking", "submitting"} => ~committed

CopyInv == SC!TypeOK /\ StrategyKnown /\ PartsKnown /\ SourceKnown /\ CommitKnown /\ SC!CopiedWhole

-----------------------------------------------------------------------------
(* Copies: parts and objects                                               *)

\* A part that gets to another point keeps its bytes.
LEMMA CopyMoves ==
    ASSUME SC!TypeOK, NEW n, NEW s \in SC!Points, part' = [part EXCEPT ![n].at = s]
    PROVE  /\ part' \in [SC!Parts -> [at : SC!Points, of : 0..MaxVersions]]
           /\ \A q \in SC!Parts :
                 part'[q].of = part[q].of /\ part'[q].at = IF q = n THEN s ELSE part[q].at
<1>1. \A q \in SC!Parts : part[q] \in [at : SC!Points, of : 0..MaxVersions]
    BY DEF SC!TypeOK
<1>2. \A q \in SC!Parts : [part[q] EXCEPT !.at = s] \in [at : SC!Points, of : 0..MaxVersions]
    BY <1>1
<1>3. part' = [q \in SC!Parts |-> IF q = n THEN [part[q] EXCEPT !.at = s] ELSE part[q]]
    BY DEF SC!TypeOK
<1> QED
    BY <1>1, <1>2, <1>3

\* What is written is an object.
LEMMA WrittenType ==
    ASSUME SC!CopyConstants, SC!TypeOK
    PROVE  /\ SC!Copied(SC!Whole(source)) \in SC!Objects /\ SC!Copied(SC!Whole(SC!Hole)) \in SC!Objects
           /\ SC!Copied(SC!Bytes) \in SC!Objects /\ SC!Foreign \in SC!Objects /\ SC!Nothing \in SC!Objects
<1>1. 0 \in 0..MaxVersions
    BY DEF SC!CopyConstants
<1>2. \A p \in SC!Parts : part[p].of \in 0..MaxVersions
    BY DEF SC!TypeOK
<1> QED
    BY <1>1, <1>2 DEF SC!TypeOK, SC!Copied, SC!Whole, SC!Bytes, SC!Foreign, SC!Nothing, SC!Objects,
       SC!Hole

-----------------------------------------------------------------------------
(* Copies: the initial states                                              *)

LEMMA CopyInit == ASSUME SC!CopyConstants, SC!Init PROVE CopyInv
<1>1. SC!TypeOK
  <2>1. 0 \in 0..MaxVersions /\ 1 \in 0..MaxVersions /\ 0 \in 0..MaxPolls
      BY DEF SC!CopyConstants
  <2>2. SC!Todo \in [at : SC!Points, of : 0..MaxVersions] /\ SC!Nothing \in SC!Objects /\ SC!Foreign \in SC!Objects
      BY <2>1 DEF SC!Todo, SC!Points, SC!Nothing, SC!Foreign, SC!Objects, SC!Hole
  <2> QED
      BY <2>1, <2>2 DEF SC!Init, SC!TypeOK, SC!Hole
<1>2. StrategyKnown
    BY DEF SC!Init, StrategyKnown
<1>3. PartsKnown
    BY DEF SC!Init, PartsKnown, SC!Todo
<1>4. SourceKnown /\ CommitKnown /\ SC!CopiedWhole
    BY DEF SC!Init, SourceKnown, CommitKnown, SC!CopiedWhole, SC!Hole
<1> QED
    BY <1>1, <1>2, <1>3, <1>4 DEF CopyInv

-----------------------------------------------------------------------------
(* Copies: the steps                                                       *)

\* A control is nothing that the copied bytes depend on.
LEMMA SignalKeeps ==
    ASSUME SC!CopyConstants, CopyInv, NEW status \in {"running", "paused", "cancelled"}, SC!Signal(status) PROVE CopyInv'
<1>1. SC!TypeOK'
    BY DEF CopyInv, SC!TypeOK, SC!Signal, SC!choiceVars, SC!asyncVars
<1>2. StrategyKnown'
    BY DEF CopyInv, StrategyKnown, SC!Relays, SC!Signal, SC!choiceVars, SC!asyncVars
<1>3. PartsKnown'
    BY DEF CopyInv, PartsKnown, Right, SC!AllTaken, SC!Signal, SC!choiceVars
<1>4. SourceKnown'
    BY DEF CopyInv, SourceKnown, SC!Relays, SC!Signal, SC!asyncVars
<1>5. CommitKnown'
    BY DEF CopyInv, CommitKnown, SC!Signal
<1>6. SC!CopiedWhole'
    BY DEF CopyInv, SC!CopiedWhole, SC!Signal, SC!choiceVars
<1> QED
    BY <1>1, <1>2, <1>3, <1>4, <1>5, <1>6 DEF CopyInv

\* An edit leaves a source that is there.
LEMMA EditSourceKeeps ==
    ASSUME SC!CopyConstants, CopyInv, SC!EditSource PROVE CopyInv'
<1>1. SC!TypeOK'
  <2>1. source' \in 0..MaxVersions
      BY DEF SC!CopyConstants, SC!EditSource
  <2> QED
      BY <2>1 DEF CopyInv, SC!TypeOK, SC!EditSource, SC!choiceVars, SC!asyncVars
<1>2. StrategyKnown'
    BY DEF CopyInv, StrategyKnown, SC!Relays, SC!EditSource, SC!choiceVars, SC!asyncVars
<1>3. PartsKnown'
    BY DEF CopyInv, PartsKnown, Right, SC!AllTaken, SC!EditSource, SC!choiceVars
<1>4. SourceKnown'
    BY DEF SC!CopyConstants, CopyInv, SourceKnown, SC!EditSource, SC!Hole
<1>5. CommitKnown'
    BY DEF CopyInv, CommitKnown, SC!EditSource
<1>6. SC!CopiedWhole'
    BY DEF CopyInv, SC!CopiedWhole, SC!EditSource, SC!choiceVars
<1> QED
    BY <1>1, <1>2, <1>3, <1>4, <1>5, <1>6 DEF CopyInv

\* What another client writes is not of the copy.
LEMMA MeddleKeeps ==
    ASSUME SC!CopyConstants, CopyInv, SC!Meddle PROVE CopyInv'
<1>1. SC!TypeOK'
  <2>1. SC!TypeOK
      BY DEF CopyInv
  <2>2. dest' \in SC!Objects
      BY <2>1, WrittenType DEF SC!Meddle
  <2>3. committed' \in BOOLEAN
      BY <2>1 DEF SC!TypeOK, SC!Meddle
  <2> QED
      BY <2>1, <2>2, <2>3 DEF SC!TypeOK, SC!Meddle, SC!choiceVars
<1>2. StrategyKnown'
    BY DEF CopyInv, StrategyKnown, SC!Relays, SC!Meddle, SC!choiceVars
<1>3. PartsKnown'
    BY DEF CopyInv, PartsKnown, Right, SC!AllTaken, SC!Meddle, SC!choiceVars
<1>4. SourceKnown'
    BY DEF CopyInv, SourceKnown, SC!Relays, SC!Meddle
<1>5. CommitKnown'
    BY DEF CopyInv, CommitKnown, SC!Meddle
<1>6. SC!CopiedWhole'
    BY DEF CopyInv, SC!CopiedWhole, SC!Meddle, SC!Foreign
<1> QED
    BY <1>1, <1>2, <1>3, <1>4, <1>5, <1>6 DEF CopyInv

\* Azure copies a source that is still there.
LEMMA ServiceCopiesKeeps ==
    ASSUME SC!CopyConstants, CopyInv, SC!ServiceCopies PROVE CopyInv'
<1>1. SC!TypeOK'
  <2>1. SC!TypeOK
      BY DEF CopyInv
  <2>2. dest' \in SC!Objects
      BY <2>1, WrittenType DEF SC!TypeOK, SC!ServiceCopies, SC!Commit
  <2>3. committed' \in BOOLEAN
      BY <2>1 DEF SC!TypeOK, SC!ServiceCopies, SC!Commit
  <2> QED
      BY <2>1, <2>2, <2>3 DEF SC!TypeOK, SC!ServiceCopies, SC!choiceVars
<1>2. StrategyKnown'
    BY DEF CopyInv, StrategyKnown, SC!Relays, SC!ServiceCopies, SC!choiceVars
<1>3. PartsKnown'
    BY DEF CopyInv, PartsKnown, Right, SC!AllTaken, SC!ServiceCopies, SC!choiceVars
<1>4. SourceKnown'
    BY DEF CopyInv, SourceKnown, SC!Relays, SC!ServiceCopies
<1>5. CommitKnown'
    BY DEF CopyInv, CommitKnown, StrategyKnown, SC!ServiceCopies
<1>6. SC!CopiedWhole'
  <2>1. source # SC!Hole /\ strategy = "azureCopy" /\ found' = found /\ SC!choiceVars' = SC!choiceVars
      BY DEF CopyInv, SourceKnown, StrategyKnown, SC!ServiceCopies
  <2>2. CASE dest' = SC!Copied(SC!Whole(source))
      BY <2>1, <2>2 DEF SC!CopiedWhole, SC!Copied, SC!Whole, SC!choiceVars
  <2>3. CASE dest' = dest /\ committed' = committed
      BY <2>1, <2>3 DEF CopyInv, SC!CopiedWhole, SC!choiceVars
  <2> QED
      BY <2>2, <2>3 DEF SC!ServiceCopies, SC!Commit
<1> QED
    BY <1>1, <1>2, <1>3, <1>4, <1>5, <1>6 DEF CopyInv

\* HEAD is before every part.
LEMMA CopyAskKeeps ==
    ASSUME SC!CopyConstants, CopyInv, SC!Ask PROVE CopyInv'
<1>1. SC!TypeOK'
    BY DEF CopyInv, SC!TypeOK, SC!Ask, SC!Raise, SC!choiceVars, SC!asyncVars
<1>2. StrategyKnown'
    BY DEF CopyInv, StrategyKnown, SC!Relays, SC!Ask, SC!Raise, SC!choiceVars, SC!asyncVars
<1>3. PartsKnown'
    BY DEF CopyInv, PartsKnown, SC!AllTaken, SC!Ask, SC!Raise
<1>4. SourceKnown'
    BY DEF CopyInv, SourceKnown, SC!Relays, SC!Ask, SC!Raise
<1>5. CommitKnown'
    BY DEF CopyInv, CommitKnown, SC!Ask
<1>6. SC!CopiedWhole'
    BY DEF CopyInv, SC!CopiedWhole, CommitKnown, SC!Ask
<1> QED
    BY <1>1, <1>2, <1>3, <1>4, <1>5, <1>6 DEF CopyInv

\* Looking at the destination writes nothing.
LEMMA CheckKeeps ==
    ASSUME SC!CopyConstants, CopyInv, SC!Check PROVE CopyInv'
<1>1. SC!TypeOK'
  <2>1. known' \in BOOLEAN
      BY DEF CopyInv, SC!TypeOK, SC!Check
  <2>2. result' \in {result, "skipped", "failed"}
      BY DEF SC!Check, SC!Raise
  <2> QED
      BY <2>1, <2>2 DEF CopyInv, SC!TypeOK, SC!Check, SC!choiceVars, SC!asyncVars
<1>2. StrategyKnown'
    BY DEF CopyInv, StrategyKnown, SC!Relays, SC!Check, SC!Raise, SC!choiceVars, SC!asyncVars
<1>3. PartsKnown'
    BY DEF CopyInv, PartsKnown, Right, SC!AllTaken, SC!Check, SC!Raise, SC!choiceVars
<1>4. SourceKnown'
    BY DEF CopyInv, SourceKnown, StrategyKnown, SC!Relays, SC!Check, SC!Raise, SC!asyncVars
<1>5. CommitKnown'
    BY DEF CopyInv, CommitKnown, SC!Check, SC!Raise
<1>6. SC!CopiedWhole'
    BY DEF CopyInv, SC!CopiedWhole, SC!Check, SC!choiceVars
<1> QED
    BY <1>1, <1>2, <1>3, <1>4, <1>5, <1>6 DEF CopyInv

\* The copy goes on as its strategy says.
LEMMA BeginKeeps ==
    ASSUME SC!CopyConstants, CopyInv, SC!Begin PROVE CopyInv'
<1>1. SC!TypeOK'
    BY DEF CopyInv, SC!TypeOK, SC!Begin, SC!Raise, SC!Servers, SC!Relays, SC!choiceVars,
       SC!asyncVars
<1>2. StrategyKnown'
    BY DEF CopyInv, StrategyKnown, SC!Relays, SC!Begin, SC!Raise, SC!TypeOK, SC!Servers,
       SC!choiceVars, SC!asyncVars
<1>3. PartsKnown'
    BY DEF CopyInv, PartsKnown, Right, SC!AllTaken, SC!Begin, SC!Raise, SC!Servers, SC!Relays,
       SC!choiceVars
<1>4. SourceKnown'
    BY DEF CopyInv, SourceKnown, StrategyKnown, SC!Relays, SC!Begin, SC!Raise, SC!Servers,
       SC!asyncVars
<1>5. CommitKnown'
    BY DEF CopyInv, CommitKnown, SC!Begin, SC!Raise, SC!Servers, SC!Relays
<1>6. SC!CopiedWhole'
    BY DEF CopyInv, SC!CopiedWhole, SC!Begin, SC!Servers, SC!Relays, SC!choiceVars
<1> QED
    BY <1>1, <1>2, <1>3, <1>4, <1>5, <1>6 DEF CopyInv

\* The server copies the whole object, of the version that HEAD saw.
LEMMA CopyKeeps ==
    ASSUME SC!CopyConstants, CopyInv, SC!Copy PROVE CopyInv'
<1>1. SC!TypeOK'
  <2>1. SC!TypeOK
      BY DEF CopyInv
  <2>2. dest' \in SC!Objects
      BY <2>1, WrittenType DEF SC!TypeOK, SC!Copy, SC!Commit
  <2>3. committed' \in BOOLEAN
      BY <2>1 DEF SC!TypeOK, SC!Copy, SC!Commit
  <2> QED
      BY <2>1, <2>2, <2>3 DEF SC!TypeOK, SC!Copy, SC!Raise, SC!Answer, SC!choiceVars, SC!asyncVars
<1>2. StrategyKnown'
    BY DEF CopyInv, StrategyKnown, SC!Relays, SC!Copy, SC!Raise, SC!Answer, SC!choiceVars,
       SC!asyncVars
<1>3. PartsKnown'
    BY DEF CopyInv, PartsKnown, Right, SC!AllTaken, SC!Copy, SC!Raise, SC!Answer, SC!choiceVars
<1>4. SourceKnown'
    BY DEF CopyInv, SourceKnown, SC!Relays, SC!Copy, SC!Raise, SC!Answer, SC!asyncVars
<1>5. CommitKnown'
    BY DEF CopyInv, CommitKnown, SC!Copy, SC!Raise, SC!Answer
<1>6. SC!CopiedWhole'
  <2>1. place = "copying" /\ source # SC!Hole /\ found' = found /\ SC!choiceVars' = SC!choiceVars
      BY DEF CopyInv, SourceKnown, SC!Copy
  <2>2. CASE SC!Matching /\ dest' = SC!Copied(SC!Whole(source))
      BY <2>1, <2>2 DEF SC!CopiedWhole, SC!Copied, SC!Whole, SC!Matching, SC!choiceVars
  <2>3. CASE dest' = dest /\ committed' = committed
      BY <2>1, <2>3 DEF CopyInv, SC!CopiedWhole, SC!choiceVars
  <2> QED
      BY <2>2, <2>3 DEF SC!Copy, SC!Commit
<1> QED
    BY <1>1, <1>2, <1>3, <1>4, <1>5, <1>6 DEF CopyInv

\* An upload is no object.
LEMMA CreateKeeps ==
    ASSUME SC!CopyConstants, CopyInv, SC!Create PROVE CopyInv'
<1>1. SC!TypeOK'
    BY DEF CopyInv, SC!TypeOK, SC!Create, SC!Raise, SC!choiceVars, SC!asyncVars
<1>2. StrategyKnown'
    BY DEF CopyInv, StrategyKnown, SC!Relays, SC!Create, SC!Raise, SC!choiceVars, SC!asyncVars
<1>3. PartsKnown'
    BY DEF CopyInv, PartsKnown, Right, SC!AllTaken, SC!Create, SC!Raise, SC!choiceVars
<1>4. SourceKnown'
    BY DEF CopyInv, SourceKnown, SC!Relays, SC!Create, SC!Raise, SC!asyncVars
<1>5. CommitKnown'
    BY DEF CopyInv, CommitKnown, SC!Create, SC!Raise
<1>6. SC!CopiedWhole'
    BY DEF CopyInv, SC!CopiedWhole, SC!Create, SC!choiceVars
<1> QED
    BY <1>1, <1>2, <1>3, <1>4, <1>5, <1>6 DEF CopyInv

\* A part that is taken was copied.
LEMMA CollectKeeps ==
    ASSUME SC!CopyConstants, CopyInv, SC!Collect PROVE CopyInv'
<1>1. SC!TypeOK
    BY DEF CopyInv
<1>2. "taken" \in SC!Points /\ "passed" \in SC!Points /\ "stopped" \in SC!Points /\ "broken" \in SC!Points
    BY DEF SC!Points
<1>3. SC!TypeOK'
  <2>1. part' \in [SC!Parts -> [at : SC!Points, of : 0..MaxVersions]]
      BY CopyMoves DEF CopyInv, SC!TypeOK, SC!Points, SC!Collect
  <2> QED
      BY <2>1 DEF CopyInv, SC!TypeOK, SC!Collect, SC!choiceVars, SC!asyncVars
<1>4. StrategyKnown'
    BY DEF CopyInv, StrategyKnown, SC!Relays, SC!Collect, SC!choiceVars, SC!asyncVars
<1>5. PartsKnown'
  <2>1. place = "collecting" /\ strategy = "serverParts" /\ found' = found /\ SC!choiceVars' = SC!choiceVars
      BY DEF CopyInv, StrategyKnown, SC!Collect
  <2>2. CASE part[SC!Next1].at = "sent" /\ part' = [part EXCEPT ![SC!Next1].at = "taken"] /\ place' = "reporting"
    <3>1. \A q \in SC!Parts : part'[q].of = part[q].of /\ part'[q].at = IF q = SC!Next1 THEN "taken" ELSE part[q].at
        BY <2>2, <1>1, <1>2, CopyMoves
    <3> QED
        BY <2>1, <2>2, <3>1 DEF CopyInv, PartsKnown, Right, SC!Relays, SC!choiceVars
  <2>3. CASE part' = part /\ place' = "draining"
      BY <2>1, <2>3 DEF CopyInv, PartsKnown, Right, SC!AllTaken, SC!Relays, SC!choiceVars
  <2> QED
      BY <2>2, <2>3 DEF SC!Collect
<1>6. SourceKnown'
    BY DEF CopyInv, SourceKnown, StrategyKnown, SC!Relays, SC!Collect, SC!asyncVars
<1>7. CommitKnown'
    BY DEF CopyInv, CommitKnown, SC!Collect
<1>8. SC!CopiedWhole'
    BY DEF CopyInv, SC!CopiedWhole, SC!Collect, SC!choiceVars
<1> QED
    BY <1>3, <1>4, <1>5, <1>6, <1>7, <1>8 DEF CopyInv

\* Completion waits for every part.
LEMMA ReportKeeps ==
    ASSUME SC!CopyConstants, CopyInv, SC!Report PROVE CopyInv'
<1>1. SC!TypeOK'
    BY DEF CopyInv, SC!TypeOK, SC!Report, SC!Raise, SC!choiceVars, SC!asyncVars
<1>2. StrategyKnown'
    BY DEF CopyInv, StrategyKnown, SC!Relays, SC!Report, SC!Raise, SC!choiceVars, SC!asyncVars
<1>3. PartsKnown'
    BY DEF CopyInv, PartsKnown, Right, SC!AllTaken, SC!Report, SC!Raise, SC!choiceVars
<1>4. SourceKnown'
    BY DEF CopyInv, SourceKnown, StrategyKnown, SC!Relays, SC!Report, SC!Raise, SC!asyncVars
<1>5. CommitKnown'
    BY DEF CopyInv, CommitKnown, SC!Report, SC!Raise
<1>6. SC!CopiedWhole'
    BY DEF CopyInv, SC!CopiedWhole, SC!Report, SC!choiceVars
<1> QED
    BY <1>1, <1>2, <1>3, <1>4, <1>5, <1>6 DEF CopyInv

\* No thread of the pool copies a part after it.
LEMMA CopyDrainKeeps ==
    ASSUME SC!CopyConstants, CopyInv, SC!Drain PROVE CopyInv'
<1>1. SC!TypeOK'
    BY DEF CopyInv, SC!TypeOK, SC!Drain, SC!choiceVars, SC!asyncVars
<1>2. StrategyKnown'
    BY DEF CopyInv, StrategyKnown, SC!Relays, SC!Drain, SC!choiceVars, SC!asyncVars
<1>3. PartsKnown'
    BY DEF CopyInv, PartsKnown, Right, SC!AllTaken, SC!Drain, SC!choiceVars
<1>4. SourceKnown'
    BY DEF CopyInv, SourceKnown, SC!Relays, SC!Drain, SC!asyncVars
<1>5. CommitKnown'
    BY DEF CopyInv, CommitKnown, SC!Drain
<1>6. SC!CopiedWhole'
    BY DEF CopyInv, SC!CopiedWhole, SC!Drain, SC!choiceVars
<1> QED
    BY <1>1, <1>2, <1>3, <1>4, <1>5, <1>6 DEF CopyInv

\* One GET streams one version.
LEMMA OpenBodyKeeps ==
    ASSUME SC!CopyConstants, CopyInv, SC!OpenBody PROVE CopyInv'
<1>1. SC!TypeOK'
  <2>1. \A v \in 0..MaxVersions : [SC!Todo EXCEPT !.of = v] \in [at : SC!Points, of : 0..MaxVersions]
      BY DEF SC!Todo, SC!Points
  <2>2. part' \in [SC!Parts -> [at : SC!Points, of : 0..MaxVersions]]
      BY <2>1 DEF CopyInv, SC!TypeOK, SC!OpenBody
  <2> QED
      BY <2>2 DEF CopyInv, SC!TypeOK, SC!OpenBody, SC!Raise, SC!choiceVars, SC!asyncVars
<1>2. StrategyKnown'
    BY DEF CopyInv, StrategyKnown, SC!Relays, SC!OpenBody, SC!Raise, SC!choiceVars, SC!asyncVars
<1>3. PartsKnown'
  <2>1. place = "opening" /\ strategy \in SC!Relays /\ found' = found /\ SC!choiceVars' = SC!choiceVars
      BY DEF CopyInv, StrategyKnown, SC!OpenBody
  <2>2. source # SC!Hole
      BY <2>1 DEF CopyInv, SourceKnown
  <2>3. CASE part' = [p \in SC!Parts |-> [SC!Todo EXCEPT !.of = source]]
    <3>1. \A p \in SC!Parts : part'[p].at = "todo" /\ part'[p].of = source
        BY <2>3 DEF SC!Todo
    <3>2. place' \in {"putting", "creating", "relaying", "aborting", "leaving"} /\ (pinned /\ place' \in {"putting", "creating", "relaying"} => source = found)
        BY DEF SC!OpenBody, SC!Matching, SC!Raise
    <3> QED
        BY <2>1, <2>2, <3>1, <3>2 DEF CopyInv, PartsKnown, Right, SC!Relays, SC!choiceVars
  <2>4. CASE part' = part /\ place' \in {"aborting", "leaving"}
      BY <2>1, <2>4 DEF CopyInv, PartsKnown, Right, SC!AllTaken, SC!choiceVars
  <2> QED
      BY <2>3, <2>4 DEF SC!OpenBody, SC!Raise
<1>4. SourceKnown'
    BY DEF CopyInv, SourceKnown, SC!Relays, SC!OpenBody, SC!Raise, SC!asyncVars
<1>5. CommitKnown'
    BY DEF CopyInv, CommitKnown, SC!OpenBody, SC!Raise
<1>6. SC!CopiedWhole'
    BY DEF CopyInv, SC!CopiedWhole, SC!OpenBody, SC!choiceVars
<1> QED
    BY <1>1, <1>2, <1>3, <1>4, <1>5, <1>6 DEF CopyInv

\* The object that was read is written.
LEMMA PutKeeps ==
    ASSUME SC!CopyConstants, CopyInv, SC!Put PROVE CopyInv'
<1>1. SC!TypeOK'
  <2>1. SC!TypeOK
      BY DEF CopyInv
  <2>2. dest' \in SC!Objects
      BY <2>1, WrittenType DEF SC!TypeOK, SC!Put, SC!Commit
  <2>3. committed' \in BOOLEAN
      BY <2>1 DEF SC!TypeOK, SC!Put, SC!Commit
  <2> QED
      BY <2>1, <2>2, <2>3 DEF SC!TypeOK, SC!Put, SC!Raise, SC!Answer, SC!choiceVars, SC!asyncVars
<1>2. StrategyKnown'
    BY DEF CopyInv, StrategyKnown, SC!Relays, SC!Put, SC!Raise, SC!Answer, SC!choiceVars,
       SC!asyncVars
<1>3. PartsKnown'
    BY DEF CopyInv, PartsKnown, Right, SC!AllTaken, SC!Put, SC!Raise, SC!Answer, SC!choiceVars
<1>4. SourceKnown'
    BY DEF CopyInv, SourceKnown, SC!Relays, SC!Put, SC!Raise, SC!Answer, SC!asyncVars
<1>5. CommitKnown'
    BY DEF CopyInv, CommitKnown, SC!Put, SC!Raise, SC!Answer
<1>6. SC!CopiedWhole'
  <2>1. place = "putting" /\ strategy \in SC!Relays /\ found' = found /\ SC!choiceVars' = SC!choiceVars
      BY DEF CopyInv, StrategyKnown, SC!Put
  <2>2. \A p, q \in SC!Parts : Right(part[p].of) /\ part[p].of = part[q].of
      BY <2>1 DEF CopyInv, PartsKnown
  <2>3. CASE dest' = SC!Copied(SC!Bytes)
    <3>1. dest'.bytes = [p \in SC!Parts |-> part[p].of]
        BY <2>3 DEF SC!Copied, SC!Bytes
    <3> QED
        BY <2>1, <2>2, <3>1 DEF SC!CopiedWhole, SC!Whole, Right, SC!choiceVars
  <2>4. CASE dest' = dest /\ committed' = committed
      BY <2>1, <2>4 DEF CopyInv, SC!CopiedWhole, SC!choiceVars
  <2> QED
      BY <2>3, <2>4 DEF SC!Put, SC!Commit
<1> QED
    BY <1>1, <1>2, <1>3, <1>4, <1>5, <1>6 DEF CopyInv

\* A part of the stream stays what it is.
LEMMA RelayKeeps ==
    ASSUME SC!CopyConstants, CopyInv, SC!Relay PROVE CopyInv'
<1>1. SC!TypeOK
    BY DEF CopyInv
<1>2. "taken" \in SC!Points /\ "passed" \in SC!Points /\ "stopped" \in SC!Points /\ "broken" \in SC!Points
    BY DEF SC!Points
<1>3. SC!TypeOK'
  <2>1. part' \in [SC!Parts -> [at : SC!Points, of : 0..MaxVersions]]
      BY CopyMoves DEF CopyInv, SC!TypeOK, SC!Points, SC!Relay
  <2> QED
      BY <2>1 DEF CopyInv, SC!TypeOK, SC!Relay, SC!Raise, SC!choiceVars, SC!asyncVars
<1>4. StrategyKnown'
    BY DEF CopyInv, StrategyKnown, SC!Relays, SC!Relay, SC!Raise, SC!choiceVars, SC!asyncVars
<1>5. PartsKnown'
  <2>1. place = "relaying" /\ strategy \in SC!Relays /\ found' = found /\ SC!choiceVars' = SC!choiceVars
      BY DEF CopyInv, StrategyKnown, SC!Relay
  <2>2. CASE part' = [part EXCEPT ![SC!Next1].at = "taken"] /\ place' = "reporting"
    <3>1. \A q \in SC!Parts : part'[q].of = part[q].of /\ part'[q].at = IF q = SC!Next1 THEN "taken" ELSE part[q].at
        BY <2>2, <1>1, <1>2, CopyMoves
    <3> QED
        BY <2>1, <2>2, <3>1 DEF CopyInv, PartsKnown, Right, SC!Relays, SC!choiceVars
  <2>3. CASE part' = part /\ place' \in {"aborting", "leaving"}
      BY <2>1, <2>3 DEF CopyInv, PartsKnown, Right, SC!AllTaken, SC!choiceVars
  <2> QED
      BY <2>2, <2>3 DEF SC!Relay, SC!Raise
<1>6. SourceKnown'
    BY DEF CopyInv, SourceKnown, StrategyKnown, SC!Relays, SC!Relay, SC!Raise, SC!asyncVars
<1>7. CommitKnown'
    BY DEF CopyInv, CommitKnown, SC!Relay, SC!Raise
<1>8. SC!CopiedWhole'
    BY DEF CopyInv, SC!CopiedWhole, SC!Relay, SC!choiceVars
<1> QED
    BY <1>3, <1>4, <1>5, <1>6, <1>7, <1>8 DEF CopyInv

\* The parts that were taken become the object.
LEMMA CompleteKeeps ==
    ASSUME SC!CopyConstants, CopyInv, SC!Complete PROVE CopyInv'
<1>1. SC!TypeOK'
  <2>1. SC!TypeOK
      BY DEF CopyInv
  <2>2. dest' \in SC!Objects
      BY <2>1, WrittenType DEF SC!TypeOK, SC!Complete, SC!Commit
  <2>3. committed' \in BOOLEAN
      BY <2>1 DEF SC!TypeOK, SC!Complete, SC!Commit
  <2> QED
      BY <2>1, <2>2, <2>3 DEF SC!TypeOK, SC!Complete, SC!Raise, SC!Answer, SC!choiceVars,
         SC!asyncVars
<1>2. StrategyKnown'
    BY DEF CopyInv, StrategyKnown, SC!Relays, SC!Complete, SC!Raise, SC!Answer, SC!choiceVars,
       SC!asyncVars
<1>3. PartsKnown'
    BY DEF CopyInv, PartsKnown, Right, SC!AllTaken, SC!Complete, SC!Raise, SC!Answer, SC!choiceVars
<1>4. SourceKnown'
    BY DEF CopyInv, SourceKnown, StrategyKnown, SC!Relays, SC!Complete, SC!Raise, SC!Answer,
       SC!asyncVars
<1>5. CommitKnown'
    BY DEF CopyInv, CommitKnown, SC!Complete, SC!Raise, SC!Answer
<1>6. SC!CopiedWhole'
  <2>1. place = "completing" /\ found' = found /\ SC!choiceVars' = SC!choiceVars
      BY DEF SC!Complete
  <2>2. \A p \in SC!Parts : Right(part[p].of)
      BY <2>1 DEF CopyInv, StrategyKnown, PartsKnown, SC!AllTaken
  <2>3. strategy # "serverParts" => \A p, q \in SC!Parts : part[p].of = part[q].of
      BY <2>1 DEF CopyInv, StrategyKnown, PartsKnown
  <2>4. CASE dest' = SC!Copied(SC!Bytes)
    <3>1. dest'.bytes = [p \in SC!Parts |-> part[p].of]
        BY <2>4 DEF SC!Copied, SC!Bytes
    <3> QED
        BY <2>1, <2>2, <2>3, <3>1 DEF SC!CopiedWhole, SC!Whole, Right, SC!choiceVars
  <2>5. CASE dest' = dest /\ committed' = committed
      BY <2>1, <2>5 DEF CopyInv, SC!CopiedWhole, SC!choiceVars
  <2> QED
      BY <2>4, <2>5 DEF SC!Complete, SC!Commit
<1> QED
    BY <1>1, <1>2, <1>3, <1>4, <1>5, <1>6 DEF CopyInv

\* An aborted upload is no object.
LEMMA AbortKeeps ==
    ASSUME SC!CopyConstants, CopyInv, SC!Abort PROVE CopyInv'
<1>1. SC!TypeOK'
    BY DEF CopyInv, SC!TypeOK, SC!Abort, SC!choiceVars, SC!asyncVars
<1>2. StrategyKnown'
    BY DEF CopyInv, StrategyKnown, SC!Relays, SC!Abort, SC!choiceVars, SC!asyncVars
<1>3. PartsKnown'
    BY DEF CopyInv, PartsKnown, Right, SC!AllTaken, SC!Abort, SC!choiceVars
<1>4. SourceKnown'
    BY DEF CopyInv, SourceKnown, SC!Relays, SC!Abort, SC!asyncVars
<1>5. CommitKnown'
    BY DEF CopyInv, CommitKnown, SC!Abort
<1>6. SC!CopiedWhole'
    BY DEF CopyInv, SC!CopiedWhole, SC!Abort, SC!choiceVars
<1> QED
    BY <1>1, <1>2, <1>3, <1>4, <1>5, <1>6 DEF CopyInv

\* Azure copies at once, or begins to.
LEMMA SubmitKeeps ==
    ASSUME SC!CopyConstants, CopyInv, SC!Submit PROVE CopyInv'
<1>1. SC!TypeOK'
  <2>1. SC!TypeOK
      BY DEF CopyInv
  <2>2. dest' \in SC!Objects
      BY <2>1, WrittenType DEF SC!TypeOK, SC!Submit, SC!Commit
  <2>3. committed' \in BOOLEAN
      BY <2>1 DEF SC!TypeOK, SC!Submit, SC!Commit
  <2> QED
      BY <2>1, <2>2, <2>3 DEF SC!TypeOK, SC!Submit, SC!Raise, SC!choiceVars
<1>2. StrategyKnown'
    BY DEF CopyInv, StrategyKnown, SC!Relays, SC!Submit, SC!Raise, SC!choiceVars
<1>3. PartsKnown'
    BY DEF CopyInv, PartsKnown, Right, SC!AllTaken, SC!Submit, SC!Raise, SC!choiceVars
<1>4. SourceKnown'
    BY DEF CopyInv, SourceKnown, SC!Submit, SC!Raise
<1>5. CommitKnown'
    BY DEF CopyInv, CommitKnown, SC!Submit, SC!Raise
<1>6. SC!CopiedWhole'
  <2>1. place = "submitting" /\ source # SC!Hole /\ strategy = "azureCopy" /\ ~committed /\ SC!choiceVars' = SC!choiceVars
      BY DEF CopyInv, SourceKnown, StrategyKnown, CommitKnown, SC!Submit
  <2>2. CASE dest' = SC!Copied(SC!Whole(source))
      BY <2>1, <2>2 DEF SC!CopiedWhole, SC!Copied, SC!Whole, SC!choiceVars
  <2>3. CASE committed' = committed
      BY <2>1, <2>3 DEF SC!CopiedWhole
  <2> QED
      BY <2>2, <2>3 DEF SC!Submit, SC!Commit
<1> QED
    BY <1>1, <1>2, <1>3, <1>4, <1>5, <1>6 DEF CopyInv

\* The copy is completed when its success was seen.
LEMMA PollKeeps ==
    ASSUME SC!CopyConstants, CopyInv, SC!Poll PROVE CopyInv'
<1>1. SC!TypeOK'
  <2>1. polls' \in 0..MaxPolls
      BY DEF SC!CopyConstants, CopyInv, SC!TypeOK, SC!Poll
  <2> QED
      BY <2>1 DEF CopyInv, SC!TypeOK, SC!Poll, SC!Raise, SC!choiceVars
<1>2. StrategyKnown'
    BY DEF CopyInv, StrategyKnown, SC!Relays, SC!Poll, SC!Raise, SC!choiceVars
<1>3. PartsKnown'
    BY DEF CopyInv, PartsKnown, Right, SC!AllTaken, SC!Poll, SC!Raise, SC!choiceVars
<1>4. SourceKnown'
    BY DEF CopyInv, SourceKnown, SC!Relays, SC!Poll, SC!Raise
<1>5. CommitKnown'
    BY DEF CopyInv, CommitKnown, SC!Poll, SC!Raise
<1>6. SC!CopiedWhole'
    BY DEF CopyInv, SC!CopiedWhole, SC!Poll, SC!choiceVars
<1> QED
    BY <1>1, <1>2, <1>3, <1>4, <1>5, <1>6 DEF CopyInv

\* Looking at the destination changes nothing.
LEMMA VerifyKeeps ==
    ASSUME SC!CopyConstants, CopyInv, SC!Verify PROVE CopyInv'
<1>1. SC!TypeOK'
    BY DEF CopyInv, SC!TypeOK, SC!Verify, SC!Raise, SC!choiceVars, SC!asyncVars
<1>2. StrategyKnown'
    BY DEF CopyInv, StrategyKnown, SC!Relays, SC!Verify, SC!Raise, SC!choiceVars, SC!asyncVars
<1>3. PartsKnown'
    BY DEF CopyInv, PartsKnown, Right, SC!AllTaken, SC!Verify, SC!Raise, SC!choiceVars
<1>4. SourceKnown'
    BY DEF CopyInv, SourceKnown, SC!Relays, SC!Verify, SC!Raise, SC!asyncVars
<1>5. CommitKnown'
    BY DEF CopyInv, CommitKnown, SC!Verify, SC!Raise
<1>6. SC!CopiedWhole'
    BY DEF CopyInv, SC!CopiedWhole, SC!Verify, SC!choiceVars
<1> QED
    BY <1>1, <1>2, <1>3, <1>4, <1>5, <1>6 DEF CopyInv

\* The last event changes nothing but the result.
LEMMA PublishKeeps ==
    ASSUME SC!CopyConstants, CopyInv, SC!Publish PROVE CopyInv'
<1>1. SC!TypeOK'
    BY DEF CopyInv, SC!TypeOK, SC!Publish, SC!Raise, SC!choiceVars, SC!asyncVars
<1>2. StrategyKnown'
    BY DEF CopyInv, StrategyKnown, SC!Relays, SC!Publish, SC!Raise, SC!choiceVars, SC!asyncVars
<1>3. PartsKnown'
    BY DEF CopyInv, PartsKnown, Right, SC!AllTaken, SC!Publish, SC!Raise, SC!choiceVars
<1>4. SourceKnown'
    BY DEF CopyInv, SourceKnown, StrategyKnown, SC!Relays, SC!Publish, SC!Raise, SC!asyncVars
<1>5. CommitKnown'
    BY DEF CopyInv, CommitKnown, SC!Publish, SC!Raise
<1>6. SC!CopiedWhole'
    BY DEF CopyInv, SC!CopiedWhole, SC!Publish, SC!choiceVars
<1> QED
    BY <1>1, <1>2, <1>3, <1>4, <1>5, <1>6 DEF CopyInv

\* Only a copy that has not failed goes on to delete its source.
LEMMA LeaveKeeps ==
    ASSUME SC!CopyConstants, CopyInv, SC!Leave PROVE CopyInv'
<1>1. SC!TypeOK'
  <2>1. known' \in BOOLEAN
      BY DEF SC!Leave
  <2> QED
      BY <2>1 DEF CopyInv, SC!TypeOK, SC!Leave, SC!choiceVars, SC!asyncVars
<1>2. StrategyKnown'
    BY DEF CopyInv, StrategyKnown, SC!Relays, SC!Leave, SC!choiceVars, SC!asyncVars
<1>3. PartsKnown'
    BY DEF CopyInv, PartsKnown, Right, SC!AllTaken, SC!Leave, SC!choiceVars
<1>4. SourceKnown'
    BY DEF CopyInv, SourceKnown, SC!Relays, SC!Leave, SC!asyncVars
<1>5. CommitKnown'
    BY DEF CopyInv, CommitKnown, SC!Leave
<1>6. SC!CopiedWhole'
    BY DEF CopyInv, SC!CopiedWhole, SC!Leave, SC!choiceVars
<1> QED
    BY <1>1, <1>2, <1>3, <1>4, <1>5, <1>6 DEF CopyInv

\* No asynchronous copy is at work when the source is deleted.
LEMMA RemoveKeeps ==
    ASSUME SC!CopyConstants, CopyInv, SC!Remove PROVE CopyInv'
<1>1. SC!TypeOK'
  <2>1. source' \in 0..MaxVersions
      BY DEF SC!CopyConstants, CopyInv, SC!TypeOK, SC!Remove, SC!Hole
  <2>2. removed' \in BOOLEAN
      BY DEF CopyInv, SC!TypeOK, SC!Remove
  <2> QED
      BY <2>1, <2>2 DEF CopyInv, SC!TypeOK, SC!Remove, SC!choiceVars, SC!asyncVars
<1>2. StrategyKnown'
    BY DEF CopyInv, StrategyKnown, SC!Relays, SC!Remove, SC!choiceVars, SC!asyncVars
<1>3. PartsKnown'
    BY DEF CopyInv, PartsKnown, Right, SC!AllTaken, SC!Remove, SC!choiceVars
<1>4. SourceKnown'
    BY DEF CopyInv, SourceKnown, SC!Relays, SC!Remove, SC!asyncVars
<1>5. CommitKnown'
    BY DEF CopyInv, CommitKnown, SC!Remove
<1>6. SC!CopiedWhole'
    BY DEF CopyInv, SC!CopiedWhole, SC!Remove, SC!choiceVars
<1> QED
    BY <1>1, <1>2, <1>3, <1>4, <1>5, <1>6 DEF CopyInv

\* A part passes its gate while the pool is there.
LEMMA PassKeeps ==
    ASSUME SC!CopyConstants, CopyInv, NEW p \in SC!Parts, SC!Pass(p) PROVE CopyInv'
<1>1. SC!TypeOK
    BY DEF CopyInv
<1>2. "taken" \in SC!Points /\ "passed" \in SC!Points /\ "stopped" \in SC!Points /\ "broken" \in SC!Points
    BY DEF SC!Points
<1>3. SC!TypeOK'
  <2>1. part' \in [SC!Parts -> [at : SC!Points, of : 0..MaxVersions]]
      BY CopyMoves DEF CopyInv, SC!Points, SC!Pass
  <2> QED
      BY <2>1 DEF CopyInv, SC!TypeOK, SC!Pass, SC!choiceVars, SC!asyncVars
<1>4. StrategyKnown'
    BY DEF CopyInv, StrategyKnown, SC!Relays, SC!Pass, SC!choiceVars, SC!asyncVars
<1>5. PartsKnown'
  <2>1. PICK s \in SC!Points : s \in {"passed", "stopped"} /\ part' = [part EXCEPT ![p].at = s]
      BY <1>2 DEF SC!Pass
  <2>2. \A q \in SC!Parts : part'[q].of = part[q].of /\ part'[q].at = IF q = p THEN s ELSE part[q].at
      BY <1>1, <2>1, CopyMoves
  <2>3. strategy = "serverParts" /\ place \in {"collecting", "reporting"} /\ place' = place /\ found' = found /\ SC!choiceVars' = SC!choiceVars
      BY DEF SC!Pass
  <2> QED
      BY <2>1, <2>2, <2>3 DEF CopyInv, PartsKnown, Right, SC!Relays, SC!choiceVars
<1>6. SourceKnown'
    BY DEF CopyInv, SourceKnown, SC!Relays, SC!Pass, SC!asyncVars
<1>7. CommitKnown'
    BY DEF CopyInv, CommitKnown, SC!Pass
<1>8. SC!CopiedWhole'
    BY DEF CopyInv, SC!CopiedWhole, SC!Pass, SC!choiceVars
<1> QED
    BY <1>3, <1>4, <1>5, <1>6, <1>7, <1>8 DEF CopyInv

\* A part is copied of a source that is there.
LEMMA CopyPartKeeps ==
    ASSUME SC!CopyConstants, CopyInv, NEW p \in SC!Parts, SC!CopyPart(p) PROVE CopyInv'
<1>1. SC!TypeOK
    BY DEF CopyInv
<1>2. "taken" \in SC!Points /\ "passed" \in SC!Points /\ "stopped" \in SC!Points /\ "broken" \in SC!Points
    BY DEF SC!Points
<1>3. SC!TypeOK'
  <2>1. CASE part' = [part EXCEPT ![p] = [at |-> "sent", of |-> source]]
    <3>1. [at |-> "sent", of |-> source] \in [at : SC!Points, of : 0..MaxVersions]
        BY DEF CopyInv, SC!TypeOK, SC!Points
    <3>2. part' \in [SC!Parts -> [at : SC!Points, of : 0..MaxVersions]]
        BY <2>1, <3>1 DEF CopyInv, SC!TypeOK
    <3> QED
        BY <3>2 DEF CopyInv, SC!TypeOK, SC!CopyPart, SC!choiceVars, SC!asyncVars
  <2>2. CASE part' = [part EXCEPT ![p].at = "broken"]
    <3>1. part' \in [SC!Parts -> [at : SC!Points, of : 0..MaxVersions]]
        BY <1>1, <1>2, <2>2, CopyMoves
    <3> QED
        BY <3>1 DEF CopyInv, SC!TypeOK, SC!CopyPart, SC!choiceVars, SC!asyncVars
  <2> QED
      BY <2>1, <2>2 DEF SC!CopyPart
<1>4. StrategyKnown'
    BY DEF CopyInv, StrategyKnown, SC!Relays, SC!CopyPart, SC!choiceVars, SC!asyncVars
<1>5. PartsKnown'
  <2>1. strategy = "serverParts" /\ place \in {"collecting", "reporting", "draining"}
      BY DEF CopyInv, PartsKnown, SC!CopyPart
  <2>2. place' = place /\ found' = found /\ SC!choiceVars' = SC!choiceVars /\ source # SC!Hole
      BY <2>1 DEF CopyInv, SourceKnown, SC!CopyPart
  <2>3. \A q \in SC!Parts : q # p => part'[q] = part[q]
      BY DEF CopyInv, SC!TypeOK, SC!CopyPart
  <2>4. part'[p].at # "passed" /\ (part'[p].at \in {"sent", "taken"} => Right(part'[p].of))
    <3>1. CASE SC!Matching /\ part' = [part EXCEPT ![p] = [at |-> "sent", of |-> source]]
      <4>1. part'[p] = [at |-> "sent", of |-> source]
          BY <3>1 DEF CopyInv, SC!TypeOK
      <4> QED
          BY <2>2, <3>1, <4>1 DEF SC!Matching, Right
    <3>2. CASE part' = [part EXCEPT ![p].at = "broken"]
      <4>1. \A q \in SC!Parts : part'[q].of = part[q].of /\ part'[q].at = IF q = p THEN "broken" ELSE part[q].at
          BY <1>1, <1>2, <3>2, CopyMoves
      <4> QED
          BY <4>1
    <3> QED
        BY <3>1, <3>2 DEF SC!CopyPart
  <2> QED
      BY <2>1, <2>2, <2>3, <2>4 DEF CopyInv, PartsKnown, Right, SC!Relays, SC!choiceVars
<1>6. SourceKnown'
    BY DEF CopyInv, SourceKnown, SC!Relays, SC!CopyPart, SC!asyncVars
<1>7. CommitKnown'
    BY DEF CopyInv, CommitKnown, SC!CopyPart
<1>8. SC!CopiedWhole'
    BY DEF CopyInv, SC!CopiedWhole, SC!CopyPart, SC!choiceVars
<1> QED
    BY <1>3, <1>4, <1>5, <1>6, <1>7, <1>8 DEF CopyInv

LEMMA CopyNext ==
    ASSUME SC!CopyConstants, CopyInv, [SC!Next]_(SC!vars) PROVE CopyInv'
<1>1. CASE SC!EditSource \/ SC!Meddle \/ SC!ServiceCopies \/ \E status \in {"running", "paused", "cancelled"} : SC!Signal(status)
    BY <1>1, EditSourceKeeps, MeddleKeeps, ServiceCopiesKeeps, SignalKeeps
<1>2. CASE SC!Ask \/ SC!Check \/ SC!Begin \/ SC!Copy \/ SC!Create \/ SC!Collect \/ SC!Report \/ SC!Drain
    BY <1>2, CopyAskKeeps, CheckKeeps, BeginKeeps, CopyKeeps, CreateKeeps, CollectKeeps,
       ReportKeeps, CopyDrainKeeps
<1>3. CASE SC!OpenBody \/ SC!Put \/ SC!Relay \/ SC!Complete \/ SC!Abort \/ SC!Submit \/ SC!Poll
    BY <1>3, OpenBodyKeeps, PutKeeps, RelayKeeps, CompleteKeeps, AbortKeeps, SubmitKeeps, PollKeeps
<1>4. CASE SC!Verify \/ SC!Publish \/ SC!Leave \/ SC!Remove \/ \E p \in SC!Parts : SC!Pass(p) \/ SC!CopyPart(p)
    BY <1>4, VerifyKeeps, PublishKeeps, LeaveKeeps, RemoveKeeps, PassKeeps, CopyPartKeeps
<1>5. CASE UNCHANGED SC!vars
    BY <1>5 DEF CopyInv, SC!TypeOK, StrategyKnown, PartsKnown, SourceKnown, CommitKnown,
       SC!CopiedWhole, Right, SC!AllTaken, SC!Whole, SC!vars, SC!choiceVars, SC!asyncVars
<1> QED
    BY <1>1, <1>2, <1>3, <1>4, <1>5 DEF SC!Next

LEMMA CopyHolds == ASSUME SC!CopyConstants PROVE SC!Spec => []CopyInv
<1>1. SC!Init => CopyInv
    BY CopyInit
<1>2. CopyInv /\ [SC!Next]_(SC!vars) => CopyInv'
    BY CopyNext
<1> QED
    BY <1>1, <1>2, PTL DEF SC!Spec

-----------------------------------------------------------------------------
(* What holds of every copy                                                *)

\* The engine's copies keep the invariant.
LEMMA EngineCopies == EngineSpec => []CopyInv /\ [][SC!Next]_(SC!vars)
<1>1. EngineInit => SC!Init
    BY DEF EngineInit
<1>2. [EngineNext]_EngineVars => [SC!Next]_(SC!vars)
    BY DEF EngineNext, EngineVars, copyVars, SC!vars, SC!choiceVars, SC!asyncVars
<1>3. SC!CopyConstants
    BY EngineAssumption
<1> QED
    BY <1>1, <1>2, <1>3, CopyHolds, PTL DEF EngineSpec, SC!Spec

\* Whatever strategy _storage_copy_impl takes, and whatever is edited, refused or lost on
\* the way: an object that it has written has all its bytes, of one version or of the one
\* that HEAD saw.
THEOREM WrittenIsWhole == EngineSpec => []CopiedWhole
<1>1. CopyInv => CopiedWhole
    BY DEF CopyInv, CopiedWhole
<1> QED
    BY <1>1, EngineCopies, PTL

\* Under skip and fail an object of others is never replaced: only relays copy so, and
\* what they write is refused where an object has appeared.
THEOREM CopySpares == EngineSpec => SkipNeverReplaces
<1>1. ASSUME CopyInv, SC!Next, SC!NoClobber, dest' # dest, dest'.by = "copy" PROVE dest.by = "nobody"
  <2>1. strategy \in SC!Relays /\ copying = "none" /\ place \notin {"copying", "submitting"}
      BY <1>1 DEF CopyInv, StrategyKnown, SC!NoClobber, SC!Relays
  <2>2. CASE SC!ServiceCopies \/ SC!Copy \/ SC!Submit
      BY <2>1, <2>2 DEF SC!ServiceCopies, SC!Copy, SC!Submit
  <2>3. CASE SC!Put \/ SC!Complete
      BY <1>1, <2>3 DEF SC!Put, SC!Complete, SC!Free
  <2>4. CASE SC!Meddle
      BY <1>1, <2>4 DEF SC!Meddle, SC!Foreign
  <2>5. ASSUME \/ SC!EditSource \/ \E status \in {"running", "paused", "cancelled"} : SC!Signal(status)
               \/ SC!Ask \/ SC!Check \/ SC!Begin \/ SC!Create \/ SC!Collect \/ SC!Report \/ SC!Drain
               \/ \E p \in SC!Parts : SC!Pass(p) \/ SC!CopyPart(p)
               \/ SC!OpenBody \/ SC!Relay \/ SC!Abort \/ SC!Poll \/ SC!Verify \/ SC!Publish \/ SC!Leave \/ SC!Remove
        PROVE  dest' = dest
      BY <2>5 DEF SC!EditSource, SC!Signal, SC!Ask, SC!Check, SC!Begin, SC!Create, SC!Collect,
         SC!Report, SC!Drain, SC!Pass, SC!CopyPart, SC!OpenBody, SC!Relay, SC!Abort, SC!Poll,
         SC!Verify, SC!Publish, SC!Leave, SC!Remove
  <2> QED
      BY <1>1, <2>2, <2>3, <2>4, <2>5 DEF SC!Next
<1>2. CopyInv /\ [SC!Next]_(SC!vars) => [SC!NoClobber /\ dest' # dest /\ dest'.by = "copy" => dest.by = "nobody"]_(SC!vars)
    BY <1>1
<1> QED
    BY <1>2, EngineCopies, PTL DEF SkipNeverReplaces, SC!SkipNeverReplaces

-----------------------------------------------------------------------------
(* Deletions                                                               *)

\* The operators of the two instances are the same ones.
LEMMA SameSets == \A S : DA!Min(S) = DAP!Min(S) /\ DA!Cardinality(S) = DAP!Cardinality(S)
BY DEF DA!Min, DAP!Min, DA!Cardinality, DAP!Cardinality

\* So are what they count and choose.
LEMMA SamePool ==
    /\ DA!Submitted = DAP!Submitted /\ DA!InBatches = DAP!InBatches /\ DA!Failed = DAP!Failed
    /\ \A b : DA!At(b) = DAP!At(b)
    /\ DA!Cardinality(DA!Busy) = DAP!Cardinality(DAP!Busy)
BY SameSets DEF DA!Submitted, DAP!Submitted, DA!InBatches, DAP!InBatches, DA!Failed, DAP!Failed,
   DA!At, DAP!At, DA!Busy, DAP!Busy, DA!Batches, DAP!Batches

\* The engine implements a deletion.
LEMMA EngineDeletes == EngineSpec => DAP!Spec
<1>1. EngineInit => DA!Init
    BY DEF EngineInit
<1>2. [EngineNext]_EngineVars => [DA!Next]_(DA!vars)
    BY DEF EngineNext, EngineVars, deleteVars, DA!vars, DA!providerVars, DA!fixedVars, DA!listVars
<1>3. DA!Init => DAP!Init
    BY DEF DA!Init, DAP!Init, DA!Entries, DAP!Entries, DA!Batches, DAP!Batches, DA!Waiting,
       DAP!Waiting
<1>4. [DA!Next]_(DA!vars) => [DAP!Next]_(DAP!vars)
  <2>1. ASSUME NEW e \in DA!Entries, DA!Rewrite(e) PROVE DAP!Next
      BY <2>1 DEF DA!Rewrite, DAP!Rewrite, DA!fixedVars, DAP!fixedVars, DA!listVars, DAP!listVars,
         DA!Entries, DAP!Entries, DAP!Next
  <2>2. ASSUME DA!EnableVersioning PROVE DAP!Next
      BY <2>2 DEF DA!EnableVersioning, DAP!EnableVersioning, DA!fixedVars, DAP!fixedVars,
         DA!listVars, DAP!listVars, DAP!Next
  <2>3. ASSUME DA!Probe PROVE DAP!Next
      BY <2>3 DEF DA!Probe, DAP!Probe, DA!providerVars, DAP!providerVars, DA!fixedVars,
         DAP!fixedVars, DAP!Next
  <2>4. ASSUME DA!List PROVE DAP!Next
      BY <2>4, SameSets, SamePool DEF DA!List, DAP!List, DA!providerVars, DAP!providerVars,
         DA!Submit, DAP!Submit, DA!fixedVars, DAP!fixedVars, DA!Batches, DAP!Batches, DAP!Next
  <2>5. ASSUME DA!WaitOldest PROVE DAP!Next
      BY <2>5 DEF DA!WaitOldest, DAP!WaitOldest, DA!providerVars, DAP!providerVars, DA!fixedVars,
         DAP!fixedVars, DAP!Next
  <2>6. ASSUME DA!ListEnds PROVE DAP!Next
      BY <2>6, SameSets, SamePool DEF DA!ListEnds, DAP!ListEnds, DA!providerVars, DAP!providerVars,
         DA!Submit, DAP!Submit, DA!fixedVars, DAP!fixedVars, DA!Batches, DAP!Batches, DAP!Next
  <2>7. ASSUME DA!ListFails PROVE DAP!Next
      BY <2>7 DEF DA!ListFails, DAP!ListFails, DA!providerVars, DAP!providerVars, DA!fixedVars,
         DAP!fixedVars, DAP!Next
  <2>8. ASSUME DA!Join PROVE DAP!Next
      BY <2>8, SameSets, SamePool DEF DA!Join, DAP!Join, DA!providerVars, DAP!providerVars,
         DA!fixedVars, DAP!fixedVars, DA!Batches, DAP!Batches, DAP!Next
  <2>9. ASSUME NEW b \in DA!Batches, DA!Begin(b) PROVE DAP!Next
      BY <2>9, SameSets, SamePool DEF DA!Begin, DAP!Begin, DA!Batches, DAP!Batches, DA!providerVars,
         DAP!providerVars, DA!listVars, DAP!listVars, DA!Waiting, DAP!Waiting, DA!fixedVars,
         DAP!fixedVars, DAP!PoolStep, DAP!Next
  <2>10. ASSUME NEW b \in DA!Batches, DA!Bulk(b) PROVE DAP!Next
      BY <2>10 DEF DA!Bulk, DAP!Bulk, DA!fixedVars, DAP!fixedVars, DA!listVars, DAP!listVars,
         DA!Delete, DAP!Delete, DA!AfterBulk, DAP!AfterBulk, DA!Named, DAP!Named, DA!Entries,
         DAP!Entries, DA!Batches, DAP!Batches, DAP!PoolStep, DAP!Next
  <2>11. ASSUME NEW b \in DA!Batches, DA!BulkRaises(b) PROVE DAP!Next
      BY <2>11 DEF DA!BulkRaises, DAP!BulkRaises, DA!fixedVars, DAP!fixedVars, DA!listVars,
         DAP!listVars, DA!Delete, DAP!Delete, DA!AfterBulk, DAP!AfterBulk, DA!Entries, DAP!Entries,
         DA!Batches, DAP!Batches, DAP!PoolStep, DAP!Next
  <2>12. ASSUME NEW b \in DA!Batches, DA!Single(b) PROVE DAP!Next
      BY <2>12, SameSets, SamePool DEF DA!Single, DAP!Single, DA!fixedVars, DAP!fixedVars,
         DA!listVars, DAP!listVars, DA!Eligible, DAP!Eligible, DA!Delete, DAP!Delete, DA!Try,
         DAP!Try, DA!Go, DAP!Go, DA!Settle, DAP!Settle, DA!Again, DAP!Again, DA!Entries,
         DAP!Entries, DA!Batches, DAP!Batches, DAP!PoolStep, DAP!Next
  <2>13. ASSUME NEW b \in DA!Batches, DA!Recheck(b) PROVE DAP!Next
      BY <2>13, SameSets, SamePool DEF DA!Recheck, DAP!Recheck, DA!providerVars, DAP!providerVars,
         DA!listVars, DAP!listVars, DA!Go, DAP!Go, DA!Settle, DAP!Settle, DA!fixedVars,
         DAP!fixedVars, DA!Batches, DAP!Batches, DAP!PoolStep, DAP!Next
  <2>14. ASSUME NEW b \in DA!Batches, DA!Empty(b) PROVE DAP!Next
      BY <2>14, SameSets, SamePool DEF DA!Empty, DAP!Empty, DA!fixedVars, DAP!fixedVars,
         DA!listVars, DAP!listVars, DA!Matches, DAP!Matches, DA!PutEmpty, DAP!PutEmpty, DA!Go,
         DAP!Go, DA!Settle, DAP!Settle, DA!Batches, DAP!Batches, DAP!PoolStep, DAP!Next
  <2>15. ASSUME NEW b \in DA!Batches, DA!Final(b) PROVE DAP!Next
      BY <2>15, SameSets, SamePool DEF DA!Final, DAP!Final, DA!fixedVars, DAP!fixedVars,
         DA!listVars, DAP!listVars, DA!Delete, DAP!Delete, DA!Try, DAP!Try, DA!Settle, DAP!Settle,
         DA!Again, DAP!Again, DA!Entries, DAP!Entries, DA!Batches, DAP!Batches, DAP!PoolStep,
         DAP!Next
  <2> QED
      BY <2>1, <2>2, <2>3, <2>4, <2>5, <2>6, <2>7, <2>8, <2>9, <2>10, <2>11, <2>12, <2>13, <2>14,
         <2>15 DEF DA!Next, DA!PoolStep, DA!vars, DAP!vars, DA!providerVars, DAP!providerVars,
         DA!listVars, DAP!listVars, DA!fixedVars, DAP!fixedVars
<1> QED
    BY <1>1, <1>2, <1>3, <1>4, PTL DEF EngineSpec, DAP!Spec

\* The constants of the engine are those of a deletion.
LEMMA DeleteBounds == DAP!DeleteConstants
BY EngineAssumption DEF DAP!DeleteConstants, DA!DeleteConstants

\* Exit code 0 of delete-all means that every entry it found is deleted, hidden, or was
\* written anew by another client.
THEOREM DeleteSucceeds == EngineSpec => []SuccessMeansGone
<1>1. DAP!Spec => []DAP!SuccessMeansGone
    BY DeleteBounds, DAP!Gone
<1>2. DAP!SuccessMeansGone => SuccessMeansGone
    BY DEF SuccessMeansGone, DA!SuccessMeansGone, DA!Entries, DAP!SuccessMeansGone, DAP!Entries
<1> QED
    BY <1>1, <1>2, EngineDeletes, PTL

\* The empty PUT of delete-all only replaces the object that was listed, where the listing
\* gave its ETag.
THEOREM DeleteSpares == EngineSpec => ResetSparesOthers
<1>1. DAP!Spec => DAP!ResetSparesOthers
    BY DeleteBounds, DAP!PutSpares
<1>2. [\A e \in DAP!Entries : cell'[e] = "empty" /\ cell[e] # "empty" /\ tagged => cell[e] = "listed"]_(DAP!vars)
          => [\A e \in DA!Entries : cell'[e] = "empty" /\ cell[e] # "empty" /\ tagged => cell[e] = "listed"]_(DA!vars)
    BY DEF DA!Entries, DAP!Entries, DA!vars, DAP!vars, DA!providerVars, DAP!providerVars,
       DA!listVars, DAP!listVars, DA!fixedVars, DAP!fixedVars
<1> QED
    BY <1>1, <1>2, EngineDeletes, PTL DEF ResetSparesOthers, DA!ResetSparesOthers,
       DAP!ResetSparesOthers

-----------------------------------------------------------------------------
(* Histories: the inductive invariant                                      *)
(*                                                                         *)
(* An entry is written once because its request is only sent by the step   *)
(* that has announced it (Flight), and because a request that may still be *)
(* carried out has not been (Outstanding).  That a late or named version   *)
(* comes after those of its key that are mapped rests on the look at the   *)
(* destination before the announcement (Newer).                            *)

Written(e) == \E v \in 1..Len(versions) : versions[v].entry = e
Begun(e) == e \in 1..manifest.done \/ e = manifest.inFlight

\* What the replay has written is of the entries it has begun, each written once.
Own ==
    /\ \A v \in 1..Len(versions) : versions[v].entry # HC!NoEntry =>
          versions[v] = HC!OwnVersion(versions[v].entry) /\ Begun(versions[v].entry)
    /\ \A u, v \in 1..Len(versions) : versions[u].entry = versions[v].entry /\ versions[u].entry # HC!NoEntry => u = v

\* A request that may still be carried out has not been; content stays in flight.
Outstanding == \A e \in late : Begun(e) /\ ~Written(e) /\ (~MarkerAt[e] => manifest.inFlight = e)

\* The manifest's versions, and content that has been written and is not among them.
Mapping ==
    /\ Len(manifest.maps) = manifest.done
    /\ \A e \in 1..manifest.done :
          /\ manifest.maps[e] \in 1..Len(versions)
          /\ LET v == versions[manifest.maps[e]]
             IN  /\ v.key = KeyAt[e] /\ v.marker = MarkerAt[e]
                 /\ ~v.marker => v.entry = e
                 /\ \A f \in 1..(e - 1) : KeyAt[f] = KeyAt[e] => manifest.maps[f] < manifest.maps[e]
    /\ \A v \in 1..Len(versions) :
          versions[v].entry # HC!NoEntry /\ ~versions[v].marker /\ v \notin HC!Mapped =>
              manifest.inFlight = versions[v].entry
    /\ manifest.status = "completed" => manifest.done = EntryTotal

\* The entry in flight is the next one, and the request that sends it holds the lock.
Flight ==
    /\ manifest.inFlight \in {HC!NoEntry, HC!Next1}
    /\ step \in {"walking", "announcing"} => manifest.inFlight = HC!NoEntry
    /\ step \in {"sending", "uncertain", "recording"} => manifest.inFlight = HC!Next1
    /\ step = "announcing" => HC!Next1 \in HC!Plan
    /\ step = "sending" => ~Written(HC!Next1) /\ HC!Next1 \notin late
    /\ step \in {"announcing", "sending", "uncertain", "recording"} => left > 0
    /\ step = "recording" => /\ made \in 1..Len(versions) /\ versions[made] = HC!OwnVersion(HC!Next1)
                             /\ \A f \in 1..manifest.done : manifest.maps[f] < made

\* From the look at the destination until the entry is recorded, versions of its key
\* that are not mapped are newer than all that are.
Newer ==
    step = "announcing" \/ manifest.inFlight # HC!NoEntry =>
        \A v \in HC!OfKey(KeyAt[HC!Next1]) \ HC!Mapped : \A f \in 1..manifest.done : manifest.maps[f] < v

HistoryInv == HC!TypeOK /\ Own /\ Outstanding /\ Mapping /\ Flight /\ Newer

-----------------------------------------------------------------------------
(* Histories: the manifest and the versions                                *)

\* A manifest of which at most the status changes, and versions that stay.
LEMMA Kept ==
    ASSUME HistoryInv, UNCHANGED <<versions, late>>, NEW s \in {"planned", "running", "outcomeUnknown", "completed"},
           manifest' = [manifest EXCEPT !.status = s], s = "completed" => manifest.done = EntryTotal
    PROVE  /\ manifest' \in HC!Manifests /\ manifest'.inFlight = manifest.inFlight
           /\ manifest'.done = manifest.done /\ manifest'.maps = manifest.maps
           /\ HC!Next1' = HC!Next1 /\ HC!Mapped' = HC!Mapped /\ HC!OfKey(KeyAt[HC!Next1])' = HC!OfKey(KeyAt[HC!Next1])
           /\ Own' /\ Outstanding' /\ Mapping'
<1>1. /\ manifest' \in HC!Manifests /\ manifest'.inFlight = manifest.inFlight /\ manifest'.status = s
      /\ manifest'.done = manifest.done /\ manifest'.maps = manifest.maps
    BY DEF HistoryInv, HC!TypeOK, HC!Manifests
<1>2. HC!Next1' = HC!Next1 /\ HC!Mapped' = HC!Mapped
    BY <1>1 DEF HC!Next1, HC!Mapped
<1>3. HC!OfKey(KeyAt[HC!Next1])' = HC!OfKey(KeyAt[HC!Next1])
    BY <1>2 DEF HC!OfKey
<1>4. Own'
    BY <1>1 DEF HistoryInv, Own, Begun, HC!OwnVersion, HC!Version
<1>5. Outstanding'
    BY <1>1 DEF HistoryInv, Outstanding, Begun, Written
<1>6. Mapping'
    BY <1>1, <1>2 DEF HistoryInv, Mapping
<1> QED
    BY <1>1, <1>2, <1>3, <1>4, <1>5, <1>6

\* What is mapped is there, and older than any version that comes.
LEMMA MappedThere ==
    ASSUME HistoryInv
    PROVE  /\ manifest \in HC!Manifests /\ Len(manifest.maps) = manifest.done /\ Len(versions) \in Nat
           /\ \A f \in 1..manifest.done : manifest.maps[f] \in 1..Len(versions)
           /\ HC!Mapped \subseteq 1..Len(versions) /\ manifest.done \in Nat /\ HC!Next1 \in Nat \ {0}
           /\ HC!Next1 \notin 1..manifest.done
BY DEF HistoryInv, HC!TypeOK, HC!Manifests, Mapping, HC!Mapped, HC!Next1

\* A version comes: a foreign one, or that of an entry that has none yet.
LEMMA Appended ==
    ASSUME HC!HistoryConstants, HistoryInv, UNCHANGED manifest, NEW x \in HC!Versions, versions' = Append(versions, x),
           x.entry # HC!NoEntry =>
               /\ x = HC!OwnVersion(x.entry) /\ Begun(x.entry) /\ ~Written(x.entry)
               /\ ~x.marker => manifest.inFlight = x.entry,
           late' \subseteq late \ {x.entry}, step' = "announcing" => step = "announcing"
    PROVE  /\ versions' \in Seq(HC!Versions) /\ Len(versions') = Len(versions) + 1
           /\ \A v \in 1..Len(versions) : versions'[v] = versions[v]
           /\ versions'[Len(versions) + 1] = x
           /\ Own' /\ Outstanding' /\ Mapping' /\ Newer'
<1> DEFINE n == Len(versions)
<1>1. /\ versions' \in Seq(HC!Versions) /\ Len(versions') = n + 1 /\ n \in Nat
      /\ \A v \in 1..n : versions'[v] = versions[v]
      /\ versions'[n + 1] = x
    BY DEF HistoryInv, HC!TypeOK
<1>2. \A v \in 1..Len(versions') : v \in 1..n \/ v = n + 1
    BY <1>1
<1>3. \A e : Begun(e)' <=> Begun(e)
    BY DEF Begun
<1>4. \A e : Written(e)' => Written(e) \/ e = x.entry
    BY <1>1, <1>2 DEF Written
<1>5. Own'
  <2>1. \A v \in 1..Len(versions') : versions'[v].entry # HC!NoEntry =>
            versions'[v] = HC!OwnVersion(versions'[v].entry) /\ Begun(versions'[v].entry)
      BY <1>1, <1>2 DEF HistoryInv, Own
  <2>2. ASSUME NEW u \in 1..Len(versions'), NEW v \in 1..Len(versions'),
               versions'[u].entry = versions'[v].entry, versions'[u].entry # HC!NoEntry
        PROVE  u = v
    <3>1. CASE u \in 1..n /\ v \in 1..n
        BY <1>1, <2>2, <3>1 DEF HistoryInv, Own
    <3>2. ASSUME NEW w \in 1..n, versions[w].entry = x.entry, x.entry # HC!NoEntry PROVE FALSE
        BY <3>2 DEF Written
    <3> QED
        BY <1>1, <1>2, <2>2, <3>1, <3>2
  <2> QED
      BY <1>3, <2>1, <2>2 DEF Own, HC!OwnVersion, HC!Version
<1>6. Outstanding'
    BY <1>3, <1>4 DEF HistoryInv, Outstanding
<1>7. HC!Mapped' = HC!Mapped /\ HC!Next1' = HC!Next1
    BY DEF HC!Mapped, HC!Next1
<1>8. Mapping'
  <2>1. \A f \in 1..manifest.done : manifest.maps[f] \in 1..n
      BY MappedThere
  <2>2. \A v \in 1..Len(versions') :
            versions'[v].entry # HC!NoEntry /\ ~versions'[v].marker /\ v \notin HC!Mapped =>
                manifest.inFlight = versions'[v].entry
      BY <1>1, <1>2 DEF HistoryInv, Mapping
  <2>3. \A f \in 1..manifest.done : versions'[manifest.maps[f]] = versions[manifest.maps[f]]
      BY <1>1, <2>1
  <2>4. \A f \in 1..manifest.done : manifest.maps[f] \in 1..Len(versions')
      BY <1>1, <2>1
  <2> QED
      BY <1>7, <2>2, <2>3, <2>4 DEF HistoryInv, Mapping
<1>9. Newer'
  <2> SUFFICES ASSUME step' = "announcing" \/ manifest.inFlight # HC!NoEntry, NEW v \in 1..Len(versions'),
                      versions'[v].key = KeyAt[HC!Next1], v \notin HC!Mapped, NEW f \in 1..manifest.done
               PROVE  manifest.maps[f] < v
      BY <1>7 DEF Newer, HC!OfKey
  <2>1. manifest.maps[f] \in 1..n
      BY MappedThere
  <2>2. CASE v \in 1..n
      BY <1>1, <2>2 DEF HistoryInv, Newer, HC!OfKey
  <2>3. CASE v = n + 1
      BY <1>1, <2>1, <2>3
  <2> QED
      BY <1>2, <2>2, <2>3
<1> QED
    BY <1>1, <1>5, <1>6, <1>8, <1>9

\* One more entry is done, with a version that nothing maps, of the entry's key and kind,
\* newer than those of its key that are mapped.
LEMMA FinishedKeeps ==
    ASSUME HC!HistoryConstants, HistoryInv, UNCHANGED <<versions, late>>, manifest.inFlight = HC!Next1,
           NEW v \in 1..Len(versions), v \notin HC!Mapped,
           versions[v].key = KeyAt[HC!Next1], versions[v].marker = MarkerAt[HC!Next1],
           ~versions[v].marker => versions[v].entry = HC!Next1,
           \A f \in 1..manifest.done : KeyAt[f] = KeyAt[HC!Next1] => manifest.maps[f] < v,
           NEW s \in {"running", "outcomeUnknown"},
           manifest' = [status |-> s, done |-> HC!Next1, inFlight |-> HC!NoEntry, maps |-> Append(manifest.maps, v)]
    PROVE  manifest' \in HC!Manifests /\ Own' /\ Outstanding' /\ Mapping'
<1>1. /\ manifest \in HC!Manifests /\ Len(manifest.maps) = manifest.done /\ HC!Mapped \subseteq 1..Len(versions)
      /\ manifest.done \in Nat /\ HC!Next1 = manifest.done + 1 /\ HC!Next1 \in HC!Plan
      /\ \A f \in 1..manifest.done : manifest.maps[f] \in 1..Len(versions)
    BY MappedThere DEF HC!Manifests, HC!Plan, HC!NoEntry, HC!Next1
<1>2. /\ manifest'.status = s /\ manifest'.done = HC!Next1 /\ manifest'.inFlight = HC!NoEntry
      /\ manifest'.maps = Append(manifest.maps, v)
    OBVIOUS
<1>3. /\ manifest.maps \in Seq(Nat) /\ v \in Nat
      /\ Len(manifest'.maps) = HC!Next1 /\ manifest'.maps[HC!Next1] = v
      /\ \A f \in 1..manifest.done : manifest'.maps[f] = manifest.maps[f]
    BY <1>1, <1>2 DEF HC!Manifests
<1>4. manifest' \in HC!Manifests
  <2>1. HC!Next1 \in 0..EntryTotal /\ Append(manifest.maps, v) \in Seq(Nat)
      BY <1>1, <1>3 DEF HC!HistoryConstants, HC!Plan
  <2> QED
      BY <2>1 DEF HC!Manifests
<1>5. \A f \in 1..HC!Next1 : f \in 1..manifest.done \/ f = HC!Next1
    BY <1>1
<1>6. \A e : e # HC!NoEntry /\ Begun(e) => e \in 1..manifest'.done
    BY <1>1, <1>2 DEF Begun
<1>7. Own'
    BY <1>6 DEF HistoryInv, Own, Begun, HC!OwnVersion, HC!Version
<1>8. Outstanding'
  <2> SUFFICES ASSUME NEW e \in late PROVE Begun(e)' /\ ~Written(e) /\ MarkerAt[e]
      BY DEF Outstanding, Written
  <2>1. e # HC!NoEntry /\ Begun(e) /\ ~Written(e) /\ (~MarkerAt[e] => HC!Next1 = e)
      BY DEF HC!HistoryConstants, HistoryInv, HC!TypeOK, Outstanding, HC!Plan, HC!NoEntry
  <2>2. MarkerAt[e]
      BY <2>1 DEF Written
  <2> QED
      BY <1>6, <2>1, <2>2 DEF Begun
<1>9. \A u : u \in HC!Mapped' <=> u \in HC!Mapped \/ u = v
  <2>1. HC!Mapped' = {manifest'.maps[i] : i \in 1..HC!Next1}
      BY <1>3 DEF HC!Mapped
  <2>2. HC!Mapped = {manifest.maps[i] : i \in 1..manifest.done}
      BY <1>1 DEF HC!Mapped
  <2>3. HC!Next1 \in 1..HC!Next1 /\ \A i \in 1..manifest.done : i \in 1..HC!Next1
      BY <1>1
  <2>4. ASSUME NEW u, u \in HC!Mapped' PROVE u \in HC!Mapped \/ u = v
    <3>1. PICK i \in 1..HC!Next1 : u = manifest'.maps[i]
        BY <2>1, <2>4
    <3> QED
        BY <1>3, <1>5, <2>2, <3>1
  <2>5. ASSUME NEW u, u \in HC!Mapped PROVE u \in HC!Mapped'
    <3>1. PICK i \in 1..manifest.done : u = manifest.maps[i]
        BY <2>2, <2>5
    <3>2. u = manifest'.maps[i] /\ i \in 1..HC!Next1
        BY <1>3, <2>3, <3>1
    <3> QED
        BY <2>1, <3>2
  <2>6. v \in HC!Mapped'
      BY <1>3, <2>1, <2>3
  <2> QED
      BY <2>4, <2>5, <2>6
<1>10. Mapping'
  <2>1. \A e \in 1..manifest'.done :
            /\ manifest'.maps[e] \in 1..Len(versions)
            /\ versions[manifest'.maps[e]].key = KeyAt[e] /\ versions[manifest'.maps[e]].marker = MarkerAt[e]
            /\ ~versions[manifest'.maps[e]].marker => versions[manifest'.maps[e]].entry = e
    <3>1. \A e \in 1..manifest.done :
              /\ manifest.maps[e] \in 1..Len(versions)
              /\ versions[manifest.maps[e]].key = KeyAt[e] /\ versions[manifest.maps[e]].marker = MarkerAt[e]
              /\ ~versions[manifest.maps[e]].marker => versions[manifest.maps[e]].entry = e
        BY DEF HistoryInv, Mapping
    <3> SUFFICES ASSUME NEW e \in 1..HC!Next1
                 PROVE  /\ manifest'.maps[e] \in 1..Len(versions)
                        /\ versions[manifest'.maps[e]].key = KeyAt[e]
                        /\ versions[manifest'.maps[e]].marker = MarkerAt[e]
                        /\ ~versions[manifest'.maps[e]].marker => versions[manifest'.maps[e]].entry = e
        BY <1>2
    <3>2. CASE e \in 1..manifest.done
        BY <1>3, <3>1, <3>2
    <3>3. CASE e = HC!Next1
        BY <1>3, <3>3
    <3> QED
        BY <1>5, <3>2, <3>3
  <2>2. \A e \in 1..manifest'.done : \A f \in 1..(e - 1) :
            KeyAt[f] = KeyAt[e] => manifest'.maps[f] < manifest'.maps[e]
    <3> SUFFICES ASSUME NEW e \in 1..HC!Next1, NEW f \in 1..(e - 1), KeyAt[f] = KeyAt[e]
                 PROVE  manifest'.maps[f] < manifest'.maps[e]
        BY <1>2
    <3>1. f \in 1..manifest.done
        BY <1>1
    <3>2. CASE e \in 1..manifest.done
        BY <1>3, <3>1, <3>2 DEF HistoryInv, Mapping
    <3> QED
        BY <1>3, <1>5, <3>1, <3>2
  <2>3. ASSUME NEW u \in 1..Len(versions), versions[u].entry # HC!NoEntry, ~versions[u].marker, u \notin HC!Mapped'
        PROVE  FALSE
    <3>1. u \notin HC!Mapped /\ u # v
        BY <1>9, <2>3
    <3>2. versions[u].entry = HC!Next1
        BY <2>3, <3>1 DEF HistoryInv, Mapping
    <3>3. versions[u] = HC!OwnVersion(HC!Next1)
        BY <2>3, <3>2 DEF HistoryInv, Own
    <3>4. ~MarkerAt[HC!Next1]
        BY <2>3, <3>3 DEF HC!OwnVersion, HC!Version
    <3>5. versions[v].entry = HC!Next1
        BY <3>4
    <3> QED
        BY <2>3, <3>1, <3>2, <3>5 DEF HistoryInv, Own
  <2>4. Len(manifest'.maps) = manifest'.done /\ manifest'.status # "completed"
      BY <1>2, <1>3
  <2> QED
      BY <2>1, <2>2, <2>3, <2>4 DEF Mapping
<1> QED
    BY <1>4, <1>7, <1>8, <1>10

-----------------------------------------------------------------------------
(* Histories: the initial states                                           *)

LEMMA HistoryInit == ASSUME HC!HistoryConstants, HC!Init PROVE HistoryInv
<1>1. HC!TypeOK
  <2>1. <<>> \in Seq(Nat) /\ <<>> \in Seq(HC!Versions) /\ Len(versions) = 0
      BY DEF HC!Init
  <2>2. manifest \in HC!Manifests
      BY <2>1 DEF HC!HistoryConstants, HC!Init, HC!Manifests
  <2>3. left \in 0..EntryTotal /\ made \in 0..Len(versions) /\ kills \in 0..MaxKills
      BY <2>1 DEF HC!HistoryConstants, HC!Init
  <2> QED
      BY <2>1, <2>2, <2>3 DEF HC!Init, HC!TypeOK
<1>2. Own /\ Outstanding /\ Mapping
    BY DEF HC!Init, Own, Outstanding, Mapping
<1>3. Flight /\ Newer
    BY DEF HC!Init, Flight, Newer, HC!OfKey
<1> QED
    BY <1>1, <1>2, <1>3 DEF HistoryInv

-----------------------------------------------------------------------------
(* Histories: the steps                                                    *)

\* Another client's version is of no entry.
LEMMA OutsideKeeps ==
    ASSUME HC!HistoryConstants, HistoryInv, NEW e \in HC!Plan, NEW marker \in BOOLEAN, HC!Outside(KeyAt[e], marker) PROVE HistoryInv'
<1> DEFINE x == HC!Version(HC!NoEntry, KeyAt[e], marker)
<1>1. x \in HC!Versions /\ x.entry = HC!NoEntry
    BY DEF HC!Versions, HC!Version
<1>2. /\ versions' = Append(versions, x)
      /\ UNCHANGED <<manifest, step, left, made, late, moved, kills>>
    BY DEF HC!Outside
<1>3. HC!NoEntry \notin late
    BY DEF HC!HistoryConstants, HistoryInv, HC!TypeOK, HC!Plan, HC!NoEntry
<1> HIDE DEF x
<1>4. /\ versions' \in Seq(HC!Versions) /\ Len(versions') = Len(versions) + 1
      /\ \A v \in 1..Len(versions) : versions'[v] = versions[v]
      /\ versions'[Len(versions) + 1] = x
      /\ Own' /\ Outstanding' /\ Mapping' /\ Newer'
  <2>1. late' \subseteq late \ {x.entry}
      BY <1>1, <1>2, <1>3
  <2> QED
      BY <1>1, <1>2, <2>1, Appended
<1>5. Len(versions) \in Nat /\ HC!Next1 \in Nat \ {0}
    BY MappedThere
<1>6. HC!TypeOK'
    BY <1>2, <1>4, <1>5 DEF HistoryInv, HC!TypeOK
<1>7. Flight'
  <2>1. HC!Next1' = HC!Next1
      BY <1>2 DEF HC!Next1
  <2>2. Written(HC!Next1)' => Written(HC!Next1)
      BY <1>1, <1>2, <1>4, <1>5, <2>1 DEF Written, HC!NoEntry
  <2>3. step = "recording" => made \in 1..Len(versions') /\ versions'[made] = versions[made]
      BY <1>4, <1>5 DEF HistoryInv, Flight
  <2>4. HC!OwnVersion(HC!Next1)' = HC!OwnVersion(HC!Next1)
      BY <2>1 DEF HC!OwnVersion, HC!Version
  <2> QED
      BY <1>2, <2>1, <2>2, <2>3, <2>4 DEF HistoryInv, Flight
<1> QED
    BY <1>4, <1>6, <1>7 DEF HistoryInv

\* A late version is that of an entry which has been begun and has none.
LEMMA CarriedOutLateKeeps ==
    ASSUME HC!HistoryConstants, HistoryInv, NEW e \in HC!Plan, HC!CarriedOutLate(e) PROVE HistoryInv'
<1> DEFINE x == HC!OwnVersion(e)
<1>1. /\ x \in HC!Versions /\ x.entry = e /\ x.marker = MarkerAt[e]
    BY DEF HC!HistoryConstants, HC!Versions, HC!OwnVersion, HC!Version, HC!Plan
<1>2. /\ e \in late /\ versions' = Append(versions, x) /\ late' = late \ {e}
      /\ UNCHANGED <<manifest, step, left, made, moved, kills>>
    BY DEF HC!CarriedOutLate
<1>3. x = HC!OwnVersion(x.entry) /\ Begun(e) /\ ~Written(e) /\ (~MarkerAt[e] => manifest.inFlight = e)
    BY <1>1, <1>2 DEF HistoryInv, Outstanding
<1> HIDE DEF x
<1>4. /\ versions' \in Seq(HC!Versions) /\ Len(versions') = Len(versions) + 1
      /\ \A v \in 1..Len(versions) : versions'[v] = versions[v]
      /\ versions'[Len(versions) + 1] = x
      /\ Own' /\ Outstanding' /\ Mapping' /\ Newer'
    BY <1>1, <1>2, <1>3, Appended
<1>5. Len(versions) \in Nat /\ HC!Next1 \in Nat \ {0}
    BY MappedThere
<1>6. HC!TypeOK'
    BY <1>2, <1>4, <1>5 DEF HistoryInv, HC!TypeOK
<1>7. Flight'
  <2>1. HC!Next1' = HC!Next1
      BY <1>2 DEF HC!Next1
  <2>2. Written(HC!Next1)' => Written(HC!Next1) \/ e = HC!Next1
      BY <1>1, <1>2, <1>4, <1>5, <2>1 DEF Written
  <2>3. step = "recording" => made \in 1..Len(versions') /\ versions'[made] = versions[made]
      BY <1>4, <1>5 DEF HistoryInv, Flight
  <2>4. HC!OwnVersion(HC!Next1)' = HC!OwnVersion(HC!Next1)
      BY <2>1 DEF HC!OwnVersion, HC!Version
  <2> QED
      BY <1>2, <2>1, <2>2, <2>3, <2>4 DEF HistoryInv, Flight
<1> QED
    BY <1>4, <1>6, <1>7 DEF HistoryInv

\* The source's history is looked at when a request begins.
LEMMA SourceMovesKeeps ==
    ASSUME HC!HistoryConstants, HistoryInv, HC!SourceMoves PROVE HistoryInv'
<1>1. HC!TypeOK'
    BY DEF HistoryInv, HC!TypeOK, HC!SourceMoves
<1>2. Own' /\ Outstanding'
    BY DEF HistoryInv, Own, Outstanding, Begun, Written, HC!OwnVersion, HC!Version, HC!SourceMoves
<1>3. Mapping'
    BY DEF HistoryInv, Mapping, HC!Mapped, HC!SourceMoves
<1>4. Flight' /\ Newer'
    BY DEF HistoryInv, Flight, Newer, HC!OfKey, HC!Mapped, HC!Next1, Written, HC!OwnVersion,
       HC!Version, HC!SourceMoves
<1> QED
    BY <1>1, <1>2, <1>3, <1>4 DEF HistoryInv

\* A request that ends, or is killed, leaves the manifest but for its status.
LEMMA GivenUp ==
    ASSUME HC!HistoryConstants, HistoryInv, HC!GiveUp, UNCHANGED <<versions, late, moved>>, kills' \in 0..MaxKills,
           NEW s \in {"planned", "running", "outcomeUnknown", "completed"},
           manifest' = [manifest EXCEPT !.status = s], s = "completed" => manifest.done = EntryTotal
    PROVE  HistoryInv'
<1>1. /\ manifest' \in HC!Manifests /\ manifest'.inFlight = manifest.inFlight
      /\ manifest'.done = manifest.done /\ manifest'.maps = manifest.maps
      /\ HC!Next1' = HC!Next1 /\ HC!Mapped' = HC!Mapped /\ HC!OfKey(KeyAt[HC!Next1])' = HC!OfKey(KeyAt[HC!Next1])
      /\ Own' /\ Outstanding' /\ Mapping'
    BY Kept
<1>2. HC!TypeOK'
    BY <1>1 DEF HC!HistoryConstants, HistoryInv, HC!TypeOK, HC!GiveUp
<1>3. Flight'
    BY <1>1 DEF HistoryInv, Flight, HC!GiveUp
<1>4. Newer'
    BY <1>1 DEF HistoryInv, Newer, HC!GiveUp
<1> QED
    BY <1>1, <1>2, <1>3, <1>4 DEF HistoryInv

\* A manifest that is what it was.
LEMMA Same ==
    ASSUME HistoryInv
    PROVE  /\ manifest = [manifest EXCEPT !.status = manifest.status]
           /\ manifest.status \in {"planned", "running", "outcomeUnknown", "completed"}
           /\ manifest.status = "completed" => manifest.done = EntryTotal
BY DEF HistoryInv, HC!TypeOK, HC!Manifests, Mapping

\* The next request finds what is on disk.
LEMMA KillKeeps ==
    ASSUME HC!HistoryConstants, HistoryInv, HC!Kill PROVE HistoryInv'
<1>1. HC!GiveUp /\ UNCHANGED <<manifest, versions, late, moved>> /\ kills' \in 0..MaxKills
    BY DEF HC!HistoryConstants, HistoryInv, HC!TypeOK, HC!Kill, HC!GiveUp
<1> QED
    BY <1>1, Same, GivenUp

\* A request only begins when nothing is in flight.
LEMMA HistoryBeginKeeps ==
    ASSUME HC!HistoryConstants, HistoryInv, NEW n \in HC!Plan, HC!Begin(n) PROVE HistoryInv'
<1>1. /\ manifest' \in HC!Manifests /\ manifest'.inFlight = manifest.inFlight
      /\ manifest'.done = manifest.done /\ manifest'.maps = manifest.maps
      /\ HC!Next1' = HC!Next1 /\ HC!Mapped' = HC!Mapped /\ HC!OfKey(KeyAt[HC!Next1])' = HC!OfKey(KeyAt[HC!Next1])
      /\ Own' /\ Outstanding' /\ Mapping'
    BY Kept DEF HC!Begin
<1>2. HC!TypeOK'
    BY <1>1 DEF HC!HistoryConstants, HistoryInv, HC!TypeOK, HC!Begin, HC!Plan
<1>3. Flight' /\ Newer'
    BY <1>1 DEF HistoryInv, Flight, Newer, HC!Begin, HC!NoEntry
<1> QED
    BY <1>1, <1>2, <1>3 DEF HistoryInv

\* An uncertain write stays as it is.
LEMMA BeginUncertainKeeps ==
    ASSUME HC!HistoryConstants, HistoryInv, HC!BeginUncertain PROVE HistoryInv'
<1>1. /\ manifest' \in HC!Manifests /\ manifest'.inFlight = manifest.inFlight
      /\ manifest'.done = manifest.done /\ manifest'.maps = manifest.maps
      /\ HC!Next1' = HC!Next1 /\ HC!Mapped' = HC!Mapped /\ HC!OfKey(KeyAt[HC!Next1])' = HC!OfKey(KeyAt[HC!Next1])
      /\ Own' /\ Outstanding' /\ Mapping'
    BY Kept DEF HC!BeginUncertain
<1>2. HC!TypeOK'
    BY <1>1 DEF HistoryInv, HC!TypeOK, HC!BeginUncertain
<1>3. Flight' /\ Newer'
    BY <1>1 DEF HistoryInv, Flight, Newer, HC!BeginUncertain
<1> QED
    BY <1>1, <1>2, <1>3 DEF HistoryInv

\* The destination has the key's mapped versions and no others when an entry is announced.
LEMMA HistoryLookKeeps ==
    ASSUME HC!HistoryConstants, HistoryInv, HC!Look PROVE HistoryInv'
<1>1. CASE HC!GiveUp /\ UNCHANGED <<manifest, versions, late, moved, kills>>
    BY <1>1, Same, GivenUp DEF HistoryInv, HC!TypeOK
<1>2. CASE HC!Undisturbed(KeyAt[HC!Next1]) /\ step' = "announcing" /\ UNCHANGED <<left, made>>
  <2>1. /\ step = "walking" /\ left > 0 /\ HC!Next1 \in HC!Plan
        /\ UNCHANGED <<manifest, versions, late, moved, kills>>
      BY DEF HC!Look
  <2>2. /\ manifest' \in HC!Manifests /\ manifest'.inFlight = manifest.inFlight
        /\ manifest'.done = manifest.done /\ manifest'.maps = manifest.maps
        /\ HC!Next1' = HC!Next1 /\ HC!Mapped' = HC!Mapped /\ HC!OfKey(KeyAt[HC!Next1])' = HC!OfKey(KeyAt[HC!Next1])
        /\ Own' /\ Outstanding' /\ Mapping'
      BY <2>1, Same, Kept
  <2>3. HC!TypeOK'
      BY <1>2, <2>1, <2>2 DEF HistoryInv, HC!TypeOK
  <2>4. Flight' /\ Newer'
      BY <1>2, <2>1, <2>2 DEF HistoryInv, Flight, Newer, HC!Undisturbed, HC!NoEntry
  <2> QED
      BY <2>2, <2>3, <2>4 DEF HistoryInv
<1> QED
    BY <1>1, <1>2 DEF HC!Look

\* An entry that is announced has no version, and no request that may still be carried out.
LEMMA AnnounceKeeps ==
    ASSUME HC!HistoryConstants, HistoryInv, HC!Announce PROVE HistoryInv'
<1>1. /\ step = "announcing" /\ manifest.inFlight = HC!NoEntry /\ HC!Next1 \in HC!Plan /\ left > 0
      /\ UNCHANGED <<versions, late, moved, kills>>
    BY DEF HistoryInv, Flight, HC!Announce
<1>2. CASE HC!GiveUp /\ UNCHANGED manifest
    BY <1>1, <1>2, Same, GivenUp DEF HistoryInv, HC!TypeOK
<1>3. CASE manifest' = HC!Announced /\ (HC!GiveUp \/ (step' = "sending" /\ UNCHANGED <<left, made>>))
  <2>1. /\ manifest' \in HC!Manifests /\ manifest'.inFlight = HC!Next1 /\ manifest'.status = "outcomeUnknown"
        /\ manifest'.done = manifest.done /\ manifest'.maps = manifest.maps
      BY <1>1, <1>3 DEF HistoryInv, HC!TypeOK, HC!Manifests, HC!Announced
  <2>2. HC!Next1' = HC!Next1 /\ HC!Mapped' = HC!Mapped /\ HC!Next1 # HC!NoEntry
      BY <1>1, <2>1, MappedThere DEF HC!Next1, HC!Mapped, HC!NoEntry
  <2>3. \A e : e # HC!NoEntry /\ Begun(e) => Begun(e)' /\ e # HC!Next1
      BY <1>1, <2>1, MappedThere DEF Begun
  <2>4. ~Written(HC!Next1) /\ HC!Next1 \notin late
      BY <2>2, <2>3 DEF HistoryInv, Own, Outstanding, Written
  <2>5. HC!TypeOK'
      BY <1>1, <1>3, <2>1 DEF HC!HistoryConstants, HistoryInv, HC!TypeOK, HC!GiveUp
  <2>6. Own'
      BY <1>1, <2>3 DEF HistoryInv, Own, HC!OwnVersion, HC!Version
  <2>7. Outstanding'
    <3> SUFFICES ASSUME NEW e \in late PROVE Begun(e)' /\ ~Written(e) /\ MarkerAt[e]
        BY <1>1 DEF Outstanding, Written
    <3>1. e # HC!NoEntry
        BY DEF HC!HistoryConstants, HistoryInv, HC!TypeOK, HC!Plan, HC!NoEntry
    <3>2. Begun(e) /\ ~Written(e) /\ (~MarkerAt[e] => manifest.inFlight = e)
        BY DEF HistoryInv, Outstanding
    <3> QED
        BY <1>1, <2>3, <3>1, <3>2
  <2>8. Mapping'
      BY <1>1, <2>1, <2>2 DEF HistoryInv, Mapping, HC!NoEntry
  <2>9. Flight'
      BY <1>1, <1>3, <2>1, <2>2, <2>4 DEF HistoryInv, Flight, HC!GiveUp, Written
  <2>10. Newer'
      BY <1>1, <2>1, <2>2 DEF HistoryInv, Newer, HC!OfKey
  <2> QED
      BY <2>5, <2>6, <2>7, <2>8, <2>9, <2>10 DEF HistoryInv
<1> QED
    BY <1>2, <1>3 DEF HC!Announce

\* The request makes the entry's version, now or late or not at all.
LEMMA SendKeeps ==
    ASSUME HC!HistoryConstants, HistoryInv, HC!Send PROVE HistoryInv'
<1>1. /\ step = "sending" /\ manifest.inFlight = HC!Next1 /\ ~Written(HC!Next1) /\ HC!Next1 \notin late /\ left > 0
      /\ UNCHANGED <<manifest, left, moved, kills>>
    BY DEF HistoryInv, Flight, HC!Send
<1>2. HC!Next1 \in HC!Plan /\ HC!Next1 # HC!NoEntry /\ Begun(HC!Next1) /\ HC!Next1' = HC!Next1 /\ HC!Mapped' = HC!Mapped
  <2>1. HC!Next1 \in Nat \ {0} /\ manifest \in HC!Manifests
      BY MappedThere
  <2> QED
      BY <1>1, <2>1 DEF HC!Manifests, HC!NoEntry, Begun, HC!Next1, HC!Mapped
<1>3. CASE /\ versions' = Append(versions, HC!OwnVersion(HC!Next1)) /\ UNCHANGED late
           /\ \/ made' = Len(versions) + 1 /\ step' = "recording"
              \/ step' = "uncertain" /\ UNCHANGED made
  <2> DEFINE x == HC!OwnVersion(HC!Next1)
  <2>1. x \in HC!Versions /\ x.entry = HC!Next1 /\ x.marker = MarkerAt[HC!Next1]
      BY <1>2 DEF HC!HistoryConstants, HC!Versions, HC!OwnVersion, HC!Version, HC!Plan
  <2>2. x = HC!OwnVersion(x.entry)
      BY <2>1
  <2> HIDE DEF x
  <2>3. versions' = Append(versions, x)
      BY <1>3 DEF x
  <2>4. late' \subseteq late \ {x.entry} /\ step' # "announcing"
      BY <1>1, <1>3, <2>1
  <2>5. x.entry # HC!NoEntry =>
            /\ x = HC!OwnVersion(x.entry) /\ Begun(x.entry) /\ ~Written(x.entry)
            /\ ~x.marker => manifest.inFlight = x.entry
      BY <1>1, <1>2, <2>1, <2>2
  <2>6. /\ versions' \in Seq(HC!Versions) /\ Len(versions') = Len(versions) + 1
        /\ \A v \in 1..Len(versions) : versions'[v] = versions[v]
        /\ versions'[Len(versions) + 1] = x
        /\ Own' /\ Outstanding' /\ Mapping' /\ Newer'
      BY <1>1, <2>1, <2>3, <2>4, <2>5, Appended
  <2>7. Len(versions) \in Nat /\ \A f \in 1..manifest.done : manifest.maps[f] \in 1..Len(versions)
      BY MappedThere
  <2>8. HC!TypeOK'
      BY <1>1, <1>3, <2>6, <2>7 DEF HistoryInv, HC!TypeOK
  <2>9. made' = Len(versions) + 1 =>
            /\ made' \in 1..Len(versions') /\ versions'[made'] = x
            /\ \A f \in 1..manifest.done : manifest.maps[f] < made'
      BY <2>6, <2>7
  <2>10. x = HC!OwnVersion(HC!Next1)'
      BY <1>2 DEF x, HC!OwnVersion, HC!Version
  <2>11. Flight'
      BY <1>1, <1>2, <1>3, <2>9, <2>10 DEF HistoryInv, Flight
  <2> QED
      BY <2>6, <2>8, <2>11 DEF HistoryInv
<1>4. CASE /\ late' \in {late, late \cup {HC!Next1}}
           /\ step' = "uncertain" /\ UNCHANGED <<versions, made>>
  <2>1. HC!TypeOK'
      BY <1>1, <1>2, <1>4 DEF HistoryInv, HC!TypeOK
  <2>2. Own' /\ Mapping'
      BY <1>1, <1>2, <1>4 DEF HistoryInv, Own, Begun, HC!OwnVersion, HC!Version, Mapping
  <2>3. Outstanding'
      BY <1>1, <1>2, <1>4 DEF HistoryInv, Outstanding, Begun, Written
  <2>4. Flight' /\ Newer'
      BY <1>1, <1>2, <1>4 DEF HistoryInv, Flight, Newer, HC!OfKey
  <2> QED
      BY <2>1, <2>2, <2>3, <2>4 DEF HistoryInv
<1> QED
    BY <1>1, <1>3, <1>4 DEF HC!Send

\* The version that was made is recorded.
LEMMA RecordKeeps ==
    ASSUME HC!HistoryConstants, HistoryInv, HC!Record PROVE HistoryInv'
<1>1. /\ step = "recording" /\ manifest.inFlight = HC!Next1 /\ left > 0
      /\ made \in 1..Len(versions) /\ versions[made] = HC!OwnVersion(HC!Next1)
      /\ \A f \in 1..manifest.done : manifest.maps[f] < made
      /\ UNCHANGED <<versions, late, moved, kills>>
    BY DEF HistoryInv, Flight, HC!Record
<1>2. CASE HC!GiveUp /\ UNCHANGED manifest
    BY <1>1, <1>2, Same, GivenUp DEF HistoryInv, HC!TypeOK
<1>3. ASSUME NEW s \in {"running", "outcomeUnknown"}, manifest' = [HC!Finished(made) EXCEPT !.status = s],
             HC!GiveUp \/ (step' = "walking" /\ left' = left - 1 /\ made' = 0)
      PROVE  HistoryInv'
  <2>1. manifest' = [status |-> s, done |-> HC!Next1, inFlight |-> HC!NoEntry, maps |-> Append(manifest.maps, made)]
      BY <1>3 DEF HistoryInv, HC!TypeOK, HC!Manifests, HC!Finished, HC!Next1
  <2>2. /\ versions[made].entry = HC!Next1 /\ versions[made].key = KeyAt[HC!Next1]
        /\ versions[made].marker = MarkerAt[HC!Next1]
      BY <1>1 DEF HC!OwnVersion, HC!Version
  <2>3. made \notin HC!Mapped
    <3>1. /\ Len(versions) \in Nat /\ Len(manifest.maps) = manifest.done
          /\ \A f \in 1..manifest.done : manifest.maps[f] \in 1..Len(versions)
        BY MappedThere
    <3>2. \A f \in 1..manifest.done : manifest.maps[f] # made
        BY <1>1, <3>1
    <3> QED
        BY <3>1, <3>2 DEF HC!Mapped
  <2>4. manifest' \in HC!Manifests /\ Own' /\ Outstanding' /\ Mapping'
      BY <1>1, <2>1, <2>2, <2>3, FinishedKeeps
  <2>5. manifest'.inFlight = HC!NoEntry
      BY <2>1
  <2>6. HC!TypeOK'
      BY <1>1, <1>3, <2>4 DEF HC!HistoryConstants, HistoryInv, HC!TypeOK, HC!GiveUp
  <2>7. Flight' /\ Newer'
      BY <1>3, <2>5 DEF Flight, Newer, HC!GiveUp
  <2> QED
      BY <2>4, <2>6, <2>7 DEF HistoryInv
<1>4. HC!Finished(made) = [HC!Finished(made) EXCEPT !.status = "running"]
    BY DEF HistoryInv, HC!TypeOK, HC!Manifests, HC!Finished
<1> QED
  <2>1. CASE manifest' = HC!Finished(made) /\ step' = "walking" /\ left' = left - 1 /\ made' = 0
      BY <1>3, <1>4, <2>1
  <2> QED
      BY <1>2, <1>3, <2>1 DEF HC!Record

\* An exception leaves the write uncertain.
LEMMA UnansweredKeeps ==
    ASSUME HC!HistoryConstants, HistoryInv, HC!Unanswered PROVE HistoryInv'
BY GivenUp DEF HistoryInv, HC!TypeOK, HC!Unanswered

\* The last entry of the plan completes it.
LEMMA EndBatchKeeps ==
    ASSUME HC!HistoryConstants, HistoryInv, HC!EndBatch PROVE HistoryInv'
BY GivenUp DEF HistoryInv, HC!TypeOK, HC!EndBatch

\* The version that the operator names is recorded.
LEMMA ResolveKeeps ==
    ASSUME HC!HistoryConstants, HistoryInv, NEW v \in 1..Len(versions), HC!Resolve(v) PROVE HistoryInv'
<1>1. /\ step = "idle" /\ manifest.inFlight = HC!Next1
      /\ UNCHANGED <<step, left, made, versions, late, moved, kills>>
    BY DEF HistoryInv, Flight, HC!Resolve
<1>2. /\ versions[v].key = KeyAt[HC!Next1] /\ versions[v].marker = MarkerAt[HC!Next1] /\ v \notin HC!Mapped
      /\ ~versions[v].marker => versions[v].entry = HC!Next1
    BY <1>1 DEF HC!Resolve, HC!Fits
<1>3. \A f \in 1..manifest.done : manifest.maps[f] < v
    BY <1>2 DEF HistoryInv, Newer, HC!OfKey, HC!Resolve
<1>4. manifest' = [status |-> "running", done |-> HC!Next1, inFlight |-> HC!NoEntry, maps |-> Append(manifest.maps, v)]
    BY DEF HistoryInv, HC!TypeOK, HC!Manifests, HC!Finished, HC!Next1, HC!Resolve
<1>5. manifest' \in HC!Manifests /\ Own' /\ Outstanding' /\ Mapping'
    BY <1>1, <1>2, <1>3, <1>4, FinishedKeeps
<1>6. manifest'.inFlight = HC!NoEntry
    BY <1>4
<1>7. HC!TypeOK'
    BY <1>1, <1>5 DEF HistoryInv, HC!TypeOK
<1>8. Flight' /\ Newer'
    BY <1>1, <1>6 DEF Flight, Newer
<1> QED
    BY <1>5, <1>7, <1>8 DEF HistoryInv

\* A step that changes nothing.
LEMMA StutterKeeps ==
    ASSUME HistoryInv, UNCHANGED HC!vars PROVE HistoryInv'
<1>1. HC!TypeOK' /\ Own' /\ Outstanding'
    BY DEF HistoryInv, HC!TypeOK, Own, Outstanding, Begun, Written, HC!OwnVersion, HC!Version,
       HC!vars
<1>2. Mapping' /\ Flight' /\ Newer'
    BY DEF HistoryInv, Mapping, HC!Mapped, Flight, Newer, HC!OfKey, HC!Next1, Written,
       HC!OwnVersion, HC!Version, HC!vars
<1> QED
    BY <1>1, <1>2 DEF HistoryInv

LEMMA HistoryNext == ASSUME HC!HistoryConstants, HistoryInv, [HC!Next]_(HC!vars) PROVE HistoryInv'
<1>1. CASE \/ \E e \in HC!Plan, marker \in BOOLEAN : HC!Outside(KeyAt[e], marker)
           \/ HC!SourceMoves \/ HC!Kill \/ \E e \in HC!Plan : HC!CarriedOutLate(e)
    BY <1>1, OutsideKeeps, SourceMovesKeeps, KillKeeps, CarriedOutLateKeeps
<1>2. CASE (\E n \in HC!Plan : HC!Begin(n)) \/ HC!BeginUncertain \/ HC!Look \/ HC!Announce \/ HC!Send
    BY <1>2, HistoryBeginKeeps, BeginUncertainKeeps, HistoryLookKeeps, AnnounceKeeps, SendKeeps
<1>3. CASE HC!Record \/ HC!Unanswered \/ HC!EndBatch \/ \E v \in 1..Len(versions) : HC!Resolve(v)
    BY <1>3, RecordKeeps, UnansweredKeeps, EndBatchKeeps, ResolveKeeps
<1>4. CASE UNCHANGED HC!vars
    BY <1>4, StutterKeeps
<1> QED
    BY <1>1, <1>2, <1>3, <1>4 DEF HC!Next

LEMMA HistoryHolds == ASSUME HC!HistoryConstants PROVE HC!Spec => []HistoryInv
<1>1. HC!Init => HistoryInv
    BY HistoryInit
<1>2. HistoryInv /\ [HC!Next]_(HC!vars) => HistoryInv'
    BY HistoryNext
<1> QED
    BY <1>1, <1>2, PTL DEF HC!Spec

-----------------------------------------------------------------------------
(* What holds of every replay                                              *)

\* The engine's replays keep the invariant.
LEMMA EngineReplays == EngineSpec => []HistoryInv
<1>1. EngineInit => HC!Init
    BY DEF EngineInit
<1>2. [EngineNext]_EngineVars => [HC!Next]_(HC!vars)
    BY DEF EngineNext, EngineVars, historyVars, HC!vars
<1>3. HC!HistoryConstants
    BY EngineAssumption
<1> QED
    BY <1>1, <1>2, <1>3, HistoryHolds, PTL DEF EngineSpec, HC!Spec

\* However the replay is killed, cancelled or left without an answer, and whatever others
\* write: no entry is written twice, and the manifest maps the entries it counts, in the
\* order of the source, to versions of their key and kind.
THEOREM Faithful == EngineSpec => []HistoryFaithful
<1>1. HistoryInv => HistoryFaithful
    BY DEF HistoryInv, Own, Mapping, HistoryFaithful, HC!HistoryFaithful, HC!Mapped
<1> QED
    BY <1>1, EngineReplays, PTL

-----------------------------------------------------------------------------
(* The whole engine                                                        *)

\* Whatever its work, the engine downloads as StagedDownload does.
LEMMA EngineDownloads == EngineSpec => Spec
<1>1. EngineInit => Init
    BY DEF EngineInit
<1>2. [EngineNext]_EngineVars => [Next]_vars
    BY DEF EngineNext, EngineVars
<1> QED
    BY <1>1, <1>2, PTL DEF EngineSpec, Spec

\* Every file that a download of the engine publishes is whole, and of the version that
\* was asked for.
THEOREM DownloadedIsWhole == EngineSpec => []PublishedWhole
BY EngineDownloads, WholePublished, PTL

\* No download of the engine replaces a file that the policy protects.
THEOREM DownloadSpares == EngineSpec => OthersKept
BY EngineDownloads, NeverReplaced, PTL

\* Every variable of every kind of work keeps its type, whichever work the engine is given.
THEOREM EngineTypes == EngineSpec => []EngineTypeOK
<1>1. EngineSpec => []TypeOK
    BY EngineDownloads, TypeCorrect, PTL
<1>2. EngineSpec => []BRP!TypeOK
    BY BenchmarkBounds, BRP!TypeCorrect, EngineRunsBenchmarks, PTL
<1>3. EngineSpec => []DAP!TypeOK
    BY DeleteBounds, DAP!TypeCorrect, EngineDeletes, PTL
<1>4. BRP!TypeOK => BR!TypeOK
    BY DEF BR!TypeOK, BRP!TypeOK, BR!Owners, BRP!Owners, BR!None, BRP!None, BR!Terminal,
       BRP!Terminal, BR!Runs, BRP!Runs, BR!Lanes, BRP!Lanes, BR!Checkpoints, BRP!Checkpoints
<1>5. DAP!TypeOK => DA!TypeOK
    BY DEF DA!TypeOK, DAP!TypeOK, DA!Entries, DAP!Entries, DA!Batches, DAP!Batches, DA!Cells,
       DAP!Cells, DA!Threads, DAP!Threads
<1>6. CopyInv => SC!TypeOK
    BY DEF CopyInv
<1>7. HistoryInv => HC!TypeOK
    BY DEF HistoryInv
<1> QED
    BY <1>1, <1>2, <1>3, <1>4, <1>5, <1>6, <1>7, EngineCopies, EngineReplays, PTL DEF EngineTypeOK
=============================================================================
