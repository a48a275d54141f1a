--------------------------- MODULE MCTransferJob ---------------------------
(***************************************************************************)
(* Transfers of one engine, seen twice, one at a time: a job in full, an   *)
(* upload of a multipart file with more parts than may be pending at once  *)
(* and of a small file; and the loop that feeds the executor, with two     *)
(* transfers that one thread cannot serve at once and controls of both.    *)
(***************************************************************************)
EXTENDS TransferJob, TLC

CONSTANTS Transfers, Controls, Threads, Nobody

VARIABLES
    seen,  \* what is looked at: the job or the loop
    written, lines, closed, reader, queue, thread, job, answered

MCPartsOf == <<5, 0>>
Target == ("pause1" :> "transfer1") @@ ("resume1" :> "transfer1") @@ ("cancel2" :> "transfer2")
Command == ("pause1" :> "paused") @@ ("resume1" :> "running") @@ ("cancel2" :> "cancelled")

RL == INSTANCE RequestLoop

ASSUME LoopAssumption == RL!LoopConstants

loopVars == <<written, lines, closed, reader, queue, thread, job, answered>>

TransfersInit == seen \in {"job", "loop"} /\ Init /\ RL!Init

TransfersNext ==
    /\ UNCHANGED seen
    /\ \/ seen = "job" /\ Next /\ UNCHANGED loopVars
       \/ seen = "loop" /\ RL!Next /\ UNCHANGED vars

\* The fairness of both: threads run, and nobody must resume a paused job.
TransfersSpec ==
    /\ TransfersInit
    /\ [][TransfersNext]_<<seen, vars, loopVars>>
    /\ WF_vars(seen = "job" /\ JobStep)
    /\ \A p \in 1..MaxParts : WF_vars(seen = "job" /\ WorkerStep(p))
    /\ WF_loopVars(seen = "loop" /\ RL!ReaderStep)
    /\ \A t \in Threads : WF_loopVars(seen = "loop" /\ RL!ThreadStep(t))

-----------------------------------------------------------------------------
\* Every part keeps its types, and a control is only answered when it was written.
TransfersTypeOK == TypeOK /\ RL!TypeOK

\* TransferJob: a job that nobody leaves paused ends.
UploadEnds == <>[](status # "paused") => <>(seen = "job" => pc = "ended")

\* RequestLoop: a control is answered although every thread is held by a paused transfer.
ControlsAnswered == RL!ControlsAnswered
=============================================================================
