---------------------------- MODULE RequestLoop ----------------------------
(***************************************************************************)
(* The Python engine's process (engines/python/src/main.py): main reads    *)
(* request lines, answers control requests itself and hands every other    *)
(* request to a pool of threads.  A transfer that is paused holds its      *)
(* thread at the gate.  What a transfer does between its gates is the      *)
(* subject of TransferJob; here it is one step.                            *)
(***************************************************************************)
EXTENDS Naturals, Sequences

CONSTANTS
    Transfers,   \* requests that run a transfer
    Controls,    \* requests of _CONTROL_PLANE_METHODS
    Target,      \* [Controls -> Transfers]: the job a control names
    Command,     \* [Controls -> {"paused", "running", "cancelled"}]
    Threads,     \* threads of the executor
    Nobody       \* what an idle thread works on

\* What the requests are: the proofs assume it, and the model checker evaluates it.
LoopConstants ==
    Target \in [Controls -> Transfers] /\ Command \in [Controls -> {"paused", "running", "cancelled"}]

Requests == Transfers \cup Controls

VARIABLES
    written,   \* requests the host has written
    lines,     \* lines in the pipe, oldest first
    closed,    \* the host has closed the pipe
    reader,    \* main: reading, shutting the executor down, or gone
    queue,     \* requests in the executor's queue
    thread,    \* request at each thread
    job,       \* status of each transfer in the registry, or why it is not there
    answered   \* requests that were answered

vars == <<written, lines, closed, reader, queue, thread, job, answered>>

Init ==
    /\ written = {} /\ lines = <<>> /\ closed = FALSE
    /\ reader = "reading" /\ queue = <<>>
    /\ thread = [t \in Threads |-> Nobody]
    /\ job = [j \in Transfers |-> "new"]
    /\ answered = {}

-----------------------------------------------------------------------------
(* The host                                                                *)

WriteLine(r) ==
    /\ ~closed /\ r \notin written
    /\ written' = written \cup {r}
    /\ lines' = Append(lines, r)
    /\ UNCHANGED <<closed, reader, queue, thread, job, answered>>

CloseInput ==
    /\ ~closed
    /\ closed' = TRUE
    /\ UNCHANGED <<written, lines, reader, queue, thread, job, answered>>

-----------------------------------------------------------------------------
(* The reader thread                                                       *)

Registered(j) == job[j] \in {"running", "paused", "cancelled"}

\* _transfer_control; a job that is not in the registry is an error, answered too.
Controlled(c) ==
    LET j == Target[c]
    IN  IF Registered(j) /\ job[j] # "cancelled" THEN [job EXCEPT ![j] = Command[c]] ELSE job

\* Resume is missing among the control methods.
ReadResumeToPool ==
    /\ reader = "reading" /\ lines # <<>>
    /\ lines' = Tail(lines)
    /\ LET r == Head(lines)
       IN  IF r \in Controls /\ Command[r] # "running"
           THEN job' = Controlled(r) /\ answered' = answered \cup {r} /\ UNCHANGED queue
           ELSE queue' = Append(queue, r) /\ UNCHANGED <<job, answered>>
    /\ UNCHANGED <<written, closed, reader, thread>>

\* The next line: a control is carried out and answered here, the rest is submitted.
ReadLine ==
    /\ reader = "reading" /\ lines # <<>>
    /\ lines' = Tail(lines)
    /\ LET r == Head(lines)
       IN  IF r \in Controls
           THEN job' = Controlled(r) /\ answered' = answered \cup {r} /\ UNCHANGED queue
           ELSE queue' = Append(queue, r) /\ UNCHANGED <<job, answered>>
    /\ UNCHANGED <<written, closed, reader, thread>>

\* The end of the input: executor.shutdown(wait=True), and then the process ends.
ReadEnd ==
    /\ reader = "reading" /\ closed /\ lines = <<>>
    /\ reader' = "shutdown"
    /\ UNCHANGED <<written, lines, closed, queue, thread, job, answered>>

Exit ==
    /\ reader = "shutdown" /\ queue = <<>> /\ \A t \in Threads : thread[t] = Nobody
    /\ reader' = "gone"
    /\ UNCHANGED <<written, lines, closed, queue, thread, job, answered>>

-----------------------------------------------------------------------------
(* The executor's threads                                                  *)

Take(t) ==
    /\ thread[t] = Nobody /\ queue # <<>>
    /\ thread' = [thread EXCEPT ![t] = Head(queue)]
    /\ queue' = Tail(queue)
    /\ UNCHANGED <<written, lines, closed, reader, job, answered>>

RegisterJob(t) ==
    /\ thread[t] \in Transfers /\ job[thread[t]] = "new"
    /\ job' = [job EXCEPT ![thread[t]] = "running"]
    /\ UNCHANGED <<written, lines, closed, reader, queue, thread, answered>>

\* _process_line answers whatever comes out of the handler: a result, the job
\* that a cancellation ended, or an error before or after the job was known.
Answer(t) ==
    /\ thread[t] # Nobody
    /\ LET r == thread[t]
       IN  /\ r \in Transfers => job[r] # "paused"
           /\ job' = IF r \in Controls THEN Controlled(r) ELSE [job EXCEPT ![r] = "over"]
           /\ answered' = answered \cup {r}
    /\ thread' = [thread EXCEPT ![t] = Nobody]
    /\ UNCHANGED <<written, lines, closed, reader, queue>>

-----------------------------------------------------------------------------
ReaderStep == ReadLine \/ ReadEnd \/ Exit
ThreadStep(t) == Take(t) \/ RegisterJob(t) \/ Answer(t)

Next ==
    \/ \E r \in Requests : WriteLine(r)
    \/ CloseInput
    \/ ReaderStep
    \/ \E t \in Threads : ThreadStep(t)

Spec == Init /\ [][Next]_vars

\* The operating system runs the threads, and a handler ends when it is not
\* held at a gate; the host owes nothing, and nobody must resume a job.
Fairness == WF_vars(ReaderStep) /\ \A t \in Threads : WF_vars(ThreadStep(t))
FairSpec == Spec /\ Fairness

-----------------------------------------------------------------------------
(* Properties                                                              *)

TypeOK ==
    /\ written \subseteq Requests /\ lines \in Seq(Requests) /\ closed \in BOOLEAN
    /\ reader \in {"reading", "shutdown", "gone"}
    /\ queue \in Seq(Requests)
    /\ thread \in [Threads -> Requests \cup {Nobody}]
    /\ job \in [Transfers -> {"new", "running", "paused", "cancelled", "over"}]
    /\ answered \subseteq written

\* "Running them here guarantees they land even when every worker is blocked in
\* a paused transfer": a control that was written is answered although nobody
\* ever resumes the transfers that hold the threads.
ControlsAnswered == \A c \in Controls : c \in written ~> c \in answered
=============================================================================
