---------------------------- MODULE TransferJob ----------------------------
(***************************************************************************)
(* One upload job of the Python engine: the registry entry that pause,     *)
(* resume and cancel act on, the gate that every unit of work passes, and  *)
(* _start_upload with its pool of part workers                             *)
(* (engines/python/src/main.py).                                           *)
(*                                                                         *)
(* Controls run on the reader thread, the job on an executor thread, parts *)
(* on the threads of a pool of the job.  The storage provider answers,     *)
(* refuses, or carries a request out and loses the answer.  An engine that *)
(* is killed simply takes no further step.                                 *)
(***************************************************************************)
EXTENDS Naturals, FiniteSets

CONSTANTS
    FileCount,      \* files of the job, uploaded in order
    PartsOf,        \* [1..FileCount -> Nat]: parts of a multipart file, 0 for a single PUT
    MaxWorkers      \* threads of the pool of parts

ASSUME JobAssumption ==
    /\ FileCount \in Nat \ {0}
    /\ PartsOf \in [1..FileCount -> Nat]
    /\ MaxWorkers \in Nat \ {0}

Files == 1..FileCount
PendingLimit == 2 * MaxWorkers

VARIABLES
    status,      \* TransferControl.status
    registered,  \* the job is in _TRANSFER_REGISTRY
    pc,          \* where the thread of the job is
    file,        \* file at work
    part,        \* state of each part of that file
    submitted,   \* parts taken from the iterator of _bounded_parallel
    batch,       \* finished futures that wait() returned and that are not yielded yet
    pending,     \* the set pending of _bounded_parallel
    upload,      \* multipart uploads at the provider
    stored,      \* parts the provider has for each upload
    published,   \* files whose object exists
    abandoned,   \* uploads whose creation or abortion was not answered
    result       \* outcome of the job

poolVars == <<part, submitted, batch, pending>>
providerVars == <<upload, stored, published, abandoned>>
vars == <<status, registered, pc, file, poolVars, providerVars, result>>

Parts(f) == 1..PartsOf[f]
MaxParts == CHOOSE n \in {PartsOf[f] : f \in Files} : \A f \in Files : PartsOf[f] <= n
Running == {p \in 1..MaxParts : part[p] \in {"gate", "sending"}}
Finished == {p \in pending : part[p] \in {"sent", "stopped", "broken"}}

\* _transfer_gate: a thread goes on, stops, or waits while the job is paused.
GateOpen == status = "running"
GateStops == status = "cancelled"

Init ==
    /\ status = "running" /\ registered = FALSE
    /\ pc = "new" /\ file = 1
    /\ part = [p \in 1..MaxParts |-> "none"]
    /\ submitted = 0 /\ batch = {} /\ pending = {}
    /\ upload = [f \in Files |-> "none"]
    /\ stored = [f \in Files |-> {}]
    /\ published = {} /\ abandoned = {}
    /\ result = "none"

-----------------------------------------------------------------------------
(* Controls                                                                *)

\* A late pause overrides a cancellation.
PauseAnyway ==
    /\ registered
    /\ status' = "paused"
    /\ UNCHANGED <<registered, pc, file, poolVars, providerVars, result>>

Pause ==
    /\ registered
    /\ status' = IF status = "cancelled" THEN status ELSE "paused"
    /\ UNCHANGED <<registered, pc, file, poolVars, providerVars, result>>

Resume ==
    /\ registered
    /\ status' = IF status = "cancelled" THEN status ELSE "running"
    /\ UNCHANGED <<registered, pc, file, poolVars, providerVars, result>>

Cancel ==
    /\ registered
    /\ status' = "cancelled"
    /\ UNCHANGED <<registered, pc, file, poolVars, providerVars, result>>

-----------------------------------------------------------------------------
(* The job's thread, file by file                                          *)

\* The job is registered, then announced by its first progress event.
Register ==
    /\ pc = "new"
    /\ registered' = TRUE
    /\ pc' = "announced"
    /\ UNCHANGED <<status, file, poolVars, providerVars, result>>

Announce ==
    /\ pc = "announced"
    /\ pc' = "fileGate"
    /\ UNCHANGED <<status, registered, file, poolVars, providerVars, result>>

\* The job is over: its outcome, before _run_transfer drops it from the registry.
End(outcome) == pc' = "ending" /\ result' = outcome

\* The gate before a file; behind it the file may turn out to be unreadable.
FileGate ==
    /\ pc = "fileGate"
    /\ \/ /\ GateOpen
          /\ pc' = IF PartsOf[file] = 0 THEN "putting" ELSE "creating"
          /\ UNCHANGED result
       \/ GateOpen /\ End("failed")
       \/ GateStops /\ End("cancelled")
    /\ UNCHANGED <<status, registered, file, poolVars, providerVars>>

\* put_object of a small file.
Put ==
    /\ pc = "putting"
    /\ \/ published' = published \cup {file} /\ pc' = "fileDone" /\ UNCHANGED result
       \/ published' \in {published, published \cup {file}} /\ End("failed")
    /\ UNCHANGED <<status, registered, file, poolVars, upload, stored, abandoned>>

CreateUpload ==
    /\ pc = "creating"
    /\ \/ /\ upload' = [upload EXCEPT ![file] = "open"]
          /\ pc' = "refill"
          /\ UNCHANGED <<abandoned, result>>
       \/ /\ End("failed")
          /\ \/ UNCHANGED <<upload, abandoned>>
             \/ /\ upload' = [upload EXCEPT ![file] = "open"]
                /\ abandoned' = abandoned \cup {file}
    /\ part' = [p \in 1..MaxParts |-> "none"]
    /\ submitted' = 0 /\ batch' = {} /\ pending' = {}
    /\ UNCHANGED <<status, registered, file, stored, published>>

-----------------------------------------------------------------------------
(* _bounded_parallel and its consumer                                      *)

\* An off-by-one in the number of parts.
RefillPastEnd ==
    /\ pc = "refill"
    /\ submitted' = IF pending = {} THEN PartsOf[file] + 1 ELSE submitted
    /\ pending' = pending \cup (submitted + 1)..submitted'
    /\ part' = [p \in 1..MaxParts |-> IF p \in pending' \ pending THEN "queued" ELSE part[p]]
    /\ pc' = IF pending' = {} THEN "sealing" ELSE "waiting"
    /\ UNCHANGED <<status, registered, file, batch, providerVars, result>>

\* Submit parts up to the limit; without a pending part the pool is done.
Refill ==
    /\ pc = "refill"
    /\ \E n \in submitted..PartsOf[file] :
          LET fresh == (submitted + 1)..n
          IN  /\ Cardinality(pending) + n - submitted <= PendingLimit
              /\ n = PartsOf[file] \/ Cardinality(pending) + n - submitted = PendingLimit
              /\ submitted' = n
              /\ pending' = pending \cup fresh
              /\ part' = [p \in 1..MaxParts |-> IF p \in fresh THEN "queued" ELSE part[p]]
    /\ pc' = IF pending' = {} THEN "sealing" ELSE "waiting"
    /\ UNCHANGED <<status, registered, file, batch, providerVars, result>>

Wait ==
    /\ pc = "waiting" /\ Finished # {}
    /\ batch' = Finished
    /\ pc' = "yielding"
    /\ UNCHANGED <<status, registered, file, part, submitted, pending, providerVars, result>>

\* The consumer's exception closes the generator: what no worker has begun is
\* cancelled, the rest is waited for.
CancelPending(f) == [p \in DOMAIN f |-> IF p \in pending /\ f[p] = "queued" THEN "dropped" ELSE f[p]]

\* A failed part is logged and skipped.
YieldLeniently ==
    /\ pc = "yielding"
    /\ \E p \in batch :
          /\ batch' = batch \ {p} /\ pending' = pending \ {p}
          /\ pc' = "checkpoint"
    /\ UNCHANGED <<status, registered, file, part, submitted, providerVars, result>>

\* The next future of the batch: its part is recorded, or its exception raised.
Yield ==
    /\ pc = "yielding"
    /\ \E p \in batch :
          /\ batch' = batch \ {p}
          /\ pending' = pending \ {p}
          /\ IF part[p] = "sent"
             THEN pc' = "checkpoint" /\ UNCHANGED <<part, result>>
             ELSE /\ pc' = "draining"
                  /\ result' = IF part[p] = "stopped" THEN "cancelled" ELSE "failed"
                  /\ part' = CancelPending(part)
    /\ UNCHANGED <<status, registered, file, submitted, providerVars>>

\* _transfer_checkpoint after a part.
Checkpoint ==
    /\ pc = "checkpoint"
    /\ \/ GateOpen /\ pc' = (IF batch = {} THEN "refill" ELSE "yielding")
                   /\ UNCHANGED <<part, result>>
       \/ /\ GateStops
          /\ pc' = "draining" /\ result' = "cancelled"
          /\ part' = CancelPending(part)
    /\ UNCHANGED <<status, registered, file, submitted, batch, pending, providerVars>>

\* The upload is aborted while workers still run.
DrainAtOnce ==
    /\ pc = "draining"
    /\ pc' = "aborting"
    /\ UNCHANGED <<status, registered, file, poolVars, providerVars, result>>

\* Cancelled futures are waited for as well.
DrainCancelled ==
    /\ pc = "draining" /\ Finished = pending
    /\ pc' = "aborting"
    /\ UNCHANGED <<status, registered, file, poolVars, providerVars, result>>

\* The pool has shut down once no worker runs.
Drain ==
    /\ pc = "draining" /\ Running = {}
    /\ pc' = "aborting"
    /\ UNCHANGED <<status, registered, file, poolVars, providerVars, result>>

\* abort_multipart_upload; an error is swallowed.
Abort ==
    /\ pc = "aborting"
    /\ \/ upload[file] = "open" /\ upload' = [upload EXCEPT ![file] = "aborted"]
                                /\ UNCHANGED abandoned
       \/ abandoned' = abandoned \cup {file} /\ UNCHANGED upload
    /\ End(result)
    /\ UNCHANGED <<status, registered, file, poolVars, stored, published>>

\* A cancellation seen before completion leaves the upload open.
SealWithoutAbort ==
    /\ pc = "sealing"
    /\ \/ GateOpen /\ pc' = "completing" /\ UNCHANGED result
       \/ GateStops /\ End("cancelled")
    /\ UNCHANGED <<status, registered, file, poolVars, providerVars>>

\* The gate before complete_multipart_upload.
Seal ==
    /\ pc = "sealing"
    /\ \/ GateOpen /\ pc' = "completing" /\ UNCHANGED result
       \/ GateStops /\ pc' = "aborting" /\ result' = "cancelled"
    /\ UNCHANGED <<status, registered, file, poolVars, providerVars>>

\* complete_multipart_upload with the parts collected.
Complete ==
    /\ pc = "completing"
    /\ \/ pc' = "fileDone" /\ UNCHANGED result
       \/ pc' = "aborting" /\ result' = "failed"
    /\ \/ /\ upload' = [upload EXCEPT ![file] = "completed"]
          /\ published' = published \cup {file}
       \/ pc' = "aborting" /\ UNCHANGED <<upload, published>>
    /\ UNCHANGED <<status, registered, file, poolVars, stored, abandoned>>

\* No gate after a file.
FileDoneUngated ==
    /\ pc = "fileDone"
    /\ \/ file < FileCount /\ file' = file + 1 /\ pc' = "fileGate" /\ UNCHANGED result
       \/ file = FileCount /\ End("completed") /\ UNCHANGED file
    /\ UNCHANGED <<status, registered, poolVars, providerVars>>

\* The checkpoint after a file.
FileDone ==
    /\ pc = "fileDone"
    /\ \/ /\ GateOpen
          /\ \/ file < FileCount /\ file' = file + 1 /\ pc' = "fileGate" /\ UNCHANGED result
             \/ file = FileCount /\ End("completed") /\ UNCHANGED file
       \/ GateStops /\ End("cancelled") /\ UNCHANGED file
    /\ UNCHANGED <<status, registered, poolVars, providerVars>>

\* _run_transfer drops the job, then the response is written.
Unregister ==
    /\ pc = "ending"
    /\ registered' = FALSE
    /\ pc' = "ended"
    /\ UNCHANGED <<status, file, poolVars, providerVars, result>>

-----------------------------------------------------------------------------
(* The workers                                                             *)

\* A free worker takes the part that was submitted first.
TakePart(p) ==
    /\ part[p] = "queued"
    /\ Cardinality(Running) < MaxWorkers
    /\ \A q \in 1..MaxParts : part[q] = "queued" => p <= q
    /\ part' = [part EXCEPT ![p] = "gate"]
    /\ UNCHANGED <<status, registered, pc, file, submitted, batch, pending, providerVars, result>>

\* The worker opens the file, which may fail, and passes the gate.
PartGate(p) ==
    /\ part[p] = "gate"
    /\ \/ part' = [part EXCEPT ![p] = "broken"]
       \/ GateOpen /\ part' = [part EXCEPT ![p] = "sending"]
       \/ GateStops /\ part' = [part EXCEPT ![p] = "stopped"]
    /\ UNCHANGED <<status, registered, pc, file, submitted, batch, pending, providerVars, result>>

\* upload_part: stored and answered, refused, or stored and the answer lost.
SendPart(p) ==
    /\ part[p] = "sending"
    /\ \/ /\ part' = [part EXCEPT ![p] = "sent"]
          /\ stored' = [stored EXCEPT ![file] = @ \cup {p}]
       \/ /\ part' = [part EXCEPT ![p] = "broken"]
          /\ stored' \in {stored, [stored EXCEPT ![file] = @ \cup {p}]}
    /\ UNCHANGED <<status, registered, pc, file, submitted, batch, pending,
                   upload, published, abandoned, result>>

-----------------------------------------------------------------------------
JobStep ==
    \/ Register \/ Announce \/ FileGate \/ Put \/ CreateUpload \/ Refill \/ Wait \/ Yield
    \/ Checkpoint \/ Drain \/ Abort \/ Seal \/ Complete \/ FileDone \/ Unregister

WorkerStep(p) == TakePart(p) \/ PartGate(p) \/ SendPart(p)

Next ==
    \/ Pause \/ Resume \/ Cancel
    \/ JobStep
    \/ \E p \in 1..MaxParts : WorkerStep(p)

Spec == Init /\ [][Next]_vars

\* Threads run, and a request to the provider ends: the client has connect and
\* read timeouts.  Nobody has to resume a paused job.
FairSpec ==
    /\ Spec
    /\ WF_vars(JobStep)
    /\ \A p \in 1..MaxParts : WF_vars(WorkerStep(p))

-----------------------------------------------------------------------------
(* Properties                                                              *)

TypeOK ==
    /\ status \in {"running", "paused", "cancelled"}
    /\ registered \in BOOLEAN
    /\ pc \in {"new", "announced", "fileGate", "putting", "creating", "refill", "waiting",
               "yielding", "checkpoint", "draining", "aborting", "sealing", "completing",
               "fileDone", "ending", "ended"}
    /\ file \in Files
    /\ part \in [1..MaxParts -> {"none", "queued", "gate", "sending", "sent", "stopped",
                                 "broken", "dropped"}]
    /\ submitted \in 0..MaxParts
    /\ batch \subseteq pending /\ pending \subseteq 1..submitted
    /\ upload \in [Files -> {"none", "open", "completed", "aborted"}]
    /\ stored \in [Files -> SUBSET (1..MaxParts)]
    /\ published \subseteq Files /\ abandoned \subseteq Files
    /\ result \in {"none", "completed", "cancelled", "failed"}

\* A part is only ever sent into an open multipart upload: abort and completion
\* wait for the workers, even for those that a pause holds at the gate.
PartsIntoOpenUpload ==
    \A p \in 1..MaxParts : part[p] = "sending" => upload[file] = "open"

\* A completed multipart upload has every part of its file; a worker's failure,
\* a cancelled future or a lost answer never ends in a truncated object.
CompletedIsWhole ==
    \A f \in Files : upload[f] = "completed" => stored[f] = Parts(f)

\* A job that has ended leaves no multipart upload open at the provider, except
\* one whose creation or abortion the provider never answered.
NoOrphanUpload ==
    pc \in {"ending", "ended"} =>
        \A f \in Files : upload[f] = "open" => f \in abandoned

\* A cancellation acknowledged before the outcome is decided decides it: the job
\* does not report completion, no later file is begun, nothing more is published
\* than the file whose request had passed its gate.
CancellationStops ==
    [][status = "cancelled" =>
          /\ result' = "completed" => result = "completed"
          /\ file' = file
          /\ published' # published => pc \in {"putting", "completing"}
          /\ pc' \in {"putting", "creating", "completing"} => pc' = pc
      ]_vars

\* A cancelled job ends although it was paused, and its workers with it.
CancelledJobEnds == status = "cancelled" ~> (pc = "ended" /\ Running = {})
=============================================================================
