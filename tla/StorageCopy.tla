---------------------------- MODULE StorageCopy ----------------------------
(***************************************************************************)
(* One copy or move of an object by the Python engine                      *)
(* (engines/python/src/main.py): _storage_copy_impl with its server-side   *)
(* and relayed strategies, _move_object, and the asynchronous copy of      *)
(* _azure_copy_object and _azure_move_object.  Source and destination      *)
(* differ.  Metadata, tags and headers are left out.                       *)
(*                                                                         *)
(* The provider answers, refuses, or carries a request out and loses the   *)
(* answer; others edit the source and write the destination.               *)
(***************************************************************************)
EXTENDS Naturals

CONSTANTS
    PartCount,   \* parts of the object
    MaxPolls,    \* polls of an asynchronous copy; 20 in the code
    MaxVersions  \* bound: versions of the source

\* What the bounds are: the proofs assume it, and the model checker evaluates it.
CopyConstants == PartCount \in Nat /\ MaxPolls \in Nat /\ MaxVersions \in Nat \ {0}

Parts == 1..PartCount
Hole == 0
Relays == {"relayPut", "relayParts", "relayBlocks"}
Servers == {"serverCopy", "serverParts"}

VARIABLES
    strategy,    \* how the object is copied
    conflict,    \* conflictPolicy
    moving,      \* the copy is the first half of a move
    pinned,      \* HEAD gave an ETag
    source,      \* version at the source, Hole when it is deleted
    found,       \* version that HEAD saw
    dest,        \* the destination: whose object, and the version of each of its parts
    meddled,     \* another client has written the destination
    place,       \* where the thread of the copy is
    part,        \* each part: to do, passed its gate, at the provider with its version, failed
    upload,      \* multipart upload at the destination
    signal,      \* TransferControl.status
    known,       \* the copy is in _TRANSFER_REGISTRY
    polls,       \* polls so far
    copying,     \* the asynchronous copy of Azure, as the provider has it
    committed,   \* the copy of the whole object has been written
    result,      \* how the copy ended
    removed      \* the move has deleted the source

choiceVars == <<strategy, conflict, moving, pinned>>
asyncVars == <<polls, copying>>
vars == <<choiceVars, source, found, dest, meddled, place, part, upload, signal, known, asyncVars, committed, result, removed>>

Nothing == [by |-> "nobody", bytes |-> [p \in Parts |-> Hole]]
Foreign == [by |-> "other", bytes |-> [p \in Parts |-> Hole]]
Copied(bytes) == [by |-> "copy", bytes |-> bytes]
Todo == [at |-> "todo", of |-> Hole]
Bytes == [p \in Parts |-> part[p].of]
NoClobber == conflict \in {"skip", "fail"}

SignalGo == signal = "running"
SignalStop == signal = "cancelled"

\* Only copies within one S3 account that may replace are left to the server, and
\* the application asks for a move only within one account.
Init ==
    /\ strategy \in Relays \cup Servers \cup {"azureCopy"}
    /\ conflict \in {"replace", "skip", "fail"} /\ (strategy \notin Relays => conflict = "replace")
    /\ moving \in BOOLEAN /\ (moving => strategy \notin Relays)
    /\ pinned \in BOOLEAN
    /\ source = 1 /\ found = Hole
    /\ dest \in {Nothing, Foreign} /\ meddled = FALSE
    /\ place = "asking"
    /\ part = [p \in Parts |-> Todo]
    /\ upload = "none"
    /\ signal = "running" /\ known = FALSE
    /\ polls = 0 /\ copying = "none"
    /\ committed = FALSE /\ result = "none" /\ removed = FALSE

-----------------------------------------------------------------------------
(* Others                                                                  *)

Signal(status) ==
    /\ known
    /\ signal' = IF signal = "cancelled" THEN signal ELSE status
    /\ UNCHANGED <<choiceVars, source, found, dest, meddled, place, part, upload, known, asyncVars, committed, result, removed>>

EditSource ==
    /\ result = "none" /\ source \in 1..(MaxVersions - 1)
    /\ source' = source + 1
    /\ UNCHANGED <<choiceVars, found, dest, meddled, place, part, upload, signal, known, asyncVars, committed, result, removed>>

\* Another client writes the destination; an asynchronous copy to it is superseded.
Meddle ==
    /\ result = "none" /\ ~meddled
    /\ dest' = Foreign /\ meddled' = TRUE
    /\ copying' = IF copying \in {"pending", "success"} THEN "superseded" ELSE copying
    /\ UNCHANGED <<choiceVars, source, found, place, part, upload, signal, known, polls, committed, result, removed>>

-----------------------------------------------------------------------------
(* What every copy begins with                                             *)

\* An exception ends the copy; an open multipart upload is aborted on the way.
Raise(how) ==
    place' = (IF upload = "open" THEN "aborting" ELSE "leaving") /\ result' = how

\* HEAD of the source; _azure_copy_object goes without.
Ask ==
    /\ place = "asking"
    /\ IF strategy = "azureCopy" THEN place' = "submitting" /\ UNCHANGED <<found, result>>
       ELSE \/ found' = source /\ place' = "checking" /\ UNCHANGED result
            \/ Raise("failed") /\ UNCHANGED found
    /\ UNCHANGED <<choiceVars, source, dest, meddled, part, upload, signal, known, asyncVars, committed, removed>>

\* HEAD of the destination under skip and fail; then the job is registered.
Check ==
    /\ place = "checking"
    /\ \/ /\ NoClobber => dest.by = "nobody"
          /\ known' = TRUE /\ place' = "starting" /\ UNCHANGED result
       \/ conflict = "skip" /\ dest.by # "nobody" /\ Raise("skipped") /\ UNCHANGED known
       \/ NoClobber /\ Raise("failed") /\ UNCHANGED known
    /\ UNCHANGED <<choiceVars, source, found, dest, meddled, part, upload, signal, asyncVars, committed, removed>>

\* The first progress event, behind its gate; the tags are read.
Begin ==
    /\ place = "starting"
    /\ \/ /\ SignalGo
          /\ place' = CASE strategy = "serverCopy" -> "copying"
                        [] strategy = "serverParts" -> "creating"
                        [] OTHER -> "opening"
          /\ UNCHANGED result
       \/ SignalGo /\ Raise("failed")
       \/ SignalStop /\ Raise("cancelled")
    /\ UNCHANGED <<choiceVars, source, found, dest, meddled, part, upload, signal, known, asyncVars, committed, removed>>

Whole(v) == [p \in Parts |-> v]

\* The destination is written; the answer comes back, or is lost.
Commit(bytes) == dest' = Copied(bytes) /\ committed' = TRUE
Answer == (place' = "verifying" /\ UNCHANGED result) \/ Raise("failed")

Matching == pinned => source = found

-----------------------------------------------------------------------------
(* Within one account                                                      *)

Copy ==
    /\ place = "copying"
    /\ \/ Matching /\ Commit(Whole(source)) /\ Answer
       \/ Raise("failed") /\ UNCHANGED <<dest, committed>>
    /\ UNCHANGED <<choiceVars, source, found, meddled, part, upload, signal, known, asyncVars, removed>>

\* A creation whose answer is lost leaves an upload nobody knows: not modelled.
Create ==
    /\ place = "creating"
    /\ \/ upload' = "open" /\ UNCHANGED result
          /\ place' = IF strategy = "serverParts" THEN "collecting" ELSE "relaying"
       \/ Raise("failed") /\ UNCHANGED upload
    /\ UNCHANGED <<choiceVars, source, found, dest, meddled, part, signal, known, asyncVars, committed, removed>>

\* A thread of the pool copies a part on the server, behind its gate.
Pass(p) ==
    /\ strategy = "serverParts" /\ place \in {"collecting", "reporting"} /\ part[p].at = "todo"
    /\ \/ SignalGo /\ part' = [part EXCEPT ![p].at = "passed"]
       \/ SignalStop /\ part' = [part EXCEPT ![p].at = "stopped"]
    /\ UNCHANGED <<choiceVars, source, found, dest, meddled, place, upload, signal, known, asyncVars, committed, result, removed>>

CopyPart(p) ==
    /\ part[p].at = "passed"
    /\ \/ Matching /\ part' = [part EXCEPT ![p] = [at |-> "sent", of |-> source]]
       \/ part' = [part EXCEPT ![p].at = "broken"]
    /\ UNCHANGED <<choiceVars, source, found, dest, meddled, place, upload, signal, known, asyncVars, committed, result, removed>>

\* pool.map gives the results in order; the first exception drops what has not started.
Next1 == CHOOSE p \in Parts : part[p].at # "taken" /\ \A q \in Parts : q < p => part[q].at = "taken"

Collect ==
    /\ place = "collecting"
    /\ LET at == part[Next1].at
       IN  \/ at = "sent" /\ part' = [part EXCEPT ![Next1].at = "taken"] /\ place' = "reporting" /\ UNCHANGED result
           \/ at = "broken" /\ UNCHANGED part /\ place' = "draining" /\ result' = "failed"
           \/ at = "stopped" /\ UNCHANGED part /\ place' = "draining" /\ result' = "cancelled"
    /\ UNCHANGED <<choiceVars, source, found, dest, meddled, upload, signal, known, asyncVars, committed, removed>>

AllTaken == \A p \in Parts : part[p].at = "taken"

\* The progress event behind each part, and its gate.
Report ==
    /\ place = "reporting"
    /\ \/ /\ SignalGo /\ UNCHANGED result
          /\ place' = IF AllTaken THEN "completing" ELSE IF strategy = "serverParts" THEN "collecting" ELSE "relaying"
       \/ SignalStop /\ strategy = "serverParts" /\ place' = "draining" /\ result' = "cancelled"
       \/ SignalStop /\ strategy # "serverParts" /\ Raise("cancelled")
    /\ UNCHANGED <<choiceVars, source, found, dest, meddled, part, upload, signal, known, asyncVars, committed, removed>>

\* The pool is left when its threads are done, and then the upload is aborted.
Drain ==
    /\ place = "draining" /\ \A p \in Parts : part[p].at # "passed"
    /\ place' = "aborting"
    /\ UNCHANGED <<choiceVars, source, found, dest, meddled, part, upload, signal, known, asyncVars, committed, result, removed>>

-----------------------------------------------------------------------------
(* Between accounts                                                        *)

\* One GET streams one version; what it gives is written by parts or at once.
OpenBody ==
    /\ place = "opening"
    /\ \/ /\ Matching
          /\ part' = [p \in Parts |-> [Todo EXCEPT !.of = source]]
          /\ place' = CASE strategy = "relayPut" -> "putting"
                        [] strategy = "relayParts" -> "creating"
                        [] OTHER -> "relaying"
          /\ UNCHANGED result
       \/ Raise("failed") /\ UNCHANGED part
    /\ UNCHANGED <<choiceVars, source, found, dest, meddled, upload, signal, known, asyncVars, committed, removed>>

\* Whatever the destination has become meanwhile.
Anyway == TRUE
Free == NoClobber => dest.by = "nobody"

\* The object was read and has the size of the HEAD; a single PUT writes it.
Put ==
    /\ place = "putting"
    /\ \/ Free /\ Commit(Bytes) /\ Answer
       \/ Raise("failed") /\ UNCHANGED <<dest, committed>>
    /\ UNCHANGED <<choiceVars, source, found, meddled, part, upload, signal, known, asyncVars, removed>>

\* The next part of the stream, behind its gate.
Relay ==
    /\ place = "relaying"
    /\ \/ SignalGo /\ part' = [part EXCEPT ![Next1].at = "taken"] /\ place' = "reporting" /\ UNCHANGED result
       \/ SignalGo /\ UNCHANGED part /\ Raise("failed")
       \/ SignalStop /\ UNCHANGED part /\ Raise("cancelled")
    /\ UNCHANGED <<choiceVars, source, found, dest, meddled, upload, signal, known, asyncVars, committed, removed>>

\* Without its last parts.
CompleteShort ==
    /\ place \in {"reporting", "completing"}
    /\ Commit([p \in Parts |-> IF part[p].at = "taken" THEN part[p].of ELSE Hole])
    /\ upload' = "done" /\ place' = "verifying" /\ UNCHANGED result
    /\ UNCHANGED <<choiceVars, source, found, meddled, part, signal, known, asyncVars, removed>>

\* The parts, or the blocks, become the object; within one account behind a gate.
Complete ==
    /\ place = "completing"
    /\ strategy = "serverParts" => ~(signal = "paused")
    /\ \/ strategy = "serverParts" /\ SignalStop /\ Raise("cancelled") /\ UNCHANGED <<dest, committed, upload>>
       \/ /\ strategy = "serverParts" => SignalGo
          /\ \/ Free /\ Commit(Bytes) /\ upload' = (IF upload = "open" THEN "done" ELSE upload) /\ Answer
             \/ Raise("failed") /\ UNCHANGED <<dest, committed, upload>>
    /\ UNCHANGED <<choiceVars, source, found, meddled, part, signal, known, asyncVars, removed>>

\* AbortMultipartUpload, refused when the upload is completed, perhaps by a completion
\* whose answer was lost: its exception replaces a cancellation.
Abort ==
    /\ place = "aborting"
    /\ \/ upload' = (IF upload = "open" THEN "aborted" ELSE upload) /\ UNCHANGED result
       \/ UNCHANGED upload /\ result' = "failed"
    /\ place' = "leaving"
    /\ UNCHANGED <<choiceVars, source, found, dest, meddled, part, signal, known, asyncVars, committed, removed>>

-----------------------------------------------------------------------------
(* The asynchronous copy of Azure                                          *)

\* The destination is replaced at once, by a blob that is not yet filled.
Submit ==
    /\ place = "submitting"
    /\ \/ Commit(Whole(source)) /\ copying' = "success" /\ Raise("completed")
       \/ /\ dest' = Copied(Whole(Hole)) /\ copying' = "pending" /\ UNCHANGED committed
          /\ place' = "polling" /\ UNCHANGED result
       \/ Raise("failed") /\ UNCHANGED <<dest, committed, copying>>
    /\ UNCHANGED <<choiceVars, source, found, meddled, part, upload, signal, known, polls, removed>>

ServiceCopies ==
    /\ copying = "pending"
    /\ \/ copying' = "success" /\ Commit(Whole(source))
       \/ copying' = "failed" /\ UNCHANGED <<dest, committed>>
    /\ UNCHANGED <<choiceVars, source, found, meddled, place, part, upload, signal, known, polls, result, removed>>

\* _azure_wait_for_copy: only the success of this very copy will do.
Poll ==
    /\ place = "polling"
    /\ \/ copying = "success" /\ Raise("completed") /\ UNCHANGED polls
       \/ copying = "pending" /\ polls < MaxPolls /\ polls' = polls + 1 /\ UNCHANGED <<place, result>>
       \/ Raise("failed") /\ UNCHANGED polls
    /\ UNCHANGED <<choiceVars, source, found, dest, meddled, part, upload, signal, known, copying, committed, removed>>

-----------------------------------------------------------------------------
(* What every copy ends with                                               *)

\* HEAD of the destination, for its size; the object may be another's by now.
Verify ==
    /\ place = "verifying"
    /\ \/ place' = "publishing" /\ UNCHANGED result
       \/ Raise("failed")
    /\ UNCHANGED <<choiceVars, source, found, dest, meddled, part, upload, signal, known, asyncVars, committed, removed>>

\* The completed event honours a cancellation, too.
Publish ==
    /\ place = "publishing"
    /\ \/ SignalGo /\ Raise("completed")
       \/ SignalStop /\ Raise("cancelled")
    /\ UNCHANGED <<choiceVars, source, found, dest, meddled, part, upload, signal, known, asyncVars, committed, removed>>

\* _run_transfer: a cancellation is a result like any other.
Leave ==
    /\ place = "leaving"
    /\ known' = FALSE
    /\ place' = IF moving /\ result # "failed" THEN "removing" ELSE "over"
    /\ UNCHANGED <<choiceVars, source, found, dest, meddled, part, upload, signal, asyncVars, committed, result, removed>>

\* A move deletes its source when the copy returns, in whatever state.
Remove ==
    /\ place = "removing"
    /\ \/ source' = Hole /\ removed' = TRUE
       \/ UNCHANGED <<source, removed>>
    /\ place' = "over"
    /\ UNCHANGED <<choiceVars, found, dest, meddled, part, upload, signal, known, asyncVars, committed, result>>

-----------------------------------------------------------------------------
Next ==
    \/ \E status \in {"running", "paused", "cancelled"} : Signal(status)
    \/ EditSource \/ Meddle \/ ServiceCopies
    \/ Ask \/ Check \/ Begin
    \/ Copy \/ Create \/ Collect \/ Report \/ Drain
    \/ \E p \in Parts : Pass(p) \/ CopyPart(p)
    \/ OpenBody \/ Put \/ Relay \/ Complete \/ Abort
    \/ Submit \/ Poll
    \/ Verify \/ Publish \/ Leave \/ Remove

Spec == Init /\ [][Next]_vars

-----------------------------------------------------------------------------
(* Properties                                                              *)

Points == {"todo", "passed", "sent", "taken", "broken", "stopped"}
Objects == [by : {"nobody", "other", "copy"}, bytes : [Parts -> 0..MaxVersions]]

TypeOK ==
    /\ strategy \in Relays \cup Servers \cup {"azureCopy"}
    /\ conflict \in {"replace", "skip", "fail"} /\ moving \in BOOLEAN /\ pinned \in BOOLEAN
    /\ source \in 0..MaxVersions /\ found \in 0..MaxVersions
    /\ dest \in Objects /\ meddled \in BOOLEAN
    /\ part \in [Parts -> [at : Points, of : 0..MaxVersions]]
    /\ upload \in {"none", "open", "done", "aborted"}
    /\ signal \in {"running", "paused", "cancelled"} /\ known \in BOOLEAN
    /\ polls \in 0..MaxPolls /\ copying \in {"none", "pending", "success", "failed", "superseded"}
    /\ committed \in BOOLEAN /\ removed \in BOOLEAN
    /\ result \in {"none", "completed", "failed", "cancelled", "skipped"}

\* An object that the copy has written has every part, of the version that HEAD saw
\* when it gave an ETag; a relay without one still writes a single version.
\* (An asynchronous copy fills its blob in place, and is whole when it is committed.)
CopiedWhole ==
    dest.by = "copy" /\ committed =>
        /\ \A p \in Parts : dest.bytes[p] # Hole
        /\ pinned /\ strategy # "azureCopy" => dest.bytes = Whole(found)
        /\ strategy # "serverParts" => \A p, q \in Parts : dest.bytes[p] = dest.bytes[q]

\* skip and fail never replace an object, though it appear after the destination
\* was looked at and before the copy is written, or between two parts of it.
SkipNeverReplaces ==
    [][NoClobber /\ dest' # dest /\ dest'.by = "copy" => dest.by = "nobody"]_vars

\* "For move, delete only after destination completion is confirmed": the source of
\* any move is deleted only when the whole object was written.
DeletedOnlyWhenCopied == removed => committed
=============================================================================
