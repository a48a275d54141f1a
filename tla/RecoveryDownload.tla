-------------------------- MODULE RecoveryDownload --------------------------
(***************************************************************************)
(* One recoverable download: its manifest, its staged file, the directory  *)
(* it publishes to, and the requests that start, resume and abort it       *)
(* (Workflows.download and execute_download,                               *)
(* engines/python/src/advanced_workflows.py).                              *)
(*                                                                         *)
(* Requests run in engine processes that may be killed at any point; the   *)
(* operating system then releases the lock.  Replacing the manifest (a     *)
(* rename) is atomic and does not fail.  The workers only fetch; one       *)
(* thread writes what they bring.  A pause only delays a request at its    *)
(* gates and has no action of its own; a staged file that cannot be removed*)
(* leaves what a kill at that point leaves.                                *)
(***************************************************************************)
CONSTANTS
    Requests,   \* start, resume and abort requests
    RangeIds,   \* ranges of the remote object
    Names,      \* names in the destination directory
    FirstName,  \* the name that the object's key asks for
    Nobody

ASSUME DownloadAssumption == FirstName \in Names /\ Nobody \notin Requests

VARIABLES
    policy,     \* conflictPolicy
    disk,       \* the manifest: status, the ranges it lists, filePath
    lock,       \* holder of the lock file
    pc,         \* where each request is
    mem,        \* each request's copy of the manifest
    todo,       \* ranges that the holder of the lock has still to receive
    cancelled,  \* requests whose job was cancelled
    stage,      \* the staged file: "new" before it is created, then "there" or "gone"
    bytes,      \* what each range of the staged file holds
    files       \* what is at each name of the directory

requestVars == <<lock, pc, todo, cancelled>>
vars == <<policy, disk, mem, requestVars, stage, bytes, files>>

Manifest(status, ranges, name) == [status |-> status, ranges |-> ranges, name |-> name]
NoManifest == Manifest("none", {}, FirstName)

Init ==
    /\ policy \in {"keepBoth", "replace"}
    /\ disk = NoManifest /\ mem = [r \in Requests |-> NoManifest]
    /\ lock = Nobody /\ pc = [r \in Requests |-> "idle"]
    /\ todo = {} /\ cancelled = {}
    /\ stage = "new" /\ bytes = [p \in RangeIds |-> "none"]
    /\ files \in [Names -> {"absent", "other"}]

Goto(r, place) == pc' = [pc EXCEPT ![r] = place] /\ UNCHANGED <<lock, todo, cancelled>>

\* The request returns: its job leaves the registry, the lock is released.
Return(r) ==
    /\ pc' = [pc EXCEPT ![r] = "done"]
    /\ lock' = Nobody /\ todo' = {} /\ cancelled' = cancelled \ {r}

\* The copy m of r replaces the manifest.
Save(r, m) == mem' = [mem EXCEPT ![r] = m] /\ disk' = m

\* The staged file is complete or not; a copy of it is "ours" or "damaged".
Staged == IF \A p \in RangeIds : bytes[p] = "good" THEN "ours" ELSE "damaged"
Published == {n \in Names : files[n] \in {"ours", "damaged"}}

-----------------------------------------------------------------------------
(* download: requests arrive, take the lock and choose a course            *)

\* startResumableDownload creates the staged file, exclusively.
Start(r) ==
    /\ pc[r] = "idle" /\ stage = "new"
    /\ stage' = "there"
    /\ Goto(r, "staged")
    /\ UNCHANGED <<policy, disk, mem, bytes, files>>

\* Then it writes the first manifest.
Prepare(r) ==
    /\ pc[r] = "staged"
    /\ Save(r, Manifest("prepared", {}, FirstName))
    /\ Goto(r, "resuming")
    /\ UNCHANGED <<policy, stage, bytes, files>>

\* A request names a manifest that listTransferRecovery has shown.
Ask(r) ==
    /\ pc[r] = "idle" /\ disk.status # "none"
    /\ \E place \in {"resuming", "abortAsked"} : Goto(r, place)
    /\ UNCHANGED <<policy, disk, mem, stage, bytes, files>>

\* Any file at the name is taken for the download.
AnyFileThere(m) == files[m.name] # "absent"

\* The file at filePath has the digest that was recorded before publication.
FoundPublished(m) == m.name \in Published

\* The lock is tried once and the manifest read under it.  A resume also fails
\* when the remote object has changed or cannot be asked about.
Enter(r) ==
    /\ pc[r] \in {"resuming", "abortAsked"}
    /\ \/ /\ lock = Nobody /\ disk.status \notin {"completed", "aborted"}
          /\ \/ pc[r] = "abortAsked" /\ pc' = [pc EXCEPT ![r] = "aborting"]
             \/ /\ pc[r] = "resuming"
                /\ IF disk.status = "publishing" /\ FoundPublished(disk)
                   THEN pc' = [pc EXCEPT ![r] = "recognised"]
                   ELSE /\ disk.status = "publishing" => stage = "there"
                        /\ pc' = [pc EXCEPT ![r] = "opening"]
          /\ lock' = r /\ mem' = [mem EXCEPT ![r] = disk]
       \/ /\ \/ lock # Nobody
             \/ disk.status \in {"completed", "aborted"}
             \/ pc[r] = "resuming" /\ ~(disk.status = "publishing" /\ FoundPublished(disk))
          /\ pc' = [pc EXCEPT ![r] = "done"]
          /\ UNCHANGED <<lock, mem>>
    /\ UNCHANGED <<policy, disk, todo, cancelled, stage, bytes, files>>

\* abortDownload, and a resume that finds its file published: the staged file goes ...
Unstage(r) ==
    /\ pc[r] \in {"aborting", "recognised"}
    /\ stage' = "gone"
    /\ mem' = [mem EXCEPT ![r].status = IF pc[r] = "aborting" THEN "aborted" ELSE "completed"]
    /\ Goto(r, "recording")
    /\ UNCHANGED <<policy, disk, bytes, files>>

\* ... and the outcome is recorded.
Record(r) ==
    /\ pc[r] = "recording"
    /\ Save(r, mem[r])
    /\ Return(r)
    /\ UNCHANGED <<policy, stage, bytes, files>>

-----------------------------------------------------------------------------
(* execute_download                                                        *)

\* The manifest's list is trusted.
AllListed(m) == m.ranges

\* The listed ranges whose bytes still have their digest.
Valid(m) == {p \in m.ranges : bytes[p] = "good"}

\* The staged file is gone: the request fails and records nothing.
StageMissing(r) ==
    /\ pc[r] = "opening" /\ stage = "gone"
    /\ Return(r)
    /\ UNCHANGED <<policy, disk, mem, stage, bytes, files>>

\* The ranges are validated; some of the others will be fetched (maxRanges).
Open(r) ==
    /\ pc[r] = "opening" /\ stage = "there"
    /\ Save(r, [mem[r] EXCEPT !.status = "downloading", !.ranges = Valid(mem[r])])
    /\ \E some \in SUBSET (RangeIds \ Valid(mem[r])) :
          /\ some = {} => Valid(mem[r]) = RangeIds
          /\ todo' = some
    /\ pc' = [pc EXCEPT ![r] = "receiving"]
    /\ UNCHANGED <<policy, lock, cancelled, stage, bytes, files>>

\* A fetched range passes the gate and is written and synced.
Write(r, p) ==
    /\ pc[r] = "receiving" /\ r \notin cancelled /\ p \in todo
    /\ bytes' = [bytes EXCEPT ![p] = "good"]
    /\ mem' = [mem EXCEPT ![r].ranges = @ \cup {p}]
    /\ todo' = todo \ {p}
    /\ pc' = [pc EXCEPT ![r] = "listing"]
    /\ UNCHANGED <<policy, disk, lock, cancelled, stage, files>>

\* It reaches the manifest; the checkpoint that follows is at "receiving".
List(r) ==
    /\ pc[r] = "listing"
    /\ Save(r, mem[r])
    /\ Goto(r, "receiving")
    /\ UNCHANGED <<policy, stage, bytes, files>>

\* The ranges of this request are done and others are left.
Enough(r) ==
    /\ pc[r] = "receiving" /\ todo = {} /\ mem[r].ranges # RangeIds
    /\ Save(r, [mem[r] EXCEPT !.status = "paused"])
    /\ Return(r)
    /\ UNCHANGED <<policy, stage, bytes, files>>

\* replace takes the name; keepBoth takes the first one at which nothing exists.
FreeName(m, n) ==
    IF policy = "replace" \/ files[m.name] = "absent" THEN n = m.name ELSE files[n] = "absent"

\* All ranges are there: gate, digest, name, and the intention to publish.
Seal(r) ==
    /\ pc[r] = "receiving" /\ r \notin cancelled /\ todo = {} /\ mem[r].ranges = RangeIds
    /\ \E n \in Names :
          /\ FreeName(mem[r], n)
          /\ Save(r, [mem[r] EXCEPT !.status = "publishing", !.name = n])
    /\ Goto(r, "publishing")
    /\ UNCHANGED <<policy, stage, bytes, files>>

\* os.replace under either policy.
ReplaceAlways(n) == TRUE

\* os.replace takes the name, os.link fails when it exists.
MayTake(n) == policy = "replace" \/ files[n] = "absent"

\* os.replace moves the staged file; os.link leaves it to be removed.
Publish(r) ==
    /\ pc[r] = "publishing" /\ MayTake(mem[r].name)
    /\ files' = [files EXCEPT ![mem[r].name] = Staged]
    /\ IF policy = "replace"
       THEN stage' = "gone" /\ Goto(r, "completing")
       ELSE Goto(r, "unlinking") /\ UNCHANGED stage
    /\ UNCHANGED <<policy, disk, mem, bytes>>

Unlink(r) ==
    /\ pc[r] = "unlinking"
    /\ stage' = "gone"
    /\ Goto(r, "completing")
    /\ UNCHANGED <<policy, disk, mem, bytes, files>>

Complete(r) ==
    /\ pc[r] = "completing"
    /\ Save(r, [mem[r] EXCEPT !.status = "completed"])
    /\ Goto(r, "announcing")
    /\ UNCHANGED <<policy, stage, bytes, files>>

\* transfer_event('completed') honours a cancellation like any other checkpoint.
Announce(r) ==
    /\ pc[r] = "announcing" /\ r \notin cancelled
    /\ Return(r)
    /\ UNCHANGED <<policy, disk, mem, stage, bytes, files>>

\* Every interruption leaves a paused download; a status nobody else knows.
Paused(m) == [m EXCEPT !.status = "paused"]
Cancelled(m) == IF m.status = "publishing" THEN m ELSE [m EXCEPT !.status = "cancelled"]

\* A write that is broken off may leave part of a range that was still to be received.
BrokenOff(r) ==
    \/ UNCHANGED bytes
    \/ \E p \in todo : pc[r] = "receiving" /\ bytes' = [bytes EXCEPT ![p] = "torn"]

\* What an interrupted request records.
Interrupted(m) == IF m.status = "publishing" THEN m ELSE [m EXCEPT !.status = "paused"]

\* The staged file is removed with the failed request.
InterruptAndDiscard(r) ==
    /\ \/ pc[r] \in {"receiving", "announcing"} /\ r \in cancelled
       \/ pc[r] \in {"receiving", "publishing", "unlinking"}
    /\ Save(r, Interrupted(mem[r]))
    /\ Return(r)
    /\ stage' = "gone"
    /\ UNCHANGED <<policy, bytes, files>>

\* The except clause: a cancellation at a gate, or a failing fetch, write or publication.
Interrupt(r) ==
    /\ \/ pc[r] \in {"receiving", "announcing"} /\ r \in cancelled
       \/ pc[r] \in {"receiving", "publishing", "unlinking"}
    /\ Save(r, Interrupted(mem[r]))
    /\ Return(r)
    /\ BrokenOff(r)
    /\ UNCHANGED <<policy, stage, files>>

-----------------------------------------------------------------------------
(* The environment                                                         *)

\* cancelTransfer, while the job is registered.
Cancel(r) ==
    /\ pc[r] \in {"opening", "receiving", "listing", "publishing", "unlinking",
                  "completing", "announcing"}
    /\ cancelled' = cancelled \cup {r}
    /\ UNCHANGED <<policy, disk, mem, lock, pc, todo, stage, bytes, files>>

\* The process is killed.
Kill(r) ==
    /\ pc[r] \notin {"idle", "done", "dead"}
    /\ pc' = [pc EXCEPT ![r] = "dead"]
    /\ cancelled' = cancelled \ {r}
    /\ IF lock = r THEN lock' = Nobody /\ todo' = {} ELSE UNCHANGED <<lock, todo>>
    /\ BrokenOff(r)
    /\ UNCHANGED <<policy, disk, mem, stage, files>>

\* Somebody writes into the staged file while no request works on it.
Tamper ==
    /\ lock = Nobody /\ stage = "there"
    /\ \E p \in RangeIds : bytes[p] = "good" /\ bytes' = [bytes EXCEPT ![p] = "torn"]
    /\ UNCHANGED <<policy, disk, mem, requestVars, stage, files>>

\* Another file appears in the directory.
OtherFile ==
    /\ \E n \in Names : files[n] = "absent" /\ files' = [files EXCEPT ![n] = "other"]
    /\ UNCHANGED <<policy, disk, mem, requestVars, stage, bytes>>

RequestStep(r) ==
    \/ Start(r) \/ Prepare(r) \/ Ask(r) \/ Enter(r) \/ Unstage(r) \/ Record(r)
    \/ StageMissing(r) \/ Open(r) \/ List(r) \/ Enough(r) \/ Seal(r) \/ Publish(r)
    \/ Unlink(r) \/ Complete(r) \/ Announce(r) \/ Interrupt(r) \/ Cancel(r) \/ Kill(r)
    \/ \E p \in RangeIds : Write(r, p)

Next == Tamper \/ OtherFile \/ \E r \in Requests : RequestStep(r)

Spec == Init /\ [][Next]_vars
-----------------------------------------------------------------------------
(* Properties                                                              *)

Manifests ==
    [status : {"none", "prepared", "downloading", "paused", "publishing", "completed", "aborted"},
     ranges : SUBSET RangeIds, name : Names]

Places == {"idle", "staged", "resuming", "abortAsked", "aborting", "recognised", "recording",
           "opening", "receiving", "listing", "publishing", "unlinking", "completing",
           "announcing", "done", "dead"}

TypeOK ==
    /\ policy \in {"keepBoth", "replace"}
    /\ disk \in Manifests /\ mem \in [Requests -> Manifests]
    /\ lock \in Requests \cup {Nobody} /\ pc \in [Requests -> Places]
    /\ todo \subseteq RangeIds /\ cancelled \subseteq Requests
    /\ stage \in {"new", "there", "gone"}
    /\ bytes \in [RangeIds -> {"none", "good", "torn"}]
    /\ files \in [Names -> {"absent", "other", "ours", "damaged"}]

\* Only validated bytes are published: whatever was written before a kill, and
\* whatever became of the staged file between two requests, a file that is given
\* a name in the directory holds every range of the remote object.
OnlyValidatedPublished == \A n \in Names : files[n] # "damaged"

\* "Atomic, never overwrite a raced-in file": under keepBoth the file of somebody
\* else stays, also when it appears between the choice of the name and the link.
NothingOverwritten ==
    [][policy = "keepBoth" => \A n \in Names : files[n] = "other" => files'[n] = "other"]_vars

\* A download is published at most once, however often it is killed and resumed
\* between the link, the removal of the staged file and the last manifest.
PublishedOnce == \A m, n \in Published : m = n

\* What the manifest says at the end is so: a completed download has its file at
\* the name that the manifest gives, and no staged file is left behind.
EndedTruthfully ==
    /\ disk.status = "completed" => files[disk.name] \in {"ours", "damaged"} /\ stage = "gone"
    /\ disk.status = "aborted" => stage = "gone"

\* The bytes are never given up: a staged file only goes when the download was
\* published or an abort was asked for.
StageKept ==
    [][stage = "there" /\ stage' = "gone" =>
          (\E n \in Names : files'[n] \in {"ours", "damaged"}) \/ \E r \in Requests : pc[r] = "aborting"]_vars

\* "Preserve unrelated actions and completed results": a cancellation that comes
\* too late leaves the finished download as it is.  A manifest that says paused
\* cannot be resumed any more, its staged file is gone.
CompletedResultPreserved == Published # {} => disk.status # "paused"
=============================================================================
