--------------------------- MODULE RecoveryUpload ---------------------------
(***************************************************************************)
(* One recoverable S3 upload of the Python engine: its manifest on disk,   *)
(* the lock file that admits one request at a time, and the requests that  *)
(* start, resume and abort it (_transfer_recovery_action and               *)
(* _execute_recovery_upload, engines/python/src/main.py).                  *)
(*                                                                         *)
(* Requests run in engine processes that may be killed at any point; the   *)
(* operating system then releases the lock.  The provider may refuse a     *)
(* request, carry it out late, or carry it out and lose the answer.        *)
(* Replacing the manifest (a rename) is atomic and does not fail.  A pause *)
(* only delays a request at its gates and has no action of its own.        *)
(***************************************************************************)
EXTENDS Naturals

CONSTANTS
    Requests,           \* start, resume and abort requests
    PartIds,            \* parts of a file that is not empty
    None,               \* no upload, nobody
    FoundWhileStarting  \* may a request find the manifest that start has just
                        \* written and not yet locked?

ASSUME RecoveryAssumption ==
    /\ None \notin Requests
    /\ PartIds # {}
    /\ FoundWhileStarting \in BOOLEAN

VARIABLES
    policy,     \* conflictPolicy
    empty,      \* the file has no bytes
    changed,    \* the file differs from the identity in the manifest
    disk,       \* the manifest
    lock,       \* holder of the lock file
    pc,         \* where each request is
    mem,        \* each request's copy of the manifest
    cancelled,  \* requests whose job was cancelled
    worker,     \* what the pool of the holder does with each part
    upload,     \* the multipart upload that each request has created
    dispatched, \* requests that ever sent a completion
    inflight,   \* completions that the provider has not decided
    published,  \* requests whose completion was carried out
    dest        \* what is at the destination key

fileVars == <<policy, empty, changed>>
poolVars == <<cancelled, worker>>
objectVars == <<dispatched, inflight, published, dest>>
vars == <<fileVars, disk, lock, pc, mem, poolVars, upload, objectVars>>

\* What a part holds: nothing, bytes of the identified file, or others.
Contents == {"none", "identified", "other"}
NoParts == [p \in PartIds |-> "none"]
Manifest(status) == [status |-> status, upload |-> None, parts |-> NoParts, cleanup |-> FALSE]

Conditional == policy \in {"fail", "skip"}
Ended == {"completed", "skipped", "aborted"}
AtRest == {"idle", "done", "dead"}

Init ==
    /\ policy \in {"replace", "fail", "skip"} /\ empty \in BOOLEAN /\ changed = FALSE
    /\ disk = Manifest("none")
    /\ lock = None
    /\ pc = [r \in Requests |-> "idle"]
    /\ mem = [r \in Requests |-> Manifest("none")]
    /\ cancelled = {} /\ worker = [p \in PartIds |-> "none"]
    /\ upload = [r \in Requests |-> [state |-> "none", parts |-> NoParts]]
    /\ dispatched = {} /\ inflight = {} /\ published = {}
    /\ dest \in {"absent", "other"}

Goto(r, place) == pc' = [pc EXCEPT ![r] = place]

\* The request returns: its job leaves the registry, the lock is released.
Return(r) == Goto(r, "done") /\ lock' = None /\ cancelled' = cancelled \ {r}

\* The copy m of r replaces the manifest.
Save(r, m) == mem' = [mem EXCEPT ![r] = m] /\ disk' = m

-----------------------------------------------------------------------------
(* Requests arrive and take the lock                                       *)

\* A new upload: its manifest is written before its lock is taken.
Start(r) ==
    /\ pc[r] = "idle" /\ disk.status = "none"
    /\ Save(r, Manifest("prepared"))
    /\ Goto(r, "starting")
    /\ UNCHANGED <<fileVars, lock, poolVars, upload, objectVars>>

\* A request names a manifest that listTransferRecovery has shown.
Ask(r) ==
    /\ pc[r] = "idle" /\ disk.status # "none"
    /\ FoundWhileStarting \/ \A s \in Requests : pc[s] # "starting"
    /\ \E place \in {"resuming", "abortAsked"} : Goto(r, place)
    /\ UNCHANGED <<fileVars, disk, lock, mem, poolVars, upload, objectVars>>

\* A resume that takes an unknown completion up where it stood.
CourseReplaying(r, m) ==
    IF m.status \in Ended THEN "done"
    ELSE IF pc[r] = "abortAsked" THEN "aborting"
    ELSE IF m.status \in {"cancelled", "failed"} \/ changed THEN "done"
    ELSE "beginning"

\* What a request that has the lock and the manifest m goes on with.
Course(r, m) ==
    IF m.status = "completionUnknown" THEN "verifying"
    ELSE IF m.status \in Ended THEN "done"
    ELSE IF pc[r] = "abortAsked" THEN "aborting"
    ELSE IF m.status \in {"cancelled", "failed"} \/ changed THEN "done"
    ELSE "beginning"

\* The lock is tried once.  All but a start read the manifest under it.
Enter(r) ==
    /\ pc[r] \in {"starting", "resuming", "abortAsked"}
    /\ LET m == IF pc[r] = "starting" THEN mem[r] ELSE disk
           place == IF lock # None THEN "done" ELSE Course(r, m)
       IN  /\ Goto(r, place)
           /\ mem' = [mem EXCEPT ![r] = m]
           /\ lock' = IF place = "done" THEN lock ELSE r
    /\ UNCHANGED <<fileVars, disk, poolVars, upload, objectVars>>

-----------------------------------------------------------------------------
(* _execute_recovery_upload                                                *)

\* Behind the check of the destination.
Prepared(m) == IF empty THEN "sealing" ELSE IF m.upload = None THEN "creating" ELSE "listing"

\* An exception, to be recorded as why: what no worker has begun is cancelled.
Raise(r, m, why) ==
    /\ mem' = [mem EXCEPT ![r] = [m EXCEPT !.status = why]]
    /\ worker' = [p \in PartIds |-> IF worker[p] = "queued" THEN "none" ELSE worker[p]]
    /\ Goto(r, "draining")

Begin(r) ==
    /\ pc[r] = "beginning"
    /\ Save(r, [mem[r] EXCEPT !.status = "uploading"])
    /\ Goto(r, IF mem[r].upload = None /\ Conditional THEN "heading" ELSE Prepared(mem[r]))
    /\ UNCHANGED <<fileVars, lock, poolVars, upload, objectVars>>

\* HEAD of the destination under a policy that must not replace.
Head(r) ==
    /\ pc[r] = "heading"
    /\ \/ /\ dest = "absent" /\ Goto(r, Prepared(mem[r]))
          /\ UNCHANGED <<disk, lock, mem, poolVars>>
       \/ /\ dest # "absent" /\ policy = "skip"
          /\ Save(r, [mem[r] EXCEPT !.status = "skipped"])
          /\ Return(r)
          /\ UNCHANGED worker
       \/ Raise(r, mem[r], "failed") /\ UNCHANGED <<disk, lock, cancelled>>
    /\ UNCHANGED <<fileVars, upload, objectVars>>

\* The identifier in the answer, or an answer without one.
NoIdentifier(r) == "null"
Identifier(r) == r

\* The upload is created; its identifier is not in the manifest yet.
Create(r) ==
    /\ pc[r] = "creating"
    /\ \/ /\ upload' = [upload EXCEPT ![r].state = "open"]
          /\ mem' = [mem EXCEPT ![r].upload = Identifier(r)]
          /\ Goto(r, "saving")
          /\ UNCHANGED worker
       \/ /\ upload' \in {upload, [upload EXCEPT ![r].state = "open"]}
          /\ Raise(r, mem[r], "failed")
    /\ UNCHANGED <<fileVars, disk, lock, cancelled, objectVars>>

SaveIdentifier(r) ==
    /\ pc[r] = "saving"
    /\ Save(r, mem[r])
    /\ Goto(r, "listing")
    /\ UNCHANGED <<fileVars, lock, poolVars, upload, objectVars>>

\* Parts of the manifest that the provider has with the same content are kept.
List(r) ==
    /\ pc[r] = "listing"
    /\ \/ LET m == mem[r]
              kept == {p \in PartIds : m.parts[p] # "none" /\ upload[m.upload].parts[p] = m.parts[p]}
          IN  /\ upload[m.upload].state = "open"
              /\ Save(r, [m EXCEPT !.parts = [p \in PartIds |-> IF p \in kept THEN @[p] ELSE "none"]])
              /\ worker' = [p \in PartIds |-> IF p \in kept THEN "recorded" ELSE "queued"]
              /\ Goto(r, IF kept = PartIds THEN "sealing" ELSE "uploading")
       \/ Raise(r, mem[r], "failed") /\ UNCHANGED disk
    /\ UNCHANGED <<fileVars, lock, cancelled, upload, objectVars>>

\* A worker of the pool passes its gate.
BeginPart(r, p) ==
    /\ pc[r] = "uploading" /\ worker[p] = "queued"
    /\ worker' = [worker EXCEPT ![p] = IF r \in cancelled THEN "stopped" ELSE "sending"]
    /\ UNCHANGED <<fileVars, disk, lock, pc, mem, cancelled, upload, objectVars>>

\* The upload u with part p in it, as the file was when it was read.
WithPart(u, p) ==
    {[upload EXCEPT ![u].parts[p] = c] : c \in {"identified"} \cup IF changed THEN {"other"} ELSE {}}

EndPart(r, p) ==
    /\ pc[r] \in {"uploading", "draining"} /\ worker[p] = "sending"
    /\ \/ /\ upload' \in WithPart(mem[r].upload, p)
          /\ worker' = [worker EXCEPT ![p] = "sent"]
       \/ /\ upload' \in {upload} \cup WithPart(mem[r].upload, p)
          /\ worker' = [worker EXCEPT ![p] = "broken"]
    /\ UNCHANGED <<fileVars, disk, lock, pc, mem, cancelled, objectVars>>

\* A finished future: its part reaches the manifest and the checkpoint follows, or
\* its exception is raised.
Collect(r, p) ==
    /\ pc[r] = "uploading"
    /\ \/ LET m == [mem[r] EXCEPT !.parts[p] = upload[mem[r].upload].parts[p]]
          IN  /\ worker[p] = "sent"
              /\ disk' = m
              /\ \/ r \in cancelled /\ Raise(r, m, "cancelled")
                 \/ /\ r \notin cancelled
                    /\ mem' = [mem EXCEPT ![r] = m]
                    /\ worker' = [worker EXCEPT ![p] = "recorded"]
                    /\ Goto(r, IF \A q \in PartIds \ {p} : worker[q] = "recorded"
                               THEN "sealing" ELSE "uploading")
       \/ /\ worker[p] \in {"stopped", "broken"}
          /\ Raise(r, mem[r], IF worker[p] = "stopped" THEN "cancelled" ELSE "failed")
          /\ UNCHANGED disk
    /\ UNCHANGED <<fileVars, lock, cancelled, upload, objectVars>>

\* The file's identity just before completion; the mutant does not look again.
NotCompared == TRUE
SameFile == ~changed

\* Gate and identity of the file (not for an empty one), then the claim.
Seal(r) ==
    /\ pc[r] = "sealing"
    /\ \/ /\ empty \/ (r \notin cancelled /\ SameFile)
          /\ Save(r, [mem[r] EXCEPT !.status = "completionUnknown"])
          /\ Goto(r, "dispatching")
          /\ UNCHANGED worker
       \/ /\ ~empty
          /\ \/ r \in cancelled /\ Raise(r, mem[r], "cancelled")
             \/ ~SameFile /\ Raise(r, mem[r], "failed")
          /\ UNCHANGED disk
    /\ UNCHANGED <<fileVars, lock, cancelled, upload, objectVars>>

\* put_object of an empty file, complete_multipart_upload of another.
Dispatch(r) ==
    /\ pc[r] = "dispatching"
    /\ dispatched' = dispatched \cup {r} /\ inflight' = inflight \cup {r}
    /\ Goto(r, "completing")
    /\ UNCHANGED <<fileVars, disk, lock, mem, poolVars, upload, published, dest>>

\* HEAD shows the recovery id, the digest and the length of this upload; the
\* mutant takes any object for it.
AnyObject == dest # "absent"
OwnObject == dest \in {"identified", "mixture"}

\* After an answer, an error or a timeout: HEAD of the destination, which may fail.
Verify(r) ==
    /\ pc[r] \in {"completing", "verifying"}
    /\ \/ OwnObject /\ Save(r, [mem[r] EXCEPT !.status = "completed"])
       \/ Save(r, mem[r])
    /\ Return(r)
    /\ UNCHANGED <<fileVars, worker, upload, objectVars>>

-----------------------------------------------------------------------------
(* Giving up                                                               *)

\* The provider may have aborted u although it has not answered.
Aborted(u) ==
    [r \in Requests |-> IF r = u /\ upload[u].state = "open"
                        THEN [upload[u] EXCEPT !.state = "aborted"] ELSE upload[r]]

\* A failed abort is remembered as cleanupRequired; the mutant forgets it.
Forgotten(m) == m
NotCleaned(m) == [m EXCEPT !.cleanup = TRUE]

\* The exception path, when the pool has shut down.
CleanUp(r) ==
    /\ pc[r] = "draining"
    /\ \A p \in PartIds : worker[p] # "sending"
    /\ \/ upload' = Aborted(mem[r].upload) /\ UNCHANGED mem
       \/ /\ mem[r].upload # None
          /\ upload' \in {upload, Aborted(mem[r].upload)}
          /\ mem' = [mem EXCEPT ![r] = NotCleaned(@)]
    /\ Goto(r, "recording")
    /\ UNCHANGED <<fileVars, disk, lock, poolVars, objectVars>>

\* abortUpload: an error of the provider is the answer, nothing is recorded.
AbortUpload(r) ==
    /\ pc[r] = "aborting"
    /\ \/ /\ upload' = Aborted(mem[r].upload)
          /\ mem' = [mem EXCEPT ![r].status = "aborted"]
          /\ Goto(r, "recording")
          /\ UNCHANGED <<lock, cancelled>>
       \/ /\ mem[r].upload # None
          /\ upload' \in {upload, Aborted(mem[r].upload)}
          /\ Return(r)
          /\ UNCHANGED mem
    /\ UNCHANGED <<fileVars, disk, worker, objectVars>>

\* The outcome reaches the manifest.
Record(r) ==
    /\ pc[r] = "recording"
    /\ Save(r, mem[r])
    /\ Return(r)
    /\ UNCHANGED <<fileVars, worker, upload, objectVars>>

-----------------------------------------------------------------------------
(* The environment                                                         *)

\* cancelTransfer, while the job is registered and a gate may still see it.
Cancel(r) ==
    /\ pc[r] \in {"heading", "creating", "saving", "listing", "uploading", "sealing"}
    /\ cancelled' = cancelled \cup {r}
    /\ UNCHANGED <<fileVars, disk, lock, pc, mem, worker, upload, objectVars>>

\* The process of the request is killed.  A part on its way may still arrive.
Kill(r) ==
    /\ pc[r] \notin AtRest
    /\ Goto(r, "dead") /\ cancelled' = cancelled \ {r}
    /\ lock' = IF lock = r THEN None ELSE lock
    /\ worker' = IF lock = r THEN [p \in PartIds |-> "none"] ELSE worker
    /\ \/ UNCHANGED upload
       \/ \E p \in PartIds : /\ lock = r /\ worker[p] = "sending"
                             /\ upload' \in WithPart(mem[r].upload, p)
    /\ UNCHANGED <<fileVars, disk, mem, objectVars>>

\* If-None-Match: * is part of the completion; in the mutant it is not.
Unconditional == TRUE
IfNoneMatch == Conditional => dest = "absent"

\* A completion in flight is carried out.
Publish(r) ==
    /\ r \in inflight /\ IfNoneMatch
    /\ LET u == mem[r].upload
           bytes == {upload[u].parts[p] : p \in PartIds}
       IN  \/ empty /\ dest' = "identified" /\ UNCHANGED upload
           \/ /\ ~empty /\ upload[u].state = "open"
              /\ upload[u].parts = mem[r].parts /\ "none" \notin bytes
              /\ upload' = [upload EXCEPT ![u].state = "completed"]
              /\ dest' = IF "other" \in bytes THEN "mixture" ELSE "identified"
    /\ inflight' = inflight \ {r} /\ published' = published \cup {r}
    /\ UNCHANGED <<fileVars, disk, lock, pc, mem, poolVars, dispatched>>

\* It is refused, or never arrives.
Refuse(r) ==
    /\ r \in inflight /\ inflight' = inflight \ {r}
    /\ UNCHANGED <<fileVars, disk, lock, pc, mem, poolVars, upload, dispatched, published, dest>>

\* The file is edited; its identity never comes back.
ChangeFile ==
    /\ ~changed /\ changed' = TRUE
    /\ UNCHANGED <<policy, empty, disk, lock, pc, mem, poolVars, upload, objectVars>>

\* Somebody else writes the destination key.
OtherWrites ==
    /\ dest # "other" /\ dest' = "other"
    /\ UNCHANGED <<fileVars, disk, lock, pc, mem, poolVars, upload, dispatched, inflight, published>>

-----------------------------------------------------------------------------
RequestStep(r) ==
    \/ Start(r) \/ Ask(r) \/ Enter(r)
    \/ Begin(r) \/ Head(r) \/ Create(r) \/ SaveIdentifier(r) \/ List(r)
    \/ \E p \in PartIds : BeginPart(r, p) \/ EndPart(r, p) \/ Collect(r, p)
    \/ Seal(r) \/ Dispatch(r) \/ Verify(r)
    \/ CleanUp(r) \/ AbortUpload(r) \/ Record(r)

Environment ==
    \/ \E r \in Requests : Cancel(r) \/ Kill(r) \/ Publish(r) \/ Refuse(r)
    \/ ChangeFile \/ OtherWrites

Next == Environment \/ \E r \in Requests : RequestStep(r)

Spec == Init /\ [][Next]_vars

-----------------------------------------------------------------------------
(* Properties                                                              *)

Manifests ==
    [status: {"none", "prepared", "uploading", "completionUnknown", "completed", "skipped",
              "aborted", "cancelled", "failed"},
     upload: Requests \cup {None},
     parts: [PartIds -> Contents],
     cleanup: BOOLEAN]

Places ==
    AtRest \cup {"starting", "resuming", "abortAsked", "beginning", "heading", "creating",
                "saving", "listing", "uploading", "draining", "sealing", "dispatching",
                "completing", "verifying", "aborting", "recording"}

TypeOK ==
    /\ policy \in {"replace", "fail", "skip"} /\ empty \in BOOLEAN /\ changed \in BOOLEAN
    /\ disk \in Manifests
    /\ lock \in Requests \cup {None}
    /\ pc \in [Requests -> Places]
    /\ mem \in [Requests -> Manifests]
    /\ cancelled \subseteq Requests
    /\ worker \in [PartIds -> {"none", "queued", "sending", "sent", "stopped", "broken", "recorded"}]
    /\ upload \in [Requests -> [state: {"none", "open", "aborted", "completed"},
                                parts: [PartIds -> Contents]]]
    /\ dispatched \subseteq Requests /\ inflight \subseteq dispatched /\ published \subseteq dispatched
    /\ dest \in {"absent", "other", "identified", "mixture"}

\* "A killed process can never mistakenly replay a possibly successful
\* completion on resume": of all requests about one recovery identifier at most
\* one ever sends a completion, whatever is killed, cancelled or retried.
CompletionNotReplayed == \A r, s \in dispatched : r = s

\* The manifest and the provider together keep the promise of UploadPromise: the
\* object appears at most once, only under an unknown claim, never after the
\* upload was given up, and "completed" is true.
Claim ==
    CASE disk.status \in {"none", "prepared", "uploading"} -> "pending"
      [] disk.status = "completionUnknown" -> "unknown"
      [] disk.status = "completed" -> "completed"
      [] OTHER -> "givenUp"

Promise == INSTANCE UploadPromise WITH claim <- Claim
KeepsPromise == Promise!Spec

\* What is published is the file whose identity the manifest holds, although the
\* file may be edited while parts of it are read, before and after a restart.
PublishedAsIdentified == dest # "mixture"

\* Under "fail" and "skip" another writer's object is never replaced, although it
\* may appear after the destination was checked, or between two resumes.
NeverReplacesOthers == [][Conditional /\ dest = "other" => dest' = "other"]_vars

\* An upload that was given up is closed at the provider, or its manifest says
\* that it has to be cleaned up.
CleanupKnown ==
    disk.status \in {"failed", "cancelled", "aborted"} =>
        disk.upload = None \/ disk.cleanup \/ upload[disk.upload].state # "open"
=============================================================================
