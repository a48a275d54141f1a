------------------------ MODULE RecoveryUploadProofs ------------------------
(***************************************************************************)
(* Proofs about RecoveryUpload, for any numbers of requests and parts,     *)
(* when no request finds a manifest that start has written and not locked. *)
(* Every property rests on one inductive invariant, IInv; most steps are   *)
(* moves of the holder of the lock, of which MovesKeep says once why they  *)
(* preserve it.                                                            *)
(***************************************************************************)
EXTENDS RecoveryUpload, TLAPS

\* Where the holder of the lock may still give the upload up; where it has the lock.
Open == {"beginning", "heading", "creating", "saving", "listing", "uploading", "draining",
         "sealing", "aborting", "recording"}
Locked == Open \cup {"dispatching", "completing", "verifying"}

LockHeld == \A r \in Requests : pc[r] \in Locked <=> lock = r

\* Until its lock is taken, the request that starts the upload is alone with it.
StartAlone ==
    /\ disk.status = "none" => \A r \in Requests : pc[r] = "idle"
    /\ \A r \in Requests : pc[r] = "starting" =>
          /\ disk = Manifest("prepared") /\ mem[r] = disk
          /\ \A s \in Requests \ {r} : pc[s] = "idle"

\* What the holder of the lock knows of the manifest and of its copy.
Knows(r) ==
    /\ pc[r] \in Open => disk.status \in {"prepared", "uploading", "failed", "cancelled"}
    /\ pc[r] \in Open \ {"draining", "recording", "aborting"} =>
          /\ disk.status \in {"prepared", "uploading"}
          /\ mem[r].status \in {"prepared", "uploading"}
    /\ pc[r] \in {"draining", "recording"} => mem[r].status \in {"failed", "cancelled", "aborted"}
    /\ pc[r] \in {"dispatching", "completing", "verifying"} =>
          disk.status = "completionUnknown" /\ mem[r].status = "completionUnknown"
    /\ pc[r] \in {"saving", "listing", "uploading"} => mem[r].upload \in Requests

\* A completion has only been sent under an unknown or a completed claim, by a
\* request that does nothing more than look for its object, and is decided once.
Claimed ==
    /\ dispatched # {} => /\ disk.status \in {"completionUnknown", "completed"}
                          /\ \A r \in Requests : pc[r] # "dispatching"
    /\ \A r \in dispatched : pc[r] \in {"completing", "done", "dead"}
    /\ inflight \cap published = {}
    /\ dest \in {"identified", "mixture"} => published # {}
    /\ disk.status = "completed" => published # {}

\* Only a changed file gives other bytes, and a completion is only sent without them.
NoOther(parts) == \A p \in PartIds : parts[p] # "other"
BytesKnown ==
    /\ ~changed => /\ NoOther(disk.parts)
                   /\ \A r \in Requests : NoOther(upload[r].parts) /\ NoOther(mem[r].parts)
    /\ \A r \in Requests : r \in inflight \/ pc[r] = "dispatching" => empty \/ NoOther(mem[r].parts)

IInv ==
    /\ TypeOK
    /\ LockHeld
    /\ StartAlone
    /\ \A r \in Requests : Knows(r)
    /\ Claimed
    /\ CompletionNotReplayed
    /\ BytesKnown
    /\ PublishedAsIdentified

-----------------------------------------------------------------------------
(* Moves of the holder of the lock                                         *)

Workers == [PartIds -> {"none", "queued", "sending", "sent", "stopped", "broken", "recorded"}]
Upload == [state : {"none", "open", "aborted", "completed"}, parts : [PartIds -> Contents]]
Uploads == [Requests -> Upload]

\* r goes to a place with the copy m, and the manifest becomes d.
Moves(r, m, d, place) ==
    /\ mem' = [mem EXCEPT ![r] = m] /\ pc' = [pc EXCEPT ![r] = place]
    /\ lock' = IF place \in Locked THEN r ELSE None
    /\ disk' = d
    /\ cancelled' \subseteq cancelled /\ worker' \in Workers /\ upload' \in Uploads
    /\ UNCHANGED <<fileVars, objectVars>>

\* A move before the completion is dispatched.
LEMMA MovesKeep ==
  ASSUME IInv, NEW r \in Requests, pc[r] \in Open,
         NEW m \in Manifests, NEW d \in Manifests, NEW place \in Places \ {"idle", "starting"},
         Moves(r, m, d, place), d.status \notin {"none", "completed"}, Knows(r)',
         ~changed => /\ NoOther(m.parts) /\ NoOther(d.parts)
                     /\ \A q \in Requests : NoOther(upload'[q].parts),
         place = "dispatching" => empty \/ NoOther(m.parts)
  PROVE  IInv'
<1> USE RecoveryAssumption
<1>1. TypeOK'
  BY DEF IInv, TypeOK, Moves, Workers, Uploads, Upload, fileVars, objectVars, Locked
<1>2. mem'[r] = m /\ pc'[r] = place /\ \A q \in Requests \ {r} : mem'[q] = mem[q] /\ pc'[q] = pc[q]
  BY DEF IInv, TypeOK, Moves
<1>3. \A q \in Requests \ {r} : pc[q] \notin Locked
  BY DEF IInv, LockHeld, Locked
<1>4. dispatched = {} /\ inflight = {} /\ published = {}
  BY DEF IInv, TypeOK, Claimed, Knows, Open
<1>5. disk.status # "none" /\ \A q \in Requests : pc[q] # "starting"
  BY DEF IInv, StartAlone, Knows, Open
<1>6. LockHeld'
  BY <1>2, <1>3 DEF Moves, LockHeld, Locked, Open
<1>7. StartAlone'
  BY <1>2, <1>5 DEF Moves, StartAlone
<1>8. ASSUME NEW q \in Requests PROVE Knows(q)'
  <2>1. CASE q = r
    BY <2>1
  <2>2. CASE q # r
    BY <1>2, <1>3, <2>2 DEF Knows, Locked, Open
  <2> QED
    BY <2>1, <2>2
<1>9. Claimed'
  BY <1>4 DEF IInv, Moves, Claimed, objectVars
<1>10. CompletionNotReplayed' /\ PublishedAsIdentified'
  BY DEF IInv, Moves, objectVars, CompletionNotReplayed, PublishedAsIdentified
<1>11. BytesKnown'
  BY <1>2, <1>3, <1>4 DEF IInv, Moves, BytesKnown, NoOther, fileVars, objectVars, Locked
<1> QED
  BY <1>1, <1>6, <1>7, <1>8, <1>9, <1>10, <1>11 DEF IInv

\* What the holder of the lock relies on in every move.
Working == {"beginning", "heading", "creating", "saving", "listing", "uploading", "sealing"}

LEMMA WorkerKnows ==
  ASSUME IInv, NEW r \in Requests, pc[r] \in Working
  PROVE  /\ pc[r] \in Open /\ lock = r
         /\ mem[r] \in Manifests /\ mem[r].status \in {"prepared", "uploading"}
         /\ disk \in Manifests /\ disk.status \in {"prepared", "uploading"}
         /\ worker \in Workers /\ upload \in Uploads
         /\ mem \in [Requests -> Manifests] /\ pc \in [Requests -> Places]
         /\ ~changed => /\ NoOther(mem[r].parts) /\ NoOther(disk.parts)
                        /\ \A q \in Requests : NoOther(upload[q].parts)
<1>1. TypeOK /\ LockHeld /\ Knows(r) /\ BytesKnown
  BY DEF IInv
<1>2. pc[r] \in Open /\ pc[r] \in Locked
  BY DEF Working, Open, Locked
<1>3. lock = r
  BY <1>1, <1>2 DEF LockHeld
<1>4. mem[r].status \in {"prepared", "uploading"} /\ disk.status \in {"prepared", "uploading"}
  BY <1>1 DEF Knows, Working, Open
<1> QED
  BY <1>1, <1>2, <1>3, <1>4 DEF TypeOK, BytesKnown, Workers, Uploads, Upload

\* The exception path is entered, with the manifest d on the disk.
LEMMA RaiseKeeps ==
  ASSUME IInv, NEW r \in Requests, pc[r] \in Working,
         NEW n \in Manifests, NEW why \in {"failed", "cancelled"}, Raise(r, n, why),
         disk' \in Manifests, disk'.status \in {"prepared", "uploading"}, upload' \in Uploads,
         UNCHANGED <<fileVars, objectVars, lock, cancelled>>,
         ~changed => /\ NoOther(n.parts) /\ NoOther(disk'.parts)
                     /\ \A q \in Requests : NoOther(upload'[q].parts)
  PROVE  IInv'
<1> DEFINE m == [n EXCEPT !.status = why]
<1>1. m \in Manifests /\ m.status = why /\ m.parts = n.parts
  BY DEF Manifests
<1>2. /\ pc[r] \in Open
      /\ lock = r
      /\ worker \in Workers
      /\ mem \in [Requests -> Manifests]
      /\ pc \in [Requests -> Places]
  BY WorkerKnows
<1>3. worker' \in Workers
  BY <1>2 DEF Raise, Workers
<1>4. /\ mem' = [mem EXCEPT ![r] = m]
      /\ pc' = [pc EXCEPT ![r] = "draining"]
      /\ mem'[r] = m
      /\ pc'[r] = "draining"
  BY <1>2 DEF Raise, Goto
<1>5. /\ "draining" \in Places \ {"idle", "starting"}
      /\ "draining" \in Locked
      /\ cancelled' \subseteq cancelled
  BY DEF Places, Locked, Open
<1>6. Moves(r, m, disk', "draining")
  BY <1>2, <1>3, <1>4, <1>5 DEF Moves
<1>7. Knows(r)'
  BY <1>1, <1>4 DEF Knows, Open
<1> HIDE DEF m
<1> QED
  BY <1>1, <1>2, <1>5, <1>6, <1>7, MovesKeep

\* The request notes that it is uploading.
LEMMA BeginKeeps ==
  ASSUME IInv, NEW r \in Requests, Begin(r)
  PROVE  IInv'
<1> DEFINE m == [mem[r] EXCEPT !.status = "uploading"]
           place == IF mem[r].upload = None /\ Conditional THEN "heading" ELSE Prepared(mem[r])
<1>1. pc[r] \in Working
  BY DEF Begin, Working
<1>2. /\ m \in Manifests
      /\ m.status = "uploading"
      /\ m.parts = mem[r].parts
      /\ m.upload = mem[r].upload
  BY <1>1, WorkerKnows DEF Manifests
<1>3. /\ place \in {"heading", "sealing", "creating", "listing"}
      /\ (place = "listing" => m.upload \in Requests)
  BY <1>2 DEF Prepared, Manifests
<1>4. place \in Places \ {"idle", "starting"} /\ place \in Locked
  BY <1>3 DEF Places, Locked, Open
<1>5. /\ disk' = m
      /\ mem' = [mem EXCEPT ![r] = m]
      /\ pc' = [pc EXCEPT ![r] = place]
      /\ mem'[r] = m
      /\ pc'[r] = place
  BY <1>1, WorkerKnows DEF Begin, Save, Goto
<1>6. Moves(r, m, m, place)
  BY <1>1, <1>4, <1>5, WorkerKnows DEF Begin, Moves, poolVars
<1>7. Knows(r)'
  BY <1>2, <1>3, <1>5 DEF Knows, Open
<1>8. ~changed => NoOther(m.parts) /\ \A q \in Requests : NoOther(upload'[q].parts)
  BY <1>1, <1>2, WorkerKnows DEF Begin
<1> HIDE DEF m, place
<1> QED
  BY <1>1, <1>2, <1>3, <1>4, <1>6, <1>7, <1>8, WorkerKnows, MovesKeep

\* The destination is free, or the upload is skipped or fails.
LEMMA HeadKeeps ==
  ASSUME IInv, NEW r \in Requests, Head(r)
  PROVE  IInv'
<1> DEFINE m == [mem[r] EXCEPT !.status = "skipped"]
           place == Prepared(mem[r])
<1>1. pc[r] \in Working /\ UNCHANGED <<fileVars, upload, objectVars>>
  BY DEF Head, Working
<1>2. CASE Goto(r, place) /\ UNCHANGED <<disk, lock, mem, poolVars>>
  <2>1. /\ place \in {"sealing", "creating", "listing"}
        /\ (place = "listing" => mem[r].upload \in Requests)
    BY <1>1, WorkerKnows DEF Prepared, Manifests
  <2>2. place \in Places \ {"idle", "starting"} /\ place \in Locked
    BY <2>1 DEF Places, Locked, Open
  <2>3. pc' = [pc EXCEPT ![r] = place] /\ pc'[r] = place /\ mem' = [mem EXCEPT ![r] = mem[r]]
    BY <1>1, <1>2, WorkerKnows DEF Goto
  <2>4. Moves(r, mem[r], disk, place)
    BY <1>1, <1>2, <2>2, <2>3, WorkerKnows DEF Moves, poolVars
  <2>5. Knows(r)'
    BY <1>1, <1>2, <2>1, <2>3, WorkerKnows DEF Knows, Open
  <2> HIDE DEF place
  <2> QED
    BY <1>1, <2>1, <2>2, <2>4, <2>5, WorkerKnows, MovesKeep
<1>3. CASE Save(r, m) /\ Return(r) /\ UNCHANGED worker
  <2>1. m \in Manifests /\ m.status = "skipped" /\ m.parts = mem[r].parts
    BY <1>1, WorkerKnows DEF Manifests
  <2>2. "done" \in Places \ {"idle", "starting"} /\ "done" \notin Locked
    BY DEF Places, AtRest, Locked, Open
  <2>3. Moves(r, m, m, "done") /\ pc'[r] = "done"
    BY <1>1, <1>3, <2>2, WorkerKnows DEF Moves, Save, Return, Goto
  <2>4. Knows(r)'
    BY <2>3 DEF Knows, Open
  <2> HIDE DEF m
  <2> QED
    BY <1>1, <2>1, <2>2, <2>3, <2>4, WorkerKnows, MovesKeep
<1>4. CASE Raise(r, mem[r], "failed") /\ UNCHANGED <<disk, lock, cancelled>>
  BY <1>1, <1>4, WorkerKnows, RaiseKeeps
<1> QED
  BY <1>2, <1>3, <1>4 DEF Head

\* The upload is created, or not, or nobody knows.
LEMMA CreateKeeps ==
  ASSUME IInv, NEW r \in Requests, Create(r)
  PROVE  IInv'
<1> DEFINE m == [mem[r] EXCEPT !.upload = r]
<1>1. pc[r] \in Working /\ UNCHANGED <<fileVars, disk, lock, cancelled, objectVars>>
  BY DEF Create, Working
<1>2. upload' \in {upload, [upload EXCEPT ![r].state = "open"]}
  BY DEF Create
<1>3. upload' \in Uploads /\ \A q \in Requests : upload'[q].parts = upload[q].parts
  <2>1. upload[r] \in Upload
    BY <1>1, WorkerKnows DEF Uploads, Upload
  <2>2. /\ [upload[r] EXCEPT !.state = "open"] \in Upload
        /\ [upload[r] EXCEPT !.state = "open"].parts = upload[r].parts
    BY <2>1 DEF Upload
  <2> QED
    BY <1>1, <1>2, <2>2, WorkerKnows DEF Uploads, Upload
<1>4. CASE /\ mem' = [mem EXCEPT ![r].upload = Identifier(r)]
           /\ Goto(r, "saving")
           /\ UNCHANGED worker
  <2>1. m \in Manifests /\ m.status = mem[r].status /\ m.parts = mem[r].parts /\ m.upload = r
    BY <1>1, WorkerKnows DEF Manifests
  <2>2. mem' = [mem EXCEPT ![r] = m] /\ mem'[r] = m /\ pc'[r] = "saving"
    BY <1>1, <1>4, WorkerKnows DEF Goto, Identifier
  <2>3. "saving" \in Places \ {"idle", "starting"} /\ "saving" \in Locked
    BY DEF Places, Locked, Open
  <2>4. Moves(r, m, disk, "saving")
    BY <1>1, <1>3, <1>4, <2>2, <2>3, WorkerKnows DEF Moves, Goto
  <2>5. Knows(r)'
    BY <1>1, <2>1, <2>2, WorkerKnows DEF Knows, Open
  <2> HIDE DEF m
  <2> QED
    BY <1>1, <1>3, <2>1, <2>3, <2>4, <2>5, WorkerKnows, MovesKeep
<1>5. CASE Raise(r, mem[r], "failed")
  BY <1>1, <1>3, <1>5, WorkerKnows, RaiseKeeps
<1> QED
  BY <1>4, <1>5 DEF Create

\* The identifier reaches the manifest.
LEMMA SaveIdentifierKeeps ==
  ASSUME IInv, NEW r \in Requests, SaveIdentifier(r)
  PROVE  IInv'
<1>1. pc[r] \in Working /\ pc[r] = "saving"
  BY DEF SaveIdentifier, Working
<1>2. /\ mem' = [mem EXCEPT ![r] = mem[r]]
      /\ mem'[r] = mem[r]
      /\ disk' = mem[r]
      /\ pc'[r] = "listing"
  BY <1>1, WorkerKnows DEF SaveIdentifier, Save, Goto
<1>3. "listing" \in Places \ {"idle", "starting"} /\ "listing" \in Locked
  BY DEF Places, Locked, Open
<1>4. Moves(r, mem[r], mem[r], "listing")
  BY <1>1, <1>2, <1>3, WorkerKnows DEF Moves, SaveIdentifier, Goto, poolVars
<1>5. mem[r].upload \in Requests
  BY <1>1 DEF IInv, Knows
<1>6. Knows(r)'
  BY <1>1, <1>2, <1>5, WorkerKnows DEF Knows, Open
<1> QED
  BY <1>1, <1>3, <1>4, <1>6, WorkerKnows, MovesKeep DEF SaveIdentifier

\* What the provider does not have is sent again.
LEMMA ListKeeps ==
  ASSUME IInv, NEW r \in Requests, List(r)
  PROVE  IInv'
<1> DEFINE kept == {p \in PartIds : /\ mem[r].parts[p] # "none"
                                    /\ upload[mem[r].upload].parts[p] = mem[r].parts[p]}
           m == [mem[r] EXCEPT !.parts = [p \in PartIds |-> IF p \in kept THEN @[p] ELSE "none"]]
           place == IF kept = PartIds THEN "sealing" ELSE "uploading"
<1>1. /\ pc[r] \in Working
      /\ pc[r] = "listing"
      /\ UNCHANGED <<fileVars, lock, cancelled, upload, objectVars>>
  BY DEF List, Working
<1>2. CASE /\ Save(r, m) /\ Goto(r, place)
           /\ worker' = [p \in PartIds |-> IF p \in kept THEN "recorded" ELSE "queued"]
  <2>1. /\ m \in Manifests /\ m.status = mem[r].status /\ m.upload = mem[r].upload
        /\ \A p \in PartIds : m.parts[p] \in {mem[r].parts[p], "none"}
    BY <1>1, WorkerKnows DEF Manifests, Contents
  <2>2. /\ mem' = [mem EXCEPT ![r] = m]
        /\ mem'[r] = m
        /\ disk' = m
        /\ pc' = [pc EXCEPT ![r] = place]
        /\ pc'[r] = place
    BY <1>1, <1>2, WorkerKnows DEF Save, Goto
  <2>3. /\ place \in {"sealing", "uploading"}
        /\ place \in Places \ {"idle", "starting"}
        /\ place \in Locked
    BY DEF Places, Locked, Open
  <2>4. worker' \in Workers
    BY <1>2 DEF Workers
  <2> HIDE DEF m, place, kept
  <2>5. Moves(r, m, m, place)
    BY <1>1, <2>2, <2>3, <2>4, WorkerKnows DEF Moves
  <2>6. mem[r].upload \in Requests
    BY <1>1 DEF IInv, Knows
  <2>7. Knows(r)'
    BY <1>1, <2>1, <2>2, <2>3, <2>6, WorkerKnows DEF Knows, Open
  <2>8. ~changed => NoOther(m.parts)
    BY <1>1, <2>1, WorkerKnows DEF NoOther
  <2> QED
    BY <1>1, <2>1, <2>3, <2>5, <2>7, <2>8, WorkerKnows, MovesKeep
<1>3. CASE Raise(r, mem[r], "failed") /\ UNCHANGED disk
  BY <1>1, <1>3, WorkerKnows, RaiseKeeps
<1> QED
  BY <1>2, <1>3 DEF List

\* A part reaches the manifest, or its exception is raised.
LEMMA CollectKeeps ==
  ASSUME IInv, NEW r \in Requests, NEW p \in PartIds, Collect(r, p)
  PROVE  IInv'
<1> DEFINE m == [mem[r] EXCEPT !.parts[p] = upload[mem[r].upload].parts[p]]
           place == IF \A q \in PartIds \ {p} : worker[q] = "recorded" THEN "sealing" ELSE "uploading"
<1>1. /\ pc[r] \in Working
      /\ pc[r] = "uploading"
      /\ UNCHANGED <<fileVars, lock, cancelled, upload, objectVars>>
  BY DEF Collect, Working
<1>2. mem[r].upload \in Requests
  BY <1>1 DEF IInv, Knows
<1>3. upload[mem[r].upload].parts[p] \in Contents
  BY <1>1, <1>2, WorkerKnows DEF Uploads, Upload
<1>4. /\ m \in Manifests /\ m.status = mem[r].status /\ m.upload = mem[r].upload
      /\ \A q \in PartIds : m.parts[q] \in {mem[r].parts[q], upload[mem[r].upload].parts[p]}
  BY <1>1, <1>3, WorkerKnows DEF Manifests
<1>5. ~changed => NoOther(m.parts)
  BY <1>1, <1>2, <1>4, WorkerKnows DEF NoOther
<1>6. CASE /\ disk' = m /\ mem' = [mem EXCEPT ![r] = m]
           /\ worker' = [worker EXCEPT ![p] = "recorded"] /\ Goto(r, place)
  <2>1. /\ place \in {"sealing", "uploading"}
        /\ place \in Places \ {"idle", "starting"}
        /\ place \in Locked
    BY DEF Places, Locked, Open
  <2>2. worker' \in Workers
    BY <1>1, <1>6, WorkerKnows DEF Workers
  <2>3. mem'[r] = m /\ pc' = [pc EXCEPT ![r] = place] /\ pc'[r] = place
    BY <1>1, <1>6, WorkerKnows DEF Goto
  <2> HIDE DEF m, place
  <2>4. Moves(r, m, m, place)
    BY <1>1, <1>6, <2>1, <2>2, <2>3, WorkerKnows DEF Moves
  <2>5. Knows(r)'
    BY <1>1, <1>2, <1>4, <1>6, <2>1, <2>3, WorkerKnows DEF Knows, Open
  <2> QED
    BY <1>1, <1>4, <1>5, <2>1, <2>4, <2>5, WorkerKnows, MovesKeep
<1>7. CASE disk' = m /\ Raise(r, m, "cancelled")
  <2> HIDE DEF m
  <2> QED
    BY <1>1, <1>4, <1>5, <1>7, WorkerKnows, RaiseKeeps
<1>8. CASE disk' = disk /\ \E why \in {"cancelled", "failed"} : Raise(r, mem[r], why)
  BY <1>1, <1>8, WorkerKnows, RaiseKeeps
<1> QED
  BY <1>6, <1>7, <1>8 DEF Collect

\* The claim is written, or the file or the job says no.
LEMMA SealKeeps ==
  ASSUME IInv, NEW r \in Requests, Seal(r)
  PROVE  IInv'
<1> DEFINE m == [mem[r] EXCEPT !.status = "completionUnknown"]
<1>1. pc[r] \in Working /\ UNCHANGED <<fileVars, lock, cancelled, upload, objectVars>>
  BY DEF Seal, Working
<1>2. CASE (empty \/ ~changed) /\ Save(r, m) /\ Goto(r, "dispatching") /\ UNCHANGED worker
  <2>1. m \in Manifests /\ m.status = "completionUnknown" /\ m.parts = mem[r].parts
    BY <1>1, WorkerKnows DEF Manifests
  <2>2. mem' = [mem EXCEPT ![r] = m] /\ mem'[r] = m /\ disk' = m /\ pc'[r] = "dispatching"
    BY <1>1, <1>2, WorkerKnows DEF Save, Goto
  <2>3. "dispatching" \in Places \ {"idle", "starting"} /\ "dispatching" \in Locked
    BY DEF Places, Locked
  <2>4. Moves(r, m, m, "dispatching")
    BY <1>1, <1>2, <2>2, <2>3, WorkerKnows DEF Moves, Goto
  <2>5. Knows(r)'
    BY <2>1, <2>2 DEF Knows, Open
  <2> HIDE DEF m
  <2> QED
    BY <1>1, <1>2, <2>1, <2>3, <2>4, <2>5, WorkerKnows, MovesKeep
<1>3. CASE UNCHANGED disk /\ \E why \in {"cancelled", "failed"} : Raise(r, mem[r], why)
  BY <1>1, <1>3, WorkerKnows, RaiseKeeps
<1> QED
  BY <1>2, <1>3 DEF Seal, SameFile

\* What the holder relies on when it gives the upload up.
LEMMA GivingUpKnows ==
  ASSUME IInv, NEW r \in Requests, pc[r] \in {"draining", "aborting", "recording"}
  PROVE  /\ pc[r] \in Open /\ lock = r
         /\ mem[r] \in Manifests
         /\ pc[r] # "aborting" => mem[r].status \in {"failed", "cancelled", "aborted"}
         /\ disk \in Manifests /\ disk.status \in {"prepared", "uploading", "failed", "cancelled"}
         /\ worker \in Workers /\ upload \in Uploads
         /\ mem \in [Requests -> Manifests] /\ pc \in [Requests -> Places]
         /\ ~changed => /\ NoOther(mem[r].parts) /\ NoOther(disk.parts)
                        /\ \A q \in Requests : NoOther(upload[q].parts)
<1>1. TypeOK /\ LockHeld /\ Knows(r) /\ BytesKnown
  BY DEF IInv
<1>2. pc[r] \in Open /\ pc[r] \in Locked
  BY DEF Open, Locked
<1>3. lock = r
  BY <1>1, <1>2 DEF LockHeld
<1> QED
  BY <1>1, <1>2, <1>3 DEF Knows, TypeOK, BytesKnown, Workers, Uploads, Upload

\* Aborting an upload leaves the parts as they are.
LEMMA AbortedUploads ==
  ASSUME upload \in Uploads, NEW u
  PROVE  Aborted(u) \in Uploads /\ \A q \in Requests : Aborted(u)[q].parts = upload[q].parts
  BY DEF Aborted, Uploads, Upload

\* The multipart upload is aborted, or remembered as still open.
LEMMA CleanUpKeeps ==
  ASSUME IInv, NEW r \in Requests, CleanUp(r)
  PROVE  IInv'
<1>1. /\ pc[r] = "draining"
      /\ pc' = [pc EXCEPT ![r] = "recording"]
      /\ UNCHANGED <<fileVars, disk, lock, poolVars, objectVars>>
  BY DEF CleanUp, Goto
<1>2. PICK m \in {mem[r], NotCleaned(mem[r])} : mem' = [mem EXCEPT ![r] = m]
  BY <1>1, GivingUpKnows DEF CleanUp
<1>3. m \in Manifests /\ m.status = mem[r].status /\ m.parts = mem[r].parts
  BY <1>1, GivingUpKnows DEF NotCleaned, Manifests
<1>4. upload' \in Uploads /\ \A q \in Requests : upload'[q].parts = upload[q].parts
  BY <1>1, GivingUpKnows, AbortedUploads DEF CleanUp
<1>5. "recording" \in Places \ {"idle", "starting"} /\ "recording" \in Locked
  BY DEF Places, Locked, Open
<1>6. Moves(r, m, disk, "recording") /\ pc'[r] = "recording" /\ mem'[r] = m
  BY <1>1, <1>2, <1>4, <1>5, GivingUpKnows DEF Moves, poolVars
<1>7. Knows(r)'
  BY <1>1, <1>3, <1>6, GivingUpKnows DEF Knows, Open
<1> QED
  BY <1>1, <1>3, <1>4, <1>5, <1>6, <1>7, GivingUpKnows, MovesKeep

\* The user gives the upload up.
LEMMA AbortUploadKeeps ==
  ASSUME IInv, NEW r \in Requests, AbortUpload(r)
  PROVE  IInv'
<1> DEFINE m == [mem[r] EXCEPT !.status = "aborted"]
<1>1. pc[r] = "aborting" /\ UNCHANGED <<fileVars, disk, worker, objectVars>>
  BY DEF AbortUpload
<1>2. upload' \in Uploads /\ \A q \in Requests : upload'[q].parts = upload[q].parts
  BY <1>1, GivingUpKnows, AbortedUploads DEF AbortUpload
<1>3. CASE /\ mem' = [mem EXCEPT ![r].status = "aborted"]
           /\ Goto(r, "recording")
           /\ UNCHANGED <<lock, cancelled>>
  <2>1. m \in Manifests /\ m.status = "aborted" /\ m.parts = mem[r].parts
    BY <1>1, GivingUpKnows DEF Manifests
  <2>2. "recording" \in Places \ {"idle", "starting"} /\ "recording" \in Locked
    BY DEF Places, Locked, Open
  <2>3. Moves(r, m, disk, "recording") /\ pc'[r] = "recording" /\ mem'[r] = m
    BY <1>1, <1>2, <1>3, <2>2, GivingUpKnows DEF Moves, Goto
  <2>4. Knows(r)'
    BY <1>1, <2>1, <2>3, GivingUpKnows DEF Knows, Open
  <2> HIDE DEF m
  <2> QED
    BY <1>1, <1>2, <2>1, <2>2, <2>3, <2>4, GivingUpKnows, MovesKeep
<1>4. CASE Return(r) /\ UNCHANGED mem
  <2>1. "done" \in Places \ {"idle", "starting"} /\ "done" \notin Locked
    BY DEF Places, AtRest, Locked, Open
  <2>2. Moves(r, mem[r], disk, "done") /\ pc'[r] = "done"
    BY <1>1, <1>2, <1>4, <2>1, GivingUpKnows DEF Moves, Return, Goto
  <2>3. Knows(r)'
    BY <2>2 DEF Knows, Open
  <2> QED
    BY <1>1, <1>2, <2>1, <2>2, <2>3, GivingUpKnows, MovesKeep
<1> QED
  BY <1>3, <1>4 DEF AbortUpload

\* The outcome reaches the manifest.
LEMMA RecordKeeps ==
  ASSUME IInv, NEW r \in Requests, Record(r)
  PROVE  IInv'
<1>1. /\ pc[r] = "recording"
      /\ UNCHANGED <<fileVars, worker, upload, objectVars>>
      /\ Save(r, mem[r])
      /\ Return(r)
  BY DEF Record
<1>2. "done" \in Places \ {"idle", "starting"} /\ "done" \notin Locked
  BY DEF Places, AtRest, Locked, Open
<1>3. Moves(r, mem[r], mem[r], "done") /\ pc'[r] = "done"
  BY <1>1, <1>2, GivingUpKnows DEF Moves, Save, Return, Goto
<1>4. Knows(r)'
  BY <1>3 DEF Knows, Open
<1> QED
  BY <1>1, <1>2, <1>3, <1>4, GivingUpKnows, MovesKeep

-----------------------------------------------------------------------------
(* Requests before they have the lock, and at the completion               *)

\* A part that arrives is of the identified file, unless the file was changed.
LEMMA ArrivedPart ==
  ASSUME upload \in Uploads, NEW u, NEW p \in PartIds, upload' \in WithPart(u, p)
  PROVE  /\ upload' \in Uploads
         /\ ~changed /\ (\A q \in Requests : NoOther(upload[q].parts))
              => \A q \in Requests : NoOther(upload'[q].parts)
<1>1. PICK c \in {"identified"} \cup (IF changed THEN {"other"} ELSE {}) :
          upload' = [upload EXCEPT ![u].parts[p] = c]
  BY DEF WithPart
<1>2. ASSUME NEW q \in Requests
      PROVE  upload[q] \in Upload /\ upload'[q] \in {upload[q], [upload[q] EXCEPT !.parts[p] = c]}
  BY <1>1 DEF Uploads, Upload
<1>3. c \in Contents
  BY DEF Contents
<1>4. ASSUME NEW q \in Requests
      PROVE  /\ upload'[q] \in Upload
             /\ \A x \in PartIds : upload'[q].parts[x] \in {upload[q].parts[x], c}
  BY <1>2, <1>3 DEF Upload
<1>5. upload' \in Uploads
  BY <1>1, <1>4 DEF Uploads, Upload
<1> QED
  BY <1>4, <1>5 DEF NoOther

\* The first manifest is written by a request that is alone.
LEMMA StartKeeps ==
  ASSUME IInv, NEW r \in Requests, Start(r)
  PROVE  IInv'
<1>1. TypeOK'
  BY DEF IInv, TypeOK, Manifests, Places, AtRest, Start, Save, Goto, Manifest, NoParts,
     Contents, fileVars, poolVars, objectVars
<1>2. LockHeld'
  BY DEF IInv, LockHeld, Locked, Open, TypeOK, Start, Goto
<1>3. StartAlone'
  BY DEF IInv, StartAlone, TypeOK, Start, Goto, Save, Manifest
<1>4. \A q \in Requests : Knows(q)'
  BY DEF IInv, StartAlone, Knows, Open, TypeOK, Start, Goto
<1>5. Claimed'
  BY DEF IInv, Claimed, TypeOK, Start, Save, Manifest, objectVars
<1>6. BytesKnown'
  BY DEF IInv, BytesKnown, StartAlone, Claimed, TypeOK, NoOther, Start, Goto, Save, Manifest,
     NoParts, fileVars, objectVars
<1> QED
  BY <1>1, <1>2, <1>3, <1>4, <1>5, <1>6
     DEF IInv, Start, CompletionNotReplayed, PublishedAsIdentified, objectVars

\* A manifest is only found when its lock has been taken before.
LEMMA AskKeeps ==
  ASSUME ~FoundWhileStarting, IInv, NEW r \in Requests, Ask(r)
  PROVE  IInv'
<1>1. TypeOK'
  BY DEF IInv, TypeOK, Places, AtRest, Ask, Goto, fileVars, poolVars, objectVars
<1>2. LockHeld'
  BY DEF IInv, LockHeld, Locked, Open, TypeOK, Ask, Goto
<1>3. StartAlone'
  BY DEF IInv, StartAlone, TypeOK, Ask, Goto
<1>4. \A q \in Requests : Knows(q)'
  BY DEF IInv, Knows, Open, TypeOK, Ask, Goto
<1>5. Claimed' /\ BytesKnown'
  BY DEF IInv, Claimed, BytesKnown, TypeOK, Ask, Goto, fileVars, objectVars
<1> QED
  BY <1>1, <1>2, <1>3, <1>4, <1>5
     DEF IInv, Ask, CompletionNotReplayed, PublishedAsIdentified, objectVars

\* With the lock comes a copy of the manifest as it is.
LEMMA EnterKeeps ==
  ASSUME IInv, NEW r \in Requests, Enter(r)
  PROVE  IInv'
<1> USE RecoveryAssumption
<1> DEFINE m == IF pc[r] = "starting" THEN mem[r] ELSE disk
           place == IF lock # None THEN "done" ELSE Course(r, m)
<1>1. m = disk /\ m \in Manifests
  BY DEF IInv, StartAlone, TypeOK
<1>2. /\ mem' = [mem EXCEPT ![r] = disk] /\ pc' = [pc EXCEPT ![r] = place]
      /\ lock' = (IF place = "done" THEN lock ELSE r)
      /\ UNCHANGED <<fileVars, disk, poolVars, upload, objectVars>>
  BY <1>1 DEF Enter, Goto
<1>3. /\ place \in {"done", "verifying", "aborting", "beginning"}
      /\ place # "done" => lock = None /\ disk.status \notin Ended
      /\ place = "verifying" => disk.status = "completionUnknown"
      /\ place \in {"aborting", "beginning"} => disk.status # "completionUnknown"
      /\ place = "beginning" => disk.status \notin {"cancelled", "failed"}
  BY <1>1 DEF Course, Ended
<1>4. pc[r] \in {"starting", "resuming", "abortAsked"} /\ disk.status # "none"
  BY DEF IInv, StartAlone, Enter, Manifest
<1> HIDE DEF m, place
<1>5. TypeOK'
  BY <1>1, <1>2, <1>3 DEF IInv, TypeOK, Places, AtRest, fileVars, poolVars, objectVars
<1>6. /\ mem'[r] = disk /\ pc'[r] = place
      /\ \A q \in Requests \ {r} : mem'[q] = mem[q] /\ pc'[q] = pc[q]
  BY <1>2 DEF IInv, TypeOK
<1>7. LockHeld'
  BY <1>2, <1>3, <1>4, <1>6 DEF IInv, TypeOK, LockHeld, Locked, Open
<1>8. StartAlone'
  BY <1>2, <1>3, <1>4, <1>6 DEF IInv, StartAlone
<1>9. Knows(r)'
  BY <1>1, <1>2, <1>3, <1>4, <1>6 DEF Knows, Open, Ended, Manifests
<1>10. \A q \in Requests \ {r} : Knows(q)'
  BY <1>2, <1>6 DEF IInv, Knows, Open
<1>11. Claimed'
  BY <1>2, <1>3, <1>4, <1>6 DEF IInv, Claimed, objectVars
<1>12. BytesKnown'
  <2>1. ~changed => /\ NoOther(disk.parts)
                    /\ \A q \in Requests : NoOther(mem[q].parts) /\ NoOther(upload[q].parts)
    BY DEF IInv, BytesKnown
  <2> QED
    BY <1>2, <1>3, <1>4, <1>6, <2>1
       DEF IInv, TypeOK, Claimed, BytesKnown, NoOther, fileVars, objectVars
<1> QED
  BY <1>2, <1>5, <1>7, <1>8, <1>9, <1>10, <1>11, <1>12
     DEF IInv, CompletionNotReplayed, PublishedAsIdentified, objectVars

\* A worker passes its gate.
LEMMA BeginPartKeeps ==
  ASSUME IInv, NEW r \in Requests, NEW p \in PartIds, BeginPart(r, p)
  PROVE  IInv'
<1>1. TypeOK'
  BY DEF IInv, TypeOK, BeginPart, fileVars, objectVars
<1> QED
  BY <1>1 DEF IInv, BeginPart, fileVars, objectVars, LockHeld, StartAlone, Knows, Claimed,
     BytesKnown,
     CompletionNotReplayed, PublishedAsIdentified

\* A part is sent, or its request breaks off.
LEMMA EndPartKeeps ==
  ASSUME IInv, NEW r \in Requests, NEW p \in PartIds, EndPart(r, p)
  PROVE  IInv'
<1>1. upload \in Uploads /\ BytesKnown
  BY DEF IInv, TypeOK, Uploads, Upload
<1>2. upload' \in {upload} \cup WithPart(mem[r].upload, p)
  BY DEF EndPart
<1>3. upload' \in Uploads /\ (~changed => \A q \in Requests : NoOther(upload'[q].parts))
  BY <1>1, <1>2, ArrivedPart DEF BytesKnown
<1>4. TypeOK'
  BY <1>3 DEF IInv, TypeOK, Uploads, Upload, EndPart, fileVars, objectVars
<1>5. BytesKnown'
  BY <1>1, <1>3 DEF BytesKnown, EndPart, fileVars, objectVars
<1> QED
  BY <1>4, <1>5 DEF IInv, EndPart, fileVars, objectVars, LockHeld, StartAlone, Knows, Claimed,
     CompletionNotReplayed, PublishedAsIdentified

\* The completion leaves, under the claim that is on the disk.
LEMMA DispatchKeeps ==
  ASSUME IInv, NEW r \in Requests, Dispatch(r)
  PROVE  IInv'
<1>1. TypeOK'
  BY DEF IInv, TypeOK, Places, Dispatch, Goto, fileVars, poolVars
<1>2. /\ pc[r] = "dispatching" /\ pc'[r] = "completing"
      /\ \A q \in Requests \ {r} : pc'[q] = pc[q]
  BY DEF IInv, TypeOK, Dispatch, Goto
<1>3. LockHeld' /\ StartAlone'
  BY <1>2 DEF IInv, LockHeld, StartAlone, Locked, Open, Dispatch
<1>4. \A q \in Requests : Knows(q)'
  BY <1>2 DEF IInv, Knows, Open, Dispatch
<1>5. dispatched = {} /\ inflight = {} /\ disk.status = "completionUnknown"
  BY <1>2 DEF IInv, TypeOK, Claimed, Knows
<1>6. \A q \in Requests : pc'[q] # "dispatching"
  BY <1>2 DEF IInv, LockHeld, Locked
<1>7. Claimed' /\ CompletionNotReplayed'
  BY <1>2, <1>5, <1>6 DEF IInv, TypeOK, Claimed, CompletionNotReplayed, Dispatch
<1>8. BytesKnown'
  BY <1>2, <1>5, <1>6 DEF IInv, BytesKnown, Dispatch, fileVars
<1> QED
  BY <1>1, <1>3, <1>4, <1>7, <1>8 DEF IInv, PublishedAsIdentified, Dispatch

\* The own object is seen at the destination, or nobody knows.
LEMMA VerifyKeeps ==
  ASSUME IInv, NEW r \in Requests, Verify(r)
  PROVE  IInv'
<1> USE RecoveryAssumption
<1> DEFINE done == [mem[r] EXCEPT !.status = "completed"]
<1>1. /\ pc[r] \in {"completing", "verifying"} /\ pc[r] \in Locked
      /\ disk.status = "completionUnknown" /\ mem[r].status = "completionUnknown" /\ mem[r] \in Manifests
  BY DEF IInv, TypeOK, Knows, Verify, Locked
<1>2. PICK m \in {mem[r], done} : Save(r, m) /\ (m # mem[r] => OwnObject)
  BY DEF Verify
<1>3. m \in Manifests /\ m.parts = mem[r].parts /\ m.status \in {"completionUnknown", "completed"}
      /\ (m.status = "completed" => OwnObject)
  BY <1>1, <1>2 DEF Manifests
<1> HIDE DEF done
<1>4. /\ disk' = m /\ mem'[r] = m /\ pc'[r] = "done" /\ lock' = None
      /\ \A q \in Requests \ {r} : mem'[q] = mem[q] /\ pc'[q] = pc[q]
      /\ UNCHANGED <<fileVars, worker, upload, objectVars>>
  BY <1>2 DEF IInv, TypeOK, Verify, Save, Return, Goto
<1>5. TypeOK'
  BY <1>2, <1>3, <1>4 DEF IInv, TypeOK, Places, AtRest, Verify, Save, Return, Goto, fileVars,
     objectVars
<1>6. \A q \in Requests \ {r} : pc[q] \notin Locked
  BY <1>1 DEF IInv, LockHeld
<1>7. LockHeld' /\ StartAlone'
  BY <1>1, <1>3, <1>4, <1>6 DEF IInv, LockHeld, StartAlone, Locked, Open, Manifest
<1>8. \A q \in Requests : Knows(q)'
  BY <1>4, <1>6 DEF IInv, Knows, Locked, Open
<1>9. Claimed'
  <2>1. /\ \A q \in Requests : pc'[q] # "dispatching"
        /\ \A q \in dispatched : pc'[q] \in {"completing", "done", "dead"}
    BY <1>4, <1>6 DEF IInv, TypeOK, Claimed, Locked
  <2>2. m.status = "completed" => published # {}
    BY <1>3 DEF IInv, Claimed, OwnObject
  <2> QED
    BY <1>3, <1>4, <2>1, <2>2 DEF IInv, Claimed, objectVars
<1>10. BytesKnown'
  BY <1>3, <1>4 DEF IInv, BytesKnown, TypeOK, Claimed, fileVars, objectVars
<1> QED
  BY <1>4, <1>5, <1>7, <1>8, <1>9, <1>10
     DEF IInv, CompletionNotReplayed, PublishedAsIdentified, objectVars

\* The job is cancelled.
LEMMA CancelKeeps ==
  ASSUME IInv, NEW r \in Requests, Cancel(r)
  PROVE  IInv'
<1>1. TypeOK'
  BY DEF IInv, TypeOK, Cancel, fileVars, objectVars
<1> QED
  BY <1>1 DEF IInv, Cancel, fileVars, objectVars, LockHeld, StartAlone, Knows, Claimed,
     BytesKnown,
     CompletionNotReplayed, PublishedAsIdentified

\* The process is killed, and the lock released.
LEMMA KillKeeps ==
  ASSUME IInv, NEW r \in Requests, Kill(r)
  PROVE  IInv'
<1> USE RecoveryAssumption
<1>1. upload \in Uploads /\ BytesKnown /\ LockHeld
  BY DEF IInv, TypeOK, Uploads, Upload
<1>2. /\ pc'[r] = "dead" /\ \A q \in Requests \ {r} : pc'[q] = pc[q]
      /\ UNCHANGED <<fileVars, disk, mem, objectVars>>
  BY DEF IInv, TypeOK, Kill, Goto
<1>3. upload' \in Uploads /\ (~changed => \A q \in Requests : NoOther(upload'[q].parts))
  <2>1. upload' = upload \/ \E p \in PartIds : upload' \in WithPart(mem[r].upload, p)
    BY DEF Kill
  <2> QED
    BY <1>1, <2>1, ArrivedPart DEF BytesKnown
<1>4. TypeOK'
  BY <1>2, <1>3 DEF IInv, TypeOK, Uploads, Upload, Places, AtRest, Kill, Goto, fileVars,
     objectVars
<1>5. LockHeld' /\ StartAlone'
  BY <1>1, <1>2 DEF IInv, TypeOK, LockHeld, StartAlone, Locked, Open, Kill, AtRest
<1>6. \A q \in Requests : Knows(q)'
  BY <1>2 DEF IInv, Knows, Open
<1>7. Claimed'
  BY <1>2 DEF IInv, TypeOK, Claimed, objectVars
<1>8. BytesKnown'
  BY <1>1, <1>2, <1>3 DEF BytesKnown, fileVars, objectVars
<1> QED
  BY <1>2, <1>4, <1>5, <1>6, <1>7, <1>8
     DEF IInv, CompletionNotReplayed, PublishedAsIdentified, objectVars

\* The provider carries a completion out.
LEMMA PublishKeeps ==
  ASSUME IInv, NEW r \in Requests, Publish(r)
  PROVE  IInv'
<1>1. /\ r \in inflight /\ inflight' = inflight \ {r} /\ published' = published \cup {r}
      /\ UNCHANGED <<fileVars, disk, lock, pc, mem, poolVars, dispatched>>
  BY DEF Publish
<1>2. upload' \in Uploads /\ \A q \in Requests : upload'[q].parts = upload[q].parts
  <2>1. upload \in Uploads
    BY DEF IInv, TypeOK, Uploads, Upload
  <2>2. CASE UNCHANGED upload
    BY <2>1, <2>2
  <2>3. ASSUME NEW u, upload' = [upload EXCEPT ![u].state = "completed"]
        PROVE  upload' \in Uploads /\ \A q \in Requests : upload'[q].parts = upload[q].parts
    <3>1. ASSUME NEW q \in Requests
          PROVE  /\ upload'[q] \in {upload[q], [upload[q] EXCEPT !.state = "completed"]}
                 /\ upload[q] \in Upload
      BY <2>1, <2>3 DEF Uploads, Upload
    <3>2. \A q \in Requests :
             /\ upload'[q] \in Upload
             /\ upload'[q].parts = upload[q].parts
      BY <3>1 DEF Upload
    <3> QED
      BY <2>1, <2>3, <3>2 DEF Uploads, Upload
  <2> QED
    BY <2>2, <2>3 DEF Publish
<1>3. dest' = "identified"
  <2>1. empty \/ NoOther(mem[r].parts)
    BY <1>1 DEF IInv, BytesKnown
  <2>2. CASE empty
    BY <2>2 DEF Publish
  <2>3. CASE ~empty
    <3>1. upload[mem[r].upload].parts = mem[r].parts
      BY <2>3 DEF Publish
    <3>2. "other" \notin {upload[mem[r].upload].parts[p] : p \in PartIds}
      BY <2>1, <2>3, <3>1 DEF NoOther
    <3> QED
      BY <2>3, <3>2 DEF Publish
  <2> QED
    BY <2>2, <2>3
<1>4. TypeOK'
  BY <1>1, <1>2, <1>3 DEF IInv, TypeOK, Uploads, Upload, fileVars, poolVars
<1>5. LockHeld' /\ StartAlone' /\ (\A q \in Requests : Knows(q)')
  BY <1>1 DEF IInv, LockHeld, StartAlone, Knows
<1>6. Claimed' /\ CompletionNotReplayed'
  BY <1>1, <1>3 DEF IInv, TypeOK, Claimed, CompletionNotReplayed
<1>7. BytesKnown'
  BY <1>1, <1>2 DEF IInv, BytesKnown, fileVars
<1> QED
  BY <1>3, <1>4, <1>5, <1>6, <1>7 DEF IInv, PublishedAsIdentified

\* A completion is refused or lost.
LEMMA RefuseKeeps ==
  ASSUME IInv, NEW r \in Requests, Refuse(r)
  PROVE  IInv'
<1>1. TypeOK'
  BY DEF IInv, TypeOK, Refuse, fileVars, poolVars
<1> QED
  BY <1>1 DEF IInv, Refuse, fileVars, LockHeld, StartAlone, Knows, Claimed, BytesKnown,
     CompletionNotReplayed, PublishedAsIdentified

\* The file is edited, or somebody else writes the destination.
LEMMA OthersKeep ==
  ASSUME IInv, ChangeFile \/ OtherWrites
  PROVE  IInv'
<1>1. TypeOK'
  BY DEF IInv, TypeOK, ChangeFile, OtherWrites, fileVars, poolVars, objectVars
<1> QED
  BY <1>1 DEF IInv, ChangeFile, OtherWrites, fileVars, objectVars, LockHeld, StartAlone, Knows,
     Claimed,
     BytesKnown, CompletionNotReplayed, PublishedAsIdentified

-----------------------------------------------------------------------------
(* The theorems                                                            *)

\* The invariant holds at first ...
LEMMA InitIInv == Init => IInv
<1> SUFFICES ASSUME Init PROVE IInv
  OBVIOUS
<1>1. TypeOK
  BY RecoveryAssumption DEF Init, Manifest, NoParts, Contents, TypeOK, Manifests, Places, AtRest
<1>2. LockHeld
  BY RecoveryAssumption DEF Init, LockHeld, Locked, Open
<1>3. BytesKnown
  BY DEF Init, BytesKnown, NoOther, Manifest, NoParts
<1> QED
  BY <1>1, <1>2, <1>3 DEF Init, Manifest, IInv, StartAlone, Knows, Open, Claimed,
     CompletionNotReplayed,
     PublishedAsIdentified

\* ... every step preserves it ...
LEMMA NextIInv ==
  ASSUME ~FoundWhileStarting
  PROVE  IInv /\ [Next]_vars => IInv'
<1> SUFFICES ASSUME IInv, [Next]_vars PROVE IInv'
  OBVIOUS
<1>1. CASE Environment
  BY <1>1, CancelKeeps, KillKeeps, PublishKeeps, RefuseKeeps, OthersKeep DEF Environment
<1>2. ASSUME NEW r \in Requests, RequestStep(r) PROVE IInv'
  <2>1. CASE Start(r) \/ Ask(r) \/ Enter(r)
    BY <2>1, StartKeeps, AskKeeps, EnterKeeps
  <2>2. CASE Begin(r) \/ Head(r) \/ Create(r) \/ SaveIdentifier(r) \/ List(r)
    BY <2>2, BeginKeeps, HeadKeeps, CreateKeeps, SaveIdentifierKeeps, ListKeeps
  <2>3. CASE \E p \in PartIds : BeginPart(r, p) \/ EndPart(r, p) \/ Collect(r, p)
    BY <2>3, BeginPartKeeps, EndPartKeeps, CollectKeeps
  <2>4. CASE Seal(r) \/ Dispatch(r) \/ Verify(r)
    BY <2>4, SealKeeps, DispatchKeeps, VerifyKeeps
  <2>5. CASE CleanUp(r) \/ AbortUpload(r) \/ Record(r)
    BY <2>5, CleanUpKeeps, AbortUploadKeeps, RecordKeeps
  <2> QED
    BY <1>2, <2>1, <2>2, <2>3, <2>4, <2>5 DEF RequestStep
<1>3. CASE UNCHANGED vars
  BY <1>3 DEF vars, fileVars, poolVars, objectVars, IInv, TypeOK, LockHeld, StartAlone, Knows,
     Claimed,
     BytesKnown, CompletionNotReplayed, PublishedAsIdentified
<1> QED
  BY <1>1, <1>2, <1>3 DEF Next

\* ... and so it always holds.
LEMMA InvariantHolds ==
  ASSUME ~FoundWhileStarting
  PROVE  Spec => []IInv
<1>1. IInv /\ [Next]_vars => IInv'
  BY NextIInv
<1> QED
  BY <1>1, InitIInv, PTL DEF Spec

\* Every variable keeps its type, for any numbers of requests and parts.
THEOREM TypeCorrect ==
  ASSUME ~FoundWhileStarting
  PROVE  Spec => []TypeOK
<1>1. IInv => TypeOK
  BY DEF IInv
<1>2. Spec => []IInv
  BY InvariantHolds
<1> QED
  BY <1>1, <1>2, PTL

\* However requests are killed, cancelled, aborted and repeated, at most one of
\* them ever sends a completion: the claim on the disk survives every one of them.
THEOREM NoReplay ==
  ASSUME ~FoundWhileStarting
  PROVE  Spec => []CompletionNotReplayed
<1>1. IInv => CompletionNotReplayed
  BY DEF IInv
<1>2. Spec => []IInv
  BY InvariantHolds
<1> QED
  BY <1>1, <1>2, PTL

\* An object that an upload publishes has the bytes of the identified file, also
\* when the file is edited while its parts are read.
THEOREM PublishesIdentified ==
  ASSUME ~FoundWhileStarting
  PROVE  Spec => []PublishedAsIdentified
<1>1. IInv => PublishedAsIdentified
  BY DEF IInv
<1>2. Spec => []IInv
  BY InvariantHolds
<1> QED
  BY <1>1, <1>2, PTL

\* Under "fail" and "skip" no step replaces the object of another writer, also
\* when requests find a manifest that is being started.
THEOREM ReplacesNobody == Spec => NeverReplacesOthers
<1>1. [Next]_vars => (Conditional /\ dest = "other" => dest' = "other")
  <2> SUFFICES ASSUME [Next]_vars, Conditional, dest = "other" PROVE dest' = "other"
    OBVIOUS
  <2>1. CASE \E r \in Requests : Publish(r)
    BY <2>1 DEF Publish, IfNoneMatch
  <2>2. CASE dest' = dest
    BY <2>2
  <2>3. CASE OtherWrites
    BY <2>3 DEF OtherWrites
  <2> QED
    BY <2>1, <2>2, <2>3 DEF Next, Environment, RequestStep, vars, objectVars, Start, Ask,
       Enter, Begin,
       Head, Create, SaveIdentifier, List, BeginPart, EndPart, Collect, Seal, Dispatch, Verify,
       CleanUp,
       AbortUpload, Record, Cancel, Kill, Refuse, ChangeFile
<1> QED
  BY <1>1, PTL DEF Spec, NeverReplacesOthers

\* What the status of a manifest claims.
LEMMA Claims ==
  ASSUME disk \in Manifests
  PROVE  /\ Claim = "pending" <=> disk.status \in {"none", "prepared", "uploading"}
         /\ Claim = "unknown" <=> disk.status = "completionUnknown"
         /\ Claim = "completed" <=> disk.status = "completed"
         /\ Claim = "givenUp" <=> disk.status \in {"skipped", "aborted", "cancelled", "failed"}
  BY DEF Claim, Manifests

\* A manifest that is replaced before the dispatch keeps its claim, commits or
\* gives up.
LEMMA PendingStep ==
  ASSUME disk \in Manifests, disk' \in Manifests, UNCHANGED published,
         disk.status \in {"none", "prepared", "uploading"},
         disk'.status # "completed"
  PROVE  [Promise!Next]_(Promise!vars)
<1>1. Claim = "pending" /\ Claim' \in {"pending", "unknown", "givenUp"}
  BY DEF Claim, Manifests
<1> QED
  BY <1>1 DEF Promise!Next, Promise!Commit, Promise!GiveUp, Promise!vars

\* Every step of an upload is a step of its promise, or changes nothing in it.
LEMMA PromiseStep == IInv /\ IInv' /\ [Next]_vars => [Promise!Next]_(Promise!vars)
<1> SUFFICES ASSUME IInv, IInv', [Next]_vars PROVE [Promise!Next]_(Promise!vars)
  OBVIOUS
<1>1. disk \in Manifests /\ disk' \in Manifests
  BY DEF IInv, TypeOK
<1>2. CASE disk' = disk /\ published' = published
  BY <1>2 DEF Promise!vars, Claim
<1>3. ASSUME NEW r \in Requests, Publish(r) PROVE Promise!Publish
  <2>1. r \in inflight /\ published' = published \cup {r} /\ disk' = disk
    BY <1>3 DEF Publish
  <2>2. published = {}
    BY <2>1 DEF IInv, TypeOK, Claimed, CompletionNotReplayed
  <2>3. disk.status = "completionUnknown"
    BY <2>1, <2>2 DEF IInv, TypeOK, Claimed
  <2>4. Claim = "unknown" /\ Claim' = Claim
    BY <1>1, <2>1, <2>3, Claims DEF Claim
  <2> QED
    BY <2>1, <2>2, <2>4 DEF Promise!Publish
<1>4. ASSUME NEW r \in Requests, Verify(r) PROVE [Promise!Next]_(Promise!vars)
  <2>1. /\ disk.status = "completionUnknown"
        /\ mem[r].status = "completionUnknown"
        /\ mem[r] \in Manifests
        /\ published' = published
    BY <1>4 DEF IInv, TypeOK, Knows, Verify, objectVars
  <2>2. CASE disk' = mem[r]
    BY <1>1, <2>1, <2>2 DEF Claim, Promise!vars
  <2>3. CASE OwnObject /\ disk' = [mem[r] EXCEPT !.status = "completed"]
    <3>1. published # {}
      BY <2>3 DEF IInv, Claimed, OwnObject
    <3>2. disk'.status = "completed"
      BY <2>1, <2>3 DEF Manifests
    <3>3. Claim = "unknown" /\ Claim' = "completed"
      BY <2>1, <3>2 DEF Claim
    <3> QED
      BY <2>1, <3>1, <3>3 DEF Promise!Next, Promise!Confirm
  <2> QED
    BY <1>4, <2>2, <2>3 DEF Verify, Save
<1>5. ASSUME NEW r \in Requests, Start(r) PROVE [Promise!Next]_(Promise!vars)
  BY <1>1, <1>5, PendingStep DEF Start, Save, Manifest, objectVars
<1>6. ASSUME NEW r \in Requests,
             Begin(r) \/ Head(r) \/ SaveIdentifier(r) \/ List(r) \/ Seal(r)
                 \/ \E p \in PartIds : Collect(r, p)
      PROVE  [Promise!Next]_(Promise!vars)
  <2>1. pc[r] \in Working /\ published' = published
    BY <1>6 DEF Begin, Head, SaveIdentifier, List, Seal, Collect, Working, objectVars
  <2>2. /\ mem[r] \in Manifests
        /\ mem[r].status \in {"prepared", "uploading"}
        /\ disk.status \in {"prepared", "uploading"}
    BY <2>1, WorkerKnows
  <2>3. disk'.status # "completed"
    BY <1>6, <2>2 DEF Begin, Head, SaveIdentifier, List, Seal, Collect, Save, Manifests
  <2> QED
    BY <1>1, <2>1, <2>2, <2>3, PendingStep
<1>7. ASSUME NEW r \in Requests, Record(r) PROVE [Promise!Next]_(Promise!vars)
  <2>1. /\ disk' = mem[r] /\ published' = published
        /\ mem[r].status \in {"failed", "cancelled", "aborted"}
        /\ disk.status \in {"prepared", "uploading", "failed", "cancelled"}
    BY <1>7, GivingUpKnows DEF Record, Save, objectVars
  <2>2. Claim' = "givenUp" /\ Claim \in {"pending", "givenUp"}
    BY <1>1, <2>1 DEF Claim
  <2> QED
    BY <2>1, <2>2 DEF Promise!Next, Promise!GiveUp, Promise!vars
<1> QED
  BY <1>2, <1>3, <1>4, <1>5, <1>6, <1>7
     DEF Next, Environment, RequestStep, vars, objectVars, Ask, Enter, Create, BeginPart,
         EndPart, Dispatch,
         CleanUp, AbortUpload, Cancel, Kill, Refuse, ChangeFile, OtherWrites, Promise!Next

\* The manifest and the provider keep the promise of UploadPromise: the object
\* appears at most once, only under a claim that says so, and "completed" is true.
THEOREM PromiseKept ==
  ASSUME ~FoundWhileStarting
  PROVE  Spec => KeepsPromise
<1>1. Init => Promise!Init
  BY DEF Init, Manifest, Promise!Init, Claim
<1>2. Spec => []IInv
  BY InvariantHolds
<1> QED
  BY <1>1, <1>2, PromiseStep, PTL DEF Spec, KeepsPromise, Promise!Spec

-----------------------------------------------------------------------------
(* What is left to clean up                                                *)

\* The upload that m names is not open at the provider, or m says to clean up.
Cleaned(m) == m.upload = None \/ m.cleanup \/ upload[m.upload].state # "open"
GivenUp == {"failed", "cancelled", "aborted"}

\* The copy that is about to be recorded says so already.
RecordsCleanup == \A r \in Requests : pc[r] = "recording" => Cleaned(mem[r])

\* No upload is opened again.
Reopened == \E u \in Requests : upload'[u].state = "open" /\ upload[u].state # "open"

\* A step that opens no upload, gives none up and begins no record.
LEMMA CleanupStays ==
  ASSUME IInv, CleanupKnown, RecordsCleanup, ~Reopened,
         disk' = disk \/ disk'.status \notin GivenUp,
         \A r \in Requests : pc'[r] = "recording" => pc[r] = "recording" /\ mem'[r] = mem[r]
  PROVE  CleanupKnown' /\ RecordsCleanup'
<1>1. \A m \in Manifests : Cleaned(m) => Cleaned(m)'
  BY DEF Manifests, Cleaned, Reopened
<1>2. disk \in Manifests /\ \A r \in Requests : mem[r] \in Manifests
  BY DEF IInv, TypeOK
<1>3. CleanupKnown'
  BY <1>1, <1>2 DEF CleanupKnown, GivenUp, Cleaned
<1> QED
  BY <1>1, <1>2, <1>3 DEF RecordsCleanup, Cleaned

\* Aborting leaves the upload closed.
LEMMA AbortedClosed ==
  ASSUME IInv, NEW u \in Requests \cup {None}
  PROVE  /\ u # None => Aborted(u)[u].state # "open"
         /\ \A q \in Requests : Aborted(u)[q].state = "open" => upload[q].state = "open"
<1>1. upload \in Uploads
  BY DEF IInv, TypeOK, Uploads, Upload
<1> QED
  BY <1>1 DEF Aborted, Uploads, Upload

\* A part leaves the state of its upload.
LEMMA PartsStay ==
  ASSUME IInv, NEW u, NEW p \in PartIds, upload' \in WithPart(u, p)
  PROVE  ~Reopened
BY DEF IInv, TypeOK, WithPart, Reopened

\* Only the holder of the lock begins to record, when it has aborted its upload or not
\* been able to.
LEMMA CleanUpKnown ==
  ASSUME IInv, CleanupKnown, RecordsCleanup, NEW r \in Requests, CleanUp(r) \/ AbortUpload(r)
  PROVE  CleanupKnown' /\ RecordsCleanup'
<1>1. pc[r] \in {"draining", "aborting"} /\ disk' = disk
  BY DEF CleanUp, AbortUpload
<1>2. /\ mem[r] \in Manifests /\ disk \in Manifests /\ pc \in [Requests -> Places]
      /\ mem \in [Requests -> Manifests] /\ lock = r
  BY <1>1, GivingUpKnows
<1>3. mem[r].upload \in Requests \cup {None}
  BY <1>2 DEF Manifests
<1>4. upload' \in {upload, Aborted(mem[r].upload)} /\ ~Reopened
  BY <1>3, AbortedClosed DEF CleanUp, AbortUpload, Reopened
<1>5. \A m \in Manifests : Cleaned(m) => Cleaned(m)'
  BY <1>4 DEF Manifests, Cleaned, Reopened
<1>6. CleanupKnown'
  BY <1>1, <1>2, <1>5 DEF CleanupKnown, Cleaned
<1>7. pc'[r] = "recording" => Cleaned(mem[r])'
  <2>1. CASE upload' = Aborted(mem[r].upload) /\ mem' \in {mem, [mem EXCEPT ![r].status = "aborted"]}
    BY <1>2, <1>3, <2>1, AbortedClosed DEF Manifests, Cleaned
  <2>2. CASE mem' = [mem EXCEPT ![r] = NotCleaned(@)]
    BY <1>2, <2>2 DEF Manifests, NotCleaned, Cleaned
  <2>3. CASE Return(r)
    BY <1>2, <2>3 DEF Return, Goto
  <2> QED
    BY <2>1, <2>2, <2>3 DEF CleanUp, AbortUpload
<1>8. ASSUME NEW q \in Requests, pc'[q] = "recording" PROVE Cleaned(mem[q])'
  <2>1. CASE q = r
    BY <1>7, <1>8, <2>1 DEF Cleaned
  <2>2. CASE q # r
    <3>1. pc[q] # "recording"
      BY <1>2, <2>2 DEF IInv, LockHeld, Locked, Open
    <3> QED
      BY <1>2, <1>8, <2>2, <3>1 DEF CleanUp, AbortUpload, Return, Goto
  <2> QED
    BY <2>1, <2>2
<1> QED
  BY <1>6, <1>8 DEF RecordsCleanup

\* The outcome that reaches the manifest is known to be cleaned up, or to need it.
LEMMA RecordKnown ==
  ASSUME IInv, CleanupKnown, RecordsCleanup, NEW r \in Requests, Record(r)
  PROVE  CleanupKnown' /\ RecordsCleanup'
<1>1. /\ pc[r] = "recording" /\ lock = r /\ mem[r] \in Manifests
      /\ pc \in [Requests -> Places] /\ mem \in [Requests -> Manifests]
  BY GivingUpKnows DEF Record
<1>2. disk' = mem[r] /\ mem' = mem /\ upload' = upload /\ pc' = [pc EXCEPT ![r] = "done"]
  BY <1>1 DEF Record, Save, Return, Goto
<1> QED
  BY <1>1, <1>2 DEF RecordsCleanup, CleanupKnown, Cleaned

\* An upload is created under a manifest that is still uploading.
LEMMA CreateKnown ==
  ASSUME IInv, CleanupKnown, RecordsCleanup, NEW r \in Requests, Create(r)
  PROVE  CleanupKnown' /\ RecordsCleanup'
<1>1. /\ pc[r] = "creating" /\ lock = r /\ disk.status \in {"prepared", "uploading"}
      /\ pc \in [Requests -> Places] /\ disk' = disk
  BY WorkerKnows DEF Create, Working
<1>2. \A q \in Requests : pc'[q] # "recording"
  BY <1>1 DEF IInv, LockHeld, Locked, Open, Create, Raise, Goto
<1> QED
  BY <1>1, <1>2 DEF CleanupKnown, RecordsCleanup

\* Every other step of the holder of the lock keeps the manifest from being given up.
LEMMA HolderKnown ==
  ASSUME IInv, CleanupKnown, RecordsCleanup, NEW r \in Requests,
         \/ Begin(r) \/ Head(r) \/ SaveIdentifier(r) \/ List(r) \/ Seal(r)
         \/ \E p \in PartIds : Collect(r, p)
  PROVE  CleanupKnown' /\ RecordsCleanup'
<1>1. pc[r] \in Working
  BY DEF Begin, Head, SaveIdentifier, List, Seal, Collect, Working
<1>2. /\ mem[r] \in Manifests /\ mem[r].status \in {"prepared", "uploading"}
      /\ disk.status \in {"prepared", "uploading"} /\ pc \in [Requests -> Places]
      /\ mem \in [Requests -> Manifests]
  BY <1>1, WorkerKnows
<1>3. upload' = upload
  BY DEF Begin, Head, SaveIdentifier, List, Seal, Collect
<1>4. disk' = disk \/ disk'.status \notin GivenUp
  BY <1>2 DEF Begin, Head, SaveIdentifier, List, Seal, Collect, Save, Manifests, GivenUp
<1>5. \E place \in Places \ {"recording"} : pc' = [pc EXCEPT ![r] = place]
  BY <1>2 DEF Begin, Head, SaveIdentifier, List, Seal, Collect, Goto, Return, Raise, Prepared, Places, AtRest
<1>6. \A q \in Requests \ {r} : mem'[q] = mem[q]
  BY <1>2 DEF Begin, Head, SaveIdentifier, List, Seal, Collect, Save, Raise
<1> QED
  BY <1>2, <1>3, <1>4, <1>5, <1>6, CleanupStays DEF Reopened

\* Requests that come for the lock, or that look for their object.
LEMMA ComersKnown ==
  ASSUME IInv, CleanupKnown, RecordsCleanup, NEW r \in Requests,
         Start(r) \/ Ask(r) \/ Enter(r) \/ Dispatch(r) \/ Verify(r)
  PROVE  CleanupKnown' /\ RecordsCleanup'
<1>1. TypeOK /\ Knows(r)
  BY DEF IInv
<1>2. upload' = upload
  BY DEF Start, Ask, Enter, Dispatch, Verify
<1>3. disk' = disk \/ disk'.status \notin GivenUp
  BY <1>1 DEF TypeOK, Knows, Start, Ask, Enter, Dispatch, Verify, Save, Manifest, Manifests, GivenUp
<1>4. \E place \in Places \ {"recording"} : pc' = [pc EXCEPT ![r] = place]
  BY DEF Start, Ask, Enter, Dispatch, Verify, Course, Goto, Return, Places, AtRest
<1>5. \A q \in Requests \ {r} : mem'[q] = mem[q]
  BY <1>1 DEF TypeOK, Start, Ask, Enter, Dispatch, Verify, Save
<1> QED
  BY <1>1, <1>2, <1>3, <1>4, <1>5, CleanupStays DEF Reopened, TypeOK

\* The pool, the provider, other writers and kills.
LEMMA OthersKnown ==
  ASSUME IInv, CleanupKnown, RecordsCleanup, NEW r \in Requests,
         \/ Environment \/ UNCHANGED vars
         \/ \E p \in PartIds : BeginPart(r, p) \/ EndPart(r, p)
  PROVE  CleanupKnown' /\ RecordsCleanup'
<1>1. ASSUME NEW q \in Requests, Cancel(q) \/ Kill(q) \/ Publish(q) \/ Refuse(q)
      PROVE  ~Reopened /\ disk' = disk /\ mem' = mem /\ \A s \in Requests : pc'[s] = "recording" => pc[s] = "recording"
  <2>1. CASE Cancel(q) \/ Refuse(q)
    BY <2>1 DEF Cancel, Refuse, Reopened
  <2>2. CASE Kill(q)
    BY <2>2, PartsStay DEF IInv, TypeOK, Kill, Goto, Reopened
  <2>3. CASE Publish(q)
    BY <2>3 DEF IInv, TypeOK, Publish, Reopened
  <2> QED
    BY <1>1, <2>1, <2>2, <2>3
<1>2. ASSUME NEW p \in PartIds, BeginPart(r, p) \/ EndPart(r, p)
      PROVE  ~Reopened /\ disk' = disk /\ mem' = mem /\ pc' = pc
  BY <1>2, PartsStay DEF BeginPart, EndPart, Reopened
<1>3. CASE ChangeFile \/ OtherWrites \/ UNCHANGED vars
  BY <1>3, CleanupStays DEF ChangeFile, OtherWrites, vars, Reopened
<1> QED
  BY <1>1, <1>2, <1>3, CleanupStays DEF Environment

\* An upload that was given up is closed at the provider, or the manifest says that it has to
\* be cleaned up: whatever the abort answered, and whoever is killed between it and the record.
THEOREM CleanupIsKnown ==
  ASSUME ~FoundWhileStarting
  PROVE  Spec => []CleanupKnown
<1>1. Init => CleanupKnown /\ RecordsCleanup
  BY DEF Init, Manifest, CleanupKnown, RecordsCleanup
<1>2. IInv /\ CleanupKnown /\ RecordsCleanup /\ [Next]_vars => CleanupKnown' /\ RecordsCleanup'
  <2> SUFFICES ASSUME IInv, CleanupKnown, RecordsCleanup, [Next]_vars PROVE CleanupKnown' /\ RecordsCleanup'
    OBVIOUS
  <2>1. ASSUME NEW r \in Requests, RequestStep(r) PROVE CleanupKnown' /\ RecordsCleanup'
    BY <2>1, RecordKnown, CreateKnown, HolderKnown, ComersKnown, OthersKnown, CleanUpKnown DEF RequestStep
  <2>2. ASSUME Environment PROVE CleanupKnown' /\ RecordsCleanup'
    <3>1. CASE \E r \in Requests : TRUE
      BY <2>2, <3>1, OthersKnown
    <3>2. CASE \A r \in Requests : FALSE
      BY <2>2, <3>2, CleanupStays DEF Environment, ChangeFile, OtherWrites, Reopened
    <3> QED
      BY <3>1, <3>2
  <2>3. CASE UNCHANGED vars
    BY <2>3, CleanupStays DEF vars, Reopened
  <2> QED
    BY <2>1, <2>2, <2>3 DEF Next
<1> QED
  BY <1>1, <1>2, InvariantHolds, PTL DEF Spec
=============================================================================
