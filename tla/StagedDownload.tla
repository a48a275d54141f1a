--------------------------- MODULE StagedDownload ---------------------------
(***************************************************************************)
(* One download job of the Python engine (engines/python/src/main.py):     *)
(* _start_download and _azure_start_download, which fetch each object into *)
(* a hidden staged file, and _staged_download, which publishes it under a  *)
(* free name or over the file of that name.                                *)
(*                                                                         *)
(* Objects are edited and files appear in the destination while the job    *)
(* runs.  The bytes of a range are the version of the object they come     *)
(* from; an edit keeps the size, because one that changes it is a failed   *)
(* request here.  All keys download to one name, up to its case.  How many *)
(* ranges a pool has in flight is the subject of TransferJob.              *)
(***************************************************************************)
EXTENDS Naturals

CONSTANTS
    KeyCount,    \* objects of the job, downloaded in order
    RangesOf,    \* [1..KeyCount -> Nat]: byte ranges of a large object, 0 for a single GET
    MaxSlots,    \* the most of them
    Forms,       \* spellings of the one case-folded name
    FormOf,      \* [1..KeyCount -> Forms]: the spelling each key asks for
    MaxIndex,    \* last " (index)" that is tried; 99999 in the code
    MaxEdits,    \* bound: edits of each object
    MaxOthers    \* bound: files that others create

Keys == 1..KeyCount

ASSUME DownloadAssumption ==
    /\ KeyCount \in Nat \ {0} /\ RangesOf \in [Keys -> Nat]
    /\ MaxSlots \in Nat \ {0} /\ \A k \in Keys : RangesOf[k] <= MaxSlots
    /\ FormOf \in [Keys -> Forms]
    /\ MaxIndex \in Nat /\ MaxEdits \in Nat /\ MaxOthers \in Nat

Names == Forms \X (0..MaxIndex)
Slots(k) == IF RangesOf[k] = 0 THEN {1} ELSE 1..RangesOf[k]
Versions == 1..(MaxEdits + 1)
Hole == 0

VARIABLES
    azure,       \* the provider, whose worker passes one gate less
    policy,      \* conflictPolicy
    guarded,     \* HEAD gave an ETag, and every GET carries it
    gate,        \* TransferControl.status
    registered,  \* the job is in _TRANSFER_REGISTRY
    pc,          \* where the job's thread is
    key,         \* object at work
    object,      \* version of each object at the provider
    head,        \* version of each object when it was asked for its size, 0 before
    range,       \* each range of the object at work, and the version its answer has
    stage,       \* bytes of the staged file
    staged,      \* the staged file exists
    seen,        \* names in the destination when it was listed
    index,       \* " (index)" to be tried
    files,       \* the destination: no file, another's, or one of this job
    others,      \* files that others have created
    outcome      \* outcome of the job

fileVars == <<stage, staged, seen, index, files, others>>
vars == <<azure, policy, guarded, gate, registered, pc, key, object, head, range, fileVars, outcome>>

NoFile == [by |-> "nobody", key |-> 0, bytes |-> [r \in 1..MaxSlots |-> Hole]]
OtherFile == [NoFile EXCEPT !.by = "other"]
Idle == [at |-> "todo", of |-> Hole]

GateOpen == gate = "running"
GateStops == gate = "cancelled"

Init ==
    /\ azure \in BOOLEAN /\ policy \in {"keepBoth", "replace"} /\ guarded \in BOOLEAN
    /\ gate = "running" /\ registered = FALSE
    /\ pc = "heads" /\ key = 1
    /\ object = [k \in Keys |-> 1] /\ head = [k \in Keys |-> Hole]
    /\ range = [r \in 1..MaxSlots |-> Idle]
    /\ stage = [r \in 1..MaxSlots |-> Hole] /\ staged = FALSE
    /\ seen = {} /\ index = 0
    /\ files = [n \in Names |-> NoFile] /\ others = 0
    /\ outcome = "none"

constVars == <<azure, policy, guarded>>

-----------------------------------------------------------------------------
(* Others; what they do when the job is over is left out                   *)

Control(status) ==
    /\ registered
    /\ gate' = IF gate = "cancelled" THEN gate ELSE status
    /\ UNCHANGED <<constVars, registered, pc, key, object, head, range, fileVars, outcome>>

Over == pc \in {"ending", "ended"}

Edit(k) ==
    /\ ~Over /\ object[k] <= MaxEdits
    /\ object' = [object EXCEPT ![k] = @ + 1]
    /\ UNCHANGED <<constVars, gate, registered, pc, key, head, range, fileVars, outcome>>

Appear(n) ==
    /\ ~Over /\ others < MaxOthers /\ files[n] = NoFile
    /\ files' = [files EXCEPT ![n] = OtherFile]
    /\ others' = others + 1
    /\ UNCHANGED <<constVars, gate, registered, pc, key, object, head, range, stage, staged, seen, index, outcome>>

-----------------------------------------------------------------------------
(* The job, object by object                                               *)

\* Every object is asked for its size before the job is registered.
AskSize ==
    /\ pc = "heads" /\ head[key] = Hole
    /\ \/ head' = [head EXCEPT ![key] = object[key]] /\ UNCHANGED <<pc, outcome>>
          /\ key' = IF key < KeyCount THEN key + 1 ELSE key
       \/ pc' = "ended" /\ outcome' = "failed" /\ UNCHANGED <<head, key>>
    /\ UNCHANGED <<constVars, gate, registered, object, range, fileVars>>

Register ==
    /\ pc = "heads" /\ head[KeyCount] # Hole
    /\ registered' = TRUE
    /\ pc' = "keyGate" /\ key' = 1
    /\ UNCHANGED <<constVars, gate, object, head, range, fileVars, outcome>>

\* The job is over: its outcome, before _run_transfer drops it from the registry.
End(result) == pc' = "ending" /\ outcome' = result

\* An exception leaves the with statement of the staged file.
Abandon(result) == pc' = "discarding" /\ outcome' = result

KeyGate ==
    /\ pc = "keyGate"
    /\ \/ GateStops /\ End("cancelled") /\ UNCHANGED <<range, stage, staged>>
       \/ GateOpen /\ End("failed") /\ UNCHANGED <<range, stage, staged>>
       \/ /\ GateOpen
          /\ staged' = TRUE /\ stage' = [r \in 1..MaxSlots |-> Hole]
          /\ range' = [r \in 1..MaxSlots |-> Idle]
          /\ pc' = IF RangesOf[key] = 0 THEN "asking" ELSE "fetching"
          /\ UNCHANGED outcome
    /\ UNCHANGED <<constVars, gate, registered, key, object, head, seen, index, files, others>>

\* A GET without If-Match.
Unpinned == TRUE

\* The provider answers a GET: with an ETag only the version that HEAD found.
Served == guarded => object[key] = head[key]

-----------------------------------------------------------------------------
(* A large object: the pool's threads, and the job that counts ranges      *)

\* A thread of the pool passes its gate and asks for the range.
Ask(r) ==
    /\ pc \in {"fetching", "checkpoint"} /\ r \in Slots(key) /\ range[r].at = "todo"
    /\ \/ /\ GateOpen /\ Served
          /\ range' = [range EXCEPT ![r] = [at |-> IF azure THEN "body" ELSE "answered", of |-> object[key]]]
       \/ GateOpen /\ range' = [range EXCEPT ![r].at = "broken"]
       \/ GateStops /\ range' = [range EXCEPT ![r].at = "stopped"]
    /\ UNCHANGED <<constVars, gate, registered, pc, key, object, head, fileVars, outcome>>

\* The S3 worker passes the gate again before it looks at the answer.
Look(r) ==
    /\ range[r].at = "answered"
    /\ \/ GateOpen /\ range' = [range EXCEPT ![r].at = "body"]
       \/ GateStops /\ range' = [range EXCEPT ![r].at = "stopped"]
    /\ UNCHANGED <<constVars, gate, registered, pc, key, object, head, fileVars, outcome>>

\* The body is written at its place; it may be of the wrong length, or break off.
Write(r) ==
    /\ range[r].at = "body"
    /\ \/ /\ GateOpen
          /\ range' = [range EXCEPT ![r].at = "written"]
          /\ stage' = [stage EXCEPT ![r] = range[r].of]
       \/ GateOpen /\ range' = [range EXCEPT ![r].at = "broken"] /\ UNCHANGED stage
       \/ GateStops /\ range' = [range EXCEPT ![r].at = "stopped"] /\ UNCHANGED stage
    /\ UNCHANGED <<constVars, gate, registered, pc, key, object, head, staged, seen, index, files, others, outcome>>

\* The job takes a range that ended well, and counts its bytes.
Count(r) ==
    /\ pc = "fetching" /\ range[r].at = "written"
    /\ range' = [range EXCEPT ![r].at = "counted"]
    /\ pc' = "checkpoint"
    /\ UNCHANGED <<constVars, gate, registered, key, object, head, fileVars, outcome>>

Counted == \A r \in Slots(key) : range[r].at = "counted"

\* The checkpoint behind each range.  futures.close() drops what has not started.
Checkpoint ==
    /\ pc = "checkpoint"
    /\ \/ GateOpen /\ pc' = (IF Counted THEN "sizing" ELSE "fetching") /\ UNCHANGED outcome
       \/ GateStops /\ pc' = "draining" /\ outcome' = "cancelled"
    /\ UNCHANGED <<constVars, gate, registered, key, object, head, range, fileVars>>

\* The job takes a range whose worker raised.
Give(r) ==
    /\ pc = "fetching" /\ range[r].at \in {"broken", "stopped"}
    /\ pc' = "draining"
    /\ outcome' = IF range[r].at = "broken" THEN "failed" ELSE "cancelled"
    /\ UNCHANGED <<constVars, gate, registered, key, object, head, range, fileVars>>

\* The pool is left when its threads are done; they may write until then.
Drain ==
    /\ pc = "draining" /\ \A r \in Slots(key) : range[r].at \notin {"answered", "body"}
    /\ pc' = "discarding"
    /\ UNCHANGED <<constVars, gate, registered, key, object, head, range, fileVars, outcome>>

-----------------------------------------------------------------------------
(* A small object: one GET                                                 *)

Get ==
    /\ pc = "asking"
    /\ \/ /\ Served
          /\ range' = [range EXCEPT ![1].of = object[key]]
          /\ pc' = "reading" /\ UNCHANGED outcome
       \/ Abandon("failed") /\ UNCHANGED range
    /\ UNCHANGED <<constVars, gate, registered, key, object, head, fileVars>>

\* The chunks, each with its checkpoint; the response may end early without an error.
Read ==
    /\ pc = "reading"
    /\ \/ GateOpen /\ pc' = "sizing" /\ stage' = [stage EXCEPT ![1] = range[1].of] /\ UNCHANGED outcome
       \/ GateOpen /\ pc' = "sizing" /\ UNCHANGED <<stage, outcome>>
       \/ Abandon("failed") /\ UNCHANGED stage
       \/ GateStops /\ Abandon("cancelled") /\ UNCHANGED stage
    /\ UNCHANGED <<constVars, gate, registered, key, object, head, range, staged, seen, index, files, others>>

-----------------------------------------------------------------------------
(* Publication                                                             *)

\* The bytes that were counted add up to the size that HEAD gave.
Complete == IF RangesOf[key] = 0 THEN stage[1] # Hole ELSE Counted

\* The last gate, the size, and the flush of the staged file.
Size ==
    /\ pc = "sizing"
    /\ \/ GateOpen /\ Complete /\ pc' = "listing" /\ UNCHANGED outcome
       \/ GateOpen /\ Abandon("failed")
       \/ GateStops /\ Abandon("cancelled")
    /\ UNCHANGED <<constVars, gate, registered, key, object, head, range, fileVars>>

\* The destination is listed once.
List ==
    /\ pc = "listing"
    /\ seen' = {n \in Names : files[n] # NoFile}
    /\ index' = 0 /\ pc' = "placing"
    /\ UNCHANGED <<constVars, gate, registered, key, object, head, range, stage, staged, files, others, outcome>>

Published == [by |-> "job", key |-> key, bytes |-> stage]
TargetName == <<FormOf[key], index>>
Occupied == \E n \in seen : n[2] = index

\* keepBoth: the next name, when this one is taken up to case in the listing,
\* or is found taken by the link; and in the end there are no more names.
NextName ==
    /\ pc = "placing" /\ policy = "keepBoth"
    /\ Occupied \/ files[TargetName] # NoFile
    /\ \/ index < MaxIndex /\ index' = index + 1 /\ UNCHANGED <<pc, outcome>>
       \/ index = MaxIndex /\ Abandon("failed") /\ UNCHANGED index
    /\ UNCHANGED <<constVars, gate, registered, key, object, head, range, stage, staged, seen, files, others>>

\* The link replaces what appeared since the listing.
LinkOver == ~Occupied

Linkable == ~Occupied /\ files[TargetName] = NoFile

Link ==
    /\ pc = "placing" /\ policy = "keepBoth" /\ Linkable
    /\ files' = [files EXCEPT ![TargetName] = Published]
    /\ pc' = "placed"
    /\ UNCHANGED <<constVars, gate, registered, key, object, head, range, stage, staged, seen, index, others, outcome>>

\* replace: the entry that the listing has for the name, in whatever case it is.
Replace ==
    /\ pc = "placing" /\ policy = "replace"
    /\ LET same == {n \in seen : n[2] = 0}
       IN  \E n \in (IF same = {} THEN {TargetName} ELSE same) : files' = [files EXCEPT ![n] = Published]
    /\ staged' = FALSE /\ pc' = "placed"
    /\ UNCHANGED <<constVars, gate, registered, key, object, head, range, stage, seen, index, others, outcome>>

\* The link or the replacement fails.
PlaceFails ==
    /\ pc = "placing" /\ Abandon("failed")
    /\ UNCHANGED <<constVars, gate, registered, key, object, head, range, fileVars>>

\* The staged file is removed.
Discard ==
    /\ pc = "discarding" /\ pc' = "ending"
    /\ staged' = FALSE
    /\ UNCHANGED <<constVars, gate, registered, key, object, head, range, stage, seen, index, files, others, outcome>>

NextKey ==
    /\ pc = "placed"
    /\ staged' = FALSE
    /\ IF key < KeyCount THEN key' = key + 1 /\ pc' = "keyGate" /\ UNCHANGED outcome
       ELSE End("completed") /\ UNCHANGED key
    /\ UNCHANGED <<constVars, gate, registered, object, head, range, stage, seen, index, files, others>>

Unregister ==
    /\ pc = "ending"
    /\ registered' = FALSE /\ pc' = "ended"
    /\ UNCHANGED <<constVars, gate, key, object, head, range, fileVars, outcome>>

-----------------------------------------------------------------------------
RangeStep(r) == Ask(r) \/ Look(r) \/ Write(r) \/ Count(r) \/ Give(r)

JobStep ==
    \/ AskSize \/ Register \/ KeyGate \/ Checkpoint \/ Drain \/ Get \/ Read \/ Size \/ List
    \/ NextName \/ Link \/ Replace \/ PlaceFails \/ Discard \/ NextKey \/ Unregister

Next ==
    \/ \E status \in {"running", "paused", "cancelled"} : Control(status)
    \/ \E k \in Keys : Edit(k)
    \/ \E n \in Names : Appear(n)
    \/ \E r \in 1..MaxSlots : RangeStep(r)
    \/ JobStep

Spec == Init /\ [][Next]_vars

-----------------------------------------------------------------------------
(* Properties                                                              *)

Points == {"todo", "answered", "body", "written", "counted", "broken", "stopped"}
Answers == [at : Points, of : {Hole} \cup Versions]
Contents == [by : {"nobody", "other", "job"}, key : 0..KeyCount, bytes : [1..MaxSlots -> 0..(MaxEdits + 1)]]

TypeOK ==
    /\ azure \in BOOLEAN /\ policy \in {"keepBoth", "replace"} /\ guarded \in BOOLEAN
    /\ gate \in {"running", "paused", "cancelled"} /\ registered \in BOOLEAN
    /\ pc \in {"heads", "keyGate", "fetching", "checkpoint", "draining", "asking", "reading", "sizing",
               "listing", "placing", "placed", "discarding", "ending", "ended"}
    /\ key \in Keys
    /\ object \in [Keys -> Versions] /\ head \in [Keys -> {Hole} \cup Versions]
    /\ range \in [1..MaxSlots -> Answers]
    /\ stage \in [1..MaxSlots -> {Hole} \cup Versions] /\ staged \in BOOLEAN
    /\ seen \subseteq Names /\ index \in 0..MaxIndex
    /\ files \in [Names -> Contents] /\ others \in 0..MaxOthers
    /\ outcome \in {"none", "completed", "failed", "cancelled"}

\* A file of the job that is visible in the destination has all its ranges, and
\* when HEAD gave an ETag they are all of the version HEAD saw: neither a range
\* that a cancelled worker left unwritten nor one of a later edit is published.
PublishedWhole ==
    \A n \in Names : files[n].by = "job" =>
        \A r \in Slots(files[n].key) :
            /\ files[n].bytes[r] # Hole
            /\ guarded => files[n].bytes[r] = head[files[n].key]

\* No step replaces a file in the destination under keepBoth, nor any but one of
\* the very name under replace, whatever has appeared since the listing.
OthersKept ==
    [][\A n \in Names : files'[n] # files[n] =>
          files[n] = NoFile \/ (policy = "replace" /\ n[2] = 0)]_vars

\* A job that is over has removed its staged file and no thread of it writes any
\* more; when it completed under keepBoth, every object has a file of its own,
\* although the objects share a name.
EndsClean ==
    pc = "ended" =>
        /\ ~staged /\ \A r \in 1..MaxSlots : range[r].at \notin {"answered", "body"}
        /\ outcome = "completed" /\ policy = "keepBoth" =>
              \A k \in Keys : \E n \in Names : files[n].by = "job" /\ files[n].key = k
=============================================================================
