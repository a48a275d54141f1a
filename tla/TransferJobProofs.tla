------------------------- MODULE TransferJobProofs -------------------------
(***************************************************************************)
(* What holds of an upload job with any number of files, parts and         *)
(* workers, under any controls.                                            *)
(*                                                                         *)
(* A completed upload is whole because what the pool has yielded without   *)
(* an exception is at the provider (PartsKept); that nothing is sent after *)
(* the end of an upload rests on where a part may still be at work         *)
(* (PoolKnown), and that no upload is left behind on what each point of    *)
(* the thread knows of the upload (UploadKnown).                           *)
(***************************************************************************)
EXTENDS MCTransferJob, Sequences, FiniteSetTheorems, TLAPS

-----------------------------------------------------------------------------
(* The inductive invariant                                                 *)

InPool == pc \in {"refill", "waiting", "yielding", "checkpoint", "draining"}

\* What is at work or waits for a worker is pending, and only while the pool exists;
\* what wait() returned is finished and stays so.
PoolKnown ==
    /\ \A p \in 1..MaxParts : part[p] \in {"queued", "gate", "sending"} => InPool /\ p \in pending
    /\ \A p \in 1..MaxParts : part[p] = "queued" => pc # "draining"
    /\ \A p \in batch : part[p] \in {"sent", "stopped", "broken"}
    /\ InPool => submitted <= PartsOf[file]

\* The upload of the file at work is open from its creation to its end, and only that one.
UploadKnown ==
    /\ InPool \/ pc \in {"sealing", "completing"} => upload[file] = "open"
    /\ pc = "aborting" => upload[file] \in {"open", "completed"}
    /\ pc \in {"new", "announced", "fileGate", "putting", "creating"} => upload[file] = "none"
    /\ pc = "fileDone" => upload[file] # "open"
    /\ pc \in {"ending", "ended"} /\ upload[file] = "open" => file \in abandoned
    /\ \A f \in Files : (f < file => upload[f] # "open") /\ (f > file => upload[f] = "none")

\* What the pool has yielded without an exception is at the provider.
PartsKept ==
    /\ \A f \in Files : stored[f] \subseteq Parts(f)
    /\ InPool \/ pc \in {"sealing", "completing"} =>
          \A p \in 1..MaxParts : part[p] = "sent" => p \in stored[file]
    /\ pc \in {"refill", "waiting", "yielding", "checkpoint", "sealing", "completing"} =>
          \A p \in 1..submitted : p \in pending \/ part[p] = "sent"
    /\ pc \in {"sealing", "completing"} => pending = {} /\ submitted = PartsOf[file]

IInv == TypeOK /\ PoolKnown /\ UploadKnown /\ PartsKept /\ CompletedIsWhole

-----------------------------------------------------------------------------
(* Parts                                                                   *)

IsMost(n, F) == n \in F /\ \A f \in F : PartsOf[f] <= PartsOf[n]

\* Some file has the most parts: a smallest set of files without such a file
\* would lose one of them and still have none.
LEMMA SomeMost == \E n \in Files : \A f \in Files : PartsOf[f] <= PartsOf[n]
<1> DEFINE T == {F \in SUBSET Files : F # {} /\ ~ \E n \in F : IsMost(n, F)}
<1>1. IsFiniteSet(Files) /\ Files # {} /\ \A f \in Files : PartsOf[f] \in Nat
  <2>1. FileCount \in Nat /\ 1 \in Files
      BY JobAssumption DEF Files
  <2>2. IsFiniteSet(1..FileCount)
      BY <2>1, FS_Interval
  <2> QED
      BY <2>1, <2>2, JobAssumption DEF Files
<1>2. IsWellFoundedOn(StrictSubsetOrdering(Files), SUBSET Files)
    BY <1>1, FS_StrictSubsetOrderingWellFounded, FS_FiniteSubsetsOfFinite
<1>3. ASSUME T # {} PROVE FALSE
  <2>1. PICK F \in T : \A G \in T : ~ (<<G, F>> \in StrictSubsetOrdering(Files))
    <3> HIDE DEF T
    <3>1. T \subseteq SUBSET Files
        BY DEF T
    <3> QED
        BY <1>2, <1>3, <3>1, WFMin
  <2>2. PICK f \in F : TRUE
      OBVIOUS
  <2>3. F \ {f} \notin T
      BY <2>1, <2>2 DEF StrictSubsetOrdering
  <2>4. CASE F = {f}
      BY <1>1, <2>1, <2>4 DEF IsMost
  <2>5. CASE F # {f}
    <3>1. PICK g \in F \ {f} : IsMost(g, F \ {f})
        BY <2>1, <2>3, <2>5
    <3>2. IsMost(g, F) \/ IsMost(f, F)
        BY <1>1, <2>1, <2>2, <3>1 DEF IsMost
    <3> QED
        BY <2>1, <2>2, <3>1, <3>2
  <2> QED
      BY <2>4, <2>5
<1> QED
    BY <1>1, <1>3 DEF IsMost

\* No file has more parts than the array of parts.
LEMMA PartsFit == MaxParts \in Nat /\ \A f \in Files : PartsOf[f] \in 0..MaxParts /\ Parts(f) \subseteq 1..MaxParts
<1>1. PartsOf \in [Files -> Nat]
    BY JobAssumption DEF Files
<1>2. \E n \in {PartsOf[f] : f \in Files} : \A f \in Files : PartsOf[f] <= n
    BY SomeMost
<1>3. MaxParts \in {PartsOf[f] : f \in Files} /\ \A f \in Files : PartsOf[f] <= MaxParts
    BY <1>2 DEF MaxParts
<1> QED
    BY <1>1, <1>3 DEF Parts

\* Work that is left unbegun when the pool is left is dropped, the rest stays as it is.
LEMMA Cancelled ==
    ASSUME TypeOK, PoolKnown
    PROVE  /\ CancelPending(part) \in [1..MaxParts -> {"none", "queued", "gate", "sending", "sent",
                                                       "stopped", "broken", "dropped"}]
           /\ \A p \in 1..MaxParts :
                 CancelPending(part)[p] = IF part[p] = "queued" THEN "dropped" ELSE part[p]
BY DEF TypeOK, PoolKnown, CancelPending

-----------------------------------------------------------------------------
(* The initial states                                                      *)

LEMMA InitInv == Init => IInv
<1> SUFFICES ASSUME Init PROVE IInv
    OBVIOUS
<1>1. TypeOK
  <2>1. 1 \in Files /\ 0 \in 0..MaxParts
      BY PartsFit, JobAssumption DEF Files
  <2> QED
      BY <2>1 DEF Init, TypeOK
<1>2. PoolKnown
    BY DEF Init, PoolKnown, InPool
<1>3. UploadKnown
    BY JobAssumption DEF Init, UploadKnown, InPool, Files
<1>4. PartsKept /\ CompletedIsWhole
    BY DEF Init, PartsKept, CompletedIsWhole, InPool
<1> QED
    BY <1>1, <1>2, <1>3, <1>4 DEF IInv

-----------------------------------------------------------------------------
(* The steps                                                               *)

\* The controls change no part and no upload.
LEMMA PauseKeeps ==
    ASSUME IInv, Pause PROVE IInv'
<1>1. TypeOK'
    BY DEF IInv, TypeOK, Pause, poolVars, providerVars
<1>2. PoolKnown'
    BY DEF IInv, PoolKnown, InPool, Pause, poolVars
<1>3. UploadKnown'
    BY DEF IInv, UploadKnown, InPool, Pause, providerVars
<1>4. PartsKept'
    BY DEF IInv, PartsKept, InPool, Pause, poolVars, providerVars
<1>5. CompletedIsWhole'
    BY DEF IInv, CompletedIsWhole, Pause, providerVars
<1> QED
    BY <1>1, <1>2, <1>3, <1>4, <1>5 DEF IInv

\* Resume releases the gate and nothing else.
LEMMA ResumeKeeps ==
    ASSUME IInv, Resume PROVE IInv'
<1>1. TypeOK'
    BY DEF IInv, TypeOK, Resume, poolVars, providerVars
<1>2. PoolKnown'
    BY DEF IInv, PoolKnown, InPool, Resume, poolVars
<1>3. UploadKnown'
    BY DEF IInv, UploadKnown, InPool, Resume, providerVars
<1>4. PartsKept'
    BY DEF IInv, PartsKept, InPool, Resume, poolVars, providerVars
<1>5. CompletedIsWhole'
    BY DEF IInv, CompletedIsWhole, Resume, providerVars
<1> QED
    BY <1>1, <1>2, <1>3, <1>4, <1>5 DEF IInv

\* Cancel closes the gate and nothing else.
LEMMA CancelKeeps ==
    ASSUME IInv, Cancel PROVE IInv'
<1>1. TypeOK'
    BY DEF IInv, TypeOK, Cancel, poolVars, providerVars
<1>2. PoolKnown'
    BY DEF IInv, PoolKnown, InPool, Cancel, poolVars
<1>3. UploadKnown'
    BY DEF IInv, UploadKnown, InPool, Cancel, providerVars
<1>4. PartsKept'
    BY DEF IInv, PartsKept, InPool, Cancel, poolVars, providerVars
<1>5. CompletedIsWhole'
    BY DEF IInv, CompletedIsWhole, Cancel, providerVars
<1> QED
    BY <1>1, <1>2, <1>3, <1>4, <1>5 DEF IInv

\* The job only gets an entry.
LEMMA RegisterKeeps ==
    ASSUME IInv, Register PROVE IInv'
<1>1. TypeOK'
    BY DEF IInv, TypeOK, Register, poolVars, providerVars
<1>2. PoolKnown'
    BY DEF IInv, PoolKnown, InPool, Register, poolVars
<1>3. UploadKnown'
    BY DEF IInv, UploadKnown, InPool, Register, providerVars
<1>4. PartsKept'
    BY DEF IInv, PartsKept, InPool, Register, providerVars
<1>5. CompletedIsWhole'
    BY DEF IInv, CompletedIsWhole, Register, providerVars
<1> QED
    BY <1>1, <1>2, <1>3, <1>4, <1>5 DEF IInv

\* The thread moves on to its first file.
LEMMA AnnounceKeeps ==
    ASSUME IInv, Announce PROVE IInv'
<1>1. TypeOK'
    BY DEF IInv, TypeOK, Announce, poolVars, providerVars
<1>2. PoolKnown'
    BY DEF IInv, PoolKnown, InPool, Announce, poolVars
<1>3. UploadKnown'
    BY DEF IInv, UploadKnown, InPool, Announce, providerVars
<1>4. PartsKept'
    BY DEF IInv, PartsKept, InPool, Announce, providerVars
<1>5. CompletedIsWhole'
    BY DEF IInv, CompletedIsWhole, Announce, providerVars
<1> QED
    BY <1>1, <1>2, <1>3, <1>4, <1>5 DEF IInv

\* No upload exists yet behind the gate of its file.
LEMMA FileGateKeeps ==
    ASSUME IInv, FileGate PROVE IInv'
<1>1. TypeOK'
    BY DEF IInv, TypeOK, FileGate, End, poolVars, providerVars
<1>2. PoolKnown'
    BY DEF IInv, PoolKnown, InPool, FileGate, End, poolVars
<1>3. UploadKnown'
    BY DEF IInv, UploadKnown, InPool, FileGate, End, providerVars
<1>4. PartsKept'
    BY DEF IInv, PartsKept, InPool, FileGate, End, providerVars
<1>5. CompletedIsWhole'
    BY DEF IInv, CompletedIsWhole, FileGate, providerVars
<1> QED
    BY <1>1, <1>2, <1>3, <1>4, <1>5 DEF IInv

\* A small file has no upload.
LEMMA PutKeeps ==
    ASSUME IInv, Put PROVE IInv'
<1>1. TypeOK'
    BY DEF IInv, TypeOK, Put, End, poolVars
<1>2. PoolKnown'
    BY DEF IInv, PoolKnown, InPool, Put, End, poolVars
<1>3. UploadKnown'
    BY DEF IInv, UploadKnown, InPool, Put, End
<1>4. PartsKept'
    BY DEF IInv, PartsKept, InPool, Put, End
<1>5. CompletedIsWhole'
    BY DEF IInv, CompletedIsWhole, Put
<1> QED
    BY <1>1, <1>2, <1>3, <1>4, <1>5 DEF IInv

\* A new upload is open and has no part; one that was not answered is abandoned.
LEMMA CreateUploadKeeps ==
    ASSUME IInv, CreateUpload PROVE IInv'
<1>1. TypeOK'
    BY PartsFit DEF IInv, TypeOK, CreateUpload, End
<1>2. PoolKnown'
    BY PartsFit DEF IInv, PoolKnown, TypeOK, CreateUpload
<1>3. UploadKnown'
  <2>1. \/ pc' = "refill" /\ upload' = [upload EXCEPT ![file] = "open"]
        \/ pc' = "ending" /\ upload' = upload
        \/ pc' = "ending" /\ upload' = [upload EXCEPT ![file] = "open"] /\ file \in abandoned'
      BY DEF IInv, CreateUpload, End
  <2>2. pc = "creating" /\ file' = file /\ file \in Files /\ \A f \in Files : f \in Nat
      BY DEF IInv, TypeOK, Files, CreateUpload
  <2>3. \A f \in Files : f # file => upload'[f] = upload[f]
      BY <2>1 DEF IInv, TypeOK
  <2>4. upload[file] = "none" /\ (upload' = [upload EXCEPT ![file] = "open"] => upload'[file] = "open")
      BY <2>2 DEF IInv, TypeOK, UploadKnown
  <2> QED
      BY <2>1, <2>2, <2>3, <2>4 DEF IInv, UploadKnown, InPool
<1>4. PartsKept'
    BY DEF IInv, PartsKept, CreateUpload, End
<1>5. CompletedIsWhole'
    BY DEF IInv, CompletedIsWhole, TypeOK, CreateUpload
<1> QED
    BY <1>1, <1>2, <1>3, <1>4, <1>5 DEF IInv

\* Parts of the file are queued; without a pending part all of them have been yielded.
LEMMA RefillKeeps ==
    ASSUME IInv, Refill PROVE IInv'
<1>1. TypeOK'
    BY PartsFit DEF IInv, TypeOK, Refill, providerVars
<1>2. PoolKnown'
    BY PartsFit DEF IInv, PoolKnown, TypeOK, InPool, Refill
<1>3. UploadKnown'
    BY DEF IInv, UploadKnown, InPool, Refill, providerVars
<1>4. PartsKept'
  <2>1. PICK n \in submitted..PartsOf[file] :
            /\ n = PartsOf[file] \/ Cardinality(pending) + n - submitted = PendingLimit
            /\ submitted' = n /\ pending' = pending \cup (submitted + 1)..n
            /\ part' = [p \in 1..MaxParts |-> IF p \in (submitted + 1)..n THEN "queued" ELSE part[p]]
      BY DEF Refill
  <2>2. submitted \in Nat /\ PartsOf[file] \in 0..MaxParts /\ MaxParts \in Nat /\ n \in 0..MaxParts
      BY PartsFit DEF IInv, TypeOK
  <2>3. pending' = {} => n = submitted /\ n = PartsOf[file]
    <3>1. Cardinality({}) = 0 /\ PendingLimit \in Nat \ {0}
        BY FS_EmptySet, JobAssumption DEF PendingLimit
    <3>2. pending' = {} => pending = {} /\ n = submitted
      <4>1. n # submitted => n \in (submitted + 1)..n
          BY <2>1, <2>2
      <4> QED
          BY <2>1, <4>1
    <3>3. pending' = {} => Cardinality(pending) + n - submitted = 0
        BY <2>2, <3>1, <3>2
    <3> QED
        BY <2>1, <3>1, <3>2, <3>3
  <2>4. pc = "refill" /\ pc' = (IF pending' = {} THEN "sealing" ELSE "waiting")
      BY DEF Refill
  <2>5. file' = file /\ stored' = stored
      BY DEF Refill, providerVars
  <2>6. \A p \in 1..MaxParts : part'[p] = "sent" => part[p] = "sent"
      BY <2>1
  <2>7. \A p \in 1..n : p \in pending' \/ part'[p] = "sent"
    <3>1. \A p \in 1..n : p \in 1..MaxParts /\ (p \in 1..submitted \/ p \in (submitted + 1)..n)
        BY <2>1, <2>2
    <3>2. \A p \in 1..submitted : (p \in pending \/ part[p] = "sent") /\ p \notin (submitted + 1)..n
        BY <2>2, <2>4 DEF IInv, PartsKept
    <3> QED
        BY <2>1, <3>1, <3>2
  <2> QED
      BY <2>1, <2>3, <2>4, <2>5, <2>6, <2>7 DEF IInv, PartsKept, InPool
<1>5. CompletedIsWhole'
    BY DEF IInv, CompletedIsWhole, Refill, providerVars
<1> QED
    BY <1>1, <1>2, <1>3, <1>4, <1>5 DEF IInv

\* What wait() returns is finished.
LEMMA WaitKeeps ==
    ASSUME IInv, Wait PROVE IInv'
<1>1. TypeOK'
    BY DEF IInv, TypeOK, Wait, Finished, providerVars
<1>2. PoolKnown'
    BY DEF IInv, PoolKnown, InPool, Wait, Finished
<1>3. UploadKnown'
    BY DEF IInv, UploadKnown, InPool, Wait, providerVars
<1>4. PartsKept'
    BY DEF IInv, PartsKept, InPool, Wait, providerVars
<1>5. CompletedIsWhole'
    BY DEF IInv, CompletedIsWhole, Wait, providerVars
<1> QED
    BY <1>1, <1>2, <1>3, <1>4, <1>5 DEF IInv

\* A yielded part was sent, or the pool is left.
LEMMA YieldKeeps ==
    ASSUME IInv, Yield PROVE IInv'

<1>1. PICK p \in batch :
          /\ batch' = batch \ {p} /\ pending' = pending \ {p}
          /\ IF part[p] = "sent" THEN pc' = "checkpoint" /\ UNCHANGED <<part, result>>
             ELSE /\ pc' = "draining" /\ result' \in {"cancelled", "failed"}
                  /\ part' = CancelPending(part)
    BY DEF Yield
<1>2. p \in pending /\ p \in 1..MaxParts /\ part[p] \in {"sent", "stopped", "broken"}
    BY <1>1, PartsFit DEF IInv, TypeOK, PoolKnown
<1>3. TypeOK'
    BY <1>1, Cancelled DEF IInv, TypeOK, Yield, providerVars
<1>4. PoolKnown'
  <2>1. \A q \in 1..MaxParts : part'[q] \in {"queued", "gate", "sending"} =>
            part'[q] = part[q] /\ (part[q] = "queued" => pc' # "draining") /\ q # p
      BY <1>1, <1>2, Cancelled DEF IInv
  <2>2. \A q \in batch' : part[q] \in {"sent", "stopped", "broken"} /\ q \in 1..MaxParts
      BY <1>1, PartsFit DEF IInv, TypeOK, PoolKnown
  <2>3. \A q \in batch' : part'[q] = part[q]
      BY <1>1, <2>2, Cancelled DEF IInv
  <2>4. pc = "yielding" /\ pc' \in {"checkpoint", "draining"} /\ submitted' = submitted /\ file' = file
      BY <1>1 DEF Yield
  <2> QED
      BY <1>1, <2>1, <2>2, <2>3, <2>4 DEF IInv, PoolKnown, InPool
<1>5. UploadKnown'
    BY DEF IInv, UploadKnown, InPool, Yield, providerVars
<1>6. PartsKept'
    BY <1>1, <1>2, Cancelled DEF IInv, PartsKept, InPool, Yield, providerVars
<1>7. CompletedIsWhole'
    BY DEF IInv, CompletedIsWhole, Yield, providerVars
<1> QED
    BY <1>3, <1>4, <1>5, <1>6, <1>7 DEF IInv

\* A cancellation between parts leaves the pool.
LEMMA CheckpointKeeps ==
    ASSUME IInv, Checkpoint PROVE IInv'
<1>1. TypeOK'
    BY Cancelled DEF IInv, TypeOK, providerVars, Checkpoint
<1>2. PoolKnown'
    BY Cancelled, PartsFit DEF IInv, TypeOK, PoolKnown, InPool, Checkpoint
<1>3. UploadKnown'
    BY DEF IInv, UploadKnown, InPool, Checkpoint, providerVars
<1>4. PartsKept'
    BY Cancelled DEF IInv, PartsKept, InPool, providerVars, Checkpoint
<1>5. CompletedIsWhole'
    BY DEF IInv, CompletedIsWhole, Checkpoint, providerVars
<1> QED
    BY <1>1, <1>2, <1>3, <1>4, <1>5 DEF IInv

\* No part is at work once the pool has shut down.
LEMMA DrainKeeps ==
    ASSUME IInv, Drain PROVE IInv'
<1>1. TypeOK'
    BY DEF IInv, TypeOK, Drain, poolVars, providerVars
<1>2. PoolKnown'
    BY DEF IInv, PoolKnown, InPool, Drain, Running, poolVars
<1>3. UploadKnown'
    BY DEF IInv, UploadKnown, InPool, Drain, providerVars
<1>4. PartsKept'
    BY DEF IInv, PartsKept, InPool, Drain, providerVars
<1>5. CompletedIsWhole'
    BY DEF IInv, CompletedIsWhole, Drain, providerVars
<1> QED
    BY <1>1, <1>2, <1>3, <1>4, <1>5 DEF IInv

\* The upload is aborted, or nobody knows.
LEMMA AbortKeeps ==
    ASSUME IInv, Abort PROVE IInv'
<1>1. TypeOK'
    BY DEF IInv, TypeOK, Abort, End, poolVars
<1>2. PoolKnown'
    BY DEF IInv, PoolKnown, InPool, Abort, End, poolVars
<1>3. UploadKnown'
    BY DEF IInv, UploadKnown, TypeOK, InPool, Abort, End
<1>4. PartsKept'
    BY DEF IInv, PartsKept, InPool, Abort, End
<1>5. CompletedIsWhole'
    BY DEF IInv, CompletedIsWhole, TypeOK, Abort
<1> QED
    BY <1>1, <1>2, <1>3, <1>4, <1>5 DEF IInv

\* Completion is asked for when all parts are at the provider.
LEMMA SealKeeps ==
    ASSUME IInv, Seal PROVE IInv'
<1>1. TypeOK'
    BY DEF IInv, TypeOK, Seal, poolVars, providerVars
<1>2. PoolKnown'
    BY DEF IInv, PoolKnown, InPool, Seal, poolVars
<1>3. UploadKnown'
    BY DEF IInv, UploadKnown, Seal, providerVars
<1>4. PartsKept'
    BY DEF IInv, PartsKept, Seal, poolVars, providerVars
<1>5. CompletedIsWhole'
    BY DEF IInv, CompletedIsWhole, Seal, providerVars
<1> QED
    BY <1>1, <1>2, <1>3, <1>4, <1>5 DEF IInv

\* What is completed has all its parts.
LEMMA CompleteKeeps ==
    ASSUME IInv, Complete PROVE IInv'
<1>1. TypeOK'
    BY DEF IInv, TypeOK, Complete, poolVars
<1>2. PoolKnown'
    BY DEF IInv, PoolKnown, InPool, Complete, poolVars
<1>3. UploadKnown'
    BY DEF IInv, UploadKnown, TypeOK, InPool, Complete
<1>4. PartsKept'
    BY DEF IInv, PartsKept, InPool, Complete
<1>5. CompletedIsWhole'
    BY PartsFit DEF IInv, CompletedIsWhole, TypeOK, PartsKept, Parts, Complete
<1> QED
    BY <1>1, <1>2, <1>3, <1>4, <1>5 DEF IInv

\* The next file has no upload yet.
LEMMA FileDoneKeeps ==
    ASSUME IInv, FileDone PROVE IInv'
<1>1. TypeOK'
    BY JobAssumption DEF IInv, TypeOK, FileDone, End, Files, poolVars, providerVars
<1>2. PoolKnown'
    BY DEF IInv, PoolKnown, InPool, FileDone, End, poolVars
<1>3. UploadKnown'
    BY JobAssumption DEF IInv, UploadKnown, TypeOK, InPool, FileDone, End, Files, providerVars
<1>4. PartsKept'
    BY DEF IInv, PartsKept, InPool, FileDone, End, providerVars
<1>5. CompletedIsWhole'
    BY DEF IInv, CompletedIsWhole, FileDone, providerVars
<1> QED
    BY <1>1, <1>2, <1>3, <1>4, <1>5 DEF IInv

\* Nothing but the registry changes.
LEMMA UnregisterKeeps ==
    ASSUME IInv, Unregister PROVE IInv'
<1>1. TypeOK'
    BY DEF IInv, TypeOK, Unregister, poolVars, providerVars
<1>2. PoolKnown'
    BY DEF IInv, PoolKnown, InPool, Unregister, poolVars
<1>3. UploadKnown'
    BY DEF IInv, UploadKnown, InPool, Unregister, providerVars
<1>4. PartsKept'
    BY DEF IInv, PartsKept, InPool, Unregister, providerVars
<1>5. CompletedIsWhole'
    BY DEF IInv, CompletedIsWhole, Unregister, providerVars
<1> QED
    BY <1>1, <1>2, <1>3, <1>4, <1>5 DEF IInv

\* A part that is taken stays pending.
LEMMA TakePartKeeps ==
    ASSUME IInv, NEW p \in 1..MaxParts, TakePart(p) PROVE IInv'
<1>1. TypeOK'
    BY DEF IInv, TypeOK, TakePart, providerVars
<1>2. PoolKnown'
    BY DEF IInv, PoolKnown, InPool, TakePart
<1>3. UploadKnown'
    BY DEF IInv, UploadKnown, InPool, TakePart, providerVars
<1>4. PartsKept'
    BY DEF IInv, PartsKept, InPool, TakePart, providerVars
<1>5. CompletedIsWhole'
    BY DEF IInv, CompletedIsWhole, TakePart, providerVars
<1> QED
    BY <1>1, <1>2, <1>3, <1>4, <1>5 DEF IInv

\* A part that stops at the gate is finished, and is not sent.
LEMMA PartGateKeeps ==
    ASSUME IInv, NEW p \in 1..MaxParts, PartGate(p) PROVE IInv'
<1>1. TypeOK'
    BY DEF IInv, TypeOK, PartGate, providerVars
<1>2. PoolKnown'
    BY PartsFit DEF IInv, PoolKnown, TypeOK, InPool, PartGate
<1>3. UploadKnown'
    BY DEF IInv, UploadKnown, InPool, PartGate, providerVars
<1>4. PartsKept'
    BY PartsFit DEF IInv, PartsKept, TypeOK, InPool, PartGate, providerVars
<1>5. CompletedIsWhole'
    BY DEF IInv, CompletedIsWhole, PartGate, providerVars
<1> QED
    BY <1>1, <1>2, <1>3, <1>4, <1>5 DEF IInv

\* A part is answered only when the provider has it.
LEMMA SendPartKeeps ==
    ASSUME IInv, NEW p \in 1..MaxParts, SendPart(p) PROVE IInv'
<1>1. TypeOK'
  <2>1. stored' \in [Files -> SUBSET (1..MaxParts)]
      BY DEF IInv, TypeOK, SendPart
  <2>2. part' \in [1..MaxParts -> {"none", "queued", "gate", "sending", "sent", "stopped", "broken", "dropped"}]
      BY DEF IInv, TypeOK, SendPart
  <2> QED
      BY <2>1, <2>2 DEF IInv, TypeOK, SendPart
<1>2. PoolKnown'
    BY PartsFit DEF IInv, PoolKnown, TypeOK, InPool, SendPart
<1>3. UploadKnown'
    BY DEF IInv, UploadKnown, InPool, SendPart
<1>4. PartsKept'
    BY PartsFit DEF IInv, PartsKept, TypeOK, PoolKnown, Parts, SendPart
<1>5. CompletedIsWhole'
  <2>1. upload[file] = "open" /\ upload' = upload
      BY DEF IInv, PoolKnown, UploadKnown, SendPart
  <2>2. \A f \in Files : f # file => stored'[f] = stored[f]
      BY DEF IInv, TypeOK, SendPart
  <2> QED
      BY <2>1, <2>2 DEF IInv, CompletedIsWhole
<1> QED
    BY <1>1, <1>2, <1>3, <1>4, <1>5 DEF IInv

LEMMA NextInv ==
    ASSUME IInv, [Next]_vars PROVE IInv'
<1>1. CASE JobStep
    BY <1>1, RegisterKeeps, AnnounceKeeps, FileGateKeeps, PutKeeps, CreateUploadKeeps, RefillKeeps,
       WaitKeeps, YieldKeeps, CheckpointKeeps, DrainKeeps, AbortKeeps, SealKeeps, CompleteKeeps,
       FileDoneKeeps, UnregisterKeeps DEF JobStep
<1>2. CASE Pause \/ Resume \/ Cancel
    BY <1>2, PauseKeeps, ResumeKeeps, CancelKeeps
<1>3. ASSUME NEW p \in 1..MaxParts, WorkerStep(p) PROVE IInv'
    BY <1>3, TakePartKeeps, PartGateKeeps, SendPartKeeps DEF WorkerStep
<1>4. CASE UNCHANGED vars
    BY <1>4 DEF IInv, TypeOK, PoolKnown, UploadKnown, PartsKept, CompletedIsWhole, InPool, vars,
       poolVars, providerVars
<1> QED
    BY <1>1, <1>2, <1>3, <1>4 DEF Next

LEMMA InvariantHolds == Spec => []IInv
    BY InitInv, NextInv, PTL DEF Spec

-----------------------------------------------------------------------------
(* What holds of every job                                                 *)

\* The variables keep the types that the code's objects have.
THEOREM TypeCorrect == Spec => []TypeOK
<1>1. IInv => TypeOK
    BY DEF IInv
<1> QED
    BY <1>1, InvariantHolds, PTL

\* A worker sends its part only while the multipart upload is open: _bounded_parallel
\* is not left, by failure, cancellation or completion, before the workers are done.
THEOREM SentWhileOpen == Spec => []PartsIntoOpenUpload
<1>1. IInv => PartsIntoOpenUpload
    BY DEF IInv, PartsIntoOpenUpload, PoolKnown, UploadKnown
<1> QED
    BY <1>1, InvariantHolds, PTL

\* A multipart upload that was completed has every part of its file, whatever failed,
\* was cancelled or lost its answer on the way.
THEOREM NothingTruncated == Spec => []CompletedIsWhole
<1>1. IInv => CompletedIsWhole
    BY DEF IInv
<1> QED
    BY <1>1, InvariantHolds, PTL

\* A job that is over has completed or aborted its uploads, except where the provider
\* did not answer the creation or the abortion.
THEOREM NothingLeftOpen == Spec => []NoOrphanUpload
<1>1. IInv => NoOrphanUpload
  <2> SUFFICES ASSUME IInv, pc \in {"ending", "ended"}, NEW f \in Files, upload[f] = "open"
               PROVE  f \in abandoned
      BY DEF NoOrphanUpload
  <2>1. f < file \/ f = file \/ f > file
      BY DEF IInv, TypeOK, Files
  <2> QED
      BY <2>1 DEF IInv, UploadKnown
<1> QED
    BY <1>1, InvariantHolds, PTL

\* No step after an acknowledged cancellation begins a file, opens or completes an
\* upload, or makes the job report completion.
THEOREM CancelIsFinal == Spec => CancellationStops
<1>1. ASSUME status = "cancelled", Next
      PROVE  /\ result' = "completed" => result = "completed"
             /\ file' = file
             /\ published' # published => pc \in {"putting", "completing"}
             /\ pc' \in {"putting", "creating", "completing"} => pc' = pc
  <2>1. CASE Pause \/ Resume \/ Cancel
      BY <2>1 DEF Pause, Resume, Cancel, providerVars
  <2>2. CASE Register \/ Announce \/ FileGate \/ Put \/ CreateUpload
      BY <1>1, <2>2 DEF Register, Announce, FileGate, Put, CreateUpload, GateOpen, End, providerVars
  <2>3. CASE Refill \/ Wait \/ Yield \/ Checkpoint \/ Drain
      BY <1>1, <2>3 DEF Refill, Wait, Yield, Checkpoint, Drain, providerVars
  <2>4. CASE Abort \/ Seal \/ Complete \/ FileDone \/ Unregister
      BY <1>1, <2>4 DEF Abort, Seal, Complete, FileDone, Unregister, GateOpen, End, providerVars
  <2>5. ASSUME NEW p \in 1..MaxParts, WorkerStep(p)
        PROVE  /\ pc' = pc /\ file' = file /\ published' = published /\ result' = result
      BY <2>5 DEF WorkerStep, TakePart, PartGate, SendPart, providerVars
  <2> QED
      BY <1>1, <2>1, <2>2, <2>3, <2>4, <2>5 DEF Next, JobStep
<1> QED
    BY <1>1, PTL DEF Spec, CancellationStops

-----------------------------------------------------------------------------
(* The loop that feeds the executor                                        *)

\* Whatever is in the pipe, in the queue or at a thread was written by the host.
LoopInv ==
    /\ RL!TypeOK
    /\ lines \in Seq(written) /\ queue \in Seq(written)
    /\ thread \in [Threads -> written \cup {Nobody}]

\* A control leaves every job with a status.
LEMMA ControlledType ==
    ASSUME LoopInv, NEW c \in Controls
    PROVE  RL!Controlled(c) \in [Transfers -> {"new", "running", "paused", "cancelled", "over"}]
<1>1. Target[c] \in Transfers /\ Command[c] \in {"paused", "running", "cancelled"}
    BY LoopAssumption DEF RL!LoopConstants
<1> QED
    BY <1>1 DEF LoopInv, RL!TypeOK, RL!Controlled

LEMMA LoopInit == ASSUME RL!Init PROVE LoopInv
<1>1. <<>> \in Seq(written) /\ <<>> \in Seq(RL!Requests)
    OBVIOUS
<1> QED
    BY <1>1 DEF RL!Init, LoopInv, RL!TypeOK

\* The host writes a line.
LEMMA WriteLineKeeps ==
    ASSUME LoopInv, NEW r \in RL!Requests, RL!WriteLine(r) PROVE LoopInv'
<1>1. lines' \in Seq(written') /\ lines' \in Seq(RL!Requests) /\ queue \in Seq(written')
    BY DEF LoopInv, RL!TypeOK, RL!WriteLine
<1>2. thread \in [Threads -> written' \cup {Nobody}]
    BY DEF LoopInv, RL!WriteLine
<1> QED
    BY <1>1, <1>2 DEF LoopInv, RL!TypeOK, RL!WriteLine

\* The loop takes a line, and answers it when it is a control.
LEMMA ReadLineKeeps ==
    ASSUME LoopInv, RL!ReadLine PROVE LoopInv'
<1> DEFINE r == Head(lines)
<1>1. r \in written /\ r \in RL!Requests
    BY DEF LoopInv, RL!TypeOK, RL!ReadLine
<1>2. lines' \in Seq(written) /\ lines' \in Seq(RL!Requests)
    BY DEF LoopInv, RL!TypeOK, RL!ReadLine
<1>3. CASE r \in Controls
  <2>1. job' = RL!Controlled(r) /\ answered' = answered \cup {r} /\ UNCHANGED queue
      BY <1>3 DEF RL!ReadLine
  <2> QED
      BY <1>1, <1>2, <1>3, <2>1, ControlledType DEF LoopInv, RL!TypeOK, RL!ReadLine
<1>4. CASE r \notin Controls
  <2>1. queue' = Append(queue, r) /\ UNCHANGED <<job, answered>>
      BY <1>4 DEF RL!ReadLine
  <2>2. queue' \in Seq(written) /\ queue' \in Seq(RL!Requests)
      BY <1>1, <2>1 DEF LoopInv, RL!TypeOK
  <2> QED
      BY <1>2, <2>1, <2>2 DEF LoopInv, RL!TypeOK, RL!ReadLine
<1> QED
    BY <1>3, <1>4

\* A thread takes the oldest request of the queue.
LEMMA TakeKeeps ==
    ASSUME LoopInv, NEW t \in Threads, RL!Take(t) PROVE LoopInv'
<1>1. Head(queue) \in written /\ Head(queue) \in RL!Requests
    BY DEF LoopInv, RL!TypeOK, RL!Take
<1>2. queue' \in Seq(written) /\ queue' \in Seq(RL!Requests)
    BY DEF LoopInv, RL!TypeOK, RL!Take
<1> QED
    BY <1>1, <1>2 DEF LoopInv, RL!TypeOK, RL!Take

\* A transfer registers its job.
LEMMA RegisterJobKeeps ==
    ASSUME LoopInv, NEW t \in Threads, RL!RegisterJob(t) PROVE LoopInv'
BY DEF LoopInv, RL!TypeOK, RL!RegisterJob

\* The request of a thread is answered.
LEMMA AnswerKeeps ==
    ASSUME LoopInv, NEW t \in Threads, RL!Answer(t) PROVE LoopInv'
<1> DEFINE r == thread[t]
<1>1. r \in written /\ r \in RL!Requests
    BY DEF LoopInv, RL!TypeOK, RL!Answer
<1>2. job' \in [Transfers -> {"new", "running", "paused", "cancelled", "over"}]
  <2>1. CASE r \in Controls
      BY <2>1, ControlledType DEF RL!Answer
  <2>2. CASE r \notin Controls
      BY <2>2 DEF LoopInv, RL!TypeOK, RL!Answer
  <2> QED
      BY <2>1, <2>2
<1> QED
    BY <1>1, <1>2 DEF LoopInv, RL!TypeOK, RL!Answer

LEMMA LoopNext == ASSUME LoopInv, [RL!Next]_(RL!vars) PROVE LoopInv'
<1>1. CASE RL!CloseInput \/ RL!ReadEnd \/ RL!Exit \/ UNCHANGED RL!vars
    BY <1>1 DEF LoopInv, RL!TypeOK, RL!CloseInput, RL!ReadEnd, RL!Exit, RL!vars
<1>2. CASE (\E r \in RL!Requests : RL!WriteLine(r)) \/ RL!ReadLine
    BY <1>2, WriteLineKeeps, ReadLineKeeps
<1>3. CASE \E t \in Threads : RL!ThreadStep(t)
    BY <1>3, TakeKeeps, RegisterJobKeeps, AnswerKeeps DEF RL!ThreadStep
<1> QED
    BY <1>1, <1>2, <1>3 DEF RL!Next, RL!ReaderStep

\* Every variable of a job and of the loop keeps its type, and a request is only answered
\* when the host has written it: whatever main reads, the pool takes or a transfer ends.
THEOREM TransfersTypes == TransfersSpec => []TransfersTypeOK
<1>1. TransfersInit => Init /\ LoopInv
    BY LoopInit DEF TransfersInit
<1>2. [TransfersNext]_<<seen, vars, loopVars>> => [Next]_vars /\ [RL!Next]_(RL!vars)
    BY DEF TransfersNext, loopVars, RL!vars
<1>3. LoopInv /\ [RL!Next]_(RL!vars) => LoopInv'
    BY LoopNext
<1>4. LoopInv => RL!TypeOK
    BY DEF LoopInv
<1> QED
    BY <1>1, <1>2, <1>3, <1>4, TypeCorrect, PTL DEF TransfersSpec, TransfersTypeOK, Spec
=============================================================================
