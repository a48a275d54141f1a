----------------------- MODULE RecoveryDownloadProofs -----------------------
(***************************************************************************)
(* Proofs about RecoveryDownload, for any numbers of requests, ranges and  *)
(* names.  Every property rests on one inductive invariant, IInv.          *)
(***************************************************************************)
EXTENDS RecoveryDownload, TLAPS

\* Where a request has the lock.
Locked == {"aborting", "recognised", "recording", "opening", "receiving", "listing",
           "publishing", "unlinking", "completing", "announcing"}

LockHeld == \A r \in Requests : pc[r] \in Locked <=> lock = r

\* Before the first manifest there is at most one request, and nothing is published.
Beginning ==
    /\ stage = "new" => disk.status = "none"
    /\ disk.status = "none" => /\ Published = {}
                               /\ \A r \in Requests : pc[r] \in {"idle", "staged", "dead"}
    /\ \A r \in Requests : pc[r] = "staged" => stage = "there" /\ disk.status = "none"
    /\ \A r, s \in Requests : pc[r] = "staged" /\ pc[s] = "staged" => r = s

\* What the holder of the lock relies on in the staged file is there.
BytesGood ==
    \A r \in Requests :
        /\ pc[r] \in {"receiving", "listing"} => \A p \in mem[r].ranges : bytes[p] = "good"
        /\ pc[r] = "publishing" => \A p \in RangeIds : bytes[p] = "good"

\* What a request knows of the directory, by the place it has reached.
Knows(r) ==
    /\ pc[r] \in Locked => mem[r].status # "none"
    /\ pc[r] \in {"receiving", "listing"} => mem[r].status = "downloading"
    /\ pc[r] \in {"publishing", "unlinking"} => disk = mem[r] /\ mem[r].status = "publishing"
    /\ pc[r] \in {"receiving", "listing", "publishing"} => Published = {}
    /\ pc[r] = "opening" /\ stage = "there" => Published = {}
    /\ pc[r] \in {"unlinking", "completing", "recognised"} => mem[r].name \in Published
    /\ pc[r] = "recording" => /\ mem[r].status \in {"aborted", "completed"}
                              /\ mem[r].status = "completed" => mem[r].name \in Published
    /\ pc[r] \in {"recording", "completing", "announcing"} => stage = "gone"

\* While the staged file is there, a published file can be found from the manifest.
Findable ==
    Published # {} /\ stage # "gone" => disk.status = "publishing" /\ disk.name \in Published

IInv ==
    /\ TypeOK
    /\ LockHeld
    /\ Beginning
    /\ BytesGood
    /\ \A r \in Requests : Knows(r)
    /\ Findable
    /\ OnlyValidatedPublished
    /\ PublishedOnce
    /\ EndedTruthfully

-----------------------------------------------------------------------------
(* Each step preserves the invariant                                       *)

\* A new download creates its staged file.
LEMMA StartKeeps ==
  ASSUME IInv, NEW r \in Requests, Start(r) PROVE IInv'
<1>1. TypeOK'
  BY DEF IInv, TypeOK, Places, Start, Goto
<1>2. LockHeld'
  BY DEF IInv, LockHeld, Locked, Start, Goto
<1>3. Beginning'
  BY DEF IInv, Beginning, Published, Start, Goto
<1>4. BytesGood'
  BY DEF IInv, BytesGood, Start, Goto
<1>5. \A q \in Requests : Knows(q)'
  BY DEF IInv, Knows, Locked, Beginning, Start, Goto
<1>6. Findable'
  BY DEF IInv, Findable, Published, Start
<1>7. OnlyValidatedPublished'
  BY DEF IInv, OnlyValidatedPublished, Start
<1>8. PublishedOnce'
  BY DEF IInv, PublishedOnce, Published, Start
<1>9. EndedTruthfully'
  BY DEF IInv, EndedTruthfully, Start
<1> QED
  BY <1>1, <1>2, <1>3, <1>4, <1>5, <1>6, <1>7, <1>8, <1>9 DEF IInv

\* It writes the first manifest.
LEMMA PrepareKeeps ==
  ASSUME IInv, NEW r \in Requests, Prepare(r) PROVE IInv'
<1>1. TypeOK'
  BY DownloadAssumption DEF IInv, TypeOK, Manifests, Places, Prepare, Goto, Save, Manifest
<1>2. LockHeld'
  BY DEF IInv, LockHeld, Locked, Prepare, Goto
<1>3. Beginning'
  BY DEF IInv, Beginning, TypeOK, Prepare, Goto, Save, Manifest
<1>4. BytesGood'
  BY DEF IInv, BytesGood, Prepare, Goto, Save
<1>5. \A q \in Requests : Knows(q)'
  BY DEF IInv, Knows, Beginning, TypeOK, Prepare, Goto, Save, Manifest
<1>6. Findable'
  BY DEF IInv, Findable, Published, Beginning, Prepare
<1>7. OnlyValidatedPublished'
  BY DEF IInv, OnlyValidatedPublished, Prepare
<1>8. PublishedOnce'
  BY DEF IInv, PublishedOnce, Published, Prepare
<1>9. EndedTruthfully'
  BY DEF IInv, EndedTruthfully, Prepare, Save, Manifest
<1> QED
  BY <1>1, <1>2, <1>3, <1>4, <1>5, <1>6, <1>7, <1>8, <1>9 DEF IInv

\* A resume or an abort of a download that was shown to it.
LEMMA AskKeeps ==
  ASSUME IInv, NEW r \in Requests, Ask(r) PROVE IInv'
<1>1. TypeOK'
  BY DEF IInv, TypeOK, Places, Ask, Goto
<1>2. LockHeld'
  BY DEF IInv, LockHeld, Locked, Ask, Goto
<1>3. Beginning'
  BY DEF IInv, Beginning, Ask, Goto
<1>4. BytesGood'
  BY DEF IInv, BytesGood, Ask, Goto
<1>5. \A q \in Requests : Knows(q)'
  BY DEF IInv, Knows, Published, Locked, Ask, Goto
<1>6. Findable'
  BY DEF IInv, Findable, Published, Ask
<1>7. OnlyValidatedPublished'
  BY DEF IInv, OnlyValidatedPublished, Ask
<1>8. PublishedOnce'
  BY DEF IInv, PublishedOnce, Published, Ask
<1>9. EndedTruthfully'
  BY DEF IInv, EndedTruthfully, Ask
<1> QED
  BY <1>1, <1>2, <1>3, <1>4, <1>5, <1>6, <1>7, <1>8, <1>9 DEF IInv

\* The lock is taken and the manifest read under it, or another request holds it.
LEMMA EnterKeeps ==
  ASSUME IInv, NEW r \in Requests, Enter(r) PROVE IInv'
<1>1. TypeOK'
  BY DEF IInv, TypeOK, Places, Enter
<1>2. LockHeld'
  BY DownloadAssumption DEF IInv, LockHeld, Locked, TypeOK, Enter
<1>3. Beginning'
  BY DEF IInv, Beginning, TypeOK, Enter
<1>4. BytesGood'
  BY DEF IInv, BytesGood, TypeOK, Enter
<1>5. \A q \in Requests : Knows(q)'
  BY DEF IInv, Knows, Published, Locked, Findable, Beginning, TypeOK, Enter, FoundPublished
<1>6. Findable'
  BY DEF IInv, Findable, Published, Enter
<1>7. OnlyValidatedPublished'
  BY DEF IInv, OnlyValidatedPublished, Enter
<1>8. PublishedOnce'
  BY DEF IInv, PublishedOnce, Published, Enter
<1>9. EndedTruthfully'
  BY DEF IInv, EndedTruthfully, Enter
<1> QED
  BY <1>1, <1>2, <1>3, <1>4, <1>5, <1>6, <1>7, <1>8, <1>9 DEF IInv

\* The staged file is removed by an abort, or by a resume that finds the file published.
LEMMA UnstageKeeps ==
  ASSUME IInv, NEW r \in Requests, Unstage(r) PROVE IInv'
<1>1. TypeOK'
  BY DEF IInv, TypeOK, Manifests, Places, Unstage, Goto
<1>2. LockHeld'
  BY DEF IInv, LockHeld, Locked, Unstage, Goto
<1>3. Beginning'
  BY DEF IInv, Beginning, Unstage, Goto
<1>4. BytesGood'
  BY DEF IInv, BytesGood, Unstage, Goto
<1>5. \A q \in Requests : Knows(q)'
  BY DEF IInv, Knows, Published, TypeOK, Unstage, Goto
<1>6. Findable'
  BY DEF IInv, Findable, Unstage
<1>7. OnlyValidatedPublished'
  BY DEF IInv, OnlyValidatedPublished, Unstage
<1>8. PublishedOnce'
  BY DEF IInv, PublishedOnce, Published, Unstage
<1>9. EndedTruthfully'
  BY DEF IInv, EndedTruthfully, Unstage
<1> QED
  BY <1>1, <1>2, <1>3, <1>4, <1>5, <1>6, <1>7, <1>8, <1>9 DEF IInv

\* The outcome reaches the manifest.
LEMMA RecordKeeps ==
  ASSUME IInv, NEW r \in Requests, Record(r) PROVE IInv'
<1>1. TypeOK'
  BY DEF IInv, TypeOK, Places, Record, Save, Return
<1>2. LockHeld'
  BY DownloadAssumption DEF IInv, LockHeld, Locked, TypeOK, Record, Return
<1>3. Beginning'
  BY DEF IInv, Beginning, Record, Save, Return, Knows
<1>4. BytesGood'
  BY DEF IInv, BytesGood, Record, Save, Return
<1>5. \A q \in Requests : Knows(q)'
  BY DEF IInv, Knows, Locked, LockHeld, TypeOK, Record, Return
<1>6. Findable'
  BY DEF IInv, Findable, Knows, Record
<1>7. OnlyValidatedPublished'
  BY DEF IInv, OnlyValidatedPublished, Record
<1>8. PublishedOnce'
  BY DEF IInv, PublishedOnce, Published, Record
<1>9. EndedTruthfully'
  BY DEF IInv, EndedTruthfully, Published, Knows, Record, Save
<1> QED
  BY <1>1, <1>2, <1>3, <1>4, <1>5, <1>6, <1>7, <1>8, <1>9 DEF IInv

\* A resume finds no staged file and records nothing.
LEMMA StageMissingKeeps ==
  ASSUME IInv, NEW r \in Requests, StageMissing(r) PROVE IInv'
<1>1. TypeOK'
  BY DEF IInv, TypeOK, Places, StageMissing, Return
<1>2. LockHeld'
  BY DownloadAssumption DEF IInv, LockHeld, Locked, TypeOK, StageMissing, Return
<1>3. Beginning'
  BY DEF IInv, Beginning, StageMissing, Return
<1>4. BytesGood'
  BY DEF IInv, BytesGood, StageMissing, Return
<1>5. \A q \in Requests : Knows(q)'
  BY DEF IInv, Knows, Published, Locked, StageMissing, Return
<1>6. Findable'
  BY DEF IInv, Findable, StageMissing
<1>7. OnlyValidatedPublished'
  BY DEF IInv, OnlyValidatedPublished, StageMissing
<1>8. PublishedOnce'
  BY DEF IInv, PublishedOnce, Published, StageMissing
<1>9. EndedTruthfully'
  BY DEF IInv, EndedTruthfully, StageMissing
<1> QED
  BY <1>1, <1>2, <1>3, <1>4, <1>5, <1>6, <1>7, <1>8, <1>9 DEF IInv

\* Only ranges whose bytes still have their digest stay listed.
LEMMA OpenKeeps ==
  ASSUME IInv, NEW r \in Requests, Open(r) PROVE IInv'
<1>1. TypeOK'
  <2>1. [mem[r] EXCEPT !.status = "downloading", !.ranges = Valid(mem[r])] \in Manifests
    BY DEF IInv, TypeOK, Manifests, Valid
  <2>2. mem' \in [Requests -> Manifests] /\ disk' \in Manifests
    BY <2>1 DEF IInv, TypeOK, Open, Save
  <2> QED
    BY <2>2 DEF IInv, TypeOK, Places, Open
<1>2. LockHeld'
  BY DEF IInv, LockHeld, Locked, Open
<1>3. Beginning'
  BY DEF IInv, Beginning, Open, Save
<1>4. BytesGood'
  BY DEF IInv, BytesGood, TypeOK, Open, Save, Valid
<1>5. \A q \in Requests : Knows(q)'
  BY DEF IInv, Knows, Published, Locked, LockHeld, TypeOK, Open, Save
<1>6. Findable'
  BY DEF IInv, Findable, Published, Knows, Open
<1>7. OnlyValidatedPublished'
  BY DEF IInv, OnlyValidatedPublished, Open
<1>8. PublishedOnce'
  BY DEF IInv, PublishedOnce, Published, Open
<1>9. EndedTruthfully'
  BY DEF IInv, EndedTruthfully, Open, Save
<1> QED
  BY <1>1, <1>2, <1>3, <1>4, <1>5, <1>6, <1>7, <1>8, <1>9 DEF IInv

\* Bytes of a range that is not listed reach the staged file.
LEMMA WriteKeeps ==
  ASSUME IInv, NEW r \in Requests, NEW p \in RangeIds, Write(r, p) PROVE IInv'
<1>1. TypeOK'
  BY DEF IInv, TypeOK, Manifests, Places, Write
<1>2. LockHeld'
  BY DEF IInv, LockHeld, Locked, Write
<1>3. Beginning'
  BY DEF IInv, Beginning, Write
<1>4. BytesGood'
  BY DEF IInv, BytesGood, TypeOK, Write
<1>5. \A q \in Requests : Knows(q)'
  BY DEF IInv, Knows, Published, Write
<1>6. Findable'
  BY DEF IInv, Findable, Published, Write
<1>7. OnlyValidatedPublished'
  BY DEF IInv, OnlyValidatedPublished, Write
<1>8. PublishedOnce'
  BY DEF IInv, PublishedOnce, Published, Write
<1>9. EndedTruthfully'
  BY DEF IInv, EndedTruthfully, Write
<1> QED
  BY <1>1, <1>2, <1>3, <1>4, <1>5, <1>6, <1>7, <1>8, <1>9 DEF IInv

\* A written range reaches the manifest.
LEMMA ListKeeps ==
  ASSUME IInv, NEW r \in Requests, List(r) PROVE IInv'
<1>1. TypeOK'
  BY DEF IInv, TypeOK, Places, List, Save, Goto
<1>2. LockHeld'
  BY DEF IInv, LockHeld, Locked, List, Goto
<1>3. Beginning'
  BY DEF IInv, Beginning, List, Save, Goto, Knows
<1>4. BytesGood'
  BY DEF IInv, BytesGood, List, Save, Goto
<1>5. \A q \in Requests : Knows(q)'
  BY DEF IInv, Knows, Published, Locked, LockHeld, List, Save, Goto
<1>6. Findable'
  BY DEF IInv, Findable, Published, Knows, List
<1>7. OnlyValidatedPublished'
  BY DEF IInv, OnlyValidatedPublished, List
<1>8. PublishedOnce'
  BY DEF IInv, PublishedOnce, Published, List
<1>9. EndedTruthfully'
  BY DEF IInv, EndedTruthfully, Knows, List, Save
<1> QED
  BY <1>1, <1>2, <1>3, <1>4, <1>5, <1>6, <1>7, <1>8, <1>9 DEF IInv

\* A partial request ends with a paused download.
LEMMA EnoughKeeps ==
  ASSUME IInv, NEW r \in Requests, Enough(r) PROVE IInv'
<1>1. TypeOK'
  BY DEF IInv, TypeOK, Manifests, Places, Enough, Save, Return
<1>2. LockHeld'
  BY DownloadAssumption DEF IInv, LockHeld, Locked, TypeOK, Enough, Return
<1>3. Beginning'
  BY DEF IInv, Beginning, Enough, Save, Return
<1>4. BytesGood'
  BY DEF IInv, BytesGood, Enough, Save, Return
<1>5. \A q \in Requests : Knows(q)'
  BY DEF IInv, Knows, Locked, LockHeld, TypeOK, Enough, Return
<1>6. Findable'
  BY DEF IInv, Findable, Published, Knows, Enough
<1>7. OnlyValidatedPublished'
  BY DEF IInv, OnlyValidatedPublished, Enough
<1>8. PublishedOnce'
  BY DEF IInv, PublishedOnce, Published, Enough
<1>9. EndedTruthfully'
  BY DEF IInv, EndedTruthfully, Enough, Save
<1> QED
  BY <1>1, <1>2, <1>3, <1>4, <1>5, <1>6, <1>7, <1>8, <1>9 DEF IInv

\* All ranges are listed, so the staged file is good when its name is chosen.
LEMMA SealKeeps ==
  ASSUME IInv, NEW r \in Requests, Seal(r) PROVE IInv'
<1>1. TypeOK'
  <2>1. PICK n \in Names : Save(r, [mem[r] EXCEPT !.status = "publishing", !.name = n])
    BY DEF Seal
  <2>2. [mem[r] EXCEPT !.status = "publishing", !.name = n] \in Manifests
    BY DEF IInv, TypeOK, Manifests
  <2>3. mem' \in [Requests -> Manifests] /\ disk' \in Manifests
    BY <2>1, <2>2 DEF IInv, TypeOK, Save
  <2> QED
    BY <2>3 DEF IInv, TypeOK, Places, Seal, Goto
<1>2. LockHeld'
  BY DEF IInv, LockHeld, Locked, Seal, Goto
<1>3. Beginning'
  BY DEF IInv, Beginning, Seal, Save, Goto
<1>4. BytesGood'
  BY DEF IInv, BytesGood, Seal, Save, Goto
<1>5. \A q \in Requests : Knows(q)'
  BY DEF IInv, Knows, Published, Locked, LockHeld, TypeOK, Seal, Save, Goto
<1>6. Findable'
  BY DEF IInv, Findable, Published, Knows, Seal
<1>7. OnlyValidatedPublished'
  BY DEF IInv, OnlyValidatedPublished, Seal
<1>8. PublishedOnce'
  BY DEF IInv, PublishedOnce, Published, Seal
<1>9. EndedTruthfully'
  BY DEF IInv, EndedTruthfully, Seal, Save
<1> QED
  BY <1>1, <1>2, <1>3, <1>4, <1>5, <1>6, <1>7, <1>8, <1>9 DEF IInv

\* The staged file gets its name, from which on it can be found.
LEMMA PublishKeeps ==
  ASSUME IInv, NEW r \in Requests, Publish(r) PROVE IInv'
<1>1. TypeOK'
  BY DEF IInv, TypeOK, Places, Publish, Goto, Staged
<1>2. LockHeld'
  BY DEF IInv, LockHeld, Locked, TypeOK, Publish, Goto
<1>3. Beginning'
  BY DEF IInv, Beginning, TypeOK, Publish, Goto
<1>4. BytesGood'
  BY DEF IInv, BytesGood, TypeOK, Publish, Goto
<1>5. \A q \in Requests : Knows(q)'
  <2> SUFFICES ASSUME NEW q \in Requests PROVE Knows(q)'
    OBVIOUS
  <2>1. mem[r].name \in Names
    BY DEF IInv, TypeOK, Manifests
  <2>2. files'[mem[r].name] \in {"ours", "damaged"}
    BY <2>1 DEF IInv, TypeOK, Publish, Staged
  <2>3. mem' = mem /\ mem[r].name \in Published'
    BY <2>1, <2>2 DEF Published, Publish
  <2>4. CASE q = r
    BY <2>3, <2>4 DEF IInv, TypeOK, Knows, Locked, Publish, Goto
  <2>5. CASE q # r
    BY <2>5 DEF IInv, TypeOK, LockHeld, Locked, Knows, Publish, Goto
  <2> QED
    BY <2>4, <2>5
<1>6. Findable'
  BY DEF IInv, Findable, Published, Knows, Publish
<1>7. OnlyValidatedPublished'
  BY DEF IInv, OnlyValidatedPublished, BytesGood, Publish, Staged
<1>8. PublishedOnce'
  BY DEF IInv, PublishedOnce, Published, Knows, Publish
<1>9. EndedTruthfully'
  BY DEF IInv, EndedTruthfully, Publish, Staged
<1> QED
  BY <1>1, <1>2, <1>3, <1>4, <1>5, <1>6, <1>7, <1>8, <1>9 DEF IInv

\* The staged file that a link has left behind is removed.
LEMMA UnlinkKeeps ==
  ASSUME IInv, NEW r \in Requests, Unlink(r) PROVE IInv'
<1>1. TypeOK'
  BY DEF IInv, TypeOK, Places, Unlink, Goto
<1>2. LockHeld'
  BY DEF IInv, LockHeld, Locked, Unlink, Goto
<1>3. Beginning'
  BY DEF IInv, Beginning, Unlink, Goto
<1>4. BytesGood'
  BY DEF IInv, BytesGood, Unlink, Goto
<1>5. \A q \in Requests : Knows(q)'
  BY DEF IInv, Knows, Published, Unlink, Goto
<1>6. Findable'
  BY DEF IInv, Findable, Unlink
<1>7. OnlyValidatedPublished'
  BY DEF IInv, OnlyValidatedPublished, Unlink
<1>8. PublishedOnce'
  BY DEF IInv, PublishedOnce, Published, Unlink
<1>9. EndedTruthfully'
  BY DEF IInv, EndedTruthfully, Unlink
<1> QED
  BY <1>1, <1>2, <1>3, <1>4, <1>5, <1>6, <1>7, <1>8, <1>9 DEF IInv

\* The manifest says completed.
LEMMA CompleteKeeps ==
  ASSUME IInv, NEW r \in Requests, Complete(r) PROVE IInv'
<1>1. TypeOK'
  BY DEF IInv, TypeOK, Manifests, Places, Complete, Save, Goto
<1>2. LockHeld'
  BY DEF IInv, LockHeld, Locked, Complete, Goto
<1>3. Beginning'
  BY DEF IInv, Beginning, Complete, Save, Goto
<1>4. BytesGood'
  BY DEF IInv, BytesGood, Complete, Save, Goto
<1>5. \A q \in Requests : Knows(q)'
  BY DEF IInv, Knows, Locked, LockHeld, TypeOK, Complete, Save, Goto
<1>6. Findable'
  BY DEF IInv, Findable, Knows, Complete
<1>7. OnlyValidatedPublished'
  BY DEF IInv, OnlyValidatedPublished, Complete
<1>8. PublishedOnce'
  BY DEF IInv, PublishedOnce, Published, Complete
<1>9. EndedTruthfully'
  BY DEF IInv, EndedTruthfully, Published, Knows, Complete, Save
<1> QED
  BY <1>1, <1>2, <1>3, <1>4, <1>5, <1>6, <1>7, <1>8, <1>9 DEF IInv

\* The answer to the request.
LEMMA AnnounceKeeps ==
  ASSUME IInv, NEW r \in Requests, Announce(r) PROVE IInv'
<1>1. TypeOK'
  BY DEF IInv, TypeOK, Places, Announce, Return
<1>2. LockHeld'
  BY DownloadAssumption DEF IInv, LockHeld, Locked, TypeOK, Announce, Return
<1>3. Beginning'
  BY DEF IInv, Beginning, Announce, Return
<1>4. BytesGood'
  BY DEF IInv, BytesGood, Announce, Return
<1>5. \A q \in Requests : Knows(q)'
  BY DEF IInv, Knows, Published, Locked, Announce, Return
<1>6. Findable'
  BY DEF IInv, Findable, Published, Announce
<1>7. OnlyValidatedPublished'
  BY DEF IInv, OnlyValidatedPublished, Announce
<1>8. PublishedOnce'
  BY DEF IInv, PublishedOnce, Published, Announce
<1>9. EndedTruthfully'
  BY DEF IInv, EndedTruthfully, Announce
<1> QED
  BY <1>1, <1>2, <1>3, <1>4, <1>5, <1>6, <1>7, <1>8, <1>9 DEF IInv

\* A gate or a failure ends the request.
LEMMA InterruptKeeps ==
  ASSUME IInv, NEW r \in Requests, Interrupt(r) PROVE IInv'
<1>1. TypeOK'
  BY DEF IInv, TypeOK, Manifests, Places, Interrupt, Save, Return, Interrupted, BrokenOff
<1>2. LockHeld'
  BY DownloadAssumption DEF IInv, LockHeld, Locked, TypeOK, Interrupt, Return
<1>3. Beginning'
  BY DEF IInv, Beginning, Interrupt, Save, Return, Interrupted
<1>4. BytesGood'
  BY DEF IInv, BytesGood, Locked, LockHeld, TypeOK, Interrupt, Return
<1>5. \A q \in Requests : Knows(q)'
  BY DEF IInv, Knows, Locked, LockHeld, TypeOK, Interrupt, Return
<1>6. Findable'
  BY DEF IInv, Findable, Published, Knows, Interrupt, Save, Interrupted
<1>7. OnlyValidatedPublished'
  BY DEF IInv, OnlyValidatedPublished, Interrupt
<1>8. PublishedOnce'
  BY DEF IInv, PublishedOnce, Published, Interrupt
<1>9. EndedTruthfully'
  BY DEF IInv, EndedTruthfully, Interrupt, Save, Interrupted
<1> QED
  BY <1>1, <1>2, <1>3, <1>4, <1>5, <1>6, <1>7, <1>8, <1>9 DEF IInv

\* The job is cancelled.
LEMMA CancelKeeps ==
  ASSUME IInv, NEW r \in Requests, Cancel(r) PROVE IInv'
<1>1. TypeOK'
  BY DEF IInv, TypeOK, Cancel
<1>2. LockHeld'
  BY DEF IInv, LockHeld, Cancel
<1>3. Beginning'
  BY DEF IInv, Beginning, Cancel
<1>4. BytesGood'
  BY DEF IInv, BytesGood, Cancel
<1>5. \A q \in Requests : Knows(q)'
  BY DEF IInv, Knows, Published, Cancel
<1>6. Findable'
  BY DEF IInv, Findable, Published, Cancel
<1>7. OnlyValidatedPublished'
  BY DEF IInv, OnlyValidatedPublished, Cancel
<1>8. PublishedOnce'
  BY DEF IInv, PublishedOnce, Published, Cancel
<1>9. EndedTruthfully'
  BY DEF IInv, EndedTruthfully, Cancel
<1> QED
  BY <1>1, <1>2, <1>3, <1>4, <1>5, <1>6, <1>7, <1>8, <1>9 DEF IInv

\* The process is killed, and the lock released.
LEMMA KillKeeps ==
  ASSUME IInv, NEW r \in Requests, Kill(r) PROVE IInv'
<1>1. TypeOK'
  BY DEF IInv, TypeOK, Places, Kill, BrokenOff
<1>2. LockHeld'
  BY DownloadAssumption DEF IInv, LockHeld, Locked, TypeOK, Kill
<1>3. Beginning'
  BY DEF IInv, Beginning, Published, Kill
<1>4. BytesGood'
  BY DEF IInv, BytesGood, Locked, LockHeld, TypeOK, Kill, BrokenOff
<1>5. \A q \in Requests : Knows(q)'
  BY DEF IInv, Knows, Published, Locked, Kill
<1>6. Findable'
  BY DEF IInv, Findable, Published, Kill
<1>7. OnlyValidatedPublished'
  BY DEF IInv, OnlyValidatedPublished, Kill
<1>8. PublishedOnce'
  BY DEF IInv, PublishedOnce, Published, Kill
<1>9. EndedTruthfully'
  BY DEF IInv, EndedTruthfully, Kill
<1> QED
  BY <1>1, <1>2, <1>3, <1>4, <1>5, <1>6, <1>7, <1>8, <1>9 DEF IInv

\* The staged file is written to, which happens only while nobody holds the lock.
LEMMA TamperKeeps ==
  ASSUME IInv, Tamper PROVE IInv'
<1>1. TypeOK'
  BY DEF IInv, TypeOK, Tamper, requestVars
<1>2. LockHeld'
  BY DEF IInv, LockHeld, Tamper, requestVars
<1>3. Beginning'
  BY DEF IInv, Beginning, Published, Tamper, requestVars
<1>4. BytesGood'
  BY DownloadAssumption DEF IInv, BytesGood, Locked, LockHeld, Tamper, requestVars
<1>5. \A q \in Requests : Knows(q)'
  BY DEF IInv, Knows, Published, Tamper, requestVars
<1>6. Findable'
  BY DEF IInv, Findable, Published, Tamper
<1>7. OnlyValidatedPublished'
  BY DEF IInv, OnlyValidatedPublished, Tamper
<1>8. PublishedOnce'
  BY DEF IInv, PublishedOnce, Published, Tamper
<1>9. EndedTruthfully'
  BY DEF IInv, EndedTruthfully, Tamper
<1> QED
  BY <1>1, <1>2, <1>3, <1>4, <1>5, <1>6, <1>7, <1>8, <1>9 DEF IInv

\* Another file appears, at a name that was free.
LEMMA OtherFileKeeps ==
  ASSUME IInv, OtherFile PROVE IInv'
<1>1. TypeOK'
  BY DEF IInv, TypeOK, OtherFile, requestVars
<1>2. LockHeld'
  BY DEF IInv, LockHeld, OtherFile, requestVars
<1>3. Beginning'
  BY DEF IInv, Beginning, Published, OtherFile, requestVars
<1>4. BytesGood'
  BY DEF IInv, BytesGood, OtherFile, requestVars
<1>5. \A q \in Requests : Knows(q)'
  BY DEF IInv, Knows, Published, OtherFile, requestVars
<1>6. Findable'
  BY DEF IInv, Findable, Published, OtherFile
<1>7. OnlyValidatedPublished'
  BY DEF IInv, OnlyValidatedPublished, OtherFile
<1>8. PublishedOnce'
  BY DEF IInv, PublishedOnce, Published, OtherFile
<1>9. EndedTruthfully'
  BY DEF IInv, EndedTruthfully, OtherFile
<1> QED
  BY <1>1, <1>2, <1>3, <1>4, <1>5, <1>6, <1>7, <1>8, <1>9 DEF IInv

-----------------------------------------------------------------------------
(* The theorems                                                            *)

\* The invariant holds at first ...
LEMMA InitIInv == Init => IInv
<1> SUFFICES ASSUME Init PROVE IInv
  OBVIOUS
<1>1. TypeOK
  BY DownloadAssumption DEF Init, NoManifest, Manifest, TypeOK, Manifests, Places
<1>2. Published = {}
  BY DEF Init, Published
<1>3. LockHeld
  BY DownloadAssumption DEF Init, LockHeld, Locked
<1> QED
  BY <1>1, <1>2, <1>3 DEF Init, NoManifest, Manifest, IInv, Beginning, BytesGood, Knows, Locked,
     Findable, OnlyValidatedPublished, PublishedOnce, EndedTruthfully

\* ... every step preserves it ...
LEMMA NextIInv == IInv /\ [Next]_vars => IInv'
<1> SUFFICES ASSUME IInv, [Next]_vars PROVE IInv'
  OBVIOUS
<1>1. CASE Tamper \/ OtherFile
  BY <1>1, TamperKeeps, OtherFileKeeps
<1>2. ASSUME NEW r \in Requests, RequestStep(r) PROVE IInv'
  <2>1. CASE Start(r) \/ Prepare(r) \/ Ask(r) \/ Enter(r) \/ Unstage(r) \/ Record(r)
    BY <2>1, StartKeeps, PrepareKeeps, AskKeeps, EnterKeeps, UnstageKeeps, RecordKeeps
  <2>2. CASE StageMissing(r) \/ Open(r) \/ List(r) \/ Enough(r) \/ Seal(r) \/ Publish(r)
    BY <2>2, StageMissingKeeps, OpenKeeps, ListKeeps, EnoughKeeps, SealKeeps, PublishKeeps
  <2>3. CASE Unlink(r) \/ Complete(r) \/ Announce(r) \/ Interrupt(r) \/ Cancel(r) \/ Kill(r)
    BY <2>3, UnlinkKeeps, CompleteKeeps, AnnounceKeeps, InterruptKeeps, CancelKeeps, KillKeeps
  <2>4. CASE \E p \in RangeIds : Write(r, p)
    BY <2>4, WriteKeeps
  <2> QED
    BY <1>2, <2>1, <2>2, <2>3, <2>4 DEF RequestStep
<1>3. CASE UNCHANGED vars
  BY <1>3 DEF vars, requestVars, IInv, TypeOK, LockHeld, Beginning, BytesGood, Knows, Findable,
     OnlyValidatedPublished, PublishedOnce, EndedTruthfully, Published
<1> QED
  BY <1>1, <1>2, <1>3 DEF Next

\* ... and so it always holds.
LEMMA InvariantHolds == Spec => []IInv
  BY InitIInv, NextIInv, PTL DEF Spec

\* Every variable keeps its type, for any numbers of requests, ranges and names.
THEOREM TypeCorrect == Spec => []TypeOK
<1>1. IInv => TypeOK
  BY DEF IInv
<1> QED
  BY <1>1, InvariantHolds, PTL

\* No file is ever published with bytes that were not validated: what is listed
\* was validated under the lock, and nobody else writes while the lock is held.
THEOREM ValidatedBytesOnly == Spec => []OnlyValidatedPublished
<1>1. IInv => OnlyValidatedPublished
  BY DEF IInv
<1> QED
  BY <1>1, InvariantHolds, PTL

\* However requests are killed, cancelled and resumed, one download publishes at
\* most one file.
THEOREM AtMostOneCopy == Spec => []PublishedOnce
<1>1. IInv => PublishedOnce
  BY DEF IInv
<1> QED
  BY <1>1, InvariantHolds, PTL

\* A completed manifest names a published file, and neither it nor an aborted one
\* leaves a staged file behind.
THEOREM EndsTruthfully == Spec => []EndedTruthfully
<1>1. IInv => EndedTruthfully
  BY DEF IInv
<1> QED
  BY <1>1, InvariantHolds, PTL

\* Under keepBoth no step of any request replaces the file of somebody else.
THEOREM NeverOverwrites == Spec => NothingOverwritten
<1>1. [Next]_vars => (policy = "keepBoth" =>
                        \A n \in Names : files[n] = "other" => files'[n] = "other")
  <2> SUFFICES ASSUME [Next]_vars, policy = "keepBoth", NEW n \in Names, files[n] = "other"
               PROVE files'[n] = "other"
    OBVIOUS
  <2>1. CASE files' = files
    BY <2>1
  <2>2. CASE \E r \in Requests : Publish(r)
    BY <2>2 DEF Publish, MayTake
  <2>3. CASE OtherFile
    BY <2>3 DEF OtherFile
  <2> QED
    BY <2>1, <2>2, <2>3 DEF Next, RequestStep, vars, Tamper, Start, Prepare, Ask, Enter,
       Unstage, Record, StageMissing, Open, Write, List, Enough, Seal, Unlink, Complete,
       Announce, Interrupt, Cancel, Kill
<1> QED
  BY <1>1, PTL DEF Spec, NothingOverwritten

\* The staged file only goes when the download is published or an abort was asked for.
THEOREM KeepsStage == Spec => StageKept
<1>1. ASSUME IInv, [Next]_vars, stage = "there", stage' = "gone"
      PROVE (\E n \in Names : files'[n] \in {"ours", "damaged"})
              \/ \E r \in Requests : pc[r] = "aborting"
  <2>1. PICK r \in Requests : Unstage(r) \/ Publish(r) \/ Unlink(r)
    BY <1>1 DEF Next, RequestStep, vars, Tamper, OtherFile, Start, Prepare, Ask, Enter, Record,
       StageMissing, Open, Write, List, Enough, Seal, Complete, Announce, Interrupt, Cancel, Kill
  <2>2. mem[r].name \in Names
    BY <1>1 DEF IInv, TypeOK, Manifests
  <2>3. CASE Unstage(r) \/ Unlink(r)
    BY <1>1, <2>3 DEF IInv, Knows, Published, Unstage, Unlink
  <2>4. CASE Publish(r)
    BY <1>1, <2>2, <2>4 DEF IInv, TypeOK, Publish, Staged
  <2> QED
    BY <2>1, <2>3, <2>4
<1> QED
  BY <1>1, InvariantHolds, PTL DEF Spec, StageKept
=============================================================================
