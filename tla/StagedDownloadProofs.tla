------------------------ MODULE StagedDownloadProofs ------------------------
(***************************************************************************)
(* What holds of every download, for any objects, ranges, names and edits. *)
(*                                                                         *)
(* That only whole objects are published rests on what the answers and the *)
(* staged file hold at each point (Fetched), which in turn rests on where  *)
(* an answer may still be on its way (FlightKnown): nothing writes to the  *)
(* staged file once its ranges are counted.                                *)
(***************************************************************************)
EXTENDS StagedDownload, TLAPS

-----------------------------------------------------------------------------
(* The inductive invariant                                                 *)

InFlight(r) == range[r].at \in {"answered", "body"}

\* An answer is only on its way while its object is fetched, or the pool is left.
FlightKnown ==
    \A r \in 1..MaxSlots :
        InFlight(r) => pc \in {"fetching", "checkpoint", "draining"} /\ r \in Slots(key)

\* Bytes of the object at work, and of the version that HEAD saw.
Fresh(v) == v # Hole /\ (guarded => v = head[key])

Fetched ==
    /\ pc \in {"fetching", "checkpoint"} =>
        /\ RangesOf[key] # 0
        /\ \A r \in Slots(key) :
              /\ InFlight(r) => Fresh(range[r].of)
              /\ range[r].at \in {"written", "counted"} => Fresh(stage[r])
    /\ pc \in {"asking", "reading"} => RangesOf[key] = 0 /\ stage[1] = Hole
    /\ pc = "reading" => Fresh(range[1].of)
    /\ pc = "sizing" =>
        \A r \in Slots(key) :
            (IF RangesOf[key] = 0 THEN stage[r] # Hole ELSE range[r].at = "counted") => Fresh(stage[r])
    /\ pc \in {"listing", "placing"} => \A r \in Slots(key) : Fresh(stage[r])

\* Nothing is published while the objects are asked for their size.
NothingEarly == pc = "heads" => \A n \in Names : files[n].by # "job"

\* Replacing does not look for a free name.
FirstName == policy = "replace" => index = 0

Unstaged == pc \in {"heads", "keyGate", "ending", "ended"} => ~staged

HasFile(k) == \E n \in Names : files[n].by = "job" /\ files[n].key = k

\* The object has been published, as far as the job knows.
Done(k) ==
    \/ pc \notin {"heads", "ending", "ended"} /\ k < key
    \/ pc = "placed" /\ k = key
    \/ outcome = "completed"

\* Under keepBoth every object that was published has a file.
Landed == policy = "keepBoth" => \A k \in Keys : Done(k) => HasFile(k)

IInv ==
    TypeOK /\ FlightKnown /\ Fetched /\ NothingEarly /\ FirstName /\ Unstaged /\ Landed /\ PublishedWhole

-----------------------------------------------------------------------------
(* Slots and answers                                                       *)

LEMMA SlotsType ==
    ASSUME NEW k \in Keys
    PROVE  Slots(k) \subseteq 1..MaxSlots /\ (RangesOf[k] = 0 => Slots(k) = {1})
BY DownloadAssumption, SMT DEF Slots, Keys

\* An answer that gets to another point stays the answer it is.
LEMMA Moves ==
    ASSUME TypeOK, NEW r \in 1..MaxSlots, NEW s \in Points, range' = [range EXCEPT ![r].at = s]
    PROVE  /\ range' \in [1..MaxSlots -> Answers]
           /\ \A q \in 1..MaxSlots :
                 range'[q].of = range[q].of /\ range'[q].at = IF q = r THEN s ELSE range[q].at
<1>1. \A q \in 1..MaxSlots : range[q] \in Answers
    BY DEF TypeOK
<1>2. [range[r] EXCEPT !.at = s] \in Answers
    BY <1>1 DEF Answers
<1> QED
    BY <1>1, <1>2 DEF TypeOK, Answers

-----------------------------------------------------------------------------
(* The initial states                                                      *)

LEMMA InitInv == Init => IInv
<1> SUFFICES ASSUME Init PROVE IInv
    OBVIOUS
<1>1. TypeOK
  <2>1. 1 \in Keys /\ 1 \in Versions /\ Hole \in {Hole} \cup Versions
      BY DownloadAssumption DEF Keys, Versions, Hole
  <2>2. NoFile \in Contents
      BY <2>1, DownloadAssumption DEF NoFile, Contents, Hole
  <2>3. Idle \in Answers
      BY DEF Idle, Answers, Points
  <2>4. index \in 0..MaxIndex /\ others \in 0..MaxOthers
      BY DownloadAssumption DEF Init
  <2> QED
      BY <2>1, <2>2, <2>3, <2>4 DEF Init, TypeOK
<1>2. FlightKnown
    BY DEF Init, FlightKnown, InFlight, Idle
<1>3. Fetched /\ FirstName /\ Unstaged
    BY DEF Init, Fetched, FirstName, Unstaged
<1>4. NothingEarly /\ PublishedWhole
    BY DEF Init, NothingEarly, PublishedWhole, NoFile
<1>5. Landed
    BY DEF Init, Landed, Done
<1> QED
    BY <1>1, <1>2, <1>3, <1>4, <1>5 DEF IInv

-----------------------------------------------------------------------------
(* The steps                                                               *)

\* What others do to the control is nothing the files depend on.
LEMMA ControlKeeps ==
    ASSUME IInv, NEW status \in {"running", "paused", "cancelled"}, Control(status) PROVE IInv'
<1>1. TypeOK'
    BY DEF IInv, TypeOK, Control, constVars, fileVars
<1>2. FlightKnown'
    BY DEF IInv, FlightKnown, InFlight, Control
<1>3. Fetched'
    BY DEF IInv, Fetched, Fresh, InFlight, Control, constVars, fileVars
<1>4. NothingEarly'
    BY DEF IInv, NothingEarly, Control, fileVars
<1>5. FirstName'
    BY DEF IInv, FirstName, Control, constVars, fileVars
<1>6. Unstaged'
    BY DEF IInv, Unstaged, Control, fileVars
<1>7. Landed'
  <2>1. \A k \in Keys : HasFile(k)' <=> HasFile(k)
      BY DEF HasFile, Control, fileVars
  <2> QED
      BY <2>1 DEF IInv, Landed, Done, Control, constVars
<1>8. PublishedWhole'
    BY DEF IInv, PublishedWhole, Control, constVars, fileVars
<1> QED
    BY <1>1, <1>2, <1>3, <1>4, <1>5, <1>6, <1>7, <1>8 DEF IInv

\* An edit after HEAD is seen by no answer that carries the ETag.
LEMMA EditKeeps ==
    ASSUME IInv, NEW k \in Keys, Edit(k) PROVE IInv'
<1>1. TypeOK'
  <2>1. object' \in [Keys -> Versions]
      BY DownloadAssumption DEF IInv, TypeOK, Versions, Edit
  <2> QED
      BY <2>1 DEF IInv, TypeOK, Edit, constVars, fileVars
<1>2. FlightKnown'
    BY DEF IInv, FlightKnown, InFlight, Edit
<1>3. Fetched'
    BY DEF IInv, Fetched, Fresh, InFlight, Edit, constVars, fileVars
<1>4. NothingEarly'
    BY DEF IInv, NothingEarly, Edit, fileVars
<1>5. FirstName'
    BY DEF IInv, FirstName, Edit, constVars, fileVars
<1>6. Unstaged'
    BY DEF IInv, Unstaged, Edit, fileVars
<1>7. Landed'
  <2>1. \A q \in Keys : HasFile(q)' <=> HasFile(q)
      BY DEF HasFile, Edit, fileVars
  <2> QED
      BY <2>1 DEF IInv, Landed, Done, Edit, constVars
<1>8. PublishedWhole'
    BY DEF IInv, PublishedWhole, Edit, constVars, fileVars
<1> QED
    BY <1>1, <1>2, <1>3, <1>4, <1>5, <1>6, <1>7, <1>8 DEF IInv

\* A file that appears is nobody's of the job.
LEMMA AppearKeeps ==
    ASSUME IInv, NEW n \in Names, Appear(n) PROVE IInv'
<1>1. TypeOK'
  <2>1. OtherFile \in Contents
      BY DownloadAssumption DEF OtherFile, NoFile, Contents, Hole
  <2>2. others' \in 0..MaxOthers
      BY DownloadAssumption DEF IInv, TypeOK, Appear
  <2> QED
      BY <2>1, <2>2 DEF IInv, TypeOK, Appear, constVars
<1>2. FlightKnown'
    BY DEF IInv, FlightKnown, InFlight, Appear
<1>3. Fetched'
    BY DEF IInv, Fetched, Fresh, InFlight, Appear, constVars
<1>4. NothingEarly'
  <2>1. \A m \in Names : files'[m] = files[m] \/ files'[m].by = "other"
      BY DEF IInv, Appear, OtherFile
  <2> QED
      BY <2>1 DEF IInv, NothingEarly, Appear
<1>5. FirstName'
    BY DEF IInv, FirstName, Appear, constVars
<1>6. Unstaged'
    BY DEF IInv, Unstaged, Appear
<1>7. Landed'
  <2>1. \A k \in Keys : HasFile(k) => HasFile(k)'
    <3> SUFFICES ASSUME NEW k \in Keys, NEW m \in Names, files[m].by = "job", files[m].key = k PROVE HasFile(k)'
        BY DEF HasFile
    <3>1. files'[m] = files[m]
        BY DEF IInv, Appear, NoFile
    <3> QED
        BY <3>1 DEF HasFile
  <2> QED
      BY <2>1 DEF IInv, Landed, Done, Appear, constVars
<1>8. PublishedWhole'
  <2>1. \A m \in Names : files'[m] = files[m] \/ files'[m].by = "other"
      BY DEF IInv, Appear, OtherFile
  <2> QED
      BY <2>1 DEF IInv, PublishedWhole, Appear, constVars
<1> QED
    BY <1>1, <1>2, <1>3, <1>4, <1>5, <1>6, <1>7, <1>8 DEF IInv

\* While the objects are asked for their size, nothing is published.
LEMMA AskSizeKeeps ==
    ASSUME IInv, AskSize PROVE IInv'
<1>1. TypeOK'
  <2>1. key' \in Keys /\ head' \in [Keys -> {Hole} \cup Versions]
      BY DownloadAssumption DEF IInv, TypeOK, AskSize, Keys
  <2> QED
      BY <2>1 DEF IInv, TypeOK, AskSize, constVars, fileVars
<1>2. FlightKnown'
    BY DEF IInv, FlightKnown, InFlight, AskSize
<1>3. Fetched'
    BY DEF IInv, Fetched, AskSize
<1>4. NothingEarly'
    BY DEF IInv, NothingEarly, AskSize, fileVars
<1>5. FirstName'
    BY DEF IInv, FirstName, AskSize, constVars, fileVars
<1>6. Unstaged'
    BY DEF IInv, Unstaged, AskSize, fileVars
<1>7. Landed'
  <2>1. \A k \in Keys : HasFile(k)' <=> HasFile(k)
      BY DEF HasFile, AskSize, fileVars
  <2> QED
      BY <2>1 DEF IInv, Landed, Done, AskSize, constVars
<1>8. PublishedWhole'
    BY DEF IInv, NothingEarly, PublishedWhole, AskSize, fileVars
<1> QED
    BY <1>1, <1>2, <1>3, <1>4, <1>5, <1>6, <1>7, <1>8 DEF IInv

\* The job starts with its first object, none of them done.
LEMMA RegisterKeeps ==
    ASSUME IInv, Register PROVE IInv'
<1>1. TypeOK'
  <2>1. 1 \in Keys
      BY DownloadAssumption DEF Keys
  <2> QED
      BY <2>1 DEF IInv, TypeOK, Register, constVars, fileVars
<1>2. FlightKnown'
    BY DEF IInv, FlightKnown, InFlight, Register
<1>3. Fetched'
    BY DEF IInv, Fetched, Register
<1>4. NothingEarly'
    BY DEF IInv, NothingEarly, Register
<1>5. FirstName'
    BY DEF IInv, FirstName, Register, constVars, fileVars
<1>6. Unstaged'
    BY DEF IInv, Unstaged, Register, fileVars
<1>7. Landed'
  <2>1. \A k \in Keys : HasFile(k)' <=> HasFile(k)
      BY DEF HasFile, Register, fileVars
  <2> QED
      BY <2>1 DEF IInv, Landed, Done, Keys, Register, constVars
<1>8. PublishedWhole'
    BY DEF IInv, PublishedWhole, Register, constVars, fileVars
<1> QED
    BY <1>1, <1>2, <1>3, <1>4, <1>5, <1>6, <1>7, <1>8 DEF IInv

\* A new object starts with an empty staged file, and no answer of the last one is on its way.
LEMMA KeyGateKeeps ==
    ASSUME IInv, KeyGate PROVE IInv'
<1>1. \A r \in 1..MaxSlots : ~InFlight(r)'
  <2>1. range' = range \/ range' = [r \in 1..MaxSlots |-> Idle]
      BY DEF KeyGate
  <2>2. Idle.at = "todo"
      BY DEF Idle
  <2> QED
      BY <2>1, <2>2 DEF IInv, FlightKnown, InFlight, KeyGate
<1>2. pc' = "fetching" => \A r \in 1..MaxSlots : range'[r].at = "todo"
    BY DEF KeyGate, Idle, End
<1>3. 1 \in 1..MaxSlots
    BY DownloadAssumption
<1>4. TypeOK'
  <2>1. Idle \in Answers
      BY DEF Idle, Answers, Points
  <2> QED
      BY <2>1 DEF IInv, TypeOK, KeyGate, End, constVars
<1>5. FlightKnown'
    BY <1>1 DEF FlightKnown
<1>6. Fetched'
    BY <1>1, <1>2, <1>3, SlotsType DEF IInv, TypeOK, Fetched, KeyGate, End
<1>7. NothingEarly'
    BY DEF IInv, NothingEarly, KeyGate, End
<1>8. FirstName'
    BY DEF IInv, FirstName, KeyGate, constVars
<1>9. Unstaged'
    BY DEF IInv, Unstaged, KeyGate
<1>10. Landed'
  <2>1. \A k \in Keys : HasFile(k)' <=> HasFile(k)
      BY DEF HasFile, KeyGate
  <2> QED
      BY <2>1 DEF IInv, Landed, Done, KeyGate, End, constVars
<1>11. PublishedWhole'
    BY DEF IInv, PublishedWhole, KeyGate, constVars
<1> QED
    BY <1>4, <1>5, <1>6, <1>7, <1>8, <1>9, <1>10, <1>11 DEF IInv

\* A range is answered with the version that HEAD saw, or with any where none is asked for.
LEMMA AskKeeps ==
    ASSUME IInv, NEW r \in 1..MaxSlots, Ask(r) PROVE IInv'
<1>1. /\ range' \in [1..MaxSlots -> Answers]
      /\ \A q \in 1..MaxSlots :
            \/ range'[q] = range[q]
            \/ q = r /\ range'[q].at \in {"broken", "stopped"}
            \/ q = r /\ Served /\ range'[q].at \in {"answered", "body"} /\ range'[q].of = object[key]
  <2>1. CASE \E s \in {"answered", "body"} : Served /\ range' = [range EXCEPT ![r] = [at |-> s, of |-> object[key]]]
      BY <2>1 DEF IInv, TypeOK, Answers, Points
  <2>2. CASE \E s \in {"broken", "stopped"} : range' = [range EXCEPT ![r].at = s]
    <3>1. PICK s \in {"broken", "stopped"} : range' = [range EXCEPT ![r].at = s]
        BY <2>2
    <3>2. s \in Points /\ range \in [1..MaxSlots -> Answers]
        BY DEF Points, IInv, TypeOK
    <3>3. \A q \in 1..MaxSlots : range'[q] = range[q] \/ (q = r /\ range'[q].at = s)
        BY <3>1, <3>2 DEF Answers
    <3>4. range' \in [1..MaxSlots -> Answers]
        BY <3>1, <3>2, Moves DEF IInv
    <3> QED
        BY <3>3, <3>4
  <2> QED
      BY <2>1, <2>2 DEF Ask
<1>2. TypeOK'
    BY <1>1 DEF IInv, TypeOK, Ask, constVars, fileVars
<1>3. FlightKnown'
    BY <1>1 DEF IInv, FlightKnown, InFlight, Ask
<1>4. Fetched'
  <2>1. object[key] # Hole
      BY DEF IInv, TypeOK, Versions, Hole
  <2> QED
      BY <1>1, <2>1, SlotsType DEF IInv, TypeOK, Fetched, Fresh, InFlight, Served, Ask, constVars, fileVars
<1>5. NothingEarly'
    BY DEF IInv, NothingEarly, Ask
<1>6. FirstName'
    BY DEF IInv, FirstName, Ask, constVars, fileVars
<1>7. Unstaged'
    BY DEF IInv, Unstaged, Ask
<1>8. Landed'
  <2>1. \A k \in Keys : HasFile(k)' <=> HasFile(k)
      BY DEF HasFile, Ask, fileVars
  <2> QED
      BY <2>1 DEF IInv, Landed, Done, Ask, constVars
<1>9. PublishedWhole'
    BY DEF IInv, PublishedWhole, Ask, constVars, fileVars
<1> QED
    BY <1>2, <1>3, <1>4, <1>5, <1>6, <1>7, <1>8, <1>9 DEF IInv

\* An answer that is looked at stays what it is.
LEMMA LookKeeps ==
    ASSUME IInv, NEW r \in 1..MaxSlots, Look(r) PROVE IInv'
<1>1. PICK s \in {"body", "stopped"} : range' = [range EXCEPT ![r].at = s]
    BY DEF Look
<1>2. /\ range' \in [1..MaxSlots -> Answers]
      /\ \A q \in 1..MaxSlots : range'[q].of = range[q].of /\ range'[q].at = IF q = r THEN s ELSE range[q].at
  <2>1. s \in Points
      BY DEF Points
  <2> QED
      BY <1>1, <2>1, Moves DEF IInv
<1>3. TypeOK'
    BY <1>2 DEF IInv, TypeOK, Look, constVars, fileVars
<1>4. FlightKnown'
    BY <1>1, <1>2 DEF IInv, FlightKnown, InFlight, Look
<1>5. Fetched'
  <2>1. pc \in {"fetching", "checkpoint", "draining"}
      BY DEF IInv, FlightKnown, InFlight, Look
  <2> QED
      BY <1>1, <1>2, <2>1 DEF IInv, Fetched, Fresh, InFlight, Look, constVars, fileVars
<1>6. NothingEarly'
    BY DEF IInv, NothingEarly, Look, fileVars
<1>7. FirstName'
    BY DEF IInv, FirstName, Look, constVars, fileVars
<1>8. Unstaged'
    BY DEF IInv, Unstaged, Look, fileVars
<1>9. Landed'
  <2>1. \A k \in Keys : HasFile(k)' <=> HasFile(k)
      BY DEF HasFile, Look, fileVars
  <2> QED
      BY <2>1 DEF IInv, Landed, Done, Look, constVars
<1>10. PublishedWhole'
    BY DEF IInv, PublishedWhole, Look, constVars, fileVars
<1> QED
    BY <1>3, <1>4, <1>5, <1>6, <1>7, <1>8, <1>9, <1>10 DEF IInv

\* Only the staged bytes of the range change, to those of its answer.
LEMMA WriteKeeps ==
    ASSUME IInv, NEW r \in 1..MaxSlots, Write(r) PROVE IInv'
<1>1. PICK s \in {"written", "broken", "stopped"} : range' = [range EXCEPT ![r].at = s]
    BY DEF Write
<1>2. /\ range' \in [1..MaxSlots -> Answers]
      /\ \A q \in 1..MaxSlots : range'[q].of = range[q].of /\ range'[q].at = IF q = r THEN s ELSE range[q].at
  <2>1. s \in Points
      BY DEF Points
  <2> QED
      BY <1>1, <2>1, Moves DEF IInv
<1>3. /\ stage' \in [1..MaxSlots -> {Hole} \cup Versions]
      /\ s = "written" => stage' = [stage EXCEPT ![r] = range[r].of]
      /\ s # "written" => stage' = stage
    BY <1>1, <1>2 DEF IInv, TypeOK, Answers, Write
<1>4. TypeOK'
    BY <1>2, <1>3 DEF IInv, TypeOK, Write, constVars
<1>5. FlightKnown'
    BY <1>1, <1>2 DEF IInv, FlightKnown, InFlight, Write
<1>6. Fetched'
  <2>1. pc \in {"fetching", "checkpoint", "draining"} /\ InFlight(r)
      BY DEF IInv, FlightKnown, InFlight, Write
  <2>2. \A q \in 1..MaxSlots : stage'[q] = IF q = r /\ s = "written" THEN range[q].of ELSE stage[q]
      BY <1>3 DEF IInv
  <2> QED
      BY <1>1, <1>2, <2>1, <2>2, SlotsType DEF IInv, TypeOK, Fetched, Fresh, InFlight, Write, constVars
<1>7. NothingEarly'
    BY DEF IInv, NothingEarly, Write
<1>8. FirstName'
    BY DEF IInv, FirstName, Write, constVars
<1>9. Unstaged'
    BY DEF IInv, Unstaged, Write
<1>10. Landed'
  <2>1. \A k \in Keys : HasFile(k)' <=> HasFile(k)
      BY DEF HasFile, Write
  <2> QED
      BY <2>1 DEF IInv, Landed, Done, Write, constVars
<1>11. PublishedWhole'
    BY DEF IInv, PublishedWhole, Write, constVars
<1> QED
    BY <1>4, <1>5, <1>6, <1>7, <1>8, <1>9, <1>10, <1>11 DEF IInv

\* A range that is counted has been written.
LEMMA CountKeeps ==
    ASSUME IInv, NEW r \in 1..MaxSlots, Count(r) PROVE IInv'
<1>1. PICK s \in {"counted"} : range' = [range EXCEPT ![r].at = s]
    BY DEF Count
<1>2. /\ range' \in [1..MaxSlots -> Answers]
      /\ \A q \in 1..MaxSlots : range'[q].of = range[q].of /\ range'[q].at = IF q = r THEN s ELSE range[q].at
  <2>1. s \in Points
      BY DEF Points
  <2> QED
      BY <1>1, <2>1, Moves DEF IInv
<1>3. TypeOK'
    BY <1>2 DEF IInv, TypeOK, Count, constVars, fileVars
<1>4. FlightKnown'
    BY <1>1, <1>2 DEF IInv, FlightKnown, InFlight, Count
<1>5. Fetched'
    BY <1>1, <1>2 DEF IInv, Fetched, Fresh, InFlight, Count, constVars, fileVars
<1>6. NothingEarly'
    BY DEF IInv, NothingEarly, Count
<1>7. FirstName'
    BY DEF IInv, FirstName, Count, constVars, fileVars
<1>8. Unstaged'
    BY DEF IInv, Unstaged, Count
<1>9. Landed'
  <2>1. \A k \in Keys : HasFile(k)' <=> HasFile(k)
      BY DEF HasFile, Count, fileVars
  <2> QED
      BY <2>1 DEF IInv, Landed, Done, Count, constVars
<1>10. PublishedWhole'
    BY DEF IInv, PublishedWhole, Count, constVars, fileVars
<1> QED
    BY <1>3, <1>4, <1>5, <1>6, <1>7, <1>8, <1>9, <1>10 DEF IInv

\* The size is looked at when all ranges have been counted.
LEMMA CheckpointKeeps ==
    ASSUME IInv, Checkpoint PROVE IInv'
<1>1. TypeOK'
    BY DEF IInv, TypeOK, Checkpoint, constVars, fileVars
<1>2. FlightKnown'
    BY DEF IInv, FlightKnown, InFlight, Checkpoint, Counted
<1>3. Fetched'
    BY DEF IInv, Fetched, Fresh, InFlight, Checkpoint, constVars, fileVars
<1>4. NothingEarly'
    BY DEF IInv, NothingEarly, Checkpoint
<1>5. FirstName'
    BY DEF IInv, FirstName, Checkpoint, constVars, fileVars
<1>6. Unstaged'
    BY DEF IInv, Unstaged, Checkpoint
<1>7. Landed'
  <2>1. \A k \in Keys : HasFile(k)' <=> HasFile(k)
      BY DEF HasFile, Checkpoint, fileVars
  <2> QED
      BY <2>1 DEF IInv, Landed, Done, Checkpoint, constVars
<1>8. PublishedWhole'
    BY DEF IInv, PublishedWhole, Checkpoint, constVars, fileVars
<1> QED
    BY <1>1, <1>2, <1>3, <1>4, <1>5, <1>6, <1>7, <1>8 DEF IInv

\* An object that is given up is not published.
LEMMA GiveKeeps ==
    ASSUME IInv, NEW r \in 1..MaxSlots, Give(r) PROVE IInv'
<1>1. TypeOK'
    BY DEF IInv, TypeOK, Give, constVars, fileVars
<1>2. FlightKnown'
    BY DEF IInv, FlightKnown, InFlight, Give
<1>3. Fetched'
    BY DEF IInv, Fetched, Give
<1>4. NothingEarly'
    BY DEF IInv, NothingEarly, Give
<1>5. FirstName'
    BY DEF IInv, FirstName, Give, constVars, fileVars
<1>6. Unstaged'
    BY DEF IInv, Unstaged, Give
<1>7. Landed'
  <2>1. \A k \in Keys : HasFile(k)' <=> HasFile(k)
      BY DEF HasFile, Give, fileVars
  <2> QED
      BY <2>1 DEF IInv, Landed, Done, Give, constVars
<1>8. PublishedWhole'
    BY DEF IInv, PublishedWhole, Give, constVars, fileVars
<1> QED
    BY <1>1, <1>2, <1>3, <1>4, <1>5, <1>6, <1>7, <1>8 DEF IInv

\* When the pool has been left, no answer is on its way.
LEMMA DrainKeeps ==
    ASSUME IInv, Drain PROVE IInv'
<1>1. TypeOK'
    BY DEF IInv, TypeOK, Drain, constVars, fileVars
<1>2. FlightKnown'
    BY DEF IInv, FlightKnown, InFlight, Drain
<1>3. Fetched'
    BY DEF IInv, Fetched, Drain
<1>4. NothingEarly'
    BY DEF IInv, NothingEarly, Drain
<1>5. FirstName'
    BY DEF IInv, FirstName, Drain, constVars, fileVars
<1>6. Unstaged'
    BY DEF IInv, Unstaged, Drain
<1>7. Landed'
  <2>1. \A k \in Keys : HasFile(k)' <=> HasFile(k)
      BY DEF HasFile, Drain, fileVars
  <2> QED
      BY <2>1 DEF IInv, Landed, Done, Drain, constVars
<1>8. PublishedWhole'
    BY DEF IInv, PublishedWhole, Drain, constVars, fileVars
<1> QED
    BY <1>1, <1>2, <1>3, <1>4, <1>5, <1>6, <1>7, <1>8 DEF IInv

\* The one GET is answered like a range.
LEMMA GetKeeps ==
    ASSUME IInv, Get PROVE IInv'
<1>1. /\ range' \in [1..MaxSlots -> Answers]
      /\ \A r \in 1..MaxSlots : range'[r].at = range[r].at
      /\ pc' = "reading" => range'[1].of = object[key] /\ Served
  <2>1. CASE Abandon("failed") /\ UNCHANGED range
      BY <2>1 DEF IInv, TypeOK, Abandon
  <2>2. CASE Served /\ range' = [range EXCEPT ![1].of = object[key]]
    <3>1. 1 \in 1..MaxSlots /\ range \in [1..MaxSlots -> Answers] /\ object[key] \in Versions
        BY DownloadAssumption DEF IInv, TypeOK
    <3>2. [range[1] EXCEPT !.of = object[key]] \in Answers
        BY <3>1 DEF Answers
    <3>3. range' = [range EXCEPT ![1] = [range[1] EXCEPT !.of = object[key]]]
        BY <2>2
    <3>4. range' \in [1..MaxSlots -> Answers]
        BY <3>1, <3>2, <3>3
    <3>5. range'[1].of = object[key] /\ range'[1].at = range[1].at
        BY <3>1, <3>3 DEF Answers
    <3>6. \A r \in 1..MaxSlots : r # 1 => range'[r] = range[r]
        BY <3>1, <3>3
    <3> QED
        BY <2>2, <3>4, <3>5, <3>6
  <2> QED
      BY <2>1, <2>2 DEF Get
<1>2. TypeOK'
    BY <1>1 DEF IInv, TypeOK, Get, Abandon, constVars, fileVars
<1>3. FlightKnown'
    BY <1>1 DEF IInv, FlightKnown, InFlight, Get
<1>4. Fetched'
  <2>1. object[key] # Hole
      BY DEF IInv, TypeOK, Versions, Hole
  <2> QED
      BY <1>1, <2>1 DEF IInv, Fetched, Fresh, Served, Get, Abandon, constVars, fileVars
<1>5. NothingEarly'
    BY DEF IInv, NothingEarly, Get, Abandon
<1>6. FirstName'
    BY DEF IInv, FirstName, Get, constVars, fileVars
<1>7. Unstaged'
    BY DEF IInv, Unstaged, Get, Abandon
<1>8. Landed'
  <2>1. \A k \in Keys : HasFile(k)' <=> HasFile(k)
      BY DEF HasFile, Get, fileVars
  <2> QED
      BY <2>1 DEF IInv, Landed, Done, Get, Abandon, constVars
<1>9. PublishedWhole'
    BY DEF IInv, PublishedWhole, Get, constVars, fileVars
<1> QED
    BY <1>2, <1>3, <1>4, <1>5, <1>6, <1>7, <1>8, <1>9 DEF IInv

\* The staged file has the answer, or has nothing and is too short.
LEMMA ReadKeeps ==
    ASSUME IInv, Read PROVE IInv'
<1>1. TypeOK'
  <2>1. stage' \in [1..MaxSlots -> {Hole} \cup Versions]
      BY DEF IInv, TypeOK, Answers, Read
  <2> QED
      BY <2>1 DEF IInv, TypeOK, Read, Abandon, constVars
<1>2. FlightKnown'
    BY DEF IInv, FlightKnown, InFlight, Read
<1>3. Fetched'
    BY SlotsType DEF IInv, Fetched, Fresh, TypeOK, Read, Abandon, constVars
<1>4. NothingEarly'
    BY DEF IInv, NothingEarly, Read, Abandon
<1>5. FirstName'
    BY DEF IInv, FirstName, Read, constVars
<1>6. Unstaged'
    BY DEF IInv, Unstaged, Read, Abandon
<1>7. Landed'
  <2>1. \A k \in Keys : HasFile(k)' <=> HasFile(k)
      BY DEF HasFile, Read
  <2> QED
      BY <2>1 DEF IInv, Landed, Done, Read, Abandon, constVars
<1>8. PublishedWhole'
    BY DEF IInv, PublishedWhole, Read, constVars
<1> QED
    BY <1>1, <1>2, <1>3, <1>4, <1>5, <1>6, <1>7, <1>8 DEF IInv

\* An object that passes has all its bytes.
LEMMA SizeKeeps ==
    ASSUME IInv, Size PROVE IInv'
<1>1. TypeOK'
    BY DEF IInv, TypeOK, Size, Abandon, constVars, fileVars
<1>2. FlightKnown'
    BY DEF IInv, FlightKnown, InFlight, Size
<1>3. Fetched'
    BY SlotsType DEF IInv, Fetched, Fresh, TypeOK, Size, Complete, Counted, Abandon, constVars, fileVars
<1>4. NothingEarly'
    BY DEF IInv, NothingEarly, Size, Abandon
<1>5. FirstName'
    BY DEF IInv, FirstName, Size, constVars, fileVars
<1>6. Unstaged'
    BY DEF IInv, Unstaged, Size, Abandon
<1>7. Landed'
  <2>1. \A k \in Keys : HasFile(k)' <=> HasFile(k)
      BY DEF HasFile, Size, fileVars
  <2> QED
      BY <2>1 DEF IInv, Landed, Done, Size, Abandon, constVars
<1>8. PublishedWhole'
    BY DEF IInv, PublishedWhole, Size, constVars, fileVars
<1> QED
    BY <1>1, <1>2, <1>3, <1>4, <1>5, <1>6, <1>7, <1>8 DEF IInv

\* The listing changes no file.
LEMMA ListKeeps ==
    ASSUME IInv, List PROVE IInv'
<1>1. TypeOK'
    BY DownloadAssumption DEF IInv, TypeOK, List, constVars
<1>2. FlightKnown'
    BY DEF IInv, FlightKnown, InFlight, List
<1>3. Fetched'
    BY DEF IInv, Fetched, Fresh, List, constVars
<1>4. NothingEarly'
    BY DEF IInv, NothingEarly, List
<1>5. FirstName'
    BY DEF IInv, FirstName, List
<1>6. Unstaged'
    BY DEF IInv, Unstaged, List
<1>7. Landed'
  <2>1. \A k \in Keys : HasFile(k)' <=> HasFile(k)
      BY DEF HasFile, List
  <2> QED
      BY <2>1 DEF IInv, Landed, Done, List, constVars
<1>8. PublishedWhole'
    BY DEF IInv, PublishedWhole, List, constVars
<1> QED
    BY <1>1, <1>2, <1>3, <1>4, <1>5, <1>6, <1>7, <1>8 DEF IInv

\* Trying the next name changes no file.
LEMMA NextNameKeeps ==
    ASSUME IInv, NextName PROVE IInv'
<1>1. TypeOK'
    BY DownloadAssumption DEF IInv, TypeOK, NextName, Abandon, constVars
<1>2. FlightKnown'
    BY DEF IInv, FlightKnown, InFlight, NextName
<1>3. Fetched'
    BY DEF IInv, Fetched, Fresh, NextName, Abandon, constVars
<1>4. NothingEarly'
    BY DEF IInv, NothingEarly, NextName, Abandon
<1>5. FirstName'
    BY DEF IInv, FirstName, NextName, constVars
<1>6. Unstaged'
    BY DEF IInv, Unstaged, NextName, Abandon
<1>7. Landed'
  <2>1. \A k \in Keys : HasFile(k)' <=> HasFile(k)
      BY DEF HasFile, NextName
  <2> QED
      BY <2>1 DEF IInv, Landed, Done, NextName, Abandon
<1>8. PublishedWhole'
    BY DEF IInv, PublishedWhole, NextName, constVars
<1> QED
    BY <1>1, <1>2, <1>3, <1>4, <1>5, <1>6, <1>7, <1>8 DEF IInv

\* The link publishes the staged file, under a name that was free.
LEMMA LinkKeeps ==
    ASSUME IInv, Link PROVE IInv'
<1>1. TypeOK'
  <2>1. Published \in Contents
      BY DownloadAssumption DEF IInv, TypeOK, Published, Contents, Keys, Versions, Hole
  <2> QED
      BY <2>1 DEF IInv, TypeOK, Link, constVars
<1>2. FlightKnown'
    BY DEF IInv, FlightKnown, InFlight, Link
<1>3. Fetched'
    BY DEF IInv, Fetched, Link
<1>4. NothingEarly'
    BY DEF NothingEarly, Link
<1>5. FirstName'
    BY DEF IInv, FirstName, Link, constVars
<1>6. Unstaged'
    BY DEF IInv, Unstaged, Link
<1>7. Landed'
  <2>1. \A k \in Keys : HasFile(k) => HasFile(k)'
    <3> SUFFICES ASSUME NEW k \in Keys, NEW m \in Names, files[m].by = "job", files[m].key = k PROVE HasFile(k)'
        BY DEF HasFile
    <3>1. files'[m] = files[m]
        BY DEF IInv, Link, Linkable, NoFile
    <3> QED
        BY <3>1 DEF HasFile
  <2>2. HasFile(key)'
    <3>1. TargetName \in Names
        BY DownloadAssumption DEF IInv, TypeOK, TargetName, Names
    <3>2. files'[TargetName].by = "job" /\ files'[TargetName].key = key /\ key' = key
        BY <3>1 DEF IInv, TypeOK, Link, Published
    <3> QED
        BY <3>1, <3>2 DEF HasFile
  <2> QED
      BY <2>1, <2>2 DEF IInv, Landed, Done, Link
<1>8. PublishedWhole'
  <2>1. \A m \in Names : files'[m] = files[m] \/ files'[m] = Published
      BY DEF IInv, Link
  <2>2. \A r \in Slots(key) : Fresh(stage[r])
      BY DEF IInv, Fetched, Link
  <2> QED
      BY <2>1, <2>2 DEF IInv, PublishedWhole, Published, Fresh, Link, constVars
<1> QED
    BY <1>1, <1>2, <1>3, <1>4, <1>5, <1>6, <1>7, <1>8 DEF IInv

\* The replacement publishes the staged file.
LEMMA ReplaceKeeps ==
    ASSUME IInv, Replace PROVE IInv'
<1>1. TypeOK'
  <2>1. Published \in Contents
      BY DownloadAssumption DEF IInv, TypeOK, Published, Contents, Keys, Versions, Hole
  <2> QED
      BY <2>1 DEF IInv, TypeOK, Replace, constVars
<1>2. FlightKnown'
    BY DEF IInv, FlightKnown, InFlight, Replace
<1>3. Fetched'
    BY DEF IInv, Fetched, Replace
<1>4. NothingEarly'
    BY DEF NothingEarly, Replace
<1>5. FirstName'
    BY DEF IInv, FirstName, Replace
<1>6. Unstaged'
    BY DEF IInv, Unstaged, Replace
<1>7. Landed'
    BY DEF Landed, Replace, constVars
<1>8. PublishedWhole'
  <2>1. \A m \in Names : files'[m] = files[m] \/ files'[m] = Published
      BY DEF IInv, Replace
  <2>2. \A r \in Slots(key) : Fresh(stage[r])
      BY DEF IInv, Fetched, Replace
  <2> QED
      BY <2>1, <2>2 DEF IInv, PublishedWhole, Published, Fresh, Replace, constVars
<1> QED
    BY <1>1, <1>2, <1>3, <1>4, <1>5, <1>6, <1>7, <1>8 DEF IInv

\* An object that cannot be placed is not published.
LEMMA PlaceFailsKeeps ==
    ASSUME IInv, PlaceFails PROVE IInv'
<1>1. TypeOK'
    BY DEF IInv, TypeOK, PlaceFails, Abandon, constVars, fileVars
<1>2. FlightKnown'
    BY DEF IInv, FlightKnown, InFlight, PlaceFails
<1>3. Fetched'
    BY DEF IInv, Fetched, PlaceFails, Abandon
<1>4. NothingEarly'
    BY DEF IInv, NothingEarly, PlaceFails, Abandon
<1>5. FirstName'
    BY DEF IInv, FirstName, PlaceFails, constVars, fileVars
<1>6. Unstaged'
    BY DEF IInv, Unstaged, PlaceFails, Abandon
<1>7. Landed'
  <2>1. \A k \in Keys : HasFile(k)' <=> HasFile(k)
      BY DEF HasFile, PlaceFails, fileVars
  <2> QED
      BY <2>1 DEF IInv, Landed, Done, PlaceFails, Abandon, constVars
<1>8. PublishedWhole'
    BY DEF IInv, PublishedWhole, PlaceFails, constVars, fileVars
<1> QED
    BY <1>1, <1>2, <1>3, <1>4, <1>5, <1>6, <1>7, <1>8 DEF IInv

\* Nothing is staged any more.
LEMMA DiscardKeeps ==
    ASSUME IInv, Discard PROVE IInv'
<1>1. TypeOK'
    BY DEF IInv, TypeOK, Discard, constVars
<1>2. FlightKnown'
    BY DEF IInv, FlightKnown, InFlight, Discard
<1>3. Fetched'
    BY DEF IInv, Fetched, Discard
<1>4. NothingEarly'
    BY DEF IInv, NothingEarly, Discard
<1>5. FirstName'
    BY DEF IInv, FirstName, Discard, constVars
<1>6. Unstaged'
    BY DEF IInv, Unstaged, Discard
<1>7. Landed'
  <2>1. \A k \in Keys : HasFile(k)' <=> HasFile(k)
      BY DEF HasFile, Discard
  <2> QED
      BY <2>1 DEF IInv, Landed, Done, Discard, constVars
<1>8. PublishedWhole'
    BY DEF IInv, PublishedWhole, Discard, constVars
<1> QED
    BY <1>1, <1>2, <1>3, <1>4, <1>5, <1>6, <1>7, <1>8 DEF IInv

\* Where the job completes, the last object has been published.
LEMMA NextKeyKeeps ==
    ASSUME IInv, NextKey PROVE IInv'
<1>1. TypeOK'
  <2>1. key' \in Keys
      BY DownloadAssumption DEF IInv, TypeOK, NextKey, Keys
  <2> QED
      BY <2>1 DEF IInv, TypeOK, NextKey, End, constVars
<1>2. FlightKnown'
    BY DEF IInv, FlightKnown, InFlight, NextKey
<1>3. Fetched'
    BY DEF IInv, Fetched, NextKey, End
<1>4. NothingEarly'
    BY DEF IInv, NothingEarly, NextKey, End
<1>5. FirstName'
    BY DEF IInv, FirstName, NextKey, constVars
<1>6. Unstaged'
    BY DEF IInv, Unstaged, NextKey
<1>7. Landed'
  <2>1. \A k \in Keys : HasFile(k)' <=> HasFile(k)
      BY DEF HasFile, NextKey
  <2> QED
      BY <2>1, DownloadAssumption DEF IInv, Landed, Done, TypeOK, Keys, NextKey, constVars
<1>8. PublishedWhole'
    BY DEF IInv, PublishedWhole, NextKey, constVars
<1> QED
    BY <1>1, <1>2, <1>3, <1>4, <1>5, <1>6, <1>7, <1>8 DEF IInv

\* Nothing but the registry changes.
LEMMA UnregisterKeeps ==
    ASSUME IInv, Unregister PROVE IInv'
<1>1. TypeOK'
    BY DEF IInv, TypeOK, Unregister, constVars, fileVars
<1>2. FlightKnown'
    BY DEF IInv, FlightKnown, InFlight, Unregister
<1>3. Fetched'
    BY DEF IInv, Fetched, Unregister
<1>4. NothingEarly'
    BY DEF IInv, NothingEarly, Unregister
<1>5. FirstName'
    BY DEF IInv, FirstName, Unregister, constVars, fileVars
<1>6. Unstaged'
    BY DEF IInv, Unstaged, Unregister, fileVars
<1>7. Landed'
  <2>1. \A k \in Keys : HasFile(k)' <=> HasFile(k)
      BY DEF HasFile, Unregister, fileVars
  <2> QED
      BY <2>1 DEF IInv, Landed, Done, Unregister, constVars
<1>8. PublishedWhole'
    BY DEF IInv, PublishedWhole, Unregister, constVars, fileVars
<1> QED
    BY <1>1, <1>2, <1>3, <1>4, <1>5, <1>6, <1>7, <1>8 DEF IInv

-----------------------------------------------------------------------------
(* The theorems                                                            *)

LEMMA NextInv == IInv /\ [Next]_vars => IInv'
<1> SUFFICES ASSUME IInv, [Next]_vars PROVE IInv'
    OBVIOUS
<1>1. CASE UNCHANGED vars
  <2>1. TypeOK' /\ FlightKnown' /\ Fetched'
      BY <1>1 DEF IInv, TypeOK, FlightKnown, InFlight, Fetched, Fresh, vars, fileVars
  <2>2. NothingEarly' /\ FirstName' /\ Unstaged' /\ Landed' /\ PublishedWhole'
      BY <1>1 DEF IInv, NothingEarly, FirstName, Unstaged, Landed, Done, HasFile, PublishedWhole, vars, fileVars
  <2> QED
      BY <2>1, <2>2 DEF IInv
<1>2. CASE \E status \in {"running", "paused", "cancelled"} : Control(status)
    BY <1>2, ControlKeeps
<1>3. CASE \E k \in Keys : Edit(k)
    BY <1>3, EditKeeps
<1>4. CASE \E n \in Names : Appear(n)
    BY <1>4, AppearKeeps
<1>5. CASE \E r \in 1..MaxSlots : RangeStep(r)
    BY <1>5, AskKeeps, LookKeeps, WriteKeeps, CountKeeps, GiveKeeps DEF RangeStep
<1>6. CASE JobStep
    BY <1>6, AskSizeKeeps, RegisterKeeps, KeyGateKeeps, CheckpointKeeps, DrainKeeps, GetKeeps, ReadKeeps,
       SizeKeeps, ListKeeps, NextNameKeeps, LinkKeeps, ReplaceKeeps, PlaceFailsKeeps, DiscardKeeps,
       NextKeyKeeps, UnregisterKeeps DEF JobStep
<1> QED
    BY <1>1, <1>2, <1>3, <1>4, <1>5, <1>6 DEF Next

LEMMA InvariantHolds == Spec => []IInv
<1> QED
    BY InitInv, NextInv, PTL DEF Spec

\* A download keeps its variables within their sets.
THEOREM TypeCorrect == Spec => []TypeOK
<1>1. IInv => TypeOK
    BY DEF IInv
<1> QED
    BY <1>1, InvariantHolds, PTL

\* A file that the job publishes has all ranges of its object and, where HEAD gave
\* an ETag, all of the one version that HEAD saw, however many ranges and edits.
THEOREM WholePublished == Spec => []PublishedWhole
<1>1. IInv => PublishedWhole
    BY DEF IInv
<1> QED
    BY <1>1, InvariantHolds, PTL

\* Under keepBoth the job replaces no file, and under replace none but one of the
\* very name, whatever has appeared since the destination was listed.
THEOREM NeverReplaced == Spec => OthersKept
<1>1. IInv /\ [Next]_vars =>
        [\A n \in Names : files'[n] # files[n] =>
            files[n] = NoFile \/ (policy = "replace" /\ n[2] = 0)]_vars
  <2> SUFFICES ASSUME IInv, [Next]_vars, NEW n \in Names, files'[n] # files[n]
               PROVE  files[n] = NoFile \/ (policy = "replace" /\ n[2] = 0)
      OBVIOUS
  <2>1. (\E m \in Names : Appear(m)) \/ Link \/ Replace
      BY DEF Next, Control, Edit, RangeStep, Ask, Look, Write, Count, Give, JobStep, AskSize, Register, KeyGate,
             Checkpoint, Drain, Get, Read, Size, List, NextName, PlaceFails, Discard, NextKey, Unregister, vars, fileVars
  <2>2. CASE \E m \in Names : Appear(m)
      BY <2>2 DEF IInv, TypeOK, Appear
  <2>3. CASE Link
      BY <2>3 DEF IInv, TypeOK, Link, Linkable
  <2>4. CASE Replace
    <3>1. index = 0 /\ policy = "replace"
        BY <2>4 DEF IInv, FirstName, Replace
    <3>2. PICK m \in Names \cup {TargetName} : m[2] = 0 /\ files' = [files EXCEPT ![m] = Published]
        BY <2>4, <3>1 DEF IInv, TypeOK, Replace, TargetName
    <3> QED
        BY <3>1, <3>2 DEF IInv, TypeOK
  <2> QED
      BY <2>1, <2>2, <2>3, <2>4
<1> QED
    BY <1>1, InvariantHolds, PTL DEF Spec, OthersKept

\* However a job ends, its staged file is gone and no thread writes any more; and
\* one that completed under keepBoth has a file for each of its objects.
THEOREM EndsCleanly == Spec => []EndsClean
<1>1. IInv => EndsClean
    BY DEF IInv, FlightKnown, InFlight, Unstaged, Landed, Done, HasFile, EndsClean
<1> QED
    BY <1>1, InvariantHolds, PTL
=============================================================================
