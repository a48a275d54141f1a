----------------------------- MODULE DeleteAll -----------------------------
(***************************************************************************)
(* The delete-all tool of the Python engine (engines/python/src/main.py):  *)
(* a listing that cuts the bucket into batches, a pool that deletes them,  *)
(* the bounded recovery of what a batch could not delete, and the last     *)
(* resort, an empty PUT over an object that a compatible store will not    *)
(* delete.  Other clients rewrite objects and switch versioning on.        *)
(*                                                                         *)
(* The provider may carry a call out and lose the answer, in part too.     *)
(***************************************************************************)
EXTENDS Naturals, FiniteSets, FiniteSetsExt

CONSTANTS
    EntryCount,   \* objects, or versions and delete markers, in listing order
    KeyOf,        \* [1..EntryCount -> keys], when versions are listed
    BatchSizes,   \* sizes a user may ask for
    DeleteWorkers,\* threads of the pool
    Attempts,     \* tries of each call, between 1 and 5
    MaxRewrites   \* bound: objects that others rewrite

\* What the constants are: the proofs assume it, and the model checker evaluates it.
DeleteConstants ==
    /\ EntryCount \in Nat /\ MaxRewrites \in Nat
    /\ DeleteWorkers \in Nat \ {0} /\ Attempts \in Nat \ {0}

Entries == 1..EntryCount
Batches == 1..EntryCount

VARIABLES
    versioning,   \* the bucket is versioned now
    batchSize,    \* entries of a DeleteObjects call
    custom,       \* an endpoint that is not Amazon's own
    tagged,       \* the listing of objects gives ETags
    terse,        \* errors of DeleteObjects leave the version id out
    plain,        \* never_versioned: objects were listed and are deleted by key
    cell,         \* what has become of each entry
    rewrites,     \* rewrites so far
    lister,       \* where the thread of the tool is
    listed,       \* entries that were listed
    batch,        \* entries of each batch that was submitted
    popped,       \* futures that were waited for
    aborted,      \* abort_message
    work,         \* what the pool has done about each batch
    exitCode      \* 2 before the end, and for an error

fixedVars == <<batchSize, custom, tagged, terse>>
providerVars == <<versioning, fixedVars, cell, rewrites>>
listVars == <<plain, lister, listed, batch, popped, aborted, exitCode>>
vars == <<providerVars, listVars, work>>

Submitted == Cardinality({b \in Batches : batch[b] # {}})
InBatches == UNION {batch[b] : b \in Batches}
Failed == UNION {work[b].failed : b \in Batches}
Waiting == [at |-> "queued", pending |-> {}, tries |-> 0, failed |-> {}]
Eligible == custom /\ plain

Init ==
    /\ versioning \in BOOLEAN /\ batchSize \in BatchSizes
    /\ custom \in BOOLEAN /\ tagged \in BOOLEAN /\ terse \in BOOLEAN
    /\ ~custom => tagged /\ ~terse
    /\ plain = FALSE
    /\ cell = [e \in Entries |-> "listed"] /\ rewrites = 0
    /\ lister = "probing" /\ listed = 0
    /\ batch = [b \in Batches |-> {}] /\ popped = 0 /\ aborted = FALSE
    /\ work = [b \in Batches |-> Waiting]
    /\ exitCode = 2

-----------------------------------------------------------------------------
(* Other clients of the bucket, until the tool ends                        *)

Rewrite(e) ==
    /\ lister # "done" /\ ~versioning /\ rewrites < MaxRewrites /\ cell[e] # "newer"
    /\ cell' = [cell EXCEPT ![e] = "newer"]
    /\ rewrites' = rewrites + 1
    /\ UNCHANGED <<versioning, fixedVars, listVars, work>>

EnableVersioning ==
    /\ lister # "done" /\ ~versioning
    /\ versioning' = TRUE
    /\ UNCHANGED <<fixedVars, cell, rewrites, listVars, work>>

-----------------------------------------------------------------------------
(* The listing                                                             *)

\* A probe that fails counts as versioned.
Probe ==
    /\ lister = "probing"
    /\ plain' \in {FALSE, ~versioning}
    /\ lister' = "listing"
    /\ UNCHANGED <<providerVars, listed, batch, popped, aborted, exitCode, work>>

Submit(entries) == batch' = [batch EXCEPT ![Submitted + 1] = entries]

\* The next entry; a full batch is submitted, and when the window of futures is
\* full too, the oldest is waited for.
List ==
    /\ lister = "listing" /\ listed < EntryCount
    /\ listed' = listed + 1
    /\ LET entries == 1..listed' \ InBatches
           full == Cardinality(entries) >= batchSize
       IN  /\ IF full THEN Submit(entries) ELSE UNCHANGED batch
           /\ lister' = IF full /\ Submitted + 1 - popped >= 2 * DeleteWorkers THEN "waiting" ELSE lister
    /\ UNCHANGED <<providerVars, plain, popped, aborted, exitCode, work>>

WaitOldest ==
    /\ lister = "waiting" /\ work[popped + 1].at = "done"
    /\ popped' = popped + 1
    /\ lister' = "listing"
    /\ UNCHANGED <<providerVars, plain, listed, batch, aborted, exitCode, work>>

\* The end of the listing, or a page without a continuation, or with an old one.
ListEnds ==
    /\ lister = "listing"
    /\ aborted' \in {FALSE, TRUE} /\ (listed < EntryCount => aborted')
    /\ LET entries == 1..listed \ InBatches
       IN  IF entries # {} THEN Submit(entries) ELSE UNCHANGED batch
    /\ lister' = "joining"
    /\ UNCHANGED <<providerVars, plain, listed, popped, exitCode, work>>

\* A page cannot be had, or a version has no id: the pool still does what it was given.
ListFails ==
    /\ lister = "listing"
    /\ lister' = "failing"
    /\ UNCHANGED <<providerVars, plain, listed, batch, popped, aborted, exitCode, work>>

Join ==
    /\ lister \in {"joining", "failing"}
    /\ \A b \in 1..Submitted : work[b].at = "done"
    /\ exitCode' = IF lister = "failing" THEN 2 ELSE IF Failed # {} \/ aborted THEN 1 ELSE 0
    /\ lister' = "done"
    /\ UNCHANGED <<providerVars, plain, listed, batch, popped, aborted, work>>

-----------------------------------------------------------------------------
(* What calls do at the provider                                           *)

\* A DELETE by key hides what a versioned bucket holds; one by version removes it.
Delete(entries) ==
    cell' = [e \in Entries |-> IF e \notin entries THEN cell[e]
                               ELSE IF plain /\ versioning THEN "hidden" ELSE "gone"]

\* The empty PUT, with If-Match when the listing gave an ETag.
PutAnyway(e) == TRUE
Matches(e) == tagged => cell[e] = "listed"

PutEmpty(e) == cell' = [cell EXCEPT ![e] = IF versioning THEN "stacked" ELSE "empty"]

-----------------------------------------------------------------------------
(* A thread of the pool and its batch                                      *)

Busy == {b \in Batches : work[b].at \notin {"queued", "done"}}

Begin(b) ==
    /\ batch[b] # {} /\ work[b].at = "queued"
    /\ \A c \in Batches : c < b => work[c].at # "queued"
    /\ Cardinality(Busy) < DeleteWorkers
    /\ work' = [work EXCEPT ![b] = [Waiting EXCEPT !.at = "bulk", !.pending = batch[b]]]
    /\ UNCHANGED <<providerVars, listVars>>

\* What is left of a batch after a call for all of it.
AfterBulk(b, retry, failed) ==
    work' = [work EXCEPT ![b] =
        LET last == work[b].tries + 1 = Attempts
        IN  [at |-> IF retry = {} THEN "done" ELSE IF last THEN "single" ELSE "bulk",
             pending |-> retry, tries |-> IF last THEN 0 ELSE work[b].tries + 1,
             failed |-> work[b].failed \cup failed]]

\* An error without a version id is overlooked.
NamedByVersion(e, errors) == e \in errors /\ (plain \/ ~terse)

\* An entry is told from the errors of the answer, by its key when they have no version.
Named(e, errors) ==
    e \in errors \/ (terse /\ ~plain /\ \E f \in errors : KeyOf[f] = KeyOf[e])

\* DeleteObjects answers with errors, transient ones and others.
Bulk(b) ==
    /\ work[b].at = "bulk"
    /\ \E transient \in SUBSET work[b].pending :
          \E final \in SUBSET (work[b].pending \ transient) :
             /\ Delete(work[b].pending \ (transient \cup final))
             /\ LET retry == {e \in work[b].pending : Named(e, transient)}
                IN  AfterBulk(b, retry, {e \in work[b].pending \ retry : Named(e, final)})
    /\ UNCHANGED <<versioning, fixedVars, rewrites, listVars>>

\* DeleteObjects raises; some of it may have been carried out.
BulkRaises(b) ==
    /\ work[b].at = "bulk"
    /\ \E entries \in SUBSET work[b].pending : Delete(entries)
    /\ AfterBulk(b, work[b].pending, {}) \/ AfterBulk(b, {}, work[b].pending)
    /\ UNCHANGED <<versioning, fixedVars, rewrites, listVars>>

At(b) == Min(work[b].pending)
Try(b, at) == work' = [work EXCEPT ![b].at = at, ![b].tries = @ + 1]
Go(b, at) == work' = [work EXCEPT ![b].at = at, ![b].tries = 0]

\* The recovery of one entry is over; the next one is tried.
Settle(b, failed) ==
    work' = [work EXCEPT ![b] =
        LET rest == work[b].pending \ {At(b)}
        IN  [at |-> IF rest = {} THEN "done" ELSE "single", pending |-> rest, tries |-> 0,
             failed |-> work[b].failed \cup failed]]

\* One try too many.
AgainOnceMore(b) == work[b].tries < Attempts

Again(b) == work[b].tries + 1 < Attempts

\* DeleteObject for one entry, then the decision whether the last resort is open.
Single(b) ==
    /\ work[b].at = "single"
    /\ \/ Delete({At(b)}) /\ Settle(b, {})
       \/ /\ Delete({At(b)}) \/ UNCHANGED cell
          /\ \/ Again(b) /\ Try(b, "single")
             \/ ~Again(b) /\ Eligible /\ Go(b, "recheck")
             \/ Settle(b, {At(b)})
    /\ UNCHANGED <<versioning, fixedVars, rewrites, listVars>>

\* Versioning is looked at again.
Recheck(b) ==
    /\ work[b].at = "recheck"
    /\ \/ ~versioning /\ Go(b, "emptying")
       \/ Settle(b, {At(b)})
    /\ UNCHANGED <<providerVars, listVars>>

Empty(b) ==
    /\ work[b].at = "emptying"
    /\ \/ Matches(At(b)) /\ PutEmpty(At(b)) /\ (Go(b, "final") \/ Settle(b, {At(b)}))
       \/ UNCHANGED cell /\ Settle(b, {At(b)})
    /\ UNCHANGED <<versioning, fixedVars, rewrites, listVars>>

\* The deletes after the empty PUT.
Final(b) ==
    /\ work[b].at = "final"
    /\ \/ Delete({At(b)}) /\ Settle(b, {})
       \/ /\ Delete({At(b)}) \/ UNCHANGED cell
          /\ (Again(b) /\ Try(b, "final")) \/ Settle(b, {At(b)})
    /\ UNCHANGED <<versioning, fixedVars, rewrites, listVars>>

-----------------------------------------------------------------------------
PoolStep(b) == Begin(b) \/ Bulk(b) \/ BulkRaises(b) \/ Single(b) \/ Recheck(b) \/ Empty(b) \/ Final(b)

Next ==
    \/ \E e \in Entries : Rewrite(e)
    \/ EnableVersioning
    \/ Probe \/ List \/ WaitOldest \/ ListEnds \/ ListFails \/ Join
    \/ \E b \in Batches : PoolStep(b)

Spec == Init /\ [][Next]_vars

-----------------------------------------------------------------------------
(* Properties                                                              *)

Cells == {"listed", "newer", "empty", "stacked", "gone", "hidden"}
Threads == [at : {"queued", "bulk", "single", "recheck", "emptying", "final", "done"},
            pending : SUBSET Entries, tries : 0..(Attempts - 1), failed : SUBSET Entries]

TypeOK ==
    /\ batchSize \in BatchSizes
    /\ versioning \in BOOLEAN /\ custom \in BOOLEAN /\ tagged \in BOOLEAN /\ terse \in BOOLEAN
    /\ plain \in BOOLEAN /\ aborted \in BOOLEAN
    /\ cell \in [Entries -> Cells]
    /\ rewrites \in 0..MaxRewrites
    /\ lister \in {"probing", "listing", "waiting", "joining", "failing", "done"}
    /\ listed \in 0..EntryCount /\ popped \in 0..EntryCount
    /\ batch \in [Batches -> SUBSET Entries]
    /\ work \in [Batches -> Threads]
    /\ exitCode \in 0..2

\* Exit code 0 means that nothing of the bucket is left as the tool found it or
\* as it emptied it: no page was missed, no entry slipped between two batches,
\* and none was taken for deleted because an error did not name its version.
SuccessMeansGone == exitCode = 0 => \A e \in Entries : cell[e] \in {"gone", "hidden", "newer"}

\* The empty PUT only ever destroys the object that was listed, when the listing
\* told its ETag: not one that another client wrote while the deletes were
\* retried, and it brings no object back that a delete with a lost answer removed.
ResetSparesOthers ==
    [][\A e \in Entries : cell'[e] = "empty" /\ cell[e] # "empty" /\ tagged => cell[e] = "listed"]_vars
=============================================================================
