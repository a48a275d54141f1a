---------------------------- MODULE MCEngineWork ----------------------------
(***************************************************************************)
(* The work of the Python engine, one kind at a time: handle_request       *)
(* dispatches a request to one handler, and the handlers modelled here     *)
(* share no state.  The kind of work is chosen once; the parts that have   *)
(* none stay in an initial state.                                          *)
(***************************************************************************)
EXTENDS StagedDownload, TLC

CONSTANTS
    Works,  \* kinds of work to choose from
    Workers, Budget, MaxBatch, Resumes, MaxOwners, MaxOps, MaxCrashes, MaxLost,
    EntryCount, BatchSizes, DeleteWorkers, Attempts, MaxRewrites,
    PartCount, MaxPolls, MaxVersions,
    EntryTotal, MaxForeign, MaxKills

VARIABLES
    work,
    mode, registry, run, lane, csv, saved, resuming, crashes, lost,
    versioning, batchSize, custom, tagged, terse, cell, rewrites, plain, lister, listed, batch,
    popped, aborted, pool, exitCode,
    strategy, conflict, moving, pinned, source, found, dest, meddled, place, part, upload,
    signal, known, polls, copying, committed, result, removed,
    manifest, step, left, made, versions, late, moved, kills

\* Two objects that share a name but for its case, the first in two ranges.
MCRangesOf == <<2, 0>>
MCFormOf == <<"a", "A">>
\* Two versions of one key.
KeyOf == <<1, 1>>
\* A key that was written, deleted and written again, and another.
KeyAt == <<1, 1, 1, 2>>
MarkerAt == <<FALSE, TRUE, FALSE, FALSE>>

benchmarkVars == <<mode, registry, run, lane, csv, saved, resuming, crashes, lost>>
deleteVars == <<versioning, batchSize, custom, tagged, terse, cell, rewrites, plain, lister, listed, batch,
                popped, aborted, pool, exitCode>>
copyVars == <<strategy, conflict, moving, pinned, source, found, dest, meddled, place, part, upload,
              signal, known, polls, copying, committed, result, removed>>
historyVars == <<manifest, step, left, made, versions, late, moved, kills>>

BR == INSTANCE BenchmarkRun
DA == INSTANCE DeleteAll WITH work <- pool
SC == INSTANCE StorageCopy
HC == INSTANCE HistoryCopy

ASSUME EngineAssumption ==
    BR!BenchmarkConstants /\ SC!CopyConstants /\ DA!DeleteConstants /\ HC!HistoryConstants

EngineInit ==
    /\ work \in Works
    /\ Init /\ (work # "download" => ~azure /\ policy = "keepBoth" /\ guarded)
    /\ BR!Init /\ (work # "benchmark" => mode = "count")
    /\ DA!Init /\ (work # "deleteAll" => ~versioning /\ batchSize = 1 /\ custom /\ tagged /\ ~terse)
    /\ SC!Init /\ (work # "copy" => strategy = "serverCopy" /\ ~moving /\ pinned /\ dest = SC!Nothing)
    /\ HC!Init

EngineNext ==
    /\ UNCHANGED work
    /\ \/ work = "download" /\ Next /\ UNCHANGED <<benchmarkVars, deleteVars, copyVars, historyVars>>
       \/ work = "benchmark" /\ BR!Next /\ UNCHANGED <<vars, deleteVars, copyVars, historyVars>>
       \/ work = "deleteAll" /\ DA!Next /\ UNCHANGED <<vars, benchmarkVars, copyVars, historyVars>>
       \/ work = "copy" /\ SC!Next /\ UNCHANGED <<vars, benchmarkVars, deleteVars, historyVars>>
       \/ work = "history" /\ HC!Next /\ UNCHANGED <<vars, benchmarkVars, deleteVars, copyVars>>

EngineVars == <<work, vars, benchmarkVars, deleteVars, copyVars, historyVars>>

EngineSpec == EngineInit /\ [][EngineNext]_EngineVars

-----------------------------------------------------------------------------
\* Every part keeps its types: the reservations of a benchmark, the batches of a
\* deletion, the names tried by a download and the polls of a copy stay in range.
EngineTypeOK ==
    TypeOK /\ BR!TypeOK /\ DA!TypeOK /\ SC!TypeOK /\ HC!TypeOK

\* BenchmarkRun: completion means nothing in flight and exactly the budget recorded, but for
\* a run that a worker is about to mark failed.
CompletedIsExact == BR!CompletedIsExact

\* BenchmarkRun: neither checkpoint nor status is ahead of the CSV and the rows it lost.
ProgressNeverLost == BR!ProgressNeverLost

\* DeleteAll: exit code 0 means that every entry was removed.
SuccessMeansGone == DA!SuccessMeansGone

\* DeleteAll: the empty PUT only replaces the object that was listed.
ResetSparesOthers == DA!ResetSparesOthers

\* StorageCopy: what the copy writes is whole and of the version it was asked for.
CopiedWhole == SC!CopiedWhole

\* StorageCopy: skip and fail never replace an object.
SkipNeverReplaces == SC!SkipNeverReplaces

\* StorageCopy: "delete only after destination completion is confirmed".
DeletedOnlyWhenCopied == SC!DeletedOnlyWhenCopied

\* HistoryCopy: the replay writes no entry twice, in order, and maps what it wrote.
HistoryFaithful == HC!HistoryFaithful
=============================================================================
