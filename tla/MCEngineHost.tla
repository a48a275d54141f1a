---------------------------- MODULE MCEngineHost ----------------------------
(***************************************************************************)
(* Instances of EngineHost for TLC.  A scenario is a set of calls with     *)
(* their engines, methods, runs and jobs; the configuration names the      *)
(* scenario it takes.                                                      *)
(***************************************************************************)
EXTENDS EngineHost, TLC

Symmetry == Permutations(Procs)

\* A scoped mutation and a listing that compete for the permits of one engine, and
\* calls for two more engines, so that a start may have to evict an idle process.
MixedRequests == {"list", "change", "other", "third"}
MixedKeyOf == [r \in MixedRequests |->
    CASE r = "other" -> "go" [] r = "third" -> "rust" [] OTHER -> "python"]
MixedMethodOf == [r \in MixedRequests |-> IF r = "list" THEN "listObjects" ELSE "health"]
MixedScoped == {"change"}

\* One engine with one permit: a transfer with a control, and a listing behind it.
SingleRequests == {"list", "up", "pause"}
SingleKeyOf == [r \in SingleRequests |-> "python"]
SingleMethodOf == [r \in SingleRequests |->
    CASE r = "list" -> "listObjects"
      [] r = "up" -> "startUpload"
      [] r = "pause" -> "pauseTransfer"]
SingleJobOf == [r \in SingleRequests |-> "up"]

\* A benchmark that is started, then polled and resumed at the same time, with a
\* listing on the same engine.
BenchRequests == {"start", "poll", "resume", "details"}
BenchKeyOf == [r \in BenchRequests |-> "python"]
BenchMethodOf == [r \in BenchRequests |->
    CASE r = "start" -> "startBenchmark"
      [] r = "resume" -> "resumeBenchmark"
      [] r = "details" -> "getObjectDetails"
      [] r = "poll" -> "getBenchmarkStatus"]
BenchRunOf == [r \in BenchRequests |-> IF r = "details" THEN "none" ELSE "run1"]

NoRunOf == [r \in Requests |-> NoRun]
OwnJobOf == [r \in Requests |-> r]
=============================================================================
