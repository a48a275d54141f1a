----------------------------- MODULE EngineHost -----------------------------
(***************************************************************************)
(* The desktop engine host: the queue, the permits and the pool of         *)
(* long-lived sidecar processes behind DesktopEngineHost.send              *)
(* (apps/flutter_app/lib/services/desktop_engine_host.dart).               *)
(*                                                                         *)
(* A request is one call of send().  The Dart code runs on one event loop, *)
(* so an action is what the loop runs between two awaits of the call; every*)
(* action ends with _wakeWaiters where the code does.  The engine at the   *)
(* other end of the pipes is the environment: it may emit job events,      *)
(* answer, stay silent or die at any moment.                               *)
(***************************************************************************)
EXTENDS Integers, FiniteSets

CONSTANTS
    Requests,       \* the calls of send(), each made once
    Keys,           \* executable + arguments + directory of an engine
    Procs,          \* engine processes, each started at most once
    Runs,           \* benchmark run ids
    KeyOf,          \* [Requests -> Keys]
    MethodOf,       \* [Requests -> Methods]
    RunOf,          \* [Requests -> Runs \cup {NoRun}]: run a benchmark call is about
    JobOf,          \* [Requests -> Requests]: job a control call names
    Scoped,         \* requests made under an ActionScope, cancellable one by one
    MaxProcesses, MaxProcessesPerEngine, MaxQueuedRequests, MaxIdlePerKey,
    NoProc, NoKey, NoRun

ListingMethods == {"listObjects", "getObjectDetails"}
ProgressMethods == {"startUpload"}
LaunchMethods == {"startBenchmark", "resumeBenchmark"}
ControlMethods == {"pauseTransfer", "resumeTransfer"}
Methods == ListingMethods \cup ProgressMethods \cup LaunchMethods
             \cup ControlMethods \cup {"getBenchmarkStatus", "health"}

ASSUME RequestsAssumption == IsFiniteSet(Requests) /\ IsFiniteSet(Procs)
ASSUME LimitAssumption ==
    /\ MaxProcesses \in Nat /\ MaxProcessesPerEngine \in Nat
    /\ MaxQueuedRequests \in Nat /\ MaxIdlePerKey \in Nat
ASSUME SentinelAssumption ==
    NoProc \notin Procs /\ NoKey \notin Keys /\ NoRun \notin Runs
ASSUME RequestAttributes ==
    /\ KeyOf \in [Requests -> Keys]
    /\ MethodOf \in [Requests -> Methods]
    /\ RunOf \in [Requests -> Runs \cup {NoRun}]
    /\ JobOf \in [Requests -> Requests]
    /\ Scoped \subseteq Requests
    /\ \A r \in Requests : MethodOf[r] \in LaunchMethods => RunOf[r] \in Runs

VARIABLES
    pc,               \* where each call of send() is
    ahead,            \* requests that were queued when a request joined _waiters
    proc,             \* process a call has acquired or was routed to
    reply,            \* response received for a call
    cancelled,        \* calls whose cancellation token has completed
    outcomeUnknown,   \* ActionScope.outcomeUnknown of a call
    paused,           \* _PendingRequest.paused
    fresh,            \* calls whose _PendingRequest.lastProgress is recent
    active,           \* _active: permits in use
    activeByKey,      \* _activeByKey
    state,            \* a process is unborn, up or defunct
    idleProcesses,    \* _idleProcesses
    jobOwners,        \* _jobOwners: process that runs a job (named by its request)
    benchmarkOwners,  \* _benchmarkOwners
    benchmarkKeys,    \* _benchmarkKeys: pinned processes
    disposed

callVars == <<ahead, proc, reply, cancelled, outcomeUnknown, paused, fresh>>
permitVars == <<pc, active, activeByKey>>
poolVars == <<state, idleProcesses, jobOwners, benchmarkOwners, benchmarkKeys>>
vars == <<callVars, permitVars, poolVars, disposed>>

-----------------------------------------------------------------------------
(* Phases of a call.  A call holds a permit from the moment a waiter is    *)
(* completed until the finally block of send(); it holds a process in the  *)
(* later part of that span.                                                *)

HoldingPhases == {"acquired", "sent", "answered", "failing"}
EnteredPhases == {"granted", "starting"} \cup HoldingPhases
DirectPhases == {"polling", "polled", "pollFailing",
                 "controlling", "controlled", "controlFailing"}
FinalPhases == {"done", "failed", "cancelled"}
Phases == {"new", "queued"} \cup EnteredPhases \cup DirectPhases \cup FinalPhases

IsListing(r) == MethodOf[r] \in ListingMethods
IsLaunch(r) == MethodOf[r] \in LaunchMethods
ParamRun(r) == IF MethodOf[r] = "startBenchmark" THEN NoRun ELSE RunOf[r]

QueuedIn(f) == {r \in Requests : f[r] = "queued"}
EnteredIn(f) == {r \in Requests : f[r] \in EnteredPhases}
OfKey(k) == {r \in Requests : KeyOf[r] = k}
Entered == EnteredIn(pc)
Held == {r \in Requests : pc[r] \in HoldingPhases}
Up == {p \in Procs : state[p] = "up"}
Pinned == {p \in Procs : benchmarkKeys[p] # NoKey}
PinnedOf(k) == {p \in Procs : benchmarkKeys[p] = k}
Idle == UNION {idleProcesses[k] : k \in Keys}
Starting == {r \in Requests : pc[r] = "starting"}

\* Calls whose answer is still awaited from process p.
AwaitedOn(p) ==
    {r \in Requests : proc[r] = p /\ pc[r] \in {"sent", "polling", "controlling"}}

\* Listings are never removed from _listings.
ListingsNeverRemoved ==
    {r \in Requests : IsListing(r) /\ pc[r] \in Phases \ {"new"}}

\* _listings: listing calls not yet through their finally block.
Listings == {r \in Requests : IsListing(r) /\ pc[r] \in EnteredPhases \cup {"queued"}}

Init ==
    /\ pc = [r \in Requests |-> "new"]
    /\ ahead = [r \in Requests |-> {}]
    /\ proc = [r \in Requests |-> NoProc]
    /\ reply = [r \in Requests |-> "none"]
    /\ cancelled = {} /\ outcomeUnknown = {} /\ paused = {} /\ fresh = {}
    /\ active = 0
    /\ activeByKey = [k \in Keys |-> 0]
    /\ state = [p \in Procs |-> "unborn"]
    /\ idleProcesses = [k \in Keys |-> {}]
    /\ jobOwners = [r \in Requests |-> NoProc]
    /\ benchmarkOwners = [x \in Runs |-> NoProc]
    /\ benchmarkKeys = [p \in Procs |-> NoKey]
    /\ disposed = FALSE

-----------------------------------------------------------------------------
(* Permits                                                                 *)

\* The loop stops at the first waiter whose engine is full.
GrantsInStrictOrder(G, queued, a, byKey) ==
    /\ a + Cardinality(G) <= MaxProcesses
    /\ \A k \in Keys : byKey[k] + Cardinality(G \cap OfKey(k)) <= MaxProcessesPerEngine
    /\ \A w \in queued \ G :
          \/ (ahead'[w] \cap queued) \ G # {}
          \/ a + Cardinality(G) >= MaxProcesses
          \/ byKey[KeyOf[w]] + Cardinality(G \cap OfKey(KeyOf[w])) >= MaxProcessesPerEngine

\* G is the set of waiters that the loop of _wakeWaiters completes, first come
\* first served: it fits the limits, and every other waiter was refused when
\* the loop reached it, with the permits of the granted waiters ahead of it taken.
Grants(G, queued, a, byKey) ==
    /\ a + Cardinality(G) <= MaxProcesses
    /\ \A k \in Keys :
          G \cap OfKey(k) # {}
             => byKey[k] + Cardinality(G \cap OfKey(k)) <= MaxProcessesPerEngine
    /\ \A w \in queued \ G :
          LET before == G \cap ahead'[w]
          IN  \/ a + Cardinality(before) >= MaxProcesses
              \/ byKey[KeyOf[w]] + Cardinality(before \cap OfKey(KeyOf[w]))
                    >= MaxProcessesPerEngine

\* _wakeWaiters, from the phases f and the permit counts a and byKey.
WakeWaiters(f, a, byKey) ==
    \E G \in SUBSET QueuedIn(f) :
        /\ IF disposed THEN G = {} ELSE Grants(G, QueuedIn(f), a, byKey)
        /\ pc' = [r \in Requests |-> IF r \in G THEN "granted" ELSE f[r]]
        /\ active' = a + Cardinality(G)
        /\ activeByKey' = [k \in Keys |-> byKey[k] + Cardinality(G \cap OfKey(k))]

\* The permit of r is given back twice.
ByKeyWithoutTwice(r) == [activeByKey EXCEPT ![KeyOf[r]] = @ - 2]

\* The finally block of send(): give back the permit of r.
ByKeyWithout(r) == [activeByKey EXCEPT ![KeyOf[r]] = @ - 1]

-----------------------------------------------------------------------------
(* Processes                                                               *)

\* _markDefunct fails every call still awaiting an answer.
FailPending(S, f) ==
    [r \in Requests |->
        IF proc[r] \in S
        THEN CASE f[r] = "sent" -> "failing"
               [] f[r] = "polling" -> "pollFailing"
               [] f[r] = "controlling" -> "controlFailing"
               [] OTHER -> f[r]
        ELSE f[r]]

\* _discardProcess on every process of S (and, when S is up, kill with the
\* onDefunct callback): unpin, forget jobs, leave the pool, fail the pending
\* calls, wake the waiters.  f, a, byKey: phases and permits before unpinning.
Drop(S, f, a, byKey) ==
    /\ state' = [p \in Procs |-> IF p \in S THEN "defunct" ELSE state[p]]
    /\ benchmarkKeys' = [p \in Procs |-> IF p \in S THEN NoKey ELSE benchmarkKeys[p]]
    /\ benchmarkOwners' = [x \in Runs |->
          IF benchmarkOwners[x] \in S \cap Pinned THEN NoProc ELSE benchmarkOwners[x]]
    /\ jobOwners' = [r \in Requests |-> IF jobOwners[r] \in S THEN NoProc ELSE jobOwners[r]]
    /\ idleProcesses' = [k \in Keys |-> idleProcesses[k] \ S]
    /\ WakeWaiters(FailPending(S, f), a - Cardinality(S \cap Pinned),
                   [k \in Keys |-> byKey[k] - Cardinality(S \cap PinnedOf(k))])

\* _EngineProcess.kill: nothing happens to a process already defunct.
Kill(S, f) == Drop(S \cap Up, f, active, activeByKey)

\* _releaseProcess for the key k, once r's permit (or p's) is given back.
CanIdle(k, p) ==
    ~disposed /\ state[p] = "up" /\ Cardinality(idleProcesses[k]) < MaxIdlePerKey

-----------------------------------------------------------------------------
(* send(): admission                                                       *)

\* A call about a benchmark run that has an owner goes straight to the owner.
SubmitDirect(r) ==
    /\ pc[r] = "new" /\ ~disposed
    /\ ParamRun(r) # NoRun /\ benchmarkOwners[ParamRun(r)] # NoProc
    /\ LET owner == benchmarkOwners[ParamRun(r)] IN
          /\ proc' = [proc EXCEPT ![r] = owner]
          /\ pc' = [pc EXCEPT ![r] = IF owner \in Up THEN "polling" ELSE "pollFailing"]
    /\ UNCHANGED <<ahead, reply, cancelled, outcomeUnknown, paused, fresh,
                   active, activeByKey, poolVars, disposed>>

\* A job control bypasses the queue on the process that owns the job.
SubmitControl(r) ==
    /\ pc[r] = "new" /\ ~disposed /\ MethodOf[r] \in ControlMethods
    /\ LET owner == jobOwners[JobOf[r]] IN
          IF owner \in Up
          THEN /\ proc' = [proc EXCEPT ![r] = owner]
               /\ pc' = [pc EXCEPT ![r] = "controlling"]
          ELSE /\ pc' = [pc EXCEPT ![r] = "failed"]
               /\ UNCHANGED proc
    /\ UNCHANGED <<ahead, reply, cancelled, outcomeUnknown, paused, fresh,
                   active, activeByKey, poolVars, disposed>>

\* Any other call enters the queue (_enter), unless it is full.
SubmitOrdinary(r) ==
    /\ pc[r] = "new" /\ ~disposed /\ MethodOf[r] \notin ControlMethods
    /\ (ParamRun(r) # NoRun => benchmarkOwners[ParamRun(r)] = NoProc)
    /\ Cardinality(QueuedIn(pc)) < MaxQueuedRequests
    /\ ahead' = [ahead EXCEPT ![r] = QueuedIn(pc)]
    /\ WakeWaiters([pc EXCEPT ![r] = "queued"], active, activeByKey)
    /\ UNCHANGED <<proc, reply, cancelled, outcomeUnknown, paused, fresh, poolVars, disposed>>

\* The call is rejected: the host is disposed, or the queue is full.
Reject(r) ==
    /\ pc[r] = "new"
    /\ \/ disposed
       \/ /\ MethodOf[r] \notin ControlMethods
          /\ (ParamRun(r) # NoRun => benchmarkOwners[ParamRun(r)] = NoProc)
          /\ Cardinality(QueuedIn(pc)) >= MaxQueuedRequests
    /\ pc' = [pc EXCEPT ![r] = "failed"]
    /\ UNCHANGED <<callVars, active, activeByKey, poolVars, disposed>>

\* queueTimeout of _enter.
QueueTimeout(r) ==
    /\ pc[r] = "queued"
    /\ pc' = [pc EXCEPT ![r] = "failed"]
    /\ UNCHANGED <<callVars, active, activeByKey, poolVars, disposed>>

-----------------------------------------------------------------------------
(* send(): from the permit to the process                                  *)

\* The permit of a call that never got a process leaks.
LeaveWithPermit(r) ==
    WakeWaiters([pc EXCEPT ![r] = IF r \in cancelled THEN "cancelled" ELSE "failed"],
                active, activeByKey)

\* The call ends without a process: only the permit is given back.
LeaveEmptyHanded(r) ==
    WakeWaiters([pc EXCEPT ![r] = IF r \in cancelled THEN "cancelled" ELSE "failed"],
                active - 1, ByKeyWithout(r))

\* The call was cancelled while the grant was on its way.
GrantedTooLate(r) ==
    /\ pc[r] = "granted" /\ r \in cancelled
    /\ UNCHANGED <<callVars, poolVars, disposed>>
    /\ LeaveEmptyHanded(r)

\* The idle process is looked at, not taken.
PeekIdle(r) ==
    /\ pc[r] = "granted" /\ r \notin cancelled
    /\ \E p \in idleProcesses[KeyOf[r]] : proc' = [proc EXCEPT ![r] = p]
    /\ pc' = [pc EXCEPT ![r] = "acquired"]
    /\ UNCHANGED <<ahead, reply, cancelled, outcomeUnknown, paused, fresh, active,
                   activeByKey, poolVars, disposed>>

\* _acquireProcess finds an idle process of the key.
ReuseIdle(r) ==
    /\ pc[r] = "granted" /\ r \notin cancelled
    /\ \E p \in idleProcesses[KeyOf[r]] :
          /\ idleProcesses' = [idleProcesses EXCEPT ![KeyOf[r]] = @ \ {p}]
          /\ proc' = [proc EXCEPT ![r] = p]
    /\ pc' = [pc EXCEPT ![r] = "acquired"]
    /\ UNCHANGED <<ahead, reply, cancelled, outcomeUnknown, paused, fresh, active, activeByKey,
                   state, jobOwners, benchmarkOwners, benchmarkKeys, disposed>>

\* Processes that are still starting are not counted.
EvictsIgnoringStarts(E) ==
    LET excess == Cardinality(Up) - MaxProcesses + 1
    IN  IF excess <= 0 THEN E = {} ELSE E \subseteq Idle /\ Cardinality(E) = excess

\* E: the idle processes evicted so that one more may start, no more than needed.
Evicts(E) ==
    LET excess == Cardinality(Up) + Cardinality(Starting) - MaxProcesses + 1
    IN  \/ excess <= 0 /\ E = {}
        \/ 0 < excess /\ excess <= Cardinality(Idle) /\ Cardinality(E) = excess
        \/ 0 < excess /\ excess > Cardinality(Idle) /\ E = Idle

\* _acquireProcess finds none: make room, then start one.
BeginStart(r) ==
    /\ pc[r] = "granted" /\ r \notin cancelled
    /\ idleProcesses[KeyOf[r]] = {}
    /\ UNCHANGED <<callVars, disposed>>
    /\ \E E \in SUBSET Idle :
          /\ Evicts(E)
          /\ Drop(E, [pc EXCEPT ![r] = "starting"], active, activeByKey)

\* Process.start returns; a host disposed meanwhile kills the newcomer.
Started(r) ==
    /\ pc[r] = "starting"
    /\ UNCHANGED <<ahead, reply, cancelled, outcomeUnknown, paused, fresh, idleProcesses,
                   jobOwners, benchmarkOwners, benchmarkKeys, disposed>>
    /\ \E p \in Procs :
          /\ state[p] = "unborn"
          /\ IF disposed
             THEN /\ state' = [state EXCEPT ![p] = "defunct"]
                  /\ LeaveEmptyHanded(r)
                  /\ UNCHANGED proc
             ELSE /\ state' = [state EXCEPT ![p] = "up"]
                  /\ proc' = [proc EXCEPT ![r] = p]
                  /\ pc' = [pc EXCEPT ![r] = "acquired"]
                  /\ UNCHANGED <<active, activeByKey>>

\* Process.start throws.
StartFails(r) ==
    /\ pc[r] = "starting"
    /\ UNCHANGED <<callVars, poolVars, disposed>>
    /\ LeaveEmptyHanded(r)

\* process.send writes the request line.
Dispatch(r) ==
    /\ pc[r] = "acquired" /\ r \notin cancelled /\ proc[r] \in Up
    /\ pc' = [pc EXCEPT ![r] = "sent"]
    /\ fresh' = IF MethodOf[r] \in ProgressMethods THEN fresh \cup {r} ELSE fresh
    /\ UNCHANGED <<ahead, proc, reply, cancelled, outcomeUnknown, paused,
                   active, activeByKey, poolVars, disposed>>

-----------------------------------------------------------------------------
(* The engine                                                              *)

\* A job event reaches the call's onEvent: it registers the owner of the job,
\* restarts the call's watchdog and carries the pause state to it.
JobEvent(r) ==
    /\ pc[r] = "sent" /\ MethodOf[r] \in ProgressMethods
    /\ jobOwners' = [jobOwners EXCEPT ![r] = proc[r]]
    /\ \/ paused' = paused \cup {r}
       \/ paused' = paused \ {r}
    /\ fresh' = fresh \cup {r}
    /\ UNCHANGED <<ahead, proc, reply, cancelled, outcomeUnknown, permitVars,
                   state, idleProcesses, benchmarkOwners, benchmarkKeys, disposed>>

\* What the engine may answer: a benchmark call carries a run status, a control
\* is accepted or refused; nothing in another answer matters to the host.
Answers(r) ==
    CASE IsLaunch(r) \/ MethodOf[r] = "getBenchmarkStatus" -> {"running", "finished"}
      [] MethodOf[r] \in ControlMethods -> {"accepted", "refused"}
      [] OTHER -> {"plain"}

\* The response line arrives; the call then waits _stderrDrainDelay.
Answer(r) ==
    /\ pc[r] \in {"sent", "polling", "controlling"}
    /\ reply' \in {[reply EXCEPT ![r] = a] : a \in Answers(r)}
    /\ pc' = [pc EXCEPT ![r] = CASE @ = "sent" -> "answered"
                                 [] @ = "polling" -> "polled"
                                 [] @ = "controlling" -> "controlled"]
    /\ UNCHANGED <<ahead, proc, cancelled, outcomeUnknown, paused, fresh,
                   active, activeByKey, poolVars, disposed>>

\* The process exits or closes its stdout.
Crash(p) ==
    /\ p \in Up
    /\ UNCHANGED <<callVars, disposed>>
    /\ Kill({p}, pc)

\* The timeout of a transfer passes without an event.
Elapse(r) ==
    /\ pc[r] = "sent" /\ r \in fresh
    /\ fresh' = fresh \ {r}
    /\ UNCHANGED <<ahead, proc, reply, cancelled, outcomeUnknown, paused,
                   permitVars, poolVars, disposed>>

\* Only transfers have a watchdog.
WatchdogOfTransfers(r) ==
    /\ pc[r] = "sent" /\ MethodOf[r] \in ProgressMethods
    /\ r \notin paused \cup fresh
    /\ UNCHANGED <<callVars, disposed>>
    /\ Kill({proc[r]}, pc)

\* The watchdog of a call.  For a transfer it wants a timeout without progress and
\* sleeps while the transfer is paused; every other call has a plain deadline.
Watchdog(r) ==
    /\ pc[r] \in {"sent", "polling", "controlling"}
    /\ MethodOf[r] \in ProgressMethods => r \notin paused \cup fresh
    /\ UNCHANGED <<callVars, disposed>>
    /\ Kill({proc[r]}, pc)

-----------------------------------------------------------------------------
(* send(): the continuation after the response                             *)

\* A launched benchmark keeps the process and the permit.
PinBenchmark(r) ==
    /\ pc[r] = "answered" /\ r \notin cancelled
    /\ IsLaunch(r) /\ reply[r] = "running"
    /\ jobOwners' = [j \in Requests |-> IF jobOwners[j] = proc[r] THEN NoProc ELSE jobOwners[j]]
    /\ benchmarkOwners' = [benchmarkOwners EXCEPT ![RunOf[r]] = proc[r]]
    /\ benchmarkKeys' = [benchmarkKeys EXCEPT ![proc[r]] = KeyOf[r]]
    /\ UNCHANGED <<callVars, state, idleProcesses, disposed>>
    /\ WakeWaiters([pc EXCEPT ![r] = "done"], active, activeByKey)

\* A response that was received is delivered although the call was cancelled.
SettleStale(r) ==
    /\ pc[r] = "answered" /\ proc[r] \in Up
    /\ idleProcesses' = [idleProcesses EXCEPT ![KeyOf[r]] = @ \cup {proc[r]}]
    /\ UNCHANGED <<callVars, state, jobOwners, benchmarkOwners, benchmarkKeys, disposed>>
    /\ WakeWaiters([pc EXCEPT ![r] = "done"], active - 1, ByKeyWithout(r))

\* Any other call gives back process and permit.
Settle(r) ==
    /\ pc[r] = "answered" /\ r \notin cancelled
    /\ ~(IsLaunch(r) /\ reply[r] = "running")
    /\ UNCHANGED <<callVars, disposed>>
    /\ LET p == proc[r]
           f == [pc EXCEPT ![r] = "done"]
       IN  IF CanIdle(KeyOf[r], p)
           THEN /\ idleProcesses' = [idleProcesses EXCEPT ![KeyOf[r]] = @ \cup {p}]
                /\ jobOwners' = [j \in Requests |->
                                    IF jobOwners[j] = p THEN NoProc ELSE jobOwners[j]]
                /\ WakeWaiters(f, active - 1, ByKeyWithout(r))
                /\ UNCHANGED <<state, benchmarkOwners, benchmarkKeys>>
           ELSE Drop({p}, f, active - 1, ByKeyWithout(r))

\* The catch block: the process can no longer be trusted.
Fail(r) ==
    /\ \/ pc[r] = "failing"
       \/ pc[r] = "acquired" /\ (r \in cancelled \/ proc[r] \notin Up)
       \/ pc[r] \in {"sent", "answered"} /\ r \in cancelled
    /\ outcomeUnknown' = IF r \in Scoped \cap cancelled /\ ~IsListing(r)
                         THEN outcomeUnknown \cup {r} ELSE outcomeUnknown
    /\ UNCHANGED <<ahead, proc, reply, cancelled, paused, fresh, disposed>>
    /\ Drop({proc[r]},
            [pc EXCEPT ![r] = IF r \in cancelled THEN "cancelled" ELSE "failed"],
            active - 1, ByKeyWithout(r))

\* A benchmark call routed to the owner: nothing changes while the run goes on,
\* nor when an earlier answer has already unpinned the process.
PollUnfinished(r) ==
    /\ pc[r] = "polled"
    /\ reply[r] = "running" \/ proc[r] \notin Pinned
    /\ UNCHANGED <<callVars, poolVars, disposed>>
    /\ WakeWaiters([pc EXCEPT ![r] = "done"], active, activeByKey)

\* The owner entry is removed, the pin is not.
PollFinishedHalfUnpinned(r) ==
    /\ pc[r] = "polled" /\ reply[r] = "finished" /\ proc[r] \in Pinned
    /\ benchmarkOwners' = [x \in Runs |->
          IF benchmarkOwners[x] = proc[r] THEN NoProc ELSE benchmarkOwners[x]]
    /\ UNCHANGED <<callVars, state, idleProcesses, jobOwners, benchmarkKeys, disposed>>
    /\ WakeWaiters([pc EXCEPT ![r] = "done"], active, activeByKey)

\* The permit comes back without _wakeWaiters.
PollFinishedQuietly(r) ==
    /\ pc[r] = "polled" /\ reply[r] = "finished" /\ CanIdle(KeyOf[r], proc[r])
    /\ proc[r] \in Pinned
    /\ benchmarkOwners' = [x \in Runs |->
          IF benchmarkOwners[x] = proc[r] THEN NoProc ELSE benchmarkOwners[x]]
    /\ benchmarkKeys' = [benchmarkKeys EXCEPT ![proc[r]] = NoKey]
    /\ idleProcesses' = [idleProcesses EXCEPT ![KeyOf[r]] = @ \cup {proc[r]}]
    /\ pc' = [pc EXCEPT ![r] = "done"]
    /\ active' = active - 1 /\ activeByKey' = ByKeyWithout(r)
    /\ UNCHANGED <<callVars, state, jobOwners, disposed>>

\* A finished run is unpinned, once, and its process goes back to the pool.
PollFinished(r) ==
    /\ pc[r] = "polled" /\ reply[r] = "finished" /\ proc[r] \in Pinned
    /\ UNCHANGED <<callVars, disposed>>
    /\ LET p == proc[r]
           f == [pc EXCEPT ![r] = "done"]
       IN  IF CanIdle(KeyOf[r], p)
           THEN /\ benchmarkOwners' = [x \in Runs |->
                     IF benchmarkOwners[x] = p THEN NoProc ELSE benchmarkOwners[x]]
                /\ benchmarkKeys' = [benchmarkKeys EXCEPT ![p] = NoKey]
                /\ idleProcesses' = [idleProcesses EXCEPT ![KeyOf[r]] = @ \cup {p}]
                /\ WakeWaiters(f, active - 1, [activeByKey EXCEPT ![benchmarkKeys[p]] = @ - 1])
                /\ UNCHANGED <<state, jobOwners>>
           ELSE Drop({p}, f, active, activeByKey)

\* The call to the owner failed: discard the owner.
PollFail(r) ==
    /\ pc[r] = "pollFailing"
    /\ UNCHANGED <<callVars, disposed>>
    /\ Drop({proc[r]}, [pc EXCEPT ![r] = "failed"], active, activeByKey)

\* An accepted control sets the pause flag of every call pending on the process.
ControlSettle(r) ==
    /\ pc[r] = "controlled"
    /\ LET listening == {q \in Requests : /\ proc[q] = proc[r]
                                          /\ pc[q] \in {"sent", "answered"}
                                          /\ MethodOf[q] \in ProgressMethods
                                          /\ proc[r] \in Up}
       IN  /\ paused' = CASE reply[r] = "refused" -> paused
                          [] reply[r] = "accepted" /\ MethodOf[r] = "pauseTransfer" ->
                                paused \cup listening
                          [] OTHER -> paused \ listening
           /\ fresh' = IF reply[r] = "accepted" THEN fresh \cup listening ELSE fresh
    /\ pc' = [pc EXCEPT ![r] = "done"]
    /\ UNCHANGED <<ahead, proc, reply, cancelled, outcomeUnknown,
                   active, activeByKey, poolVars, disposed>>

ControlFail(r) ==
    /\ pc[r] = "controlFailing"
    /\ pc' = [pc EXCEPT ![r] = "failed"]
    /\ UNCHANGED <<callVars, active, activeByKey, poolVars, disposed>>

-----------------------------------------------------------------------------
(* Cancellation and disposal                                               *)

\* The token of one scoped action completes; a waiter leaves the queue at once.
Cancel(r) ==
    /\ r \in Scoped \ cancelled
    /\ pc[r] \in EnteredPhases \cup {"queued"}
    /\ cancelled' = cancelled \cup {r}
    /\ UNCHANGED <<ahead, proc, reply, outcomeUnknown, paused, fresh, poolVars, disposed>>
    /\ WakeWaiters([pc EXCEPT ![r] = IF @ = "queued" THEN "cancelled" ELSE @],
                   active, activeByKey)

\* cancelListings: cancel every listing call, kill the processes they hold,
\* drop those still queued.
CancelListings ==
    /\ Listings # {}
    /\ cancelled' = cancelled \cup Listings
    /\ UNCHANGED <<ahead, proc, reply, outcomeUnknown, paused, fresh, disposed>>
    /\ Kill({proc[r] : r \in Listings},
            [r \in Requests |-> IF r \in Listings /\ pc[r] = "queued"
                                THEN "cancelled" ELSE pc[r]])

\* cancelQueuedListings: only listObjects calls that still wait, and no wake-up.
CancelQueuedListings ==
    /\ \E r \in QueuedIn(pc) : MethodOf[r] = "listObjects"
    /\ pc' = [r \in Requests |-> IF pc[r] = "queued" /\ MethodOf[r] = "listObjects"
                                 THEN "failed" ELSE pc[r]]
    /\ UNCHANGED <<callVars, active, activeByKey, poolVars, disposed>>

\* dispose: fail the queue, forget every owner, kill every process.
Dispose ==
    /\ ~disposed
    /\ disposed' = TRUE
    /\ pc' = [r \in Requests |->
                 IF pc[r] = "queued" THEN "failed" ELSE FailPending(Up, pc)[r]]
    /\ state' = [p \in Procs |-> IF p \in Up THEN "defunct" ELSE state[p]]
    /\ idleProcesses' = [k \in Keys |-> {}]
    /\ jobOwners' = [r \in Requests |-> NoProc]
    /\ benchmarkOwners' = [x \in Runs |-> NoProc]
    /\ benchmarkKeys' = [p \in Procs |-> NoKey]
    /\ UNCHANGED <<callVars, active, activeByKey>>

-----------------------------------------------------------------------------
\* The application learns a run id from the answer of startBenchmark: it polls
\* or resumes a run only after that (a run of an earlier session has no start).
KnownToCaller(r) ==
    ParamRun(r) # NoRun =>
        \A s \in Requests : (MethodOf[s] = "startBenchmark" /\ RunOf[s] = ParamRun(r))
                              => pc[s] = "done"

Submit(r) ==
    /\ KnownToCaller(r)
    /\ SubmitDirect(r) \/ SubmitControl(r) \/ SubmitOrdinary(r) \/ Reject(r)

\* What the host itself does next for call r.
HostStep(r) ==
    \/ GrantedTooLate(r) \/ ReuseIdle(r) \/ BeginStart(r) \/ Dispatch(r)
    \/ PinBenchmark(r) \/ Settle(r) \/ Fail(r)
    \/ PollUnfinished(r) \/ PollFinished(r) \/ PollFail(r) \/ ControlSettle(r) \/ ControlFail(r)

Next ==
    \/ \E r \in Requests :
          \/ Submit(r) \/ QueueTimeout(r) \/ HostStep(r)
          \/ Started(r) \/ StartFails(r)
          \/ JobEvent(r) \/ Answer(r) \/ Elapse(r) \/ Watchdog(r) \/ Cancel(r)
    \/ \E p \in Procs : Crash(p)
    \/ CancelListings \/ CancelQueuedListings \/ Dispose

Spec == Init /\ [][Next]_vars

\* The event loop runs every continuation and every timer; an operating system
\* answers Process.start one way or the other.  The engine owes nothing.
Fairness ==
    \A r \in Requests :
        /\ WF_vars(HostStep(r))
        /\ WF_vars(Started(r) \/ StartFails(r))
        /\ WF_vars(QueueTimeout(r))
        /\ WF_vars(Elapse(r)) /\ WF_vars(Watchdog(r))

FairSpec == Spec /\ Fairness

-----------------------------------------------------------------------------
(* Properties                                                              *)

TypeOK ==
    /\ pc \in [Requests -> Phases]
    /\ ahead \in [Requests -> SUBSET Requests]
    /\ proc \in [Requests -> Procs \cup {NoProc}]
    /\ reply \in [Requests -> {"none", "plain", "running", "finished",
                               "accepted", "refused"}]
    /\ cancelled \subseteq Requests
    /\ outcomeUnknown \subseteq Requests
    /\ paused \subseteq Requests
    /\ fresh \subseteq Requests
    /\ active \in Nat
    /\ activeByKey \in [Keys -> Nat]
    /\ state \in [Procs -> {"unborn", "up", "defunct"}]
    /\ idleProcesses \in [Keys -> SUBSET Procs]
    /\ jobOwners \in [Requests -> Procs \cup {NoProc}]
    /\ benchmarkOwners \in [Runs -> Procs \cup {NoProc}]
    /\ benchmarkKeys \in [Procs -> Keys \cup {NoKey}]
    /\ disposed \in BOOLEAN

\* Every permit is accounted for: _active and _activeByKey count exactly the
\* calls between _enter and their finally block and the processes pinned by a
\* background benchmark, whatever order answers, deaths, cancellations and
\* benchmark polls arrive in.  A permit released twice or never would break it.
PermitsAccounted ==
    ~disposed =>
        /\ active = Cardinality(Entered) + Cardinality(Pinned)
        /\ \A k \in Keys : activeByKey[k] = Cardinality(Entered \cap OfKey(k))
                                            + Cardinality(PinnedOf(k))

\* No more calls and benchmarks than permits, in all and per engine.
PermitsBounded ==
    /\ active <= MaxProcesses
    /\ \A k \in Keys : activeByKey[k] <= MaxProcessesPerEngine

\* A call that could be granted is never left waiting: each path that gives a
\* permit back also wakes the queue, so a waiter only waits at a full limit.
NoStrandedWaiter ==
    ~disposed => \A r \in QueuedIn(pc) :
                    \/ active >= MaxProcesses
                    \/ activeByKey[KeyOf[r]] >= MaxProcessesPerEngine

\* "Each ordinary request exclusively owns its process": no process is held by
\* two calls, by a call and the idle pool, or by a call and a benchmark; an idle
\* process is alive, in one pool only and not pinned.
ExclusiveProcess ==
    /\ \A r, s \in Held : r # s => proc[r] # proc[s]
    /\ \A r \in Held : proc[r] \notin Idle \cup Pinned
    /\ Idle \subseteq Up \ Pinned
    /\ \A j, k \in Keys : j # k => idleProcesses[j] \cap idleProcesses[k] = {}

\* Live processes and processes being started never exceed the pool's size,
\* although idle ones of other engines are evicted only when a start needs room.
ProcessesBounded == Cardinality(Up) + Cardinality(Starting) <= MaxProcesses

\* A pinned process can be found again: the run that pinned it still names it as
\* its owner, so a later status call can finish it and free its permit.
PinnedReachable ==
    \A p \in Pinned : \E x \in Runs : benchmarkOwners[x] = p

\* "Reserve this process and its permit while background work runs": the
\* reserved process is one in which work can run.
PinnedAlive == Pinned \subseteq Up

\* "Ordinary work is bounded and exclusive per process.  Control requests bypass
\* the work queue on the job-owning process": while a control awaits its answer,
\* the ordinary call on its process is the job it controls, so a deadline of the
\* control can only end that job.
ControlsOnOwnJob ==
    \A c \in Requests :
        pc[c] = "controlling" =>
            \A r \in Requests :
                (pc[r] \in {"sent", "answered"} /\ proc[r] = proc[c]) => r = JobOf[c]

\* Cancelling the listings of the browser never takes down the process of a call
\* that is not a listing, nor a benchmark, however processes were reused since.
ListingCancelSparesOthers ==
    [][CancelListings =>
          \A p \in Procs :
              (\/ \E r \in Held : proc[r] = p /\ ~IsListing(r)
               \/ p \in Pinned) => state'[p] = state[p] /\ benchmarkKeys'[p] = benchmarkKeys[p]
      ]_vars

\* A cancelled call never returns a result, not even one that was already
\* received; and a scoped mutation that had been handed a process is reported
\* with an unknown outcome, never as plainly cancelled.
CancellationWins ==
    [][\A r \in cancelled :
          /\ pc'[r] = "done" => pc[r] = "done"
          /\ (pc[r] \in HoldingPhases /\ pc'[r] = "cancelled" /\ ~IsListing(r))
                => r \in outcomeUnknown'
      ]_vars

\* A call whose engine falls silent comes to an end, unless it is a paused
\* transfer: the wait in the queue, the start and the answer all have a deadline.
EveryCallEnds ==
    \A r \in Requests :
        <>[][~JobEvent(r)]_vars
            => (pc[r] = "queued" ~> (pc[r] \in FinalPhases \/ r \in paused))
=============================================================================
