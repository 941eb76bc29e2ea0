-------------------------- MODULE CollectionRuntime --------------------------
(***************************************************************************)
(* Who collects, and when: the coordinator that keeps one supervisor per   *)
(* enabled integration (core/internal/scheduler/coordinator.go), the       *)
(* supervisor that keeps an adapter process alive                          *)
(* (core/internal/adapters/supervisor.go, repository.go), and the          *)
(* scheduler's workload on that process (core/internal/scheduler).         *)
(*                                                                         *)
(* The three run concurrently and talk through channels and contexts.  A   *)
(* supervisor is the only writer of its adapter_instances row, so a read   *)
(* followed by a write of that row is one step; every place where a        *)
(* cancelled context or a failing store can end it is a step of its own.   *)
(* drainWorkload waits for a workload no longer than RequestTimeout: a     *)
(* workload can be left behind, run on with its cancelled context beside   *)
(* the workload of the next session, and hold a token.  Its goroutine, for *)
(* its part, is taken to run within that time after go: the workload that  *)
(* drainWorkload leaves has entered its trigger in the scheduler's map.    *)
(***************************************************************************)
EXTENDS Integers, Sequences, FiniteSets

CONSTANTS
    Integrations,       \* integrations
    GlobalConcurrency,  \* collections at a time, over all integrations
    RestartCapacity,    \* room in coordinator.restarts
    HealthyReset,       \* time after which a healthy adapter is forgiven
    RestartMaxDelay,    \* cap of the restart delay
    Horizon,            \* bound on the clock: instants past it are the horizon
    MaxVersion,         \* bound on the configurations of an integration
    MaxFailures,        \* failures in a row from which the delay is at its cap
    MaxRequests,        \* bound on the number of requested collections
    MaxInputs,          \* bound on the saves of an integration and all requests together
    MaxFaults,          \* bound on failing stores, shutdowns and crashes
    MaxWorkloads        \* bound on the workloads of an integration at a time

ASSUME RuntimeAssumption ==
    /\ IsFiniteSet(Integrations)
    /\ {GlobalConcurrency, RestartCapacity, RestartMaxDelay, MaxFailures, MaxWorkloads} \subseteq Nat \ {0}
    /\ {HealthyReset, Horizon, MaxVersion, MaxRequests, MaxInputs, MaxFaults} \subseteq Nat

VARIABLES
    clock,     \* the wall clock
    config,    \* config[i]: the integrations row; typed: a website monitor or hypervisor
    row,       \* row[i]: the adapter_instances row
    managed,   \* keys of the coordinator's map of runs
    cancelled, \* integrations whose run has a cancelled context
    restarts,  \* the coordinator's channel of integrations to restart
    saved,     \* integrations committed by an administrator, Restart still to be called
    stopping,  \* Core is shutting down
    pc,        \* pc[i]: where the supervisor of i is
    used,      \* used[i]: version of the configuration that supervisor loaded
    healthyAt, \* healthyAt[i]: start of the healthy-reset timer, None when it is off
    process,   \* process[i]: the adapter process
    work,      \* work[i][k]: the k-th workload of i: Scheduler.Run on a session
    current,   \* current[i]: the workload of the supervisor's last session
    triggers,  \* triggers[i]: the workload whose channel the scheduler's map holds
    asked,     \* integrations with a request no collection has begun for (history)
    backoff,   \* backoff[i]: end of the backoff of a failure no start followed yet, and
               \* whether the row was stopped since (history)
    count      \* requests and faults so far

core  == <<managed, cancelled, restarts, saved, stopping>>
sup   == <<pc, used, healthyAt, process>>
sched == <<work, current, triggers>>
vars  == <<clock, config, row, core, sup, sched, asked, backoff, count>>

-----------------------------------------------------------------------------
None == -1
Instants == 0 .. Horizon
Later(t, d) == IF t + d < Horizon THEN t + d ELSE Horizon

(* RestartDelay: doubled with every failure, up to the cap. *)
Doubled == <<1, 2, 4, 8, 16, 32>>
RestartDelay(failures) ==
    IF failures <= Len(Doubled) /\ Doubled[failures] < RestartMaxDelay
    THEN Doubled[failures] ELSE RestartMaxDelay

Steps == {"none", "load", "wait", "mark_starting", "start_session", "mark_healthy",
          "announce", "serve", "stop", "fail", "abort", "exited"}

(* Where the supervisor has a session with a workload. *)
WithWork == {"serve", "stop", "fail", "abort"}

Workloads == 1 .. MaxWorkloads

(* A workload: off, about to enter its trigger in the map, between collections,
   waiting for a token, collecting, or with the result of a collection in its
   channel. *)
Phases == {"off", "new", "idle", "queued", "collecting", "succeeded", "failed"}
Off == [phase |-> "off", pending |-> FALSE, trigger |-> FALSE]
Active(i, k) == work[i][k].phase \in {"queued", "collecting", "succeeded", "failed"}
Running(i, k) == work[i][k].phase \notin {"off", "new"}

(* The session of this workload is over, and it runs on. *)
LeftBehind(i, k) == k # current[i] \/ pc[i] \notin WithWork

NoBackoff == [until |-> 0, lifted |-> FALSE]
NoRow == [state |-> "none", failures |-> 0, nextRestart |-> None]

TypeOK ==
    /\ clock \in Instants
    /\ config \in [Integrations -> [typed: BOOLEAN, enabled: BOOLEAN, version: 0 .. MaxVersion]]
    /\ row \in [Integrations ->
                  [state: {"none", "starting", "healthy", "unhealthy", "stopped"},
                   failures: 0 .. MaxFailures, nextRestart: Instants \cup {None}]]
    /\ managed \subseteq Integrations /\ cancelled \subseteq managed
    /\ restarts \in Seq(Integrations) /\ Len(restarts) <= RestartCapacity
    /\ saved \subseteq Integrations /\ stopping \in BOOLEAN
    /\ pc \in [Integrations -> Steps]
    /\ used \in [Integrations -> -1 .. MaxVersion]
    /\ healthyAt \in [Integrations -> Instants \cup {None}]
    /\ process \in [Integrations -> {"none", "alive", "dead"}]
    /\ work \in [Integrations -> [Workloads -> [phase: Phases, pending: BOOLEAN, trigger: BOOLEAN]]]
    /\ current \in [Integrations -> Workloads]
    /\ triggers \in [Integrations -> Workloads \cup {None}]
    /\ asked \subseteq Integrations
    /\ backoff \in [Integrations -> [until: Instants, lifted: BOOLEAN]]
    /\ count \in [requests: 0 .. MaxRequests, faults: 0 .. MaxFaults]

Init ==
    /\ clock = 0
    /\ config \in [Integrations -> [typed: BOOLEAN, enabled: BOOLEAN, version: {0}]]
    /\ row = [i \in Integrations |-> NoRow]
    /\ managed = {} /\ cancelled = {} /\ restarts = <<>> /\ saved = {} /\ stopping = FALSE
    /\ pc = [i \in Integrations |-> "none"]
    /\ used = [i \in Integrations |-> None]
    /\ healthyAt = [i \in Integrations |-> None]
    /\ process = [i \in Integrations |-> "none"]
    /\ work = [i \in Integrations |-> [k \in Workloads |-> Off]]
    /\ current = [i \in Integrations |-> 1]
    /\ triggers = [i \in Integrations |-> None]
    /\ asked = {}
    /\ backoff = [i \in Integrations |-> NoBackoff]
    /\ count = [requests |-> 0, faults |-> 0]

-----------------------------------------------------------------------------
(* Administrators and the coordinator. *)

InputLeft(i) == config[i].version + count.requests < MaxInputs

Configured(i, enabled) ==
    /\ config[i].version < MaxVersion /\ InputLeft(i)
    /\ config' = [config EXCEPT ![i] = [@ EXCEPT !.enabled = enabled, !.version = config[i].version + 1]]

(* The transaction on a website monitor or hypervisor commits; its call of
   Restart comes later. *)
SaveMonitor(i, enabled) ==
    /\ config[i].typed
    /\ Configured(i, enabled)
    /\ saved' = saved \cup {i}
    /\ UNCHANGED <<clock, row, managed, cancelled, restarts, stopping, sup, sched, asked, backoff, count>>

(* IntegrationConfigService.Update refuses those, and restarts nothing. *)
UpdateIntegration(i, enabled) ==
    /\ ~config[i].typed
    /\ Configured(i, enabled)
    /\ UNCHANGED <<clock, row, core, sup, sched, asked, backoff, count>>

(* Variant: a full channel and an empty one are mixed up. *)
RestartUnlessEmpty(i) == IF Len(restarts) = 0 THEN restarts ELSE Append(restarts, i)

(* Coordinator.Restart does not wait for room. *)
Queued(i) == IF Len(restarts) < RestartCapacity THEN Append(restarts, i) ELSE restarts

Restart(i) ==
    /\ i \in saved
    /\ saved' = saved \ {i}
    /\ restarts' = Queued(i)
    /\ UNCHANGED <<clock, config, row, managed, cancelled, stopping, sup, sched, asked, backoff, count>>

(* Variant: what is no longer enabled is not looked at. *)
DesiredAlways == {i \in Integrations : config[i].enabled} \cup managed

(* ListEnabledIntegrationIDs *)
Desired == {i \in Integrations : config[i].enabled}

(* reconcile, once at the start and then on a timer. *)
Reconcile ==
    LET new == Desired \ managed IN
    /\ ~stopping
    /\ managed' = managed \cup new
    /\ cancelled' = cancelled \cup (managed \ Desired)
    /\ pc' = [i \in Integrations |-> IF i \in new THEN "load" ELSE pc[i]]
    /\ UNCHANGED <<clock, config, row, restarts, saved, stopping, used, healthyAt, process,
                   sched, asked, backoff, count>>

TakeRestart ==
    /\ ~stopping /\ restarts # <<>>
    /\ restarts' = Tail(restarts)
    /\ cancelled' = cancelled \cup (managed \cap {Head(restarts)})
    /\ UNCHANGED <<clock, config, row, managed, saved, stopping, sup, sched, asked, backoff, count>>

(* A context belongs to its run. *)
Forgotten(i) == cancelled \ {i}

(* A run's exit is taken from the exits channel. *)
TakeExit(i) ==
    /\ ~stopping /\ pc[i] = "exited"
    /\ managed' = managed \ {i}
    /\ cancelled' = Forgotten(i)
    /\ pc' = [pc EXCEPT ![i] = "none"]
    /\ UNCHANGED <<clock, config, row, restarts, saved, stopping, used, healthyAt, process,
                   sched, asked, backoff, count>>

CountFault ==
    /\ count.faults < MaxFaults
    /\ count' = [count EXCEPT !.faults = @ + 1]

(* The context of Coordinator.Run is cancelled, or reconcile failed: every run
   is cancelled and drained. *)
Shutdown ==
    /\ ~stopping
    /\ CountFault
    /\ stopping' = TRUE
    /\ cancelled' = managed
    /\ UNCHANGED <<clock, config, row, managed, restarts, saved, sup, sched, asked, backoff>>

(* Core starts again, after the drain. *)
Volatile ==
    /\ managed' = {} /\ cancelled' = {} /\ restarts' = <<>> /\ saved' = {} /\ stopping' = FALSE
    /\ pc' = [i \in Integrations |-> "none"]
    /\ used' = [i \in Integrations |-> None]
    /\ healthyAt' = [i \in Integrations |-> None]
    /\ process' = [i \in Integrations |-> "none"]
    /\ work' = [i \in Integrations |-> [k \in Workloads |-> Off]]
    /\ current' = [i \in Integrations |-> 1]
    /\ triggers' = [i \in Integrations |-> None]
    /\ asked' = {}

Boot ==
    /\ stopping /\ \A i \in managed : pc[i] = "exited"
    /\ Volatile
    /\ UNCHANGED <<clock, config, row, backoff, count>>

(* Core is killed: only the tables are left. *)
Crash ==
    /\ CountFault
    /\ Volatile
    /\ UNCHANGED <<clock, config, row, backoff>>

-----------------------------------------------------------------------------
(* Supervisor.Run *)

Marked(i, state, nextRestart) ==
    row' = [row EXCEPT ![i] = [@ EXCEPT !.state = state, !.nextRestart = nextRestart]]

MarkStopped(i) ==
    /\ Marked(i, "stopped", None)
    /\ backoff' = [backoff EXCEPT ![i].lifted = TRUE]

MarkHealthy(i) == Marked(i, "healthy", None)

(* MarkFailed counts the failure and stores the end of the backoff. *)
MarkFailed(i) ==
    LET failures == IF row[i].failures < MaxFailures THEN row[i].failures + 1 ELSE MaxFailures
        next == Later(clock, RestartDelay(failures)) IN
    /\ row' = [row EXCEPT ![i] = [state |-> "unhealthy", failures |-> failures,
                                  nextRestart |-> next]]
    /\ backoff' = [backoff EXCEPT ![i] = [until |-> next, lifted |-> FALSE]]

Goto(i, step) == pc' = [pc EXCEPT ![i] = step]

(* The integration and its instance are loaded. *)
Load(i) ==
    /\ pc[i] = "load" /\ i \notin cancelled /\ config[i].enabled
    /\ used' = [used EXCEPT ![i] = config[i].version]
    /\ Goto(i, IF row[i].nextRestart # None THEN "wait" ELSE "mark_starting")
    /\ UNCHANGED <<clock, config, row, core, healthyAt, process, sched, asked, backoff, count>>

(* It was disabled since it was listed: the row is stopped, if there is one. *)
LoadDisabled(i) ==
    /\ pc[i] = "load" /\ i \notin cancelled /\ ~config[i].enabled
    /\ IF row[i].state = "none" THEN UNCHANGED <<row, backoff>> ELSE MarkStopped(i)
    /\ Goto(i, "exited")
    /\ UNCHANGED <<clock, config, core, used, healthyAt, process, sched, asked, count>>

(* Variant: any timer will do. *)
WaitOverAtOnce(i) == TRUE

WaitOver(i) == row[i].nextRestart <= clock

(* waitUntil the end of the backoff. *)
Wait(i) ==
    /\ pc[i] = "wait" /\ WaitOver(i)
    /\ Goto(i, "mark_starting")
    /\ UNCHANGED <<clock, config, row, core, used, healthyAt, process, sched, asked, backoff, count>>

(* waitUntil is cancelled. *)
WaitCancelled(i) ==
    /\ pc[i] = "wait" /\ i \in cancelled
    /\ MarkStopped(i)
    /\ Goto(i, "exited")
    /\ UNCHANGED <<clock, config, core, used, healthyAt, process, sched, asked, count>>

(* MarkStarting asks for the integration to be enabled still. *)
MarkStarting(i) ==
    /\ pc[i] = "mark_starting" /\ i \notin cancelled
    /\ IF config[i].enabled
       THEN /\ Marked(i, "starting", row[i].nextRestart)
            /\ backoff' = [backoff EXCEPT ![i] = NoBackoff]
            /\ Goto(i, "start_session")
       ELSE UNCHANGED <<row, backoff>> /\ Goto(i, "exited")
    /\ UNCHANGED <<clock, config, core, used, healthyAt, process, sched, asked, count>>

(* StartSession: the process is up, described itself, took its configuration
   and is well. *)
StartSession(i) ==
    /\ pc[i] = "start_session" /\ i \notin cancelled
    /\ process' = [process EXCEPT ![i] = "alive"]
    /\ Goto(i, "mark_healthy")
    /\ UNCHANGED <<clock, config, row, core, used, healthyAt, sched, asked, backoff, count>>

StartSessionFails(i) ==
    /\ pc[i] = "start_session" /\ i \notin cancelled
    /\ MarkFailed(i)
    /\ Goto(i, "load")
    /\ UNCHANGED <<clock, config, core, used, healthyAt, process, sched, asked, count>>

StartSessionCancelled(i) ==
    /\ pc[i] = "start_session" /\ i \in cancelled
    /\ MarkStopped(i)
    /\ Goto(i, "exited")
    /\ UNCHANGED <<clock, config, core, used, healthyAt, process, sched, asked, count>>

RecordHealthy(i) ==
    /\ pc[i] = "mark_healthy" /\ i \notin cancelled
    /\ MarkHealthy(i)
    /\ Goto(i, "announce")
    /\ UNCHANGED <<clock, config, core, used, healthyAt, process, sched, asked, backoff, count>>

(* The observer is told; the reset timer starts, and a goroutine of its own for
   the workload, beside those that were left behind. *)
Announce(i) ==
    /\ pc[i] = "announce" /\ i \notin cancelled
    /\ healthyAt' = [healthyAt EXCEPT ![i] = clock]
    /\ \E k \in Workloads :
          /\ work[i][k].phase = "off" /\ \A l \in 1 .. k - 1 : work[i][l].phase # "off"
          /\ work' = [work EXCEPT ![i][k] = [Off EXCEPT !.phase = "new"]]
          /\ current' = [current EXCEPT ![i] = k]
    /\ Goto(i, "serve")
    /\ UNCHANGED <<clock, config, row, core, used, process, triggers, asked, backoff, count>>

(* session.Close *)
Closed(i) == [process EXCEPT ![i] = "none"]

(* A store or observer call returns an error, because the context is cancelled
   or for a reason of its own: Run closes the session and returns, and the row
   stays as it is. *)
Abort(i) ==
    /\ pc[i] \in {"load", "mark_starting", "start_session", "mark_healthy", "announce"}
    /\ IF i \in cancelled THEN UNCHANGED count ELSE CountFault
    /\ process' = Closed(i)
    /\ Goto(i, "exited")
    /\ UNCHANGED <<clock, config, row, core, used, healthyAt, sched, asked, backoff>>

(* The select of Run: the context is cancelled; or the process is gone; or the
   workload returned with an error.  The reset timer is stopped and the work
   context cancelled. *)
BeginStop(i) ==
    /\ pc[i] = "serve" /\ i \in cancelled
    /\ Goto(i, "stop")
    /\ healthyAt' = [healthyAt EXCEPT ![i] = None]
    /\ UNCHANGED <<clock, config, row, core, used, process, sched, asked, backoff, count>>

BeginFail(i) ==
    /\ pc[i] = "serve"
    /\ process[i] = "dead" \/ work[i][current[i]].phase = "off"
    /\ Goto(i, IF work[i][current[i]].phase = "off" /\ i \in cancelled THEN "stop" ELSE "fail")
    /\ healthyAt' = [healthyAt EXCEPT ![i] = None]
    /\ UNCHANGED <<clock, config, row, core, used, process, sched, asked, backoff, count>>

(* drainWorkload: the workload has returned, or the timer fires first and it is
   left behind.  Its requests are then no session's. *)
Drained(i) ==
    /\ LET phase == work[i][current[i]].phase IN
       phase = "off" \/ (phase # "new" /\ \E k \in Workloads \ {current[i]} : work[i][k].phase = "off")
    /\ asked' = asked \ {i}

(* The session is closed, the workload drained, and the row stopped.  The
   context of MarkStopped is not the cancelled one. *)
FinishStop(i) ==
    /\ pc[i] = "stop" /\ Drained(i)
    /\ process' = Closed(i)
    /\ MarkStopped(i)
    /\ Goto(i, "exited")
    /\ UNCHANGED <<clock, config, core, used, healthyAt, sched, count>>

(* The failure is stored with the run's own context, and Run loops. *)
FinishFail(i) ==
    /\ pc[i] = "fail" /\ Drained(i) /\ i \notin cancelled
    /\ process' = Closed(i)
    /\ MarkFailed(i)
    /\ Goto(i, "load")
    /\ UNCHANGED <<clock, config, core, used, healthyAt, sched, count>>

(* ... unless that context is cancelled by now, or the store fails: Run returns
   and the row still says healthy. *)
FinishUnsaved(i) ==
    /\ pc[i] \in {"stop", "fail", "abort"} /\ Drained(i)
    /\ IF pc[i] = "abort" \/ (pc[i] = "fail" /\ i \in cancelled) THEN UNCHANGED count ELSE CountFault
    /\ process' = Closed(i)
    /\ Goto(i, "exited")
    /\ UNCHANGED <<clock, config, row, core, used, healthyAt, sched, backoff>>

ResetDue(i) ==
    /\ pc[i] = "serve" /\ healthyAt[i] # None
    /\ Later(healthyAt[i], HealthyReset) <= clock

(* The reset timer fires: the failures are forgiven. *)
ResetFailures(i) ==
    /\ ResetDue(i) /\ i \notin cancelled
    /\ row' = [row EXCEPT ![i] = [@ EXCEPT !.failures = 0, !.nextRestart = None]]
    /\ healthyAt' = [healthyAt EXCEPT ![i] = None]
    /\ UNCHANGED <<clock, config, core, pc, used, process, sched, asked, backoff, count>>

(* ... or the store fails and Run gives up: the session is closed and the
   workload drained. *)
ResetAborts(i) ==
    /\ ResetDue(i)
    /\ IF i \in cancelled THEN UNCHANGED count ELSE CountFault
    /\ Goto(i, "abort")
    /\ healthyAt' = [healthyAt EXCEPT ![i] = None]
    /\ UNCHANGED <<clock, config, row, core, used, process, sched, asked, backoff>>

(* The adapter process exits or fails the protocol. *)
ProcessDies(i) ==
    /\ process[i] = "alive"
    /\ process' = [process EXCEPT ![i] = "dead"]
    /\ UNCHANGED <<clock, config, row, core, pc, used, healthyAt, sched, asked, backoff, count>>

-----------------------------------------------------------------------------
(* Scheduler.Run, and Request. *)

WorkCancelled(i, k) == i \in cancelled \/ pc[i] # "serve" \/ k # current[i]

(* The workload enters its trigger channel in the map, in place of whatever
   channel is there. *)
Register(i, k) ==
    /\ work[i][k].phase = "new"
    /\ work' = [work EXCEPT ![i][k].phase = "idle"]
    /\ triggers' = [triggers EXCEPT ![i] = k]
    /\ UNCHANGED <<clock, config, row, core, sup, current, asked, backoff, count>>

(* Variant: what comes during a collection is dropped. *)
StartedUnlessActive(i, k) ==
    IF Active(i, k) THEN work[i][k] ELSE [work[i][k] EXCEPT !.phase = "queued"]

(* start, or the one pending collection when one is active. *)
Started(i, k) ==
    IF Active(i, k) THEN [work[i][k] EXCEPT !.pending = TRUE]
                    ELSE [work[i][k] EXCEPT !.phase = "queued"]

TimerFires(i, k) ==
    /\ Running(i, k) /\ ~WorkCancelled(i, k)
    /\ work' = [work EXCEPT ![i][k] = Started(i, k)]
    /\ UNCHANGED <<clock, config, row, core, sup, current, triggers, asked, backoff, count>>

(* Request, by the API: one token in the channel of the map, or coalesced.  A
   workload that was left behind takes it too, and drops it. *)
Request(i) ==
    /\ triggers[i] # None
    /\ count.requests < MaxRequests /\ InputLeft(i)
    /\ count' = [count EXCEPT !.requests = @ + 1]
    /\ work' = [work EXCEPT ![i][triggers[i]].trigger = TRUE]
    /\ asked' = IF LeftBehind(i, triggers[i]) THEN asked ELSE asked \cup {i}
    /\ UNCHANGED <<clock, config, row, core, sup, current, triggers, backoff>>

TakeTrigger(i, k) ==
    /\ Running(i, k) /\ work[i][k].trigger
    /\ work' = [work EXCEPT ![i][k] = [Started(i, k) EXCEPT !.trigger = FALSE]]
    /\ UNCHANGED <<clock, config, row, core, sup, current, triggers, asked, backoff, count>>

TokensTaken ==
    Cardinality({w \in Integrations \X Workloads : work[w[1]][w[2]].phase = "collecting"})

(* What is asked of the session's workload is no longer open. *)
Answered(i, k) == IF LeftBehind(i, k) THEN asked ELSE asked \ {i}

(* The collection gets its token and begins. *)
Acquire(i, k) ==
    /\ work[i][k].phase = "queued" /\ TokensTaken < GlobalConcurrency
    /\ work' = [work EXCEPT ![i][k].phase = "collecting"]
    /\ asked' = Answered(i, k)
    /\ UNCHANGED <<clock, config, row, core, sup, current, triggers, backoff, count>>

(* ... or sees the cancelled context first. *)
AcquireCancelled(i, k) ==
    /\ work[i][k].phase = "queued" /\ WorkCancelled(i, k)
    /\ work' = [work EXCEPT ![i][k].phase = "failed"]
    /\ UNCHANGED <<clock, config, row, core, sup, current, triggers, asked, backoff, count>>

(* Collector.Collect returns, and the token is given back.  An attempt that
   failed is no error of the workload, unless the process failed with it. *)
CollectEnds(i, k) ==
    /\ work[i][k].phase = "collecting"
    /\ \E phase \in {"succeeded"} \cup IF process[i] = "dead" \/ LeftBehind(i, k) THEN {"failed"} ELSE {} :
          work' = [work EXCEPT ![i][k].phase = phase]
    /\ UNCHANGED <<clock, config, row, core, sup, current, triggers, asked, backoff, count>>

(* ... or its outcome could not be recorded. *)
CollectUnrecorded(i, k) ==
    /\ work[i][k].phase = "collecting"
    /\ CountFault
    /\ work' = [work EXCEPT ![i][k].phase = "failed"]
    /\ UNCHANGED <<clock, config, row, core, sup, current, triggers, asked, backoff>>

(* case err := <-done, without an error *)
CollectDone(i, k) ==
    /\ work[i][k].phase = "succeeded"
    /\ work' = [work EXCEPT ![i][k].phase = IF work[i][k].pending THEN "queued" ELSE "idle",
                            ![i][k].pending = FALSE]
    /\ UNCHANGED <<clock, config, row, core, sup, current, triggers, asked, backoff, count>>

(* Variant: Run removes the trigger of its integration, whoever entered it. *)
NoTrigger(i, k) == [triggers EXCEPT ![i] = None]

(* A workload that returns removes the trigger it entered itself. *)
OtherTrigger(i, k) == [triggers EXCEPT ![i] = IF @ = k THEN None ELSE @]

(* Run returns: a collection failed with its process, or the context is
   cancelled and no collection is under way.  The trigger channel goes. *)
WorkReturns(i, k) ==
    /\ \/ work[i][k].phase = "failed"
       \/ work[i][k].phase \in {"idle", "succeeded"} /\ WorkCancelled(i, k)
    /\ work' = [work EXCEPT ![i][k] = Off]
    /\ triggers' = OtherTrigger(i, k)
    /\ asked' = Answered(i, k)
    /\ UNCHANGED <<clock, config, row, core, sup, current, backoff, count>>

Tick ==
    /\ clock < Horizon
    /\ clock' = clock + 1
    /\ UNCHANGED <<config, row, core, sup, sched, asked, backoff, count>>

-----------------------------------------------------------------------------
Supervise(i) ==
    \/ Load(i) \/ LoadDisabled(i) \/ Wait(i) \/ WaitCancelled(i)
    \/ MarkStarting(i) \/ StartSession(i) \/ StartSessionFails(i) \/ StartSessionCancelled(i)
    \/ RecordHealthy(i) \/ Announce(i) \/ Abort(i)
    \/ BeginStop(i) \/ BeginFail(i) \/ FinishStop(i) \/ FinishFail(i) \/ FinishUnsaved(i)
    \/ ResetFailures(i) \/ ResetAborts(i)

Schedule(i, k) ==
    \/ Register(i, k) \/ TakeTrigger(i, k) \/ AcquireCancelled(i, k)
    \/ CollectDone(i, k) \/ WorkReturns(i, k)

Next ==
    \/ \E i \in Integrations :
         \/ \E enabled \in BOOLEAN : SaveMonitor(i, enabled) \/ UpdateIntegration(i, enabled)
         \/ Restart(i) \/ TakeExit(i)
         \/ Supervise(i) \/ ProcessDies(i)
         \/ Request(i)
         \/ \E k \in Workloads :
              \/ TimerFires(i, k) \/ Schedule(i, k) \/ Acquire(i, k)
              \/ CollectEnds(i, k) \/ CollectUnrecorded(i, k)
    \/ Reconcile \/ TakeRestart \/ Shutdown \/ Boot \/ Crash
    \/ Tick

Spec == Init /\ [][Next]_vars

(* Goroutines and timers run, collections end (the request deadline), and the
   token channel serves those who wait for it in turn; processes, stores and
   administrators need not do anything. *)
FairSpec ==
    /\ Spec
    /\ WF_vars(Reconcile) /\ WF_vars(TakeRestart) /\ WF_vars(Boot) /\ WF_vars(Tick)
    /\ \A i \in Integrations :
         /\ WF_vars(Restart(i)) /\ WF_vars(TakeExit(i))
         /\ WF_vars(Supervise(i))
         /\ \A k \in Workloads :
              WF_vars(Schedule(i, k)) /\ WF_vars(CollectEnds(i, k)) /\ SF_vars(Acquire(i, k))

-----------------------------------------------------------------------------
(* "Exactly one owner": an adapter process belongs to a run the coordinator
   knows, whose row says starting or healthy, and a run that is over left none,
   wherever a cancelled context or a failing store ended it. *)
ProcessOwned ==
    \A i \in Integrations :
        /\ process[i] # "none" => i \in managed /\ row[i].state \in {"starting", "healthy"}
        /\ pc[i] = "serve" => process[i] # "none" /\ row[i].state = "healthy"
        /\ pc[i] \in {"none", "exited"} => process[i] = "none"
        /\ i \in managed <=> pc[i] # "none"

(* Requests reach the workload of the last session as long as it runs, though
   workloads of earlier sessions return at any time after their drain timer;
   and no trigger outlives its workload (triggers[id] == trigger). *)
TriggerKept ==
    \A i \in Integrations :
        /\ Running(i, current[i]) => triggers[i] = current[i]
        /\ triggers[i] # None => Running(i, triggers[i])

(* What holds of runs, processes, rows and workloads at any time, through
   cancellations, drain timers, failing stores and crashes. *)
RuntimeInv == TypeOK /\ ProcessOwned /\ TriggerKept

(* The adapter of i is started. *)
Starts(i) == row'[i].state = "starting" /\ row[i].state # "starting"

(* No adapter is started before the delay its last failure earned is over,
   through crashes and failing stores, unless the row was stopped in between
   (MarkStopped clears next_restart_at, also when Core shuts down); and only an adapter that stayed healthy loses its failure count. *)
BackoffKept ==
    [][\A i \in Integrations :
          /\ Starts(i) => (backoff[i].until <= clock \/ backoff[i].lifted)
          /\ row'[i].failures < row[i].failures =>
                healthyAt[i] # None /\ Later(healthyAt[i], HealthyReset) <= clock]_vars

(* An accepted request is not lost while its session lasts: a collection
   begins after it, whatever was active, pending or coalesced. *)
RequestServed == \A i \in Integrations : []<>(i \notin asked)

(* "Configuration changes restart the supervised generation": what was saved
   for a website monitor or hypervisor is loaded by a supervisor, unless it was
   disabled, however the save and its restart fall among the supervisor's own
   steps and the coordinator's exits. *)
ConfigApplied ==
    \A i \in Integrations :
        []<>(config[i].typed => used[i] = config[i].version \/ ~config[i].enabled)

(* A disabled integration loses its process. *)
DisabledStops ==
    \A i \in Integrations : []<>(~config[i].enabled => process[i] = "none")
=============================================================================
