---------------------- MODULE CollectionRuntime_proofs ----------------------
(***************************************************************************)
(* Proofs about the collection runtime: that an adapter process always has *)
(* its one owner, that requests reach the workload of the last session     *)
(* beside workloads that were left behind, and that a restart waits for    *)
(* its backoff hold for any set of integrations and any limits.            *)
(***************************************************************************)
EXTENDS CollectionRuntime, TLAPS

(* Where a supervisor has an adapter process. *)
WithProcess == {"mark_healthy", "announce", "serve", "stop", "fail", "abort"}

(* What the place of a supervisor says of its process and row. *)
Placed(i) ==
    /\ i \in managed <=> pc[i] # "none"
    /\ process[i] # "none" <=> pc[i] \in WithProcess
    /\ pc[i] \in {"start_session", "mark_healthy"} => row[i].state = "starting"
    /\ pc[i] \in WithProcess \ {"mark_healthy"} => row[i].state = "healthy"

(* A backoff that was not lifted is the one the row still holds; whoever is
   about to start the adapter has waited for its end, and whoever started it
   has no backoff left. *)
Awaited(i) ==
    /\ ~backoff[i].lifted => backoff[i].until = 0 \/ row[i].nextRestart = backoff[i].until
    /\ pc[i] = "mark_starting" => backoff[i].until <= clock \/ backoff[i].lifted
    /\ pc[i] \in {"start_session"} \cup WithProcess => backoff[i] = NoBackoff

(* The trigger of the last session's workload is in the map once it runs, only
   triggers of running workloads are, and none but that workload is new. *)
Entered(i) ==
    /\ Running(i, current[i]) => triggers[i] = current[i]
    /\ triggers[i] # None => Running(i, triggers[i])
    /\ \A k \in Workloads : work[i][k].phase = "new" => k = current[i] /\ pc[i] \in WithWork

(* The inductive invariant. *)
RuntimeInd ==
    /\ TypeOK
    /\ \A i \in Integrations : Entered(i)
    /\ \A i \in Integrations : Placed(i)
    /\ \A i \in Integrations : Awaited(i)

-----------------------------------------------------------------------------
(* What a step of integration i leaves of integration j. *)
Same(j) ==
    /\ j \in managed' <=> j \in managed
    /\ pc'[j] = pc[j] /\ process'[j] = process[j]
    /\ work'[j] = work[j] /\ current'[j] = current[j] /\ triggers'[j] = triggers[j]
    /\ row'[j] = row[j] /\ backoff'[j] = backoff[j]

Frame(i) == clock' = clock /\ \A j \in Integrations : j # i => Same(j)

(* A step of one integration is sound if it is for that integration. *)
LEMMA FrameSound ==
    ASSUME RuntimeInd, NEW i \in Integrations, TypeOK', Frame(i), Placed(i)', Awaited(i)', Entered(i)'
    PROVE  RuntimeInd'
<1>1. ASSUME NEW j \in Integrations, j # i
      PROVE  Placed(j)' /\ Awaited(j)' /\ Entered(j)'
  BY <1>1 DEF RuntimeInd, Frame, Same, Placed, Awaited, Entered, Running
<1>. QED  BY <1>1 DEF RuntimeInd

(* A step of the supervisor that leaves the workloads alone keeps the triggers,
   unless it leaves a new workload behind. *)
LEMMA EnteredKept ==
    ASSUME RuntimeInd, NEW i \in Integrations, UNCHANGED sched,
           pc[i] \in WithWork => pc'[i] \in WithWork \/ work[i][current[i]].phase # "new"
    PROVE  Entered(i)'
BY DEF RuntimeInd, Entered, Running, sched

(* The clock's horizon and the restart delay keep instants in range. *)
LEMMA LaterTyped ==
    ASSUME NEW t \in Instants, NEW d \in Nat
    PROVE  Later(t, d) \in Instants
BY RuntimeAssumption DEF Later, Instants

(* A restart delay is a duration. *)
LEMMA DelayTyped ==
    ASSUME NEW n \in Nat \ {0}
    PROVE  RestartDelay(n) \in Nat
<1>1. n <= Len(Doubled) => Doubled[n] \in Nat
  BY DEF Doubled
<1>. QED  BY <1>1, RuntimeAssumption DEF RestartDelay

(* What a row, a workload, a backoff and the counts can be. *)
Rows == [state: {"none", "starting", "healthy", "unhealthy", "stopped"},
         failures: 0 .. MaxFailures, nextRestart: Instants \cup {None}]

Works == [phase: Phases, pending: BOOLEAN, trigger: BOOLEAN]

Backoffs == [until: Instants, lifted: BOOLEAN]

Counts == [requests: 0 .. MaxRequests, faults: 0 .. MaxFaults]

Configs == [typed: BOOLEAN, enabled: BOOLEAN, version: 0 .. MaxVersion]

(* The records of TypeOK, by these names. *)
LEMMA Typed ==
    ASSUME TypeOK
    PROVE  /\ clock \in Instants /\ config \in [Integrations -> Configs]
           /\ row \in [Integrations -> Rows] /\ backoff \in [Integrations -> Backoffs]
           /\ count \in Counts /\ work \in [Integrations -> [Workloads -> Works]]
BY DEF TypeOK, Rows, Works, Backoffs, Counts, Configs

(* MarkFailed: one failure more, unless there are MaxFailures, and the end of
   a backoff that was not lifted. *)
LEMMA FailureStored ==
    ASSUME TypeOK, NEW i \in Integrations, MarkFailed(i)
    PROVE  \E n \in row[i].failures .. MaxFailures, next \in Instants :
              /\ row' = [row EXCEPT ![i] = [state |-> "unhealthy", failures |-> n,
                                            nextRestart |-> next]]
              /\ backoff' = [backoff EXCEPT ![i] = [until |-> next, lifted |-> FALSE]]
<1>. DEFINE n == IF row[i].failures < MaxFailures THEN row[i].failures + 1 ELSE MaxFailures
            next == Later(clock, RestartDelay(n))
<1>. MaxFailures \in Nat \ {0}  BY RuntimeAssumption
<1>. row[i].failures \in 0 .. MaxFailures  BY Typed DEF Rows
<1>1. n \in row[i].failures .. MaxFailures /\ n \in Nat \ {0}
  OBVIOUS
<1>2. next \in Instants
  BY <1>1, DelayTyped, LaterTyped DEF TypeOK
<1>3. /\ row' = [row EXCEPT ![i] = [state |-> "unhealthy", failures |-> n,
                                    nextRestart |-> next]]
      /\ backoff' = [backoff EXCEPT ![i] = [until |-> next, lifted |-> FALSE]]
  BY DEF MarkFailed
<1>. QED  BY <1>1, <1>2, <1>3

(* Each write of one of these keeps its type. *)
LEMMA ConfiguredTyped ==
    ASSUME TypeOK, NEW i \in Integrations, NEW e \in BOOLEAN, Configured(i, e)
    PROVE  config' \in [Integrations -> Configs]
<1>1. config \in [Integrations -> Configs] /\ config[i].version + 1 \in 0 .. MaxVersion
  BY Typed, RuntimeAssumption DEF Configured, Configs
<1>2. \A c \in Configs : c.version + 1 \in 0 .. MaxVersion =>
         [c EXCEPT !.enabled = e, !.version = c.version + 1] \in Configs
  BY DEF Configs
<1>. QED  BY <1>1, <1>2 DEF Configured

(* What Marked writes is of its type. *)
LEMMA MarkedTyped ==
    ASSUME TypeOK, NEW i \in Integrations,
           NEW state \in {"none", "starting", "healthy", "unhealthy", "stopped"},
           NEW next \in Instants \cup {None}, Marked(i, state, next)
    PROVE  row' \in [Integrations -> Rows]
<1>1. row \in [Integrations -> Rows]
  BY DEF TypeOK, Rows
<1>2. \A c \in Rows : [c EXCEPT !.state = state, !.nextRestart = next] \in Rows
  BY DEF Rows
<1>. QED  BY <1>1, <1>2 DEF Marked

(* What Stopped writes is of its type. *)
LEMMA StoppedTyped ==
    ASSUME TypeOK, NEW i \in Integrations, MarkStopped(i)
    PROVE  row' \in [Integrations -> Rows] /\ backoff' \in [Integrations -> Backoffs]
<1>1. row' \in [Integrations -> Rows]
  BY MarkedTyped DEF MarkStopped
<1>2. \A b \in Backoffs : [b EXCEPT !.lifted = TRUE] \in Backoffs
  BY DEF Backoffs
<1>. QED  BY <1>1, <1>2, Typed DEF MarkStopped

(* What Failed writes is of its type. *)
LEMMA FailedTyped ==
    ASSUME TypeOK, NEW i \in Integrations, MarkFailed(i)
    PROVE  row' \in [Integrations -> Rows] /\ backoff' \in [Integrations -> Backoffs]
<1>1. PICK n \in row[i].failures .. MaxFailures, next \in Instants :
              /\ row' = [row EXCEPT ![i] = [state |-> "unhealthy", failures |-> n,
                                            nextRestart |-> next]]
              /\ backoff' = [backoff EXCEPT ![i] = [until |-> next, lifted |-> FALSE]]
  BY FailureStored
<1>2. n \in 0 .. MaxFailures
  BY Typed, RuntimeAssumption DEF Rows
<1>3. [state |-> "unhealthy", failures |-> n, nextRestart |-> next] \in Rows
  BY <1>2 DEF Rows
<1>4. [until |-> next, lifted |-> FALSE] \in Backoffs
  BY DEF Backoffs
<1>. QED  BY <1>1, <1>3, <1>4 DEF TypeOK, Rows, Backoffs

(* What Count writes is of its type. *)
LEMMA CountTyped ==
    ASSUME TypeOK, CountFault
    PROVE  count' \in Counts
<1>1. count \in Counts /\ count.faults + 1 \in 0 .. MaxFaults
  BY RuntimeAssumption DEF TypeOK, CountFault, Counts
<1>2. \A c \in Counts : c.faults + 1 \in 0 .. MaxFaults => [c EXCEPT !.faults = @ + 1] \in Counts
  BY DEF Counts
<1>. QED  BY <1>1, <1>2 DEF CountFault

(* What Started writes is of its type, and runs. *)
LEMMA StartedTyped ==
    ASSUME TypeOK, NEW i \in Integrations, NEW k \in Workloads, Running(i, k)
    PROVE  /\ Started(i, k) \in Works /\ [Started(i, k) EXCEPT !.trigger = FALSE] \in Works
           /\ Started(i, k).phase \notin {"off", "new"}
           /\ [Started(i, k) EXCEPT !.trigger = FALSE].phase \notin {"off", "new"}
<1>1. work[i][k] \in Works
  BY DEF TypeOK, Works
<1>2. Started(i, k) \in Works /\ Started(i, k).phase \notin {"off", "new"}
  BY <1>1 DEF Works, Started, Phases, Running
<1>. QED  BY <1>2 DEF Works

-----------------------------------------------------------------------------
(* One lemma per action of an integration: types, what is left alone, where
   its supervisor stands, and its backoff. *)
LEMMA SaveMonitorStep ==
    ASSUME RuntimeInd, NEW i \in Integrations, NEW e \in BOOLEAN, SaveMonitor(i, e)
    PROVE  RuntimeInd'
<1>1. TypeOK'
  <2>1. config' \in [Integrations -> Configs]
    BY ConfiguredTyped DEF RuntimeInd, SaveMonitor
  <2>. QED
    BY <2>1 DEF RuntimeInd, TypeOK, SaveMonitor, Configs, core, sched, sup
<1>2. Frame(i)
  BY DEF RuntimeInd, TypeOK, Frame, Same, SaveMonitor, core, sched, sup
<1>3. Placed(i)'
  BY DEF RuntimeInd, TypeOK, Placed, WithProcess, SaveMonitor, core, sched, sup
<1>4. Awaited(i)'
  BY DEF RuntimeInd, Awaited, SaveMonitor, core, sched, sup
<1>5. Entered(i)'
  BY EnteredKept DEF RuntimeInd, TypeOK, SaveMonitor, Goto, WithWork, core, sched, sup
<1>. QED  BY <1>1, <1>2, <1>3, <1>4, <1>5, FrameSound

(* UpdateIntegration preserves the invariant. *)
LEMMA UpdateIntegrationStep ==
    ASSUME RuntimeInd, NEW i \in Integrations, NEW e \in BOOLEAN, UpdateIntegration(i, e)
    PROVE  RuntimeInd'
<1>1. TypeOK'
  <2>1. config' \in [Integrations -> Configs]
    BY ConfiguredTyped DEF RuntimeInd, UpdateIntegration
  <2>. QED
    BY <2>1 DEF RuntimeInd, TypeOK, UpdateIntegration, Configs, core, sched, sup
<1>2. Frame(i)
  BY DEF RuntimeInd, TypeOK, Frame, Same, UpdateIntegration, core, sched, sup
<1>3. Placed(i)'
  BY DEF RuntimeInd, TypeOK, Placed, WithProcess, UpdateIntegration, core, sched, sup
<1>4. Awaited(i)'
  BY DEF RuntimeInd, Awaited, UpdateIntegration, core, sched, sup
<1>5. Entered(i)'
  BY EnteredKept DEF RuntimeInd, TypeOK, UpdateIntegration, Goto, WithWork, core, sched, sup
<1>. QED  BY <1>1, <1>2, <1>3, <1>4, <1>5, FrameSound

(* Restart preserves the invariant. *)
LEMMA RestartStep ==
    ASSUME RuntimeInd, NEW i \in Integrations, Restart(i)
    PROVE  RuntimeInd'
<1>1. TypeOK'
  <2>1. restarts' \in Seq(Integrations) /\ Len(restarts') <= RestartCapacity
    BY RuntimeAssumption DEF RuntimeInd, TypeOK, Restart, Queued
  <2>. QED
    BY <2>1 DEF RuntimeInd, TypeOK, Restart, core, sched, sup
<1>2. Frame(i)
  BY DEF RuntimeInd, TypeOK, Frame, Same, Restart, core, sched, sup
<1>3. Placed(i)'
  BY DEF RuntimeInd, TypeOK, Placed, WithProcess, Restart, core, sched, sup
<1>4. Awaited(i)'
  BY DEF RuntimeInd, Awaited, Restart, core, sched, sup
<1>5. Entered(i)'
  BY EnteredKept DEF RuntimeInd, TypeOK, Restart, Goto, WithWork, core, sched, sup
<1>. QED  BY <1>1, <1>2, <1>3, <1>4, <1>5, FrameSound

(* TakeExit preserves the invariant. *)
LEMMA TakeExitStep ==
    ASSUME RuntimeInd, NEW i \in Integrations, TakeExit(i)
    PROVE  RuntimeInd'
<1>1. TypeOK'
  BY RuntimeAssumption DEF RuntimeInd, TypeOK, TakeExit, Forgotten, core, sched, sup, Steps, Phases, None
<1>2. Frame(i)
  BY DEF RuntimeInd, TypeOK, Frame, Same, TakeExit, Forgotten, core, sched, sup
<1>3. Placed(i)'
  BY DEF RuntimeInd, TypeOK, Placed, WithProcess, TakeExit, Forgotten, core, sched, sup
<1>4. Awaited(i)'
  BY DEF RuntimeInd, TypeOK, Awaited, WithProcess, TakeExit, Forgotten, core, sched, sup
<1>5. Entered(i)'
  BY EnteredKept DEF RuntimeInd, TypeOK, TakeExit, Goto, WithWork, core, sched, sup
<1>. QED  BY <1>1, <1>2, <1>3, <1>4, <1>5, FrameSound

(* Load preserves the invariant. *)
LEMMA LoadStep ==
    ASSUME RuntimeInd, NEW i \in Integrations, Load(i)
    PROVE  RuntimeInd'
<1>1. TypeOK'
  <2>1. used' \in [Integrations -> -1 .. MaxVersion]
    BY RuntimeAssumption DEF RuntimeInd, TypeOK, Load
  <2>2. pc' \in [Integrations -> Steps]
    BY DEF RuntimeInd, TypeOK, Load, Goto, Steps
  <2>. QED
    BY <2>1, <2>2 DEF RuntimeInd, TypeOK, Load, core, sched, sup
<1>2. Frame(i)
  BY DEF RuntimeInd, TypeOK, Frame, Same, Load, Goto, core, sched, sup
<1>3. Placed(i)'
  BY DEF RuntimeInd, TypeOK, Placed, WithProcess, Load, Goto, core, sched, sup
<1>4. Awaited(i)'
  BY DEF RuntimeInd, TypeOK, Awaited, WithProcess, Instants, None, Load, Goto, core, sched, sup
<1>5. Entered(i)'
  BY EnteredKept DEF RuntimeInd, TypeOK, Load, Goto, WithWork, core, sched, sup
<1>. QED  BY <1>1, <1>2, <1>3, <1>4, <1>5, FrameSound

(* LoadDisabled preserves the invariant. *)
LEMMA LoadDisabledStep ==
    ASSUME RuntimeInd, NEW i \in Integrations, LoadDisabled(i)
    PROVE  RuntimeInd'
<1>1. TypeOK'
  <2>1. row' \in [Integrations -> Rows] /\ backoff' \in [Integrations -> Backoffs]
    BY StoppedTyped DEF RuntimeInd, LoadDisabled, TypeOK, Rows, Backoffs
  <2>. QED
    BY <2>1 DEF RuntimeInd, TypeOK, LoadDisabled, Goto, Rows, Backoffs, core, sched, sup, Steps
<1>2. Frame(i)
  BY DEF RuntimeInd, TypeOK, Frame, Same, LoadDisabled, MarkStopped, Marked, Goto, core, sched, sup
<1>3. Placed(i)'
  BY DEF RuntimeInd, TypeOK, Placed, WithProcess, LoadDisabled, MarkStopped, Marked,
         Goto, core, sched, sup
<1>4. Awaited(i)'
  BY DEF RuntimeInd, TypeOK, Awaited, WithProcess, LoadDisabled, MarkStopped, Marked, Goto, core, sched,
         sup
<1>5. Entered(i)'
  BY EnteredKept DEF RuntimeInd, TypeOK, LoadDisabled, Goto, WithWork, core, sched, sup
<1>. QED  BY <1>1, <1>2, <1>3, <1>4, <1>5, FrameSound

(* Wait preserves the invariant. *)
LEMMA WaitStep ==
    ASSUME RuntimeInd, NEW i \in Integrations, Wait(i)
    PROVE  RuntimeInd'
<1>1. TypeOK'
  BY RuntimeAssumption DEF RuntimeInd, TypeOK, Wait, Goto, core, sched, Steps
<1>2. Frame(i)
  BY DEF RuntimeInd, TypeOK, Frame, Same, Wait, WaitOver, Goto, core, sched, sup
<1>3. Placed(i)'
  BY DEF RuntimeInd, TypeOK, Placed, WithProcess, Wait, WaitOver, Goto, core, sched, sup
<1>4. Awaited(i)'
  BY DEF RuntimeInd, TypeOK, Awaited, WithProcess, Instants, None, Wait, WaitOver, Goto, core, sched, sup
<1>5. Entered(i)'
  BY EnteredKept DEF RuntimeInd, TypeOK, Wait, Goto, WithWork, core, sched, sup
<1>. QED  BY <1>1, <1>2, <1>3, <1>4, <1>5, FrameSound

(* WaitCancelled preserves the invariant. *)
LEMMA WaitCancelledStep ==
    ASSUME RuntimeInd, NEW i \in Integrations, WaitCancelled(i)
    PROVE  RuntimeInd'
<1>1. TypeOK'
  <2>1. row' \in [Integrations -> Rows] /\ backoff' \in [Integrations -> Backoffs]
    BY StoppedTyped DEF RuntimeInd, WaitCancelled
  <2>. QED
    BY <2>1 DEF RuntimeInd, TypeOK, WaitCancelled, Goto, Rows, Backoffs, core, sched, sup, Steps
<1>2. Frame(i)
  BY DEF RuntimeInd, TypeOK, Frame, Same, WaitCancelled, MarkStopped, Marked, Goto, core, sched, sup
<1>3. Placed(i)'
  BY DEF RuntimeInd, TypeOK, Placed, WithProcess, WaitCancelled, MarkStopped, Marked,
         Goto, core, sched, sup
<1>4. Awaited(i)'
  BY DEF RuntimeInd, TypeOK, Awaited, WithProcess, WaitCancelled, MarkStopped, Marked, Goto, core, sched,
         sup
<1>5. Entered(i)'
  BY EnteredKept DEF RuntimeInd, TypeOK, WaitCancelled, Goto, WithWork, core, sched, sup
<1>. QED  BY <1>1, <1>2, <1>3, <1>4, <1>5, FrameSound

(* MarkStarting preserves the invariant. *)
LEMMA MarkStartingStep ==
    ASSUME RuntimeInd, NEW i \in Integrations, MarkStarting(i)
    PROVE  RuntimeInd'
<1>1. CASE config[i].enabled
  <2>1. /\ Marked(i, "starting", row[i].nextRestart) /\ Goto(i, "start_session")
        /\ backoff' = [backoff EXCEPT ![i] = NoBackoff]
    BY <1>1 DEF MarkStarting
  <2>2. NoBackoff \in Backoffs
    BY RuntimeAssumption DEF Backoffs, NoBackoff, Instants
  <2>3. /\ row' \in [Integrations -> Rows] /\ backoff' \in [Integrations -> Backoffs]
        /\ pc' \in [Integrations -> Steps]
    <3>1. row[i].nextRestart \in Instants \cup {None}
      BY DEF RuntimeInd, TypeOK
    <3>2. row' \in [Integrations -> Rows]
      BY <2>1, <3>1, MarkedTyped DEF RuntimeInd
    <3>. QED  BY <2>1, <2>2, <3>2 DEF RuntimeInd, TypeOK, Goto, Steps, Backoffs
  <2>4. TypeOK'
    BY <2>3 DEF RuntimeInd, TypeOK, MarkStarting, Rows, Backoffs, core, sched
  <2>5. Frame(i) /\ Placed(i)' /\ Awaited(i)'
    BY <2>1 DEF RuntimeInd, TypeOK, Frame, Same, Placed, Awaited, WithProcess,
                NoBackoff, MarkStarting, Marked, Goto, core, sched
  <2>6. Entered(i)'
    BY <2>1, EnteredKept DEF MarkStarting, WithWork
  <2>. QED  BY <2>4, <2>5, <2>6, FrameSound
<1>2. CASE ~config[i].enabled
  <2>1. UNCHANGED <<row, backoff>> /\ Goto(i, "exited")
    BY <1>2 DEF MarkStarting
  <2>2. TypeOK'
    BY <2>1 DEF RuntimeInd, TypeOK, MarkStarting, Goto, Steps, core, sched
  <2>3. Frame(i)
    BY <2>1 DEF RuntimeInd, TypeOK, Frame, Same, MarkStarting, Goto, core, sched
  <2>4. Placed(i)' /\ Awaited(i)'
    BY <2>1 DEF RuntimeInd, TypeOK, Placed, Awaited, WithProcess, WithWork, MarkStarting, Goto,
                core, sched
  <2>5. Entered(i)'
    BY <2>1, EnteredKept DEF MarkStarting, WithWork
  <2>. QED  BY <2>2, <2>3, <2>4, <2>5, FrameSound
<1>. QED  BY <1>1, <1>2

(* StartSession preserves the invariant. *)
LEMMA StartSessionStep ==
    ASSUME RuntimeInd, NEW i \in Integrations, StartSession(i)
    PROVE  RuntimeInd'
<1>1. TypeOK'
  BY RuntimeAssumption DEF RuntimeInd, TypeOK, StartSession, Goto, core, sched, sup, Steps, Phases, None
<1>2. Frame(i)
  BY DEF RuntimeInd, TypeOK, Frame, Same, StartSession, Goto, core, sched, sup
<1>3. Placed(i)'
  BY DEF RuntimeInd, TypeOK, Placed, WithProcess, StartSession, Goto, core, sched, sup
<1>4. Awaited(i)'
  BY DEF RuntimeInd, TypeOK, Awaited, WithProcess, StartSession, Goto, core, sched, sup
<1>5. Entered(i)'
  BY EnteredKept DEF RuntimeInd, TypeOK, StartSession, Goto, WithWork, core, sched, sup
<1>. QED  BY <1>1, <1>2, <1>3, <1>4, <1>5, FrameSound

(* StartSessionFails preserves the invariant. *)
LEMMA StartSessionFailsStep ==
    ASSUME RuntimeInd, NEW i \in Integrations, StartSessionFails(i)
    PROVE  RuntimeInd'
<1>1. TypeOK'
  <2>1. row' \in [Integrations -> Rows] /\ backoff' \in [Integrations -> Backoffs]
    BY FailedTyped DEF RuntimeInd, StartSessionFails
  <2>. QED
    BY <2>1 DEF RuntimeInd, TypeOK, StartSessionFails, Goto, Rows, Backoffs, core, sched, sup, Steps
<1>2. Frame(i)
  BY FailureStored DEF RuntimeInd, TypeOK, Frame, Same, StartSessionFails, Goto, core, sched, sup
<1>3. Placed(i)'
  BY FailureStored DEF RuntimeInd, TypeOK, Placed, WithProcess, StartSessionFails, Goto,
                       core, sched, sup
<1>4. Awaited(i)'
  BY FailureStored DEF RuntimeInd, TypeOK, Awaited, WithProcess, StartSessionFails, Goto, core, sched,
                       sup
<1>5. Entered(i)'
  BY EnteredKept DEF RuntimeInd, TypeOK, StartSessionFails, Goto, WithWork, core, sched, sup
<1>. QED  BY <1>1, <1>2, <1>3, <1>4, <1>5, FrameSound

(* StartSessionCancelled preserves the invariant. *)
LEMMA StartSessionCancelledStep ==
    ASSUME RuntimeInd, NEW i \in Integrations, StartSessionCancelled(i)
    PROVE  RuntimeInd'
<1>1. TypeOK'
  <2>1. row' \in [Integrations -> Rows] /\ backoff' \in [Integrations -> Backoffs]
    BY StoppedTyped DEF RuntimeInd, StartSessionCancelled
  <2>. QED
    BY <2>1 DEF RuntimeInd, TypeOK, StartSessionCancelled, Goto, Rows, Backoffs, core, sched, sup, Steps
<1>2. Frame(i)
  BY DEF RuntimeInd, TypeOK, Frame, Same, StartSessionCancelled, MarkStopped, Marked, Goto, core, sched,
         sup
<1>3. Placed(i)'
  BY DEF RuntimeInd, TypeOK, Placed, WithProcess, StartSessionCancelled, MarkStopped,
         Marked, Goto, core, sched, sup
<1>4. Awaited(i)'
  BY DEF RuntimeInd, TypeOK, Awaited, WithProcess, StartSessionCancelled, MarkStopped, Marked,
         Goto, core, sched, sup
<1>5. Entered(i)'
  BY EnteredKept DEF RuntimeInd, TypeOK, StartSessionCancelled, Goto, WithWork, core, sched, sup
<1>. QED  BY <1>1, <1>2, <1>3, <1>4, <1>5, FrameSound

(* RecordHealthy preserves the invariant. *)
LEMMA RecordHealthyStep ==
    ASSUME RuntimeInd, NEW i \in Integrations, RecordHealthy(i)
    PROVE  RuntimeInd'
<1>1. TypeOK'
  <2>1. row' \in [Integrations -> Rows]
    BY MarkedTyped DEF RuntimeInd, RecordHealthy, MarkHealthy
  <2>. QED
    BY <2>1 DEF RuntimeInd, TypeOK, RecordHealthy, Goto, Rows, core, sched, sup, Steps
<1>2. Frame(i)
  BY DEF RuntimeInd, TypeOK, Frame, Same, RecordHealthy, MarkHealthy, Marked, Goto, core, sched, sup
<1>3. Placed(i)'
  BY DEF RuntimeInd, TypeOK, Placed, WithProcess, RecordHealthy, MarkHealthy, Marked,
         Goto, core, sched, sup
<1>4. Awaited(i)'
  BY DEF RuntimeInd, TypeOK, Awaited, WithProcess, NoBackoff, RecordHealthy, MarkHealthy, Marked,
         Goto, core, sched, sup
<1>5. Entered(i)'
  BY EnteredKept DEF RuntimeInd, TypeOK, RecordHealthy, Goto, WithWork, core, sched, sup
<1>. QED  BY <1>1, <1>2, <1>3, <1>4, <1>5, FrameSound

(* Announce preserves the invariant. *)
LEMMA AnnounceStep ==
    ASSUME RuntimeInd, NEW i \in Integrations, Announce(i)
    PROVE  RuntimeInd'
<1>1. PICK k \in Workloads :
         /\ work[i][k].phase = "off"
         /\ work' = [work EXCEPT ![i][k] = [Off EXCEPT !.phase = "new"]]
         /\ current' = [current EXCEPT ![i] = k]
  BY DEF Announce
<1>2. PICK w : w = [Off EXCEPT !.phase = "new"]
  OBVIOUS
<1>3. w \in Works /\ w.phase = "new"
  BY <1>2 DEF Off, Works, Phases
<1>4. work \in [Integrations -> [Workloads -> Works]] /\ current'[i] = k
      /\ triggers[i] \in Workloads \cup {None}
  BY <1>1 DEF RuntimeInd, TypeOK, Works
<1>5. work' = [work EXCEPT ![i] = [work[i] EXCEPT ![k] = w]]
  BY <1>1, <1>2
<1>6. work'[i][k] = w /\ \A l \in Workloads : l # k => work'[i][l] = work[i][l]
  BY <1>4, <1>5
<1>7. TypeOK'
  <2>1. work' \in [Integrations -> [Workloads -> Works]]
    BY <1>3, <1>4, <1>5
  <2>2. current' \in [Integrations -> Workloads] /\ pc' \in [Integrations -> Steps]
        /\ healthyAt' \in [Integrations -> Instants \cup {None}]
    BY <1>1 DEF RuntimeInd, TypeOK, Announce, Goto, Steps
  <2>. QED  BY <2>1, <2>2 DEF RuntimeInd, TypeOK, Announce, Works, core, sched
<1>8. Frame(i)
  BY <1>1 DEF RuntimeInd, TypeOK, Frame, Same, Announce, Goto, core, sched
<1>9. Placed(i)' /\ Awaited(i)' /\ pc[i] = "announce" /\ pc'[i] = "serve"
  BY DEF RuntimeInd, TypeOK, Placed, Awaited, WithProcess, Announce, Goto, core, sched
<1>10. Entered(i)'
  <2>1. \A l \in Workloads : work[i][l].phase # "new"
    BY <1>9 DEF RuntimeInd, Entered, WithWork
  <2>2. triggers[i] # k /\ triggers'[i] = triggers[i]
    BY <1>1 DEF RuntimeInd, Entered, Running, Announce, Workloads, None
  <2>. QED
    BY <1>3, <1>4, <1>6, <1>9, <2>1, <2>2 DEF RuntimeInd, Entered, Running, WithWork
<1>. QED  BY <1>7, <1>8, <1>9, <1>10, FrameSound

(* Abort preserves the invariant. *)
LEMMA AbortStep ==
    ASSUME RuntimeInd, NEW i \in Integrations, Abort(i)
    PROVE  RuntimeInd'
<1>1. TypeOK'
  <2>1. count' \in Counts
    BY CountTyped DEF RuntimeInd, TypeOK, Counts, Abort
  <2>. QED
    BY <2>1 DEF RuntimeInd, TypeOK, Abort, Closed, Goto, Counts, core, sched, sup, Steps
<1>2. Frame(i)
  BY DEF RuntimeInd, TypeOK, Frame, Same, Abort, Closed, Goto, core, sched, sup
<1>3. Placed(i)'
  BY DEF RuntimeInd, TypeOK, Placed, WithProcess, Abort, Closed, Goto, core, sched, sup
<1>4. Awaited(i)'
  BY DEF RuntimeInd, TypeOK, Awaited, WithProcess, Abort, Closed, Goto, core, sched, sup
<1>5. Entered(i)'
  BY EnteredKept DEF RuntimeInd, TypeOK, Abort, Closed, Goto, WithWork, core, sched, sup
<1>. QED  BY <1>1, <1>2, <1>3, <1>4, <1>5, FrameSound

(* BeginStop preserves the invariant. *)
LEMMA BeginStopStep ==
    ASSUME RuntimeInd, NEW i \in Integrations, BeginStop(i)
    PROVE  RuntimeInd'
<1>1. TypeOK'
  BY RuntimeAssumption DEF RuntimeInd, TypeOK, BeginStop, Goto, core, sched, sup, Steps, Phases, None
<1>2. Frame(i)
  BY DEF RuntimeInd, TypeOK, Frame, Same, BeginStop, Goto, core, sched, sup
<1>3. Placed(i)'
  BY DEF RuntimeInd, TypeOK, Placed, WithProcess, BeginStop, Goto, core, sched, sup
<1>4. Awaited(i)'
  BY DEF RuntimeInd, TypeOK, Awaited, WithProcess, BeginStop, Goto, core, sched, sup
<1>5. Entered(i)'
  BY EnteredKept DEF RuntimeInd, TypeOK, BeginStop, Goto, WithWork, core, sched, sup
<1>. QED  BY <1>1, <1>2, <1>3, <1>4, <1>5, FrameSound

(* BeginFail preserves the invariant. *)
LEMMA BeginFailStep ==
    ASSUME RuntimeInd, NEW i \in Integrations, BeginFail(i)
    PROVE  RuntimeInd'
<1>1. TypeOK'
  BY RuntimeAssumption DEF RuntimeInd, TypeOK, BeginFail, Goto, core, sched, sup, Steps, Phases, None
<1>2. Frame(i)
  BY DEF RuntimeInd, TypeOK, Frame, Same, BeginFail, Goto, core, sched, sup
<1>3. Placed(i)'
  BY DEF RuntimeInd, TypeOK, Placed, WithProcess, BeginFail, Goto, core, sched, sup
<1>4. Awaited(i)'
  BY DEF RuntimeInd, TypeOK, Awaited, WithProcess, BeginFail, Goto, core, sched, sup
<1>5. Entered(i)'
  BY EnteredKept DEF RuntimeInd, TypeOK, BeginFail, Goto, WithWork, core, sched, sup
<1>. QED  BY <1>1, <1>2, <1>3, <1>4, <1>5, FrameSound

(* FinishStop preserves the invariant. *)
LEMMA FinishStopStep ==
    ASSUME RuntimeInd, NEW i \in Integrations, FinishStop(i)
    PROVE  RuntimeInd'
<1>1. TypeOK'
  <2>1. row' \in [Integrations -> Rows] /\ backoff' \in [Integrations -> Backoffs]
    BY StoppedTyped DEF RuntimeInd, FinishStop
  <2>. QED
    BY <2>1 DEF RuntimeInd, TypeOK, FinishStop, Closed, Drained, Goto, Rows, Backoffs, core, sched, sup, Steps
<1>2. Frame(i)
  BY DEF RuntimeInd, TypeOK, Frame, Same, FinishStop, Closed, Drained, MarkStopped, Marked, Goto, core, sched,
         sup
<1>3. Placed(i)'
  BY DEF RuntimeInd, TypeOK, Placed, WithProcess, FinishStop, Closed, Drained, MarkStopped,
         Marked, Goto, core, sched, sup
<1>4. Awaited(i)'
  BY DEF RuntimeInd, TypeOK, Awaited, WithProcess, FinishStop, Closed, Drained, MarkStopped, Marked, Goto,
         core, sched, sup
<1>5. Entered(i)'
  BY EnteredKept DEF RuntimeInd, TypeOK, FinishStop, Closed, Drained, Goto, WithWork, core, sched, sup
<1>. QED  BY <1>1, <1>2, <1>3, <1>4, <1>5, FrameSound

(* FinishFail preserves the invariant. *)
LEMMA FinishFailStep ==
    ASSUME RuntimeInd, NEW i \in Integrations, FinishFail(i)
    PROVE  RuntimeInd'
<1>1. TypeOK'
  <2>1. row' \in [Integrations -> Rows] /\ backoff' \in [Integrations -> Backoffs]
    BY FailedTyped DEF RuntimeInd, FinishFail
  <2>. QED
    BY <2>1 DEF RuntimeInd, TypeOK, FinishFail, Closed, Drained, Goto, Rows, Backoffs, core, sched, sup, Steps
<1>2. Frame(i)
  BY FailureStored DEF RuntimeInd, TypeOK, Frame, Same, FinishFail, Closed, Drained, Goto, core, sched, sup
<1>3. Placed(i)'
  BY FailureStored DEF RuntimeInd, TypeOK, Placed, WithProcess, FinishFail, Closed, Drained,
                       Goto, core, sched, sup
<1>4. Awaited(i)'
  BY FailureStored DEF RuntimeInd, TypeOK, Awaited, WithProcess, FinishFail, Closed, Drained, Goto, core, sched,
                       sup
<1>5. Entered(i)'
  BY EnteredKept DEF RuntimeInd, TypeOK, FinishFail, Closed, Drained, Goto, WithWork, core, sched, sup
<1>. QED  BY <1>1, <1>2, <1>3, <1>4, <1>5, FrameSound

(* FinishUnsaved preserves the invariant. *)
LEMMA FinishUnsavedStep ==
    ASSUME RuntimeInd, NEW i \in Integrations, FinishUnsaved(i)
    PROVE  RuntimeInd'
<1>1. TypeOK'
  <2>1. count' \in Counts
    BY CountTyped DEF RuntimeInd, TypeOK, Counts, FinishUnsaved
  <2>. QED
    BY <2>1 DEF RuntimeInd, TypeOK, FinishUnsaved, Closed, Drained, Goto, Counts, core, sched, sup, Steps
<1>2. Frame(i)
  BY DEF RuntimeInd, TypeOK, Frame, Same, FinishUnsaved, Closed, Drained, Goto, core, sched, sup
<1>3. Placed(i)'
  BY DEF RuntimeInd, TypeOK, Placed, WithProcess, FinishUnsaved, Closed, Drained, Goto, core, sched,
         sup
<1>4. Awaited(i)'
  BY DEF RuntimeInd, TypeOK, Awaited, WithProcess, FinishUnsaved, Closed, Drained, Goto, core, sched, sup
<1>5. Entered(i)'
  BY EnteredKept DEF RuntimeInd, TypeOK, FinishUnsaved, Closed, Drained, Goto, WithWork, core, sched, sup
<1>. QED  BY <1>1, <1>2, <1>3, <1>4, <1>5, FrameSound

(* ResetFailures preserves the invariant. *)
LEMMA ResetFailuresStep ==
    ASSUME RuntimeInd, NEW i \in Integrations, ResetFailures(i)
    PROVE  RuntimeInd'
<1>1. TypeOK'
  <2>1. row' \in [Integrations -> Rows]
    <3>1. row \in [Integrations -> Rows]
      BY DEF RuntimeInd, TypeOK, Rows
    <3>2. \A c \in Rows : [c EXCEPT !.failures = 0, !.nextRestart = None] \in Rows
      <4>1. 0 \in 0 .. MaxFailures
        BY RuntimeAssumption
      <4>. QED  BY <4>1 DEF Rows
    <3>. QED  BY <3>1, <3>2 DEF ResetFailures
  <2>. QED
    BY <2>1 DEF RuntimeInd, TypeOK, ResetFailures, ResetDue, Rows, core, sched, sup
<1>2. Frame(i)
  BY DEF RuntimeInd, TypeOK, Frame, Same, ResetFailures, core, sched, sup
<1>3. Placed(i)'
  BY DEF RuntimeInd, TypeOK, Placed, WithProcess, ResetFailures, core, sched, sup
<1>4. Awaited(i)'
  BY DEF RuntimeInd, TypeOK, Awaited, WithProcess, NoBackoff, ResetFailures, ResetDue, core, sched, sup
<1>5. Entered(i)'
  BY EnteredKept DEF RuntimeInd, TypeOK, ResetFailures, Goto, WithWork, core, sched, sup
<1>. QED  BY <1>1, <1>2, <1>3, <1>4, <1>5, FrameSound

(* ResetAborts preserves the invariant. *)
LEMMA ResetAbortsStep ==
    ASSUME RuntimeInd, NEW i \in Integrations, ResetAborts(i)
    PROVE  RuntimeInd'
<1>1. TypeOK'
  <2>1. count' \in Counts
    BY CountTyped DEF RuntimeInd, TypeOK, Counts, ResetAborts
  <2>. QED
    BY <2>1 DEF RuntimeInd, TypeOK, ResetAborts, ResetDue, Goto, Counts, core, sched, sup, Steps
<1>2. Frame(i)
  BY DEF RuntimeInd, TypeOK, Frame, Same, ResetAborts, Goto, core, sched, sup
<1>3. Placed(i)'
  BY DEF RuntimeInd, TypeOK, Placed, WithProcess, ResetAborts, ResetDue, Goto, core, sched, sup
<1>4. Awaited(i)'
  BY DEF RuntimeInd, TypeOK, Awaited, WithProcess, ResetAborts, ResetDue, Goto, core, sched, sup
<1>5. Entered(i)'
  BY EnteredKept DEF RuntimeInd, TypeOK, ResetAborts, ResetDue, Goto, WithWork, core, sched, sup
<1>. QED  BY <1>1, <1>2, <1>3, <1>4, <1>5, FrameSound

(* ProcessDies preserves the invariant. *)
LEMMA ProcessDiesStep ==
    ASSUME RuntimeInd, NEW i \in Integrations, ProcessDies(i)
    PROVE  RuntimeInd'
<1>1. TypeOK'
  BY RuntimeAssumption DEF RuntimeInd, TypeOK, ProcessDies, core, sched, sup, Steps, Phases, None
<1>2. Frame(i)
  BY DEF RuntimeInd, TypeOK, Frame, Same, ProcessDies, core, sched, sup
<1>3. Placed(i)'
  BY DEF RuntimeInd, TypeOK, Placed, WithProcess, ProcessDies, core, sched, sup
<1>4. Awaited(i)'
  BY DEF RuntimeInd, Awaited, ProcessDies, core, sched, sup
<1>5. Entered(i)'
  BY EnteredKept DEF RuntimeInd, TypeOK, ProcessDies, Goto, WithWork, core, sched, sup
<1>. QED  BY <1>1, <1>2, <1>3, <1>4, <1>5, FrameSound

-----------------------------------------------------------------------------
(* A step of one workload is sound if it keeps the triggers. *)
LEMMA WorkloadSound ==
    ASSUME RuntimeInd, NEW i \in Integrations, NEW k \in Workloads, NEW w \in Works,
           work' = [work EXCEPT ![i] = [work[i] EXCEPT ![k] = w]],
           NEW x \in Workloads \cup {None}, triggers' = [triggers EXCEPT ![i] = x],
           UNCHANGED <<clock, config, row, core, sup, current, backoff>>,
           count' \in Counts, asked' \subseteq Integrations, Entered(i)'
    PROVE  RuntimeInd'
<1>1. work' \in [Integrations -> [Workloads -> Works]]
  <2>1. work \in [Integrations -> [Workloads -> Works]]
    BY DEF RuntimeInd, TypeOK, Works
  <2>. QED  BY <2>1
<1>2. triggers' \in [Integrations -> Workloads \cup {None}]
  BY DEF RuntimeInd, TypeOK
<1>3. TypeOK'
  BY <1>1, <1>2 DEF RuntimeInd, TypeOK, Works, Counts, core, sup
<1>4. Frame(i)
  BY DEF RuntimeInd, TypeOK, Frame, Same, core, sup
<1>5. Placed(i)' /\ Awaited(i)'
  BY DEF RuntimeInd, Placed, Awaited, core, sup
<1>. QED  BY <1>3, <1>4, <1>5, FrameSound

(* So is one of a running workload that runs on. *)
LEMMA RunsOn ==
    ASSUME RuntimeInd, NEW i \in Integrations, NEW k \in Workloads, Running(i, k),
           NEW w \in Works, w.phase \notin {"off", "new"},
           work' = [work EXCEPT ![i] = [work[i] EXCEPT ![k] = w]],
           UNCHANGED <<clock, config, row, core, sup, current, triggers, backoff>>,
           count' \in Counts, asked' \subseteq Integrations
    PROVE  RuntimeInd'
<1>1. work \in [Integrations -> [Workloads -> Works]] /\ triggers[i] \in Workloads \cup {None}
      /\ current[i] \in Workloads
  BY DEF RuntimeInd, TypeOK, Works
<1>2. /\ work'[i][k] = w
      /\ \A l \in Workloads : l # k => work'[i][l] = work[i][l]
  BY <1>1
<1>3. /\ Running(i, current[i])' <=> Running(i, current[i])
      /\ triggers[i] # None => (Running(i, triggers[i])' <=> Running(i, triggers[i]))
      /\ \A l \in Workloads : (work[i][l].phase = "new")' <=> work[i][l].phase = "new"
  BY <1>1, <1>2 DEF Running
<1>4. Entered(i)'
  BY <1>3 DEF RuntimeInd, Entered, sup
<1>5. triggers' = [triggers EXCEPT ![i] = triggers[i]]
  BY DEF RuntimeInd, TypeOK
<1>. QED  BY <1>1, <1>4, <1>5, WorkloadSound

(* Register preserves the invariant. *)
LEMMA RegisterStep ==
    ASSUME RuntimeInd, NEW i \in Integrations, NEW k \in Workloads, Register(i, k)
    PROVE  RuntimeInd'
<1>1. work[i][k] \in Works /\ work \in [Integrations -> [Workloads -> Works]]
      /\ triggers \in [Integrations -> Workloads \cup {None}] /\ count \in Counts
  BY DEF RuntimeInd, TypeOK, Works, Counts
<1>2. PICK w : w = [work[i][k] EXCEPT !.phase = "idle"]
  OBVIOUS
<1>3. w \in Works /\ w.phase = "idle"
  BY <1>1, <1>2 DEF Works, Phases
<1>4. work' = [work EXCEPT ![i] = [work[i] EXCEPT ![k] = w]]
  BY <1>2 DEF Register
<1>5. work'[i][k] = w /\ \A l \in Workloads : l # k => work'[i][l] = work[i][l]
  BY <1>1, <1>4
<1>6. k = current[i] /\ triggers'[i] = k
  BY <1>1 DEF RuntimeInd, Entered, Register
<1>7. Entered(i)'
  BY <1>3, <1>5, <1>6 DEF RuntimeInd, Entered, Running, Register, sup
<1>. QED  BY <1>1, <1>3, <1>4, <1>7, WorkloadSound DEF Register, RuntimeInd, TypeOK

(* WorkReturns preserves the invariant. *)
LEMMA WorkReturnsStep ==
    ASSUME RuntimeInd, NEW i \in Integrations, NEW k \in Workloads, WorkReturns(i, k)
    PROVE  RuntimeInd'
<1>1. /\ work \in [Integrations -> [Workloads -> Works]] /\ count \in Counts
      /\ triggers \in [Integrations -> Workloads \cup {None}] /\ current[i] \in Workloads
  BY DEF RuntimeInd, TypeOK, Works, Counts
<1>2. Off \in Works /\ Off.phase = "off"
  BY DEF Off, Works, Phases
<1>3. work' = [work EXCEPT ![i] = [work[i] EXCEPT ![k] = Off]]
  BY DEF WorkReturns
<1>4. work'[i][k] = Off /\ \A l \in Workloads : l # k => work'[i][l] = work[i][l]
  BY <1>1, <1>3
<1>5. PICK x : x = IF triggers[i] = k THEN None ELSE triggers[i]
  OBVIOUS
<1>6. /\ x \in Workloads \cup {None} /\ triggers' = [triggers EXCEPT ![i] = x]
      /\ triggers'[i] = x
  BY <1>1, <1>5 DEF WorkReturns, OtherTrigger
<1>7. Entered(i)'
  <2>1. Running(i, current[i])' => triggers'[i] = current'[i]
    BY <1>1, <1>2, <1>4, <1>5, <1>6 DEF RuntimeInd, Entered, Running, WorkReturns
  <2>2. triggers'[i] # None => Running(i, triggers[i])'
    BY <1>1, <1>4, <1>5, <1>6 DEF RuntimeInd, Entered, Running
  <2>3. \A l \in Workloads : work'[i][l].phase = "new" => l = current'[i] /\ pc'[i] \in WithWork
    BY <1>1, <1>2, <1>4 DEF RuntimeInd, Entered, WorkReturns, sup
  <2>. QED  BY <2>1, <2>2, <2>3 DEF Entered
<1>8. asked' \subseteq Integrations
  BY DEF RuntimeInd, TypeOK, WorkReturns, Answered
<1>. QED  BY <1>1, <1>2, <1>3, <1>6, <1>7, <1>8, WorkloadSound DEF WorkReturns

(* TimerFires preserves the invariant. *)
LEMMA TimerFiresStep ==
    ASSUME RuntimeInd, NEW i \in Integrations, NEW k \in Workloads, TimerFires(i, k)
    PROVE  RuntimeInd'
<1>1. PICK w : w = Started(i, k)
  OBVIOUS
<1>2. w \in Works /\ w.phase \notin {"off", "new"}
  BY <1>1, StartedTyped DEF RuntimeInd, TimerFires
<1>3. work' = [work EXCEPT ![i] = [work[i] EXCEPT ![k] = w]]
  BY <1>1 DEF TimerFires
<1>4. count' \in Counts /\ asked' \subseteq Integrations
  BY DEF RuntimeInd, TypeOK, Counts, TimerFires
<1>. QED  BY <1>2, <1>3, <1>4, RunsOn DEF TimerFires

(* TakeTrigger preserves the invariant. *)
LEMMA TakeTriggerStep ==
    ASSUME RuntimeInd, NEW i \in Integrations, NEW k \in Workloads, TakeTrigger(i, k)
    PROVE  RuntimeInd'
<1>1. PICK w : w = [Started(i, k) EXCEPT !.trigger = FALSE]
  OBVIOUS
<1>2. w \in Works /\ w.phase \notin {"off", "new"}
  BY <1>1, StartedTyped DEF RuntimeInd, TakeTrigger
<1>3. work' = [work EXCEPT ![i] = [work[i] EXCEPT ![k] = w]]
  BY <1>1 DEF TakeTrigger
<1>4. count' \in Counts /\ asked' \subseteq Integrations
  BY DEF RuntimeInd, TypeOK, Counts, TakeTrigger
<1>. QED  BY <1>2, <1>3, <1>4, RunsOn DEF TakeTrigger

(* Acquire preserves the invariant. *)
LEMMA AcquireStep ==
    ASSUME RuntimeInd, NEW i \in Integrations, NEW k \in Workloads, Acquire(i, k)
    PROVE  RuntimeInd'
<1>1. PICK phase : phase = "collecting"
  OBVIOUS
<1>2. phase \in Phases \ {"off", "new"}
  BY <1>1 DEF Phases
<1>3. PICK w : w = [work[i][k] EXCEPT !.phase = phase]
  OBVIOUS
<1>4. w \in Works /\ w.phase = phase
  <2>1. work[i][k] \in Works
    BY DEF RuntimeInd, TypeOK, Works
  <2>. QED  BY <1>2, <1>3, <2>1 DEF Works
<1>5. work' = [work EXCEPT ![i] = [work[i] EXCEPT ![k] = w]]
  BY <1>1, <1>3 DEF Acquire
<1>6. count' \in Counts /\ asked' \subseteq Integrations
  BY DEF RuntimeInd, TypeOK, Counts, Acquire, Answered
<1>7. Running(i, k)
  BY DEF Running, Acquire
<1>. QED  BY <1>2, <1>4, <1>5, <1>6, <1>7, RunsOn DEF Acquire

(* AcquireCancelled preserves the invariant. *)
LEMMA AcquireCancelledStep ==
    ASSUME RuntimeInd, NEW i \in Integrations, NEW k \in Workloads, AcquireCancelled(i, k)
    PROVE  RuntimeInd'
<1>1. PICK phase : phase = "failed"
  OBVIOUS
<1>2. phase \in Phases \ {"off", "new"}
  BY <1>1 DEF Phases
<1>3. PICK w : w = [work[i][k] EXCEPT !.phase = phase]
  OBVIOUS
<1>4. w \in Works /\ w.phase = phase
  <2>1. work[i][k] \in Works
    BY DEF RuntimeInd, TypeOK, Works
  <2>. QED  BY <1>2, <1>3, <2>1 DEF Works
<1>5. work' = [work EXCEPT ![i] = [work[i] EXCEPT ![k] = w]]
  BY <1>1, <1>3 DEF AcquireCancelled
<1>6. count' \in Counts /\ asked' \subseteq Integrations
  BY DEF RuntimeInd, TypeOK, Counts, AcquireCancelled
<1>7. Running(i, k)
  BY DEF Running, AcquireCancelled
<1>. QED  BY <1>2, <1>4, <1>5, <1>6, <1>7, RunsOn DEF AcquireCancelled

(* CollectEnds preserves the invariant. *)
LEMMA CollectEndsStep ==
    ASSUME RuntimeInd, NEW i \in Integrations, NEW k \in Workloads, CollectEnds(i, k)
    PROVE  RuntimeInd'
<1>1. PICK phase \in {"succeeded", "failed"} : work' = [work EXCEPT ![i][k].phase = phase]
  BY DEF CollectEnds
<1>2. phase \in Phases \ {"off", "new"}
  BY <1>1 DEF Phases
<1>3. PICK w : w = [work[i][k] EXCEPT !.phase = phase]
  OBVIOUS
<1>4. w \in Works /\ w.phase = phase
  <2>1. work[i][k] \in Works
    BY DEF RuntimeInd, TypeOK, Works
  <2>. QED  BY <1>2, <1>3, <2>1 DEF Works
<1>5. work' = [work EXCEPT ![i] = [work[i] EXCEPT ![k] = w]]
  BY <1>1, <1>3 DEF CollectEnds
<1>6. count' \in Counts /\ asked' \subseteq Integrations
  BY DEF RuntimeInd, TypeOK, Counts, CollectEnds
<1>7. Running(i, k)
  BY DEF Running, CollectEnds
<1>. QED  BY <1>2, <1>4, <1>5, <1>6, <1>7, RunsOn DEF CollectEnds

(* CollectUnrecorded preserves the invariant. *)
LEMMA CollectUnrecordedStep ==
    ASSUME RuntimeInd, NEW i \in Integrations, NEW k \in Workloads, CollectUnrecorded(i, k)
    PROVE  RuntimeInd'
<1>1. PICK phase : phase = "failed"
  OBVIOUS
<1>2. phase \in Phases \ {"off", "new"}
  BY <1>1 DEF Phases
<1>3. PICK w : w = [work[i][k] EXCEPT !.phase = phase]
  OBVIOUS
<1>4. w \in Works /\ w.phase = phase
  <2>1. work[i][k] \in Works
    BY DEF RuntimeInd, TypeOK, Works
  <2>. QED  BY <1>2, <1>3, <2>1 DEF Works
<1>5. work' = [work EXCEPT ![i] = [work[i] EXCEPT ![k] = w]]
  BY <1>1, <1>3 DEF CollectUnrecorded
<1>6. count' \in Counts /\ asked' \subseteq Integrations
  BY CountTyped DEF RuntimeInd, TypeOK, Counts, CollectUnrecorded
<1>7. Running(i, k)
  BY DEF Running, CollectUnrecorded
<1>. QED  BY <1>2, <1>4, <1>5, <1>6, <1>7, RunsOn DEF CollectUnrecorded

(* CollectDone preserves the invariant. *)
LEMMA CollectDoneStep ==
    ASSUME RuntimeInd, NEW i \in Integrations, NEW k \in Workloads, CollectDone(i, k)
    PROVE  RuntimeInd'
<1>1. PICK phase : phase = IF work[i][k].pending THEN "queued" ELSE "idle"
  OBVIOUS
<1>2. phase \in Phases \ {"off", "new"}
  BY <1>1 DEF Phases
<1>3. PICK w : w = [work[i][k] EXCEPT !.phase = phase, !.pending = FALSE]
  OBVIOUS
<1>4. w \in Works /\ w.phase = phase
  <2>1. work[i][k] \in Works
    BY DEF RuntimeInd, TypeOK, Works
  <2>. QED  BY <1>2, <1>3, <2>1 DEF Works
<1>5. work' = [work EXCEPT ![i] = [work[i] EXCEPT ![k] = w]]
  BY <1>1, <1>3 DEF CollectDone
<1>6. count' \in Counts /\ asked' \subseteq Integrations
  BY DEF RuntimeInd, TypeOK, Counts, CollectDone
<1>7. Running(i, k)
  BY DEF Running, CollectDone
<1>. QED  BY <1>2, <1>4, <1>5, <1>6, <1>7, RunsOn DEF CollectDone

(* Request preserves the invariant. *)
LEMMA RequestStep ==
    ASSUME RuntimeInd, NEW i \in Integrations, Request(i)
    PROVE  RuntimeInd'
<1>1. PICK k : k = triggers[i]
  OBVIOUS
<1>2. k \in Workloads /\ Running(i, k)
  BY <1>1 DEF RuntimeInd, TypeOK, Entered, Request
<1>3. PICK w : w = [work[i][k] EXCEPT !.trigger = TRUE]
  OBVIOUS
<1>4. w \in Works /\ w.phase = work[i][k].phase
  <2>1. work[i][k] \in Works
    BY <1>2 DEF RuntimeInd, TypeOK, Works
  <2>. QED  BY <1>3, <2>1 DEF Works
<1>5. work' = [work EXCEPT ![i] = [work[i] EXCEPT ![k] = w]]
  BY <1>1, <1>3 DEF Request
<1>6. count' \in Counts
  <2>1. count \in Counts /\ count.requests + 1 \in 0 .. MaxRequests
    BY Typed, RuntimeAssumption DEF RuntimeInd, Request, Counts
  <2>2. \A c \in Counts : c.requests + 1 \in 0 .. MaxRequests =>
           [c EXCEPT !.requests = @ + 1] \in Counts
    BY DEF Counts
  <2>3. count' = [count EXCEPT !.requests = @ + 1]
    BY DEF Request
  <2>. QED  BY <2>1, <2>2, <2>3
<1>7. asked' \subseteq Integrations
  BY DEF RuntimeInd, TypeOK, Request
<1>8. UNCHANGED <<clock, config, row, core, sup, current, triggers, backoff>>
  BY DEF Request
<1>9. w.phase \notin {"off", "new"}
  BY <1>2, <1>4 DEF Running
<1>. QED  BY <1>2, <1>4, <1>5, <1>6, <1>7, <1>8, <1>9, RunsOn

-----------------------------------------------------------------------------
(* The coordinator's steps concern all integrations. *)
LEMMA ReconcileStep ==
    ASSUME RuntimeInd, Reconcile
    PROVE  RuntimeInd'
<1>1. TypeOK'
  <2>1. pc' \in [Integrations -> Steps]
    BY DEF RuntimeInd, TypeOK, Reconcile, Steps
  <2>. QED  BY <2>1 DEF RuntimeInd, TypeOK, Reconcile, Desired, sched
<1>2. ASSUME NEW j \in Integrations
      PROVE  Placed(j)' /\ Awaited(j)' /\ Entered(j)'
  <2>1. CASE j \in Desired \ managed
    <3>1. pc[j] = "none" /\ pc'[j] = "load" /\ j \in managed'
      BY <2>1 DEF RuntimeInd, Placed, Reconcile
    <3>2. Placed(j)' /\ Awaited(j)'
      BY <3>1 DEF RuntimeInd, Placed, Awaited, WithProcess, Reconcile
    <3>. QED  BY <3>1, <3>2, EnteredKept DEF Reconcile, WithWork
  <2>2. CASE j \notin Desired \ managed
    <3>1. pc'[j] = pc[j] /\ (j \in managed' <=> j \in managed)
      BY <2>2 DEF Reconcile
    <3>2. Placed(j)' /\ Awaited(j)'
      BY <3>1 DEF RuntimeInd, Placed, Awaited, Reconcile
    <3>. QED  BY <3>1, <3>2, EnteredKept DEF Reconcile
  <2>. QED  BY <2>1, <2>2
<1>. QED  BY <1>1, <1>2 DEF RuntimeInd

(* TakeRestart preserves the invariant. *)
LEMMA TakeRestartStep ==
    ASSUME RuntimeInd, TakeRestart
    PROVE  RuntimeInd'
<1>1. restarts' \in Seq(Integrations) /\ Len(restarts') <= RestartCapacity
  BY RuntimeAssumption DEF RuntimeInd, TypeOK, TakeRestart
<1>2. TypeOK'
  BY <1>1 DEF RuntimeInd, TypeOK, TakeRestart, sup, sched
<1>3. ASSUME NEW j \in Integrations
      PROVE  Entered(j)'
  BY EnteredKept DEF TakeRestart, sup
<1>. QED  BY <1>2, <1>3 DEF RuntimeInd, Placed, Awaited, TakeRestart, sup

(* Shutdown preserves the invariant. *)
LEMMA ShutdownStep ==
    ASSUME RuntimeInd, Shutdown
    PROVE  RuntimeInd'
<1>1. count' \in Counts
  BY CountTyped DEF RuntimeInd, Shutdown
<1>2. TypeOK'
  BY <1>1 DEF RuntimeInd, TypeOK, Shutdown, Counts, sup, sched
<1>3. ASSUME NEW j \in Integrations
      PROVE  Entered(j)'
  BY EnteredKept DEF Shutdown, sup
<1>. QED  BY <1>2, <1>3 DEF RuntimeInd, Placed, Awaited, Shutdown, sup

(* Whatever ends Core, only the tables are left, and nothing runs. *)
LEMMA VolatileSound ==
    ASSUME RuntimeInd, Volatile, UNCHANGED <<clock, config, row, backoff>>, count' \in Counts
    PROVE  RuntimeInd'
<1>1. /\ used' \in [Integrations -> -1 .. MaxVersion]
      /\ healthyAt' \in [Integrations -> Instants \cup {None}]
  BY RuntimeAssumption DEF Volatile, None
<1>2. /\ pc' \in [Integrations -> Steps] /\ process' \in [Integrations -> {"none", "alive", "dead"}]
      /\ work' \in [Integrations -> [Workloads -> Works]]
      /\ current' \in [Integrations -> Workloads] /\ triggers' \in [Integrations -> Workloads \cup {None}]
  BY RuntimeAssumption DEF Volatile, Steps, Works, Off, Phases, Workloads
<1>3. restarts' \in Seq(Integrations) /\ Len(restarts') <= RestartCapacity
  BY RuntimeAssumption DEF Volatile
<1>4. TypeOK'
  BY <1>1, <1>2, <1>3 DEF RuntimeInd, TypeOK, Volatile, Works, Counts
<1>5. ASSUME NEW j \in Integrations
      PROVE  Placed(j)' /\ Awaited(j)' /\ Entered(j)'
  <2>1. Placed(j)' /\ Awaited(j)'
    BY DEF RuntimeInd, Placed, Awaited, Volatile, WithProcess
  <2>2. /\ \A k \in Workloads : work'[j][k].phase = "off"
        /\ triggers'[j] = None /\ current'[j] \in Workloads
    BY <1>2 DEF Volatile, Off
  <2>. QED  BY <2>1, <2>2 DEF Entered, Running
<1>. QED  BY <1>4, <1>5 DEF RuntimeInd

(* Boot preserves the invariant. *)
LEMMA BootStep ==
    ASSUME RuntimeInd, Boot
    PROVE  RuntimeInd'
BY VolatileSound DEF Boot, RuntimeInd, TypeOK, Counts

(* Crash preserves the invariant. *)
LEMMA CrashStep ==
    ASSUME RuntimeInd, Crash
    PROVE  RuntimeInd'
BY VolatileSound, CountTyped DEF Crash, RuntimeInd

(* Tick preserves the invariant. *)
LEMMA TickStep ==
    ASSUME RuntimeInd, Tick
    PROVE  RuntimeInd'
<1>1. clock' \in Instants /\ clock <= clock'
  BY RuntimeAssumption DEF RuntimeInd, TypeOK, Tick, Instants
<1>2. TypeOK'
  BY <1>1 DEF RuntimeInd, TypeOK, Tick, core, sup, sched
<1>3. ASSUME NEW j \in Integrations
      PROVE  Awaited(j)'
  BY <1>1, <1>3 DEF RuntimeInd, TypeOK, Awaited, Instants, Tick, sup
<1>4. ASSUME NEW j \in Integrations
      PROVE  Entered(j)'
  BY <1>4, EnteredKept DEF Tick, sup
<1>. QED  BY <1>2, <1>3, <1>4 DEF RuntimeInd, Placed, Tick, core, sup

(* A stuttering step preserves the invariant. *)
LEMMA StutterSound ==
    ASSUME RuntimeInd, UNCHANGED vars
    PROVE  RuntimeInd'
<1>1. TypeOK'
  BY DEF RuntimeInd, TypeOK, vars, core, sup, sched
<1>2. ASSUME NEW j \in Integrations
      PROVE  Entered(j)'
  BY EnteredKept DEF vars, sup
<1>. QED  BY <1>1, <1>2 DEF RuntimeInd, Placed, Awaited, vars, core, sup

(* The invariant holds initially. *)
LEMMA InitSound == Init => RuntimeInd
<1>. SUFFICES ASSUME Init PROVE RuntimeInd
  OBVIOUS
<1>1. /\ NoRow \in Rows /\ Off \in Works /\ NoBackoff \in Backoffs
      /\ [requests |-> 0, faults |-> 0] \in Counts /\ 0 \in Instants
  BY RuntimeAssumption DEF NoRow, Rows, Off, Works, Phases, NoBackoff, Backoffs, Counts, Instants
<1>2. config \in [Integrations -> Configs]
  <2>1. [typed: BOOLEAN, enabled: BOOLEAN, version: {0}] \subseteq Configs
    BY RuntimeAssumption DEF Configs
  <2>. QED  BY <2>1 DEF Init
<1>3. /\ row \in [Integrations -> Rows] /\ work \in [Integrations -> [Workloads -> Works]]
      /\ current \in [Integrations -> Workloads] /\ triggers \in [Integrations -> Workloads \cup {None}]
      /\ backoff \in [Integrations -> Backoffs] /\ count \in Counts /\ clock \in Instants
  BY <1>1, RuntimeAssumption DEF Init, Workloads
<1>4. /\ used \in [Integrations -> -1 .. MaxVersion]
      /\ healthyAt \in [Integrations -> Instants \cup {None}]
      /\ restarts \in Seq(Integrations) /\ Len(restarts) <= RestartCapacity
  BY RuntimeAssumption DEF Init, None
<1>5. TypeOK
  BY <1>2, <1>3, <1>4 DEF Init, TypeOK, Rows, Works, Backoffs, Counts, Configs, Steps
<1>6. ASSUME NEW i \in Integrations
      PROVE  Placed(i) /\ Awaited(i) /\ Entered(i)
  <2>1. Placed(i) /\ Awaited(i)
    BY DEF Init, Placed, Awaited, WithProcess, NoBackoff
  <2>2. /\ \A k \in Workloads : work[i][k].phase = "off"
        /\ triggers[i] = None /\ current[i] \in Workloads
    BY <1>3 DEF Init, Off
  <2>. QED  BY <2>1, <2>2 DEF Entered, Running
<1>. QED  BY <1>5, <1>6 DEF RuntimeInd

(* Every step preserves the invariant. *)
LEMMA NextStep ==
    ASSUME RuntimeInd, Next
    PROVE  RuntimeInd'
<1>1. ASSUME NEW i \in Integrations,
             NEW e \in BOOLEAN, SaveMonitor(i, e) \/ UpdateIntegration(i, e)
      PROVE  RuntimeInd'
  BY <1>1, SaveMonitorStep, UpdateIntegrationStep
<1>2. ASSUME NEW i \in Integrations, Supervise(i)
      PROVE  RuntimeInd'
  BY <1>2, LoadStep, LoadDisabledStep, WaitStep, WaitCancelledStep, MarkStartingStep,
     StartSessionStep, StartSessionFailsStep, StartSessionCancelledStep, RecordHealthyStep,
     AnnounceStep, AbortStep, BeginStopStep, BeginFailStep, FinishStopStep, FinishFailStep,
     FinishUnsavedStep, ResetFailuresStep, ResetAbortsStep
     DEF Supervise
<1>3. ASSUME NEW i \in Integrations, NEW k \in Workloads,
             \/ Schedule(i, k) \/ TimerFires(i, k) \/ Acquire(i, k)
             \/ CollectEnds(i, k) \/ CollectUnrecorded(i, k)
      PROVE  RuntimeInd'
  BY <1>3, RegisterStep, TakeTriggerStep, AcquireCancelledStep, CollectDoneStep, WorkReturnsStep,
     TimerFiresStep, AcquireStep, CollectEndsStep, CollectUnrecordedStep DEF Schedule
<1>4. ASSUME NEW i \in Integrations,
             Restart(i) \/ TakeExit(i) \/ ProcessDies(i) \/ Request(i)
      PROVE  RuntimeInd'
  BY <1>4, RestartStep, TakeExitStep, ProcessDiesStep, RequestStep
<1>. QED
  BY <1>1, <1>2, <1>3, <1>4, ReconcileStep, TakeRestartStep, ShutdownStep, BootStep, CrashStep,
     TickStep DEF Next

(* The inductive invariant holds throughout. *)
THEOREM RuntimeIndHolds == Spec => []RuntimeInd
<1>1. Init => RuntimeInd
  BY InitSound
<1>2. RuntimeInd /\ [Next]_vars => RuntimeInd'
  BY NextStep, StutterSound
<1>. QED  BY <1>1, <1>2, PTL DEF Spec

(* "Exactly one owner", for any integrations and limits: an adapter process
   belongs to a run the coordinator knows and to a row that says so, and a run
   that is over left none; a trigger belongs to a workload that runs, and to
   that of the last session as long as it does, though drain timers leave
   others behind; through cancellations, failing stores and crashes of Core. *)
THEOREM RuntimeSafe == Spec => []RuntimeInv
<1>1. RuntimeInd => ProcessOwned
  BY DEF RuntimeInd, Placed, ProcessOwned, WithProcess
<1>2. RuntimeInd => TriggerKept
  BY DEF RuntimeInd, Entered, TriggerKept
<1>3. RuntimeInd => RuntimeInv
  BY <1>1, <1>2 DEF RuntimeInd, RuntimeInv
<1>. QED  BY <1>3, RuntimeIndHolds, PTL

-----------------------------------------------------------------------------
(* What one step may do to the row of i: start its adapter after the backoff,
   forgive failures after a healthy period. *)
Kept(i) ==
    /\ Starts(i) => (backoff[i].until <= clock \/ backoff[i].lifted)
    /\ row'[i].failures < row[i].failures =>
          healthyAt[i] # None /\ Later(healthyAt[i], HealthyReset) <= clock

(* A step that leaves the row alone keeps its backoff. *)
LEMMA RowKept ==
    ASSUME RuntimeInd, NEW j \in Integrations, row'[j] = row[j]
    PROVE  Kept(j)
BY DEF RuntimeInd, TypeOK, Kept, Starts

(* So does one that marks a row anything but starting. *)
LEMMA MarkedKept ==
    ASSUME RuntimeInd, NEW i \in Integrations, NEW j \in Integrations, NEW state, NEW next,
           state # "starting", Marked(i, state, next)
    PROVE  Kept(j)
BY DEF RuntimeInd, TypeOK, Marked, Kept, Starts

(* A failure never lowers the count of failures. *)
LEMMA FailedKept ==
    ASSUME RuntimeInd, NEW i \in Integrations, NEW j \in Integrations, MarkFailed(i)
    PROVE  Kept(j)
<1>1. PICK n \in row[i].failures .. MaxFailures, next \in Instants :
         row' = [row EXCEPT ![i] = [state |-> "unhealthy", failures |-> n, nextRestart |-> next]]
  BY FailureStored DEF RuntimeInd
<1>. QED  BY <1>1 DEF RuntimeInd, TypeOK, Kept, Starts

(* A row is marked starting once its backoff is over or lifted. *)
LEMMA MarkStartingKept ==
    ASSUME RuntimeInd, NEW i \in Integrations, NEW j \in Integrations, MarkStarting(i)
    PROVE  Kept(j)
<1>1. CASE row' = row
  BY <1>1, RowKept
<1>2. CASE row' # row
  <2>1. Marked(i, "starting", row[i].nextRestart)
    BY <1>2 DEF MarkStarting
  <2>2. backoff[i].until <= clock \/ backoff[i].lifted
    BY DEF RuntimeInd, Awaited, MarkStarting
  <2>. QED  BY <2>1, <2>2 DEF RuntimeInd, TypeOK, Marked, Kept, Starts
<1>. QED  BY <1>1, <1>2

(* Failures are forgiven after the healthy period. *)
LEMMA ResetKept ==
    ASSUME RuntimeInd, NEW i \in Integrations, NEW j \in Integrations, ResetFailures(i)
    PROVE  Kept(j)
BY DEF RuntimeInd, TypeOK, ResetFailures, ResetDue, Kept, Starts

(* Only supervisors write rows. *)
LEMMA RowsOfSupervisors ==
    ASSUME [Next]_vars, row' # row
    PROVE  \E i \in Integrations : Supervise(i)
<1>1. ~UNCHANGED vars
  BY DEF vars
<1>2. ASSUME NEW i \in Integrations, NEW k \in Workloads
      PROVE  ~(\/ TimerFires(i, k) \/ Schedule(i, k) \/ Acquire(i, k)
               \/ CollectEnds(i, k) \/ CollectUnrecorded(i, k))
  BY DEF TimerFires, Schedule, Register, TakeTrigger, Acquire, AcquireCancelled, CollectEnds,
         CollectUnrecorded, CollectDone, WorkReturns
<1>3. ASSUME NEW i \in Integrations, NEW e \in BOOLEAN
      PROVE  ~(SaveMonitor(i, e) \/ UpdateIntegration(i, e))
  BY DEF SaveMonitor, UpdateIntegration
<1>4. ASSUME NEW i \in Integrations
      PROVE  ~(Restart(i) \/ TakeExit(i) \/ ProcessDies(i) \/ Request(i))
  BY DEF Restart, TakeExit, ProcessDies, Request
<1>5. ~(Reconcile \/ TakeRestart \/ Shutdown \/ Boot \/ Crash \/ Tick)
  BY DEF Reconcile, TakeRestart, Shutdown, Boot, Crash, Tick
<1>. QED  BY <1>1, <1>2, <1>3, <1>4, <1>5 DEF Next

(* A restart waits for the end of the backoff its last failure earned, unless
   the row was stopped since, and failures are forgiven only after a healthy
   period: also through crashes of Core, for any integrations and delays. *)
THEOREM BackoffHeld == Spec => BackoffKept
<1>1. ASSUME RuntimeInd, [Next]_vars, NEW j \in Integrations
      PROVE  Kept(j)
  <2>1. CASE row' = row
    BY <1>1, <2>1, RowKept
  <2>2. CASE row' # row
    <3>1. PICK i \in Integrations :
             \/ LoadDisabled(i) \/ WaitCancelled(i) \/ MarkStarting(i) \/ StartSessionFails(i)
             \/ StartSessionCancelled(i) \/ RecordHealthy(i) \/ FinishStop(i) \/ FinishFail(i)
             \/ ResetFailures(i)
      <4>1. PICK i \in Integrations : Supervise(i)
        BY <1>1, <2>2, RowsOfSupervisors
      <4>. QED
        BY <2>2, <4>1 DEF Supervise, Load, Wait, StartSession, Announce, Abort, BeginStop,
           BeginFail, FinishUnsaved, ResetAborts
    <3>2. CASE MarkStarting(i)
      BY <1>1, <3>2, MarkStartingKept
    <3>3. CASE ResetFailures(i)
      BY <1>1, <3>3, ResetKept
    <3>4. CASE StartSessionFails(i) \/ FinishFail(i)
      BY <1>1, <3>4, FailedKept DEF StartSessionFails, FinishFail
    <3>5. CASE RecordHealthy(i)
      BY <1>1, <3>5, MarkedKept DEF RecordHealthy, MarkHealthy
    <3>6. CASE LoadDisabled(i) \/ WaitCancelled(i) \/ StartSessionCancelled(i) \/ FinishStop(i)
      BY <1>1, <2>2, <3>6, MarkedKept
         DEF LoadDisabled, WaitCancelled, StartSessionCancelled, FinishStop, MarkStopped
    <3>. QED  BY <3>1, <3>2, <3>3, <3>4, <3>5, <3>6
  <2>. QED  BY <2>1, <2>2
<1>2. RuntimeInd /\ [Next]_vars => [\A i \in Integrations : Kept(i)]_vars
  BY <1>1
<1>3. [][\A i \in Integrations : Kept(i)]_vars => BackoffKept
  <2>1. [\A i \in Integrations : Kept(i)]_vars =>
          [\A i \in Integrations :
             /\ Starts(i) => (backoff[i].until <= clock \/ backoff[i].lifted)
             /\ row'[i].failures < row[i].failures =>
                   healthyAt[i] # None /\ Later(healthyAt[i], HealthyReset) <= clock]_vars
    BY DEF Kept
  <2>. QED  BY <2>1, PTL DEF BackoffKept
<1>. QED  BY <1>2, <1>3, RuntimeIndHolds, PTL DEF Spec
=============================================================================
