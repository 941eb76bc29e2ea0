--------------------------- MODULE IncidentEngine ---------------------------
(***************************************************************************)
(* The incident rule engine (core/internal/incidents/evaluator.go) with    *)
(* what it interacts with: observations and freshness lapses that journal  *)
(* signals, maintenance windows (core/internal/suppressions), operators    *)
(* (workflow.go) and administrators who replace rules (rules.go).          *)
(*                                                                         *)
(* One check of one resource is modelled; rules, rule states and incidents *)
(* of different checks do not share a row.  The journal hands out every    *)
(* signal, once, in an order that retries and concurrent workers may turn  *)
(* around (SignalJournal): here any pending signal may be processed next.  *)
(* processSignal and processOneDue are one transaction each, under the row *)
(* lock of the rule state, so each is one step.                            *)
(***************************************************************************)
EXTENDS Integers, Sequences, FiniteSets, FiniteSetsExt

CONSTANTS
    Scenarios,   \* Scenarios[n]: what an instance of the check can be, a record as below
    NoCode,      \* an observation without a reason code
    StaleAfter,  \* refresh interval and grace, in clock units
    UnknownAfter,  \* three refresh intervals, and at least StaleAfter
    Horizon      \* bound on the clock: instants past it are the horizon

ASSUME EngineAssumption ==
    /\ {StaleAfter, UnknownAfter, Horizon} \subseteq Nat
    /\ 0 < StaleAfter /\ StaleAfter <= UnknownAfter
    /\ \A n \in DOMAIN Scenarios : LET sc == Scenarios[n] IN
         /\ sc.rules \subseteq Nat
         /\ sc.created \in [sc.rules -> sc.policies]
         /\ sc.certificate \in BOOLEAN
         /\ sc.windows \subseteq [starts: 0 .. Horizon, ends: 0 .. Horizon,
                                  scope: {"wide", "narrow", "elsewhere"}]
         /\ \A w \in sc.windows : w.starts < w.ends
         /\ \A p \in sc.policies :
              /\ p.rank \in Nat
              /\ p.recovery \notin DOMAIN p.condition
              /\ p.recoveryMin \in Nat \ {0} /\ p.recoveryFor \in Nat
              /\ \A state \in DOMAIN p.condition :
                   p.condition[state] \in [severity: {"warning", "critical"}, min: Nat \ {0}, for: Nat]
         /\ {sc.skew, sc.lag, sc.maxObserved, sc.maxPolicyChanges, sc.maxWindowChanges}
               \subseteq Nat

VARIABLES
    scenario,  \* the instance: chosen at the start, never changed
    clock,     \* the wall clock
    policy,    \* policy[r]: the incident_rules and incident_rule_conditions rows
    observed,  \* accepted observations
    health,    \* current_health.state, "none" while there is no row
    pending,   \* journalled signals still to be processed
    rs,        \* rs[r]: the incident_rule_states row
    inc,       \* the incidents, in order of creation
    window,    \* the maintenance window
    hist,      \* hist[r]: what rule r was shown, in order (history)
    changes    \* rule replacements and window mutations so far

vars == <<scenario, clock, policy, observed, health, pending, rs, inc, window, hist, changes>>

Rules == Scenarios[scenario].rules                  \* rules, by their identifiers
Created == Scenarios[scenario].created              \* Created[r]: the rule as it was created
Codes == Scenarios[scenario].codes                  \* reason codes of observations, or NoCode
Certificate == Scenarios[scenario].certificate      \* TRUE if the check is certificate.validity
States == Scenarios[scenario].states                \* observed states
Policies == Scenarios[scenario].policies            \* what a rule can be replaced with
Windows == Scenarios[scenario].windows              \* intervals a maintenance window can be given
Skew == Scenarios[scenario].skew                    \* how far ahead an observation may be dated (maxFutureSkew)
Lag == Scenarios[scenario].lag                      \* bound on the age of the instant a worker read for its batch
MaxObserved == Scenarios[scenario].maxObserved      \* bound on the number of observations
MaxPolicyChanges == Scenarios[scenario].maxPolicyChanges  \* bound on the number of rule replacements
MaxWindowChanges == Scenarios[scenario].maxWindowChanges  \* bound on the number of window mutations

-----------------------------------------------------------------------------
None == -1
Instants == 0 .. Horizon
MaybeInstant == Instants \cup {None}
Later(t, d) == IF t + d < Horizon THEN t + d ELSE Horizon

Recovery == "healthy"
AllStates == States \cup {"stale", "unknown"}
Statuses == {"open", "acknowledged", "investigating", "recovered", "resolved"}
Severities == {"warning", "critical"}

(* Observations are unique by (resource, check, observed_at); freshness and
   maintenance signals by their source_key. *)
Signals == [kind: {"observation", "freshness", "maintenance_expiry"},
            state: AllStates, code: Codes \cup {NoCode}, at: Instants, avail: Instants]
NoSignal == [kind |-> "none", state |-> "none", code |-> NoCode, at |-> None, avail |-> None]

NewRuleState ==
    [active |-> 0, last |-> NoSignal, lastAt |-> None, lastState |-> "none",
     lastCode |-> NoCode, matchingSince |-> None, matching |-> 0,
     recoverySince |-> None, recovering |-> 0, deadline |-> None]

NoWindow == [starts |-> None, ends |-> None, scope |-> "elsewhere",
             revoked |-> FALSE, expired |-> TRUE, signalled |-> {}]

(* An entry of a rule's history: an evaluated signal as the rule classed it,
   or a break in what it was shown. *)
Break == [class |-> "break", state |-> "none", at |-> None]

TypeOK ==
    /\ scenario \in DOMAIN Scenarios
    /\ clock \in Instants
    /\ policy \in [Rules -> Policies]
    /\ observed \subseteq Signals
    /\ health \in AllStates \cup {"none"}
    /\ pending \subseteq Signals
    /\ \A r \in Rules :
         /\ rs[r].active \in 0 .. Len(inc)
         /\ rs[r].last \in Signals \cup {NoSignal}
         /\ rs[r].lastState \in AllStates \cup {"none", "maintenance"}
         /\ {rs[r].lastAt, rs[r].matchingSince, rs[r].recoverySince, rs[r].deadline}
               \subseteq MaybeInstant
         /\ rs[r].matching \in Nat /\ rs[r].recovering \in Nat
    /\ \A i \in 1 .. Len(inc) :
         /\ inc[i].rule \in Rules /\ inc[i].status \in Statuses
         /\ inc[i].severity \in Severities
    /\ window.starts \in MaybeInstant /\ window.ends \in MaybeInstant

Init ==
    /\ scenario \in DOMAIN Scenarios
    /\ clock = 0
    /\ policy = Created
    /\ observed = {}
    /\ health = "none"
    /\ pending = {}
    /\ rs = [r \in Rules |-> NewRuleState]
    /\ inc = <<>>
    /\ window = NoWindow
    /\ hist = [r \in Rules |-> <<>>]
    /\ changes = [policies |-> 0, windows |-> 0]

-----------------------------------------------------------------------------
(* Producers of signals. *)

(* latestObservation, and health.Evaluate of it at instant now: an observation
   that is not refreshed turns stale and later unknown. *)
Latest(obs) == CHOOSE o \in obs : \A p \in obs : p.at <= o.at

HealthOf(o, now) ==
    CASE o.state = "unknown" \/ now >= o.at + UnknownAfter -> "unknown"
      [] o.state # "unknown" /\ o.at + StaleAfter <= now /\ now < o.at + UnknownAfter -> "stale"
      [] OTHER -> o.state

(* Ingestion: a new observation, dated up to Skew ahead and perhaps older than
   others, is journalled; the current health is evaluated anew, from the newest
   observation and the present instant. *)
Observe(state, code, at) ==
    LET s == [kind |-> "observation", state |-> state, code |-> code,
               at |-> at, avail |-> clock] IN
    /\ Cardinality(observed) < MaxObserved
    /\ at <= clock + Skew
    /\ \A o \in observed : o.at # at
    /\ observed' = observed \cup {s}
    /\ pending' = pending \cup {s}
    /\ health' = HealthOf(Latest(observed'), clock)
    /\ UNCHANGED <<scenario, clock, policy, rs, inc, window, hist, changes>>

(* Ingestion of an observation that is already stored: no signal, but the
   current health is evaluated anew as well. *)
ObserveAgain ==
    /\ observed # {}
    /\ health' = HealthOf(Latest(observed), clock)
    /\ UNCHANGED <<scenario, clock, policy, observed, pending, rs, inc, window, hist, changes>>

(* RefreshDue: the freshness worker finds the newest observation too old for
   the state that is stored. *)
FreshnessLapses ==
    LET latest == Latest(observed)
        lapsed == HealthOf(latest, clock) IN
    /\ observed # {}
    /\ \/ health \notin {"stale", "unknown"} /\ latest.at + StaleAfter <= clock
       \/ health = "stale" /\ latest.at + UnknownAfter <= clock
    /\ health' = lapsed
    /\ pending' = pending \cup {[kind |-> "freshness", state |-> lapsed,
                                 code |-> NoCode, at |-> clock, avail |-> clock]}
    /\ UNCHANGED <<scenario, clock, policy, observed, rs, inc, window, hist, changes>>

(* Variant: the window ends silently. *)
NoExitSignals(at) == {}

(* appendExitSignals: the current health as a signal of instant at, without a
   reason code. *)
ExitSignals(at) ==
    IF health = "none" THEN {}
    ELSE {[kind |-> "maintenance_expiry", state |-> health, code |-> NoCode,
           at |-> at, avail |-> at]}

-----------------------------------------------------------------------------
(* Maintenance windows. *)

(* maintenanceActive, and the WHERE clause of activeMaintenance.  The scope is
   wide or narrow when it includes the check; a disabled window is one whose
   scope is elsewhere. *)
InMaintenance(at) ==
    /\ ~window.revoked /\ window.scope # "elsewhere"
    /\ window.starts <= at /\ at < window.ends

CountWindowChange ==
    /\ changes.windows < MaxWindowChanges
    /\ changes' = [changes EXCEPT !.windows = @ + 1]

CreateMaintenance(w) ==
    /\ window = NoWindow
    /\ CountWindowChange
    /\ window' = [starts |-> w.starts, ends |-> w.ends, scope |-> w.scope,
                  revoked |-> FALSE, expired |-> FALSE, signalled |-> {}]
    /\ UNCHANGED <<scenario, clock, policy, observed, health, pending, rs, inc, hist>>

(* mutateMaintenance, replace: exit signals only if the window was active and
   is no longer, or has another scope; the new interval starts unexpired. *)
ReplaceMaintenance(w) ==
    /\ window # NoWindow /\ ~window.revoked
    /\ CountWindowChange
    /\ window' = [window EXCEPT !.starts = w.starts, !.ends = w.ends,
                                !.scope = w.scope, !.expired = FALSE]
    /\ pending' = IF /\ InMaintenance(clock)
                     /\ ~(w.starts <= clock /\ clock < w.ends) \/ w.scope # window.scope
                  THEN pending \cup ExitSignals(clock) ELSE pending
    /\ UNCHANGED <<scenario, clock, policy, observed, health, rs, inc, hist>>

(* revoke, for a maintenance window. *)
RevokeMaintenance ==
    /\ window # NoWindow /\ ~window.revoked
    /\ CountWindowChange
    /\ window' = [window EXCEPT !.revoked = TRUE]
    /\ pending' = IF InMaintenance(clock) THEN pending \cup ExitSignals(clock) ELSE pending
    /\ UNCHANGED <<scenario, clock, policy, observed, health, rs, inc, hist>>

(* expireWindow, of the suppression worker.  The source key of its signals
   names the end of the window: a second expiry at the same end adds nothing. *)
ExpireWindow ==
    LET signals == IF \/ window.revoked \/ window.scope = "elsewhere"
                      \/ window.ends \in window.signalled
                   THEN {} ELSE ExitSignals(window.ends) IN
    /\ ~window.expired /\ window.ends <= clock
    /\ window' = [window EXCEPT !.expired = TRUE,
                                !.signalled = @ \cup {s.at : s \in signals}]
    /\ pending' = pending \cup signals
    /\ UNCHANGED <<scenario, clock, policy, observed, health, rs, inc, hist, changes>>

-----------------------------------------------------------------------------
(* Rules. *)

(* Replace: the rule row, with its scope and priority, and its conditions; rule
   states and incidents stay.  Of the scope there are the reason codes the rule is
   restricted to; the rank is what matchingRule orders by, how specific the scope
   is and then the priority. *)
ReplaceRule(r, p) ==
    /\ changes.policies < MaxPolicyChanges
    /\ policy[r] # p
    /\ policy' = [policy EXCEPT ![r] = p]
    /\ changes' = [changes EXCEPT !.policies = @ + 1]
    /\ UNCHANGED <<scenario, clock, observed, health, pending, rs, inc, window, hist>>

MatchesRule(r, s) == policy[r].enabled /\ s.code \in policy[r].codes

(* matchingRule: the winner among the enabled rules in whose scope s is. *)
MatchingRules(s) == {r \in Rules : MatchesRule(r, s)}

HasCondition(r, s) == s.state \in DOMAIN policy[r].condition
Condition(r, s) == policy[r].condition[s.state]

(* Variant: a run of evidence goes on whatever its state. *)
GoesOnAnyway(st, s, since) == since # None

(* state.LastState == signal.State and a run has begun. *)
GoesOn(st, s, since) == st.lastState = s.state /\ since # None

(* Variant: one signal too few. *)
MetEarly(since, count, min) == since # None /\ count + 1 >= min

Met(since, count, min) == since # None /\ count >= min

(* Variant: the deadline is not stored. *)
NeverDue(met, now, due) == None

(* The deadline that is left when only time is missing. *)
DueAt(met, now, due) == IF met /\ now < due THEN due ELSE None

(* evaluate: the rule state after signal s, and what is to be done about the
   incident.  A deadline evaluation counts nothing. *)
EvaluateRecovery(r, st, s, now, deadline) ==
    LET goesOn == GoesOn(st, s, st.recoverySince)
        since == IF deadline \/ goesOn THEN st.recoverySince ELSE s.at
        count == IF deadline THEN st.recovering ELSE IF goesOn THEN st.recovering + 1 ELSE 1
        met == Met(since, count, policy[r].recoveryMin)
        due == Later(since, policy[r].recoveryFor) IN
    [state |-> [st EXCEPT !.matchingSince = None, !.matching = 0,
                          !.recoverySince = since, !.recovering = count,
                          !.deadline = DueAt(met, now, due)],
     verdict |-> IF met /\ now >= due THEN "recover" ELSE "wait"]

EvaluateFailure(r, st, s, now, deadline) ==
    LET goesOn == GoesOn(st, s, st.matchingSince)
        since == IF deadline \/ goesOn THEN st.matchingSince ELSE s.at
        count == IF deadline THEN st.matching ELSE IF goesOn THEN st.matching + 1 ELSE 1
        met == Met(since, count, Condition(r, s).min)
        due == Later(since, Condition(r, s).for) IN
    [state |-> [st EXCEPT !.recoverySince = None, !.recovering = 0,
                          !.matchingSince = since, !.matching = count,
                          !.deadline = DueAt(met, now, due)],
     verdict |-> IF met /\ now >= due THEN "fail" ELSE "wait"]

ClearedState(st) ==
    [st EXCEPT !.matchingSince = None, !.matching = 0,
               !.recoverySince = None, !.recovering = 0, !.deadline = None]

Evaluate(r, st, s, now, deadline) ==
    CASE s.state = policy[r].recovery -> EvaluateRecovery(r, st, s, now, deadline)
      [] s.state # policy[r].recovery /\ HasCondition(r, s) ->
            EvaluateFailure(r, st, s, now, deadline)
      [] OTHER -> [state |-> ClearedState(st), verdict |-> "wait"]

-----------------------------------------------------------------------------
(* Incidents.  A timeline entry is the status and severity it led to and the
   status it came from. *)
Entry(from, to, severity) == [from |-> from, to |-> to, severity |-> severity]

Unresolved(r) == {i \in 1 .. Len(inc) : inc[i].rule = r /\ inc[i].status # "resolved"}

MaxOf(a, b) == IF a > b THEN a ELSE b

(* openOrUpdateIncident: the incident with id i after failing signal s. *)
UpdatedIncident(i, r, st, s) ==
    LET old == inc[i]
        severity == Condition(r, s).severity
        seen == [old EXCEPT !.latest = MaxOf(@, s.at)]
        newCode == Certificate /\ NoCode \notin {s.code, st.lastCode} /\ s.code # st.lastCode IN
    CASE old.status = "recovered" ->
            [seen EXCEPT !.status = "open", !.severity = severity, !.recovered = None,
                         !.timeline = Append(@, Entry("recovered", "open", severity))]
      [] old.status # "recovered" /\ old.severity # severity ->
            [seen EXCEPT !.severity = severity,
                         !.timeline = Append(@, Entry(old.status, old.status, severity))]
      [] old.status # "recovered" /\ old.severity = severity /\ newCode ->
            [seen EXCEPT !.timeline = Append(@, Entry(old.status, old.status, severity))]
      [] OTHER -> seen

NewIncident(r, s) ==
    [rule |-> r, status |-> "open", severity |-> Condition(r, s).severity,
     detected |-> s.at, latest |-> s.at, recovered |-> None, resolved |-> None,
     timeline |-> <<Entry("none", "open", Condition(r, s).severity)>>]

(* Variant: the entry says that the incident was open. *)
RecoveredFromOpen(i, s) ==
    [inc[i] EXCEPT !.status = "recovered", !.recovered = s.at, !.latest = MaxOf(@, s.at),
                   !.timeline = Append(@, Entry("open", "recovered", inc[i].severity))]

(* recoverIncident: the incident with id i after the recovery. *)
RecoveredIncident(i, s) ==
    [inc[i] EXCEPT !.status = "recovered", !.recovered = s.at, !.latest = MaxOf(@, s.at),
                   !.timeline = Append(@, Entry(inc[i].status, "recovered", inc[i].severity))]

(* openOrUpdateIncident and recoverIncident: the incidents and the active
   pointer after a verdict.  The insert's conflict clause adopts an unresolved
   incident the pointer lost. *)
Decided(r, st, s, verdict) ==
    CASE verdict = "fail" /\ st.active = 0 /\ Unresolved(r) = {} ->
            [inc |-> Append(inc, NewIncident(r, s)), active |-> Len(inc) + 1]
      [] verdict = "fail" /\ st.active = 0 /\ Unresolved(r) # {} ->
            [inc |-> inc, active |-> Max(Unresolved(r))]
      [] verdict = "fail" /\ st.active # 0 ->
            [inc |-> [inc EXCEPT ![st.active] = UpdatedIncident(st.active, r, st, s)],
             active |-> st.active]
      [] verdict = "recover" /\ st.active # 0
            /\ inc[st.active].status \notin {"recovered", "resolved"} ->
            [inc |-> [inc EXCEPT ![st.active] = RecoveredIncident(st.active, s)],
             active |-> st.active]
      [] OTHER -> [inc |-> inc, active |-> st.active]

(* How rule r classes s: evidence of recovery, of failure, or nothing. *)
Shown(r, s) ==
    CASE s.state = policy[r].recovery -> [class |-> "recovery", state |-> s.state, at |-> s.at]
      [] s.state # policy[r].recovery /\ HasCondition(r, s) ->
            [class |-> "failure", state |-> s.state, at |-> s.at]
      [] OTHER -> Break

-----------------------------------------------------------------------------
(* The evaluator's transactions.  ProcessOnce reads the clock once, before it
   claims: now, the instant all its transactions use, may be in the past. *)
Nows == {t \in Instants : t <= clock /\ clock - t <= Lag}

(* processSignal, no enabled rule matches: the signal is only marked. *)
NoRule(s) ==
    /\ s \in pending
    /\ MatchingRules(s) = {}
    /\ pending' = pending \ {s}
    /\ UNCHANGED <<scenario, clock, policy, observed, health, rs, inc, window, hist, changes>>

(* ORDER BY ... LIMIT 1 *)
Wins(r, s) ==
    /\ s \in pending /\ r \in MatchingRules(s)
    /\ \A q \in MatchingRules(s) :
          policy[q].rank < policy[r].rank \/ (policy[q].rank = policy[r].rank /\ r <= q)

(* state.LastSignalAt.After(signal.OccurredAt) *)
OutOfOrder(r, s) == rs[r].lastAt > s.at

(* processSignal, older than what the rule state has seen. *)
SkipOutOfOrder(r, s) ==
    /\ Wins(r, s)
    /\ OutOfOrder(r, s)
    /\ pending' = pending \ {s}
    /\ UNCHANGED <<scenario, clock, policy, observed, health, rs, inc, window, hist, changes>>

(* processSignal, inside a maintenance window by its own instant. *)
SuppressSignal(r, s) ==
    /\ Wins(r, s)
    /\ ~OutOfOrder(r, s)
    /\ InMaintenance(s.at)
    /\ pending' = pending \ {s}
    /\ rs' = [rs EXCEPT ![r] = [ClearedState(@) EXCEPT !.last = s, !.lastAt = s.at,
                                                       !.lastState = "maintenance"]]
    /\ hist' = [hist EXCEPT ![r] = Append(@, Break)]
    /\ UNCHANGED <<scenario, clock, policy, observed, health, inc, window, changes>>

(* processSignal, evaluated. *)
EvaluateSignal(r, s, now) ==
    LET evaluated == Evaluate(r, rs[r], s, now, FALSE)
        decided == Decided(r, evaluated.state, s, evaluated.verdict) IN
    /\ Wins(r, s) /\ s.avail <= now
    /\ ~OutOfOrder(r, s)
    /\ ~InMaintenance(s.at)
    /\ pending' = pending \ {s}
    /\ inc' = decided.inc
    /\ rs' = [rs EXCEPT ![r] = [evaluated.state EXCEPT !.active = decided.active,
                                  !.last = s, !.lastAt = s.at, !.lastState = s.state,
                                  !.lastCode = s.code]]
    /\ hist' = [hist EXCEPT ![r] = Append(@, Shown(r, s))]
    /\ UNCHANGED <<scenario, clock, policy, observed, health, window, changes>>

(* The WHERE clause of processOneDue. *)
DeadlineDue(r, now) == rs[r].deadline # None /\ rs[r].deadline <= now

(* processOneDue, the rule is disabled or its scope left the last signal. *)
DropDeadline(r, now) ==
    /\ DeadlineDue(r, now)
    /\ ~MatchesRule(r, rs[r].last)
    /\ rs' = [rs EXCEPT ![r].deadline = None]
    /\ UNCHANGED <<scenario, clock, policy, observed, health, pending, inc, window, hist, changes>>

(* processOneDue, during maintenance. *)
SuppressDeadline(r, now) ==
    /\ DeadlineDue(r, now)
    /\ MatchesRule(r, rs[r].last)
    /\ InMaintenance(now)
    /\ rs' = [rs EXCEPT ![r] = [ClearedState(@) EXCEPT !.lastState = "maintenance"]]
    /\ hist' = [hist EXCEPT ![r] = Append(@, Break)]
    /\ UNCHANGED <<scenario, clock, policy, observed, health, pending, inc, window, changes>>

(* processOneDue, the last signal evaluated again.  Whatever deadline the
   evaluation set is cleared. *)
EvaluateDeadline(r, now) ==
    LET s == rs[r].last
        evaluated == Evaluate(r, rs[r], s, now, TRUE)
        decided == Decided(r, evaluated.state, s, evaluated.verdict)
        reclassed == hist[r] # <<>> /\ hist[r][Len(hist[r])].class # Shown(r, s).class IN
    /\ DeadlineDue(r, now)
    /\ MatchesRule(r, s)
    /\ ~InMaintenance(now)
    /\ inc' = decided.inc
    /\ rs' = [rs EXCEPT ![r] = [evaluated.state EXCEPT !.active = decided.active,
                                                       !.deadline = None]]
    /\ hist' = IF reclassed THEN [hist EXCEPT ![r] = Append(@, Break)] ELSE hist
    /\ UNCHANGED <<scenario, clock, policy, observed, health, pending, window, changes>>

-----------------------------------------------------------------------------
(* Operators.  What Mutate does besides (versions, receipts, notes, owners)
   does not touch the engine's state. *)
Transition(i, from, to) ==
    /\ inc[i].status = from
    /\ inc' = [inc EXCEPT ![i] = [@ EXCEPT !.status = to,
                 !.timeline = Append(inc[i].timeline, Entry(from, to, inc[i].severity))]]
    /\ UNCHANGED <<scenario, clock, policy, observed, health, pending, rs, window, hist, changes>>

Acknowledge(i) == Transition(i, "open", "acknowledged")
Investigate(i) == Transition(i, "acknowledged", "investigating")

(* Variant: the rule state keeps the resolved incident. *)
KeepFingerprint(i) == rs' = rs

(* UPDATE incident_rule_states SET active_incident_id = NULL *)
ReleaseFingerprint(i) ==
    rs' = [r \in Rules |-> IF rs[r].active = i THEN [rs[r] EXCEPT !.active = 0] ELSE rs[r]]

(* The update fails on CHECK (resolved_at >= recovered_at) while the recovery
   is dated ahead of the clock. *)
Resolve(i) ==
    /\ inc[i].status = "recovered"
    /\ clock >= inc[i].recovered
    /\ inc' = [inc EXCEPT ![i] = [@ EXCEPT !.status = "resolved", !.resolved = clock,
                 !.timeline = Append(inc[i].timeline,
                                     Entry("recovered", "resolved", inc[i].severity))]]
    /\ ReleaseFingerprint(i)
    /\ UNCHANGED <<scenario, clock, policy, observed, health, pending, window, hist, changes>>

Tick ==
    /\ clock < Horizon
    /\ clock' = clock + 1
    /\ UNCHANGED <<scenario, policy, observed, health, pending, rs, inc, window, hist, changes>>

Produce ==
    \/ \E state \in States, code \in Codes, at \in Instants : Observe(state, code, at)
    \/ ObserveAgain
    \/ FreshnessLapses

Administer ==
    \/ \E w \in Windows : CreateMaintenance(w) \/ ReplaceMaintenance(w)
    \/ RevokeMaintenance
    \/ \E r \in Rules, p \in Policies : ReplaceRule(r, p)

ProcessSignal(s) ==
    \/ NoRule(s)
    \/ \E r \in Rules :
         \/ SkipOutOfOrder(r, s)
         \/ SuppressSignal(r, s)
         \/ \E now \in Nows : EvaluateSignal(r, s, now)

ProcessOneDue(r) ==
    \E now \in Nows :
        DropDeadline(r, now) \/ SuppressDeadline(r, now) \/ EvaluateDeadline(r, now)

(* A transaction of the evaluator's loop. *)
ProcessOnce ==
    \/ \E s \in pending : ProcessSignal(s)
    \/ \E r \in Rules : ProcessOneDue(r)

Operate == \E i \in 1 .. Len(inc) : Acknowledge(i) \/ Investigate(i) \/ Resolve(i)

Next ==
    \/ Produce
    \/ Administer
    \/ Operate
    \/ ProcessOnce
    \/ ExpireWindow
    \/ Tick

Spec == Init /\ [][Next]_vars

(* Time passes, the evaluator keeps draining signals and deadlines, and the
   suppression worker keeps expiring windows. *)
FairSpec ==
    /\ Spec
    /\ WF_vars(Tick) /\ WF_vars(ExpireWindow) /\ WF_vars(ProcessOnce)

-----------------------------------------------------------------------------
(* At most one unresolved incident per rule, and the rule state points at it
   (incidents_active_fingerprint_idx): no recurrence updates a resolved
   incident or opens a second one beside an unresolved one, however operators
   and evaluator interleave. *)
ActivePointer ==
    \A r \in Rules : Unresolved(r) = {rs[r].active} \ {0}

(* The CHECK constraints of incidents: an evaluation never dates a recovery
   before the detection (out-of-order signals are set aside first), and an
   unrecovered incident has no recovery instant. *)
TimesOrdered ==
    \A i \in 1 .. Len(inc) :
        /\ inc[i].latest >= inc[i].detected
        /\ inc[i].status \in {"recovered", "resolved"} =>
              inc[i].recovered >= inc[i].detected
        /\ inc[i].status \notin {"recovered", "resolved"} => inc[i].recovered = None
        /\ inc[i].status = "resolved" => inc[i].resolved >= inc[i].recovered

(* The timeline tells the incident's story without a gap: every entry starts
   where the one before ended, and the last one is the present. *)
TimelineChain ==
    \A i \in 1 .. Len(inc) :
        LET t == inc[i].timeline IN
        /\ t[1].from = "none"
        /\ \A n \in 2 .. Len(t) : t[n].from = t[n - 1].to
        /\ t[Len(t)].to = inc[i].status /\ t[Len(t)].severity = inc[i].severity

(* What holds of incidents and rule states at any time, however signals,
   deadlines, operators and replaced rules interleave. *)
EngineInv == TypeOK /\ ActivePointer /\ TimesOrdered /\ TimelineChain

(* The entries at the end of h that are of one class and one state. *)
Run(h) ==
    {n \in 1 .. Len(h) :
        /\ h[Len(h)] # Break
        /\ \A m \in n .. Len(h) : h[m].class = h[Len(h)].class /\ h[m].state = h[Len(h)].state}

RunStart(h) == h[Min(Run(h))].at

(* The persisted counters are what a recount of the history gives: the length
   and the start of the unbroken run of evidence at its end. *)
CountersMatchHistory ==
    \A r \in Rules :
        LET h == hist[r]
            run == Run(h)
            class == IF run = {} THEN "break" ELSE h[Len(h)].class
            start == IF run = {} THEN None ELSE RunStart(h) IN
        /\ rs[r].matching = (IF class = "failure" THEN Cardinality(run) ELSE 0)
        /\ rs[r].matchingSince = (IF class = "failure" THEN start ELSE None)
        /\ rs[r].recovering = (IF class = "recovery" THEN Cardinality(run) ELSE 0)
        /\ rs[r].recoverySince = (IF class = "recovery" THEN start ELSE None)

(* Core opens, reopens or recovers an incident only on a run of evidence long
   enough, in signals and in time, for the rule as it is at that moment. *)
ChangesAreEarned ==
    [][\A i \in 1 .. Len(inc') :
          LET now == inc'[i].status
              was == IF i \in 1 .. Len(inc) THEN inc[i].status ELSE "none"
              r == inc'[i].rule
              h == hist'[r]
              earned(class, min, for) ==
                  /\ h[Len(h)].class = class
                  /\ Cardinality(Run(h)) >= min
                  /\ clock >= Later(RunStart(h), for) IN
          /\ (now = "open" /\ was # "open") =>
                LET c == policy[r].condition[h[Len(h)].state] IN earned("failure", c.min, c.for)
          /\ (now = "recovered" /\ was # "recovered") =>
                earned("recovery", policy[r].recoveryMin, policy[r].recoveryFor)]_vars

(* Enough evidence of failure for a report: the rule was shown at least min
   signals of the state in a row. *)
Failing(r) ==
    /\ rs[r].lastState \in DOMAIN policy[r].condition
    /\ MatchesRule(r, rs[r].last)
    /\ rs[r].matching >= policy[r].condition[rs[r].lastState].min

Reported(r) == rs[r].active # 0 /\ inc[rs[r].active].status # "recovered"

(* A debounce that has its occurrences and only waits for time is never
   forgotten: a deadline stands until the incident is reported. That is so as
   long as replacements keep the conditions of a rule, enable none and widen
   no scope (the deadline of the old rule is met, and cleared, under the new
   one): Steady,
   in IncidentEngine_proofs. *)
DebounceKept ==
    \A r \in Rules : Failing(r) => Reported(r) \/ rs[r].deadline # None

(* A failure that persists is reported: again and again there is a moment at
   which every rule that is failing has its incident, although deadlines are
   suppressed by maintenance, dropped by replacements and set anew meanwhile. *)
FailureReported ==
    []<>(\A r \in Rules : Failing(r) => Reported(r))

(* The window began and was in force until this step, which ends it: it is
   expired, revoked or given a scope or an interval that leaves the present
   out; its end was not signalled before. *)
WindowEnds ==
    LET w == window' IN
    /\ window.starts <= clock /\ ~window.revoked /\ ~window.expired
    /\ window.scope # "elsewhere" /\ window.ends \notin window.signalled
    /\ w # window
    /\ w.revoked \/ w.expired \/ w.scope = "elsewhere" \/ ~(w.starts <= clock /\ clock < w.ends)

(* This step leaves a signal of the current health behind. *)
ExitSignalled ==
    health # "none" => \E s \in pending' : s.kind = "maintenance_expiry" /\ s.state = health

(* "At expiry or active revocation": when the suppression worker expires the
   maintenance window, or an administrator revokes or moves one that is still
   running, a signal of the current health is left for the rules to evaluate. *)
ActiveEndIsSignalled ==
    [][(WindowEnds /\ (window'.expired \/ clock < window.ends)) => ExitSignalled]_vars
=============================================================================
