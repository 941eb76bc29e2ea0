----------------------- MODULE IncidentEngine_proofs -----------------------
(***************************************************************************)
(* Proofs about the incident engine: that a rule state points at the one   *)
(* unresolved incident of its rule, that instants and timelines of         *)
(* incidents are in order, that the persisted counters are a recount of    *)
(* what the rule was shown, and that incidents are opened and recovered on *)
(* that evidence only, hold for any rules, policies, windows and numbers   *)
(* of observations.                                                        *)
(***************************************************************************)
EXTENDS IncidentEngine, FiniteSetTheorems, WellFoundedInduction, TLAPS

(* What the tables and the history can hold. *)
RuleStates ==
    [active: Nat, last: Signals \cup {NoSignal}, lastAt: MaybeInstant,
     lastState: AllStates \cup {"none", "maintenance"}, lastCode: Codes \cup {NoCode},
     matchingSince: MaybeInstant, matching: Nat,
     recoverySince: MaybeInstant, recovering: Nat, deadline: MaybeInstant]

Entries == [from: Statuses \cup {"none"}, to: Statuses, severity: Severities]

Incidents ==
    [rule: Rules, status: Statuses, severity: Severities, detected: Instants, latest: Instants,
     recovered: MaybeInstant, resolved: MaybeInstant, timeline: Seq(Entries)]

WindowRows ==
    [starts: MaybeInstant, ends: MaybeInstant, scope: {"wide", "narrow", "elsewhere"},
     revoked: BOOLEAN, expired: BOOLEAN, signalled: SUBSET Instants]

Shows == [class: {"recovery", "failure", "break"}, state: AllStates \cup {"none"},
          at: MaybeInstant]

Typed ==
    /\ scenario \in DOMAIN Scenarios
    /\ clock \in Instants
    /\ policy \in [Rules -> Policies]
    /\ observed \subseteq Signals
    /\ health \in AllStates \cup {"none"}
    /\ pending \subseteq Signals
    /\ rs \in [Rules -> RuleStates]
    /\ inc \in Seq(Incidents)
    /\ window \in WindowRows
    /\ ~window.expired => window.ends \in Instants
    /\ hist \in [Rules -> Seq(Shows)]

(* The CHECK constraints of an incident, and its timeline. *)
Ordered(x) ==
    /\ x.latest >= x.detected
    /\ x.status \in {"recovered", "resolved"} => x.recovered >= x.detected
    /\ x.status \notin {"recovered", "resolved"} => x.recovered = None
    /\ x.status = "resolved" => x.resolved >= x.recovered

Chained(x) ==
    LET t == x.timeline IN
    /\ t # <<>> /\ t[1].from = "none"
    /\ \A n \in 2 .. Len(t) : t[n].from = t[n - 1].to
    /\ t[Len(t)].to = x.status /\ t[Len(t)].severity = x.severity

UnresolvedIn(q, r) == {i \in 1 .. Len(q) : q[i].rule = r /\ q[i].status # "resolved"}

(* A rule state remembers the instant of its last signal; its incident was
   detected no later; a deadline stands for a signal that was evaluated. *)
Recalled(r) ==
    /\ rs[r].lastAt = rs[r].last.at
    /\ rs[r].active # 0 => inc[rs[r].active].detected <= rs[r].lastAt
    /\ rs[r].deadline # None => rs[r].last \in Signals

(* The inductive invariant. *)
EngineInd ==
    /\ Typed
    /\ \A i \in 1 .. Len(inc) : Ordered(inc[i]) /\ Chained(inc[i])
    /\ \A r \in Rules : UnresolvedIn(inc, r) = {rs[r].active} \ {0}
    /\ \A r \in Rules : Recalled(r)

-----------------------------------------------------------------------------
(* Every nonempty set of numbers has a least one, and Min gives it. *)
LEMMA LeastOf ==
    ASSUME NEW T, T \subseteq Nat, T # {}
    PROVE  Min(T) \in T /\ \A y \in T : Min(T) <= y
<1>1. PICK x \in T : \A y \in T : ~ (<<y, x>> \in OpToRel(<, Nat))
  BY NatLessThanWellFounded, WFMin
<1>2. \A y \in T : y \in Nat /\ x \in Nat
  OBVIOUS
<1>3. \A y \in T : y < x => <<y, x>> \in OpToRel(<, Nat)
  BY <1>2 DEF OpToRel
<1>4. \A y \in T : ~ (y < x)
  BY <1>1, <1>3, Zenon
<1>5. \A y \in T : x <= y
  BY <1>2, <1>4
<1>. QED  BY <1>5 DEF Min

(* latestObservation finds one, whatever was observed. *)
LEMMA LatestFound ==
    ASSUME NEW obs, obs \subseteq Signals, obs # {}
    PROVE  Latest(obs) \in obs
<1>. DEFINE ages == {Horizon - o.at : o \in obs}
<1>1. \A o \in obs : o.at \in Instants
  BY DEF Signals
<1>2. ages \subseteq Nat /\ ages # {}
  BY <1>1, EngineAssumption DEF Instants
<1>3. PICK o \in obs : Horizon - o.at = Min(ages)
  BY <1>2, LeastOf
<1>4. \A p \in obs : Horizon - o.at <= Horizon - p.at
  BY <1>2, <1>3, LeastOf
<1>5. \A p \in obs : p.at <= o.at
  BY <1>1, <1>4, EngineAssumption DEF Instants
<1>. QED  BY <1>5 DEF Latest

(* Adding a duration stays within the instants. *)
LEMMA LaterTyped ==
    ASSUME NEW t \in Instants, NEW d \in Nat
    PROVE  Later(t, d) \in Instants
BY EngineAssumption DEF Later, Instants

(* The instance is chosen once. *)
LEMMA SameScenario ==
    ASSUME scenario' = scenario
    PROVE  /\ Rules' = Rules /\ Codes' = Codes /\ Policies' = Policies
           /\ AllStates' = AllStates /\ Signals' = Signals /\ RuleStates' = RuleStates
           /\ Incidents' = Incidents /\ Shows' = Shows
BY DEF Rules, Codes, Policies, States, AllStates, Signals, RuleStates, Incidents, Shows

(* What is known of the instance. *)
LEMMA Instance ==
    ASSUME Typed
    PROVE  /\ Rules \subseteq Nat
           /\ Windows \subseteq [starts: 0 .. Horizon, ends: 0 .. Horizon,
                                 scope: {"wide", "narrow", "elsewhere"}]
           /\ \A p \in Policies :
                /\ p.recovery \notin DOMAIN p.condition
                /\ p.recoveryMin \in Nat \ {0} /\ p.recoveryFor \in Nat
                /\ \A state \in DOMAIN p.condition :
                     p.condition[state] \in [severity: Severities, min: Nat \ {0}, for: Nat]
<1>1. scenario \in DOMAIN Scenarios
  BY DEF Typed
<1>. QED  BY <1>1, EngineAssumption DEF Rules, Windows, Policies, Severities

(* A step that leaves rule states and incidents alone keeps the invariant. *)
LEMMA QuietStep ==
    ASSUME EngineInd, UNCHANGED <<scenario, rs, inc>>, Typed'
    PROVE  EngineInd'
BY SameScenario DEF EngineInd, UnresolvedIn, Recalled

-----------------------------------------------------------------------------
(* Producers, windows, rules and the clock leave rule states and incidents
   alone. *)
LEMMA HealthTyped ==
    ASSUME Typed, NEW o \in Signals, NEW now
    PROVE  HealthOf(o, now) \in AllStates
<1>1. o.state \in AllStates
  BY DEF Signals
<1>. QED  BY <1>1 DEF HealthOf, AllStates

(* Observe preserves the invariant. *)
LEMMA ObserveStep ==
    ASSUME EngineInd, NEW state \in States, NEW code \in Codes, NEW at \in Instants,
           Observe(state, code, at)
    PROVE  EngineInd'
<1>. DEFINE s == [kind |-> "observation", state |-> state, code |-> code,
                  at |-> at, avail |-> clock]
<1>1. s \in Signals
  BY DEF EngineInd, Typed, Signals, AllStates
<1>2. observed' = observed \cup {s} /\ pending' = pending \cup {s}
  BY DEF Observe
<1>3. observed' \subseteq Signals /\ observed' # {}
  BY <1>1, <1>2 DEF EngineInd, Typed
<1>. HIDE DEF s
<1>4. Latest(observed') \in Signals
  BY <1>3, LatestFound
<1>5. health' \in AllStates
  BY <1>4, HealthTyped DEF EngineInd, Observe
<1>6. Typed'
  BY <1>1, <1>2, <1>3, <1>5, SameScenario DEF EngineInd, Typed, Observe
<1>. QED  BY <1>6, QuietStep DEF Observe

(* ObserveAgain preserves the invariant. *)
LEMMA ObserveAgainStep ==
    ASSUME EngineInd, ObserveAgain
    PROVE  EngineInd'
<1>1. Latest(observed) \in Signals
  BY LatestFound DEF EngineInd, Typed, ObserveAgain
<1>2. health' \in AllStates
  BY <1>1, HealthTyped DEF EngineInd, ObserveAgain
<1>3. Typed'
  BY <1>2, SameScenario DEF EngineInd, Typed, ObserveAgain
<1>. QED  BY <1>3, QuietStep DEF ObserveAgain

(* FreshnessLapses preserves the invariant. *)
LEMMA FreshnessLapsesStep ==
    ASSUME EngineInd, FreshnessLapses
    PROVE  EngineInd'
<1>. DEFINE lapsed == HealthOf(Latest(observed), clock)
            s == [kind |-> "freshness", state |-> lapsed, code |-> NoCode,
                  at |-> clock, avail |-> clock]
<1>1. Latest(observed) \in Signals
  BY LatestFound DEF EngineInd, Typed, FreshnessLapses
<1>2. lapsed \in AllStates
  BY <1>1, HealthTyped DEF EngineInd
<1>3. s \in Signals
  BY <1>2 DEF EngineInd, Typed, Signals
<1>4. health' = lapsed /\ pending' = pending \cup {s}
  BY DEF FreshnessLapses
<1>. HIDE DEF lapsed, s
<1>5. Typed'
  BY <1>2, <1>3, <1>4, SameScenario DEF EngineInd, Typed, FreshnessLapses
<1>. QED  BY <1>5, QuietStep DEF FreshnessLapses

(* The signals of an exit are signals. *)
LEMMA ExitSignalsTyped ==
    ASSUME Typed, NEW at \in Instants
    PROVE  ExitSignals(at) \subseteq Signals
BY DEF Typed, ExitSignals, Signals

(* CreateMaintenance preserves the invariant. *)
LEMMA CreateMaintenanceStep ==
    ASSUME EngineInd, NEW w \in Windows, CreateMaintenance(w)
    PROVE  EngineInd'
<1>1. w.starts \in Instants /\ w.ends \in Instants /\ w.scope \in {"wide", "narrow", "elsewhere"}
  BY Instance DEF EngineInd, Instants
<1>2. window' \in WindowRows /\ window'.ends \in Instants
  BY <1>1 DEF CreateMaintenance, WindowRows, MaybeInstant
<1>3. Typed'
  BY <1>2, SameScenario DEF EngineInd, Typed, CreateMaintenance, CountWindowChange
<1>. QED  BY <1>3, QuietStep DEF CreateMaintenance

(* ReplaceMaintenance preserves the invariant. *)
LEMMA ReplaceMaintenanceStep ==
    ASSUME EngineInd, NEW w \in Windows, ReplaceMaintenance(w)
    PROVE  EngineInd'
<1>1. w.starts \in Instants /\ w.ends \in Instants /\ w.scope \in {"wide", "narrow", "elsewhere"}
  BY Instance DEF EngineInd, Instants
<1>2. window' \in WindowRows /\ window'.ends \in Instants
  <2>1. \A x \in WindowRows : LET y == [x EXCEPT !.starts = w.starts, !.ends = w.ends,
                                                 !.scope = w.scope, !.expired = FALSE]
                              IN y \in WindowRows /\ y.ends \in Instants
    BY <1>1 DEF WindowRows, MaybeInstant
  <2>. QED  BY <2>1 DEF EngineInd, Typed, ReplaceMaintenance
<1>3. pending' \subseteq Signals
  BY ExitSignalsTyped DEF EngineInd, Typed, ReplaceMaintenance
<1>4. Typed'
  BY <1>2, <1>3, SameScenario DEF EngineInd, Typed, ReplaceMaintenance, CountWindowChange
<1>. QED  BY <1>4, QuietStep DEF ReplaceMaintenance

(* RevokeMaintenance preserves the invariant. *)
LEMMA RevokeMaintenanceStep ==
    ASSUME EngineInd, RevokeMaintenance
    PROVE  EngineInd'
<1>1. window' \in WindowRows /\ (~window'.expired => window'.ends \in Instants)
  BY DEF EngineInd, Typed, RevokeMaintenance, WindowRows
<1>2. pending' \subseteq Signals
  BY ExitSignalsTyped DEF EngineInd, Typed, RevokeMaintenance
<1>3. Typed'
  BY <1>1, <1>2, SameScenario DEF EngineInd, Typed, RevokeMaintenance, CountWindowChange
<1>. QED  BY <1>3, QuietStep DEF RevokeMaintenance

(* ExpireWindow preserves the invariant. *)
LEMMA ExpireWindowStep ==
    ASSUME EngineInd, ExpireWindow
    PROVE  EngineInd'
<1>1. PICK signals \in {{}, ExitSignals(window.ends)} :
         /\ window' = [window EXCEPT !.expired = TRUE,
                                     !.signalled = @ \cup {s.at : s \in signals}]
         /\ pending' = pending \cup signals
  BY DEF ExpireWindow
<1>2. signals \subseteq Signals
  BY <1>1, ExitSignalsTyped DEF EngineInd, Typed, ExpireWindow
<1>3. {s.at : s \in signals} \subseteq Instants
  BY <1>2 DEF Signals
<1>4. window' \in WindowRows /\ window'.expired
  <2>1. \A x \in WindowRows, ats \in SUBSET Instants :
           LET y == [x EXCEPT !.expired = TRUE, !.signalled = @ \cup ats]
           IN  y \in WindowRows /\ y.expired
    BY DEF WindowRows
  <2>. QED  BY <1>1, <1>3, <2>1 DEF EngineInd, Typed
<1>5. Typed'
  BY <1>1, <1>2, <1>4, SameScenario DEF EngineInd, Typed, ExpireWindow
<1>. QED  BY <1>5, QuietStep DEF ExpireWindow

(* ReplaceRule preserves the invariant. *)
LEMMA ReplaceRuleStep ==
    ASSUME EngineInd, NEW r \in Rules, NEW p \in Policies, ReplaceRule(r, p)
    PROVE  EngineInd'
<1>1. Typed'
  BY SameScenario DEF EngineInd, Typed, ReplaceRule
<1>. QED  BY <1>1, QuietStep DEF ReplaceRule

(* Tick preserves the invariant. *)
LEMMA TickStep ==
    ASSUME EngineInd, Tick
    PROVE  EngineInd'
<1>1. clock' \in Instants
  BY EngineAssumption DEF EngineInd, Typed, Tick, Instants
<1>2. Typed'
  BY <1>1, SameScenario DEF EngineInd, Typed, Tick
<1>. QED  BY <1>2, QuietStep DEF Tick

(* processSignal when there is nothing to evaluate. *)
LEMMA SetAsideStep ==
    ASSUME EngineInd, NEW s \in pending, NEW r, NoRule(s) \/ SkipOutOfOrder(r, s)
    PROVE  EngineInd'
<1>1. Typed' /\ UNCHANGED <<scenario, rs, inc>>
  BY SameScenario DEF EngineInd, Typed, NoRule, SkipOutOfOrder
<1>. QED  BY <1>1, QuietStep
-----------------------------------------------------------------------------
(* What evaluate makes of a rule state: the pointer and what is remembered of
   the last signal stay, and only a failing state fails. *)
SameMemory(x, st) ==
    /\ x \in RuleStates
    /\ x.active = st.active /\ x.last = st.last /\ x.lastAt = st.lastAt
    /\ x.lastState = st.lastState /\ x.lastCode = st.lastCode

EvaluationSound(r, s, e) ==
    /\ SameMemory(e.state, rs[r])
    /\ e.verdict \in {"fail", "recover", "wait"}
    /\ e.verdict = "fail" => HasCondition(r, s)

(* The deadline an evaluation sets is an instant or none. *)
LEMMA DueTyped ==
    ASSUME NEW since \in MaybeInstant, NEW count \in Nat, NEW min \in Nat, NEW for \in Nat,
           NEW now \in Instants
    PROVE  DueAt(Met(since, count, min), now, Later(since, for)) \in MaybeInstant
<1>1. CASE since = None
  BY <1>1 DEF DueAt, Met, MaybeInstant
<1>2. CASE since \in Instants
  BY <1>2, LaterTyped DEF DueAt, MaybeInstant
<1>. QED  BY <1>1, <1>2 DEF MaybeInstant

(* A rule state's counters keep their types. *)
LEMMA CountersTyped ==
    ASSUME NEW st \in RuleStates, NEW since \in MaybeInstant, NEW count \in Nat,
           NEW due \in MaybeInstant
    PROVE  /\ SameMemory([st EXCEPT !.recoverySince = None, !.recovering = 0, !.matchingSince = since,
                                    !.matching = count, !.deadline = due], st)
           /\ SameMemory([st EXCEPT !.matchingSince = None, !.matching = 0, !.recoverySince = since,
                                    !.recovering = count, !.deadline = due], st)
           /\ SameMemory(ClearedState(st), st)
<1>1. None \in MaybeInstant /\ 0 \in Nat
  BY DEF MaybeInstant
<1>2. SameMemory([st EXCEPT !.recoverySince = None, !.recovering = 0, !.matchingSince = since,
                            !.matching = count, !.deadline = due], st)
  BY <1>1 DEF RuleStates, SameMemory
<1>3. SameMemory([st EXCEPT !.matchingSince = None, !.matching = 0, !.recoverySince = since,
                            !.recovering = count, !.deadline = due], st)
  BY <1>1 DEF RuleStates, SameMemory
<1>4. SameMemory(ClearedState(st), st)
  BY <1>1 DEF RuleStates, SameMemory, ClearedState
<1>. QED  BY <1>2, <1>3, <1>4

(* Evaluation keeps the types of a rule state and decides for a failure only
   under a condition. *)
LEMMA EvaluateSound ==
    ASSUME EngineInd, NEW r \in Rules, NEW s \in Signals, NEW now \in Instants,
           NEW deadline \in BOOLEAN
    PROVE  EvaluationSound(r, s, Evaluate(r, rs[r], s, now, deadline))
<1>. PICK e : e = Evaluate(r, rs[r], s, now, deadline)
  OBVIOUS
<1>. SUFFICES EvaluationSound(r, s, e)
  OBVIOUS
<1>0. /\ rs[r] \in RuleStates /\ policy[r] \in Policies /\ s.at \in MaybeInstant
      /\ rs[r].recoverySince \in MaybeInstant /\ rs[r].recovering \in Nat
      /\ rs[r].matchingSince \in MaybeInstant /\ rs[r].matching \in Nat
  BY DEF EngineInd, Typed, RuleStates, Signals, MaybeInstant
<1>1. CASE s.state = policy[r].recovery
  <2>1. e = EvaluateRecovery(r, rs[r], s, now, deadline)
    BY <1>1 DEF Evaluate
  <2>. DEFINE goesOn == GoesOn(rs[r], s, rs[r].recoverySince)
              since == IF deadline \/ goesOn THEN rs[r].recoverySince ELSE s.at
              count == IF deadline THEN rs[r].recovering
                       ELSE IF goesOn THEN rs[r].recovering + 1 ELSE 1
              met == Met(since, count, policy[r].recoveryMin)
              due == DueAt(met, now, Later(since, policy[r].recoveryFor))
  <2>2. since \in MaybeInstant /\ count \in Nat
    BY <1>0
  <2>3. policy[r].recoveryMin \in Nat /\ policy[r].recoveryFor \in Nat
    BY <1>0, Instance DEF EngineInd
  <2>4. due \in MaybeInstant
    BY <2>2, <2>3, DueTyped
  <2>5. /\ e.state = [rs[r] EXCEPT !.matchingSince = None, !.matching = 0, !.recoverySince = since,
                                   !.recovering = count, !.deadline = due]
        /\ e.verdict \in {"recover", "wait"}
    BY <2>1 DEF EvaluateRecovery
  <2>. HIDE DEF since, count, due
  <2>6. SameMemory(e.state, rs[r])
    <3>1. SameMemory([rs[r] EXCEPT !.matchingSince = None, !.matching = 0, !.recoverySince = since,
                                   !.recovering = count, !.deadline = due], rs[r])
      BY <1>0, <2>2, <2>4, CountersTyped
    <3>. QED  BY <2>5, <3>1, Zenon
  <2>. QED  BY <2>5, <2>6 DEF EvaluationSound
<1>2. CASE s.state # policy[r].recovery /\ HasCondition(r, s)
  <2>1. e = EvaluateFailure(r, rs[r], s, now, deadline)
    BY <1>2 DEF Evaluate
  <2>. DEFINE goesOn == GoesOn(rs[r], s, rs[r].matchingSince)
              since == IF deadline \/ goesOn THEN rs[r].matchingSince ELSE s.at
              count == IF deadline THEN rs[r].matching
                       ELSE IF goesOn THEN rs[r].matching + 1 ELSE 1
              met == Met(since, count, Condition(r, s).min)
              due == DueAt(met, now, Later(since, Condition(r, s).for))
  <2>2. since \in MaybeInstant /\ count \in Nat
    BY <1>0
  <2>3. Condition(r, s).min \in Nat /\ Condition(r, s).for \in Nat
    BY <1>0, <1>2, Instance DEF EngineInd, HasCondition, Condition
  <2>4. due \in MaybeInstant
    BY <2>2, <2>3, DueTyped
  <2>5. /\ e.state = [rs[r] EXCEPT !.recoverySince = None, !.recovering = 0, !.matchingSince = since,
                                   !.matching = count, !.deadline = due]
        /\ e.verdict \in {"fail", "wait"}
    BY <2>1 DEF EvaluateFailure
  <2>. HIDE DEF since, count, due
  <2>6. SameMemory(e.state, rs[r])
    <3>1. SameMemory([rs[r] EXCEPT !.recoverySince = None, !.recovering = 0, !.matchingSince = since,
                                   !.matching = count, !.deadline = due], rs[r])
      BY <1>0, <2>2, <2>4, CountersTyped
    <3>. QED  BY <2>5, <3>1, Zenon
  <2>. QED  BY <1>2, <2>5, <2>6 DEF EvaluationSound
<1>3. CASE s.state # policy[r].recovery /\ ~HasCondition(r, s)
  <2>1. e = [state |-> ClearedState(rs[r]), verdict |-> "wait"]
    BY <1>3 DEF Evaluate
  <2>2. 0 \in Nat /\ None \in MaybeInstant
    BY DEF MaybeInstant
  <2>3. SameMemory(ClearedState(rs[r]), rs[r])
    BY <1>0, <2>2, CountersTyped
  <2>. QED  BY <2>1, <2>3 DEF EvaluationSound
<1>. QED  BY <1>1, <1>2, <1>3

-----------------------------------------------------------------------------
(* A timeline that goes on from the present status stays a chain. *)
LEMMA ChainGrows ==
    ASSUME NEW t \in Seq(Entries), NEW x, x.timeline = t, Chained(x),
           NEW e \in Entries, e.from = x.status,
           NEW y, y.timeline = Append(t, e), y.status = e.to, y.severity = e.severity
    PROVE  Chained(y) /\ y.timeline \in Seq(Entries)
<1>. DEFINE u == Append(t, e)
<1>1. /\ u \in Seq(Entries) /\ Len(u) = Len(t) + 1 /\ u[Len(u)] = e
      /\ \A n \in 1 .. Len(t) : u[n] = t[n]
  OBVIOUS
<1>2. Len(t) \in Nat /\ Len(t) # 0
  BY DEF Chained
<1>3. u # <<>> /\ u[1].from = "none"
  BY <1>1, <1>2 DEF Chained
<1>4. ASSUME NEW n \in 2 .. Len(u)
      PROVE  u[n].from = u[n - 1].to
  <2>1. CASE n = Len(u)
    BY <1>1, <1>2, <2>1 DEF Chained
  <2>2. CASE n # Len(u)
    BY <1>1, <1>2, <2>2 DEF Chained
  <2>. QED  BY <2>1, <2>2
<1>. QED  BY <1>1, <1>3, <1>4 DEF Chained

(* What may become of incident x by an evaluation dated at: it stays an
   unresolved incident of its rule and keeps its detection. *)
Continues(x, y) ==
    /\ y \in Incidents /\ Ordered(y) /\ Chained(y)
    /\ y.rule = x.rule /\ y.detected = x.detected /\ y.status # "resolved"

(* The later of two instants is an instant, and not before the first. *)
LEMMA MaxOfTyped ==
    ASSUME NEW a \in Instants, NEW b \in Instants
    PROVE  MaxOf(a, b) \in Instants /\ MaxOf(a, b) >= a
BY EngineAssumption DEF MaxOf, Instants

(* A failure continues an unresolved incident (updateIncident). *)
LEMMA UpdatedSound ==
    ASSUME EngineInd, NEW i \in 1 .. Len(inc), NEW r \in Rules, NEW st, NEW s \in Signals,
           HasCondition(r, s), inc[i].status # "resolved"
    PROVE  Continues(inc[i], UpdatedIncident(i, r, st, s))
<1>. DEFINE old == inc[i]
            severity == Condition(r, s).severity
            seen == [old EXCEPT !.latest = MaxOf(@, s.at)]
            newCode == Certificate /\ NoCode \notin {s.code, st.lastCode} /\ s.code # st.lastCode
            y == UpdatedIncident(i, r, st, s)
<1>1. old \in Incidents /\ Ordered(old) /\ Chained(old)
  BY DEF EngineInd, Typed
<1>2. severity \in Severities
  BY Instance DEF EngineInd, Typed, HasCondition, Condition
<1>3. /\ MaxOf(old.latest, s.at) \in Instants /\ MaxOf(old.latest, s.at) >= old.detected
  <2>1. old.latest \in Instants /\ old.detected \in Instants /\ s.at \in Instants
    BY <1>1 DEF Incidents, Signals
  <2>2. old.latest >= old.detected
    BY <1>1 DEF Ordered
  <2>3. MaxOf(old.latest, s.at) \in Instants /\ MaxOf(old.latest, s.at) >= old.latest
    BY <2>1, MaxOfTyped
  <2>. QED  BY <2>1, <2>2, <2>3 DEF Instants
<1>4. /\ seen \in Incidents /\ seen.latest >= seen.detected /\ seen.timeline = old.timeline
      /\ seen.rule = old.rule /\ seen.detected = old.detected /\ seen.status = old.status
      /\ seen.severity = old.severity /\ seen.recovered = old.recovered
  BY <1>1, <1>3 DEF Incidents
<1>5. CASE old.status = "recovered"
  <2>1. y = [seen EXCEPT !.status = "open", !.severity = severity, !.recovered = None,
                         !.timeline = Append(old.timeline, Entry("recovered", "open", severity))]
    BY <1>4, <1>5 DEF UpdatedIncident
  <2>2. Entry("recovered", "open", severity) \in Entries
    BY <1>2 DEF Entry, Entries, Statuses
  <2>3. Append(old.timeline, Entry("recovered", "open", severity)) \in Seq(Entries)
    BY <1>1, <2>2 DEF Incidents
  <2>4. /\ y \in Incidents /\ y.status = "open" /\ y.severity = severity /\ y.recovered = None
        /\ y.rule = old.rule /\ y.detected = old.detected /\ y.latest = seen.latest
        /\ y.timeline = Append(old.timeline, Entry("recovered", "open", severity))
    BY <1>2, <1>4, <2>1, <2>3 DEF Incidents, Statuses, MaybeInstant
  <2>5. Chained(y)
    BY <1>1, <1>5, <2>2, <2>4, ChainGrows DEF Incidents, Entry
  <2>. QED  BY <1>4, <2>4, <2>5 DEF Continues, Ordered
<1>6. CASE old.status # "recovered" /\ (old.severity # severity \/ newCode)
  <2>1. /\ y.timeline = Append(old.timeline, Entry(old.status, old.status, severity))
        /\ y = [seen EXCEPT !.severity = severity, !.timeline = y.timeline]
    <3>1. CASE old.severity # severity
      BY <1>4, <1>6, <3>1 DEF UpdatedIncident, Incidents
    <3>2. CASE old.severity = severity
      <4>1. y = [seen EXCEPT !.timeline = Append(@, Entry(old.status, old.status, severity))]
        BY <1>6, <3>2 DEF UpdatedIncident
      <4>2. \A x \in Incidents : x.severity = severity => \A t :
               [x EXCEPT !.timeline = t] = [x EXCEPT !.severity = severity, !.timeline = t]
        BY DEF Incidents
      <4>. QED  BY <1>4, <3>2, <4>1, <4>2 DEF Incidents
    <3>. QED  BY <3>1, <3>2
  <2>2. Entry(old.status, old.status, severity) \in Entries
    BY <1>1, <1>2 DEF Entry, Entries, Incidents
  <2>3. y.timeline \in Seq(Entries)
    BY <1>1, <2>1, <2>2 DEF Incidents
  <2>4. /\ y \in Incidents /\ y.status = old.status /\ y.severity = severity
        /\ y.recovered = old.recovered
        /\ y.rule = old.rule /\ y.detected = old.detected /\ y.latest = seen.latest
    <3>. HIDE DEF y, seen
    <3>. QED  BY <1>2, <1>4, <2>1, <2>3 DEF Incidents
  <2>5. Chained(y)
    BY <1>1, <2>1, <2>2, <2>4, ChainGrows DEF Incidents, Entry
  <2>. QED  BY <1>1, <1>4, <1>6, <2>4, <2>5 DEF Continues, Ordered
<1>7. CASE old.status # "recovered" /\ old.severity = severity /\ ~newCode
  <2>1. y = seen
    BY <1>7 DEF UpdatedIncident
  <2>. QED  BY <1>1, <1>4, <1>7, <2>1 DEF Continues, Ordered, Chained
<1>. QED  BY <1>5, <1>6, <1>7

(* A recovery continues an incident that is neither recovered nor resolved. *)
LEMMA RecoveredSound ==
    ASSUME EngineInd, NEW i \in 1 .. Len(inc), NEW s \in Signals,
           inc[i].status \notin {"recovered", "resolved"}, inc[i].detected <= s.at
    PROVE  Continues(inc[i], RecoveredIncident(i, s))
<1>. DEFINE old == inc[i]
            e == Entry(old.status, "recovered", old.severity)
            y == RecoveredIncident(i, s)
<1>1. old \in Incidents /\ Ordered(old) /\ Chained(old)
  BY DEF EngineInd, Typed
<1>2. /\ s.at \in Instants /\ s.at \in MaybeInstant
      /\ MaxOf(old.latest, s.at) \in Instants /\ MaxOf(old.latest, s.at) >= old.detected
  <2>1. old.latest \in Instants /\ old.detected \in Instants /\ s.at \in Instants
    BY <1>1 DEF Incidents, Signals
  <2>2. old.latest >= old.detected
    BY <1>1 DEF Ordered
  <2>3. MaxOf(old.latest, s.at) \in Instants /\ MaxOf(old.latest, s.at) >= old.latest
    BY <2>1, MaxOfTyped
  <2>. QED  BY <2>1, <2>2, <2>3 DEF Instants, MaybeInstant
<1>3. e \in Entries /\ e.from = old.status /\ e.to = "recovered" /\ e.severity = old.severity
  BY <1>1 DEF Entry, Entries, Incidents, Statuses
<1>4. Append(old.timeline, e) \in Seq(Entries)
  BY <1>1, <1>3 DEF Incidents
<1>5. y = [old EXCEPT !.status = "recovered", !.recovered = s.at, !.latest = MaxOf(@, s.at),
                      !.timeline = Append(old.timeline, e)]
  BY <1>1 DEF RecoveredIncident, Incidents
<1>. HIDE DEF e, y
<1>6. /\ y \in Incidents /\ y.status = "recovered" /\ y.severity = old.severity
      /\ y.recovered = s.at /\ y.latest = MaxOf(old.latest, s.at)
      /\ y.rule = old.rule /\ y.detected = old.detected
      /\ y.timeline = Append(old.timeline, e)
  BY <1>1, <1>2, <1>4, <1>5 DEF Incidents, Statuses
<1>7. Chained(y)
  BY <1>1, <1>3, <1>6, ChainGrows DEF Incidents
<1>8. Ordered(y)
  <2>1. s.at \in Int /\ old.detected \in Int
    BY <1>1, <1>2 DEF Incidents, Instants
  <2>. QED  BY <1>2, <1>6, <2>1 DEF Ordered
<1>9. Continues(old, y)
  BY <1>6, <1>7, <1>8 DEF Continues
<1>. QED  BY <1>9 DEF y

(* A new incident is dated by its signal and belongs to its rule. *)
LEMMA NewSound ==
    ASSUME EngineInd, NEW r \in Rules, NEW s \in Signals, HasCondition(r, s)
    PROVE  LET x == NewIncident(r, s) IN
           /\ x \in Incidents /\ Ordered(x) /\ Chained(x)
           /\ x.rule = r /\ x.detected = s.at /\ x.status # "resolved"
<1>. DEFINE severity == Condition(r, s).severity
            e == Entry("none", "open", severity)
<1>1. severity \in Severities
  BY Instance DEF EngineInd, Typed, HasCondition, Condition
<1>2. s.at \in Instants
  BY DEF Signals
<1>3. <<e>> \in Seq(Entries)
  BY <1>1 DEF Entry, Entries, Statuses
<1>4. PICK x : x = NewIncident(r, s)
  OBVIOUS
<1>5. x = [rule |-> r, status |-> "open", severity |-> severity, detected |-> s.at,
           latest |-> s.at, recovered |-> None, resolved |-> None, timeline |-> <<e>>]
  BY <1>4 DEF NewIncident
<1>6. e.from = "none" /\ e.to = "open" /\ e.severity = severity
  BY DEF Entry
<1>. HIDE DEF e, severity
<1>7. x \in Incidents
  BY <1>1, <1>2, <1>3, <1>5 DEF Incidents, Statuses, MaybeInstant
<1>8. Chained(x)
  BY <1>5, <1>6 DEF Chained
<1>9. Ordered(x)
  BY <1>2, <1>5 DEF Ordered, Instants
<1>. QED  BY <1>4, <1>5, <1>7, <1>8, <1>9

(* What a verdict leaves: sound incidents, and the pointer at the one that is
   unresolved; other rules do not notice. *)
Outcome(r, s, q, a) ==
    /\ q \in Seq(Incidents) /\ a \in Nat
    /\ \A i \in 1 .. Len(q) : Ordered(q[i]) /\ Chained(q[i])
    /\ UnresolvedIn(q, r) = {a} \ {0}
    /\ \A k \in Rules : k # r => UnresolvedIn(q, k) = UnresolvedIn(inc, k)
    /\ \A i \in 1 .. Len(inc) : i \in 1 .. Len(q) /\ q[i].detected = inc[i].detected
    /\ a # 0 => q[a].detected <= s.at

(* The pointer is at an unresolved incident of the rule, or there is none. *)
LEMMA PointerSound ==
    ASSUME EngineInd, NEW r \in Rules
    PROVE  /\ rs[r].active \in Nat
           /\ rs[r].active = 0 => UnresolvedIn(inc, r) = {} /\ Unresolved(r) = {}
           /\ rs[r].active # 0 =>
                /\ rs[r].active \in 1 .. Len(inc) /\ inc[rs[r].active].rule = r
                /\ inc[rs[r].active].status # "resolved"
                /\ inc[rs[r].active].detected <= rs[r].lastAt
<1>1. UnresolvedIn(inc, r) = {rs[r].active} \ {0}
  BY DEF EngineInd
<1>2. rs[r].active \in Nat
  BY DEF EngineInd, Typed, RuleStates
<1>3. ASSUME rs[r].active # 0
      PROVE  rs[r].active \in UnresolvedIn(inc, r)
  BY <1>1, <1>3
<1>4. Unresolved(r) = UnresolvedIn(inc, r)
  BY DEF Unresolved, UnresolvedIn
<1>. QED  BY <1>1, <1>2, <1>3, <1>4 DEF EngineInd, Recalled, UnresolvedIn

(* Instants are numbers. *)
LEMMA DatesAreNumbers ==
    ASSUME EngineInd, NEW r \in Rules, NEW s \in Signals
    PROVE  /\ rs[r].lastAt \in Int /\ s.at \in Int
           /\ \A i \in 1 .. Len(inc) : inc[i].detected \in Int
<1>1. rs[r] \in RuleStates /\ \A i \in 1 .. Len(inc) : inc[i] \in Incidents
  BY DEF EngineInd, Typed
<1>2. \A t \in MaybeInstant : t \in Int
  BY DEF MaybeInstant, Instants, None
<1>3. \A t \in Instants : t \in Int
  BY DEF Instants
<1>4. rs[r].lastAt \in Int
  BY <1>1, <1>2 DEF RuleStates
<1>5. \A i \in 1 .. Len(inc) : inc[i].detected \in Int
  BY <1>1, <1>3 DEF Incidents
<1>. QED  BY <1>3, <1>4, <1>5 DEF Signals

(* Continuing the active incident is a sound outcome of an evaluation. *)
LEMMA ContinuedOutcome ==
    ASSUME EngineInd, NEW r \in Rules, NEW s \in Signals, rs[r].lastAt <= s.at,
           NEW a, a = rs[r].active, a # 0, NEW y, Continues(inc[a], y)
    PROVE  Outcome(r, s, [inc EXCEPT ![a] = y], a)
<1>. DEFINE q == [inc EXCEPT ![a] = y]
<1>1. /\ a \in 1 .. Len(inc) /\ inc[a].rule = r /\ inc[a].status # "resolved"
      /\ inc[a].detected <= rs[r].lastAt /\ a \in Nat
  BY PointerSound
<1>2. inc \in Seq(Incidents) /\ y \in Incidents
  BY DEF EngineInd, Typed, Continues
<1>3. q \in Seq(Incidents) /\ Len(q) = Len(inc) /\ q[a] = y
      /\ \A i \in 1 .. Len(inc) : i # a => q[i] = inc[i]
  BY <1>1, <1>2
<1>. HIDE DEF q
<1>4. \A i \in 1 .. Len(q) : Ordered(q[i]) /\ Chained(q[i])
  BY <1>1, <1>3 DEF EngineInd, Continues
<1>5. \A k \in Rules : UnresolvedIn(q, k) = UnresolvedIn(inc, k)
  BY <1>1, <1>3 DEF UnresolvedIn, Continues
<1>6. \A i \in 1 .. Len(inc) : q[i].detected = inc[i].detected
  BY <1>3 DEF Continues
<1>7. q[a].detected <= s.at
  <2>1. inc[a].detected \in Int /\ rs[r].lastAt \in Int /\ s.at \in Int
    BY <1>1, DatesAreNumbers
  <2>. QED  BY <1>1, <1>6, <2>1
<1>8. UnresolvedIn(q, r) = {a} \ {0}
  BY <1>5 DEF EngineInd
<1>9. Outcome(r, s, q, a)
  BY <1>1, <1>3, <1>4, <1>5, <1>6, <1>7, <1>8 DEF Outcome
<1>. QED  BY <1>9 DEF q

(* So is leaving the incidents alone. *)
LEMMA UnchangedOutcome ==
    ASSUME EngineInd, NEW r \in Rules, NEW s \in Signals, rs[r].lastAt <= s.at
    PROVE  Outcome(r, s, inc, rs[r].active)
<1>1. /\ rs[r].active \in Nat
      /\ rs[r].active # 0 => /\ rs[r].active \in 1 .. Len(inc)
                             /\ inc[rs[r].active].detected <= rs[r].lastAt
  BY PointerSound
<1>2. rs[r].active # 0 => inc[rs[r].active].detected <= s.at
  <2>1. ASSUME rs[r].active # 0
        PROVE  inc[rs[r].active].detected \in Int /\ rs[r].lastAt \in Int /\ s.at \in Int
    BY <1>1, <2>1, DatesAreNumbers
  <2>. QED  BY <1>1, <2>1
<1>. QED  BY <1>1, <1>2 DEF Outcome, EngineInd, Typed

(* So is opening the first unresolved incident of a rule. *)
LEMMA OpenedOutcome ==
    ASSUME EngineInd, NEW r \in Rules, NEW s \in Signals, HasCondition(r, s),
           rs[r].active = 0
    PROVE  Outcome(r, s, Append(inc, NewIncident(r, s)), Len(inc) + 1)
<1>. DEFINE n == Len(inc) + 1
<1>1. PICK x : x = NewIncident(r, s)
  OBVIOUS
<1>2. /\ x \in Incidents /\ Ordered(x) /\ Chained(x)
      /\ x.rule = r /\ x.detected = s.at /\ x.status # "resolved"
  BY <1>1, NewSound
<1>3. inc \in Seq(Incidents) /\ Len(inc) \in Nat
  BY DEF EngineInd, Typed
<1>4. PICK q : q = Append(inc, x)
  OBVIOUS
<1>5. /\ q \in Seq(Incidents) /\ Len(q) = n /\ q[n] = x
      /\ \A i \in 1 .. Len(inc) : q[i] = inc[i]
  BY <1>2, <1>3, <1>4
<1>6. \A i \in 1 .. Len(q) : i \in 1 .. Len(inc) \/ i = n
  BY <1>3, <1>5
<1>7. \A i \in 1 .. Len(q) : Ordered(q[i]) /\ Chained(q[i])
  BY <1>2, <1>5, <1>6 DEF EngineInd
<1>8. UnresolvedIn(inc, r) = {}
  BY PointerSound
<1>9. UnresolvedIn(q, r) = {n} \ {0}
  BY <1>2, <1>3, <1>5, <1>6, <1>8 DEF UnresolvedIn
<1>10. ASSUME NEW k \in Rules, k # r
       PROVE  UnresolvedIn(q, k) = UnresolvedIn(inc, k)
  BY <1>2, <1>3, <1>5, <1>6, <1>10 DEF UnresolvedIn
<1>11. q[n].detected <= s.at
  BY <1>2, <1>5, EngineAssumption DEF Signals, Instants
<1>12. \A i \in 1 .. Len(inc) : i \in 1 .. Len(q) /\ q[i].detected = inc[i].detected
  BY <1>3, <1>5
<1>13. Outcome(r, s, q, n)
  BY <1>3, <1>5, <1>7, <1>9, <1>10, <1>11, <1>12 DEF Outcome
<1>. QED  BY <1>1, <1>4, <1>13

(* openOrUpdateIncident and recoverIncident. *)
LEMMA DecidedSound ==
    ASSUME EngineInd, NEW r \in Rules, NEW s \in Signals, rs[r].lastAt <= s.at,
           NEW st, st.active = rs[r].active,
           NEW verdict, verdict = "fail" => HasCondition(r, s)
    PROVE  Outcome(r, s, Decided(r, st, s, verdict).inc, Decided(r, st, s, verdict).active)
<1>. DEFINE a == rs[r].active
<1>0. /\ a = 0 => Unresolved(r) = {}
      /\ a # 0 => a \in 1 .. Len(inc) /\ inc[a].status # "resolved"
                     /\ inc[a].detected <= rs[r].lastAt
  BY PointerSound
<1>1. CASE verdict = "fail" /\ a = 0
  <2>1. Decided(r, st, s, verdict) = [inc |-> Append(inc, NewIncident(r, s)), active |-> Len(inc) + 1]
    BY <1>0, <1>1 DEF Decided
  <2>2. Outcome(r, s, Append(inc, NewIncident(r, s)), Len(inc) + 1)
    BY <1>1, OpenedOutcome
  <2>. QED  BY <2>1, <2>2
<1>2. CASE verdict = "fail" /\ a # 0
  <2>1. Decided(r, st, s, verdict) =
           [inc |-> [inc EXCEPT ![a] = UpdatedIncident(a, r, st, s)], active |-> a]
    BY <1>2 DEF Decided
  <2>2. Continues(inc[a], UpdatedIncident(a, r, st, s))
    BY <1>0, <1>2, UpdatedSound
  <2>. QED  BY <1>2, <2>1, <2>2, ContinuedOutcome
<1>3. CASE verdict = "recover" /\ a # 0 /\ inc[a].status # "recovered"
  <2>1. Decided(r, st, s, verdict) =
           [inc |-> [inc EXCEPT ![a] = RecoveredIncident(a, s)], active |-> a]
    BY <1>0, <1>3 DEF Decided
  <2>2. inc[a].detected <= s.at
    BY <1>3, UnchangedOutcome DEF Outcome
  <2>3. Continues(inc[a], RecoveredIncident(a, s))
    BY <1>0, <1>3, <2>2, RecoveredSound
  <2>. QED  BY <1>3, <2>1, <2>3, ContinuedOutcome
<1>4. CASE ~(verdict = "fail") /\ ~(verdict = "recover" /\ a # 0 /\ inc[a].status # "recovered")
  <2>1. Decided(r, st, s, verdict) = [inc |-> inc, active |-> a]
    BY <1>4 DEF Decided
  <2>. QED  BY <2>1, UnchangedOutcome
<1>. QED  BY <1>1, <1>2, <1>3, <1>4
-----------------------------------------------------------------------------
(* A transaction of the evaluator: rule r has a new state, which points at
   what the verdict on s left. *)
LEMMA RuleStep ==
    ASSUME EngineInd, NEW r \in Rules, NEW s \in Signals, NEW k \in RuleStates,
           UNCHANGED <<scenario, clock, policy, observed, health, window>>,
           pending' \subseteq pending, hist' \in [Rules -> Seq(Shows)],
           rs' = [rs EXCEPT ![r] = k], Outcome(r, s, inc', k.active),
           k.lastAt = k.last.at, s.at <= k.lastAt,
           k.deadline # None => k.last \in Signals
    PROVE  EngineInd'
<1>1. rs' \in [Rules -> RuleStates] /\ rs'[r] = k /\ \A j \in Rules : j # r => rs'[j] = rs[j]
  BY DEF EngineInd, Typed
<1>2. Typed'
  BY <1>1, SameScenario DEF EngineInd, Typed, Outcome
<1>3. \A i \in 1 .. Len(inc') : (Ordered(inc[i]) /\ Chained(inc[i]))'
  BY DEF Outcome, Ordered, Chained
<1>4. \A j \in Rules : UnresolvedIn(inc, j)' = {rs'[j].active} \ {0}
  <2>1. \A j \in Rules : UnresolvedIn(inc, j)' = UnresolvedIn(inc', j)
    BY DEF UnresolvedIn
  <2>. QED  BY <1>1, <2>1 DEF Outcome, EngineInd
<1>5. ASSUME NEW j \in Rules
      PROVE  Recalled(j)'
  <2>1. CASE j = r
    <3>1. k.active # 0 => inc'[k.active].detected <= k.lastAt
      <4>1. ASSUME k.active # 0
            PROVE  /\ inc'[k.active].detected <= s.at
                   /\ inc'[k.active] \in Incidents
        <5>1. k.active \in UnresolvedIn(inc', r)
          BY <4>1 DEF Outcome
        <5>. QED  BY <4>1, <5>1 DEF Outcome, UnresolvedIn
      <4>2. \A t \in MaybeInstant : t \in Int
        BY DEF MaybeInstant, Instants, None
      <4>3. k.lastAt \in Int /\ s.at \in Int
        BY <4>2 DEF RuleStates, Signals, MaybeInstant
      <4>4. k.active # 0 => inc'[k.active].detected \in Int
        BY <4>1, <4>2 DEF Incidents, MaybeInstant
      <4>. QED  BY <4>1, <4>3, <4>4
    <3>. QED  BY <1>1, <2>1, <3>1, SameScenario DEF Recalled
  <2>2. CASE j # r
    <3>1. rs'[j] = rs[j] /\ Recalled(j)
      BY <1>1, <2>2 DEF EngineInd
    <3>2. rs[j].active # 0 => rs[j].active \in 1 .. Len(inc)
      BY PointerSound
    <3>3. rs[j].active # 0 => inc'[rs[j].active].detected = inc[rs[j].active].detected
      BY <3>2 DEF Outcome
    <3>. QED  BY <3>1, <3>3, SameScenario DEF Recalled
  <2>. QED  BY <2>1, <2>2
<1>. QED  BY <1>2, <1>3, <1>4, <1>5, SameScenario DEF EngineInd

(* What a rule is shown is evidence or a break. *)
LEMMA ShownTyped ==
    ASSUME NEW r, NEW s \in Signals
    PROVE  Shown(r, s) \in Shows
<1>1. s.state \in AllStates /\ s.at \in MaybeInstant
  BY DEF Signals, MaybeInstant
<1>. QED  BY <1>1 DEF Shown, Break, Shows, MaybeInstant

(* A break can be shown. *)
LEMMA BreakTyped == Break \in Shows
BY DEF Break, Shows, MaybeInstant

(* What a signal leaves in the rule state, evaluated or suppressed. *)
Remembered(st, s, a) ==
    [st EXCEPT !.active = a, !.last = s, !.lastAt = s.at, !.lastState = s.state,
               !.lastCode = s.code]

Suppressed(st, s) == [st EXCEPT !.last = s, !.lastAt = s.at, !.lastState = "maintenance"]

(* A rule state that remembers a signal is a rule state. *)
LEMMA RememberTyped ==
    ASSUME NEW st \in RuleStates, NEW s \in Signals, NEW a \in Nat
    PROVE  LET k == Remembered(st, s, a) IN
           k \in RuleStates /\ k.active = a /\ k.last = s /\ k.lastAt = s.at
<1>1. s.at \in MaybeInstant /\ s.state \in AllStates /\ s.code \in Codes \cup {NoCode}
  BY DEF Signals, MaybeInstant
<1>. QED  BY <1>1 DEF RuleStates, Remembered

(* A suppressed rule state is a rule state. *)
LEMMA SuppressTyped ==
    ASSUME NEW st \in RuleStates, NEW s \in Signals
    PROVE  LET k == Suppressed(st, s) IN
           k \in RuleStates /\ k.active = st.active /\ k.last = s /\ k.lastAt = s.at
<1>1. s.at \in MaybeInstant
  BY DEF Signals, MaybeInstant
<1>. QED  BY <1>1 DEF RuleStates, Suppressed

(* A signal that is not out of order is not before the last one. *)
LEMMA InOrder ==
    ASSUME EngineInd, NEW r \in Rules, NEW s \in Signals, ~OutOfOrder(r, s)
    PROVE  rs[r].lastAt <= s.at
BY DatesAreNumbers DEF OutOfOrder

(* SuppressSignal preserves the invariant. *)
LEMMA SuppressSignalStep ==
    ASSUME EngineInd, NEW r \in Rules, NEW s \in pending, SuppressSignal(r, s)
    PROVE  EngineInd'
<1>1. s \in Signals /\ rs[r] \in RuleStates
  BY DEF EngineInd, Typed
<1>2. rs[r].lastAt <= s.at
  BY <1>1, InOrder DEF SuppressSignal
<1>3. SameMemory(ClearedState(rs[r]), rs[r])
  BY <1>1, CountersTyped DEF MaybeInstant
<1>4. PICK k : k = Suppressed(ClearedState(rs[r]), s)
  OBVIOUS
<1>5. k \in RuleStates /\ k.active = rs[r].active /\ k.last = s /\ k.lastAt = s.at
  <2>1. ClearedState(rs[r]) \in RuleStates /\ ClearedState(rs[r]).active = rs[r].active
    BY <1>3 DEF SameMemory
  <2>. QED  BY <1>1, <1>4, <2>1, SuppressTyped
<1>6. rs' = [rs EXCEPT ![r] = k]
  BY <1>4 DEF SuppressSignal, Suppressed
<1>7. Outcome(r, s, inc', k.active)
  BY <1>1, <1>2, <1>5, UnchangedOutcome DEF SuppressSignal
<1>8. hist' \in [Rules -> Seq(Shows)]
  BY BreakTyped DEF EngineInd, Typed, SuppressSignal
<1>9. s.at <= k.lastAt
  BY <1>1, <1>5, DatesAreNumbers
<1>. QED  BY <1>1, <1>5, <1>6, <1>7, <1>8, <1>9, RuleStep DEF SuppressSignal

(* EvaluateSignal preserves the invariant. *)
LEMMA EvaluateSignalStep ==
    ASSUME EngineInd, NEW r \in Rules, NEW s \in pending, NEW now \in Nows,
           EvaluateSignal(r, s, now)
    PROVE  EngineInd'
<1>1. s \in Signals /\ now \in Instants
  BY DEF EngineInd, Typed, Nows
<1>2. rs[r].lastAt <= s.at
  BY <1>1, InOrder DEF EvaluateSignal
<1>3. PICK e : e = Evaluate(r, rs[r], s, now, FALSE)
  OBVIOUS
<1>4. EvaluationSound(r, s, e)
  BY <1>1, <1>3, EvaluateSound
<1>5. PICK d : d = Decided(r, e.state, s, e.verdict)
  OBVIOUS
<1>6. Outcome(r, s, d.inc, d.active)
  BY <1>1, <1>2, <1>4, <1>5, DecidedSound DEF EvaluationSound, SameMemory
<1>7. PICK k : k = Remembered(e.state, s, d.active)
  OBVIOUS
<1>8. k \in RuleStates /\ k.active = d.active /\ k.last = s /\ k.lastAt = s.at
  <2>1. e.state \in RuleStates /\ d.active \in Nat
    BY <1>4, <1>6 DEF EvaluationSound, SameMemory, Outcome
  <2>. QED  BY <1>1, <1>7, <2>1, RememberTyped
<1>9. rs' = [rs EXCEPT ![r] = k] /\ inc' = d.inc
  BY <1>3, <1>5, <1>7 DEF EvaluateSignal, Remembered
<1>10. hist' \in [Rules -> Seq(Shows)]
  BY <1>1, ShownTyped DEF EngineInd, Typed, EvaluateSignal
<1>11. s.at <= k.lastAt
  BY <1>1, <1>8, DatesAreNumbers
<1>12. /\ UNCHANGED <<scenario, clock, policy, observed, health, window>>
       /\ pending' \subseteq pending
  BY DEF EvaluateSignal
<1>13. Outcome(r, s, inc', k.active)
  BY <1>6, <1>8, <1>9
<1>. QED  BY <1>1, <1>8, <1>9, <1>10, <1>11, <1>12, <1>13, RuleStep

(* Deadlines are about the last signal. *)
LEMMA DeadlineSound ==
    ASSUME EngineInd, NEW r \in Rules, NEW now, DeadlineDue(r, now)
    PROVE  /\ rs[r] \in RuleStates /\ rs[r].last \in Signals /\ rs[r].lastAt = rs[r].last.at
           /\ rs[r].lastAt <= rs[r].last.at
<1>1. rs[r] \in RuleStates /\ rs[r].last \in Signals /\ rs[r].lastAt = rs[r].last.at
  BY DEF EngineInd, Typed, Recalled, DeadlineDue
<1>. QED  BY <1>1, DatesAreNumbers

(* DropDeadline preserves the invariant. *)
LEMMA DropDeadlineStep ==
    ASSUME EngineInd, NEW r \in Rules, NEW now \in Nows, DropDeadline(r, now)
    PROVE  EngineInd'
<1>1. /\ rs[r] \in RuleStates /\ rs[r].last \in Signals /\ rs[r].lastAt = rs[r].last.at
      /\ rs[r].lastAt <= rs[r].last.at
  BY DeadlineSound DEF DropDeadline
<1>2. PICK k : k = [rs[r] EXCEPT !.deadline = None]
  OBVIOUS
<1>3. /\ k \in RuleStates /\ k.active = rs[r].active /\ k.last = rs[r].last
      /\ k.lastAt = rs[r].lastAt
  BY <1>1, <1>2 DEF RuleStates, MaybeInstant
<1>4. rs' = [rs EXCEPT ![r] = k]
  BY <1>2 DEF DropDeadline
<1>5. Outcome(r, rs[r].last, inc', k.active)
  BY <1>1, <1>3, UnchangedOutcome DEF DropDeadline
<1>6. hist' \in [Rules -> Seq(Shows)]
  BY DEF EngineInd, Typed, DropDeadline
<1>. QED  BY <1>1, <1>3, <1>4, <1>5, <1>6, RuleStep DEF DropDeadline

(* SuppressDeadline preserves the invariant. *)
LEMMA SuppressDeadlineStep ==
    ASSUME EngineInd, NEW r \in Rules, NEW now \in Nows, SuppressDeadline(r, now)
    PROVE  EngineInd'
<1>1. /\ rs[r] \in RuleStates /\ rs[r].last \in Signals /\ rs[r].lastAt = rs[r].last.at
      /\ rs[r].lastAt <= rs[r].last.at
  BY DeadlineSound DEF SuppressDeadline
<1>2. SameMemory(ClearedState(rs[r]), rs[r])
  BY <1>1, CountersTyped DEF MaybeInstant
<1>3. PICK k : k = [ClearedState(rs[r]) EXCEPT !.lastState = "maintenance"]
  OBVIOUS
<1>4. /\ k \in RuleStates /\ k.active = rs[r].active /\ k.last = rs[r].last
      /\ k.lastAt = rs[r].lastAt
  BY <1>2, <1>3 DEF RuleStates, SameMemory
<1>5. rs' = [rs EXCEPT ![r] = k]
  BY <1>3 DEF SuppressDeadline
<1>6. Outcome(r, rs[r].last, inc', k.active)
  BY <1>1, <1>4, UnchangedOutcome DEF SuppressDeadline
<1>7. hist' \in [Rules -> Seq(Shows)]
  BY BreakTyped DEF EngineInd, Typed, SuppressDeadline
<1>. QED  BY <1>1, <1>4, <1>5, <1>6, <1>7, RuleStep DEF SuppressDeadline

(* EvaluateDeadline preserves the invariant. *)
LEMMA EvaluateDeadlineStep ==
    ASSUME EngineInd, NEW r \in Rules, NEW now \in Nows, EvaluateDeadline(r, now)
    PROVE  EngineInd'
<1>1. /\ rs[r] \in RuleStates /\ rs[r].last \in Signals /\ rs[r].lastAt = rs[r].last.at
      /\ rs[r].lastAt <= rs[r].last.at
  BY DeadlineSound DEF EvaluateDeadline
<1>2. PICK s : s = rs[r].last
  OBVIOUS
<1>3. PICK e : e = Evaluate(r, rs[r], s, now, TRUE)
  OBVIOUS
<1>4. EvaluationSound(r, s, e)
  BY <1>1, <1>2, <1>3, EvaluateSound DEF Nows
<1>5. PICK d : d = Decided(r, e.state, s, e.verdict)
  OBVIOUS
<1>6. Outcome(r, s, d.inc, d.active)
  BY <1>1, <1>2, <1>4, <1>5, DecidedSound DEF EvaluationSound, SameMemory
<1>7. PICK k : k = [e.state EXCEPT !.active = d.active, !.deadline = None]
  OBVIOUS
<1>8. k \in RuleStates /\ k.active = d.active /\ k.last = s /\ k.lastAt = s.at
  BY <1>1, <1>2, <1>4, <1>6, <1>7
     DEF EvaluationSound, SameMemory, Outcome, RuleStates, MaybeInstant
<1>9. rs' = [rs EXCEPT ![r] = k] /\ inc' = d.inc
  BY <1>2, <1>3, <1>5, <1>7 DEF EvaluateDeadline
<1>10. hist' \in [Rules -> Seq(Shows)]
  BY BreakTyped DEF EngineInd, Typed, EvaluateDeadline
<1>11. s.at <= k.lastAt
  BY <1>1, <1>2, <1>8, DatesAreNumbers
<1>12. /\ UNCHANGED <<scenario, clock, policy, observed, health, window>>
       /\ pending' \subseteq pending
  BY DEF EvaluateDeadline
<1>13. Outcome(r, s, inc', k.active)
  BY <1>6, <1>8, <1>9
<1>. QED  BY <1>1, <1>2, <1>8, <1>9, <1>10, <1>11, <1>12, <1>13, RuleStep
-----------------------------------------------------------------------------
(* Operators change the status of one incident and add to its timeline. *)
LEMMA TransitionTyped ==
    ASSUME EngineInd, NEW i \in 1 .. Len(inc), NEW to \in Statuses, NEW y \in Incidents,
           y.rule = inc[i].rule, y.detected = inc[i].detected, y.severity = inc[i].severity,
           y.status = to, Ordered(y),
           y.timeline = Append(inc[i].timeline, Entry(inc[i].status, to, inc[i].severity)),
           inc' = [inc EXCEPT ![i] = y], scenario' = scenario
    PROVE  /\ inc' \in Seq(Incidents) /\ Len(inc') = Len(inc) /\ inc'[i] = y
           /\ \A j \in 1 .. Len(inc) : j # i => inc'[j] = inc[j]
           /\ \A j \in 1 .. Len(inc) : inc'[j].detected = inc[j].detected
           /\ \A j \in 1 .. Len(inc') : (Ordered(inc[j]) /\ Chained(inc[j]))'
<1>. DEFINE e == Entry(inc[i].status, to, inc[i].severity)
<1>1. inc \in Seq(Incidents) /\ inc[i] \in Incidents /\ Chained(inc[i])
  BY DEF EngineInd, Typed
<1>2. e \in Entries /\ e.from = inc[i].status /\ e.to = to /\ e.severity = inc[i].severity
  BY <1>1 DEF Entry, Entries, Incidents
<1>. HIDE DEF e
<1>3. Chained(y)
  BY <1>1, <1>2, ChainGrows DEF Incidents, e
<1>4. /\ inc' \in Seq(Incidents) /\ Len(inc') = Len(inc) /\ inc'[i] = y
      /\ \A j \in 1 .. Len(inc) : j # i => inc'[j] = inc[j]
  BY <1>1
<1>5. \A j \in 1 .. Len(inc) : Ordered(inc'[j]) /\ Chained(inc'[j])
  BY <1>3, <1>4 DEF EngineInd
<1>6. \A j \in 1 .. Len(inc') : (Ordered(inc[j]) /\ Chained(inc[j]))'
  BY <1>4, <1>5 DEF Ordered, Chained
<1>. QED  BY <1>4, <1>6

(* Transition preserves the invariant. *)
LEMMA TransitionStep ==
    ASSUME EngineInd, NEW i \in 1 .. Len(inc), NEW from \in {"open", "acknowledged"},
           NEW to \in {"acknowledged", "investigating"}, Transition(i, from, to)
    PROVE  EngineInd'
<1>1. inc[i] \in Incidents /\ Ordered(inc[i]) /\ inc[i].status = from
  BY DEF EngineInd, Typed, Transition
<1>2. PICK t : t = Append(inc[i].timeline, Entry(from, to, inc[i].severity))
  OBVIOUS
<1>3. t \in Seq(Entries)
  BY <1>1, <1>2 DEF Incidents, Entry, Entries, Statuses
<1>4. PICK y : y = [inc[i] EXCEPT !.status = to, !.timeline = t]
  OBVIOUS
<1>5. /\ y \in Incidents /\ y.rule = inc[i].rule /\ y.detected = inc[i].detected
      /\ y.severity = inc[i].severity /\ y.status = to /\ y.timeline = t
      /\ y.latest = inc[i].latest /\ y.recovered = inc[i].recovered
  BY <1>1, <1>3, <1>4 DEF Incidents, Statuses
<1>6. Ordered(y)
  BY <1>1, <1>5 DEF Ordered
<1>7. inc' = [inc EXCEPT ![i] = y]
  BY <1>2, <1>4 DEF Transition
<1>8. /\ inc' \in Seq(Incidents) /\ Len(inc') = Len(inc) /\ inc'[i] = y
      /\ \A j \in 1 .. Len(inc) : j # i => inc'[j] = inc[j]
      /\ \A j \in 1 .. Len(inc) : inc'[j].detected = inc[j].detected
      /\ \A j \in 1 .. Len(inc') : (Ordered(inc[j]) /\ Chained(inc[j]))'
  <2>1. to \in Statuses /\ scenario' = scenario
    BY DEF Statuses, Transition
  <2>. QED  BY <1>1, <1>2, <1>5, <1>6, <1>7, <2>1, TransitionTyped
<1>9. Typed'
  BY <1>8, SameScenario DEF EngineInd, Typed, Transition
<1>10. \A r \in Rules : UnresolvedIn(inc, r)' = UnresolvedIn(inc, r)
  BY <1>1, <1>5, <1>8 DEF UnresolvedIn
<1>11. ASSUME NEW r \in Rules
       PROVE  Recalled(r)'
  <2>1. rs[r].active # 0 => rs[r].active \in 1 .. Len(inc)
    BY PointerSound
  <2>. QED  BY <1>8, <2>1, SameScenario DEF EngineInd, Recalled, Transition
<1>. QED  BY <1>8, <1>9, <1>10, <1>11, SameScenario DEF EngineInd, Transition

(* Resolve preserves the invariant. *)
LEMMA ResolveStep ==
    ASSUME EngineInd, NEW i \in 1 .. Len(inc), Resolve(i)
    PROVE  EngineInd'
<1>1. inc[i] \in Incidents /\ Ordered(inc[i]) /\ inc[i].status = "recovered"
  BY DEF EngineInd, Typed, Resolve
<1>2. PICK t : t = Append(inc[i].timeline, Entry("recovered", "resolved", inc[i].severity))
  OBVIOUS
<1>3. t \in Seq(Entries)
  BY <1>1, <1>2 DEF Incidents, Entry, Entries, Statuses
<1>4. PICK y : y = [inc[i] EXCEPT !.status = "resolved", !.resolved = clock, !.timeline = t]
  OBVIOUS
<1>5. /\ y \in Incidents /\ y.rule = inc[i].rule /\ y.detected = inc[i].detected
      /\ y.severity = inc[i].severity /\ y.status = "resolved" /\ y.timeline = t
      /\ y.latest = inc[i].latest /\ y.recovered = inc[i].recovered /\ y.resolved = clock
  BY <1>1, <1>3, <1>4 DEF Incidents, Statuses, EngineInd, Typed, MaybeInstant
<1>6. Ordered(y)
  BY <1>1, <1>5 DEF Ordered, Resolve
<1>7. inc' = [inc EXCEPT ![i] = y]
  BY <1>2, <1>4 DEF Resolve
<1>8. /\ inc' \in Seq(Incidents) /\ Len(inc') = Len(inc) /\ inc'[i] = y
      /\ \A j \in 1 .. Len(inc) : j # i => inc'[j] = inc[j]
      /\ \A j \in 1 .. Len(inc) : inc'[j].detected = inc[j].detected
      /\ \A j \in 1 .. Len(inc') : (Ordered(inc[j]) /\ Chained(inc[j]))'
  <2>1. "resolved" \in Statuses /\ scenario' = scenario
    BY DEF Statuses, Resolve
  <2>. QED  BY <1>1, <1>2, <1>5, <1>6, <1>7, <2>1, TransitionTyped
<1>9. /\ rs' \in [Rules -> RuleStates]
      /\ \A r \in Rules : IF rs[r].active = i THEN rs'[r] = [rs[r] EXCEPT !.active = 0]
                                              ELSE rs'[r] = rs[r]
  <2>1. \A r \in Rules : [rs[r] EXCEPT !.active = 0] \in RuleStates
    BY DEF EngineInd, Typed, RuleStates
  <2>. QED  BY <2>1 DEF EngineInd, Typed, Resolve, ReleaseFingerprint
<1>10. Typed'
  BY <1>8, <1>9, SameScenario DEF EngineInd, Typed, Resolve
<1>11. ASSUME NEW r \in Rules
       PROVE  UnresolvedIn(inc, r)' = {rs'[r].active} \ {0} /\ Recalled(r)'
  <2>1. rs[r] \in RuleStates /\ UnresolvedIn(inc, r) = {rs[r].active} \ {0} /\ Recalled(r)
    BY DEF EngineInd, Typed
  <2>2. UnresolvedIn(inc, r)' = UnresolvedIn(inc, r) \ {i}
    BY <1>5, <1>8 DEF UnresolvedIn
  <2>3. CASE rs[r].active = i
    <3>1. rs'[r].active = 0 /\ rs'[r].last = rs[r].last /\ rs'[r].lastAt = rs[r].lastAt
             /\ rs'[r].deadline = rs[r].deadline
      BY <1>9, <2>1, <2>3 DEF RuleStates
    <3>. QED  BY <2>1, <2>2, <2>3, <3>1, SameScenario DEF Recalled, Resolve
  <2>4. CASE rs[r].active # i
    <3>1. rs'[r] = rs[r]
      BY <1>9, <2>4
    <3>2. rs[r].active # 0 => rs[r].active \in 1 .. Len(inc)
      BY PointerSound
    <3>3. i \notin UnresolvedIn(inc, r)
      BY <2>1, <2>4
    <3>. QED  BY <1>8, <2>1, <2>2, <3>1, <3>2, <3>3, SameScenario DEF Recalled, Resolve
  <2>. QED  BY <2>3, <2>4
<1>. QED  BY <1>8, <1>10, <1>11, SameScenario DEF EngineInd, Resolve

-----------------------------------------------------------------------------

(* The invariant holds initially. *)
LEMMA InitSound == Init => EngineInd
<1>. SUFFICES ASSUME Init PROVE EngineInd
  OBVIOUS
<1>1. NewRuleState \in RuleStates
  BY DEF NewRuleState, RuleStates, MaybeInstant
<1>2. rs \in [Rules -> RuleStates] /\ \A r \in Rules : rs[r] = NewRuleState
  BY <1>1 DEF Init
<1>3. window \in WindowRows /\ window.expired
  BY DEF Init, NoWindow, WindowRows, MaybeInstant
<1>4. inc = <<>> /\ inc \in Seq(Incidents) /\ Len(inc) = 0
  BY DEF Init
<1>5. hist \in [Rules -> Seq(Shows)]
  BY DEF Init
<1>6. clock \in Instants
  BY EngineAssumption DEF Init, Instants
<1>7. policy \in [Rules -> Policies]
  <2>1. scenario \in DOMAIN Scenarios /\ policy = Created
    BY DEF Init
  <2>. QED  BY <2>1, EngineAssumption DEF Created, Rules, Policies
<1>8. Typed
  BY <1>2, <1>3, <1>4, <1>5, <1>6, <1>7 DEF Typed, Init
<1>9. ASSUME NEW r \in Rules
      PROVE  UnresolvedIn(inc, r) = {rs[r].active} \ {0} /\ Recalled(r)
  BY <1>2, <1>4 DEF UnresolvedIn, Recalled, NewRuleState, NoSignal
<1>. QED  BY <1>4, <1>8, <1>9 DEF EngineInd

(* So does a stuttering step. *)
LEMMA StutterSound ==
    ASSUME EngineInd, UNCHANGED vars
    PROVE  EngineInd'
<1>1. Typed'
  BY SameScenario DEF EngineInd, Typed, vars
<1>. QED  BY <1>1, QuietStep DEF vars

(* Every step preserves the invariant. *)
LEMMA NextStep ==
    ASSUME EngineInd, Next
    PROVE  EngineInd'
<1>1. CASE Produce
  BY <1>1, ObserveStep, ObserveAgainStep, FreshnessLapsesStep DEF Produce
<1>2. CASE Administer
  BY <1>2, CreateMaintenanceStep, ReplaceMaintenanceStep, RevokeMaintenanceStep, ReplaceRuleStep
     DEF Administer
<1>3. CASE Operate
  BY <1>3, TransitionStep, ResolveStep DEF Operate, Acknowledge, Investigate
<1>4. CASE ProcessOnce
  <2>1. ASSUME NEW s \in pending, ProcessSignal(s)
        PROVE  EngineInd'
    BY <2>1, SetAsideStep, SuppressSignalStep, EvaluateSignalStep DEF ProcessSignal
  <2>2. ASSUME NEW r \in Rules, ProcessOneDue(r)
        PROVE  EngineInd'
    BY <2>2, DropDeadlineStep, SuppressDeadlineStep, EvaluateDeadlineStep DEF ProcessOneDue
  <2>. QED  BY <1>4, <2>1, <2>2 DEF ProcessOnce
<1>. QED  BY <1>1, <1>2, <1>3, <1>4, ExpireWindowStep, TickStep DEF Next

(* The inductive invariant holds throughout. *)
THEOREM EngineIndHolds == Spec => []EngineInd
<1>1. Init => EngineInd
  BY InitSound
<1>2. EngineInd /\ [Next]_vars => EngineInd'
  BY NextStep, StutterSound
<1>. QED  BY <1>1, <1>2, PTL DEF Spec

(* Evaluator, operators and administrators, however they interleave, leave at
   most one unresolved incident per rule with the rule state pointing at it,
   never date a recovery before the detection or a resolution before the
   recovery, and keep every timeline a chain that ends in the present: for any
   rules, policies, windows and signals, in any order. *)
THEOREM EngineSafe == Spec => []EngineInv
<1>1. EngineInd => EngineInv
  <2>. SUFFICES ASSUME EngineInd PROVE EngineInv
    OBVIOUS
  <2>1. ASSUME NEW r \in Rules
        PROVE  /\ rs[r].active \in 0 .. Len(inc)
               /\ rs[r].last \in Signals \cup {NoSignal}
               /\ rs[r].lastState \in AllStates \cup {"none", "maintenance"}
               /\ {rs[r].lastAt, rs[r].matchingSince, rs[r].recoverySince, rs[r].deadline}
                     \subseteq MaybeInstant
               /\ rs[r].matching \in Nat /\ rs[r].recovering \in Nat
    <3>1. rs[r] \in RuleStates
      BY DEF EngineInd, Typed
    <3>2. rs[r].active \in 0 .. Len(inc)
      <4>1. Len(inc) \in Nat
        BY DEF EngineInd, Typed
      <4>. QED  BY <4>1, PointerSound
    <3>. QED  BY <3>1, <3>2 DEF RuleStates
  <2>2. ASSUME NEW i \in 1 .. Len(inc)
        PROVE  inc[i] \in Incidents /\ Ordered(inc[i]) /\ Chained(inc[i])
    BY DEF EngineInd, Typed
  <2>3. window.starts \in MaybeInstant /\ window.ends \in MaybeInstant
    BY DEF EngineInd, Typed, WindowRows
  <2>4. TypeOK
    <3>1. \A i \in 1 .. Len(inc) : /\ inc[i].rule \in Rules /\ inc[i].status \in Statuses
                                   /\ inc[i].severity \in Severities
      BY <2>2 DEF Incidents
    <3>. QED  BY <2>1, <2>3, <3>1 DEF TypeOK, EngineInd, Typed
  <2>5. ActivePointer
    BY DEF ActivePointer, EngineInd, Unresolved, UnresolvedIn
  <2>6. TimesOrdered
    BY <2>2 DEF TimesOrdered, Ordered
  <2>7. TimelineChain
    BY <2>2 DEF TimelineChain, Chained
  <2>. QED  BY <2>4, <2>5, <2>6, <2>7 DEF EngineInv
<1>. QED  BY <1>1, EngineIndHolds, PTL

-----------------------------------------------------------------------------
(* Maintenance windows that end. *)
LEMMA SignalLeft ==
    ASSUME NEW at, ExitSignals(at) \subseteq pending'
    PROVE  ExitSignalled
<1>1. ASSUME health # "none"
      PROVE  \E s \in pending' : s.kind = "maintenance_expiry" /\ s.state = health
  <2>. DEFINE s == [kind |-> "maintenance_expiry", state |-> health, code |-> NoCode,
                    at |-> at, avail |-> at]
  <2>1. s \in pending'
    BY <1>1 DEF ExitSignals
  <2>. QED  BY <2>1
<1>. QED  BY <1>1 DEF ExitSignalled

(* However the end of a running window comes about (the suppression worker,
   a revocation, a replacement of its interval or scope), the step leaves a
   signal of the current health for the rules. *)
THEOREM ActiveEndSignalled == Spec => ActiveEndIsSignalled
<1>. DEFINE Ends == WindowEnds /\ (window'.expired \/ clock < window.ends)
<1>1. ASSUME EngineInd, [Next]_vars, Ends
      PROVE  ExitSignalled
  <2>0. /\ window \in WindowRows /\ window' # window /\ window # NoWindow
        /\ window.starts <= clock /\ ~window.revoked /\ ~window.expired
        /\ window.scope # "elsewhere" /\ window.ends \notin window.signalled
    BY <1>1 DEF EngineInd, Typed, WindowEnds, NoWindow
  <2>1. CASE ExpireWindow
    <3>1. ExitSignals(window.ends) \subseteq pending'
      BY <2>0, <2>1 DEF ExpireWindow
    <3>. QED  BY <3>1, SignalLeft
  <2>2. CASE RevokeMaintenance
    <3>1. ~window'.expired
      BY <2>0, <2>2 DEF RevokeMaintenance, WindowRows
    <3>2. InMaintenance(clock)
      BY <1>1, <2>0, <3>1 DEF InMaintenance
    <3>3. ExitSignals(clock) \subseteq pending'
      BY <2>2, <3>2 DEF RevokeMaintenance
    <3>. QED  BY <3>3, SignalLeft
  <2>3. ASSUME NEW w \in Windows, ReplaceMaintenance(w)
        PROVE  ExitSignalled
    <3>1. /\ ~window'.expired /\ ~window'.revoked /\ window'.scope = w.scope
          /\ window'.starts = w.starts /\ window'.ends = w.ends
      BY <2>0, <2>3 DEF ReplaceMaintenance, WindowRows
    <3>2. InMaintenance(clock)
      BY <1>1, <2>0, <3>1 DEF InMaintenance
    <3>3. ~(w.starts <= clock /\ clock < w.ends) \/ w.scope # window.scope
      BY <1>1, <2>0, <3>1 DEF WindowEnds
    <3>4. ExitSignals(clock) \subseteq pending'
      BY <2>3, <3>2, <3>3 DEF ReplaceMaintenance
    <3>. QED  BY <3>4, SignalLeft
  <2>4. CASE Produce \/ Operate \/ Tick \/ UNCHANGED vars
    BY <2>0, <2>4 DEF Produce, Observe, ObserveAgain, FreshnessLapses, Operate, Acknowledge,
                      Investigate, Transition, Resolve, Tick, vars
  <2>5. CASE ProcessOnce
    <3>1. \A s \in pending : ProcessSignal(s) => window' = window
      <4>1. \A r, s, now : EvaluateSignal(r, s, now) => window' = window
        BY DEF EvaluateSignal
      <4>2. \A r, s : SuppressSignal(r, s) => window' = window
        BY DEF SuppressSignal
      <4>3. \A r, s : SkipOutOfOrder(r, s) \/ NoRule(s) => window' = window
        BY DEF SkipOutOfOrder, NoRule
      <4>. QED  BY <4>1, <4>2, <4>3, Zenon DEF ProcessSignal
    <3>2. \A r \in Rules : ProcessOneDue(r) => window' = window
      BY DEF ProcessOneDue, DropDeadline, SuppressDeadline, EvaluateDeadline
    <3>. QED  BY <2>0, <2>5, <3>1, <3>2 DEF ProcessOnce
  <2>6. CASE Administer
    BY <2>0, <2>2, <2>3, <2>6 DEF Administer, CreateMaintenance, ReplaceRule
  <2>. QED  BY <1>1, <2>1, <2>4, <2>5, <2>6 DEF Next
<1>2. EngineInd /\ [Next]_vars => [Ends => ExitSignalled]_vars
  BY <1>1
<1>. QED  BY <1>2, EngineIndHolds, PTL DEF Spec, ActiveEndIsSignalled

-----------------------------------------------------------------------------
(* The recount.  What the rule was shown last; nothing yet counts as a break. *)
Evidence == [class: {"recovery", "failure"}, state: AllStates, at: Instants]
Seen == Evidence \cup {Break}

AtEnd(h) == IF h = <<>> THEN Break ELSE h[Len(h)]

Recounted(h, k) ==
    LET class == AtEnd(h).class IN
    /\ class = "failure" => k.matching = Cardinality(Run(h)) /\ k.matchingSince = RunStart(h)
    /\ class # "failure" => k.matching = 0 /\ k.matchingSince = None
    /\ class = "recovery" => k.recovering = Cardinality(Run(h)) /\ k.recoverySince = RunStart(h)
    /\ class # "recovery" => k.recovering = 0 /\ k.recoverySince = None

(* The counters k of a rule that was shown h: a recount gives them; the state
   of the run is the one remembered; and a deadline stands only for the signal
   at the end of a run. *)
Counted(h, k) ==
    /\ h \in Seq(Seen)
    /\ Recounted(h, k)
    /\ AtEnd(h) # Break => k.lastState = AtEnd(h).state
    /\ k.deadline # None => AtEnd(h) # Break /\ k.last.state = AtEnd(h).state

CountsInd == \A r \in Rules : Counted(hist[r], rs[r])

(* Evidence is told apart from a break. *)
LEMMA EvidenceIsNoBreak ==
    /\ \A e \in Evidence : e # Break /\ e.class \in {"failure", "recovery"} /\ e.at \in Instants
    /\ Break.class = "break"
BY DEF Evidence, Break

(* A sequence ends in what was appended. *)
LEMMA AppendedAtEnd ==
    ASSUME NEW h \in Seq(Seen), NEW e \in Seen
    PROVE  /\ Append(h, e) \in Seq(Seen) /\ Append(h, e) # <<>>
           /\ Len(h) \in Nat /\ Len(Append(h, e)) = Len(h) + 1 /\ AtEnd(Append(h, e)) = e
           /\ Append(h, e)[Len(h) + 1] = e
           /\ \A n \in 1 .. Len(h) : Append(h, e)[n] = h[n]
BY DEF AtEnd

(* The run at the end is empty only after a break; it contains the end. *)
LEMMA RunAtEnd ==
    ASSUME NEW h \in Seq(Seen)
    PROVE  /\ Run(h) \subseteq 1 .. Len(h)
           /\ AtEnd(h) = Break => Run(h) = {}
           /\ AtEnd(h) # Break => Len(h) \in Run(h) /\ Len(h) \in Nat \ {0} /\ AtEnd(h) = h[Len(h)]
<1>1. CASE h = <<>>
  BY <1>1 DEF Run, AtEnd
<1>2. CASE h # <<>>
  <2>1. Len(h) \in Nat \ {0} /\ AtEnd(h) = h[Len(h)]
    BY <1>2 DEF AtEnd
  <2>2. \A m \in Len(h) .. Len(h) : m = Len(h)
    BY <2>1
  <2>. QED  BY <2>1, <2>2 DEF Run
<1>. QED  BY <1>1, <1>2

(* A run starts at the instant of its first signal. *)
LEMMA RunStartTyped ==
    ASSUME NEW h \in Seq(Seen), AtEnd(h) # Break
    PROVE  /\ Min(Run(h)) \in Run(h) /\ \A n \in Run(h) : Min(Run(h)) <= n
           /\ RunStart(h) \in Instants
<1>1. Run(h) \subseteq Nat /\ Run(h) # {}
  BY RunAtEnd
<1>2. Min(Run(h)) \in Run(h) /\ \A n \in Run(h) : Min(Run(h)) <= n
  BY <1>1, LeastOf
<1>3. PICK n : n = Min(Run(h))
  OBVIOUS
<1>4. n \in 1 .. Len(h) /\ n \in n .. Len(h) /\ h[n].class = h[Len(h)].class
  BY <1>2, <1>3 DEF Run
<1>5. h[Len(h)] \in Evidence /\ h[n] \in Seen
  BY <1>4, RunAtEnd DEF Seen
<1>6. h[n] \in Evidence
  BY <1>4, <1>5, EvidenceIsNoBreak DEF Seen
<1>7. RunStart(h) = h[n].at
  BY <1>3 DEF RunStart
<1>. QED  BY <1>2, <1>6, <1>7, EvidenceIsNoBreak

(* One more of the same makes the run longer by one and leaves its start. *)
LEMMA RunGoesOn ==
    ASSUME NEW h \in Seq(Seen), NEW e \in Evidence,
           AtEnd(h).class = e.class, AtEnd(h).state = e.state
    PROVE  /\ Cardinality(Run(Append(h, e))) = Cardinality(Run(h)) + 1
           /\ RunStart(Append(h, e)) = RunStart(h)
<1>1. PICK u : u = Append(h, e)
  OBVIOUS
<1>2. PICK n : n = Len(h)
  OBVIOUS
<1>3. AtEnd(h) # Break
  BY EvidenceIsNoBreak
<1>4. n \in Nat \ {0} /\ n \in Run(h) /\ AtEnd(h) = h[n] /\ Run(h) \subseteq 1 .. n
  BY <1>2, <1>3, RunAtEnd
<1>5. /\ Len(u) = n + 1 /\ u[n + 1] = e /\ e # Break
      /\ \A m \in 1 .. n : u[m] = h[m]
  BY <1>1, <1>2, AppendedAtEnd, EvidenceIsNoBreak DEF Seen
<1>6. \A m \in 1 .. n : m \in Run(u) <=> m \in Run(h)
  <2>1. ASSUME NEW m \in 1 .. n
        PROVE  m \in Run(u) <=> m \in Run(h)
    <3>1. m \in Run(h) <=> \A j \in m .. n : h[j].class = e.class /\ h[j].state = e.state
      BY <1>2, <1>3, <1>4 DEF Run
    <3>2. m \in Run(u) <=> \A j \in m .. n + 1 : u[j].class = e.class /\ u[j].state = e.state
      BY <1>4, <1>5 DEF Run
    <3>3. \A j \in m .. n + 1 : j \in m .. n \/ j = n + 1
      BY <1>4
    <3>4. \A j \in m .. n : j \in 1 .. n /\ j \in m .. n + 1
      BY <1>4
    <3>. QED  BY <1>5, <3>1, <3>2, <3>3, <3>4
  <2>. QED  BY <2>1
<1>7. n + 1 \in Run(u)
  <2>1. \A j \in n + 1 .. n + 1 : j = n + 1
    BY <1>4
  <2>. QED  BY <1>4, <1>5, <2>1 DEF Run
<1>8. Run(u) \subseteq 1 .. n + 1
  BY <1>5 DEF Run
<1>9. Run(u) = Run(h) \cup {n + 1} /\ n + 1 \notin Run(h)
  BY <1>4, <1>6, <1>7, <1>8
<1>10. Cardinality(Run(u)) = Cardinality(Run(h)) + 1
  <2>1. 1 \in Int /\ n \in Int
    BY <1>4
  <2>2. IsFiniteSet(1 .. n)
    BY <2>1, FS_Interval
  <2>3. IsFiniteSet(Run(h))
    BY <1>4, <2>2, FS_Subset
  <2>. QED  BY <1>9, <2>3, FS_AddElement
<1>11. RunStart(u) = RunStart(h)
  <2>1. PICK a : a = Min(Run(h))
    OBVIOUS
  <2>2. PICK b : b = Min(Run(u))
    OBVIOUS
  <2>3. a \in Run(h) /\ \A m \in Run(h) : a <= m
    BY <1>3, <2>1, RunStartTyped
  <2>4. b \in Run(u) /\ \A m \in Run(u) : b <= m
    BY <1>7, <1>8, <2>2, LeastOf
  <2>5. a \in 1 .. n /\ b \in 1 .. n + 1 /\ b <= a /\ b \in Run(h)
    BY <1>4, <1>8, <1>9, <2>3, <2>4
  <2>6. a = b
    BY <2>3, <2>5
  <2>. QED  BY <1>5, <2>1, <2>2, <2>5, <2>6 DEF RunStart
<1>. QED  BY <1>1, <1>10, <1>11

(* Anything else starts a run of its own, or none. *)
LEMMA RunBegins ==
    ASSUME NEW h \in Seq(Seen), NEW e \in Evidence,
           ~(AtEnd(h).class = e.class /\ AtEnd(h).state = e.state)
    PROVE  Cardinality(Run(Append(h, e))) = 1 /\ RunStart(Append(h, e)) = e.at
<1>1. PICK u : u = Append(h, e)
  OBVIOUS
<1>2. PICK n : n = Len(h)
  OBVIOUS
<1>3. /\ n \in Nat /\ Len(u) = n + 1 /\ u[n + 1] = e /\ e # Break
      /\ \A m \in 1 .. n : u[m] = h[m]
  BY <1>1, <1>2, AppendedAtEnd, EvidenceIsNoBreak DEF Seen
<1>4. n + 1 \in Run(u)
  <2>1. \A j \in n + 1 .. n + 1 : j = n + 1
    BY <1>3
  <2>. QED  BY <1>3, <2>1 DEF Run
<1>5. ASSUME NEW m \in Run(u)
      PROVE  m = n + 1
  <2>1. m \in 1 .. n + 1 /\ \A j \in m .. n + 1 : u[j].class = e.class /\ u[j].state = e.state
    BY <1>3 DEF Run
  <2>2. CASE n = 0
    BY <2>1, <2>2
  <2>3. CASE n # 0 /\ m # n + 1
    <3>1. n \in m .. n + 1 /\ n \in 1 .. n
      BY <1>3, <2>1, <2>3
    <3>2. h # <<>> /\ AtEnd(h) = u[n]
      BY <1>2, <1>3, <2>3, <3>1 DEF AtEnd
    <3>. QED  BY <2>1, <3>1, <3>2
  <2>. QED  BY <2>2, <2>3
<1>6. Run(u) = {n + 1}
  BY <1>4, <1>5
<1>7. Cardinality(Run(u)) = 1
  BY <1>6, FS_Singleton
<1>8. Min(Run(u)) = n + 1
  <2>1. Run(u) \subseteq Nat /\ Run(u) # {}
    BY <1>3, <1>6
  <2>. QED  BY <1>6, <2>1, LeastOf
<1>. QED  BY <1>1, <1>3, <1>7, <1>8 DEF RunStart

-----------------------------------------------------------------------------
(* What evaluate does to the counters, and what a verdict rests on. *)
RecoveryEvaluated(r, st, s, now, deadline, e) ==
    /\ e.state.matchingSince = None /\ e.state.matching = 0
    /\ deadline => e.state.recoverySince = st.recoverySince /\ e.state.recovering = st.recovering
    /\ ~deadline /\ GoesOn(st, s, st.recoverySince) =>
          e.state.recoverySince = st.recoverySince /\ e.state.recovering = st.recovering + 1
    /\ ~deadline /\ ~GoesOn(st, s, st.recoverySince) =>
          e.state.recoverySince = s.at /\ e.state.recovering = 1
    /\ e.verdict # "fail"
    /\ e.verdict = "recover" =>
          /\ e.state.recoverySince # None
          /\ e.state.recovering >= policy[r].recoveryMin
          /\ now >= Later(e.state.recoverySince, policy[r].recoveryFor)

FailureEvaluated(r, st, s, now, deadline, e) ==
    /\ e.state.recoverySince = None /\ e.state.recovering = 0
    /\ deadline => e.state.matchingSince = st.matchingSince /\ e.state.matching = st.matching
    /\ ~deadline /\ GoesOn(st, s, st.matchingSince) =>
          e.state.matchingSince = st.matchingSince /\ e.state.matching = st.matching + 1
    /\ ~deadline /\ ~GoesOn(st, s, st.matchingSince) =>
          e.state.matchingSince = s.at /\ e.state.matching = 1
    /\ e.verdict # "recover"
    /\ e.verdict = "fail" =>
          /\ e.state.matchingSince # None
          /\ e.state.matching >= Condition(r, s).min
          /\ now >= Later(e.state.matchingSince, Condition(r, s).for)

NothingEvaluated(e) ==
    /\ e.state.matchingSince = None /\ e.state.matching = 0
    /\ e.state.recoverySince = None /\ e.state.recovering = 0
    /\ e.state.deadline = None /\ e.verdict = "wait"

(* What evaluating a recovery does to the counters. *)
LEMMA EvaluatedRecovery ==
    ASSUME NEW r, NEW st \in RuleStates, NEW s, NEW now, NEW deadline \in BOOLEAN,
           s.state = policy[r].recovery,
           NEW e, e = Evaluate(r, st, s, now, deadline)
    PROVE  RecoveryEvaluated(r, st, s, now, deadline, e)
<1>1. e = EvaluateRecovery(r, st, s, now, deadline)
  BY DEF Evaluate
<1>. DEFINE goesOn == GoesOn(st, s, st.recoverySince)
            since == IF deadline \/ goesOn THEN st.recoverySince ELSE s.at
            count == IF deadline THEN st.recovering ELSE IF goesOn THEN st.recovering + 1 ELSE 1
            met == Met(since, count, policy[r].recoveryMin)
            due == Later(since, policy[r].recoveryFor)
<1>2. /\ e.state = [st EXCEPT !.matchingSince = None, !.matching = 0, !.recoverySince = since,
                              !.recovering = count, !.deadline = DueAt(met, now, due)]
      /\ e.verdict = IF met /\ now >= due THEN "recover" ELSE "wait"
  BY <1>1 DEF EvaluateRecovery
<1>3. /\ e.state.matchingSince = None /\ e.state.matching = 0
      /\ e.state.recoverySince = since /\ e.state.recovering = count
  <2>. HIDE DEF since, count, met, due
  <2>. QED  BY <1>2 DEF RuleStates
<1>4. e.verdict = "recover" => met /\ now >= due
  <2>. HIDE DEF met, due
  <2>. QED  BY <1>2
<1>5. met => since # None /\ count >= policy[r].recoveryMin
  <2>. HIDE DEF since, count
  <2>. QED  BY DEF Met
<1>6. e.verdict # "fail"
  <2>. HIDE DEF met, due
  <2>. QED  BY <1>2
<1>7. e.verdict = "recover" =>
         /\ e.state.recoverySince # None
         /\ e.state.recovering >= policy[r].recoveryMin
         /\ now >= Later(e.state.recoverySince, policy[r].recoveryFor)
  <2>. HIDE DEF since, count, met
  <2>. QED  BY <1>3, <1>4, <1>5
<1>. HIDE DEF goesOn
<1>8. /\ deadline => since = st.recoverySince /\ count = st.recovering
      /\ ~deadline /\ goesOn => since = st.recoverySince /\ count = st.recovering + 1
      /\ ~deadline /\ ~goesOn => since = s.at /\ count = 1
  OBVIOUS
<1>. QED
  <2>. HIDE DEF since, count
  <2>. QED  BY <1>3, <1>6, <1>7, <1>8 DEF goesOn, RecoveryEvaluated

(* What evaluating a failure does to the counters. *)
LEMMA EvaluatedFailure ==
    ASSUME NEW r, NEW st \in RuleStates, NEW s, NEW now, NEW deadline \in BOOLEAN,
           s.state # policy[r].recovery, HasCondition(r, s),
           NEW e, e = Evaluate(r, st, s, now, deadline)
    PROVE  FailureEvaluated(r, st, s, now, deadline, e)
<1>1. e = EvaluateFailure(r, st, s, now, deadline)
  BY DEF Evaluate
<1>. DEFINE goesOn == GoesOn(st, s, st.matchingSince)
            since == IF deadline \/ goesOn THEN st.matchingSince ELSE s.at
            count == IF deadline THEN st.matching ELSE IF goesOn THEN st.matching + 1 ELSE 1
            met == Met(since, count, Condition(r, s).min)
            due == Later(since, Condition(r, s).for)
<1>2. /\ e.state = [st EXCEPT !.recoverySince = None, !.recovering = 0, !.matchingSince = since,
                              !.matching = count, !.deadline = DueAt(met, now, due)]
      /\ e.verdict = IF met /\ now >= due THEN "fail" ELSE "wait"
  BY <1>1 DEF EvaluateFailure
<1>3. /\ e.state.recoverySince = None /\ e.state.recovering = 0
      /\ e.state.matchingSince = since /\ e.state.matching = count
  <2>. HIDE DEF since, count, met, due
  <2>. QED  BY <1>2 DEF RuleStates
<1>4. e.verdict = "fail" => met /\ now >= due
  <2>. HIDE DEF met, due
  <2>. QED  BY <1>2
<1>5. met => since # None /\ count >= Condition(r, s).min
  <2>. HIDE DEF since, count
  <2>. QED  BY DEF Met
<1>6. e.verdict # "recover"
  <2>. HIDE DEF met, due
  <2>. QED  BY <1>2
<1>7. e.verdict = "fail" =>
         /\ e.state.matchingSince # None
         /\ e.state.matching >= Condition(r, s).min
         /\ now >= Later(e.state.matchingSince, Condition(r, s).for)
  <2>. HIDE DEF since, count, met
  <2>. QED  BY <1>3, <1>4, <1>5
<1>. HIDE DEF goesOn
<1>8. /\ deadline => since = st.matchingSince /\ count = st.matching
      /\ ~deadline /\ goesOn => since = st.matchingSince /\ count = st.matching + 1
      /\ ~deadline /\ ~goesOn => since = s.at /\ count = 1
  OBVIOUS
<1>. QED
  <2>. HIDE DEF since, count
  <2>. QED  BY <1>3, <1>6, <1>7, <1>8 DEF goesOn, FailureEvaluated

(* A signal that is neither clears the counters and decides nothing. *)
LEMMA EvaluatedOther ==
    ASSUME NEW r, NEW st \in RuleStates, NEW s, NEW now, NEW deadline \in BOOLEAN,
           s.state # policy[r].recovery, ~HasCondition(r, s),
           NEW e, e = Evaluate(r, st, s, now, deadline)
    PROVE  NothingEvaluated(e)
<1>1. e.state = ClearedState(st) /\ e.verdict = "wait"
  BY DEF Evaluate
<1>. QED  BY <1>1 DEF ClearedState, RuleStates, NothingEvaluated

(* How a signal is classed. *)
LEMMA ShownClass ==
    ASSUME NEW r, NEW s \in Signals
    PROVE  /\ s.state = policy[r].recovery =>
                 Shown(r, s) = [class |-> "recovery", state |-> s.state, at |-> s.at]
           /\ s.state # policy[r].recovery /\ HasCondition(r, s) =>
                 Shown(r, s) = [class |-> "failure", state |-> s.state, at |-> s.at]
           /\ s.state # policy[r].recovery /\ ~HasCondition(r, s) => Shown(r, s) = Break
           /\ Shown(r, s) # Break => Shown(r, s) \in Evidence /\ Shown(r, s).state = s.state
           /\ Shown(r, s) \in Seen
<1>1. s.state \in AllStates /\ s.at \in Instants
  BY DEF Signals
<1>. QED  BY <1>1 DEF Shown, Seen, Evidence

-----------------------------------------------------------------------------
(* A break leaves nothing to count. *)
LEMMA BreakRecounted ==
    ASSUME NEW h \in Seq(Seen), NEW k, k.matching = 0, k.matchingSince = None,
           k.recovering = 0, k.recoverySince = None
    PROVE  /\ Append(h, Break) \in Seq(Seen) /\ AtEnd(Append(h, Break)) = Break
           /\ Recounted(Append(h, Break), k)
<1>1. Append(h, Break) \in Seq(Seen) /\ AtEnd(Append(h, Break)) = Break
  BY AppendedAtEnd DEF Seen
<1>. QED  BY <1>1, EvidenceIsNoBreak DEF Recounted

(* A run has begun exactly if the history ends in evidence of its class. *)
LEMMA SinceMeansRun ==
    ASSUME NEW h, NEW k, Counted(h, k)
    PROVE  /\ k.matchingSince # None <=> AtEnd(h).class = "failure"
           /\ k.recoverySince # None <=> AtEnd(h).class = "recovery"
           /\ AtEnd(h).class \in {"failure", "recovery"} =>
                 AtEnd(h) # Break /\ AtEnd(h).state = k.lastState
<1>1. \A t \in Instants : t # None
  BY DEF Instants, None
<1>2. AtEnd(h).class \in {"failure", "recovery"} => AtEnd(h) # Break
  BY EvidenceIsNoBreak
<1>3. AtEnd(h) # Break => RunStart(h) # None
  BY <1>1, RunStartTyped DEF Counted
<1>. QED  BY <1>2, <1>3 DEF Counted, Recounted

(* processSignal: the counters after evaluate are a recount of the history with
   the signal. *)
LEMMA SignalRecounted ==
    ASSUME EngineInd, CountsInd, NEW r \in Rules, NEW s \in Signals, NEW now
    PROVE  Recounted(Append(hist[r], Shown(r, s)), Evaluate(r, rs[r], s, now, FALSE).state)
<1>0. PICK e : e = Evaluate(r, rs[r], s, now, FALSE)
  OBVIOUS
<1>1. PICK h : h = hist[r]
  OBVIOUS
<1>2. PICK x : x = Shown(r, s)
  OBVIOUS
<1>3. PICK u : u = Append(h, x)
  OBVIOUS
<1>4. rs[r] \in RuleStates /\ Counted(h, rs[r]) /\ h \in Seq(Seen)
  BY <1>1 DEF EngineInd, Typed, CountsInd, Counted
<1>5. x \in Seen /\ AtEnd(u) = x
  BY <1>2, <1>3, <1>4, ShownClass, AppendedAtEnd
<1>. SUFFICES Recounted(u, e.state)
  BY <1>0, <1>1, <1>2, <1>3, Zenon
<1>6. CASE s.state = policy[r].recovery
  <2>0. RecoveryEvaluated(r, rs[r], s, now, FALSE, e)
    BY <1>0, <1>4, <1>6, EvaluatedRecovery, Zenon
  <2>1. x = [class |-> "recovery", state |-> s.state, at |-> s.at] /\ x \in Evidence
    BY <1>2, <1>6, ShownClass, EvidenceIsNoBreak
  <2>2. e.state.matchingSince = None /\ e.state.matching = 0
    BY <1>4, <1>6, <2>0 DEF RecoveryEvaluated
  <2>3. CASE GoesOn(rs[r], s, rs[r].recoverySince)
    <3>1. AtEnd(h).class = x.class /\ AtEnd(h).state = x.state
      BY <1>4, <2>1, <2>3, SinceMeansRun DEF GoesOn
    <3>2. Cardinality(Run(u)) = Cardinality(Run(h)) + 1 /\ RunStart(u) = RunStart(h)
      BY <1>3, <1>4, <2>1, <3>1, RunGoesOn
    <3>3. /\ e.state.recoverySince = rs[r].recoverySince
          /\ e.state.recovering = rs[r].recovering + 1
      BY <1>4, <1>6, <2>3, <2>0 DEF RecoveryEvaluated
    <3>4. rs[r].recovering = Cardinality(Run(h)) /\ rs[r].recoverySince = RunStart(h)
      BY <1>4, <2>1, <3>1 DEF Counted, Recounted
    <3>. QED  BY <1>5, <2>1, <2>2, <3>2, <3>3, <3>4 DEF Recounted
  <2>4. CASE ~GoesOn(rs[r], s, rs[r].recoverySince)
    <3>1. ~(AtEnd(h).class = x.class /\ AtEnd(h).state = x.state)
      BY <1>4, <2>1, <2>4, SinceMeansRun DEF GoesOn
    <3>2. Cardinality(Run(u)) = 1 /\ RunStart(u) = x.at
      BY <1>3, <1>4, <2>1, <3>1, RunBegins
    <3>3. e.state.recoverySince = s.at /\ e.state.recovering = 1
      BY <1>4, <1>6, <2>4, <2>0 DEF RecoveryEvaluated
    <3>. QED  BY <1>5, <2>1, <2>2, <3>2, <3>3 DEF Recounted
  <2>. QED  BY <2>3, <2>4
<1>7. CASE s.state # policy[r].recovery /\ HasCondition(r, s)
  <2>0. FailureEvaluated(r, rs[r], s, now, FALSE, e)
    BY <1>0, <1>4, <1>7, EvaluatedFailure, Zenon
  <2>1. x = [class |-> "failure", state |-> s.state, at |-> s.at] /\ x \in Evidence
    BY <1>2, <1>7, ShownClass, EvidenceIsNoBreak
  <2>2. e.state.recoverySince = None /\ e.state.recovering = 0
    BY <1>4, <1>7, <2>0 DEF FailureEvaluated
  <2>3. CASE GoesOn(rs[r], s, rs[r].matchingSince)
    <3>1. AtEnd(h).class = x.class /\ AtEnd(h).state = x.state
      BY <1>4, <2>1, <2>3, SinceMeansRun DEF GoesOn
    <3>2. Cardinality(Run(u)) = Cardinality(Run(h)) + 1 /\ RunStart(u) = RunStart(h)
      BY <1>3, <1>4, <2>1, <3>1, RunGoesOn
    <3>3. /\ e.state.matchingSince = rs[r].matchingSince
          /\ e.state.matching = rs[r].matching + 1
      BY <1>4, <1>7, <2>3, <2>0 DEF FailureEvaluated
    <3>4. rs[r].matching = Cardinality(Run(h)) /\ rs[r].matchingSince = RunStart(h)
      BY <1>4, <2>1, <3>1 DEF Counted, Recounted
    <3>. QED  BY <1>5, <2>1, <2>2, <3>2, <3>3, <3>4 DEF Recounted
  <2>4. CASE ~GoesOn(rs[r], s, rs[r].matchingSince)
    <3>1. ~(AtEnd(h).class = x.class /\ AtEnd(h).state = x.state)
      BY <1>4, <2>1, <2>4, SinceMeansRun DEF GoesOn
    <3>2. Cardinality(Run(u)) = 1 /\ RunStart(u) = x.at
      BY <1>3, <1>4, <2>1, <3>1, RunBegins
    <3>3. e.state.matchingSince = s.at /\ e.state.matching = 1
      BY <1>4, <1>7, <2>4, <2>0 DEF FailureEvaluated
    <3>. QED  BY <1>5, <2>1, <2>2, <3>2, <3>3 DEF Recounted
  <2>. QED  BY <2>3, <2>4
<1>8. CASE s.state # policy[r].recovery /\ ~HasCondition(r, s)
  <2>0. NothingEvaluated(e)
    BY <1>0, <1>4, <1>8, EvaluatedOther, Zenon
  <2>1. x = Break
    BY <1>2, <1>8, ShownClass
  <2>2. /\ e.state.matchingSince = None /\ e.state.matching = 0
        /\ e.state.recoverySince = None /\ e.state.recovering = 0
    BY <1>4, <1>8, <2>0 DEF NothingEvaluated
  <2>. QED  BY <1>3, <1>4, <2>1, <2>2, BreakRecounted
<1>. QED  BY <1>6, <1>7, <1>8

(* processOneDue: a deadline evaluation counts nothing; if the rule classes its
   last signal differently by now, the run is over. *)
LEMMA DeadlineRecounted ==
    ASSUME EngineInd, CountsInd, NEW r \in Rules, NEW now, DeadlineDue(r, now),
           NEW s, s = rs[r].last
    PROVE  LET e == Evaluate(r, rs[r], s, now, TRUE) IN
           /\ hist[r] # <<>> /\ AtEnd(hist[r]) # Break /\ s.state = AtEnd(hist[r]).state
           /\ hist[r][Len(hist[r])].class = Shown(r, s).class => Recounted(hist[r], e.state)
           /\ hist[r][Len(hist[r])].class # Shown(r, s).class =>
                 Recounted(Append(hist[r], Break), e.state)
<1>0. PICK e : e = Evaluate(r, rs[r], s, now, TRUE)
  OBVIOUS
<1>1. PICK h : h = hist[r]
  OBVIOUS
<1>. SUFFICES /\ h # <<>> /\ AtEnd(h) # Break /\ s.state = AtEnd(h).state
              /\ h[Len(h)].class = Shown(r, s).class => Recounted(h, e.state)
              /\ h[Len(h)].class # Shown(r, s).class => Recounted(Append(h, Break), e.state)
  BY <1>0, <1>1, Zenon
<1>2. /\ rs[r] \in RuleStates /\ s \in Signals /\ Counted(h, rs[r]) /\ h \in Seq(Seen)
      /\ AtEnd(h) # Break /\ s.state = AtEnd(h).state
  BY <1>1, DeadlineSound DEF CountsInd, Counted, DeadlineDue
<1>3. h # <<>> /\ AtEnd(h) = h[Len(h)] /\ AtEnd(h) \in Seen
  BY <1>2 DEF AtEnd
<1>4. AtEnd(h).class \in {"failure", "recovery"}
  BY <1>2, <1>3, EvidenceIsNoBreak DEF Seen
<1>. DEFINE class == AtEnd(h).class
<1>5. CASE s.state = policy[r].recovery
  <2>0. RecoveryEvaluated(r, rs[r], s, now, TRUE, e)
    BY <1>0, <1>2, <1>5, EvaluatedRecovery, Zenon
  <2>1. /\ e.state.matchingSince = None /\ e.state.matching = 0
        /\ e.state.recoverySince = rs[r].recoverySince /\ e.state.recovering = rs[r].recovering
    BY <1>2, <1>5, <2>0 DEF RecoveryEvaluated
  <2>2. Shown(r, s).class = "recovery"
    BY <1>2, <1>5, ShownClass
  <2>3. class = "recovery" => Recounted(h, e.state)
    BY <1>2, <2>1 DEF Counted, Recounted
  <2>4. class # "recovery" => Recounted(Append(h, Break), e.state)
    <3>1. class # "recovery" => e.state.recoverySince = None /\ e.state.recovering = 0
      BY <1>2, <2>1 DEF Counted, Recounted
    <3>. QED  BY <1>2, <2>1, <3>1, BreakRecounted
  <2>. QED  BY <1>1, <1>2, <1>3, <2>2, <2>3, <2>4
<1>6. CASE s.state # policy[r].recovery /\ HasCondition(r, s)
  <2>0. FailureEvaluated(r, rs[r], s, now, TRUE, e)
    BY <1>0, <1>2, <1>6, EvaluatedFailure, Zenon
  <2>1. /\ e.state.recoverySince = None /\ e.state.recovering = 0
        /\ e.state.matchingSince = rs[r].matchingSince /\ e.state.matching = rs[r].matching
    BY <1>2, <1>6, <2>0 DEF FailureEvaluated
  <2>2. Shown(r, s).class = "failure"
    BY <1>2, <1>6, ShownClass
  <2>3. class = "failure" => Recounted(h, e.state)
    BY <1>2, <2>1 DEF Counted, Recounted
  <2>4. class # "failure" => Recounted(Append(h, Break), e.state)
    <3>1. class # "failure" => e.state.matchingSince = None /\ e.state.matching = 0
      BY <1>2, <2>1 DEF Counted, Recounted
    <3>. QED  BY <1>2, <2>1, <3>1, BreakRecounted
  <2>. QED  BY <1>1, <1>2, <1>3, <2>2, <2>3, <2>4
<1>7. CASE s.state # policy[r].recovery /\ ~HasCondition(r, s)
  <2>0. NothingEvaluated(e)
    BY <1>0, <1>2, <1>7, EvaluatedOther, Zenon
  <2>1. /\ e.state.matchingSince = None /\ e.state.matching = 0
        /\ e.state.recoverySince = None /\ e.state.recovering = 0
    BY <1>2, <1>7, <2>0 DEF NothingEvaluated
  <2>2. Shown(r, s).class = "break"
    BY <1>2, <1>7, ShownClass, EvidenceIsNoBreak
  <2>3. Recounted(Append(h, Break), e.state)
    BY <1>2, <2>1, BreakRecounted
  <2>. QED  BY <1>1, <1>2, <1>3, <1>4, <2>2, <2>3
<1>. QED  BY <1>5, <1>6, <1>7

-----------------------------------------------------------------------------
(* Which steps touch counters and histories. *)
LEMMA CountStep ==
    ASSUME EngineInd, CountsInd, NEW r \in Rules, NEW u, NEW k, Counted(u, k),
           scenario' = scenario, rs' = [rs EXCEPT ![r] = k], hist' = [hist EXCEPT ![r] = u]
    PROVE  CountsInd'
<1>1. Rules' = Rules /\ Seen' = Seen
  BY SameScenario DEF Seen, Evidence
<1>2. rs'[r] = k /\ hist'[r] = u /\ \A j \in Rules : j # r => rs'[j] = rs[j] /\ hist'[j] = hist[j]
  BY DEF EngineInd, Typed
<1>3. \A j \in Rules : Counted(hist'[j], rs'[j])
  BY <1>2 DEF CountsInd
<1>. QED  BY <1>1, <1>3 DEF CountsInd, Counted

(* Steps that show no rule a signal leave the counts as they are. *)
LEMMA SameCounts ==
    ASSUME CountsInd, UNCHANGED <<scenario, rs, hist>>
    PROVE  CountsInd'
<1>1. Rules' = Rules /\ Seen' = Seen
  BY SameScenario DEF Seen, Evidence
<1>. QED  BY <1>1 DEF CountsInd, Counted

SameCounters(k, x) ==
    /\ k.matching = x.matching /\ k.matchingSince = x.matchingSince
    /\ k.recovering = x.recovering /\ k.recoverySince = x.recoverySince

(* A recount concerns only the four counters. *)
LEMMA Recopied ==
    ASSUME NEW u, NEW x, NEW k, Recounted(u, x), SameCounters(k, x)
    PROVE  Recounted(u, k)
BY DEF Recounted, SameCounters

(* A suppressed signal or deadline leaves cleared counters and a break. *)
LEMMA ClearedCounted ==
    ASSUME NEW h \in Seq(Seen), NEW st \in RuleStates, NEW k,
           SameCounters(k, ClearedState(st)), k.deadline = None
    PROVE  Counted(Append(h, Break), k)
<1>1. /\ k.matching = 0 /\ k.matchingSince = None
      /\ k.recovering = 0 /\ k.recoverySince = None
  BY DEF SameCounters, ClearedState, RuleStates
<1>. QED  BY <1>1, BreakRecounted DEF Counted

(* SuppressSignal preserves the counts. *)
LEMMA SuppressSignalCounts ==
    ASSUME EngineInd, CountsInd, NEW r \in Rules, NEW s \in pending, SuppressSignal(r, s)
    PROVE  CountsInd'
<1>1. rs[r] \in RuleStates /\ hist[r] \in Seq(Seen)
  BY DEF EngineInd, Typed, CountsInd, Counted
<1>2. PICK k : k = Suppressed(ClearedState(rs[r]), s)
  OBVIOUS
<1>3. SameCounters(k, ClearedState(rs[r])) /\ k.deadline = None
  BY <1>1, <1>2 DEF SameCounters, Suppressed, ClearedState, RuleStates
<1>4. Counted(Append(hist[r], Break), k)
  BY <1>1, <1>3, ClearedCounted
<1>5. /\ rs' = [rs EXCEPT ![r] = k] /\ hist' = [hist EXCEPT ![r] = Append(hist[r], Break)]
      /\ scenario' = scenario
  BY <1>2 DEF SuppressSignal, Suppressed
<1>. QED  BY <1>4, <1>5, CountStep

(* SuppressDeadline preserves the counts. *)
LEMMA SuppressDeadlineCounts ==
    ASSUME EngineInd, CountsInd, NEW r \in Rules, NEW now, SuppressDeadline(r, now)
    PROVE  CountsInd'
<1>1. rs[r] \in RuleStates /\ hist[r] \in Seq(Seen)
  BY DEF EngineInd, Typed, CountsInd, Counted
<1>2. PICK k : k = [ClearedState(rs[r]) EXCEPT !.lastState = "maintenance"]
  OBVIOUS
<1>3. SameCounters(k, ClearedState(rs[r])) /\ k.deadline = None
  BY <1>1, <1>2 DEF SameCounters, ClearedState, RuleStates
<1>4. Counted(Append(hist[r], Break), k)
  BY <1>1, <1>3, ClearedCounted
<1>5. /\ rs' = [rs EXCEPT ![r] = k] /\ hist' = [hist EXCEPT ![r] = Append(hist[r], Break)]
      /\ scenario' = scenario
  BY <1>2 DEF SuppressDeadline
<1>. QED  BY <1>4, <1>5, CountStep

(* DropDeadline preserves the counts. *)
LEMMA DropDeadlineCounts ==
    ASSUME EngineInd, CountsInd, NEW r \in Rules, NEW now, DropDeadline(r, now)
    PROVE  CountsInd'
<1>1. rs[r] \in RuleStates /\ Counted(hist[r], rs[r])
  BY DEF EngineInd, Typed, CountsInd
<1>2. PICK k : k = [rs[r] EXCEPT !.deadline = None]
  OBVIOUS
<1>3. SameCounters(k, rs[r]) /\ k.deadline = None /\ k.lastState = rs[r].lastState
  BY <1>1, <1>2 DEF SameCounters, RuleStates
<1>4. Counted(hist[r], k)
  BY <1>1, <1>3, Recopied DEF Counted
<1>5. /\ rs' = [rs EXCEPT ![r] = k] /\ hist' = [hist EXCEPT ![r] = hist[r]]
      /\ scenario' = scenario
  BY <1>2 DEF DropDeadline, EngineInd, Typed
<1>. QED  BY <1>4, <1>5, CountStep

(* EvaluateSignal preserves the counts. *)
LEMMA EvaluateSignalCounts ==
    ASSUME EngineInd, CountsInd, NEW r \in Rules, NEW s \in pending, NEW now \in Nows,
           EvaluateSignal(r, s, now)
    PROVE  CountsInd'
<1>1. s \in Signals /\ now \in Instants /\ rs[r] \in RuleStates /\ hist[r] \in Seq(Seen)
  BY DEF EngineInd, Typed, Nows, CountsInd, Counted
<1>2. PICK e : e = Evaluate(r, rs[r], s, now, FALSE)
  OBVIOUS
<1>3. PICK a : a = Decided(r, e.state, s, e.verdict).active
  OBVIOUS
<1>4. PICK k : k = Remembered(e.state, s, a)
  OBVIOUS
<1>5. PICK u : u = Append(hist[r], Shown(r, s))
  OBVIOUS
<1>6. e.state \in RuleStates
  BY <1>1, <1>2, EvaluateSound DEF EvaluationSound, SameMemory
<1>7. /\ SameCounters(k, e.state) /\ k.deadline = e.state.deadline
      /\ k.last = s /\ k.lastState = s.state
  BY <1>4, <1>6 DEF SameCounters, Remembered, RuleStates
<1>8. Recounted(u, e.state)
  BY <1>1, <1>2, <1>5, SignalRecounted, Zenon
<1>9. u \in Seq(Seen) /\ AtEnd(u) = Shown(r, s)
  BY <1>1, <1>5, ShownClass, AppendedAtEnd
<1>10. Shown(r, s) = Break => e.state.deadline = None
  <2>1. Shown(r, s) = Break => s.state # policy[r].recovery /\ ~HasCondition(r, s)
    BY <1>1, ShownClass DEF Break
  <2>2. s.state # policy[r].recovery /\ ~HasCondition(r, s) => NothingEvaluated(e)
    BY <1>1, <1>2, EvaluatedOther, Zenon
  <2>. QED  BY <2>1, <2>2 DEF NothingEvaluated
<1>11. Counted(u, k)
  <2>1. Recounted(u, k)
    BY <1>7, <1>8, Recopied
  <2>2. AtEnd(u) # Break => AtEnd(u).state = s.state
    BY <1>1, <1>9, ShownClass
  <2>. QED  BY <1>7, <1>9, <1>10, <2>1, <2>2 DEF Counted
<1>12. /\ rs' = [rs EXCEPT ![r] = k] /\ hist' = [hist EXCEPT ![r] = u]
       /\ scenario' = scenario
  BY <1>2, <1>3, <1>4, <1>5 DEF EvaluateSignal, Remembered
<1>. QED  BY <1>11, <1>12, CountStep

(* The history after a deadline evaluation. *)
AfterDeadline(r) ==
    IF hist[r] # <<>> /\ hist[r][Len(hist[r])].class # Shown(r, rs[r].last).class
    THEN Append(hist[r], Break) ELSE hist[r]

(* A deadline evaluates the remembered signal again: its recount is that of
   the same history, broken when the rule now classes the signal otherwise. *)
LEMMA AfterDeadlineRecounted ==
    ASSUME EngineInd, CountsInd, NEW r \in Rules, NEW now, DeadlineDue(r, now)
    PROVE  /\ AfterDeadline(r) \in Seq(Seen)
           /\ Recounted(AfterDeadline(r), Evaluate(r, rs[r], rs[r].last, now, TRUE).state)
           /\ AtEnd(AfterDeadline(r)) # Break =>
                 AtEnd(AfterDeadline(r)) = AtEnd(hist[r])
                    /\ AtEnd(AfterDeadline(r)).state = rs[r].last.state
<1>1. PICK e : e = Evaluate(r, rs[r], rs[r].last, now, TRUE)
  OBVIOUS
<1>2. PICK c : c = Shown(r, rs[r].last).class
  OBVIOUS
<1>3. hist[r] \in Seq(Seen)
  BY DEF CountsInd, Counted
<1>4. /\ hist[r] # <<>> /\ AtEnd(hist[r]) # Break /\ rs[r].last.state = AtEnd(hist[r]).state
      /\ hist[r][Len(hist[r])].class = c => Recounted(hist[r], e.state)
      /\ hist[r][Len(hist[r])].class # c => Recounted(Append(hist[r], Break), e.state)
  BY <1>1, <1>2, DeadlineRecounted, Zenon
<1>5. Append(hist[r], Break) \in Seq(Seen) /\ AtEnd(Append(hist[r], Break)) = Break
  BY <1>3, AppendedAtEnd DEF Seen
<1>6. /\ hist[r][Len(hist[r])].class = c => AfterDeadline(r) = hist[r]
      /\ hist[r][Len(hist[r])].class # c => AfterDeadline(r) = Append(hist[r], Break)
  BY <1>2, <1>4 DEF AfterDeadline
<1>7. Recounted(AfterDeadline(r), e.state)
  BY <1>4, <1>6, Zenon
<1>8. /\ AfterDeadline(r) \in Seq(Seen)
      /\ AtEnd(AfterDeadline(r)) # Break =>
            AtEnd(AfterDeadline(r)) = AtEnd(hist[r])
               /\ AtEnd(AfterDeadline(r)).state = rs[r].last.state
  BY <1>3, <1>4, <1>5, <1>6
<1>. QED  BY <1>1, <1>7, <1>8, Zenon

(* EvaluateDeadline preserves the counts. *)
LEMMA EvaluateDeadlineCounts ==
    ASSUME EngineInd, CountsInd, NEW r \in Rules, NEW now \in Nows, EvaluateDeadline(r, now)
    PROVE  CountsInd'
<1>1. /\ rs[r] \in RuleStates /\ rs[r].last \in Signals /\ now \in Instants
      /\ DeadlineDue(r, now) /\ Counted(hist[r], rs[r])
  BY DeadlineSound DEF EvaluateDeadline, Nows, CountsInd
<1>2. PICK e : e = Evaluate(r, rs[r], rs[r].last, now, TRUE)
  OBVIOUS
<1>3. PICK a : a = Decided(r, e.state, rs[r].last, e.verdict).active
  OBVIOUS
<1>4. PICK k : k = [e.state EXCEPT !.active = a, !.deadline = None]
  OBVIOUS
<1>5. PICK u : u = AfterDeadline(r)
  OBVIOUS
<1>6. e.state \in RuleStates /\ e.state.lastState = rs[r].lastState
  BY <1>1, <1>2, EvaluateSound DEF EvaluationSound, SameMemory
<1>7. SameCounters(k, e.state) /\ k.deadline = None /\ k.lastState = rs[r].lastState
  BY <1>4, <1>6 DEF SameCounters, RuleStates
<1>8. /\ u \in Seq(Seen) /\ Recounted(u, e.state)
      /\ AtEnd(u) # Break => AtEnd(u) = AtEnd(hist[r])
  BY <1>1, <1>2, <1>5, AfterDeadlineRecounted, Zenon
<1>9. Counted(u, k)
  <2>1. Recounted(u, k)
    BY <1>7, <1>8, Recopied
  <2>. QED  BY <1>1, <1>7, <1>8, <2>1 DEF Counted
<1>10. rs' = [rs EXCEPT ![r] = k] /\ scenario' = scenario
  BY <1>2, <1>3, <1>4 DEF EvaluateDeadline
<1>11. hist' = [hist EXCEPT ![r] = u]
  <2>1. hist \in [Rules -> Seq(Shows)]
    BY DEF EngineInd, Typed
  <2>2. hist' = IF hist[r] # <<>> /\ hist[r][Len(hist[r])].class # Shown(r, rs[r].last).class
                THEN [hist EXCEPT ![r] = Append(@, Break)] ELSE hist
    BY DEF EvaluateDeadline
  <2>. QED  BY <1>5, <2>1, <2>2 DEF AfterDeadline
<1>. QED  BY <1>9, <1>10, <1>11, CountStep

(* Resolve preserves the counts. *)
LEMMA ResolveCounts ==
    ASSUME EngineInd, CountsInd, NEW i, Resolve(i)
    PROVE  CountsInd'
<1>1. Rules' = Rules /\ Seen' = Seen /\ hist' = hist
  BY SameScenario DEF Seen, Evidence, Resolve
<1>2. ASSUME NEW r \in Rules
      PROVE  Counted(hist[r], rs'[r])
  <2>1. rs[r] \in RuleStates /\ Counted(hist[r], rs[r])
    BY DEF EngineInd, Typed, CountsInd
  <2>2. rs'[r] = IF rs[r].active = i THEN [rs[r] EXCEPT !.active = 0] ELSE rs[r]
    BY DEF Resolve, ReleaseFingerprint
  <2>3. PICK k : k = rs'[r]
    OBVIOUS
  <2>4. /\ SameCounters(k, rs[r]) /\ k.deadline = rs[r].deadline
        /\ k.lastState = rs[r].lastState /\ k.last = rs[r].last
    BY <2>1, <2>2, <2>3 DEF SameCounters, RuleStates
  <2>5. Recounted(hist[r], k)
    BY <2>1, <2>4, Recopied DEF Counted
  <2>. QED  BY <2>1, <2>3, <2>4, <2>5 DEF Counted
<1>. QED  BY <1>1, <1>2 DEF CountsInd, Counted

-----------------------------------------------------------------------------

(* Nothing is counted at first. *)
LEMMA CountsInit == Init => CountsInd
<1>. SUFFICES ASSUME Init, NEW r \in Rules PROVE Counted(hist[r], rs[r])
  BY DEF CountsInd
<1>1. hist[r] = <<>> /\ rs[r] = NewRuleState
  BY DEF Init
<1>2. hist[r] \in Seq(Seen) /\ AtEnd(hist[r]) = Break
  BY <1>1 DEF AtEnd
<1>3. Recounted(hist[r], rs[r])
  BY <1>1, <1>2, EvidenceIsNoBreak DEF Recounted, NewRuleState
<1>. QED  BY <1>1, <1>2, <1>3 DEF Counted, NewRuleState

(* Every step preserves the counts. *)
LEMMA CountsNext ==
    ASSUME EngineInd, CountsInd, [Next]_vars
    PROVE  CountsInd'
<1>1. CASE Produce \/ Administer \/ ExpireWindow \/ Tick \/ UNCHANGED vars
  <2>1. UNCHANGED <<scenario, rs, hist>>
    BY <1>1 DEF Produce, Observe, ObserveAgain, FreshnessLapses, Administer, CreateMaintenance,
                ReplaceMaintenance, RevokeMaintenance, ReplaceRule, ExpireWindow, Tick, vars
  <2>. QED  BY <2>1, SameCounts
<1>2. CASE Operate
  <2>1. \A i \in 1 .. Len(inc) : Acknowledge(i) \/ Investigate(i) => UNCHANGED <<scenario, rs, hist>>
    BY DEF Acknowledge, Investigate, Transition
  <2>. QED  BY <1>2, <2>1, SameCounts, ResolveCounts DEF Operate
<1>3. CASE ProcessOnce
  <2>1. ASSUME NEW s \in pending, ProcessSignal(s)
        PROVE  CountsInd'
    <3>1. \A r : NoRule(s) \/ SkipOutOfOrder(r, s) => UNCHANGED <<scenario, rs, hist>>
      BY DEF NoRule, SkipOutOfOrder
    <3>. QED  BY <2>1, <3>1, SameCounts, SuppressSignalCounts, EvaluateSignalCounts
              DEF ProcessSignal
  <2>2. ASSUME NEW r \in Rules, ProcessOneDue(r)
        PROVE  CountsInd'
    BY <2>2, DropDeadlineCounts, SuppressDeadlineCounts, EvaluateDeadlineCounts DEF ProcessOneDue
  <2>. QED  BY <1>3, <2>1, <2>2 DEF ProcessOnce
<1>. QED  BY <1>1, <1>2, <1>3 DEF Next

(* The inductive invariant of the counts holds: the counters are a recount of
   the signals shown, and a standing deadline belongs to the last of them, in
   every state of the evaluator. *)
THEOREM CountsIndHolds == Spec => []CountsInd
<1>1. EngineInd /\ CountsInd /\ [Next]_vars => CountsInd'
  BY CountsNext
<1>. QED  BY <1>1, CountsInit, EngineIndHolds, PTL DEF Spec

(* The counters and instants of every rule state are what a recount of the
   signals the rule was shown would give, through suppressions, deadlines,
   re-classed evidence and replaced rules: for any rules, policies and
   signals. *)
THEOREM CountersRecounted == Spec => []CountersMatchHistory
<1>1. CountsInd => CountersMatchHistory
  <2>. SUFFICES ASSUME CountsInd, NEW r \in Rules
                PROVE  LET h == hist[r]
                           run == Run(h)
                           class == IF run = {} THEN "break" ELSE h[Len(h)].class
                           start == IF run = {} THEN None ELSE RunStart(h) IN
                       /\ rs[r].matching = (IF class = "failure" THEN Cardinality(run) ELSE 0)
                       /\ rs[r].matchingSince = (IF class = "failure" THEN start ELSE None)
                       /\ rs[r].recovering = (IF class = "recovery" THEN Cardinality(run) ELSE 0)
                       /\ rs[r].recoverySince = (IF class = "recovery" THEN start ELSE None)
    BY DEF CountersMatchHistory
  <2>1. PICK h : h = hist[r]
    OBVIOUS
  <2>2. h \in Seq(Seen) /\ Recounted(h, rs[r])
    BY <2>1 DEF CountsInd, Counted
  <2>3. CASE AtEnd(h) = Break
    <3>1. Run(h) = {} /\ AtEnd(h).class = "break"
      BY <2>2, <2>3, RunAtEnd, EvidenceIsNoBreak
    <3>2. /\ rs[r].matching = 0 /\ rs[r].matchingSince = None
          /\ rs[r].recovering = 0 /\ rs[r].recoverySince = None
      BY <2>2, <3>1 DEF Recounted
    <3>. QED  BY <2>1, <3>1, <3>2
  <2>4. CASE AtEnd(h) # Break
    <3>1. Run(h) # {} /\ AtEnd(h) = h[Len(h)]
      BY <2>2, <2>4, RunAtEnd
    <3>. QED  BY <2>1, <2>2, <3>1 DEF Recounted
  <2>. QED  BY <2>3, <2>4
<1>. QED  BY <1>1, CountsIndHolds, PTL

-----------------------------------------------------------------------------
(* What a verdict rests on, in terms of the history. *)
Enough(h, class, min, for, now) ==
    /\ AtEnd(h) # Break /\ AtEnd(h).class = class
    /\ Cardinality(Run(h)) >= min
    /\ now >= Later(RunStart(h), for)

VerdictRests(r, s, now, e, u) ==
    /\ e.verdict = "fail" => Enough(u, "failure", Condition(r, s).min, Condition(r, s).for, now)
    /\ e.verdict = "recover" =>
          Enough(u, "recovery", policy[r].recoveryMin, policy[r].recoveryFor, now)

(* A verdict rests on a run long enough and old enough. *)
LEMMA VerdictEarned ==
    ASSUME NEW r, NEW st \in RuleStates, NEW s, NEW now, NEW deadline \in BOOLEAN,
           NEW e, e = Evaluate(r, st, s, now, deadline), NEW u, Recounted(u, e.state)
    PROVE  VerdictRests(r, s, now, e, u)
<1>0. AtEnd(u).class # "break" => AtEnd(u) # Break
  BY EvidenceIsNoBreak
<1>1. CASE s.state = policy[r].recovery
  <2>1. RecoveryEvaluated(r, st, s, now, deadline, e)
    BY <1>1, EvaluatedRecovery
  <2>2. e.verdict # "fail"
    BY <2>1 DEF RecoveryEvaluated
  <2>3. ASSUME e.verdict = "recover"
        PROVE  /\ e.state.recoverySince # None
               /\ e.state.recovering >= policy[r].recoveryMin
               /\ now >= Later(e.state.recoverySince, policy[r].recoveryFor)
    BY <2>1, <2>3 DEF RecoveryEvaluated
  <2>4. e.state.recoverySince # None =>
           /\ AtEnd(u).class = "recovery"
           /\ e.state.recovering = Cardinality(Run(u)) /\ e.state.recoverySince = RunStart(u)
    BY DEF Recounted
  <2>. QED  BY <1>0, <2>2, <2>3, <2>4 DEF VerdictRests, Enough
<1>2. CASE s.state # policy[r].recovery /\ HasCondition(r, s)
  <2>1. FailureEvaluated(r, st, s, now, deadline, e)
    BY <1>2, EvaluatedFailure
  <2>2. e.verdict # "recover"
    BY <2>1 DEF FailureEvaluated
  <2>3. ASSUME e.verdict = "fail"
        PROVE  /\ e.state.matchingSince # None
               /\ e.state.matching >= Condition(r, s).min
               /\ now >= Later(e.state.matchingSince, Condition(r, s).for)
    BY <2>1, <2>3 DEF FailureEvaluated
  <2>4. e.state.matchingSince # None =>
           /\ AtEnd(u).class = "failure"
           /\ e.state.matching = Cardinality(Run(u)) /\ e.state.matchingSince = RunStart(u)
    BY DEF Recounted
  <2>. QED  BY <1>0, <2>2, <2>3, <2>4 DEF VerdictRests, Enough
<1>3. CASE s.state # policy[r].recovery /\ ~HasCondition(r, s)
  <2>1. NothingEvaluated(e)
    BY <1>3, EvaluatedOther
  <2>. QED  BY <2>1 DEF NothingEvaluated, VerdictRests
<1>. QED  BY <1>1, <1>2, <1>3

(* Which incidents a verdict opens or recovers: the one of the rule. *)
StatusIn(q, i) == IF i \in 1 .. Len(q) THEN q[i].status ELSE "none"

OnlyAsDecided(r, verdict, q) ==
    \A i \in 1 .. Len(q) :
        /\ q[i].status = "open" /\ StatusIn(inc, i) # "open" => verdict = "fail" /\ q[i].rule = r
        /\ q[i].status = "recovered" /\ StatusIn(inc, i) # "recovered" =>
              verdict = "recover" /\ q[i].rule = r

(* Replacing one incident opens or recovers no other. *)
LEMMA ReplacedOnly ==
    ASSUME EngineInd, NEW r \in Rules, NEW y, NEW verdict, NEW a \in 1 .. Len(inc),
           y.rule = r,
           y.status = "open" => inc[a].status = "open" \/ verdict = "fail",
           y.status = "recovered" => inc[a].status = "recovered" \/ verdict = "recover"
    PROVE  OnlyAsDecided(r, verdict, [inc EXCEPT ![a] = y])
<1>1. inc \in Seq(Incidents)
  BY DEF EngineInd, Typed
<1>2. PICK q : q = [inc EXCEPT ![a] = y]
  OBVIOUS
<1>3. Len(q) = Len(inc) /\ q[a] = y /\ \A i \in 1 .. Len(inc) : i # a => q[i] = inc[i]
  BY <1>1, <1>2
<1>4. OnlyAsDecided(r, verdict, q)
  BY <1>3 DEF OnlyAsDecided, StatusIn
<1>. QED  BY <1>2, <1>4

(* Incidents are opened and recovered only as the verdict says. *)
LEMMA DecidedOnly ==
    ASSUME EngineInd, NEW r \in Rules, NEW s \in Signals,
           NEW st, st.active = rs[r].active,
           NEW verdict, verdict = "fail" => HasCondition(r, s)
    PROVE  OnlyAsDecided(r, verdict, Decided(r, st, s, verdict).inc)
<1>. DEFINE a == rs[r].active
<1>0. /\ a = 0 => Unresolved(r) = {}
      /\ a # 0 => a \in 1 .. Len(inc) /\ inc[a].status # "resolved"
  BY PointerSound
<1>1. a # 0 => inc[a].rule = r /\ inc[a] \in Incidents
  <2>1. a # 0 => a \in UnresolvedIn(inc, r)
    BY DEF EngineInd
  <2>. QED  BY <1>0, <2>1 DEF UnresolvedIn, EngineInd, Typed
<1>2. CASE verdict = "fail" /\ a = 0
  <2>1. Decided(r, st, s, verdict).inc = Append(inc, NewIncident(r, s))
    BY <1>0, <1>2 DEF Decided
  <2>2. PICK x : x = NewIncident(r, s)
    OBVIOUS
  <2>3. x.rule = r /\ x.status = "open"
    BY <2>2 DEF NewIncident
  <2>4. inc \in Seq(Incidents) /\ Len(inc) \in Nat
    BY DEF EngineInd, Typed
  <2>5. PICK q : q = Append(inc, x)
    OBVIOUS
  <2>6. /\ Len(q) = Len(inc) + 1 /\ q[Len(inc) + 1] = x
        /\ \A i \in 1 .. Len(inc) : q[i] = inc[i]
    BY <2>4, <2>5
  <2>7. \A i \in 1 .. Len(q) : i \in 1 .. Len(inc) \/ i = Len(inc) + 1
    BY <2>4, <2>6
  <2>8. OnlyAsDecided(r, verdict, q)
    BY <1>2, <2>3, <2>6, <2>7 DEF OnlyAsDecided, StatusIn
  <2>. QED  BY <2>1, <2>2, <2>5, <2>8
<1>3. CASE verdict = "fail" /\ a # 0
  <2>1. Decided(r, st, s, verdict).inc = [inc EXCEPT ![a] = UpdatedIncident(a, r, st, s)]
    BY <1>3 DEF Decided
  <2>2. PICK y : y = UpdatedIncident(a, r, st, s)
    OBVIOUS
  <2>3. y.rule = r
    BY <1>0, <1>1, <1>3, <2>2, UpdatedSound DEF Continues
  <2>4. y.status = "recovered" => inc[a].status = "recovered"
    BY <1>1, <1>3, <2>2 DEF UpdatedIncident, Incidents
  <2>5. OnlyAsDecided(r, verdict, [inc EXCEPT ![a] = y])
    BY <1>0, <1>3, <2>3, <2>4, ReplacedOnly
  <2>. QED  BY <2>1, <2>2, <2>5
<1>4. CASE verdict = "recover" /\ a # 0 /\ inc[a].status # "recovered"
  <2>1. Decided(r, st, s, verdict).inc = [inc EXCEPT ![a] = RecoveredIncident(a, s)]
    BY <1>0, <1>4 DEF Decided
  <2>2. PICK y : y = RecoveredIncident(a, s)
    OBVIOUS
  <2>3. y.rule = r /\ y.status = "recovered"
    BY <1>1, <1>4, <2>2 DEF RecoveredIncident, Incidents
  <2>4. OnlyAsDecided(r, verdict, [inc EXCEPT ![a] = y])
    BY <1>0, <1>4, <2>3, ReplacedOnly
  <2>. QED  BY <2>1, <2>2, <2>4
<1>5. CASE ~(verdict = "fail") /\ ~(verdict = "recover" /\ a # 0 /\ inc[a].status # "recovered")
  <2>1. Decided(r, st, s, verdict).inc = inc
    BY <1>5 DEF Decided
  <2>. QED  BY <2>1 DEF OnlyAsDecided, StatusIn
<1>. QED  BY <1>2, <1>3, <1>4, <1>5

(* What ChangesAreEarned asks of a step, for the incident at i. *)
EarnedAt(i) ==
    LET r == inc'[i].rule
        h == hist'[r] IN
    /\ (inc'[i].status = "open" /\ StatusIn(inc, i) # "open") =>
          LET c == policy[r].condition[h[Len(h)].state] IN
          /\ h[Len(h)].class = "failure"
          /\ Cardinality(Run(h)) >= c.min /\ clock >= Later(RunStart(h), c.for)
    /\ (inc'[i].status = "recovered" /\ StatusIn(inc, i) # "recovered") =>
          /\ h[Len(h)].class = "recovery"
          /\ Cardinality(Run(h)) >= policy[r].recoveryMin
          /\ clock >= Later(RunStart(h), policy[r].recoveryFor)

(* An evaluation opens and recovers only what was earned. *)
LEMMA StepEarned ==
    ASSUME EngineInd, NEW r \in Rules, NEW s \in Signals, NEW now \in Nows, NEW e, NEW u,
           VerdictRests(r, s, now, e, u), EvaluationSound(r, s, e), u \in Seq(Seen),
           hist'[r] = u, OnlyAsDecided(r, e.verdict, inc'),
           AtEnd(u) # Break => AtEnd(u).state = s.state
    PROVE  \A i \in 1 .. Len(inc') : EarnedAt(i)
<1>1. now <= clock /\ now \in Int /\ clock \in Int
  BY DEF EngineInd, Typed, Nows, Instants
<1>2. policy[r] \in Policies
  BY DEF EngineInd, Typed
<1>3. AtEnd(u) # Break => u[Len(u)] = AtEnd(u) /\ RunStart(u) \in Instants
  BY RunAtEnd, RunStartTyped
<1>4. ASSUME e.verdict = "fail"
      PROVE  LET c == policy[r].condition[u[Len(u)].state] IN
             /\ u[Len(u)].class = "failure"
             /\ Cardinality(Run(u)) >= c.min /\ clock >= Later(RunStart(u), c.for)
  <2>1. Enough(u, "failure", Condition(r, s).min, Condition(r, s).for, now) /\ HasCondition(r, s)
    BY <1>4 DEF VerdictRests, EvaluationSound
  <2>2. u[Len(u)].state = s.state /\ u[Len(u)].class = "failure" /\ RunStart(u) \in Instants
    BY <1>3, <2>1 DEF Enough
  <2>3. Condition(r, s).for \in Nat
    BY <1>2, <2>1, Instance DEF EngineInd, HasCondition, Condition
  <2>4. Later(RunStart(u), Condition(r, s).for) \in Int
    BY <2>2, <2>3, LaterTyped DEF Instants
  <2>5. clock >= Later(RunStart(u), Condition(r, s).for)
    BY <1>1, <2>1, <2>4 DEF Enough
  <2>. QED  BY <2>1, <2>2, <2>5 DEF Enough, Condition
<1>5. ASSUME e.verdict = "recover"
      PROVE  /\ u[Len(u)].class = "recovery"
             /\ Cardinality(Run(u)) >= policy[r].recoveryMin
             /\ clock >= Later(RunStart(u), policy[r].recoveryFor)
  <2>1. Enough(u, "recovery", policy[r].recoveryMin, policy[r].recoveryFor, now)
    BY <1>5 DEF VerdictRests
  <2>2. u[Len(u)].class = "recovery" /\ RunStart(u) \in Instants
    BY <1>3, <2>1 DEF Enough
  <2>3. policy[r].recoveryFor \in Nat
    BY <1>2, Instance DEF EngineInd
  <2>4. Later(RunStart(u), policy[r].recoveryFor) \in Int
    BY <2>2, <2>3, LaterTyped DEF Instants
  <2>. QED  BY <1>1, <2>1, <2>2, <2>4 DEF Enough
<1>. QED  BY <1>4, <1>5 DEF EarnedAt, OnlyAsDecided

(* Steps that leave every status, or make it neither open nor recovered. *)
LEMMA NothingOpened ==
    ASSUME \A i \in 1 .. Len(inc') :
              inc'[i].status \in {"open", "recovered"} => StatusIn(inc, i) = inc'[i].status
    PROVE  \A i \in 1 .. Len(inc') : EarnedAt(i)
BY DEF EarnedAt

(* So does every step. *)
LEMMA EarnedStep ==
    ASSUME EngineInd, CountsInd, [Next]_vars
    PROVE  \A i \in 1 .. Len(inc') : EarnedAt(i)
<1>1. ASSUME inc' = inc
      PROVE  \A i \in 1 .. Len(inc') : EarnedAt(i)
  BY <1>1, NothingOpened DEF StatusIn
<1>2. CASE Produce \/ Administer \/ ExpireWindow \/ Tick \/ UNCHANGED vars
  <2>1. inc' = inc
    BY <1>2 DEF Produce, Observe, ObserveAgain, FreshnessLapses, Administer, CreateMaintenance,
                ReplaceMaintenance, RevokeMaintenance, ReplaceRule, ExpireWindow, Tick, vars
  <2>. QED  BY <1>1, <2>1
<1>3. ASSUME NEW i \in 1 .. Len(inc), NEW y, inc' = [inc EXCEPT ![i] = y],
             y.status \notin {"open", "recovered"}
      PROVE  \A j \in 1 .. Len(inc') : EarnedAt(j)
  <2>1. inc \in Seq(Incidents)
    BY DEF EngineInd, Typed
  <2>2. Len(inc') = Len(inc) /\ inc'[i] = y /\ \A j \in 1 .. Len(inc) : j # i => inc'[j] = inc[j]
    BY <1>3, <2>1
  <2>. QED  BY <1>3, <2>2, NothingOpened DEF StatusIn
<1>4. CASE Operate
  <2>1. PICK i \in 1 .. Len(inc) : Acknowledge(i) \/ Investigate(i) \/ Resolve(i)
    BY <1>4 DEF Operate
  <2>2. inc[i] \in Incidents
    BY DEF EngineInd, Typed
  <2>3. CASE Acknowledge(i)
    <3>1. PICK y : y = [inc[i] EXCEPT !.status = "acknowledged",
                  !.timeline = Append(inc[i].timeline,
                                      Entry("open", "acknowledged", inc[i].severity))]
      OBVIOUS
    <3>2. inc' = [inc EXCEPT ![i] = y] /\ y.status = "acknowledged"
      BY <2>2, <2>3, <3>1 DEF Acknowledge, Transition, Incidents
    <3>. QED  BY <1>3, <3>2
  <2>4. CASE Investigate(i)
    <3>1. PICK y : y = [inc[i] EXCEPT !.status = "investigating",
                  !.timeline = Append(inc[i].timeline,
                                      Entry("acknowledged", "investigating", inc[i].severity))]
      OBVIOUS
    <3>2. inc' = [inc EXCEPT ![i] = y] /\ y.status = "investigating"
      BY <2>2, <2>4, <3>1 DEF Investigate, Transition, Incidents
    <3>. QED  BY <1>3, <3>2
  <2>5. CASE Resolve(i)
    <3>1. PICK y : y = [inc[i] EXCEPT !.status = "resolved", !.resolved = clock,
                  !.timeline = Append(inc[i].timeline,
                                      Entry("recovered", "resolved", inc[i].severity))]
      OBVIOUS
    <3>2. inc' = [inc EXCEPT ![i] = y] /\ y.status = "resolved"
      BY <2>2, <2>5, <3>1 DEF Resolve, Incidents
    <3>. QED  BY <1>3, <3>2
  <2>. QED  BY <2>1, <2>3, <2>4, <2>5
<1>5. ASSUME NEW s \in pending, NEW r \in Rules, NEW now \in Nows, EvaluateSignal(r, s, now)
      PROVE  \A i \in 1 .. Len(inc') : EarnedAt(i)
  <2>1. s \in Signals /\ now \in Instants /\ rs[r] \in RuleStates /\ hist[r] \in Seq(Seen)
    BY DEF EngineInd, Typed, Nows, CountsInd, Counted
  <2>2. PICK e : e = Evaluate(r, rs[r], s, now, FALSE)
    OBVIOUS
  <2>3. PICK u : u = Append(hist[r], Shown(r, s))
    OBVIOUS
  <2>4. EvaluationSound(r, s, e)
    BY <2>1, <2>2, EvaluateSound
  <2>5. Recounted(u, e.state)
    BY <2>1, <2>2, <2>3, SignalRecounted, Zenon
  <2>6. VerdictRests(r, s, now, e, u)
    BY <2>1, <2>2, <2>5, VerdictEarned, Zenon
  <2>7. u \in Seq(Seen) /\ AtEnd(u) = Shown(r, s)
    BY <2>1, <2>3, ShownClass, AppendedAtEnd
  <2>8. AtEnd(u) # Break => AtEnd(u).state = s.state
    BY <2>1, <2>7, ShownClass
  <2>9. inc' = Decided(r, e.state, s, e.verdict).inc
    BY <1>5, <2>2 DEF EvaluateSignal
  <2>10. OnlyAsDecided(r, e.verdict, inc')
    BY <2>1, <2>4, <2>9, DecidedOnly DEF EvaluationSound, SameMemory
  <2>11. hist'[r] = u
    BY <1>5, <2>3 DEF EvaluateSignal, EngineInd, Typed
  <2>. QED  BY <2>1, <2>4, <2>6, <2>7, <2>8, <2>10, <2>11, StepEarned
<1>6. ASSUME NEW r \in Rules, NEW now \in Nows, EvaluateDeadline(r, now)
      PROVE  \A i \in 1 .. Len(inc') : EarnedAt(i)
  <2>1. PICK s : s = rs[r].last
    OBVIOUS
  <2>2. s \in Signals /\ now \in Instants /\ rs[r] \in RuleStates /\ DeadlineDue(r, now)
    BY <1>6, <2>1, DeadlineSound DEF EvaluateDeadline, Nows
  <2>3. PICK e : e = Evaluate(r, rs[r], s, now, TRUE)
    OBVIOUS
  <2>4. PICK u : u = AfterDeadline(r)
    OBVIOUS
  <2>5. EvaluationSound(r, s, e)
    BY <2>2, <2>3, EvaluateSound
  <2>6. /\ u \in Seq(Seen) /\ Recounted(u, e.state)
        /\ AtEnd(u) # Break => AtEnd(u).state = s.state
    BY <2>1, <2>2, <2>3, <2>4, AfterDeadlineRecounted, Zenon
  <2>7. VerdictRests(r, s, now, e, u)
    BY <2>2, <2>3, <2>6, VerdictEarned, Zenon
  <2>8. inc' = Decided(r, e.state, s, e.verdict).inc
    BY <1>6, <2>1, <2>3 DEF EvaluateDeadline
  <2>9. OnlyAsDecided(r, e.verdict, inc')
    BY <2>2, <2>5, <2>8, DecidedOnly DEF EvaluationSound, SameMemory
  <2>10. hist'[r] = u
    <3>1. hist \in [Rules -> Seq(Shows)]
      BY DEF EngineInd, Typed
    <3>2. hist' = IF hist[r] # <<>> /\ hist[r][Len(hist[r])].class # Shown(r, s).class
                  THEN [hist EXCEPT ![r] = Append(@, Break)] ELSE hist
      BY <1>6, <2>1 DEF EvaluateDeadline
    <3>. QED  BY <2>1, <2>4, <3>1, <3>2 DEF AfterDeadline
  <2>. QED  BY <2>2, <2>5, <2>6, <2>7, <2>9, <2>10, StepEarned
<1>7. CASE ProcessOnce
  <2>1. ASSUME NEW s \in pending, ProcessSignal(s)
        PROVE  \A i \in 1 .. Len(inc') : EarnedAt(i)
    <3>1. \A r : NoRule(s) \/ SkipOutOfOrder(r, s) \/ SuppressSignal(r, s) => inc' = inc
      BY DEF NoRule, SkipOutOfOrder, SuppressSignal
    <3>. QED  BY <1>1, <1>5, <2>1, <3>1 DEF ProcessSignal
  <2>2. ASSUME NEW r \in Rules, ProcessOneDue(r)
        PROVE  \A i \in 1 .. Len(inc') : EarnedAt(i)
    <3>1. \A now : DropDeadline(r, now) \/ SuppressDeadline(r, now) => inc' = inc
      BY DEF DropDeadline, SuppressDeadline
    <3>. QED  BY <1>1, <1>6, <2>2, <3>1 DEF ProcessOneDue
  <2>. QED  BY <1>7, <2>1, <2>2 DEF ProcessOnce
<1>. QED  BY <1>2, <1>4, <1>7 DEF Next

(* Core opens, reopens or recovers an incident only on an unbroken run of
   evidence that is long enough, in signals and in time, for the rule as it is
   at that moment: whatever is replaced, suppressed, late or out of order. *)
THEOREM Earned == Spec => ChangesAreEarned
<1>. DEFINE A ==
       \A i \in 1 .. Len(inc') :
          LET now == inc'[i].status
              was == IF i \in 1 .. Len(inc) THEN inc[i].status ELSE "none"
              r == inc'[i].rule
              h == hist'[r]
              earned(class, min, for) ==
                  /\ h[Len(h)].class = class
                  /\ Cardinality(Run(h)) >= min
                  /\ clock >= Later(RunStart(h), for) IN
          /\ (now = "open" /\ was # "open") =>
                LET c == policy[r].condition[h[Len(h)].state] IN earned("failure", c.min, c.for)
          /\ (now = "recovered" /\ was # "recovered") =>
                earned("recovery", policy[r].recoveryMin, policy[r].recoveryFor)
<1>1. ASSUME EngineInd, CountsInd, [Next]_vars
      PROVE  A
  BY <1>1, EarnedStep DEF EarnedAt, StatusIn
<1>2. EngineInd /\ CountsInd /\ [Next]_vars => [A]_vars
  BY <1>1
<1>. HIDE DEF A
<1>3. Spec => [][A]_vars
  BY <1>2, EngineIndHolds, CountsIndHolds, PTL DEF Spec
<1>. QED  BY <1>3 DEF A, ChangesAreEarned

-----------------------------------------------------------------------------
(* Debounces.  A deadline for a failure is the instant its condition asks for. *)
Timed(r) ==
    (rs[r].deadline # None /\ rs[r].lastState \in DOMAIN policy[r].condition) =>
        rs[r].deadline = Later(rs[r].matchingSince, policy[r].condition[rs[r].lastState].for)

Kept(r) == (Failing(r) => Reported(r) \/ rs[r].deadline # None) /\ Timed(r)

DebounceInd == \A r \in Rules : Kept(r)

(* A step after which the rules ask for what they asked for before, and none is
   enabled, or given a reason code, that was not. *)
Steady ==
    \A r \in Rules : /\ policy'[r].condition = policy[r].condition
                     /\ policy'[r].enabled => policy[r].enabled
                     /\ policy'[r].codes \subseteq policy[r].codes

(* When evaluate sets a deadline, and when it fails. *)
FailureTimed(r, s, now, e) ==
    LET since == e.state.matchingSince
        due == Later(since, Condition(r, s).for) IN
    /\ e.state.deadline # None => e.state.deadline = due
    /\ Met(since, e.state.matching, Condition(r, s).min) /\ now < due => e.state.deadline = due
    /\ Met(since, e.state.matching, Condition(r, s).min) /\ now >= due => e.verdict = "fail"

(* When a failing evaluation waits, reports or sets its deadline. *)
LEMMA FailureTiming ==
    ASSUME NEW r, NEW st \in RuleStates, NEW s, NEW now, NEW deadline \in BOOLEAN,
           s.state # policy[r].recovery, HasCondition(r, s),
           NEW e, e = Evaluate(r, st, s, now, deadline)
    PROVE  FailureTimed(r, s, now, e)
<1>1. e = EvaluateFailure(r, st, s, now, deadline)
  BY DEF Evaluate
<1>. DEFINE goesOn == GoesOn(st, s, st.matchingSince)
            since == IF deadline \/ goesOn THEN st.matchingSince ELSE s.at
            count == IF deadline THEN st.matching ELSE IF goesOn THEN st.matching + 1 ELSE 1
            met == Met(since, count, Condition(r, s).min)
            due == Later(since, Condition(r, s).for)
<1>2. /\ e.state = [st EXCEPT !.recoverySince = None, !.recovering = 0, !.matchingSince = since,
                              !.matching = count, !.deadline = DueAt(met, now, due)]
      /\ e.verdict = IF met /\ now >= due THEN "fail" ELSE "wait"
  BY <1>1 DEF EvaluateFailure
<1>. HIDE DEF since, count
<1>3. /\ e.state.matchingSince = since /\ e.state.matching = count
      /\ e.state.deadline = DueAt(met, now, due)
  <2>. HIDE DEF met, due
  <2>. QED  BY <1>2 DEF RuleStates
<1>4. /\ DueAt(met, now, due) # None => DueAt(met, now, due) = due
      /\ met /\ now < due => DueAt(met, now, due) = due
      /\ met /\ now >= due => e.verdict = "fail"
  <2>. HIDE DEF met, due
  <2>. QED  BY <1>2 DEF DueAt
<1>. QED  BY <1>3, <1>4 DEF FailureTimed

(* A failing verdict leaves a reported incident. *)
LEMMA DecidedReports ==
    ASSUME EngineInd, NEW r \in Rules, NEW s \in Signals, HasCondition(r, s),
           NEW st, st.active = rs[r].active, NEW d, d = Decided(r, st, s, "fail")
    PROVE  d.active # 0 /\ d.inc[d.active].status # "recovered"
<1>. DEFINE a == rs[r].active
<1>0. /\ a = 0 => Unresolved(r) = {}
      /\ a # 0 => a \in 1 .. Len(inc) /\ inc[a].status # "resolved"
  BY PointerSound
<1>1. inc \in Seq(Incidents) /\ Len(inc) \in Nat
  BY DEF EngineInd, Typed
<1>2. CASE a = 0
  <2>1. d = [inc |-> Append(inc, NewIncident(r, s)), active |-> Len(inc) + 1]
    BY <1>0, <1>2 DEF Decided
  <2>2. NewIncident(r, s).status = "open"
    BY DEF NewIncident
  <2>3. d.active = Len(inc) + 1 /\ d.inc = Append(inc, NewIncident(r, s))
    BY <2>1
  <2>4. PICK x : x = NewIncident(r, s)
    OBVIOUS
  <2>5. Append(inc, x)[Len(inc) + 1] = x
    BY <1>1
  <2>. QED  BY <1>1, <2>2, <2>3, <2>4, <2>5
<1>3. CASE a # 0
  <2>1. d = [inc |-> [inc EXCEPT ![a] = UpdatedIncident(a, r, st, s)], active |-> a]
    BY <1>3 DEF Decided
  <2>2. PICK y : y = UpdatedIncident(a, r, st, s)
    OBVIOUS
  <2>3. y.status # "recovered"
    BY <1>0, <1>1, <1>3, <2>2 DEF UpdatedIncident, Incidents
  <2>4. d.active = a /\ d.inc = [inc EXCEPT ![a] = y]
    <3>1. PICK q : q = [inc EXCEPT ![a] = UpdatedIncident(a, r, st, s)]
      OBVIOUS
    <3>2. d = [inc |-> q, active |-> a]
      BY <2>1, <3>1, Zenon
    <3>3. q = [inc EXCEPT ![a] = y]
      BY <2>2, <3>1, Zenon
    <3>4. d.active = a /\ d.inc = q
      BY <3>2
    <3>. QED  BY <3>3, <3>4, Zenon
  <2>5. d.inc[a] = y
    BY <1>0, <1>1, <1>3, <2>4
  <2>. QED  BY <1>3, <2>3, <2>4, <2>5
<1>. QED  BY <1>2, <1>3

(* A verdict touches no incident but the rule's. *)
LEMMA DecidedElsewhere ==
    ASSUME EngineInd, NEW r \in Rules, NEW s, NEW st, st.active = rs[r].active, NEW verdict,
           NEW i \in 1 .. Len(inc), i # rs[r].active
    PROVE  Decided(r, st, s, verdict).inc[i] = inc[i]
<1>. DEFINE a == rs[r].active
<1>0. /\ a = 0 => Unresolved(r) = {}
      /\ a # 0 => a \in 1 .. Len(inc) /\ inc[a].status # "resolved"
  BY PointerSound
<1>1. inc \in Seq(Incidents) /\ Len(inc) \in Nat
  BY DEF EngineInd, Typed
<1>2. PICK q : q = Decided(r, st, s, verdict).inc
  OBVIOUS
<1>3. \/ q = inc
      \/ \E x : q = Append(inc, x)
      \/ \E y : q = [inc EXCEPT ![a] = y]
  <2>1. CASE verdict = "fail" /\ a = 0
    BY <1>0, <1>2, <2>1 DEF Decided
  <2>2. CASE verdict = "fail" /\ a # 0
    <3>1. q = [inc EXCEPT ![a] = UpdatedIncident(a, r, st, s)]
      BY <1>2, <2>2 DEF Decided
    <3>. QED  BY <3>1
  <2>3. CASE verdict = "recover" /\ a # 0 /\ inc[a].status # "recovered"
    <3>1. q = [inc EXCEPT ![a] = RecoveredIncident(a, s)]
      BY <1>0, <1>2, <2>3 DEF Decided
    <3>. QED  BY <3>1
  <2>4. CASE ~(verdict = "fail") /\ ~(verdict = "recover" /\ a # 0 /\ inc[a].status # "recovered")
    BY <1>2, <2>4 DEF Decided
  <2>. QED  BY <2>1, <2>2, <2>3, <2>4
<1>4. \A x : Append(inc, x)[i] = inc[i]
  BY <1>1
<1>5. \A y : [inc EXCEPT ![a] = y][i] = inc[i]
  BY <1>1
<1>. QED  BY <1>2, <1>3, <1>4, <1>5

(* A rule whose row a step leaves alone. *)
LEMMA RowKept ==
    ASSUME NEW r \in Rules, Kept(r), Steady, scenario' = scenario, rs'[r] = rs[r],
           Reported(r) => Reported(r)'
    PROVE  Kept(r)'
<1>1. Failing(r)' => Failing(r)
  BY DEF Failing, MatchesRule, Steady
<1>2. Timed(r)'
  BY DEF Kept, Timed, Steady
<1>. QED  BY <1>1, <1>2 DEF Kept

(* Steps that leave rule states and incidents alone keep every debounce. *)
LEMMA RowsKept ==
    ASSUME DebounceInd, Steady, UNCHANGED <<scenario, rs, inc>>
    PROVE  DebounceInd'
<1>1. Rules' = Rules
  BY SameScenario
<1>2. \A r \in Rules : Reported(r) => Reported(r)'
  BY DEF Reported
<1>. QED  BY <1>1, <1>2, RowKept DEF DebounceInd

(* Rules share no incident. *)
LEMMA OwnIncident ==
    ASSUME EngineInd, NEW r \in Rules, NEW j \in Rules, j # r, rs[j].active # 0
    PROVE  rs[j].active \in 1 .. Len(inc) /\ rs[j].active # rs[r].active
<1>1. rs[j].active \in UnresolvedIn(inc, j)
  BY DEF EngineInd
<1>2. rs[r].active # 0 => rs[r].active \in UnresolvedIn(inc, r)
  BY DEF EngineInd
<1>. QED  BY <1>1, <1>2 DEF UnresolvedIn

(* A transaction of rule r. *)
LEMMA RuleKept ==
    ASSUME EngineInd, DebounceInd, NEW r \in Rules, NEW k, Kept(r)',
           UNCHANGED <<scenario, policy>>, rs' = [rs EXCEPT ![r] = k],
           \A i \in 1 .. Len(inc) : i # rs[r].active => inc'[i] = inc[i]
    PROVE  DebounceInd'
<1>1. Rules' = Rules /\ Steady
  BY SameScenario DEF Steady
<1>2. ASSUME NEW j \in Rules, j # r
      PROVE  Kept(j)'
  <2>1. rs'[j] = rs[j]
    BY <1>2 DEF EngineInd, Typed
  <2>2. Reported(j) => Reported(j)'
    BY <1>2, <2>1, OwnIncident DEF Reported
  <2>. QED  BY <1>1, <2>1, <2>2, RowKept DEF DebounceInd
<1>. QED  BY <1>1, <1>2 DEF DebounceInd

(* With too few signals there is nothing to report. *)
LEMMA TooFew ==
    ASSUME EngineInd, NEW r \in Rules, UNCHANGED <<scenario, policy>>, rs'[r].matching = 0,
           rs'[r].deadline = None
    PROVE  Kept(r)'
<1>1. policy[r] \in Policies
  BY DEF EngineInd, Typed
<1>2. \A state \in DOMAIN policy[r].condition : policy[r].condition[state].min \in Nat \ {0}
  BY <1>1, Instance DEF EngineInd
<1>3. ~Failing(r)'
  BY <1>2 DEF Failing
<1>. QED  BY <1>3 DEF Kept, Timed

(* A suppression starts the debounce afresh: too few signals are counted. *)
LEMMA SuppressedKept ==
    ASSUME EngineInd, DebounceInd, NEW r \in Rules, NEW s, NEW now,
           SuppressSignal(r, s) \/ SuppressDeadline(r, now)
    PROVE  DebounceInd'
<1>1. rs[r] \in RuleStates /\ rs \in [Rules -> RuleStates]
  BY DEF EngineInd, Typed
<1>2. PICK k : rs' = [rs EXCEPT ![r] = k] /\ k.matching = 0 /\ k.deadline = None
  <2>1. CASE SuppressSignal(r, s)
    <3>1. PICK k : k = Suppressed(ClearedState(rs[r]), s)
      OBVIOUS
    <3>2. k.matching = 0 /\ k.deadline = None
      BY <1>1, <3>1 DEF Suppressed, ClearedState, RuleStates
    <3>3. rs' = [rs EXCEPT ![r] = k]
      BY <2>1, <3>1 DEF SuppressSignal, Suppressed
    <3>. QED  BY <3>2, <3>3
  <2>2. CASE SuppressDeadline(r, now)
    <3>1. PICK k : k = [ClearedState(rs[r]) EXCEPT !.lastState = "maintenance"]
      OBVIOUS
    <3>2. k.matching = 0 /\ k.deadline = None
      BY <1>1, <3>1 DEF ClearedState, RuleStates
    <3>3. rs' = [rs EXCEPT ![r] = k]
      BY <2>2, <3>1 DEF SuppressDeadline
    <3>. QED  BY <3>2, <3>3
  <2>. QED  BY <2>1, <2>2
<1>3. rs'[r] = k
  BY <1>1, <1>2
<1>4. UNCHANGED <<scenario, policy, inc>>
  BY DEF SuppressSignal, SuppressDeadline
<1>5. Kept(r)'
  BY <1>2, <1>3, <1>4, TooFew
<1>. QED  BY <1>2, <1>4, <1>5, RuleKept

(* A deadline is dropped only when the rule no longer matches. *)
LEMMA DropKept ==
    ASSUME EngineInd, DebounceInd, NEW r \in Rules, NEW now, DropDeadline(r, now)
    PROVE  DebounceInd'
<1>1. rs[r] \in RuleStates /\ rs \in [Rules -> RuleStates]
  BY DEF EngineInd, Typed
<1>2. PICK k : k = [rs[r] EXCEPT !.deadline = None]
  OBVIOUS
<1>3. k.deadline = None /\ k.last = rs[r].last
  BY <1>1, <1>2 DEF RuleStates
<1>4. rs' = [rs EXCEPT ![r] = k] /\ rs'[r] = k
  BY <1>1, <1>2 DEF DropDeadline
<1>5. UNCHANGED <<scenario, policy, inc>> /\ ~MatchesRule(r, rs[r].last)
  BY DEF DropDeadline
<1>6. ~Failing(r)'
  BY <1>3, <1>4, <1>5 DEF Failing, MatchesRule
<1>7. Kept(r)'
  BY <1>3, <1>4, <1>6 DEF Kept, Timed
<1>. QED  BY <1>4, <1>5, <1>7, RuleKept

(* With its occurrences a failure is reported or has its deadline. *)
LEMMA FailingSignalKept ==
    ASSUME EngineInd, CountsInd, NEW r \in Rules, NEW s \in Signals, NEW now \in Instants,
           HasCondition(r, s), NEW e, FailureEvaluated(r, rs[r], s, now, FALSE, e),
           FailureTimed(r, s, now, e), e.state.matching >= Condition(r, s).min
    PROVE  e.state.deadline # None \/ e.verdict = "fail"
<1>1. \A t \in Instants : t # None /\ t \in Int
  BY DEF Instants, None
<1>2. e.state.matchingSince \in Instants
  <2>1. CASE GoesOn(rs[r], s, rs[r].matchingSince)
    BY <2>1 DEF FailureEvaluated, GoesOn, EngineInd, Typed, RuleStates, MaybeInstant
  <2>2. CASE ~GoesOn(rs[r], s, rs[r].matchingSince)
    BY <2>2 DEF FailureEvaluated, Signals
  <2>. QED  BY <2>1, <2>2
<1>3. Condition(r, s).for \in Nat
  BY Instance DEF EngineInd, Typed, HasCondition, Condition
<1>4. PICK due : due = Later(e.state.matchingSince, Condition(r, s).for)
  OBVIOUS
<1>5. due \in Instants
  BY <1>2, <1>3, <1>4, LaterTyped
<1>6. Met(e.state.matchingSince, e.state.matching, Condition(r, s).min)
  BY <1>1, <1>2 DEF Met
<1>7. CASE now < due
  BY <1>1, <1>4, <1>5, <1>6, <1>7 DEF FailureTimed
<1>8. CASE now >= due
  BY <1>4, <1>6, <1>8 DEF FailureTimed
<1>9. now \in Int /\ due \in Int
  BY <1>1, <1>5
<1>. QED  BY <1>7, <1>8, <1>9

(* Evaluating a signal keeps every debounce. *)
LEMMA EvaluateSignalKept ==
    ASSUME EngineInd, CountsInd, DebounceInd, NEW r \in Rules, NEW s \in pending,
           NEW now \in Nows, EvaluateSignal(r, s, now)
    PROVE  DebounceInd'
<1>1. s \in Signals /\ now \in Instants /\ rs[r] \in RuleStates /\ rs \in [Rules -> RuleStates]
  BY DEF EngineInd, Typed, Nows
<1>2. PICK e : e = Evaluate(r, rs[r], s, now, FALSE)
  OBVIOUS
<1>3. PICK d : d = Decided(r, e.state, s, e.verdict)
  OBVIOUS
<1>4. PICK k : k = Remembered(e.state, s, d.active)
  OBVIOUS
<1>5. EvaluationSound(r, s, e)
  BY <1>1, <1>2, EvaluateSound
<1>6. e.state \in RuleStates /\ e.state.active = rs[r].active
  BY <1>5 DEF EvaluationSound, SameMemory
<1>7. /\ SameCounters(k, e.state) /\ k.deadline = e.state.deadline /\ k.active = d.active
      /\ k.last = s /\ k.lastState = s.state
  BY <1>4, <1>6 DEF SameCounters, Remembered, RuleStates
<1>8. rs' = [rs EXCEPT ![r] = k] /\ inc' = d.inc /\ UNCHANGED <<scenario, policy>>
  BY <1>2, <1>3, <1>4 DEF EvaluateSignal, Remembered
<1>9. rs'[r] = k
  BY <1>1, <1>8
<1>10. ASSUME HasCondition(r, s)
       PROVE  Kept(r)'
  <2>1. s.state # policy[r].recovery
    BY <1>10, Instance DEF EngineInd, Typed, HasCondition
  <2>2. FailureEvaluated(r, rs[r], s, now, FALSE, e)
    BY <1>1, <1>2, <1>10, <2>1, EvaluatedFailure, Zenon
  <2>3. FailureTimed(r, s, now, e)
    BY <1>1, <1>2, <1>10, <2>1, FailureTiming, Zenon
  <2>4. e.state.matching >= Condition(r, s).min => e.state.deadline # None \/ e.verdict = "fail"
    BY <1>1, <1>10, <2>2, <2>3, FailingSignalKept
  <2>5. e.verdict = "fail" => d.active # 0 /\ d.inc[d.active].status # "recovered"
    BY <1>1, <1>3, <1>6, <1>10, DecidedReports
  <2>6. Failing(r)' => Reported(r)' \/ rs'[r].deadline # None
    <3>1. Failing(r)' => e.state.matching >= Condition(r, s).min
      BY <1>7, <1>8, <1>9 DEF Failing, SameCounters, Condition
    <3>. QED  BY <1>7, <1>8, <1>9, <2>4, <2>5, <3>1 DEF Reported
  <2>7. Timed(r)'
    BY <1>7, <1>8, <1>9, <2>3 DEF Timed, FailureTimed, SameCounters, Condition
  <2>. QED  BY <2>6, <2>7 DEF Kept
<1>11. ASSUME ~HasCondition(r, s)
       PROVE  Kept(r)'
  <2>1. ~Failing(r)' /\ Timed(r)'
    BY <1>7, <1>8, <1>9, <1>11 DEF Failing, Timed, HasCondition
  <2>. QED  BY <2>1 DEF Kept
<1>12. Kept(r)'
  BY <1>10, <1>11
<1>13. \A i \in 1 .. Len(inc) : i # rs[r].active => inc'[i] = inc[i]
  BY <1>3, <1>6, <1>8, DecidedElsewhere
<1>. QED  BY <1>8, <1>12, <1>13, RuleKept

(* A deadline is stored for the instant at which the evaluation of it fails. *)
LEMMA EvaluateDeadlineKept ==
    ASSUME EngineInd, CountsInd, DebounceInd, NEW r \in Rules, NEW now \in Nows,
           EvaluateDeadline(r, now)
    PROVE  DebounceInd'
<1>1. PICK s : s = rs[r].last
  OBVIOUS
<1>2. /\ s \in Signals /\ now \in Instants /\ rs[r] \in RuleStates /\ rs \in [Rules -> RuleStates]
      /\ rs[r].deadline # None /\ rs[r].deadline <= now
  BY <1>1, DeadlineSound DEF EngineInd, Typed, EvaluateDeadline, DeadlineDue, Nows
<1>3. PICK e : e = Evaluate(r, rs[r], s, now, TRUE)
  OBVIOUS
<1>4. PICK d : d = Decided(r, e.state, s, e.verdict)
  OBVIOUS
<1>5. PICK k : k = [e.state EXCEPT !.active = d.active, !.deadline = None]
  OBVIOUS
<1>6. EvaluationSound(r, s, e)
  BY <1>2, <1>3, EvaluateSound
<1>7. /\ e.state \in RuleStates /\ e.state.active = rs[r].active
      /\ e.state.lastState = rs[r].lastState
  BY <1>6 DEF EvaluationSound, SameMemory
<1>8. /\ SameCounters(k, e.state) /\ k.deadline = None /\ k.active = d.active
      /\ k.lastState = rs[r].lastState
  BY <1>5, <1>7 DEF SameCounters, RuleStates
<1>9. rs' = [rs EXCEPT ![r] = k] /\ inc' = d.inc /\ UNCHANGED <<scenario, policy>>
  BY <1>1, <1>3, <1>4, <1>5 DEF EvaluateDeadline
<1>10. rs'[r] = k
  BY <1>2, <1>9
<1>11. Counted(hist[r], rs[r]) /\ rs[r].lastState = s.state
  BY <1>1, <1>2 DEF CountsInd, Counted
<1>12. ASSUME Failing(r)'
       PROVE  Reported(r)'
  <2>1. HasCondition(r, s) /\ e.state.matching >= Condition(r, s).min
    BY <1>8, <1>9, <1>10, <1>11, <1>12 DEF Failing, SameCounters, HasCondition, Condition
  <2>2. s.state # policy[r].recovery
    BY <2>1, Instance DEF EngineInd, Typed, HasCondition
  <2>3. FailureEvaluated(r, rs[r], s, now, TRUE, e)
    BY <1>2, <1>3, <2>1, <2>2, EvaluatedFailure, Zenon
  <2>4. FailureTimed(r, s, now, e)
    BY <1>2, <1>3, <2>1, <2>2, FailureTiming, Zenon
  <2>5. e.state.matchingSince = rs[r].matchingSince /\ e.state.matching = rs[r].matching
    BY <2>3 DEF FailureEvaluated
  <2>6. Condition(r, s).min \in Nat \ {0}
    BY <2>1, Instance DEF EngineInd, Typed, HasCondition, Condition
  <2>7. rs[r].matching # 0
    BY <2>1, <2>5, <2>6
  <2>8. rs[r].matchingSince # None
    BY <1>11, <2>7, SinceMeansRun DEF Counted, Recounted
  <2>9. Met(e.state.matchingSince, e.state.matching, Condition(r, s).min)
    BY <2>1, <2>5, <2>8 DEF Met
  <2>10. rs[r].deadline = Later(e.state.matchingSince, Condition(r, s).for)
    BY <1>2, <1>11, <2>1, <2>5 DEF DebounceInd, Kept, Timed, HasCondition, Condition
  <2>11. now >= Later(e.state.matchingSince, Condition(r, s).for)
    <3>1. rs[r].deadline \in Int /\ now \in Int
      BY <1>2 DEF RuleStates, MaybeInstant, Instants, None
    <3>. QED  BY <1>2, <2>10, <3>1
  <2>12. e.verdict = "fail"
    BY <2>4, <2>9, <2>11 DEF FailureTimed
  <2>13. d.active # 0 /\ d.inc[d.active].status # "recovered"
    BY <1>2, <1>4, <1>7, <2>1, <2>12, DecidedReports
  <2>. QED  BY <1>8, <1>9, <1>10, <2>13 DEF Reported
<1>13. Kept(r)'
  BY <1>8, <1>10, <1>12 DEF Kept, Timed
<1>14. \A i \in 1 .. Len(inc) : i # rs[r].active => inc'[i] = inc[i]
  BY <1>4, <1>7, <1>9, DecidedElsewhere
<1>. QED  BY <1>9, <1>13, <1>14, RuleKept

(* Operators: whoever works on an incident leaves it reported until it has
   recovered. *)
LEMMA OperateKept ==
    ASSUME EngineInd, DebounceInd, NEW i \in 1 .. Len(inc),
           Acknowledge(i) \/ Investigate(i) \/ Resolve(i)
    PROVE  DebounceInd'
<1>1. inc \in Seq(Incidents) /\ inc[i] \in Incidents /\ rs \in [Rules -> RuleStates]
  BY DEF EngineInd, Typed
<1>2. Rules' = Rules /\ Steady /\ UNCHANGED <<scenario, policy>>
  BY SameScenario DEF Steady, Acknowledge, Investigate, Transition, Resolve
<1>3. CASE Resolve(i)
  <2>1. ASSUME NEW r \in Rules, rs[r].active = i
        PROVE  Kept(r)'
    <3>1. rs[r] \in RuleStates /\ Kept(r) /\ i # 0
      BY <1>1 DEF DebounceInd
    <3>2. rs'[r] = [rs[r] EXCEPT !.active = 0]
      BY <1>3, <2>1 DEF Resolve, ReleaseFingerprint
    <3>3. /\ rs'[r].deadline = rs[r].deadline /\ rs'[r].lastState = rs[r].lastState
          /\ rs'[r].last = rs[r].last /\ rs'[r].matching = rs[r].matching
          /\ rs'[r].matchingSince = rs[r].matchingSince
      BY <3>1, <3>2 DEF RuleStates
    <3>4. ~Reported(r)
      BY <1>3, <2>1 DEF Reported, Resolve
    <3>5. Failing(r)' => Failing(r)
      BY <1>2, <3>3 DEF Failing, MatchesRule
    <3>6. Timed(r)'
      BY <1>2, <3>1, <3>3 DEF Kept, Timed
    <3>. QED  BY <3>1, <3>3, <3>4, <3>5, <3>6 DEF Kept
  <2>2. ASSUME NEW r \in Rules, rs[r].active # i
        PROVE  Kept(r)'
    <3>1. rs'[r] = rs[r]
      BY <1>3, <2>2 DEF Resolve, ReleaseFingerprint
    <3>2. rs[r].active # 0 => rs[r].active \in 1 .. Len(inc)
      BY PointerSound
    <3>3. \A j \in 1 .. Len(inc) : j # i => inc'[j] = inc[j]
      BY <1>1, <1>3 DEF Resolve
    <3>4. Reported(r) => Reported(r)'
      BY <2>2, <3>1, <3>2, <3>3 DEF Reported
    <3>. QED  BY <1>2, <3>1, <3>4, RowKept DEF DebounceInd
  <2>. QED  BY <1>2, <2>1, <2>2 DEF DebounceInd
<1>4. ASSUME NEW y, inc' = [inc EXCEPT ![i] = y], y.status # "recovered", rs' = rs
      PROVE  DebounceInd'
  <2>1. ASSUME NEW r \in Rules
        PROVE  Kept(r)'
    <3>1. rs[r].active # 0 => rs[r].active \in 1 .. Len(inc)
      BY PointerSound
    <3>2. inc'[i] = y /\ \A j \in 1 .. Len(inc) : j # i => inc'[j] = inc[j]
      BY <1>1, <1>4
    <3>3. Reported(r) => Reported(r)'
      BY <1>4, <3>1, <3>2 DEF Reported
    <3>. QED  BY <1>2, <1>4, <3>3, RowKept DEF DebounceInd
  <2>. QED  BY <1>2, <2>1 DEF DebounceInd
<1>5. ASSUME NEW from, NEW to, to # "recovered", Transition(i, from, to)
      PROVE  DebounceInd'
  <2>1. PICK y : y = [inc[i] EXCEPT !.status = to,
               !.timeline = Append(inc[i].timeline, Entry(from, to, inc[i].severity))]
    OBVIOUS
  <2>2. inc' = [inc EXCEPT ![i] = y] /\ y.status = to /\ rs' = rs
    BY <1>1, <1>5, <2>1 DEF Transition, Incidents
  <2>. QED  BY <1>4, <1>5, <2>2
<1>. QED  BY <1>3, <1>5 DEF Acknowledge, Investigate

(* So does every step that is steady. *)
LEMMA DebounceNext ==
    ASSUME EngineInd, CountsInd, DebounceInd, [Next]_vars, [Steady]_vars
    PROVE  DebounceInd'
<1>1. CASE UNCHANGED vars
  <2>1. Steady /\ UNCHANGED <<scenario, rs, inc>>
    BY <1>1 DEF Steady, vars
  <2>. QED  BY <2>1, RowsKept
<1>2. CASE Steady /\ (Produce \/ Administer \/ ExpireWindow \/ Tick)
  <2>1. UNCHANGED <<scenario, rs, inc>>
    BY <1>2 DEF Produce, Observe, ObserveAgain, FreshnessLapses, Administer, CreateMaintenance,
                ReplaceMaintenance, RevokeMaintenance, ReplaceRule, ExpireWindow, Tick
  <2>. QED  BY <1>2, <2>1, RowsKept
<1>3. CASE Operate
  BY <1>3, OperateKept DEF Operate
<1>4. CASE ProcessOnce
  <2>1. ASSUME NEW s \in pending, ProcessSignal(s)
        PROVE  DebounceInd'
    <3>1. \A r : NoRule(s) \/ SkipOutOfOrder(r, s) => UNCHANGED <<scenario, rs, inc, policy>>
      BY DEF NoRule, SkipOutOfOrder
    <3>2. policy' = policy => Steady
      BY DEF Steady
    <3>. QED  BY <2>1, <3>1, <3>2, RowsKept, SuppressedKept, EvaluateSignalKept
              DEF ProcessSignal
  <2>2. ASSUME NEW r \in Rules, ProcessOneDue(r)
        PROVE  DebounceInd'
    BY <2>2, DropKept, SuppressedKept, EvaluateDeadlineKept DEF ProcessOneDue
  <2>. QED  BY <1>4, <2>1, <2>2 DEF ProcessOnce
<1>. QED  BY <1>1, <1>2, <1>3, <1>4 DEF Next

(* As long as replaced rules ask for what they asked for before and none is
   enabled again, a failure with its occurrences is reported or has a deadline
   that stands: through signals in any order, suppressions, windows, operators
   and recoveries.  Without that proviso it is not so (evaluator.go:762 clears
   the deadline whatever the evaluation set). *)
THEOREM DebounceSafe == Spec /\ [][Steady]_vars => []DebounceKept
<1>1. Init => DebounceInd
  <2>. SUFFICES ASSUME Init, NEW r \in Rules PROVE Kept(r)
    BY DEF DebounceInd
  <2>1. rs[r].matching = 0 /\ rs[r].deadline = None
    BY DEF Init, NewRuleState
  <2>2. EngineInd
    BY InitSound
  <2>3. \A state \in DOMAIN policy[r].condition : policy[r].condition[state].min \in Nat \ {0}
    BY <2>2, Instance DEF EngineInd, Typed
  <2>. QED  BY <2>1, <2>3 DEF Kept, Timed, Failing
<1>2. EngineInd /\ CountsInd /\ DebounceInd /\ [Next]_vars /\ [Steady]_vars => DebounceInd'
  BY DebounceNext
<1>3. DebounceInd => DebounceKept
  BY DEF DebounceInd, Kept, DebounceKept
<1>. QED  BY <1>1, <1>2, <1>3, EngineIndHolds, CountsIndHolds, PTL DEF Spec
=============================================================================
