-------------------------- MODULE MCIncidentEngine --------------------------
(* The incident engine on small instances. *)
EXTENDS IncidentEngine

AnyCode == {"", "a", "b"}

Reports(severity, min, for) == [severity |-> severity, min |-> min, for |-> for]

(* Critical at once, a warning after two signals and a unit of time; one
   healthy signal and a unit of time recover. *)
Prompt ==
    [enabled |-> TRUE, codes |-> AnyCode, rank |-> 0, recovery |-> Recovery, recoveryMin |-> 1, recoveryFor |-> 1,
     condition |-> [critical |-> Reports("critical", 1, 0), warning |-> Reports("warning", 2, 1)]]

(* Critical after a unit of time, unknown too; two healthy signals recover. *)
Standard ==
    [enabled |-> TRUE, codes |-> AnyCode, rank |-> 0, recovery |-> Recovery, recoveryMin |-> 2, recoveryFor |-> 0,
     condition |-> [critical |-> Reports("critical", 1, 1), unknown |-> Reports("warning", 1, 1)]]

Disabled == [Standard EXCEPT !.enabled = FALSE]

(* For one reason code only, and so before those for all. *)
Narrow == [Standard EXCEPT !.codes = {"a"}, !.rank = 1]

Interval(starts, ends, scope) == [starts |-> starts, ends |-> ends, scope |-> scope]

(* One rule: signals out of order and dated ahead, deadlines, operators. *)
OutOfOrderSignals ==
    [rules |-> {1}, created |-> <<Prompt>>, codes |-> {""}, certificate |-> FALSE,
     states |-> {"healthy", "warning", "critical"}, policies |-> {Prompt}, windows |-> {},
     skew |-> 1, lag |-> 1, maxObserved |-> 3, maxPolicyChanges |-> 0, maxWindowChanges |-> 0]

(* Two rules for a certificate check, one of them for a reason code; either is
   disabled or given the scope and rank of the other while signals are on their way. *)
ChangingRules ==
    [rules |-> {1, 2}, created |-> <<Narrow, Standard>>, codes |-> {"a", "b"}, certificate |-> TRUE,
     states |-> {"healthy", "critical"}, policies |-> {Standard, Narrow, Disabled}, windows |-> {},
     skew |-> 0, lag |-> 0, maxObserved |-> 2, maxPolicyChanges |-> 1, maxWindowChanges |-> 0]

(* A maintenance window created, replaced, revoked and expired; one rule. *)
ChangingWindows ==
    [rules |-> {1}, created |-> <<Standard>>, codes |-> {""}, certificate |-> FALSE,
     states |-> {"healthy", "critical"}, policies |-> {Standard},
     windows |-> {Interval(0, 1, "wide"), Interval(1, 2, "wide"),
                  Interval(0, 1, "narrow"), Interval(0, 1, "elsewhere")},
     skew |-> 0, lag |-> 0, maxObserved |-> 1, maxPolicyChanges |-> 0, maxWindowChanges |-> 2]

ThreeScenarios == <<OutOfOrderSignals, ChangingRules, ChangingWindows>>
=============================================================================
