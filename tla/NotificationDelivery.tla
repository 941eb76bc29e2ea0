------------------------ MODULE NotificationDelivery ------------------------
(***************************************************************************)
(* The notification outbox (core/internal/notifications): intents written  *)
(* with the incident events they announce, and the workers that claim,     *)
(* deliver and complete them.                                              *)
(*                                                                         *)
(* A claim leases one intent under a fresh token.  The remote request is   *)
(* made outside any transaction, so the lease may expire, another worker   *)
(* may claim the same intent, and the process may stop, between the claim, *)
(* the request and the completion.                                         *)
(***************************************************************************)
EXTENDS Integers, Sequences

CONSTANTS
    Events,         \* notifiable incident timeline events
    Tests,          \* administrators' requests to test a destination
    Destinations,   \* configured destinations
    Workers,        \* worker goroutines (options.Concurrency)
    MaxAttempts,    \* largest value the attempt limit can be configured to
    Limits,         \* values max_attempts is configured to, at each start
    Lease,          \* options.ClaimLease, in clock units
    MaxRetryDelay,  \* options.MaxRetryDelay
    Horizon,        \* bound on the clock: instants past it are the horizon
    MaxStops        \* bound on the number of crashes and restarts

ASSUME OutboxAssumption ==
    /\ MaxAttempts \in 1 .. 6
    /\ Limits \subseteq 1 .. MaxAttempts
    /\ Lease \in Nat \ {0}
    /\ MaxRetryDelay \in Nat \ {0}
    /\ Horizon \in Nat
    /\ MaxStops \in Nat
    /\ Events \cap Tests = {}

VARIABLES
    clock,       \* the wall clock
    enabled,     \* enabled[d]: destination d takes new incident events
    intent,      \* intent[i]: the notification_intents row of i
    log,         \* log[i]: the notification_attempts rows of i, as appended
    evidence,    \* evidence[i]: terminal delivery entries in the incident timeline
    hand,        \* hand[w]: the claim worker w is working on, if any
    limit,       \* options.MaxAttempts of the running process
    accepted,    \* accepted[i]: attempts of i the provider accepted (history)
    stops        \* crashes and restarts so far

vars == <<clock, enabled, intent, log, evidence, hand, limit, accepted, stops>>

-----------------------------------------------------------------------------
None == -1

Instants == 0 .. Horizon

(* (incident_event_id, destination_id) is unique for incident events; a test
   request creates one intent for its destination. *)
Intents == (Events \cup Tests) \X Destinations

ForIncident(i) == i[1] \in Events

Terminal == {"delivered", "failed", "dead_letter", "suppressed"}

States == {"absent", "queued", "attempting", "retry_wait"} \cup Terminal

(* gen_random_uuid() never repeats, and each claim of an intent takes the
   next attempt number: the token of the n-th claim is n, and 0 is NULL. *)
Rows == [state: States, attempts: 0 .. MaxAttempts, availableAt: Instants,
         claimedUntil: Instants \cup {None}, token: 0 .. MaxAttempts]

NewRow == [state |-> "absent", attempts |-> 0, availableAt |-> 0,
           claimedUntil |-> None, token |-> 0]

(* What Deliver reports: nothing yet, Delivered, Retryable, or neither. *)
Results == {"none", "delivered", "retryable", "permanent"}

Outcomes == {"delivered", "retry", "failed", "dead_letter"}

Attempts == [number: 1 .. MaxAttempts, outcome: Outcomes]

NoClaim == [id |-> <<>>, attempt |-> 0, result |-> "none"]
Claims == [id: Intents, attempt: 1 .. MaxAttempts, result: Results]

Later(t, d) == IF t + d < Horizon THEN t + d ELSE Horizon

(* retryDelay: time.Second << min(attempt-1, 8), raised to Retry-After and by
   the jitter, and capped at MaxRetryDelay. *)
Backoff == <<1, 2, 4, 8, 16, 32>>
RetryDelays(attempt) ==
    {d \in 1 .. MaxRetryDelay : d >= Backoff[attempt] \/ d = MaxRetryDelay}

TypeOK ==
    /\ clock \in Instants
    /\ enabled \in [Destinations -> BOOLEAN]
    /\ intent \in [Intents -> Rows]
    /\ log \in [Intents -> Seq(Attempts)]
    /\ evidence \in [Intents -> Nat]
    /\ hand \in [Workers -> Claims \cup {NoClaim}]
    /\ limit \in Limits
    /\ accepted \in [Intents -> SUBSET (1 .. MaxAttempts)]
    /\ stops \in 0 .. MaxStops

Init ==
    /\ clock = 0
    /\ enabled \in [Destinations -> BOOLEAN]
    /\ intent = [i \in Intents |-> NewRow]
    /\ log = [i \in Intents |-> <<>>]
    /\ evidence = [i \in Intents |-> 0]
    /\ hand = [w \in Workers |-> NoClaim]
    /\ limit \in Limits
    /\ accepted = [i \in Intents |-> {}]
    /\ stops = 0

-----------------------------------------------------------------------------
(* EnqueueIncidentEvent, in the transaction of timeline event e: one intent
   per destination enabled at that moment, terminal at once when a silence
   matches.  Repeating it for the same event inserts nothing. *)
EnqueueIncidentEvent(e, silenced) ==
    /\ \A d \in Destinations : intent[<<e, d>>].state = "absent"
    /\ intent' = [i \in Intents |->
                    IF i[1] = e /\ enabled[i[2]]
                    THEN [NewRow EXCEPT !.state = IF silenced THEN "suppressed" ELSE "queued",
                                        !.availableAt = clock]
                    ELSE intent[i]]
    /\ UNCHANGED <<clock, enabled, log, evidence, hand, limit, accepted, stops>>

(* TestDestination: an intent without an incident, whether the destination is
   enabled or not. *)
TestDestination(t, d) ==
    /\ intent[<<t, d>>].state = "absent"
    /\ intent' = [intent EXCEPT ![<<t, d>>] =
                    [NewRow EXCEPT !.state = "queued", !.availableAt = clock]]
    /\ UNCHANGED <<clock, enabled, log, evidence, hand, limit, accepted, stops>>

(* mutateDestination, replace: of what it changes, delivery depends on the
   enabled flag alone, and only when intents are written. *)
ReplaceDestination(d) ==
    /\ enabled' = [enabled EXCEPT ![d] = ~@]
    /\ UNCHANGED <<clock, intent, log, evidence, hand, limit, accepted, stops>>

-----------------------------------------------------------------------------
LeaseExpired(i) == intent[i].state = "attempting" /\ intent[i].claimedUntil <= clock

(* Variants: an expired last claim is never given up; a claim is handed out
   whatever attempts were made. *)
ExhaustedLate == {i \in Intents : LeaseExpired(i) /\ intent[i].attempts > limit}
DueUnlimited == {i \in Intents :
                   \/ intent[i].state \in {"queued", "retry_wait"} /\ intent[i].availableAt <= clock
                   \/ LeaseExpired(i)}

(* The WHERE clauses of deadLetterExpiredClaim and of claim. *)
Exhausted == {i \in Intents : LeaseExpired(i) /\ intent[i].attempts >= limit}

Due == {i \in Intents :
          /\ intent[i].attempts < limit
          /\ \/ intent[i].state \in {"queued", "retry_wait"} /\ intent[i].availableAt <= clock
             \/ LeaseExpired(i)}

(* The row after its terminal or retry update: the claim is released. *)
Released(i, state, availableAt) ==
    [intent[i] EXCEPT !.state = state, !.availableAt = availableAt,
                      !.claimedUntil = None, !.token = 0]

(* FOR UPDATE SKIP LOCKED: rows that another worker may be updating are
   skipped when they are locked at that moment. *)
MaybeLocked(w) == {hand[v].id : v \in {u \in Workers \ {w} : hand[u] # NoClaim}}

(* deadLetterExpiredClaim, the first thing ProcessOnce does: an expired claim
   that used the last attempt is given up, with an attempt row and, for an
   incident, a timeline entry. *)
DeadLetterExpiredClaim(w, i) ==
    /\ hand[w] = NoClaim
    /\ i \in Exhausted
    /\ \A j \in Exhausted \ MaybeLocked(w) : intent[i].claimedUntil <= intent[j].claimedUntil
    /\ intent' = [intent EXCEPT ![i] = Released(i, "dead_letter", intent[i].availableAt)]
    /\ log' = [log EXCEPT ![i] = Append(@, [number |-> intent[i].attempts,
                                            outcome |-> "dead_letter"])]
    /\ evidence' = [evidence EXCEPT ![i] = IF ForIncident(i) THEN @ + 1 ELSE @]
    /\ UNCHANGED <<clock, enabled, hand, limit, accepted, stops>>

(* attempt_count = attempt_count + 1 *)
NextAttempt(i) == intent[i].attempts + 1

(* claim: the due intent that has waited longest.  A destination that was
   disabled in the meantime does not matter. *)
Claim(w, i) ==
    /\ hand[w] = NoClaim
    /\ Exhausted \subseteq MaybeLocked(w)
    /\ i \in Due
    /\ \A j \in Due \ MaybeLocked(w) : intent[i].availableAt <= intent[j].availableAt
    /\ intent' = [intent EXCEPT ![i] =
                    [@ EXCEPT !.state = "attempting", !.attempts = NextAttempt(i),
                              !.token = NextAttempt(i),
                              !.claimedUntil = Later(clock, Lease)]]
    /\ hand' = [hand EXCEPT ![w] = [id |-> i, attempt |-> NextAttempt(i),
                                    result |-> "none"]]
    /\ UNCHANGED <<clock, enabled, log, evidence, limit, accepted, stops>>

(* deliver: the secret may not resolve or the target may be refused before
   anything is sent; a request may be accepted although its reply is lost, too
   long or late.  Only a 2xx reply that was read is reported as delivered. *)
Deliver(w) ==
    /\ hand[w] # NoClaim /\ hand[w].result = "none"
    /\ \E took \in BOOLEAN, result \in Results \ {"none"} :
         /\ (result = "delivered") => took
         /\ hand' = [hand EXCEPT ![w] = [@ EXCEPT !.result = result]]
         /\ accepted' = IF took
                        THEN [accepted EXCEPT ![hand[w].id] = @ \cup {hand[w].attempt}]
                        ELSE accepted
    /\ UNCHANGED <<clock, enabled, intent, log, evidence, limit, stops>>

(* The state, and the outcome of the attempt, that complete derives from a
   delivery result. *)
StateOf(claim) ==
    CASE claim.result = "delivered" -> "delivered"
      [] claim.result = "permanent" -> "failed"
      [] claim.result = "retryable" /\ claim.attempt < limit -> "retry_wait"
      [] OTHER -> "dead_letter"

OutcomeOf(state) == IF state = "retry_wait" THEN "retry" ELSE state

(* Variant: the claim is recognised by its number alone. *)
SameAttempt(claim) == intent[claim.id].attempts = claim.attempt

(* WHERE id=$1 AND state='attempting' AND claim_token=$2 AND attempt_count=$3 *)
StillClaimed(claim) ==
    /\ intent[claim.id].state = "attempting"
    /\ intent[claim.id].token = claim.attempt
    /\ intent[claim.id].attempts = claim.attempt

(* complete: the claim is still the intent's. *)
Complete(w) ==
    LET claim == hand[w]
        state == StateOf(claim) IN
    /\ hand[w] # NoClaim /\ claim.result # "none"
    /\ StillClaimed(claim)
    /\ \E delay \in IF state = "retry_wait" THEN RetryDelays(claim.attempt) ELSE {0} :
         intent' = [intent EXCEPT ![claim.id] =
                      Released(claim.id, state, Later(clock, delay))]
    /\ log' = [log EXCEPT ![claim.id] = Append(@, [number |-> claim.attempt,
                                                   outcome |-> OutcomeOf(state)])]
    /\ evidence' = [evidence EXCEPT ![claim.id] =
                      IF ForIncident(claim.id) /\ state # "retry_wait" THEN @ + 1 ELSE @]
    /\ hand' = [hand EXCEPT ![w] = NoClaim]
    /\ UNCHANGED <<clock, enabled, limit, accepted, stops>>

(* complete: the lease expired and the intent moved on; nothing is written. *)
CompleteTooLate(w) ==
    /\ hand[w] # NoClaim /\ hand[w].result # "none"
    /\ ~StillClaimed(hand[w])
    /\ hand' = [hand EXCEPT ![w] = NoClaim]
    /\ UNCHANGED <<clock, enabled, intent, log, evidence, limit, accepted, stops>>

(* Core stops and starts again, perhaps with another max_attempts.  Requests
   under way are cut off, after the provider accepted them or before. *)
Restart ==
    /\ stops < MaxStops
    /\ stops' = stops + 1
    /\ hand' = [w \in Workers |-> NoClaim]
    /\ limit' \in Limits
    /\ \E lost \in SUBSET {w \in Workers : hand[w] # NoClaim /\ hand[w].result = "none"} :
         accepted' = [i \in Intents |->
             accepted[i] \cup {hand[w].attempt : w \in {v \in lost : hand[v].id = i}}]
    /\ UNCHANGED <<clock, enabled, intent, log, evidence>>

Tick ==
    /\ clock < Horizon
    /\ clock' = clock + 1
    /\ UNCHANGED <<enabled, intent, log, evidence, hand, limit, accepted, stops>>

WorkerStep(w) ==
    \/ \E i \in Intents : DeadLetterExpiredClaim(w, i) \/ Claim(w, i)
    \/ Deliver(w)
    \/ Complete(w)
    \/ CompleteTooLate(w)

Next ==
    \/ \E e \in Events, silenced \in BOOLEAN : EnqueueIncidentEvent(e, silenced)
    \/ \E t \in Tests, d \in Destinations : TestDestination(t, d)
    \/ \E d \in Destinations : ReplaceDestination(d)
    \/ \E w \in Workers : WorkerStep(w)
    \/ Restart
    \/ Tick

Spec == Init /\ [][Next]_vars

FairSpec == Spec /\ WF_vars(Tick) /\ \A w \in Workers : WF_vars(WorkerStep(w))

-----------------------------------------------------------------------------
(* Table constraints of notification_intents that the statements must keep:
   an intent is attempting exactly while a claim token is stored, and the
   token is that of its latest claim; only a worker's own latest claim can
   still be completed. *)
ClaimStored ==
    \A i \in Intents :
        /\ (intent[i].state = "attempting") <=> (intent[i].token # 0)
        /\ (intent[i].state = "attempting") <=> (intent[i].claimedUntil # None)
        /\ intent[i].token # 0 => intent[i].token = intent[i].attempts

(* Two workers that hold the same intent hold different attempts of it. *)
HandsDistinct ==
    \A v, w \in Workers :
        hand[v] # NoClaim /\ hand[w] # NoClaim =>
            /\ hand[v].attempt <= intent[hand[v].id].attempts
            /\ (v # w /\ hand[v].id = hand[w].id) => hand[v].attempt # hand[w].attempt

(* The attempt rows never collide on (intent_id, attempt_number): they are
   appended in increasing attempt number however late a worker completes,
   none is ahead of the claims, only the last one can be final, and while an
   attempt is claimed its row is not there yet. *)
AttemptLogOrdered ==
    \A i \in Intents :
        /\ \A n \in 1 .. Len(log[i]) :
              /\ log[i][n].number <= intent[i].attempts
              /\ intent[i].state = "attempting" => log[i][n].number < intent[i].attempts
              /\ n < Len(log[i]) => log[i][n].outcome = "retry"
        /\ \A m, n \in 1 .. Len(log[i]) : m < n => log[i][m].number < log[i][n].number

(* The delivery state an operator sees is what the attempts show: delivered
   means the provider accepted the attempt recorded last, a final state has
   its final attempt row and exactly one timeline entry, and a suppressed
   intent was never attempted. *)
StateIsEvidence ==
    \A i \in Intents :
        LET last == log[i][Len(log[i])] IN
        /\ intent[i].state \in {"delivered", "failed", "dead_letter"} =>
              log[i] # <<>> /\ last.outcome = intent[i].state
        /\ intent[i].state = "delivered" => last.number \in accepted[i]
        /\ evidence[i] = (IF ForIncident(i) /\ intent[i].state \in Terminal \ {"suppressed"}
                          THEN 1 ELSE 0)
        /\ intent[i].state = "suppressed" => intent[i].attempts = 0 /\ accepted[i] = {}

(* What holds of intents, claims and attempt rows at any time, however late a
   worker completes and whatever limit a restart brings. *)
OutboxInv == TypeOK /\ ClaimStored /\ HandsDistinct /\ AttemptLogOrdered /\ StateIsEvidence

(* Terminal intents are immutable evidence: a late completion, an expired
   lease or a restart never changes one, nor its attempt rows. *)
TerminalIsFinal ==
    [][\A i \in Intents : intent[i].state \in Terminal =>
          intent'[i] = intent[i] /\ log'[i] = log[i]]_vars

(* A restart lowered max_attempts below what intent i, waiting for its retry,
   has used: claim does not take it, and deadLetterExpiredClaim only looks at
   expired claims. *)
OverLimit(i) == intent[i].state = "retry_wait" /\ intent[i].attempts >= limit

(* Every intent is in the end delivered, failed, a dead letter or suppressed,
   although workers may stop in the middle of a delivery; the one exception is
   a retry that a lowered attempt limit overtook. *)
EventuallyTerminal ==
    \A i \in Intents :
        (intent[i].state # "absent") ~> (intent[i].state \in Terminal \/ OverLimit(i))
=============================================================================
