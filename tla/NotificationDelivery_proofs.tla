--------------------- MODULE NotificationDelivery_proofs ---------------------
(***************************************************************************)
(* Proofs about the notification outbox: what NotificationDelivery's run   *)
(* checks of claims, attempt rows and delivery states holds for any        *)
(* events, destinations, workers, leases, attempt limits and restarts.     *)
(*                                                                         *)
(* OutboxInv is not inductive: that a late worker's claim cannot complete  *)
(* another attempt, and that a delivered intent was accepted, follow from  *)
(* what holds of every single row and of every claim in hand.              *)
(***************************************************************************)
EXTENDS NotificationDelivery, TLAPS

(* The row of intent i, its attempt rows and its timeline entries agree: a
   token is stored exactly while attempting and is that of the latest claim;
   nothing is counted before the first claim; the provider accepted only
   attempts that were claimed; attempt rows come in increasing number, are not
   ahead of the claims, and a final one is last and makes the state. *)
RowSound(i) ==
    /\ (intent[i].state = "attempting") <=> (intent[i].token # 0)
    /\ (intent[i].state = "attempting") <=> (intent[i].claimedUntil # None)
    /\ intent[i].token # 0 => intent[i].token = intent[i].attempts
    /\ intent[i].state \in {"absent", "queued", "suppressed"} => intent[i].attempts = 0
    /\ \A k \in accepted[i] : k <= intent[i].attempts
    /\ \A n \in 1 .. Len(log[i]) :
          /\ log[i][n].number <= intent[i].attempts
          /\ intent[i].state = "attempting" => log[i][n].number < intent[i].attempts
          /\ (n < Len(log[i]) \/ intent[i].state \notin Terminal) => log[i][n].outcome = "retry"
    /\ \A m, n \in 1 .. Len(log[i]) : m < n => log[i][m].number < log[i][n].number
    /\ intent[i].state \in {"delivered", "failed", "dead_letter"} =>
          Len(log[i]) > 0 /\ log[i][Len(log[i])].outcome = intent[i].state
    /\ intent[i].state = "delivered" => log[i][Len(log[i])].number \in accepted[i]
    /\ evidence[i] = (IF ForIncident(i) /\ intent[i].state \in Terminal \ {"suppressed"}
                      THEN 1 ELSE 0)

(* A claim in hand is one that was made, and its result is not invented. *)
HandSound(w) ==
    hand[w] # NoClaim =>
        /\ hand[w].attempt <= intent[hand[w].id].attempts
        /\ hand[w].result = "delivered" => hand[w].attempt \in accepted[hand[w].id]

(* Two claims of one intent in hand are different attempts. *)
HandsApart ==
    \A v, w \in Workers :
        (v # w /\ hand[v] # NoClaim /\ hand[w] # NoClaim /\ hand[v].id = hand[w].id) =>
            hand[v].attempt # hand[w].attempt

(* The inductive invariant. *)
OutboxInd ==
    /\ TypeOK
    /\ \A i \in Intents : RowSound(i)
    /\ \A w \in Workers : HandSound(w)
    /\ HandsApart

-----------------------------------------------------------------------------
(* An instant that a lease or a delay leads to is an instant. *)
LEMMA LaterInstant ==
    ASSUME NEW t \in Instants, NEW d \in Nat
    PROVE  Later(t, d) \in Instants
BY OutboxAssumption DEF Later, Instants

(* An intent is a pair. *)
LEMMA IntentIsPair ==
    ASSUME NEW i \in Intents
    PROVE  i = <<i[1], i[2]>> /\ i[1] \in Events \cup Tests /\ i[2] \in Destinations
BY DEF Intents

(* The attempt rows of an intent are attempts. *)
LEMMA LogEntry ==
    ASSUME NEW s \in Seq(Attempts), NEW n \in 1 .. Len(s)
    PROVE  s[n].number \in 1 .. MaxAttempts /\ s[n].outcome \in Outcomes
<1>1. s[n] \in Attempts
  OBVIOUS
<1> QED
  BY <1>1 DEF Attempts

(* What holds of one row depends on nothing else. *)
LEMMA RowKept ==
    ASSUME NEW i \in Intents, RowSound(i),
           intent'[i] = intent[i], log'[i] = log[i],
           evidence'[i] = evidence[i], accepted'[i] = accepted[i]
    PROVE  RowSound(i)'
BY DEF RowSound, ForIncident

(* A new row is a row, whatever its state and its instant. *)
LEMMA FreshRow ==
    ASSUME NEW state \in States, NEW t \in Instants,
           NEW r, r = [NewRow EXCEPT !.state = state, !.availableAt = t]
    PROVE  r \in Rows
<1>1. 0 \in 0 .. MaxAttempts /\ "absent" \in States /\ 0 \in Instants
  BY OutboxAssumption DEF States, Instants
<1>2. NewRow \in Rows
  BY <1>1 DEF NewRow, Rows
<1>3. r = [state |-> state, attempts |-> NewRow.attempts, availableAt |-> t,
           claimedUntil |-> NewRow.claimedUntil, token |-> NewRow.token]
  BY <1>2 DEF Rows
<1> QED
  BY <1>2, <1>3 DEF Rows

(* A row that was just inserted is sound: nothing was attempted. *)
LEMMA InsertedRow ==
    ASSUME NEW i \in Intents, TypeOK, RowSound(i), intent[i].state = "absent",
           NEW state \in {"queued", "suppressed"},
           intent'[i] = [NewRow EXCEPT !.state = state, !.availableAt = clock],
           log' = log, evidence' = evidence, accepted' = accepted
    PROVE  RowSound(i)' /\ intent'[i] \in Rows
<1> USE OutboxAssumption
<1>1. /\ intent'[i].state = state /\ intent'[i].attempts = 0 /\ intent'[i].token = 0
      /\ intent'[i].claimedUntil = None
  BY DEF NewRow
<1>2. intent[i].attempts = 0
  BY DEF RowSound
<1>3. accepted[i] = {} /\ Len(log[i]) = 0
  <2>1. accepted[i] \subseteq 1 .. MaxAttempts /\ log[i] \in Seq(Attempts)
    BY DEF TypeOK
  <2>2. accepted[i] = {}
    BY <1>2, <2>1 DEF RowSound
  <2>3. ASSUME Len(log[i]) # 0 PROVE FALSE
    <3>1. 1 \in 1 .. Len(log[i])
      BY <2>1, <2>3
    <3>2. log[i][1].number \in 1 .. MaxAttempts
      BY <2>1, <3>1, LogEntry
    <3> QED
      BY <1>2, <3>1, <3>2 DEF RowSound
  <2> QED
    BY <2>2, <2>3
<1>4. evidence[i] = 0
  BY DEF RowSound, Terminal
<1>5. RowSound(i)'
  BY <1>1, <1>3, <1>4 DEF RowSound, Terminal, None
<1>6. intent'[i] \in Rows
  <2>1. state \in States /\ clock \in Instants
    BY DEF States, TypeOK, Terminal
  <2> QED
    BY <2>1, FreshRow
<1> QED
  BY <1>5, <1>6

(* What deadLetterExpiredClaim and complete have in common: the claim of i is
   released into a state, with its attempt row and its timeline entry. *)
Close(i, state, t) ==
    /\ intent[i].state = "attempting"
    /\ intent' = [intent EXCEPT ![i] = Released(i, state, t)]
    /\ log' = [log EXCEPT ![i] = Append(@, [number |-> intent[i].attempts,
                                            outcome |-> OutcomeOf(state)])]
    /\ evidence' = [evidence EXCEPT ![i] = IF ForIncident(i) /\ state # "retry_wait"
                                           THEN @ + 1 ELSE @]
    /\ accepted' = accepted

(* Closing an attempt leaves every row sound, if an attempt that is recorded
   as delivered was accepted. *)
LEMMA CloseKeepsRows ==
    ASSUME TypeOK, \A j \in Intents : RowSound(j),
           NEW i \in Intents, NEW t \in Instants,
           NEW state \in {"delivered", "failed", "dead_letter", "retry_wait"},
           Close(i, state, t),
           state = "delivered" => intent[i].attempts \in accepted[i]
    PROVE  /\ intent' \in [Intents -> Rows]
           /\ log' \in [Intents -> Seq(Attempts)]
           /\ evidence' \in [Intents -> Nat]
           /\ \A j \in Intents : RowSound(j)' /\ intent'[j].attempts = intent[j].attempts
<1> USE OutboxAssumption
<1> DEFINE r == [number |-> intent[i].attempts, outcome |-> OutcomeOf(state)]
<1>1. intent[i] \in Rows /\ log[i] \in Seq(Attempts) /\ evidence[i] \in Nat
  BY DEF TypeOK
<1>2. intent[i].attempts \in 1 .. MaxAttempts /\ intent[i].state = "attempting"
  <2>1. intent[i].attempts \in 0 .. MaxAttempts /\ intent[i].token \in 0 .. MaxAttempts
    BY <1>1 DEF Rows
  <2>2. RowSound(i) /\ intent[i].state = "attempting"
    BY DEF Close
  <2>3. intent[i].token # 0 /\ intent[i].token = intent[i].attempts
    BY <2>2 DEF RowSound
  <2> QED
    BY <2>1, <2>2, <2>3
<1>3. r \in Attempts /\ r.number = intent[i].attempts /\ r.outcome = OutcomeOf(state)
  BY <1>2 DEF Attempts, Outcomes, OutcomeOf
<1>4. /\ intent'[i] = Released(i, state, t)
      /\ log'[i] = Append(log[i], r)
      /\ evidence'[i] = IF ForIncident(i) /\ state # "retry_wait" THEN evidence[i] + 1 ELSE evidence[i]
      /\ accepted' = accepted
  BY DEF Close, TypeOK
<1>5. \A j \in Intents : j # i => /\ intent'[j] = intent[j] /\ log'[j] = log[j]
                                  /\ evidence'[j] = evidence[j]
  BY DEF Close, TypeOK
<1>6. /\ intent'[i].state = state /\ intent'[i].attempts = intent[i].attempts
      /\ intent'[i].token = 0 /\ intent'[i].claimedUntil = None
      /\ intent'[i] \in Rows
  <2>1. state \in States /\ 0 \in 0 .. MaxAttempts
    BY DEF States, Terminal
  <2>2. intent'[i] = [state |-> state, attempts |-> intent[i].attempts, availableAt |-> t,
                      claimedUntil |-> None, token |-> 0]
    BY <1>1, <1>4 DEF Released, Rows
  <2>3. intent[i].attempts \in 0 .. MaxAttempts
    BY <1>2
  <2> QED
    BY <2>1, <2>2, <2>3 DEF Rows
<1>7. /\ Len(log'[i]) = Len(log[i]) + 1 /\ Len(log[i]) \in Nat
      /\ log'[i][Len(log'[i])] = r
      /\ \A n \in 1 .. Len(log[i]) : log'[i][n] = log[i][n]
      /\ log'[i] \in Seq(Attempts)
  BY <1>1, <1>3, <1>4
<1>8. evidence[i] = 0
  BY <1>2 DEF RowSound, Terminal
<1>9. intent' \in [Intents -> Rows]
  BY <1>6 DEF Close, TypeOK
<1>10. log' \in [Intents -> Seq(Attempts)]
  BY <1>7 DEF Close, TypeOK
<1>11. evidence' \in [Intents -> Nat]
  BY <1>1, <1>4 DEF Close, TypeOK
<1>12. RowSound(i)'
  <2>0. RowSound(i)
    OBVIOUS
  <2>1. \A n \in 1 .. Len(log'[i]) : n = Len(log'[i]) \/ n \in 1 .. Len(log[i])
    BY <1>7
  <2>2. \A n \in 1 .. Len(log[i]) : log[i][n].number < intent[i].attempts /\ log[i][n].outcome = "retry"
    BY <1>2, <2>0 DEF RowSound, Terminal
  <2>3. \A n \in 1 .. Len(log[i]) : log[i][n].number \in Nat
    BY <1>1, LogEntry
  <2>4. \A n \in 1 .. Len(log'[i]) :
          /\ log'[i][n].number <= intent[i].attempts
          /\ (n < Len(log'[i]) \/ state \notin Terminal) => log'[i][n].outcome = "retry"
    <3> SUFFICES ASSUME NEW n \in 1 .. Len(log'[i])
                 PROVE  /\ log'[i][n].number <= intent[i].attempts
                        /\ (n < Len(log'[i]) \/ state \notin Terminal) => log'[i][n].outcome = "retry"
      OBVIOUS
    <3>1. CASE n = Len(log'[i])
      BY <1>2, <1>3, <1>7, <3>1 DEF OutcomeOf, Terminal
    <3>2. CASE n \in 1 .. Len(log[i])
      <4>1. log'[i][n] = log[i][n]
        BY <1>7, <3>2
      <4>2. log[i][n].number < intent[i].attempts /\ log[i][n].outcome = "retry" /\ log[i][n].number \in Nat
        BY <2>2, <2>3, <3>2
      <4> QED
        BY <1>2, <4>1, <4>2
    <3> QED
      BY <2>1, <3>1, <3>2
  <2>5. \A m, n \in 1 .. Len(log'[i]) : m < n => log'[i][m].number < log'[i][n].number
    <3> SUFFICES ASSUME NEW m \in 1 .. Len(log'[i]), NEW n \in 1 .. Len(log'[i]), m < n
                 PROVE  log'[i][m].number < log'[i][n].number
      OBVIOUS
    <3>1. m \in 1 .. Len(log[i])
      BY <1>7
    <3>2. CASE n = Len(log'[i])
      BY <1>3, <1>7, <2>2, <3>1, <3>2
    <3>3. CASE n \in 1 .. Len(log[i])
      BY <1>7, <2>0, <3>1, <3>3 DEF RowSound
    <3> QED
      BY <2>1, <3>2, <3>3
  <2>6. \A k \in accepted'[i] : k <= intent'[i].attempts
    BY <1>4, <1>6, <2>0 DEF RowSound
  <2>7. state \in {"delivered", "failed", "dead_letter"} =>
           Len(log'[i]) > 0 /\ log'[i][Len(log'[i])].outcome = state
    BY <1>3, <1>7 DEF OutcomeOf
  <2>8. state = "delivered" => log'[i][Len(log'[i])].number \in accepted'[i]
    BY <1>3, <1>4, <1>7
  <2>9. evidence'[i] = (IF ForIncident(i) /\ state \in Terminal \ {"suppressed"} THEN 1 ELSE 0)
    BY <1>4, <1>8 DEF Terminal
  <2> QED
    BY <1>6, <2>4, <2>5, <2>6, <2>7, <2>8, <2>9 DEF RowSound, ForIncident, None
<1>13. \A j \in Intents : RowSound(j)' /\ intent'[j].attempts = intent[j].attempts
  BY <1>4, <1>5, <1>6, <1>12, RowKept
<1> QED
  BY <1>9, <1>10, <1>11, <1>13

-----------------------------------------------------------------------------
(* A provider that accepts more of the claimed attempts disturbs no row. *)
LEMMA RowGrows ==
    ASSUME NEW i \in Intents, RowSound(i),
           intent'[i] = intent[i], log'[i] = log[i], evidence'[i] = evidence[i],
           accepted[i] \subseteq accepted'[i], \A k \in accepted'[i] : k <= intent[i].attempts
    PROVE  RowSound(i)'
BY DEF RowSound, ForIncident

(* Claims in hand stay what they are when they are kept or dropped, while
   attempts are counted up and the provider accepts more. *)
LEMMA HandsKept ==
    ASSUME TypeOK, \A w \in Workers : HandSound(w), HandsApart,
           \A w \in Workers : hand'[w] = hand[w] \/ hand'[w] = NoClaim,
           \A i \in Intents : /\ intent'[i].attempts = intent[i].attempts
                              /\ accepted[i] \subseteq accepted'[i]
    PROVE  (\A w \in Workers : HandSound(w)') /\ HandsApart'
<1>1. ASSUME NEW w \in Workers PROVE HandSound(w)'
  <2>1. SUFFICES ASSUME hand'[w] # NoClaim
                 PROVE  /\ hand'[w].attempt <= intent'[hand'[w].id].attempts
                        /\ hand'[w].result = "delivered" => hand'[w].attempt \in accepted'[hand'[w].id]
    BY DEF HandSound
  <2>2. hand'[w] = hand[w] /\ hand[w] # NoClaim /\ hand[w] \in Claims
    BY <2>1 DEF TypeOK
  <2>3. hand[w].id \in Intents
    BY <2>2 DEF Claims
  <2> QED
    BY <2>2, <2>3 DEF HandSound
<1>2. HandsApart'
  BY DEF HandsApart
<1> QED
  BY <1>1, <1>2

(* What is to show of a step. *)
Kept == TypeOK' /\ (\A i \in Intents : RowSound(i)') /\ (\A w \in Workers : HandSound(w)') /\ HandsApart'

(* Inserting the intents of an event keeps the invariant. *)
LEMMA EnqueueStep ==
    ASSUME OutboxInd, NEW e \in Events, NEW silenced \in BOOLEAN, EnqueueIncidentEvent(e, silenced)
    PROVE  Kept
<1> DEFINE state == IF silenced THEN "suppressed" ELSE "queued"
           fresh == [NewRow EXCEPT !.state = state, !.availableAt = clock]
<1>0. TypeOK /\ (\A i \in Intents : RowSound(i)) /\ (\A w \in Workers : HandSound(w)) /\ HandsApart
  BY DEF OutboxInd
<1>1. state \in {"queued", "suppressed"} /\ state \in States
  BY DEF States, Terminal
<1>2. /\ intent' = [i \in Intents |-> IF i[1] = e /\ enabled[i[2]] THEN fresh ELSE intent[i]]
      /\ log' = log /\ evidence' = evidence /\ accepted' = accepted /\ hand' = hand
      /\ UNCHANGED <<clock, enabled, limit, stops>>
  BY DEF EnqueueIncidentEvent
<1>3. ASSUME NEW i \in Intents
      PROVE  RowSound(i)' /\ intent'[i] \in Rows /\ intent'[i].attempts = intent[i].attempts
  <2>1. CASE i[1] = e /\ enabled[i[2]]
    <3>1. intent'[i] = fresh
      BY <1>2, <2>1
    <3>2. intent[i].state = "absent"
      BY <2>1, IntentIsPair DEF EnqueueIncidentEvent
    <3>3. RowSound(i)' /\ intent'[i] \in Rows
      BY <1>0, <1>1, <1>2, <3>1, <3>2, InsertedRow
    <3>4. fresh.attempts = 0 /\ intent[i].attempts = 0
      BY <1>0, <3>2 DEF NewRow, RowSound
    <3> QED
      BY <3>1, <3>3, <3>4
  <2>2. CASE ~(i[1] = e /\ enabled[i[2]])
    <3>1. intent'[i] = intent[i]
      BY <1>2, <2>2
    <3> QED
      BY <1>0, <1>2, <3>1, RowKept DEF TypeOK
  <2> QED
    BY <2>1, <2>2
<1>4. TypeOK'
  BY <1>0, <1>2, <1>3 DEF TypeOK
<1>5. (\A w \in Workers : HandSound(w)') /\ HandsApart'
  BY <1>0, <1>2, <1>3, HandsKept
<1> QED
  BY <1>3, <1>4, <1>5 DEF Kept

(* So does the intent of a test. *)
LEMMA TestStep ==
    ASSUME OutboxInd, NEW t \in Tests, NEW d \in Destinations, TestDestination(t, d)
    PROVE  Kept
<1> DEFINE i == <<t, d>>
           fresh == [NewRow EXCEPT !.state = "queued", !.availableAt = clock]
<1>0. TypeOK /\ (\A j \in Intents : RowSound(j)) /\ (\A w \in Workers : HandSound(w)) /\ HandsApart
  BY DEF OutboxInd
<1>1. i \in Intents
  BY DEF Intents
<1>2. /\ intent' = [intent EXCEPT ![i] = fresh] /\ intent[i].state = "absent"
      /\ log' = log /\ evidence' = evidence /\ accepted' = accepted /\ hand' = hand
      /\ UNCHANGED <<clock, enabled, limit, stops>>
  BY DEF TestDestination
<1> HIDE DEF i, fresh
<1>3. intent'[i] = fresh /\ \A j \in Intents : j # i => intent'[j] = intent[j]
  BY <1>0, <1>1, <1>2 DEF TypeOK
<1>4. RowSound(i)' /\ intent'[i] \in Rows
  BY <1>0, <1>1, <1>2, <1>3, InsertedRow DEF fresh
<1>5. fresh.attempts = 0 /\ intent[i].attempts = 0
  BY <1>0, <1>1, <1>2 DEF NewRow, RowSound, fresh
<1>6. \A j \in Intents : RowSound(j)' /\ intent'[j].attempts = intent[j].attempts
  BY <1>0, <1>2, <1>3, <1>4, <1>5, RowKept
<1>7. TypeOK'
  BY <1>0, <1>1, <1>2, <1>4 DEF TypeOK
<1>8. (\A w \in Workers : HandSound(w)') /\ HandsApart'
  BY <1>0, <1>2, <1>6, HandsKept
<1> QED
  BY <1>6, <1>7, <1>8 DEF Kept

(* Giving up an expired last claim keeps the invariant. *)
LEMMA DeadLetterStep ==
    ASSUME OutboxInd, NEW w \in Workers, NEW i \in Intents, DeadLetterExpiredClaim(w, i)
    PROVE  Kept
<1>0. TypeOK /\ (\A j \in Intents : RowSound(j)) /\ (\A v \in Workers : HandSound(v)) /\ HandsApart
  BY DEF OutboxInd
<1>1. /\ hand' = hand /\ accepted' = accepted
      /\ UNCHANGED <<clock, enabled, limit, stops>>
  BY DEF DeadLetterExpiredClaim
<1>2. intent[i].availableAt \in Instants
  <2>1. intent[i] \in Rows
    BY <1>0 DEF TypeOK
  <2> QED
    BY <2>1 DEF Rows
<1>3. Close(i, "dead_letter", intent[i].availableAt)
  BY DEF DeadLetterExpiredClaim, Close, Exhausted, LeaseExpired, OutcomeOf
<1>4. /\ intent' \in [Intents -> Rows] /\ log' \in [Intents -> Seq(Attempts)]
      /\ evidence' \in [Intents -> Nat]
      /\ \A j \in Intents : RowSound(j)' /\ intent'[j].attempts = intent[j].attempts
  BY <1>0, <1>2, <1>3, CloseKeepsRows
<1>5. TypeOK'
  BY <1>0, <1>1, <1>4 DEF TypeOK
<1>6. (\A v \in Workers : HandSound(v)') /\ HandsApart'
  BY <1>0, <1>1, <1>4, HandsKept
<1> QED
  BY <1>4, <1>5, <1>6 DEF Kept

(* A claim is made under a number no other claim of the intent has. *)
LEMMA ClaimStep ==
    ASSUME OutboxInd, NEW w \in Workers, NEW i \in Intents, Claim(w, i)
    PROVE  Kept
<1> USE OutboxAssumption
<1> DEFINE n == intent[i].attempts + 1
           c == [id |-> i, attempt |-> n, result |-> "none"]
<1>0. TypeOK /\ (\A j \in Intents : RowSound(j)) /\ (\A v \in Workers : HandSound(v)) /\ HandsApart
  BY DEF OutboxInd
<1>1. intent[i] \in Rows /\ clock \in Instants /\ limit \in 1 .. MaxAttempts
  BY <1>0 DEF TypeOK
<1>2. intent[i].attempts \in 0 .. MaxAttempts /\ intent[i].attempts < limit
  BY <1>1 DEF Claim, Due, Rows
<1>3. n \in 1 .. MaxAttempts
  BY <1>1, <1>2
<1>4. Later(clock, Lease) \in Instants
  BY <1>1, LaterInstant
<1>5. /\ log' = log /\ evidence' = evidence /\ accepted' = accepted
      /\ UNCHANGED <<clock, enabled, limit, stops>>
      /\ hand' = [hand EXCEPT ![w] = c]
      /\ intent' = [intent EXCEPT ![i] =
                     [intent[i] EXCEPT !.state = "attempting", !.attempts = n, !.token = n,
                                       !.claimedUntil = Later(clock, Lease)]]
  BY <1>0 DEF Claim, NextAttempt
<1>6. c \in Claims /\ c.id = i /\ c.attempt = n /\ c.result = "none"
  BY <1>3 DEF Claims, Results
<1> HIDE DEF c
<1>7. /\ intent'[i] = [state |-> "attempting", attempts |-> n,
                       availableAt |-> intent[i].availableAt,
                       claimedUntil |-> Later(clock, Lease), token |-> n]
      /\ \A j \in Intents : j # i => intent'[j] = intent[j]
  BY <1>0, <1>1, <1>5 DEF TypeOK, Rows
<1>8. intent'[i] \in Rows
  <2>1. "attempting" \in States /\ intent[i].availableAt \in Instants /\ n \in 0 .. MaxAttempts
    BY <1>1, <1>3 DEF Rows, States
  <2> QED
    BY <1>4, <1>7, <2>1 DEF Rows
<1>9. intent[i].state \in {"queued", "retry_wait", "attempting"}
  BY DEF Claim, Due, LeaseExpired
<1>10. RowSound(i)'
  <2>0. RowSound(i)
    BY <1>0
  <2>1. /\ intent'[i].state = "attempting" /\ intent'[i].attempts = n
        /\ intent'[i].token = n /\ intent'[i].claimedUntil = Later(clock, Lease)
    BY <1>7
  <2>2. Later(clock, Lease) # None
    BY <1>4 DEF Instants, None
  <2>3. evidence'[i] = 0
    BY <1>5, <1>9, <2>0 DEF RowSound, Terminal
  <2>4. log[i] \in Seq(Attempts) /\ accepted[i] \subseteq 1 .. MaxAttempts
    BY <1>0 DEF TypeOK
  <2>5. \A m \in 1 .. Len(log[i]) : log[i][m].number \in 1 .. MaxAttempts
    BY <2>4, LogEntry
  <2>6. \A m \in 1 .. Len(log[i]) : log[i][m].number < n /\ log[i][m].outcome = "retry"
    BY <1>2, <1>9, <2>0, <2>5 DEF RowSound, Terminal
  <2>7. \A k \in accepted[i] : k <= n
    BY <1>2, <2>0, <2>4 DEF RowSound
  <2>8. \A k, m \in 1 .. Len(log[i]) : k < m => log[i][k].number < log[i][m].number
    BY <2>0 DEF RowSound
  <2>9. \A m \in 1 .. Len(log[i]) : log[i][m].number <= n
    BY <1>3, <2>5, <2>6
  <2> QED
    BY <1>3, <1>5, <2>1, <2>2, <2>3, <2>6, <2>7, <2>8, <2>9 DEF RowSound, Terminal
<1>11. \A j \in Intents : RowSound(j)'
  BY <1>0, <1>5, <1>7, <1>10, RowKept
<1>12. hand'[w] = c /\ \A v \in Workers : v # w => hand'[v] = hand[v]
  BY <1>0, <1>5 DEF TypeOK
<1>13. TypeOK'
  BY <1>0, <1>5, <1>6, <1>8 DEF TypeOK
<1>14. ASSUME NEW v \in Workers, v # w, hand[v] # NoClaim
       PROVE  /\ hand[v].id \in Intents /\ hand[v].attempt \in 1 .. MaxAttempts
              /\ hand[v].id = i => hand[v].attempt < n
              /\ HandSound(v)'
  <2>1. hand[v] \in Claims /\ HandSound(v)
    BY <1>0, <1>14 DEF TypeOK
  <2>2. hand[v].id \in Intents /\ hand[v].attempt \in 1 .. MaxAttempts
    BY <2>1 DEF Claims
  <2>3. hand[v].attempt <= intent[hand[v].id].attempts
    BY <1>14, <2>1 DEF HandSound
  <2>4. hand[v].id = i => hand[v].attempt < n
    BY <1>2, <2>2, <2>3
  <2>5. hand[v].attempt <= intent'[hand[v].id].attempts
    BY <1>3, <1>7, <2>2, <2>3, <2>4
  <2>6. hand[v].result = "delivered" => hand[v].attempt \in accepted[hand[v].id]
    BY <1>14, <2>1 DEF HandSound
  <2> QED
    BY <1>5, <1>12, <1>14, <2>2, <2>4, <2>5, <2>6 DEF HandSound
<1>15. ASSUME NEW v \in Workers PROVE HandSound(v)'
  <2>1. CASE v = w
    BY <1>3, <1>6, <1>7, <1>12, <2>1 DEF HandSound
  <2>2. CASE v # w /\ hand[v] # NoClaim
    BY <1>14, <2>2
  <2>3. CASE v # w /\ hand[v] = NoClaim
    BY <1>12, <2>3 DEF HandSound
  <2> QED
    BY <2>1, <2>2, <2>3
<1>16. HandsApart'
  <2> SUFFICES ASSUME NEW u \in Workers, NEW v \in Workers, u # v,
                      hand'[u] # NoClaim, hand'[v] # NoClaim, hand'[u].id = hand'[v].id
               PROVE  hand'[u].attempt # hand'[v].attempt
    BY DEF HandsApart
  <2>1. CASE u # w /\ v # w
    BY <1>0, <1>12, <2>1 DEF HandsApart
  <2>2. CASE u = w
    <3>1. hand'[v] = hand[v] /\ hand'[u] = c
      BY <1>12, <2>2
    <3> QED
      BY <1>3, <1>6, <1>14, <2>2, <3>1
  <2>3. CASE v = w
    <3>1. hand'[u] = hand[u] /\ hand'[v] = c
      BY <1>12, <2>3
    <3> QED
      BY <1>3, <1>6, <1>14, <2>3, <3>1
  <2> QED
    BY <2>1, <2>2, <2>3
<1> QED
  BY <1>11, <1>13, <1>15, <1>16 DEF Kept

(* A delivery is reported as delivered only if the provider accepted it. *)
LEMMA DeliverStep ==
    ASSUME OutboxInd, NEW w \in Workers, Deliver(w)
    PROVE  Kept
<1> DEFINE i == hand[w].id
           n == hand[w].attempt
<1>0. TypeOK /\ (\A j \in Intents : RowSound(j)) /\ (\A v \in Workers : HandSound(v)) /\ HandsApart
  BY DEF OutboxInd
<1>1. hand[w] # NoClaim /\ hand[w] \in Claims /\ HandSound(w)
  BY <1>0 DEF Deliver, TypeOK
<1>2. i \in Intents /\ n \in 1 .. MaxAttempts /\ n <= intent[i].attempts
  BY <1>1 DEF Claims, HandSound
<1>3. PICK took \in BOOLEAN, result \in Results \ {"none"} :
        /\ (result = "delivered") => took
        /\ hand' = [hand EXCEPT ![w] = [hand[w] EXCEPT !.result = result]]
        /\ accepted' = IF took THEN [accepted EXCEPT ![i] = accepted[i] \cup {n}] ELSE accepted
  BY <1>0 DEF Deliver, TypeOK
<1>4. UNCHANGED <<clock, enabled, intent, log, evidence, limit, stops>>
  BY DEF Deliver
<1>5. /\ hand'[w] = [id |-> i, attempt |-> n, result |-> result]
      /\ \A v \in Workers : v # w => hand'[v] = hand[v]
  BY <1>0, <1>1, <1>3 DEF TypeOK, Claims
<1>6. hand'[w] \in Claims
  BY <1>2, <1>5 DEF Claims
<1>7. \A j \in Intents : /\ accepted[j] \subseteq accepted'[j]
                         /\ accepted'[j] \subseteq accepted[j] \cup (IF j = i THEN {n} ELSE {})
  BY <1>0, <1>2, <1>3 DEF TypeOK
<1>8. result = "delivered" => n \in accepted'[i]
  BY <1>0, <1>2, <1>3 DEF TypeOK
<1>9. accepted' \in [Intents -> SUBSET (1 .. MaxAttempts)]
  BY <1>0, <1>2, <1>3 DEF TypeOK
<1>10. TypeOK'
  BY <1>0, <1>3, <1>4, <1>6, <1>9 DEF TypeOK
<1>11. ASSUME NEW j \in Intents PROVE RowSound(j)'
  <2>1. RowSound(j)
    BY <1>0
  <2>2. \A k \in accepted[j] : k <= intent[j].attempts
    BY <2>1 DEF RowSound
  <2>3. \A k \in accepted'[j] : k <= intent[j].attempts
    BY <1>2, <1>7, <2>2
  <2> QED
    BY <1>4, <1>7, <2>1, <2>3, RowGrows
<1>12. ASSUME NEW v \in Workers PROVE HandSound(v)'
  <2>1. CASE v = w
    BY <1>2, <1>4, <1>5, <1>8, <2>1 DEF HandSound
  <2>2. CASE v # w /\ hand[v] # NoClaim
    <3>1. hand'[v] = hand[v] /\ hand[v] \in Claims /\ HandSound(v)
      BY <1>0, <1>5, <2>2 DEF TypeOK
    <3>2. hand[v].id \in Intents
      BY <3>1 DEF Claims
    <3> QED
      BY <1>4, <1>7, <2>2, <3>1, <3>2 DEF HandSound
  <2>3. CASE v # w /\ hand[v] = NoClaim
    BY <1>5, <2>3 DEF HandSound
  <2> QED
    BY <2>1, <2>2, <2>3
<1>13. HandsApart'
  <2>1. \A v \in Workers : hand'[v] # NoClaim =>
          hand[v] # NoClaim /\ hand'[v].id = hand[v].id /\ hand'[v].attempt = hand[v].attempt
    BY <1>1, <1>5
  <2> QED
    BY <1>0, <2>1 DEF HandsApart
<1> QED
  BY <1>10, <1>11, <1>12, <1>13 DEF Kept

(* A completion whose token is still stored closes the attempt it is about. *)
LEMMA CompleteStep ==
    ASSUME OutboxInd, NEW w \in Workers, Complete(w)
    PROVE  Kept
<1> USE OutboxAssumption
<1> DEFINE i == hand[w].id
           state == StateOf(hand[w])
<1>0. TypeOK /\ (\A j \in Intents : RowSound(j)) /\ (\A v \in Workers : HandSound(v)) /\ HandsApart
  BY DEF OutboxInd
<1>1. hand[w] # NoClaim /\ hand[w] \in Claims /\ HandSound(w) /\ StillClaimed(hand[w])
  BY <1>0 DEF Complete, TypeOK
<1>2. i \in Intents /\ hand[w].attempt = intent[i].attempts /\ intent[i].state = "attempting"
  BY <1>1 DEF Claims, StillClaimed
<1>3. PICK delay \in IF state = "retry_wait" THEN RetryDelays(hand[w].attempt) ELSE {0} :
        intent' = [intent EXCEPT ![i] = Released(i, state, Later(clock, delay))]
  BY DEF Complete
<1>4. Later(clock, delay) \in Instants
  <2>1. delay \in Nat /\ clock \in Instants
    BY <1>0 DEF RetryDelays, TypeOK
  <2> QED
    BY <2>1, LaterInstant
<1>5. /\ log' = [log EXCEPT ![i] = Append(@, [number |-> hand[w].attempt, outcome |-> OutcomeOf(state)])]
      /\ evidence' = [evidence EXCEPT ![i] = IF ForIncident(i) /\ state # "retry_wait" THEN @ + 1 ELSE @]
      /\ hand' = [hand EXCEPT ![w] = NoClaim]
      /\ accepted' = accepted
      /\ UNCHANGED <<clock, enabled, limit, stops>>
  BY DEF Complete
<1>6. /\ state \in {"delivered", "failed", "dead_letter", "retry_wait"}
      /\ state = "delivered" => hand[w].result = "delivered"
  BY DEF StateOf
<1>7. state = "delivered" => intent[i].attempts \in accepted[i]
  BY <1>1, <1>2, <1>6 DEF HandSound
<1> HIDE DEF state, i
<1>8. Close(i, state, Later(clock, delay))
  BY <1>2, <1>3, <1>5 DEF Close
<1>9. /\ intent' \in [Intents -> Rows] /\ log' \in [Intents -> Seq(Attempts)]
      /\ evidence' \in [Intents -> Nat]
      /\ \A j \in Intents : RowSound(j)' /\ intent'[j].attempts = intent[j].attempts
  BY <1>0, <1>2, <1>4, <1>6, <1>7, <1>8, CloseKeepsRows
<1>10. hand' \in [Workers -> Claims \cup {NoClaim}]
  BY <1>0, <1>5 DEF TypeOK
<1>11. TypeOK'
  BY <1>0, <1>5, <1>9, <1>10 DEF TypeOK
<1>12. \A v \in Workers : hand'[v] = hand[v] \/ hand'[v] = NoClaim
  BY <1>0, <1>5 DEF TypeOK
<1>13. (\A v \in Workers : HandSound(v)') /\ HandsApart'
  BY <1>0, <1>5, <1>9, <1>12, HandsKept
<1> QED
  BY <1>9, <1>11, <1>13 DEF Kept

(* Claims are dropped by late completions and by restarts; the provider may
   have accepted what a restart cut off. *)
LEMMA DropStep ==
    ASSUME OutboxInd, (\E w \in Workers : CompleteTooLate(w)) \/ Restart
    PROVE  Kept
<1> USE OutboxAssumption
<1>0. TypeOK /\ (\A j \in Intents : RowSound(j)) /\ (\A v \in Workers : HandSound(v)) /\ HandsApart
  BY DEF OutboxInd
<1>1. UNCHANGED <<clock, enabled, intent, log, evidence>>
  BY DEF CompleteTooLate, Restart
<1>2. /\ hand' \in [Workers -> Claims \cup {NoClaim}]
      /\ \A w \in Workers : hand'[w] = hand[w] \/ hand'[w] = NoClaim
  BY <1>0 DEF CompleteTooLate, Restart, TypeOK
<1>3. limit' \in Limits /\ stops' \in 0 .. MaxStops
  BY <1>0 DEF CompleteTooLate, Restart, TypeOK
<1>4. /\ accepted' \in [Intents -> SUBSET (1 .. MaxAttempts)]
      /\ \A j \in Intents : accepted[j] \subseteq accepted'[j]
      /\ \A j \in Intents : \A k \in accepted'[j] : k <= intent[j].attempts
  <2>0. \A j \in Intents : \A k \in accepted[j] : k <= intent[j].attempts
    BY <1>0 DEF RowSound
  <2>1. CASE \E w \in Workers : CompleteTooLate(w)
    <3>1. accepted' = accepted
      BY <2>1 DEF CompleteTooLate
    <3> QED
      BY <1>0, <2>0, <3>1 DEF TypeOK
  <2>2. CASE Restart
    <3>1. PICK lost \in SUBSET {w \in Workers : hand[w] # NoClaim /\ hand[w].result = "none"} :
            accepted' = [i \in Intents |->
               accepted[i] \cup {hand[w].attempt : w \in {v \in lost : hand[v].id = i}}]
      BY <2>2 DEF Restart
    <3>2. \A w \in lost : hand[w].attempt \in 1 .. MaxAttempts /\ hand[w].attempt <= intent[hand[w].id].attempts
      <4> SUFFICES ASSUME NEW w \in lost
                   PROVE  hand[w].attempt \in 1 .. MaxAttempts /\ hand[w].attempt <= intent[hand[w].id].attempts
        OBVIOUS
      <4>1. w \in Workers /\ hand[w] # NoClaim
        OBVIOUS
      <4>2. hand[w] \in Claims /\ HandSound(w)
        BY <1>0, <4>1 DEF TypeOK
      <4> QED
        BY <4>1, <4>2 DEF Claims, HandSound
    <3>3. ASSUME NEW j \in Intents
          PROVE  /\ accepted'[j] \subseteq 1 .. MaxAttempts /\ accepted[j] \subseteq accepted'[j]
                 /\ \A k \in accepted'[j] : k <= intent[j].attempts
      <4>1. accepted'[j] = accepted[j] \cup {hand[w].attempt : w \in {v \in lost : hand[v].id = j}}
        BY <3>1
      <4>2. \A k \in {hand[w].attempt : w \in {v \in lost : hand[v].id = j}} :
              k \in 1 .. MaxAttempts /\ k <= intent[j].attempts
        BY <3>2
      <4>3. accepted[j] \subseteq 1 .. MaxAttempts
        BY <1>0 DEF TypeOK
      <4> QED
        BY <2>0, <4>1, <4>2, <4>3
    <3>4. accepted' \in [Intents -> SUBSET (1 .. MaxAttempts)]
      BY <3>1, <3>3
    <3> QED
      BY <3>3, <3>4
  <2> QED
    BY <2>1, <2>2
<1>5. TypeOK'
  BY <1>0, <1>1, <1>2, <1>3, <1>4 DEF TypeOK
<1>6. \A j \in Intents : RowSound(j)'
  BY <1>0, <1>1, <1>4, RowGrows
<1>7. (\A v \in Workers : HandSound(v)') /\ HandsApart'
  BY <1>0, <1>1, <1>2, <1>4, HandsKept
<1> QED
  BY <1>5, <1>6, <1>7 DEF Kept

(* Configuration and time touch neither rows nor claims. *)
LEMMA AsideStep ==
    ASSUME OutboxInd,
           (\E d \in Destinations : ReplaceDestination(d)) \/ Tick \/ UNCHANGED vars
    PROVE  Kept
<1>0. TypeOK /\ (\A j \in Intents : RowSound(j)) /\ (\A v \in Workers : HandSound(v)) /\ HandsApart
  BY DEF OutboxInd
<1>1. UNCHANGED <<intent, log, evidence, hand, limit, accepted, stops>>
  BY DEF ReplaceDestination, Tick, vars
<1>2. clock' \in Instants
  BY <1>0, OutboxAssumption DEF ReplaceDestination, Tick, vars, TypeOK, Instants
<1>3. enabled' \in [Destinations -> BOOLEAN]
  BY <1>0 DEF ReplaceDestination, Tick, vars, TypeOK
<1>4. TypeOK'
  BY <1>0, <1>1, <1>2, <1>3 DEF TypeOK
<1>5. \A j \in Intents : RowSound(j)'
  BY <1>0, <1>1, RowKept
<1>6. (\A v \in Workers : HandSound(v)') /\ HandsApart'
  BY <1>0, <1>1, HandsKept
<1> QED
  BY <1>4, <1>5, <1>6 DEF Kept

-----------------------------------------------------------------------------
(* The inductive invariant holds at any time (the tables of migration
   000012, written by writer.go, worker.go and service.go). *)
THEOREM OutboxIndHolds == Spec => []OutboxInd
<1>1. Init => OutboxInd
  <2> SUFFICES ASSUME Init PROVE OutboxInd
    OBVIOUS
  <2> USE OutboxAssumption
  <2>1. NewRow \in Rows
    <3>1. 0 \in 0 .. MaxAttempts /\ "absent" \in States /\ 0 \in Instants
      BY DEF States, Instants
    <3> QED
      BY <3>1 DEF NewRow, Rows
  <2>2. TypeOK
    BY <2>1 DEF Init, TypeOK, Instants
  <2>3. \A i \in Intents : RowSound(i)
    BY DEF Init, RowSound, NewRow, Terminal, None
  <2>4. (\A w \in Workers : HandSound(w)) /\ HandsApart
    BY DEF Init, HandSound, HandsApart
  <2> QED
    BY <2>2, <2>3, <2>4 DEF OutboxInd
<1>2. OutboxInd /\ [Next]_vars => OutboxInd'
  <2> SUFFICES ASSUME OutboxInd, [Next]_vars PROVE OutboxInd'
    OBVIOUS
  <2>1. ASSUME NEW e \in Events, NEW silenced \in BOOLEAN, EnqueueIncidentEvent(e, silenced) PROVE Kept
    BY <2>1, EnqueueStep
  <2>2. ASSUME NEW t \in Tests, NEW d \in Destinations, TestDestination(t, d) PROVE Kept
    BY <2>2, TestStep
  <2>3. ASSUME NEW w \in Workers, WorkerStep(w) PROVE Kept
    BY <2>3, DeadLetterStep, ClaimStep, DeliverStep, CompleteStep, DropStep DEF WorkerStep
  <2>4. ASSUME Restart PROVE Kept
    BY <2>4, DropStep
  <2>5. ASSUME (\E d \in Destinations : ReplaceDestination(d)) \/ Tick \/ UNCHANGED vars PROVE Kept
    BY <2>5, AsideStep
  <2>6. Kept
    BY <2>1, <2>2, <2>3, <2>4, <2>5 DEF Next
  <2> QED
    BY <2>6 DEF Kept, OutboxInd
<1> QED
  BY <1>1, <1>2, PTL DEF Spec

(* What the run checks follows from it. *)
LEMMA IndImpliesInv == OutboxInd => OutboxInv
<1> SUFFICES ASSUME OutboxInd PROVE OutboxInv
  OBVIOUS
<1> USE OutboxAssumption
<1>0. TypeOK /\ (\A j \in Intents : RowSound(j)) /\ (\A v \in Workers : HandSound(v)) /\ HandsApart
  BY DEF OutboxInd
<1>1. ClaimStored
  BY <1>0 DEF ClaimStored, RowSound
<1>2. HandsDistinct
  BY <1>0 DEF HandsDistinct, HandSound, HandsApart
<1>3. AttemptLogOrdered
  BY <1>0 DEF AttemptLogOrdered, RowSound
<1>4. StateIsEvidence
  <2> SUFFICES ASSUME NEW i \in Intents
               PROVE  /\ intent[i].state \in {"delivered", "failed", "dead_letter"} =>
                           log[i] # <<>> /\ log[i][Len(log[i])].outcome = intent[i].state
                      /\ intent[i].state = "delivered" => log[i][Len(log[i])].number \in accepted[i]
                      /\ evidence[i] = (IF ForIncident(i) /\ intent[i].state \in Terminal \ {"suppressed"}
                                        THEN 1 ELSE 0)
                      /\ intent[i].state = "suppressed" => intent[i].attempts = 0 /\ accepted[i] = {}
    BY DEF StateIsEvidence
  <2>1. RowSound(i) /\ accepted[i] \subseteq 1 .. MaxAttempts
    BY <1>0 DEF TypeOK
  <2>2. intent[i].state = "suppressed" => intent[i].attempts = 0 /\ accepted[i] = {}
    BY <2>1 DEF RowSound
  <2>3. Len(log[i]) > 0 => log[i] # <<>>
    OBVIOUS
  <2> QED
    BY <2>1, <2>2, <2>3 DEF RowSound
<1> QED
  BY <1>0, <1>1, <1>2, <1>3, <1>4 DEF OutboxInv

(* However late a worker completes, whatever lease expires and whatever limit
   a restart brings, claims, attempt rows and delivery states agree: the
   outbox invariant of the run, for any number of intents, workers, attempts
   and restarts. *)
THEOREM OutboxSafe == Spec => []OutboxInv
BY OutboxIndHolds, IndImpliesInv, PTL

(* A terminal intent, and its attempt rows, are immutable: claim,
   deadLetterExpiredClaim and complete only touch rows that are not terminal,
   and enqueueing only rows that are not there. *)
THEOREM TerminalStays == Spec => TerminalIsFinal
<1>1. ASSUME OutboxInd, [Next]_vars, NEW i \in Intents, intent[i].state \in Terminal
      PROVE  intent'[i] = intent[i] /\ log'[i] = log[i]
  <2>0. TypeOK
    BY <1>1 DEF OutboxInd
  <2> USE <1>1
  <2>1. intent[i].state \notin {"absent", "queued", "attempting", "retry_wait"}
    BY DEF Terminal
  <2>2. ASSUME NEW e \in Events, NEW silenced \in BOOLEAN, EnqueueIncidentEvent(e, silenced)
        PROVE  intent'[i] = intent[i] /\ log'[i] = log[i]
    <3>1. i[1] # e
      BY <2>1, <2>2, IntentIsPair DEF EnqueueIncidentEvent
    <3> QED
      BY <2>2, <3>1 DEF EnqueueIncidentEvent
  <2>3. ASSUME NEW t \in Tests, NEW d \in Destinations, TestDestination(t, d)
        PROVE  intent'[i] = intent[i] /\ log'[i] = log[i]
    BY <2>0, <2>1, <2>3 DEF TestDestination, TypeOK
  <2>4. ASSUME NEW w \in Workers, NEW j \in Intents, DeadLetterExpiredClaim(w, j)
        PROVE  intent'[i] = intent[i] /\ log'[i] = log[i]
    BY <2>0, <2>1, <2>4 DEF DeadLetterExpiredClaim, Exhausted, LeaseExpired, TypeOK
  <2>5. ASSUME NEW w \in Workers, NEW j \in Intents, Claim(w, j)
        PROVE  intent'[i] = intent[i] /\ log'[i] = log[i]
    BY <2>0, <2>1, <2>5 DEF Claim, Due, LeaseExpired, TypeOK
  <2>6. ASSUME NEW w \in Workers, Complete(w)
        PROVE  intent'[i] = intent[i] /\ log'[i] = log[i]
    <3>1. intent[hand[w].id].state = "attempting"
      BY <2>6 DEF Complete, StillClaimed
    <3> QED
      BY <2>0, <2>1, <2>6, <3>1 DEF Complete, TypeOK
  <2>7. ASSUME NEW w \in Workers, Deliver(w) \/ CompleteTooLate(w)
        PROVE  intent'[i] = intent[i] /\ log'[i] = log[i]
    BY <2>7 DEF Deliver, CompleteTooLate
  <2>8. CASE Restart \/ Tick \/ UNCHANGED vars \/ \E d \in Destinations : ReplaceDestination(d)
    BY <2>8 DEF Restart, Tick, vars, ReplaceDestination
  <2> QED
    BY <2>2, <2>3, <2>4, <2>5, <2>6, <2>7, <2>8 DEF Next, WorkerStep
<1>2. OutboxInd /\ [Next]_vars =>
        [\A i \in Intents : intent[i].state \in Terminal =>
            intent'[i] = intent[i] /\ log'[i] = log[i]]_vars
  BY <1>1
<1> QED
  BY <1>2, OutboxIndHolds, PTL DEF Spec, TerminalIsFinal
=============================================================================
