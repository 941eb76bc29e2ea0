----------------------- MODULE SignalJournal_proofs ------------------------
(***************************************************************************)
(* Safety of the signal journal for every number of signals and workers,   *)
(* every batch size, attempt limit, lease, and every number of crashes.    *)
(***************************************************************************)
EXTENDS SignalJournal, TLAPS

(* Instants computed from the clock stay within the horizon. *)
LEMMA LaterType ==
    ASSUME NEW t \in Instants, NEW d \in Nat
    PROVE  Later(t, d) \in Instants
BY JournalAssumption DEF Later, Instants

(* Every retry delay of the back-off table is a natural number. *)
LEMMA RetryDelayType ==
    ASSUME NEW n \in 1 .. MaxAttempts
    PROVE  RetryDelay(n) \in Nat
<1>1. n \in Nat /\ n >= 1
  BY JournalAssumption
<1>2. CASE n < 7
  <2>1. n \in {1, 2, 3, 4, 5, 6}
    BY <1>1, <1>2
  <2> QED
    BY <2>1 DEF RetryDelay, RetryDelays
<1>3. CASE ~(n < 7)
  BY <1>3 DEF RetryDelay, RetryDelays
<1> QED
  BY <1>2, <1>3

(* The journal's state is well typed in every reachable state; in particular
   no row is ever claimed more than MaxAttempts times. *)
THEOREM TypeCorrect == Spec => []TypeOK
<1> USE JournalAssumption
<1>1. Init => TypeOK
  BY DEF Init, TypeOK, Rows, NewRow, Instants
<1>2. TypeOK /\ [Next]_vars => TypeOK'
  <2> SUFFICES ASSUME TypeOK, [Next]_vars PROVE TypeOK'
    OBVIOUS
  <2>1. ASSUME NEW s \in Signals, Append(s) PROVE TypeOK'
    BY <2>1 DEF Append, TypeOK, Rows
  <2>2. ASSUME NEW w \in Workers, Claim(w) PROVE TypeOK'
    <3>1. PICK chosen \in SUBSET Signals :
            /\ chosen \subseteq Due(clock)
            /\ row' = [s \in Signals |->
                        IF s \in chosen
                        THEN [row[s] EXCEPT !.attempts = @ + 1,
                                            !.claimedUntil = Later(clock, Lease)]
                        ELSE row[s]]
            /\ batch' = [batch EXCEPT ![w] =
                          {[id |-> s, attempts |-> row[s].attempts + 1] : s \in chosen}]
      BY <2>2 DEF Claim, OldestOf, Due, NextAttempt
    <3>2. Later(clock, Lease) \in Instants
      BY LaterType DEF TypeOK
    <3>3. \A s \in chosen : row[s].attempts + 1 \in 1 .. MaxAttempts
      <4> SUFFICES ASSUME NEW s \in chosen PROVE row[s].attempts + 1 \in 1 .. MaxAttempts
        OBVIOUS
      <4>1. s \in Due(clock)
        BY <3>1
      <4>2. row[s] \in Rows /\ row[s].attempts < MaxAttempts
        BY <4>1 DEF Due, TypeOK
      <4>3. row[s].attempts \in 0 .. MaxAttempts
        BY <4>2 DEF Rows
      <4> QED
        BY <4>2, <4>3
    <3>4. row' \in [Signals -> Rows]
      <4> SUFFICES ASSUME NEW s \in Signals PROVE row'[s] \in Rows
        BY <3>1
      <4>1. row[s] \in Rows
        BY DEF TypeOK
      <4>2. CASE s \in chosen
        <5>1. row[s].attempts + 1 \in 0 .. MaxAttempts
          BY <3>3, <4>2
        <5>2. row'[s] = [row[s] EXCEPT !.attempts = row[s].attempts + 1,
                                       !.claimedUntil = Later(clock, Lease)]
          BY <3>1, <4>2
        <5> QED
          BY <4>1, <5>1, <5>2, <3>2 DEF Rows
      <4>3. CASE s \notin chosen
        BY <4>1, <4>3, <3>1
      <4> QED
        BY <4>2, <4>3
    <3>5. batch' \in [Workers -> SUBSET Claims]
      <4>1. {[id |-> s, attempts |-> row[s].attempts + 1] : s \in chosen} \subseteq Claims
        BY <3>3 DEF Claims
      <4> QED
        BY <3>1, <4>1 DEF TypeOK
    <3> QED
      BY <2>2, <3>4, <3>5 DEF Claim, TypeOK
  <2>3. ASSUME NEW w \in Workers, NEW c \in batch[w], Evaluate(w, c) PROVE TypeOK'
    <3>a. c \in Claims
      BY DEF TypeOK
    <3>b. c.id \in Signals
      BY <3>a DEF Claims
    <3>1. c.id \in Signals /\ row[c.id] \in Rows
      BY <3>b DEF TypeOK
    <3>2. [row[c.id] EXCEPT !.processed = TRUE, !.claimedUntil = NoLease] \in Rows
      BY <3>1 DEF Rows
    <3>3. row' \in [Signals -> Rows]
      BY <2>3, <3>2 DEF Evaluate, MarkProcessed, TypeOK
    <3>4. applied' \in [Signals -> Nat]
      <4>a. applied[c.id] \in Nat
        BY <3>b DEF TypeOK
      <4>1. applied[c.id] + 1 \in Nat
        BY <4>a
      <4>2. applied' = [applied EXCEPT ![c.id] = applied[c.id] + 1]
        BY <2>3 DEF Evaluate
      <4> QED
        BY <4>1, <4>2 DEF TypeOK
    <3>5. batch' \in [Workers -> SUBSET Claims]
      BY <2>3 DEF Evaluate, TypeOK
    <3> QED
      BY <2>3, <3>3, <3>4, <3>5 DEF Evaluate, TypeOK
  <2>4. ASSUME NEW w \in Workers, NEW c \in batch[w], SkipSettled(w, c) PROVE TypeOK'
    BY <2>4 DEF SkipSettled, TypeOK
  <2>5. ASSUME NEW w \in Workers, NEW c \in batch[w], EvaluationFails(w, c) PROVE TypeOK'
    BY <2>5 DEF EvaluationFails, TypeOK
  <2>6. ASSUME NEW w \in Workers, NEW c \in failing[w], Fail(w, c) PROVE TypeOK'
    <3>1. c.id \in Signals /\ c.attempts \in 1 .. MaxAttempts
      BY DEF TypeOK, Claims
    <3>2. Later(at[w], RetryDelay(c.attempts)) \in Instants
      BY <3>1, RetryDelayType, LaterType DEF TypeOK
    <3> DEFINE failed == [row[c.id] EXCEPT
                            !.claimedUntil = NoLease,
                            !.availableAt = Later(at[w], RetryDelay(c.attempts)),
                            !.dead = (row[c.id].attempts >= MaxAttempts)]
    <3>3. failed \in Rows
      <4>1. row[c.id] \in Rows
        BY <3>1 DEF TypeOK
      <4>2. (row[c.id].attempts >= MaxAttempts) \in BOOLEAN
        OBVIOUS
      <4>3. NoLease \in Instants \cup {NoLease}
        OBVIOUS
      <4> HIDE DEF NoLease
      <4> QED
        BY <3>2, <4>1, <4>2, <4>3 DEF Rows
    <3>4. row' = [row EXCEPT ![c.id] = failed] \/ row' = row
      BY <2>6 DEF Fail, Exhausted
    <3>5. row' \in [Signals -> Rows]
      BY <3>3, <3>4 DEF TypeOK
    <3> QED
      BY <2>6, <3>5 DEF Fail, TypeOK
  <2>7. CASE Stop
    BY <2>7 DEF Stop, TypeOK
  <2>8. CASE Tick
    BY <2>8 DEF Tick, TypeOK, Instants
  <2>9. CASE UNCHANGED vars
    BY <2>9 DEF vars, TypeOK
  <2> QED
    BY <2>1, <2>2, <2>3, <2>4, <2>5, <2>6, <2>7, <2>8, <2>9 DEF Next, WorkerStep
<1> QED
  BY <1>1, <1>2, PTL DEF Spec

-----------------------------------------------------------------------------
(* What makes the safety properties inductive: they hold together, on top of
   the types.  ClaimsDistinct bounds the claims in the workers' hands by the
   row's attempts, which is why a new claim never repeats an old one. *)
JournalSafety == AppliedOnce /\ ClaimsDistinct /\ DeadOnlyWhenExhausted

(* The claims in hand stay distinct in a step that hands out none and changes
   no attempts count. *)
LEMMA FewerClaimsDistinct ==
    ASSUME TypeOK, ClaimsDistinct,
           \A s \in Signals : row'[s].attempts = row[s].attempts,
           \A v \in Workers : batch'[v] \cup failing'[v] \subseteq batch[v] \cup failing[v]
    PROVE  ClaimsDistinct'
<1> SUFFICES ASSUME NEW u \in Workers, NEW v \in Workers,
                    NEW c \in batch'[u] \cup failing'[u],
                    NEW d \in batch'[v] \cup failing'[v]
             PROVE  /\ c.attempts <= row'[c.id].attempts
                    /\ (u # v /\ c.id = d.id) => c.attempts # d.attempts
  BY DEF ClaimsDistinct
<1>1. c \in batch[u] \cup failing[u] /\ d \in batch[v] \cup failing[v]
  OBVIOUS
<1>2. c \in Claims
  BY <1>1 DEF TypeOK
<1>3. c.id \in Signals
  BY <1>2 DEF Claims
<1>4. /\ c.attempts <= row[c.id].attempts
      /\ (u # v /\ c.id = d.id) => c.attempts # d.attempts
  BY <1>1 DEF ClaimsDistinct
<1> QED
  BY <1>3, <1>4

(* However leases expire, workers interleave and the process stops: a signal
   is applied exactly once when it is marked processed, a dead letter was
   never applied and used up its attempts, and no attempt is handed out
   twice. *)
THEOREM JournalSafe == Spec => []JournalInv
<1> USE JournalAssumption
<1>1. Init => JournalSafety
  BY DEF Init, JournalSafety, AppliedOnce, ClaimsDistinct, DeadOnlyWhenExhausted, NewRow
<1>2. TypeOK /\ JournalSafety /\ [Next]_vars => JournalSafety'
  <2> SUFFICES ASSUME TypeOK, JournalSafety, [Next]_vars PROVE JournalSafety'
    OBVIOUS
  <2>1. ASSUME NEW s \in Signals, Append(s) PROVE JournalSafety'
    <3>1. \A t \in Signals : /\ row'[t].attempts = row[t].attempts
                             /\ row'[t].processed = row[t].processed
                             /\ row'[t].dead = row[t].dead
                             /\ row'[t].claimedUntil = row[t].claimedUntil
      BY <2>1 DEF Append, TypeOK, Rows
    <3> QED
      BY <2>1, <3>1 DEF Append, JournalSafety, AppliedOnce, ClaimsDistinct,
                        DeadOnlyWhenExhausted, TypeOK, Claims
  <2>2. ASSUME NEW w \in Workers, Claim(w) PROVE JournalSafety'
    <3>1. PICK chosen \in SUBSET Signals :
            /\ chosen \subseteq Due(clock)
            /\ row' = [s \in Signals |->
                        IF s \in chosen
                        THEN [row[s] EXCEPT !.attempts = @ + 1,
                                            !.claimedUntil = Later(clock, Lease)]
                        ELSE row[s]]
            /\ batch' = [batch EXCEPT ![w] =
                          {[id |-> s, attempts |-> row[s].attempts + 1] : s \in chosen}]
      BY <2>2 DEF Claim, OldestOf, Due, NextAttempt
    <3>2. failing' = failing /\ applied' = applied /\ failing[w] = {}
      BY <2>2 DEF Claim
    <3>3. \A s \in chosen : ~row[s].processed /\ ~row[s].dead
      BY <3>1 DEF Due, Unsettled
    <3>4. \A s \in Signals : /\ row'[s].processed = row[s].processed
                             /\ row'[s].dead = row[s].dead
                             /\ s \in chosen => row'[s].attempts = row[s].attempts + 1
                             /\ s \notin chosen => row'[s] = row[s]
      BY <3>1 DEF TypeOK, Rows
    <3>5. AppliedOnce'
      BY <3>2, <3>4 DEF JournalSafety, AppliedOnce
    <3>6. DeadOnlyWhenExhausted'
      BY <3>3, <3>4 DEF JournalSafety, DeadOnlyWhenExhausted
    <3>7. ClaimsDistinct'
      <4>1. \A s \in Signals : row[s].attempts \in Nat
        BY DEF TypeOK, Rows
      <4>2. \A s \in Signals : row'[s].attempts >= row[s].attempts
        <5> SUFFICES ASSUME NEW s \in Signals PROVE row'[s].attempts >= row[s].attempts
          OBVIOUS
        <5>1. row[s].attempts \in Nat
          BY <4>1
        <5>2. CASE s \in chosen
          BY <5>1, <5>2, <3>4
        <5>3. CASE s \notin chosen
          BY <5>1, <5>3, <3>4
        <5> QED
          BY <5>2, <5>3
      <4>3. \A v \in Workers : v # w => batch'[v] = batch[v]
        BY <3>1 DEF TypeOK
      <4>4. \A c \in batch'[w] \cup failing'[w] :
              /\ c.id \in chosen
              /\ c.attempts = row[c.id].attempts + 1
        <5>1. failing'[w] = {}
          BY <3>2
        <5>2. batch'[w] = {[id |-> s, attempts |-> row[s].attempts + 1] : s \in chosen}
          BY <3>1 DEF TypeOK
        <5> QED
          BY <5>1, <5>2
      <4>5. \A v \in Workers : \A c \in batch[v] \cup failing[v] :
              c.id \in Signals /\ c.attempts \in Nat /\ c.attempts <= row[c.id].attempts
        BY DEF JournalSafety, ClaimsDistinct, TypeOK, Claims
      <4> SUFFICES ASSUME NEW u \in Workers, NEW v \in Workers,
                          NEW c \in batch'[u] \cup failing'[u],
                          NEW d \in batch'[v] \cup failing'[v]
                   PROVE  /\ c.attempts <= row'[c.id].attempts
                          /\ (u # v /\ c.id = d.id) => c.attempts # d.attempts
        BY DEF ClaimsDistinct
      <4>6. u = w => c.id \in Signals /\ c.attempts = row[c.id].attempts + 1
        BY <4>4
      <4>7. v = w => d.id \in Signals /\ d.attempts = row[d.id].attempts + 1
        BY <4>4
      <4>8. u # w => /\ c \in batch[u] \cup failing[u]
                     /\ c.id \in Signals /\ c.attempts \in Nat
                     /\ c.attempts <= row[c.id].attempts
        BY <4>3, <4>5, <3>2
      <4>9. v # w => /\ d \in batch[v] \cup failing[v]
                     /\ d.id \in Signals /\ d.attempts \in Nat
                     /\ d.attempts <= row[d.id].attempts
        BY <4>3, <4>5, <3>2
      <4>10. c.attempts <= row'[c.id].attempts
        <5>1. CASE u = w
          <6>1. row'[c.id].attempts = row[c.id].attempts + 1 /\ row[c.id].attempts \in Nat
            BY <4>4, <5>1, <3>4, <4>1
          <6> QED
            BY <5>1, <4>6, <6>1
        <5>2. CASE u # w
          <6>1. row'[c.id].attempts >= row[c.id].attempts /\ row[c.id].attempts \in Nat
            BY <4>8, <5>2, <4>1, <4>2
          <6>2. row'[c.id].attempts \in Nat
            <7>1. c.id \in Signals
              BY <4>8, <5>2
            <7>2. row'[c.id].attempts = row[c.id].attempts + 1
                    \/ row'[c.id].attempts = row[c.id].attempts
              BY <7>1, <3>4
            <7> QED
              BY <7>2, <6>1
          <6> QED
            BY <5>2, <4>8, <6>1, <6>2
        <5> QED
          BY <5>1, <5>2
      <4>11. ASSUME u # v, c.id = d.id PROVE c.attempts # d.attempts
        <5>1. CASE u = w
          <6>1. v # w /\ row[c.id].attempts \in Nat
            BY <4>11, <5>1, <4>6, <4>1
          <6> QED
            BY <4>11, <5>1, <6>1, <4>6, <4>9
        <5>2. CASE v = w
          <6>1. u # w /\ row[c.id].attempts \in Nat
            BY <4>11, <5>2, <4>7, <4>1
          <6> QED
            BY <4>11, <5>2, <6>1, <4>7, <4>8
        <5>3. CASE u # w /\ v # w
          BY <4>11, <5>3, <4>8, <4>9 DEF JournalSafety, ClaimsDistinct
        <5> QED
          BY <5>1, <5>2, <5>3
      <4> QED
        BY <4>10, <4>11
    <3> QED
      BY <3>5, <3>6, <3>7 DEF JournalSafety
  <2>3. ASSUME NEW w \in Workers, NEW c \in batch[w], Evaluate(w, c) PROVE JournalSafety'
    <3>1. c.id \in Signals
      BY DEF TypeOK, Claims
    <3>2. ~row[c.id].processed /\ ~row[c.id].dead /\ applied[c.id] = 0
      BY <2>3, <3>1 DEF Evaluate, Unsettled, JournalSafety, AppliedOnce
    <3>3. /\ row'[c.id].processed /\ row'[c.id].dead = row[c.id].dead
          /\ \A s \in Signals : row'[s].attempts = row[s].attempts
          /\ \A s \in Signals : s # c.id => row'[s] = row[s]
      BY <2>3, <3>1 DEF Evaluate, MarkProcessed, TypeOK, Rows
    <3>4. applied'[c.id] = 1 /\ \A s \in Signals : s # c.id => applied'[s] = applied[s]
      BY <2>3, <3>1, <3>2 DEF Evaluate, TypeOK
    <3>5. AppliedOnce'
      BY <3>2, <3>3, <3>4 DEF JournalSafety, AppliedOnce
    <3>6. DeadOnlyWhenExhausted'
      BY <3>2, <3>3 DEF JournalSafety, DeadOnlyWhenExhausted
    <3>7. \A v \in Workers : batch'[v] \cup failing'[v] \subseteq batch[v] \cup failing[v]
      BY <2>3 DEF Evaluate, TypeOK
    <3>8. ClaimsDistinct'
      BY <3>3, <3>7, FewerClaimsDistinct DEF JournalSafety
    <3> QED
      BY <3>5, <3>6, <3>8 DEF JournalSafety
  <2>4. ASSUME NEW w \in Workers, NEW c \in batch[w], SkipSettled(w, c) PROVE JournalSafety'
    <3>1. \A v \in Workers : batch'[v] \subseteq batch[v] /\ failing'[v] = failing[v]
      BY <2>4 DEF SkipSettled, TypeOK
    <3>2. row' = row /\ applied' = applied
      BY <2>4 DEF SkipSettled
    <3> QED
      BY <3>1, <3>2 DEF JournalSafety, AppliedOnce, ClaimsDistinct, DeadOnlyWhenExhausted
  <2>5. ASSUME NEW w \in Workers, NEW c \in batch[w], EvaluationFails(w, c) PROVE JournalSafety'
    <3>1. \A v \in Workers : batch'[v] \cup failing'[v] \subseteq batch[v] \cup failing[v]
      BY <2>5 DEF EvaluationFails, TypeOK
    <3>2. row' = row /\ applied' = applied
      BY <2>5 DEF EvaluationFails
    <3> QED
      BY <3>1, <3>2 DEF JournalSafety, AppliedOnce, ClaimsDistinct, DeadOnlyWhenExhausted
  <2>6. ASSUME NEW w \in Workers, NEW c \in failing[w], Fail(w, c) PROVE JournalSafety'
    <3>1. c.id \in Signals
      BY DEF TypeOK, Claims
    <3>2. /\ \A s \in Signals : row'[s].attempts = row[s].attempts
          /\ \A s \in Signals : row'[s].processed = row[s].processed
          /\ \A s \in Signals : s # c.id => row'[s] = row[s]
          /\ ~Unsettled(c.id) => row'[c.id] = row[c.id]
          /\ Unsettled(c.id) => /\ row'[c.id].dead = (row[c.id].attempts >= MaxAttempts)
                                /\ row'[c.id].claimedUntil = NoLease
      BY <2>6, <3>1 DEF Fail, Exhausted, TypeOK, Rows
    <3>3. AppliedOnce'
      BY <2>6, <3>2 DEF Fail, Unsettled, JournalSafety, AppliedOnce
    <3>4. row[c.id].attempts \in 0 .. MaxAttempts
      BY <3>1 DEF TypeOK, Rows
    <3>5. DeadOnlyWhenExhausted'
      <4> SUFFICES ASSUME NEW s \in Signals, row'[s].dead
                   PROVE  row'[s].attempts = MaxAttempts /\ row'[s].claimedUntil = NoLease
        BY DEF DeadOnlyWhenExhausted
      <4>1. CASE s = c.id /\ Unsettled(c.id)
        <5>1. row[s].attempts >= MaxAttempts /\ row'[s].claimedUntil = NoLease
          BY <4>1, <3>2
        <5>2. row'[s].attempts = row[s].attempts /\ row[s].attempts \in 0 .. MaxAttempts
          BY <4>1, <3>2, <3>4
        <5> QED
          BY <5>1, <5>2
      <4>2. CASE ~(s = c.id /\ Unsettled(c.id))
        <5>1. row'[s] = row[s]
          BY <4>2, <3>2
        <5> QED
          BY <5>1 DEF JournalSafety, DeadOnlyWhenExhausted
      <4> QED
        BY <4>1, <4>2
    <3>6. \A v \in Workers : batch'[v] \cup failing'[v] \subseteq batch[v] \cup failing[v]
      BY <2>6 DEF Fail, TypeOK
    <3>7. ClaimsDistinct'
      BY <3>2, <3>6, FewerClaimsDistinct DEF JournalSafety
    <3> QED
      BY <3>3, <3>5, <3>7 DEF JournalSafety
  <2>7. CASE Stop
    BY <2>7 DEF Stop, JournalSafety, AppliedOnce, ClaimsDistinct, DeadOnlyWhenExhausted
  <2>8. CASE Tick
    BY <2>8 DEF Tick, JournalSafety, AppliedOnce, ClaimsDistinct, DeadOnlyWhenExhausted
  <2>9. CASE UNCHANGED vars
    BY <2>9 DEF vars, JournalSafety, AppliedOnce, ClaimsDistinct, DeadOnlyWhenExhausted
  <2> QED
    BY <2>1, <2>2, <2>3, <2>4, <2>5, <2>6, <2>7, <2>8, <2>9 DEF Next, WorkerStep
<1>3. TypeOK /\ JournalSafety => JournalInv
  BY DEF JournalSafety, JournalInv
<1> QED
  BY <1>1, <1>2, <1>3, TypeCorrect, PTL DEF Spec

-----------------------------------------------------------------------------
(* Only a row that exists is settled: why Append cannot touch a settled row. *)
SettledExists == \A s \in Signals : (row[s].processed \/ row[s].dead) => row[s].appended

(* What a step does to the rows, where no claim is concerned: a settled row
   that exists is left alone, and no row is taken away or settled unseen. *)
RowsKept ==
    \A s \in Signals :
        /\ row[s].appended => row'[s].appended
        /\ (row[s].appended /\ (row[s].processed \/ row[s].dead)) => row'[s] = row[s]
        /\ (row'[s].processed \/ row'[s].dead) => (row[s].processed \/ row[s].dead \/ row[s].appended)

(* Every statement of the journal that changes a row asks for it to be
   unsettled (Claim, MarkProcessed after the re-read, Fail) or new (Append). *)
LEMMA EveryStepKeepsRows ==
    ASSUME TypeOK, [Next]_vars
    PROVE  RowsKept
<1> USE JournalAssumption
<1>1. ASSUME NEW s \in Signals, Append(s) PROVE RowsKept
  <2>1. ~row[s].appended /\ \A t \in Signals : t # s => row'[t] = row[t]
    BY <1>1 DEF Append, TypeOK
  <2>2. /\ row'[s].appended
        /\ row'[s].processed = row[s].processed /\ row'[s].dead = row[s].dead
    BY <1>1 DEF Append, TypeOK, Rows
  <2> QED
    BY <2>1, <2>2 DEF RowsKept
<1>2. ASSUME NEW w \in Workers, Claim(w) PROVE RowsKept
  <2>1. PICK chosen \in SUBSET Signals :
          /\ chosen \subseteq Due(clock)
          /\ row' = [s \in Signals |->
                      IF s \in chosen
                      THEN [row[s] EXCEPT !.attempts = @ + 1,
                                          !.claimedUntil = Later(clock, Lease)]
                      ELSE row[s]]
    BY <1>2 DEF Claim, OldestOf, Due, NextAttempt
  <2>2. \A s \in chosen : row[s].appended /\ ~row[s].processed /\ ~row[s].dead
    BY <2>1 DEF Due, Unsettled
  <2>3. \A s \in Signals : s \notin chosen => row'[s] = row[s]
    BY <2>1
  <2>4. \A s \in chosen : row'[s].appended = row[s].appended
    BY <2>1 DEF TypeOK, Rows
  <2> QED
    BY <2>2, <2>3, <2>4 DEF RowsKept
<1>3. ASSUME NEW w \in Workers, NEW c \in batch[w], Evaluate(w, c) PROVE RowsKept
  <2>1. c.id \in Signals
    BY DEF TypeOK, Claims
  <2>2. row[c.id].appended /\ ~row[c.id].processed /\ ~row[c.id].dead
    BY <1>3 DEF Evaluate, Unsettled
  <2>3. \A s \in Signals : s # c.id => row'[s] = row[s]
    BY <1>3, <2>1 DEF Evaluate, MarkProcessed, TypeOK
  <2>4. row'[c.id].appended = row[c.id].appended
    BY <1>3, <2>1 DEF Evaluate, MarkProcessed, TypeOK, Rows
  <2> QED
    BY <2>2, <2>3, <2>4 DEF RowsKept
<1>4. ASSUME NEW w \in Workers, NEW c \in failing[w], Fail(w, c) PROVE RowsKept
  <2>1. c.id \in Signals
    BY DEF TypeOK, Claims
  <2>2. \A s \in Signals : s # c.id => row'[s] = row[s]
    BY <1>4, <2>1 DEF Fail, TypeOK
  <2>3. ~Unsettled(c.id) => row'[c.id] = row[c.id]
    BY <1>4 DEF Fail
  <2>4. row'[c.id].appended = row[c.id].appended
    BY <1>4, <2>1 DEF Fail, TypeOK, Rows
  <2> QED
    BY <2>2, <2>3, <2>4 DEF RowsKept, Unsettled
<1>5. CASE row' = row
  BY <1>5 DEF RowsKept
<1>6. ASSUME NEW w \in Workers, NEW c \in batch[w],
             SkipSettled(w, c) \/ EvaluationFails(w, c)
      PROVE row' = row
  BY <1>6 DEF SkipSettled, EvaluationFails
<1>7. Stop \/ Tick \/ UNCHANGED vars => row' = row
  BY DEF Stop, Tick, vars
<1> QED
  BY <1>1, <1>2, <1>3, <1>4, <1>5, <1>6, <1>7 DEF Next, WorkerStep

(* A processed signal and a dead letter are never touched again, whatever
   stale worker still holds a claim of them and however often it reports. *)
THEOREM SettledStays == Spec => SettledIsFinal
<1>1. Init => SettledExists
  BY DEF Init, SettledExists, NewRow
<1>2. TypeOK /\ SettledExists /\ [Next]_vars => SettledExists'
  <2> SUFFICES ASSUME TypeOK, SettledExists, [Next]_vars PROVE SettledExists'
    OBVIOUS
  <2>1. RowsKept
    BY EveryStepKeepsRows
  <2> QED
    BY <2>1 DEF RowsKept, SettledExists
<1>3. TypeOK /\ SettledExists /\ [Next]_vars
        => [\A s \in Signals : (row[s].processed \/ row[s].dead) => row'[s] = row[s]]_vars
  <2> SUFFICES ASSUME TypeOK, SettledExists, [Next]_vars,
                      NEW s \in Signals, row[s].processed \/ row[s].dead
               PROVE  row'[s] = row[s]
    OBVIOUS
  <2>1. RowsKept
    BY EveryStepKeepsRows
  <2> QED
    BY <2>1 DEF RowsKept, SettledExists
<1> QED
  BY <1>1, <1>2, <1>3, TypeCorrect, PTL DEF Spec, SettledIsFinal

-----------------------------------------------------------------------------
(* A settled row exists in every reachable state: the part of SettledStays that
   the refinement needs as well. *)
LEMMA SettledAppended == Spec => []SettledExists
<1>1. Init => SettledExists
  BY DEF Init, SettledExists, NewRow
<1>2. TypeOK /\ SettledExists /\ [Next]_vars => SettledExists'
  <2> SUFFICES ASSUME TypeOK, SettledExists, [Next]_vars PROVE SettledExists'
    OBVIOUS
  <2>1. RowsKept
    BY EveryStepKeepsRows
  <2> QED
    BY <2>1 DEF RowsKept, SettledExists
<1> QED
  BY <1>1, <1>2, TypeCorrect, PTL DEF Spec

(* What the abstract queue sees of a row depends on three columns only. *)
LEMMA FateOfRow ==
    ASSUME TypeOK, SettledExists, NEW s \in Signals
    PROVE  /\ Fate(s) = "absent" <=> ~row[s].appended
           /\ Fate(s) = "waiting" <=> Unsettled(s)
           /\ row[s].processed => Fate(s) = "processed"
           /\ (row[s].dead /\ ~row[s].processed) => Fate(s) = "dead"
<1>1. row[s] \in Rows
  BY DEF TypeOK
<1>2. row[s].appended \in BOOLEAN /\ row[s].processed \in BOOLEAN /\ row[s].dead \in BOOLEAN
  BY <1>1 DEF Rows
<1> QED
  BY <1>2 DEF Fate, Unsettled, SettledExists

(* A row that a step leaves alone has the fate and the tries it had. *)
LEMMA FateKept ==
    ASSUME NEW s \in Signals, row'[s].appended = row[s].appended,
           row'[s].processed = row[s].processed, row'[s].dead = row[s].dead
    PROVE  Fate(s)' = Fate(s)
BY DEF Fate, Unsettled

(* Every statement of the journal, and every fault, does to the rows what one
   action of the abstract queue does, or nothing it can see. *)
LEMMA QueueStep ==
    ASSUME JournalInv, SettledExists, TypeOK', SettledExists', [Next]_vars
    PROVE  [Queue!Next]_(Queue!vars)
<1> USE JournalAssumption
<1> DEFINE fate == [s \in Signals |-> Fate(s)]
           tries == [s \in Signals |-> row[s].attempts]
<1>0. TypeOK /\ AppliedOnce /\ ClaimsDistinct
  BY DEF JournalInv
<1>1. ASSUME NEW s \in Signals, Append(s) PROVE Queue!Put(s)
  <2>1. /\ ~row[s].appended /\ row'[s].appended /\ applied' = applied
        /\ row'[s].attempts = row[s].attempts
        /\ row'[s].processed = row[s].processed /\ row'[s].dead = row[s].dead
        /\ \A t \in Signals : t # s => row'[t] = row[t]
    BY <1>1, <1>0 DEF Append, TypeOK, Rows
  <2>2. Fate(s) = "absent" /\ Fate(s)' = "waiting"
    <3>1. Fate(s) = "absent"
      BY <1>0, <2>1, FateOfRow
    <3>2. Unsettled(s)'
      BY <2>1 DEF Unsettled, SettledExists
    <3>3. Fate(s)' = "waiting"
      BY <3>2 DEF Fate, Unsettled
    <3> QED
      BY <3>1, <3>3
  <2>3. \A t \in Signals : t # s => Fate(t)' = Fate(t)
    BY <2>1, FateKept
  <2>4. fate' = [fate EXCEPT ![s] = "waiting"]
    BY <2>2, <2>3
  <2>5. tries' = tries
    BY <2>1
  <2> QED
    BY <2>1, <2>2, <2>4, <2>5 DEF Queue!Put
<1>2. ASSUME NEW w \in Workers, Claim(w) PROVE \E S \in SUBSET Signals : Queue!Hand(S)
  <2>1. PICK chosen \in SUBSET Signals :
          /\ chosen \subseteq Due(clock)
          /\ row' = [s \in Signals |->
                      IF s \in chosen
                      THEN [row[s] EXCEPT !.attempts = @ + 1,
                                          !.claimedUntil = Later(clock, Lease)]
                      ELSE row[s]]
    BY <1>2 DEF Claim, OldestOf, Due, NextAttempt
  <2>2. \A s \in chosen : Unsettled(s) /\ row[s].attempts < MaxAttempts
    BY <2>1 DEF Due
  <2>3. \A s \in Signals : /\ row'[s].appended = row[s].appended
                           /\ row'[s].processed = row[s].processed
                           /\ row'[s].dead = row[s].dead
                           /\ row'[s].attempts = IF s \in chosen THEN row[s].attempts + 1
                                                 ELSE row[s].attempts
    BY <1>0, <2>1 DEF TypeOK, Rows
  <2>4. fate' = fate
    BY <2>3, FateKept
  <2>5. \A s \in chosen : Fate(s) = "waiting"
    BY <1>0, <2>2, FateOfRow
  <2>6. tries' = [s \in Signals |-> IF s \in chosen THEN tries[s] + 1 ELSE tries[s]]
    BY <2>3
  <2>7. applied' = applied
    BY <1>2 DEF Claim
  <2>8. Queue!Hand(chosen)
    BY <2>2, <2>4, <2>5, <2>6, <2>7 DEF Queue!Hand
  <2> QED
    BY <2>8
<1>3. ASSUME NEW w \in Workers, NEW c \in batch[w], Evaluate(w, c) PROVE Queue!Finish(c.id)
  <2>1. c \in Claims
    BY <1>0 DEF TypeOK
  <2>2. c.id \in Signals /\ c.attempts \in 1 .. MaxAttempts
    BY <2>1 DEF Claims
  <2>3. c.attempts <= row[c.id].attempts /\ row[c.id].attempts \in Nat
    <3>1. row[c.id] \in Rows
      BY <1>0, <2>2 DEF TypeOK
    <3>2. row[c.id].attempts \in Nat
      BY <3>1 DEF Rows
    <3>3. c.attempts <= row[c.id].attempts
      BY <1>0, <1>3 DEF ClaimsDistinct
    <3> QED
      BY <3>2, <3>3
  <2>4. row[c.id].attempts > 0
    BY <2>2, <2>3
  <2>5. /\ row'[c.id].processed
        /\ \A s \in Signals : row'[s].attempts = row[s].attempts
        /\ \A s \in Signals : s # c.id => row'[s] = row[s]
    BY <1>3, <1>0, <2>2 DEF Evaluate, MarkProcessed, TypeOK, Rows
  <2>6. Fate(c.id) = "waiting"
    BY <1>0, <1>3, <2>2, FateOfRow DEF Evaluate
  <2>7. Fate(c.id)' = "processed"
    BY <2>5 DEF Fate, Unsettled
  <2>8. fate' = [fate EXCEPT ![c.id] = "processed"]
    BY <2>2, <2>5, <2>7, FateKept
  <2>9. tries' = tries
    BY <2>5
  <2>10. applied' = [applied EXCEPT ![c.id] = @ + 1]
    BY <1>3 DEF Evaluate
  <2> QED
    BY <2>2, <2>4, <2>6, <2>8, <2>9, <2>10 DEF Queue!Finish
<1>4. ASSUME NEW w \in Workers, NEW c \in failing[w], Fail(w, c)
      PROVE Queue!GiveUp(c.id) \/ UNCHANGED Queue!vars
  <2>1. c.id \in Signals
    BY <1>0 DEF TypeOK, Claims
  <2>2. /\ \A s \in Signals : row'[s].attempts = row[s].attempts
        /\ \A s \in Signals : row'[s].processed = row[s].processed
        /\ \A s \in Signals : row'[s].appended = row[s].appended
        /\ \A s \in Signals : s # c.id => row'[s] = row[s]
        /\ ~Unsettled(c.id) => row'[c.id] = row[c.id]
        /\ Unsettled(c.id) => row'[c.id].dead = (row[c.id].attempts >= MaxAttempts)
        /\ applied' = applied
    BY <1>4, <1>0, <2>1 DEF Fail, Exhausted, TypeOK, Rows
  <2>3. tries' = tries
    BY <2>2
  <2>4. CASE Unsettled(c.id) /\ row[c.id].attempts >= MaxAttempts
    <3>1. Fate(c.id) = "waiting"
      BY <1>0, <2>1, <2>4, FateOfRow
    <3>2. row[c.id].attempts = MaxAttempts
      <4>1. row[c.id] \in Rows
        BY <1>0, <2>1 DEF TypeOK
      <4>2. row[c.id].attempts \in 0 .. MaxAttempts
        BY <4>1 DEF Rows
      <4> QED
        BY <4>2, <2>4
    <3>3. Fate(c.id)' = "dead"
      <4>1. row'[c.id].dead /\ ~row'[c.id].processed
        BY <2>1, <2>2, <2>4 DEF Unsettled
      <4> QED
        BY <4>1 DEF Fate, Unsettled
    <3>4. fate' = [fate EXCEPT ![c.id] = "dead"]
      BY <2>1, <2>2, <3>3, FateKept
    <3> QED
      BY <2>1, <2>2, <2>3, <3>1, <3>2, <3>4 DEF Queue!GiveUp
  <2>5. CASE ~(Unsettled(c.id) /\ row[c.id].attempts >= MaxAttempts)
    <3>1. row'[c.id].dead = row[c.id].dead
      <4>1. row[c.id].dead \in BOOLEAN
        BY <1>0, <2>1 DEF TypeOK, Rows
      <4> QED
        BY <2>2, <2>5, <4>1 DEF Unsettled
    <3>2. fate' = fate
      BY <2>1, <2>2, <3>1, FateKept
    <3> QED
      BY <2>2, <2>3, <3>2 DEF Queue!vars
  <2> QED
    BY <2>4, <2>5
<1>5. ASSUME row' = row, applied' = applied PROVE UNCHANGED Queue!vars
  <2>1. fate' = fate
    BY <1>5, FateKept
  <2> QED
    BY <1>5, <2>1 DEF Queue!vars
<1>6. ASSUME NEW w \in Workers, NEW c \in batch[w],
             SkipSettled(w, c) \/ EvaluationFails(w, c)
      PROVE  row' = row /\ applied' = applied
  BY <1>6 DEF SkipSettled, EvaluationFails
<1>7. Stop \/ Tick \/ UNCHANGED vars => row' = row /\ applied' = applied
  BY DEF Stop, Tick, vars
<1>8. ASSUME NEW w \in Workers, NEW c \in batch[w], Evaluate(w, c) PROVE c.id \in Signals
  BY <1>0 DEF TypeOK, Claims
<1>9. ASSUME NEW w \in Workers, NEW c \in failing[w], Fail(w, c) PROVE c.id \in Signals
  BY <1>0 DEF TypeOK, Claims
<1> QED
  BY <1>1, <1>2, <1>3, <1>4, <1>5, <1>6, <1>7, <1>8, <1>9
     DEF Next, WorkerStep, Queue!Next

(* The journal, with its leases, batches, stale workers and crashes, implements
   the abstract queue that applies each item once or gives it up for good. *)
THEOREM JournalImplementsQueue == Spec => ImplementsQueue
<1>1. Init => Queue!Init
  BY DEF Init, Queue!Init, NewRow, Fate, Unsettled
<1>2. JournalInv /\ SettledExists /\ JournalInv' /\ SettledExists' /\ [Next]_vars
        => [Queue!Next]_(Queue!vars)
  BY QueueStep DEF JournalInv
<1> QED
  BY <1>1, <1>2, JournalSafe, SettledAppended, PTL DEF Spec, ImplementsQueue, Queue!Spec
=============================================================================
