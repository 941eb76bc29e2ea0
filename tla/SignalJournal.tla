--------------------------- MODULE SignalJournal ---------------------------
(***************************************************************************)
(* The durable monitoring-signal journal (core/internal/signals) and the   *)
(* loop of the incident evaluator's workers that drains it                 *)
(* (core/internal/incidents/evaluator.go, ProcessOnce).                    *)
(*                                                                         *)
(* A worker leases a batch of due rows, evaluates them one by one, each in *)
(* a transaction that locks the row and marks it processed, and reports a  *)
(* failed evaluation with a statement of its own.  Leases carry no token:  *)
(* a row only knows until when it is leased and how often it was claimed.  *)
(*                                                                         *)
(* A signal is its rank in the claim order (occurred_at, created_at, id),  *)
(* so a signal with a small rank may well be appended after one with a     *)
(* larger rank.  What an evaluation does to rules and incidents is the     *)
(* subject of IncidentEngine; here it is the counter applied.              *)
(***************************************************************************)
EXTENDS Integers, FiniteSets

CONSTANTS
    Signals,      \* ranks of the signals in the claim order
    Workers,      \* evaluator goroutines (options.Concurrency)
    BatchSize,    \* options.BatchSize
    MaxAttempts,  \* options.MaxAttempts
    Lease,        \* options.ClaimLease, in clock units
    Horizon,      \* bound on the clock: instants past it are the horizon
    MaxStops      \* bound on the number of crashes and shutdowns

ASSUME JournalAssumption ==
    /\ Signals \subseteq Nat
    /\ IsFiniteSet(Signals)
    /\ BatchSize \in Nat \ {0}
    /\ MaxAttempts \in Nat \ {0}
    /\ Lease \in Nat \ {0}
    /\ Horizon \in Nat
    /\ MaxStops \in Nat

VARIABLES
    clock,     \* the wall clock
    row,       \* row[s]: the monitoring_signals row of signal s
    batch,     \* batch[w]: the claims worker w has still to evaluate
    failing,   \* failing[w]: claims of w whose evaluation failed, before Fail ran
    at,        \* at[w]: the clock as w read it at the start of ProcessOnce
    applied,   \* applied[s]: committed evaluations of s (a history variable)
    stops      \* crashes and shutdowns so far

vars == <<clock, row, batch, failing, at, applied, stops>>

-----------------------------------------------------------------------------
NoLease == -1

Instants == 0 .. Horizon

(* The columns of monitoring_signals that Claim, MarkProcessed and Fail use. *)
Rows == [appended: BOOLEAN, processed: BOOLEAN, dead: BOOLEAN,
         attempts: 0 .. MaxAttempts,
         availableAt: Instants, claimedUntil: Instants \cup {NoLease}]

(* A claimed signal as the worker holds it: the row's id and the attempts
   count the claim returned. *)
Claims == [id: Signals, attempts: 1 .. MaxAttempts]

NewRow == [appended |-> FALSE, processed |-> FALSE, dead |-> FALSE,
           attempts |-> 0, availableAt |-> 0, claimedUntil |-> NoLease]

(* The clock saturates at Horizon, and so does every instant computed from
   it: at the horizon whatever was due later is due. *)
Later(t, d) == IF t + d < Horizon THEN t + d ELSE Horizon

(* Variants of the row test that forget one of the two columns. *)
UnsettledIgnoringProcessed(s) == row[s].appended /\ ~row[s].dead
UnsettledIgnoringDead(s) == row[s].appended /\ ~row[s].processed

(* Neither processed_at nor dead_lettered_at is set. *)
Unsettled(s) == row[s].appended /\ ~row[s].processed /\ ~row[s].dead

(* Variant: a lease only ends when its worker gives it up. *)
DueUnleased(now) == {s \in Signals :
                        /\ Unsettled(s)
                        /\ row[s].availableAt <= now
                        /\ row[s].claimedUntil = NoLease
                        /\ row[s].attempts < MaxAttempts}

(* The WHERE clause of Claim. *)
Due(now) == {s \in Signals :
                /\ Unsettled(s)
                /\ row[s].availableAt <= now
                /\ row[s].claimedUntil <= now
                /\ row[s].attempts < MaxAttempts}

(* ORDER BY occurred_at, created_at, id LIMIT $2 *)
OldestOf(S) == {s \in S : Cardinality({t \in S : t < s}) < BatchSize}

(* attempts = attempts + 1, as the claim stores and returns it. *)
NextAttempt(s) == row[s].attempts + 1

(* Variant: one attempt too early. *)
ExhaustedEarly(s) == row[s].attempts + 1 >= MaxAttempts

(* attempts >= max: a failed row becomes a dead letter. *)
Exhausted(s) == row[s].attempts >= MaxAttempts

(* time.Duration(1<<min(attempts-1, 6)) * time.Second *)
RetryDelays == <<1, 2, 4, 8, 16, 32, 64>>
RetryDelay(attempts) == RetryDelays[IF attempts < 7 THEN attempts ELSE 7]

TypeOK ==
    /\ clock \in Instants
    /\ row \in [Signals -> Rows]
    /\ batch \in [Workers -> SUBSET Claims]
    /\ failing \in [Workers -> SUBSET Claims]
    /\ at \in [Workers -> Instants]
    /\ applied \in [Signals -> Nat]
    /\ stops \in 0 .. MaxStops

Init ==
    /\ clock = 0
    /\ row = [s \in Signals |-> NewRow]
    /\ batch = [w \in Workers |-> {}]
    /\ failing = [w \in Workers |-> {}]
    /\ at = [w \in Workers |-> 0]
    /\ applied = [s \in Signals |-> 0]
    /\ stops = 0

-----------------------------------------------------------------------------
(* Writer.Append: producers insert a signal in the transaction of the health
   change it reports; a second insert with the same source_key does nothing.
   Observation, freshness and maintenance signals are available at once. *)
Append(s) ==
    /\ ~row[s].appended
    /\ row' = [row EXCEPT ![s] = [@ EXCEPT !.appended = TRUE, !.availableAt = clock]]
    /\ UNCHANGED <<clock, batch, failing, at, applied, stops>>

(* ProcessOnce reads the clock and Store.Claim leases the oldest due rows.
   Rows another transaction has locked at that moment are skipped. *)
Claim(w) ==
    /\ batch[w] = {} /\ failing[w] = {}
    /\ \E locked \in SUBSET UNION {{c.id : c \in batch[v]} : v \in Workers} :
         LET chosen == OldestOf(Due(clock) \ locked) IN
         /\ chosen # {}
         /\ row' = [s \in Signals |->
                      IF s \in chosen
                      THEN [row[s] EXCEPT !.attempts = NextAttempt(s),
                                          !.claimedUntil = Later(clock, Lease)]
                      ELSE row[s]]
         /\ batch' = [batch EXCEPT ![w] =
                        {[id |-> s, attempts |-> NextAttempt(s)] : s \in chosen}]
    /\ at' = [at EXCEPT ![w] = clock]
    /\ UNCHANGED <<clock, failing, applied, stops>>

(* MarkProcessed, the last statement of an evaluation that goes through. *)
MarkProcessed(s) ==
    row' = [row EXCEPT ![s] = [@ EXCEPT !.processed = TRUE, !.claimedUntil = NoLease]]

(* processSignal commits: the locked row is still open, the evaluation is
   applied and the row is marked processed in the same transaction. *)
Evaluate(w, c) ==
    /\ failing[w] = {}
    /\ c \in batch[w]
    /\ Unsettled(c.id)
    /\ MarkProcessed(c.id)
    /\ applied' = [applied EXCEPT ![c.id] = @ + 1]
    /\ batch' = [batch EXCEPT ![w] = @ \ {c}]
    /\ UNCHANGED <<clock, failing, at, stops>>

(* processSignal finds the locked row settled by another worker and returns
   without touching anything. *)
SkipSettled(w, c) ==
    /\ failing[w] = {}
    /\ c \in batch[w]
    /\ ~Unsettled(c.id)
    /\ batch' = [batch EXCEPT ![w] = @ \ {c}]
    /\ UNCHANGED <<clock, row, failing, at, applied, stops>>

(* processSignal returns an error: its transaction is rolled back. *)
EvaluationFails(w, c) ==
    /\ failing[w] = {}
    /\ c \in batch[w]
    /\ batch' = [batch EXCEPT ![w] = @ \ {c}]
    /\ failing' = [failing EXCEPT ![w] = {c}]
    /\ UNCHANGED <<clock, row, at, applied, stops>>

(* Store.Fail, with the clock the worker read before it claimed and the
   row's present attempts count.  The statement does not ask who holds the
   claim. *)
Fail(w, c) ==
    /\ c \in failing[w]
    /\ row' = IF Unsettled(c.id)
              THEN [row EXCEPT ![c.id] =
                      [@ EXCEPT !.claimedUntil = NoLease,
                                !.availableAt = Later(at[w], RetryDelay(c.attempts)),
                                !.dead = Exhausted(c.id)]]
              ELSE row
    /\ failing' = [failing EXCEPT ![w] = {}]
    /\ UNCHANGED <<clock, batch, at, applied, stops>>

(* The process stops: a crash, a shutdown in the middle of a batch, or a Fail
   that returned an error, after which Run cancels the other workers too and
   Core exits.  Claims live only in the workers' memory; leases stay. *)
Stop ==
    /\ stops < MaxStops
    /\ stops' = stops + 1
    /\ batch' = [w \in Workers |-> {}]
    /\ failing' = [w \in Workers |-> {}]
    /\ UNCHANGED <<clock, row, at, applied>>

Tick ==
    /\ clock < Horizon
    /\ clock' = clock + 1
    /\ UNCHANGED <<row, batch, failing, at, applied, stops>>

WorkerStep(w) ==
    \/ Claim(w)
    \/ \E c \in batch[w] : Evaluate(w, c) \/ SkipSettled(w, c) \/ EvaluationFails(w, c)
    \/ \E c \in failing[w] : Fail(w, c)

Next ==
    \/ \E s \in Signals : Append(s)
    \/ \E w \in Workers : WorkerStep(w)
    \/ Stop
    \/ Tick

Spec == Init /\ [][Next]_vars

(* Every goroutine keeps looping and time passes; nothing obliges a producer
   to append, or the process to stop. *)
FairSpec == Spec /\ WF_vars(Tick) /\ \A w \in Workers : WF_vars(WorkerStep(w))

-----------------------------------------------------------------------------
(* Rule evaluation is idempotent by signal: however leases expire and
   workers stop, a row is marked processed exactly when one evaluation of it
   was committed, and never a second time; a dead letter was never applied
   (processSignal re-reads the row under its lock). *)
AppliedOnce ==
    \A s \in Signals :
        /\ applied[s] = (IF row[s].processed THEN 1 ELSE 0)
        /\ row[s].dead => ~row[s].processed

(* No claim is handed out twice: two workers that hold the same signal hold
   different attempts of it, and no attempt is ahead of the row (Claim bumps
   attempts in the statement that leases). *)
ClaimsDistinct ==
    \A v, w \in Workers : \A c \in batch[v] \cup failing[v], d \in batch[w] \cup failing[w] :
        /\ c.attempts <= row[c.id].attempts
        /\ (v # w /\ c.id = d.id) => c.attempts # d.attempts

(* A signal becomes a dead letter only after MaxAttempts claims of it, and
   while it is dead no lease keeps it (Store.Fail). *)
DeadOnlyWhenExhausted ==
    \A s \in Signals :
        row[s].dead => row[s].attempts = MaxAttempts /\ row[s].claimedUntil = NoLease

(* What holds of the rows and of the claims in hand at any time. *)
JournalInv == TypeOK /\ AppliedOnce /\ ClaimsDistinct /\ DeadOnlyWhenExhausted

(* Some worker has a claim of s in hand. *)
Held(s) == \E w \in Workers : \E c \in batch[w] \cup failing[w] : c.id = s

(* A settled row stays as it is: no stale worker reopens a processed signal
   or a dead letter, or leases it again. *)
SettledIsFinal ==
    [][\A s \in Signals :
          (row[s].processed \/ row[s].dead) => row'[s] = row[s]]_vars

(* Every appended signal is in the end processed or a dead letter: "a crash
   releases work for replay" (Claim takes a row whose lease has expired). *)
EventuallySettled ==
    \A s \in Signals : row[s].appended ~> ~Unsettled(s)

(* The last attempt of s was lost with the process that made it. *)
Stranded(s) == Unsettled(s) /\ row[s].attempts = MaxAttempts /\ ~Held(s)

(* What the code does guarantee across crashes: every appended signal is
   settled, or its last attempt was the one the crash interrupted. *)
SettledOrStranded ==
    \A s \in Signals : row[s].appended ~> (~Unsettled(s) \/ Stranded(s))

(* What has become of s, seen from outside. *)
Fate(s) == CASE row[s].processed -> "processed"
             [] row[s].dead /\ ~row[s].processed -> "dead"
             [] Unsettled(s) -> "waiting"
             [] OTHER -> "absent"

(* The journal is a queue that applies every item at most once and gives one up
   only when its attempts are used: leases, batches, stale workers and crashes
   do nothing that the abstract queue could not do. *)
Queue == INSTANCE WorkQueue WITH
    Items <- Signals,
    Limit <- MaxAttempts,
    fate <- [s \in Signals |-> Fate(s)],
    tries <- [s \in Signals |-> row[s].attempts],
    effects <- applied

(* Every step of claims, evaluations, reports, crashes and time is a step of
   the abstract queue, or none. *)
ImplementsQueue == Queue!Spec
=============================================================================
