------------------------------ MODULE Ingestion ------------------------------
(***************************************************************************)
(* Ingestion of collected batches (observations/service.go, repository.go, *)
(* called by monitoring/collector.go) beside the freshness worker          *)
(* (monitoring/freshness.go), at the grain of the row locks they take.     *)
(*                                                                         *)
(* Each is a READ COMMITTED transaction: a statement sees what has been    *)
(* committed and what its own transaction wrote.  A statement that needs a *)
(* row another transaction has locked waits; PostgreSQL ends one of those  *)
(* that wait in a circle.  Two ingestions of one integration overlap when  *)
(* a session's drain timer ends before its workload does.                  *)
(*                                                                         *)
(* A key is one check of one resource, the primary key of current_health.  *)
(* An observation is its key, its instant and its content: the state and,  *)
(* for a certificate check, the fingerprint of the certificate.  Events    *)
(* that are published after a commit are those of EventHub.                *)
(***************************************************************************)
EXTENDS Integers, Sequences, FiniteSets, SequencesExt, FiniteSetsExt

CONSTANTS
    Keys,          \* keys of current_health, numbered in the order of the locks
    ResourceOf,    \* ResourceOf[k]: the resource of key k, a number
    Certificates,  \* keys of certificate checks
    Batches,       \* what an adapter can deliver: [resources, observations], sequences
    Earlier,       \* sets of observations that may be stored before, one for a key
    MaxIngestions, \* bound on the calls of Collector.Collect that got a batch
    BatchSize,     \* FreshnessOptions.BatchSize
    Skew,          \* MaxFutureSkew
    StaleAfter,    \* refresh interval and grace
    UnknownAfter,  \* three refresh intervals, and at least StaleAfter
    MaxTime,       \* bound on the clock
    MaxFaults,     \* bound on failures of the database and cancellations
    Worker         \* the freshness worker as a holder of locks

(* Keys sort as their resources do.  A batch has one certificate at most, as a
   collection of webcheck does. *)
ASSUME IngestionAssumption ==
    /\ Keys \subseteq Nat /\ DOMAIN ResourceOf = Keys /\ Certificates \subseteq Keys
    /\ \A k, l \in Keys : ResourceOf[k] \in Nat /\ (k < l => ResourceOf[k] <= ResourceOf[l])
    /\ \A h \in Earlier : \A o, p \in h : o.at <= Skew /\ (o.key = p.key => o = p)
    /\ BatchSize \in Nat \ {0} /\ {Skew, MaxTime, MaxFaults} \subseteq Nat
    /\ StaleAfter \in Nat \ {0} /\ UnknownAfter \in Nat /\ StaleAfter <= UnknownAfter
    /\ MaxIngestions \in Nat /\ Worker \notin 1 .. MaxIngestions

VARIABLES
    clock,      \* the wall clock
    resources,  \* resources with a committed row
    stored,     \* committed rows of observations
    current,    \* current[k]: the committed row of current_health
    projected,  \* committed rows of certificate_observations
    journal,    \* committed rows of monitoring_signals
    attempts,   \* attempts[i]: the recorded result of the collection
    locks,      \* row locks: [row, tx, mode]
    tx,         \* tx[i]: an ingestion, where it is and what it wrote
    worker,     \* the freshness worker
    faults      \* failures so far

vars == <<clock, resources, stored, current, projected, journal, attempts, locks, tx, worker, faults>>

database == <<resources, stored, current, projected, journal>>

-----------------------------------------------------------------------------
Ingestions == 1 .. MaxIngestions
Resources == {ResourceOf[k] : k \in Keys}
NoRow == [state |-> "none", at |-> -1, success |-> -1]
NoCertificate == "none"

Idle == [pc |-> "idle", batch |-> [resources |-> <<>>, observations |-> <<>>], received |-> 0,
         todo |-> <<>>, added |-> {}, inserted |-> {}, saved |-> [k \in {} |-> NoRow],
         desired |-> NoRow]

Resting == [pc |-> "idle", now |-> 0, todo |-> <<>>, saved |-> [k \in {} |-> NoRow]]

(* health.Evaluate: the state an observation stands for at an instant.  A
   disabled or unknown one does not age. *)
StateAt(o, now) ==
    IF o.state \in {"disabled", "unknown"} THEN o.state
    ELSE IF now >= o.at + UnknownAfter THEN "unknown"
    ELSE IF now >= o.at + StaleAfter THEN "stale" ELSE o.state

PositiveDetermination(state) == state \in {"healthy", "warning", "critical", "maintenance", "disabled"}

Evaluate(o, previous, now) ==
    [state |-> StateAt(o, now), at |-> o.at,
     success |-> IF PositiveDetermination(o.state) /\ o.at > previous.success THEN o.at
                 ELSE previous.success]

(* latestObservation: instants are unique for a key. *)
Newest(k, observations) ==
    CHOOSE o \in observations : o.key = k /\ \A p \in observations : p.key = k => p.at <= o.at

Signal(o) == <<"observation", o.key, o.state, o.at>>

(* Nothing has been collected yet, or an earlier collection was stored as a whole. *)
Init ==
    /\ clock = 0
    /\ stored \in Earlier
    /\ resources = {ResourceOf[o.key] : o \in stored}
    /\ projected = {[key |-> o.key, at |-> o.at, print |-> o.print, changed |-> FALSE] :
                      o \in {o \in stored : o.key \in Certificates}}
    /\ journal = {Signal(o) : o \in stored}
    /\ current = [k \in Keys |->
                     IF \E o \in stored : o.key = k THEN Evaluate(Newest(k, stored), NoRow, 0) ELSE NoRow]
    /\ attempts = [i \in Ingestions |-> "none"]
    /\ locks = {}
    /\ tx = [i \in Ingestions |-> Idle]
    /\ worker = Resting
    /\ faults = 0

-----------------------------------------------------------------------------
(* Rows and their locks *)

ResourceRow(r) == <<"resource", r>>
HealthRow(k) == <<"health", k>>

(* FOR UPDATE, the lock of an update that leaves keys alone, and the lock a
   foreign key takes on the row it refers to. *)
Conflicts(a, b) == {a, b} # {"key share"} /\ {a, b} # {"key share", "no key update"}

Holders(row, t, mode) ==
    {l.tx : l \in {l \in locks : l.row = row /\ l.tx # t /\ Conflicts(l.mode, mode)}}

Take(row, t, mode) ==
    /\ Holders(row, t, mode) = {}
    /\ locks' = locks \cup {[row |-> row, tx |-> t, mode |-> mode]}

Release(t) == locks' = {l \in locks : l.tx # t}

-----------------------------------------------------------------------------
Observed(batch) == Range(batch.observations)

(* ValidateBatch: nothing may be dated too far ahead, and a resource is named once. *)
Valid(batch, received) ==
    /\ \A o \in Observed(batch) : o.at <= received + Skew
    /\ IsInjective(batch.resources)

(* The resources a batch concerns, and its checks, in the order of the sort. *)
Affected(batch) == Range(batch.resources) \cup {ResourceOf[o.key] : o \in Observed(batch)}

Sorted(S) == SetToSortSeq(S, <)

-----------------------------------------------------------------------------
(* Ingestions *)

At(i, pc) == tx[i].pc = pc

Go(i, pc, todo) == tx' = [tx EXCEPT ![i].pc = pc, ![i].todo = todo]

(* The transaction is rolled back; Collect records the result in one of its own,
   unless its context has ended. *)
Abort(i, result) ==
    /\ tx' = [tx EXCEPT ![i] = [Idle EXCEPT !.pc = "over"]]
    /\ attempts' = [attempts EXCEPT ![i] = result]
    /\ Release(i)
    /\ UNCHANGED database

(* IngestWithCommit reads the clock, validates, and begins; ingestions are numbered
   as they begin.  That the integration exists is given: a session is only started for one
   that does, and none is ever deleted. *)
Begin(i, batch) ==
    /\ At(i, "idle") /\ \A j \in 1 .. i - 1 : ~ At(j, "idle")
    /\ worker.pc # "ended"
    /\ IF Valid(batch, clock)
       THEN /\ tx' = [tx EXCEPT ![i] = [Idle EXCEPT !.pc = "upsert", !.batch = batch,
                                                    !.received = clock, !.todo = batch.resources]]
            /\ UNCHANGED <<attempts, locks, database>>
       ELSE Abort(i, "rejected")
    /\ UNCHANGED <<clock, worker, faults>>

(* upsertResource, in the order of the batch: a new row, or an update of one. *)
UpsertResource(i) ==
    /\ At(i, "upsert") /\ tx[i].todo # <<>>
    /\ Take(ResourceRow(Head(tx[i].todo)), i, "no key update")
    /\ tx' = [tx EXCEPT ![i].todo = Tail(@), ![i].added = @ \cup {Head(tx[i].todo)}]
    /\ UNCHANGED <<clock, database, attempts, worker, faults>>

(* resolveResource for the observations of other resources: a row has to be
   visible. *)
ResolveResources(i) ==
    /\ At(i, "upsert") /\ tx[i].todo = <<>>
    /\ IF Affected(tx[i].batch) \subseteq resources \cup tx[i].added
       THEN Go(i, "lock", Sorted(Affected(tx[i].batch))) /\ UNCHANGED <<attempts, locks, database>>
       ELSE Abort(i, "rejected")
    /\ UNCHANGED <<clock, worker, faults>>

(* Variant: the rows are read without a lock. *)
ReadResource(i) ==
    /\ At(i, "lock") /\ tx[i].todo # <<>>
    /\ tx' = [tx EXCEPT ![i].todo = Tail(@)]
    /\ UNCHANGED <<clock, database, attempts, locks, worker, faults>>

(* lockResource, in the order of the identifiers. *)
LockResource(i) ==
    /\ At(i, "lock") /\ tx[i].todo # <<>>
    /\ Take(ResourceRow(Head(tx[i].todo)), i, "update")
    /\ tx' = [tx EXCEPT ![i].todo = Tail(@)]
    /\ UNCHANGED <<clock, database, attempts, worker, faults>>

(* insertObservation and its signal, for each observation: one that is there
   already with the same content is left out, one with another content refuses
   the batch.  What it refers to it has locked itself. *)
InsertObservations(i) ==
    LET new == Observed(tx[i].batch)
        conflict == \E o \in new, p \in new \cup stored : o.key = p.key /\ o.at = p.at /\ o # p
    IN  /\ At(i, "lock") /\ tx[i].todo = <<>>
        /\ IF conflict THEN Abort(i, "rejected")
           ELSE /\ tx' = [tx EXCEPT ![i].pc = "load", ![i].inserted = new \ stored,
                                    ![i].todo = Sorted({o.key : o \in new})]
                /\ UNCHANGED <<attempts, locks, database>>
        /\ UNCHANGED <<clock, worker, faults>>

(* loadCurrent, latestObservation and health.Evaluate for the next check; nothing
   is saved if nothing differs. *)
LoadCurrent(i) ==
    LET k == Head(tx[i].todo)
        desired == Evaluate(Newest(k, stored \cup tx[i].inserted), current[k], tx[i].received)
    IN  /\ At(i, "load") /\ tx[i].todo # <<>>
        /\ tx' = IF current[k] = desired THEN [tx EXCEPT ![i].todo = Tail(@)]
                 ELSE [tx EXCEPT ![i].pc = "save", ![i].desired = desired]
        /\ UNCHANGED <<clock, database, attempts, locks, worker, faults>>

(* saveCurrent: it waits for the row, and replaces it. *)
SaveCurrent(i) ==
    LET k == Head(tx[i].todo) IN
    /\ At(i, "save")
    /\ Take(HealthRow(k), i, "update")
    /\ tx' = [tx EXCEPT ![i].pc = "load", ![i].todo = Tail(@),
                        ![i].saved = [l \in DOMAIN @ \cup {k} |->
                                        IF l = k THEN tx[i].desired ELSE @[l]]]
    /\ UNCHANGED <<clock, database, attempts, worker, faults>>

(* Variant: the oldest projected certificate. *)
OldestCertificate(k) ==
    LET rows == {c \in projected : c.key = k}
    IN  IF rows = {} THEN NoCertificate
        ELSE (CHOOSE c \in rows : \A d \in rows : d.at >= c.at).print

(* The fingerprint the projection compares with: the newest one of the resource. *)
PriorCertificate(k) ==
    LET rows == {c \in projected : c.key = k}
    IN  IF rows = {} THEN NoCertificate
        ELSE (CHOOSE c \in rows : \A d \in rows : d.at <= c.at).print

(* ProjectBatch: the flag is null, which the table does not take, if there was a
   certificate and now there is none.  The issuer is compared like the fingerprint and
   comes with it; only the fingerprint is followed here. *)
Projectable(o) == PriorCertificate(o.key) = NoCertificate \/ o.print # NoCertificate

Projection(o) ==
    [key |-> o.key, at |-> o.at, print |-> o.print,
     changed |-> PriorCertificate(o.key) \notin {NoCertificate, o.print}]

(* The hook: the projection, which the primary key allows once for an observation,
   and the record of the attempt.  Then the commit.  These are one step because the
   resource, locked FOR UPDATE since LockResource, admits no other projection of its
   certificates in between. *)
Commit(i) ==
    LET certificates == {o \in Observed(tx[i].batch) : o.key \in Certificates}
        old == {o \in certificates : \E c \in projected : c.key = o.key /\ c.at = o.at}
    IN  /\ At(i, "load") /\ tx[i].todo = <<>>
        /\ IF \A o \in certificates : Projectable(o)
           THEN /\ resources' = resources \cup tx[i].added
                /\ stored' = stored \cup tx[i].inserted
                /\ journal' = journal \cup {Signal(o) : o \in tx[i].inserted}
                /\ current' = [k \in Keys |-> IF k \in DOMAIN tx[i].saved THEN tx[i].saved[k] ELSE current[k]]
                /\ projected' = projected \cup {Projection(o) : o \in certificates \ old}
                /\ attempts' = [attempts EXCEPT ![i] = "succeeded"]
                /\ tx' = [tx EXCEPT ![i] = [Idle EXCEPT !.pc = "over"]]
                /\ Release(i)
           ELSE Abort(i, "failed")
        /\ UNCHANGED <<clock, worker, faults>>

InTransaction(i) == tx[i].pc \notin {"idle", "over"}

(* The database fails, which is recorded, or the context ends, which leaves no
   record. *)
Fault(i) ==
    /\ InTransaction(i) /\ faults < MaxFaults
    /\ \E result \in {"failed", "unrecorded"} : Abort(i, result)
    /\ faults' = faults + 1
    /\ UNCHANGED <<clock, worker>>

-----------------------------------------------------------------------------
(* The freshness worker *)

(* Variant: what is stale already is left alone. *)
DueOnce(k, now) ==
    /\ current[k] # NoRow /\ current[k].state \notin {"disabled", "stale", "unknown"}
    /\ current[k].at + StaleAfter <= now

(* The rows RefreshDue asks for. *)
Due(k, now) ==
    /\ current[k] # NoRow /\ current[k].state \notin {"disabled", "unknown"}
    /\ current[k].at + (IF current[k].state = "stale" THEN UnknownAfter ELSE StaleAfter) <= now

DueAt(k) == current[k].at + (IF current[k].state = "stale" THEN UnknownAfter ELSE StaleAfter)

(* It claims due rows nobody has locked, the longest overdue first.  RefreshDue read
   its clock before the transaction: ingestions may have committed, and time passed,
   in between. *)
ClaimDue(now) ==
    LET due == {k \in Keys : Due(k, now) /\ Holders(HealthRow(k), Worker, "update") = {}}
        earlier(k, l) == DueAt(k) < DueAt(l) \/ (DueAt(k) = DueAt(l) /\ k < l)
        claimed == {k \in due : Cardinality({l \in due : earlier(l, k)}) < BatchSize}
    IN  /\ worker.pc = "idle" /\ due # {}
        /\ locks' = locks \cup {[row |-> HealthRow(k), tx |-> Worker, mode |-> "update"] : k \in claimed}
        /\ worker' = [Resting EXCEPT !.pc = "refresh", !.now = now,
                                     !.todo = SetToSortSeq(claimed, earlier)]
        /\ UNCHANGED <<clock, database, attempts, tx, faults>>

(* The row is updated, and its signal appended, which takes a lock of the resource. *)
RefreshRow ==
    LET k == Head(worker.todo)
        o == Newest(k, {p \in stored : p.key = k /\ p.at = current[k].at})
    IN  /\ worker.pc = "refresh" /\ worker.todo # <<>>
        /\ Take(ResourceRow(ResourceOf[k]), Worker, "key share")
        /\ worker' = [worker EXCEPT !.todo = Tail(@),
                        !.saved = [l \in DOMAIN @ \cup {k} |->
                                     IF l = k THEN Evaluate(o, current[k], worker.now) ELSE @[l]]]
        /\ UNCHANGED <<clock, database, attempts, tx, faults>>

CommitRefresh ==
    /\ worker.pc = "refresh" /\ worker.todo = <<>>
    /\ current' = [k \in Keys |-> IF k \in DOMAIN worker.saved THEN worker.saved[k] ELSE current[k]]
    /\ journal' = journal \cup {<<"freshness", k, worker.saved[k].state, worker.now>> : k \in DOMAIN worker.saved}
    /\ worker' = Resting
    /\ Release(Worker)
    /\ UNCHANGED <<clock, resources, stored, projected, attempts, tx, faults>>

(* An error of RefreshDue ends Run, and with it Core's runtime. *)
EndWorker ==
    /\ worker' = [Resting EXCEPT !.pc = "ended"]
    /\ Release(Worker)
    /\ UNCHANGED <<clock, database, attempts, tx>>

WorkerFault ==
    /\ worker.pc = "refresh" /\ faults < MaxFaults
    /\ EndWorker
    /\ faults' = faults + 1

(* With the runtime, contexts are cancelled: no ingestion is recorded. *)
Cancelled(i) ==
    /\ worker.pc = "ended" /\ InTransaction(i)
    /\ Abort(i, "unrecorded")
    /\ UNCHANGED <<clock, worker, faults>>

(* Core is started again. *)
Restart ==
    /\ worker.pc = "ended" /\ \A i \in Ingestions : ~ InTransaction(i)
    /\ worker' = Resting
    /\ UNCHANGED <<clock, database, attempts, locks, tx, faults>>

-----------------------------------------------------------------------------
(* Whom a transaction waits for. *)
WaitsFor(t) ==
    IF t = Worker
    THEN IF worker.pc = "refresh" /\ worker.todo # <<>>
         THEN Holders(ResourceRow(ResourceOf[Head(worker.todo)]), Worker, "key share") ELSE {}
    ELSE CASE At(t, "upsert") /\ tx[t].todo # <<>> -> Holders(ResourceRow(Head(tx[t].todo)), t, "no key update")
           [] At(t, "lock") /\ tx[t].todo # <<>> -> Holders(ResourceRow(Head(tx[t].todo)), t, "update")
           [] At(t, "save") -> Holders(HealthRow(Head(tx[t].todo)), t, "update")
           [] OTHER -> {}

Transactions == Ingestions \cup {Worker}

(* t is part of a circle of waiting transactions. *)
Deadlocked(t) ==
    \E C \in SUBSET Transactions :
        /\ t \in C
        /\ \A u \in C : WaitsFor(u) \cap C # {} /\ \E v \in C : u \in WaitsFor(v)

(* PostgreSQL fails the statement of one of them. *)
BreakDeadlock(t) ==
    /\ Deadlocked(t)
    /\ IF t = Worker THEN EndWorker ELSE Abort(t, "failed") /\ UNCHANGED <<clock, worker>>
    /\ UNCHANGED faults

Tick ==
    /\ clock < MaxTime
    /\ clock' = clock + 1
    /\ UNCHANGED <<database, attempts, locks, tx, worker, faults>>

Statement(i) ==
    \/ UpsertResource(i) \/ ResolveResources(i) \/ LockResource(i) \/ InsertObservations(i)
    \/ LoadCurrent(i) \/ SaveCurrent(i) \/ Commit(i) \/ Cancelled(i)

Refresh == (\E now \in 0 .. clock : ClaimDue(now)) \/ RefreshRow \/ CommitRefresh \/ Restart

Next ==
    \/ \E i \in Ingestions :
         \/ \E batch \in Batches : Begin(i, batch)
         \/ Statement(i) \/ Fault(i)
    \/ Refresh \/ WorkerFault
    \/ \E t \in Transactions : BreakDeadlock(t)
    \/ Tick

(* Transactions go on while they can, the worker polls, PostgreSQL looks for
   deadlocks, and Core is started again.  Nothing says that time passes or that
   an adapter delivers. *)
Fairness ==
    /\ \A i \in Ingestions : WF_vars(Statement(i))
    /\ WF_vars(Refresh)
    /\ WF_vars(\E t \in Transactions : BreakDeadlock(t))

Spec == Init /\ [][Next]_vars /\ Fairness

-----------------------------------------------------------------------------
(* Rows of the tables, and transactions, have their types. *)
TypeOK ==
    /\ clock \in 0 .. MaxTime /\ faults \in 0 .. MaxFaults
    /\ resources \subseteq Resources
    /\ \A o \in stored : o.key \in Keys /\ ResourceOf[o.key] \in resources
    /\ \A c \in projected : c.key \in Certificates /\ c.changed \in BOOLEAN
    /\ \A l \in locks : l.tx \in Transactions /\ l.mode \in {"key share", "no key update", "update"}
    /\ \A i \in Ingestions : tx[i].pc \in {"idle", "upsert", "lock", "load", "save", "over"}
    /\ worker.pc \in {"idle", "refresh", "ended"}

(* The current health of a check refers to the newest observation that is stored
   for it, however ingestions of one resource overlap, in whatever order they
   deliver, and whatever the freshness worker writes between their statements. *)
CurrentIsNewest ==
    \A k \in Keys :
        LET observations == {o \in stored : o.key = k}
        IN  IF observations = {} THEN current[k] = NoRow
            ELSE current[k].at = Newest(k, stored).at

(* What holds of the tables and transactions at any time, through deadlocks and
   aborted ingestions. *)
IngestionInv == TypeOK /\ CurrentIsNewest

(* The state that is stored for a check does not stay behind the clock: again and
   again it is what its observation says at the present instant.  A deadlock, a
   failed worker or a late ingestion that writes back an older judgement only
   delay it. *)
LapseIsStored ==
    \A k \in Keys :
        []<>(current[k] = NoRow \/ current[k].state = StateAt(Newest(k, stored), clock))

(* When a commit puts another certificate in the place of the newest one, the row
   that now is the newest says so. *)
ReplacementIsFlagged ==
    [][\A k \in Certificates, c \in projected, d \in projected' :
           /\ c.key = k /\ \A e \in projected : e.key = k => e.at <= c.at
           /\ d.key = k /\ \A e \in projected' : e.key = k => e.at <= d.at
           /\ {c.print, d.print} \cap {NoCertificate} = {} /\ c.print # d.print
           => d.changed]_vars

(* A valid batch is stored, or refused for what it says; only a fault makes its
   collection fail. *)
FailureNeedsFault == (\E i \in Ingestions : attempts[i] = "failed") => faults > 0
=============================================================================
