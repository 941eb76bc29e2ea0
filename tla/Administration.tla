--------------------------- MODULE Administration ---------------------------
(***************************************************************************)
(* Administrative changes (adminops, and the services of incident rules,   *)
(* maintenance windows, silences, notification destinations, website       *)
(* monitors, Proxmox clusters and other integrations).                     *)
(*                                                                         *)
(* An administrator reads a row and its version, the ETag, and sends a     *)
(* change for that version under an Idempotency-Key.  The handler runs one *)
(* transaction: it takes the advisory lock of the key and looks for an     *)
(* earlier receipt, locks the row and compares the version, writes the     *)
(* row, the audit event and the receipt, and commits.  An answer may get   *)
(* lost, and the administrator then sends the same request again, also     *)
(* while the first one is still being handled.                             *)
(*                                                                         *)
(* PostgreSQL runs these transactions at READ COMMITTED: a statement sees  *)
(* what was committed when it began, FOR UPDATE and UPDATE wait for the    *)
(* row and go on with its newest version, and locks end with their         *)
(* transaction.  What a handler does while it holds the row's lock cannot  *)
(* be told from its commit, so writing and committing are one step; a rule *)
(* is read without the lock, and there the steps are two.                  *)
(*                                                                         *)
(* The events and restarts a handler issues once it has committed carry no *)
(* data; EventHub and CollectionRuntime are about what becomes of them,    *)
(* and IncidentEngine about the signals at the end of a window.            *)
(***************************************************************************)
EXTENDS Integers, Sequences, FiniteSets

CONSTANTS
    Handlers,    \* requests that can be handled at the same time
    Scenarios,   \* sets of requests that administrators may want to make
    Kind,        \* Kind[t]: the table, and so the service, of row t
    ByName,      \* the clusters by display name, their order before any move
    Fresh,       \* identifiers of rows yet to be created
    Clock,       \* what the wall clock may show, it may be behind a row
    Unverified,  \* the configuration of a row before any request
    Off,         \* the configuration of a disabled monitor
    None,        \* no row, no token, no receipt
    MaxSends     \* bound on how often a request is sent

Targets == DOMAIN Kind

Clusters == {t \in Targets : Kind[t] = "cluster"}

Elements(list) == {list[i] : i \in DOMAIN list}

(* What the API offers for each kind of row.  Creating a cluster is left out. *)
Operations ==
    [rule |-> {"create", "replace"}, window |-> {"create", "replace", "revoke"},
     silence |-> {"create", "replace", "revoke"}, destination |-> {"create", "replace", "test"},
     monitor |-> {"create", "replace", "check"}, cluster |-> {"replace", "reorder"},
     integration |-> {"create", "replace"}]

(* A request names an operation there is, on a row of its kind; only the update of
   a cluster brings a token, and a move goes up or down. *)
WellFormed(r) ==
    /\ r # None
    /\ r = [actor |-> r.actor, op |-> r.op, target |-> r.target, kind |-> r.kind, key |-> r.key,
            body |-> r.body, token |-> r.token]
    /\ r.kind \in DOMAIN Operations /\ r.op \in Operations[r.kind]
    /\ r.op # "create" => r.target \in Targets /\ Kind[r.target] = r.kind
    /\ r.token # None => r.kind = "cluster" /\ r.op = "replace"
    /\ r.op = "reorder" => r.body \in {"up", "down"}

ASSUME AdministrationAssumption ==
    /\ Clock \subseteq Nat \ {0} /\ Clock # {}
    /\ MaxSends \in Nat
    /\ Fresh \cap Targets = {}
    /\ ByName \in Seq(Clusters)
    /\ Len(ByName) = Cardinality(Clusters) /\ Elements(ByName) = Clusters
    /\ None \notin Targets \cup Fresh \cup {Unverified}
    /\ \A scenario \in Scenarios : \A r \in scenario : WellFormed(r)

VARIABLES
    wanted,      \* the requests of this behaviour
    etag,        \* etag[r]: the version request r is made for, 0 if not read yet
    sent,        \* sent[r]: how often r has been sent
    handler,     \* handler[h]: the request being handled and how far it is
    row,         \* row[t]: the row of t, its version 0 if there is none, as far as these
                 \* operations write it (not the expired_at and updated_at of the suppression
                 \* worker; sort_order, a moved cluster's neighbours' too, is in order)
    order,       \* the clusters by sort_order
    secret,      \* secret[t]: the token file of cluster t
    receipts,    \* administrative_mutation_idempotency
    audit,       \* audit_events of these changes, as appended
    intents,     \* test intents queued, by destination
    asked,       \* requests for which a collection was requested
    answers,     \* answers[r]: the answers to r that arrived
    validated,   \* <<cluster, configuration, token>> that Proxmox accepted (history)
    torn         \* clusters whose token is that of a failed update (history)

vars == <<wanted, etag, sent, handler, row, order, secret, receipts, audit, intents,
          asked, answers, validated, torn>>

tables == <<row, order, receipts, audit, intents>>

-----------------------------------------------------------------------------
(* Integrations use updated_at as their version, the others a counter. *)
Stamped == {"monitor", "cluster", "integration"}

(* Clusters and integrations of other adapters are changed without a key. *)
Keyed(r) == r.kind \notin {"cluster", "integration"}

(* Replay looks a receipt up by actor, target type, operation and key; the
   identifier, the version and the definition are only in the hash. *)
Scope(r) == <<r.actor, r.kind, r.op, r.key>>

(* Variant: the definition is left out of the hash. *)
HashWithoutBody(r) == <<r.op, r.target, etag[r]>>

Hash(r) == <<r.op, r.target, etag[r], r.body>>

Idle == [pc |-> "idle", req |-> None, listed |-> <<>>, token |-> None, reply |-> None]

At(h, pc) == handler[h].pc = pc

(* Variant: rows are read without FOR UPDATE. *)
LockedNever(r) == {}

(* The rows locked FOR UPDATE by the transaction of r; readRule locks none. *)
LockedRows(r) ==
    CASE r.op = "reorder" -> Clusters
      [] r.op \in {"create", "check"} \/ r.kind = "rule" -> {}
      [] OTHER -> {r.target}

RowFree(h, t) ==
    \A g \in Handlers \ {h} :
        handler[g].pc \in {"secret", "commit"} => t \notin LockedRows(handler[g].req)

(* Variant: no advisory lock. *)
KeyUnlocked(h, r) == TRUE

(* pg_advisory_xact_lock on the scope. *)
KeyFree(h, r) ==
    \A g \in Handlers \ {h} :
        (handler[g].pc \in {"row", "ask", "commit"} /\ Keyed(handler[g].req))
            => Scope(handler[g].req) # Scope(r)

(* Variant: the wall clock as it is. *)
StampNow(now, old) == now

(* An updated_at of the wall clock, moved past the stored one where needed. *)
Stamp(now, old) == IF now > old THEN now ELSE old + 1

NextVersion(r, now, old) == IF r.kind \in Stamped THEN Stamp(now, old) ELSE old + 1

Reply(h, result, id, version) ==
    handler' = [handler EXCEPT ![h].pc = "reply",
                               ![h].reply = [result |-> result, id |-> id, version |-> version]]

Refuse(h, result) == Reply(h, result, None, 0)

Goto(h, pc) == handler' = [handler EXCEPT ![h].pc = pc]

-----------------------------------------------------------------------------
NewRow == [version |-> 1, body |-> Unverified, revoked |-> FALSE]

Absent == [NewRow EXCEPT !.version = 0]

Init ==
    /\ wanted \in Scenarios
    /\ etag = [r \in wanted |-> 0]
    /\ sent = [r \in wanted |-> 0]
    /\ handler = [h \in Handlers |-> Idle]
    /\ row = [t \in Targets \cup Fresh |-> IF t \in Targets THEN NewRow ELSE Absent]
    /\ order = ByName
    /\ secret = [t \in Clusters |-> Unverified]
    /\ receipts = {}
    /\ audit = <<>>
    /\ intents = [t \in Targets |-> 0]
    /\ asked = {}
    /\ answers = [r \in wanted |-> {}]
    /\ validated = {<<t, Unverified, Unverified>> : t \in Clusters}
    /\ torn = {}

-----------------------------------------------------------------------------
(* The administrator opens the row's page and gets its ETag. *)
ReadETag(r) ==
    /\ r.op # "create" /\ etag[r] = 0
    /\ etag' = [etag EXCEPT ![r] = row[r.target].version]
    /\ UNCHANGED <<wanted, sent, handler, tables, secret, asked, answers, validated, torn>>

(* The first step of a handler: a manual check and the update of a cluster
   look at the row before they begin their transaction. *)
FirstStep(r) ==
    IF r.op = "check" \/ (r.kind = "cluster" /\ r.op = "replace") THEN "look"
    ELSE IF Keyed(r) THEN "key"
    ELSE IF r.op = "create" THEN "commit" ELSE "row"

(* The request is sent, again as long as no answer has arrived. *)
Send(h, r) ==
    /\ At(h, "idle") /\ answers[r] = {} /\ sent[r] < MaxSends
    /\ r.op # "create" => etag[r] # 0
    /\ sent' = [sent EXCEPT ![r] = @ + 1]
    /\ handler' = [handler EXCEPT ![h] = [Idle EXCEPT !.pc = FirstStep(r), !.req = r]]
    /\ UNCHANGED <<wanted, etag, tables, secret, asked, answers, validated, torn>>

(* webpages Check: version and enabled are looked at outside the transaction. *)
LookMonitor(h) ==
    LET r == handler[h].req
        current == row[r.target]
    IN  /\ At(h, "look") /\ r.op = "check"
        /\ IF current.version # etag[r] THEN Refuse(h, "stale")
           ELSE IF current.body = Off THEN Refuse(h, "not_running")
           ELSE Goto(h, "key")
        /\ UNCHANGED <<wanted, etag, sent, tables, secret, asked, answers, validated, torn>>

(* UpdateProxmoxCluster: a first comparison, then the new configuration is
   tried on Proxmox with the new token or, if none is given, the stored one. *)
LookCluster(h) ==
    LET r == handler[h].req
        token == IF r.token = None THEN secret[r.target] ELSE r.token
    IN  /\ At(h, "look") /\ r.op = "replace"
        /\ IF row[r.target].version # etag[r]
           THEN Refuse(h, "stale") /\ UNCHANGED validated
           ELSE /\ handler' = [handler EXCEPT ![h].pc = "row", ![h].token = token]
                /\ validated' = validated \cup {<<r.target, r.body, token>>}
        /\ UNCHANGED <<wanted, etag, sent, tables, secret, asked, answers, torn>>

Stored(r) == {receipt \in receipts : receipt.scope = Scope(r)}

AfterReplay(r) ==
    CASE r.op = "create" -> "commit"
      [] r.op = "check" -> "ask"
      [] OTHER -> "row"

Replay(h) ==
    LET r == handler[h].req
    IN  /\ At(h, "key") /\ KeyFree(h, r)
        /\ \/ Stored(r) = {} /\ Goto(h, AfterReplay(r))
           \/ \E receipt \in Stored(r) :
                 IF receipt.hash = Hash(r)
                 THEN Reply(h, "ok", receipt.id, receipt.version)
                 ELSE Refuse(h, "key_reused")
        /\ UNCHANGED <<wanted, etag, sent, tables, secret, asked, answers, validated, torn>>

(* Variant: an update that was compared before validation is not again. *)
OutdatedUnlessLooked(r) == FirstStep(r) # "look" /\ row[r.target].version # etag[r]

(* The comparison within the transaction.  A request without a version, which
   IntegrationConfigService would let pass, is none the API makes: it asks for If-Match. *)
Outdated(r) == row[r.target].version # etag[r]

(* The row is read, locked except for a rule.  A suppression that has been
   revoked is not changed any more. *)
ReadRow(h) ==
    LET r == handler[h].req
    IN  /\ At(h, "row") /\ r.op # "reorder"
        /\ r.kind # "rule" => RowFree(h, r.target)
        /\ IF Outdated(r) THEN Refuse(h, "stale")
           ELSE IF row[r.target].revoked THEN Refuse(h, "revoked")
           ELSE Goto(h, IF handler[h].token # None /\ r.token # None THEN "secret" ELSE "commit")
        /\ UNCHANGED <<wanted, etag, sent, tables, secret, asked, answers, validated, torn>>

(* loadOrderedProxmoxClusters sorts what is committed when it begins ... *)
ListClusters(h) ==
    /\ At(h, "row") /\ handler[h].req.op = "reorder"
    /\ handler' = [handler EXCEPT ![h].pc = "lock", ![h].listed = order]
    /\ UNCHANGED <<wanted, etag, sent, tables, secret, asked, answers, validated, torn>>

Place(h) == CHOOSE i \in 1 .. Len(handler[h].listed) : handler[h].listed[i] = handler[h].req.target

Neighbour(h) == Place(h) + (IF handler[h].req.body = "down" THEN 1 ELSE -1)

(* ... and waits for the locks; the rows are then current, their order is not. *)
LockClusters(h) ==
    LET r == handler[h].req
    IN  /\ At(h, "lock")
        /\ \A t \in Clusters : RowFree(h, t)
        /\ IF Outdated(r) THEN Refuse(h, "stale")
           ELSE IF Neighbour(h) \notin 1 .. Len(order) THEN Refuse(h, "invalid")
           ELSE Goto(h, "commit")
        /\ UNCHANGED <<wanted, etag, sent, tables, secret, asked, answers, validated, torn>>

(* The token file of a cluster is replaced within the transaction, not by it. *)
WriteSecret(h) ==
    LET r == handler[h].req
    IN  /\ At(h, "secret")
        /\ secret' = [secret EXCEPT ![r.target] = r.token]
        /\ Goto(h, "commit")
        /\ UNCHANGED <<wanted, etag, sent, tables, asked, answers, validated, torn>>

(* A manual check asks the runtime for a collection, then writes its records. *)
AskRuntime(h) ==
    /\ At(h, "ask")
    /\ \/ asked' = asked \cup {handler[h].req} /\ Goto(h, "commit")
       \/ Refuse(h, "not_running") /\ UNCHANGED asked
    /\ UNCHANGED <<wanted, etag, sent, tables, secret, answers, validated, torn>>

-----------------------------------------------------------------------------
(* Variant: only the receipts of new rows are saved. *)
SaveCreated(r, id, version) ==
    IF Keyed(r) /\ r.op = "create"
    THEN receipts \cup {[scope |-> Scope(r), hash |-> Hash(r), id |-> id, version |-> version]}
    ELSE receipts

(* Save: the receipt of a keyed request.  The primary key of the table would refuse a
   second one for the key; the advisory lock of Replay comes before it. *)
Save(r, id, version) ==
    IF Keyed(r)
    THEN receipts \cup {[scope |-> Scope(r), hash |-> Hash(r), id |-> id, version |-> version]}
    ELSE receipts

(* audit.Append; "from" is the version the change was really made to. *)
AppendAudit(r, id, version) ==
    audit \o <<[req |-> r, id |-> id, seen |-> etag[r], from |-> row[id].version, to |-> version]>>

(* Audit event, receipt and commit of a change of row id to that version. *)
Committed(h, id, version) ==
    LET r == handler[h].req
    IN  /\ receipts' = Save(r, id, version)
        /\ audit' = AppendAudit(r, id, version)
        /\ torn' = IF id \in Clusters /\ handler[h].token = secret[id] THEN torn \ {id} ELSE torn
        /\ Reply(h, "ok", id, version)
        /\ UNCHANGED <<wanted, etag, sent, secret, asked, answers, validated>>

(* A new row of that kind, under a random identifier. *)
Inserted(h, kind) ==
    LET r == handler[h].req
    IN  /\ At(h, "commit") /\ r.op = "create" /\ r.kind = kind
        /\ \E id \in Fresh, now \in Clock :
              /\ row[id].version = 0
              /\ row' = [row EXCEPT ![id] = [NewRow EXCEPT !.version = NextVersion(r, now, 0),
                                                           !.body = r.body]]
              /\ Committed(h, id, NextVersion(r, now, 0))
        /\ UNCHANGED <<order, intents>>

CreateRule(h) == Inserted(h, "rule")
CreateMaintenance(h) == Inserted(h, "window")
CreateSilence(h) == Inserted(h, "silence")
CreateDestination(h) == Inserted(h, "destination")
CreateMonitor(h) == Inserted(h, "monitor")
CreateIntegration(h) == Inserted(h, "integration")

(* The row gets the new definition and the next version.  The row of a rule
   has not been locked before. *)
Updated(h, kind) ==
    LET r == handler[h].req
    IN  /\ At(h, "commit") /\ r.op = "replace" /\ r.kind = kind /\ RowFree(h, r.target)
        /\ \E now \in Clock :
              LET version == NextVersion(r, now, row[r.target].version)
              IN  /\ row' = [row EXCEPT ![r.target].version = version, ![r.target].body = r.body]
                  /\ Committed(h, r.target, version)
        /\ UNCHANGED <<order, intents>>

ReplaceRule(h) == Updated(h, "rule")
ReplaceMaintenance(h) == Updated(h, "window")
ReplaceSilence(h) == Updated(h, "silence")
ReplaceDestination(h) == Updated(h, "destination")
ReplaceMonitor(h) == Updated(h, "monitor")
UpdateProxmoxCluster(h) == Updated(h, "cluster")
UpdateIntegration(h) == Updated(h, "integration")

Revoke(h) ==
    LET r == handler[h].req
        version == row[r.target].version + 1
    IN  /\ At(h, "commit") /\ r.op = "revoke"
        /\ row' = [row EXCEPT ![r.target].version = version, ![r.target].revoked = TRUE]
        /\ Committed(h, r.target, version)
        /\ UNCHANGED <<order, intents>>

(* A test queues an intent; the destination keeps its version. *)
TestDestination(h) ==
    LET r == handler[h].req
    IN  /\ At(h, "commit") /\ r.op = "test"
        /\ intents' = [intents EXCEPT ![r.target] = @ + 1]
        /\ Committed(h, r.target, row[r.target].version)
        /\ UNCHANGED <<row, order>>

(* The receipt of a check has the version that was looked at. *)
CheckMonitor(h) ==
    LET r == handler[h].req
    IN  /\ At(h, "commit") /\ r.op = "check"
        /\ Committed(h, r.target, etag[r])
        /\ UNCHANGED <<row, order, intents>>

Exchanged(list, i, j) == [list EXCEPT ![i] = list[j], ![j] = list[i]]

(* Every cluster gets the sort_order of the list that was read, with the
   cluster and its neighbour exchanged; only the cluster gets a new version. *)
ReorderProxmoxCluster(h) ==
    LET r == handler[h].req
    IN  /\ At(h, "commit") /\ r.op = "reorder"
        /\ order' = Exchanged(handler[h].listed, Place(h), Neighbour(h))
        /\ \E now \in Clock :
              LET version == Stamp(now, row[r.target].version)
              IN  /\ row' = [row EXCEPT ![r.target].version = version]
                  /\ Committed(h, r.target, version)
        /\ UNCHANGED intents

(* The answer arrives. *)
Answer(h) ==
    LET r == handler[h].req
    IN  /\ At(h, "reply")
        /\ answers' = [answers EXCEPT ![r] = @ \cup {handler[h].reply}]
        /\ handler' = [handler EXCEPT ![h] = Idle]
        /\ UNCHANGED <<wanted, etag, sent, tables, secret, asked, validated, torn>>

(* The request fails, is cancelled, or Core stops: the transaction is rolled
   back, or the answer to a committed one is lost.  A token that was written
   stays. *)
Fail(h) ==
    LET r == handler[h].req
    IN  /\ ~ At(h, "idle")
        /\ handler' = [handler EXCEPT ![h] = Idle]
        /\ torn' = IF At(h, "commit") /\ handler[h].token # None /\ r.token # None
                   THEN torn \cup {r.target} ELSE torn
        /\ UNCHANGED <<wanted, etag, sent, tables, secret, asked, answers, validated>>

Handle(h) ==
    \/ LookMonitor(h) \/ LookCluster(h) \/ Replay(h) \/ ReadRow(h)
    \/ ListClusters(h) \/ LockClusters(h) \/ WriteSecret(h) \/ AskRuntime(h)
    \/ CreateRule(h) \/ CreateMaintenance(h) \/ CreateSilence(h) \/ CreateDestination(h)
    \/ CreateMonitor(h) \/ CreateIntegration(h)
    \/ ReplaceRule(h) \/ ReplaceMaintenance(h) \/ ReplaceSilence(h) \/ ReplaceDestination(h)
    \/ ReplaceMonitor(h) \/ UpdateProxmoxCluster(h) \/ UpdateIntegration(h)
    \/ Revoke(h) \/ TestDestination(h) \/ CheckMonitor(h) \/ ReorderProxmoxCluster(h)
    \/ Answer(h)

Next ==
    \/ \E r \in wanted : ReadETag(r)
    \/ \E h \in Handlers, r \in wanted : Send(h, r)
    \/ \E h \in Handlers : Handle(h) \/ Fail(h)

Spec == Init /\ [][Next]_vars

-----------------------------------------------------------------------------
(* Every variable has its type: a handler holds a row or a key only for a
   request, a receipt names a row and a version. *)
TypeOK ==
    /\ etag \in [wanted -> Nat] /\ sent \in [wanted -> 0 .. MaxSends]
    /\ \A h \in Handlers :
          /\ handler[h].pc \in {"idle", "look", "key", "row", "lock", "secret", "ask", "commit", "reply"}
          /\ handler[h].pc # "idle" => handler[h].req \in wanted
    /\ \A t \in Targets \cup Fresh : row[t].version \in Nat /\ row[t].revoked \in BOOLEAN
    /\ Len(order) = Cardinality(Clusters) /\ Elements(order) = Clusters
    /\ \A receipt \in receipts : receipt.id \in Targets \cup Fresh /\ receipt.version \in Nat \ {0}
    /\ \A r \in wanted : sent[r] = 0 => answers[r] = {}
    /\ asked \subseteq wanted /\ torn \subseteq Clusters

(* The changes recorded for request r. *)
ChangesOf(r) == {i \in DOMAIN audit : audit[i].req = r}

(* A key is used for one change: however often a request is sent, also at the
   same time and after a lost answer, and whatever else is sent under its key,
   at most one change is committed and audited for the scope of the key, and
   a test that was audited once has queued one intent. *)
KeyAppliedOnce ==
    /\ \A i, j \in DOMAIN audit :
          (Keyed(audit[i].req) /\ Keyed(audit[j].req) /\ Scope(audit[i].req) = Scope(audit[j].req))
              => i = j
    /\ \A t \in Targets :
          intents[t] = Cardinality({i \in DOMAIN audit : audit[i].id = t /\ audit[i].req.op = "test"})

(* What holds of requests, receipts and changes at any time, whatever is sent
   again, fails or overlaps. *)
AdministrationInv == TypeOK /\ KeyAppliedOnce

(* A success that was answered is a change that was committed, and every answer
   to one request, the replayed ones too, is the receipt of that change; a
   manual check that was answered so has asked the runtime. *)
ReceiptIsOfTheChange ==
    \A r \in wanted : \A a \in answers[r] :
        a.result = "ok" =>
            /\ \E i \in ChangesOf(r) : audit[i].id = a.id /\ audit[i].to = a.version
            /\ r.op = "check" => r \in asked

(* A request that was answered as stale, or its key as used for another one,
   has not been applied and never will be: the key is looked up before the
   version is compared, and a version never comes back.  A manual check and a
   cluster's update are excepted, which compare versions first or have no key. *)
RefusedIsNotApplied ==
    \A r \in wanted :
        (Keyed(r) /\ r.op # "check" /\ \E a \in answers[r] : a.result \in {"stale", "key_reused"})
            => ChangesOf(r) = {}

(* No update is lost: a window, silence, destination, monitor, cluster or
   integration is changed from the very version its administrator had read.  A
   rule is excepted: RuleService.mutate compares on a row it has not locked. *)
NoLostUpdate ==
    \A i \in DOMAIN audit :
        (audit[i].req.kind # "rule" /\ audit[i].req.op \notin {"create", "check"})
            => audit[i].seen = audit[i].from

(* A revoked window or silence stays as it is, and a row that changes gets a
   greater version, even if the wall clock is behind its updated_at: no stale
   ETag ever becomes current again. *)
VersionsMoveOn ==
    [][\A t \in DOMAIN row :
          row'[t] # row[t] => row'[t].version > row[t].version /\ ~ row[t].revoked]_vars

(* Between updates, a cluster is stored with a token that Proxmox accepted
   together with the stored configuration, unless an update failed after it
   had replaced the token. *)
StoredPairValidated ==
    \A t \in Clusters :
        \/ t \in torn
        \/ \E h \in Handlers : handler[h].pc = "commit" /\ t \in LockedRows(handler[h].req)
        \/ <<t, row[t].body, secret[t]>> \in validated
=============================================================================
