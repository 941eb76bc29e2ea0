----------------------- MODULE Administration_proofs -----------------------
(***************************************************************************)
(* Proofs about administrative changes: that a key is applied once, that   *)
(* answers are those of the change, that a refused request is not applied, *)
(* that no update is lost, that versions move on and that a cluster keeps  *)
(* a token its configuration was accepted with hold for any administrators, *)
(* requests, rows, handlers and readings of the clock.                     *)
(***************************************************************************)
EXTENDS Administration, FiniteSetTheorems, TLAPS

Requests == UNION Scenarios

Identifiers == Targets \cup Fresh

(* What rows, handlers, answers and audit events can be. *)
Bodies == {Unverified} \cup {r.body : r \in Requests}

Tokens == {Unverified} \cup {r.token : r \in Requests}

Rows == [version: Nat, body: Bodies, revoked: BOOLEAN]

Results == {"ok", "stale", "key_reused", "revoked", "invalid", "not_running"}

Replies == [result: Results, id: Identifiers \cup {None}, version: Nat]

Steps == {"idle", "look", "key", "row", "lock", "secret", "ask", "commit", "reply"}

States == [pc: Steps, req: Requests \cup {None}, listed: Seq(Clusters), token: Tokens \cup {None},
           reply: Replies \cup {None}]

Entries == [req: Requests, id: Identifiers, seen: Nat, from: Nat, to: Nat \ {0}]

(* A list of all the clusters. *)
Listed(list) == list \in Seq(Clusters) /\ Len(list) = Cardinality(Clusters) /\ Elements(list) = Clusters

Shapes ==
    /\ wanted \subseteq Requests
    /\ etag \in [wanted -> Nat] /\ sent \in [wanted -> 0 .. MaxSends]
    /\ handler \in [Handlers -> States]
    /\ row \in [Identifiers -> Rows]
    /\ Listed(order)
    /\ secret \in [Clusters -> Tokens \ {None}]
    /\ audit \in Seq(Entries)
    /\ intents \in [Targets -> Nat]
    /\ answers \in [wanted -> SUBSET Replies]
    /\ asked \subseteq wanted /\ torn \subseteq Clusters

-----------------------------------------------------------------------------
(* A request that was sent has its version: ETags are not read again. *)
Posted(r) == r \in wanted /\ sent[r] > 0 /\ (r.op # "create" => etag[r] # 0)

(* Requests that change a row they have locked for that. *)
Changes(r) == r.kind # "rule" /\ r.op \notin {"create", "check"}

HoldsKey(h) == handler[h].pc \in {"row", "ask", "commit"} /\ Keyed(handler[h].req)

HoldsRow(h) == handler[h].pc \in {"secret", "commit"}

UpdatesCluster(r) == r.kind = "cluster" /\ r.op = "replace"

(* Handler h has replaced the token of cluster t and has not committed. *)
Rotates(h, t) == handler[h].pc = "commit" /\ handler[h].req.token # None /\ handler[h].req.target = t

(* Request r has not been applied and cannot be any more: its key has the receipt
   of another request, or its version has passed and nobody compared it before. *)
NeverApplied(r) ==
    /\ ChangesOf(r) = {}
    /\ \/ \E receipt \in Stored(r) : receipt.hash # Hash(r)
       \/ /\ r.op # "create" /\ etag[r] < row[r.target].version
          /\ \A g \in Handlers : handler[g].req = r => handler[g].pc # "commit"

(* Answer a to request r says what happened. *)
Truthful(r, a) ==
    /\ a.result = "ok" =>
          /\ \E i \in ChangesOf(r) : audit[i].id = a.id /\ audit[i].to = a.version
          /\ r.op = "check" => r \in asked
    /\ a.result \in {"stale", "key_reused"} /\ Keyed(r) /\ r.op # "check" => NeverApplied(r)

(* Where a handler is tells what its request is, and what it has found. *)
PlaceSound(h) ==
    LET r == handler[h].req
        pc == handler[h].pc IN
    /\ pc # "idle" => Posted(r)
    /\ pc = "look" => r.op = "check" \/ UpdatesCluster(r)
    /\ pc \in {"key", "ask"} => Keyed(r)
    /\ pc = "row" => r.op \notin {"create", "check"}
    /\ pc = "ask" => r.op = "check"
    /\ pc = "lock" => r.op = "reorder"
    /\ pc = "secret" => r.token # None
    /\ pc = "commit" /\ r.op = "check" => r \in asked
    /\ pc = "reply" => handler[h].reply \in Replies /\ Truthful(r, handler[h].reply)
    /\ HoldsKey(h) => Stored(r) = {}
    /\ HoldsRow(h) /\ Changes(r) => row[r.target].version = etag[r] /\ ~ row[r.target].revoked
    /\ pc \in {"lock", "commit"} /\ r.op = "reorder" => Listed(handler[h].listed)
    /\ pc = "commit" /\ r.op = "reorder" => Neighbour(h) \in 1 .. Len(handler[h].listed)

(* The token a cluster's update was validated with is the stored one as long as the
   version is, unless it brings its own or a later one was left behind. *)
TokenSound(h) ==
    LET r == handler[h].req
        t == r.target IN
    /\ handler[h].token # None => UpdatesCluster(r)
    /\ handler[h].pc \in {"row", "secret", "commit"} /\ UpdatesCluster(r) =>
          /\ <<t, r.body, handler[h].token>> \in validated
          /\ r.token # None =>
                /\ handler[h].token = r.token
                /\ handler[h].pc = "commit" => secret[t] = r.token
          /\ r.token = None /\ row[t].version = etag[r] =>
                \/ handler[h].token = secret[t] \/ t \in torn
                \/ \E g \in Handlers \ {h} : Rotates(g, t)

(* The locks exclude one another. *)
Apart(g, h) ==
    g # h =>
        /\ HoldsKey(g) /\ HoldsKey(h) => Scope(handler[g].req) # Scope(handler[h].req)
        /\ HoldsRow(g) /\ HoldsRow(h) => LockedRows(handler[g].req) \cap LockedRows(handler[h].req) = {}

(* An audit event is of a request that was sent, and of the version it was sent
   for; a keyed one has left its receipt. *)
AuditSound(i) ==
    LET r == audit[i].req IN
    /\ Posted(r) /\ audit[i].seen = etag[r]
    /\ Keyed(r) => Stored(r) # {}
    /\ r.op = "check" => r \in asked
    /\ Changes(r) => audit[i].seen = audit[i].from
    /\ r.op # "create" => audit[i].id = r.target

(* A receipt is that of an audited change. *)
ReceiptSound(receipt) ==
    \E i \in DOMAIN audit :
        /\ Keyed(audit[i].req) /\ receipt.scope = Scope(audit[i].req) /\ receipt.hash = Hash(audit[i].req)
        /\ receipt.id = audit[i].id /\ receipt.version = audit[i].to

(* Rows exist, only windows and silences are revoked, and no ETag is ahead. *)
RowSound(t) ==
    /\ t \in Targets => row[t].version # 0
    /\ row[t].revoked => t \in Targets /\ Kind[t] \in {"window", "silence"}

ETagPast(r) == r.op # "create" => etag[r] <= row[r.target].version

AnswersSound(r) == answers[r] # {} => Posted(r) /\ \A a \in answers[r] : Truthful(r, a)

(* A cluster's token was accepted with its configuration, but for updates that
   failed or are under way after replacing it. *)
PairSound(t) ==
    t \in torn \/ <<t, row[t].body, secret[t]>> \in validated \/ \E h \in Handlers : Rotates(h, t)

(* The inductive invariant. *)
AdministrationInd ==
    /\ Shapes /\ KeyAppliedOnce
    /\ \A h \in Handlers : PlaceSound(h) /\ TokenSound(h)
    /\ \A g, h \in Handlers : Apart(g, h)
    /\ \A i \in DOMAIN audit : AuditSound(i)
    /\ \A receipt \in receipts : ReceiptSound(receipt)
    /\ \A t \in Identifiers : RowSound(t)
    /\ \A r \in wanted : ETagPast(r) /\ AnswersSound(r)
    /\ \A t \in Clusters : PairSound(t)
-----------------------------------------------------------------------------
(* What a request can be. *)
LEMMA RequestSound ==
    ASSUME NEW r \in Requests
    PROVE  /\ r # None
           /\ r.op \in {"create", "replace", "revoke", "test", "check", "reorder"}
           /\ r.op # "create" => r.target \in Targets /\ r.target \in Identifiers /\ Kind[r.target] = r.kind
           /\ r.op = "revoke" => r.kind \in {"window", "silence"}
           /\ r.op = "test" => r.kind = "destination"
           /\ r.op = "check" => r.kind = "monitor"
           /\ r.op = "reorder" => r.kind = "cluster" /\ r.target \in Clusters
           /\ r.kind = "cluster" => r.op \in {"replace", "reorder"} /\ r.target \in Clusters
           /\ UpdatesCluster(r) => r.target \in Clusters
           /\ r.token # None => UpdatesCluster(r)
<1>1. WellFormed(r)
  BY AdministrationAssumption DEF Requests
<1>2. /\ r # None
      /\ r.kind \in DOMAIN Operations /\ r.op \in Operations[r.kind]
      /\ r.op # "create" => r.target \in Targets /\ Kind[r.target] = r.kind
      /\ r.token # None => r.kind = "cluster" /\ r.op = "replace"
  BY <1>1 DEF WellFormed
<1>3. r.kind \in {"rule", "window", "silence", "destination", "monitor", "cluster", "integration"}
  BY <1>2 DEF Operations
<1>4. /\ r.kind \in {"rule", "integration"} => r.op \in {"create", "replace"}
      /\ r.kind \in {"window", "silence"} => r.op \in {"create", "replace", "revoke"}
      /\ r.kind = "destination" => r.op \in {"create", "replace", "test"}
      /\ r.kind = "monitor" => r.op \in {"create", "replace", "check"}
      /\ r.kind = "cluster" => r.op \in {"replace", "reorder"}
  BY <1>2 DEF Operations
<1>5. r.op # "create" /\ r.kind = "cluster" => r.target \in Clusters
  BY <1>2 DEF Clusters
<1> QED
  BY <1>2, <1>3, <1>4, <1>5 DEF UpdatesCluster, Identifiers

(* What a handler remembers has its type. *)
LEMMA StateTyped ==
    ASSUME Shapes, NEW h \in Handlers
    PROVE  /\ handler[h] \in States /\ handler[h].pc \in Steps /\ handler[h].req \in Requests \cup {None}
           /\ handler[h].listed \in Seq(Clusters) /\ handler[h].token \in Tokens \cup {None}
           /\ handler[h].reply \in Replies \cup {None}
<1>1. handler[h] \in States
  BY DEF Shapes
<1> QED
  BY <1>1 DEF States

(* Versions are numbers. *)
LEMMA VersionTyped ==
    ASSUME Shapes
    PROVE  /\ \A t \in Identifiers : row[t] \in Rows /\ row[t].version \in Nat
           /\ \A r \in wanted : etag[r] \in Nat /\ sent[r] \in Nat
<1>1. \A t \in Identifiers : row[t] \in Rows
  BY DEF Shapes
<1>2. \A v \in Rows : v.version \in Nat
  BY DEF Rows
<1>3. \A r \in wanted : etag[r] \in Nat
  BY DEF Shapes
<1>4. \A r \in wanted : sent[r] \in Nat
  BY AdministrationAssumption DEF Shapes
<1> QED
  BY <1>1, <1>2, <1>3, <1>4

(* A step that changes no row, receipt or audit event: what its handler knows, and
   the answers it gives, have to be looked at. *)
LEMMA QuietStep ==
    ASSUME AdministrationInd, Shapes', NEW h \in Handlers,
           UNCHANGED <<wanted, etag, row, order, receipts, audit, intents>>,
           \/ secret' = secret
           \/ \A t \in Clusters : secret'[t] # secret[t] =>
                 Rotates(h, t)' /\ \A g \in Handlers \ {h} : ~ Rotates(g, t),
           \A g \in Handlers \ {h} : handler'[g] = handler[g],
           \A r \in wanted : sent[r] > 0 => sent'[r] > 0,
           validated \subseteq validated', asked \subseteq asked', torn \subseteq torn',
           \A r \in wanted : \A a \in answers'[r] : a \in answers[r] \/ (Posted(r) /\ Truthful(r, a)),
           \A t \in Clusters : Rotates(h, t) => t \in torn',
           handler'[h].pc = "commit" =>
              \/ handler'[h].req.op \in {"create", "check"}
              \/ etag[handler'[h].req] = row[handler'[h].req.target].version,
           PlaceSound(h)', TokenSound(h)', \A g \in Handlers : Apart(g, h)' /\ Apart(h, g)'
    PROVE  AdministrationInd'
<1> USE AdministrationAssumption
<1>0. /\ Shapes /\ KeyAppliedOnce
      /\ \A g \in Handlers : PlaceSound(g) /\ TokenSound(g)
      /\ \A g, d \in Handlers : Apart(g, d)
      /\ \A i \in DOMAIN audit : AuditSound(i)
      /\ \A receipt \in receipts : ReceiptSound(receipt)
      /\ \A t \in Identifiers : RowSound(t)
      /\ \A r \in wanted : ETagPast(r) /\ AnswersSound(r)
      /\ \A t \in Clusters : PairSound(t)
  BY DEF AdministrationInd
<1>1. \A r : ChangesOf(r)' = ChangesOf(r) /\ Stored(r)' = Stored(r) /\ Hash(r)' = Hash(r)
  BY DEF ChangesOf, Stored, Hash, Scope
<1>2. \A r : Posted(r) => Posted(r)'
  BY DEF Posted
<1>3. ASSUME NEW r \in wanted, r.op # "check", NeverApplied(r) PROVE NeverApplied(r)'
  <2>1. CASE \E receipt \in Stored(r) : receipt.hash # Hash(r)
    BY <1>1, <1>3, <2>1 DEF NeverApplied
  <2>2. CASE /\ r.op # "create" /\ etag[r] < row[r.target].version
             /\ \A g \in Handlers : handler[g].req = r => handler[g].pc # "commit"
    <3>1. r \in Requests /\ etag[r] \in Nat
      BY <1>0, VersionTyped DEF Shapes
    <3>2. row[r.target].version \in Nat
      BY <1>0, <2>2, <3>1, RequestSound, VersionTyped
    <3>3. ~ (etag[r] = row[r.target].version)
      BY <2>2, <3>1, <3>2
    <3>4. ASSUME NEW g \in Handlers, handler'[g].req = r PROVE handler'[g].pc # "commit"
      <4>1. CASE g = h
        BY <1>3, <2>2, <3>3, <3>4, <4>1
      <4>2. CASE g # h
        BY <2>2, <3>4, <4>2
      <4> QED
        BY <4>1, <4>2
    <3> QED
      BY <1>1, <1>3, <2>2, <3>4 DEF NeverApplied
  <2> QED
    BY <1>3, <2>1, <2>2 DEF NeverApplied
<1>4. ASSUME NEW r \in wanted, NEW a, Truthful(r, a) PROVE Truthful(r, a)'
  BY <1>1, <1>3, <1>4 DEF Truthful, Keyed
<1>5. ASSUME NEW g \in Handlers \ {h} PROVE PlaceSound(g)'
  <2>1. PlaceSound(g) /\ handler'[g] = handler[g]
    BY <1>0
  <2>2. Neighbour(g)' = Neighbour(g)
    BY <2>1 DEF Neighbour, Place
  <2>3. handler[g].pc = "reply" => Truthful(handler[g].req, handler[g].reply)'
    <3>1. handler[g].pc = "reply" => handler[g].req \in wanted /\ Truthful(handler[g].req, handler[g].reply)
      BY <2>1 DEF PlaceSound, Posted
    <3> QED
      BY <1>4, <3>1
  <2> QED
    BY <1>1, <1>2, <2>1, <2>2, <2>3 DEF PlaceSound, UpdatesCluster, Keyed, HoldsKey, HoldsRow, Changes, Listed
<1>6. ASSUME NEW g \in Handlers \ {h} PROVE TokenSound(g)'
  <2>1. TokenSound(g) /\ handler'[g] = handler[g]
    BY <1>0
  <2>2. UpdatesCluster(handler[g].req) /\ handler[g].pc # "idle" => handler[g].req.target \in Clusters
    <3>1. handler[g].pc # "idle" => handler[g].req \in Requests
      BY <1>0 DEF PlaceSound, Posted, Shapes
    <3> QED
      BY <3>1, RequestSound
  <2>3. ASSUME NEW t \in Clusters, NEW d \in Handlers \ {g}, Rotates(d, t)
        PROVE  t \in torn' \/ \E e \in Handlers \ {g} : Rotates(e, t)'
    <3>1. CASE d = h
      BY <2>3, <3>1
    <3>2. CASE d # h
      BY <2>3, <3>2 DEF Rotates
    <3> QED
      BY <3>1, <3>2
  <2>4. PICK t : t = handler[g].req.target
    OBVIOUS
  <2>5. CASE t \in Clusters /\ secret'[t] # secret[t]
    <3>1. Rotates(h, t)' /\ ~ Rotates(g, t)
      BY <2>5
    <3> QED
      BY <2>1, <2>4, <3>1 DEF TokenSound, UpdatesCluster, Rotates
  <2>6. CASE ~ (t \in Clusters /\ secret'[t] # secret[t])
    BY <2>1, <2>2, <2>3, <2>4, <2>6 DEF TokenSound, UpdatesCluster
  <2> QED
    BY <2>5, <2>6
<1>7. ASSUME NEW g \in Handlers, NEW d \in Handlers PROVE Apart(g, d)'
  <2>1. CASE g = h \/ d = h
    BY <2>1
  <2>2. CASE g # h /\ d # h
    BY <1>0, <2>2 DEF Apart, HoldsKey, HoldsRow
  <2> QED
    BY <2>1, <2>2
<1>8. ASSUME NEW i \in DOMAIN audit' PROVE AuditSound(i)'
  BY <1>0, <1>1, <1>2 DEF AuditSound
<1>9. ASSUME NEW receipt \in receipts' PROVE ReceiptSound(receipt)'
  BY <1>0, <1>1 DEF ReceiptSound
<1>10. ASSUME NEW r \in wanted' PROVE ETagPast(r)' /\ AnswersSound(r)'
  <2>1. ETagPast(r)'
    BY <1>0 DEF ETagPast
  <2>2. ASSUME NEW a \in answers'[r] PROVE Posted(r) /\ Truthful(r, a)
    BY <1>0, <2>2 DEF AnswersSound
  <2> QED
    BY <1>2, <1>4, <2>1, <2>2 DEF AnswersSound
<1>11. ASSUME NEW t \in Clusters PROVE PairSound(t)'
  <2>1. PairSound(t)
    BY <1>0
  <2>2. ASSUME NEW d \in Handlers, Rotates(d, t) PROVE t \in torn' \/ Rotates(d, t)'
    <3>1. CASE d = h
      BY <2>2, <3>1
    <3>2. CASE d # h
      BY <2>2, <3>2 DEF Rotates
    <3> QED
      BY <3>1, <3>2
  <2>3. secret'[t] = secret[t] \/ Rotates(h, t)'
    OBVIOUS
  <2> QED
    BY <2>1, <2>2, <2>3 DEF PairSound
<1>12. KeyAppliedOnce' /\ \A t \in Identifiers : RowSound(t)'
  BY <1>0 DEF KeyAppliedOnce, RowSound
<1> QED
  BY <1>5, <1>6, <1>7, <1>8, <1>9, <1>10, <1>11, <1>12 DEF AdministrationInd
-----------------------------------------------------------------------------
(* Handlers other than h are where they were, and h has got to step p. *)
Moved(h, p) ==
    /\ handler' \in [Handlers -> States]
    /\ \A g \in Handlers \ {h} : handler'[g] = handler[g]
    /\ handler'[h].pc = p /\ handler'[h].req = handler[h].req

(* Goto moves one handler and leaves its request alone. *)
LEMMA GotoMoves ==
    ASSUME Shapes, NEW h \in Handlers, NEW p \in Steps, Goto(h, p)
    PROVE  /\ Moved(h, p)
           /\ handler'[h].listed = handler[h].listed /\ handler'[h].token = handler[h].token
<1>1. handler \in [Handlers -> States] /\ handler' = [handler EXCEPT ![h].pc = p]
  BY DEF Shapes, Goto
<1>2. handler'[h] = [handler[h] EXCEPT !.pc = p] /\ \A g \in Handlers \ {h} : handler'[g] = handler[g]
  BY <1>1
<1>3. \A s \in States : LET k == [s EXCEPT !.pc = p] IN
        k \in States /\ k.pc = p /\ k.req = s.req /\ k.listed = s.listed /\ k.token = s.token
  BY DEF States
<1>4. handler[h] \in States
  BY <1>1
<1>5. handler' \in [Handlers -> States]
  BY <1>1, <1>2, <1>3, <1>4
<1> QED
  BY <1>2, <1>3, <1>4, <1>5 DEF Moved

(* Reply moves one handler to its reply. *)
LEMMA ReplyMoves ==
    ASSUME Shapes, NEW h \in Handlers, NEW result \in Results, NEW id \in Identifiers \cup {None},
           NEW version \in Nat, Reply(h, result, id, version)
    PROVE  /\ Moved(h, "reply")
           /\ handler'[h].token = handler[h].token
           /\ handler'[h].reply \in Replies
           /\ handler'[h].reply.result = result /\ handler'[h].reply.id = id
           /\ handler'[h].reply.version = version
<1> DEFINE a == [result |-> result, id |-> id, version |-> version]
<1>0. a \in Replies /\ a.result = result /\ a.id = id /\ a.version = version
  BY DEF Replies
<1>1. handler \in [Handlers -> States] /\ handler' = [handler EXCEPT ![h].pc = "reply", ![h].reply = a]
  BY DEF Shapes, Reply
<1> HIDE DEF a
<1>2. handler'[h] = [handler[h] EXCEPT !.pc = "reply", !.reply = a]
      /\ \A g \in Handlers \ {h} : handler'[g] = handler[g]
  BY <1>1
<1>3. \A s \in States : LET k == [s EXCEPT !.pc = "reply", !.reply = a] IN
        k \in States /\ k.pc = "reply" /\ k.req = s.req /\ k.token = s.token /\ k.reply = a
  BY <1>0 DEF States, Steps
<1>4. handler[h] \in States
  BY <1>1
<1>5. handler' \in [Handlers -> States]
  BY <1>1, <1>2, <1>3, <1>4
<1> QED
  BY <1>0, <1>2, <1>3, <1>4, <1>5 DEF Moved

(* A request is answered without a change, by what is so. *)
LEMMA ReplyStep ==
    ASSUME AdministrationInd, NEW h \in Handlers, NEW result \in Results, NEW id \in Identifiers \cup {None},
           NEW version \in Nat, Reply(h, result, id, version), handler[h].pc \notin {"idle", "commit"},
           UNCHANGED <<wanted, etag, sent, tables, secret, asked, answers, validated, torn>>,
           \A a \in Replies : a.result = result /\ a.id = id /\ a.version = version => Truthful(handler[h].req, a)
    PROVE  AdministrationInd'
<1> USE AdministrationAssumption
<1> PICK r : r = handler[h].req
  OBVIOUS
<1>0. Shapes /\ PlaceSound(h) /\ TokenSound(h) /\ \A q \in wanted : AnswersSound(q)
  BY DEF AdministrationInd
<1>1. /\ Moved(h, "reply") /\ handler'[h].token = handler[h].token
      /\ handler'[h].reply \in Replies /\ handler'[h].reply.result = result
      /\ handler'[h].reply.id = id /\ handler'[h].reply.version = version
  BY <1>0, ReplyMoves
<1>2. UNCHANGED <<wanted, etag, sent, row, order, receipts, audit, intents, secret, asked, answers, validated, torn>>
  BY DEF tables
<1>3. /\ handler' \in [Handlers -> States] /\ \A g \in Handlers \ {h} : handler'[g] = handler[g]
      /\ handler'[h].pc = "reply" /\ handler'[h].req = r
  BY <1>1 DEF Moved
<1>4. Shapes'
  BY <1>0, <1>2, <1>3 DEF Shapes, Listed
<1>5. NeverApplied(r) => NeverApplied(r)'
  <2>1. ChangesOf(r)' = ChangesOf(r) /\ Stored(r)' = Stored(r) /\ Hash(r)' = Hash(r)
    BY <1>2 DEF ChangesOf, Stored, Hash, Scope
  <2>2. (\A g \in Handlers : handler[g].req = r => handler[g].pc # "commit")
          => (\A g \in Handlers : handler'[g].req = r => handler'[g].pc # "commit")
    BY <1>3
  <2> QED
    BY <1>2, <2>1, <2>2 DEF NeverApplied
<1>6. Truthful(handler[h].req, handler[h].reply)'
  <2>1. PICK a : a = handler'[h].reply
    OBVIOUS
  <2>2. Truthful(r, a)
    BY <1>1, <2>1
  <2>3. ChangesOf(r)' = ChangesOf(r)
    BY <1>2 DEF ChangesOf
  <2>4. Truthful(r, a)'
    BY <1>2, <1>5, <2>2, <2>3 DEF Truthful, Keyed
  <2> QED
    BY <1>3, <2>1, <2>4
<1>7. Posted(r)'
  BY <1>0, <1>2 DEF PlaceSound, Posted
<1>8. PlaceSound(h)'
  BY <1>1, <1>3, <1>6, <1>7 DEF PlaceSound, HoldsKey, HoldsRow
<1>9. TokenSound(h)'
  BY <1>0, <1>1, <1>3 DEF TokenSound, UpdatesCluster
<1>10. \A g \in Handlers : Apart(g, h)' /\ Apart(h, g)'
  BY <1>3 DEF Apart, HoldsKey, HoldsRow
<1>11. \A t \in Clusters : ~ Rotates(h, t)
  BY DEF Rotates
<1> QED
  BY <1>2, <1>3, <1>4, <1>8, <1>9, <1>10, <1>11, QuietStep

(* A request is refused: nothing is applied, and an answer is on its way. *)
LEMMA RefuseStep ==
    ASSUME AdministrationInd, NEW h \in Handlers, NEW result \in Results \ {"ok"}, Refuse(h, result),
           handler[h].pc \notin {"idle", "commit"},
           UNCHANGED <<wanted, etag, sent, tables, secret, asked, answers, validated, torn>>,
           result \in {"stale", "key_reused"} /\ Keyed(handler[h].req) /\ handler[h].req.op # "check"
              => NeverApplied(handler[h].req)
    PROVE  AdministrationInd'
<1>1. \A a \in Replies : a.result = result => Truthful(handler[h].req, a)
  BY DEF Truthful
<1>2. Reply(h, result, None, 0) /\ None \in Identifiers \cup {None} /\ 0 \in Nat /\ result \in Results
  BY DEF Refuse
<1> QED
  BY <1>1, <1>2, ReplyStep

(* A handler goes on to a step before the commit, holding no lock there. *)
LEMMA OnwardStep ==
    ASSUME AdministrationInd, Shapes', NEW h \in Handlers, NEW p \in Steps, Moved(h, p),
           handler[h].pc # "commit",
           UNCHANGED <<wanted, etag, sent, tables, secret, answers, torn>>,
           validated \subseteq validated', asked \subseteq asked',
           p = "commit" =>
              \/ handler[h].req.op \in {"create", "check"}
              \/ etag[handler[h].req] = row[handler[h].req.target].version,
           PlaceSound(h)', TokenSound(h)', \A g \in Handlers : Apart(g, h)' /\ Apart(h, g)'
    PROVE  AdministrationInd'
<1>1. UNCHANGED <<wanted, etag, sent, row, order, receipts, audit, intents, secret, answers, torn>>
  BY DEF tables
<1>2. /\ \A g \in Handlers \ {h} : handler'[g] = handler[g]
      /\ handler'[h].pc = p /\ handler'[h].req = handler[h].req
  BY DEF Moved
<1>3. \A t \in Clusters : ~ Rotates(h, t)
  BY DEF Rotates
<1> QED
  BY <1>1, <1>2, <1>3, QuietStep

(* A page is opened and its ETag read: nothing yet depends on it. *)
LEMMA ReadETagStep ==
    ASSUME AdministrationInd, NEW q \in wanted, ReadETag(q)
    PROVE  AdministrationInd'
<1> USE AdministrationAssumption
<1>0. /\ Shapes /\ KeyAppliedOnce
      /\ \A g \in Handlers : PlaceSound(g) /\ TokenSound(g)
      /\ \A g, d \in Handlers : Apart(g, d)
      /\ \A i \in DOMAIN audit : AuditSound(i)
      /\ \A receipt \in receipts : ReceiptSound(receipt)
      /\ \A t \in Identifiers : RowSound(t)
      /\ \A r \in wanted : ETagPast(r) /\ AnswersSound(r)
      /\ \A t \in Clusters : PairSound(t)
  BY DEF AdministrationInd
<1>1. UNCHANGED <<wanted, sent, handler, row, order, receipts, audit, intents, secret, asked, answers, validated, torn>>
  BY DEF ReadETag, tables
<1>2. q.op # "create" /\ etag[q] = 0 /\ etag' = [etag EXCEPT ![q] = row[q.target].version]
  BY DEF ReadETag
<1>3. q.target \in Identifiers /\ row[q.target].version \in Nat
  <2>1. q \in Requests
    BY <1>0 DEF Shapes
  <2> QED
    BY <1>0, <1>2, <2>1, RequestSound, VersionTyped
<1>4. etag' \in [wanted -> Nat] /\ etag'[q] = row[q.target].version /\ \A r \in wanted \ {q} : etag'[r] = etag[r]
  BY <1>0, <1>2, <1>3 DEF Shapes
<1>5. Shapes'
  BY <1>0, <1>1, <1>4 DEF Shapes, Listed
<1>6. ASSUME NEW r, Posted(r) PROVE Posted(r)' /\ etag'[r] = etag[r] /\ Hash(r)' = Hash(r)
  <2>1. r \in wanted \ {q}
    BY <1>2, <1>6 DEF Posted
  <2> QED
    BY <1>1, <1>4, <1>6, <2>1 DEF Posted, Hash
<1>7. \A r : ChangesOf(r)' = ChangesOf(r) /\ Stored(r)' = Stored(r)
  BY <1>1 DEF ChangesOf, Stored, Scope
<1>8. ASSUME NEW r, NEW a, Posted(r), Truthful(r, a) PROVE Truthful(r, a)'
  <2>1. NeverApplied(r) => NeverApplied(r)'
    BY <1>1, <1>6, <1>7, <1>8 DEF NeverApplied
  <2> QED
    BY <1>1, <1>7, <1>8, <2>1 DEF Truthful, Keyed
<1>9. ASSUME NEW g \in Handlers PROVE PlaceSound(g)' /\ TokenSound(g)'
  <2>1. PlaceSound(g) /\ TokenSound(g) /\ handler' = handler
    BY <1>0, <1>1
  <2>2. Neighbour(g)' = Neighbour(g)
    BY <2>1 DEF Neighbour, Place
  <2>3. handler[g].pc # "idle" =>
          LET r == handler[g].req IN Posted(r) /\ Posted(r)' /\ etag'[r] = etag[r]
    BY <1>6, <2>1 DEF PlaceSound
  <2>4. handler[g].pc = "reply" => Truthful(handler[g].req, handler[g].reply)'
    <3> PICK r, a : r = handler[g].req /\ a = handler[g].reply
      OBVIOUS
    <3>1. handler[g].pc = "reply" => Truthful(r, a)'
      BY <1>8, <2>1 DEF PlaceSound
    <3> QED
      BY <1>1, <3>1
  <2>5. PlaceSound(g)'
    BY <1>1, <1>7, <2>1, <2>2, <2>3, <2>4
       DEF PlaceSound, UpdatesCluster, Keyed, HoldsKey, HoldsRow, Changes, Listed
  <2>6. TokenSound(g)'
    BY <1>1, <2>1, <2>3 DEF TokenSound, UpdatesCluster, Rotates
  <2> QED
    BY <2>5, <2>6
<1>10. ASSUME NEW i \in DOMAIN audit' PROVE AuditSound(i)'
  <2>1. AuditSound(i) /\ audit' = audit
    BY <1>0, <1>1
  <2> QED
    BY <1>1, <1>6, <1>7, <2>1 DEF AuditSound, Keyed, Changes
<1>11. ASSUME NEW receipt \in receipts' PROVE ReceiptSound(receipt)'
  <2>1. ReceiptSound(receipt)
    BY <1>0, <1>1
  <2>2. \A i \in DOMAIN audit : Hash(audit[i].req)' = Hash(audit[i].req)
    <3> SUFFICES ASSUME NEW i \in DOMAIN audit PROVE Hash(audit[i].req)' = Hash(audit[i].req)
      OBVIOUS
    <3>1. PICK r : r = audit[i].req
      OBVIOUS
    <3>2. Posted(r)
      BY <1>0, <3>1 DEF AuditSound
    <3>3. Hash(r)' = Hash(r)
      BY <1>6, <3>2
    <3> QED
      BY <1>1, <3>1, <3>3 DEF Hash
  <2> QED
    BY <1>1, <2>1, <2>2 DEF ReceiptSound, Keyed, Scope
<1>12. ASSUME NEW r \in wanted' PROVE ETagPast(r)' /\ AnswersSound(r)'
  <2>1. ETagPast(r) /\ AnswersSound(r) /\ r \in wanted
    BY <1>0, <1>1
  <2>2. ETagPast(r)'
    BY <1>1, <1>3, <1>4, <2>1 DEF ETagPast
  <2>3. AnswersSound(r)'
    BY <1>1, <1>6, <1>8, <2>1 DEF AnswersSound
  <2> QED
    BY <2>2, <2>3
<1>13. /\ KeyAppliedOnce' /\ \A g, d \in Handlers : Apart(g, d)'
       /\ \A t \in Identifiers : RowSound(t)'
       /\ \A t \in Clusters : PairSound(t)'
  <2>1. KeyAppliedOnce'
    BY <1>0, <1>1 DEF KeyAppliedOnce, Keyed, Scope
  <2>2. \A g, d \in Handlers : Apart(g, d)'
    BY <1>0, <1>1 DEF Apart, HoldsKey, HoldsRow, Keyed, Scope, LockedRows
  <2>3. \A t \in Identifiers : RowSound(t)'
    BY <1>0, <1>1 DEF RowSound
  <2>4. \A t \in Clusters : PairSound(t)'
    BY <1>0, <1>1 DEF PairSound, Rotates
  <2> QED
    BY <2>1, <2>2, <2>3, <2>4
<1> QED
  BY <1>5, <1>9, <1>10, <1>11, <1>12, <1>13 DEF AdministrationInd

(* A request is sent. *)
LEMMA SendStep ==
    ASSUME AdministrationInd, NEW h \in Handlers, NEW r \in wanted, Send(h, r)
    PROVE  AdministrationInd'
<1> USE AdministrationAssumption
<1>0. Shapes /\ PlaceSound(h) /\ r \in Requests
  BY DEF AdministrationInd, Shapes
<1>1. UNCHANGED <<wanted, etag, row, order, receipts, audit, intents, secret, asked, answers, validated, torn>>
  BY DEF Send, tables
<1>2. /\ handler[h].pc = "idle" /\ sent[r] < MaxSends /\ (r.op # "create" => etag[r] # 0)
      /\ sent' = [sent EXCEPT ![r] = @ + 1]
      /\ handler' = [handler EXCEPT ![h] = [Idle EXCEPT !.pc = FirstStep(r), !.req = r]]
  BY DEF Send, At
<1>3. FirstStep(r) \in Steps /\ FirstStep(r) \in {"look", "key", "row", "commit"}
  BY DEF FirstStep, Steps
<1>4. LET k == [Idle EXCEPT !.pc = FirstStep(r), !.req = r] IN
        k \in States /\ k.pc = FirstStep(r) /\ k.req = r /\ k.token = None
  <2>1. <<>> \in Seq(Clusters)
    OBVIOUS
  <2> QED
    BY <1>0, <1>3, <2>1 DEF Idle, States
<1>5. /\ handler' \in [Handlers -> States] /\ \A g \in Handlers \ {h} : handler'[g] = handler[g]
      /\ handler'[h].pc = FirstStep(r) /\ handler'[h].req = r /\ handler'[h].token = None
  <2> DEFINE k == [Idle EXCEPT !.pc = FirstStep(r), !.req = r]
  <2>1. handler \in [Handlers -> States] /\ handler' = [handler EXCEPT ![h] = k] /\ k \in States
    BY <1>0, <1>2, <1>4 DEF Shapes
  <2>2. k.pc = FirstStep(r) /\ k.req = r /\ k.token = None
    BY <1>4
  <2> HIDE DEF k
  <2> QED
    BY <2>1, <2>2
<1>6. sent' \in [wanted -> 0 .. MaxSends] /\ sent'[r] > 0 /\ \A q \in wanted : sent[q] > 0 => sent'[q] > 0
  <2>1. sent[r] \in 0 .. MaxSends /\ sent \in [wanted -> 0 .. MaxSends] /\ MaxSends \in Nat
    BY <1>0 DEF Shapes
  <2>2. sent[r] + 1 \in 0 .. MaxSends /\ sent[r] + 1 > 0
    BY <1>2, <2>1
  <2> QED
    BY <1>2, <2>1, <2>2
<1>7. Shapes'
  BY <1>0, <1>1, <1>5, <1>6 DEF Shapes, Listed
<1>8. /\ FirstStep(r) = "look" => r.op = "check" \/ UpdatesCluster(r)
      /\ FirstStep(r) = "key" => Keyed(r)
      /\ FirstStep(r) = "row" => r.op \notin {"create", "check"} /\ ~ UpdatesCluster(r) /\ ~ Keyed(r)
      /\ FirstStep(r) = "commit" => r.op = "create" /\ ~ Keyed(r)
  BY DEF FirstStep, UpdatesCluster
<1>9. Keyed(r)' = Keyed(r) /\ UpdatesCluster(r)' = UpdatesCluster(r) /\ Posted(r)'
  BY <1>1, <1>2, <1>6 DEF Keyed, UpdatesCluster, Posted
<1>10. PlaceSound(h)'
  BY <1>3, <1>5, <1>8, <1>9 DEF PlaceSound, HoldsKey, HoldsRow, Changes
<1>11. TokenSound(h)'
  <2>1. r.op = "create" => ~ UpdatesCluster(r)
    BY DEF UpdatesCluster
  <2> QED
    BY <1>3, <1>5, <1>8, <1>9, <2>1 DEF TokenSound
<1>12. \A g \in Handlers : Apart(g, h)' /\ Apart(h, g)'
  <2>1. ~ HoldsKey(h)'
    BY <1>3, <1>5, <1>8, <1>9 DEF HoldsKey
  <2>2. HoldsRow(h)' => LockedRows(handler[h].req)' = {}
    BY <1>3, <1>5, <1>8 DEF HoldsRow, LockedRows
  <2> QED
    BY <2>1, <2>2 DEF Apart
<1>13. /\ \A t \in Clusters : ~ Rotates(h, t)
       /\ handler'[h].pc = "commit" => handler'[h].req.op \in {"create", "check"}
  BY <1>2, <1>5, <1>8 DEF Rotates
<1> QED
  BY <1>1, <1>5, <1>6, <1>7, <1>10, <1>11, <1>12, <1>13, QuietStep

(* The manual check of a monitor looks at the row. *)
LEMMA LookMonitorStep ==
    ASSUME AdministrationInd, NEW h \in Handlers, LookMonitor(h)
    PROVE  AdministrationInd'
<1> USE AdministrationAssumption
<1> PICK r : r = handler[h].req
  OBVIOUS
<1>0. Shapes /\ PlaceSound(h) /\ TokenSound(h)
  BY DEF AdministrationInd
<1>1. UNCHANGED <<wanted, etag, sent, tables, secret, asked, answers, validated, torn>>
  BY DEF LookMonitor
<1>2. handler[h].pc = "look" /\ r.op = "check"
  BY DEF LookMonitor, At
<1>3. Posted(r) /\ r \in Requests
  BY <1>0, <1>2 DEF PlaceSound, Posted, Shapes
<1>4. CASE Refuse(h, "stale")
  BY <1>1, <1>2, <1>4, RefuseStep DEF Results
<1>5. CASE Refuse(h, "not_running")
  BY <1>1, <1>2, <1>5, RefuseStep DEF Results
<1>6. CASE Goto(h, "key")
  <2>1. Moved(h, "key") /\ handler'[h].token = handler[h].token
    BY <1>0, <1>6, GotoMoves DEF Steps
  <2>2. /\ handler' \in [Handlers -> States] /\ handler'[h].pc = "key" /\ handler'[h].req = r
    BY <2>1 DEF Moved
  <2>3. UNCHANGED <<wanted, etag, sent, row, order, receipts, audit, intents>>
    BY <1>1 DEF tables
  <2>4. Shapes'
    BY <1>0, <1>1, <2>2, <2>3 DEF Shapes, Listed
  <2>5. Posted(r)' /\ Keyed(r)' /\ ~ UpdatesCluster(r)
    BY <1>2, <1>3, <2>3, RequestSound DEF Posted, Keyed, UpdatesCluster
  <2>6. PlaceSound(h)'
    BY <2>2, <2>5 DEF PlaceSound, HoldsKey, HoldsRow
  <2>7. TokenSound(h)'
    BY <1>0, <2>1, <2>2 DEF TokenSound, UpdatesCluster
  <2>8. \A g \in Handlers : Apart(g, h)' /\ Apart(h, g)'
    BY <2>2 DEF Apart, HoldsKey, HoldsRow
  <2> QED
    BY <1>1, <1>2, <2>1, <2>4, <2>6, <2>7, <2>8, OnwardStep DEF Steps
<1> QED
  BY <1>4, <1>5, <1>6 DEF LookMonitor

(* The update of a cluster looks at the row, and its configuration is validated. *)
LEMMA LookClusterStep ==
    ASSUME AdministrationInd, NEW h \in Handlers, LookCluster(h)
    PROVE  AdministrationInd'
<1> USE AdministrationAssumption
<1> PICK r : r = handler[h].req
  OBVIOUS
<1>0. Shapes /\ PlaceSound(h) /\ TokenSound(h)
  BY DEF AdministrationInd
<1>1. UNCHANGED <<wanted, etag, sent, tables, secret, asked, answers, torn>>
  BY DEF LookCluster
<1>2. handler[h].pc = "look" /\ r.op = "replace"
  BY DEF LookCluster, At
<1>3. Posted(r) /\ r \in Requests /\ UpdatesCluster(r)
  BY <1>0, <1>2 DEF PlaceSound, Posted, Shapes
<1>4. CASE Refuse(h, "stale") /\ UNCHANGED validated
  <2>1. ~ Keyed(r)
    BY <1>3 DEF Keyed, UpdatesCluster
  <2> QED
    BY <1>1, <1>2, <1>4, <2>1, RefuseStep DEF Results
<1>5. PICK token : token = IF r.token = None THEN secret[r.target] ELSE r.token
  OBVIOUS
<1>6. CASE /\ handler' = [handler EXCEPT ![h].pc = "row", ![h].token = token]
           /\ validated' = validated \cup {<<r.target, r.body, token>>}
  <2>1. token \in Tokens
    BY <1>0, <1>3, <1>5, RequestSound DEF Shapes, Tokens
  <2>2. \A s \in States : LET k == [s EXCEPT !.pc = "row", !.token = token] IN
          k \in States /\ k.pc = "row" /\ k.req = s.req /\ k.token = token
    BY <2>1 DEF States, Steps
  <2>3. handler \in [Handlers -> States] /\ handler[h] \in States
    BY <1>0 DEF Shapes
  <2>4. /\ handler'[h] = [handler[h] EXCEPT !.pc = "row", !.token = token]
        /\ \A g \in Handlers \ {h} : handler'[g] = handler[g]
    BY <1>6, <2>3
  <2>5. handler' \in [Handlers -> States]
    BY <1>6, <2>2, <2>3, <2>4
  <2>6. handler'[h].pc = "row" /\ handler'[h].req = r /\ handler'[h].token = token /\ Moved(h, "row")
    BY <2>2, <2>3, <2>4, <2>5 DEF Moved
  <2>7. UNCHANGED <<wanted, etag, sent, row, order, receipts, audit, intents>>
    BY <1>1 DEF tables
  <2>8. Shapes'
    BY <1>0, <1>1, <2>5, <2>7 DEF Shapes, Listed
  <2>9. Posted(r)' /\ ~ Keyed(r)' /\ r.op \notin {"create", "check"}
    BY <1>2, <1>3, <2>7 DEF Posted, Keyed, UpdatesCluster
  <2>10. PlaceSound(h)'
    BY <2>6, <2>9 DEF PlaceSound, HoldsKey, HoldsRow
  <2>11. TokenSound(h)'
    <3>1. <<r.target, r.body, token>> \in validated' /\ secret' = secret
      BY <1>1, <1>6
    <3>2. r.token # None => token = r.token
      BY <1>5
    <3>3. r.token = None => token = secret'[r.target]
      BY <1>5, <3>1
    <3> QED
      BY <1>3, <2>6, <3>1, <3>2, <3>3 DEF TokenSound, UpdatesCluster
  <2>12. \A g \in Handlers : Apart(g, h)' /\ Apart(h, g)'
    <3>1. ~ HoldsKey(h)' /\ ~ HoldsRow(h)'
      BY <2>6, <2>9 DEF HoldsKey, HoldsRow
    <3> QED
      BY <3>1 DEF Apart
  <2>13. validated \subseteq validated' /\ asked \subseteq asked'
    BY <1>1, <1>6
  <2> QED
    BY <1>1, <1>2, <2>6, <2>8, <2>10, <2>11, <2>12, <2>13, OnwardStep DEF Steps
<1> QED
  BY <1>4, <1>5, <1>6 DEF LookCluster

(* The hash and the scope of a receipt tell requests apart that have a key. *)
LEMMA SameRequest ==
    ASSUME NEW q \in Requests, NEW r \in Requests, Keyed(q), Keyed(r), Scope(q) = Scope(r), Hash(q) = Hash(r)
    PROVE  q = r
<1>1. /\ q = [actor |-> q.actor, op |-> q.op, target |-> q.target, kind |-> q.kind, key |-> q.key,
              body |-> q.body, token |-> q.token]
      /\ r = [actor |-> r.actor, op |-> r.op, target |-> r.target, kind |-> r.kind, key |-> r.key,
              body |-> r.body, token |-> r.token]
  <2>1. WellFormed(q) /\ WellFormed(r)
    BY AdministrationAssumption DEF Requests
  <2> QED
    BY <2>1 DEF WellFormed
<1>2. q.token = None /\ r.token = None
  BY RequestSound DEF Keyed, UpdatesCluster
<1>3. q.actor = r.actor /\ q.kind = r.kind /\ q.op = r.op /\ q.key = r.key
  BY DEF Scope
<1>4. q.target = r.target /\ q.body = r.body
  BY DEF Hash
<1> QED
  BY <1>1, <1>2, <1>3, <1>4

(* The key is locked and its receipt looked up. *)
LEMMA ReplayStep ==
    ASSUME AdministrationInd, NEW h \in Handlers, Replay(h)
    PROVE  AdministrationInd'
<1> USE AdministrationAssumption
<1> PICK r : r = handler[h].req
  OBVIOUS
<1>0. /\ Shapes /\ KeyAppliedOnce /\ PlaceSound(h) /\ TokenSound(h)
      /\ \A i \in DOMAIN audit : AuditSound(i)
      /\ \A receipt \in receipts : ReceiptSound(receipt)
  BY DEF AdministrationInd
<1>1. UNCHANGED <<wanted, etag, sent, tables, secret, asked, answers, validated, torn>>
  BY DEF Replay
<1>2. handler[h].pc = "key" /\ KeyFree(h, r)
  BY DEF Replay, At
<1>3. Posted(r) /\ r \in Requests /\ Keyed(r) /\ ~ UpdatesCluster(r)
  BY <1>0, <1>2 DEF PlaceSound, Posted, Shapes, Keyed, UpdatesCluster
<1>4. CASE Stored(r) = {} /\ Goto(h, AfterReplay(r))
  <2> PICK p : p = AfterReplay(r)
    OBVIOUS
  <2>1. /\ p \in Steps /\ p \in {"commit", "ask", "row"}
        /\ p = "commit" => r.op = "create"
        /\ p = "ask" => r.op = "check"
        /\ p = "row" => r.op \notin {"create", "check"}
    BY DEF AfterReplay, Steps
  <2>2. Moved(h, p) /\ handler'[h].token = handler[h].token
    BY <1>0, <1>4, <2>1, GotoMoves
  <2>3. /\ handler' \in [Handlers -> States] /\ handler'[h].pc = p /\ handler'[h].req = r
        /\ \A g \in Handlers \ {h} : handler'[g] = handler[g]
    BY <2>2 DEF Moved
  <2>4. UNCHANGED <<wanted, etag, sent, row, order, receipts, audit, intents>>
    BY <1>1 DEF tables
  <2>5. Shapes'
    BY <1>0, <1>1, <2>3, <2>4 DEF Shapes, Listed
  <2>6. Posted(r)' /\ Keyed(r)' /\ Stored(r)' = {}
    BY <1>3, <1>4, <2>4 DEF Posted, Keyed, Stored, Scope
  <2>7. PlaceSound(h)'
    BY <2>1, <2>3, <2>6 DEF PlaceSound, HoldsKey, HoldsRow, Changes
  <2>8. TokenSound(h)'
    BY <1>0, <1>3, <2>2, <2>3 DEF TokenSound, UpdatesCluster
  <2>9. \A g \in Handlers : Apart(g, h)' /\ Apart(h, g)'
    <3>1. HoldsRow(h)' => LockedRows(handler[h].req)' = {}
      BY <2>1, <2>3 DEF HoldsRow, LockedRows
    <3>2. ASSUME NEW g \in Handlers \ {h} PROVE HoldsKey(g)' => Scope(handler[g].req)' # Scope(handler[h].req)'
      BY <1>2, <2>3 DEF KeyFree, HoldsKey, Keyed, Scope
    <3> QED
      BY <3>1, <3>2 DEF Apart
  <2> QED
    BY <1>1, <1>2, <2>1, <2>2, <2>5, <2>7, <2>8, <2>9, OnwardStep
<1>5. ASSUME NEW receipt \in Stored(r), receipt.hash = Hash(r), Reply(h, "ok", receipt.id, receipt.version)
      PROVE  AdministrationInd'
  <2>1. receipt \in receipts /\ receipt.scope = Scope(r)
    BY DEF Stored
  <2>2. PICK i \in DOMAIN audit :
          /\ Keyed(audit[i].req) /\ receipt.scope = Scope(audit[i].req) /\ receipt.hash = Hash(audit[i].req)
          /\ receipt.id = audit[i].id /\ receipt.version = audit[i].to
    BY <1>0, <2>1 DEF ReceiptSound
  <2>3. audit[i] \in Entries
    BY <1>0 DEF Shapes
  <2>4. audit[i].req \in Requests /\ audit[i].id \in Identifiers /\ audit[i].to \in Nat
    BY <2>3 DEF Entries
  <2>5. audit[i].req = r
    BY <1>3, <1>5, <2>1, <2>2, <2>4, SameRequest
  <2>6. r.op = "check" => r \in asked
    BY <1>0, <2>5 DEF AuditSound
  <2>7. i \in ChangesOf(r)
    BY <2>5 DEF ChangesOf
  <2>8. \A a \in Replies : a.result = "ok" /\ a.id = receipt.id /\ a.version = receipt.version => Truthful(r, a)
    BY <2>2, <2>6, <2>7 DEF Truthful
  <2> QED
    BY <1>1, <1>2, <1>5, <2>2, <2>4, <2>8, ReplyStep DEF Results
<1>6. ASSUME NEW receipt \in Stored(r), receipt.hash # Hash(r), Refuse(h, "key_reused")
      PROVE  AdministrationInd'
  <2>1. receipt \in receipts /\ receipt.scope = Scope(r)
    BY DEF Stored
  <2>2. PICK i \in DOMAIN audit :
          Keyed(audit[i].req) /\ receipt.scope = Scope(audit[i].req) /\ receipt.hash = Hash(audit[i].req)
    BY <1>0, <2>1 DEF ReceiptSound
  <2>3. ASSUME NEW j \in ChangesOf(r) PROVE FALSE
    <3>1. j \in DOMAIN audit /\ audit[j].req = r
      BY DEF ChangesOf
    <3>2. i = j
      BY <1>0, <1>3, <2>1, <2>2, <3>1 DEF KeyAppliedOnce
    <3> QED
      BY <1>6, <2>2, <3>1, <3>2
  <2>4. NeverApplied(r)
    BY <1>6, <2>3 DEF NeverApplied
  <2> QED
    BY <1>1, <1>2, <1>6, <2>4, RefuseStep DEF Results
<1> QED
  BY <1>4, <1>5, <1>6 DEF Replay

(* The row is read, and locked unless it is a rule. *)
LEMMA ReadRowStep ==
    ASSUME AdministrationInd, NEW h \in Handlers, ReadRow(h)
    PROVE  AdministrationInd'
<1> USE AdministrationAssumption
<1> PICK r : r = handler[h].req
  OBVIOUS
<1>0. /\ Shapes /\ PlaceSound(h) /\ TokenSound(h)
      /\ \A g \in Handlers : Apart(g, h) /\ Apart(h, g)
      /\ \A i \in DOMAIN audit : AuditSound(i)
      /\ \A q \in wanted : ETagPast(q)
  BY DEF AdministrationInd
<1>1. UNCHANGED <<wanted, etag, sent, tables, secret, asked, answers, validated, torn>>
  BY DEF ReadRow
<1>2. handler[h].pc = "row" /\ r.op # "reorder" /\ (r.kind # "rule" => RowFree(h, r.target))
  BY DEF ReadRow, At
<1>3. Posted(r) /\ r \in wanted /\ r \in Requests /\ r.op \notin {"create", "check"}
  BY <1>0, <1>2 DEF PlaceSound, Posted, Shapes
<1>4. Keyed(r) => Stored(r) = {}
  BY <1>0, <1>2 DEF PlaceSound, HoldsKey
<1>5. CASE Outdated(r) /\ Refuse(h, "stale")
  <2>1. ASSUME Keyed(r) PROVE NeverApplied(r)
    <3>1. ChangesOf(r) = {}
      BY <1>0, <1>4, <2>1 DEF ChangesOf, AuditSound
    <3>2. etag[r] < row[r.target].version
      <4>1. etag[r] \in Nat /\ row[r.target].version \in Nat
        BY <1>0, <1>3, RequestSound, VersionTyped
      <4>2. etag[r] <= row[r.target].version /\ row[r.target].version # etag[r]
        BY <1>0, <1>3, <1>5 DEF ETagPast, Outdated
      <4> QED
        BY <4>1, <4>2
    <3>3. ASSUME NEW g \in Handlers, handler[g].req = r PROVE handler[g].pc # "commit"
      BY <1>0, <1>2, <2>1, <3>3 DEF Apart, HoldsKey
    <3> QED
      BY <1>3, <3>1, <3>2, <3>3 DEF NeverApplied
  <2> QED
    BY <1>1, <1>2, <1>5, <2>1, RefuseStep DEF Results
<1>6. CASE Refuse(h, "revoked")
  BY <1>1, <1>2, <1>6, RefuseStep DEF Results
<1>7. PICK p : p = IF handler[h].token # None /\ r.token # None THEN "secret" ELSE "commit"
  OBVIOUS
<1>8. CASE ~ Outdated(r) /\ ~ row[r.target].revoked /\ Goto(h, p)
  <2>1. /\ p \in Steps /\ p \in {"secret", "commit"}
        /\ p = "secret" => r.token # None
        /\ p = "commit" => r.token = None \/ handler[h].token = None
    BY <1>7 DEF Steps
  <2>2. Moved(h, p) /\ handler'[h].token = handler[h].token
    BY <1>0, <1>8, <2>1, GotoMoves
  <2>3. /\ handler' \in [Handlers -> States] /\ handler'[h].pc = p /\ handler'[h].req = r
        /\ \A g \in Handlers \ {h} : handler'[g] = handler[g]
    BY <2>2 DEF Moved
  <2>4. UNCHANGED <<wanted, etag, sent, row, order, receipts, audit, intents, secret, validated, torn>>
    BY <1>1 DEF tables
  <2>5. Shapes'
    BY <1>0, <1>1, <2>3, <2>4 DEF Shapes, Listed
  <2>6. Posted(r)' /\ (Keyed(r) => Stored(r)' = {})
    BY <1>3, <1>4, <2>4 DEF Posted, Stored, Scope
  <2>7. row'[r.target].version = etag'[r] /\ ~ row'[r.target].revoked
    BY <1>8, <2>4 DEF Outdated
  <2>8. PlaceSound(h)'
    BY <1>2, <1>3, <2>1, <2>3, <2>6, <2>7 DEF PlaceSound, HoldsKey, HoldsRow, Changes, Keyed
  <2>9. TokenSound(h)'
    <3>1. TokenSound(h) /\ handler[h].req = r /\ handler[h].pc = "row"
      BY <1>0, <1>2
    <3>2. \A g \in Handlers \ {h} : Rotates(g, r.target)' = Rotates(g, r.target)
      BY <2>3 DEF Rotates
    <3> QED
      BY <2>1, <2>2, <2>3, <2>4, <3>1, <3>2 DEF TokenSound, UpdatesCluster
  <2>10. \A g \in Handlers : Apart(g, h)' /\ Apart(h, g)'
    <3>1. ASSUME NEW g \in Handlers \ {h}
          PROVE  HoldsRow(g)' => LockedRows(handler[g].req)' \cap LockedRows(handler[h].req)' = {}
      <4>1. LockedRows(r) = IF r.kind = "rule" THEN {} ELSE {r.target}
        BY <1>2, <1>3 DEF LockedRows
      <4>2. r.kind # "rule" /\ HoldsRow(g)' => r.target \notin LockedRows(handler[g].req)
        BY <1>2, <2>3 DEF RowFree, HoldsRow
      <4>3. LockedRows(handler[g].req)' = LockedRows(handler[g].req) /\ LockedRows(handler[h].req)' = LockedRows(r)
        BY <2>3 DEF LockedRows
      <4> QED
        BY <4>1, <4>2, <4>3
    <3>2. ASSUME NEW g \in Handlers \ {h}
          PROVE  HoldsKey(g)' /\ HoldsKey(h)' => Scope(handler[g].req)' # Scope(handler[h].req)'
      <4>1. Apart(g, h) /\ handler'[g] = handler[g]
        BY <1>0, <2>3
      <4>2. HoldsKey(h)' => HoldsKey(h)
        BY <1>2, <2>3 DEF HoldsKey, Keyed
      <4> QED
        BY <2>3, <4>1, <4>2 DEF Apart, HoldsKey, Keyed, Scope
    <3> QED
      BY <3>1, <3>2 DEF Apart
  <2>11. etag[r] = row[r.target].version
    BY <1>8 DEF Outdated
  <2> QED
    BY <1>1, <1>2, <2>1, <2>2, <2>5, <2>8, <2>9, <2>10, <2>11, OnwardStep
<1> QED
  BY <1>5, <1>6, <1>7, <1>8 DEF ReadRow

(* A move lists the clusters in their order. *)
LEMMA ListStep ==
    ASSUME AdministrationInd, NEW h \in Handlers, ListClusters(h)
    PROVE  AdministrationInd'
<1> USE AdministrationAssumption
<1> PICK r : r = handler[h].req
  OBVIOUS
<1>0. Shapes /\ PlaceSound(h) /\ TokenSound(h)
  BY DEF AdministrationInd
<1>1. UNCHANGED <<wanted, etag, sent, tables, secret, asked, answers, validated, torn>>
  BY DEF ListClusters
<1>2. /\ handler[h].pc = "row" /\ r.op = "reorder"
      /\ handler' = [handler EXCEPT ![h].pc = "lock", ![h].listed = order]
  BY DEF ListClusters, At
<1>3. handler \in [Handlers -> States] /\ handler[h] \in States /\ Listed(order) /\ order \in Seq(Clusters)
  BY <1>0 DEF Shapes, Listed
<1>4. \A s \in States : LET k == [s EXCEPT !.pc = "lock", !.listed = order] IN
        k \in States /\ k.pc = "lock" /\ k.req = s.req /\ k.token = s.token /\ k.listed = order
  BY <1>3 DEF States, Steps
<1>5. /\ handler'[h] = [handler[h] EXCEPT !.pc = "lock", !.listed = order]
      /\ \A g \in Handlers \ {h} : handler'[g] = handler[g]
  BY <1>2, <1>3
<1>6. handler' \in [Handlers -> States]
  BY <1>2, <1>3, <1>4, <1>5
<1>7. /\ handler'[h].pc = "lock" /\ handler'[h].req = r /\ handler'[h].token = handler[h].token
      /\ handler'[h].listed = order
  BY <1>3, <1>4, <1>5
<1>8. Moved(h, "lock")
  BY <1>5, <1>6, <1>7 DEF Moved
<1>9. UNCHANGED <<wanted, etag, sent, row, order, receipts, audit, intents>>
  BY <1>1 DEF tables
<1>10. Shapes'
  BY <1>0, <1>1, <1>6, <1>9 DEF Shapes, Listed
<1>11. Posted(r)' /\ r.op = "reorder"
  BY <1>0, <1>2, <1>9 DEF PlaceSound, Posted
<1>12. Listed(handler[h].listed)'
  BY <1>3, <1>7 DEF Listed
<1>13. PlaceSound(h)'
  BY <1>7, <1>11, <1>12 DEF PlaceSound, HoldsKey, HoldsRow
<1>14. TokenSound(h)'
  BY <1>0, <1>7 DEF TokenSound, UpdatesCluster
<1>15. \A g \in Handlers : Apart(g, h)' /\ Apart(h, g)'
  BY <1>7 DEF Apart, HoldsKey, HoldsRow
<1> QED
  BY <1>1, <1>2, <1>8, <1>10, <1>13, <1>14, <1>15, OnwardStep DEF Steps

(* It then locks them all. *)
LEMMA LockStep ==
    ASSUME AdministrationInd, NEW h \in Handlers, LockClusters(h)
    PROVE  AdministrationInd'
<1> USE AdministrationAssumption
<1> PICK r : r = handler[h].req
  OBVIOUS
<1>0. /\ Shapes /\ PlaceSound(h) /\ TokenSound(h)
      /\ \A t \in Identifiers : RowSound(t)
  BY DEF AdministrationInd
<1>1. UNCHANGED <<wanted, etag, sent, tables, secret, asked, answers, validated, torn>>
  BY DEF LockClusters
<1>2. handler[h].pc = "lock" /\ \A t \in Clusters : RowFree(h, t)
  BY DEF LockClusters, At
<1>3. Posted(r) /\ r \in Requests /\ r.op = "reorder" /\ Listed(handler[h].listed)
  BY <1>0, <1>2 DEF PlaceSound, Posted, Shapes
<1>4. r.kind = "cluster" /\ r.target \in Clusters /\ r.target \in Identifiers /\ ~ Keyed(r) /\ ~ UpdatesCluster(r)
  BY <1>3, RequestSound DEF Keyed, UpdatesCluster
<1>5. CASE Refuse(h, "stale")
  BY <1>1, <1>2, <1>4, <1>5, RefuseStep DEF Results
<1>6. CASE Refuse(h, "invalid")
  BY <1>1, <1>2, <1>4, <1>6, RefuseStep DEF Results
<1>7. CASE ~ Outdated(r) /\ Neighbour(h) \in 1 .. Len(order) /\ Goto(h, "commit")
  <2>1. /\ Moved(h, "commit") /\ handler'[h].token = handler[h].token
        /\ handler'[h].listed = handler[h].listed
    BY <1>0, <1>7, GotoMoves DEF Steps
  <2>2. /\ handler' \in [Handlers -> States] /\ handler'[h].pc = "commit" /\ handler'[h].req = r
        /\ \A g \in Handlers \ {h} : handler'[g] = handler[g]
    BY <2>1 DEF Moved
  <2>3. UNCHANGED <<wanted, etag, sent, row, order, receipts, audit, intents>>
    BY <1>1 DEF tables
  <2>4. Shapes'
    BY <1>0, <1>1, <2>2, <2>3 DEF Shapes, Listed
  <2>5. Posted(r)'
    BY <1>3, <2>3 DEF Posted
  <2>6. row'[r.target].version = etag'[r] /\ ~ row'[r.target].revoked
    <3>1. Kind[r.target] = "cluster"
      BY <1>4 DEF Clusters
    <3> QED
      BY <1>0, <1>4, <1>7, <2>3, <3>1 DEF Outdated, RowSound
  <2>7. Listed(handler[h].listed)' /\ Neighbour(h)' \in 1 .. Len(handler'[h].listed)
    <3>1. Listed(handler[h].listed)'
      BY <1>3, <2>1 DEF Listed
    <3>2. Neighbour(h)' = Neighbour(h)
      BY <2>1, <2>2 DEF Neighbour, Place
    <3>3. Len(order) = Len(handler'[h].listed)
      BY <1>0, <1>3, <2>1 DEF Shapes, Listed
    <3> QED
      BY <1>7, <3>1, <3>2, <3>3
  <2>8. PlaceSound(h)'
    BY <1>3, <1>4, <2>2, <2>5, <2>6, <2>7 DEF PlaceSound, HoldsKey, HoldsRow, Changes, Keyed
  <2>9. TokenSound(h)'
    BY <1>0, <1>4, <2>1, <2>2 DEF TokenSound, UpdatesCluster
  <2>10. \A g \in Handlers : Apart(g, h)' /\ Apart(h, g)'
    <3>1. ~ HoldsKey(h)'
      BY <1>4, <2>2 DEF HoldsKey, Keyed
    <3>2. ASSUME NEW g \in Handlers \ {h}
          PROVE  HoldsRow(g)' => LockedRows(handler[g].req)' \cap LockedRows(handler[h].req)' = {}
      <4>1. LockedRows(handler[h].req)' = Clusters /\ LockedRows(handler[g].req)' = LockedRows(handler[g].req)
        BY <1>3, <1>4, <2>2 DEF LockedRows
      <4>2. HoldsRow(g)' => \A t \in Clusters : t \notin LockedRows(handler[g].req)
        BY <1>2, <2>2 DEF RowFree, HoldsRow
      <4> QED
        BY <4>1, <4>2
    <3> QED
      BY <3>1, <3>2 DEF Apart
  <2>11. etag[r] = row[r.target].version
    BY <1>7 DEF Outdated
  <2> QED
    BY <1>1, <1>2, <2>1, <2>4, <2>8, <2>9, <2>10, <2>11, OnwardStep DEF Steps
<1> QED
  BY <1>5, <1>6, <1>7 DEF LockClusters

(* A manual check asks the runtime. *)
LEMMA AskStep ==
    ASSUME AdministrationInd, NEW h \in Handlers, AskRuntime(h)
    PROVE  AdministrationInd'
<1> USE AdministrationAssumption
<1> PICK r : r = handler[h].req
  OBVIOUS
<1>0. /\ Shapes /\ PlaceSound(h) /\ TokenSound(h)
      /\ \A g \in Handlers : Apart(g, h) /\ Apart(h, g)
  BY DEF AdministrationInd
<1>1. UNCHANGED <<wanted, etag, sent, tables, secret, answers, validated, torn>>
  BY DEF AskRuntime
<1>2. handler[h].pc = "ask"
  BY DEF AskRuntime, At
<1>3. Posted(r) /\ r \in Requests /\ r \in wanted /\ r.op = "check" /\ Keyed(r) /\ Stored(r) = {}
  BY <1>0, <1>2 DEF PlaceSound, Posted, Shapes, HoldsKey
<1>4. CASE Refuse(h, "not_running") /\ UNCHANGED asked
  BY <1>1, <1>2, <1>4, RefuseStep DEF Results
<1>5. CASE asked' = asked \cup {r} /\ Goto(h, "commit")
  <2>1. Moved(h, "commit") /\ handler'[h].token = handler[h].token
    BY <1>0, <1>5, GotoMoves DEF Steps
  <2>2. /\ handler' \in [Handlers -> States] /\ handler'[h].pc = "commit" /\ handler'[h].req = r
        /\ \A g \in Handlers \ {h} : handler'[g] = handler[g]
    BY <2>1 DEF Moved
  <2>3. UNCHANGED <<wanted, etag, sent, row, order, receipts, audit, intents>>
    BY <1>1 DEF tables
  <2>4. asked' \subseteq wanted' /\ asked \subseteq asked' /\ r \in asked'
    BY <1>0, <1>3, <1>5, <2>3 DEF Shapes
  <2>5. Shapes'
    BY <1>0, <1>1, <2>2, <2>3, <2>4 DEF Shapes, Listed
  <2>6. Posted(r)' /\ Stored(r)' = {}
    BY <1>3, <2>3 DEF Posted, Stored, Scope
  <2>7. PlaceSound(h)'
    BY <1>3, <2>2, <2>4, <2>6 DEF PlaceSound, HoldsKey, HoldsRow, Changes
  <2>8. TokenSound(h)'
    BY <1>0, <1>3, <2>1, <2>2 DEF TokenSound, UpdatesCluster
  <2>9. \A g \in Handlers : Apart(g, h)' /\ Apart(h, g)'
    <3>1. LockedRows(handler[h].req)' = {}
      BY <1>3, <2>2 DEF LockedRows
    <3>2. ASSUME NEW g \in Handlers \ {h}
          PROVE  HoldsKey(g)' => Scope(handler[g].req)' # Scope(handler[h].req)'
      <4>1. Apart(g, h) /\ handler'[g] = handler[g] /\ HoldsKey(h)
        BY <1>0, <1>2, <1>3, <2>2 DEF HoldsKey
      <4>2. HoldsKey(g)' = HoldsKey(g) /\ Scope(handler[g].req)' = Scope(handler[g].req)
        BY <4>1 DEF HoldsKey, Keyed, Scope
      <4>3. Scope(handler[h].req)' = Scope(handler[h].req)
        BY <2>2 DEF Scope
      <4>4. HoldsKey(g) => Scope(handler[g].req) # Scope(handler[h].req)
        BY <4>1 DEF Apart
      <4> QED
        BY <4>2, <4>3, <4>4
    <3> QED
      BY <3>1, <3>2 DEF Apart
  <2>10. validated \subseteq validated'
    BY <1>1
  <2> QED
    BY <1>1, <1>2, <1>3, <2>1, <2>4, <2>5, <2>7, <2>8, <2>9, <2>10, OnwardStep DEF Steps
<1> QED
  BY <1>4, <1>5 DEF AskRuntime

(* The token file of a cluster is replaced. *)
LEMMA WriteSecretStep ==
    ASSUME AdministrationInd, NEW h \in Handlers, WriteSecret(h)
    PROVE  AdministrationInd'
<1> USE AdministrationAssumption
<1> PICK r : r = handler[h].req
  OBVIOUS
<1> PICK t : t = r.target
  OBVIOUS
<1>0. /\ Shapes /\ TokenSound(h) /\ \A g \in Handlers : PlaceSound(g)
      /\ \A g \in Handlers : Apart(g, h) /\ Apart(h, g)
      /\ \A q \in wanted : AnswersSound(q)
  BY DEF AdministrationInd
<1>1. UNCHANGED <<wanted, etag, sent, row, order, receipts, audit, intents, asked, answers, validated, torn>>
  BY DEF WriteSecret, tables
<1>2. handler[h].pc = "secret" /\ secret' = [secret EXCEPT ![t] = r.token] /\ Goto(h, "commit")
  BY DEF WriteSecret, At
<1>3. Posted(r) /\ r \in Requests /\ r.token # None
  BY <1>0, <1>2 DEF PlaceSound, Posted, Shapes
<1>4. UpdatesCluster(r) /\ t \in Clusters /\ ~ Keyed(r) /\ LockedRows(r) = {t} /\ Changes(r)
  BY <1>3, RequestSound DEF UpdatesCluster, Keyed, LockedRows, Changes
<1>5. /\ Moved(h, "commit") /\ handler'[h].token = handler[h].token
  BY <1>0, <1>2, GotoMoves DEF Steps
<1>6. /\ handler' \in [Handlers -> States] /\ handler'[h].pc = "commit" /\ handler'[h].req = r
      /\ \A g \in Handlers \ {h} : handler'[g] = handler[g]
  BY <1>5 DEF Moved
<1>7. secret' \in [Clusters -> Tokens \ {None}] /\ secret'[t] = r.token /\ \A c \in Clusters \ {t} : secret'[c] = secret[c]
  <2>1. r.token \in Tokens \ {None} /\ secret \in [Clusters -> Tokens \ {None}]
    BY <1>0, <1>3 DEF Shapes, Tokens
  <2> QED
    BY <1>2, <1>4, <2>1
<1>8. Shapes'
  BY <1>0, <1>1, <1>6, <1>7 DEF Shapes, Listed
<1>9. Rotates(h, t)' /\ \A c \in Clusters : ~ Rotates(h, c)
  BY <1>2, <1>3, <1>6 DEF Rotates
<1>10. ASSUME NEW g \in Handlers \ {h} PROVE ~ Rotates(g, t)
  <2>1. SUFFICES ASSUME Rotates(g, t) PROVE FALSE
    OBVIOUS
  <2>2. handler[g].pc = "commit" /\ handler[g].req.token # None /\ handler[g].req.target = t
    BY <2>1 DEF Rotates
  <2>3. handler[g].req \in Requests
    BY <1>0, <2>2 DEF PlaceSound, Posted, Shapes
  <2>4. LockedRows(handler[g].req) = {t}
    BY <2>2, <2>3, RequestSound DEF LockedRows, UpdatesCluster
  <2> QED
    BY <1>0, <1>2, <1>4, <2>2, <2>4 DEF Apart, HoldsRow
<1>11. row[t].version = etag[r] /\ ~ row[t].revoked
  BY <1>0, <1>2, <1>4 DEF PlaceSound, HoldsRow
<1>12. PlaceSound(h)'
  <2>1. Posted(r)' /\ row'[t].version = etag'[r] /\ ~ row'[t].revoked
    BY <1>1, <1>3, <1>11 DEF Posted
  <2> QED
    BY <1>4, <1>6, <2>1 DEF PlaceSound, HoldsKey, HoldsRow, Changes, Keyed, UpdatesCluster
<1>13. TokenSound(h)'
  <2>1. TokenSound(h) /\ validated' = validated
    BY <1>0, <1>1
  <2> QED
    BY <1>2, <1>3, <1>4, <1>5, <1>6, <1>7, <2>1 DEF TokenSound, UpdatesCluster
<1>14. \A g \in Handlers : Apart(g, h)' /\ Apart(h, g)'
  <2>1. ~ HoldsKey(h)'
    BY <1>4, <1>6 DEF HoldsKey, Keyed
  <2>2. ASSUME NEW g \in Handlers \ {h}
        PROVE  HoldsRow(g)' => LockedRows(handler[g].req)' \cap LockedRows(handler[h].req)' = {}
    <3>1. Apart(g, h) /\ HoldsRow(h) /\ handler'[g] = handler[g]
      BY <1>0, <1>2, <1>6 DEF HoldsRow
    <3>2. HoldsRow(g)' = HoldsRow(g) /\ LockedRows(handler[g].req)' = LockedRows(handler[g].req)
      BY <3>1 DEF HoldsRow, LockedRows
    <3>3. LockedRows(handler[h].req)' = LockedRows(handler[h].req)
      BY <1>6 DEF LockedRows
    <3>4. HoldsRow(g) => LockedRows(handler[g].req) \cap LockedRows(handler[h].req) = {}
      BY <3>1 DEF Apart
    <3> QED
      BY <3>2, <3>3, <3>4
  <2> QED
    BY <2>1, <2>2 DEF Apart
<1>15. \A c \in Clusters : secret'[c] # secret[c] => Rotates(h, c)' /\ \A g \in Handlers \ {h} : ~ Rotates(g, c)
  BY <1>7, <1>9, <1>10
<1> QED
  BY <1>1, <1>6, <1>8, <1>9, <1>11, <1>12, <1>13, <1>14, <1>15, QuietStep

(* A handler that is done holds nothing. *)
LEMMA IdleMoves ==
    ASSUME Shapes, NEW h \in Handlers, handler' = [handler EXCEPT ![h] = Idle]
    PROVE  /\ handler' \in [Handlers -> States]
           /\ \A g \in Handlers \ {h} : handler'[g] = handler[g]
           /\ handler'[h].pc = "idle"
           /\ PlaceSound(h)' /\ TokenSound(h)'
           /\ \A g \in Handlers : Apart(g, h)' /\ Apart(h, g)'
<1>1. Idle \in States /\ Idle.pc = "idle" /\ Idle.token = None
  <2>1. <<>> \in Seq(Clusters)
    OBVIOUS
  <2> QED
    BY <2>1 DEF Idle, States, Steps
<1>2. handler \in [Handlers -> States]
  BY DEF Shapes
<1>3. handler' \in [Handlers -> States] /\ handler'[h] = Idle /\ \A g \in Handlers \ {h} : handler'[g] = handler[g]
  BY <1>1, <1>2
<1>4. handler'[h].pc = "idle" /\ handler'[h].token = None
  BY <1>1, <1>3
<1>5. PlaceSound(h)'
  BY <1>4 DEF PlaceSound, HoldsKey, HoldsRow
<1>6. TokenSound(h)'
  BY <1>4 DEF TokenSound
<1>7. \A g \in Handlers : Apart(g, h)' /\ Apart(h, g)'
  BY <1>4 DEF Apart, HoldsKey, HoldsRow
<1> QED
  BY <1>3, <1>4, <1>5, <1>6, <1>7

(* The answer arrives. *)
LEMMA AnswerStep ==
    ASSUME AdministrationInd, NEW h \in Handlers, Answer(h)
    PROVE  AdministrationInd'
<1> USE AdministrationAssumption
<1> PICK r, b : r = handler[h].req /\ b = handler[h].reply
  OBVIOUS
<1>0. Shapes /\ PlaceSound(h)
  BY DEF AdministrationInd
<1>1. UNCHANGED <<wanted, etag, sent, row, order, receipts, audit, intents, secret, asked, validated, torn>>
  BY DEF Answer, tables
<1>2. /\ handler[h].pc = "reply" /\ handler' = [handler EXCEPT ![h] = Idle]
      /\ answers' = [answers EXCEPT ![r] = @ \cup {b}]
  BY DEF Answer, At
<1>3. Posted(r) /\ r \in wanted /\ b \in Replies /\ Truthful(r, b)
  BY <1>0, <1>2 DEF PlaceSound, Posted
<1>4. /\ handler' \in [Handlers -> States] /\ \A g \in Handlers \ {h} : handler'[g] = handler[g]
      /\ handler'[h].pc = "idle"
      /\ PlaceSound(h)' /\ TokenSound(h)' /\ \A g \in Handlers : Apart(g, h)' /\ Apart(h, g)'
  BY <1>0, <1>2, IdleMoves
<1>5. /\ answers' \in [wanted -> SUBSET Replies]
      /\ \A q \in wanted : \A a \in answers'[q] : a \in answers[q] \/ (q = r /\ a = b)
  BY <1>0, <1>2, <1>3 DEF Shapes
<1>6. Shapes'
  BY <1>0, <1>1, <1>4, <1>5 DEF Shapes, Listed
<1>7. \A q \in wanted : \A a \in answers'[q] : a \in answers[q] \/ (Posted(q) /\ Truthful(q, a))
  BY <1>3, <1>5
<1>8. \A t \in Clusters : ~ Rotates(h, t)
  BY <1>2 DEF Rotates
<1> QED
  BY <1>1, <1>4, <1>6, <1>7, <1>8, QuietStep

(* A request fails, or its answer is lost. *)
LEMMA FailStep ==
    ASSUME AdministrationInd, NEW h \in Handlers, Fail(h)
    PROVE  AdministrationInd'
<1> USE AdministrationAssumption
<1> PICK r : r = handler[h].req
  OBVIOUS
<1>0. Shapes /\ PlaceSound(h) /\ TokenSound(h)
  BY DEF AdministrationInd
<1>1. UNCHANGED <<wanted, etag, sent, row, order, receipts, audit, intents, secret, asked, answers, validated>>
  BY DEF Fail, tables
<1>2. /\ handler[h].pc # "idle" /\ handler' = [handler EXCEPT ![h] = Idle]
      /\ torn' = IF handler[h].pc = "commit" /\ handler[h].token # None /\ r.token # None
                 THEN torn \cup {r.target} ELSE torn
  BY DEF Fail, At
<1>3. r \in Requests
  BY <1>0, <1>2 DEF PlaceSound, Posted, Shapes
<1>4. /\ handler' \in [Handlers -> States] /\ \A g \in Handlers \ {h} : handler'[g] = handler[g]
      /\ handler'[h].pc = "idle"
      /\ PlaceSound(h)' /\ TokenSound(h)' /\ \A g \in Handlers : Apart(g, h)' /\ Apart(h, g)'
  BY <1>0, <1>2, IdleMoves
<1>5. torn \subseteq torn' /\ torn' \subseteq Clusters
  <2>1. r.token # None => r.target \in Clusters
    BY <1>3, RequestSound
  <2> QED
    BY <1>0, <1>2, <2>1 DEF Shapes
<1>6. Shapes'
  BY <1>0, <1>1, <1>4, <1>5 DEF Shapes, Listed
<1>7. ASSUME NEW t \in Clusters, Rotates(h, t) PROVE t \in torn'
  <2>1. handler[h].pc = "commit" /\ r.token # None /\ r.target = t
    BY <1>7 DEF Rotates
  <2>2. handler[h].token = r.token
    BY <1>0, <1>3, <2>1, RequestSound DEF TokenSound
  <2> QED
    BY <1>2, <2>1, <2>2
<1> QED
  BY <1>1, <1>4, <1>5, <1>6, <1>7, QuietStep
-----------------------------------------------------------------------------
(* Handler h commits the change of request r to row id.  What the operations have
   in common: only that row changes, and not back; a row that was revoked does
   not; a cluster gets the configuration that was validated. *)
Commits(h, r, id, version) ==
    /\ At(h, "commit") /\ r = handler[h].req /\ Committed(h, id, version)
    /\ id \in Identifiers /\ version \in Nat \ {0}
    /\ IF r.op = "create" THEN id \in Fresh ELSE id = r.target
    /\ row' \in [Identifiers -> Rows] /\ \A t \in Identifiers \ {id} : row'[t] = row[t]
    /\ row'[id] # row[id] => row[id].version < row'[id].version /\ ~ row[id].revoked
    /\ r.op = "check" => row' = row
    /\ row'[id].revoked => row[id].revoked \/ r.op = "revoke"
    /\ id \in Clusters =>
          /\ row[id].version < row'[id].version
          /\ row'[id].body = IF UpdatesCluster(r) THEN r.body ELSE row[id].body
    /\ Listed(order')
    /\ intents' \in [Targets -> Nat]
    /\ \A t \in Targets : intents'[t] = intents[t] + (IF t = id /\ r.op = "test" THEN 1 ELSE 0)

(* The audit grows at its end. *)
LEMMA Appended ==
    ASSUME audit \in Seq(Entries), NEW e \in Entries, audit' = audit \o <<e>>, NEW n, n = Len(audit) + 1
    PROVE  /\ audit' \in Seq(Entries) /\ DOMAIN audit' = DOMAIN audit \cup {n} /\ n \notin DOMAIN audit
           /\ \A i \in DOMAIN audit : audit'[i] = audit[i]
           /\ audit'[n] = e
<1>1. Len(audit') = Len(audit) + 1 /\ audit' \in Seq(Entries) /\ Len(audit) \in Nat
  OBVIOUS
<1>2. DOMAIN audit' = 1 .. (Len(audit) + 1) /\ DOMAIN audit = 1 .. Len(audit)
  BY <1>1
<1>3. /\ \A i \in 1 .. Len(audit) : audit'[i] = audit[i]
      /\ audit'[Len(audit) + 1] = e
  BY <1>1
<1>4. 1 .. (Len(audit) + 1) = (1 .. Len(audit)) \cup {Len(audit) + 1} /\ Len(audit) + 1 \notin 1 .. Len(audit)
  BY <1>1
<1> QED
  BY <1>1, <1>2, <1>3, <1>4

(* What a commit leaves behind: the audit event n, the receipt and the answer. *)
Outcome(h, r, id, version, n) ==
    /\ Posted(r) /\ Posted(r)' /\ r \in wanted /\ r \in Requests /\ etag[r] \in Nat
    /\ UNCHANGED <<wanted, etag, sent, secret, asked, answers, validated>>
    /\ DOMAIN audit' = DOMAIN audit \cup {n} /\ n \notin DOMAIN audit
    /\ \A i \in DOMAIN audit : audit'[i] = audit[i]
    /\ audit'[n].req = r /\ audit'[n].id = id /\ audit'[n].seen = etag[r]
    /\ audit'[n].from = row[id].version /\ audit'[n].to = version
    /\ Keyed(r) => HoldsKey(h) /\ Stored(r) = {}
    /\ receipts' = Save(r, id, version)
    /\ torn' = IF id \in Clusters /\ handler[h].token = secret[id] THEN torn \ {id} ELSE torn
    /\ Moved(h, "reply") /\ handler'[h].token = handler[h].token
    /\ handler'[h].reply \in Replies
    /\ handler'[h].reply.result = "ok" /\ handler'[h].reply.id = id
    /\ handler'[h].reply.version = version
    /\ Shapes'

(* What every commit does, whatever the operation. *)
LEMMA CommitFacts ==
    ASSUME AdministrationInd, NEW h \in Handlers, NEW r, NEW id, NEW version, Commits(h, r, id, version),
           NEW n, n = Len(audit) + 1
    PROVE  Outcome(h, r, id, version, n)
<1> USE AdministrationAssumption
<1>0. Shapes /\ PlaceSound(h)
  BY DEF AdministrationInd
<1>1. /\ handler[h].pc = "commit" /\ r = handler[h].req /\ id \in Identifiers /\ version \in Nat \ {0}
      /\ Committed(h, id, version)
      /\ row' \in [Identifiers -> Rows] /\ Listed(order') /\ intents' \in [Targets -> Nat]
  BY DEF Commits, At
<1>2. /\ receipts' = Save(r, id, version) /\ audit' = AppendAudit(r, id, version)
      /\ torn' = IF id \in Clusters /\ handler[h].token = secret[id] THEN torn \ {id} ELSE torn
      /\ Reply(h, "ok", id, version)
      /\ UNCHANGED <<wanted, etag, sent, secret, asked, answers, validated>>
  BY <1>1 DEF Committed
<1>3. Posted(r) /\ r \in wanted /\ r \in Requests /\ etag[r] \in Nat
  BY <1>0, <1>1, VersionTyped DEF PlaceSound, Posted, Shapes
<1>4. Posted(r)'
  BY <1>2, <1>3 DEF Posted
<1>5. PICK e : e = [req |-> r, id |-> id, seen |-> etag[r], from |-> row[id].version, to |-> version]
  OBVIOUS
<1>6. /\ e \in Entries /\ e.req = r /\ e.id = id /\ e.seen = etag[r] /\ e.from = row[id].version
      /\ e.to = version
  <2>1. row[id].version \in Nat
    BY <1>0, <1>1, VersionTyped
  <2> QED
    BY <1>1, <1>3, <1>5, <2>1 DEF Entries
<1>7. audit \in Seq(Entries) /\ audit' = audit \o <<e>>
  BY <1>0, <1>2, <1>5 DEF Shapes, AppendAudit
<1>8. /\ audit' \in Seq(Entries) /\ DOMAIN audit' = DOMAIN audit \cup {n} /\ n \notin DOMAIN audit
      /\ \A i \in DOMAIN audit : audit'[i] = audit[i]
      /\ audit'[n] = e
  BY <1>6, <1>7, Appended
<1>9. Keyed(r) => HoldsKey(h) /\ Stored(r) = {}
  BY <1>0, <1>1 DEF PlaceSound, HoldsKey
<1>10. /\ Moved(h, "reply") /\ handler'[h].token = handler[h].token
       /\ handler'[h].reply \in Replies
       /\ handler'[h].reply.result = "ok" /\ handler'[h].reply.id = id
       /\ handler'[h].reply.version = version
  BY <1>0, <1>1, <1>2, ReplyMoves DEF Results
<1>11. Shapes'
  <2>1. handler' \in [Handlers -> States]
    BY <1>10 DEF Moved
  <2>2. torn' \subseteq Clusters /\ asked' \subseteq wanted'
    BY <1>0, <1>2 DEF Shapes
  <2> QED
    BY <1>0, <1>1, <1>2, <1>8, <2>1, <2>2 DEF Shapes
<1> QED
  BY <1>2, <1>3, <1>4, <1>6, <1>8, <1>9, <1>10, <1>11 DEF Outcome

(* After a commit, the records still agree: the key was new, and a test has queued
   one intent. *)
LEMMA CommitRecords ==
    ASSUME AdministrationInd, NEW h \in Handlers, NEW r, NEW id, NEW version, Commits(h, r, id, version)
    PROVE  /\ KeyAppliedOnce'
           /\ \A i \in DOMAIN audit' : AuditSound(i)'
           /\ \A receipt \in receipts' : ReceiptSound(receipt)'
<1> USE AdministrationAssumption
<1> PICK n : n = Len(audit) + 1
  OBVIOUS
<1>0. /\ Shapes /\ KeyAppliedOnce /\ PlaceSound(h)
      /\ \A i \in DOMAIN audit : AuditSound(i)
      /\ \A receipt \in receipts : ReceiptSound(receipt)
  BY DEF AdministrationInd
<1>1. /\ handler[h].pc = "commit" /\ r = handler[h].req
      /\ r.op # "create" => id = r.target
      /\ \A t \in Targets : intents'[t] = intents[t] + (IF t = id /\ r.op = "test" THEN 1 ELSE 0)
  BY DEF Commits, At
<1>2. /\ Posted(r) /\ Posted(r)'
      /\ UNCHANGED <<wanted, etag, sent, secret, asked, answers, validated>>
      /\ DOMAIN audit' = DOMAIN audit \cup {n} /\ n \notin DOMAIN audit
      /\ \A i \in DOMAIN audit : audit'[i] = audit[i]
      /\ audit'[n].req = r /\ audit'[n].id = id /\ audit'[n].seen = etag[r]
      /\ audit'[n].from = row[id].version /\ audit'[n].to = version
      /\ Keyed(r) => HoldsKey(h) /\ Stored(r) = {}
      /\ receipts' = Save(r, id, version)
  <2>1. Outcome(h, r, id, version, n)
    BY CommitFacts
  <2> QED
    BY <2>1 DEF Outcome
<1>3. ASSUME NEW i \in DOMAIN audit, Keyed(audit[i].req), Keyed(r) PROVE Scope(audit[i].req) # Scope(r)
  <2>1. Stored(audit[i].req) # {} /\ Stored(r) = {}
    BY <1>0, <1>2, <1>3 DEF AuditSound
  <2> QED
    BY <2>1 DEF Stored
<1>4. \A i, j \in DOMAIN audit' :
        Keyed(audit'[i].req) /\ Keyed(audit'[j].req) /\ Scope(audit'[i].req) = Scope(audit'[j].req) => i = j
  <2>1. ASSUME NEW i \in DOMAIN audit', NEW j \in DOMAIN audit',
               Keyed(audit'[i].req), Keyed(audit'[j].req), Scope(audit'[i].req) = Scope(audit'[j].req)
        PROVE  i = j
    <3>1. CASE i = n \/ j = n
      BY <1>2, <1>3, <2>1, <3>1
    <3>2. CASE i # n /\ j # n
      BY <1>0, <1>2, <2>1, <3>2 DEF KeyAppliedOnce
    <3> QED
      BY <3>1, <3>2
  <2> QED
    BY <2>1
<1>5. ASSUME NEW t \in Targets
      PROVE  intents'[t] = Cardinality({i \in DOMAIN audit' : audit'[i].id = t /\ audit'[i].req.op = "test"})
  <2> DEFINE S == {i \in DOMAIN audit : audit[i].id = t /\ audit[i].req.op = "test"}
             T == {i \in DOMAIN audit' : audit'[i].id = t /\ audit'[i].req.op = "test"}
  <2>1. IsFiniteSet(S)
    <3>1. Len(audit) \in Nat /\ DOMAIN audit = 1 .. Len(audit)
      BY <1>0 DEF Shapes
    <3>2. IsFiniteSet(1 .. Len(audit))
      BY <3>1, FS_Interval
    <3>3. S \subseteq 1 .. Len(audit)
      BY <3>1
    <3> QED
      BY <3>2, <3>3, FS_Subset
  <2>2. n \notin S /\ intents[t] = Cardinality(S) /\ Cardinality(S) \in Nat
    <3>1. n \notin S /\ intents[t] = Cardinality(S)
      BY <1>0, <1>2 DEF KeyAppliedOnce
    <3> QED
      BY <2>1, <3>1, FS_CardinalityType
  <2>3. T = IF t = id /\ r.op = "test" THEN S \cup {n} ELSE S
    BY <1>2
  <2> HIDE DEF S, T
  <2>4. Cardinality(T) = Cardinality(S) + (IF t = id /\ r.op = "test" THEN 1 ELSE 0)
    <3>1. Cardinality(S \cup {n}) = Cardinality(S) + 1
      BY <2>1, <2>2, FS_AddElement
    <3> QED
      BY <2>2, <2>3, <3>1
  <2>5. intents'[t] = Cardinality(T)
    BY <1>1, <2>2, <2>4
  <2> QED
    BY <2>5 DEF T
<1>6. KeyAppliedOnce'
  BY <1>4, <1>5 DEF KeyAppliedOnce, Keyed, Scope
<1>7. /\ receipts \subseteq receipts'
      /\ Keyed(r) => [scope |-> Scope(r), hash |-> Hash(r), id |-> id, version |-> version] \in receipts'
      /\ \A receipt \in receipts' :
            \/ receipt \in receipts
            \/ Keyed(r) /\ receipt = [scope |-> Scope(r), hash |-> Hash(r), id |-> id, version |-> version]
  BY <1>2 DEF Save
<1>8. ASSUME NEW i \in DOMAIN audit' PROVE AuditSound(i)'
  <2>1. CASE i \in DOMAIN audit
    <3>1. AuditSound(i) /\ audit'[i] = audit[i]
      BY <1>0, <1>2, <2>1
    <3>2. Stored(audit[i].req) # {} => Stored(audit[i].req)' # {}
      BY <1>2, <1>7, <2>1 DEF Stored, Scope
    <3> QED
      BY <1>2, <3>1, <3>2 DEF AuditSound, Posted, Keyed, Changes
  <2>2. CASE i = n
    <3>1. Keyed(r) => Stored(r)' # {}
      BY <1>7 DEF Stored, Scope
    <3>2. r.op = "check" => r \in asked'
      BY <1>0, <1>1, <1>2 DEF PlaceSound
    <3>3. Changes(r) => etag[r] = row[id].version
      BY <1>0, <1>1 DEF PlaceSound, HoldsRow, Changes
    <3>4. /\ Posted(audit[i].req)' /\ audit'[i].seen = etag'[audit'[i].req]
          /\ Keyed(audit'[i].req) => Stored(audit[i].req)' # {}
      BY <1>2, <2>2, <3>1 DEF Posted, Stored, Scope
    <3> QED
      BY <1>1, <1>2, <2>2, <3>2, <3>3, <3>4 DEF AuditSound, Keyed, Changes
  <2> QED
    BY <1>2, <2>1, <2>2
<1>9. ASSUME NEW receipt \in receipts' PROVE ReceiptSound(receipt)'
  <2>1. \A q : Hash(q)' = Hash(q) /\ Scope(q)' = Scope(q)
    BY <1>2 DEF Hash, Scope
  <2>2. CASE receipt \in receipts
    <3>1. PICK i \in DOMAIN audit :
            /\ Keyed(audit[i].req) /\ receipt.scope = Scope(audit[i].req) /\ receipt.hash = Hash(audit[i].req)
            /\ receipt.id = audit[i].id /\ receipt.version = audit[i].to
      BY <1>0, <2>2 DEF ReceiptSound
    <3>2. i \in DOMAIN audit' /\ audit'[i] = audit[i]
      BY <1>2
    <3>3. Hash(audit[i].req)' = Hash(audit[i].req)
      BY <1>2, <3>2 DEF Hash
    <3> QED
      BY <3>1, <3>2, <3>3 DEF ReceiptSound, Keyed, Scope
  <2>3. CASE receipt \notin receipts
    <3>1. Keyed(r) /\ receipt = [scope |-> Scope(r), hash |-> Hash(r), id |-> id, version |-> version]
      BY <1>7, <2>3
    <3>2. n \in DOMAIN audit' /\ Keyed(audit'[n].req) /\ receipt.scope = Scope(audit'[n].req)
          /\ receipt.id = audit'[n].id /\ receipt.version = audit'[n].to
      BY <1>2, <3>1 DEF Keyed, Scope
    <3>3. receipt.hash = Hash(audit[n].req)'
      BY <1>2, <3>1 DEF Hash
    <3> QED
      BY <3>2, <3>3 DEF ReceiptSound, Keyed, Scope
  <2> QED
    BY <2>2, <2>3
<1> QED
  BY <1>6, <1>8, <1>9

(* Versions only grow. *)
LEMMA CommitGrows ==
    ASSUME Shapes, Shapes', NEW h \in Handlers, NEW r, NEW id, NEW version, Commits(h, r, id, version)
    PROVE  \A t \in Identifiers : row[t].version <= row'[t].version
<1> SUFFICES ASSUME NEW t \in Identifiers PROVE row[t].version <= row'[t].version
  OBVIOUS
<1>1. row[t].version \in Nat /\ row'[t].version \in Nat
  BY DEF Shapes, Rows
<1>2. row'[t] = row[t] \/ row[t].version < row'[t].version
  BY DEF Commits
<1> QED
  BY <1>1, <1>2

(* What was answered to any request stays true when h commits. *)
LEMMA CommitTruthful ==
    ASSUME AdministrationInd, NEW h \in Handlers, NEW r, NEW id, NEW version, Commits(h, r, id, version),
           NEW q \in wanted, NEW a, Truthful(q, a)
    PROVE  Truthful(q, a)'
<1> USE AdministrationAssumption
<1> PICK n : n = Len(audit) + 1
  OBVIOUS
<1>0. Shapes /\ handler[h].pc = "commit" /\ r = handler[h].req
  BY DEF AdministrationInd, Commits, At
<1>1. Outcome(h, r, id, version, n)
  BY CommitFacts
<1>2. /\ Shapes' /\ UNCHANGED <<wanted, etag, sent, secret, asked, answers, validated>>
      /\ DOMAIN audit' = DOMAIN audit \cup {n}
      /\ \A i \in DOMAIN audit : audit'[i] = audit[i]
      /\ audit'[n].req = r
      /\ Keyed(r) => Stored(r) = {}
      /\ receipts \subseteq receipts'
      /\ handler'[h].pc = "reply" /\ \A g \in Handlers \ {h} : handler'[g] = handler[g]
  BY <1>1 DEF Outcome, Moved, Save
<1>3. \A i \in ChangesOf(q) : i \in ChangesOf(q)' /\ audit'[i] = audit[i]
  BY <1>2 DEF ChangesOf
<1>4. ASSUME Keyed(q), NeverApplied(q) PROVE NeverApplied(q)'
  <2>1. q # r
    BY <1>0, <1>2, <1>4 DEF NeverApplied
  <2>2. ChangesOf(q)' = {}
    BY <1>2, <1>4, <2>1 DEF NeverApplied, ChangesOf
  <2>3. CASE \E receipt \in Stored(q) : receipt.hash # Hash(q)
    <3>1. Stored(q) \subseteq Stored(q)' /\ Hash(q)' = Hash(q)
      BY <1>2 DEF Stored, Scope, Hash
    <3> QED
      BY <2>2, <2>3, <3>1 DEF NeverApplied
  <2>4. CASE /\ q.op # "create" /\ etag[q] < row[q.target].version
             /\ \A g \in Handlers : handler[g].req = q => handler[g].pc # "commit"
    <3>1. q \in Requests /\ etag[q] \in Nat
      BY <1>0, VersionTyped DEF Shapes
    <3>2. q.target \in Identifiers
      BY <2>4, <3>1, RequestSound
    <3>3. /\ row[q.target].version \in Nat /\ row'[q.target].version \in Nat
          /\ row[q.target].version <= row'[q.target].version
      BY <1>0, <1>2, <3>2, CommitGrows DEF Shapes, Rows
    <3>4. etag'[q] < row'[q.target].version
      <4>1. etag'[q] = etag[q]
        BY <1>2
      <4> QED
        BY <2>4, <3>1, <3>3, <4>1
    <3>5. \A g \in Handlers : handler'[g].req = q => handler'[g].pc # "commit"
      BY <1>2, <2>4
    <3> QED
      BY <2>2, <2>4, <3>4, <3>5 DEF NeverApplied
  <2> QED
    BY <1>4, <2>3, <2>4 DEF NeverApplied
<1>5. asked' = asked
  BY <1>2
<1> QED
  BY <1>3, <1>4, <1>5 DEF Truthful, Keyed

(* No other handler has locked the row for a change of its own. *)
LEMMA CommitAlone ==
    ASSUME AdministrationInd, NEW h \in Handlers, NEW r, NEW id, NEW version, Commits(h, r, id, version),
           NEW g \in Handlers \ {h}, HoldsRow(g), Changes(handler[g].req)
    PROVE  row'[handler[g].req.target] = row[handler[g].req.target]
<1> USE AdministrationAssumption
<1> PICK q : q = handler[g].req
  OBVIOUS
<1>0. Shapes /\ PlaceSound(g) /\ PlaceSound(h) /\ Apart(g, h)
  BY DEF AdministrationInd
<1>1. /\ handler[h].pc = "commit" /\ r = handler[h].req /\ HoldsRow(h)
      /\ IF r.op = "create" THEN id \in Fresh ELSE id = r.target
      /\ \A t \in Identifiers \ {id} : row'[t] = row[t]
      /\ r.op = "check" => row' = row
  BY DEF Commits, At, HoldsRow
<1>2. q \in Requests /\ r \in Requests
  BY <1>0, <1>1 DEF PlaceSound, Posted, Shapes, HoldsRow
<1>3. q.kind # "rule" /\ q.op \notin {"create", "check"}
  BY DEF Changes
<1>4. /\ q.target \in Targets /\ q.target \in Identifiers /\ Kind[q.target] = q.kind
      /\ q.target \in LockedRows(q)
  <2>1. q.target \in Targets /\ q.target \in Identifiers /\ Kind[q.target] = q.kind
    BY <1>2, <1>3, RequestSound
  <2>2. q.op = "reorder" => q.target \in Clusters
    BY <1>2, RequestSound
  <2> QED
    BY <1>3, <2>1, <2>2 DEF LockedRows
<1>5. CASE id = q.target
  <2>1. r.op # "create" /\ id = r.target
    BY <1>1, <1>4, <1>5
  <2>2. Kind[id] = r.kind
    BY <1>2, <2>1, RequestSound
  <2>3. CASE r.op = "check"
    BY <1>1, <2>3
  <2>4. CASE r.op # "check"
    <3>1. r.kind # "rule"
      BY <1>3, <1>4, <1>5, <2>2
    <3>2. r.op = "reorder" => id \in Clusters
      BY <1>2, <2>1, RequestSound
    <3>3. id \in LockedRows(r)
      BY <2>1, <2>4, <3>1, <3>2 DEF LockedRows
    <3> QED
      BY <1>0, <1>1, <1>4, <1>5, <3>3 DEF Apart
  <2> QED
    BY <2>3, <2>4
<1>6. CASE id # q.target
  BY <1>1, <1>4, <1>6
<1> QED
  BY <1>5, <1>6

(* After a commit, every handler is where it should be. *)
LEMMA CommitPlaces ==
    ASSUME AdministrationInd, NEW h \in Handlers, NEW r, NEW id, NEW version, Commits(h, r, id, version),
           NEW g \in Handlers
    PROVE  PlaceSound(g)'
<1> USE AdministrationAssumption
<1> PICK n : n = Len(audit) + 1
  OBVIOUS
<1>0. Shapes /\ PlaceSound(g) /\ PlaceSound(h) /\ Apart(g, h) /\ handler[h].pc = "commit" /\ r = handler[h].req
  BY DEF AdministrationInd, Commits, At
<1>1. Outcome(h, r, id, version, n)
  BY CommitFacts
<1>2. /\ Posted(r)' /\ UNCHANGED <<wanted, etag, sent, secret, asked, answers, validated>>
      /\ DOMAIN audit' = DOMAIN audit \cup {n}
      /\ audit'[n].req = r /\ audit'[n].id = id /\ audit'[n].to = version
      /\ Keyed(r) => HoldsKey(h)
      /\ receipts' = Save(r, id, version)
      /\ handler'[h].pc = "reply" /\ handler'[h].req = r /\ \A d \in Handlers \ {h} : handler'[d] = handler[d]
      /\ handler'[h].reply \in Replies
      /\ handler'[h].reply.result = "ok" /\ handler'[h].reply.id = id
      /\ handler'[h].reply.version = version
  BY <1>0, <1>1 DEF Outcome, Moved
<1>3. CASE g = h
  <2>1. n \in ChangesOf(r)'
    BY <1>2 DEF ChangesOf
  <2>2. r.op = "check" => r \in asked'
    BY <1>0, <1>2 DEF PlaceSound
  <2>3. Truthful(handler[h].req, handler[h].reply)'
    <3>1. PICK a : a = handler'[h].reply
      OBVIOUS
    <3>2. Truthful(r, a)'
      BY <1>2, <2>1, <2>2, <3>1 DEF Truthful
    <3> QED
      BY <1>2, <3>1, <3>2
  <2> QED
    BY <1>2, <1>3, <2>3 DEF PlaceSound, HoldsKey, HoldsRow
<1>4. CASE g # h
  <2> PICK q : q = handler[g].req
    OBVIOUS
  <2>1. handler'[g] = handler[g]
    BY <1>2, <1>4
  <2>2. Posted(q) => Posted(q)'
    BY <1>2 DEF Posted
  <2>3. HoldsKey(g) => Stored(q)' = {}
    <3>1. HoldsKey(g) => Stored(q) = {} /\ (Keyed(r) => Scope(q) # Scope(r))
      BY <1>0, <1>2, <1>4 DEF PlaceSound, Apart
    <3> QED
      BY <1>2, <3>1 DEF Stored, Save, Scope
  <2>4. HoldsRow(g) /\ Changes(q) => row'[q.target].version = etag'[q] /\ ~ row'[q.target].revoked
    <3>1. HoldsRow(g) /\ Changes(q) => row'[q.target] = row[q.target]
      BY <1>4, CommitAlone
    <3>2. HoldsRow(g) /\ Changes(q) => row[q.target].version = etag[q] /\ ~ row[q.target].revoked
      BY <1>0 DEF PlaceSound
    <3>3. etag' = etag
      BY <1>2
    <3> QED
      BY <3>1, <3>2, <3>3
  <2>5. handler[g].pc = "reply" => Truthful(q, handler[g].reply)'
    <3>1. PICK a : a = handler[g].reply
      OBVIOUS
    <3>2. handler[g].pc = "reply" => Truthful(q, a) /\ q \in wanted
      BY <1>0, <3>1 DEF PlaceSound, Posted
    <3>3. handler[g].pc = "reply" => Truthful(q, a)'
      BY <3>2, CommitTruthful
    <3> QED
      BY <2>1, <3>1, <3>3
  <2>6. Neighbour(g)' = Neighbour(g)
    BY <2>1 DEF Neighbour, Place
  <2>7. asked' = asked
    BY <1>2
  <2> QED
    BY <1>0, <2>1, <2>2, <2>3, <2>4, <2>5, <2>6, <2>7
       DEF PlaceSound, UpdatesCluster, Keyed, HoldsKey, HoldsRow, Changes, Listed
<1> QED
  BY <1>3, <1>4

(* After a commit, the tokens of the others and the stored pairs are sound: the row
   has a version that no other update of the cluster was compared with. *)
LEMMA CommitTokens ==
    ASSUME AdministrationInd, NEW h \in Handlers, NEW r, NEW id, NEW version, Commits(h, r, id, version)
    PROVE  /\ \A g \in Handlers : TokenSound(g)'
           /\ \A t \in Clusters : PairSound(t)'
<1> USE AdministrationAssumption
<1> PICK n : n = Len(audit) + 1
  OBVIOUS
<1>0. /\ Shapes /\ \A g \in Handlers : PlaceSound(g) /\ TokenSound(g)
      /\ \A g \in Handlers : Apart(g, h)
      /\ \A q \in wanted : ETagPast(q)
      /\ \A t \in Clusters : PairSound(t)
  BY DEF AdministrationInd
<1>1. /\ handler[h].pc = "commit" /\ r = handler[h].req
      /\ r.op # "create" => id = r.target
      /\ r.op = "create" => id \in Fresh
      /\ \A t \in Identifiers \ {id} : row'[t] = row[t]
      /\ id \in Clusters =>
            /\ row[id].version < row'[id].version
            /\ row'[id].body = IF UpdatesCluster(r) THEN r.body ELSE row[id].body
  BY DEF Commits, At
<1>2. Outcome(h, r, id, version, n)
  BY CommitFacts
<1>3. /\ Shapes' /\ UNCHANGED <<wanted, etag, sent, secret, asked, answers, validated>>
      /\ r \in Requests /\ handler'[h].token = handler[h].token
      /\ torn' = IF id \in Clusters /\ handler[h].token = secret[id] THEN torn \ {id} ELSE torn
      /\ handler'[h].pc = "reply" /\ handler'[h].req = r
      /\ \A d \in Handlers \ {h} : handler'[d] = handler[d]
  BY <1>1, <1>2 DEF Outcome, Moved
<1>4. secret' = secret /\ validated' = validated /\ etag' = etag
  BY <1>3
<1>5. \A t \in Clusters : t \in Identifiers /\ t \in Targets /\ t \notin Fresh
  BY DEF Clusters, Identifiers
<1>6. ASSUME NEW t \in Clusters \ {id} PROVE ~ Rotates(h, t) /\ row'[t] = row[t] /\ (t \in torn' <=> t \in torn)
  <2>1. ~ Rotates(h, t)
    BY <1>1, <1>3, RequestSound DEF Rotates, UpdatesCluster
  <2> QED
    BY <1>1, <1>3, <1>5, <2>1
<1>7. \A g \in Handlers, t \in Clusters : g # h => (Rotates(g, t)' <=> Rotates(g, t))
  BY <1>3 DEF Rotates
<1>8. ASSUME NEW g \in Handlers PROVE TokenSound(g)'
  <2>1. CASE g = h
    <3>1. handler[h].token # None => UpdatesCluster(r)
      BY <1>0, <1>1 DEF TokenSound
    <3> QED
      BY <1>3, <2>1, <3>1 DEF TokenSound, UpdatesCluster
  <2>2. CASE g # h
    <3> PICK q, t : q = handler[g].req /\ t = q.target
      OBVIOUS
    <3>1. handler'[g] = handler[g] /\ TokenSound(g)
      BY <1>0, <1>3, <2>2
    <3>2. CASE ~ (handler[g].pc \in {"row", "secret", "commit"} /\ UpdatesCluster(q))
      BY <3>1, <3>2 DEF TokenSound, UpdatesCluster
    <3>3. CASE handler[g].pc \in {"row", "secret", "commit"} /\ UpdatesCluster(q)
      <4>1. q \in wanted /\ q \in Requests
        BY <1>0, <3>3 DEF PlaceSound, Posted, Shapes
      <4>2. t \in Clusters /\ q.op # "create"
        BY <3>3, <4>1, RequestSound DEF UpdatesCluster
      <4>3. CASE t = id
        <5>1. etag[q] \in Nat /\ row[t].version \in Nat /\ row'[t].version \in Nat
          BY <1>0, <1>3, <1>5, <4>1, <4>2, VersionTyped DEF Shapes, Rows
        <5>2. etag[q] <= row[t].version
          BY <1>0, <4>1, <4>2 DEF ETagPast
        <5>3. row[t].version < row'[t].version
          BY <1>1, <4>2, <4>3
        <5>4. row'[t].version # etag'[q]
          BY <1>4, <5>1, <5>2, <5>3
        <5> QED
          BY <1>4, <3>1, <3>3, <5>4 DEF TokenSound, UpdatesCluster
      <4>4. CASE t # id
        <5>1. row'[t] = row[t] /\ (t \in torn' <=> t \in torn)
          BY <1>6, <4>2, <4>4
        <5>2. (\E d \in Handlers \ {g} : Rotates(d, t)) => (\E d \in Handlers \ {g} : Rotates(d, t)')
          BY <1>6, <1>7, <4>2, <4>4
        <5> QED
          BY <1>4, <3>1, <3>3, <5>1, <5>2 DEF TokenSound, UpdatesCluster
      <4> QED
        BY <4>3, <4>4
    <3> QED
      BY <3>2, <3>3
  <2> QED
    BY <2>1, <2>2
<1>9. ASSUME NEW t \in Clusters PROVE PairSound(t)'
  <2>1. CASE t # id
    <3>1. PairSound(t) /\ row'[t] = row[t] /\ (t \in torn' <=> t \in torn) /\ ~ Rotates(h, t)
      BY <1>0, <1>6, <2>1
    <3> QED
      BY <1>4, <1>7, <3>1 DEF PairSound
  <2>2. CASE t = id
    <3>1. r.op # "create" /\ r.target = t
      BY <1>1, <1>5, <2>2
    <3>2. Kind[t] = "cluster" /\ Kind[t] = r.kind
      BY <1>3, <3>1, RequestSound DEF Clusters
    <3>3. CASE UpdatesCluster(r)
      <4>1. row'[t].body = r.body
        BY <1>1, <2>2, <3>3
      <4>2. <<t, r.body, handler[h].token>> \in validated
        BY <1>0, <1>1, <3>1, <3>3 DEF TokenSound
      <4>3. CASE handler[h].token = secret[t]
        BY <1>4, <4>1, <4>2, <4>3 DEF PairSound
      <4>4. CASE handler[h].token # secret[t]
        <5>1. r.token = None
          BY <1>0, <1>1, <3>1, <3>3, <4>4 DEF TokenSound
        <5>2. row[t].version = etag[r]
          BY <1>0, <1>1, <3>1, <3>3 DEF PlaceSound, HoldsRow, Changes, UpdatesCluster
        <5>3. t \in torn \/ \E g \in Handlers \ {h} : Rotates(g, t)
          BY <1>0, <1>1, <3>1, <3>3, <4>4, <5>1, <5>2 DEF TokenSound
        <5>4. (\E g \in Handlers \ {h} : Rotates(g, t)) => (\E g \in Handlers : Rotates(g, t)')
          BY <1>7
        <5>5. t \in torn => t \in torn'
          BY <1>3, <2>2, <4>4
        <5> QED
          BY <5>3, <5>4, <5>5 DEF PairSound
      <4> QED
        BY <4>3, <4>4
    <3>4. CASE ~ UpdatesCluster(r)
      <4>1. row'[t].body = row[t].body
        BY <1>1, <2>2, <3>4
      <4>2. handler[h].token = None /\ r.token = None
        BY <1>0, <1>1, <1>3, <3>4, RequestSound DEF TokenSound
      <4>3. secret[t] # None
        BY <1>0 DEF Shapes
      <4>4. torn' = torn /\ ~ Rotates(h, t)
        BY <1>1, <1>3, <2>2, <4>2, <4>3 DEF Rotates
      <4>5. PairSound(t)
        BY <1>0
      <4> QED
        BY <1>4, <1>7, <4>1, <4>4, <4>5 DEF PairSound
    <3> QED
      BY <3>3, <3>4
  <2> QED
    BY <2>1, <2>2
<1> QED
  BY <1>8, <1>9

(* A commit preserves the invariant. *)
LEMMA CommitStep ==
    ASSUME AdministrationInd, NEW h \in Handlers, NEW r, NEW id, NEW version, Commits(h, r, id, version)
    PROVE  AdministrationInd'
<1> USE AdministrationAssumption
<1> PICK n : n = Len(audit) + 1
  OBVIOUS
<1>0. /\ Shapes /\ \A g, d \in Handlers : Apart(g, d)
      /\ \A t \in Identifiers : RowSound(t)
      /\ \A q \in wanted : ETagPast(q) /\ AnswersSound(q)
  BY DEF AdministrationInd
<1>1. Outcome(h, r, id, version, n)
  BY CommitFacts
<1>2. /\ Shapes' /\ UNCHANGED <<wanted, etag, sent, secret, asked, answers, validated>>
      /\ r \in Requests
      /\ handler'[h].pc = "reply"
      /\ \A d \in Handlers \ {h} : handler'[d] = handler[d]
  BY <1>1 DEF Outcome, Moved
<1>3. \A t \in Identifiers : row[t].version <= row'[t].version
  BY <1>0, <1>2, CommitGrows
<1>4. ASSUME NEW g \in Handlers, NEW d \in Handlers PROVE Apart(g, d)'
  <2>1. CASE g = h \/ d = h
    BY <1>2, <2>1 DEF Apart, HoldsKey, HoldsRow
  <2>2. CASE g # h /\ d # h
    <3>1. Apart(g, d) /\ handler'[g] = handler[g] /\ handler'[d] = handler[d]
      BY <1>0, <1>2, <2>2
    <3> QED
      BY <3>1 DEF Apart, HoldsKey, HoldsRow, Keyed, Scope, LockedRows
  <2> QED
    BY <2>1, <2>2
<1>5. ASSUME NEW t \in Identifiers PROVE RowSound(t)'
  <2>1. RowSound(t) /\ row[t].version \in Nat /\ row'[t].version \in Nat
    BY <1>0, <1>2 DEF Shapes, Rows
  <2>2. t \in Targets => row'[t].version # 0
    BY <1>3, <2>1 DEF RowSound
  <2>3. row'[t].revoked => row[t].revoked \/ (t = id /\ r.op = "revoke" /\ id = r.target)
    BY DEF Commits
  <2>4. r.op = "revoke" => r.target \in Targets /\ Kind[r.target] \in {"window", "silence"}
    BY <1>2, RequestSound
  <2> QED
    BY <2>1, <2>2, <2>3, <2>4 DEF RowSound
<1>6. ASSUME NEW q \in wanted' PROVE ETagPast(q)' /\ AnswersSound(q)'
  <2>1. q \in wanted /\ q \in Requests /\ ETagPast(q) /\ AnswersSound(q) /\ etag[q] \in Nat /\ etag'[q] = etag[q]
    BY <1>0, <1>2, VersionTyped DEF Shapes
  <2>2. ASSUME q.op # "create" PROVE etag'[q] <= row'[q.target].version
    <3>1. q.target \in Identifiers
      BY <2>1, <2>2, RequestSound
    <3>2. /\ row[q.target].version \in Nat /\ row'[q.target].version \in Nat
          /\ row[q.target].version <= row'[q.target].version
      BY <1>0, <1>2, <1>3, <3>1 DEF Shapes, Rows
    <3>3. etag[q] <= row[q.target].version
      BY <2>1, <2>2 DEF ETagPast
    <3> QED
      BY <2>1, <3>2, <3>3
  <2>3. \A a \in answers[q] : Truthful(q, a)'
    BY <2>1, CommitTruthful DEF AnswersSound
  <2>4. Posted(q) => Posted(q)'
    BY <1>2 DEF Posted
  <2>5. answers' = answers
    BY <1>2
  <2> QED
    BY <2>1, <2>2, <2>3, <2>4, <2>5 DEF ETagPast, AnswersSound
<1>7. /\ KeyAppliedOnce'
      /\ \A i \in DOMAIN audit' : AuditSound(i)'
      /\ \A receipt \in receipts' : ReceiptSound(receipt)'
  BY CommitRecords
<1>8. \A g \in Handlers : PlaceSound(g)' /\ TokenSound(g)'
  BY CommitPlaces, CommitTokens
<1>9. \A t \in Clusters : PairSound(t)'
  BY CommitTokens
<1> QED
  BY <1>2, <1>4, <1>5, <1>6, <1>7, <1>8, <1>9 DEF AdministrationInd
-----------------------------------------------------------------------------
(* A new version is greater than the old one, whatever the clock shows. *)
LEMMA VersionGrows ==
    ASSUME NEW r, NEW now \in Clock, NEW old \in Nat
    PROVE  /\ Stamp(now, old) \in Nat \ {0} /\ old < Stamp(now, old)
           /\ NextVersion(r, now, old) \in Nat \ {0} /\ old < NextVersion(r, now, old)
<1>1. now \in Nat \ {0}
  BY AdministrationAssumption
<1>2. Stamp(now, old) \in Nat \ {0} /\ old < Stamp(now, old)
  BY <1>1 DEF Stamp
<1>3. old + 1 \in Nat \ {0} /\ old < old + 1
  OBVIOUS
<1> QED
  BY <1>2, <1>3 DEF NextVersion

(* Exchanging two clusters of a list keeps all of them in it. *)
LEMMA ExchangedListed ==
    ASSUME NEW list, Listed(list), NEW i \in 1 .. Len(list), NEW j \in 1 .. Len(list)
    PROVE  Listed(Exchanged(list, i, j))
<1> PICK e : e = Exchanged(list, i, j)
  OBVIOUS
<1>1. list \in Seq(Clusters) /\ Len(list) = Cardinality(Clusters) /\ Elements(list) = Clusters
  BY DEF Listed
<1>2. DOMAIN list = 1 .. Len(list) /\ Len(list) \in Nat /\ list \in [1 .. Len(list) -> Clusters]
  BY <1>1
<1>3. /\ e \in [1 .. Len(list) -> Clusters] /\ e[j] = list[i]
      /\ i # j => e[i] = list[j]
      /\ \A k \in (1 .. Len(list)) \ {i, j} : e[k] = list[k]
  BY <1>2 DEF Exchanged
<1>4. e \in Seq(Clusters) /\ Len(e) = Len(list) /\ DOMAIN e = 1 .. Len(list)
  <2>1. e \in Seq(Clusters)
    BY <1>2, <1>3
  <2>2. DOMAIN e = 1 .. Len(list)
    BY <1>3
  <2>3. Len(e) = Len(list)
    BY <1>2, <2>1, <2>2
  <2> QED
    BY <2>1, <2>2, <2>3
<1>5. Elements(e) = Clusters
  <2>1. Elements(e) \subseteq Clusters
    BY <1>3, <1>4 DEF Elements
  <2>2. ASSUME NEW c \in Clusters PROVE c \in Elements(e)
    <3>1. PICK k \in 1 .. Len(list) : list[k] = c
      BY <1>1, <1>2 DEF Elements
    <3>2. \E m \in 1 .. Len(list) : e[m] = c
      <4>1. CASE k = i
        BY <1>3, <3>1, <4>1
      <4>2. CASE k = j /\ i # j
        BY <1>3, <3>1, <4>2
      <4>3. CASE k # i /\ k # j
        BY <1>3, <3>1, <4>3
      <4> QED
        BY <4>1, <4>2, <4>3
    <3> QED
      BY <1>4, <3>2 DEF Elements
  <2> QED
    BY <2>1, <2>2
<1> QED
  BY <1>1, <1>4, <1>5 DEF Listed

(* What a handler about to commit knows. *)
LEMMA CommitKnown ==
    ASSUME AdministrationInd, NEW h \in Handlers, NEW r, r = handler[h].req, At(h, "commit")
    PROVE  /\ Shapes /\ r \in Requests /\ r \in wanted /\ etag[r] \in Nat
           /\ r.op # "create" =>
                 /\ r.target \in Targets /\ r.target \in Identifiers /\ Kind[r.target] = r.kind
                 /\ row[r.target] \in Rows /\ row[r.target].version \in Nat
                 /\ etag[r] # 0 /\ row[r.target].version # 0
           /\ r.op \notin {"create", "check"} => ~ row[r.target].revoked
<1>1. /\ Shapes /\ PlaceSound(h) /\ handler[h].pc = "commit"
      /\ \A t \in Identifiers : RowSound(t)
  BY DEF AdministrationInd, At
<1>2. Posted(r) /\ r \in wanted /\ r \in Requests /\ etag[r] \in Nat
  BY <1>1, VersionTyped DEF PlaceSound, Posted, Shapes
<1>3. ASSUME r.op # "create"
      PROVE  /\ r.target \in Targets /\ r.target \in Identifiers /\ Kind[r.target] = r.kind
             /\ row[r.target] \in Rows /\ row[r.target].version \in Nat
             /\ etag[r] # 0 /\ row[r.target].version # 0
  BY <1>1, <1>2, <1>3, RequestSound, VersionTyped DEF Posted, RowSound
<1>4. ASSUME r.op \notin {"create", "check"} PROVE ~ row[r.target].revoked
  <2>1. CASE r.kind = "rule"
    BY <1>1, <1>3, <1>4, <2>1 DEF RowSound
  <2>2. CASE r.kind # "rule"
    BY <1>1, <1>4, <2>2 DEF PlaceSound, HoldsRow, Changes
  <2> QED
    BY <2>1, <2>2
<1> QED
  BY <1>1, <1>2, <1>3, <1>4

(* Test intents of operations that are no test. *)
LEMMA IntentsKept ==
    ASSUME Shapes, NEW r, NEW id, intents' = intents, r.op # "test"
    PROVE  /\ intents' \in [Targets -> Nat]
           /\ \A t \in Targets : intents'[t] = intents[t] + (IF t = id /\ r.op = "test" THEN 1 ELSE 0)
<1>1. intents \in [Targets -> Nat]
  BY DEF Shapes
<1> QED
  BY <1>1

(* The creation of a row commits. *)
LEMMA InsertedCommits ==
    ASSUME AdministrationInd, NEW h \in Handlers, NEW kind, Inserted(h, kind), NEW r, r = handler[h].req
    PROVE  \E id, version : Commits(h, r, id, version)
<1> USE AdministrationAssumption
<1>1. At(h, "commit") /\ r.op = "create" /\ order' = order /\ intents' = intents
  BY DEF Inserted
<1>2. PICK id \in Fresh, now \in Clock :
        /\ row[id].version = 0
        /\ row' = [row EXCEPT ![id] = [NewRow EXCEPT !.version = NextVersion(r, now, 0), !.body = r.body]]
        /\ Committed(h, id, NextVersion(r, now, 0))
  BY DEF Inserted
<1>3. PICK version : version = NextVersion(r, now, 0)
  OBVIOUS
<1>4. version \in Nat \ {0} /\ 0 < version
  BY <1>3, VersionGrows
<1>5. Shapes /\ r \in Requests /\ id \in Identifiers /\ id \notin Targets /\ id \notin Clusters
  BY <1>1, CommitKnown DEF Identifiers, Clusters
<1>6. PICK v : v = [NewRow EXCEPT !.version = version, !.body = r.body]
  OBVIOUS
<1>7. v \in Rows /\ v.version = version /\ v.revoked = FALSE
  BY <1>4, <1>5, <1>6 DEF NewRow, Rows, Bodies
<1>8. row \in [Identifiers -> Rows] /\ row' = [row EXCEPT ![id] = v]
  BY <1>2, <1>3, <1>5, <1>6 DEF Shapes
<1>9. row' \in [Identifiers -> Rows] /\ row'[id] = v /\ \A t \in Identifiers \ {id} : row'[t] = row[t]
  BY <1>5, <1>7, <1>8
<1>10. ~ row[id].revoked
  BY <1>5 DEF AdministrationInd, RowSound
<1>11. Listed(order')
  BY <1>1, <1>5 DEF Shapes
<1>12. /\ intents' \in [Targets -> Nat]
       /\ \A t \in Targets : intents'[t] = intents[t] + (IF t = id /\ r.op = "test" THEN 1 ELSE 0)
  BY <1>1, <1>5, IntentsKept
<1>13. row[id].version < row'[id].version /\ ~ row'[id].revoked
  BY <1>2, <1>4, <1>7, <1>9
<1>14. Committed(h, id, version)
  BY <1>2, <1>3
<1>15. Commits(h, r, id, version)
  BY <1>1, <1>4, <1>5, <1>9, <1>10, <1>11, <1>12, <1>13, <1>14 DEF Commits
<1> QED
  BY <1>15

(* So does a change of the row a request names. *)
LEMMA TargetCommits ==
    ASSUME AdministrationInd, NEW h \in Handlers, NEW r, r = handler[h].req, At(h, "commit"),
           r.op \in {"replace", "revoke", "reorder"}, NEW version \in Nat \ {0}, row[r.target].version < version,
           Committed(h, r.target, version), Listed(order'), intents' = intents,
           NEW v \in Rows, row' = [row EXCEPT ![r.target] = v], v.version = version,
           v.revoked => row[r.target].revoked \/ r.op = "revoke",
           r.kind = "cluster" => v.body = IF UpdatesCluster(r) THEN r.body ELSE row[r.target].body
    PROVE  \E id, number : Commits(h, r, id, number)
<1> USE AdministrationAssumption
<1> PICK t : t = r.target
  OBVIOUS
<1>1. /\ Shapes /\ r.op # "create" /\ t \in Targets /\ t \in Identifiers /\ Kind[t] = r.kind
      /\ ~ row[t].revoked
  BY CommitKnown
<1>2. row \in [Identifiers -> Rows] /\ row' = [row EXCEPT ![t] = v]
  BY <1>1 DEF Shapes
<1>3. row' \in [Identifiers -> Rows] /\ row'[t] = v /\ \A c \in Identifiers \ {t} : row'[c] = row[c]
  BY <1>1, <1>2
<1>4. /\ intents' \in [Targets -> Nat]
      /\ \A c \in Targets : intents'[c] = intents[c] + (IF c = t /\ r.op = "test" THEN 1 ELSE 0)
  BY <1>1, IntentsKept
<1>5. t \in Clusters => r.kind = "cluster"
  BY <1>1 DEF Clusters
<1>6. Commits(h, r, t, version)
  BY <1>1, <1>3, <1>4, <1>5 DEF Commits
<1> QED
  BY <1>6

(* A replacement commits. *)
LEMMA UpdatedCommits ==
    ASSUME AdministrationInd, NEW h \in Handlers, NEW kind, Updated(h, kind), NEW r, r = handler[h].req
    PROVE  \E id, version : Commits(h, r, id, version)
<1>1. At(h, "commit") /\ r.op = "replace" /\ order' = order /\ intents' = intents
  BY DEF Updated
<1> PICK t : t = r.target
  OBVIOUS
<1>2. PICK now \in Clock :
        /\ row' = [row EXCEPT ![t].version = NextVersion(r, now, row[t].version), ![t].body = r.body]
        /\ Committed(h, t, NextVersion(r, now, row[t].version))
  BY DEF Updated
<1>3. PICK version : version = NextVersion(r, now, row[t].version)
  OBVIOUS
<1>4. Shapes /\ r \in Requests /\ t \in Identifiers /\ row[t] \in Rows /\ row[t].version \in Nat
  BY <1>1, CommitKnown
<1>5. version \in Nat \ {0} /\ row[t].version < version
  BY <1>3, <1>4, VersionGrows
<1>6. PICK v : v = [row[t] EXCEPT !.version = version, !.body = r.body]
  OBVIOUS
<1>7. v \in Rows /\ v.version = version /\ v.body = r.body /\ v.revoked = row[t].revoked
  <2>1. r.body \in Bodies
    BY <1>4 DEF Bodies
  <2>2. \A s \in Rows : LET k == [s EXCEPT !.version = version, !.body = r.body] IN
          k \in Rows /\ k.version = version /\ k.body = r.body /\ k.revoked = s.revoked
    BY <1>5, <2>1 DEF Rows
  <2> QED
    BY <1>4, <1>6, <2>2
<1>8. row' = [row EXCEPT ![t] = v]
  BY <1>2, <1>3, <1>4, <1>6 DEF Shapes
<1>9. Listed(order') /\ Committed(h, t, version)
  BY <1>1, <1>2, <1>3, <1>4 DEF Shapes
<1>10. r.kind = "cluster" => UpdatesCluster(r)
  BY <1>1 DEF UpdatesCluster
<1> QED
  BY <1>1, <1>5, <1>7, <1>8, <1>9, <1>10, TargetCommits

(* A revocation commits. *)
LEMMA RevokeCommits ==
    ASSUME AdministrationInd, NEW h \in Handlers, Revoke(h), NEW r, r = handler[h].req
    PROVE  \E id, version : Commits(h, r, id, version)
<1> PICK t : t = r.target
  OBVIOUS
<1> PICK version : version = row[t].version + 1
  OBVIOUS
<1>1. /\ At(h, "commit") /\ r.op = "revoke" /\ order' = order /\ intents' = intents
      /\ row' = [row EXCEPT ![t].version = version, ![t].revoked = TRUE]
      /\ Committed(h, t, version)
  BY DEF Revoke
<1>2. Shapes /\ r \in Requests /\ t \in Identifiers /\ row[t] \in Rows /\ row[t].version \in Nat
  BY <1>1, CommitKnown
<1>3. version \in Nat \ {0} /\ row[t].version < version
  BY <1>2
<1>4. PICK v : v = [row[t] EXCEPT !.version = version, !.revoked = TRUE]
  OBVIOUS
<1>5. v \in Rows /\ v.version = version
  <2>1. \A s \in Rows : LET k == [s EXCEPT !.version = version, !.revoked = TRUE] IN
          k \in Rows /\ k.version = version
    BY <1>3 DEF Rows
  <2> QED
    BY <1>2, <1>4, <2>1
<1>6. row' = [row EXCEPT ![t] = v]
  BY <1>1, <1>2, <1>4 DEF Shapes
<1>7. Listed(order') /\ r.kind # "cluster"
  BY <1>1, <1>2, RequestSound DEF Shapes
<1> QED
  BY <1>1, <1>3, <1>5, <1>6, <1>7, TargetCommits

(* A reorder commits. *)
LEMMA ReorderCommits ==
    ASSUME AdministrationInd, NEW h \in Handlers, ReorderProxmoxCluster(h), NEW r, r = handler[h].req
    PROVE  \E id, version : Commits(h, r, id, version)
<1> PICK t, list : t = r.target /\ list = handler[h].listed
  OBVIOUS
<1>1. /\ At(h, "commit") /\ r.op = "reorder" /\ intents' = intents
      /\ order' = Exchanged(list, Place(h), Neighbour(h))
  BY DEF ReorderProxmoxCluster
<1>2. PICK now \in Clock :
        /\ row' = [row EXCEPT ![t].version = Stamp(now, row[t].version)]
        /\ Committed(h, t, Stamp(now, row[t].version))
  BY DEF ReorderProxmoxCluster
<1>3. PICK version : version = Stamp(now, row[t].version)
  OBVIOUS
<1>4. Shapes /\ r \in Requests /\ t \in Identifiers /\ row[t] \in Rows /\ row[t].version \in Nat
  BY <1>1, CommitKnown
<1>5. version \in Nat \ {0} /\ row[t].version < version
  BY <1>3, <1>4, VersionGrows
<1>6. PICK v : v = [row[t] EXCEPT !.version = version]
  OBVIOUS
<1>7. v \in Rows /\ v.version = version /\ v.body = row[t].body /\ v.revoked = row[t].revoked
  <2>1. \A s \in Rows : LET k == [s EXCEPT !.version = version] IN
          k \in Rows /\ k.version = version /\ k.body = s.body /\ k.revoked = s.revoked
    BY <1>5 DEF Rows
  <2> QED
    BY <1>4, <1>6, <2>1
<1>8. row' = [row EXCEPT ![t] = v]
  BY <1>2, <1>3, <1>4, <1>6 DEF Shapes
<1>9. Listed(list) /\ Neighbour(h) \in 1 .. Len(list)
  BY <1>1 DEF AdministrationInd, PlaceSound, At
<1>10. Place(h) \in 1 .. Len(list)
  <2>1. t \in Clusters
    BY <1>1, <1>4, RequestSound
  <2>2. DOMAIN list = 1 .. Len(list) /\ Elements(list) = Clusters
    BY <1>9 DEF Listed
  <2>3. \E i \in 1 .. Len(list) : list[i] = t
    BY <2>1, <2>2 DEF Elements
  <2> QED
    BY <2>3 DEF Place
<1>11. Listed(order')
  BY <1>1, <1>9, <1>10, ExchangedListed
<1>12. ~ UpdatesCluster(r) /\ Committed(h, t, version)
  BY <1>1, <1>2, <1>3 DEF UpdatesCluster
<1> QED
  BY <1>1, <1>5, <1>7, <1>8, <1>11, <1>12, TargetCommits

(* A test and a check leave the row as it is. *)
LEMMA RowKeptCommits ==
    ASSUME AdministrationInd, NEW h \in Handlers, TestDestination(h) \/ CheckMonitor(h), NEW r, r = handler[h].req
    PROVE  \E id, version : Commits(h, r, id, version)
<1> PICK t : t = r.target
  OBVIOUS
<1> PICK version : version = IF r.op = "test" THEN row[t].version ELSE etag[r]
  OBVIOUS
<1>1. /\ At(h, "commit") /\ r.op \in {"test", "check"} /\ row' = row /\ order' = order
      /\ Committed(h, t, version)
      /\ intents' = IF r.op = "test" THEN [intents EXCEPT ![t] = @ + 1] ELSE intents
  BY DEF TestDestination, CheckMonitor
<1>2. /\ Shapes /\ r \in Requests /\ t \in Targets /\ t \in Identifiers /\ Kind[t] = r.kind
      /\ row[t].version \in Nat \ {0} /\ etag[r] \in Nat \ {0}
  BY <1>1, CommitKnown
<1>3. version \in Nat \ {0} /\ t \notin Clusters
  BY <1>1, <1>2, RequestSound DEF Clusters
<1>4. row' \in [Identifiers -> Rows] /\ Listed(order')
  BY <1>1, <1>2 DEF Shapes
<1>5. /\ intents' \in [Targets -> Nat]
      /\ \A c \in Targets : intents'[c] = intents[c] + (IF c = t /\ r.op = "test" THEN 1 ELSE 0)
  <2>1. intents \in [Targets -> Nat]
    BY <1>2 DEF Shapes
  <2> QED
    BY <1>1, <1>2, <2>1
<1>6. Commits(h, r, t, version)
  BY <1>1, <1>2, <1>3, <1>4, <1>5 DEF Commits
<1> QED
  BY <1>6

-----------------------------------------------------------------------------
(* At the start nothing was sent, and every cluster has the token it came with. *)
LEMMA InitSound == Init => AdministrationInd
<1> USE AdministrationAssumption
<1> SUFFICES ASSUME Init PROVE AdministrationInd
  OBVIOUS
<1>1. wanted \subseteq Requests
  BY DEF Init, Requests
<1>2. Idle \in States /\ Idle.pc = "idle" /\ Idle.token = None
  <2>1. <<>> \in Seq(Clusters)
    OBVIOUS
  <2> QED
    BY <2>1 DEF Idle, States, Steps
<1>3. \A h \in Handlers : handler[h].pc = "idle" /\ handler[h].token = None
  BY <1>2 DEF Init
<1>4. /\ NewRow \in Rows /\ NewRow.version = 1 /\ NewRow.body = Unverified /\ NewRow.revoked = FALSE
      /\ Absent \in Rows /\ Absent.version = 0 /\ Absent.revoked = FALSE
  BY DEF NewRow, Absent, Rows, Bodies
<1>5. Shapes
  <2>1. /\ etag \in [wanted -> Nat] /\ sent \in [wanted -> 0 .. MaxSends] /\ handler \in [Handlers -> States]
        /\ answers \in [wanted -> SUBSET Replies] /\ intents \in [Targets -> Nat]
    BY <1>2 DEF Init
  <2>2. row \in [Identifiers -> Rows]
    BY <1>4 DEF Init, Identifiers
  <2>3. secret \in [Clusters -> Tokens \ {None}]
    BY DEF Init, Tokens
  <2>4. Listed(order)
    BY DEF Init, Listed
  <2>5. audit \in Seq(Entries) /\ asked \subseteq wanted /\ torn \subseteq Clusters
    BY DEF Init
  <2> QED
    BY <1>1, <2>1, <2>2, <2>3, <2>4, <2>5 DEF Shapes
<1>6. audit = <<>> /\ DOMAIN audit = {} /\ receipts = {}
  BY DEF Init
<1>7. KeyAppliedOnce
  <2>1. ASSUME NEW t \in Targets
        PROVE  intents[t] = Cardinality({i \in DOMAIN audit : audit[i].id = t /\ audit[i].req.op = "test"})
    <3>1. {i \in DOMAIN audit : audit[i].id = t /\ audit[i].req.op = "test"} = {}
      BY <1>6
    <3>2. Cardinality({}) = 0
      BY FS_EmptySet
    <3>3. intents[t] = 0
      BY DEF Init
    <3> QED
      BY <3>1, <3>2, <3>3
  <2> QED
    BY <1>6, <2>1 DEF KeyAppliedOnce
<1>8. \A h \in Handlers : PlaceSound(h)
  BY <1>3 DEF PlaceSound, HoldsKey, HoldsRow
<1>9. \A h \in Handlers : TokenSound(h)
  BY <1>3 DEF TokenSound
<1>10. \A g, h \in Handlers : Apart(g, h)
  BY <1>3 DEF Apart, HoldsKey, HoldsRow
<1>11. \A t \in Identifiers : RowSound(t)
  BY <1>4 DEF Init, RowSound, Identifiers
<1>12. ASSUME NEW r \in wanted PROVE ETagPast(r) /\ AnswersSound(r)
  <2>1. etag[r] = 0 /\ answers[r] = {} /\ r \in Requests
    BY <1>1 DEF Init
  <2>2. ASSUME r.op # "create" PROVE 0 <= row[r.target].version
    <3>1. row[r.target].version \in Nat
      BY <1>5, <2>1, <2>2, RequestSound, VersionTyped
    <3> QED
      BY <3>1
  <2> QED
    BY <2>1, <2>2 DEF ETagPast, AnswersSound
<1>13. \A t \in Clusters : PairSound(t)
  <2> SUFFICES ASSUME NEW t \in Clusters PROVE PairSound(t)
    OBVIOUS
  <2>1. t \in Targets
    BY DEF Clusters
  <2>2. row[t].body = Unverified /\ secret[t] = Unverified
    BY <1>4, <2>1 DEF Init
  <2>3. <<t, Unverified, Unverified>> \in validated
    BY DEF Init
  <2> QED
    BY <2>2, <2>3 DEF PairSound
<1> QED
  BY <1>5, <1>6, <1>7, <1>8, <1>9, <1>10, <1>11, <1>12, <1>13 DEF AdministrationInd

(* A step either commits a change or leaves every row as it is. *)
LEMMA StepCases ==
    ASSUME AdministrationInd, Next
    PROVE  \/ AdministrationInd' /\ row' = row
           \/ \E h \in Handlers : \E r, id, version : Commits(h, r, id, version)
<1>1. CASE \E r \in wanted : ReadETag(r)
  <2>1. PICK r \in wanted : ReadETag(r)
    BY <1>1
  <2> QED
    BY <2>1, ReadETagStep DEF ReadETag, tables
<1>2. CASE \E h \in Handlers, r \in wanted : Send(h, r)
  <2>1. PICK h \in Handlers, r \in wanted : Send(h, r)
    BY <1>2
  <2> QED
    BY <2>1, SendStep DEF Send, tables
<1>3. ASSUME NEW h \in Handlers, Fail(h) PROVE AdministrationInd' /\ row' = row
  BY <1>3, FailStep DEF Fail, tables
<1>4. ASSUME NEW h \in Handlers, Handle(h)
      PROVE  \/ AdministrationInd' /\ row' = row
             \/ \E r, id, version : Commits(h, r, id, version)
  <2> PICK r : r = handler[h].req
    OBVIOUS
  <2>1. CASE LookMonitor(h)
    BY <2>1, LookMonitorStep DEF LookMonitor, tables
  <2>2. CASE LookCluster(h)
    BY <2>2, LookClusterStep DEF LookCluster, tables
  <2>3. CASE Replay(h)
    BY <2>3, ReplayStep DEF Replay, tables
  <2>4. CASE ReadRow(h)
    BY <2>4, ReadRowStep DEF ReadRow, tables
  <2>5. CASE ListClusters(h)
    BY <2>5, ListStep DEF ListClusters, tables
  <2>6. CASE LockClusters(h)
    BY <2>6, LockStep DEF LockClusters, tables
  <2>7. CASE WriteSecret(h)
    BY <2>7, WriteSecretStep DEF WriteSecret, tables
  <2>8. CASE AskRuntime(h)
    BY <2>8, AskStep DEF AskRuntime, tables
  <2>9. CASE CreateRule(h) \/ CreateMaintenance(h) \/ CreateSilence(h) \/ CreateDestination(h)
             \/ CreateMonitor(h) \/ CreateIntegration(h)
    <3>1. PICK kind : Inserted(h, kind)
      BY <2>9 DEF CreateRule, CreateMaintenance, CreateSilence, CreateDestination, CreateMonitor, CreateIntegration
    <3> QED
      BY <3>1, InsertedCommits
  <2>10. CASE ReplaceRule(h) \/ ReplaceMaintenance(h) \/ ReplaceSilence(h) \/ ReplaceDestination(h)
              \/ ReplaceMonitor(h) \/ UpdateProxmoxCluster(h) \/ UpdateIntegration(h)
    <3>1. PICK kind : Updated(h, kind)
      BY <2>10 DEF ReplaceRule, ReplaceMaintenance, ReplaceSilence, ReplaceDestination, ReplaceMonitor,
                   UpdateProxmoxCluster, UpdateIntegration
    <3> QED
      BY <3>1, UpdatedCommits
  <2>11. CASE Revoke(h)
    BY <2>11, RevokeCommits
  <2>12. CASE TestDestination(h) \/ CheckMonitor(h)
    BY <2>12, RowKeptCommits
  <2>13. CASE ReorderProxmoxCluster(h)
    BY <2>13, ReorderCommits
  <2>14. CASE Answer(h)
    BY <2>14, AnswerStep DEF Answer, tables
  <2> QED
    BY <1>4, <2>1, <2>2, <2>3, <2>4, <2>5, <2>6, <2>7, <2>8, <2>9, <2>10, <2>11, <2>12, <2>13, <2>14 DEF Handle
<1> QED
  BY <1>1, <1>2, <1>3, <1>4 DEF Next

(* Steps that change nothing. *)
LEMMA StutterSound ==
    ASSUME AdministrationInd, UNCHANGED vars
    PROVE  AdministrationInd'
<1>1. UNCHANGED <<wanted, etag, sent, handler, row, order, secret, receipts, audit, intents,
                  asked, answers, validated, torn>>
  BY DEF vars
<1>2. Shapes' /\ KeyAppliedOnce'
  BY <1>1 DEF AdministrationInd, Shapes, Listed, KeyAppliedOnce, Keyed, Scope
<1>3. ASSUME NEW r, Posted(r) PROVE Posted(r)'
  BY <1>1, <1>3 DEF Posted
<1>4. ASSUME NEW r, NEW a, Truthful(r, a) PROVE Truthful(r, a)'
  BY <1>1, <1>4 DEF Truthful, NeverApplied, ChangesOf, Stored, Scope, Hash, Keyed
<1>5. ASSUME NEW h \in Handlers PROVE PlaceSound(h)' /\ TokenSound(h)'
  <2>1. PlaceSound(h) /\ TokenSound(h)
    BY DEF AdministrationInd
  <2>2. PlaceSound(h)'
    <3>1. handler[h].pc = "reply" => Truthful(handler[h].req, handler[h].reply)'
      <4> PICK r, a : r = handler[h].req /\ a = handler[h].reply
        OBVIOUS
      <4>1. handler[h].pc = "reply" => Truthful(r, a)'
        BY <1>4, <2>1 DEF PlaceSound
      <4> QED
        BY <1>1, <4>1
    <3> QED
      BY <1>1, <1>3, <2>1, <3>1 DEF PlaceSound, UpdatesCluster, Keyed, HoldsKey, HoldsRow, Changes, Listed,
                               Neighbour, Place, Stored, Scope
  <2>3. TokenSound(h)'
    BY <1>1, <2>1 DEF TokenSound, UpdatesCluster, Rotates
  <2> QED
    BY <2>2, <2>3
<1>6. ASSUME NEW g \in Handlers, NEW h \in Handlers PROVE Apart(g, h)'
  <2>1. Apart(g, h)
    BY DEF AdministrationInd
  <2> QED
    BY <1>1, <2>1 DEF Apart, HoldsKey, HoldsRow, Keyed, Scope, LockedRows
<1>7. ASSUME NEW i \in DOMAIN audit' PROVE AuditSound(i)'
  <2>1. AuditSound(i)
    BY <1>1 DEF AdministrationInd
  <2> QED
    BY <1>1, <2>1 DEF AuditSound, Posted, Keyed, Stored, Scope, Changes
<1>8. ASSUME NEW receipt \in receipts' PROVE ReceiptSound(receipt)'
  <2>1. ReceiptSound(receipt)
    BY <1>1 DEF AdministrationInd
  <2> QED
    BY <1>1, <2>1 DEF ReceiptSound, Keyed, Scope, Hash
<1>9. ASSUME NEW r \in wanted' PROVE ETagPast(r)' /\ AnswersSound(r)'
  <2>1. ETagPast(r) /\ AnswersSound(r)
    BY <1>1 DEF AdministrationInd
  <2> QED
    BY <1>1, <1>3, <1>4, <2>1 DEF ETagPast, AnswersSound
<1>10. (\A t \in Identifiers : RowSound(t)') /\ \A t \in Clusters : PairSound(t)'
  BY <1>1 DEF AdministrationInd, RowSound, PairSound, Rotates
<1> QED
  BY <1>2, <1>5, <1>6, <1>7, <1>8, <1>9, <1>10 DEF AdministrationInd

(* The invariant holds throughout. *)
THEOREM AdministrationIndHolds == Spec => []AdministrationInd
<1>1. Init => AdministrationInd
  BY InitSound
<1>2. AdministrationInd /\ [Next]_vars => AdministrationInd'
  BY StepCases, CommitStep, StutterSound
<1> QED
  BY <1>1, <1>2, PTL DEF Spec

(* For any requests, handlers and rows: whatever is sent again, fails or overlaps,
   a key is applied once, and a test that was audited has queued one intent. *)
THEOREM AdministrationSafe == Spec => []AdministrationInv
<1>1. ASSUME AdministrationInd PROVE AdministrationInv
  <2>0. /\ Shapes /\ KeyAppliedOnce /\ \A h \in Handlers : PlaceSound(h)
        /\ \A receipt \in receipts : ReceiptSound(receipt)
        /\ \A r \in wanted : AnswersSound(r)
    BY <1>1 DEF AdministrationInd
  <2>1. \A h \in Handlers : handler[h].pc \in Steps /\ (handler[h].pc # "idle" => handler[h].req \in wanted)
    BY <2>0, StateTyped DEF PlaceSound, Posted
  <2>2. \A t \in Identifiers : row[t].version \in Nat /\ row[t].revoked \in BOOLEAN
    BY <2>0 DEF Shapes, Rows
  <2>3. ASSUME NEW receipt \in receipts PROVE receipt.id \in Identifiers /\ receipt.version \in Nat \ {0}
    <3>1. PICK i \in DOMAIN audit : receipt.id = audit[i].id /\ receipt.version = audit[i].to
      BY <2>0 DEF ReceiptSound
    <3>2. audit[i] \in Entries
      BY <2>0 DEF Shapes
    <3> QED
      BY <3>1, <3>2 DEF Entries
  <2>4. ASSUME NEW r \in wanted, sent[r] = 0 PROVE answers[r] = {}
    BY <2>0, <2>4 DEF AnswersSound, Posted
  <2>5. TypeOK
    BY <2>0, <2>1, <2>2, <2>3, <2>4 DEF TypeOK, Shapes, Listed, Steps, Identifiers
  <2> QED
    BY <2>0, <2>5 DEF AdministrationInv
<1> QED
  BY <1>1, AdministrationIndHolds, PTL

(* Every answered success, the replayed ones too, is the receipt of the change that
   was committed for that very request. *)
THEOREM ReceiptsTrue == Spec => []ReceiptIsOfTheChange
<1>1. ASSUME AdministrationInd PROVE ReceiptIsOfTheChange
  BY <1>1 DEF AdministrationInd, AnswersSound, Truthful, ReceiptIsOfTheChange
<1> QED
  BY <1>1, AdministrationIndHolds, PTL

(* What was answered as stale, or its key as reused, is never applied. *)
THEOREM RefusalsFinal == Spec => []RefusedIsNotApplied
<1>1. ASSUME AdministrationInd PROVE RefusedIsNotApplied
  <2>1. \A r \in wanted : \A a \in answers[r] : Truthful(r, a)
    BY <1>1 DEF AdministrationInd, AnswersSound
  <2> QED
    BY <2>1 DEF Truthful, NeverApplied, RefusedIsNotApplied
<1> QED
  BY <1>1, AdministrationIndHolds, PTL

(* Rows that are locked are changed from the version the administrator had read. *)
THEOREM NoUpdateLost == Spec => []NoLostUpdate
<1>1. ASSUME AdministrationInd PROVE NoLostUpdate
  BY <1>1 DEF AdministrationInd, AuditSound, Changes, NoLostUpdate
<1> QED
  BY <1>1, AdministrationIndHolds, PTL

(* A cluster is stored with a token that was accepted with its configuration, but
   for updates that failed or are under way after replacing the token. *)
THEOREM PairsValidated == Spec => []StoredPairValidated
<1>1. ASSUME AdministrationInd PROVE StoredPairValidated
  <2>1. ASSUME NEW t \in Clusters, NEW h \in Handlers, Rotates(h, t)
        PROVE  handler[h].pc = "commit" /\ t \in LockedRows(handler[h].req)
    <3>1. handler[h].pc = "commit" /\ handler[h].req.token # None /\ handler[h].req.target = t
      BY <2>1 DEF Rotates
    <3>2. handler[h].req \in Requests
      BY <1>1, <3>1 DEF AdministrationInd, PlaceSound, Posted, Shapes
    <3>3. UpdatesCluster(handler[h].req)
      BY <3>1, <3>2, RequestSound
    <3> QED
      BY <3>1, <3>3 DEF LockedRows, UpdatesCluster
  <2> QED
    BY <1>1, <2>1 DEF AdministrationInd, PairSound, StoredPairValidated
<1> QED
  BY <1>1, AdministrationIndHolds, PTL

(* A row that changes gets a greater version and was not revoked, whatever the
   clock shows: no stale ETag becomes current again. *)
THEOREM VersionsGrow == Spec => VersionsMoveOn
<1> DEFINE Step == \A t \in DOMAIN row :
                      row'[t] # row[t] => row'[t].version > row[t].version /\ ~ row[t].revoked
<1>1. ASSUME AdministrationInd, [Next]_vars PROVE [Step]_vars
  <2>1. CASE UNCHANGED vars
    BY <2>1
  <2>2. CASE row' = row
    BY <2>2
  <2>3. ASSUME NEW h \in Handlers, NEW r, NEW id, NEW version, Commits(h, r, id, version) PROVE Step
    <3>1. /\ DOMAIN row = Identifiers /\ row \in [Identifiers -> Rows] /\ row' \in [Identifiers -> Rows]
          /\ \A t \in Identifiers \ {id} : row'[t] = row[t]
          /\ row'[id] # row[id] => row[id].version < row'[id].version /\ ~ row[id].revoked
      BY <1>1, <2>3 DEF AdministrationInd, Shapes, Commits
    <3>2. \A t \in Identifiers : row[t].version \in Nat /\ row'[t].version \in Nat
      BY <3>1 DEF Rows
    <3> QED
      BY <3>1, <3>2
  <2> QED
    BY <1>1, <2>1, <2>2, <2>3, StepCases
<1> QED
  BY <1>1, AdministrationIndHolds, PTL DEF Spec, VersionsMoveOn
=============================================================================
