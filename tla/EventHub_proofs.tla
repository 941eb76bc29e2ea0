--------------------------- MODULE EventHub_proofs ---------------------------
(***************************************************************************)
(* Proofs about live invalidations: that a stream is complete up to the    *)
(* newest event, that the replay window holds the newest events and that a *)
(* page which follows the hub by its cursor is fresh hold for any clients, *)
(* capacities, replay sizes, changes and restarts.                         *)
(***************************************************************************)
EXTENDS EventHub, TLAPS, WellFoundedInduction

(* Event IDs count the changes announced since Core started; a subscriber is
   not ahead of them. *)
Announced ==
    /\ nextID + unannounced <= version
    /\ \A c \in Clients : status[c] = "open" => from[c] <= nextID

(* The database version, less what was announced or is still to be announced
   in this run of Core: the version at its start, for all that the hub knows. *)
Base == version - unannounced - nextID

(* A page whose cursor comes from this run of Core has received the events up
   to it, its open stream goes on from there, and unless a refetch is still
   due, what it shows or is reading is at least as new as that event. *)
PageFollows(c) ==
    /\ view[c] <= version /\ fetched[c] <= version
    /\ cursor[c].boot <= boot
    /\ cursor[c].boot = boot =>
          /\ cursor[c].id <= nextID
          /\ (status[c] = "open" /\ ~resync[c]) => cursor[c].id = from[c]
          /\ (status[c] # "off" /\ ~timer[c]) =>
                IF fetched[c] # NoFetch THEN fetched[c] >= Base + cursor[c].id
                ELSE view[c] = Problem \/ view[c] >= Base + cursor[c].id

(* The inductive invariant. *)
HubInd ==
    /\ TypeOK /\ StreamComplete /\ WindowIsNewest /\ Announced
    /\ \A c \in Clients : PageFollows(c)

-----------------------------------------------------------------------------
(* The n IDs that follow a. *)
Run(a, n) == [k \in 1 .. n |-> a + k]

(* A run is a sequence of its length. *)
LEMMA RunIsSeq ==
    ASSUME NEW a \in Nat, NEW n \in Nat
    PROVE  /\ Run(a, n) \in Seq(Nat) /\ Len(Run(a, n)) = n
           /\ \A k \in 1 .. n : Run(a, n)[k] = a + k
BY DEF Run

(* Appending the next ID makes a longer run. *)
LEMMA RunAppend ==
    ASSUME NEW a \in Nat, NEW n \in Nat
    PROVE  Append(Run(a, n), a + n + 1) = Run(a, n + 1)
<1>1. Run(a, n) \in Seq(Nat) /\ Len(Run(a, n)) = n
  BY RunIsSeq
<1>2. Append(Run(a, n), a + n + 1) \in Seq(Nat) /\ Len(Append(Run(a, n), a + n + 1)) = n + 1
  BY <1>1
<1>3. \A k \in 1 .. n : Run(a, n)[k] = a + k
  BY RunIsSeq
<1>4. \A k \in 1 .. n : Append(Run(a, n), a + n + 1)[k] = Run(a, n)[k]
  BY <1>1
<1>5. Append(Run(a, n), a + n + 1)[n + 1] = a + n + 1
  BY <1>1
<1>6. \A k \in 1 .. n + 1 : k = n + 1 \/ k \in 1 .. n
  OBVIOUS
<1>7. \A k \in 1 .. n + 1 : Append(Run(a, n), a + n + 1)[k] = a + k
  BY <1>3, <1>4, <1>5, <1>6
<1> QED
  BY <1>2, <1>7 DEF Run

(* A run without its head is a run. *)
LEMMA RunTail ==
    ASSUME NEW a \in Nat, NEW n \in Nat, n > 0
    PROVE  Head(Run(a, n)) = a + 1 /\ Tail(Run(a, n)) = Run(a + 1, n - 1)
<1>1. Run(a, n) \in Seq(Nat) /\ Len(Run(a, n)) = n /\ \A k \in 1 .. n : Run(a, n)[k] = a + k
  BY RunIsSeq
<1>2. Head(Run(a, n)) = a + 1
  BY <1>1
<1>3. Tail(Run(a, n)) \in Seq(Nat) /\ Len(Tail(Run(a, n))) = n - 1
  BY <1>1
<1>4. \A k \in 1 .. n - 1 : Tail(Run(a, n))[k] = a + 1 + k
  BY <1>1
<1> QED
  BY <1>2, <1>3, <1>4 DEF Run

(* The last IDs of a run are a run. *)
LEMMA RunLast ==
    ASSUME NEW a \in Nat, NEW n \in Nat, NEW m \in Nat, m <= n, m > 0
    PROVE  SubSeq(Run(a, n), n - m + 1, n) = Run(a + n - m, m)
<1>1. Run(a, n) \in Seq(Nat) /\ Len(Run(a, n)) = n /\ \A k \in 1 .. n : Run(a, n)[k] = a + k
  BY RunIsSeq
<1>2. /\ SubSeq(Run(a, n), n - m + 1, n) \in Seq(Nat)
      /\ Len(SubSeq(Run(a, n), n - m + 1, n)) = m
      /\ \A k \in 1 .. m : SubSeq(Run(a, n), n - m + 1, n)[k] = Run(a, n)[n - m + k]
  BY <1>1
<1>3. \A k \in 1 .. m : SubSeq(Run(a, n), n - m + 1, n)[k] = a + n - m + k
  BY <1>1, <1>2
<1> QED
  BY <1>2, <1>3 DEF Run

(* Every nonempty set of numbers has a least one. *)
LEMMA LeastNumber ==
    ASSUME NEW T, T \subseteq Nat, T # {}
    PROVE  \E x \in T : \A y \in T : x <= y
<1>1. PICK x \in T : \A y \in T : ~ (<<y, x>> \in OpToRel(<, Nat))
  BY NatLessThanWellFounded, WFMin
<1>2. \A y \in T : y \in Nat /\ x \in Nat
  OBVIOUS
<1>3. \A y \in T : y < x => <<y, x>> \in OpToRel(<, Nat)
  BY <1>2 DEF OpToRel
<1>4. \A y \in T : ~ (y < x)
  BY <1>1, <1>3, Zenon
<1> QED
  BY <1>2, <1>4

(* What the replay loop has sent after n of the retained events when the
   window is a run that the cursor is not behind. *)
LEMMA AfterIsRun ==
    ASSUME NEW a \in Nat, NEW size \in Nat, replay = Run(a, size),
           NEW id \in Nat, a <= id, id <= a + size
    PROVE  After(id) = Run(id, a + size - id)
<1> DEFINE Loop(f) == f = [n \in 0 .. Len(replay) |->
                             IF n = 0 THEN <<>>
                             ELSE IF replay[n] <= id THEN f[n - 1]
                             ELSE Append(f[n - 1], replay[n])]
           sent == [n \in 0 .. size |-> Run(id, IF a + n <= id THEN 0 ELSE a + n - id)]
<1>1. Len(replay) = size /\ \A n \in 1 .. size : replay[n] = a + n
  BY RunIsSeq
<1>2. Loop(sent)
  <2>1. \A n \in 0 .. size :
          sent[n] = IF n = 0 THEN <<>>
                    ELSE IF replay[n] <= id THEN sent[n - 1]
                    ELSE Append(sent[n - 1], replay[n])
    <3> SUFFICES ASSUME NEW n \in 0 .. size
                 PROVE  sent[n] = IF n = 0 THEN <<>>
                                  ELSE IF replay[n] <= id THEN sent[n - 1]
                                  ELSE Append(sent[n - 1], replay[n])
      OBVIOUS
    <3>1. CASE n = 0
      BY <3>1 DEF Run
    <3>2. CASE n # 0 /\ a + n <= id
      BY <1>1, <3>2
    <3>3. CASE n # 0 /\ a + n > id
      <4>1. sent[n] = Run(id, a + n - id)
        BY <3>3
      <4>2. sent[n - 1] = Run(id, a + n - 1 - id)
        BY <3>3
      <4>3. replay[n] = a + n /\ ~ (replay[n] <= id)
        BY <1>1, <3>3
      <4>4. Append(Run(id, a + n - 1 - id), id + (a + n - 1 - id) + 1) = Run(id, (a + n - 1 - id) + 1)
        <5>1. a + n - 1 - id \in Nat
          BY <3>3
        <5> HIDE DEF sent
        <5> QED
          BY <5>1, RunAppend
      <4>5. id + (a + n - 1 - id) + 1 = a + n /\ (a + n - 1 - id) + 1 = a + n - id
        OBVIOUS
      <4> HIDE DEF sent
      <4> QED
        BY <3>3, <4>1, <4>2, <4>3, <4>4, <4>5
    <3> QED
      BY <3>1, <3>2, <3>3
  <2> QED
    BY <1>1, <2>1
<1>3. Selected(id) = CHOOSE f : Loop(f)
  BY DEF Selected
<1> HIDE DEF Loop, sent
<1>4. Loop(Selected(id))
  BY <1>2, <1>3
<1> DEFINE wrong == {n \in 0 .. size : Selected(id)[n] # sent[n]}
<1>5. wrong = {}
  <2> SUFFICES ASSUME wrong # {} PROVE FALSE
    OBVIOUS
  <2>1. PICK n \in wrong : \A m \in wrong : n <= m
    <3>1. wrong \subseteq Nat
      OBVIOUS
    <3> HIDE DEF wrong
    <3> QED
      BY <3>1, LeastNumber
  <2>2. n \in 0 .. size /\ Selected(id)[n] # sent[n]
    BY <2>1
  <2>3. n # 0 => Selected(id)[n - 1] = sent[n - 1]
    BY <2>1, <2>2
  <2>4. Selected(id)[n] = IF n = 0 THEN <<>>
                          ELSE IF replay[n] <= id THEN Selected(id)[n - 1]
                          ELSE Append(Selected(id)[n - 1], replay[n])
    BY <1>1, <1>4, <2>2 DEF Loop
  <2>5. sent[n] = IF n = 0 THEN <<>>
                  ELSE IF replay[n] <= id THEN sent[n - 1]
                  ELSE Append(sent[n - 1], replay[n])
    BY <1>1, <1>2, <2>2 DEF Loop
  <2> QED
    BY <2>2, <2>3, <2>4, <2>5
<1>6. After(id) = sent[size]
  BY <1>1, <1>5 DEF After
<1>7. sent[size] = Run(id, a + size - id)
  BY DEF sent
<1> QED
  BY <1>6, <1>7

-----------------------------------------------------------------------------
(* Streams that were open and did not change are still complete. *)
LEMMA StreamsKept ==
    ASSUME StreamComplete, Announced, nextID' = nextID, unannounced' = unannounced, version' = version,
           \A c \in Clients : status'[c] = "open" =>
               /\ status[c] = "open" /\ queue'[c] = queue[c]
               /\ resync'[c] = resync[c] /\ from'[c] = from[c]
    PROVE  StreamComplete' /\ Announced'
<1>1. StreamComplete'
  BY DEF StreamComplete, Resynced, Marker
<1>2. Announced'
  BY DEF Announced
<1> QED
  BY <1>1, <1>2

(* The steps of a page and of its connection that deliver nothing. *)
LEMMA PageStep ==
    ASSUME HubInd, NEW c \in Clients,
           \/ Mount(c) \/ Connect(c) \/ ReceiveResync(c) \/ Disconnect(c) \/ Heartbeat(c)
           \/ Refetch(c) \/ RefetchRefused(c) \/ Show(c) \/ Revoke(c)
    PROVE  HubInd'
<1> USE HubAssumption
<1>0. TypeOK /\ StreamComplete /\ WindowIsNewest /\ Announced /\ \A d \in Clients : PageFollows(d)
  BY DEF HubInd
<1>1. UNCHANGED <<version, unannounced, boot, nextID, replay>>
  BY DEF Mount, Connect, ReceiveResync, Disconnect, Heartbeat, Refetch, RefetchRefused, Show, Revoke, hub
<1>2. /\ status' \in [Clients -> Statuses]
      /\ \A d \in Clients : d # c => status'[d] = status[d]
      /\ status'[c] \in {"open", "admitted"} => status[c] # "off"
  BY <1>0 DEF Mount, Connect, ReceiveResync, Disconnect, Heartbeat, Refetch, RefetchRefused, Show, Revoke,
              Closed, stream, TypeOK, Statuses
<1>3. /\ queue' \in [Clients -> Seq(IDs \cup {Marker})]
      /\ \A d \in Clients : queue'[d] \in {queue[d], <<>>}
      /\ resync' \in [Clients -> BOOLEAN] /\ from' \in [Clients -> IDs]
  <2>1. /\ queue' = queue \/ queue' = [queue EXCEPT ![c] = <<>>]
        /\ resync' = resync \/ resync' = [resync EXCEPT ![c] = FALSE]
        /\ from' = from \/ from' = [from EXCEPT ![c] = 0]
    BY DEF Mount, Connect, ReceiveResync, Disconnect, Heartbeat, Refetch, RefetchRefused, Show, Revoke,
           Closed, stream
  <2>2. <<>> \in Seq(IDs \cup {Marker}) /\ 0 \in IDs
    BY DEF IDs
  <2>3. queue \in [Clients -> Seq(IDs \cup {Marker})] /\ resync \in [Clients -> BOOLEAN] /\ from \in [Clients -> IDs]
    BY <1>0 DEF TypeOK
  <2>4. queue' \in [Clients -> Seq(IDs \cup {Marker})] /\ \A d \in Clients : queue'[d] \in {queue[d], <<>>}
    BY <2>1, <2>2, <2>3
  <2> QED
    BY <2>1, <2>2, <2>3, <2>4
<1>4. \A d \in Clients : status'[d] = "open" =>
               /\ status[d] = "open" /\ queue'[d] = queue[d]
               /\ resync'[d] = resync[d] /\ from'[d] = from[d]
  BY <1>0 DEF Mount, Connect, ReceiveResync, Disconnect, Heartbeat, Refetch, RefetchRefused, Show, Revoke,
              Closed, stream, TypeOK
<1>5. /\ cursor' \in [Clients -> Cursors] /\ timer' \in [Clients -> BOOLEAN]
      /\ fetched' \in [Clients -> IDs \cup {NoFetch}] /\ view' \in [Clients -> IDs \cup {Problem}]
      /\ revoked' \in [Clients -> BOOLEAN]
  <2>1. cursor' = cursor \/ cursor' = [cursor EXCEPT ![c] = NoCursor]
    BY DEF Mount, Connect, ReceiveResync, Disconnect, Heartbeat, Refetch, RefetchRefused, Show, Revoke, page
  <2>2. \E b \in BOOLEAN : timer' = timer \/ timer' = [timer EXCEPT ![c] = b]
    BY DEF Mount, Connect, ReceiveResync, Disconnect, Heartbeat, Refetch, RefetchRefused, Show, Revoke,
           QueueRefresh, page
  <2>3. \/ fetched' = fetched
        \/ \E v \in {NoFetch, version} : fetched' = [fetched EXCEPT ![c] = v]
    BY DEF Mount, Connect, ReceiveResync, Disconnect, Heartbeat, Refetch, RefetchRefused, Show, Revoke, page
  <2>4. \/ view' = view
        \/ view' = [view EXCEPT ![c] = version] \/ view' = [view EXCEPT ![c] = Problem]
        \/ fetched[c] # NoFetch /\ view' = [view EXCEPT ![c] = fetched[c]]
    BY DEF Mount, Connect, ReceiveResync, Disconnect, Heartbeat, Refetch, RefetchRefused, Show, Revoke, page
  <2>5. \E b \in BOOLEAN : revoked' = revoked \/ revoked' = [revoked EXCEPT ![c] = b]
    BY DEF Mount, Connect, ReceiveResync, Disconnect, Heartbeat, Refetch, RefetchRefused, Show, Revoke
  <2>6. /\ cursor \in [Clients -> Cursors] /\ timer \in [Clients -> BOOLEAN]
        /\ fetched \in [Clients -> IDs \cup {NoFetch}] /\ view \in [Clients -> IDs \cup {Problem}]
        /\ revoked \in [Clients -> BOOLEAN] /\ version \in IDs /\ NoCursor \in Cursors
    BY <1>0 DEF TypeOK, Cursors
  <2>7. cursor' \in [Clients -> Cursors]
    BY <2>1, <2>6
  <2>8. timer' \in [Clients -> BOOLEAN] /\ revoked' \in [Clients -> BOOLEAN]
    BY <2>2, <2>5, <2>6
  <2>9. fetched' \in [Clients -> IDs \cup {NoFetch}]
    BY <2>3, <2>6
  <2>10. view' \in [Clients -> IDs \cup {Problem}]
    BY <2>4, <2>6
  <2> QED
    BY <2>7, <2>8, <2>9, <2>10
<1>6. \A d \in Clients : d # c => /\ cursor'[d] = cursor[d] /\ timer'[d] = timer[d]
                                  /\ fetched'[d] = fetched[d] /\ view'[d] = view[d]
  BY <1>0 DEF Mount, Connect, ReceiveResync, Disconnect, Heartbeat, Refetch, RefetchRefused, Show, Revoke,
              QueueRefresh, page, TypeOK
<1>7. TypeOK'
  <2>1. \A d \in Clients : Len(queue'[d]) <= Capacity
    <3>1. Len(<<>>) <= Capacity
      OBVIOUS
    <3> QED
      BY <1>0, <1>3, <3>1 DEF TypeOK
  <2> QED
    BY <1>0, <1>1, <1>2, <1>3, <1>5, <2>1 DEF TypeOK
<1>8. StreamComplete' /\ Announced'
  BY <1>0, <1>1, <1>4, StreamsKept
<1>9. WindowIsNewest'
  BY <1>0, <1>1 DEF WindowIsNewest
<1>10. ASSUME NEW d \in Clients, d # c PROVE PageFollows(d)'
  BY <1>0, <1>1, <1>2, <1>4, <1>6, <1>10 DEF PageFollows, Base
<1>11. PageFollows(c)'
  <2>0. /\ PageFollows(c) /\ version \in IDs /\ unannounced \in IDs /\ nextID \in IDs /\ boot \in 1 .. MaxBoots
        /\ view[c] \in IDs \cup {Problem} /\ fetched[c] \in IDs \cup {NoFetch}
        /\ timer[c] \in BOOLEAN /\ NoCursor.boot = 0
    BY <1>0 DEF TypeOK, NoCursor
  <2>1. CASE Mount(c) \/ ReceiveResync(c)
    <3>1. /\ cursor'[c] = NoCursor
          /\ view'[c] \in {version, view[c]} /\ fetched'[c] \in {NoFetch, fetched[c]}
      BY <1>0, <2>1 DEF Mount, ReceiveResync, TypeOK
    <3> QED
      BY <1>1, <2>0, <3>1 DEF PageFollows, IDs, NoFetch
  <2>2. CASE Refetch(c)
    <3>1. /\ timer'[c] = FALSE /\ fetched'[c] = version
          /\ UNCHANGED <<status, resync, from, cursor, view>>
      BY <1>0, <2>2 DEF Refetch, TypeOK, stream
    <3>2. cursor[c].boot = boot => version >= Base + cursor[c].id
      <4>1. cursor[c] \in Cursors
        BY <1>0 DEF TypeOK
      <4>2. cursor[c].id \in IDs
        BY <4>1 DEF Cursors, NoCursor, IDs
      <4> QED
        BY <2>0, <4>2 DEF PageFollows, Base, IDs
    <3>3. version # NoFetch /\ version <= version
      BY <2>0 DEF NoFetch, IDs
    <3> QED
      BY <1>1, <2>0, <3>1, <3>2, <3>3 DEF PageFollows, Base
  <2>3. CASE RefetchRefused(c)
    <3>1. status'[c] = "off" /\ UNCHANGED <<cursor, fetched, view>>
      BY <1>0, <2>3 DEF RefetchRefused, TypeOK
    <3> QED
      BY <1>1, <2>0, <3>1 DEF PageFollows
  <2>4. CASE Show(c)
    <3>1. /\ fetched[c] # NoFetch /\ fetched'[c] = NoFetch /\ view'[c] \in {fetched[c], Problem}
          /\ UNCHANGED <<status, resync, from, cursor, timer>>
      BY <1>0, <2>4 DEF Show, TypeOK, stream
    <3>2. NoFetch <= version /\ Problem <= version
      BY <2>0 DEF NoFetch, Problem, IDs
    <3> QED
      BY <1>1, <2>0, <3>1, <3>2 DEF PageFollows, Base
  <2>5. CASE Connect(c) \/ Disconnect(c) \/ Heartbeat(c) \/ Revoke(c)
    <3>1. UNCHANGED <<cursor, timer, fetched, view>> /\ (status'[c] # "off" => status[c] # "off")
      BY <1>0, <2>5 DEF Connect, Disconnect, Heartbeat, Revoke, Closed, page, stream, TypeOK
    <3> QED
      BY <1>1, <1>4, <2>0, <3>1 DEF PageFollows, Base
  <2> QED
    BY <2>1, <2>2, <2>3, <2>4, <2>5
<1> QED
  BY <1>7, <1>8, <1>9, <1>10, <1>11 DEF HubInd

(* A received event moves the cursor and the stream on by one. *)
LEMMA ReceiveStep ==
    ASSUME HubInd, NEW c \in Clients, ReceiveChange(c)
    PROVE  HubInd'
<1> USE HubAssumption
<1>0. TypeOK /\ StreamComplete /\ WindowIsNewest /\ Announced /\ \A d \in Clients : PageFollows(d)
  BY DEF HubInd
<1>1. UNCHANGED <<version, unannounced, boot, nextID, replay, status, resync, fetched, view, revoked>>
  BY DEF ReceiveChange, hub
<1>2. nextID \in Nat /\ from[c] \in Nat /\ from[c] <= nextID /\ nextID \in IDs /\ status[c] = "open"
  BY <1>0 DEF TypeOK, IDs, Announced, ReceiveChange
<1> DEFINE left == nextID - from[c]
<1>3. ~ resync[c] /\ queue[c] = Run(from[c], left)
  <2>1. Head(Resynced) = Marker
    BY DEF Resynced
  <2> QED
    BY <1>0, <1>2, <2>1 DEF StreamComplete, ReceiveChange, Run
<1>4. left \in Nat /\ left > 0
  <2>1. left \in Nat
    BY <1>2
  <2>2. left # 0
    <3>1. Run(from[c], 0) = <<>>
      BY DEF Run
    <3> QED
      BY <1>3, <3>1 DEF ReceiveChange
  <2> QED
    BY <2>1, <2>2
<1>5. Head(queue[c]) = from[c] + 1 /\ Tail(queue[c]) = Run(from[c] + 1, left - 1)
  BY <1>2, <1>3, <1>4, RunTail
<1>6. /\ queue'[c] = Run(from[c] + 1, left - 1) /\ from'[c] = from[c] + 1
      /\ cursor'[c] = [id |-> from[c] + 1, boot |-> boot] /\ timer'[c] = TRUE
      /\ \A d \in Clients : d # c => /\ queue'[d] = queue[d] /\ from'[d] = from[d]
                                     /\ cursor'[d] = cursor[d] /\ timer'[d] = timer[d]
  BY <1>0, <1>5 DEF ReceiveChange, QueueRefresh, TypeOK
<1>7. from[c] + 1 \in IDs /\ from[c] + 1 <= nextID
  BY <1>2, <1>4 DEF IDs
<1>8. TypeOK'
  <2>1. /\ queue[c] \in Seq(IDs \cup {Marker}) /\ queue[c] # <<>> /\ Len(queue[c]) <= Capacity
    BY <1>0 DEF TypeOK, ReceiveChange
  <2>2. Tail(queue[c]) \in Seq(IDs \cup {Marker}) /\ Len(Tail(queue[c])) <= Capacity
    BY <2>1
  <2>3. queue' = [queue EXCEPT ![c] = Tail(queue[c])]
    BY <1>0 DEF ReceiveChange, TypeOK
  <2>4. queue' \in [Clients -> Seq(IDs \cup {Marker})] /\ \A d \in Clients : Len(queue'[d]) <= Capacity
    BY <1>0, <2>2, <2>3 DEF TypeOK
  <2>5. from' \in [Clients -> IDs]
    BY <1>0, <1>5, <1>7 DEF ReceiveChange, TypeOK
  <2>6. cursor' \in [Clients -> Cursors] /\ timer' \in [Clients -> BOOLEAN]
    <3>1. [id |-> from[c] + 1, boot |-> boot] \in Cursors
      BY <1>0, <1>7 DEF TypeOK, Cursors
    <3> QED
      BY <1>0, <1>5, <3>1 DEF ReceiveChange, QueueRefresh, TypeOK
  <2> QED
    BY <1>0, <1>1, <2>4, <2>5, <2>6 DEF TypeOK
<1>9. StreamComplete' /\ Announced'
  <2>1. nextID - (from[c] + 1) = left - 1
    BY <1>2
  <2>2. StreamComplete'
    <3> SUFFICES ASSUME NEW d \in Clients, status'[d] = "open"
                 PROVE  IF resync'[d] THEN queue'[d] = Resynced'
                        ELSE queue'[d] = [n \in 1 .. nextID' - from'[d] |-> from'[d] + n]
      BY DEF StreamComplete
    <3>1. CASE d = c
      <4>1. from'[c] = from[c] + 1 /\ nextID' - from'[c] = left - 1
        BY <1>1, <1>6, <2>1
      <4>2. queue'[c] = [n \in 1 .. left - 1 |-> from[c] + 1 + n] /\ ~ resync'[c]
        BY <1>1, <1>3, <1>6 DEF Run
      <4> HIDE DEF left
      <4> QED
        BY <3>1, <4>1, <4>2
    <3>2. CASE d # c
      BY <1>0, <1>1, <1>6, <3>2 DEF StreamComplete, Resynced, Marker
    <3> QED
      BY <3>1, <3>2
  <2>3. Announced'
    BY <1>0, <1>1, <1>6, <1>7 DEF Announced
  <2> QED
    BY <2>2, <2>3
<1>10. WindowIsNewest'
  BY <1>0, <1>1 DEF WindowIsNewest
<1>11. ASSUME NEW d \in Clients PROVE PageFollows(d)'
  <2>0. PageFollows(d)
    BY <1>0
  <2>1. CASE d # c
    BY <1>1, <1>6, <2>0, <2>1 DEF PageFollows, Base
  <2>2. CASE d = c
    <3>1. boot <= boot
      BY <1>0 DEF TypeOK
    <3>2. cursor'[c].id = from[c] + 1 /\ cursor'[c].boot = boot
      BY <1>6
    <3> QED
      BY <1>1, <1>6, <1>7, <2>0, <2>2, <3>1, <3>2 DEF PageFollows
  <2> QED
    BY <2>1, <2>2
<1> QED
  BY <1>8, <1>9, <1>10, <1>11 DEF HubInd

(* A subscription starts where the cursor is, if the window still has all
   that follows and it fits the channel: nothing is missing or repeated. *)
LEMMA SubscribeStep ==
    ASSUME HubInd, NEW c \in Clients, Subscribe(c)
    PROVE  HubInd'
<1> USE HubAssumption
<1> DEFINE id == cursor[c].id
           lost == cursor[c] # NoCursor /\ (OutsideWindow(id) \/ Len(After(id)) > Capacity)
           size == Len(replay)
<1>0. TypeOK /\ StreamComplete /\ WindowIsNewest /\ Announced /\ \A d \in Clients : PageFollows(d)
  BY DEF HubInd
<1>1. /\ UNCHANGED <<version, unannounced, boot, nextID, replay, cursor, timer, fetched, view, revoked>>
      /\ status[c] = "admitted"
      /\ status' = [status EXCEPT ![c] = "open"]
      /\ resync' = [resync EXCEPT ![c] = lost]
      /\ queue' = [queue EXCEPT ![c] = CASE lost -> Resynced
                                         [] cursor[c] = NoCursor -> <<>>
                                         [] OTHER -> After(id)]
      /\ from' = [from EXCEPT ![c] = IF lost \/ cursor[c] = NoCursor THEN nextID ELSE id]
  BY DEF Subscribe, hub, page
<1>2. /\ nextID \in IDs /\ nextID \in Nat /\ cursor[c] \in Cursors /\ id \in IDs /\ id \in Nat
      /\ cursor[c] = NoCursor => cursor[c].boot = 0
  <2>1. nextID \in IDs /\ cursor[c] \in Cursors
    BY <1>0 DEF TypeOK
  <2> QED
    BY <2>1 DEF Cursors, NoCursor, IDs
<1>3. ASSUME ~ lost, cursor[c] # NoCursor
      PROVE  id <= nextID /\ After(id) = Run(id, nextID - id) /\ nextID - id <= Capacity
  <2>1. ~ OutsideWindow(id) /\ ~ (Len(After(id)) > Capacity)
    BY <1>3
  <2>2. size \in Nat /\ size <= nextID /\ replay = Run(nextID - size, size) /\ (size = 0 => nextID = 0)
    BY <1>0, <1>2 DEF WindowIsNewest, TypeOK, Run
  <2>3. id <= nextID
    BY <1>2, <2>1 DEF OutsideWindow
  <2>4. nextID - size <= id
    <3>1. CASE size = 0
      BY <1>2, <2>2, <3>1
    <3>2. CASE size # 0
      <4>1. replay # <<>> /\ replay[1] = nextID - size + 1
        <5>1. nextID - size \in Nat /\ 1 \in 1 .. size
          BY <1>2, <2>2, <3>2
        <5>2. Run(nextID - size, size)[1] = nextID - size + 1
          BY <2>2, <5>1, RunIsSeq
        <5> QED
          BY <2>2, <3>2, <5>2
      <4> QED
        BY <1>2, <2>1, <2>2, <4>1 DEF OutsideWindow
    <3> QED
      BY <3>1, <3>2
  <2>5. After(id) = Run(id, nextID - id)
    <3>1. nextID - size \in Nat /\ nextID - size + size = nextID
      BY <1>2, <2>2
    <3> HIDE DEF id, size
    <3> QED
      BY <1>2, <2>2, <2>3, <2>4, <3>1, AfterIsRun
  <2>6. nextID - id \in Nat /\ Len(Run(id, nextID - id)) = nextID - id
    <3>1. nextID - id \in Nat
      BY <1>2, <2>3
    <3> HIDE DEF id
    <3> QED
      BY <1>2, <3>1, RunIsSeq
  <2> QED
    BY <1>2, <2>1, <2>3, <2>5, <2>6
<1>4. /\ from'[c] = (IF lost \/ cursor[c] = NoCursor THEN nextID ELSE id)
      /\ status'[c] = "open" /\ resync'[c] = lost
      /\ \A d \in Clients : d # c => /\ status'[d] = status[d] /\ resync'[d] = resync[d]
                                     /\ queue'[d] = queue[d] /\ from'[d] = from[d]
  BY <1>0, <1>1 DEF TypeOK
<1>5. lost => queue'[c] = Resynced
  BY <1>0, <1>1 DEF TypeOK
<1>6. ~ lost => queue'[c] = Run(from'[c], nextID - from'[c]) /\ nextID - from'[c] \in 0 .. Capacity
  <2>1. CASE lost
    BY <2>1
  <2>2. CASE ~ lost /\ cursor[c] = NoCursor
    <3>1. from'[c] = nextID /\ queue'[c] = <<>>
      BY <1>0, <1>1, <2>2 DEF TypeOK
    <3>2. Run(nextID, 0) = <<>> /\ nextID - nextID = 0
      BY <1>2 DEF Run
    <3> QED
      BY <3>1, <3>2
  <2>3. CASE ~ lost /\ cursor[c] # NoCursor
    <3>1. from'[c] = id /\ queue'[c] = After(id)
      BY <1>0, <1>1, <2>3 DEF TypeOK
    <3> QED
      BY <1>2, <1>3, <2>3, <3>1
  <2> QED
    BY <2>1, <2>2, <2>3
<1>7. from'[c] \in IDs /\ from'[c] <= nextID
  BY <1>2, <1>3, <1>4
<1>8. queue'[c] \in Seq(IDs \cup {Marker}) /\ Len(queue'[c]) <= Capacity
  <2>1. CASE lost
    <3>1. queue'[c] = <<Marker>>
      BY <1>5, <2>1 DEF Resynced
    <3>2. <<Marker>> \in Seq(IDs \cup {Marker}) /\ Len(<<Marker>>) = 1
      OBVIOUS
    <3> HIDE DEF lost
    <3> QED
      BY <3>1, <3>2
  <2>2. CASE ~ lost
    <3> DEFINE left == nextID - from'[c]
    <3>1. left \in 0 .. Capacity /\ queue'[c] = [k \in 1 .. left |-> from'[c] + k]
      BY <1>6, <2>2 DEF Run
    <3>2. \A k \in 1 .. left : from'[c] + k \in IDs \cup {Marker}
      BY <1>2, <1>7 DEF IDs
    <3> HIDE DEF left
    <3>3. [k \in 1 .. left |-> from'[c] + k] \in Seq(IDs \cup {Marker})
      BY <3>1, <3>2
    <3>4. Len([k \in 1 .. left |-> from'[c] + k]) = left
      BY <3>1
    <3> QED
      BY <3>1, <3>3, <3>4
  <2> QED
    BY <2>1, <2>2
<1> HIDE DEF lost
<1>9. TypeOK'
  <2>1. queue' \in [Clients -> Seq(IDs \cup {Marker})] /\ \A d \in Clients : Len(queue'[d]) <= Capacity
    <3>1. queue' = [queue EXCEPT ![c] = queue'[c]]
      BY <1>0, <1>1, <1>4 DEF TypeOK
    <3> QED
      BY <1>0, <1>8, <3>1 DEF TypeOK
  <2>2. from' \in [Clients -> IDs]
    <3>1. from' = [from EXCEPT ![c] = from'[c]]
      BY <1>0, <1>1, <1>4 DEF TypeOK
    <3> QED
      BY <1>0, <1>7, <3>1 DEF TypeOK
  <2>3. status' \in [Clients -> Statuses] /\ resync' \in [Clients -> BOOLEAN]
    <3>1. lost \in BOOLEAN
      BY DEF lost
    <3> QED
      BY <1>0, <1>1, <3>1 DEF TypeOK, Statuses
  <2> QED
    BY <1>0, <1>1, <2>1, <2>2, <2>3 DEF TypeOK
<1>10. StreamComplete'
  <2> SUFFICES ASSUME NEW d \in Clients, status'[d] = "open"
               PROVE  IF resync'[d] THEN queue'[d] = Resynced'
                      ELSE queue'[d] = [n \in 1 .. nextID' - from'[d] |-> from'[d] + n]
    BY DEF StreamComplete
  <2>1. CASE d = c
    BY <1>1, <1>4, <1>5, <1>6, <2>1 DEF Run, Resynced, Marker
  <2>2. CASE d # c
    BY <1>0, <1>1, <1>4, <2>2 DEF StreamComplete, Resynced, Marker
  <2> QED
    BY <2>1, <2>2
<1>11. Announced'
  BY <1>0, <1>1, <1>4, <1>7 DEF Announced
<1>12. WindowIsNewest'
  BY <1>0, <1>1 DEF WindowIsNewest
<1>13. ASSUME NEW d \in Clients PROVE PageFollows(d)'
  <2>0. PageFollows(d) /\ boot # 0
    BY <1>0 DEF TypeOK
  <2>1. CASE d # c
    BY <1>1, <1>4, <2>0, <2>1 DEF PageFollows, Base
  <2>2. CASE d = c
    BY <1>1, <1>2, <1>4, <2>0, <2>2 DEF PageFollows, Base
  <2> QED
    BY <2>1, <2>2
<1> QED
  BY <1>9, <1>10, <1>11, <1>12, <1>13 DEF HubInd

(* A published event enters the window, which drops its oldest when it is
   full, and every stream that has room; one without room is told to resync. *)
LEMMA PublishStep ==
    ASSUME HubInd, Publish
    PROVE  HubInd'
<1> USE HubAssumption
<1> DEFINE listening == {c \in Clients : status[c] = "open" /\ ~resync[c]}
           full == {c \in listening : Full(c)}
           size == Len(replay)
<1>0. TypeOK /\ StreamComplete /\ WindowIsNewest /\ Announced /\ \A d \in Clients : PageFollows(d)
  BY DEF HubInd
<1>1. /\ unannounced > 0 /\ unannounced' = unannounced - 1 /\ nextID' = nextID + 1
      /\ replay' = LastOf(Append(replay, nextID + 1), ReplayLimit)
      /\ queue' = [c \in Clients |->
                     CASE c \in full -> Resynced
                       [] c \in listening \ full -> Append(queue[c], nextID + 1)
                       [] OTHER -> queue[c]]
      /\ resync' = [c \in Clients |-> resync[c] \/ c \in full]
      /\ UNCHANGED <<version, boot, status, from, cursor, timer, fetched, view, revoked>>
  BY DEF Publish, page
<1>2. /\ version \in IDs /\ nextID \in Nat /\ unannounced \in Nat /\ nextID + unannounced <= version
  BY <1>0 DEF TypeOK, IDs, Announced
<1>3. nextID + 1 \in IDs /\ unannounced - 1 \in IDs
  BY <1>1, <1>2 DEF IDs
<1>4. size \in Nat /\ size <= nextID /\ nextID - size \in Nat /\ replay = Run(nextID - size, size)
      /\ size = (IF nextID < ReplayLimit THEN nextID ELSE ReplayLimit)
  BY <1>0, <1>2 DEF WindowIsNewest, TypeOK, Run
<1> DEFINE a == nextID - size
<1>5. Append(replay, nextID + 1) = Run(a, size + 1)
  <2>1. a \in Nat /\ a + size + 1 = nextID + 1
    BY <1>2, <1>4
  <2> HIDE DEF a, size
  <2> QED
    BY <1>4, <2>1, RunAppend DEF a
<1>6. WindowIsNewest' /\ replay' \in Seq(IDs)
  <2>1. Run(a, size + 1) \in Seq(Nat) /\ Len(Run(a, size + 1)) = size + 1
    <3>1. a \in Nat /\ size + 1 \in Nat
      BY <1>4
    <3> HIDE DEF a, size
    <3> QED
      BY <3>1, RunIsSeq
  <2>2. \E b \in Nat, n \in Nat :
           /\ replay' = Run(b, n) /\ b + n = nextID + 1
           /\ n = (IF nextID + 1 < ReplayLimit THEN nextID + 1 ELSE ReplayLimit)
    <3>1. CASE size + 1 <= ReplayLimit
      <4>1. replay' = Run(a, size + 1)
        BY <1>1, <1>5, <2>1, <3>1 DEF LastOf
      <4>2. a + (size + 1) = nextID + 1
            /\ size + 1 = (IF nextID + 1 < ReplayLimit THEN nextID + 1 ELSE ReplayLimit)
        BY <1>2, <1>4, <3>1
      <4>3. a \in Nat /\ size + 1 \in Nat
        BY <1>4
      <4> HIDE DEF a, size
      <4> QED
        BY <4>1, <4>2, <4>3
    <3>2. CASE size + 1 > ReplayLimit
      <4>1. size = ReplayLimit /\ nextID >= ReplayLimit
        BY <1>2, <1>4, <3>2
      <4>2. replay' = SubSeq(Run(a, size + 1), size + 1 - ReplayLimit + 1, size + 1)
        <5> DEFINE longer == Run(a, size + 1)
        <5>1. ~ (size + 1 <= ReplayLimit)
          BY <1>4, <3>2
        <5>2. replay' = LastOf(longer, ReplayLimit) /\ Len(longer) = size + 1 /\ size \in Nat
          BY <1>1, <1>4, <1>5, <2>1
        <5> HIDE DEF a, size, longer
        <5>3. replay' = SubSeq(longer, size + 1 - ReplayLimit + 1, size + 1)
          BY <5>1, <5>2 DEF LastOf
        <5> QED
          BY <5>3 DEF longer
      <4>3. a \in Nat /\ size + 1 \in Nat /\ ReplayLimit \in Nat /\ ReplayLimit > 0 /\ ReplayLimit <= size + 1
        BY <1>4, <3>2
      <4>4. replay' = Run(a + (size + 1) - ReplayLimit, ReplayLimit)
        <5> DEFINE whole == size + 1
        <5>1. whole \in Nat /\ ReplayLimit <= whole
          BY <4>3
        <5>2. replay' = SubSeq(Run(a, whole), whole - ReplayLimit + 1, whole)
          BY <4>2
        <5> HIDE DEF a, size, whole
        <5>3. SubSeq(Run(a, whole), whole - ReplayLimit + 1, whole) = Run(a + whole - ReplayLimit, ReplayLimit)
          BY <4>3, <5>1, RunLast
        <5> QED
          BY <5>2, <5>3 DEF whole
      <4>5. /\ a + (size + 1) - ReplayLimit \in Nat
            /\ a + (size + 1) - ReplayLimit + ReplayLimit = nextID + 1
            /\ ReplayLimit = (IF nextID + 1 < ReplayLimit THEN nextID + 1 ELSE ReplayLimit)
        BY <1>2, <1>4, <4>1, <4>3
      <4> HIDE DEF a, size
      <4> QED
        BY <4>3, <4>4, <4>5
    <3> QED
      BY <1>4, <3>1, <3>2
  <2>3. PICK b \in Nat, n \in Nat :
           /\ replay' = Run(b, n) /\ b + n = nextID + 1
           /\ n = (IF nextID + 1 < ReplayLimit THEN nextID + 1 ELSE ReplayLimit)
    BY <2>2
  <2>4. Len(replay') = n
    <3>1. Len(Run(b, n)) = n
      BY RunIsSeq
    <3> QED
      BY <2>3, <3>1
  <2>5. nextID' - Len(replay') = b
    <3>1. nextID' = nextID + 1 /\ b + n = nextID + 1
      BY <1>1, <2>3
    <3> QED
      BY <1>2, <2>4, <3>1
  <2>6. WindowIsNewest'
    <3>1. replay' = [k \in 1 .. Len(replay') |-> nextID' - Len(replay') + k]
      BY <2>3, <2>4, <2>5 DEF Run
    <3>2. Len(replay') = IF nextID' < ReplayLimit THEN nextID' ELSE ReplayLimit
      BY <1>1, <2>3, <2>4
    <3> QED
      BY <3>1, <3>2 DEF WindowIsNewest
  <2>7. \A k \in 1 .. n : b + k \in IDs
    BY <1>3, <2>3 DEF IDs
  <2>8. replay' \in Seq(IDs)
    <3>1. Run(b, n) \in [1 .. n -> IDs]
      BY <2>7 DEF Run
    <3> HIDE DEF a, size
    <3>2. \A f \in [1 .. n -> IDs] : f \in Seq(IDs)
      OBVIOUS
    <3> QED
      BY <2>3, <3>1, <3>2
  <2> QED
    BY <2>6, <2>8
<1>7. ASSUME NEW c \in Clients
      PROVE  /\ queue'[c] \in Seq(IDs \cup {Marker}) /\ Len(queue'[c]) <= Capacity
             /\ status'[c] = "open" => IF resync'[c] THEN queue'[c] = Resynced
                                       ELSE queue'[c] = Run(from[c], nextID + 1 - from[c])
  <2>0. queue[c] \in Seq(IDs \cup {Marker}) /\ Len(queue[c]) <= Capacity /\ resync[c] \in BOOLEAN
    BY <1>0 DEF TypeOK
  <2>1. CASE c \in full
    <3>1. queue'[c] = Resynced /\ resync'[c]
      BY <1>1, <2>1
    <3>2. Resynced \in Seq(IDs \cup {Marker}) /\ Len(Resynced) <= Capacity
      BY DEF Resynced
    <3> QED
      BY <3>1, <3>2
  <2>2. CASE c \in listening /\ c \notin full
    <3>1. queue'[c] = Append(queue[c], nextID + 1) /\ ~ resync'[c] /\ status[c] = "open" /\ ~ resync[c]
      BY <1>1, <2>2
    <3>2. Len(queue[c]) < Capacity
      BY <2>0, <2>2 DEF Full
    <3>3. queue'[c] \in Seq(IDs \cup {Marker}) /\ Len(queue'[c]) <= Capacity
      BY <1>3, <2>0, <3>1, <3>2
    <3>4. from[c] \in Nat /\ nextID - from[c] \in Nat
      BY <1>0, <1>2, <3>1 DEF TypeOK, IDs, Announced
    <3>5. queue[c] = Run(from[c], nextID - from[c])
      BY <1>0, <3>1 DEF StreamComplete, Run
    <3>6. from[c] + (nextID - from[c]) + 1 = nextID + 1 /\ nextID - from[c] + 1 = nextID + 1 - from[c]
      BY <1>2, <3>4
    <3>7. queue'[c] = Run(from[c], nextID + 1 - from[c])
      BY <3>1, <3>4, <3>5, <3>6, RunAppend
    <3> QED
      BY <3>1, <3>3, <3>7
  <2>3. CASE c \notin listening
    <3>1. queue'[c] = queue[c] /\ resync'[c] = resync[c]
      BY <1>1, <2>0, <2>3
    <3> QED
      BY <1>0, <1>1, <2>0, <2>3, <3>1 DEF StreamComplete
  <2> QED
    BY <2>1, <2>2, <2>3
<1>8. TypeOK'
  <2>1. queue' \in [Clients -> Seq(IDs \cup {Marker})]
    BY <1>1, <1>7
  <2>2. resync' \in [Clients -> BOOLEAN]
    BY <1>1
  <2> HIDE DEF full, listening
  <2> QED
    BY <1>0, <1>1, <1>3, <1>6, <1>7, <2>1, <2>2 DEF TypeOK
<1>9. StreamComplete'
  <2> SUFFICES ASSUME NEW c \in Clients, status'[c] = "open"
               PROVE  IF resync'[c] THEN queue'[c] = Resynced'
                      ELSE queue'[c] = [n \in 1 .. nextID' - from'[c] |-> from'[c] + n]
    BY DEF StreamComplete
  <2>1. IF resync'[c] THEN queue'[c] = Resynced
        ELSE queue'[c] = Run(from[c], nextID + 1 - from[c])
    BY <1>7
  <2>2. from' = from /\ nextID' = nextID + 1 /\ Resynced' = Resynced
    BY <1>1 DEF Resynced, Marker
  <2>3. Run(from[c], nextID + 1 - from[c]) = [n \in 1 .. nextID' - from'[c] |-> from'[c] + n]
    <3>1. from'[c] = from[c] /\ nextID' - from'[c] = nextID + 1 - from[c]
      <4>1. from[c] \in Nat
        BY <1>0 DEF TypeOK, IDs
      <4> HIDE DEF full, listening, a, size
      <4>2. from'[c] = from[c]
        BY <2>2
      <4> QED
        BY <1>2, <2>2, <4>1, <4>2
    <3>2. Run(from[c], nextID + 1 - from[c]) = Run(from'[c], nextID' - from'[c])
      BY <3>1
    <3> QED
      BY <3>2, Zenon DEF Run
  <2>4. CASE resync'[c]
    BY <2>1, <2>2, <2>4
  <2>5. CASE ~ resync'[c]
    BY <2>1, <2>3, <2>5
  <2> QED
    BY <2>4, <2>5
<1>10. Announced'
  <2>1. nextID' + unannounced' <= version'
    BY <1>1, <1>2
  <2>2. \A c \in Clients : status'[c] = "open" => from'[c] <= nextID'
    BY <1>0, <1>1, <1>2 DEF Announced, TypeOK, IDs
  <2> QED
    BY <2>1, <2>2 DEF Announced
<1>11. ASSUME NEW d \in Clients PROVE PageFollows(d)'
  <2>1. PageFollows(d) /\ cursor[d] \in Cursors /\ resync[d] \in BOOLEAN
    BY <1>0 DEF TypeOK
  <2>2. cursor[d].id \in Nat
    BY <2>1 DEF Cursors, NoCursor, IDs
  <2>3. Base' = Base
    BY <1>1, <1>2 DEF Base, IDs
  <2>4. ~ resync'[d] => ~ resync[d]
    BY <1>1
  <2>5. cursor[d].id <= nextID => cursor[d].id <= nextID'
    BY <1>1, <1>2, <2>2
  <2> HIDE DEF full, listening
  <2> QED
    BY <1>1, <2>1, <2>3, <2>4, <2>5 DEF PageFollows
<1> QED
  BY <1>6, <1>8, <1>9, <1>10, <1>11 DEF HubInd

(* A commit is announced later; nothing is published yet. *)
LEMMA CommitStep ==
    ASSUME HubInd, Commit
    PROVE  HubInd'
<1> USE HubAssumption
<1>0. TypeOK /\ StreamComplete /\ WindowIsNewest /\ Announced /\ \A d \in Clients : PageFollows(d)
  BY DEF HubInd
<1>1. /\ version < MaxVersion /\ version' = version + 1 /\ unannounced' = unannounced + 1
      /\ UNCHANGED <<boot, nextID, replay, status, queue, resync, from, cursor, timer, fetched, view, revoked>>
  BY DEF Commit, hub, stream, page
<1>2. version \in IDs /\ unannounced \in Nat /\ nextID \in Nat /\ nextID + unannounced <= version
  BY <1>0 DEF TypeOK, IDs, Announced
<1>3. version + 1 \in IDs /\ unannounced + 1 \in IDs /\ nextID + (unannounced + 1) <= version + 1
  BY <1>1, <1>2 DEF IDs
<1>4. TypeOK'
  BY <1>0, <1>1, <1>3 DEF TypeOK
<1>5. StreamComplete' /\ WindowIsNewest' /\ Announced'
  BY <1>0, <1>1, <1>3 DEF StreamComplete, WindowIsNewest, Announced, Resynced, Marker
<1>6. Base' = Base
  BY <1>1, <1>2 DEF Base, IDs
<1>7. ASSUME NEW d \in Clients PROVE PageFollows(d)'
  <2>1. PageFollows(d) /\ view[d] \in IDs \cup {Problem} /\ fetched[d] \in IDs \cup {NoFetch}
    BY <1>0 DEF TypeOK
  <2>2. view[d] <= version + 1 /\ fetched[d] <= version + 1
    BY <1>2, <2>1 DEF PageFollows, IDs, Problem, NoFetch
  <2> QED
    BY <1>1, <1>6, <2>1, <2>2 DEF PageFollows
<1> QED
  BY <1>4, <1>5, <1>7 DEF HubInd

(* After a restart the hub is empty, no stream is open, and no cursor is of
   this run. *)
LEMMA RestartStep ==
    ASSUME HubInd, Restart
    PROVE  HubInd'
<1> USE HubAssumption
<1>0. TypeOK /\ StreamComplete /\ WindowIsNewest /\ Announced /\ \A d \in Clients : PageFollows(d)
  BY DEF HubInd
<1>1. /\ boot < MaxBoots /\ boot' = boot + 1 /\ unannounced' = 0 /\ nextID' = 0 /\ replay' = <<>>
      /\ status' = [c \in Clients |-> IF status[c] = "off" THEN "off" ELSE "waiting"]
      /\ queue' = [c \in Clients |-> <<>>] /\ resync' = [c \in Clients |-> FALSE]
      /\ from' = [c \in Clients |-> 0]
      /\ UNCHANGED <<version, cursor, timer, fetched, view, revoked>>
  BY DEF Restart, page
<1>2. version \in IDs /\ boot \in 1 .. MaxBoots /\ boot + 1 \in 1 .. MaxBoots /\ 0 \in IDs
  BY <1>0, <1>1 DEF TypeOK, IDs
<1>3. TypeOK'
  <2>1. /\ <<>> \in Seq(IDs) /\ <<>> \in Seq(IDs \cup {Marker}) /\ Len(<<>>) <= Capacity
    OBVIOUS
  <2>2. status' \in [Clients -> Statuses]
    BY <1>1 DEF Statuses
  <2> QED
    BY <1>0, <1>1, <1>2, <2>1, <2>2 DEF TypeOK
<1>4. \A c \in Clients : status'[c] # "open"
  BY <1>1
<1>5. StreamComplete' /\ Announced'
  BY <1>1, <1>2, <1>4 DEF StreamComplete, Announced, IDs
<1>6. WindowIsNewest'
  <2>1. Len(<<>>) = 0 /\ <<>> = [k \in 1 .. 0 |-> 0 - 0 + k]
    OBVIOUS
  <2> QED
    BY <1>1, <2>1 DEF WindowIsNewest
<1>7. ASSUME NEW d \in Clients PROVE PageFollows(d)'
  <2>1. PageFollows(d) /\ cursor[d] \in Cursors
    BY <1>0 DEF TypeOK
  <2>2. cursor[d].boot \in Nat
    BY <2>1 DEF Cursors, NoCursor
  <2>3. cursor[d].boot <= boot + 1 /\ cursor[d].boot # boot + 1
    BY <1>2, <2>1, <2>2 DEF PageFollows
  <2> QED
    BY <1>1, <2>1, <2>3 DEF PageFollows
<1> QED
  BY <1>3, <1>5, <1>6, <1>7 DEF HubInd

-----------------------------------------------------------------------------
(* The inductive invariant holds at any time. *)
THEOREM HubIndHolds == Spec => []HubInd
<1>1. Init => HubInd
  <2> SUFFICES ASSUME Init PROVE HubInd
    OBVIOUS
  <2> USE HubAssumption
  <2>1. TypeOK
    <3>1. /\ <<>> \in Seq(IDs) /\ <<>> \in Seq(IDs \cup {Marker}) /\ Len(<<>>) <= Capacity /\ 0 \in IDs
      BY DEF IDs
    <3> QED
      BY <3>1 DEF Init, TypeOK, Statuses, Cursors
  <2>2. StreamComplete /\ Announced
    BY DEF Init, StreamComplete, Announced
  <2>3. WindowIsNewest
    <3>1. Len(<<>>) = 0 /\ <<>> = [k \in 1 .. 0 |-> 0 - 0 + k]
      OBVIOUS
    <3> QED
      BY <3>1 DEF Init, WindowIsNewest
  <2>4. \A c \in Clients : PageFollows(c)
    BY DEF Init, PageFollows, NoCursor, NoFetch, Problem
  <2> QED
    BY <2>1, <2>2, <2>3, <2>4 DEF HubInd
<1>2. HubInd /\ [Next]_vars => HubInd'
  <2> SUFFICES ASSUME HubInd, [Next]_vars PROVE HubInd'
    OBVIOUS
  <2>1. CASE UNCHANGED vars
    BY <2>1 DEF vars, hub, stream, page, HubInd, TypeOK, StreamComplete, WindowIsNewest, Announced,
                PageFollows, Base, Resynced, Marker
  <2> QED
    BY <2>1, CommitStep, PublishStep, RestartStep, SubscribeStep, ReceiveStep, PageStep DEF Next
<1> QED
  BY <1>1, <1>2, PTL DEF Spec

(* Publish and Subscribe, under one lock: what waits in a channel is exactly
   what follows the last event received, up to the newest, or the one marker;
   the window holds the newest events.  For any number of clients, any
   capacity and replay size, and through every overflow and restart. *)
THEOREM HubSafe == Spec => []HubInv
<1>1. HubInd => HubInv
  BY DEF HubInd, HubInv
<1> QED
  BY <1>1, HubIndHolds, PTL

(* A page that follows the hub by cursor is not left showing an old database
   when nothing is under way any more: what live.ts keeps of a stream, and
   what the hub replays, are enough. *)
THEOREM PageIsFresh == Spec => []CursorPageIsFresh
<1>1. HubInd => CursorPageIsFresh
  <2> SUFFICES ASSUME HubInd, NEW c \in Clients, Quiet(c), cursor[c].boot = boot
               PROVE  view[c] \in {version, Problem}
    BY DEF CursorPageIsFresh
  <2>0. TypeOK /\ StreamComplete /\ Announced /\ PageFollows(c)
    BY DEF HubInd
  <2>1. /\ status[c] = "open" /\ queue[c] = <<>> /\ ~ timer[c] /\ fetched[c] = NoFetch /\ unannounced = 0
    BY DEF Quiet
  <2>2. nextID \in Nat /\ from[c] \in Nat /\ from[c] <= nextID /\ version \in Nat /\ view[c] \in IDs \cup {Problem}
    BY <2>0, <2>1 DEF TypeOK, IDs, Announced
  <2>3. ~ resync[c] /\ from[c] = nextID
    <3>1. Resynced # <<>>
      BY DEF Resynced
    <3>2. ~ resync[c] /\ <<>> = Run(from[c], nextID - from[c])
      BY <2>0, <2>1, <3>1 DEF StreamComplete, Run
    <3>3. nextID - from[c] \in Nat
      BY <2>2
    <3>4. Len(Run(from[c], nextID - from[c])) = nextID - from[c]
      BY <2>2, <3>3, RunIsSeq
    <3> QED
      BY <2>2, <3>2, <3>4
  <2>4. cursor[c].id = nextID
    BY <2>0, <2>1, <2>3 DEF PageFollows
  <2>5. view[c] = Problem \/ view[c] >= version - 0 - nextID + nextID
    BY <2>0, <2>1, <2>4 DEF PageFollows, Base
  <2> QED
    BY <2>0, <2>2, <2>5 DEF PageFollows, IDs
<1> QED
  BY <1>1, HubIndHolds, PTL
=============================================================================
