------------------------------ MODULE EventHub ------------------------------
(***************************************************************************)
(* Live invalidations: the in-memory hub (core/internal/events), the       *)
(* event-stream handler (core/internal/api/sse.go) and the browser client  *)
(* that refetches what it shows (web/src/lib/live.ts).                     *)
(*                                                                         *)
(* The hub is never the source of truth.  An event only says that the      *)
(* database changed; what counts is whether a page that believes itself    *)
(* live shows the database as it is.  The database is its version number.  *)
(* A stream's socket and its channel are one queue: what was written but   *)
(* not read when a connection breaks is replayed like what was not written.*)
(***************************************************************************)
EXTENDS Integers, Sequences, FiniteSets

CONSTANTS
    Clients,       \* open browser pages
    ReplayLimit,   \* ESPIAL_EVENT_REPLAY_SIZE
    Capacity,      \* a subscriber channel's capacity
    MaxStreams,    \* ESPIAL_SSE_MAX_CLIENTS
    MaxVersion,    \* bound on the number of database changes
    MaxBoots       \* bound on the number of starts of Core

ASSUME HubAssumption ==
    /\ IsFiniteSet(Clients)
    /\ ReplayLimit \in Nat \ {0}
    /\ Capacity \in Nat \ {0}
    /\ MaxStreams \in Nat \ {0}
    /\ MaxVersion \in Nat
    /\ MaxBoots \in Nat \ {0}

VARIABLES
    version,     \* committed changes of the database
    unannounced, \* committed changes whose Publish is still to come
    boot,        \* which run of Core this is
    nextID,      \* Hub.nextID
    replay,      \* Hub.replay: the IDs of the retained events
    status,      \* status[c]: how far c is with its connection
    queue,       \* queue[c]: the channel of c's subscription
    resync,      \* resync[c]: subscriber.resync
    from,        \* from[c]: ID of the last event c's stream passed on (history)
    cursor,      \* cursor[c]: lastEventID, with the boot it came from
    timer,       \* timer[c]: coalesceTimer is set
    fetched,     \* fetched[c]: what the refetch under way has read
    view,        \* view[c]: the database version c shows
    revoked      \* revoked[c]: c's session was ended on the server

hub    == <<nextID, replay>>
stream == <<status, queue, resync, from>>
page   == <<cursor, timer, fetched, view>>
vars   == <<version, unannounced, boot, hub, stream, page, revoked>>

-----------------------------------------------------------------------------
IDs == 0 .. MaxVersion

(* A resync_required event in a channel; a queued change is its ID. *)
Marker == -1

NoCursor == [id |-> 0, boot |-> 0]   \* lastEventID = ''
Cursors == {NoCursor} \cup [id: IDs, boot: 1 .. MaxBoots]

NoFetch == -1    \* no refetch under way
Problem == -2    \* the page says that loading failed

(* off: no page, or stopped for want of a session; waiting: before connect;
   admitted: the handler authenticated the request and took a slot; open:
   subscribed. *)
Statuses == {"off", "waiting", "admitted", "open"}

TypeOK ==
    /\ version \in IDs /\ unannounced \in IDs
    /\ boot \in 1 .. MaxBoots
    /\ nextID \in IDs
    /\ replay \in Seq(IDs)
    /\ status \in [Clients -> Statuses]
    /\ queue \in [Clients -> Seq(IDs \cup {Marker})]
    /\ \A c \in Clients : Len(queue[c]) <= Capacity
    /\ resync \in [Clients -> BOOLEAN]
    /\ from \in [Clients -> IDs]
    /\ cursor \in [Clients -> Cursors]
    /\ timer \in [Clients -> BOOLEAN]
    /\ fetched \in [Clients -> IDs \cup {NoFetch}]
    /\ view \in [Clients -> IDs \cup {Problem}]
    /\ revoked \in [Clients -> BOOLEAN]

Init ==
    /\ version = 0 /\ unannounced = 0
    /\ boot = 1
    /\ nextID = 0 /\ replay = <<>>
    /\ status = [c \in Clients |-> "off"]
    /\ queue = [c \in Clients |-> <<>>]
    /\ resync = [c \in Clients |-> FALSE]
    /\ from = [c \in Clients |-> 0]
    /\ cursor = [c \in Clients |-> NoCursor]
    /\ timer = [c \in Clients |-> FALSE]
    /\ fetched = [c \in Clients |-> NoFetch]
    /\ view = [c \in Clients |-> Problem]
    /\ revoked = [c \in Clients |-> FALSE]

-----------------------------------------------------------------------------
(* A transaction commits; its Publish is a later step. *)
Commit ==
    /\ version < MaxVersion
    /\ version' = version + 1
    /\ unannounced' = unannounced + 1
    /\ UNCHANGED <<boot, hub, stream, page, revoked>>

(* forceResyncLocked: the channel is drained and holds the one marker. *)
Resynced == <<Marker>>

(* The last n elements of s. *)
LastOf(s, n) == IF Len(s) <= n THEN s ELSE SubSeq(s, Len(s) - n + 1, Len(s))

(* The default branch of the send: the channel has no room. *)
Full(c) == Len(queue[c]) >= Capacity

(* Publish: the event enters the replay window and every channel; a
   subscriber without room is moved to resync, one already there gets nothing
   more. *)
Publish ==
    LET listening == {c \in Clients : status[c] = "open" /\ ~resync[c]}
        full == {c \in listening : Full(c)} IN
    /\ unannounced > 0
    /\ unannounced' = unannounced - 1
    /\ nextID' = nextID + 1
    /\ replay' = LastOf(Append(replay, nextID + 1), ReplayLimit)
    /\ queue' = [c \in Clients |->
                   CASE c \in full -> Resynced
                     [] c \in listening \ full -> Append(queue[c], nextID + 1)
                     [] OTHER -> queue[c]]
    /\ resync' = [c \in Clients |-> resync[c] \/ c \in full]
    /\ UNCHANGED <<version, boot, status, from, page, revoked>>

-----------------------------------------------------------------------------
(* The page is loaded under a valid session: it reads the database and will
   connect. *)
Mount(c) ==
    /\ status[c] = "off"
    /\ revoked' = [revoked EXCEPT ![c] = FALSE]
    /\ status' = [status EXCEPT ![c] = "waiting"]
    /\ cursor' = [cursor EXCEPT ![c] = NoCursor]
    /\ timer' = [timer EXCEPT ![c] = FALSE]
    /\ fetched' = [fetched EXCEPT ![c] = NoFetch]
    /\ view' = [view EXCEPT ![c] = version]
    /\ UNCHANGED <<version, unannounced, boot, hub, queue, resync, from>>

StreamsTaken == Cardinality({c \in Clients : status[c] \in {"admitted", "open"}})

(* connect, and the checks at the head of eventStream: a session that ended
   stops the client for good, and a full server makes it try again later. *)
Connect(c) ==
    /\ status[c] = "waiting"
    /\ \/ revoked[c] /\ status' = [status EXCEPT ![c] = "off"]
       \/ ~revoked[c] /\ StreamsTaken < MaxStreams
             /\ status' = [status EXCEPT ![c] = "admitted"]
    /\ UNCHANGED <<version, unannounced, boot, hub, queue, resync, from, page, revoked>>

(* Subscribe's test of a cursor against the replay window.  IDs carry no boot. *)
OutsideWindow(id) ==
    \/ id > nextID
    \/ replay # <<>> /\ id + 1 < replay[1]

(* The replay loop of Subscribe: what it has put into the channel after n of
   the retained events, skipping those up to the cursor. *)
Selected(id) ==
    LET sent[n \in 0 .. Len(replay)] ==
            IF n = 0 THEN <<>>
            ELSE IF replay[n] <= id THEN sent[n - 1]
            ELSE Append(sent[n - 1], replay[n])
    IN  sent

(* Variant: the event the client has already is replayed again. *)
AtOrAfter(id) == Selected(id - 1)[Len(replay)]

(* The retained events after the cursor. *)
After(id) == Selected(id)[Len(replay)]

(* Subscribe: without a cursor future events only; with one, the events after
   it if they are all retained and fit the channel. *)
Subscribe(c) ==
    LET id == cursor[c].id
        lost == /\ cursor[c] # NoCursor
                /\ OutsideWindow(id) \/ Len(After(id)) > Capacity IN
    /\ status[c] = "admitted"
    /\ status' = [status EXCEPT ![c] = "open"]
    /\ resync' = [resync EXCEPT ![c] = lost]
    /\ queue' = [queue EXCEPT ![c] = CASE lost -> Resynced
                                       [] cursor[c] = NoCursor -> <<>>
                                       [] OTHER -> After(id)]
    /\ from' = [from EXCEPT ![c] = IF lost \/ cursor[c] = NoCursor THEN nextID ELSE id]
    /\ UNCHANGED <<version, unannounced, boot, hub, page, revoked>>

(* unsubscribe, and the client waits to reconnect. *)
Closed(c) ==
    /\ status' = [status EXCEPT ![c] = "waiting"]
    /\ queue' = [queue EXCEPT ![c] = <<>>]
    /\ resync' = [resync EXCEPT ![c] = FALSE]
    /\ from' = [from EXCEPT ![c] = 0]

(* Variant: no refetch is scheduled while one is under way. *)
QueueRefreshUnlessBusy(c) == timer' = [timer EXCEPT ![c] = @ \/ fetched[c] = NoFetch]

(* queueRefresh: a refetch is due when the coalescing timer fires. *)
QueueRefresh(c) == timer' = [timer EXCEPT ![c] = TRUE]

(* The handler writes a change and the client takes note of it: the cursor
   moves on and a refetch is due. *)
ReceiveChange(c) ==
    /\ status[c] = "open" /\ queue[c] # <<>> /\ Head(queue[c]) # Marker
    /\ queue' = [queue EXCEPT ![c] = Tail(@)]
    /\ from' = [from EXCEPT ![c] = Head(queue[c])]
    /\ cursor' = [cursor EXCEPT ![c] = [id |-> Head(queue[c]), boot |-> boot]]
    /\ QueueRefresh(c)
    /\ UNCHANGED <<version, unannounced, boot, hub, status, resync, fetched, view, revoked>>

(* The handler writes the marker and ends the stream; the client forgets its
   cursor and refetches. *)
ReceiveResync(c) ==
    /\ status[c] = "open" /\ queue[c] # <<>> /\ Head(queue[c]) = Marker
    /\ Closed(c)
    /\ cursor' = [cursor EXCEPT ![c] = NoCursor]
    /\ QueueRefresh(c)
    /\ UNCHANGED <<version, unannounced, boot, hub, fetched, view, revoked>>

(* The connection breaks, or the handler returns on a write error. *)
Disconnect(c) ==
    /\ status[c] \in {"admitted", "open"}
    /\ Closed(c)
    /\ UNCHANGED <<version, unannounced, boot, hub, page, revoked>>

(* Variant: the heartbeat does not authenticate again. *)
HeartbeatOnly(c) == status[c] = "open" /\ revoked[c] /\ UNCHANGED vars

(* The heartbeat authenticates the session again and ends a stream whose
   session is gone. *)
Heartbeat(c) ==
    /\ status[c] = "open" /\ revoked[c]
    /\ Closed(c)
    /\ UNCHANGED <<version, unannounced, boot, hub, page, revoked>>

(* The coalescing timer fires: it is cleared before the reads start, and an
   earlier refetch that is still under way is abandoned. *)
Refetch(c) ==
    /\ status[c] # "off" /\ timer[c] /\ ~revoked[c]
    /\ timer' = [timer EXCEPT ![c] = FALSE]
    /\ fetched' = [fetched EXCEPT ![c] = version]
    /\ UNCHANGED <<version, unannounced, boot, hub, stream, cursor, view, revoked>>

(* ... but without a session the reads are refused (401) and the loaders
   redirect to the login form: the layout is destroyed, which stops the live
   updates, aborts the stream and clears the timers. *)
RefetchRefused(c) ==
    /\ status[c] # "off" /\ timer[c] /\ revoked[c]
    /\ timer' = [timer EXCEPT ![c] = FALSE]
    /\ status' = [status EXCEPT ![c] = "off"]
    /\ queue' = [queue EXCEPT ![c] = <<>>]
    /\ resync' = [resync EXCEPT ![c] = FALSE]
    /\ from' = [from EXCEPT ![c] = 0]
    /\ UNCHANGED <<version, unannounced, boot, hub, cursor, fetched, view, revoked>>

(* The loaders return: the page shows what they read, or that they failed. *)
Show(c) ==
    /\ fetched[c] # NoFetch
    /\ \/ view' = [view EXCEPT ![c] = fetched[c]]
       \/ view' = [view EXCEPT ![c] = Problem]
    /\ fetched' = [fetched EXCEPT ![c] = NoFetch]
    /\ UNCHANGED <<version, unannounced, boot, hub, stream, cursor, timer, revoked>>

(* Logout, and all else that ends a session: its expiry, and the changes of a
   user that revoke his sessions. *)
Revoke(c) ==
    /\ status[c] # "off" /\ ~revoked[c]
    /\ revoked' = [revoked EXCEPT ![c] = TRUE]
    /\ UNCHANGED <<version, unannounced, boot, hub, stream, page>>

(* Core stops and starts with a new, empty hub (NewRuntime); Publish calls still to come are
   lost, streams break. *)
Restart ==
    /\ boot < MaxBoots
    /\ boot' = boot + 1
    /\ unannounced' = 0
    /\ nextID' = 0 /\ replay' = <<>>
    /\ status' = [c \in Clients |-> IF status[c] = "off" THEN "off" ELSE "waiting"]
    /\ queue' = [c \in Clients |-> <<>>]
    /\ resync' = [c \in Clients |-> FALSE]
    /\ from' = [c \in Clients |-> 0]
    /\ UNCHANGED <<version, page, revoked>>

Next ==
    \/ Commit
    \/ Publish
    \/ Restart
    \/ \E c \in Clients :
         \/ Mount(c) \/ Connect(c) \/ Subscribe(c)
         \/ ReceiveChange(c) \/ ReceiveResync(c) \/ Disconnect(c) \/ Heartbeat(c)
         \/ Refetch(c) \/ RefetchRefused(c) \/ Show(c) \/ Revoke(c)

Spec == Init /\ [][Next]_vars

(* The server's heartbeat ticker, its handlers and the client's own timers
   keep running; connections may break, and nothing obliges anyone to commit,
   to publish or to open a page. *)
FairSpec ==
    /\ Spec
    /\ \A c \in Clients : WF_vars(Connect(c)) /\ WF_vars(Subscribe(c)) /\ WF_vars(Heartbeat(c))

-----------------------------------------------------------------------------
(* The events a subscriber still has to get are exactly those after the last
   one it got, in order and without a gap, up to the newest (Publish and
   Subscribe under one lock), unless it was told to resync: then exactly one
   marker waits for it and nothing else. *)
StreamComplete ==
    \A c \in Clients : status[c] = "open" =>
        IF resync[c] THEN queue[c] = Resynced
        ELSE queue[c] = [n \in 1 .. nextID - from[c] |-> from[c] + n]

(* The replay window holds the newest events, at most ReplayLimit of them
   (hub.replay is trimmed by copying its tail). *)
WindowIsNewest ==
    /\ replay = [n \in 1 .. Len(replay) |-> nextID - Len(replay) + n]
    /\ Len(replay) = IF nextID < ReplayLimit THEN nextID ELSE ReplayLimit

(* What holds of the hub and its streams at any time, through overflow, replay
   and restarts. *)
HubInv == TypeOK /\ StreamComplete /\ WindowIsNewest

(* Nothing is on its way to c and every change was announced. *)
Quiet(c) ==
    /\ status[c] = "open" /\ queue[c] = <<>>
    /\ ~timer[c] /\ fetched[c] = NoFetch
    /\ unannounced = 0

(* A page that follows this hub by cursor shows the database once the stream
   is quiet, or says that it failed to load: through reconnects, replays,
   overflows, coalesced and abandoned refetches. *)
CursorPageIsFresh ==
    \A c \in Clients :
        (Quiet(c) /\ cursor[c].boot = boot) => view[c] \in {version, Problem}

(* A session that ended loses its stream: authentication happens before the
   subscription, so the stream may open after the revocation, but not for
   good. *)
RevokedIsClosed ==
    \A c \in Clients : revoked[c] ~> (status[c] = "off")
=============================================================================
