------------------------------- MODULE Listing -------------------------------
(***************************************************************************)
(* The paged lists of Core's API (monitoring/read_service.go, incidents/   *)
(* reader.go and workflow.go, webpages, certificates, notifications, auth).*)
(*                                                                         *)
(* A page is one query: the rows after the cursor, in the order of the     *)
(* list, and one more than the page holds, which only tells whether there  *)
(* is another page.  The cursor is the last row shown, and the instant of  *)
(* the first page where the list has a snapshot.  No transaction spans two *)
(* pages: rows are written between them, and a writer dates its row before *)
(* the row can be seen, with a clock that may be ahead of the database's.  *)
(*                                                                         *)
(* A row is the value it is ordered by, the instant that is compared with  *)
(* the snapshot, and its identifier, a number.  Filters choose the rows;   *)
(* the lists below have the rows one filter chooses.                       *)
(***************************************************************************)
EXTENDS Integers, Sequences, FiniteSets, SequencesExt

CONSTANTS
    Ids,        \* identifiers a row can have
    Limit,      \* rows of a page
    MaxTime,    \* bound on the clock
    Ahead,      \* how far ahead of the database a writer's clock may be
    MaxWrites   \* bound on the rows written

ASSUME ListingAssumption ==
    /\ Ids \subseteq Nat /\ Limit \in Nat \ {0}
    /\ {MaxTime, Ahead, MaxWrites} \subseteq Nat

VARIABLES
    list,     \* the list that is read
    clock,    \* the database's clock
    rows,     \* the rows that can be seen
    writing,  \* rows that are dated and not committed yet
    reader,   \* the client: how far it is, its snapshot and its cursor
    shown,    \* the rows it was shown, in order
    kept,     \* rows of the first page's snapshot that have not been written since (history)
    writes    \* rows written so far

vars == <<list, clock, rows, writing, reader, shown, kept, writes>>

-----------------------------------------------------------------------------
(* What a list is ordered by, whether a row's place in it can change, what the
   snapshot is compared with, whether a row may be placed by something older than
   its write, and whether reading it writes a row. *)
Order(rewritten, snapshot) ==
    [ascending |-> FALSE, rewritten |-> rewritten, snapshot |-> snapshot, backdated |-> FALSE,
     recorded |-> FALSE]

Backdated(order) == [order EXCEPT !.backdated = TRUE]

(* By the instant of the last change, as it was when the first page was read. *)
Integrations == Order(TRUE, "key")
Incidents == Order(TRUE, "key")
Assignees == Order(TRUE, "key")

(* The same, but the view of resources may pick the instant of another check. *)
Resources == Backdated(Order(TRUE, "key"))

(* Events stay as they are; reading them is one. *)
AuditEvents == [Order(FALSE, "key") EXCEPT !.recorded = TRUE]

(* By the instant of the event, with the events recorded by then. *)
Timeline == Backdated(Order(FALSE, "created"))

(* By the instant of the last change, without a snapshot. *)
Monitors == Order(TRUE, "none")
Destinations == Order(TRUE, "none")

(* By the instant the adapter gave the newest observation. *)
Webpages == Backdated(Order(TRUE, "none"))
Certificates == Backdated(Order(TRUE, "none"))

(* By the instant of creation. *)
Deliveries == Order(FALSE, "none")

(* By name. *)
ManagedUsers == [Backdated(Order(FALSE, "none")) EXCEPT !.ascending = TRUE]

Lists == {Resources, Integrations, Incidents, Assignees, AuditEvents, Timeline, Monitors, Webpages,
          Certificates, Destinations, Deliveries, ManagedUsers}

-----------------------------------------------------------------------------
Row(id, key, created) == [id |-> id, key |-> key, created |-> created]

NoCursor == Row(-1, -1, -1)

Init ==
    /\ list \in Lists
    /\ clock = 1
    /\ \E present \in SUBSET Ids : \E key \in [present -> 0 .. 1] :
         rows = {Row(id, key[id], key[id]) : id \in present}
    /\ writing = {}
    /\ reader = [pc |-> "idle", snapshot |-> 0, cursor |-> NoCursor]
    /\ shown = <<>>
    /\ kept = {}
    /\ writes = 0

(* A writer dates a new row, or one that is there in a list where rows move.  Names
   are in any order, and an event or observation may be dated long before it is
   recorded. *)
Date(id, key) ==
    LET old == {r \in rows \cup writing : r.id = id} IN
    /\ writes < MaxWrites
    /\ old \subseteq rows /\ (old # {} => list.rewritten)
    /\ key <= clock + Ahead
    /\ ~ list.backdated => key >= clock
    /\ writing' = writing \cup {Row(id, key, clock)}
    /\ writes' = writes + 1
    /\ UNCHANGED <<list, clock, rows, reader, shown, kept>>

(* Its transaction commits. *)
Publish(row) ==
    /\ row \in writing
    /\ rows' = {r \in rows : r.id # row.id} \cup {row}
    /\ writing' = writing \ {row}
    /\ kept' = {r \in kept : r.id # row.id}
    /\ UNCHANGED <<list, clock, reader, shown, writes>>

Tick ==
    /\ clock < MaxTime
    /\ clock' = clock + 1
    /\ UNCHANGED <<list, rows, writing, reader, shown, kept, writes>>

-----------------------------------------------------------------------------
(* The client asks for the first page: the snapshot is a query of its own. *)
TakeSnapshot ==
    /\ reader.pc = "idle"
    /\ reader' = [reader EXCEPT !.pc = "first", !.snapshot = clock]
    /\ UNCHANGED <<list, clock, rows, writing, shown, kept, writes>>

(* a comes after b in the list. *)
Follows(a, b) ==
    IF list.ascending THEN a.key > b.key \/ (a.key = b.key /\ a.id > b.id)
    ELSE a.key < b.key \/ (a.key = b.key /\ a.id < b.id)

InSnapshot(row) ==
    CASE list.snapshot = "key" -> row.key <= reader.snapshot
      [] list.snapshot = "created" -> row.created <= reader.snapshot
      [] OTHER -> TRUE

(* The rows of the query, in order, without its LIMIT. *)
Candidates ==
    LET from == reader.cursor
        before(a, b) == Follows(b, a)
    IN  SetToSortSeq({r \in rows : InSnapshot(r) /\ (from = NoCursor \/ Follows(r, from))}, before)

Page(candidates) == SubSeq(candidates, 1, IF Len(candidates) < Limit THEN Len(candidates) ELSE Limit)

(* Variant: the row that was only asked for to see whether there is more. *)
CursorOfExtraRow(candidates) == candidates[Limit + 1]

(* NextCursor: the last row shown. *)
CursorOf(candidates) == candidates[Limit]

(* A page is read; the last one has no cursor.  Reading the audit log is recorded. *)
ReadPage ==
    LET candidates == Candidates
        free == {id \in Ids : \A r \in rows \cup writing : r.id # id}
    IN  /\ reader.pc \in {"first", "next"}
        /\ shown' = shown \o Page(candidates)
        /\ reader' = IF Len(candidates) > Limit
                     THEN [reader EXCEPT !.pc = "next", !.cursor = CursorOf(candidates)]
                     ELSE [reader EXCEPT !.pc = "done"]
        /\ kept' = IF reader.pc = "first" THEN {r \in rows : InSnapshot(r)} ELSE kept
        /\ IF list.recorded /\ free # {}
           THEN \E id \in free : rows' = rows \cup {Row(id, clock, clock)}
           ELSE UNCHANGED rows
        /\ UNCHANGED <<list, clock, writing, writes>>

-----------------------------------------------------------------------------
Next ==
    \/ \E id \in Ids, key \in 0 .. MaxTime + Ahead : Date(id, key)
    \/ \E row \in writing : Publish(row)
    \/ Tick \/ TakeSnapshot \/ ReadPage

Spec == Init /\ [][Next]_vars

-----------------------------------------------------------------------------
(* Rows, the reader and its cursor have their types; identifiers are unique. *)
TypeOK ==
    /\ list \in Lists /\ clock \in 0 .. MaxTime /\ writes \in 0 .. MaxWrites
    /\ rows \cup writing \subseteq [id: Ids, key: 0 .. MaxTime + Ahead, created: 0 .. MaxTime]
    /\ \A r, s \in rows : r.id = s.id => r = s
    /\ reader.pc \in {"idle", "first", "next", "done"}
    /\ kept \subseteq rows

(* Of a list that is read to its end, every row that was in the snapshot of its first
   page (in the list, where there is no snapshot) and was not written meanwhile was
   shown, and shown once: whatever else is
   written, or moves, between the pages, and however many rows have one instant. *)
KeptRowsShownOnce ==
    \A r \in kept :
        LET times == Cardinality({n \in 1 .. Len(shown) : shown[n].id = r.id})
        IN  times <= 1 /\ (reader.pc = "done" => times = 1)

(* What holds of rows, pages and cursor at any time. *)
ListingInv == TypeOK /\ KeptRowsShownOnce
=============================================================================
