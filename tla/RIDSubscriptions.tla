--------------------------- MODULE RIDSubscriptions ---------------------------
(***************************************************************************)
(* The RID subscription repository over CockroachDB                        *)
(* (pkg/rid/store/cockroach/subscriptions.go for schema v4 and             *)
(* subcriptions_v3.go for schema v3) and the callers that use it the way   *)
(* its optimistic-concurrency contract intends: read a row, later write it *)
(* back naming the updated_at they read.                                   *)
(*                                                                         *)
(* Every repository call is its own serializable transaction, so one step. *)
(* transaction_timestamp() is the clock `now`; every write transaction     *)
(* takes a later one.  The writer column does not exist in schema v3: rows *)
(* written there carry SQL NULL once the schema is migrated to v4.         *)
(***************************************************************************)
EXTENDS Naturals, FiniteSets, FiniteSetsExt

CONSTANTS
    SubIDs,     \* subscription IDs
    Owners,     \* token subjects owning subscriptions
    Writers,    \* names of DSS writer processes; "" is the unnamed writer
    Clients,    \* callers doing read-modify-write against the repository
    CellSets,   \* cell unions a subscription can cover (non-empty)
    MaxTime,    \* bound on the clock
    Grace,      \* expiredDurationInMin, in clock units
    NULL,       \* no row / no read
    SQLNull     \* SQL NULL in the writer column

VARIABLES
    schema,     \* "v3" or "v4": the database version NewISASubscriptionRepo probes
    rows,       \* SubIDs -> row or NULL                     (table subscriptions)
    now,        \* transaction_timestamp() / clock.Now()
    snap,       \* Clients -> the row a client read, or NULL
    writes,     \* ghost: SubIDs -> number of caller writes to that ID
    listed      \* the last ListExpiredSubscriptions call and its result

vars == <<schema, rows, now, snap, writes, listed>>

ASSUME /\ NULL # SQLNull /\ NULL \notin Writers /\ SQLNull \notin Writers
       /\ "" \in Writers /\ MaxTime \in Nat /\ Grace \in Nat

Times == 0..MaxTime
Row == [Owner: Owners, Cells: CellSets, EndsAt: Times,
        Writer: Writers \cup {SQLNull}, NotificationIndex: Nat, UpdatedAt: Times]

Live == {id \in SubIDs : rows[id] # NULL}

(***************************************************************************)
(* SQL three-valued logic, for the writer predicate of                     *)
(* ListExpiredSubscriptions.  "unknown" rows are not selected.             *)
(***************************************************************************)
Eq3(a, b)  == IF a = SQLNull \/ b = SQLNull THEN "unknown"
              ELSE IF a = b THEN "true" ELSE "false"
Or3(p, q)  == IF p = "true" \/ q = "true" THEN "true"
              ELSE IF p = "false" /\ q = "false" THEN "false" ELSE "unknown"

\* writer = '<w>', or for the empty writer: writer = '' OR writer = NULL.
WriterMatches(col, w) ==
    IF w = "" THEN Or3(Eq3(col, ""), Eq3(col, SQLNull)) = "true"
    ELSE Eq3(col, w) = "true"

(***************************************************************************)
(* Repository operations.                                                  *)
(***************************************************************************)
\* NewISASubscriptionRepo picks the v4 repository, which writes the
\* caller's writer, from database version 4.0.0 on, and the v3 one, which
\* has no writer column, before it.
\* subscriptionRepoV3.InsertSubscription has no writer column to fill, and
\* its ListExpiredSubscriptions lists nothing.
V3Writer == SQLNull
V3Expired == {}

RepoWriterAlwaysV4(w) == w
RepoWriter(w) == IF schema = "v4" THEN w ELSE V3Writer

\* InsertSubscription: a new row stamped with transaction_timestamp().  The
\* v3 repository has no writer column.  Inserting an existing ID is a
\* primary-key violation and changes nothing.
InsertSubscription(id, o, cells, ends, w) ==
    /\ rows[id] = NULL
    /\ now < MaxTime
    /\ rows' = [rows EXCEPT ![id] =
                  [Owner |-> o, Cells |-> cells, EndsAt |-> ends,
                   Writer |-> RepoWriter(w),
                   NotificationIndex |-> 0, UpdatedAt |-> now + 1]]
    /\ now' = now + 1
    /\ writes' = [writes EXCEPT ![id] = @ + 1]
    /\ UNCHANGED <<schema, snap, listed>>

\* process, the row scan behind every read: the v4 repository scans the
\* writer column into a pgtype.Varchar and keeps its String, "" for NULL;
\* the v3 one scans no writer and leaves Go's zero value "".
ScanWriter(col) == IF col = SQLNull THEN "" ELSE col
V3ScanWriter == ""
ScannedWriter(col) == IF schema = "v4" THEN ScanWriter(col) ELSE V3ScanWriter

\* GetSubscription: the client keeps the row it read (nil, nil if absent),
\* with the writer as process scanned it.
GetSubscription(c, id) ==
    /\ snap' = [snap EXCEPT ![c] =
                  IF rows[id] = NULL THEN NULL
                  ELSE [id |-> id, row |-> [rows[id] EXCEPT !.Writer = ScannedWriter(@)],
                        writes |-> writes[id]]]
    /\ UNCHANGED <<schema, rows, now, writes, listed>>

\* The WHERE clause of UpdateSubscription and DeleteSubscription:
\* id = $1 AND updated_at = <the version the caller names>.
VersionMatchesAny(s) == rows[s.id] # NULL
VersionMatches(s) == rows[s.id] # NULL /\ rows[s.id].UpdatedAt = s.row.UpdatedAt

\* UpdateSubscription: SET url, notification_index, cells, starts_at,
\* ends_at (and writer in v4), updated_at = transaction_timestamp(), all
\* from the caller's struct, which is the row it read with new extents.
\* No matching row: returns nil, nil and writes nothing.
UpdateSubscription(c, cells, ends) ==
    LET s == snap[c] IN
    /\ s # NULL
    /\ \/ /\ VersionMatches(s)
          /\ now < MaxTime
          /\ rows' = [rows EXCEPT ![s.id] =
                        [s.row EXCEPT !.Cells = cells, !.EndsAt = ends,
                                      !.Writer = IF schema = "v4" THEN RepoWriter(s.row.Writer)
                                                 ELSE rows[s.id].Writer,
                                      !.UpdatedAt = now + 1]]
          /\ now' = now + 1
          /\ writes' = [writes EXCEPT ![s.id] = @ + 1]
       \/ /\ ~VersionMatches(s)
          /\ UNCHANGED <<rows, now, writes>>
    /\ snap' = [snap EXCEPT ![c] = NULL]
    /\ UNCHANGED <<schema, listed>>

\* DeleteSubscription: DELETE ... WHERE id = $1 AND updated_at = $2.
DeleteSubscription(c) ==
    LET s == snap[c] IN
    /\ s # NULL
    /\ \/ /\ VersionMatches(s)
          /\ rows' = [rows EXCEPT ![s.id] = NULL]
          /\ writes' = [writes EXCEPT ![s.id] = @ + 1]
       \/ /\ ~VersionMatches(s)
          /\ UNCHANGED <<rows, writes>>
    /\ snap' = [snap EXCEPT ![c] = NULL]
    /\ UNCHANGED <<schema, now, listed>>

\* UpdateNotificationIdxsInCells, run inside the transaction of an ISA
\* write over `cells`: notification_index + 1 on every row whose cells
\* overlap and whose ends_at >= now.  updated_at is not in the SET list.
UpdateNotificationIdxsInCells(cells) ==
    /\ now < MaxTime
    /\ rows' = [id \in SubIDs |->
                  IF rows[id] # NULL /\ rows[id].Cells \cap cells # {}
                     /\ rows[id].EndsAt >= now
                  THEN [rows[id] EXCEPT !.NotificationIndex = @ + 1]
                  ELSE rows[id]]
    /\ now' = now + 1
    /\ UNCHANGED <<schema, snap, writes, listed>>

\* The expiry test of ListExpiredSubscriptions:
\* ends_at + INTERVAL '<expiredDurationInMin>' MINUTE <= CURRENT_TIMESTAMP.
Expired(id) == rows[id].EndsAt + Grace <= now

\* ListExpiredSubscriptions(writer): the expired rows that satisfy the
\* writer predicate; the v3 repository returns an empty list.
ListExpiredSubscriptions(w) ==
    /\ listed' = [writer |-> w, schema |-> schema,
                  result |-> IF schema = "v3" THEN V3Expired
                             ELSE {id \in Live : Expired(id)
                                                 /\ WriterMatches(rows[id].Writer, w)}]
    /\ UNCHANGED <<schema, rows, now, snap, writes>>

(***************************************************************************)
(* Read-only queries.  Each is one SELECT, so an operator on the state.    *)
(***************************************************************************)
\* The WHERE clause of SearchSubscriptions: cells && $1 AND ends_at >= $2
\* (now); the LIMIT only truncates this set.
SearchSubscriptionsWhere(cells) ==
    {id \in Live : rows[id].Cells \cap cells # {} /\ rows[id].EndsAt >= now}

\* SearchSubscriptionsByOwner adds subscriptions.owner = $2.
SearchSubscriptionsByOwnerWhere(cells, o) ==
    {id \in SearchSubscriptionsWhere(cells) : rows[id].Owner = o}

\* The inner SELECTs of MaxSubscriptionCountInCellsByOwner: unnest(cells)
\* over the owner's rows with ends_at >= now, one <<id, cell_id>> per
\* element, kept where cell_id = ANY($3).
OwnerCellRowsAnyEnd(cells, o) ==
    {r \in Live \X cells : rows[r[1]].Owner = o /\ r[2] \in rows[r[1]].Cells}
OwnerCellRows(cells, o) ==
    {r \in Live \X cells : rows[r[1]].Owner = o /\ rows[r[1]].EndsAt >= now
                            /\ r[2] \in rows[r[1]].Cells}

\* GROUP BY cell_id, COUNT(*) per group, IFNULL(MAX(...), 0): with no
\* group MAX is NULL and the result 0.
MaxSubscriptionCountInCellsByOwner(cells, o) ==
    LET rs == OwnerCellRows(cells, o)
        groups == {r[2] : r \in rs}
        count(c) == Cardinality({r \in rs : r[2] = c})
    IN IF groups = {} THEN 0 ELSE Max({count(c) : c \in groups})

\* The schema migration to v4; existing rows get a NULL writer.
Migrate ==
    /\ schema = "v3"
    /\ schema' = "v4"
    /\ UNCHANGED <<rows, now, snap, writes, listed>>

Tick ==
    /\ now < MaxTime
    /\ now' = now + 1
    /\ UNCHANGED <<schema, rows, snap, writes, listed>>

Init ==
    /\ schema = "v3"
    /\ rows = [id \in SubIDs |-> NULL]
    /\ now = 0
    /\ snap = [c \in Clients |-> NULL]
    /\ writes = [id \in SubIDs |-> 0]
    /\ listed = NULL

Next ==
    \/ \E id \in SubIDs, o \in Owners, cells \in CellSets, ends \in Times, w \in Writers :
           InsertSubscription(id, o, cells, ends, w)
    \/ \E c \in Clients :
           \/ \E id \in SubIDs : GetSubscription(c, id)
           \/ \E cells \in CellSets, ends \in Times : UpdateSubscription(c, cells, ends)
           \/ DeleteSubscription(c)
    \/ \E cells \in CellSets : UpdateNotificationIdxsInCells(cells)
    \/ \E w \in Writers : ListExpiredSubscriptions(w)
    \/ Migrate
    \/ Tick

Spec == Init /\ [][Next]_vars

-----------------------------------------------------------------------------
\* Type invariant; while the schema is v3 no row has a writer.
TypeOK ==
    /\ schema \in {"v3", "v4"}
    /\ rows \in [SubIDs -> Row \cup {NULL}]
    /\ now \in Times
    /\ \A c \in Clients : snap[c] = NULL \/ (snap[c].id \in SubIDs /\ snap[c].row \in Row)
    /\ writes \in [SubIDs -> Nat]
    /\ schema = "v3" => \A id \in Live : rows[id].Writer = SQLNull

\* Optimistic concurrency: an UpdateSubscription or DeleteSubscription
\* that writes a row does so only if no other caller wrote that ID since
\* this caller read it.
WritesOnlyFromCurrentRead ==
    [][\A c \in Clients :
          snap[c] # NULL /\ snap'[c] = NULL /\ writes'[snap[c].id] # writes[snap[c].id]
              => writes[snap[c].id] = snap[c].writes]_vars

\* Spec 4.4: the notification index is a monotonically increasing
\* per-subscription counter; no step lowers it while the row exists.
NotificationIndexNeverDecreases ==
    [][\A id \in SubIDs : rows[id] # NULL /\ rows'[id] # NULL =>
          rows'[id].NotificationIndex >= rows[id].NotificationIndex]_vars

\* ListExpiredSubscriptions' comment (line 369): passing the empty writer
\* lists the expired rows whose writer is empty or NULL.
ListExpiredIncludesNullWriter ==
    listed # NULL /\ listed.writer = "" /\ listed.schema = "v4" =>
        \A id \in Live : rows[id].EndsAt + Grace <= now /\ rows[id].Writer \in {"", SQLNull}
                            => id \in listed.result

\* The owner cap reads MaxSubscriptionCountInCellsByOwner: its grouped
\* count is the number of the owner's unexpired subscriptions in the
\* busiest requested cell, as SearchSubscriptionsByOwner over that single
\* cell finds them (before its LIMIT), and 0 when no requested cell has one.
OwnerCountMatchesSearch ==
    \A cells \in CellSets, o \in Owners :
        MaxSubscriptionCountInCellsByOwner(cells, o)
            = Max({Cardinality(SearchSubscriptionsByOwnerWhere({c}, o)) : c \in cells})

=============================================================================
