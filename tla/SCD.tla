-------------------------------- MODULE SCD --------------------------------
(***************************************************************************)
(* The Strategic Conflict Detection records kept by the DSS: SCD          *)
(* subscriptions (pkg/scd/subscriptions_handler.go), operational intents  *)
(* (pkg/scd/models/operational_intents.go and the PutOperationalIntent     *)
(* protocol of spec section 4.4) and constraints                           *)
(* (pkg/scd/store/cockroach/constraints.go).                               *)
(*                                                                         *)
(* Every handler body runs inside Store.Transact under serializable        *)
(* isolation, so a handler call is one atomic step: either every write of  *)
(* the closure commits or, on an error return, none does.  Geometry is     *)
(* abstracted to a volume: a set of level-13 cells and a set of time       *)
(* slots.  An empty cell set is an extents without a footprint (the        *)
(* ErrMissingFootprint case that PutSubscription tolerates).               *)
(***************************************************************************)
EXTENDS Naturals, FiniteSets

CONSTANTS
    Managers,     \* USS identities, the subject claim of the caller's token
    SubIDs,       \* subscription IDs
    OpIDs,        \* operational intent IDs
    ConIDs,       \* constraint IDs
    Vols,         \* 4-D volumes a request can carry: [cells, win]
    MaxVersion,   \* bound on committed writes (transaction_timestamp values)
    NULL          \* no record at this ID

VARIABLES
    subs,   \* SubIDs -> subscription row or NULL            (scd_subscriptions)
    ops,    \* OpIDs  -> operational intent row or NULL      (scd_operations)
    cons,   \* ConIDs -> constraint row or NULL              (scd_constraints)
    ver,    \* last transaction_timestamp a write stamped; OVNs and versions
    seen,   \* ghost: OpIDs -> keys the intent's last writer presented
    resp    \* the last response: caller, outcome and the versions it revealed

vars == <<subs, ops, cons, ver, seen, resp>>
db   == <<subs, ops, cons, ver, seen>>

NoVersion == 0            \* the empty version string ""
Versions  == 1..MaxVersion

\* The updated_at a committing write stamps: transaction_timestamp(), later
\* than every earlier commit.  StampStale reuses the previous one.
StampStale == ver
Stamp == ver + 1

ASSUME NULL \notin Managers /\ MaxVersion \in Nat \ {0}

(***************************************************************************)
(* Geometry and the model types (operational_intents.go 15-69).            *)
(***************************************************************************)
Overlap(v, w) == v.cells \cap w.cells # {} /\ v.win \cap w.win # {}
Covers(v, w)  == w.cells \subseteq v.cells /\ w.win \subseteq v.win

OperationalIntentStates == {"Accepted", "Activated", "Nonconforming", "Contingent"}
RequestStates == OperationalIntentStates \cup {"Unknown"}

IsValidInDSS(s) == s \in OperationalIntentStates

RequiresKey(s) == s \notin {"Nonconforming", "Contingent"}

\* The transition matrix of spec section 3: create into Accepted or
\* Activated, Accepted <-> Activated, anything -> Nonconforming/Contingent.
ValidTransition(old, s) ==
    IF old = NULL THEN s \in {"Accepted", "Activated"}
    ELSE \/ s \in {"Nonconforming", "Contingent"}
         \/ {old.State, s} \subseteq {"Accepted", "Activated"}

Kinds == {"OK", "BadRequest", "NotFound", "AlreadyExists", "VersionMismatch",
          "PermissionDenied", "MissingOVNs", "Internal"}

SubRow == [Manager: Managers, Version: Versions, Vol: Vols,
           NotifyForOperationalIntents: BOOLEAN, NotifyForConstraints: BOOLEAN,
           NotificationIndex: Nat]
OpRow  == [Manager: Managers, OVN: Versions, State: OperationalIntentStates,
           Vol: Vols, SubscriptionID: SubIDs]
ConRow == [Manager: Managers, OVN: Versions, Vol: Vols]

Live(f) == {i \in DOMAIN f : f[i] # NULL}

\* Reply(op, m, kind, rev) sets the response of handler op (named for the
\* reader only) for caller m;
\* rev holds <<id, version, owner>> for every version the response carries.
Reply(op, m, kind, rev) ==
    resp' = [caller |-> m, kind |-> kind, revealed |-> rev]

(***************************************************************************)
(* Repository side effects.                                                *)
(***************************************************************************)
\* UpdateNotificationIdxsInCells: bump every subscription whose cells
\* overlap the written cells; returns the new subscription table.
UpdateNotificationIdxsInCells(cells) ==
    [s \in SubIDs |->
        IF subs[s] # NULL /\ subs[s].Vol.cells \cap cells # {}
        THEN [subs[s] EXCEPT !.NotificationIndex = @ + 1]
        ELSE subs[s]]

\* GetDependentOperationalIntents + GetOperations: the intents that name
\* subscription id.
DependentOps(id) == {o \in Live(ops) : ops[o].SubscriptionID = id}

\* ValidateDependentOps: the subscription's extents must cover every
\* dependent operational intent.
ValidateDependentOpsSkipped(vol, deps) == TRUE
ValidateDependentOps(vol, deps) == \A o \in deps : Covers(vol, ops[o].Vol)

CellsOf(r) == IF r = NULL THEN {} ELSE r.Vol.cells

\* The cells whose subscriptions a write of record old to extents vol bumps:
\* the union of old and new cells (spec 4.4 step 8).
WrittenCells(old, vol) == CellsOf(old) \cup vol.cells

\* The 4-D search: cells && $1 AND starts_at <= end AND ends_at >= start.
\* SearchConstraintsSwapped compares the bounds the wrong way round,
\* finding only records whose time range contains the query's.
SearchOperationalIntents(vol) == {o \in Live(ops) : Overlap(ops[o].Vol, vol)}
SearchConstraintsSwapped(vol) ==
    {k \in Live(cons) : cons[k].Vol.cells \cap vol.cells # {} /\ vol.win \subseteq cons[k].Vol.win}
SearchConstraints(vol) == {k \in Live(cons) : Overlap(cons[k].Vol, vol)}

(***************************************************************************)
(* PutSubscription (create and update).  The checks in code order; the    *)
(* last one is SearchConstraints(extents) failing on an extents without a  *)
(* footprint, after the upsert, which rolls the transaction back.          *)
(***************************************************************************)
\* A reference in a PutSubscription response keeps its OVN only for the
\* caller's own records; others get NoOvnPhrase (lines 188-190, 209-211).
\* ToProto still returns their Version; the model has no Version apart
\* from the OVN, and `revealed` records the OVNs only.
Masked(r, m) == r.Manager # m

\* The new row keeps the old row's notification index (line 129).
PreservedIndexReset(id) == 0
PreservedIndex(id) == IF subs[id] = NULL THEN 0 ELSE subs[id].NotificationIndex

PutSubscriptionOutcomeNoOwnerCheck(m, id, version, vol, nOps, nCons) ==
    LET old == subs[id] IN
    IF ~nOps /\ ~nCons THEN "BadRequest"
    ELSE IF old = NULL THEN
        IF version # NoVersion THEN "NotFound"
        ELSE IF nCons /\ vol.cells = {} THEN "Internal"
        ELSE "OK"
    ELSE IF version = NoVersion THEN "AlreadyExists"
    ELSE IF version # old.Version THEN "VersionMismatch"
    ELSE IF ~ValidateDependentOps(vol, DependentOps(id)) THEN "BadRequest"
    ELSE IF nCons /\ vol.cells = {} THEN "Internal"
    ELSE "OK"

PutSubscriptionOutcome(m, id, version, vol, nOps, nCons) ==
    LET old == subs[id] IN
    IF ~nOps /\ ~nCons THEN "BadRequest"
    ELSE IF old = NULL THEN
        IF version # NoVersion THEN "NotFound"
        ELSE IF nCons /\ vol.cells = {} THEN "Internal"
        ELSE "OK"
    ELSE IF version = NoVersion THEN "AlreadyExists"
    ELSE IF version # old.Version THEN "VersionMismatch"
    ELSE IF old.Manager # m THEN "PermissionDenied"
    ELSE IF ~ValidateDependentOps(vol, DependentOps(id)) THEN "BadRequest"
    ELSE IF nCons /\ vol.cells = {} THEN "Internal"
    ELSE "OK"

\* The closure body with subreq.NotificationIndex = idx when it reaches the
\* upsert; a single attempt has idx = PreservedIndex(id).
PutSubscriptionWithIndex(m, id, version, vol, nOps, nCons, idx) ==
    LET outcome == PutSubscriptionOutcome(m, id, version, vol, nOps, nCons)
        sub == [Manager |-> m, Version |-> Stamp, Vol |-> vol,
                NotifyForOperationalIntents |-> nOps,
                NotifyForConstraints |-> nCons,
                NotificationIndex |-> idx]
        opRefs  == IF nOps /\ vol.cells # {}
                   THEN {<<o, ops[o].OVN, ops[o].Manager>> :
                           o \in {p \in SearchOperationalIntents(vol) : ~Masked(ops[p], m)}}
                   ELSE {}
        conRefs == IF nCons
                   THEN {<<k, cons[k].OVN, cons[k].Manager>> :
                           k \in {c \in SearchConstraints(vol) : ~Masked(cons[c], m)}}
                   ELSE {}
    IN
    \/ /\ outcome # "OK"
       /\ Reply("PutSubscription", m, outcome, {})
       /\ UNCHANGED db
    \/ /\ outcome = "OK"
       /\ ver < MaxVersion
       /\ subs' = [subs EXCEPT ![id] = sub]
       /\ ver' = Stamp
       /\ Reply("PutSubscription", m, "OK", {<<id, Stamp, m>>} \cup opRefs \cup conRefs)
       /\ UNCHANGED <<ops, cons, seen>>

PutSubscription(m, id, version, vol, nOps, nCons) ==
    PutSubscriptionWithIndex(m, id, version, vol, nOps, nCons, PreservedIndex(id))

GetSubscription(m, id) ==
    /\ Reply("GetSubscription", m,
             IF subs[id] = NULL THEN "NotFound"
             ELSE IF subs[id].Manager # m THEN "PermissionDenied" ELSE "OK",
             IF subs[id] # NULL /\ subs[id].Manager = m
             THEN {<<id, subs[id].Version, subs[id].Manager>>} ELSE {})
    /\ UNCHANGED db

QuerySubscriptions(m, vol) ==
    /\ Reply("QuerySubscriptions", m, "OK",
             {<<s, subs[s].Version, subs[s].Manager>> :
                s \in {t \in Live(subs) : Overlap(subs[t].Vol, vol) /\ subs[t].Manager = m}})
    /\ UNCHANGED db

DeleteSubscription(m, id) ==
    LET old == subs[id]
        outcome == IF old = NULL THEN "NotFound"
                   ELSE IF old.Manager # m THEN "PermissionDenied"
                   ELSE IF DependentOps(id) # {} THEN "BadRequest"
                   ELSE "OK"
    IN
    \/ /\ outcome # "OK"
       /\ Reply("DeleteSubscription", m, outcome, {})
       /\ UNCHANGED db
    \/ /\ outcome = "OK"
       /\ subs' = [subs EXCEPT ![id] = NULL]
       /\ Reply("DeleteSubscription", m, "OK", {<<id, old.Version, old.Manager>>})
       /\ UNCHANGED <<ops, cons, ver, seen>>
(***************************************************************************)
(* PutOperationalIntent, spec section 4.4: load, authorise, version        *)
(* discipline, validate, the OVN key check against every other record the  *)
(* new extents overlap, upsert with a new OVN, and bump the subscriptions  *)
(* over the old and the new cells.                                         *)
(***************************************************************************)
RequiredOVNs(id, vol) ==
    {ops[o].OVN : o \in SearchOperationalIntents(vol) \ {id}}
        \cup {cons[k].OVN : k \in SearchConstraints(vol)}

PutOperationalIntentOutcome(m, id, version, st, vol, sid, keys) ==
    LET old == ops[id] IN
    IF old # NULL /\ old.Manager # m THEN "PermissionDenied"
    ELSE IF old = NULL /\ version # NoVersion THEN "NotFound"
    ELSE IF old # NULL /\ version = NoVersion THEN "AlreadyExists"
    ELSE IF old # NULL /\ version # old.OVN THEN "VersionMismatch"
    ELSE IF ~IsValidInDSS(st) \/ ~ValidTransition(old, st) THEN "BadRequest"
    ELSE IF vol.cells = {} THEN "BadRequest"
    ELSE IF RequiresKey(st) /\ ~(RequiredOVNs(id, vol) \subseteq keys) THEN "MissingOVNs"
    ELSE "OK"

PutOperationalIntent(m, id, version, st, vol, sid, keys) ==
    LET outcome == PutOperationalIntentOutcome(m, id, version, st, vol, sid, keys)
    IN
    \/ /\ outcome # "OK"
       /\ Reply("PutOperationalIntent", m, outcome, {})
       /\ UNCHANGED db
    \/ /\ outcome = "OK"
       /\ ver < MaxVersion
       /\ ops' = [ops EXCEPT ![id] = [Manager |-> m, OVN |-> Stamp, State |-> st,
                                      Vol |-> vol, SubscriptionID |-> sid]]
       /\ subs' = UpdateNotificationIdxsInCells(WrittenCells(ops[id], vol))
       /\ seen' = [seen EXCEPT ![id] = keys]
       /\ ver' = Stamp
       /\ Reply("PutOperationalIntent", m, "OK", {<<id, Stamp, m>>})
       /\ UNCHANGED cons

DeleteOperationalIntent(m, id, ovn) ==
    LET old == ops[id]
        outcome == IF old = NULL THEN "NotFound"
                   ELSE IF old.Manager # m THEN "PermissionDenied"
                   ELSE IF ovn # old.OVN THEN "VersionMismatch"
                   ELSE "OK"
    IN
    \/ /\ outcome # "OK"
       /\ Reply("DeleteOperationalIntent", m, outcome, {})
       /\ UNCHANGED db
    \/ /\ outcome = "OK"
       /\ ops' = [ops EXCEPT ![id] = NULL]
       /\ subs' = UpdateNotificationIdxsInCells(old.Vol.cells)
       /\ seen' = [seen EXCEPT ![id] = {}]
       /\ Reply("DeleteOperationalIntent", m, "OK", {})
       /\ UNCHANGED <<cons, ver>>

(***************************************************************************)
(* Constraint writes: the service of spec section 4.6 (version discipline, *)
(* bounds check, bump) around UpsertConstraint and DeleteConstraint.       *)
(***************************************************************************)
\* GetConstraint: SELECT ... WHERE id = $1 through fetchConstraint, which
\* answers pgx.ErrNoRows for no row (NULL here; the service's NotFound).
GetConstraint(id) == cons[id]

PutConstraint(m, id, version, vol) ==
    LET old == GetConstraint(id)
        outcome == IF old # NULL /\ old.Manager # m THEN "PermissionDenied"
                   ELSE IF old = NULL /\ version # NoVersion THEN "NotFound"
                   ELSE IF old # NULL /\ version = NoVersion THEN "AlreadyExists"
                   ELSE IF old # NULL /\ version # old.OVN THEN "VersionMismatch"
                   ELSE IF vol.cells = {} THEN "BadRequest"
                   ELSE "OK"
    IN
    \/ /\ outcome # "OK"
       /\ Reply("PutConstraint", m, outcome, {})
       /\ UNCHANGED db
    \/ /\ outcome = "OK"
       /\ ver < MaxVersion
       /\ cons' = [cons EXCEPT ![id] = [Manager |-> m, OVN |-> Stamp, Vol |-> vol]]
       /\ subs' = UpdateNotificationIdxsInCells(WrittenCells(old, vol))
       /\ ver' = Stamp
       /\ Reply("PutConstraint", m, "OK", {<<id, Stamp, m>>})
       /\ UNCHANGED <<ops, seen>>

DeleteConstraint(m, id) ==
    LET old == GetConstraint(id)
        outcome == IF old = NULL THEN "NotFound"
                   ELSE IF old.Manager # m THEN "PermissionDenied"
                   ELSE "OK"
    IN
    \/ /\ outcome # "OK"
       /\ Reply("DeleteConstraint", m, outcome, {})
       /\ UNCHANGED db
    \/ /\ outcome = "OK"
       /\ cons' = [cons EXCEPT ![id] = NULL]
       /\ subs' = UpdateNotificationIdxsInCells(old.Vol.cells)
       /\ Reply("DeleteConstraint", m, "OK", {})
       /\ UNCHANGED <<ops, ver, seen>>

(***************************************************************************)
(* The specification.  A caller names any version up to the last one the   *)
(* store stamped: guessing is allowed, so the manager checks are exercised *)
(* on their own.                                                           *)
(***************************************************************************)
CurrentOVNs == {ops[o].OVN : o \in Live(ops)} \cup {cons[k].OVN : k \in Live(cons)}
\* The keys a USS presents: none, or every current OVN but at most one.
KeySets == {{}, CurrentOVNs} \cup {CurrentOVNs \ {v} : v \in CurrentOVNs}

Init ==
    /\ subs = [s \in SubIDs |-> NULL]
    /\ ops  = [o \in OpIDs  |-> NULL]
    /\ cons = [k \in ConIDs |-> NULL]
    /\ ver  = 0
    /\ seen = [o \in OpIDs |-> {}]
    /\ resp = [caller |-> NULL, kind |-> "OK", revealed |-> {}]

\* Every handler other than PutSubscription, each one transaction.
OtherHandlers ==
    \E m \in Managers :
        \/ \E id \in SubIDs :
             \/ GetSubscription(m, id)
             \/ DeleteSubscription(m, id)
        \/ \E vol \in Vols : QuerySubscriptions(m, vol)
        \/ \E id \in OpIDs, version \in 0..ver :
             \/ \E st \in RequestStates, vol \in Vols, sid \in SubIDs, keys \in KeySets :
                    PutOperationalIntent(m, id, version, st, vol, sid, keys)
             \/ DeleteOperationalIntent(m, id, version)
        \/ \E id \in ConIDs :
             \/ \E version \in 0..ver, vol \in Vols : PutConstraint(m, id, version, vol)
             \/ DeleteConstraint(m, id)

Next ==
    \/ \E m \in Managers, id \in SubIDs, version \in 0..ver, vol \in Vols,
          nOps, nCons \in BOOLEAN :
           PutSubscription(m, id, version, vol, nOps, nCons)
    \/ OtherHandlers

Spec == Init /\ [][Next]_vars

-----------------------------------------------------------------------------
(***************************************************************************)
(* Properties.                                                             *)
(***************************************************************************)
TypeOK ==
    /\ subs \in [SubIDs -> SubRow \cup {NULL}]
    /\ ops  \in [OpIDs  -> OpRow  \cup {NULL}]
    /\ cons \in [ConIDs -> ConRow \cup {NULL}]
    /\ ver \in 0..MaxVersion
    /\ seen \in [OpIDs -> SUBSET Versions]
    /\ resp.kind \in Kinds
    /\ resp.revealed \subseteq (SubIDs \cup OpIDs \cup ConIDs) \X Versions \X Managers

\* The OVN handshake (spec 4.4 step 6, testable property 2), stated over
\* the whole table: whenever an operational intent in a key-requiring state
\* overlaps an operational intent or constraint that was last written
\* before it, the intent's last writer presented that record's current
\* OVN.  Breaks if PutOperationalIntent searches the wrong extents, skips
\* records of some kind or owner, or mis-classifies a state.
DeconflictedPairs ==
    \A a \in Live(ops) : RequiresKey(ops[a].State) =>
        /\ \A b \in Live(ops) \ {a} :
               Overlap(ops[a].Vol, ops[b].Vol) /\ ops[b].OVN < ops[a].OVN
                   => ops[b].OVN \in seen[a]
        /\ \A k \in Live(cons) :
               Overlap(ops[a].Vol, cons[k].Vol) /\ cons[k].OVN < ops[a].OVN
                   => cons[k].OVN \in seen[a]

\* An operational intent that its subscription covers stays covered until
\* the intent itself is written again: PutSubscription refuses new extents
\* that leave a dependent intent out (ValidateDependentOps, line 141) and
\* DeleteSubscription refuses while dependents exist (374-383), whatever
\* intent writes and subscription updates interleave.
DependentsCovered ==
    [][\A o \in Live(ops) :
          LET s == ops[o].SubscriptionID IN
          /\ ops'[o] = ops[o]
          /\ subs[s] # NULL /\ Covers(subs[s].Vol, ops[o].Vol)
          => subs'[s] # NULL /\ Covers(subs'[s].Vol, ops[o].Vol)]_vars

\* Testable property 4: a step that changes or deletes an existing record
\* (other than a notification-index bump) is taken by that record's manager.
Content(r) == IF r = NULL THEN NULL ELSE [r EXCEPT !.NotificationIndex = 0]
OwnerOnlyWrites ==
    [][ /\ \A s \in Live(subs) : Content(subs'[s]) # Content(subs[s])
                                     => resp'.caller = subs[s].Manager
        /\ \A o \in Live(ops)  : ops'[o] # ops[o] => resp'.caller = ops[o].Manager
        /\ \A k \in Live(cons) : cons'[k] # cons[k] => resp'.caller = cons[k].Manager
      ]_vars

\* A subscription's notification index never goes down while the
\* subscription exists, across updates of the subscription itself
\* (subreq.NotificationIndex = old.NotificationIndex, line 129).
NotificationIndexMonotonic ==
    [][\A s \in SubIDs : subs[s] # NULL /\ subs'[s] # NULL =>
          subs'[s].NotificationIndex >= subs[s].NotificationIndex]_vars

\* PutSubscription tolerates extents without a footprint (lines 61-63:
\* "We may be able to fill these values...") and its errors are client
\* errors or success; it never fails with an uncoded internal error (only
\* PutSubscription can produce "Internal" in this model).
PutSubscriptionNoInternalError ==
    resp.kind # "Internal"

=============================================================================
