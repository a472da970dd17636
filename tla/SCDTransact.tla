---------------------------- MODULE SCDTransact ----------------------------
(***************************************************************************)
(* Server.PutSubscription (pkg/scd/subscriptions_handler.go) as it runs    *)
(* under Store.Transact: the handler builds subreq once, outside the       *)
(* closure, and Transact runs the closure as many attempts as it needs.    *)
(* An attempt reads the store, runs the checks and buffers the upsert;     *)
(* the commit fails with a serialization conflict if another transaction   *)
(* committed since the attempt read, and Transact then runs the closure    *)
(* again from the start (spec section 4.3).                                *)
(*                                                                         *)
(* The closure writes into subreq (subreq.NotificationIndex at line 129),  *)
(* and that write outlives a failed attempt: the next attempt starts from  *)
(* the subreq the last one left.  The other handlers stay one atomic step  *)
(* each, as in SCD.  AtomicPutSubscription asserts that this detailed      *)
(* specification implements SCD's, where PutSubscription is one step.     *)
(*                                                                         *)
(* Conflict detection is abstracted to: any commit since the attempt read  *)
(* conflicts.  Store.Transact is not in the tree; its part is written from *)
(* spec section 4.3.                                                       *)
(***************************************************************************)
EXTENDS SCD

CONSTANTS
    Workers,      \* gRPC workers serving PutSubscription
    MaxRetries    \* Transact's bound on re-running the closure

VARIABLE
    txn           \* Workers -> the PutSubscription call a worker is serving

tvars == <<subs, ops, cons, ver, seen, resp, txn>>

\* A request: caller, ID, version, extents and notification flags.
Requests == [m: Managers, id: SubIDs, version: 0..MaxVersion, vol: Vols,
             nOps: BOOLEAN, nCons: BOOLEAN]

\* pc: "idle", "ready" (a retry is due), "executed" (buffered, to commit).
\* idx is subreq.NotificationIndex; snap the store the attempt read.
NoTxn == [pc |-> "idle", req |-> NULL, idx |-> 0, snap |-> NULL, tries |-> 0]

\* subreq.NotificationIndex after an attempt that reaches the upsert: line
\* 129 copies the old row's index on an update; a create leaves whatever
\* an earlier attempt put there.
AttemptIndexFromRequest(w, old) == txn[w].idx
AttemptIndex(w, old) == IF old # NULL THEN old.NotificationIndex ELSE txn[w].idx

\* One attempt of the closure for request r.  An error return rolls back
\* and is the handler's response (Transact does not retry it); a nil
\* return leaves the upsert buffered until the commit.
Attempt(w, r) ==
    LET outcome == PutSubscriptionOutcome(r.m, r.id, r.version, r.vol, r.nOps, r.nCons) IN
    \/ /\ outcome # "OK"
       /\ Reply("PutSubscription", r.m, outcome, {})
       /\ txn' = [txn EXCEPT ![w] = NoTxn]
       /\ UNCHANGED db
    \/ /\ outcome = "OK"
       /\ ver < MaxVersion
       /\ txn' = [txn EXCEPT ![w] = [pc |-> "executed", req |-> r, snap |-> db,
                                     idx |-> AttemptIndex(w, subs[r.id]),
                                     tries |-> txn[w].tries]]
       /\ UNCHANGED vars

\* Server.PutSubscription builds subreq, with a zero NotificationIndex, and
\* calls Store.Transact, which runs the first attempt.
PutSubscriptionCall(w, r) ==
    /\ txn[w].pc = "idle"
    /\ Attempt(w, r)

\* A later attempt, on the subreq the earlier ones left.
RetryAttempt(w) ==
    /\ txn[w].pc = "ready"
    /\ Attempt(w, txn[w].req)

\* The serializable commit succeeds iff nothing committed since the read.
NoConflict(w) == db = txn[w].snap

\* The commit applies the buffered closure: the upsert with subreq's index
\* and the response the closure built.
Commit(w) ==
    LET r == txn[w].req IN
    /\ txn[w].pc = "executed"
    /\ NoConflict(w)
    /\ PutSubscriptionWithIndex(r.m, r.id, r.version, r.vol, r.nOps, r.nCons, txn[w].idx)
    /\ txn' = [txn EXCEPT ![w] = NoTxn]

\* A serialization conflict: Transact re-runs the closure on the same
\* subreq, up to MaxRetries times.
Retry(w) ==
    /\ txn[w].pc = "executed"
    /\ ~NoConflict(w)
    /\ txn[w].tries < MaxRetries
    /\ txn' = [txn EXCEPT ![w].pc = "ready", ![w].snap = NULL, ![w].tries = @ + 1]
    /\ UNCHANGED vars

\* Out of retries: Transact returns the conflict and nothing is written.
Abort(w) ==
    /\ txn[w].pc = "executed"
    /\ ~NoConflict(w)
    /\ txn[w].tries = MaxRetries
    /\ txn' = [txn EXCEPT ![w] = NoTxn]
    /\ UNCHANGED vars

TxnInit == Init /\ txn = [w \in Workers |-> NoTxn]

TxnNext ==
    \/ \E w \in Workers :
           \/ \E r \in Requests : r.version <= ver /\ PutSubscriptionCall(w, r)
           \/ RetryAttempt(w)
           \/ Commit(w)
           \/ Retry(w)
           \/ Abort(w)
    \/ OtherHandlers /\ UNCHANGED txn

TxnSpec == TxnInit /\ [][TxnNext]_tvars

-----------------------------------------------------------------------------
(***************************************************************************)
(* The refinement: the tables, the clock, the key ghost and the response  *)
(* map to themselves; the workers' state is hidden.                       *)
(***************************************************************************)
Atomic == INSTANCE SCD WITH subs <- subs, ops <- ops, cons <- cons, ver <- ver,
                            seen <- seen, resp <- resp

\* Every behaviour of PutSubscription retried by Transact, interleaved with
\* the other handlers, is a behaviour of the atomic SCD specification: the
\* subreq an attempt leaves behind never changes what a later attempt
\* writes or answers.
AtomicPutSubscription == Atomic!Spec

=============================================================================
