------------------------------- MODULE Gateway -------------------------------
(***************************************************************************)
(* The HTTP gateway process (cmds/http-gateway/main.go): main's bootstrap  *)
(* loop with its backoff, RunHTTPProxy (service registration, signal       *)
(* handling, the ready file, ListenAndServe) and the goroutine that turns  *)
(* an OS signal into a shutdown.                                           *)
(*                                                                         *)
(* Two threads run: `pc` is main's position, `gor` that of the signal      *)
(* goroutine of the current RunHTTPProxy call.  The environment delivers   *)
(* SIGINT/SIGTERM, brings the core service up, and may make a step fail    *)
(* for good (a fatal registration error, an unwritable working directory,  *)
(* an address in use).  The Go runtime delivers a signal to a              *)
(* signal.Notify channel without blocking: on an unbuffered channel with   *)
(* no receiver waiting, the signal is dropped.                             *)
(***************************************************************************)
EXTENDS Naturals, Sequences

CONSTANTS
    Services,       \* number of RegisterXxxHandlerFromEndpoint calls
    Backoffs,       \* the backoffs slice, in seconds
    MaxAttempts,    \* bound on RunHTTPProxy calls that fail retryably
    MaxSignals      \* bound on signals the environment sends

VARIABLES
    pc,             \* main: "profile", "register", "ready", "listen", "serving", "sleep",
                    \*       "exited", "panicked", "killed"
    reg,            \* next registration, 1..Services
    backoff,        \* index into Backoffs (0-based, as in the code)
    attempts,       \* retryable failures so far
    coreUp,         \* the core service accepts connections
    notify,         \* signal.Notify(signals, ...) is in effect
    gor,            \* goroutine: "none", "starting", "select", "canceling", "done"
    canceled,       \* main's context canceled by ctxCanceler
    innerDone,      \* RunHTTPProxy's own context canceled by its deferred cancel
    closed,         \* server.Shutdown has been called
    ready,          \* service.ready exists
    signals,        \* signals sent so far
    fatal,          \* ghost: a non-retryable environment failure occurred
    response        \* the last error response written by myHTTPError

vars == <<pc, reg, backoff, attempts, coreUp, notify, gor, canceled, innerDone,
          closed, ready, signals, fatal, response>>

Terminated == pc \in {"exited", "panicked", "killed"}
CtxDone == canceled \/ innerDone
NoResponse == [code |-> 0, details |-> "none", status |-> 0, body |-> "none"]

(***************************************************************************)
(* myCodeToHTTPStatus, over gRPC status codes 0..16 and the DSS codes     *)
(* AreaTooLarge and MissingOVNs, given 18 and 19 here (their package is    *)
(* not in the tree); 17 and 20 stand for codes the switch does not know,   *)
(* which are logged and mapped to 500.                                     *)
(***************************************************************************)
GrpcCodes == 0..20
CodeName == <<"Canceled", "Unknown", "InvalidArgument", "DeadlineExceeded",
              "NotFound", "AlreadyExists", "PermissionDenied", "ResourceExhausted",
              "FailedPrecondition", "Aborted", "OutOfRange", "Unimplemented",
              "Internal", "Unavailable", "DataLoss", "Unauthenticated",
              "Unassigned17", "AreaTooLarge", "MissingOVNs", "Unassigned20">>
Name(code) == IF code = 0 THEN "OK" ELSE CodeName[code]

\* FailedPrecondition deliberately does not become 412 Precondition Failed.
PreconditionStatus412 == 412
PreconditionStatus == 400

MyCodeToHTTPStatus(code) ==
    CASE Name(code) = "OK"                                          -> 200
      [] Name(code) = "Canceled"                                    -> 408
      [] Name(code) \in {"Unknown", "Internal", "DataLoss"}         -> 500
      [] Name(code) \in {"InvalidArgument", "OutOfRange"}           -> 400
      [] Name(code) = "FailedPrecondition"                          -> PreconditionStatus
      [] Name(code) = "DeadlineExceeded"                            -> 504
      [] Name(code) = "NotFound"                                    -> 404
      [] Name(code) \in {"AlreadyExists", "Aborted", "MissingOVNs"} -> 409
      [] Name(code) = "PermissionDenied"                            -> 403
      [] Name(code) = "Unauthenticated"                             -> 401
      [] Name(code) = "ResourceExhausted"                           -> 429
      [] Name(code) = "Unimplemented"                               -> 501
      [] Name(code) = "Unavailable"                                 -> 503
      [] Name(code) = "AreaTooLarge"                                -> 413
      [] OTHER                                                      -> 500

(***************************************************************************)
(* Main's handling of RunHTTPProxy's error.                                *)
(***************************************************************************)
\* stacktrace.RootCause(err) is nil, context.Canceled or http.ErrServerClosed.
GracefulCausesNoServerClosed == {"nil", "canceled"}
GracefulCauses == {"nil", "canceled", "serverClosed"}

\* RunHTTPProxy returns with root cause `cause`: its defers stop signal
\* delivery and cancel its context; main exits or panics.
Return(cause) ==
    /\ pc' = IF cause \in GracefulCauses THEN "exited" ELSE "panicked"
    /\ notify' = FALSE
    /\ innerDone' = TRUE
    /\ UNCHANGED <<reg, backoff, attempts, coreUp, gor, canceled, closed, ready,
                   signals, response>>

(***************************************************************************)
(* Main thread.                                                            *)
(***************************************************************************)
\* With --gcp_prof_service_name set, main starts the profiler before the
\* bootstrap loop; an error is a logger.Panic.
StartProfiler ==
    /\ pc = "profile"
    /\ \/ pc' = "register" /\ UNCHANGED fatal
       \/ pc' = "panicked" /\ fatal' = TRUE
    /\ UNCHANGED <<reg, backoff, attempts, coreUp, notify, gor, canceled, innerDone,
                   closed, ready, signals, response>>

\* The registrations run in order, RID v1, RID v2, aux and (with
\* --enable_scd) SCD; after registration r another one follows iff r is
\* not the last.
MoreServices(r) == r < Services

\* One RegisterXxxHandlerFromEndpoint (WithBlock, 10 s timeout).  The dial
\* times out while the core service is down: "context deadline exceeded"
\* is retryable and RunHTTPProxy returns with codeRetryable (its defer
\* cancels a context no goroutine watches yet).  After the last one,
\* signal.Notify and the goroutine start.
Register ==
    /\ pc = "register"
    /\ \/ /\ coreUp
          /\ IF MoreServices(reg)
             THEN /\ reg' = reg + 1
                  /\ UNCHANGED <<pc, notify, gor>>
             ELSE /\ pc' = "ready" /\ notify' = TRUE /\ gor' = "starting"
                  /\ UNCHANGED reg
          /\ UNCHANGED <<fatal, innerDone>>
       \/ /\ ~coreUp
          /\ attempts < MaxAttempts
          /\ pc' = "sleep"
          /\ UNCHANGED <<reg, notify, gor, fatal, innerDone>>
       \/ /\ fatal' = TRUE
          /\ Return("registration")
    /\ UNCHANGED <<backoff, attempts, coreUp, canceled, closed, ready, signals, response>>

\* time.Sleep(backoffs[backoff]), then the index advances unless it is at
\* the last element, and main calls RunHTTPProxy again.  An index past the
\* slice is a runtime panic.
BackoffUncapped(b) == IF b < Len(Backoffs) THEN b + 1 ELSE b
BackoffCap(b) == IF b < Len(Backoffs) - 1 THEN b + 1 ELSE b

Sleep ==
    /\ pc = "sleep"
    /\ IF backoff + 1 > Len(Backoffs)
       THEN /\ pc' = "panicked"
            /\ UNCHANGED <<backoff, attempts, reg>>
       ELSE /\ backoff' = BackoffCap(backoff)
            /\ attempts' = attempts + 1
            /\ pc' = "register"
            /\ reg' = 1
    /\ gor' = "none"
    /\ innerDone' = FALSE
    /\ closed' = FALSE
    /\ UNCHANGED <<coreUp, notify, canceled, ready, signals, fatal, response>>

\* os.Create("service.ready"); a failure is returned as a plain error.
CreateReady ==
    /\ pc = "ready"
    /\ \/ /\ ready' = TRUE
          /\ pc' = "listen"
          /\ UNCHANGED <<notify, innerDone, fatal, response>>
       \/ /\ fatal' = TRUE
          /\ Return("createFile")
          /\ UNCHANGED ready
    /\ UNCHANGED <<reg, backoff, attempts, coreUp, gor, canceled, closed, signals, response>>

\* server.ListenAndServe: ErrServerClosed at once if Shutdown came first,
\* a bind error, or serving.
Listen ==
    /\ pc = "listen"
    /\ \/ /\ closed
          /\ Return("serverClosed")
          /\ UNCHANGED fatal
       \/ /\ ~closed
          /\ pc' = "serving"
          /\ UNCHANGED <<notify, innerDone, fatal, response>>
       \/ /\ ~closed
          /\ fatal' = TRUE
          /\ Return("bind")
    /\ UNCHANGED <<reg, backoff, attempts, coreUp, gor, canceled, closed, ready, signals, response>>

\* ListenAndServe returns ErrServerClosed once Shutdown is called.
ServeUntilClosed ==
    /\ pc = "serving"
    /\ closed
    /\ Return("serverClosed")
    /\ UNCHANGED fatal

(***************************************************************************)
(* The signal goroutine.                                                   *)
(***************************************************************************)
GoroutineReachesSelect ==
    /\ gor = "starting" /\ ~Terminated
    /\ gor' = "select"
    /\ UNCHANGED <<pc, reg, backoff, attempts, coreUp, notify, canceled, innerDone,
                   closed, ready, signals, fatal, response>>

\* case <-ctx.Done(): return; the deferred server.Shutdown runs.
GoroutineStops ==
    /\ gor = "select" /\ CtxDone /\ ~Terminated
    /\ gor' = "done"
    /\ closed' = TRUE
    /\ UNCHANGED <<pc, reg, backoff, attempts, coreUp, notify, canceled, innerDone,
                   ready, signals, fatal, response>>

\* After case s := <-signals: ctxCanceler(), back to the select.
GoroutineCancels ==
    /\ gor = "canceling" /\ ~Terminated
    /\ gor' = "select"
    /\ canceled' = TRUE
    /\ UNCHANGED <<pc, reg, backoff, attempts, coreUp, notify, innerDone, closed,
                   ready, signals, fatal, response>>

(***************************************************************************)
(* Environment.                                                            *)
(***************************************************************************)
\* SIGINT or SIGTERM.  Without signal.Notify the default action ends the
\* process; with it, the runtime's non-blocking send reaches the goroutine
\* only if it waits in its select, and is dropped otherwise.
Signal ==
    /\ signals < MaxSignals /\ ~Terminated
    /\ signals' = signals + 1
    /\ \/ /\ ~notify
          /\ pc' = "killed"
          /\ UNCHANGED gor
       \/ /\ notify /\ gor = "select"
          /\ gor' = "canceling"
          /\ UNCHANGED pc
       \/ /\ notify /\ gor # "select"
          /\ UNCHANGED <<pc, gor>>
    /\ UNCHANGED <<reg, backoff, attempts, coreUp, notify, canceled, innerDone,
                   closed, ready, fatal, response>>

CoreStarts ==
    /\ ~coreUp
    /\ coreUp' = TRUE
    /\ UNCHANGED <<pc, reg, backoff, attempts, notify, gor, canceled, innerDone,
                   closed, ready, signals, fatal, response>>

Init ==
    /\ pc \in {"profile", "register"}   \* with or without a profiler service
    /\ reg = 1 /\ backoff = 0 /\ attempts = 0
    /\ coreUp \in BOOLEAN
    /\ notify = FALSE /\ gor = "none"
    /\ canceled = FALSE /\ innerDone = FALSE /\ closed = FALSE
    /\ ready = FALSE /\ signals = 0 /\ fatal = FALSE /\ response = NoResponse

(***************************************************************************)
(* myHTTPError, run for a request whose core-service call failed with      *)
(* status `code` and `details`: "none", one "conflict"                     *)
(* (AirspaceConflictResponse), one "standard" (StandardErrorResponse), or  *)
(* one of another type.  The body is the conflict for MissingOVNs, the     *)
(* StandardErrorResponse detail, or one built from the status; a           *)
(* MissingOVNs status without a conflict detail is a marshalling error,    *)
(* answered 500 with the fallback body.                                    *)
(***************************************************************************)
Details == {"none", "conflict", "standard", "other"}

HTTPErrorResponse(code, details) ==
    LET body == IF Name(code) = "MissingOVNs"
                THEN IF details = "conflict" THEN "conflict" ELSE "fallback"
                ELSE IF details = "standard" THEN "standard" ELSE "default"
    IN [code |-> code, details |-> details, body |-> body,
        status |-> IF body = "fallback" THEN 500 ELSE MyCodeToHTTPStatus(code)]

HTTPError(code, details) ==
    /\ pc = "serving" /\ ~closed
    /\ response' = HTTPErrorResponse(code, details)
    /\ UNCHANGED <<pc, reg, backoff, attempts, coreUp, notify, gor, canceled,
                   innerDone, closed, ready, signals, fatal>>

\* A serving process, or one that has ended, waits for the environment.
Idling ==
    /\ Terminated \/ (pc = "serving" /\ ~closed)
    /\ UNCHANGED vars

Next ==
    \/ StartProfiler \/ Register \/ Sleep \/ CreateReady \/ Listen \/ ServeUntilClosed
    \/ GoroutineReachesSelect \/ GoroutineStops \/ GoroutineCancels
    \/ \E code \in GrpcCodes \ {0}, d \in Details : HTTPError(code, d)
    \/ Signal \/ CoreStarts \/ Idling

\* Both goroutines are scheduled by the Go runtime and make progress; the
\* core service comes up eventually.
Fairness ==
    /\ WF_vars(StartProfiler) /\ WF_vars(Register) /\ WF_vars(Sleep) /\ WF_vars(CreateReady)
    /\ WF_vars(Listen) /\ WF_vars(ServeUntilClosed)
    /\ WF_vars(GoroutineReachesSelect) /\ WF_vars(GoroutineStops)
    /\ WF_vars(GoroutineCancels) /\ WF_vars(CoreStarts)

Spec == Init /\ [][Next]_vars
FairSpec == Spec /\ Fairness

-----------------------------------------------------------------------------
(***************************************************************************)
(* Spec 7: the HTTP status of each error kind, as the spec's table.        *)
(***************************************************************************)
SpecStatus(name) ==
    CASE name = "OK" -> 200
      [] name \in {"InvalidArgument", "FailedPrecondition", "OutOfRange"} -> 400
      [] name = "Unauthenticated" -> 401
      [] name = "PermissionDenied" -> 403
      [] name = "NotFound" -> 404
      [] name \in {"AlreadyExists", "Aborted", "MissingOVNs"} -> 409
      [] name = "AreaTooLarge" -> 413
      [] name = "ResourceExhausted" -> 429
      [] name = "Canceled" -> 408
      [] name = "DeadlineExceeded" -> 504
      [] name = "Unimplemented" -> 501
      [] name = "Unavailable" -> 503
      [] OTHER -> 500

\* Spec 7, error envelope: an error response carries the status of the
\* spec's table for its code, and an AirspaceConflictResponse body exactly
\* for MissingOVNs; only a MissingOVNs status lacking its conflict detail
\* falls back to 500.
ErrorResponseFollowsSpec ==
    response # NoResponse =>
        \/ /\ response.body = "fallback" /\ response.status = 500
           /\ Name(response.code) = "MissingOVNs" /\ response.details # "conflict"
        \/ /\ response.body # "fallback"
           /\ response.status = SpecStatus(Name(response.code))
           /\ (Name(response.code) = "MissingOVNs") = (response.body = "conflict")

\* The gateway panics only after a failure that is not retryable (a fatal
\* registration error, the ready file, the bind): neither a signal-driven
\* shutdown, in any interleaving with main, nor any number of retries
\* while the core service is down ends in logger.Panic.
PanicsOnlyOnFatalError ==
    pc = "panicked" => fatal

\* A SIGINT/SIGTERM sent to a running gateway ends the process.
SignalEndsProcess ==
    (signals > 0) ~> Terminated

GatewayEventuallyServes ==
    <>(pc = "serving" \/ fatal \/ signals > 0)

=============================================================================
