-------------------------------- MODULE Auth --------------------------------
(***************************************************************************)
(* The DSS authorizer (pkg/auth/auth.go): the key set guarded by an        *)
(* RWMutex, the refresher goroutine that re-resolves it on every ticker    *)
(* tick, and AuthInterceptor run concurrently by the gRPC workers.         *)
(*                                                                         *)
(* A worker reads the key slice under RLock and validates the token after  *)
(* releasing it, so the two are separate steps and a refresh can land in   *)
(* between.  A token is abstracted to the key that signed it, its aud      *)
(* claim and its scope set; it verifies under a key iff that key signed    *)
(* it.  The key resolver is the JWKS endpoint or the PEM files: `served`   *)
(* is what that source currently holds, and the environment rotates it.   *)
(***************************************************************************)
EXTENDS Naturals, FiniteSets

CONSTANTS
    Keys,               \* public keys the identity provider can publish
    Tokens,             \* bearer tokens: [signer, aud, scopes]
    NoToken,            \* request without an authorization header
    Operations,         \* gRPC full method names
    Validators,         \* scopesValidators: a function on the known operations
    AcceptedAudiences,  \* Configuration.AcceptedAudiences, as a set
    Resolver,           \* "jwks" (JWKSResolver) or "file" (FromFileKeyResolver)
    Workers,            \* gRPC worker goroutines
    MaxRotations,       \* bound on key rotations at the source
    NULL

VARIABLES
    keys,       \* Authorizer.keys
    served,     \* the keys the resolver's source holds now
    cache,      \* FromFileKeyResolver.keys (NULL = nil)
    alive,      \* FALSE once the refresher's logger.Panic has ended the process
    rotations,  \* number of rotations so far
    worker      \* Workers -> the request a worker is handling

vars == <<keys, served, cache, alive, rotations, worker>>

IdleWorker == [pc |-> "idle", tok |-> NoToken, op |-> NULL, snapshot |-> {}, outcome |-> NULL]

(***************************************************************************)
(* Scope validators (allScopesRequiredValidator, anyScopesRequiredValidator*)
(* and validateKeyClaimedScopes).  An operation with no registered         *)
(* validator is allowed.                                                   *)
(***************************************************************************)
AllScopesRequired(v, claimed) == v.scopes \subseteq claimed
AnyScopeRequired(v, claimed) == v.scopes \cap claimed # {}

ValidateKeyClaimedScopes(op, claimed) ==
    op \in DOMAIN Validators =>
        IF Validators[op].kind = "all" THEN AllScopesRequired(Validators[op], claimed)
        ELSE AnyScopeRequired(Validators[op], claimed)

\* acceptedAudiences is a map[string]bool: a missing audience is false.
AudienceAcceptedAlways(aud) == TRUE
AudienceAccepted(aud) == aud \in AcceptedAudiences

(***************************************************************************)
(* The outcome of AuthInterceptor once a worker holds `snapshot`:          *)
(*   - no key verifies: PropagateWithCode(err, Unauthenticated), where err *)
(*     is the last key's parse error, or nil when the slice is empty, and  *)
(*     PropagateWithCode(nil, ...) is nil: the interceptor returns nil,nil *)
(*     without calling the handler ("Nil");                                *)
(*   - bad audience: Unauthenticated; missing scopes: PermissionDenied;    *)
(*   - otherwise the handler runs with the token's subject as owner.       *)
(***************************************************************************)
InterceptorOutcome(tok, op, snapshot) ==
    IF tok.signer \notin snapshot
    THEN IF snapshot = {} THEN "Nil" ELSE "Unauthenticated"
    ELSE IF ~AudienceAccepted(tok.aud) THEN "Unauthenticated"
    ELSE IF ~ValidateKeyClaimedScopes(op, tok.scopes) THEN "PermissionDenied"
    ELSE "OK"

(***************************************************************************)
(* ResolveKeys of the configured resolver: the set it returns, or NULL for *)
(* an error.  The JWKS resolver fetches the endpoint every time (KeyIDs    *)
(* empty: every key of the set); the file resolver returns its cached      *)
(* slice once it has one.                                                  *)
(***************************************************************************)
ResolveKeys ==
    IF Resolver = "file" /\ cache # NULL THEN cache ELSE served

\* setKeys: the key slice is replaced under the write lock.
SetKeysNoop(ks) == keys' = keys
SetKeys(ks) == keys' = ks

\* One tick of the refresher goroutine: resolve, then setKeys.
Refresh ==
    /\ alive
    /\ SetKeys(ResolveKeys)
    /\ cache' = IF Resolver = "file" /\ cache = NULL /\ served # {} THEN served ELSE cache
    /\ UNCHANGED <<served, alive, rotations, worker>>

\* A resolver error during a refresh: logger.Panic ends the process.  The
\* JWKS fetch can fail (endpoint unreachable, a KeyID not in the set), and
\* so can reading the PEM files until the file resolver has cached them.
RefreshFails ==
    /\ alive
    /\ Resolver = "jwks" \/ cache = NULL
    /\ alive' = FALSE
    /\ worker' = [w \in Workers |-> IdleWorker]
    /\ UNCHANGED <<keys, served, cache, rotations>>

\* The identity provider publishes a new key set.
Rotate(ks) ==
    /\ rotations < MaxRotations
    /\ ks # served
    /\ served' = ks
    /\ rotations' = rotations + 1
    /\ UNCHANGED <<keys, cache, alive, worker>>

\* getToken: false without incoming metadata or an authorization header;
\* otherwise the header with its "Bearer " prefix removed, which is the
\* token itself here.
GetToken(tok) == tok # NoToken

\* AuthInterceptor, first part: getToken, then the key slice under RLock.
\* A request without a token is answered Unauthenticated at once.
ReadKeys(w, tok, op) ==
    /\ alive
    /\ worker[w].pc \in {"idle", "done"}
    /\ worker' = [worker EXCEPT ![w] =
                    IF ~GetToken(tok)
                    THEN [IdleWorker EXCEPT !.pc = "done", !.op = op, !.outcome = "Unauthenticated"]
                    ELSE [pc |-> "keysRead", tok |-> tok, op |-> op,
                          snapshot |-> keys, outcome |-> NULL]]
    /\ UNCHANGED <<keys, served, cache, alive, rotations>>

\* AuthInterceptor, second part: the key loop, audience and scopes, all on
\* the snapshot taken under RLock.
Validate(w) ==
    /\ alive
    /\ worker[w].pc = "keysRead"
    /\ worker' = [worker EXCEPT ![w].pc = "done",
                    ![w].outcome = InterceptorOutcome(worker[w].tok, worker[w].op,
                                                      worker[w].snapshot)]
    /\ UNCHANGED <<keys, served, cache, alive, rotations>>

\* NewRSAAuthorizer: the first ResolveKeys must succeed or there is no
\* authorizer at all.
Init ==
    /\ served \in SUBSET Keys
    /\ keys = served
    /\ cache = IF Resolver = "file" /\ served # {} THEN served ELSE NULL
    /\ alive = TRUE
    /\ rotations = 0
    /\ worker = [w \in Workers |-> IdleWorker]

Next ==
    \/ Refresh
    \/ RefreshFails
    \/ \E ks \in SUBSET Keys : Rotate(ks)
    \/ \E w \in Workers :
           \/ \E tok \in Tokens \cup {NoToken}, op \in Operations : ReadKeys(w, tok, op)
           \/ Validate(w)
    \/ ~alive /\ UNCHANGED vars

\* The ticker fires on every KeyRefreshTimeout and a started request is
\* carried through the interceptor.
Fairness == WF_vars(Refresh) /\ \A w \in Workers : WF_vars(Validate(w))

Spec == Init /\ [][Next]_vars
FairSpec == Spec /\ Fairness

-----------------------------------------------------------------------------
\* Type invariant.
TypeOK ==
    /\ keys \subseteq Keys /\ served \subseteq Keys
    /\ cache = NULL \/ cache \subseteq Keys
    /\ alive \in BOOLEAN /\ rotations \in 0..MaxRotations
    /\ \A w \in Workers : worker[w].pc \in {"idle", "keysRead", "done"}

(***************************************************************************)
(* Spec 4.5, the token contract, as a reference: the signature verifies    *)
(* under a key the resolver returned, aud is accepted (an empty accepted   *)
(* set requires none), and the operation's validator is satisfied.         *)
(***************************************************************************)
SpecScopesOK(op, claimed) ==
    op \in DOMAIN Validators =>
        IF Validators[op].kind = "all" THEN \A s \in Validators[op].scopes : s \in claimed
        ELSE \E s \in Validators[op].scopes : s \in claimed
SpecAudienceOK(aud) == AcceptedAudiences = {} \/ aud \in AcceptedAudiences

\* AuthInterceptor calls the handler exactly for the requests whose token
\* meets the token contract under the key slice the worker read.
HandledIffTokenContract ==
    \A w \in Workers : worker[w].pc = "done" /\ worker[w].tok # NoToken =>
        LET r == worker[w] IN
        (r.outcome = "OK") <=> /\ r.tok.signer \in r.snapshot
                               /\ SpecAudienceOK(r.tok.aud)
                               /\ SpecScopesOK(r.op, r.tok.scopes)

\* Spec 4.5 failure mapping: every request AuthInterceptor does not hand
\* to the handler is answered Unauthenticated or PermissionDenied.
RejectedWithCode ==
    \A w \in Workers : worker[w].pc = "done" =>
        worker[w].outcome \in {"OK", "Unauthenticated", "PermissionDenied"}

\* Spec 4.5: while the refresher runs, the key slice eventually matches
\* what the resolver's source publishes (after the last rotation).
KeysEventuallyCurrent == <>[](alive => keys = served)

=============================================================================
