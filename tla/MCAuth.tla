------------------------------- MODULE MCAuth -------------------------------
(* Model-checking instance of Auth: two published keys and a key the       *)
(* provider never publishes, the audiences "" and "dss", the scopes r and  *)
(* w, an operation requiring all of {w}, one requiring any of {r, w}, and  *)
(* one with no registered validator.                                       *)
EXTENDS Auth, TLC

CONSTANTS k1, k2, kx, r, w, opPut, opGet, opOther

MCKeys == {k1, k2}
MCTokens == [signer: {k1, k2, kx}, aud: {"", "dss"}, scopes: SUBSET {r, w}]
MCOperations == {opPut, opGet, opOther}
MCValidators == (opPut :> [kind |-> "all", scopes |-> {w}])
                 @@ (opGet :> [kind |-> "any", scopes |-> {r, w}])
=============================================================================
