---------------------------- MODULE MCSCDTransact ----------------------------
(* Model-checking instance of SCDTransact: MCSCD's geometry, restricted to *)
(* VA inside VB, so that a subscription can both cover and miss an intent. *)
EXTENDS MCSCD, SCDTransact

MCVolsTxn == {VA, VB}

\* Intent writes matter here only through the notification bump they make,
\* so requests name the one state Accepted.
MCRequestStatesTxn == {"Accepted"}
=============================================================================
