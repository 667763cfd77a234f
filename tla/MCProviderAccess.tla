-------------------------- MODULE MCProviderAccess --------------------------
(***************************************************************************)
(* Values of the constants for TLC.                                         *)
(***************************************************************************)
EXTENDS ProviderAccess

\* One lifetime that the margin uses up, one that outlasts it.
MCLifetimes == {3, 4}
\* An end that is good, one that is final and one that leads to another.
MCTaskOutcomes == {"FINISHED", "ROLLBACK", "WAITING_FOR_CANCEL"}
=============================================================================
