---------------------------- MODULE MCVaultFile ----------------------------
(* Two passphrases are enough for an old and a new one, three calls for a   *)
(* change that follows a change that failed.                                *)
EXTENDS VaultFile
CONSTANTS p1, p2
=============================================================================
