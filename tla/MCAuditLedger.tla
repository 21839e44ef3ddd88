--------------------------- MODULE MCAuditLedger ---------------------------
(* Three processes: the third starts on what two have left behind.  They    *)
(* are alike, so one order of them stands for all.                          *)
EXTENDS AuditLedger, TLC
CONSTANTS p1, p2, p3

Alike == Permutations(Procs)
=============================================================================
