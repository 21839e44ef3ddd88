------------------------------- MODULE MCKeyd -------------------------------
(* Small instances of Keyd for TLC.  Each run gives the parents the        *)
(* operations its question is about, and bounds that let them interact.    *)
EXTENDS Keyd
CONSTANTS good, bad

OnePayload  == {good}
TwoPayloads == {good, bad}
GoodSigns   == {good}

RestartOps == {"Approve", "Deny", "Fetch"}
WalletOps  == {"Unlock", "Lock", "Approve", "Reveal"}
LiveOps    == AllOps \ {"Status", "Pending", "Malformed"}
=============================================================================
