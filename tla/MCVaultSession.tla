--------------------------- MODULE MCVaultSession ---------------------------
(* Small instances of VaultSession for TLC.                                *)
EXTENDS VaultSession

Meta(kind, root, born, count) ==
  [kind |-> kind, born |-> born, btc |-> "none", count |-> count,
   active |-> 0, pinned |-> FALSE, renamed |-> FALSE, root |-> root]

LegacySeed == Meta("legacy", "hd", "MetaMask", 2)
BtcSeed == Meta("hd", "hd", "BtcSegwit", 1)
Key == Meta("secp", "secp", "MetaMask", 1)
Watched == Meta("watch", "hd", "BtcSegwit", 1)

TwoWallets == <<LegacySeed, BtcSeed>>
Newcomers == {Key, Watched}
TwoFormats == {"BtcSegwit", "BtcTaproot"}
=============================================================================
