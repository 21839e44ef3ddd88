------------------------------ MODULE Identity ------------------------------
(***************************************************************************)
(* Which key speaks for a wallet on a chain: the derivation presets and    *)
(* families of src/ui/wallet/presets.cpp, and what the signer of the trust *)
(* plane (src/keyd/signer.cpp) derives, refuses and signs for them.        *)
(*                                                                         *)
(* A wallet is a record of its kind ("hd", "secp" or "ed25519", the key    *)
(* scheme it holds), the preset it was born with, and the Bitcoin preset   *)
(* chosen later, if any.  An address is the wallet, the account and the    *)
(* preset it was made with; bytes and curves are left out.                 *)
(***************************************************************************)
EXTENDS Naturals

Families == {"evm", "btc", "sol"}

EvmPresets == {"MetaMask", "LedgerLive", "LegacyMew"}
BtcPresets == {"BtcLegacy", "BtcNestedSegwit", "BtcSegwit", "BtcTaproot"}
SolPresets == {"SolPhantom"}
DerivePresets == EvmPresets \cup BtcPresets \cup SolPresets

WalletKinds == {"hd", "secp", "ed25519"}

PresetFamily(preset) ==
  CASE preset \in EvmPresets -> "evm"
    [] preset \in BtcPresets -> "btc"
    [] preset \in SolPresets -> "sol"

\* A wallet as its sidecar describes it; btc is "none" until a format is chosen.
Wallet == [kind : WalletKinds, born : DerivePresets,
           btc : BtcPresets \cup {"none"}]

\* A seed speaks on every chain, a key only where it was born.
WalletFamilies(w) ==
  IF w.kind = "hd" THEN Families ELSE {PresetFamily(w.born)}

FamilyPreset(w, family) ==
  IF family = "btc" /\ w.btc # "none"       THEN w.btc
  ELSE IF family = PresetFamily(w.born)     THEN w.born
  ELSE IF family = "btc"                    THEN "BtcSegwit"
  ELSE IF family = "sol"                    THEN "SolPhantom"
  ELSE "MetaMask"

\* The families a key scheme has an identity on.
KindFamilies(kind) ==
  CASE kind = "hd"      -> Families
    [] kind = "ed25519" -> {"sol"}
    [] kind = "secp"    -> {"evm", "btc"}

NoAddress == [account |-> 0, preset |-> "none"]

AccountAddress(w, account, preset) ==
  IF \/ w.kind # "hd" /\ account # 0
     \/ PresetFamily(preset) \notin KindFamilies(w.kind)
  THEN NoAddress
  ELSE [account |-> account, preset |-> preset]

\* sign_payload and sign_sol_payload: the signing identity of an envelope, or
\* a refusal.  Each takes the presets of its own family alone.
SignEvm(w, account, preset) ==
  IF PresetFamily(preset) = "evm"
  THEN AccountAddress(w, account, preset) ELSE NoAddress

SignSol(w, account, preset) ==
  IF PresetFamily(preset) = "sol"
  THEN AccountAddress(w, account, preset) ELSE NoAddress

SignBtc(w, account, preset) ==
  IF PresetFamily(preset) = "btc"
  THEN AccountAddress(w, account, preset) ELSE NoAddress

\* The child tries the signer of the family the envelope's preset names.
Signer(w, account, preset) ==
  CASE PresetFamily(preset) = "evm" -> SignEvm(w, account, preset)
    [] PresetFamily(preset) = "btc" -> SignBtc(w, account, preset)
    [] PresetFamily(preset) = "sol" -> SignSol(w, account, preset)
=============================================================================
