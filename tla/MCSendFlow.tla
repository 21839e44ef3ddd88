----------------------------- MODULE MCSendFlow -----------------------------
(* Small instances of SendFlow for TLC.                                    *)
EXTENDS SendFlow

Seed == [kind |-> "hd", born |-> "MetaMask", btc |-> "none"]
OldSeed == [kind |-> "hd", born |-> "MetaMask", btc |-> "BtcLegacy"]
NestedSeed == [kind |-> "hd", born |-> "MetaMask", btc |-> "BtcNestedSegwit"]
TwoSeeds == {Seed, NestedSeed}
SeedAndOld == {Seed, OldSeed}

Wish(to, asset, amount) ==
  [to |-> to, asset |-> asset, self |-> FALSE, token |-> FALSE,
   amount |-> amount]
\* The second wish flips the asset; the last one is never ready.
AllWishes == {Wish("evm", "evm", 1), Wish("sol", "evm", 2000),
              Wish("btc", "btc", 9000), Wish("evm", "btc", 9000)}

TwoQuotes == {1, 2}
SolMarkets ==
  {[balance |-> b, toBalance |-> 0, rent |-> 1000, ataMissing |-> FALSE]
     : b \in {7000, 7500}}

Coin(id, value, confirmed) ==
  [id |-> id, value |-> value, confirmed |-> confirmed]
\* The fast tier needs both coins, the slow one leaves dust.
Purse == {Coin(1, 10000, TRUE), Coin(2, 9000, TRUE), Coin(3, 90000, FALSE)}
BtcMarkets ==
  {[purse |-> Purse, tiers |-> [fast |-> 90, normal |-> 9, slow |-> 3]]}
=============================================================================
