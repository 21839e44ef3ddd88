------------------------------ MODULE MCPages ------------------------------
(* A small instance of Pages for TLC.                                      *)
EXTENDS Pages, TLC

CONSTANTS usdx, usdy

TwoIdentities == {"first", "second"}
OneOnEvm == {"first"}
OneWatched == {"first"}
TwoContracts == {usdx, usdy}
ContractsAlike == Permutations(TwoContracts)
\* The pages share no state of their own: each is checked without the other.
OneByOne == {{"portfolio"}, {"history"}}
TwoChains == {"evm", "sol"}
=============================================================================
