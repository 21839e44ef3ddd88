----------------------------- MODULE MCSwapFlow -----------------------------
(* Small instances of SwapFlow for TLC.                                    *)
EXTENDS SwapFlow

\* The sale of a token, of a native coin, and of Solana's.
AllWishes == {[lane |-> "evm", token |-> TRUE], [lane |-> "evm", token |-> FALSE],
              [lane |-> "sol", token |-> FALSE]}
\* Two rates, the second of them offered once without a guarantee.
TwoRates == {[rate |-> 1, least |-> 9, calldata |-> TRUE],
             [rate |-> 2, least |-> 9, calldata |-> TRUE],
             [rate |-> 2, least |-> 0, calldata |-> FALSE]}
=============================================================================
