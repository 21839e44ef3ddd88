------------------------------ MODULE Spending ------------------------------
(***************************************************************************)
(* The arithmetic of a payment before anyone signs it: the coins of a      *)
(* Bitcoin payment (src/domain/btc/coin_select.cpp), the fee tiers they    *)
(* are paid at (esplora.cpp), the whitelist the signer holds the finished  *)
(* plan against (src/keyd/signer.cpp), and the rails a Solana payment must *)
(* pass (src/ui/pages/send_page.cpp).                                      *)
(*                                                                         *)
(* A coin is a record [id, value, confirmed]; the id stands for txid and   *)
(* output index.  A script is the address it pays.  Amounts are numbers    *)
(* far below 2^64, where the code's sums would wrap.                       *)
(***************************************************************************)
EXTENDS Naturals, Sequences, FiniteSets, Functions

kDustSats == 546
kFeeLamports == 5000
OutVb == 43          \* an output at the heaviest common script

\* Virtual bytes of one input, by spend format.
InputVb(preset) ==
  CASE preset = "BtcLegacy"       -> 148
    [] preset = "BtcNestedSegwit" -> 91
    [] preset = "BtcTaproot"      -> 58
    [] OTHER                      -> 68

\* What an explorer may list and quote.
IsPurse(coins) ==
  IsFiniteSet(coins) /\ \A u \in coins : u.value \in Nat /\ u.confirmed \in BOOLEAN
IsQuotedTiers(quoted) == quoted \in [fast : Nat, normal : Nat, slow : Nat]

\* Mempool money is not money yet.
Confirmed(listed) == {u \in listed : u.confirmed}

\* The tiers of /fee-estimates, 0 standing for a tier the answer lacks: each
\* borrows the faster one and is never above it.
FeeTiers(quoted) ==
  LET Capped(tier, faster) == IF tier = 0 \/ tier > faster THEN faster ELSE tier
      fast   == IF quoted.fast = 0 THEN 1 ELSE quoted.fast
      normal == Capped(quoted.normal, fast)
  IN [fast |-> fast, normal |-> normal, slow |-> Capped(quoted.slow, normal)]

ByValue(a, b) == a.value > b.value \/ (a.value = b.value /\ a.id < b.id)

TotalValue(coins) == SumFunction([u \in coins |-> u.value])

FeeOf(inputs, rate, inVb) == (11 + inVb * inputs + OutVb * 2) * rate

NoSelection == [ok |-> FALSE, inputs |-> {}, fee |-> 0, change |-> 0]

\* What the loop over the sorted coins may have gathered: none that is left
\* comes before one that was taken.
Gathered(utxos) ==
  {coins \in (SUBSET utxos) \ {{}} :
     \A u \in coins : \A v \in utxos \ coins : ByValue(u, v)}

\* Mutant: change is paid out however small.
SelectKeepsDust(utxos, amount, quotedRate, inVb) ==
  LET rate       == IF quotedRate = 0 THEN 1 ELSE quotedRate
      Fee(coins) == FeeOf(Cardinality(coins), rate, inVb)
      enough     == {coins \in Gathered(utxos) :
                       TotalValue(coins) >= amount + Fee(coins)}
      inputs     == CHOOSE coins \in enough :
                      \A more \in enough : Cardinality(coins) <= Cardinality(more)
  IN IF enough = {} THEN NoSelection
     ELSE [ok |-> TRUE, inputs |-> inputs, fee |-> Fee(inputs),
           change |-> TotalValue(inputs) - amount - Fee(inputs)]

\* Greedy by value until the coins cover the amount and the fee they imply.
SelectCoins(utxos, amount, quotedRate, inVb) ==
  LET rate       == IF quotedRate = 0 THEN 1 ELSE quotedRate
      Fee(coins) == FeeOf(Cardinality(coins), rate, inVb)
      enough     == {coins \in Gathered(utxos) :
                       TotalValue(coins) >= amount + Fee(coins)}
      inputs     == CHOOSE coins \in enough :
                      \A more \in enough : Cardinality(coins) <= Cardinality(more)
      gathered   == TotalValue(inputs)
      change     == gathered - amount - Fee(inputs)
  IN IF enough = {} THEN NoSelection
     ELSE IF change < kDustSats
     THEN [ok |-> TRUE, inputs |-> inputs, fee |-> gathered - amount,
           change |-> 0]
     ELSE [ok |-> TRUE, inputs |-> inputs, fee |-> Fee(inputs),
           change |-> change]

\* The plan the page proposes: the coins in, the recipient, the change home.
PlanOf(sel, amount, to, own) ==
  LET pays == [script |-> to, value |-> amount]
      back == [script |-> own, value |-> sel.change]
  IN [inputs  |-> sel.inputs,
      outputs |-> IF sel.change > 0 THEN <<pays, back>> ELSE <<pays>>]

TotalOut(plan) ==
  SumFunction([i \in DOMAIN plan.outputs |-> plan.outputs[i].value])

\* The signer's whitelist: a second output only if one of the two is the
\* account's own, and a fee above nothing.
WhitelistPasses(plan, own) ==
  /\ Len(plan.outputs) <= 2
  /\ Len(plan.outputs) = 2 =>
       \E i \in 1..2 : plan.outputs[i].script = own
  /\ TotalValue(plan.inputs) > TotalOut(plan)

FeeSigned(plan) == TotalValue(plan.inputs) - TotalOut(plan)

(***************************************************************************)
(* Solana.  A quote m is a record [balance, toBalance, rent, ataMissing]   *)
(* of the sender's lamports, the recipient's, the rent floor of the kind   *)
(* of account concerned and whether the recipient's token account is       *)
(* missing.                                                                *)
(***************************************************************************)

TokenRailsHold(m) ==
  m.balance >= kFeeLamports + (IF m.ataMissing THEN m.rent ELSE 0)

CoinRailsHold(m, amount, self) ==
  LET left == m.balance - kFeeLamports - (IF self THEN 0 ELSE amount) IN
  /\ m.balance >= amount + kFeeLamports
  /\ left = 0 \/ left >= m.rent
  /\ self \/ m.toBalance # 0 \/ amount >= m.rent

RailsHold(m, amount, self, token) ==
  IF token THEN TokenRailsHold(m) ELSE CoinRailsHold(m, amount, self)
=============================================================================
