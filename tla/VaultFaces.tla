----------------------------- MODULE VaultFaces -----------------------------
(***************************************************************************)
(* What the read-only pages see of the rest of the application between two *)
(* frames: the identity the vault page has on stage                        *)
(* (VaultPage::family_address of each family, src/ui/pages/vault_page.hpp),*)
(* whether the receive dialog is flipping its costume (follow_frozen), and *)
(* the payments that settle (the on_settled hook of src/apps/izan_main.cpp)*)
(***************************************************************************)
EXTENDS Naturals, FiniteSets

CONSTANTS
  Identities, \* the identities the vault may put on stage
  Watched,    \* those that need no unlocking
  NoOne,      \* no identity: locked, or no wallet
  MaxTurns,   \* bound: changes of the identity on stage
  MaxMoves    \* bound: payments that settle

ASSUME FacesAssumption ==
  /\ NoOne \notin Identities /\ Watched \subseteq Identities
  /\ MaxTurns \in Nat /\ MaxMoves \in Nat

VARIABLES
  onStage, \* the three family addresses joined, or NoOne
  frozen,  \* follow_frozen()
  turns,   \* changes so far
  moves    \* payments settled so far

faces == <<onStage, frozen, turns, moves>>

\* A watch wallet may be on stage from the start.
FacesInit ==
  /\ onStage \in Watched \cup {NoOne}
  /\ frozen = FALSE /\ turns = 0 /\ moves = 0

\* The wallet is unlocked, locked, switched, or another account is selected.
StageTurns ==
  /\ turns < MaxTurns /\ turns' = turns + 1
  /\ onStage' \in (Identities \cup {NoOne}) \ {onStage}
  /\ UNCHANGED <<frozen, moves>>

\* The receive dialog opens over an unlocked wallet, flips its costume, closes.
ReceiveOpens ==
  /\ ~frozen /\ onStage # NoOne /\ frozen' = TRUE
  /\ UNCHANGED <<onStage, turns, moves>>

ReceiveCloses ==
  /\ frozen /\ frozen' = FALSE
  /\ UNCHANGED <<onStage, turns, moves>>

MoneyMoves ==
  /\ moves < MaxMoves /\ moves' = moves + 1
  /\ UNCHANGED <<onStage, frozen, turns>>
=============================================================================
