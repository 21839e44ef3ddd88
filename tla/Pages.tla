------------------------------- MODULE Pages -------------------------------
(***************************************************************************)
(* The two read-only pages over one vault (src/apps/izan_main.cpp): they   *)
(* are drawn in the same frame, follow the same identity and go stale with *)
(* the same payment.  Either may be missing: a broken configuration takes  *)
(* down a pane and not the application.                                    *)
(***************************************************************************)
EXTENDS PortfolioPage, HistoryPage

CONSTANT Panes \* the sets of panes there may be

ASSUME PanesAssumption == Panes \subseteq SUBSET {"portfolio", "history"}

VARIABLE panes \* the panes there are

vars == <<faces, portfolio, history, panes>>

Init == FacesInit /\ PortfolioInit /\ HistoryInit /\ panes \in Panes

\* Nothing else of the application runs while a page is being drawn.
BetweenFrames == frame = AtTop

\* The settled hook tells the pages there are.
Settled ==
  /\ BetweenFrames /\ ~clash
  /\ MoneyMoves
  /\ IF "portfolio" \in panes THEN PortfolioGoesStale ELSE UNCHANGED portfolio
  /\ IF "history" \in panes THEN HistoryGoesStale ELSE UNCHANGED history
  /\ UNCHANGED panes

Vault == BetweenFrames /\ UNCHANGED <<portfolio, history, panes>>

Portfolio ==
  BetweenFrames /\ "portfolio" \in panes /\ UNCHANGED <<faces, history, panes>>

History == "history" \in panes /\ UNCHANGED <<faces, portfolio, panes>>

Next ==
  \/ StageTurns /\ Vault
  \/ ReceiveOpens /\ Vault
  \/ ReceiveCloses /\ Vault
  \/ DrawPortfolio /\ Portfolio
  \/ RefreshLink /\ Portfolio
  \/ \E f \in page.flights : EntersReader(f) /\ Portfolio
  \/ \E f \in page.flights : WorkerEnds(f) /\ Portfolio
  \/ \E contract \in Contracts : Types(contract) /\ Portfolio
  \/ ProbePressed /\ Portfolio
  \/ ProbeEnds /\ Portfolio
  \/ ProbeLands /\ Portfolio
  \/ AddToken /\ Portfolio
  \/ RemoveToken /\ Portfolio
  \/ CancelToken /\ Portfolio
  \/ FrameBegins /\ History
  \/ FrameLowersFlag /\ History
  \/ FrameCopies /\ History
  \/ FrameFinishes /\ History
  \/ FrameFollows /\ History
  \/ LedgerLink /\ History
  \/ \E c \in Chains : Inserts(c) /\ History
  \/ \E c \in Chains : SetsDirty(c) /\ History
  \/ \E c \in Chains : CountsDown(c) /\ History
  \/ Settled

Spec == Init /\ [][Next]_vars
=============================================================================
