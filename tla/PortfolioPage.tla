--------------------------- MODULE PortfolioPage ---------------------------
(***************************************************************************)
(* The assets page (src/ui/pages/portfolio_page.cpp): the holdings of the  *)
(* identity on stage, read by one worker at a time, and the tokens the     *)
(* human adds to the list or takes off it.                                 *)
(*                                                                         *)
(* A worker whose job the page has let go of goes on.  The reader          *)
(* (src/domain/assets/portfolio.cpp) keeps a client per chain and has no   *)
(* lock: two workers inside one reader are undefined behaviour, "clash" is *)
(* set and nothing is said of what follows.                                *)
(*                                                                         *)
(* Rows are abstracted to whose they are, the list of tokens they were     *)
(* read with and the payments settled before they were; a token's card is  *)
(* the contract that told it.  Prices are left out.                        *)
(***************************************************************************)
EXTENDS VaultFaces

CONSTANTS
  OnEvm,      \* the identities with an EVM address
  Contracts,  \* the token contracts the human may name
  MaxFlights, \* bound: snapshots taken
  MaxTokens   \* bound: changes of the user's tokens

ASSUME PortfolioAssumption ==
  OnEvm \subseteq Identities /\ MaxFlights \in Nat /\ MaxTokens \in Nat

VARIABLES
  page,    \* m_followed, m_addrs, m_rows, m_job; the workers in the air
  reader,  \* which m_reader it is: one per list of tokens
  tokens,  \* m_user_tokens, each with its card
  field,   \* the contract in the dialog's field
  probe,   \* m_probe
  preview, \* m_add_preview and the contract it speaks for
  clash    \* two workers have met in a reader

adding == <<tokens, field, probe, preview>>
portfolio == <<page, reader, adding, clash>>

NoRows == [of |-> NoOne]
NoJob == 0
NoCard == [of |-> "none"]
NoProbe == [at |-> "none"]

PortfolioInit ==
  /\ page = [followed |-> NoOne, addrs |-> NoOne, rows |-> NoRows,
             job |-> NoJob, flights |-> {}, taken |-> 0]
  /\ reader = 1
  /\ tokens = {} /\ field = "none" /\ probe = NoProbe /\ preview = NoCard
  /\ clash = FALSE

Flight(p) == CHOOSE f \in p.flights : f.n = p.job

Landed(p) == p.job # NoJob /\ Flight(p).at \in {"ok", "failed"}

\* The worker of a job in the air is let go of, one that has ended is gone.
LetGo(p) ==
  [p EXCEPT !.job = NoJob,
            !.flights = {f \in @ : f.n # p.job \/ f.at \notin {"ok", "failed"}}]

\* Swallowed while a job is held.
Refresh(p) ==
  IF p.addrs = NoOne \/ p.job # NoJob THEN p
  ELSE [p EXCEPT !.taken = @ + 1, !.job = p.taken + 1,
                 !.flights = @ \cup {[n |-> p.taken + 1, of |-> p.addrs,
                                      with |-> reader, after |-> moves,
                                      at |-> "out"]}]

\* Only the followed identity's snapshot may land; any other is chased.
Lands(p) ==
  LET f == Flight(p)
      current == f.of = p.followed
      rows == IF f.at = "ok" /\ current
              THEN [of |-> f.of, with |-> f.with, after |-> f.after] ELSE p.rows
      q == LetGo([p EXCEPT !.rows = rows])
  IN IF ~current /\ p.followed # NoOne THEN Refresh(q) ELSE q

\* Mutant: the flight of the identity that left is waited for.
KeepsTheFlight(p) ==
  IF onStage = p.followed \/ frozen THEN p
  ELSE Refresh([p EXCEPT !.followed = onStage, !.addrs = onStage,
                         !.rows = NoRows])

\* The rows are cleared, the flight orphaned, and a new one takes off.
Follows(p) ==
  IF onStage = p.followed \/ frozen THEN p
  ELSE Refresh([LetGo(p) EXCEPT !.followed = onStage, !.addrs = onStage,
                                !.rows = NoRows])

Drawn(p) == Follows(IF Landed(p) THEN Lands(p) ELSE p)

WithinFlights == page'.taken <= MaxFlights

DrawPortfolio ==
  /\ ~clash
  /\ page' = Drawn(page) /\ page' # page
  /\ WithinFlights
  /\ UNCHANGED <<reader, adding, clash>>

\* The link is there while no job is held.
RefreshLink ==
  /\ ~clash /\ page.job = NoJob /\ ~frozen
  /\ onStage # NoOne /\ page.followed = onStage
  /\ page' = Refresh(page) /\ WithinFlights
  /\ UNCHANGED <<reader, adding, clash>>

\* mark_stale: the next frame follows anew.
Forget(p) == [p EXCEPT !.followed = NoOne]

PortfolioGoesStale ==
  /\ page' = Forget(page)
  /\ UNCHANGED <<reader, adding, clash>>

(***************************************************************************)
(* The worker.                                                             *)
(***************************************************************************)

Moves(f, at) ==
  page' = [page EXCEPT !.flights = (@ \ {f}) \cup
             (IF at = "over" THEN {} ELSE {[f EXCEPT !.at = at]})]

\* The EVM rows come from the reader the page had when the worker took off.
EntersReader(f) ==
  /\ ~clash /\ f.at = "out" /\ f.of \in OnEvm
  /\ Moves(f, "inside")
  /\ clash' = \E g \in page.flights : g.at = "inside" /\ g.with = f.with
  /\ UNCHANGED <<reader, adding>>

WorkerEnds(f) ==
  /\ ~clash /\ f.at = (IF f.of \in OnEvm THEN "inside" ELSE "out")
  /\ IF f.n = page.job THEN \E at \in {"ok", "failed"} : Moves(f, at)
     ELSE Moves(f, "over")
  /\ UNCHANGED <<reader, adding, clash>>

(***************************************************************************)
(* The user's own tokens.                                                  *)
(***************************************************************************)

DialogUp == ~clash /\ onStage # NoOne /\ ~frozen

Types(contract) ==
  /\ DialogUp /\ contract # field /\ field' = contract
  /\ UNCHANGED <<page, reader, tokens, probe, preview, clash>>

ProbePressed ==
  /\ DialogUp /\ probe = NoProbe /\ field # "none"
  /\ probe' = [at |-> "run", of |-> field]
  /\ UNCHANGED <<page, reader, tokens, field, preview, clash>>

ProbeEnds ==
  /\ ~clash /\ probe.at = "run"
  /\ \E at \in {"ok", "failed"} : probe' = [probe EXCEPT !.at = at]
  /\ UNCHANGED <<page, reader, tokens, field, preview, clash>>

ProbeLands ==
  /\ ~clash /\ onStage # NoOne /\ probe.at \in {"ok", "failed"}
  /\ preview' = IF probe.at = "ok" THEN [of |-> probe.of] ELSE NoCard
  /\ probe' = NoProbe
  /\ UNCHANGED <<page, reader, tokens, field, clash>>

\* Mutant: a preview speaks for whatever is in the field.
PreviewShown == preview # NoCard

\* The preview only speaks for the contract it was probed on.
PreviewLive == preview # NoCard /\ preview.of = field

\* A changed list makes a new reader, and the page forgets whom it follows.
Rebuilds(list) ==
  /\ reader < MaxTokens + 1
  /\ tokens' = list /\ reader' = reader + 1
  /\ page' = Forget(page)

AddToken ==
  /\ DialogUp /\ PreviewLive /\ probe = NoProbe
  /\ \A t \in tokens : t.address # field
  /\ Rebuilds(tokens \cup {[address |-> field, card |-> preview.of]})
  /\ preview' = NoCard /\ field' = "none"
  /\ UNCHANGED <<probe, clash>>

\* The confirmation stays up over a page that has been locked.
RemoveToken ==
  /\ ~clash /\ ~frozen
  /\ \E t \in tokens : Rebuilds(tokens \ {t})
  /\ UNCHANGED <<field, probe, preview, clash>>

CancelToken ==
  /\ DialogUp /\ preview # NoCard /\ preview' = NoCard
  /\ UNCHANGED <<page, reader, tokens, field, probe, clash>>

(***************************************************************************)
(* Properties.                                                             *)
(***************************************************************************)

\* The page went stale and the stage was locked before a frame followed again:
\* no identity is followed and none is on stage, so no frame clears the rows, nor
\* forgets whose they are, until another identity comes.
RowsLeftBehind ==
  onStage = NoOne /\ page.followed = NoOne /\ page.addrs # NoOne

\* Whatever was locked, switched, settled or changed since the last frame, the
\* next one shows no rows, or those of the identity on stage, read with the list
\* of tokens of now and after every payment that has settled.  Over a locked
\* stage it shows none, but where the rows were left behind.
PortfolioIsCurrent ==
  ~frozen =>
    \/ Drawn(page).rows = NoRows
    \/ /\ onStage # NoOne
       /\ Drawn(page).rows = [of |-> onStage, with |-> reader, after |-> moves]
    \/ RowsLeftBehind

\* A token the human added has the symbol and the decimals its own contract
\* told, whatever was typed while the probe was out ("a hand-typed identity is
\* never trusted").
TokensAreProbed == \A t \in tokens : t.card = t.address

\* "The reader is single-driver: the refresh control stays disabled until the
\* worker reports back."
ReaderIsSingleDriver == ~clash
=============================================================================
