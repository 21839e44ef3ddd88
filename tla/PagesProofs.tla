---------------------------- MODULE PagesProofs ----------------------------
(* Theorems about Pages, for every set of identities, contracts and chains *)
(* and any number of changes of the stage, payments and flights.           *)
(*                                                                         *)
(* AssetsInv says whose rows the assets page has, and that the flight it   *)
(* holds is of what it follows, of the reader and the payments of now.     *)
(* LedgerInv says the same of the history page at each place of a frame,   *)
(* and that what is left to count down are the threads still out.          *)
EXTENDS Pages, FiniteSetTheorems, TLAPS

-----------------------------------------------------------------------------
(* The assets page *)

Flights(p) ==
  [n : 1..p.taken, of : Identities, with : 1..(MaxTokens + 1), after : 0..MaxMoves,
   at : {"out", "inside", "ok", "failed"}]

Follower == Identities \cup {NoOne}

FacesOK ==
  /\ onStage \in Follower /\ frozen \in BOOLEAN
  /\ turns \in 0..MaxTurns /\ moves \in 0..MaxMoves

\* Workers are numbered as they take off, and the page's job is one of them.
FlightsOK(p) ==
  /\ p.taken \in Nat /\ p.job \in 0..p.taken
  /\ p.flights \subseteq Flights(p)
  /\ \A f, g \in p.flights : f.n = g.n => f = g
  /\ p.job # NoJob => \E f \in p.flights : f.n = p.job

\* What a page that follows an identity has of it: rows and a flight of now; one
\* that has no addresses has no rows.
UpToDate(p, r, m) ==
  /\ p.addrs = NoOne => p.rows = NoRows
  /\ p.followed # NoOne =>
       /\ p.rows \in {NoRows, [of |-> p.followed, with |-> r, after |-> m]}
       /\ \A f \in p.flights : f.n = p.job =>
            f.of = p.followed /\ f.with = r /\ f.after = m

PageOK(p) ==
  /\ DOMAIN p = {"followed", "addrs", "rows", "job", "flights", "taken"}
  /\ p.followed \in Follower /\ p.addrs \in Follower
  /\ p.followed # NoOne => p.addrs = p.followed
  /\ FlightsOK(p)

AssetsInv ==
  /\ FacesOK
  /\ PageOK(page) /\ UpToDate(page, reader, moves)
  /\ reader \in 1..(MaxTokens + 1)
  /\ "portfolio" \notin panes => page.followed = NoOne

-----------------------------------------------------------------------------
(* The history page *)

Rows(p) ==
  {NoPage} \cup [of : {p.followed}, after : {moves}, from : SUBSET Chains]

Out == {c \in Chains : thread[c] # "over"}

InTheAir ==
  [of : Identities, after : 0..MaxMoves, rows : SUBSET Chains, failed : Nat,
   dirty : BOOLEAN, pending : Nat]

\* A flight in the air is of what the page follows, with every payment in it.
FlightInv ==
  flight # NoFlight =>
    /\ flight \in InTheAir
    /\ ledger.followed # NoOne => flight.of = ledger.followed /\ flight.after = moves
    /\ flight.pending = Cardinality(Out)

\* Where the frame is says what it has found out.
FrameInv ==
  /\ frame.at \in {"top", "flag", "copy", "finish", "follow"}
  /\ frame.at = "top" => frame = AtTop
  /\ frame.at \in {"flag", "copy", "finish"} =>
       /\ flight # NoFlight
       /\ frame.current <=> flight.of = ledger.followed
       /\ frame.done => Out = {}
  /\ frame.at = "copy" => frame.current
  /\ frame.at = "finish" /\ frame.current /\ frame.done =>
       ledger.rows # NoPage /\ ledger.rows.from = flight.rows

LedgerInv ==
  /\ FacesOK
  /\ DOMAIN ledger = {"followed", "addrs", "rows"} /\ DOMAIN frame = {"at", "current", "done"}
  /\ frame.current \in BOOLEAN /\ frame.done \in BOOLEAN
  /\ thread \in [Chains -> {"out", "inserted", "done", "over"}]
  /\ ledger.followed \in Follower
  /\ ledger.followed # NoOne =>
       ledger.addrs = ledger.followed /\ ledger.rows \in Rows(ledger)
  /\ ledger.addrs = NoOne => ledger.rows = NoPage
  /\ FlightInv /\ FrameInv
  /\ "history" \notin panes => ledger.followed = NoOne

-----------------------------------------------------------------------------
(* The assets page: what a frame makes of it *)

LEMMA FacesTypes ==
  ASSUME FacesOK
  PROVE  moves \in Nat /\ NoOne \notin Identities /\ moves \in 0..MaxMoves
BY FacesAssumption DEF FacesAssumption, FacesOK

LEMMA LetGoIs ==
  ASSUME NEW p, PageOK(p)
  PROVE  LET q == LetGo(p) IN
         /\ DOMAIN q = DOMAIN p /\ q.followed = p.followed /\ q.addrs = p.addrs
         /\ q.rows = p.rows /\ q.job = NoJob /\ q.taken = p.taken
         /\ q.flights \subseteq p.flights
BY DEF PageOK, LetGo

\* A page with no job to wait for is up to date if its rows are.
LEMMA LetGoKeeps ==
  ASSUME NEW p, PageOK(p), NEW r, NEW m,
         p.addrs = NoOne => p.rows = NoRows,
         p.followed # NoOne =>
           p.rows \in {NoRows, [of |-> p.followed, with |-> r, after |-> m]}
  PROVE  PageOK(LetGo(p)) /\ UpToDate(LetGo(p), r, m) /\ LetGo(p).job = NoJob
<1> DEFINE q == LetGo(p)
<1>1. /\ DOMAIN q = DOMAIN p /\ q.followed = p.followed /\ q.addrs = p.addrs
      /\ q.rows = p.rows /\ q.job = NoJob /\ q.taken = p.taken
      /\ q.flights \subseteq p.flights
  BY LetGoIs
<1> HIDE DEF q
<1>2. p.taken \in Nat /\ 0 \in 0..p.taken
  BY DEF PageOK, FlightsOK
<1>3. \A f \in p.flights : f.n # 0
  BY <1>2 DEF PageOK, FlightsOK, Flights
<1>4. Flights(q) = Flights(p)
  BY <1>1 DEF Flights
<1>5. FlightsOK(q)
  BY <1>1, <1>2, <1>3, <1>4 DEF PageOK, FlightsOK, NoJob
<1>6. PageOK(q)
  BY <1>1, <1>5 DEF PageOK
<1>7. UpToDate(q, r, m)
  BY <1>1, <1>3 DEF UpToDate, NoJob
<1>8. QED
  BY <1>1, <1>6, <1>7 DEF q

LEMMA RefreshIs ==
  ASSUME NEW p, PageOK(p), p.addrs # NoOne, p.job = NoJob
  PROVE  LET q == Refresh(p) IN
         /\ DOMAIN q = DOMAIN p /\ q.followed = p.followed /\ q.addrs = p.addrs
         /\ q.rows = p.rows /\ q.job = p.taken + 1 /\ q.taken = p.taken + 1
         /\ q.flights = p.flights \cup {[n |-> p.taken + 1, of |-> p.addrs,
                                        with |-> reader, after |-> moves, at |-> "out"]}
BY DEF PageOK, Refresh

\* What takes off is of the followed identity, of the reader and payments of now.
LEMMA RefreshKeeps ==
  ASSUME NEW p, PageOK(p), UpToDate(p, reader, moves), FacesOK,
         reader \in 1..(MaxTokens + 1)
  PROVE  PageOK(Refresh(p)) /\ UpToDate(Refresh(p), reader, moves)
<1>1. CASE p.addrs = NoOne \/ p.job # NoJob
  BY <1>1 DEF Refresh
<1>2. CASE p.addrs # NoOne /\ p.job = NoJob
  <2> DEFINE q == Refresh(p)
             f == [n |-> p.taken + 1, of |-> p.addrs, with |-> reader,
                   after |-> moves, at |-> "out"]
  <2>1. /\ DOMAIN q = DOMAIN p /\ q.followed = p.followed /\ q.addrs = p.addrs
        /\ q.rows = p.rows /\ q.job = p.taken + 1 /\ q.taken = p.taken + 1
        /\ q.flights = p.flights \cup {f}
    BY <1>2, RefreshIs
  <2> HIDE DEF q
  <2>2. PICK t \in Nat : t = p.taken
    BY DEF PageOK, FlightsOK
  <2>3. /\ t + 1 \in Nat /\ t + 1 \in 1..(t + 1) /\ t + 1 \in 0..(t + 1)
        /\ \A k \in 1..t : k \in 1..(t + 1) /\ k # t + 1
    OBVIOUS
  <2>4. f \in Flights(q)
    BY <1>2, <2>1, <2>2, <2>3, FacesTypes DEF Flights, PageOK, Follower
  <2>5. /\ \A g \in p.flights : g \in Flights(q) /\ g.n # t + 1
        /\ f.n = t + 1
    BY <2>1, <2>2, <2>3 DEF PageOK, FlightsOK, Flights
  <2> HIDE DEF f
  <2>6. FlightsOK(q)
    BY <2>1, <2>2, <2>3, <2>4, <2>5 DEF PageOK, FlightsOK
  <2>7. PageOK(q)
    BY <2>1, <2>6 DEF PageOK
  <2>8. UpToDate(q, reader, moves)
    <3>1. f.of = p.addrs /\ f.with = reader /\ f.after = moves
      BY DEF f
    <3>2. QED
      BY <2>1, <2>2, <2>5, <3>1 DEF UpToDate, PageOK
  <2>9. QED
    BY <2>7, <2>8 DEF q
<1>3. QED
  BY <1>1, <1>2

\* What lands is the job's, and of what the page follows.
LEMMA LandsKeeps ==
  ASSUME NEW p, PageOK(p), UpToDate(p, reader, moves), FacesOK, Landed(p),
         reader \in 1..(MaxTokens + 1)
  PROVE  PageOK(Lands(p)) /\ UpToDate(Lands(p), reader, moves)
         /\ Lands(p).followed = p.followed /\ Lands(p).addrs = p.addrs
<1> DEFINE f == Flight(p)
           rows == IF f.at = "ok" /\ f.of = p.followed
                   THEN [of |-> f.of, with |-> f.with, after |-> f.after] ELSE p.rows
           landed == [p EXCEPT !.rows = rows]
           q == LetGo(landed)
<1>1. f \in p.flights /\ f.n = p.job
  BY DEF Landed, PageOK, FlightsOK, Flight
<1>2. Lands(p) = IF f.of # p.followed /\ p.followed # NoOne THEN Refresh(q) ELSE q
  BY DEF Lands
<1>3. p.followed # NoOne =>
        rows \in {NoRows, [of |-> p.followed, with |-> reader, after |-> moves]}
  BY <1>1 DEF UpToDate
<1>9. p.addrs = NoOne => rows = NoRows
  <2>1. f.of # NoOne
    BY <1>1, FacesTypes DEF PageOK, FlightsOK, Flights
  <2>2. p.addrs = NoOne => f.of # p.followed
    BY <2>1 DEF PageOK
  <2>3. QED
    BY <2>2 DEF UpToDate
<1> HIDE DEF f, rows
<1>4. /\ DOMAIN landed = DOMAIN p /\ landed.followed = p.followed /\ landed.addrs = p.addrs
      /\ landed.rows = rows /\ landed.job = p.job /\ landed.taken = p.taken
      /\ landed.flights = p.flights
  BY DEF PageOK
<1> HIDE DEF landed
<1>5. PageOK(landed)
  BY <1>4 DEF PageOK, FlightsOK, Flights
<1>6. PageOK(q) /\ UpToDate(q, reader, moves) /\ q.followed = p.followed
      /\ q.addrs = p.addrs
  BY <1>3, <1>4, <1>5, <1>9, LetGoKeeps, LetGoIs
<1> HIDE DEF q
<1>7. Refresh(q).followed = q.followed /\ Refresh(q).addrs = q.addrs
  <2>1. CASE q.addrs = NoOne \/ q.job # NoJob
    BY <2>1 DEF Refresh
  <2>2. CASE q.addrs # NoOne /\ q.job = NoJob
    BY <1>6, <2>2, RefreshIs
  <2>3. QED
    BY <2>1, <2>2
<1>8. QED
  BY <1>2, <1>6, <1>7, RefreshKeeps

LEMMA RefreshFollows ==
  ASSUME NEW p, PageOK(p)
  PROVE  /\ Refresh(p).followed = p.followed /\ Refresh(p).rows = p.rows
         /\ Refresh(p).addrs = p.addrs
<1>1. CASE p.addrs = NoOne \/ p.job # NoJob
  BY <1>1 DEF Refresh
<1>2. CASE p.addrs # NoOne /\ p.job = NoJob
  BY <1>2, RefreshIs
<1>3. QED
  BY <1>1, <1>2

\* A page that turns to another identity starts with no rows and no job but
\* the one that takes off for it.
LEMMA FollowsKeeps ==
  ASSUME NEW p, PageOK(p), UpToDate(p, reader, moves), FacesOK,
         reader \in 1..(MaxTokens + 1)
  PROVE  /\ PageOK(Follows(p)) /\ UpToDate(Follows(p), reader, moves)
         /\ ~frozen => /\ Follows(p).followed = onStage
                       /\ Follows(p).addrs = IF onStage = p.followed THEN p.addrs
                                             ELSE onStage
<1>1. CASE onStage = p.followed \/ frozen
  BY <1>1 DEF Follows
<1>2. CASE onStage # p.followed /\ ~frozen
  <2> DEFINE let == LetGo(p)
             q == [let EXCEPT !.followed = onStage, !.addrs = onStage, !.rows = NoRows]
  <2>1. Follows(p) = Refresh(q)
    BY <1>2 DEF Follows
  <2>2. PageOK(let) /\ let.job = NoJob
    <3> DEFINE bare == [p EXCEPT !.rows = NoRows]
    <3>1. PageOK(bare) /\ bare.rows = NoRows
      BY DEF PageOK, FlightsOK, Flights
    <3>2. PageOK(LetGo(bare)) /\ LetGo(bare).job = NoJob
      <4> HIDE DEF bare
      <4>1. QED
        BY <3>1, LetGoKeeps
    <3>3. /\ DOMAIN let = DOMAIN p /\ let.followed = p.followed /\ let.addrs = p.addrs
          /\ let.job = NoJob /\ let.taken = p.taken
          /\ DOMAIN LetGo(bare) = DOMAIN p
          /\ LetGo(bare).followed = p.followed /\ LetGo(bare).addrs = p.addrs
          /\ LetGo(bare).taken = p.taken
      BY <3>1, LetGoIs DEF PageOK
    <3>4. LetGo(bare).flights = let.flights
      BY DEF LetGo, PageOK
    <3> HIDE DEF let, bare
    <3>5. QED
      BY <3>2, <3>3, <3>4 DEF PageOK, FlightsOK, Flights
  <2> HIDE DEF let
  <2>3. /\ DOMAIN q = DOMAIN let /\ q.followed = onStage /\ q.addrs = onStage
        /\ q.rows = NoRows /\ q.job = NoJob /\ q.taken = let.taken
        /\ q.flights = let.flights
    BY <2>2 DEF PageOK
  <2> HIDE DEF q
  <2>4. PageOK(q)
    BY <2>2, <2>3 DEF PageOK, FlightsOK, Flights, FacesOK
  <2>5. \A f \in q.flights : f.n # 0
    <3>1. \A t \in Nat : \A k \in 1..t : k # 0
      OBVIOUS
    <3>2. QED
      BY <2>4, <3>1 DEF PageOK, FlightsOK, Flights
  <2>6. UpToDate(q, reader, moves)
    BY <2>3, <2>5 DEF UpToDate, NoJob
  <2>7. QED
    BY <1>2, <2>1, <2>3, <2>4, <2>6, RefreshKeeps, RefreshFollows
<1>3. QED
  BY <1>1, <1>2

LEMMA DrawnKeeps ==
  ASSUME NEW p, PageOK(p), UpToDate(p, reader, moves), FacesOK,
         reader \in 1..(MaxTokens + 1)
  PROVE  /\ PageOK(Drawn(p)) /\ UpToDate(Drawn(p), reader, moves)
         /\ ~frozen => /\ Drawn(p).followed = onStage
                       /\ Drawn(p).addrs = IF onStage = p.followed THEN p.addrs
                                           ELSE onStage
<1>1. CASE Landed(p)
  BY <1>1, LandsKeeps, FollowsKeeps DEF Drawn
<1>2. CASE ~Landed(p)
  BY <1>2, FollowsKeeps DEF Drawn
<1>3. QED
  BY <1>1, <1>2

LEMMA AssetsAreCurrent ==
  ASSUME AssetsInv
  PROVE  PortfolioIsCurrent
<1> SUFFICES ASSUME ~frozen
             PROVE  \/ Drawn(page).rows = NoRows
                    \/ /\ onStage # NoOne
                       /\ Drawn(page).rows = [of |-> onStage, with |-> reader, after |-> moves]
                    \/ RowsLeftBehind
  BY DEF PortfolioIsCurrent
<1>1. /\ UpToDate(Drawn(page), reader, moves) /\ Drawn(page).followed = onStage
      /\ Drawn(page).addrs = IF onStage = page.followed THEN page.addrs ELSE onStage
  BY DrawnKeeps DEF AssetsInv
<1>2. CASE onStage # NoOne
  BY <1>1, <1>2 DEF UpToDate
<1>3. CASE onStage = NoOne
  <2>1. Drawn(page).addrs = NoOne \/ RowsLeftBehind
    BY <1>1, <1>3 DEF RowsLeftBehind
  <2>2. QED
    BY <1>1, <2>1 DEF UpToDate
<1>4. QED
  BY <1>2, <1>3

LEMMA ForgetKeeps ==
  ASSUME NEW p, PageOK(p)
  PROVE  /\ PageOK(Forget(p)) /\ Forget(p).followed = NoOne
         /\ Forget(p).addrs = p.addrs /\ Forget(p).rows = p.rows
<1>1. /\ DOMAIN Forget(p) = DOMAIN p /\ Forget(p).followed = NoOne
      /\ Forget(p).addrs = p.addrs /\ Forget(p).rows = p.rows
      /\ Forget(p).job = p.job /\ Forget(p).taken = p.taken
      /\ Forget(p).flights = p.flights
  BY DEF PageOK, Forget
<1>2. QED
  BY <1>1 DEF PageOK, FlightsOK, Flights, Follower

-----------------------------------------------------------------------------
(* The assets page: its steps *)

\* A worker that goes on is still the worker of what it took off for.
LEMMA MovesKeeps ==
  ASSUME AssetsInv, NEW f \in page.flights, NEW at,
         at \in {"inside", "ok", "failed"} \/ (at = "over" /\ f.n # page.job),
         Moves(f, at), UNCHANGED <<faces, reader, panes>>
  PROVE  AssetsInv'
<1> DEFINE g == [f EXCEPT !.at = at]
           gone == IF at = "over" THEN {} ELSE {g}
<1>1. /\ page'.flights = (page.flights \ {f}) \cup gone
      /\ DOMAIN page' = DOMAIN page /\ page'.followed = page.followed
      /\ page'.addrs = page.addrs /\ page'.rows = page.rows
      /\ page'.job = page.job /\ page'.taken = page.taken
  BY DEF Moves, AssetsInv, PageOK
<1>2. f \in Flights(page)
  BY DEF AssetsInv, PageOK, FlightsOK
<1>3. /\ g.n = f.n /\ g.of = f.of /\ g.with = f.with /\ g.after = f.after
      /\ at # "over" => g \in Flights(page)
  BY <1>2 DEF Flights
<1>4. at = "over" \/ at \in {"inside", "ok", "failed"}
  OBVIOUS
<1> HIDE DEF g
<1>5. Flights(page') = Flights(page)
  BY <1>1 DEF Flights
<1>6. \A h \in page'.flights :
        \/ h \in page.flights /\ h # f
        \/ h = g /\ at # "over"
  BY <1>1
<1>7. page'.flights \subseteq Flights(page')
  BY <1>3, <1>5, <1>6 DEF AssetsInv, PageOK, FlightsOK
<1>8. \A h, k \in page'.flights : h.n = k.n => h = k
  BY <1>3, <1>6 DEF AssetsInv, PageOK, FlightsOK
<1>9. page'.job # NoJob => \E h \in page'.flights : h.n = page'.job
  BY <1>1, <1>3 DEF AssetsInv, PageOK, FlightsOK
<1>10. PageOK(page')
  BY <1>1, <1>7, <1>8, <1>9 DEF AssetsInv, PageOK, FlightsOK
<1>11. UpToDate(page', reader, moves)
  BY <1>1, <1>3, <1>6 DEF AssetsInv, UpToDate
<1>12. QED
  BY <1>1, <1>10, <1>11 DEF AssetsInv, FacesOK, faces

LEMMA AssetsInit ==
  ASSUME Init
  PROVE  AssetsInv
<1>1. FacesOK
  <2>1. onStage \in Follower
    BY FacesAssumption DEF Init, FacesInit, FacesAssumption, Follower
  <2>2. frozen \in BOOLEAN
    BY DEF Init, FacesInit
  <2>3. turns \in 0..MaxTurns /\ moves \in 0..MaxMoves
    BY FacesAssumption DEF Init, FacesInit, FacesAssumption
  <2>4. QED
    BY <2>1, <2>2, <2>3 DEF FacesOK
<1>2. reader \in 1..(MaxTokens + 1)
  BY PortfolioAssumption DEF Init, PortfolioInit, PortfolioAssumption
<1>3. /\ DOMAIN page = {"followed", "addrs", "rows", "job", "flights", "taken"}
      /\ page.followed = NoOne /\ page.addrs = NoOne /\ page.job = NoJob
      /\ page.flights = {} /\ page.taken = 0 /\ page.rows = NoRows
  BY DEF Init, PortfolioInit
<1>4. PageOK(page)
  BY <1>3 DEF PageOK, FlightsOK, Follower, NoJob
<1>5. QED
  BY <1>1, <1>2, <1>3, <1>4 DEF AssetsInv, UpToDate

\* A list of tokens that changed leaves nobody followed.
LEMMA RebuildsKeeps ==
  ASSUME AssetsInv, NEW list, Rebuilds(list), UNCHANGED <<faces, panes>>
  PROVE  AssetsInv'
<1>1. /\ PageOK(page') /\ page'.followed = NoOne
      /\ page'.addrs = page.addrs /\ page'.rows = page.rows
  BY ForgetKeeps DEF AssetsInv, Rebuilds
<1>2. reader' \in 1..(MaxTokens + 1)
  BY PortfolioAssumption DEF PortfolioAssumption, AssetsInv, Rebuilds
<1>3. QED
  BY <1>1, <1>2 DEF AssetsInv, UpToDate, FacesOK, faces

LEMMA AssetsStep ==
  ASSUME AssetsInv, [Next]_vars
  PROVE  AssetsInv'
<1>1. CASE (UNCHANGED vars) \/ History \/ (Portfolio /\ UNCHANGED <<page, reader>>)
  BY <1>1 DEF vars, History, Portfolio, portfolio, faces, AssetsInv, FacesOK,
              PageOK, FlightsOK, Flights, UpToDate
<1>2. ASSUME Vault, StageTurns \/ ReceiveOpens \/ ReceiveCloses
      PROVE  AssetsInv'
  <2>1. page' = page /\ reader' = reader /\ panes' = panes /\ moves' = moves
    BY <1>2 DEF Vault, portfolio, StageTurns, ReceiveOpens, ReceiveCloses
  <2>2. FacesOK'
    <3>1. onStage' \in Follower
      BY <1>2 DEF AssetsInv, FacesOK, Follower, StageTurns, ReceiveOpens, ReceiveCloses
    <3>2. frozen' \in BOOLEAN
      BY <1>2 DEF AssetsInv, FacesOK, StageTurns, ReceiveOpens, ReceiveCloses
    <3>3. turns' \in 0..MaxTurns
      BY <1>2, FacesAssumption
         DEF FacesAssumption, AssetsInv, FacesOK, StageTurns, ReceiveOpens, ReceiveCloses
    <3>4. QED
      BY <2>1, <3>1, <3>2, <3>3 DEF FacesOK, AssetsInv
  <2>3. QED
    BY <2>1, <2>2 DEF AssetsInv, PageOK, FlightsOK, Flights, UpToDate
<1>3. ASSUME DrawPortfolio, Portfolio
      PROVE  AssetsInv'
  <2>1. PageOK(page') /\ UpToDate(page', reader, moves)
    BY <1>3, DrawnKeeps DEF AssetsInv, DrawPortfolio
  <2>2. QED
    BY <1>3, <2>1 DEF AssetsInv, Portfolio, DrawPortfolio, faces, FacesOK
<1>4. ASSUME RefreshLink, Portfolio
      PROVE  AssetsInv'
  <2>1. PageOK(page') /\ UpToDate(page', reader, moves)
    BY <1>4, RefreshKeeps DEF AssetsInv, RefreshLink
  <2>2. QED
    BY <1>4, <2>1 DEF AssetsInv, Portfolio, RefreshLink, faces, FacesOK
<1>5. ASSUME NEW f \in page.flights, EntersReader(f), Portfolio
      PROVE  AssetsInv'
  BY <1>5, MovesKeeps DEF EntersReader, Portfolio
<1>6. ASSUME NEW f \in page.flights, WorkerEnds(f), Portfolio
      PROVE  AssetsInv'
  <2>1. CASE f.n = page.job
    BY <1>6, <2>1, MovesKeeps DEF WorkerEnds, Portfolio
  <2>2. CASE f.n # page.job
    BY <1>6, <2>2, MovesKeeps DEF WorkerEnds, Portfolio
  <2>3. QED
    BY <2>1, <2>2
<1>7. ASSUME AddToken \/ RemoveToken, Portfolio
      PROVE  AssetsInv'
  BY <1>7, RebuildsKeeps DEF AddToken, RemoveToken, Portfolio
<1>8. ASSUME Settled
      PROVE  AssetsInv'
  <2>1. FacesOK' /\ panes' = panes
    BY <1>8, FacesAssumption
       DEF FacesAssumption, AssetsInv, FacesOK, Settled, MoneyMoves
  <2>2. CASE "portfolio" \in panes
    <3>1. /\ PageOK(page') /\ page'.followed = NoOne /\ reader' = reader
          /\ page'.addrs = page.addrs /\ page'.rows = page.rows
      BY <1>8, <2>2, ForgetKeeps DEF AssetsInv, Settled, PortfolioGoesStale
    <3>2. QED
      BY <2>1, <3>1 DEF AssetsInv, UpToDate
  <2>3. CASE "portfolio" \notin panes
    <3>1. page' = page /\ reader' = reader /\ page.followed = NoOne
      BY <1>8, <2>3 DEF AssetsInv, Settled, portfolio
    <3>2. QED
      BY <2>1, <3>1 DEF AssetsInv, UpToDate, PageOK, FlightsOK, Flights
  <2>4. QED
    BY <2>2, <2>3
<1>9. \/ UNCHANGED vars \/ History
      \/ Portfolio /\ UNCHANGED <<page, reader>>
      \/ Vault /\ (StageTurns \/ ReceiveOpens \/ ReceiveCloses)
      \/ DrawPortfolio /\ Portfolio
      \/ RefreshLink /\ Portfolio
      \/ \E f \in page.flights : EntersReader(f) /\ Portfolio
      \/ \E f \in page.flights : WorkerEnds(f) /\ Portfolio
      \/ (AddToken \/ RemoveToken) /\ Portfolio
      \/ Settled
  BY DEF Next, Types, ProbePressed, ProbeEnds, ProbeLands, CancelToken
<1>10. QED
  BY <1>1, <1>2, <1>3, <1>4, <1>5, <1>6, <1>7, <1>8, <1>9

\* The next frame's assets are those of the identity on stage, read with the
\* tokens of now and after every payment settled, or none, whatever flight of
\* whichever identity lands first; over a locked stage there are none, but where
\* they were left behind.
THEOREM AssetsAreOfTheStage == Spec => []PortfolioIsCurrent
<1>1. Init => AssetsInv
  BY AssetsInit
<1>2. AssetsInv /\ [Next]_vars => AssetsInv'
  BY AssetsStep
<1>3. AssetsInv => PortfolioIsCurrent
  BY AssetsAreCurrent
<1>4. QED
  BY <1>1, <1>2, <1>3, PTL DEF Spec

\* A token on the list has the card its own contract told: the list takes what
\* the preview shows, and the preview is shown over its own contract alone.
THEOREM TokensSpeakForThemselves == Spec => []TokensAreProbed
<1>1. Init => TokensAreProbed
  BY DEF Init, PortfolioInit, TokensAreProbed
<1>2. TokensAreProbed /\ [Next]_vars => TokensAreProbed'
  <2> SUFFICES ASSUME TokensAreProbed, [Next]_vars
               PROVE  TokensAreProbed'
    OBVIOUS
  <2>1. ASSUME AddToken
        PROVE  TokensAreProbed'
    BY <2>1 DEF AddToken, Rebuilds, PreviewLive, TokensAreProbed
  <2>2. ASSUME RemoveToken
        PROVE  TokensAreProbed'
    BY <2>2 DEF RemoveToken, Rebuilds, TokensAreProbed
  <2>3. AddToken \/ RemoveToken \/ UNCHANGED tokens
    BY DEF Next, vars, portfolio, adding, Vault, History, Settled,
       PortfolioGoesStale, DrawPortfolio, RefreshLink, EntersReader, WorkerEnds,
       Types, ProbePressed, ProbeEnds, ProbeLands, CancelToken
  <2>4. QED
    BY <2>1, <2>2, <2>3 DEF TokensAreProbed
<1>3. QED
  BY <1>1, <1>2, PTL DEF Spec

-----------------------------------------------------------------------------
(* The history page: its flight *)

LEMMA OutIsFinite ==
  ASSUME NEW S, S \subseteq Chains
  PROVE  /\ IsFiniteSet(S) /\ Cardinality(S) \in Nat
         /\ Cardinality(S) = 0 <=> S = {}
<1>1. IsFiniteSet(S)
  BY FS_Subset, HistoryAssumption DEF HistoryAssumption
<1>2. QED
  BY <1>1, FS_CardinalityType, FS_EmptySet

\* A flight in the air is somebody's.
LEMMA SomebodyFlies ==
  ASSUME NEW f \in InTheAir
  PROVE  f # NoFlight /\ f.of # NoOne
BY FacesAssumption DEF FacesAssumption, InTheAir, NoFlight

LEMMA TakesOffKeeps ==
  ASSUME NEW of \in Identities, FacesOK, moves' = moves, TakesOff(of),
         ledger'.followed # NoOne => of = ledger'.followed
  PROVE  /\ FlightInv' /\ flight' # NoFlight
         /\ thread' \in [Chains -> {"out", "inserted", "done", "over"}]
<1>1. Out' = Chains /\ thread' \in [Chains -> {"out", "inserted", "done", "over"}]
  BY DEF TakesOff, Out
<1>2. Cardinality(Chains) \in Nat
  BY OutIsFinite
<1>3. flight' \in InTheAir /\ flight'.of = of /\ flight'.after = moves
      /\ flight'.pending = Cardinality(Chains)
  BY <1>2 DEF TakesOff, InTheAir, FacesOK
<1>4. QED
  BY <1>1, <1>3, SomebodyFlies DEF FlightInv

LEMMA LandsNoneKeeps ==
  ASSUME LandsNone
  PROVE  /\ FlightInv'
         /\ thread' \in [Chains -> {"out", "inserted", "done", "over"}]
BY DEF LandsNone, FlightInv, Grounded

\* A thread may add rows while a frame is drawn, but not to one that found the
\* flight over.
LEMMA ThreadKeeps ==
  ASSUME LedgerInv, UNCHANGED <<faces, ledger, frame, panes>>, flight # NoFlight,
         flight' \in InTheAir, flight'.of = flight.of, flight'.after = flight.after,
         flight'.pending = Cardinality(Out'), Out' \subseteq Out,
         Out = {} => flight'.rows = flight.rows,
         thread' \in [Chains -> {"out", "inserted", "done", "over"}]
  PROVE  LedgerInv' /\ flight' # NoFlight
<1>1. flight' # NoFlight
  BY SomebodyFlies
<1>2. FacesOK' /\ moves' = moves /\ frame' = frame /\ ledger' = ledger /\ panes' = panes
  BY DEF LedgerInv, FacesOK, faces
<1>3. FlightInv'
  BY <1>2 DEF LedgerInv, FlightInv
<1>4. FrameInv'
  BY <1>1, <1>2 DEF LedgerInv, FrameInv
<1>5. QED
  BY <1>1, <1>2, <1>3, <1>4 DEF LedgerInv, Rows

LEMMA ThreadsStep ==
  ASSUME LedgerInv, NEW c \in Chains, Inserts(c) \/ SetsDirty(c) \/ CountsDown(c),
         UNCHANGED <<faces, panes>>
  PROVE  LedgerInv' /\ flight' # NoFlight
<1>1. /\ flight # NoFlight /\ flight \in InTheAir /\ flight.pending = Cardinality(Out)
      /\ UNCHANGED <<faces, ledger, frame, panes>>
      /\ thread \in [Chains -> {"out", "inserted", "done", "over"}]
  BY DEF LedgerInv, FlightInv, Inserts, SetsDirty, CountsDown
<1>2. thread' \in [Chains -> {"out", "inserted", "done", "over"}]
  BY <1>1 DEF Inserts, SetsDirty, CountsDown
<1>3. ASSUME Inserts(c)
      PROVE  LedgerInv' /\ flight' # NoFlight
  <2>1. c \in Out /\ Out' = Out
    BY <1>1, <1>3 DEF Inserts, Out
  <2>2. /\ flight' \in InTheAir /\ flight'.of = flight.of
        /\ flight'.after = flight.after /\ flight'.pending = flight.pending
    BY <1>1, <1>3 DEF Inserts, InTheAir
  <2>3. QED
    BY <1>1, <1>2, <2>1, <2>2, ThreadKeeps
<1>4. ASSUME SetsDirty(c)
      PROVE  LedgerInv' /\ flight' # NoFlight
  <2>1. Out' = Out
    BY <1>1, <1>4 DEF SetsDirty, Out
  <2>2. /\ flight' \in InTheAir /\ flight'.of = flight.of /\ flight'.rows = flight.rows
        /\ flight'.after = flight.after /\ flight'.pending = flight.pending
    BY <1>1, <1>4 DEF SetsDirty, InTheAir
  <2>3. QED
    BY <1>1, <1>2, <2>1, <2>2, ThreadKeeps
<1>5. ASSUME CountsDown(c)
      PROVE  LedgerInv' /\ flight' # NoFlight
  <2>1. c \in Out /\ Out' = Out \ {c}
    BY <1>1, <1>5 DEF CountsDown, Out
  <2>2. Cardinality(Out') = Cardinality(Out) - 1 /\ Cardinality(Out') \in Nat
    <3>1. Out \subseteq Chains /\ Out' \subseteq Chains
      BY <2>1 DEF Out
    <3>2. QED
      BY <2>1, <3>1, OutIsFinite, FS_RemoveElement
  <2>3. /\ flight' \in InTheAir /\ flight'.of = flight.of /\ flight'.rows = flight.rows
        /\ flight'.after = flight.after /\ flight'.pending = Cardinality(Out')
    BY <1>1, <1>5, <2>2 DEF CountsDown, InTheAir
  <2>4. QED
    BY <1>1, <1>2, <2>1, <2>3, ThreadKeeps
<1>6. QED
  BY <1>3, <1>4, <1>5

-----------------------------------------------------------------------------
(* The history page: its frame *)

LEMMA FrameBeginsKeeps ==
  ASSUME LedgerInv, FrameBegins, UNCHANGED <<faces, panes>>
  PROVE  LedgerInv'
<1>1. /\ ledger' = ledger /\ flight' = flight /\ thread' = thread
      /\ FacesOK' /\ panes' = panes /\ moves' = moves /\ Out' = Out
  BY DEF FrameBegins, LedgerInv, FacesOK, faces, Out
<1>2. FrameInv' /\ DOMAIN frame' = {"at", "current", "done"}
      /\ frame'.current \in BOOLEAN /\ frame'.done \in BOOLEAN
  <2>1. CASE flight = NoFlight
    <3>1. frame'.at = "follow" /\ frame'.current = FALSE /\ frame'.done = FALSE
          /\ DOMAIN frame' = {"at", "current", "done"}
      BY <2>1 DEF FrameBegins, AtTop
    <3>2. QED
      BY <3>1 DEF FrameInv
  <2>2. CASE flight # NoFlight
    <3>1. frame' = [at |-> "flag", current |-> flight.of = ledger.followed,
                    done |-> flight.pending = 0]
      BY <2>2 DEF FrameBegins
    <3>2. frame'.at = "flag" /\ (frame'.current <=> flight.of = ledger.followed)
          /\ (frame'.done <=> flight.pending = 0)
          /\ DOMAIN frame' = {"at", "current", "done"}
          /\ frame'.current \in BOOLEAN /\ frame'.done \in BOOLEAN
      BY <3>1
    <3>3. flight.pending = 0 => Out = {}
      BY <2>2, OutIsFinite DEF LedgerInv, FlightInv, Out
    <3>4. QED
      BY <1>1, <2>2, <3>2, <3>3 DEF FrameInv
  <2>3. QED
    BY <2>1, <2>2
<1>3. QED
  BY <1>1, <1>2 DEF LedgerInv, FlightInv, Rows, InTheAir

LEMMA LowersFlagKeeps ==
  ASSUME LedgerInv, FrameLowersFlag, UNCHANGED <<faces, panes>>
  PROVE  LedgerInv' /\ flight' # NoFlight
<1>1. /\ ledger' = ledger /\ thread' = thread /\ FacesOK' /\ panes' = panes
      /\ moves' = moves /\ Out' = Out
  BY DEF FrameLowersFlag, LedgerInv, FacesOK, faces, Out
<1>2. /\ frame.at = "flag" /\ flight # NoFlight /\ flight \in InTheAir
      /\ frame.current <=> flight.of = ledger.followed
      /\ frame.done => Out = {}
  BY DEF FrameLowersFlag, LedgerInv, FrameInv, FlightInv
<1>3. /\ flight' \in InTheAir /\ flight'.of = flight.of /\ flight'.after = flight.after
      /\ flight'.pending = flight.pending
  BY <1>2 DEF FrameLowersFlag, InTheAir
<1>4. flight' # NoFlight
  BY <1>3, SomebodyFlies
<1>5. /\ DOMAIN frame' = DOMAIN frame /\ frame'.current = frame.current
      /\ frame'.done = frame.done
      /\ \/ frame'.at = "copy" /\ frame.current
         \/ frame'.at = "finish" /\ ~(frame.current /\ frame.done)
  BY DEF FrameLowersFlag, Goes, LedgerInv
<1>6. FrameInv'
  BY <1>1, <1>2, <1>3, <1>4, <1>5 DEF FrameInv
<1>7. FlightInv'
  BY <1>1, <1>2, <1>3 DEF LedgerInv, FlightInv
<1>8. QED
  BY <1>1, <1>4, <1>5, <1>6, <1>7 DEF LedgerInv, Rows

LEMMA CopiesKeeps ==
  ASSUME LedgerInv, FrameCopies, UNCHANGED <<faces, panes>>
  PROVE  LedgerInv' /\ flight' # NoFlight
<1>1. /\ flight' = flight /\ thread' = thread /\ FacesOK' /\ panes' = panes
      /\ moves' = moves /\ Out' = Out
  BY DEF FrameCopies, LedgerInv, FacesOK, faces, Out
<1>2. /\ flight # NoFlight /\ flight \in InTheAir /\ frame.current
      /\ flight.of = ledger.followed /\ ledger.followed # NoOne
      /\ flight.after = moves
      /\ frame.done => Out = {}
  <2>1. flight # NoFlight /\ flight \in InTheAir /\ frame.current
        /\ flight.of = ledger.followed
    BY DEF FrameCopies, LedgerInv, FrameInv, FlightInv
  <2>2. ledger.followed # NoOne
    BY <2>1, SomebodyFlies
  <2>3. QED
    BY <2>1, <2>2 DEF FrameCopies, LedgerInv, FrameInv, FlightInv
<1>3. /\ DOMAIN ledger' = DOMAIN ledger /\ ledger'.followed = ledger.followed
      /\ ledger'.addrs = ledger.addrs
      /\ ledger'.rows = [of |-> flight.of, after |-> flight.after, from |-> flight.rows]
  BY DEF FrameCopies, LedgerInv
<1>4. /\ DOMAIN frame' = DOMAIN frame /\ frame'.current = frame.current
      /\ frame'.done = frame.done /\ frame'.at = "finish"
  BY DEF FrameCopies, Goes, LedgerInv
<1>5. ledger'.rows \in Rows(ledger') /\ ledger'.rows # NoPage
      /\ ledger'.rows.from = flight.rows
  <2>1. flight.rows \in SUBSET Chains /\ flight.of # NoOne
    BY <1>2, SomebodyFlies DEF InTheAir
  <2> DEFINE row == [of |-> flight.of, after |-> flight.after, from |-> flight.rows]
  <2>2. row # NoPage /\ row.from = flight.rows
    BY <2>1 DEF NoPage
  <2>3. row \in [of : {ledger.followed}, after : {moves}, from : SUBSET Chains]
    BY <1>2, <2>1
  <2>4. ledger'.rows = row
    BY <1>3
  <2> HIDE DEF row
  <2>5. QED
    BY <1>3, <2>2, <2>3, <2>4 DEF Rows
<1>6. Rows(ledger)' = Rows(ledger')
  BY <1>1 DEF Rows
<1>7. FrameInv'
  BY <1>1, <1>2, <1>3, <1>4, <1>5 DEF FrameInv
<1>8. FlightInv'
  BY <1>1, <1>3 DEF LedgerInv, FlightInv
<1>9. QED
  BY <1>1, <1>2, <1>3, <1>4, <1>5, <1>6, <1>7, <1>8 DEF LedgerInv, Rows

\* A flight let go of was over, and its rows were on the page if they were
\* the page's to show.
LEMMA FinishesKeeps ==
  ASSUME LedgerInv, FrameFinishes, UNCHANGED <<faces, panes>>
  PROVE  /\ LedgerInv'
         /\ frame.current /\ flight' = NoFlight =>
              ledger.rows # NoPage /\ ledger.rows.from = flight.rows
<1>1. /\ ledger' = ledger /\ FacesOK' /\ panes' = panes /\ moves' = moves
      /\ frame.at = "finish" /\ flight # NoFlight
  BY DEF FrameFinishes, LedgerInv, FrameInv, FacesOK, faces
<1>2. /\ DOMAIN frame' = DOMAIN frame /\ frame'.current = frame.current
      /\ frame'.done = frame.done /\ frame'.at = "follow"
  BY DEF FrameFinishes, Goes, LedgerInv
<1>3. FrameInv'
  BY <1>2 DEF FrameInv
<1>4. /\ FlightInv' /\ thread' \in [Chains -> {"out", "inserted", "done", "over"}]
      /\ frame.current /\ flight' = NoFlight =>
           ledger.rows # NoPage /\ ledger.rows.from = flight.rows
  <2>1. CASE ~frame.done
    BY <1>1, <2>1 DEF FrameFinishes, Done, LedgerInv, FlightInv, Out, InTheAir
  <2>2. CASE frame.done /\ ~frame.current /\ ledger.followed # NoOne
    <3>1. TakesOff(ledger.addrs) /\ ledger.addrs = ledger.followed
          /\ ledger.followed \in Identities
      BY <2>2 DEF FrameFinishes, Done, LedgerInv, Follower
    <3>2. QED
      BY <1>1, <2>2, <3>1, TakesOffKeeps DEF LedgerInv
  <2>3. CASE frame.done /\ ~(~frame.current /\ ledger.followed # NoOne)
    <3>1. LandsNone
      BY <2>3 DEF FrameFinishes, Done
    <3>2. QED
      BY <1>1, <2>3, <3>1, LandsNoneKeeps DEF LedgerInv, FrameInv
  <2>4. QED
    BY <2>1, <2>2, <2>3
<1>5. QED
  BY <1>1, <1>2, <1>3, <1>4 DEF LedgerInv, Rows

\* The frame ends on the identity on stage, with none but its rows.
LEMMA FrameFollowsKeeps ==
  ASSUME LedgerInv, FrameFollows, UNCHANGED <<faces, panes>>, "history" \in panes
  PROVE  LedgerInv' /\ (~frozen => ledger'.followed = onStage)
<1>1. /\ frame' = AtTop /\ FacesOK' /\ panes' = panes /\ moves' = moves
      /\ onStage \in Follower
  BY DEF FrameFollows, LedgerInv, FacesOK, faces
<1>2. /\ FrameInv' /\ DOMAIN frame' = {"at", "current", "done"}
      /\ frame'.current \in BOOLEAN /\ frame'.done \in BOOLEAN
  BY <1>1 DEF FrameInv, AtTop
<1>3. CASE onStage = ledger.followed \/ frozen
  <2>1. ledger' = ledger /\ flight' = flight /\ thread' = thread
    BY <1>3 DEF FrameFollows
  <2>2. FlightInv'
    BY <1>1, <2>1 DEF LedgerInv, FlightInv, Out, InTheAir
  <2>3. QED
    BY <1>1, <1>2, <1>3, <2>1, <2>2 DEF LedgerInv, Rows
<1>4. CASE onStage # ledger.followed /\ ~frozen
  <2>1. /\ DOMAIN ledger' = DOMAIN ledger /\ ledger'.followed = onStage
        /\ ledger'.addrs = onStage /\ ledger'.rows = NoPage
    BY <1>4 DEF FrameFollows, Turns, LedgerInv
  <2>2. FlightInv' /\ thread' \in [Chains -> {"out", "inserted", "done", "over"}]
    <3>1. CASE onStage = NoOne
      BY <1>4, <3>1, LandsNoneKeeps DEF FrameFollows
    <3>2. CASE onStage # NoOne
      <4>1. TakesOff(onStage) /\ onStage \in Identities
        BY <1>1, <1>4, <3>2 DEF FrameFollows, Follower
      <4>2. QED
        BY <1>1, <2>1, <4>1, TakesOffKeeps DEF LedgerInv
    <3>3. QED
      BY <3>1, <3>2
  <2>3. QED
    BY <1>1, <1>2, <1>4, <2>1, <2>2 DEF LedgerInv, Rows
<1>5. QED
  BY <1>3, <1>4

LEMMA LinkKeeps ==
  ASSUME LedgerInv, LedgerLink, UNCHANGED <<faces, panes>>
  PROVE  LedgerInv' /\ flight' # NoFlight
<1>1. /\ ledger' = ledger /\ frame' = frame /\ frame = AtTop
      /\ FacesOK' /\ panes' = panes /\ moves' = moves
  BY DEF LedgerLink, LedgerInv, FacesOK, faces
<1>2. /\ TakesOff(ledger.addrs) /\ ledger.addrs = ledger.followed
      /\ ledger.addrs \in Identities
  BY DEF LedgerLink, LedgerInv, Follower
<1>3. /\ FlightInv' /\ flight' # NoFlight
      /\ thread' \in [Chains -> {"out", "inserted", "done", "over"}]
  BY <1>1, <1>2, TakesOffKeeps DEF LedgerInv
<1>4. FrameInv'
  BY <1>1 DEF FrameInv, AtTop
<1>5. QED
  BY <1>1, <1>3, <1>4 DEF LedgerInv, Rows

LEMMA LedgerInit ==
  ASSUME Init
  PROVE  LedgerInv
<1>1. /\ ledger.followed = NoOne /\ DOMAIN ledger = {"followed", "addrs", "rows"}
      /\ flight = NoFlight /\ frame = AtTop /\ ledger.rows = NoPage
      /\ thread \in [Chains -> {"out", "inserted", "done", "over"}]
  BY DEF Init, HistoryInit, Grounded
<1>2. FrameInv /\ DOMAIN frame = {"at", "current", "done"}
      /\ frame.current \in BOOLEAN /\ frame.done \in BOOLEAN
  BY <1>1 DEF FrameInv, AtTop
<1>3. FacesOK
  BY AssetsInit DEF AssetsInv
<1>4. QED
  BY <1>1, <1>2, <1>3 DEF LedgerInv, FlightInv, Follower

\* What happens between frames: nobody is followed after a payment settled.
LEMMA SettledKeeps ==
  ASSUME LedgerInv, Settled
  PROVE  LedgerInv' /\ frame = AtTop
<1>1. /\ panes' = panes /\ flight' = flight /\ thread' = thread
      /\ frame' = frame /\ frame = AtTop
  BY DEF Settled, BetweenFrames, HistoryGoesStale, history
<1>2. FacesOK'
  BY FacesAssumption DEF FacesAssumption, LedgerInv, FacesOK, Settled, MoneyMoves
<1>3. /\ DOMAIN ledger' = DOMAIN ledger /\ ledger'.followed = NoOne
      /\ ledger'.addrs = ledger.addrs /\ ledger'.rows = ledger.rows
  BY DEF Settled, HistoryGoesStale, history, LedgerInv
<1>4. FrameInv'
  BY <1>1 DEF FrameInv, AtTop
<1>5. FlightInv'
  BY <1>1, <1>3 DEF LedgerInv, FlightInv, Out, InTheAir
<1>6. QED
  BY <1>1, <1>2, <1>3, <1>4, <1>5 DEF LedgerInv, Follower

LEMMA LedgerStep ==
  ASSUME LedgerInv, [Next]_vars
  PROVE  LedgerInv'
<1>1. CASE UNCHANGED <<faces, history, panes>>
  BY <1>1 DEF faces, history, LedgerInv, FacesOK, Rows, FlightInv, InTheAir,
              FrameInv, Out
<1>2. ASSUME Vault, StageTurns \/ ReceiveOpens \/ ReceiveCloses
      PROVE  LedgerInv'
  <2>1. moves' = moves /\ UNCHANGED <<history, panes>>
    BY <1>2 DEF Vault, StageTurns, ReceiveOpens, ReceiveCloses
  <2>2. FacesOK'
    <3>1. onStage' \in Follower
      BY <1>2 DEF LedgerInv, FacesOK, Follower, StageTurns, ReceiveOpens, ReceiveCloses
    <3>2. frozen' \in BOOLEAN
      BY <1>2 DEF LedgerInv, FacesOK, StageTurns, ReceiveOpens, ReceiveCloses
    <3>3. turns' \in 0..MaxTurns
      BY <1>2, FacesAssumption
         DEF FacesAssumption, LedgerInv, FacesOK, StageTurns, ReceiveOpens, ReceiveCloses
    <3>4. QED
      BY <2>1, <3>1, <3>2, <3>3 DEF FacesOK, LedgerInv
  <2>3. QED
    BY <2>1, <2>2 DEF history, LedgerInv, Rows, FlightInv, InTheAir, FrameInv, Out
<1>3. ASSUME NEW c \in Chains, Inserts(c) \/ SetsDirty(c) \/ CountsDown(c), History
      PROVE  LedgerInv'
  BY <1>3, ThreadsStep DEF History
<1>4. ASSUME FrameBegins, History
      PROVE  LedgerInv'
  BY <1>4, FrameBeginsKeeps DEF History
<1>5. ASSUME FrameLowersFlag, History
      PROVE  LedgerInv'
  BY <1>5, LowersFlagKeeps DEF History
<1>6. ASSUME FrameCopies, History
      PROVE  LedgerInv'
  BY <1>6, CopiesKeeps DEF History
<1>7. ASSUME FrameFinishes, History
      PROVE  LedgerInv'
  BY <1>7, FinishesKeeps DEF History
<1>8. ASSUME FrameFollows, History
      PROVE  LedgerInv'
  BY <1>8, FrameFollowsKeeps DEF History
<1>9. ASSUME LedgerLink, History
      PROVE  LedgerInv'
  BY <1>9, LinkKeeps DEF History
<1>10. ASSUME Settled
       PROVE  LedgerInv'
  BY <1>10, SettledKeeps
<1>11. UNCHANGED vars \/ Portfolio => UNCHANGED <<faces, history, panes>>
  BY DEF vars, Portfolio
<1>12. QED
  BY <1>1, <1>2, <1>3, <1>4, <1>5, <1>6, <1>7, <1>8, <1>9, <1>10, <1>11 DEF Next

-----------------------------------------------------------------------------
(* The history page: what it promises *)

\* A frame ends with no rows, or with rows of the identity on stage fetched
\* after every payment that has settled, whatever flight was in the air; over a
\* locked stage with none, but where the ledger was left behind.
THEOREM TheLedgerIsOfTheStage == Spec => LedgerIsCurrent
<1>1. Init => LedgerInv
  BY LedgerInit
<1>2. LedgerInv /\ [Next]_vars => LedgerInv'
  BY LedgerStep
<1>3. LedgerInv /\ [Next]_vars =>
        [ FrameFollows /\ ~frozen =>
            \/ ledger'.rows = NoPage
            \/ /\ onStage # NoOne
               /\ ledger'.rows.of = onStage /\ ledger'.rows.after = moves
            \/ LedgerLeftBehind
        ]_<<faces, history>>
  <2> SUFFICES ASSUME LedgerInv, [Next]_vars, FrameFollows, ~frozen
               PROVE  \/ ledger'.rows = NoPage
                      \/ /\ onStage # NoOne
                         /\ ledger'.rows.of = onStage /\ ledger'.rows.after = moves
                      \/ LedgerLeftBehind
    OBVIOUS
  <2>1. CASE onStage = ledger.followed
    <3>1. ledger' = ledger
      BY <2>1 DEF FrameFollows
    <3>2. CASE onStage # NoOne
      <4>1. ledger.rows \in Rows(ledger)
        BY <2>1, <3>2 DEF LedgerInv
      <4>2. QED
        BY <2>1, <3>1, <3>2, <4>1 DEF Rows
    <3>3. CASE onStage = NoOne
      BY <2>1, <3>1, <3>3 DEF LedgerInv, LedgerLeftBehind
    <3>4. QED
      BY <3>2, <3>3
  <2>2. CASE onStage # ledger.followed
    BY <2>2 DEF FrameFollows, Turns, LedgerInv
  <2>3. QED
    BY <2>1, <2>2
<1>4. QED
  BY <1>1, <1>2, <1>3, PTL DEF Spec, LedgerIsCurrent

\* The flight of the identity followed is let go of once the page has every
\* row it brought: a thread that inserts after the frame counted is waited for.
THEOREM NoRowSlipsAway == Spec => LedgerIsWhole
<1>1. Init => LedgerInv
  BY LedgerInit
<1>2. LedgerInv /\ [Next]_vars => LedgerInv'
  BY LedgerStep
<1>3. LedgerInv /\ [Next]_vars =>
        [ frame.at = "finish" /\ frame.current /\ flight' = NoFlight =>
            ledger.rows # NoPage /\ ledger.rows.from = flight.rows
        ]_<<faces, history>>
  <2> SUFFICES ASSUME LedgerInv, [Next]_vars, frame.at = "finish", frame.current,
                      flight' = NoFlight
               PROVE  ledger.rows # NoPage /\ ledger.rows.from = flight.rows
    OBVIOUS
  <2>1. flight # NoFlight /\ frame # AtTop
    BY DEF LedgerInv, FrameInv, AtTop
  <2>2. FrameFinishes /\ UNCHANGED <<faces, panes>>
    <3>1. ~BetweenFrames /\ ~UNCHANGED flight
      BY <2>1 DEF BetweenFrames
    <3>2. ~FrameBegins /\ ~FrameLowersFlag /\ ~FrameCopies /\ ~FrameFollows
      BY <2>1 DEF FrameBegins, FrameLowersFlag, FrameCopies, FrameFollows
    <3>3. ~Vault /\ ~Portfolio /\ ~Settled /\ ~UNCHANGED vars
      BY <3>1 DEF Vault, Portfolio, Settled, vars, history
    <3>4. History /\ \/ FrameFinishes \/ LedgerLink
                     \/ \E c \in Chains : Inserts(c) \/ SetsDirty(c) \/ CountsDown(c)
      BY <3>2, <3>3 DEF Next
    <3>5. QED
      BY <3>1, <3>4, ThreadsStep DEF History, LedgerLink, BetweenFrames
  <2>3. QED
    BY <2>2, FinishesKeeps
<1>4. QED
  BY <1>1, <1>2, <1>3, PTL DEF Spec, LedgerIsWhole

=============================================================================
