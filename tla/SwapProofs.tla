----------------------------- MODULE SwapProofs -----------------------------
(* Theorems about SwapFlow, for any number of reviews, proposals, polls    *)
(* and changes of wallet, whatever the aggregator offers.                  *)
(*                                                                         *)
(* SwapInv ties each delivery to the pair it was started for, the pair to  *)
(* the quote on the screen, and the nonces of a wallet's transactions to   *)
(* how many of them the chain has taken.                                   *)
EXTENDS SwapFlow, FiniteSetTheorems, SequenceTheorems, TLAPS

-----------------------------------------------------------------------------
(* The inductive invariant *)

Ats == {"build", "approve", "record", "reply", "send", "poll", "ok", "failed"}

\* The delivery of what stood on the screen as c, for which a Solana thread
\* would propose w.
Deliveries(c, w) ==
  [at : Ats, requote : {FALSE}, step : 0..2, review : 1..MaxReviews,
   todo : Seq(Proposals), i : Nat, good : BOOLEAN, click : {c},
   gen : 0..MaxSwitches, tries : Nat, success : BOOLEAN, swap : {w}]

\* A slot holds a delivery: the page's does in the last stages only.
Delivers(s) ==
  /\ job[s].at # "none"
  /\ s # Page \/ stage \in {"Delivering", "Done", "Failed"}

\* The review is the last one begun, or none.
DraftInv ==
  /\ draft.review \in 0..reviews
  /\ stage # "Form" => draft.review # 0
  /\ stage \in {"Review", "Delivering", "Done", "Failed"} => shown.nonce \in Nat

\* What the stage says of the page's job.
PageInv ==
  /\ stage = "Form" => job[Page].at = "none"
  /\ stage = "Quoting" => job[Page].at \in {"quote", "ok", "failed"}
  /\ stage = "Review" => \/ job[Page].at = "none"
                         \/ job[Page].at \in {"requote", "ok", "failed"} /\ pair = NoPair
  /\ stage = "Delivering" => job[Page].at # "none"
  /\ stage = "Done" => job[Page].at = "ok"
  /\ stage = "Failed" => job[Page].at \in {"none", "failed"}
  /\ job[Page].at \in {"quote", "requote"} =>
       job[Page] \in [at : {"quote", "requote"}, requote : BOOLEAN,
                      review : Nat, step : {0}]
  /\ Delivers(Page) =>
       /\ job[Page].click = shown /\ job[Page].review = draft.review
       /\ ~Sol => job[Page].todo = IF shown.need THEN <<pair.approve, pair.swap>>
                                   ELSE <<pair.swap>>

\* What the page holds is of this review and quote.
HeldInv ==
  /\ stage \in {"Form", "Quoting"} \/ Sol => pair = NoPair
  /\ pair.approve # 0 =>
       /\ verdict[pair.approve] # "none" /\ shown.need
       /\ body[pair.approve].kind = "approve"
       /\ body[pair.approve].nonce = shown.nonce
  /\ pair.swap # 0 =>
       /\ verdict[pair.swap] # "none" /\ (shown.need => pair.approve # 0)
       /\ body[pair.swap].kind = "swap"
       /\ body[pair.swap].nonce = shown.nonce + IF shown.need THEN 1 ELSE 0
  /\ \A p \in {pair.approve, pair.swap} \ {0} :
       /\ body[p].review = draft.review /\ body[p].figures = shown
       /\ body[p].lane = "evm" /\ (seen => body[p].gen = gen)
  /\ stage # "Form" => \A p \in Proposals : body[p].review = draft.review =>
       IF Sol THEN body[p].kind = "swap" /\ body[p].lane = "sol"
       ELSE p \in {pair.approve, pair.swap}

\* A proposal is a transaction of a review; one that is signed was approved;
\* they are numbered in the order of their submission.
BodyInv ==
  \A p \in Proposals :
    /\ verdict[p] = "none" => body[p] = NoBody /\ net[p] = "unsent"
    /\ verdict[p] # "none" =>
         /\ body[p].review \in 1..reviews /\ body[p].gen \in 0..gen
         /\ body[p].kind \in {"approve", "swap"} /\ body[p].lane \in {"evm", "sol"}
         /\ body[p].kind = "approve" => body[p].lane = "evm"
         /\ body[p].nonce \in Nat
         /\ \A q \in Proposals : q < p => verdict[q] # "none"
    /\ signatures[p] = 1 => verdict[p] = "approved"

\* A delivery signs the proposals of its own review, an approval first.
Asks(s) ==
  LET j == job[s]
      n == Len(j.todo) IN
  /\ n \in 0..2
  /\ j.at \notin {"build", "failed"} => j.i \in 1..n
  /\ \A k \in 1..n :
       LET b == body[j.todo[k]] IN
       /\ verdict[j.todo[k]] # "none" /\ b.review = j.review /\ b.gen = j.gen
       /\ b.figures = j.click /\ b.kind = IF k = n THEN "swap" ELSE "approve"
  /\ n = 2 => /\ body[j.todo[1]].lane = "evm" /\ body[j.todo[2]].lane = "evm"
              /\ body[j.todo[2]].nonce = body[j.todo[1]].nonce + 1
  /\ \A q \in Proposals : body[q].review = j.review /\ body[q].kind = "approve" =>
       n = 2 /\ q = j.todo[1]

\* What a Solana thread will propose, once it is built.
Builds(s) ==
  LET j == job[s] IN
  j.at = "build" =>
    /\ j.todo = <<>> /\ j.i = 1 /\ j.swap.review = j.review /\ j.swap.gen = j.gen
    /\ j.swap.kind = "swap" /\ j.swap.lane = "sol" /\ j.swap.figures = j.click
    /\ j.swap.nonce \in Nat /\ (s = Page => Sol)

\* The step tells before the last signature from after it.
Marks(s) ==
  LET j == job[s] IN
  /\ j.at \in {"build", "approve", "record", "reply"} => j.step = 0
  /\ j.at \in {"send", "poll", "ok"} => j.step # 0
  /\ \A k \in 1..Len(j.todo) :
       j.step # 0 \/ (j.at \in {"approve", "record", "reply"} /\ k < j.i) =>
         signatures[j.todo[k]] = 1

\* Of the review of a delivery nothing else was sent, and of its own proposals
\* those before its place in the broadcast.
Sends(s) ==
  LET j == job[s] IN
  /\ \A q \in Proposals :
       body[q].review = j.review /\ (\A k \in 1..Len(j.todo) : q # j.todo[k]) =>
         net[q] = "unsent"
  /\ \A k \in 1..Len(j.todo) :
       /\ j.step = 0 \/ (j.at = "send" /\ k >= j.i) => net[j.todo[k]] = "unsent"
       /\ j.at = "send" /\ k < j.i => Taken(j.todo[k])

\* The next transaction of a delivery has the next nonce of its sender.
Counts(s) ==
  LET j == job[s]
      Next1(p) == body[p].lane = "evm" =>
                    body[p].nonce = Cardinality(TakenFrom(j.gen)) IN
  /\ j.at \in {"approve", "record", "reply"} => Next1(j.todo[1])
  /\ j.at = "send" => Next1(j.todo[j.i])

DeliveryInv ==
  \A s \in Slots : Delivers(s) =>
    /\ job[s] \in Deliveries(job[s].click, job[s].swap)
    /\ Asks(s) /\ Builds(s) /\ Marks(s) /\ Sends(s) /\ Counts(s)

\* Two deliveries are for two reviews and two wallets; one that was let go is
\* of an earlier wallet and of a review that is over.
ApartInv ==
  /\ \A s, t \in Slots :
       /\ Delivers(s) /\ Delivers(t)
       /\ job[s].review = job[t].review \/ job[s].gen = job[t].gen
       => s = t
  /\ \A s \in Slots : s # Page /\ Delivers(s) =>
       /\ job[s].review \in 1..reviews /\ job[s].review # draft.review
       /\ job[s].gen < gen
  /\ Delivers(Page) => IF seen THEN job[Page].gen = gen ELSE job[Page].gen < gen

\* Before the confirmation nothing of the review was sent, and until the last
\* signature the nonce on the screen is the next one.
UnsentInv ==
  /\ stage \in {"Quoting", "Review"} =>
       \A p \in Proposals : body[p].review = draft.review => net[p] = "unsent"
  /\ seen /\ (stage = "Review" \/ (stage = "Delivering" /\ job[Page].step = 0)) =>
       shown.nonce = NextNonce
  /\ seen /\ stage \in {"Quoting", "Review"} /\ job[Page].at = "ok" =>
       job[Page].quote.nonce = NextNonce

\* Nothing is pending where the page could not deny it.
PendingInv ==
  /\ PairIsHeld
  /\ ~alive \/ ~seen => \A p \in Proposals : verdict[p] # "pending"
  /\ stage \in {"Done", "Failed"} =>
       \A p \in {pair.approve, pair.swap} \ {0} : verdict[p] # "pending"

\* The approval and the swap of a review: two nonces in a row of one sender,
\* and the swap is not sent without the approval.
PairsInv ==
  \A a, s \in Proposals : InPair(a, s) =>
    /\ body[s].lane = "evm" /\ body[s].gen = body[a].gen
    /\ body[s].nonce = body[a].nonce + 1
    /\ Taken(s) => Taken(a)

SettledOf(g) == {q \in TakenFrom(g) : Settled(q)}

\* A sender's transactions have different nonces below their number, and those
\* that were mined are the first.
NonceInv ==
  \A g \in 0..MaxSwitches :
    /\ \A p \in TakenFrom(g) : body[p].nonce < Cardinality(TakenFrom(g))
    /\ \A p \in SettledOf(g) : body[p].nonce < Cardinality(SettledOf(g))
    /\ \A p, q \in TakenFrom(g) : body[p].nonce = body[q].nonce => p = q
    /\ \A n \in Nat : n < Cardinality(SettledOf(g)) =>
         \E p \in SettledOf(g) : body[p].nonce = n

SwapInv ==
  /\ TypeOK /\ DraftInv /\ PageInv /\ HeldInv /\ BodyInv /\ DeliveryInv /\ ApartInv
  /\ UnsentInv /\ PendingInv /\ PairsInv /\ NonceInv /\ SwapsOnce /\ BothSignedFirst

-----------------------------------------------------------------------------
(* Deliveries and the chain under a step that leaves them alone *)

\* What a step may do to the proposals without disturbing a delivery of
\* review r: what is asked to sign stays, signatures stay, and nothing of the
\* review is proposed or sent.
Gentle(r) ==
  \A q \in Proposals :
    /\ verdict[q] # "none" => verdict'[q] # "none" /\ body'[q] = body[q]
    /\ verdict[q] = "none" =>
         net'[q] = "unsent" /\ (body'[q] = body[q] \/ body'[q].review # r)
    /\ signatures[q] = 1 => signatures'[q] = 1
    /\ \/ net'[q] = net[q]
       \/ net[q] = "taken" /\ net'[q] \in {"mined", "reverted"}
       \/ body[q].review # r

\* No transaction of wallet g's sender reaches the chain in the step.
Steady(g) ==
  \A p \in Proposals :
    (net'[p] # "unsent" /\ body'[p].lane = "evm" /\ body'[p].gen = g)
      <=> (net[p] # "unsent" /\ body[p].lane = "evm" /\ body[p].gen = g)

LEMMA SteadyCounts ==
  ASSUME Steady(gen), gen' = gen
  PROVE  NextNonce' = NextNonce
<1>1. TakenFrom(gen)' = TakenFrom(gen)
  BY DEF Steady, TakenFrom, Taken
<1>2. QED
  BY <1>1 DEF NextNonce

LEMMA DeliveryStays ==
  ASSUME SwapInv, NEW s \in Slots, NEW t \in Slots, Delivers(t), job'[s] = job[t],
         Gentle(job[t].review), Steady(job[t].gen),
         s = Page => t = Page /\ draft' = draft
  PROVE  /\ job'[s] \in Deliveries(job'[s].click, job'[s].swap)
         /\ Asks(s)' /\ Builds(s)' /\ Marks(s)' /\ Sends(s)' /\ Counts(s)'
<1> DEFINE j == job[t]
<1>1. /\ j \in Deliveries(j.click, j.swap)
      /\ Asks(t) /\ Builds(t) /\ Marks(t) /\ Sends(t) /\ Counts(t)
  BY DEF SwapInv, DeliveryInv
<1>2. j.todo \in Seq(Proposals) /\ j.i \in Nat /\ j.review \in 1..MaxReviews
  BY <1>1 DEF Deliveries
<1>3. /\ Len(j.todo) \in 0..2
      /\ \A k \in 1..Len(j.todo) :
           /\ j.todo[k] \in Proposals
           /\ verdict[j.todo[k]] # "none" /\ body[j.todo[k]].review = j.review
           /\ body'[j.todo[k]] = body[j.todo[k]] /\ verdict'[j.todo[k]] # "none"
  <2>1. \A k \in 1..Len(j.todo) : j.todo[k] \in Proposals
    BY <1>2
  <2>2. QED
    BY <1>1, <2>1 DEF Asks, Gentle
<1>4. \A q \in Proposals : body'[q].review = j.review => body'[q] = body[q]
  BY DEF Gentle
<1>5. Asks(s)'
  <2>1. \A k \in 1..Len(j.todo) :
          LET b == body'[j.todo[k]] IN
          /\ verdict'[j.todo[k]] # "none" /\ b.review = j.review /\ b.gen = j.gen
          /\ b.figures = j.click
          /\ b.kind = IF k = Len(j.todo) THEN "swap" ELSE "approve"
    BY <1>1, <1>3 DEF Asks
  <2>2. Len(j.todo) = 2 => /\ body'[j.todo[1]].lane = "evm" /\ body'[j.todo[2]].lane = "evm"
                           /\ body'[j.todo[2]].nonce = body'[j.todo[1]].nonce + 1
    BY <1>1, <1>3 DEF Asks
  <2>3. \A q \in Proposals : body'[q].review = j.review /\ body'[q].kind = "approve" =>
          Len(j.todo) = 2 /\ q = j.todo[1]
    BY <1>1, <1>4 DEF Asks
  <2>4. j.at \notin {"build", "failed"} => j.i \in 1..Len(j.todo)
    BY <1>1 DEF Asks
  <2>5. job'[s] = j
    OBVIOUS
  <2> HIDE DEF j
  <2>6. QED
    BY <1>3, <2>1, <2>2, <2>3, <2>4, <2>5 DEF Asks
<1>6. Builds(s)'
  BY <1>1 DEF Builds, Sol
<1>7. Marks(s)'
  <2>1. \A k \in 1..Len(j.todo) : signatures[j.todo[k]] = 1 => signatures'[j.todo[k]] = 1
    BY <1>3 DEF Gentle
  <2>2. QED
    BY <1>1, <2>1 DEF Marks
<1>8. Sends(s)'
  <2>1. \A k \in 1..Len(j.todo) :
          /\ net[j.todo[k]] = "unsent" => net'[j.todo[k]] = "unsent"
          /\ net[j.todo[k]] # "unsent" => net'[j.todo[k]] # "unsent"
    BY <1>3 DEF Gentle
  <2>2. \A q \in Proposals :
          body'[q].review = j.review /\ (\A k \in 1..Len(j.todo) : q # j.todo[k]) =>
            net'[q] = "unsent"
    BY <1>1, <1>4 DEF Sends, Gentle
  <2>3. QED
    BY <1>1, <2>1, <2>2 DEF Sends, Taken
<1>9. Counts(s)'
  <2>1. TakenFrom(job[s].gen)' = TakenFrom(j.gen)
    BY DEF Steady, TakenFrom, Taken
  <2>2. j.at \in {"approve", "record", "reply"} => 1 \in 1..Len(j.todo)
    BY <1>1, <1>2 DEF Asks
  <2>3. j.at = "send" => j.i \in 1..Len(j.todo)
    BY <1>1 DEF Asks
  <2>4. QED
    BY <1>1, <1>3, <2>1, <2>2, <2>3 DEF Counts
<1>10. QED
  BY <1>1, <1>5, <1>6, <1>7, <1>8, <1>9

\* The same for all that were deliveries before.
LEMMA DeliveriesStay ==
  ASSUME SwapInv, \A r : Gentle(r), \A g : Steady(g),
         \A s \in Slots : Delivers(s)' => Delivers(s) /\ job'[s] = job[s],
         draft' = draft \/ ~Delivers(Page)'
  PROVE  DeliveryInv'
BY DeliveryStays DEF DeliveryInv

LEMMA StayApart ==
  ASSUME SwapInv, gen' = gen, seen' = seen, reviews' \in {reviews, reviews + 1},
         \A s \in Slots : Delivers(s)' => Delivers(s) /\ job'[s] = job[s],
         draft' = draft \/ \A s \in Slots : Delivers(s)' => job[s].review # draft'.review,
         Page \in Slots
  PROVE  ApartInv'
<1>1. \A n : n \in 1..reviews => n \in 1..reviews'
  BY SwapAssumption DEF SwapAssumption, SwapInv, TypeOK
<1>2. QED
  BY <1>1 DEF SwapInv, ApartInv

LEMMA FiniteTaken ==
  ASSUME NEW g
  PROVE  /\ IsFiniteSet(TakenFrom(g)) /\ IsFiniteSet(SettledOf(g))
         /\ Cardinality(TakenFrom(g)) \in Nat /\ Cardinality(SettledOf(g)) \in Nat
<1>1. IsFiniteSet(Proposals)
  BY SwapAssumption, FS_Interval DEF SwapAssumption, Proposals
<1>2. TakenFrom(g) \in SUBSET Proposals /\ SettledOf(g) \in SUBSET Proposals
  BY DEF TakenFrom, SettledOf
<1>3. IsFiniteSet(TakenFrom(g)) /\ IsFiniteSet(SettledOf(g))
  BY <1>1, <1>2, FS_Subset
<1>4. QED
  BY <1>3, FS_CardinalityType

LEMMA NextNonceIsNat == NextNonce \in Nat
<1>1. \A g : Cardinality(TakenFrom(g)) \in Nat
  BY FiniteTaken
<1>2. QED
  BY <1>1 DEF NextNonce

\* The page's slot is one of the slots.
LEMMA PageIsSlot == Page \in Slots
BY SwapAssumption DEF SwapAssumption, Slots, Page

\* Nothing is sent: proposals may be made, decided, recorded or signed.
LEMMA NothingSent ==
  ASSUME SwapInv, net' = net,
         \A q \in Proposals :
           /\ verdict[q] # "none" => verdict'[q] # "none" /\ body'[q] = body[q]
           /\ signatures[q] = 1 => signatures'[q] = 1
  PROVE  /\ \A g : Steady(g)
         /\ NonceInv' /\ SwapsOnce' /\ BothSignedFirst'
<1>1. \A p \in Proposals : net[p] # "unsent" => body'[p] = body[p]
  BY DEF SwapInv, BodyInv
<1>2. \A g : Steady(g)
  BY <1>1 DEF Steady
<1>3. NonceInv'
  <2>1. ASSUME NEW g
        PROVE  /\ TakenFrom(g)' = TakenFrom(g) /\ SettledOf(g)' = SettledOf(g)
               /\ \A p \in TakenFrom(g) : body'[p] = body[p]
               /\ SettledOf(g) \subseteq TakenFrom(g)
    BY <1>1, <1>2 DEF Steady, TakenFrom, SettledOf, Taken, Settled
  <2>2. QED
    BY <2>1 DEF SwapInv, NonceInv
<1>4. SwapsOnce'
  BY <1>1 DEF SwapInv, SwapsOnce, Taken
<1>5. BothSignedFirst'
  <2> SUFFICES ASSUME NEW a \in Proposals, body'[a].kind = "approve", net[a] # "unsent"
               PROVE  \E s \in Proposals : InPair(a, s)' /\ signatures'[s] = 1
    BY DEF BothSignedFirst, Taken
  <2>1. body'[a] = body[a]
    BY <1>1
  <2>2. PICK s \in Proposals : InPair(a, s) /\ signatures[s] = 1
    BY <2>1 DEF SwapInv, BothSignedFirst, Taken
  <2>3. verdict[s] # "none"
    BY <2>2 DEF SwapInv, BodyInv
  <2>4. QED
    BY <2>1, <2>2, <2>3 DEF InPair
<1>6. QED
  BY <1>2, <1>3, <1>4, <1>5

\* Nothing is proposed either.
LEMMA NothingProposed ==
  ASSUME SwapInv, net' = net, body' = body,
         reviews' \in {reviews, reviews + 1}, gen' \in {gen, gen + 1},
         \A q \in Proposals :
           /\ verdict[q] = "none" <=> verdict'[q] = "none"
           /\ signatures[q] = 1 => signatures'[q] = 1
           /\ signatures'[q] = 1 => verdict'[q] = "approved"
  PROVE  /\ \A g : Steady(g)
         /\ \A r : Gentle(r)
         /\ BodyInv' /\ PairsInv' /\ NonceInv' /\ SwapsOnce' /\ BothSignedFirst'
<1>1. (\A g : Steady(g)) /\ NonceInv' /\ SwapsOnce' /\ BothSignedFirst'
  BY NothingSent
<1>2. \A r : Gentle(r)
  BY DEF SwapInv, BodyInv, Gentle
<1>3. BodyInv'
  <2>1. reviews \in Nat /\ gen \in Nat
    BY SwapAssumption DEF SwapAssumption, SwapInv, TypeOK
  <2>2. \A n : /\ n \in 1..reviews => n \in 1..reviews'
               /\ n \in 0..gen => n \in 0..gen'
    BY <2>1
  <2>3. QED
    BY <2>2 DEF SwapInv, BodyInv
<1>4. PairsInv'
  BY DEF SwapInv, PairsInv, InPair, Taken
<1>5. QED
  BY <1>1, <1>2, <1>3, <1>4

LEMMA InitSwap == Init => SwapInv
<1> SUFFICES ASSUME Init PROVE SwapInv
  OBVIOUS
<1>1. /\ stage = "Form" /\ reviews = 0 /\ seen = TRUE /\ alive = TRUE /\ gen = 0
      /\ pair.approve = 0 /\ pair.swap = 0 /\ pair = NoPair
      /\ \A s \in Slots : job[s].at = "none"
      /\ \A p \in Proposals : /\ verdict[p] = "none" /\ net[p] = "unsent"
                              /\ body[p] = NoBody /\ body[p].kind = "none"
                              /\ signatures[p] = 0
      /\ draft.review = 0 /\ Page \in Slots
  BY PageIsSlot DEF Init, Authority!Init, NoJob, NoBody, NoDraft, NoPair
<1>2. TypeOK
  <2>1. gen \in 0..MaxSwitches /\ reviews \in 0..MaxReviews
    BY SwapAssumption DEF SwapAssumption, Init
  <2>2. /\ verdict \in [Proposals -> Authority!Verdicts]
        /\ recorded \subseteq Proposals /\ signatures \in [Proposals -> {0, 1}]
    BY DEF Init, Authority!Init, Authority!Verdicts
  <2>3. pair \in [approve : Proposals \cup {0}, swap : Proposals \cup {0}]
    BY DEF Init, NoPair
  <2>4. draft.wish \in [lane : {"evm", "sol"}, token : BOOLEAN]
    BY DEF Init, NoDraft
  <2>5. QED
    BY <1>1, <2>1, <2>2, <2>3, <2>4 DEF Init, TypeOK, Stages
<1>3. \A s \in Slots : ~Delivers(s)
  BY <1>1 DEF Delivers
<1>4. DraftInv /\ PageInv /\ HeldInv
  BY <1>1, <1>3 DEF DraftInv, PageInv, HeldInv
<1>5. DeliveryInv /\ ApartInv
  BY <1>1, <1>3 DEF DeliveryInv, ApartInv
<1>6. BodyInv /\ UnsentInv /\ PairsInv /\ SwapsOnce /\ BothSignedFirst
  BY <1>1 DEF BodyInv, UnsentInv, PairsInv, InPair, SwapsOnce, BothSignedFirst, Taken
<1>7. PendingInv
  BY <1>1 DEF PendingInv, PairIsHeld
<1>8. NonceInv
  <2>1. \A g : TakenFrom(g) = {} /\ SettledOf(g) = {}
    BY <1>1 DEF TakenFrom, SettledOf, Taken
  <2>2. QED
    BY <2>1, FS_EmptySet DEF NonceInv
<1>9. QED
  BY <1>2, <1>4, <1>5, <1>6, <1>7, <1>8 DEF SwapInv

-----------------------------------------------------------------------------
(* The quote *)

\* Only the page's slot changes.
OthersStay == DOMAIN job' = Slots /\ \A s \in Slots : s # Page => job'[s] = job[s]

LEMMA StartsQuote ==
  ASSUME SwapInv, NEW kind \in {"quote", "requote"}, NEW review, StartQuote(kind, review)
  PROVE  /\ job'[Page] = [at |-> kind, requote |-> kind = "requote",
                          review |-> review, step |-> 0]
         /\ OthersStay
BY PageIsSlot DEF StartQuote, SwapInv, TypeOK, OthersStay

LEMMA BeginKeeps ==
  ASSUME SwapInv, NEW w \in Wishes, BeginReview(w)
  PROVE  SwapInv'
<1>1. /\ stage = "Form" /\ stage' = "Quoting" /\ reviews' = reviews + 1 /\ seen /\ alive
      /\ reviews < MaxReviews
      /\ draft' = [review |-> reviews + 1, wish |-> w]
      /\ StartQuote("quote", reviews + 1)
      /\ UNCHANGED <<gen, seen, alive, verdict, recorded, signatures, body, shown, pair,
                     net, allowance>>
  BY DEF BeginReview, authority
<1>2. /\ draft'.review = reviews + 1 /\ draft'.wish = w
      /\ w \in [lane : {"evm", "sol"}, token : BOOLEAN]
      /\ reviews \in Nat /\ reviews + 1 \in 0..MaxReviews
  BY <1>1, SwapAssumption DEF SwapAssumption, SwapInv, TypeOK
<1>3. /\ job'[Page] = [at |-> "quote", requote |-> FALSE, review |-> reviews + 1, step |-> 0]
      /\ OthersStay
  BY <1>1, StartsQuote
<1>4. /\ job'[Page].at = "quote"
      /\ job'[Page] \in [at : {"quote", "requote"}, requote : BOOLEAN, review : Nat, step : {0}]
  BY <1>2, <1>3
<1>5. TypeOK'
  BY <1>1, <1>2, <1>3, <1>4 DEF OthersStay, SwapInv, TypeOK, Stages, Threads
<1>6. /\ \A s \in Slots : Delivers(s)' => Delivers(s) /\ job'[s] = job[s]
      /\ ~Delivers(Page)'
  BY <1>1, <1>3 DEF Delivers, OthersStay
<1>7. /\ \A g : Steady(g)
      /\ \A r : Gentle(r)
      /\ BodyInv' /\ PairsInv' /\ NonceInv' /\ SwapsOnce' /\ BothSignedFirst'
  <2>1. \A q \in Proposals :
           /\ verdict[q] = "none" <=> verdict'[q] = "none"
           /\ signatures[q] = 1 => signatures'[q] = 1
           /\ signatures'[q] = 1 => verdict'[q] = "approved"
    BY <1>1 DEF SwapInv, BodyInv
  <2>2. net' = net /\ body' = body /\ reviews' = reviews + 1 /\ gen' = gen
    BY <1>1
  <2>3. QED
    BY <2>1, <2>2, NothingProposed
<1>8. DeliveryInv'
  BY <1>6, <1>7, DeliveriesStay
<1>9. ApartInv'
  <2>1. ASSUME NEW s \in Slots, Delivers(s)' PROVE job[s].review # draft'.review
    <3>1. Delivers(s) /\ s # Page
      BY <1>6, <2>1
    <3>2. QED
      BY <1>2, <3>1 DEF SwapInv, ApartInv
  <2>2. QED
    BY <1>1, <1>6, <2>1, PageIsSlot, StayApart
<1>10. DraftInv' /\ PageInv'
  BY <1>1, <1>2, <1>4, <1>6 DEF DraftInv, PageInv
<1>11. HeldInv'
  <2>1. pair' = NoPair /\ pair'.approve = 0 /\ pair'.swap = 0
    BY <1>1 DEF SwapInv, HeldInv, NoPair
  <2>2. \A p \in Proposals : body'[p].review # draft'.review
    BY <1>1, <1>2 DEF SwapInv, BodyInv, NoBody
  <2>3. QED
    BY <2>1, <2>2 DEF HeldInv
<1>12. UnsentInv'
  BY <1>1, <1>2, <1>4 DEF SwapInv, BodyInv, NoBody, UnsentInv
<1>13. PendingInv'
  BY <1>1 DEF SwapInv, PendingInv, PairIsHeld
<1>14. QED
  BY <1>5, <1>7, <1>8, <1>9, <1>10, <1>11, <1>12, <1>13 DEF SwapInv

\* A step that moves the page: its job starts no delivery, nothing is proposed,
\* signed or sent.
LEMMA PageMoves ==
  ASSUME SwapInv, OthersStay,
         net' = net, body' = body, gen' = gen, seen' = seen, reviews' = reviews,
         \A q \in Proposals :
           /\ verdict[q] = "none" <=> verdict'[q] = "none"
           /\ signatures[q] = 1 => signatures'[q] = 1
           /\ signatures'[q] = 1 => verdict'[q] = "approved",
         \/ ~Delivers(Page)' /\ (draft' = draft \/ draft'.review = 0)
         \/ Delivers(Page) /\ job'[Page] = job[Page] /\ draft' = draft,
         TypeOK', DraftInv', PageInv', HeldInv', UnsentInv', PendingInv'
  PROVE  SwapInv'
<1>1. /\ \A g : Steady(g)
      /\ \A r : Gentle(r)
      /\ BodyInv' /\ PairsInv' /\ NonceInv' /\ SwapsOnce' /\ BothSignedFirst'
  BY NothingProposed
<1>2. \A s \in Slots : Delivers(s)' => Delivers(s) /\ job'[s] = job[s]
  BY DEF OthersStay, Delivers
<1>3. DeliveryInv'
  BY <1>1, <1>2, DeliveriesStay
<1>4. ApartInv'
  <2>1. ASSUME NEW s \in Slots, Delivers(s) PROVE job[s].review # 0
    <3>1. job[s].review \in 1..MaxReviews
      BY <2>1 DEF SwapInv, DeliveryInv, Deliveries
    <3>2. QED
      BY <3>1
  <2>2. QED
    BY <1>2, <2>1, PageIsSlot, StayApart
<1>5. QED
  BY <1>1, <1>3, <1>4 DEF SwapInv

\* The trust plane is left alone.
LEMMA AuthorityStays ==
  ASSUME SwapInv, verdict' = verdict, signatures' = signatures
  PROVE  \A q \in Proposals :
           /\ verdict[q] = "none" <=> verdict'[q] = "none"
           /\ signatures[q] = 1 => signatures'[q] = 1
           /\ signatures'[q] = 1 => verdict'[q] = "approved"
BY DEF SwapInv, BodyInv

\* Nothing of the page but its job and stage changes.
LEMMA FiguresStay ==
  ASSUME SwapInv, net' = net, body' = body, gen' = gen, seen' = seen, alive' = alive,
         verdict' = verdict, draft' = draft, pair' = pair, shown' = shown,
         reviews' = reviews
  PROVE  /\ NextNonce' = NextNonce
         /\ PairIsHeld'
         /\ Sol' = Sol
<1>1. Steady(gen)
  BY DEF Steady
<1>2. QED
  BY <1>1, SteadyCounts DEF SwapInv, PendingInv, PairIsHeld, Sol

LEMMA RefreshesKeeps ==
  ASSUME SwapInv, Refreshes
  PROVE  SwapInv'
<1>1. /\ stage = "Review" /\ seen /\ ~Sol /\ pair = NoPair
      /\ StartQuote("requote", draft.review)
      /\ net' = net /\ body' = body /\ gen' = gen /\ seen' = seen /\ reviews' = reviews
      /\ verdict' = verdict /\ signatures' = signatures /\ recorded' = recorded
      /\ draft' = draft /\ shown' = shown /\ pair' = pair /\ stage' = stage
      /\ alive' = alive /\ allowance' = allowance
  BY DEF Refreshes, Frozen, authority, screen
<1>2. draft.review \in Nat
  BY SwapAssumption DEF SwapAssumption, SwapInv, TypeOK, DraftInv
<1>3. /\ job'[Page] = [at |-> "requote", requote |-> TRUE, review |-> draft.review, step |-> 0]
      /\ OthersStay
  BY <1>1, StartsQuote
<1>4. /\ job'[Page].at = "requote"
      /\ job'[Page] \in [at : {"quote", "requote"}, requote : BOOLEAN, review : Nat, step : {0}]
  BY <1>2, <1>3
<1>5. NextNonce' = NextNonce /\ PairIsHeld' /\ Sol' = Sol
  BY <1>1, FiguresStay
<1>6. TypeOK'
  BY <1>1, <1>3, <1>4 DEF OthersStay, SwapInv, TypeOK, Threads
<1>7. DraftInv' /\ HeldInv'
  BY <1>1, <1>5 DEF SwapInv, DraftInv, HeldInv
<1>8. PageInv' /\ ~Delivers(Page)'
  BY <1>1, <1>4 DEF SwapInv, PageInv, Delivers
<1>9. UnsentInv' /\ PendingInv'
  BY <1>1, <1>4, <1>5 DEF SwapInv, UnsentInv, PendingInv
<1>10. \A q \in Proposals :
           /\ verdict[q] = "none" <=> verdict'[q] = "none"
           /\ signatures[q] = 1 => signatures'[q] = 1
           /\ signatures'[q] = 1 => verdict'[q] = "approved"
  BY <1>1, AuthorityStays
<1>11. QED
  BY <1>1, <1>3, <1>6, <1>7, <1>8, <1>9, <1>10, PageMoves

LEMMA QuoteEndsKeeps ==
  ASSUME SwapInv, QuoteEnds
  PROVE  SwapInv'
<1> DEFINE j == job[Page]
<1>1. /\ net' = net /\ body' = body /\ gen' = gen /\ seen' = seen /\ reviews' = reviews
      /\ verdict' = verdict /\ signatures' = signatures /\ recorded' = recorded
      /\ draft' = draft /\ shown' = shown /\ pair' = pair /\ stage' = stage
      /\ alive' = alive /\ allowance' = allowance /\ j.at \in {"quote", "requote"}
  BY DEF QuoteEnds, SetJob, Fails, authority, screen
<1>2. /\ OthersStay
      /\ job'[Page].at = "failed" \/ (job'[Page].at = "ok" /\ job'[Page].quote.nonce = NextNonce)
  <2>1. CASE Fails(Page)
    <3>1. /\ job' = [job EXCEPT ![Page] = [j EXCEPT !.at = "failed"]]
          /\ DOMAIN job = Slots
      BY <2>1 DEF Fails, SetJob, SwapInv, TypeOK
    <3>2. "at" \in DOMAIN j
      <4>1. j \in [at : {"quote", "requote"}, requote : BOOLEAN, review : Nat, step : {0}]
        BY <1>1 DEF SwapInv, PageInv
      <4>2. QED
        BY <4>1
    <3>3. QED
      BY <3>1, <3>2, PageIsSlot DEF OthersStay
  <2>2. ASSUME NEW offer,
               SetJob(Page, [at |-> "ok", requote |-> j.requote, step |-> 0,
                             review |-> j.review, quote |-> Quotes(offer)])
        PROVE  /\ OthersStay
               /\ job'[Page].at = "ok" /\ job'[Page].quote.nonce = NextNonce
    BY <2>2, PageIsSlot DEF SetJob, SwapInv, TypeOK, OthersStay, Quotes
  <2>3. QED
    BY <2>1, <2>2 DEF QuoteEnds
<1>3. stage \in {"Quoting", "Review"}
  <2>1. ASSUME Delivers(Page) PROVE FALSE
    <3>1. j \in Deliveries(j.click, j.swap)
      BY <2>1, PageIsSlot DEF SwapInv, DeliveryInv
    <3>2. j.at \in Ats
      BY <3>1 DEF Deliveries
    <3>3. QED
      BY <1>1, <3>2 DEF Ats
  <2>2. QED
    BY <1>1, <2>1 DEF SwapInv, TypeOK, Stages, PageInv, Delivers
<1>4. NextNonce' = NextNonce /\ PairIsHeld' /\ Sol' = Sol
  BY <1>1, FiguresStay
<1>5. TypeOK'
  BY <1>1, <1>2 DEF OthersStay, SwapInv, TypeOK, Threads
<1>6. DraftInv' /\ HeldInv'
  BY <1>1, <1>4 DEF SwapInv, DraftInv, HeldInv
<1>7. PageInv' /\ ~Delivers(Page)'
  BY <1>1, <1>2, <1>3 DEF SwapInv, PageInv, Delivers
<1>8. UnsentInv' /\ PendingInv'
  BY <1>1, <1>2, <1>3, <1>4 DEF SwapInv, UnsentInv, PendingInv
<1>9. \A q \in Proposals :
           /\ verdict[q] = "none" <=> verdict'[q] = "none"
           /\ signatures[q] = 1 => signatures'[q] = 1
           /\ signatures'[q] = 1 => verdict'[q] = "approved"
  BY <1>1, AuthorityStays
<1>10. QED
  BY <1>1, <1>2, <1>5, <1>6, <1>7, <1>8, <1>9, PageMoves

-----------------------------------------------------------------------------
(* The frame loop *)

LEMMA LetGoIs ==
  ASSUME SwapInv, LetGo
  PROVE  OthersStay /\ job'[Page].at = "none"
BY PageIsSlot DEF LetGo, NoJob, OthersStay, SwapInv, TypeOK

\* A delivery of the page is of the pair on the screen.
LEMMA PageDelivers ==
  ASSUME SwapInv, Delivers(Page)
  PROVE  /\ job[Page] \in Deliveries(job[Page].click, job[Page].swap)
         /\ Asks(Page) /\ Builds(Page) /\ Marks(Page) /\ Sends(Page) /\ Counts(Page)
         /\ job[Page].click = shown /\ job[Page].review = draft.review
         /\ \A p \in {pair.approve, pair.swap} \ {0} :
              \E k \in 1..Len(job[Page].todo) : p = job[Page].todo[k]
<1>1. /\ job[Page] \in Deliveries(job[Page].click, job[Page].swap)
      /\ Asks(Page) /\ Builds(Page) /\ Marks(Page) /\ Sends(Page) /\ Counts(Page)
      /\ job[Page].click = shown /\ job[Page].review = draft.review
      /\ ~Sol => job[Page].todo = IF shown.need THEN <<pair.approve, pair.swap>>
                                  ELSE <<pair.swap>>
  BY PageIsSlot DEF SwapInv, DeliveryInv, PageInv
<1>2. CASE Sol
  BY <1>1, <1>2 DEF SwapInv, HeldInv, NoPair
<1>3. CASE ~Sol /\ shown.need
  <2>1. Len(job[Page].todo) = 2 /\ 1 \in 1..2 /\ 2 \in 1..2
    BY <1>1, <1>3
  <2>2. QED
    BY <1>1, <1>3, <2>1
<1>4. CASE ~Sol /\ ~shown.need
  <2>1. Len(job[Page].todo) = 1 /\ 1 \in 1..1
    BY <1>1, <1>4
  <2>2. pair.approve = 0
    BY <1>4 DEF SwapInv, HeldInv
  <2>3. QED
    BY <1>1, <1>4, <2>1, <2>2
<1>5. QED
  BY <1>1, <1>2, <1>3, <1>4

\* Behind the last signature nothing the page holds is pending.
LEMMA SignedIsDecided ==
  ASSUME SwapInv, Delivers(Page), job[Page].step # 0
  PROVE  \A p \in {pair.approve, pair.swap} \ {0} : verdict[p] # "pending"
<1> SUFFICES ASSUME NEW p \in {pair.approve, pair.swap} \ {0}
             PROVE  verdict[p] # "pending"
  OBVIOUS
<1>1. PICK k \in 1..Len(job[Page].todo) : p = job[Page].todo[k]
  BY PageDelivers
<1>2. signatures[p] = 1
  BY <1>1, PageDelivers DEF Marks
<1>3. p \in Proposals
  BY DEF SwapInv, TypeOK
<1>4. QED
  BY <1>2, <1>3 DEF SwapInv, BodyInv

LEMMA QuoteLandsKeeps ==
  ASSUME SwapInv, QuoteLands(job[Page]), seen, job[Page].at = "ok",
         stage \in {"Quoting", "Review"},
         UNCHANGED <<gen, seen, alive, authority, body, net, allowance, reviews>>
  PROVE  SwapInv'
<1>1. /\ net' = net /\ body' = body /\ gen' = gen /\ seen' = seen /\ reviews' = reviews
      /\ verdict' = verdict /\ signatures' = signatures /\ recorded' = recorded
      /\ draft' = draft /\ pair' = pair /\ stage' = "Review" /\ shown' = job[Page].quote
      /\ alive' = alive /\ allowance' = allowance
  BY DEF QuoteLands, authority
<1>2. OthersStay /\ job'[Page].at = "none"
  BY LetGoIs DEF QuoteLands
<1>3. pair = NoPair /\ shown'.nonce = NextNonce
  BY <1>1 DEF SwapInv, HeldInv, PageInv, UnsentInv
<1>4. Steady(gen)
  BY <1>1 DEF Steady
<1>5. NextNonce' = NextNonce /\ NextNonce \in Nat /\ Sol' = Sol
  BY <1>1, <1>4, SteadyCounts, NextNonceIsNat DEF Sol
<1>6. TypeOK'
  BY <1>1, <1>2 DEF OthersStay, SwapInv, TypeOK, Stages
<1>7. DraftInv' /\ PageInv' /\ ~Delivers(Page)'
  BY <1>1, <1>2, <1>3, <1>5 DEF SwapInv, DraftInv, PageInv, Delivers
<1>8. HeldInv'
  <2>1. pair'.approve = 0 /\ pair'.swap = 0
    BY <1>1, <1>3 DEF NoPair
  <2>2. \A p \in Proposals : body[p].review = draft.review =>
          IF Sol THEN body[p].kind = "swap" /\ body[p].lane = "sol"
          ELSE p \in {pair.approve, pair.swap}
    BY <1>1 DEF SwapInv, HeldInv
  <2>3. QED
    BY <1>1, <1>3, <1>5, <2>1, <2>2 DEF HeldInv
<1>9. UnsentInv'
  BY <1>1, <1>2, <1>3, <1>5 DEF SwapInv, UnsentInv
<1>10. PendingInv'
  BY <1>1 DEF SwapInv, PendingInv, PairIsHeld
<1>11. \A q \in Proposals :
           /\ verdict[q] = "none" <=> verdict'[q] = "none"
           /\ signatures[q] = 1 => signatures'[q] = 1
           /\ signatures'[q] = 1 => verdict'[q] = "approved"
  BY <1>1, AuthorityStays
<1>12. QED
  BY <1>1, <1>2, <1>6, <1>7, <1>8, <1>9, <1>10, <1>11, PageMoves

\* The page's job ends or is kept, and the screen stays as it is.
LEMMA StageMoves ==
  ASSUME SwapInv, OthersStay, UNCHANGED screen,
         UNCHANGED <<gen, seen, alive, authority, body, net, allowance, reviews>>,
         \/ job'[Page].at = "none" /\ stage' \in {"Form", "Review", "Failed"}
         \/ Delivers(Page) /\ job'[Page] = job[Page] /\ stage' \in {"Done", "Failed"},
         stage' = "Form" => stage = "Quoting",
         stage' = "Review" => stage = "Review" \/ (stage = "Delivering" /\ job[Page].step = 0),
         stage' = "Done" => job[Page].at = "ok",
         stage' = "Failed" =>
           stage = "Failed" \/ (Delivers(Page) /\ job[Page].at = "failed" /\ job[Page].step # 0)
  PROVE  SwapInv'
<1>1. /\ net' = net /\ body' = body /\ gen' = gen /\ seen' = seen /\ reviews' = reviews
      /\ verdict' = verdict /\ signatures' = signatures /\ recorded' = recorded
      /\ draft' = draft /\ pair' = pair /\ shown' = shown
      /\ alive' = alive /\ allowance' = allowance
  BY DEF authority, screen
<1>2. NextNonce' = NextNonce /\ PairIsHeld' /\ Sol' = Sol
  BY <1>1, FiguresStay
<1>3. TypeOK'
  BY <1>1 DEF OthersStay, SwapInv, TypeOK, Stages
<1>4. /\ \/ ~Delivers(Page)' /\ (draft' = draft \/ draft'.review = 0)
         \/ Delivers(Page) /\ job'[Page] = job[Page] /\ draft' = draft
      /\ Delivers(Page)' => Delivers(Page) /\ job'[Page] = job[Page]
  BY <1>1 DEF Delivers
<1>5. DraftInv'
  BY <1>1, PageDelivers DEF SwapInv, DraftInv, Delivers
<1>6. PageInv'
  BY <1>1, <1>2, <1>4 DEF SwapInv, PageInv, Delivers, DeliveryInv
<1>7. HeldInv'
  BY <1>1, <1>2 DEF SwapInv, HeldInv, Delivers
<1>8. UnsentInv'
  <2>1. ASSUME stage' = "Review"
        PROVE  \A p \in Proposals : body[p].review = draft.review => net[p] = "unsent"
    <3>1. CASE stage = "Review"
      BY <3>1 DEF SwapInv, UnsentInv
    <3>2. CASE stage = "Delivering" /\ job[Page].step = 0
      <4>1. Delivers(Page)
        BY <3>2 DEF SwapInv, PageInv, Delivers
      <4>2. Sends(Page) /\ job[Page].review = draft.review
        BY <4>1, PageDelivers
      <4>3. QED
        BY <3>2, <4>2 DEF Sends
    <3>3. QED
      BY <2>1, <3>1, <3>2
  <2>2. stage' = "Review" => job'[Page].at = "none"
    OBVIOUS
  <2>3. QED
    BY <1>1, <1>2, <2>1, <2>2 DEF SwapInv, UnsentInv
<1>9. PendingInv'
  <2>1. stage' \in {"Done", "Failed"} =>
          \A p \in {pair.approve, pair.swap} \ {0} : verdict[p] # "pending"
    <3>1. CASE stage = "Failed"
      BY <3>1 DEF SwapInv, PendingInv
    <3>2. CASE stage' = "Done"
      BY <3>2, PageDelivers, SignedIsDecided DEF Marks
    <3>3. CASE Delivers(Page) /\ job[Page].step # 0
      BY <3>3, SignedIsDecided
    <3>4. QED
      BY <3>1, <3>2, <3>3
  <2>2. QED
    BY <1>1, <1>2, <2>1 DEF SwapInv, PendingInv
<1>10. \A q \in Proposals :
           /\ verdict[q] = "none" <=> verdict'[q] = "none"
           /\ signatures[q] = 1 => signatures'[q] = 1
           /\ signatures'[q] = 1 => verdict'[q] = "approved"
  BY <1>1, AuthorityStays
<1>11. QED
  BY <1>1, <1>3, <1>4, <1>5, <1>6, <1>7, <1>8, <1>9, <1>10, PageMoves

LEMMA PollKeeps ==
  ASSUME SwapInv, PollJob
  PROVE  SwapInv'
<1> DEFINE j == job[Page]
<1>1. /\ seen
      /\ UNCHANGED <<gen, seen, alive, authority, body, net, allowance, reviews>>
      /\ DOMAIN job = Slots /\ stage \in Stages
  BY DEF PollJob, SwapInv, TypeOK
<1>2. CASE j.at = "ok" /\ stage \in {"Quoting", "Review"} /\ QuoteLands(j)
  BY <1>1, <1>2, QuoteLandsKeeps
<1>3. CASE /\ j.at = "ok" /\ stage \in {"Delivering", "Done"}
           /\ stage' = "Done" /\ UNCHANGED <<screen, job>>
  <2>1. OthersStay /\ Delivers(Page) /\ UNCHANGED screen /\ job' = job /\ stage' = "Done"
    BY <1>1, <1>3 DEF OthersStay, Delivers
  <2>2. QED
    BY <1>1, <1>3, <2>1, StageMoves
<1>4. CASE j.at = "failed" /\ FailureLands(j)
  <2>1. UNCHANGED screen
    BY <1>4 DEF FailureLands
  <2>2. CASE stage = "Delivering" /\ j.step # 0
    <3>1. OthersStay /\ Delivers(Page) /\ job' = job /\ stage' = "Failed"
      BY <1>1, <1>4, <2>2 DEF FailureLands, OthersStay, Delivers
    <3>2. QED
      BY <1>1, <1>4, <2>1, <2>2, <3>1, StageMoves
  <2>3. CASE ~(stage = "Delivering" /\ j.step # 0)
    <3>1. OthersStay /\ job'[Page].at = "none"
      BY <1>4, <2>3, LetGoIs DEF FailureLands
    <3>2. stage \in {"Quoting", "Review", "Delivering", "Failed"}
      BY <1>1, <1>4 DEF SwapInv, PageInv, Stages
    <3>3. stage' = IF stage = "Quoting" THEN "Form"
                   ELSE IF stage = "Delivering" THEN "Review" ELSE stage
      BY <1>4, <2>3, <3>2 DEF FailureLands
    <3>4. QED
      BY <1>1, <2>1, <2>3, <3>1, <3>2, <3>3, StageMoves
  <2>4. QED
    BY <2>2, <2>3
<1>5. QED
  BY <1>2, <1>3, <1>4 DEF PollJob

\* The page starts over: its form is empty and its job let go.
LEMMA ResetMoves ==
  ASSUME SwapInv, ResetToForm, OthersStay, job'[Page].at = "none",
         UNCHANGED <<gen, seen, alive, recorded, signatures, body, net, allowance, reviews>>,
         verdict' \in [Proposals -> Authority!Verdicts],
         \A q \in Proposals :
           /\ verdict[q] = "none" <=> verdict'[q] = "none"
           /\ verdict'[q] = "pending" => verdict[q] = "pending"
           /\ verdict[q] = "approved" => verdict'[q] = "approved",
         alive => \A p \in {pair.approve, pair.swap} \ {0} : verdict'[p] # "pending"
  PROVE  SwapInv'
<1>1. /\ net' = net /\ body' = body /\ gen' = gen /\ seen' = seen /\ reviews' = reviews
      /\ signatures' = signatures /\ recorded' = recorded
      /\ alive' = alive /\ allowance' = allowance
      /\ stage' = "Form" /\ pair' = NoPair /\ pair'.approve = 0 /\ pair'.swap = 0
      /\ draft'.review = 0 /\ draft'.wish \in [lane : {"evm", "sol"}, token : BOOLEAN]
      /\ reviews \in Nat
  BY SwapAssumption
     DEF SwapAssumption, SwapInv, TypeOK, ResetToForm, NoDraft, NoPair
<1>2. TypeOK'
  <2>1. pair' \in [approve : Proposals \cup {0}, swap : Proposals \cup {0}]
    BY <1>1 DEF NoPair
  <2>2. QED
    BY <1>1, <2>1 DEF OthersStay, SwapInv, TypeOK, Stages
<1>3. DraftInv' /\ PageInv' /\ HeldInv' /\ UnsentInv' /\ ~Delivers(Page)'
  BY <1>1 DEF DraftInv, PageInv, HeldInv, UnsentInv, Delivers
<1>4. PendingInv'
  <2>1. \A p \in Proposals : p # 0
    BY DEF Proposals
  <2>2. PairIsHeld'
    BY <1>1, <2>1 DEF SwapInv, PendingInv, PairIsHeld
  <2>3. QED
    BY <1>1, <2>2 DEF SwapInv, PendingInv
<1>5. \A q \in Proposals :
           /\ verdict[q] = "none" <=> verdict'[q] = "none"
           /\ signatures[q] = 1 => signatures'[q] = 1
           /\ signatures'[q] = 1 => verdict'[q] = "approved"
  BY <1>1 DEF SwapInv, BodyInv
<1>6. QED
  BY <1>1, <1>2, <1>3, <1>4, <1>5, PageMoves

LEMMA CancelKeeps ==
  ASSUME SwapInv, CancelFlow
  PROVE  SwapInv'
<1>1. /\ ResetToForm /\ LetGo
      /\ UNCHANGED <<gen, seen, alive, recorded, signatures, body, net, allowance, reviews>>
      /\ verdict' = [p \in Proposals |->
                       IF p \in {pair.approve, pair.swap} /\ alive /\ verdict[p] = "pending"
                       THEN "denied" ELSE verdict[p]]
  BY DEF CancelFlow, DeniesOnCancel
<1>2. /\ verdict \in [Proposals -> Authority!Verdicts]
      /\ pair.approve \in Proposals \cup {0} /\ pair.swap \in Proposals \cup {0}
  BY DEF SwapInv, TypeOK
<1>3. /\ verdict' \in [Proposals -> Authority!Verdicts]
      /\ \A q \in Proposals :
           /\ verdict[q] = "none" <=> verdict'[q] = "none"
           /\ verdict'[q] = "pending" => verdict[q] = "pending"
           /\ verdict[q] = "approved" => verdict'[q] = "approved"
      /\ alive => \A p \in {pair.approve, pair.swap} \ {0} : verdict'[p] # "pending"
  BY <1>1, <1>2 DEF Authority!Verdicts
<1>4. QED
  BY <1>1, <1>3, LetGoIs, ResetMoves

LEMMA BackKeeps ==
  ASSUME SwapInv, BackPressed
  PROVE  SwapInv'
<1>1. /\ ResetToForm /\ LetGo /\ stage \in {"Done", "Failed"} /\ verdict' = verdict
      /\ UNCHANGED <<gen, seen, alive, recorded, signatures, body, net, allowance, reviews>>
  BY DEF BackPressed, authority
<1>2. verdict \in [Proposals -> Authority!Verdicts]
  BY DEF SwapInv, TypeOK
<1>3. \A p \in {pair.approve, pair.swap} \ {0} : verdict[p] # "pending"
  BY <1>1 DEF SwapInv, PendingInv
<1>4. QED
  BY <1>1, <1>2, <1>3, LetGoIs, ResetMoves

\* The first frame after a change of wallet: a delivery the page lets go of
\* moves to the slot of that change.
LEMMA SwitchSeenIs ==
  ASSUME SwapInv, FrameSeesSwitch
  PROVE  /\ OthersStay \/ (Delivers(Page) /\ gen # Page /\ job'[gen] = job[Page])
         /\ DOMAIN job' = Slots /\ job'[Page].at = "none"
         /\ \A s \in Slots : s \notin {Page, gen} => job'[s] = job[s]
<1> DEFINE j == job[Page]
           kept == IF j.at \in Threads /\ stage = "Delivering" THEN j ELSE job[gen]
<1>1. job' = [job EXCEPT ![gen] = kept, ![Page] = NoJob] /\ ~seen
  BY DEF FrameSeesSwitch
<1>2. gen \in Slots /\ DOMAIN job = Slots /\ Page \in Slots /\ gen \in Nat
  BY PageIsSlot, SwapAssumption DEF SwapAssumption, SwapInv, TypeOK, Slots, Page
<1>3. kept = job[gen] \/ (Delivers(Page) /\ kept = j)
  BY DEF Delivers, Threads
<1>4. Delivers(Page) => gen # Page
  <2> SUFFICES ASSUME Delivers(Page) PROVE gen # Page
    OBVIOUS
  <2>1. job[Page].gen < gen
    BY <1>1 DEF SwapInv, ApartInv
  <2>2. job[Page].gen \in 0..MaxSwitches
    BY PageDelivers DEF Deliveries
  <2>3. QED
    BY <1>2, <2>1, <2>2 DEF Page
<1> HIDE DEF kept
<1>5. /\ DOMAIN job' = Slots /\ job'[Page] = NoJob
      /\ \A s \in Slots : s # Page => job'[s] = IF s = gen THEN kept ELSE job[s]
  BY <1>1, <1>2
<1>6. NoJob.at = "none"
  BY DEF NoJob
<1>7. kept = job[gen] => OthersStay
  BY <1>5 DEF OthersStay
<1>8. Delivers(Page) /\ kept = j => gen # Page /\ job'[gen] = job[Page]
  BY <1>2, <1>4, <1>5
<1>9. QED
  BY <1>3, <1>5, <1>6, <1>7, <1>8

LEMMA SwitchSeenKeeps ==
  ASSUME SwapInv, FrameSeesSwitch
  PROVE  SwapInv'
<1>1. /\ net' = net /\ body' = body /\ gen' = gen /\ ~seen /\ seen' /\ reviews' = reviews
      /\ verdict' = verdict /\ signatures' = signatures /\ recorded' = recorded
      /\ alive' = alive /\ allowance' = allowance
      /\ stage' = "Form" /\ pair' = NoPair /\ pair'.approve = 0 /\ pair'.swap = 0
      /\ draft'.review = 0 /\ draft'.wish \in [lane : {"evm", "sol"}, token : BOOLEAN]
      /\ reviews \in Nat /\ seen' = TRUE
  BY SwapAssumption
     DEF SwapAssumption, SwapInv, TypeOK, FrameSeesSwitch, ResetToForm, NoDraft, NoPair,
         authority
<1>2. /\ OthersStay \/ (Delivers(Page) /\ gen # Page /\ job'[gen] = job[Page])
      /\ DOMAIN job' = Slots /\ job'[Page].at = "none"
      /\ \A s \in Slots : s \notin {Page, gen} => job'[s] = job[s]
  BY SwitchSeenIs
<1>3. \A s \in Slots : Delivers(s)' =>
        /\ s # Page
        /\ \/ Delivers(s) /\ job'[s] = job[s]
           \/ s = gen /\ Delivers(Page) /\ job'[s] = job[Page]
  BY <1>1, <1>2 DEF Delivers, OthersStay
<1>4. TypeOK'
  <2>1. pair' \in [approve : Proposals \cup {0}, swap : Proposals \cup {0}]
    BY <1>1 DEF NoPair
  <2>2. \A s \in Slots : job'[s].at \in Threads \cup {"none", "ok", "failed"}
    BY <1>2, PageIsSlot DEF SwapInv, TypeOK, OthersStay
  <2>3. QED
    BY <1>1, <1>2, <2>1, <2>2 DEF SwapInv, TypeOK, Stages
<1>5. \A q \in Proposals :
           /\ verdict[q] = "none" <=> verdict'[q] = "none"
           /\ signatures[q] = 1 => signatures'[q] = 1
           /\ signatures'[q] = 1 => verdict'[q] = "approved"
  BY <1>1, AuthorityStays
<1>6. /\ \A g : Steady(g)
      /\ \A r : Gentle(r)
      /\ BodyInv' /\ PairsInv' /\ NonceInv' /\ SwapsOnce' /\ BothSignedFirst'
  BY <1>1, <1>5, NothingProposed
<1>7. DeliveryInv'
  BY <1>3, <1>6, PageIsSlot, DeliveryStays DEF DeliveryInv
<1>8. ApartInv'
  <2>1. ASSUME NEW s \in Slots, Delivers(s)
        PROVE  job[s].review \in 1..reviews /\ job[s].gen < gen
    <3>1. CASE s = Page
      <4>1. job[Page].review \in 1..MaxReviews /\ job[Page].review = draft.review
        BY <2>1, <3>1, PageDelivers DEF Deliveries
      <4>2. draft.review \in 0..reviews /\ job[Page].gen < gen
        BY <1>1, <2>1, <3>1 DEF SwapInv, DraftInv, ApartInv
      <4>3. QED
        BY <1>1, <3>1, <4>1, <4>2
    <3>2. CASE s # Page
      BY <2>1, <3>2 DEF SwapInv, ApartInv
    <3>3. QED
      BY <3>1, <3>2
  <2>2. 0 \notin 1..reviews
    OBVIOUS
  <2>3. \A s, t \in Slots :
          /\ Delivers(s)' /\ Delivers(t)'
          /\ job'[s].review = job'[t].review \/ job'[s].gen = job'[t].gen
          => s = t
    BY <1>2, <1>3, PageIsSlot DEF SwapInv, ApartInv
  <2>4. \A s \in Slots : Delivers(s)' =>
          job'[s].review \in 1..reviews /\ job'[s].review # 0 /\ job'[s].gen < gen
    BY <1>3, <2>1, <2>2, PageIsSlot
  <2>5. ~Delivers(Page)'
    BY <1>3, PageIsSlot
  <2>6. QED
    BY <1>1, <2>3, <2>4, <2>5 DEF ApartInv
<1>9. DraftInv' /\ PageInv' /\ HeldInv' /\ UnsentInv'
  BY <1>1, <1>2 DEF DraftInv, PageInv, HeldInv, UnsentInv, Delivers
<1>10. PendingInv'
  BY <1>1 DEF SwapInv, PendingInv, PairIsHeld
<1>11. QED
  BY <1>4, <1>6, <1>7, <1>8, <1>9, <1>10 DEF SwapInv

-----------------------------------------------------------------------------
(* The child, the vault page and the chain *)

LEMMA LoseIs ==
  ASSUME SwapInv, Authority!Lose(Unfinished)
  PROVE  /\ verdict' \in [Proposals -> Authority!Verdicts]
         /\ recorded' = recorded /\ signatures' = signatures
         /\ \A q \in Proposals :
              /\ verdict[q] = "none" <=> verdict'[q] = "none"
              /\ signatures[q] = 1 => signatures'[q] = 1
              /\ signatures'[q] = 1 => verdict'[q] = "approved"
              /\ verdict'[q] # "pending"
<1>1. /\ verdict \in [Proposals -> Authority!Verdicts]
      /\ \A q \in Proposals : signatures[q] = 1 => verdict[q] = "approved"
  BY DEF SwapInv, TypeOK, BodyInv
<1>2. /\ verdict' = [p \in Proposals |-> IF p \in Unfinished THEN "lost" ELSE verdict[p]]
      /\ recorded' = recorded /\ signatures' = signatures
  BY DEF Authority!Lose
<1>3. QED
  BY <1>1, <1>2 DEF Authority!Verdicts, Unfinished

\* The child dies, or the page's wallet is another: nothing is pending.
LEMMA LossKeeps ==
  ASSUME SwapInv, Authority!Lose(Unfinished),
         gen' \in 0..MaxSwitches, alive' \in BOOLEAN, seen' \in BOOLEAN,
         \/ gen' = gen /\ seen' = seen
         \/ gen' = gen + 1 /\ seen /\ ~seen',
         UNCHANGED <<body, stage, draft, shown, pair, job, net, allowance, reviews>>
  PROVE  SwapInv'
<1>1. /\ net' = net /\ body' = body /\ reviews' = reviews /\ stage' = stage
      /\ draft' = draft /\ pair' = pair /\ shown' = shown /\ job' = job
      /\ allowance' = allowance /\ gen \in Nat /\ seen \in BOOLEAN
      /\ pair.approve \in Proposals \cup {0} /\ pair.swap \in Proposals \cup {0}
  BY SwapAssumption DEF SwapAssumption, SwapInv, TypeOK
<1>2. /\ verdict' \in [Proposals -> Authority!Verdicts]
      /\ recorded' = recorded /\ signatures' = signatures
      /\ \A q \in Proposals :
           /\ verdict[q] = "none" <=> verdict'[q] = "none"
           /\ signatures[q] = 1 => signatures'[q] = 1
           /\ signatures'[q] = 1 => verdict'[q] = "approved"
           /\ verdict'[q] # "pending"
  BY LoseIs
<1>3. TypeOK'
  BY <1>1, <1>2 DEF SwapInv, TypeOK
<1>4. /\ \A g : Steady(g)
      /\ \A r : Gentle(r)
      /\ BodyInv' /\ PairsInv' /\ NonceInv' /\ SwapsOnce' /\ BothSignedFirst'
  <2>1. gen' \in {gen, gen + 1} /\ reviews' \in {reviews, reviews + 1}
    BY <1>1
  <2>2. QED
    BY <1>1, <1>2, <2>1, NothingProposed
<1>5. \A s \in Slots : Delivers(s)' <=> Delivers(s)
  BY <1>1 DEF Delivers
<1>6. DeliveryInv'
  BY <1>1, <1>4, <1>5, DeliveriesStay
<1>7. ApartInv'
  <2>1. CASE gen' = gen /\ seen' = seen
    BY <1>1, <1>5, <2>1, PageIsSlot DEF SwapInv, ApartInv
  <2>2. CASE gen' = gen + 1 /\ seen /\ ~seen'
    <3>1. ASSUME NEW s \in Slots, Delivers(s) PROVE job[s].gen \in Nat
      <4>1. job[s] \in Deliveries(job[s].click, job[s].swap)
        BY <3>1 DEF SwapInv, DeliveryInv
      <4>2. job[s].gen \in 0..MaxSwitches
        BY <4>1 DEF Deliveries
      <4>3. QED
        BY <4>2
    <3>2. \A n \in Nat : n <= gen => n < gen'
      BY <1>1, <2>2
    <3>3. \A s \in Slots : Delivers(s) => job[s].gen < gen'
      BY <1>1, <2>2, <3>1, <3>2 DEF SwapInv, ApartInv
    <3>4. QED
      BY <1>1, <1>5, <2>2, <3>3, PageIsSlot DEF SwapInv, ApartInv
  <2>3. QED
    BY <2>1, <2>2
<1>8. Sol' = Sol
  BY <1>1 DEF Sol
<1>9. DraftInv' /\ PageInv'
  BY <1>1, <1>5, <1>8, PageIsSlot DEF SwapInv, DraftInv, PageInv
<1>10. HeldInv'
  <2>1. pair.approve # 0 => verdict'[pair.approve] # "none"
    BY <1>1, <1>2 DEF SwapInv, HeldInv
  <2>2. pair.swap # 0 => verdict'[pair.swap] # "none"
    BY <1>1, <1>2 DEF SwapInv, HeldInv
  <2>3. \A p \in {pair.approve, pair.swap} \ {0} : seen' => body[p].gen = gen'
    BY DEF SwapInv, HeldInv
  <2>4. QED
    BY <1>1, <1>8, <2>1, <2>2, <2>3 DEF SwapInv, HeldInv
<1>11. UnsentInv'
  <2>1. CASE gen' = gen /\ seen' = seen
    <3>1. NextNonce' = NextNonce
      BY <1>4, <2>1, SteadyCounts
    <3>2. QED
      BY <1>1, <2>1, <3>1 DEF SwapInv, UnsentInv
  <2>2. CASE ~seen'
    BY <1>1, <2>2 DEF SwapInv, UnsentInv
  <2>3. QED
    BY <2>1, <2>2
<1>12. PendingInv'
  BY <1>1, <1>2 DEF PendingInv, PairIsHeld
<1>13. QED
  BY <1>3, <1>4, <1>6, <1>7, <1>9, <1>10, <1>11, <1>12 DEF SwapInv

\* The chain mines the transaction whose turn it is.
LEMMA MineIs ==
  ASSUME SwapInv, NEW p \in Proposals, Mine(p)
  PROVE  /\ net[p] = "taken" /\ net'[p] \in {"mined", "reverted"}
         /\ net' \in [Proposals -> {"unsent", "taken", "mined", "reverted"}]
         /\ \A q \in Proposals : q # p => net'[q] = net[q]
         /\ \A q \in Proposals : net'[q] # "unsent" <=> net[q] # "unsent"
         /\ allowance' \in [0..MaxSwitches -> BOOLEAN]
         /\ gen' = gen /\ seen' = seen /\ alive' = alive /\ verdict' = verdict
         /\ recorded' = recorded /\ signatures' = signatures /\ body' = body
         /\ stage' = stage /\ draft' = draft /\ shown' = shown /\ pair' = pair
         /\ job' = job /\ reviews' = reviews
<1> DEFINE b == body[p]
<1>1. PICK fate \in {"mined", "reverted"} :
        /\ net' = [net EXCEPT ![p] = fate]
        /\ allowance' = [allowance EXCEPT ![b.gen] =
                           IF fate = "reverted" THEN @
                           ELSE b.kind = "approve" \/ (@ /\ ~b.sells)]
  BY DEF Mine
<1>2. net[p] = "taken"
  BY DEF Mine, Mineable
<1>3. /\ net \in [Proposals -> {"unsent", "taken", "mined", "reverted"}]
      /\ allowance \in [0..MaxSwitches -> BOOLEAN]
  BY DEF SwapInv, TypeOK
<1>4. allowance' \in [0..MaxSwitches -> BOOLEAN]
  <2> DEFINE v == IF fate = "reverted" THEN allowance[b.gen]
                  ELSE b.kind = "approve" \/ (allowance[b.gen] /\ ~b.sells)
  <2>1. verdict[p] # "none"
    BY <1>2 DEF SwapInv, BodyInv
  <2>2. b.gen \in 0..gen
    BY <2>1 DEF SwapInv, BodyInv
  <2>3. gen \in 0..MaxSwitches
    BY DEF SwapInv, TypeOK
  <2>4. b.gen \in 0..MaxSwitches
    BY <2>2, <2>3, SwapAssumption DEF SwapAssumption
  <2>5. allowance[b.gen] \in BOOLEAN
    BY <1>3, <2>4
  <2> DEFINE w == b.kind = "approve" \/ (allowance[b.gen] /\ ~b.sells)
  <2>6. w \in BOOLEAN
    OBVIOUS
  <2>7. v \in BOOLEAN
    <3>1. v = allowance[b.gen] \/ v = w
      OBVIOUS
    <3> HIDE DEF v, w
    <3>2. QED
      BY <2>5, <2>6, <3>1
  <2>8. allowance' = [allowance EXCEPT ![b.gen] = v]
    BY <1>1
  <2> HIDE DEF v, w, b
  <2>9. QED
    BY <1>3, <2>7, <2>8
<1>5. /\ gen' = gen /\ seen' = seen /\ alive' = alive /\ verdict' = verdict
      /\ recorded' = recorded /\ signatures' = signatures /\ body' = body
      /\ stage' = stage /\ draft' = draft /\ shown' = shown /\ pair' = pair
      /\ job' = job /\ reviews' = reviews
  BY DEF Mine, authority, screen
<1> HIDE DEF b
<1>6. /\ net'[p] = fate
      /\ net' \in [Proposals -> {"unsent", "taken", "mined", "reverted"}]
      /\ \A q \in Proposals : q # p => net'[q] = net[q]
  BY <1>1, <1>3
<1>7. QED
  BY <1>2, <1>4, <1>5, <1>6

LEMMA MineCounts ==
  ASSUME SwapInv, NEW p \in Proposals, Mine(p)
  PROVE  NonceInv'
<1>1. /\ net[p] = "taken" /\ net'[p] \in {"mined", "reverted"}
      /\ \A q \in Proposals : q # p => net'[q] = net[q]
      /\ \A q \in Proposals : net'[q] # "unsent" <=> net[q] # "unsent"
      /\ body' = body
  BY MineIs
<1> SUFFICES ASSUME NEW g \in 0..MaxSwitches
             PROVE  /\ \A q \in TakenFrom(g)' : body'[q].nonce < Cardinality(TakenFrom(g))'
                    /\ \A q \in SettledOf(g)' : body'[q].nonce < Cardinality(SettledOf(g))'
                    /\ \A q, r \in TakenFrom(g)' : body'[q].nonce = body'[r].nonce => q = r
                    /\ \A n \in Nat : n < Cardinality(SettledOf(g))' =>
                         \E q \in SettledOf(g)' : body'[q].nonce = n
  BY DEF NonceInv
<1>2. TakenFrom(g)' = TakenFrom(g)
  BY <1>1 DEF TakenFrom, Taken
<1>3. /\ \A q \in TakenFrom(g) : body[q].nonce < Cardinality(TakenFrom(g))
      /\ \A q \in SettledOf(g) : body[q].nonce < Cardinality(SettledOf(g))
      /\ \A q, r \in TakenFrom(g) : body[q].nonce = body[r].nonce => q = r
      /\ \A n \in Nat : n < Cardinality(SettledOf(g)) =>
           \E q \in SettledOf(g) : body[q].nonce = n
  BY DEF SwapInv, NonceInv
<1>4. CASE p \in TakenFrom(g)
  <2> DEFINE c == Cardinality(SettledOf(g))
  <2>1. body[p].nonce = c
    <3>1. body[p].lane = "evm" /\ body[p].gen = g
      BY <1>4 DEF TakenFrom
    <3>2. body[p].nonce = Cardinality({q \in TakenFrom(body[p].gen) : Settled(q)})
      BY <3>1 DEF Mine, Mineable
    <3>3. QED
      BY <3>1, <3>2 DEF SettledOf
  <2>2. SettledOf(g)' = SettledOf(g) \cup {p} /\ p \notin SettledOf(g)
    BY <1>1, <1>2, <1>4 DEF SettledOf, TakenFrom, Settled
  <2>3. Cardinality(SettledOf(g))' = c + 1 /\ c \in Nat
    BY <2>2, FiniteTaken, FS_AddElement
  <2>4. \A q \in SettledOf(g) : q \in Proposals /\ verdict[q] # "none"
    BY DEF SwapInv, BodyInv, SettledOf, TakenFrom, Taken
  <2>5. \A q \in SettledOf(g) : body[q].nonce \in Nat
    BY <2>4 DEF SwapInv, BodyInv
  <2> HIDE DEF c
  <2>6. \A q \in SettledOf(g)' : body'[q].nonce < c + 1
    <3> SUFFICES ASSUME NEW q \in SettledOf(g) \cup {p} PROVE body[q].nonce < c + 1
      BY <1>1, <2>2
    <3>1. CASE q = p
      BY <2>1, <2>3, <3>1
    <3>2. CASE q \in SettledOf(g)
      BY <1>3, <2>3, <2>5, <3>2 DEF c
    <3>3. QED
      BY <3>1, <3>2
  <2>7. \A n \in Nat : n < c + 1 => \E q \in SettledOf(g)' : body'[q].nonce = n
    <3> SUFFICES ASSUME NEW n \in Nat, n < c + 1
                 PROVE  \E q \in SettledOf(g) \cup {p} : body[q].nonce = n
      BY <1>1, <2>2
    <3>1. CASE n = c
      BY <2>1, <3>1
    <3>2. CASE n < c
      BY <1>3, <3>2 DEF c
    <3>3. QED
      BY <2>3, <3>1, <3>2
  <2>8. QED
    BY <1>1, <1>2, <1>3, <2>3, <2>6, <2>7
<1>5. CASE p \notin TakenFrom(g)
  <2>1. SettledOf(g)' = SettledOf(g)
    BY <1>1, <1>2, <1>5 DEF SettledOf, TakenFrom, Settled
  <2>2. QED
    BY <1>1, <1>2, <1>3, <2>1
<1>6. QED
  BY <1>4, <1>5

LEMMA MineKeeps ==
  ASSUME SwapInv, NEW p \in Proposals, Mine(p)
  PROVE  SwapInv'
<1>1. /\ net[p] = "taken" /\ net'[p] \in {"mined", "reverted"}
      /\ net' \in [Proposals -> {"unsent", "taken", "mined", "reverted"}]
      /\ \A q \in Proposals : q # p => net'[q] = net[q]
      /\ \A q \in Proposals : net'[q] # "unsent" <=> net[q] # "unsent"
      /\ allowance' \in [0..MaxSwitches -> BOOLEAN]
      /\ gen' = gen /\ seen' = seen /\ alive' = alive /\ verdict' = verdict
      /\ recorded' = recorded /\ signatures' = signatures /\ body' = body
      /\ stage' = stage /\ draft' = draft /\ shown' = shown /\ pair' = pair
      /\ job' = job /\ reviews' = reviews
  BY MineIs
<1>2. TypeOK'
  BY <1>1 DEF SwapInv, TypeOK
<1>3. (\A g : Steady(g)) /\ \A r : Gentle(r)
  BY <1>1 DEF SwapInv, BodyInv, Steady, Gentle
<1>4. \A s \in Slots : Delivers(s)' <=> Delivers(s)
  BY <1>1 DEF Delivers
<1>5. DeliveryInv' /\ ApartInv'
  <2>1. reviews' \in {reviews, reviews + 1}
    BY <1>1
  <2>2. QED
    BY <1>1, <1>3, <1>4, <2>1, PageIsSlot, DeliveriesStay, StayApart
<1>6. NextNonce' = NextNonce /\ Sol' = Sol
  BY <1>1, <1>3, SteadyCounts DEF Sol
<1>7. DraftInv' /\ PageInv' /\ HeldInv'
  BY <1>1, <1>4, <1>6, PageIsSlot DEF SwapInv, DraftInv, PageInv, HeldInv
<1>8. BodyInv'
  BY <1>1 DEF SwapInv, BodyInv
<1>9. UnsentInv' /\ PendingInv'
  BY <1>1, <1>6 DEF SwapInv, UnsentInv, PendingInv, PairIsHeld
<1>10. PairsInv' /\ SwapsOnce'
  BY <1>1 DEF SwapInv, PairsInv, InPair, SwapsOnce, Taken
<1>11. BothSignedFirst'
  BY <1>1 DEF SwapInv, BothSignedFirst, InPair, Taken
<1>12. QED
  BY <1>2, <1>5, <1>7, <1>8, <1>9, <1>10, <1>11, MineCounts DEF SwapInv

-----------------------------------------------------------------------------
(* The confirmation *)

\* In this step p is, or becomes, a transaction of what is on the screen.
Stands(p, kind, nonce) ==
  /\ p \in Proposals /\ verdict'[p] # "none"
  /\ body'[p].kind = kind /\ body'[p].review = draft.review
  /\ body'[p].figures = shown /\ body'[p].lane = "evm" /\ body'[p].gen = gen
  /\ body'[p].nonce = nonce

\* The proposals of S are new; the others stay as they are, but for verdicts.
Adds(S) ==
  \A q \in Proposals :
    IF q \in S
    THEN /\ verdict[q] = "none" /\ verdict'[q] # "none"
         /\ \A r \in Proposals : r < q => verdict'[r] # "none"
    ELSE /\ verdict[q] = "none" <=> verdict'[q] = "none"
         /\ body'[q] = body[q]

\* The transactions the two halves of a pair are.
LEMMA HalvesAre ==
  ASSUME ~Sol, TypeOK
  PROVE  /\ ApproveTx.kind = "approve" /\ SwapTx.kind = "swap"
         /\ ApproveTx.review = draft.review /\ SwapTx.review = draft.review
         /\ ApproveTx.figures = shown /\ SwapTx.figures = shown
         /\ ApproveTx.lane = "evm" /\ SwapTx.lane = "evm"
         /\ ApproveTx.gen = gen /\ SwapTx.gen = gen
         /\ ApproveTx.nonce = shown.nonce
         /\ SwapTx.nonce = shown.nonce + IF shown.need THEN 1 ELSE 0
BY DEF ApproveTx, SwapTx, Sol, TypeOK

\* What the page holds already stands.
LEMMA HeldStands ==
  ASSUME SwapInv, seen
  PROVE  /\ pair.approve \in Proposals \cup {0} /\ pair.swap \in Proposals \cup {0}
         /\ pair.approve # 0 =>
              /\ shown.need /\ verdict[pair.approve] # "none"
              /\ body[pair.approve].kind = "approve"
              /\ body[pair.approve].nonce = shown.nonce
         /\ pair.swap # 0 =>
              /\ shown.need => pair.approve # 0
              /\ verdict[pair.swap] # "none"
              /\ body[pair.swap].kind = "swap"
              /\ body[pair.swap].nonce = shown.nonce + IF shown.need THEN 1 ELSE 0
         /\ \A p \in {pair.approve, pair.swap} \ {0} :
              /\ body[p].review = draft.review /\ body[p].figures = shown
              /\ body[p].lane = "evm" /\ body[p].gen = gen
         /\ stage # "Form" /\ ~Sol => \A p \in Proposals :
              body[p].review = draft.review => p \in {pair.approve, pair.swap}
BY DEF SwapInv, HeldInv, TypeOK

\* After a confirmation the page holds a and s, of which those of new are new.
Confirms(a, s, new, good) ==
  /\ new \subseteq Proposals \cap {a, s}
  /\ new # {} => alive
  /\ Adds(new)
  /\ verdict' = [p \in Proposals |-> IF p \in new THEN "pending" ELSE verdict[p]]
  /\ DOMAIN body' = Proposals
  /\ Stands(s, "swap", shown.nonce + IF shown.need THEN 1 ELSE 0)
  /\ IF shown.need THEN a # s /\ Stands(a, "approve", shown.nonce) ELSE a = 0
  /\ pair.approve # 0 => a = pair.approve
  /\ pair.swap # 0 => s = pair.swap
  /\ pair' = [approve |-> a, swap |-> s]
  /\ job' = [job EXCEPT ![Page] = Deliver(IF shown.need THEN <<a, s>> ELSE <<s>>,
                                          "approve", good)]

LEMMA ConfirmPairIs ==
  ASSUME SwapInv, NEW good \in BOOLEAN, ConfirmPair(good)
  PROVE  \E a, s \in Proposals \cup {0} : \E new : Confirms(a, s, new, good)
<1>1. PICK a, s \in Proposals \cup {0} :
       LET new == ({a} \ {pair.approve}) \cup ({s} \ {pair.swap}) IN
       /\ IF pair.approve # 0 \/ ~shown.need THEN a = pair.approve
          ELSE a # 0 /\ Fresh(a)
       /\ IF pair.swap # 0 THEN s = pair.swap
          ELSE s # 0 /\ IF a \in new THEN s = a + 1 ELSE Fresh(s)
       /\ new # {} => alive
       /\ SubmitAll(new)
       /\ body' = [p \in Proposals |-> IF p \notin new THEN body[p]
                                       ELSE IF p = a THEN ApproveTx ELSE SwapTx]
       /\ pair' = [approve |-> a, swap |-> s]
       /\ job' = [job EXCEPT ![Page] =
                    Deliver(IF shown.need THEN <<a, s>> ELSE <<s>>,
                            "approve", good)]
  BY DEF ConfirmPair
<1> DEFINE new == ({a} \ {pair.approve}) \cup ({s} \ {pair.swap})
<1>2. /\ IF pair.approve # 0 \/ ~shown.need THEN a = pair.approve
         ELSE a # 0 /\ Fresh(a)
      /\ IF pair.swap # 0 THEN s = pair.swap
         ELSE s # 0 /\ IF a \in new THEN s = a + 1 ELSE Fresh(s)
      /\ new # {} => alive
      /\ verdict' = [p \in Proposals |-> IF p \in new THEN "pending" ELSE verdict[p]]
      /\ body' = [p \in Proposals |-> IF p \notin new THEN body[p]
                                      ELSE IF p = a THEN ApproveTx ELSE SwapTx]
      /\ pair' = [approve |-> a, swap |-> s]
      /\ job' = [job EXCEPT ![Page] =
                   Deliver(IF shown.need THEN <<a, s>> ELSE <<s>>, "approve", good)]
  BY <1>1 DEF SubmitAll
<1>3. seen /\ ~Sol /\ stage = "Review"
  BY DEF ConfirmPair, Confirmable
<1>4. /\ \A p \in Proposals : p \in Nat /\ p # 0
      /\ MaxProposals \in Nat /\ Proposals = 1..MaxProposals
  BY SwapAssumption DEF SwapAssumption, Proposals
<1>5. \A p, q \in Proposals : q < p /\ verdict[p] # "none" => verdict[q] # "none"
  BY DEF SwapInv, BodyInv
<1>6. \A p \in Proposals : Fresh(p) =>
        verdict[p] = "none" /\ \A q \in Proposals : q < p => verdict[q] # "none"
  BY <1>4 DEF Fresh
<1>7. \A p \in Proposals : p \in new => verdict'[p] = "pending"
  BY <1>2
<1>8. \A p \in Proposals : p \notin new => verdict'[p] = verdict[p] /\ body'[p] = body[p]
  BY <1>2
<1>9. new \subseteq {a, s} /\ (pair.approve # 0 => a = pair.approve)
      /\ (pair.swap # 0 => s = pair.swap)
  BY <1>2
<1>10. CASE ~shown.need
  <2>1. pair.approve = 0 /\ a = 0
    BY <1>2, <1>3, <1>10, HeldStands
  <2>2. a \notin new /\ s \in Proposals
    BY <1>2, <1>3, <1>4, <2>1, HeldStands
  <2>3. CASE pair.swap # 0
    <3>1. new = {}
      BY <1>2, <2>1, <2>3
    <3>2. Adds(new)
      BY <1>8, <3>1 DEF Adds
    <3>3. Stands(s, "swap", shown.nonce + IF shown.need THEN 1 ELSE 0)
      BY <1>2, <1>3, <1>8, <2>2, <2>3, <3>1, HeldStands DEF Stands
    <3>4. new \subseteq Proposals \cap {a, s} /\ DOMAIN body' = Proposals
      BY <1>2, <3>1
    <3> HIDE DEF new
    <3>5. QED
      BY <1>2, <1>9, <1>10, <2>1, <3>2, <3>3, <3>4 DEF Confirms
  <2>4. CASE pair.swap = 0
    <3>1. new = {s} /\ Fresh(s)
      BY <1>2, <2>1, <2>2, <2>4
    <3>2. body'[s] = SwapTx
      BY <1>2, <2>1, <2>2, <3>1
    <3>3. Adds(new)
      BY <1>6, <1>7, <1>8, <2>2, <3>1 DEF Adds
    <3>4. TypeOK
      BY DEF SwapInv
    <3>5. Stands(s, "swap", shown.nonce + IF shown.need THEN 1 ELSE 0)
      BY <1>3, <1>7, <2>2, <3>1, <3>2, <3>4, HalvesAre DEF Stands
    <3>6. new \subseteq Proposals \cap {a, s} /\ DOMAIN body' = Proposals
      BY <1>2, <2>2, <3>1
    <3> HIDE DEF new
    <3>7. QED
      BY <1>2, <1>9, <1>10, <2>1, <3>3, <3>5, <3>6 DEF Confirms
  <2>5. QED
    BY <2>3, <2>4
<1>11. CASE shown.need
  <2>1. a \in Proposals /\ s \in Proposals
    BY <1>2, <1>4, <1>11, HeldStands
  <2>2. CASE pair.swap # 0
    <3>1. pair.approve # 0 /\ a = pair.approve /\ s = pair.swap
      BY <1>2, <1>3, <1>11, <2>2, HeldStands
    <3>2. new = {} /\ a # s
      BY <1>3, <3>1, HeldStands
    <3>3. Adds(new)
      BY <1>8, <3>2 DEF Adds
    <3>4. Stands(s, "swap", shown.nonce + IF shown.need THEN 1 ELSE 0)
      BY <1>3, <1>8, <2>1, <2>2, <3>1, <3>2, HeldStands DEF Stands
    <3>5. Stands(a, "approve", shown.nonce)
      BY <1>3, <1>8, <2>1, <3>1, <3>2, HeldStands DEF Stands
    <3>6. new \subseteq Proposals \cap {a, s} /\ DOMAIN body' = Proposals
      BY <1>2, <3>2
    <3>7. a # s
      BY <3>2
    <3> HIDE DEF new
    <3>8. QED
      BY <1>2, <1>9, <1>11, <3>3, <3>4, <3>5, <3>6, <3>7 DEF Confirms
  <2>3. CASE pair.swap = 0 /\ pair.approve # 0
    <3>1. a = pair.approve /\ verdict[a] # "none"
      BY <1>2, <1>3, <2>3, HeldStands
    <3>2. s # a /\ a \notin new /\ new = {s} /\ Fresh(s)
      BY <1>2, <1>4, <1>6, <2>1, <2>3, <3>1
    <3>3. body'[s] = SwapTx
      BY <1>2, <2>1, <3>2
    <3>4. Adds(new)
      BY <1>6, <1>7, <1>8, <2>1, <3>2 DEF Adds
    <3>5. TypeOK
      BY DEF SwapInv
    <3>6. Stands(s, "swap", shown.nonce + IF shown.need THEN 1 ELSE 0)
      BY <1>3, <1>7, <2>1, <3>2, <3>3, <3>5, HalvesAre DEF Stands
    <3>7. Stands(a, "approve", shown.nonce)
      BY <1>3, <1>8, <2>1, <2>3, <3>1, <3>2, HeldStands DEF Stands
    <3>8. new \subseteq Proposals \cap {a, s} /\ DOMAIN body' = Proposals
      BY <1>2, <2>1, <3>2
    <3> HIDE DEF new
    <3>9. QED
      BY <1>2, <1>9, <1>11, <3>2, <3>4, <3>6, <3>7, <3>8, ZenonT(60) DEF Confirms
  <2>4. CASE pair.swap = 0 /\ pair.approve = 0
    <3>1. Fresh(a) /\ a \in new /\ s = a + 1 /\ new = {a, s} /\ a # s
      BY <1>2, <1>4, <1>11, <2>1, <2>4
    <3>2. verdict[s] = "none"
      BY <1>4, <1>5, <1>6, <2>1, <3>1
    <3>3. body'[a] = ApproveTx /\ body'[s] = SwapTx
      BY <1>2, <2>1, <3>1
    <3>4. Adds(new)
      <4>1. \A q \in Proposals : q < s => q = a \/ q < a
        BY <1>4, <2>1, <3>1
      <4>2. \A q \in Proposals : q < s => verdict'[q] # "none"
        BY <1>6, <1>7, <1>8, <2>1, <3>1, <4>1
      <4>3. \A q \in Proposals : q < a => verdict'[q] # "none"
        BY <1>6, <1>7, <1>8, <2>1, <3>1
      <4> HIDE DEF new
      <4>4. QED
        BY <1>6, <1>7, <1>8, <2>1, <3>1, <3>2, <4>2, <4>3 DEF Adds
    <3>5. TypeOK
      BY DEF SwapInv
    <3>6. Stands(s, "swap", shown.nonce + IF shown.need THEN 1 ELSE 0)
      BY <1>3, <1>7, <2>1, <3>1, <3>3, <3>5, HalvesAre DEF Stands
    <3>7. Stands(a, "approve", shown.nonce)
      BY <1>3, <1>7, <2>1, <3>1, <3>3, <3>5, HalvesAre DEF Stands
    <3>8. new \subseteq Proposals \cap {a, s} /\ DOMAIN body' = Proposals
      BY <1>2, <2>1, <3>1
    <3> HIDE DEF new
    <3>9. QED
      BY <1>2, <1>9, <1>11, <3>1, <3>4, <3>6, <3>7, <3>8, ZenonT(60) DEF Confirms
  <2>5. QED
    BY <2>2, <2>3, <2>4
<1>12. QED
  BY <1>10, <1>11

LEMMA DeliverIs ==
  ASSUME SwapInv, stage = "Review",
         NEW todo \in Seq(Proposals), NEW at \in {"build", "approve"}, NEW good \in BOOLEAN,
         NEW j, j = Deliver(todo, at, good)
  PROVE  /\ j \in Deliveries(j.click, j.swap)
         /\ j.at = at /\ j.step = 0 /\ j.todo = todo /\ j.i = 1 /\ j.review = draft.review
         /\ j.click = shown /\ j.gen = gen /\ j.swap = SwapTx
         /\ draft.review \in 1..reviews
<1>1. /\ reviews \in Nat /\ reviews <= MaxReviews /\ MaxReviews \in Nat
      /\ gen \in 0..MaxSwitches
  BY SwapAssumption DEF SwapAssumption, SwapInv, TypeOK
<1>2. draft.review \in 1..reviews /\ draft.review \in 1..MaxReviews
  BY <1>1 DEF SwapInv, DraftInv
<1>3. 0 \in 0..2 /\ 1 \in Nat /\ 0 \in Nat /\ at \in Ats
  BY DEF Ats
<1>4. QED
  BY <1>1, <1>2, <1>3 DEF Deliver, Deliveries

\* What a confirmation does to the proposals.
LEMMA ConfirmedIs ==
  ASSUME SwapInv, ~Sol, seen, stage = "Review", net' = net, draft' = draft, gen' = gen,
         NEW a \in Proposals \cup {0}, NEW s \in Proposals \cup {0}, NEW new, NEW good,
         Confirms(a, s, new, good)
  PROVE  /\ \A q \in Proposals : body'[q].review = draft.review =>
              /\ q \in {a, s} /\ net[q] = "unsent"
         /\ \A q \in Proposals : body'[q].review # draft.review =>
              /\ q \notin new /\ body'[q] = body[q]
              /\ verdict'[q] = verdict[q]
         /\ \A q \in Proposals :
              /\ verdict[q] # "none" => verdict'[q] # "none" /\ body'[q] = body[q]
              /\ verdict[q] = "none" =>
                   net[q] = "unsent" /\ (body'[q] = body[q] \/ body'[q].review = draft.review)
         /\ s \in Proposals /\ s # 0
<1>1. \A q \in Proposals : q # 0
  BY DEF Proposals
<1>2. \A q \in new : q \in Proposals /\ body'[q].review = draft.review /\ verdict[q] = "none"
  BY <1>1 DEF Confirms, Adds, Stands
<1>3. \A q \in Proposals : q \notin new => body'[q] = body[q] /\ verdict'[q] = verdict[q]
  BY DEF Confirms, Adds
<1>4. \A q \in Proposals : verdict[q] = "none" => net[q] = "unsent"
  BY DEF SwapInv, BodyInv
<1>5. \A q \in Proposals : body[q].review = draft.review =>
        q \in {pair.approve, pair.swap} /\ net[q] = "unsent"
  BY DEF SwapInv, HeldInv, UnsentInv
<1>6. ASSUME NEW q \in Proposals, body'[q].review = draft.review
      PROVE  q \in {a, s} /\ net[q] = "unsent"
  <2>1. CASE q \in new
    BY <1>2, <1>4, <2>1 DEF Confirms
  <2>2. CASE q \notin new
    BY <1>1, <1>3, <1>5, <1>6, <2>2 DEF Confirms
  <2>3. QED
    BY <2>1, <2>2
<1>7. \A q \in Proposals : verdict[q] # "none" => verdict'[q] # "none"
  BY <1>2, <1>3
<1>8. s \in Proposals
  BY DEF Confirms, Stands
<1>9. QED
  BY <1>1, <1>2, <1>3, <1>4, <1>6, <1>7, <1>8

\* The chain's part of the invariant under a confirmation.
LEMMA ConfirmedChain ==
  ASSUME SwapInv, ~Sol, seen, stage = "Review", net' = net, draft' = draft, gen' = gen,
         reviews' = reviews, signatures' = signatures,
         NEW a \in Proposals \cup {0}, NEW s \in Proposals \cup {0}, NEW new, NEW good,
         Confirms(a, s, new, good)
  PROVE  /\ \A g : Steady(g)
         /\ BodyInv' /\ PairsInv' /\ NonceInv' /\ SwapsOnce' /\ BothSignedFirst'
<1>1. (\A g : Steady(g)) /\ NonceInv' /\ SwapsOnce' /\ BothSignedFirst'
  <2>1. \A q \in Proposals :
           /\ verdict[q] # "none" => verdict'[q] # "none" /\ body'[q] = body[q]
           /\ signatures[q] = 1 => signatures'[q] = 1
    BY ConfirmedIs
  <2>2. QED
    BY <2>1, NothingSent
<1>2. /\ gen \in Nat /\ reviews \in Nat /\ draft.review \in 1..reviews /\ shown.nonce \in Nat
      /\ shown.nonce + 1 \in Nat
  BY SwapAssumption DEF SwapAssumption, SwapInv, TypeOK, DraftInv
<1>3. BodyInv'
  <2> SUFFICES ASSUME NEW p \in Proposals
               PROVE  /\ verdict'[p] = "none" => body'[p] = NoBody /\ net'[p] = "unsent"
                      /\ verdict'[p] # "none" =>
                           /\ body'[p].review \in 1..reviews' /\ body'[p].gen \in 0..gen'
                           /\ body'[p].kind \in {"approve", "swap"}
                           /\ body'[p].lane \in {"evm", "sol"}
                           /\ body'[p].kind = "approve" => body'[p].lane = "evm"
                           /\ body'[p].nonce \in Nat
                           /\ \A q \in Proposals : q < p => verdict'[q] # "none"
                      /\ signatures'[p] = 1 => verdict'[p] = "approved"
    BY DEF BodyInv
  <2>1. CASE p \in new
    <3>1. /\ \E k \in {"approve", "swap"} : \E n \in {shown.nonce, shown.nonce + 1} :
               Stands(p, k, n)
      BY <1>2, <2>1 DEF Confirms, Proposals
    <3>2. /\ body'[p].review \in 1..reviews' /\ body'[p].gen \in 0..gen'
          /\ body'[p].kind \in {"approve", "swap"} /\ body'[p].lane = "evm"
          /\ body'[p].nonce \in Nat
      BY <1>2, <3>1 DEF Stands
    <3>3. verdict[p] = "none" /\ verdict'[p] # "none"
          /\ \A q \in Proposals : q < p => verdict'[q] # "none"
      BY <2>1 DEF Confirms, Adds
    <3>4. signatures'[p] # 1
      BY <3>3 DEF SwapInv, BodyInv
    <3>5. QED
      BY <3>2, <3>3, <3>4
  <2>2. CASE p \notin new
    <3>1. verdict'[p] = verdict[p] /\ body'[p] = body[p]
      BY <2>2 DEF Confirms, Adds
    <3>2. \A q \in Proposals : verdict[q] # "none" => verdict'[q] # "none"
      BY ConfirmedIs
    <3>3. QED
      BY <3>1, <3>2 DEF SwapInv, BodyInv
  <2>3. QED
    BY <2>1, <2>2
<1>4. PairsInv'
  <2> SUFFICES ASSUME NEW x \in Proposals, NEW y \in Proposals, InPair(x, y)'
               PROVE  /\ body'[y].lane = "evm" /\ body'[y].gen = body'[x].gen
                      /\ body'[y].nonce = body'[x].nonce + 1
                      /\ net'[y] # "unsent" => net'[x] # "unsent"
    BY DEF PairsInv, Taken
  <2>1. /\ body'[x].kind = "approve" /\ body'[y].kind = "swap"
        /\ body'[x].review = body'[y].review
    BY DEF InPair
  <2>2. CASE body'[x].review = draft.review
    <3>1. x \in {a, s} /\ y \in {a, s} /\ net[y] = "unsent"
      BY <2>1, <2>2, ConfirmedIs, ZenonT(60)
    <3>2. shown.need /\ x = a /\ y = s
      BY <2>1, <3>1 DEF Confirms, Stands, Proposals
    <3>3. QED
      BY <1>2, <3>1, <3>2 DEF Confirms, Stands
  <2>3. CASE body'[x].review # draft.review
    <3>1. body'[x] = body[x] /\ body'[y] = body[y]
      BY <2>1, <2>3, ConfirmedIs
    <3>2. InPair(x, y)
      BY <2>1, <3>1 DEF InPair
    <3>3. QED
      BY <3>1, <3>2 DEF SwapInv, PairsInv, Taken
  <2>4. QED
    BY <2>2, <2>3
<1>5. QED
  BY <1>1, <1>3, <1>4

LEMMA ConfirmPairKeeps ==
  ASSUME SwapInv, NEW good \in BOOLEAN, ConfirmPair(good)
  PROVE  SwapInv'
<1>1. /\ stage = "Review" /\ stage' = "Delivering" /\ seen /\ ~Sol /\ job[Page].at = "none"
      /\ gen' = gen /\ seen' = seen /\ alive' = alive /\ draft' = draft /\ shown' = shown
      /\ net' = net /\ allowance' = allowance /\ reviews' = reviews
      /\ recorded' = recorded /\ signatures' = signatures
  BY DEF ConfirmPair, Confirmable, Idle, NoJob
<1>2. PICK a, s \in Proposals \cup {0} : \E new : Confirms(a, s, new, good)
  BY ConfirmPairIs
<1>3. PICK new : Confirms(a, s, new, good)
  BY <1>2
<1>4. /\ \A q \in Proposals : body'[q].review = draft.review =>
           /\ q \in {a, s} /\ net[q] = "unsent"
      /\ \A q \in Proposals : body'[q].review # draft.review =>
           /\ q \notin new /\ body'[q] = body[q]
           /\ verdict'[q] = verdict[q]
      /\ \A q \in Proposals :
           /\ verdict[q] # "none" => verdict'[q] # "none" /\ body'[q] = body[q]
           /\ verdict[q] = "none" =>
                net[q] = "unsent" /\ (body'[q] = body[q] \/ body'[q].review = draft.review)
      /\ s \in Proposals /\ s # 0
  BY <1>1, <1>3, ConfirmedIs
<1>5. /\ \A g : Steady(g)
      /\ BodyInv' /\ PairsInv' /\ NonceInv' /\ SwapsOnce' /\ BothSignedFirst'
  BY <1>1, <1>3, ConfirmedChain
<1>6. /\ NextNonce' = NextNonce /\ Sol' = Sol
  BY <1>1, <1>5, SteadyCounts DEF Sol
<1> DEFINE todo == IF shown.need THEN <<a, s>> ELSE <<s>>
           n == Len(todo)
<1>7. /\ todo \in Seq(Proposals) /\ n = (IF shown.need THEN 2 ELSE 1)
      /\ \A k \in 1..n : todo[k] = IF k = n THEN s ELSE a
      /\ todo[1] = IF shown.need THEN a ELSE s
  <2>1. CASE shown.need
    <3>1. a \in Proposals
      BY <1>3, <2>1 DEF Confirms, Stands
    <3>2. 1..2 = {1, 2}
      OBVIOUS
    <3>3. QED
      BY <1>4, <2>1, <3>1, <3>2
  <2>2. CASE ~shown.need
    <3>1. 1..1 = {1}
      OBVIOUS
    <3>2. QED
      BY <1>4, <2>2, <3>1
  <2>3. QED
    BY <2>1, <2>2
<1>8. PICK j : j = Deliver(todo, "approve", good)
  OBVIOUS
<1>9. job'[Page] = j /\ OthersStay
  BY <1>3, <1>8, PageIsSlot DEF Confirms, OthersStay, SwapInv, TypeOK
<1> HIDE DEF todo
<1>10. /\ j \in Deliveries(j.click, j.swap)
       /\ j.at = "approve" /\ j.step = 0 /\ j.todo = todo /\ j.i = 1
       /\ j.review = draft.review /\ j.click = shown /\ j.gen = gen
       /\ draft.review \in 1..reviews
  BY <1>1, <1>7, <1>8, DeliverIs
<1>11. TypeOK'
  <2>1. verdict' \in [Proposals -> Authority!Verdicts]
    BY <1>3 DEF Confirms, SwapInv, TypeOK, Authority!Verdicts
  <2>2. pair' \in [approve : Proposals \cup {0}, swap : Proposals \cup {0}]
    BY <1>3 DEF Confirms
  <2>3. QED
    BY <1>1, <1>3, <1>9, <1>10, <2>1, <2>2
       DEF Confirms, OthersStay, SwapInv, TypeOK, Stages, Threads
<1>12. /\ Delivers(Page)'
       /\ \A t \in Slots : t # Page /\ Delivers(t)' => Delivers(t) /\ job'[t] = job[t]
       /\ \A t \in Slots : t # Page /\ Delivers(t) =>
            job[t].review # draft.review /\ job[t].gen < gen
  BY <1>1, <1>9, <1>10 DEF OthersStay, Delivers, SwapInv, ApartInv
<1>13. pair'.approve = a /\ pair'.swap = s
  BY <1>3 DEF Confirms
<1>14. DraftInv' /\ PageInv'
  <2>1. todo = IF shown.need THEN <<a, s>> ELSE <<s>>
    BY DEF todo
  <2>2. QED
    BY <1>1, <1>6, <1>9, <1>10, <1>12, <1>13, <2>1 DEF SwapInv, DraftInv, PageInv
<1>15. HeldInv'
  <2>1. a # 0 => shown.need /\ Stands(a, "approve", shown.nonce)
    BY <1>3 DEF Confirms
  <2>2. Stands(s, "swap", shown.nonce + IF shown.need THEN 1 ELSE 0)
    BY <1>3 DEF Confirms
  <2>3. shown.need => a # 0
    BY <1>3 DEF Confirms, Stands, Proposals
  <2>4. QED
    BY <1>1, <1>4, <1>6, <1>13, <2>1, <2>2, <2>3 DEF HeldInv, Stands
<1>16. Asks(Page)'
  <2>1. n \in 0..2 /\ 1 \in 1..n
    BY <1>7
  <2>2. \A k \in 1..n :
          /\ verdict'[todo[k]] # "none" /\ body'[todo[k]].review = draft.review
          /\ body'[todo[k]].gen = gen /\ body'[todo[k]].figures = shown
          /\ body'[todo[k]].kind = IF k = n THEN "swap" ELSE "approve"
    <3> SUFFICES ASSUME NEW k \in 1..n
                 PROVE  /\ verdict'[todo[k]] # "none" /\ body'[todo[k]].review = draft.review
                        /\ body'[todo[k]].gen = gen /\ body'[todo[k]].figures = shown
                        /\ body'[todo[k]].kind = IF k = n THEN "swap" ELSE "approve"
      OBVIOUS
    <3>1. CASE k = n
      BY <1>3, <1>7, <3>1 DEF Confirms, Stands
    <3>2. CASE k # n
      <4>1. shown.need /\ todo[k] = a
        BY <1>7, <3>2
      <4>2. QED
        BY <1>3, <3>2, <4>1 DEF Confirms, Stands
    <3>3. QED
      BY <3>1, <3>2
  <2>3. n = 2 => /\ body'[todo[1]].lane = "evm" /\ body'[todo[2]].lane = "evm"
                 /\ body'[todo[2]].nonce = body'[todo[1]].nonce + 1
    <3>1. n = 2 => shown.need /\ todo[1] = a /\ todo[2] = s
      BY <1>7
    <3>2. QED
      BY <1>3, <3>1 DEF Confirms, Stands
  <2>4. \A q \in Proposals : body'[q].review = draft.review /\ body'[q].kind = "approve" =>
          n = 2 /\ q = todo[1]
    <3>1. \A q \in Proposals : q # 0
      BY DEF Proposals
    <3>2. QED
      BY <1>3, <1>4, <1>7, <3>1 DEF Confirms, Stands
  <2>5. /\ job'[Page].todo = todo /\ job'[Page].i = 1 /\ job'[Page].at = "approve"
        /\ job'[Page].review = draft.review /\ job'[Page].gen = gen
        /\ job'[Page].click = shown
    BY <1>9, <1>10
  <2>6. Len(job'[Page].todo) = n
    BY <2>5
  <2> HIDE DEF n
  <2>7. QED
    BY <2>1, <2>2, <2>3, <2>4, <2>5, <2>6 DEF Asks
<1>17. Builds(Page)' /\ Marks(Page)'
  <2>1. ~\E k \in 1..n : k < 1
    BY <1>7
  <2>2. QED
    BY <1>9, <1>10, <2>1 DEF Builds, Marks
<1>18. Sends(Page)'
  <2>1. \A k \in 1..n : body'[todo[k]].review = draft.review /\ todo[k] \in Proposals
    BY <1>9, <1>10, <1>16, <1>7 DEF Asks
  <2>2. \A k \in 1..n : net'[todo[k]] = "unsent"
    BY <1>1, <1>4, <2>1
  <2>3. \A q \in Proposals : body'[q].review = draft.review => net'[q] = "unsent"
    BY <1>1, <1>4
  <2>4. QED
    BY <1>9, <1>10, <2>2, <2>3 DEF Sends
<1>19. Counts(Page)'
  <2>1. shown.nonce = NextNonce
    BY <1>1 DEF SwapInv, UnsentInv
  <2>2. TakenFrom(j.gen)' = TakenFrom(gen)
    BY <1>1, <1>5, <1>10 DEF Steady, TakenFrom, Taken
  <2>3. TakenFrom(job[Page].gen)' = TakenFrom(gen)
    BY <1>5, <1>9, <1>10 DEF Steady, TakenFrom, Taken
  <2>4. body'[todo[1]].nonce = Cardinality(TakenFrom(gen))
    <3>1. shown.nonce + 0 = shown.nonce
      BY <1>1 DEF SwapInv, DraftInv
    <3>2. QED
      BY <1>3, <1>7, <2>1, <3>1 DEF Confirms, Stands, NextNonce
  <2>5. QED
    BY <1>9, <1>10, <2>3, <2>4 DEF Counts
<1>20. DeliveryInv'
  <2>1. ASSUME NEW t \in Slots, t # Page, Delivers(t) PROVE Gentle(job[t].review)
    BY <1>1, <1>4, <1>12, <2>1 DEF Gentle
  <2>2. QED
    BY <1>5, <1>9, <1>10, <1>12, <1>16, <1>17, <1>18, <1>19, <2>1, DeliveryStays
       DEF DeliveryInv
<1>21. ApartInv'
  <2>1. gen \in Nat
    BY SwapAssumption DEF SwapAssumption, SwapInv, TypeOK
  <2>2. \A t \in Slots : t # Page /\ Delivers(t) => job[t].gen # gen
    <3> SUFFICES ASSUME NEW t \in Slots, t # Page, Delivers(t), job[t].gen = gen PROVE FALSE
      OBVIOUS
    <3>1. gen < gen
      BY <1>12
    <3>2. QED
      BY <2>1, <3>1
  <2>3. QED
    BY <1>1, <1>9, <1>10, <1>12, <2>2 DEF SwapInv, ApartInv
<1>22. UnsentInv'
  BY <1>1, <1>6 DEF SwapInv, UnsentInv
<1>23. PendingInv'
  <2>1. \A q \in Proposals : q # 0
    BY DEF Proposals
  <2>2. \A q \in Proposals : q \in new => q \in {a, s}
    BY <1>3 DEF Confirms
  <2>3. \A q \in Proposals : q \notin new => verdict'[q] = verdict[q] /\ body'[q] = body[q]
    BY <1>3 DEF Confirms, Adds
  <2>4. \A q \in {pair.approve, pair.swap} \ {0} : q \in {a, s}
    BY <1>3 DEF Confirms
  <2>5. PairIsHeld'
    <3> SUFFICES ASSUME NEW q \in Proposals, verdict'[q] = "pending", alive
                 PROVE  q \in {a, s} \/ body'[q].lane = "sol"
      BY <1>1, <1>13 DEF PairIsHeld
    <3>1. CASE q \in new
      BY <2>2, <3>1
    <3>2. CASE q \notin new
      BY <2>1, <2>3, <2>4, <3>2 DEF SwapInv, PendingInv, PairIsHeld
    <3>3. QED
      BY <3>1, <3>2
  <2>6. ~alive => \A q \in Proposals : verdict'[q] # "pending"
    BY <1>3, <2>3 DEF Confirms, SwapInv, PendingInv
  <2>7. QED
    BY <1>1, <2>5, <2>6 DEF PendingInv
<1>24. QED
  BY <1>5, <1>11, <1>14, <1>15, <1>20, <1>21, <1>22, <1>23 DEF SwapInv

\* Half a confirmation: the approval is proposed, then the child dies.
LEMMA ConfirmHalfIs ==
  ASSUME SwapInv, ConfirmHalf
  PROVE  /\ stage = "Review" /\ seen /\ ~Sol /\ job[Page].at = "none" /\ shown.need
         /\ pair = NoPair /\ ~alive' /\ alive' = FALSE
         /\ gen' = gen /\ seen' = seen /\ stage' = stage /\ draft' = draft
         /\ shown' = shown /\ job' = job /\ net' = net /\ allowance' = allowance
         /\ reviews' = reviews /\ recorded' = recorded /\ signatures' = signatures
         /\ verdict' \in [Proposals -> Authority!Verdicts] /\ DOMAIN body' = Proposals
         /\ \A q \in Proposals : verdict'[q] # "pending"
         /\ \E a \in Proposals :
              /\ pair' = [approve |-> a, swap |-> 0]
              /\ Adds({a}) /\ Stands(a, "approve", shown.nonce)
              /\ \A q \in Proposals : signatures[q] = 1 => q # a /\ verdict'[q] = verdict[q]
<1>1. /\ stage = "Review" /\ seen /\ ~Sol /\ job[Page].at = "none" /\ shown.need
      /\ pair = NoPair /\ ~alive' /\ alive' = FALSE
      /\ gen' = gen /\ seen' = seen /\ stage' = stage /\ draft' = draft
      /\ shown' = shown /\ job' = job /\ net' = net /\ allowance' = allowance
      /\ reviews' = reviews
  BY DEF ConfirmHalf, Confirmable, Idle, NoJob
<1>2. PICK a \in Proposals :
       /\ Fresh(a)
       /\ body' = [body EXCEPT ![a] = ApproveTx]
       /\ pair' = [pair EXCEPT !.approve = a]
       /\ Authority!Lose(Unfinished \cup {a})
  BY DEF ConfirmHalf
<1>3. /\ verdict' = [p \in Proposals |-> IF p \in Unfinished \cup {a} THEN "lost" ELSE verdict[p]]
      /\ recorded' = recorded /\ signatures' = signatures
  BY <1>2 DEF Authority!Lose
<1>4. /\ verdict \in [Proposals -> Authority!Verdicts] /\ DOMAIN body = Proposals /\ TypeOK
  BY DEF SwapInv, TypeOK
<1>5. /\ verdict' \in [Proposals -> Authority!Verdicts]
      /\ verdict'[a] = "lost"
      /\ \A q \in Proposals : /\ verdict'[q] # "pending"
                              /\ q # a => (verdict'[q] = "none" <=> verdict[q] = "none")
  BY <1>3, <1>4 DEF Authority!Verdicts, Unfinished
<1>6. /\ DOMAIN body' = Proposals /\ body'[a] = ApproveTx
      /\ \A q \in Proposals : q # a => body'[q] = body[q]
  BY <1>2, <1>4
<1>7. /\ verdict[a] = "none"
      /\ \A q \in Proposals : q < a => verdict[q] # "none" /\ q # a
  BY <1>2, SwapAssumption DEF SwapAssumption, Fresh, Proposals
<1>8. Adds({a})
  BY <1>5, <1>6, <1>7 DEF Adds
<1>9. Stands(a, "approve", shown.nonce)
  BY <1>1, <1>4, <1>5, <1>6, HalvesAre DEF Stands
<1>10. pair' = [approve |-> a, swap |-> 0]
  BY <1>1, <1>2 DEF NoPair
<1>11. \A q \in Proposals : signatures[q] = 1 => q # a /\ verdict'[q] = verdict[q]
  <2>1. \A q \in Proposals : signatures[q] = 1 => verdict[q] = "approved"
    BY DEF SwapInv, BodyInv
  <2>2. \A q \in Proposals : signatures[q] = 1 => q # a /\ q \notin Unfinished
    BY <1>7, <2>1 DEF Unfinished
  <2>3. QED
    BY <1>3, <2>2
<1>12. QED
  BY <1>1, <1>3, <1>5, <1>6, <1>8, <1>9, <1>10, <1>11

LEMMA ConfirmHalfKeeps ==
  ASSUME SwapInv, ConfirmHalf
  PROVE  SwapInv'
<1>1. /\ stage = "Review" /\ seen /\ ~Sol /\ job[Page].at = "none" /\ shown.need
      /\ pair = NoPair /\ ~alive' /\ alive' = FALSE
      /\ gen' = gen /\ seen' = seen /\ stage' = stage /\ draft' = draft
      /\ shown' = shown /\ job' = job /\ net' = net /\ allowance' = allowance
      /\ reviews' = reviews /\ recorded' = recorded /\ signatures' = signatures
      /\ verdict' \in [Proposals -> Authority!Verdicts] /\ DOMAIN body' = Proposals
      /\ \A q \in Proposals : verdict'[q] # "pending"
  BY ConfirmHalfIs
<1>2. PICK a \in Proposals :
        /\ pair' = [approve |-> a, swap |-> 0]
        /\ Adds({a}) /\ Stands(a, "approve", shown.nonce)
        /\ \A q \in Proposals : signatures[q] = 1 => q # a /\ verdict'[q] = verdict[q]
  BY ConfirmHalfIs
<1>3. /\ \A q \in Proposals : q # 0
      /\ pair'.approve = a /\ pair'.swap = 0 /\ pair.approve = 0 /\ pair.swap = 0
  BY <1>1, <1>2 DEF Proposals, NoPair
<1>4. \A q \in Proposals :
        /\ body[q].review # draft.review
        /\ q # a => body'[q] = body[q]
        /\ q # a => (verdict[q] = "none" <=> verdict'[q] = "none")
        /\ verdict[q] # "none" => verdict'[q] # "none" /\ body'[q] = body[q]
  BY <1>1, <1>2, <1>3 DEF Adds, SwapInv, HeldInv
<1>5. /\ verdict[a] = "none" /\ net[a] = "unsent" /\ verdict'[a] # "none"
      /\ body'[a].review = draft.review /\ body'[a].kind = "approve"
      /\ \A r \in Proposals : r < a => verdict'[r] # "none"
  BY <1>2 DEF Adds, Stands, SwapInv, BodyInv
<1>6. (\A g : Steady(g)) /\ NonceInv' /\ SwapsOnce' /\ BothSignedFirst'
  <2>1. \A q \in Proposals :
           /\ verdict[q] # "none" => verdict'[q] # "none" /\ body'[q] = body[q]
           /\ signatures[q] = 1 => signatures'[q] = 1
    BY <1>1, <1>4
  <2>2. QED
    BY <1>1, <2>1, NothingSent
<1>7. NextNonce' = NextNonce /\ Sol' = Sol
  BY <1>1, <1>6, SteadyCounts DEF Sol
<1>8. /\ gen \in Nat /\ reviews \in Nat /\ draft.review \in 1..reviews /\ shown.nonce \in Nat
  BY <1>1, SwapAssumption DEF SwapAssumption, SwapInv, TypeOK, DraftInv
<1>9. TypeOK'
  BY <1>1, <1>2 DEF SwapInv, TypeOK
<1>10. \A t \in Slots : Delivers(t)' <=> t # Page /\ Delivers(t)
  BY <1>1 DEF Delivers
<1>11. DraftInv' /\ PageInv'
  BY <1>1, <1>10, PageIsSlot DEF SwapInv, DraftInv, PageInv
<1>12. HeldInv'
  BY <1>1, <1>2, <1>3, <1>4, <1>7 DEF HeldInv, Stands
<1>13. BodyInv'
  <2> SUFFICES ASSUME NEW p \in Proposals
               PROVE  /\ verdict'[p] = "none" => body'[p] = NoBody /\ net'[p] = "unsent"
                      /\ verdict'[p] # "none" =>
                           /\ body'[p].review \in 1..reviews' /\ body'[p].gen \in 0..gen'
                           /\ body'[p].kind \in {"approve", "swap"}
                           /\ body'[p].lane \in {"evm", "sol"}
                           /\ body'[p].kind = "approve" => body'[p].lane = "evm"
                           /\ body'[p].nonce \in Nat
                           /\ \A q \in Proposals : q < p => verdict'[q] # "none"
                      /\ signatures'[p] = 1 => verdict'[p] = "approved"
    BY DEF BodyInv
  <2>1. signatures'[p] = 1 => verdict'[p] = "approved"
    BY <1>1, <1>2 DEF SwapInv, BodyInv
  <2>2. CASE p = a
    BY <1>1, <1>2, <1>5, <1>8, <2>1, <2>2 DEF Stands
  <2>3. CASE p # a
    BY <1>1, <1>4, <2>1, <2>3 DEF SwapInv, BodyInv
  <2>4. QED
    BY <2>2, <2>3
<1>14. DeliveryInv'
  <2>1. ASSUME NEW t \in Slots, t # Page, Delivers(t) PROVE Gentle(job[t].review)
    <3>1. job[t].review # draft.review
      BY <2>1 DEF SwapInv, ApartInv
    <3>2. \A q \in Proposals : verdict[q] = "none" => net[q] = "unsent"
      BY DEF SwapInv, BodyInv
    <3>3. QED
      BY <1>1, <1>4, <1>5, <3>1, <3>2 DEF Gentle
  <2>2. QED
    BY <1>1, <1>6, <1>10, <2>1, DeliveryStays DEF DeliveryInv
<1>15. ApartInv'
  BY <1>1, <1>10, PageIsSlot DEF SwapInv, ApartInv
<1>16. UnsentInv'
  BY <1>1, <1>4, <1>5, <1>7 DEF SwapInv, UnsentInv
<1>17. PendingInv'
  BY <1>1 DEF PendingInv, PairIsHeld
<1>18. PairsInv'
  <2> SUFFICES ASSUME NEW x \in Proposals, NEW y \in Proposals, InPair(x, y)'
               PROVE  /\ body'[y].lane = "evm" /\ body'[y].gen = body'[x].gen
                      /\ body'[y].nonce = body'[x].nonce + 1
                      /\ net'[y] # "unsent" => net'[x] # "unsent"
    BY DEF PairsInv, Taken
  <2>1. /\ body'[x].kind = "approve" /\ body'[y].kind = "swap"
        /\ body'[x].review = body'[y].review
    BY DEF InPair
  <2>2. y # a
    BY <1>5, <2>1
  <2>3. x # a
    BY <1>4, <1>5, <2>1, <2>2
  <2>4. InPair(x, y)
    BY <1>4, <2>1, <2>2, <2>3 DEF InPair
  <2>5. QED
    BY <1>1, <1>4, <2>2, <2>3, <2>4 DEF SwapInv, PairsInv, Taken
<1>19. QED
  BY <1>6, <1>9, <1>11, <1>12, <1>13, <1>14, <1>15, <1>16, <1>17, <1>18 DEF SwapInv

LEMMA ConfirmSolKeeps ==
  ASSUME SwapInv, NEW good \in BOOLEAN, ConfirmSol(good)
  PROVE  SwapInv'
<1>1. /\ stage = "Review" /\ stage' = "Delivering" /\ seen /\ Sol /\ job[Page].at = "none"
      /\ gen' = gen /\ seen' = seen /\ alive' = alive /\ draft' = draft /\ shown' = shown
      /\ pair' = pair /\ body' = body /\ verdict' = verdict
      /\ net' = net /\ allowance' = allowance /\ reviews' = reviews
      /\ recorded' = recorded /\ signatures' = signatures
  BY DEF ConfirmSol, Confirmable, Idle, NoJob, authority, screen
<1>2. PICK j : j = Deliver(<<>>, "build", good)
  OBVIOUS
<1>3. job'[Page] = j /\ OthersStay
  BY <1>2, PageIsSlot DEF ConfirmSol, OthersStay, SwapInv, TypeOK
<1>4. /\ j \in Deliveries(j.click, j.swap)
      /\ j.at = "build" /\ j.step = 0 /\ j.todo = <<>> /\ j.i = 1
      /\ j.review = draft.review /\ j.click = shown /\ j.gen = gen /\ j.swap = SwapTx
      /\ draft.review \in 1..reviews
  <2>1. PICK todo \in Seq(Proposals) : todo = <<>>
    BY EmptySeq
  <2>2. j = Deliver(todo, "build", good)
    BY <1>2, <2>1
  <2>3. /\ j \in Deliveries(j.click, j.swap)
        /\ j.at = "build" /\ j.step = 0 /\ j.todo = todo /\ j.i = 1
        /\ j.review = draft.review /\ j.click = shown /\ j.gen = gen /\ j.swap = SwapTx
        /\ draft.review \in 1..reviews
    BY <1>1, <2>2, DeliverIs
  <2>4. QED
    BY <2>1, <2>3
<1>5. \A q \in Proposals :
           /\ verdict[q] = "none" <=> verdict'[q] = "none"
           /\ signatures[q] = 1 => signatures'[q] = 1
           /\ signatures'[q] = 1 => verdict'[q] = "approved"
  BY <1>1, AuthorityStays
<1>6. /\ \A g : Steady(g)
      /\ \A r : Gentle(r)
      /\ BodyInv' /\ PairsInv' /\ NonceInv' /\ SwapsOnce' /\ BothSignedFirst'
  BY <1>1, <1>5, NothingProposed
<1>7. NextNonce' = NextNonce /\ PairIsHeld' /\ Sol' = Sol
  BY <1>1, FiguresStay
<1>8. TypeOK'
  BY <1>1, <1>3, <1>4 DEF OthersStay, SwapInv, TypeOK, Stages, Threads
<1>9. /\ Delivers(Page)'
      /\ \A t \in Slots : t # Page /\ Delivers(t)' => Delivers(t) /\ job'[t] = job[t]
      /\ \A t \in Slots : t # Page /\ Delivers(t) =>
           job[t].review # draft.review /\ job[t].gen < gen
  BY <1>1, <1>3, <1>4 DEF OthersStay, Delivers, SwapInv, ApartInv
<1>10. DraftInv' /\ PageInv' /\ HeldInv'
  BY <1>1, <1>3, <1>4, <1>7, <1>9 DEF SwapInv, DraftInv, PageInv, HeldInv
<1>11. Len(<<>>) = 0 /\ ~\E k \in 1..0 : TRUE
  OBVIOUS
<1>12. Asks(Page)'
  <2>1. \A q \in Proposals : body[q].review = draft.review => body[q].kind = "swap"
    BY <1>1 DEF SwapInv, HeldInv
  <2>2. /\ job'[Page].todo = <<>> /\ job'[Page].at = "build"
        /\ job'[Page].review = draft.review
    BY <1>3, <1>4
  <2>3. 0 \in 0..2
    OBVIOUS
  <2>4. QED
    BY <1>1, <1>11, <2>1, <2>2, <2>3 DEF Asks
<1>13. Builds(Page)'
  <2>1. shown.nonce \in Nat /\ shown.nonce + 1 \in Nat /\ shown.nonce + 0 \in Nat
    BY <1>1 DEF SwapInv, DraftInv
  <2>2. /\ SwapTx.review = draft.review /\ SwapTx.gen = gen /\ SwapTx.kind = "swap"
        /\ SwapTx.lane = "sol" /\ SwapTx.figures = shown /\ SwapTx.nonce \in Nat
    BY <1>1, <2>1 DEF SwapTx, Sol
  <2>3. QED
    BY <1>1, <1>3, <1>4, <1>7, <2>2 DEF Builds
<1>14. Marks(Page)' /\ Counts(Page)'
  BY <1>3, <1>4, <1>11 DEF Marks, Counts
<1>15. Sends(Page)'
  <2>1. \A q \in Proposals : body'[q].review = draft.review => net'[q] = "unsent"
    BY <1>1 DEF SwapInv, UnsentInv
  <2>2. QED
    BY <1>3, <1>4, <1>11, <2>1 DEF Sends
<1>16. DeliveryInv'
  BY <1>3, <1>4, <1>6, <1>9, <1>12, <1>13, <1>14, <1>15, DeliveryStays DEF DeliveryInv
<1>17. ApartInv'
  <2>1. gen \in Nat
    BY SwapAssumption DEF SwapAssumption, SwapInv, TypeOK
  <2>2. \A t \in Slots : t # Page /\ Delivers(t) => job[t].gen # gen
    <3> SUFFICES ASSUME NEW t \in Slots, t # Page, Delivers(t), job[t].gen = gen PROVE FALSE
      OBVIOUS
    <3>1. gen < gen
      BY <1>9
    <3>2. QED
      BY <2>1, <3>1
  <2>3. QED
    BY <1>1, <1>3, <1>4, <1>9, <2>2 DEF SwapInv, ApartInv
<1>18. UnsentInv' /\ PendingInv'
  BY <1>1, <1>7 DEF SwapInv, UnsentInv, PendingInv
<1>19. QED
  BY <1>6, <1>8, <1>10, <1>16, <1>17, <1>18 DEF SwapInv

-----------------------------------------------------------------------------
(* The delivery thread *)

Stepping == {"build", "approve", "record", "reply", "send", "poll"}

\* Where a delivery is still under way, the page shows that it is.
LEMMA StepperDelivers ==
  ASSUME SwapInv, NEW s \in Slots, job[s].at \in Stepping
  PROVE  /\ Delivers(s)
         /\ s = Page => stage = "Delivering"
         /\ job[s] \in Deliveries(job[s].click, job[s].swap)
         /\ Asks(s) /\ Builds(s) /\ Marks(s) /\ Sends(s) /\ Counts(s)
         /\ job[s].todo \in Seq(Proposals) /\ Len(job[s].todo) \in 0..2
         /\ \A k \in 1..Len(job[s].todo) :
              job[s].todo[k] \in Proposals /\ verdict[job[s].todo[k]] # "none"
         /\ job[s].at # "build" => /\ job[s].i \in 1..Len(job[s].todo)
                                   /\ job[s].todo[job[s].i] \in Proposals
<1>1. s = Page => stage = "Delivering"
  BY DEF SwapInv, TypeOK, Stages, PageInv, Stepping
<1>2. Delivers(s)
  BY <1>1 DEF Delivers, Stepping
<1>3. /\ job[s] \in Deliveries(job[s].click, job[s].swap)
      /\ Asks(s) /\ Builds(s) /\ Marks(s) /\ Sends(s) /\ Counts(s)
  BY <1>2 DEF SwapInv, DeliveryInv
<1>4. job[s].todo \in Seq(Proposals)
  BY <1>3 DEF Deliveries
<1>5. \A k \in 1..Len(job[s].todo) : job[s].todo[k] \in Proposals
  BY <1>4
<1>6. QED
  BY <1>1, <1>2, <1>3, <1>4, <1>5 DEF Asks, Stepping

\* What SetJob leaves alone.
LEMMA SetJobIs ==
  ASSUME SwapInv, NEW s \in Slots, NEW j, SetJob(s, j)
  PROVE  /\ job'[s] = j /\ DOMAIN job' = Slots
         /\ \A t \in Slots : t # s => job'[t] = job[t]
         /\ gen' = gen /\ seen' = seen /\ alive' = alive /\ stage' = stage
         /\ draft' = draft /\ shown' = shown /\ pair' = pair /\ reviews' = reviews
         /\ Sol' = Sol
BY DEF SetJob, screen, SwapInv, TypeOK, Sol

\* A step of one delivery keeps SwapInv if it keeps what is said of this
\* delivery, of the proposals and of the chain.
LEMMA DeliveryMoves ==
  ASSUME SwapInv, NEW s \in Slots, Delivers(s), s = Page => stage = "Delivering",
         NEW j, j \in Deliveries(job[s].click, job[s].swap),
         j.review = job[s].review, j.gen = job[s].gen,
         s # Page \/ Sol \/ j.todo = job[s].todo,
         SetJob(s, j), DOMAIN body' = Proposals, allowance' = allowance,
         verdict' \in [Proposals -> Authority!Verdicts], recorded' \subseteq Proposals,
         signatures' \in [Proposals -> {0, 1}],
         net' \in [Proposals -> {"unsent", "taken", "mined", "reverted"}],
         Asks(s)', Builds(s)', Marks(s)', Sends(s)', Counts(s)',
         \A t \in Slots : t # s /\ Delivers(t) => Gentle(job[t].review) /\ Steady(job[t].gen),
         HeldInv', BodyInv', UnsentInv', PendingInv', PairsInv', NonceInv', SwapsOnce',
         BothSignedFirst'
  PROVE  SwapInv'
<1>1. /\ job'[s] = j /\ DOMAIN job' = Slots
      /\ \A t \in Slots : t # s => job'[t] = job[t]
      /\ gen' = gen /\ seen' = seen /\ alive' = alive /\ stage' = stage
      /\ draft' = draft /\ shown' = shown /\ pair' = pair /\ reviews' = reviews
      /\ Sol' = Sol
  BY SetJobIs
<1>2. /\ j.click = job[s].click /\ j.swap = job[s].swap /\ j.at \in Ats
  BY DEF Deliveries
<1>3. j.at # "none" /\ j.at \in Threads \cup {"none", "ok", "failed"}
      /\ j.at \notin {"quote", "requote"}
  BY <1>2 DEF Ats, Threads
<1>4. \A t \in Slots : Delivers(t)' <=> Delivers(t)
  BY <1>1, <1>3 DEF Delivers
<1>5. TypeOK'
  BY <1>1, <1>3 DEF SwapInv, TypeOK
<1>6. DraftInv'
  BY <1>1 DEF SwapInv, DraftInv
<1>7. PageInv'
  <2>1. CASE s = Page
    <3>1. /\ job[Page].click = shown /\ job[Page].review = draft.review
          /\ ~Sol => job[Page].todo = IF shown.need THEN <<pair.approve, pair.swap>>
                                      ELSE <<pair.swap>>
      BY <2>1 DEF SwapInv, PageInv
    <3>2. QED
      BY <1>1, <1>2, <1>3, <2>1, <3>1 DEF PageInv
  <2>2. CASE s # Page
    <3>1. job'[Page] = job[Page] /\ (Delivers(Page)' <=> Delivers(Page))
      BY <1>1, <1>4, <2>2, PageIsSlot
    <3>2. QED
      BY <1>1, <3>1 DEF SwapInv, PageInv
  <2>3. QED
    BY <2>1, <2>2
<1>8. DeliveryInv'
  <2>1. j \in Deliveries(j.click, j.swap)
    BY <1>2
  <2>2. QED
    BY <1>1, <1>4, <2>1, DeliveryStays DEF DeliveryInv
<1>9. ApartInv'
  BY <1>1, <1>4, PageIsSlot DEF SwapInv, ApartInv
<1>10. QED
  BY <1>5, <1>6, <1>7, <1>8, <1>9 DEF SwapInv

\* A step of a delivery in which nothing is proposed or sent.
LEMMA QuietMoves ==
  ASSUME SwapInv, NEW s \in Slots, job[s].at \in Stepping,
         NEW j, j \in Deliveries(job[s].click, job[s].swap),
         j.review = job[s].review, j.gen = job[s].gen, j.todo = job[s].todo,
         SetJob(s, j), body' = body, net' = net, allowance' = allowance,
         verdict' \in [Proposals -> Authority!Verdicts], recorded' \subseteq Proposals,
         signatures' \in [Proposals -> {0, 1}],
         \A q \in Proposals :
           /\ verdict[q] = "none" <=> verdict'[q] = "none"
           /\ verdict'[q] = "pending" => verdict[q] = "pending"
           /\ signatures[q] = 1 => signatures'[q] = 1
           /\ signatures'[q] = 1 => verdict'[q] = "approved",
         j.at # "build", j.at # "failed" => j.i \in 1..Len(j.todo),
         j.step = 0 => job[s].step = 0,
         j.at = "send" => job[s].step = 0 /\ j.i = 1,
         j.at \in {"approve", "record", "reply", "send"} =>
           job[s].at \in {"approve", "record", "reply"},
         Marks(s)'
  PROVE  SwapInv'
<1>1. /\ Delivers(s)
      /\ s = Page => stage = "Delivering"
      /\ job[s] \in Deliveries(job[s].click, job[s].swap)
      /\ Asks(s) /\ Builds(s) /\ Marks(s) /\ Sends(s) /\ Counts(s)
      /\ job[s].todo \in Seq(Proposals) /\ Len(job[s].todo) \in 0..2
      /\ \A k \in 1..Len(job[s].todo) :
           job[s].todo[k] \in Proposals /\ verdict[job[s].todo[k]] # "none"
  BY StepperDelivers
<1>2. /\ job'[s] = j /\ gen' = gen /\ seen' = seen /\ alive' = alive /\ stage' = stage
      /\ draft' = draft /\ shown' = shown /\ pair' = pair /\ reviews' = reviews
      /\ Sol' = Sol /\ \A t \in Slots : t # s => job'[t] = job[t]
  BY SetJobIs
<1>3. /\ \A g : Steady(g)
      /\ \A r : Gentle(r)
      /\ BodyInv' /\ PairsInv' /\ NonceInv' /\ SwapsOnce' /\ BothSignedFirst'
  BY <1>2, NothingProposed
<1>4. j.click = job[s].click
  BY DEF Deliveries
<1>5. Asks(s)'
  <2>1. \A k \in 1..Len(j.todo) : verdict'[j.todo[k]] # "none"
    BY <1>1
  <2>2. Asks(s)
    BY <1>1
  <2>3. /\ job'[s].todo = job[s].todo /\ job'[s].review = job[s].review
        /\ job'[s].gen = job[s].gen /\ job'[s].click = job[s].click
        /\ job'[s].at = j.at /\ job'[s].i = j.i
    BY <1>2, <1>4
  <2>4. QED
    BY <2>1, <2>2, <2>3, SMTT(30) DEF Asks
<1>6. Builds(s)'
  BY <1>2 DEF Builds
<1>7. Sends(s)'
  <2>1. j.step = 0 \/ j.at = "send" => \A k \in 1..Len(j.todo) : net[j.todo[k]] = "unsent"
    BY <1>1 DEF Sends
  <2>2. j.at = "send" => \A k \in 1..Len(j.todo) : ~(k < j.i)
    BY <1>1
  <2>3. \A q \in Proposals :
          body[q].review = j.review /\ (\A k \in 1..Len(j.todo) : q # j.todo[k]) =>
            net[q] = "unsent"
    BY <1>1 DEF Sends
  <2>4. QED
    BY <1>2, <2>1, <2>2, <2>3 DEF Sends
<1>8. Counts(s)'
  <2>1. TakenFrom(job[s].gen)' = TakenFrom(job[s].gen)
    BY <1>2, <1>3 DEF Steady, TakenFrom, Taken
  <2>2. j.at \in {"approve", "record", "reply", "send"} =>
          (body[j.todo[1]].lane = "evm" =>
             body[j.todo[1]].nonce = Cardinality(TakenFrom(j.gen)))
    BY <1>1 DEF Counts
  <2>3. j.at = "send" => j.todo[j.i] = j.todo[1]
    OBVIOUS
  <2>4. QED
    BY <1>2, <2>1, <2>2, <2>3 DEF Counts
<1>9. HeldInv'
  <2>1. pair.approve \in Proposals \cup {0} /\ pair.swap \in Proposals \cup {0}
    BY DEF SwapInv, TypeOK
  <2>2. QED
    BY <1>2, <2>1 DEF SwapInv, HeldInv
<1>10. UnsentInv'
  <2>1. NextNonce' = NextNonce
    BY <1>2, <1>3, SteadyCounts
  <2>2. CASE s = Page
    BY <1>1, <1>2, <2>1, <2>2 DEF SwapInv, UnsentInv
  <2>3. CASE s # Page
    <3>1. job'[Page] = job[Page]
      BY <1>2, <2>3, PageIsSlot
    <3>2. QED
      BY <1>2, <2>1, <3>1 DEF SwapInv, UnsentInv
  <2>4. QED
    BY <2>2, <2>3
<1>11. PendingInv'
  <2>1. pair.approve \in Proposals \cup {0} /\ pair.swap \in Proposals \cup {0}
    BY DEF SwapInv, TypeOK
  <2>2. PairIsHeld'
    BY <1>2 DEF SwapInv, PendingInv, PairIsHeld
  <2>3. QED
    BY <1>2, <2>1, <2>2 DEF SwapInv, PendingInv
<1>12. /\ DOMAIN body' = Proposals
       /\ net' \in [Proposals -> {"unsent", "taken", "mined", "reverted"}]
  BY DEF SwapInv, TypeOK
<1>13. QED
  BY <1>1, <1>3, <1>5, <1>6, <1>7, <1>8, <1>9, <1>10, <1>11, <1>12, DeliveryMoves

\* A delivery of which only the place changes.
LEMMA OnlyAt ==
  ASSUME NEW c, NEW w, NEW d \in Deliveries(c, w), NEW j, NEW at \in Ats,
         j = [d EXCEPT !.at = at]
  PROVE  /\ j \in Deliveries(c, w) /\ j.at = at /\ j.i = d.i /\ j.todo = d.todo
         /\ j.review = d.review /\ j.gen = d.gen /\ j.step = d.step
BY DEF Deliveries

\* A thread gives up without a word to the chain.
LEMMA FailsKeeps ==
  ASSUME SwapInv, NEW s \in Slots, job[s].at \in Stepping, Fails(s),
         UNCHANGED authority, body' = body, net' = net, allowance' = allowance
  PROVE  SwapInv'
<1> DEFINE j == [job[s] EXCEPT !.at = "failed"]
<1>1. job[s] \in Deliveries(job[s].click, job[s].swap) /\ Marks(s)
  BY StepperDelivers
<1>2. "failed" \in Ats
  BY DEF Ats
<1>3. SetJob(s, j)
  BY DEF Fails
<1> HIDE DEF j
<1>4. /\ j \in Deliveries(job[s].click, job[s].swap) /\ j.at = "failed"
      /\ j.todo = job[s].todo /\ j.review = job[s].review /\ j.gen = job[s].gen
      /\ j.step = job[s].step
  BY <1>1, <1>2, OnlyAt DEF j
<1>5. /\ verdict' = verdict /\ recorded' = recorded /\ signatures' = signatures
      /\ verdict' \in [Proposals -> Authority!Verdicts] /\ recorded' \subseteq Proposals
      /\ signatures' \in [Proposals -> {0, 1}]
  BY DEF authority, SwapInv, TypeOK
<1>6. \A q \in Proposals :
        /\ verdict[q] = "none" <=> verdict'[q] = "none"
        /\ verdict'[q] = "pending" => verdict[q] = "pending"
        /\ signatures[q] = 1 => signatures'[q] = 1
        /\ signatures'[q] = 1 => verdict'[q] = "approved"
  BY <1>5 DEF SwapInv, BodyInv
<1>7. Marks(s)'
  <2>1. job'[s] = j
    BY <1>3, SetJobIs
  <2>2. QED
    BY <1>1, <1>4, <1>5, <2>1 DEF Marks
<1>8. QED
  BY <1>3, <1>4, <1>5, <1>6, <1>7, QuietMoves

LEMMA AskKeeps ==
  ASSUME SwapInv, NEW s \in Slots, AskApproval(s)
  PROVE  SwapInv'
<1> DEFINE d == job[s]
           p == d.todo[d.i]
           j == [d EXCEPT !.at = "record"]
<1>1. /\ d.at = "approve" /\ d.at \in Stepping
      /\ body' = body /\ net' = net /\ allowance' = allowance
  BY DEF AskApproval, Stepping
<1>2. CASE UNCHANGED authority /\ Fails(s)
  BY <1>1, <1>2, FailsKeeps
<1>3. CASE Authority!Decide(p, "approved") /\ SetJob(s, j)
  <2>1. /\ d \in Deliveries(d.click, d.swap) /\ Marks(s) /\ d.i \in 1..Len(d.todo)
        /\ p \in Proposals /\ d.step = 0
    BY <1>1, StepperDelivers DEF Marks
  <2>2. "record" \in Ats
    BY DEF Ats
  <2>3. /\ verdict[p] = "pending" /\ verdict' = [verdict EXCEPT ![p] = "approved"]
        /\ recorded' = recorded /\ signatures' = signatures
    BY <1>3 DEF Authority!Decide
  <2>4. /\ verdict \in [Proposals -> Authority!Verdicts] /\ recorded' \subseteq Proposals
        /\ signatures' \in [Proposals -> {0, 1}]
        /\ \A q \in Proposals : signatures[q] = 1 => verdict[q] = "approved"
    BY <2>3 DEF SwapInv, TypeOK, BodyInv
  <2>5. SetJob(s, j)
    BY <1>3
  <2> HIDE DEF p
  <2>6. /\ verdict' \in [Proposals -> Authority!Verdicts]
        /\ \A q \in Proposals :
             /\ verdict[q] = "none" <=> verdict'[q] = "none"
             /\ verdict'[q] = "pending" => verdict[q] = "pending"
             /\ signatures[q] = 1 => signatures'[q] = 1
             /\ signatures'[q] = 1 => verdict'[q] = "approved"
    BY <2>1, <2>3, <2>4 DEF Authority!Verdicts
  <2> HIDE DEF j
  <2>7. /\ j \in Deliveries(d.click, d.swap) /\ j.at = "record" /\ j.i = d.i
        /\ j.todo = d.todo /\ j.review = d.review /\ j.gen = d.gen /\ j.step = d.step
    BY <2>1, <2>2, OnlyAt DEF j
  <2>8. Marks(s)'
    <3>1. job'[s] = j
      BY <2>5, SetJobIs
    <3>2. QED
      BY <1>1, <2>1, <2>3, <2>7, <3>1 DEF Marks
  <2> HIDE DEF d
  <2>9. QED
    BY <1>1, <2>1, <2>4, <2>5, <2>6, <2>7, <2>8, QuietMoves DEF d
<1>4. QED
  BY <1>2, <1>3 DEF AskApproval

LEMMA RecordKeeps ==
  ASSUME SwapInv, NEW s \in Slots, ApprovalRecorded(s)
  PROVE  SwapInv'
<1> DEFINE d == job[s]
           p == d.todo[d.i]
           j == [d EXCEPT !.at = "reply"]
<1>1. /\ d.at = "record" /\ d.at \in Stepping
      /\ body' = body /\ net' = net /\ allowance' = allowance
  BY DEF ApprovalRecorded, Stepping
<1>2. CASE UNCHANGED authority /\ Fails(s)
  BY <1>1, <1>2, FailsKeeps
<1>3. CASE Authority!PutOnRecord(p) /\ SetJob(s, j)
  <2>1. /\ d \in Deliveries(d.click, d.swap) /\ Marks(s) /\ d.i \in 1..Len(d.todo)
        /\ p \in Proposals /\ d.step = 0
    BY <1>1, StepperDelivers DEF Marks
  <2>2. "reply" \in Ats
    BY DEF Ats
  <2>3. /\ verdict' = verdict /\ signatures' = signatures /\ recorded' = recorded \cup {p}
    BY <1>3 DEF Authority!PutOnRecord
  <2>4. /\ verdict' \in [Proposals -> Authority!Verdicts] /\ recorded' \subseteq Proposals
        /\ signatures' \in [Proposals -> {0, 1}]
        /\ \A q \in Proposals : signatures[q] = 1 => verdict[q] = "approved"
    BY <2>1, <2>3 DEF SwapInv, TypeOK, BodyInv
  <2>5. SetJob(s, j)
    BY <1>3
  <2>6. \A q \in Proposals :
             /\ verdict[q] = "none" <=> verdict'[q] = "none"
             /\ verdict'[q] = "pending" => verdict[q] = "pending"
             /\ signatures[q] = 1 => signatures'[q] = 1
             /\ signatures'[q] = 1 => verdict'[q] = "approved"
    BY <2>3, <2>4
  <2> HIDE DEF j
  <2>7. /\ j \in Deliveries(d.click, d.swap) /\ j.at = "reply" /\ j.i = d.i
        /\ j.todo = d.todo /\ j.review = d.review /\ j.gen = d.gen /\ j.step = d.step
    BY <2>1, <2>2, OnlyAt DEF j
  <2>8. Marks(s)'
    <3>1. job'[s] = j
      BY <2>5, SetJobIs
    <3>2. QED
      BY <1>1, <2>1, <2>3, <2>7, <3>1 DEF Marks
  <2> HIDE DEF d
  <2>9. QED
    BY <1>1, <2>1, <2>4, <2>5, <2>6, <2>7, <2>8, QuietMoves DEF d
<1>4. QED
  BY <1>2, <1>3 DEF ApprovalRecorded

\* Behind a signature comes the next proposal, or the chain.
LEMMA AfterSignatureIs ==
  ASSUME NEW c, NEW w, NEW d \in Deliveries(c, w), d.i \in 1..Len(d.todo), d.step = 0,
         NEW j, j = AfterSignature(d)
  PROVE  /\ j \in Deliveries(c, w) /\ j.todo = d.todo /\ j.review = d.review /\ j.gen = d.gen
         /\ j.i \in 1..Len(d.todo)
         /\ \/ d.i < Len(d.todo) /\ j.at = "approve" /\ j.i = d.i + 1 /\ j.step = 0
            \/ d.i = Len(d.todo) /\ j.at = "send" /\ j.i = 1 /\ j.step = 1
<1>1. d.todo \in Seq(Proposals) /\ d.i \in Nat /\ Len(d.todo) \in Nat
  BY DEF Deliveries
<1>2. CASE d.i < Len(d.todo)
  <2>1. d.i + 1 \in Nat /\ d.i + 1 \in 1..Len(d.todo) /\ "approve" \in Ats
    BY <1>1, <1>2 DEF Ats
  <2>2. j = [d EXCEPT !.at = "approve", !.i = d.i + 1]
    BY <1>2 DEF AfterSignature
  <2>3. QED
    BY <1>2, <2>1, <2>2 DEF Deliveries
<1>3. CASE ~(d.i < Len(d.todo))
  <2>1. 1 \in Nat /\ 1 \in 0..2 /\ 1 \in 1..Len(d.todo) /\ d.i = Len(d.todo) /\ "send" \in Ats
    BY <1>1, <1>3 DEF Ats
  <2>2. j = [d EXCEPT !.at = "send", !.i = 1, !.step = 1]
    BY <1>3 DEF AfterSignature
  <2>3. QED
    BY <2>1, <2>2 DEF Deliveries
<1>4. QED
  BY <1>2, <1>3

LEMMA SignatureKeeps ==
  ASSUME SwapInv, NEW s \in Slots, SignatureArrives(s)
  PROVE  SwapInv'
<1> DEFINE d == job[s]
           p == d.todo[d.i]
           j == AfterSignature(d)
<1>1. /\ d.at = "reply" /\ d.at \in Stepping
      /\ body' = body /\ net' = net /\ allowance' = allowance
  BY DEF SignatureArrives, Stepping
<1>2. CASE UNCHANGED authority /\ Fails(s)
  BY <1>1, <1>2, FailsKeeps
<1>3. CASE Authority!GiveOut(p) /\ SetJob(s, j)
  <2>1. /\ d \in Deliveries(d.click, d.swap) /\ Marks(s) /\ d.i \in 1..Len(d.todo)
        /\ p \in Proposals /\ d.step = 0
        /\ \A k \in 1..Len(d.todo) : d.todo[k] \in Proposals
    BY <1>1, StepperDelivers DEF Marks
  <2>2. /\ verdict' = verdict /\ recorded' = recorded /\ verdict[p] = "approved"
        /\ signatures' = [signatures EXCEPT ![p] = 1]
    BY <1>3 DEF Authority!GiveOut
  <2>3. /\ verdict' \in [Proposals -> Authority!Verdicts] /\ recorded' \subseteq Proposals
        /\ signatures \in [Proposals -> {0, 1}]
        /\ \A q \in Proposals : signatures[q] = 1 => verdict[q] = "approved"
    BY <2>2 DEF SwapInv, TypeOK, BodyInv
  <2>4. SetJob(s, j)
    BY <1>3
  <2> HIDE DEF p
  <2>5. /\ signatures' \in [Proposals -> {0, 1}] /\ signatures'[p] = 1
        /\ \A q \in Proposals :
             /\ verdict[q] = "none" <=> verdict'[q] = "none"
             /\ verdict'[q] = "pending" => verdict[q] = "pending"
             /\ signatures[q] = 1 => signatures'[q] = 1
             /\ signatures'[q] = 1 => verdict'[q] = "approved"
    BY <2>1, <2>2, <2>3
  <2> HIDE DEF j
  <2>6. /\ j \in Deliveries(d.click, d.swap)
        /\ j.todo = d.todo /\ j.review = d.review /\ j.gen = d.gen
        /\ j.i \in 1..Len(d.todo)
        /\ \/ d.i < Len(d.todo) /\ j.at = "approve" /\ j.i = d.i + 1 /\ j.step = 0
           \/ d.i = Len(d.todo) /\ j.at = "send" /\ j.i = 1 /\ j.step = 1
    BY <2>1, AfterSignatureIs DEF j
  <2>7. Marks(s)'
    <3>1. job'[s] = j
      BY <2>4, SetJobIs
    <3>2. \A k \in 1..Len(d.todo) : k < d.i => signatures[d.todo[k]] = 1
      BY <1>1, <2>1 DEF Marks
    <3>3. d.i \in Nat /\ Len(d.todo) \in Nat
      BY <2>1
    <3>4. \A k \in 1..Len(d.todo) : k < d.i + 1 => k < d.i \/ k = d.i
      BY <3>3
    <3>5. \A k \in 1..Len(d.todo) : k < d.i + 1 => signatures'[d.todo[k]] = 1
      BY <2>1, <2>5, <3>2, <3>4 DEF p
    <3>6. d.i = Len(d.todo) => \A k \in 1..Len(d.todo) : k < d.i + 1
      BY <3>3
    <3>7. CASE j.at = "approve" /\ j.i = d.i + 1 /\ j.step = 0
      BY <2>6, <3>1, <3>5, <3>7 DEF Marks
    <3>8. CASE d.i = Len(d.todo) /\ j.at = "send" /\ j.i = 1 /\ j.step = 1
      BY <2>6, <3>1, <3>5, <3>6, <3>8 DEF Marks
    <3>9. QED
      BY <2>6, <3>7, <3>8
  <2> HIDE DEF d
  <2>8. QED
    BY <1>1, <2>1, <2>3, <2>4, <2>5, <2>6, <2>7, QuietMoves DEF d
<1>4. QED
  BY <1>2, <1>3 DEF SignatureArrives

LEMMA PollsKeep ==
  ASSUME SwapInv, NEW s \in Slots, PollReceipt(s)
  PROVE  SwapInv'
<1> DEFINE d == job[s]
           fate == net[d.todo[d.i]]
           ok == [d EXCEPT !.at = "ok", !.success = fate = "mined"]
           again == [d EXCEPT !.tries = d.tries + 1]
<1>1. /\ d.at = "poll" /\ d.at \in Stepping
      /\ UNCHANGED authority /\ body' = body /\ net' = net /\ allowance' = allowance
  BY DEF PollReceipt, Stepping
<1>2. /\ d \in Deliveries(d.click, d.swap) /\ Marks(s) /\ d.i \in 1..Len(d.todo)
      /\ d.step # 0
  BY <1>1, StepperDelivers DEF Marks
<1>3. /\ verdict' = verdict /\ recorded' = recorded /\ signatures' = signatures
      /\ verdict' \in [Proposals -> Authority!Verdicts] /\ recorded' \subseteq Proposals
      /\ signatures' \in [Proposals -> {0, 1}]
      /\ \A q \in Proposals : signatures[q] = 1 => verdict[q] = "approved"
  BY <1>1 DEF authority, SwapInv, TypeOK, BodyInv
<1>4. \A q \in Proposals :
             /\ verdict[q] = "none" <=> verdict'[q] = "none"
             /\ verdict'[q] = "pending" => verdict[q] = "pending"
             /\ signatures[q] = 1 => signatures'[q] = 1
             /\ signatures'[q] = 1 => verdict'[q] = "approved"
  BY <1>3
<1>5. ASSUME NEW j, SetJob(s, j), j \in Deliveries(d.click, d.swap), j.at \in {"ok", "poll"},
             j.todo = d.todo, j.i = d.i, j.review = d.review, j.gen = d.gen, j.step = d.step
      PROVE  SwapInv'
  <2>1. Marks(s)'
    <3>1. job'[s] = j
      BY <1>5, SetJobIs
    <3>2. QED
      BY <1>1, <1>2, <1>3, <1>5, <3>1 DEF Marks
  <2>2. /\ j.at # "build" /\ j.at \notin {"approve", "record", "reply", "send"}
        /\ j.step # 0 /\ j.i \in 1..Len(j.todo)
    BY <1>2, <1>5
  <2> HIDE DEF d
  <2>3. QED
    BY <1>1, <1>3, <1>4, <1>5, <2>1, <2>2, QuietMoves DEF d
<1>6. CASE SetJob(s, ok)
  <2> DEFINE c == d.click
             w == d.swap
             good == fate = "mined"
  <2>1. d \in Deliveries(c, w) /\ good \in BOOLEAN /\ "ok" \in Ats
    BY <1>2 DEF Ats
  <2>2. ok = [d EXCEPT !.at = "ok", !.success = good]
    OBVIOUS
  <2>3. SetJob(s, ok)
    BY <1>6
  <2> HIDE DEF d, c, w, good, ok
  <2>4. /\ ok \in Deliveries(c, w) /\ ok.at = "ok" /\ ok.todo = d.todo /\ ok.i = d.i
        /\ ok.review = d.review /\ ok.gen = d.gen /\ ok.step = d.step
    BY <2>1, <2>2 DEF Deliveries
  <2>5. QED
    BY <1>5, <2>3, <2>4 DEF c, w
<1>7. CASE SetJob(s, again)
  <2> DEFINE c == d.click
             w == d.swap
  <2>1. d \in Deliveries(c, w)
    BY <1>2
  <2>2. SetJob(s, again)
    BY <1>7
  <2> HIDE DEF d, c, w
  <2>3. d.tries + 1 \in Nat
    BY <2>1 DEF Deliveries
  <2>4. /\ again \in Deliveries(c, w) /\ again.at = d.at /\ again.todo = d.todo
        /\ again.i = d.i
        /\ again.review = d.review /\ again.gen = d.gen /\ again.step = d.step
    BY <2>1, <2>3 DEF Deliveries
  <2> HIDE DEF again
  <2>5. QED
    BY <1>1, <1>5, <2>2, <2>4 DEF c, w
<1>8. CASE Fails(s)
  BY <1>1, <1>8, FailsKeeps
<1>9. QED
  BY <1>6, <1>7, <1>8 DEF PollReceipt

\* On Solana the thread proposes the transaction it has built.
LEMMA ProposesKeeps ==
  ASSUME SwapInv, NEW s \in Slots, job[s].at = "build", NEW p \in Proposals,
         Reachable(job[s]), Fresh(p), Authority!Submit(p),
         body' = [body EXCEPT ![p] = job[s].swap],
         SetJob(s, [job[s] EXCEPT !.at = "approve", !.todo = <<p>>]),
         net' = net, allowance' = allowance
  PROVE  SwapInv'
<1> DEFINE d == job[s]
<1>1. /\ Delivers(s)
      /\ s = Page => stage = "Delivering"
      /\ d \in Deliveries(d.click, d.swap)
      /\ Asks(s) /\ Builds(s) /\ Marks(s) /\ Sends(s) /\ Counts(s)
  BY StepperDelivers DEF Stepping
<1>2. /\ d.todo = <<>> /\ d.i = 1 /\ d.step = 0 /\ d.swap.review = d.review
      /\ d.swap.gen = d.gen /\ d.swap.kind = "swap" /\ d.swap.lane = "sol"
      /\ d.swap.figures = d.click /\ d.swap.nonce \in Nat /\ (s = Page => Sol)
  BY <1>1 DEF Builds, Marks
<1>3. PICK j : j = [d EXCEPT !.at = "approve", !.todo = <<p>>]
  OBVIOUS
<1>4. /\ j \in Deliveries(d.click, d.swap) /\ j.at = "approve" /\ j.todo = <<p>>
      /\ j.i = 1 /\ j.step = 0 /\ j.review = d.review /\ j.gen = d.gen /\ j.click = d.click
  <2> DEFINE c == d.click
             w == d.swap
  <2>1. d \in Deliveries(c, w)
    BY <1>1
  <2>2. d.i = 1 /\ d.step = 0
    BY <1>2
  <2>3. <<p>> \in Seq(Proposals) /\ "approve" \in Ats
    BY DEF Ats
  <2>4. d.click = c
    OBVIOUS
  <2> HIDE DEF d, c, w
  <2>5. QED
    BY <1>3, <2>1, <2>2, <2>3, <2>4 DEF Deliveries
<1>5. /\ job'[s] = j /\ DOMAIN job' = Slots
      /\ \A t \in Slots : t # s => job'[t] = job[t]
      /\ gen' = gen /\ seen' = seen /\ alive' = alive /\ stage' = stage
      /\ draft' = draft /\ shown' = shown /\ pair' = pair /\ reviews' = reviews
      /\ Sol' = Sol /\ SetJob(s, j)
  BY <1>3, SetJobIs
<1>6. /\ Len(j.todo) = 1 /\ j.todo[1] = p /\ 1 \in 1..1
      /\ \A k \in 1..1 : k = 1 /\ j.todo[k] = p
      /\ Len(d.todo) = 0 /\ ~\E k \in 1..0 : TRUE
  BY <1>2, <1>4
<1>7. /\ verdict[p] = "none" /\ verdict' = [verdict EXCEPT ![p] = "pending"]
      /\ recorded' = recorded /\ signatures' = signatures
      /\ alive /\ d.gen = gen
      /\ \A q \in Proposals : q < p => verdict[q] # "none" /\ q # p
  BY SwapAssumption DEF SwapAssumption, Authority!Submit, Reachable, Fresh, Proposals
<1>8. /\ verdict \in [Proposals -> Authority!Verdicts] /\ recorded \subseteq Proposals
      /\ signatures \in [Proposals -> {0, 1}] /\ DOMAIN body = Proposals
      /\ net \in [Proposals -> {"unsent", "taken", "mined", "reverted"}]
  BY DEF SwapInv, TypeOK
<1>9. /\ verdict' \in [Proposals -> Authority!Verdicts] /\ verdict'[p] = "pending"
      /\ \A q \in Proposals : q # p => verdict'[q] = verdict[q]
  BY <1>7, <1>8 DEF Authority!Verdicts
<1>10. /\ DOMAIN body' = Proposals /\ body'[p] = d.swap
       /\ \A q \in Proposals : q # p => body'[q] = body[q]
  BY <1>8
<1>11. /\ net[p] = "unsent" /\ signatures[p] # 1
       /\ \A q \in Proposals : verdict[q] = "none" => net[q] = "unsent"
  BY <1>7 DEF SwapInv, BodyInv
<1>12. seen
  <2>1. gen \in Nat
    BY SwapAssumption DEF SwapAssumption, SwapInv, TypeOK
  <2>2. ~seen => d.gen < gen
    BY <1>1 DEF SwapInv, ApartInv
  <2>3. ~(gen < gen)
    BY <2>1
  <2>4. QED
    BY <1>7, <2>2, <2>3
<1>13. d.review \in 1..reviews
  <2>1. CASE s = Page
    <3>1. d.review = draft.review /\ d.review \in 1..MaxReviews
      BY <1>1, <2>1 DEF SwapInv, PageInv, Deliveries
    <3>2. draft.review \in 0..reviews /\ reviews \in Nat
      BY SwapAssumption DEF SwapAssumption, SwapInv, TypeOK, DraftInv
    <3>3. QED
      BY <3>1, <3>2
  <2>2. CASE s # Page
    BY <1>1, <2>2 DEF SwapInv, ApartInv
  <2>3. QED
    BY <2>1, <2>2
<1>14. (\A g : Steady(g)) /\ NonceInv' /\ SwapsOnce' /\ BothSignedFirst'
  <2>1. \A q \in Proposals :
           /\ verdict[q] # "none" => verdict'[q] # "none" /\ body'[q] = body[q]
           /\ signatures[q] = 1 => signatures'[q] = 1
    BY <1>7, <1>9, <1>10
  <2>2. QED
    BY <2>1, NothingSent
<1>15. \A q \in Proposals : body[q].review = d.review => body[q].kind # "approve"
  BY <1>1, <1>6 DEF Asks
<1>16. Asks(s)'
  <2>1. /\ verdict'[p] # "none" /\ body'[p].review = d.review /\ body'[p].gen = d.gen
        /\ body'[p].figures = d.click /\ body'[p].kind = "swap"
    BY <1>2, <1>9, <1>10
  <2>2. \A q \in Proposals : ~(body'[q].review = d.review /\ body'[q].kind = "approve")
    BY <1>10, <1>15, <2>1
  <2>3. 1 \in 0..2 /\ 1 # 2
    OBVIOUS
  <2>4. /\ job'[s].todo = j.todo /\ job'[s].i = 1 /\ job'[s].at = "approve"
        /\ job'[s].review = d.review /\ job'[s].gen = d.gen /\ job'[s].click = d.click
    BY <1>4, <1>5
  <2>5. Len(job'[s].todo) = 1 /\ \A k \in 1..1 : k = 1 /\ job'[s].todo[k] = p
    BY <1>6, <2>4
  <2> HIDE DEF d
  <2>6. QED
    BY <1>6, <2>1, <2>2, <2>3, <2>4, <2>5, ZenonT(60) DEF Asks
<1>17. Builds(s)' /\ Marks(s)'
  <2>1. ~\E k \in 1..1 : k < 1
    OBVIOUS
  <2>2. QED
    BY <1>4, <1>5, <1>6, <2>1 DEF Builds, Marks
<1>18. Sends(s)'
  <2>1. \A q \in Proposals : body[q].review = d.review => net[q] = "unsent"
    BY <1>1, <1>6 DEF Sends
  <2>2. \A q \in Proposals : body'[q].review = d.review => net[q] = "unsent"
    BY <1>10, <1>11, <2>1
  <2> HIDE DEF d
  <2>3. QED
    BY <1>4, <1>5, <1>6, <1>11, <2>2 DEF Sends
<1>19. Counts(s)'
  BY <1>2, <1>4, <1>5, <1>6, <1>10 DEF Counts
<1>20. ASSUME NEW t \in Slots, t # s, Delivers(t) PROVE Gentle(job[t].review)
  <2>1. job[t].review # d.review
    BY <1>1, <1>20 DEF SwapInv, ApartInv
  <2>2. QED
    BY <1>2, <1>7, <1>9, <1>10, <1>11, <2>1 DEF Gentle
<1>21. BodyInv'
  <2> SUFFICES ASSUME NEW x \in Proposals
               PROVE  /\ verdict'[x] = "none" => body'[x] = NoBody /\ net'[x] = "unsent"
                      /\ verdict'[x] # "none" =>
                           /\ body'[x].review \in 1..reviews' /\ body'[x].gen \in 0..gen'
                           /\ body'[x].kind \in {"approve", "swap"}
                           /\ body'[x].lane \in {"evm", "sol"}
                           /\ body'[x].kind = "approve" => body'[x].lane = "evm"
                           /\ body'[x].nonce \in Nat
                           /\ \A q \in Proposals : q < x => verdict'[q] # "none"
                      /\ signatures'[x] = 1 => verdict'[x] = "approved"
    BY DEF BodyInv
  <2>1. gen \in 0..gen
    BY SwapAssumption DEF SwapAssumption, SwapInv, TypeOK
  <2>2. CASE x = p
    BY <1>2, <1>5, <1>7, <1>9, <1>10, <1>11, <1>13, <2>1, <2>2
  <2>3. CASE x # p
    BY <1>5, <1>7, <1>9, <1>10, <2>3 DEF SwapInv, BodyInv
  <2>4. QED
    BY <2>2, <2>3
<1>22. PairsInv'
  <2> SUFFICES ASSUME NEW x \in Proposals, NEW y \in Proposals, InPair(x, y)'
               PROVE  /\ body'[y].lane = "evm" /\ body'[y].gen = body'[x].gen
                      /\ body'[y].nonce = body'[x].nonce + 1
                      /\ net'[y] # "unsent" => net'[x] # "unsent"
    BY DEF PairsInv, Taken
  <2>1. /\ body'[x].kind = "approve" /\ body'[y].kind = "swap"
        /\ body'[x].review = body'[y].review
    BY DEF InPair
  <2>2. x # p
    BY <1>2, <1>10, <2>1
  <2>3. y # p
    BY <1>2, <1>10, <1>15, <2>1, <2>2
  <2>4. InPair(x, y)
    BY <1>10, <2>1, <2>2, <2>3 DEF InPair
  <2>5. QED
    BY <1>10, <2>2, <2>3, <2>4 DEF SwapInv, PairsInv, Taken
<1>23. p \notin {pair.approve, pair.swap}
  <2>1. p # 0
    BY DEF Proposals
  <2>2. QED
    BY <1>7, <2>1 DEF SwapInv, HeldInv
<1>24. s # Page => d.review # draft.review
  BY <1>1 DEF SwapInv, ApartInv
<1>25. HeldInv'
  <2>1. pair.approve \in Proposals \cup {0} /\ pair.swap \in Proposals \cup {0}
    BY DEF SwapInv, TypeOK
  <2>2. pair.approve # 0 => /\ verdict'[pair.approve] # "none"
                            /\ body'[pair.approve] = body[pair.approve]
    BY <1>9, <1>10, <1>23, <2>1 DEF SwapInv, HeldInv
  <2>3. pair.swap # 0 => /\ verdict'[pair.swap] # "none"
                         /\ body'[pair.swap] = body[pair.swap]
    BY <1>9, <1>10, <1>23, <2>1 DEF SwapInv, HeldInv
  <2>4. stage # "Form" => \A q \in Proposals : body'[q].review = draft.review =>
          IF Sol THEN body'[q].kind = "swap" /\ body'[q].lane = "sol"
          ELSE q \in {pair.approve, pair.swap}
    <3>1. body'[p].review = draft.review => Sol /\ body'[p].kind = "swap" /\ body'[p].lane = "sol"
      BY <1>2, <1>10, <1>24
    <3>2. QED
      BY <1>10, <3>1 DEF SwapInv, HeldInv
  <2>5. /\ pair.approve # 0 => /\ shown.need /\ body[pair.approve].kind = "approve"
                               /\ body[pair.approve].nonce = shown.nonce
        /\ pair.swap # 0 =>
             /\ shown.need => pair.approve # 0
             /\ body[pair.swap].kind = "swap"
             /\ body[pair.swap].nonce = shown.nonce + IF shown.need THEN 1 ELSE 0
        /\ stage \in {"Form", "Quoting"} \/ Sol => pair = NoPair
        /\ \A q \in {pair.approve, pair.swap} \ {0} :
             /\ body[q].review = draft.review /\ body[q].figures = shown
             /\ body[q].lane = "evm" /\ (seen => body[q].gen = gen)
    BY DEF SwapInv, HeldInv
  <2>6. QED
    BY <1>5, <2>2, <2>3, <2>4, <2>5 DEF HeldInv
<1>26. UnsentInv'
  <2>1. NextNonce' = NextNonce
    BY <1>5, <1>14, SteadyCounts
  <2>2. stage \in {"Quoting", "Review"} => s # Page
    BY <1>1
  <2>3. stage \in {"Quoting", "Review"} =>
          \A q \in Proposals : body'[q].review = draft.review => net[q] = "unsent"
    BY <1>10, <1>11 DEF SwapInv, UnsentInv
  <2>4. /\ job'[Page].step = 0 => job[Page].step = 0
        /\ stage \in {"Quoting", "Review"} => job'[Page] = job[Page]
    BY <1>2, <1>5, <2>2, PageIsSlot
  <2>5. QED
    BY <1>5, <2>1, <2>3, <2>4 DEF SwapInv, UnsentInv
<1>27. PendingInv'
  <2>1. PairIsHeld'
    BY <1>2, <1>5, <1>9, <1>10 DEF SwapInv, PendingInv, PairIsHeld
  <2>2. pair.approve \in Proposals \cup {0} /\ pair.swap \in Proposals \cup {0}
    BY DEF SwapInv, TypeOK
  <2>3. \A q \in {pair.approve, pair.swap} \ {0} : verdict'[q] = verdict[q]
    BY <1>9, <1>23, <2>2
  <2>4. QED
    BY <1>5, <1>7, <1>12, <2>1, <2>3 DEF SwapInv, PendingInv
<1>28. /\ s # Page \/ Sol \/ j.todo = d.todo
       /\ recorded' \subseteq Proposals /\ signatures' \in [Proposals -> {0, 1}]
       /\ net' \in [Proposals -> {"unsent", "taken", "mined", "reverted"}]
  BY <1>2, <1>7, <1>8
<1> HIDE DEF d
<1>29. QED
  BY <1>1, <1>4, <1>5, <1>9, <1>10, <1>14, <1>16, <1>17, <1>18, <1>19, <1>20, <1>21, <1>22,
     <1>25, <1>26, <1>27, <1>28, DeliveryMoves DEF d

LEMMA BuildKeeps ==
  ASSUME SwapInv, NEW s \in Slots, BuildAndPropose(s)
  PROVE  SwapInv'
<1>1. /\ job[s].at = "build" /\ job[s].at \in Stepping /\ net' = net /\ allowance' = allowance
  BY DEF BuildAndPropose, Stepping
<1>2. CASE Fails(s) /\ UNCHANGED <<authority, body>>
  BY <1>1, <1>2, FailsKeeps
<1>3. ASSUME NEW p \in Proposals,
             Reachable(job[s]), Fresh(p), Authority!Submit(p),
             body' = [body EXCEPT ![p] = job[s].swap],
             SetJob(s, [job[s] EXCEPT !.at = "approve", !.todo = <<p>>])
      PROVE  SwapInv'
  BY <1>1, <1>3, ProposesKeeps
<1>4. QED
  BY <1>2, <1>3 DEF BuildAndPropose

\* The chain takes a transaction with the next nonce of its sender.
LEMMA TakesOne ==
  ASSUME SwapInv, NEW p \in Proposals, net[p] = "unsent", verdict[p] # "none",
         body[p].lane = "evm" => body[p].nonce = Cardinality(TakenFrom(body[p].gen)),
         net' = [net EXCEPT ![p] = "taken"], body' = body
  PROVE  /\ net' \in [Proposals -> {"unsent", "taken", "mined", "reverted"}]
         /\ net'[p] = "taken" /\ \A q \in Proposals : q # p => net'[q] = net[q]
         /\ \A g : g # body[p].gen \/ body[p].lane # "evm" => Steady(g)
         /\ body[p].lane = "evm" =>
              Cardinality(TakenFrom(body[p].gen)') = Cardinality(TakenFrom(body[p].gen)) + 1
         /\ NonceInv'
<1>1. /\ net' \in [Proposals -> {"unsent", "taken", "mined", "reverted"}]
      /\ net'[p] = "taken" /\ \A q \in Proposals : q # p => net'[q] = net[q]
  BY DEF SwapInv, TypeOK
<1>2. \A g : g # body[p].gen \/ body[p].lane # "evm" => Steady(g)
  BY <1>1 DEF Steady
<1>3. \A g : SettledOf(g)' = SettledOf(g)
  BY <1>1 DEF SettledOf, TakenFrom, Taken, Settled
<1>4. \A g : g # body[p].gen \/ body[p].lane # "evm" => TakenFrom(g)' = TakenFrom(g)
  BY <1>1 DEF TakenFrom, Taken
<1>5. body[p].lane = "evm" =>
        /\ TakenFrom(body[p].gen)' = TakenFrom(body[p].gen) \cup {p}
        /\ p \notin TakenFrom(body[p].gen)
  BY <1>1 DEF TakenFrom, Taken
<1>6. body[p].lane = "evm" =>
        /\ Cardinality(TakenFrom(body[p].gen)') = Cardinality(TakenFrom(body[p].gen)) + 1
        /\ Cardinality(TakenFrom(body[p].gen)) \in Nat
  BY <1>5, FiniteTaken, FS_AddElement
<1>7. NonceInv'
  <2> SUFFICES ASSUME NEW g \in 0..MaxSwitches
               PROVE  /\ \A q \in TakenFrom(g)' : body[q].nonce < Cardinality(TakenFrom(g)')
                      /\ \A q \in SettledOf(g) : body[q].nonce < Cardinality(SettledOf(g))
                      /\ \A q, t \in TakenFrom(g)' : body[q].nonce = body[t].nonce => q = t
                      /\ \A n \in Nat : n < Cardinality(SettledOf(g)) =>
                           \E q \in SettledOf(g) : body[q].nonce = n
    BY <1>3 DEF NonceInv
  <2>1. CASE g # body[p].gen \/ body[p].lane # "evm"
    BY <1>4, <2>1 DEF SwapInv, NonceInv
  <2>2. CASE g = body[p].gen /\ body[p].lane = "evm"
    <3>1. \A q \in TakenFrom(g) : /\ body[q].nonce < Cardinality(TakenFrom(g))
                                  /\ body[q].nonce \in Nat
      <4>1. \A q \in TakenFrom(g) : q \in Proposals /\ net[q] # "unsent"
        BY DEF TakenFrom, Taken
      <4>2. QED
        BY <4>1 DEF SwapInv, NonceInv, BodyInv
    <3>2. PICK c \in Nat : c = Cardinality(TakenFrom(g)) /\ Cardinality(TakenFrom(g)') = c + 1
      BY <1>6, <2>2
    <3>3. body[p].nonce = c /\ c < c + 1
      BY <2>2, <3>2
    <3>4. \A q \in TakenFrom(g) : body[q].nonce < c + 1 /\ body[q].nonce # c
      BY <3>1, <3>2
    <3>5. \A q \in TakenFrom(g)' : q = p \/ q \in TakenFrom(g)
      BY <1>5, <2>2
    <3>6. \A q \in TakenFrom(g)' : body[q].nonce < Cardinality(TakenFrom(g)')
      BY <3>2, <3>3, <3>4, <3>5
    <3>7. \A q, t \in TakenFrom(g)' : body[q].nonce = body[t].nonce => q = t
      BY <3>3, <3>4, <3>5 DEF SwapInv, NonceInv
    <3>8. QED
      BY <3>6, <3>7 DEF SwapInv, NonceInv
  <2>3. QED
    BY <2>1, <2>2
<1>8. QED
  BY <1>1, <1>2, <1>6, <1>7

\* How a delivery goes on once the chain has its transaction.
GoesOn(d, j) ==
  /\ j.todo = d.todo /\ j.review = d.review /\ j.gen = d.gen /\ j.click = d.click
  /\ \/ j.at = "send" /\ j.i = d.i + 1 /\ d.i < Len(d.todo) /\ j.step = d.step
     \/ j.at = "poll" /\ j.i = d.i /\ j.step = 2
     \/ j.at = "failed" /\ j.step = d.step

\* One that has another after it is the first of two; of two, one is the last.
LEMMA OfTwo ==
  ASSUME NEW n \in 0..2, NEW i \in 1..n, NEW k \in 1..n
  PROVE  /\ i < n => n = 2 /\ i = 1 /\ i + 1 = 2
         /\ k # i => (k = n <=> i # n)
OBVIOUS

\* What a delivery is about to broadcast: the next of its signed transactions.
LEMMA SendingIs ==
  ASSUME SwapInv, NEW s \in Slots, job[s].at = "send"
  PROVE  LET d == job[s]
             p == d.todo[d.i] IN
         /\ p \in Proposals /\ net[p] = "unsent" /\ verdict[p] # "none"
         /\ body[p].review = d.review /\ body[p].gen = d.gen /\ d.step # 0
         /\ body[p].lane = "evm" => body[p].nonce = Cardinality(TakenFrom(d.gen))
         /\ body[p].kind = IF d.i = Len(d.todo) THEN "swap" ELSE "approve"
         /\ \A k \in 1..Len(d.todo) : signatures[d.todo[k]] = 1
         /\ \A k \in 1..Len(d.todo) : k # d.i => d.todo[k] # p
<1> DEFINE d == job[s]
           n == Len(d.todo)
           p == d.todo[d.i]
<1>1. /\ Asks(s) /\ Marks(s) /\ Sends(s) /\ Counts(s) /\ n \in 0..2
      /\ d.i \in 1..n /\ p \in Proposals
      /\ \A k \in 1..n : d.todo[k] \in Proposals
  BY StepperDelivers DEF Stepping
<1>2. /\ verdict[p] # "none" /\ body[p].review = d.review /\ body[p].gen = d.gen
      /\ \A k \in 1..n : body[d.todo[k]].kind = IF k = n THEN "swap" ELSE "approve"
  BY <1>1 DEF Asks
<1>3. d.step # 0 /\ \A k \in 1..n : signatures[d.todo[k]] = 1
  BY <1>1 DEF Marks
<1>4. d.i >= d.i
  BY <1>1
<1>5. net[p] = "unsent"
  BY <1>1, <1>4 DEF Sends
<1>6. body[p].lane = "evm" => body[p].nonce = Cardinality(TakenFrom(d.gen))
  BY <1>1 DEF Counts
<1>7. \A k \in 1..n : k # d.i => d.todo[k] # p
  <2> SUFFICES ASSUME NEW k \in 1..n, k # d.i PROVE d.todo[k] # p
    OBVIOUS
  <2>1. k = n <=> d.i # n
    <3>1. n \in 0..2 /\ d.i \in 1..n
      BY <1>1
    <3>2. QED
      BY <3>1, OfTwo
  <2>2. QED
    BY <1>1, <1>2, <2>1
<1>8. QED
  BY <1>1, <1>2, <1>3, <1>5, <1>6, <1>7

LEMMA TakesKeeps ==
  ASSUME SwapInv, NEW s \in Slots, job[s].at = "send",
         NEW j, j \in Deliveries(job[s].click, job[s].swap), GoesOn(job[s], j),
         SetJob(s, j), net' = [net EXCEPT ![job[s].todo[job[s].i]] = "taken"],
         UNCHANGED authority, body' = body, allowance' = allowance
  PROVE  SwapInv'
<1> DEFINE d == job[s]
           n == Len(d.todo)
<1>0. PICK p : p = d.todo[d.i]
  OBVIOUS
<1>1. /\ Delivers(s) /\ (s = Page => stage = "Delivering")
      /\ Asks(s) /\ Marks(s) /\ Sends(s) /\ Counts(s) /\ n \in 0..2
      /\ d.i \in 1..n /\ d.todo \in Seq(Proposals)
      /\ \A k \in 1..n : d.todo[k] \in Proposals
  BY StepperDelivers DEF Stepping
<1>2. /\ p \in Proposals /\ net[p] = "unsent" /\ verdict[p] # "none"
      /\ body[p].review = d.review /\ body[p].gen = d.gen /\ d.step # 0
      /\ body[p].lane = "evm" => body[p].nonce = Cardinality(TakenFrom(d.gen))
      /\ body[p].kind = IF d.i = n THEN "swap" ELSE "approve"
      /\ \A k \in 1..n : signatures[d.todo[k]] = 1
      /\ \A k \in 1..n : k # d.i => d.todo[k] # p
  BY <1>0, SendingIs
<1>3. net' = [net EXCEPT ![p] = "taken"]
  BY <1>0
<1>4. /\ verdict' = verdict /\ recorded' = recorded /\ signatures' = signatures
      /\ verdict' \in [Proposals -> Authority!Verdicts] /\ recorded' \subseteq Proposals
      /\ signatures' \in [Proposals -> {0, 1}] /\ DOMAIN body' = Proposals
  BY DEF authority, SwapInv, TypeOK
<1>5. /\ job'[s] = j
      /\ \A t \in Slots : t # s => job'[t] = job[t]
      /\ gen' = gen /\ seen' = seen /\ alive' = alive /\ stage' = stage
      /\ draft' = draft /\ shown' = shown /\ pair' = pair /\ reviews' = reviews
      /\ Sol' = Sol /\ SetJob(s, j)
  BY SetJobIs
<1>6. /\ j.todo = d.todo /\ j.review = d.review /\ j.gen = d.gen /\ j.click = d.click
      /\ \/ j.at = "send" /\ j.i = d.i + 1 /\ d.i < n /\ j.step = d.step
         \/ j.at = "poll" /\ j.i = d.i /\ j.step = 2
         \/ j.at = "failed" /\ j.step = d.step
  BY DEF GoesOn
<1>7. \A t \in Slots : t # s /\ Delivers(t) => job[t].review # d.review /\ job[t].gen # d.gen
  BY <1>1 DEF SwapInv, ApartInv
<1>8. s # Page => d.review # draft.review /\ d.gen < gen
  BY <1>1 DEF SwapInv, ApartInv
<1>9. /\ \A k \in 1..n :
           /\ verdict[d.todo[k]] # "none" /\ body[d.todo[k]].review = d.review
           /\ body[d.todo[k]].gen = d.gen /\ body[d.todo[k]].figures = d.click
           /\ body[d.todo[k]].kind = IF k = n THEN "swap" ELSE "approve"
      /\ n = 2 => /\ body[d.todo[1]].lane = "evm" /\ body[d.todo[2]].lane = "evm"
                  /\ body[d.todo[2]].nonce = body[d.todo[1]].nonce + 1
      /\ \A q \in Proposals : body[q].review = d.review /\ body[q].kind = "approve" =>
           n = 2 /\ q = d.todo[1]
  BY <1>1 DEF Asks
<1>10. /\ \A q \in Proposals :
            body[q].review = d.review /\ (\A k \in 1..n : q # d.todo[k]) => net[q] = "unsent"
       /\ \A k \in 1..n : /\ k >= d.i => net[d.todo[k]] = "unsent"
                          /\ k < d.i => net[d.todo[k]] # "unsent"
  BY <1>1 DEF Sends, Taken
<1>11. /\ net' \in [Proposals -> {"unsent", "taken", "mined", "reverted"}]
       /\ net'[p] = "taken" /\ \A q \in Proposals : q # p => net'[q] = net[q]
       /\ \A g : g # d.gen \/ body[p].lane # "evm" => Steady(g)
       /\ body[p].lane = "evm" =>
            Cardinality(TakenFrom(job[s].gen)') = Cardinality(TakenFrom(d.gen)) + 1
       /\ NonceInv'
  <2>1. body[p].lane = "evm" => body[p].nonce = Cardinality(TakenFrom(body[p].gen))
    BY <1>2
  <2>2. /\ net' \in [Proposals -> {"unsent", "taken", "mined", "reverted"}]
        /\ net'[p] = "taken" /\ \A q \in Proposals : q # p => net'[q] = net[q]
        /\ \A g : g # body[p].gen \/ body[p].lane # "evm" => Steady(g)
        /\ body[p].lane = "evm" =>
             Cardinality(TakenFrom(body[p].gen)') = Cardinality(TakenFrom(body[p].gen)) + 1
        /\ NonceInv'
    BY <1>2, <1>3, <2>1, TakesOne
  <2>3. body'[p].gen = job'[s].gen
    BY <1>2, <1>5, <1>6
  <2>4. TakenFrom(body[p].gen)' = TakenFrom(job[s].gen)'
    BY <2>3 DEF TakenFrom
  <2>5. QED
    BY <1>2, <2>2, <2>4
<1>12. Asks(s)'
  <2>1. j.at \notin {"build", "failed"} => j.i \in 1..n
    BY <1>1, <1>6
  <2>2. /\ job'[s].todo = d.todo /\ job'[s].i = j.i /\ job'[s].at = j.at
        /\ job'[s].review = d.review /\ job'[s].gen = d.gen /\ job'[s].click = d.click
    BY <1>5, <1>6
  <2>3. /\ n \in 0..2 /\ body' = body /\ verdict' = verdict /\ n = Len(d.todo)
    BY <1>1, <1>4
  <2> HIDE DEF d, n
  <2>4. QED
    BY <1>9, <2>1, <2>2, <2>3 DEF Asks
<1>13. Builds(s)' /\ Marks(s)'
  <2>1. j.step # 0 /\ j.at \in {"send", "poll", "failed"}
    BY <1>2, <1>6
  <2>2. \A k \in 1..Len(j.todo) : signatures'[j.todo[k]] = 1
    BY <1>2, <1>4, <1>6
  <2> HIDE DEF d, n
  <2>3. QED
    BY <1>5, <2>1, <2>2 DEF Builds, Marks
<1>14. Sends(s)'
  <2>1. \A q \in Proposals :
          body[q].review = d.review /\ (\A k \in 1..n : q # d.todo[k]) => net'[q] = "unsent"
    <3>1. d.i \in 1..n /\ p = d.todo[d.i]
      BY <1>0, <1>1
    <3>2. QED
      BY <1>10, <1>11, <3>1
  <2>2. \A k \in 1..n : k < d.i + 1 => net'[d.todo[k]] # "unsent"
    <3> SUFFICES ASSUME NEW k \in 1..n, k < d.i + 1 PROVE net'[d.todo[k]] # "unsent"
      OBVIOUS
    <3>1. k < d.i \/ k = d.i
      BY <1>1
    <3>2. CASE k = d.i
      BY <1>0, <1>11, <3>2
    <3>3. CASE k < d.i /\ k # d.i
      BY <1>1, <1>2, <1>10, <1>11, <3>3
    <3>4. QED
      BY <3>1, <3>2, <3>3
  <2>3. \A k \in 1..n : k >= d.i + 1 => net'[d.todo[k]] = "unsent"
    <3> SUFFICES ASSUME NEW k \in 1..n, k >= d.i + 1 PROVE net'[d.todo[k]] = "unsent"
      OBVIOUS
    <3>1. k >= d.i /\ k # d.i
      BY <1>1
    <3>2. QED
      BY <1>1, <1>2, <1>10, <1>11, <3>1
  <2>4. /\ job'[s].todo = d.todo /\ job'[s].review = d.review /\ job'[s].step = j.step
        /\ job'[s].at = j.at /\ job'[s].i = j.i /\ body' = body /\ n = Len(d.todo)
        /\ j.step # 0 /\ (j.at = "send" => j.i = d.i + 1)
    BY <1>2, <1>5, <1>6
  <2> HIDE DEF d, n
  <2>5. QED
    BY <2>1, <2>2, <2>3, <2>4 DEF Sends, Taken
<1>15. Counts(s)'
  <2>1. CASE j.at = "send"
    <3>1. n = 2 /\ d.i = 1 /\ j.i = 2
      <4>1. d.i < n /\ j.i = d.i + 1
        BY <1>6, <2>1
      <4>2. n \in 0..2 /\ d.i \in 1..n
        BY <1>1
      <4> HIDE DEF n, d
      <4>3. n = 2 /\ d.i = 1 /\ d.i + 1 = 2
        BY <4>1, <4>2, OfTwo
      <4>4. QED
        BY <4>1, <4>3
    <3>2. p = d.todo[1]
      BY <1>0, <3>1
    <3>3. /\ body[p].lane = "evm" /\ body[d.todo[2]].nonce = body[p].nonce + 1
      BY <1>9, <3>1, <3>2
    <3>4. body[d.todo[2]].nonce = Cardinality(TakenFrom(job[s].gen)')
      BY <1>2, <1>11, <3>3
    <3>5. /\ job'[s].todo[job'[s].i] = d.todo[2] /\ job'[s].at = "send"
      BY <1>5, <1>6, <2>1, <3>1
    <3> HIDE DEF d, n
    <3>6. QED
      BY <3>4, <3>5 DEF Counts
  <2>2. CASE j.at # "send"
    <3>1. job'[s].at \notin {"approve", "record", "reply", "send"}
      BY <1>5, <1>6, <2>2
    <3>2. QED
      BY <3>1 DEF Counts
  <2>3. QED
    BY <2>1, <2>2
<1>16. ASSUME NEW t \in Slots, t # s, Delivers(t)
       PROVE  Gentle(job[t].review) /\ Steady(job[t].gen)
  <2>1. job[t].review # d.review /\ job[t].gen # d.gen
    BY <1>7, <1>16
  <2>2. \A q \in Proposals : verdict[q] = "none" => net[q] = "unsent"
    BY DEF SwapInv, BodyInv
  <2>3. Gentle(job[t].review)
    BY <1>2, <1>4, <1>11, <2>1, <2>2 DEF Gentle
  <2>4. QED
    BY <1>11, <2>1, <2>3
<1>17. HeldInv'
  BY <1>4, <1>5 DEF SwapInv, HeldInv
<1>18. BodyInv'
  BY <1>2, <1>4, <1>5, <1>11 DEF SwapInv, BodyInv
<1>19. UnsentInv'
  <2>1. stage \in {"Quoting", "Review"} => s # Page
    BY <1>1
  <2>2. stage \in {"Quoting", "Review"} =>
          \A q \in Proposals : body[q].review = draft.review => net'[q] = "unsent"
    BY <1>2, <1>8, <1>11, <2>1 DEF SwapInv, UnsentInv
  <2>3. CASE s = Page
    <3>1. j.step # 0 /\ stage = "Delivering"
      BY <1>1, <1>2, <1>6, <2>3
    <3>2. QED
      BY <1>5, <2>2, <2>3, <3>1 DEF UnsentInv
  <2>4. CASE s # Page
    <3>1. gen # d.gen
      <4>1. gen \in Nat
        BY SwapAssumption DEF SwapAssumption, SwapInv, TypeOK
      <4>2. QED
        BY <1>8, <2>4, <4>1
    <3>2. NextNonce' = NextNonce
      BY <1>5, <1>11, <3>1, SteadyCounts
    <3>3. job'[Page] = job[Page]
      BY <1>5, <2>4, PageIsSlot
    <3>4. QED
      BY <1>5, <2>2, <3>2, <3>3 DEF SwapInv, UnsentInv
  <2>5. QED
    BY <2>3, <2>4
<1>20. PendingInv'
  BY <1>4, <1>5 DEF SwapInv, PendingInv, PairIsHeld
<1>21. PairsInv'
  <2> SUFFICES ASSUME NEW a \in Proposals, NEW b \in Proposals, InPair(a, b)
               PROVE  /\ body[b].lane = "evm" /\ body[b].gen = body[a].gen
                      /\ body[b].nonce = body[a].nonce + 1
                      /\ net'[b] # "unsent" => net'[a] # "unsent"
    BY DEF PairsInv, Taken, InPair
  <2>1. /\ body[b].lane = "evm" /\ body[b].gen = body[a].gen
        /\ body[b].nonce = body[a].nonce + 1
        /\ net[b] # "unsent" => net[a] # "unsent"
    BY DEF SwapInv, PairsInv, Taken
  <2>2. CASE b = p
    <3>1. /\ n = 2 /\ a = d.todo[1] /\ d.i = n
      BY <1>2, <1>9, <2>2 DEF InPair
    <3>2. 1 \in 1..n /\ 1 < d.i
      BY <3>1
    <3>3. net[a] # "unsent"
      BY <1>10, <3>1, <3>2
    <3>4. QED
      BY <1>11, <2>1, <3>3
  <2>3. CASE b # p
    BY <1>11, <2>1, <2>3
  <2>4. QED
    BY <2>2, <2>3
<1>22. SwapsOnce'
  <2>1. \A q \in Proposals : q # p /\ net[q] # "unsent" /\ body[q].kind = "swap" =>
          ~(body[p].kind = "swap" /\ body[q].review = d.review)
    <3> SUFFICES ASSUME NEW q \in Proposals, q # p, net[q] # "unsent", body[q].kind = "swap",
                        body[p].kind = "swap", body[q].review = d.review
                 PROVE  FALSE
      OBVIOUS
    <3>1. d.i = n
      BY <1>2
    <3>2. PICK k \in 1..n : q = d.todo[k]
      BY <1>10
    <3>3. k = n
      BY <1>9, <3>2
    <3>4. QED
      BY <1>0, <3>1, <3>2, <3>3
  <2>2. \A q \in Proposals : net'[q] # "unsent" => q = p \/ net[q] # "unsent"
    BY <1>11
  <2>3. QED
    BY <1>2, <2>1, <2>2 DEF SwapInv, SwapsOnce, Taken
<1>23. BothSignedFirst'
  <2> SUFFICES ASSUME NEW a \in Proposals, body[a].kind = "approve", net'[a] # "unsent"
               PROVE  \E b \in Proposals : InPair(a, b) /\ signatures[b] = 1
    BY <1>4 DEF BothSignedFirst, Taken, InPair
  <2>1. CASE a = p
    <3>1. n = 2
      BY <1>2, <1>9, <2>1
    <3>2. 2 \in 1..n
      BY <3>1
    <3>3. QED
      BY <1>1, <1>2, <1>9, <2>1, <3>1, <3>2 DEF InPair
  <2>2. CASE a # p
    BY <1>11, <2>2 DEF SwapInv, BothSignedFirst, Taken
  <2>3. QED
    BY <2>1, <2>2
<1>24. s # Page \/ Sol \/ j.todo = d.todo
  BY <1>6
<1> HIDE DEF d, n
<1>25. QED
  BY <1>1, <1>4, <1>5, <1>6, <1>11, <1>12, <1>13, <1>14, <1>15, <1>16, <1>17, <1>18, <1>19,
     <1>20, <1>21, <1>22, <1>23, <1>24, DeliveryMoves DEF d

LEMMA BroadcastKeeps ==
  ASSUME SwapInv, NEW s \in Slots, Broadcast(s)
  PROVE  SwapInv'
<1> DEFINE d == job[s]
           takes == net' = [net EXCEPT ![d.todo[d.i]] = "taken"]
           next == [d EXCEPT !.i = d.i + 1]
           last == [d EXCEPT !.at = "poll", !.step = 2]
           lost == [d EXCEPT !.at = "failed"]
<1>1. /\ d.at = "send" /\ d.at \in Stepping
      /\ UNCHANGED authority /\ body' = body /\ allowance' = allowance
  BY DEF Broadcast, Stepping
<1>2. d \in Deliveries(d.click, d.swap) /\ d.i \in 1..Len(d.todo)
  BY <1>1, StepperDelivers
<1>3. CASE takes /\ d.i < Len(d.todo) /\ SetJob(s, next)
  <2>1. PICK c, w : c = d.click /\ w = d.swap /\ d \in Deliveries(c, w)
    BY <1>2
  <2>2. d.i + 1 \in Nat /\ d.i < Len(d.todo)
    BY <1>2, <1>3
  <2>3. SetJob(s, next) /\ takes
    BY <1>3
  <2> HIDE DEF d, takes
  <2>4. next \in Deliveries(c, w) /\ GoesOn(d, next)
    BY <1>1, <2>1, <2>2 DEF Deliveries, GoesOn
  <2> HIDE DEF next
  <2>5. QED
    BY <1>1, <2>1, <2>3, <2>4, TakesKeeps DEF d, takes
<1>4. CASE takes /\ SetJob(s, last)
  <2>1. PICK c, w : c = d.click /\ w = d.swap /\ d \in Deliveries(c, w)
    BY <1>2
  <2>2. "poll" \in Ats /\ 2 \in 0..2
    BY DEF Ats
  <2>3. SetJob(s, last) /\ takes
    BY <1>4
  <2> HIDE DEF d, takes
  <2>4. last \in Deliveries(c, w) /\ GoesOn(d, last)
    BY <1>1, <2>1, <2>2 DEF Deliveries, GoesOn
  <2> HIDE DEF last
  <2>5. QED
    BY <1>1, <2>1, <2>3, <2>4, TakesKeeps DEF d, takes
<1>5. CASE takes /\ Fails(s)
  <2>1. PICK c, w : c = d.click /\ w = d.swap /\ d \in Deliveries(c, w)
    BY <1>2
  <2>2. "failed" \in Ats
    BY DEF Ats
  <2>3. SetJob(s, lost) /\ takes
    BY <1>5 DEF Fails
  <2> HIDE DEF d, takes
  <2>4. lost \in Deliveries(c, w) /\ GoesOn(d, lost)
    BY <1>1, <2>1, <2>2 DEF Deliveries, GoesOn
  <2> HIDE DEF lost
  <2>5. QED
    BY <1>1, <2>1, <2>3, <2>4, TakesKeeps DEF d, takes
<1>6. CASE UNCHANGED net /\ Fails(s)
  BY <1>1, <1>6, FailsKeeps
<1>7. QED
  BY <1>3, <1>4, <1>5, <1>6 DEF Broadcast

-----------------------------------------------------------------------------
(* Every step *)

LEMMA StutterKeeps ==
  ASSUME SwapInv, UNCHANGED vars
  PROVE  SwapInv'
<1>1. /\ gen' = gen /\ seen' = seen /\ alive' = alive /\ verdict' = verdict
      /\ recorded' = recorded /\ signatures' = signatures /\ body' = body
      /\ stage' = stage /\ draft' = draft /\ shown' = shown /\ pair' = pair
      /\ job' = job /\ net' = net /\ allowance' = allowance /\ reviews' = reviews
  BY DEF vars, authority, screen
<1>2. (TypeOK /\ DraftInv /\ PageInv /\ HeldInv /\ BodyInv)'
  BY <1>1 DEF SwapInv, TypeOK, DraftInv, PageInv, HeldInv, BodyInv, Delivers, Sol
<1>3. (DeliveryInv /\ ApartInv)'
  <2>1. (\A r : Gentle(r)) /\ \A g : Steady(g)
    BY <1>1 DEF Gentle, Steady, SwapInv, BodyInv
  <2>2. \A s \in Slots : Delivers(s)' => Delivers(s) /\ job'[s] = job[s]
    BY <1>1 DEF Delivers
  <2>3. DeliveryInv'
    BY <1>1, <2>1, <2>2, DeliveriesStay
  <2>4. ApartInv'
    BY <1>1 DEF SwapInv, ApartInv, Delivers
  <2>5. QED
    BY <2>3, <2>4
<1>4. (UnsentInv /\ PendingInv /\ PairsInv /\ SwapsOnce /\ BothSignedFirst)'
  BY <1>1 DEF SwapInv, UnsentInv, PendingInv, PairIsHeld, PairsInv, SwapsOnce,
              BothSignedFirst, InPair, Taken, NextNonce, TakenFrom
<1>5. NonceInv'
  <2>1. \A g : TakenFrom(g)' = TakenFrom(g) /\ SettledOf(g)' = SettledOf(g)
    BY <1>1 DEF TakenFrom, SettledOf, Taken, Settled
  <2>2. QED
    BY <1>1, <2>1 DEF SwapInv, NonceInv
<1>6. QED
  BY <1>2, <1>3, <1>4, <1>5 DEF SwapInv

LEMMA OutsideKeeps ==
  ASSUME SwapInv, Outside
  PROVE  SwapInv'
<1>1. CASE ChildDies
  <2>1. /\ Authority!Lose(Unfinished) /\ alive' = FALSE /\ gen' = gen /\ seen' = seen
        /\ UNCHANGED <<body, stage, draft, shown, pair, job, net, allowance, reviews>>
    BY <1>1 DEF ChildDies, screen
  <2>2. gen \in 0..MaxSwitches /\ seen \in BOOLEAN
    BY DEF SwapInv, TypeOK
  <2>3. QED
    BY <2>1, <2>2, LossKeeps
<1>2. CASE SwitchWallet
  <2>1. /\ Authority!Lose(Unfinished) /\ alive' = TRUE /\ gen' = gen + 1
        /\ gen < MaxSwitches /\ seen /\ seen' = FALSE
        /\ UNCHANGED <<body, stage, draft, shown, pair, job, net, allowance, reviews>>
    BY <1>2 DEF SwitchWallet, screen
  <2>2. gen + 1 \in 0..MaxSwitches
    BY <2>1, SwapAssumption DEF SwapAssumption, SwapInv, TypeOK
  <2>3. QED
    BY <2>1, <2>2, LossKeeps
<1>3. QED
  BY <1>1, <1>2, ConfirmHalfKeeps, MineKeeps DEF Outside

LEMMA StepSwap == SwapInv /\ [Next]_vars => SwapInv'
<1> SUFFICES ASSUME SwapInv, [Next]_vars PROVE SwapInv'
  OBVIOUS
<1>1. CASE Human
  BY <1>1, BeginKeeps, ConfirmPairKeeps, ConfirmSolKeeps, CancelKeeps, BackKeeps DEF Human
<1>2. CASE Refreshes
  BY <1>2, RefreshesKeeps
<1>3. CASE Thread
  <2>1. ASSUME NEW s \in Slots, DeliveryStep(s) PROVE SwapInv'
    BY <2>1, BuildKeeps, AskKeeps, RecordKeeps, SignatureKeeps, BroadcastKeeps, PollsKeep
       DEF DeliveryStep
  <2>2. QED
    BY <1>3, <2>1, QuoteEndsKeeps DEF Thread
<1>4. CASE Frame
  BY <1>4, PollKeeps, SwitchSeenKeeps DEF Frame
<1>5. CASE Outside
  BY <1>5, OutsideKeeps
<1>6. CASE UNCHANGED vars
  BY <1>6, StutterKeeps
<1>7. QED
  BY <1>1, <1>2, <1>3, <1>4, <1>5, <1>6 DEF Next

\* The state of the swap page, of its threads and of the chain fit together:
\* poll_swap_job, the delivery job and frame() of swap_page.cpp preserve it.
THEOREM SwapInvariant == Spec => []SwapInv
BY InitSwap, StepSwap, PTL DEF Spec

-----------------------------------------------------------------------------
(* What it implies *)

\* What a delivery thread signs is the quote on the screen when the passphrase
\* was typed (confirm_swap hands its figures to the job by value).
THEOREM TheQuoteIsSigned == Spec => []SignsTheQuote
<1>1. SwapInv => SignsTheQuote
  <2> SUFFICES ASSUME SwapInv, NEW s \in Slots, Signing(job[s]), NEW i \in DOMAIN job[s].todo
               PROVE  body[job[s].todo[i]].figures = job[s].click
    BY DEF SignsTheQuote
  <2>1. job[s].at \in Stepping
    BY DEF Signing, Stepping
  <2>2. Asks(s) /\ job[s].todo \in Seq(Proposals)
    BY <2>1, StepperDelivers
  <2>3. i \in 1..Len(job[s].todo)
    BY <2>2
  <2>4. QED
    BY <2>2, <2>3 DEF Asks
<1>2. QED
  BY <1>1, SwapInvariant, PTL

\* Nothing of a pair is broadcast before both its signatures are there: the job
\* signs all of its proposals before it sends the first.
THEOREM NothingSentHalfSigned == Spec => []BothSignedFirst
<1>1. SwapInv => BothSignedFirst
  BY DEF SwapInv
<1>2. QED
  BY <1>1, SwapInvariant, PTL

\* One review swaps at most once, whatever tries failed and whichever threads
\* the page has let go of.
THEOREM OneSwapPerReview == Spec => []SwapsOnce
<1>1. SwapInv => SwapsOnce
  BY DEF SwapInv
<1>2. QED
  BY <1>1, SwapInvariant, PTL

\* No half of a pair waits in a live child where Cancel would not deny it.
THEOREM NoHalfIsForgotten == Spec => []PairIsHeld
<1>1. SwapInv => PairIsHeld
  BY DEF SwapInv, PendingInv
<1>2. QED
  BY <1>1, SwapInvariant, PTL

\* The chain settles an approval before its swap: the swap has the next nonce
\* of the same sender, and what is mined has the first nonces.
LEMMA ApprovalSettlesFirst == SwapInv => PairRunsInOrder
<1> SUFFICES ASSUME SwapInv, NEW a \in Proposals, NEW s \in Proposals, InPair(a, s), Settled(s)
             PROVE  Settled(a)
  BY DEF PairRunsInOrder
<1>1. /\ body[s].lane = "evm" /\ body[s].gen = body[a].gen
      /\ body[s].nonce = body[a].nonce + 1 /\ Taken(s) /\ Taken(a)
  BY DEF SwapInv, PairsInv, Taken, Settled
<1>2. /\ body[a].lane = "evm" /\ body[a].nonce \in Nat /\ body[a].gen \in 0..gen
      /\ gen \in 0..MaxSwitches
  BY <1>1 DEF SwapInv, BodyInv, TypeOK, InPair, Taken
<1>3. PICK g \in 0..MaxSwitches : g = body[a].gen
  BY <1>2, SwapAssumption DEF SwapAssumption
<1>4. a \in TakenFrom(g) /\ s \in SettledOf(g)
  BY <1>1, <1>2, <1>3 DEF TakenFrom, SettledOf
<1>5. /\ body[s].nonce < Cardinality(SettledOf(g))
      /\ \A p, q \in TakenFrom(g) : body[p].nonce = body[q].nonce => p = q
      /\ \A n \in Nat : n < Cardinality(SettledOf(g)) =>
           \E p \in SettledOf(g) : body[p].nonce = n
  BY <1>4 DEF SwapInv, NonceInv
<1>6. Cardinality(SettledOf(g)) \in Nat
  BY FiniteTaken
<1>7. body[a].nonce < Cardinality(SettledOf(g))
  BY <1>1, <1>2, <1>5, <1>6
<1>8. PICK p \in SettledOf(g) : body[p].nonce = body[a].nonce
  BY <1>2, <1>5, <1>7
<1>9. p \in TakenFrom(g) /\ Settled(p)
  BY DEF SettledOf
<1>10. p = a
  BY <1>4, <1>5, <1>8, <1>9
<1>11. QED
  BY <1>9, <1>10

\* The approval of a pair executes first, whatever earlier reviews left in the
\* sender's queue ("Nonce order guarantees the approval executes first").
THEOREM ApprovalRunsFirst == Spec => []PairRunsInOrder
BY ApprovalSettlesFirst, SwapInvariant, PTL

=============================================================================
