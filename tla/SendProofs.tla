----------------------------- MODULE SendProofs -----------------------------
(* Theorems about SendFlow, for any number of reviews, proposals, polls    *)
(* and changes of wallet, whatever the quotes and the wallets are.         *)
(*                                                                         *)
(* SendInv ties the stage of the page to its job, each delivery to the     *)
(* proposal it was started for, and a review to the one proposal of it     *)
(* that may have reached the chain.                                        *)
EXTENDS SendFlow, FiniteSetTheorems, WellFoundedInduction, TLAPS

-----------------------------------------------------------------------------
(* The inductive invariant *)

\* The delivery of a proposal that stood on the screen as c.
Deliveries(c) ==
  [at : {"approve", "record", "reply", "send", "poll", "ok", "failed"},
   requote : {FALSE}, step : 0..2, review : Reviews, p : Proposals,
   good : BOOLEAN, click : {c}, gen : 0..MaxSwitches, tries : 0..MaxPolls,
   success : BOOLEAN, heard : BOOLEAN]

\* A slot holds a delivery: the page's does in the last stages only.
Delivers(s) ==
  /\ job[s].at # "none"
  /\ s # Page \/ stage \in {"Delivering", "Done", "Failed"}

\* The review is the last one begun, or none; a proposal is of this review.
DraftInv ==
  /\ draft.review \in 0..reviews
  /\ stage # "Form" => draft.review # 0
  /\ stage \in {"Form", "Quoting"} => proposal = 0
  /\ stage = "Delivering" => proposal # 0
  /\ proposal # 0 => verdict[proposal] # "none" /\ body[proposal] = OnScreen

\* What the stage says of the page's job.
PageInv ==
  /\ stage = "Form" => job[Page].at = "none"
  /\ stage = "Quoting" => /\ job[Page].at \in {"quote", "ok", "failed"}
                          /\ job[Page].requote = FALSE
  /\ stage = "Review" => \/ job[Page].at = "none"
                         \/ /\ job[Page].at \in {"requote", "ok", "failed"}
                            /\ job[Page].requote = TRUE /\ proposal = 0
  /\ stage = "Delivering" => job[Page].at # "none"
  /\ stage = "Done" => job[Page].at = "ok"
  /\ stage = "Failed" => job[Page].at \in {"none", "failed"}
  /\ Delivers(Page) => /\ job[Page].p = proposal /\ job[Page].click = OnScreen
                       /\ job[Page].review = draft.review

\* A delivery asks to sign what its click showed.
Asks(s) ==
  /\ verdict[job[s].p] # "none"
  /\ body[job[s].p] = job[s].click /\ body[job[s].p].review = job[s].review

\* The step tells before the signature from after, and no delivery is past
\* its approval while the proposal is pending.
Marks(s) ==
  /\ job[s].at \in {"approve", "record", "reply"} => job[s].step = 0
  /\ job[s].at \in {"send", "poll", "ok"} => job[s].step # 0
  /\ job[s].at \in {"record", "reply"} \/ job[s].step # 0 =>
       verdict[job[s].p] # "pending"

\* Of the review a delivery is for, no other proposal was sent, and its own
\* was not before the thread reached its broadcast.
Sends(s) ==
  /\ \A q \in Proposals : q # job[s].p /\ body[q].review = job[s].review =>
       net[q] = "unsent"
  /\ job[s].step = 0 \/ job[s].at = "send" => net[job[s].p] = "unsent"

\* A delivery that ended well tells what became of the transaction.
Tells(s) ==
  job[s].at = "ok" =>
    net[job[s].p] \in IF ~job[s].success THEN {"reverted"}
                      ELSE IF body[job[s].p].wish.lane = "btc"
                      THEN {"taken", "mined", "reverted"} ELSE {"mined"}

DeliveryInv ==
  \A s \in Slots : Delivers(s) =>
    /\ job[s] \in Deliveries(job[s].click)
    /\ Asks(s) /\ Marks(s) /\ Sends(s) /\ Tells(s)

\* Two deliveries are for two reviews, and a thread the page let go of is not
\* for the review on the screen.
ApartInv ==
  /\ \A s, t \in Slots :
       Delivers(s) /\ Delivers(t) /\ job[s].review = job[t].review => s = t
  /\ \A s \in Slots : s # Page /\ Delivers(s) => job[s].review # draft.review

\* A transaction comes from a proposal, a proposal from a review.
SentInv ==
  \A p \in Proposals :
    /\ net[p] # "unsent" => verdict[p] # "none"
    /\ body[p].review \in 0..reviews

\* Before the confirmation nothing of the review was sent.
UnsentInv ==
  stage \in {"Quoting", "Review"} =>
    \A p \in Proposals : body[p].review = draft.review => net[p] = "unsent"

\* Nothing is pending where the page could not deny it, nor behind a receipt.
PendingInv ==
  /\ PendingIsHeld
  /\ ~alive \/ ~seen => \A p \in Proposals : verdict[p] # "pending"
  /\ stage \in {"Done", "Failed"} /\ proposal # 0 => verdict[proposal] # "pending"

\* The bell of the review on the screen has not rung.
BellInv ==
  \A r \in Reviews :
    r > reviews \/ (r = draft.review /\ stage \in {"Quoting", "Review", "Delivering"}) =>
      bells[r] = 0

SendInv ==
  /\ TypeOK /\ DraftInv /\ PageInv /\ DeliveryInv /\ ApartInv /\ SentInv
  /\ UnsentInv /\ PendingInv /\ BellInv /\ PaysOnce

-----------------------------------------------------------------------------
(* What is on the screen, and deliveries a step leaves alone *)

LEMMA ScreenStays ==
  ASSUME UNCHANGED screen
  PROVE  OnScreen' = OnScreen
BY DEF screen, OnScreen

LEMMA ScreenIsReview == OnScreen.review = draft.review /\ OnScreen.wish = draft.wish
BY DEF OnScreen

\* What a step may do to the proposals without disturbing a delivery of
\* review r: verdicts are not taken back, what is asked to sign stays, and
\* no transaction of the review is sent.
Gentle(r) ==
  \A q \in Proposals :
    /\ verdict[q] # "none" =>
         /\ verdict'[q] # "none" /\ body'[q] = body[q]
         /\ verdict'[q] = "pending" => verdict[q] = "pending"
    /\ verdict[q] = "none" => net'[q] = "unsent"
    /\ \/ net'[q] = net[q]
       \/ net[q] = "taken" /\ net'[q] \in {"mined", "reverted"}
       \/ body[q].review # r

LEMMA DeliveryStays ==
  ASSUME SendInv, NEW s \in Slots, NEW t \in Slots, Delivers(t), job'[s] = job[t],
         Gentle(job[t].review)
  PROVE  /\ job'[s] \in Deliveries(job'[s].click)
         /\ Asks(s)' /\ Marks(s)' /\ Sends(s)' /\ Tells(s)'
<1> DEFINE j == job[t]
<1>1. j \in Deliveries(j.click) /\ Asks(t) /\ Marks(t) /\ Sends(t) /\ Tells(t)
  BY DEF SendInv, DeliveryInv
<1>2. j.p \in Proposals
  BY <1>1 DEF Deliveries
<1>3. Asks(s)' /\ Marks(s)'
  BY <1>1, <1>2 DEF Asks, Marks, Gentle
<1>4. Sends(s)'
  BY <1>1, <1>2 DEF Asks, Sends, Gentle
<1>5. Tells(s)'
  BY <1>1, <1>2 DEF Asks, Tells, Gentle
<1>6. QED
  BY <1>1, <1>3, <1>4, <1>5

\* The same for all that were deliveries before.
LEMMA DeliveriesStay ==
  ASSUME SendInv, \A s \in Slots : Gentle(job[s].review),
         \A s \in Slots : Delivers(s)' => Delivers(s) /\ job'[s] = job[s]
  PROVE  DeliveryInv'
BY DeliveryStays DEF DeliveryInv

LEMMA StayApart ==
  ASSUME SendInv,
         \A s \in Slots : Delivers(s)' => Delivers(s) /\ job'[s] = job[s],
         draft' = draft \/ \A s \in Slots : Delivers(s)' => job[s].review # draft'.review
  PROVE  ApartInv'
BY DEF SendInv, ApartInv

\* Nothing is sent and nothing proposed.
LEMMA NothingSent ==
  ASSUME SendInv, UNCHANGED <<net, body>>, reviews' \in {reviews, reviews + 1},
         \A q \in Proposals :
           /\ verdict[q] # "none" => verdict'[q] # "none"
           /\ verdict'[q] = "pending" => verdict[q] = "pending"
  PROVE  PaysOnce' /\ SentInv' /\ \A r : Gentle(r)
<1>1. reviews \in Nat /\ \A p \in Proposals : body[p].review \in 0..reviews
  BY SendAssumption DEF SendAssumption, SendInv, TypeOK, SentInv
<1>2. \A p \in Proposals : body[p].review \in 0..reviews'
  BY <1>1
<1>3. SentInv'
  BY <1>2 DEF SendInv, SentInv
<1>4. PaysOnce'
  BY DEF SendInv, PaysOnce
<1>5. \A r : Gentle(r)
  BY DEF SendInv, SentInv, Gentle
<1>6. QED
  BY <1>3, <1>4, <1>5

-----------------------------------------------------------------------------
(* The form and the quote *)

LEMMA InitSend == Init => SendInv
<1> SUFFICES ASSUME Init PROVE SendInv
  OBVIOUS
<1>1. /\ stage = "Form" /\ proposal = 0 /\ reviews = 0 /\ seen = TRUE /\ alive = TRUE
      /\ \A s \in Slots : job[s].at = "none"
      /\ \A p \in Proposals : /\ verdict[p] = "none" /\ net[p] = "unsent"
                              /\ body[p].review = 0
      /\ draft.review = 0 /\ \A r \in Reviews : bells[r] = 0
  BY DEF Init, Authority!Init, NoJob, NoBody, NoDraft
<1>2. TypeOK
  <2>1. switches \in 0..MaxSwitches /\ reviews \in 0..MaxReviews
    BY SendAssumption DEF SendAssumption, Init
  <2>2. /\ verdict \in [Proposals -> Authority!Verdicts]
        /\ recorded \subseteq Proposals /\ signatures \in [Proposals -> {0, 1}]
    BY DEF Init, Authority!Init, Authority!Verdicts
  <2>3. bells \in [Reviews -> 0..1]
    BY DEF Init
  <2>4. QED
    BY <1>1, <2>1, <2>2, <2>3 DEF Init, TypeOK, Stages, Tiers
<1>3. \A s \in Slots : ~Delivers(s)
  BY <1>1 DEF Delivers
<1>4. DraftInv /\ PageInv
  BY <1>1, SendAssumption DEF SendAssumption, DraftInv, PageInv, Delivers, Slots, Page
<1>5. DeliveryInv /\ ApartInv
  BY <1>3 DEF DeliveryInv, ApartInv
<1>6. SentInv /\ UnsentInv /\ BellInv /\ PaysOnce
  BY <1>1 DEF SentInv, UnsentInv, BellInv, PaysOnce
<1>7. PendingInv
  BY <1>1 DEF PendingInv, PendingIsHeld
<1>8. QED
  BY <1>2, <1>4, <1>5, <1>6, <1>7 DEF SendInv

\* The page's slot is one of the slots.
LEMMA PageIsSlot == Page \in Slots
BY SendAssumption DEF SendAssumption, Slots, Page

LEMMA OpensKeeps ==
  ASSUME SendInv, NEW w, NEW preset, Opens(w, preset)
  PROVE  SendInv'
<1>1. /\ stage = "Form" /\ stage' = "Quoting" /\ reviews' = reviews + 1
      /\ draft'.review = reviews + 1 /\ reviews + 1 \in Reviews
      /\ reviews \in Nat /\ draft.review \in 0..reviews
      /\ UNCHANGED <<wallet, seen, switches, alive, verdict, recorded, signatures,
                     body, tier, proposal, net, bells, repriced>>
  BY SendAssumption
     DEF SendAssumption, Opens, SendInv, TypeOK, DraftInv, Reviews, authority
<1>2. /\ job'[Page].at = "quote" /\ job'[Page].requote = FALSE
      /\ \A s \in Slots : s # Page => job'[s] = job[s]
      /\ DOMAIN job' = Slots
  BY PageIsSlot DEF Opens, QuoteJob, SendInv, TypeOK
<1>3. TypeOK'
  BY <1>1, <1>2 DEF SendInv, TypeOK, Stages, Reviews, Threads
<1>4. \A s \in Slots : Delivers(s)' => Delivers(s) /\ job'[s] = job[s]
  BY <1>1, <1>2 DEF Delivers
<1>5. PaysOnce' /\ SentInv' /\ \A r : Gentle(r)
  BY <1>1, NothingSent
<1>6. DeliveryInv'
  BY <1>4, <1>5, DeliveriesStay
<1>7. \A s \in Slots : Delivers(s) => job[s].review \in 0..reviews
  BY <1>1 DEF SendInv, DeliveryInv, Asks, SentInv, Deliveries
<1>8. ApartInv'
  BY <1>1, <1>4, <1>7, StayApart
<1>9. DraftInv' /\ PageInv'
  BY <1>1, <1>2 DEF SendInv, DraftInv, PageInv, Delivers
<1>10. UnsentInv'
  BY <1>1 DEF SendInv, SentInv, UnsentInv
<1>11. PendingInv'
  BY <1>1 DEF SendInv, PendingInv, PendingIsHeld
<1>12. BellInv'
  BY <1>1 DEF SendInv, BellInv, Reviews
<1>13. QED
  BY <1>3, <1>5, <1>6, <1>8, <1>9, <1>10, <1>11, <1>12 DEF SendInv

\* A step of the page's quote thread, or of the frame that starts or ends it.
LEMMA QuoteStarts ==
  ASSUME SendInv, StartRequote, stage = "Review", proposal = 0
  PROVE  SendInv'
<1>1. UNCHANGED <<wallet, seen, switches, alive, verdict, recorded, signatures, body,
                  stage, draft, shown, tier, sel, proposal, net, reviews, bells, repriced>>
  BY DEF StartRequote, authority, screen
<1>2. /\ job'[Page].at = "requote" /\ job'[Page].requote = TRUE
      /\ \A s \in Slots : s # Page => job'[s] = job[s]
      /\ DOMAIN job' = Slots
  BY PageIsSlot DEF StartRequote, SendInv, TypeOK
<1>3. TypeOK'
  BY <1>1, <1>2 DEF SendInv, TypeOK, Threads
<1>4. \A s \in Slots : Delivers(s)' => Delivers(s) /\ job'[s] = job[s]
  BY <1>1, <1>2 DEF Delivers
<1>5. PaysOnce' /\ SentInv' /\ \A r : Gentle(r)
  BY <1>1, NothingSent
<1>6. DeliveryInv' /\ ApartInv'
  BY <1>1, <1>4, <1>5, DeliveriesStay, StayApart
<1>7. OnScreen' = OnScreen
  BY <1>1, ScreenStays DEF screen
<1>8. DraftInv' /\ PageInv'
  BY <1>1, <1>2, <1>7 DEF SendInv, DraftInv, PageInv, Delivers
<1>9. UnsentInv' /\ PendingInv' /\ BellInv'
  BY <1>1 DEF SendInv, UnsentInv, PendingInv, PendingIsHeld, BellInv
<1>10. QED
  BY <1>3, <1>5, <1>6, <1>8, <1>9 DEF SendInv

LEMMA QuoteEndsKeeps ==
  ASSUME SendInv, NEW quotes, NEW answers, QuoteEnds(quotes, answers)
  PROVE  SendInv'
<1>1. UNCHANGED <<wallet, seen, switches, alive, verdict, recorded, signatures, body,
                  stage, draft, shown, tier, sel, proposal, net, reviews, bells, repriced>>
  BY DEF QuoteEnds, SetJob, authority, screen
<1>2. /\ job[Page].at \in {"quote", "requote"}
      /\ job'[Page].at \in {"ok", "failed"} /\ job'[Page].requote = job[Page].requote
      /\ \A s \in Slots : s # Page => job'[s] = job[s]
      /\ DOMAIN job' = Slots
  BY PageIsSlot DEF QuoteEnds, SetJob, SendInv, TypeOK
<1>3. stage \in {"Quoting", "Review"}
  <2>1. ~Delivers(Page)
    BY <1>2, PageIsSlot DEF SendInv, DeliveryInv, Deliveries
  <2>2. QED
    BY <1>2, <2>1 DEF SendInv, TypeOK, Stages, PageInv, Delivers
<1>4. TypeOK'
  BY <1>1, <1>2 DEF SendInv, TypeOK
<1>5. \A s \in Slots : Delivers(s)' => Delivers(s) /\ job'[s] = job[s]
  BY <1>1, <1>2, <1>3 DEF Delivers
<1>6. PaysOnce' /\ SentInv' /\ \A r : Gentle(r)
  BY <1>1, NothingSent
<1>7. DeliveryInv' /\ ApartInv'
  BY <1>1, <1>5, <1>6, DeliveriesStay, StayApart
<1>8. OnScreen' = OnScreen
  BY <1>1, ScreenStays DEF screen
<1>9. DraftInv' /\ PageInv'
  BY <1>1, <1>2, <1>3, <1>8 DEF SendInv, DraftInv, PageInv, Delivers
<1>10. UnsentInv' /\ PendingInv' /\ BellInv'
  BY <1>1 DEF SendInv, UnsentInv, PendingInv, PendingIsHeld, BellInv
<1>11. QED
  BY <1>4, <1>6, <1>7, <1>9, <1>10 DEF SendInv

-----------------------------------------------------------------------------
(* The review and the confirmation *)

LEMMA PickTierKeeps ==
  ASSUME SendInv, NEW t \in Tiers, PickTier(t)
  PROVE  SendInv'
<1>1. /\ stage = "Review" /\ tier' = t /\ proposal' = 0 /\ seen
      /\ repriced' = repriced \cup ({proposal} \ {0})
      /\ UNCHANGED <<wallet, seen, switches, alive, verdict, recorded, signatures, body,
                     stage, draft, shown, job, net, reviews, bells>>
  BY DEF PickTier, authority
<1>2. TypeOK'
  BY <1>1 DEF SendInv, TypeOK
<1>3. \A s \in Slots : Delivers(s)' => Delivers(s) /\ job'[s] = job[s]
  BY <1>1 DEF Delivers
<1>4. PaysOnce' /\ SentInv' /\ \A r : Gentle(r)
  BY <1>1, NothingSent
<1>5. DeliveryInv' /\ ApartInv'
  BY <1>1, <1>3, <1>4, DeliveriesStay, StayApart
<1>6. DraftInv' /\ PageInv'
  BY <1>1 DEF SendInv, DraftInv, PageInv, Delivers
<1>7. UnsentInv' /\ BellInv'
  BY <1>1 DEF SendInv, UnsentInv, BellInv
<1>8. PendingInv'
  BY <1>1 DEF SendInv, PendingInv, PendingIsHeld, TypeOK
<1>9. QED
  BY <1>2, <1>4, <1>5, <1>6, <1>7, <1>8 DEF SendInv

\* A proposal for which the delivery starts: the one of an earlier try or a
\* new one, and in both cases it is what stands on the screen.
LEMMA ConfirmsIs ==
  ASSUME SendInv, NEW good \in BOOLEAN, Confirms(good)
  PROVE  /\ stage = "Review" /\ stage' = "Delivering" /\ seen /\ job[Page].at = "none"
         /\ UNCHANGED <<wallet, seen, switches, alive, recorded, signatures, draft,
                        shown, tier, sel, net, reviews, bells, repriced>>
         /\ \E p \in Proposals :
              /\ proposal' = p /\ job' = [job EXCEPT ![Page] = Deliver(p, good)]
              /\ body'[p] = OnScreen /\ verdict'[p] # "none"
              /\ DOMAIN body' = Proposals
              /\ verdict' \in [Proposals -> Authority!Verdicts]
              /\ \A q \in Proposals : q # p => body'[q] = body[q] /\ verdict'[q] = verdict[q]
              /\ \/ p = proposal /\ UNCHANGED <<body, verdict>>
                 \/ proposal = 0 /\ verdict[p] = "none" /\ alive
<1>1. /\ stage = "Review" /\ stage' = "Delivering" /\ seen /\ job[Page].at = "none"
      /\ UNCHANGED <<wallet, seen, switches, alive, draft, shown, tier, sel, net,
                     reviews, bells, repriced>>
  BY DEF Confirms, Confirmable, Idle, NoJob, screen
<1>2. CASE proposal # 0
  <2>1. /\ proposal \in Proposals /\ verdict[proposal] # "none"
        /\ body[proposal] = OnScreen /\ DOMAIN body = Proposals
        /\ verdict \in [Proposals -> Authority!Verdicts]
    BY <1>2 DEF SendInv, TypeOK, DraftInv
  <2>2. /\ proposal' = proposal /\ UNCHANGED <<body, verdict, recorded, signatures>>
        /\ job' = [job EXCEPT ![Page] = Deliver(proposal, good)]
    BY <1>2 DEF Confirms, authority
  <2>3. QED
    BY <1>1, <2>1, <2>2
<1>3. CASE proposal = 0
  <2>1. PICK p \in Proposals :
          /\ alive /\ Authority!Submit(p)
          /\ body' = [body EXCEPT ![p] = OnScreen]
          /\ proposal' = p
          /\ job' = [job EXCEPT ![Page] = Deliver(p, good)]
    BY <1>3 DEF Confirms
  <2>2. /\ verdict[p] = "none" /\ verdict' = [verdict EXCEPT ![p] = "pending"]
        /\ UNCHANGED <<recorded, signatures>>
    BY <2>1 DEF Authority!Submit
  <2>3. /\ verdict' \in [Proposals -> Authority!Verdicts] /\ verdict'[p] = "pending"
        /\ \A q \in Proposals : q # p => verdict'[q] = verdict[q]
    BY <2>2 DEF SendInv, TypeOK, Authority!Verdicts
  <2>4. /\ body'[p] = OnScreen /\ DOMAIN body' = Proposals
        /\ \A q \in Proposals : q # p => body'[q] = body[q]
    BY <2>1 DEF SendInv, TypeOK
  <2>5. QED
    BY <1>1, <1>3, <2>1, <2>2, <2>3, <2>4
<1>4. QED
  BY <1>2, <1>3

\* A delivery that starts is one, and of what is on the screen.
LEMMA DeliverIs ==
  ASSUME SendInv, stage # "Form", NEW p \in Proposals, NEW good \in BOOLEAN
  PROVE  /\ Deliver(p, good) \in Deliveries(OnScreen)
         /\ Deliver(p, good).at = "approve" /\ Deliver(p, good).step = 0
         /\ Deliver(p, good).p = p /\ Deliver(p, good).click = OnScreen
         /\ Deliver(p, good).review = draft.review
<1>1. draft.review \in Reviews
  BY SendAssumption DEF SendAssumption, SendInv, TypeOK, DraftInv, Reviews
<1>2. switches \in 0..MaxSwitches /\ 0 \in 0..MaxPolls
  BY SendAssumption DEF SendAssumption, SendInv, TypeOK
<1>3. QED
  BY <1>1, <1>2 DEF Deliver, Deliveries

LEMMA ConfirmsKeeps ==
  ASSUME SendInv, NEW good \in BOOLEAN, Confirms(good)
  PROVE  SendInv'
<1>1. /\ stage = "Review" /\ stage' = "Delivering" /\ seen /\ job[Page].at = "none"
      /\ UNCHANGED <<wallet, seen, switches, alive, recorded, signatures, draft,
                     shown, tier, sel, net, reviews, bells, repriced>>
  BY ConfirmsIs
<1>2. PICK p \in Proposals :
        /\ proposal' = p /\ job' = [job EXCEPT ![Page] = Deliver(p, good)]
        /\ body'[p] = OnScreen /\ verdict'[p] # "none"
        /\ DOMAIN body' = Proposals
        /\ verdict' \in [Proposals -> Authority!Verdicts]
        /\ \A q \in Proposals : q # p => body'[q] = body[q] /\ verdict'[q] = verdict[q]
        /\ \/ p = proposal /\ UNCHANGED <<body, verdict>>
           \/ proposal = 0 /\ verdict[p] = "none" /\ alive
  BY ConfirmsIs
<1>3. PICK j \in Deliveries(OnScreen) :
        /\ job'[Page] = j /\ j.at = "approve" /\ j.step = 0 /\ j.p = p
        /\ j.click = OnScreen /\ j.review = draft.review
        /\ \A s \in Slots : s # Page => job'[s] = job[s]
        /\ DOMAIN job' = Slots
  BY <1>1, <1>2, DeliverIs, PageIsSlot DEF SendInv, TypeOK
<1>4. p # 0
  BY DEF Proposals
<1>5. OnScreen' = OnScreen
  BY <1>1, ScreenStays DEF screen
<1>6. \A s \in Slots : s # Page /\ Delivers(s)' => Delivers(s) /\ job'[s] = job[s]
  BY <1>3 DEF Delivers
<1>7. \A q \in Proposals : body[q].review = draft.review => net[q] = "unsent"
  BY <1>1 DEF SendInv, UnsentInv
<1>8. body'[p].review = draft.review /\ net[p] = "unsent"
  <2>1. CASE p = proposal
    BY <1>2, <1>4, <1>7, <2>1, ScreenIsReview DEF SendInv, DraftInv
  <2>2. CASE proposal = 0 /\ verdict[p] = "none"
    BY <1>2, <2>2, ScreenIsReview DEF SendInv, SentInv
  <2>3. QED
    BY <1>2, <2>1, <2>2
<1>9. \A r : Gentle(r)
  BY <1>1, <1>2, <1>8 DEF SendInv, SentInv, DraftInv, Gentle
<1>10. TypeOK'
  BY <1>1, <1>2, <1>3 DEF SendInv, TypeOK, Stages, Threads
<1>11. DraftInv' /\ PageInv'
  BY <1>1, <1>2, <1>3, <1>4, <1>5 DEF SendInv, DraftInv, PageInv, Delivers
<1>12. DeliveryInv'
  <2>1. /\ job'[Page] \in Deliveries(job'[Page].click)
        /\ Asks(Page)' /\ Marks(Page)' /\ Tells(Page)'
    BY <1>2, <1>3, <1>8 DEF Asks, Marks, Tells
  <2>2. Sends(Page)'
    BY <1>1, <1>2, <1>3, <1>7, <1>8 DEF Sends
  <2>3. QED
    BY <1>6, <1>9, <2>1, <2>2, DeliveryStays DEF DeliveryInv
<1>13. ApartInv'
  BY <1>1, <1>3, <1>6 DEF SendInv, ApartInv
<1>14. SentInv' /\ PaysOnce'
  BY <1>1, <1>2, <1>8 DEF SendInv, SentInv, PaysOnce, DraftInv
<1>15. UnsentInv' /\ BellInv'
  BY <1>1 DEF SendInv, UnsentInv, BellInv
<1>16. PendingInv'
  <2>1. \A q \in Proposals : q # 0
    BY DEF Proposals
  <2>2. \A q \in Proposals : verdict'[q] = "pending" => q = p \/ verdict[q] = "pending"
    BY <1>2
  <2>3. PendingIsHeld'
    BY <1>1, <1>2, <2>1, <2>2 DEF SendInv, PendingInv, PendingIsHeld
  <2>4. (alive /\ seen) \/ UNCHANGED verdict
    BY <1>1, <1>2
  <2>5. QED
    BY <1>1, <2>3, <2>4 DEF SendInv, PendingInv
<1>17. QED
  BY <1>10, <1>11, <1>12, <1>13, <1>14, <1>15, <1>16 DEF SendInv

-----------------------------------------------------------------------------
(* The page starts over *)

\* Any frame that empties the form and lets its job go, whatever it told the
\* trust plane: it must not leave a proposal pending.
LEMMA BlankKeeps ==
  ASSUME SendInv, Blank, DOMAIN job' = Slots, job'[Page].at = "none",
         \A s \in Slots : s # Page => job'[s] = job[s],
         UNCHANGED <<wallet, seen, switches, alive, recorded, signatures, body, net,
                     reviews, repriced>>,
         bells' \in [Reviews -> 0..1], \A r \in Reviews : r > reviews => bells'[r] = bells[r],
         verdict' \in [Proposals -> Authority!Verdicts],
         \A q \in Proposals : /\ verdict[q] # "none" => verdict'[q] # "none"
                              /\ verdict'[q] = "pending" => verdict[q] = "pending",
         alive /\ proposal # 0 => verdict'[proposal] # "pending"
  PROVE  SendInv'
<1>1. /\ stage' = "Form" /\ draft'.review = 0 /\ proposal' = 0 /\ tier' = tier
      /\ reviews \in Nat
  BY SendAssumption DEF SendAssumption, Blank, NoDraft, SendInv, TypeOK
<1>2. TypeOK'
  BY <1>1 DEF SendInv, TypeOK, Stages
<1>3. \A s \in Slots : Delivers(s)' => Delivers(s) /\ job'[s] = job[s]
  BY <1>1 DEF Delivers
<1>4. PaysOnce' /\ SentInv' /\ \A r : Gentle(r)
  <2>1. UNCHANGED <<net, body>> /\ reviews' = reviews
    OBVIOUS
  <2>2. QED
    BY <2>1, NothingSent
<1>5. DeliveryInv'
  BY <1>3, <1>4, DeliveriesStay
<1>6. ASSUME NEW s \in Slots, Delivers(s) PROVE job[s].review # 0
  <2>1. job[s].review \in Reviews
    BY <1>6 DEF SendInv, DeliveryInv, Deliveries
  <2>2. QED
    BY <2>1 DEF Reviews
<1>7. ApartInv'
  BY <1>1, <1>3, <1>6, StayApart
<1>8. DraftInv' /\ PageInv'
  BY <1>1 DEF DraftInv, PageInv, Delivers
<1>9. UnsentInv' /\ BellInv'
  BY <1>1 DEF SendInv, UnsentInv, BellInv
<1>10. PendingInv'
  <2>1. ~alive \/ ~seen => \A p \in Proposals : verdict'[p] # "pending"
    BY DEF SendInv, PendingInv
  <2>2. ASSUME NEW p \in Proposals, verdict'[p] = "pending", alive PROVE p \in repriced
    <3>1. p # 0
      BY DEF Proposals
    <3>2. QED
      BY <2>2, <3>1 DEF SendInv, PendingInv, PendingIsHeld
  <2>3. QED
    BY <1>1, <2>1, <2>2 DEF PendingInv, PendingIsHeld
<1>11. QED
  BY <1>2, <1>4, <1>5, <1>7, <1>8, <1>9, <1>10 DEF SendInv

LEMMA LetGoIs ==
  ASSUME SendInv, LetGo
  PROVE  /\ DOMAIN job' = Slots /\ job'[Page].at = "none"
         /\ \A s \in Slots : s # Page => job'[s] = job[s]
BY PageIsSlot DEF LetGo, NoJob, SendInv, TypeOK

LEMMA CancelKeeps ==
  ASSUME SendInv, CancelFlow
  PROVE  SendInv'
<1>1. /\ Blank /\ LetGo
      /\ UNCHANGED <<wallet, seen, switches, alive, recorded, signatures, body, net,
                     reviews, bells, repriced>>
  BY DEF CancelFlow, Authority!Decide, authority
<1>2. /\ verdict \in [Proposals -> Authority!Verdicts] /\ bells \in [Reviews -> 0..1]
      /\ proposal \in Proposals \cup {0}
  BY DEF SendInv, TypeOK
<1>3. /\ verdict' \in [Proposals -> Authority!Verdicts]
      /\ \A q \in Proposals : /\ verdict[q] # "none" => verdict'[q] # "none"
                              /\ verdict'[q] = "pending" => verdict[q] = "pending"
      /\ alive /\ proposal # 0 => verdict'[proposal] # "pending"
  <2>1. CASE proposal # 0 /\ alive /\ verdict[proposal] = "pending"
    <3>1. verdict' = [verdict EXCEPT ![proposal] = "denied"]
      BY <2>1 DEF CancelFlow, Authority!Decide
    <3>2. QED
      BY <1>2, <2>1, <3>1 DEF Authority!Verdicts
  <2>2. CASE ~(proposal # 0 /\ alive /\ verdict[proposal] = "pending")
    <3>1. verdict' = verdict
      BY <2>2 DEF CancelFlow, authority
    <3>2. QED
      BY <1>2, <2>2, <3>1
  <2>3. QED
    BY <2>1, <2>2
<1>4. QED
  BY <1>1, <1>2, <1>3, LetGoIs, BlankKeeps

LEMMA DoneKeeps ==
  ASSUME SendInv, DonePressed
  PROVE  SendInv'
<1>1. /\ Blank /\ LetGo /\ stage \in {"Done", "Failed"}
      /\ UNCHANGED <<wallet, seen, switches, alive, verdict, recorded, signatures, body,
                     net, reviews, bells, repriced>>
  BY DEF DonePressed, authority
<1>2. /\ verdict \in [Proposals -> Authority!Verdicts] /\ bells \in [Reviews -> 0..1]
  BY DEF SendInv, TypeOK
<1>3. proposal # 0 => verdict[proposal] # "pending"
  BY <1>1 DEF SendInv, PendingInv
<1>4. QED
  BY <1>1, <1>2, <1>3, LetGoIs, BlankKeeps

-----------------------------------------------------------------------------
(* The delivery thread *)

\* A step of a delivery that sends nothing: the verdict of its own proposal may
\* have been decided.
LEMMA DeliveryMoves ==
  ASSUME SendInv, NEW s \in Slots, Delivers(s), NEW j \in Deliveries(job[s].click),
         job' = [job EXCEPT ![s] = j],
         j.p = job[s].p, j.review = job[s].review,
         UNCHANGED <<wallet, seen, switches, alive, body, stage, draft, shown, tier, sel,
                     proposal, reviews, bells, repriced>>,
         recorded' \subseteq Proposals, signatures' \in [Proposals -> {0, 1}],
         verdict' \in [Proposals -> Authority!Verdicts],
         net' \in [Proposals -> {"unsent", "taken", "mined", "reverted"}],
         \A q \in Proposals : /\ verdict[q] # "none" <=> verdict'[q] # "none"
                              /\ verdict'[q] = "pending" => verdict[q] = "pending"
                              /\ net'[q] # net[q] => q = j.p /\ net[q] = "unsent",
         Marks(s)', Tells(s)', j.step = 0 \/ j.at = "send" => net'[j.p] = "unsent",
         s = Page => stage = "Delivering"
  PROVE  SendInv'
<1>1. job'[s] = j /\ DOMAIN job' = Slots /\ \A t \in Slots : t # s => job'[t] = job[t]
  BY DEF SendInv, TypeOK
<1>2. /\ job[s] \in Deliveries(job[s].click) /\ Asks(s) /\ Sends(s)
      /\ j.click = job[s].click /\ j.at # "none" /\ j.p \in Proposals
  BY DEF SendInv, DeliveryInv, Deliveries
<1>0. /\ body' = body /\ stage' = stage /\ draft' = draft /\ proposal' = proposal
      /\ reviews' = reviews /\ bells' = bells /\ seen' = seen /\ alive' = alive
      /\ repriced' = repriced
  OBVIOUS
<1>3. OnScreen' = OnScreen
  BY ScreenStays DEF screen
<1>4. \A t \in Slots : Delivers(t)' <=> Delivers(t)
  BY <1>1, <1>2 DEF Delivers
<1>5. TypeOK'
  BY <1>1 DEF SendInv, TypeOK, Deliveries, Threads
<1>6. DraftInv'
  <2>1. proposal # 0 => verdict'[proposal] # "none"
    BY DEF SendInv, TypeOK, DraftInv
  <2>2. QED
    BY <1>0, <1>3, <2>1 DEF SendInv, DraftInv
<1>7. PageInv'
  BY <1>1, <1>2, <1>3, <1>4 DEF SendInv, PageInv, Delivers
<1>15. /\ verdict[j.p] # "none" /\ body[j.p].review = job[s].review
       /\ \A q \in Proposals : net'[q] = net[q] \/ q = j.p
  BY <1>2 DEF Asks
<1>8. DeliveryInv'
  <2>1. Asks(s)'
    BY <1>0, <1>1, <1>2 DEF Asks
  <2>2. Sends(s)'
    BY <1>0, <1>1, <1>2, <1>15 DEF Sends
  <2>3. j \in Deliveries(j.click)
    BY <1>2
  <2>4. ASSUME NEW t \in Slots, t # s, Delivers(t) PROVE Gentle(job[t].review)
    <3>1. job[t].review # job[s].review
      BY <2>4 DEF SendInv, ApartInv
    <3>2. \A q \in Proposals : verdict[q] = "none" => net'[q] = "unsent"
      BY <1>15 DEF SendInv, SentInv
    <3>3. QED
      BY <1>0, <1>15, <3>1, <3>2 DEF Gentle
  <2>5. QED
    BY <1>1, <1>4, <2>1, <2>2, <2>3, <2>4, DeliveryStays DEF DeliveryInv
<1>9. ApartInv'
  BY <1>0, <1>1, <1>4 DEF SendInv, ApartInv
<1>10. SentInv'
  BY <1>0, <1>15 DEF SendInv, SentInv
<1>11. PaysOnce'
  BY <1>0, <1>2, <1>15 DEF SendInv, PaysOnce, Sends
<1>12. UnsentInv'
  <2>1. stage \in {"Quoting", "Review"} => s # Page /\ job[s].review # draft.review
    BY DEF SendInv, ApartInv, Delivers
  <2>2. QED
    BY <1>0, <1>15, <2>1 DEF SendInv, UnsentInv
<1>13. BellInv'
  BY <1>0 DEF SendInv, BellInv
<1>16. PendingInv'
  <2>1. PendingIsHeld'
    BY <1>0 DEF SendInv, PendingInv, PendingIsHeld
  <2>2. proposal \in Proposals \cup {0}
    BY DEF SendInv, TypeOK
  <2>3. QED
    BY <1>0, <2>1, <2>2 DEF SendInv, PendingInv
<1>14. QED
  BY <1>5, <1>6, <1>7, <1>8, <1>9, <1>10, <1>11, <1>12, <1>13, <1>16 DEF SendInv

\* Where a delivery is still under way, the page shows that it is.
LEMMA StepperDelivers ==
  ASSUME SendInv, NEW s \in Slots, job[s].at \in {"approve", "record", "reply", "send", "poll"}
  PROVE  /\ Delivers(s)
         /\ s = Page => stage = "Delivering"
         /\ job[s] \in Deliveries(job[s].click) /\ job[s].p \in Proposals
         /\ Asks(s) /\ Marks(s) /\ Sends(s)
<1>1. s = Page => stage = "Delivering"
  BY DEF SendInv, TypeOK, Stages, PageInv
<1>2. Delivers(s)
  BY <1>1 DEF Delivers
<1>3. QED
  BY <1>1, <1>2 DEF SendInv, DeliveryInv, Deliveries

\* A delivery of which only the place changes.
LEMMA OnlyAt ==
  ASSUME NEW c, NEW d \in Deliveries(c), NEW j,
         NEW at \in {"approve", "record", "reply", "send", "poll", "ok", "failed"},
         j = [d EXCEPT !.at = at]
  PROVE  /\ j \in Deliveries(c) /\ j.at = at
         /\ j.p = d.p /\ j.review = d.review /\ j.step = d.step
BY DEF Deliveries

\* What SetJob leaves alone.
LEMMA SetJobIs ==
  ASSUME NEW s, NEW j, SetJob(s, j)
  PROVE  /\ job' = [job EXCEPT ![s] = j]
         /\ UNCHANGED <<wallet, seen, switches, alive, body, stage, draft, shown, tier, sel,
                        proposal, reviews, bells, repriced>>
BY DEF SetJob, screen

\* A thread fails, before its broadcast or in it.
LEMMA FailsKeeps ==
  ASSUME SendInv, NEW s \in Slots, NEW j, SetJob(s, j),
         job[s].at \in {"approve", "record", "reply", "send", "poll"},
         j \in Deliveries(job[s].click), j.at = "failed", j.p = job[s].p,
         j.review = job[s].review, j.step = job[s].step,
         UNCHANGED authority,
         \/ UNCHANGED net
         \/ job[s].at = "send" /\ net' = [net EXCEPT ![j.p] = "taken"]
  PROVE  SendInv'
<1>1. /\ Delivers(s)
      /\ s = Page => stage = "Delivering"
      /\ job[s].p \in Proposals /\ Marks(s) /\ Sends(s)
  BY StepperDelivers
<1>2. /\ verdict' = verdict /\ recorded' = recorded /\ signatures' = signatures
      /\ recorded \subseteq Proposals /\ signatures \in [Proposals -> {0, 1}]
      /\ verdict \in [Proposals -> Authority!Verdicts]
      /\ net \in [Proposals -> {"unsent", "taken", "mined", "reverted"}]
      /\ DOMAIN job = Slots
  BY DEF authority, SendInv, TypeOK
<1>3. job' = [job EXCEPT ![s] = j] /\ job'[s] = j
  BY <1>2, SetJobIs
<1>4. /\ net' \in [Proposals -> {"unsent", "taken", "mined", "reverted"}]
      /\ \A q \in Proposals : net'[q] # net[q] => q = j.p /\ net[q] = "unsent"
      /\ j.step = 0 => net'[j.p] = "unsent"
  <2>1. CASE UNCHANGED net
    BY <1>1, <1>2, <2>1 DEF Sends
  <2>2. CASE job[s].at = "send" /\ net' = [net EXCEPT ![j.p] = "taken"]
    BY <1>1, <1>2, <2>2 DEF Sends, Marks
  <2>3. QED
    BY <2>1, <2>2
<1>5. Marks(s)' /\ Tells(s)'
  BY <1>1, <1>2, <1>3 DEF Marks, Tells
<1>6. UNCHANGED <<wallet, seen, switches, alive, body, stage, draft, shown, tier, sel,
                  proposal, reviews, bells, repriced>>
  BY SetJobIs
<1>7. \A q \in Proposals : /\ verdict[q] # "none" <=> verdict'[q] # "none"
                           /\ verdict'[q] = "pending" => verdict[q] = "pending"
                           /\ net'[q] # net[q] => q = j.p /\ net[q] = "unsent"
  BY <1>2, <1>4
<1>8. j.step = 0 \/ j.at = "send" => net'[j.p] = "unsent"
  BY <1>4
<1>9. /\ recorded' \subseteq Proposals /\ signatures' \in [Proposals -> {0, 1}]
      /\ verdict' \in [Proposals -> Authority!Verdicts]
  BY <1>2
<1>10. QED
  BY <1>1, <1>3, <1>4, <1>5, <1>6, <1>7, <1>8, <1>9, DeliveryMoves

LEMMA FailsStep ==
  ASSUME SendInv, NEW s \in Slots, Fails(s), UNCHANGED authority,
         job[s].at \in {"approve", "record", "reply", "send", "poll"},
         \/ UNCHANGED net
         \/ job[s].at = "send" /\ net' = [net EXCEPT ![job[s].p] = "taken"]
  PROVE  SendInv'
<1> DEFINE j == [job[s] EXCEPT !.at = "failed"]
<1>1. /\ j \in Deliveries(job[s].click) /\ j.at = "failed" /\ j.p = job[s].p
      /\ j.review = job[s].review /\ j.step = job[s].step
  <2>1. job[s] \in Deliveries(job[s].click)
    BY StepperDelivers
  <2> HIDE DEF j
  <2>2. QED
    BY <2>1, OnlyAt DEF j
<1>2. SetJob(s, j)
  BY DEF Fails
<1> HIDE DEF j
<1>3. QED
  BY <1>1, <1>2, FailsKeeps

\* A step that goes well, of which nothing is sent.
LEMMA GoesOn ==
  ASSUME SendInv, NEW s \in Slots, NEW j, SetJob(s, j),
         job[s].at \in {"approve", "record", "reply", "poll"},
         j \in Deliveries(job[s].click), j.p = job[s].p, j.review = job[s].review,
         UNCHANGED net,
         recorded' \subseteq Proposals, signatures' \in [Proposals -> {0, 1}],
         \/ verdict' = verdict
         \/ verdict[j.p] = "pending" /\ verdict' = [verdict EXCEPT ![j.p] = "approved"],
         j.at \in {"approve", "record", "reply"} => j.step = 0,
         j.at \in {"send", "poll", "ok"} => j.step # 0,
         j.at \in {"record", "reply"} \/ j.step # 0 => verdict'[j.p] # "pending",
         j.step = 0 \/ j.at = "send" => job[s].step = 0,
         j.at = "ok" => IF j.success THEN net[j.p] = "mined" ELSE net[j.p] = "reverted"
  PROVE  SendInv'
<1>1. /\ Delivers(s)
      /\ s = Page => stage = "Delivering"
      /\ job[s].p \in Proposals /\ Sends(s) /\ Asks(s)
  BY StepperDelivers
<1>2. /\ verdict \in [Proposals -> Authority!Verdicts] /\ DOMAIN job = Slots
      /\ net' \in [Proposals -> {"unsent", "taken", "mined", "reverted"}]
      /\ \A q \in Proposals : net'[q] = net[q]
  BY DEF SendInv, TypeOK
<1>3. job' = [job EXCEPT ![s] = j] /\ job'[s] = j
  BY <1>2, SetJobIs
<1>4. /\ verdict' \in [Proposals -> Authority!Verdicts]
      /\ \A q \in Proposals : /\ verdict[q] # "none" <=> verdict'[q] # "none"
                              /\ verdict'[q] = "pending" => verdict[q] = "pending"
  BY <1>2 DEF Authority!Verdicts
<1>5. UNCHANGED <<wallet, seen, switches, alive, body, stage, draft, shown, tier, sel,
                  proposal, reviews, bells, repriced>>
  BY SetJobIs
<1>6. Marks(s)'
  BY <1>3 DEF Marks
<1>7. Tells(s)'
  BY <1>2, <1>3 DEF Tells
<1>8. j.step = 0 \/ j.at = "send" => net'[j.p] = "unsent"
  BY <1>1 DEF Sends
<1>9. QED
  BY <1>1, <1>2, <1>3, <1>4, <1>5, <1>6, <1>7, <1>8, DeliveryMoves

LEMMA AskKeeps ==
  ASSUME SendInv, NEW s \in Slots, AskApproval(s)
  PROVE  SendInv'
<1>1. job[s].at = "approve" /\ UNCHANGED net
  BY DEF AskApproval
<1>2. CASE Fails(s) /\ UNCHANGED authority
  BY <1>1, <1>2, FailsStep
<1>3. CASE Authority!Decide(job[s].p, "approved") /\ Moves(s, "record")
  <2> DEFINE j == [job[s] EXCEPT !.at = "record"]
  <2>1. /\ j \in Deliveries(job[s].click) /\ j.at = "record" /\ j.p = job[s].p
        /\ j.review = job[s].review /\ j.step = job[s].step
    <3>1. job[s] \in Deliveries(job[s].click)
      BY <1>1, StepperDelivers
    <3> HIDE DEF j
    <3>2. QED
      BY <3>1, OnlyAt DEF j
  <2>2. job[s].step = 0 /\ job[s].p \in Proposals
    BY <1>1, StepperDelivers DEF Marks
  <2>3. SetJob(s, j)
    BY <1>3 DEF Moves
  <2>4. /\ verdict[job[s].p] = "pending" /\ UNCHANGED <<recorded, signatures>>
        /\ verdict' = [verdict EXCEPT ![job[s].p] = "approved"]
    BY <1>3 DEF Authority!Decide
  <2>5. /\ recorded' \subseteq Proposals /\ signatures' \in [Proposals -> {0, 1}]
        /\ verdict'[job[s].p] = "approved"
    BY <2>2, <2>4 DEF SendInv, TypeOK
  <2> HIDE DEF j
  <2>6. QED
    BY <1>1, <2>1, <2>2, <2>3, <2>4, <2>5, GoesOn
<1>4. QED
  BY <1>2, <1>3 DEF AskApproval

LEMMA RecordKeeps ==
  ASSUME SendInv, NEW s \in Slots, ApprovalRecorded(s)
  PROVE  SendInv'
<1>1. job[s].at = "record" /\ UNCHANGED net
  BY DEF ApprovalRecorded
<1>2. CASE Fails(s) /\ UNCHANGED authority
  BY <1>1, <1>2, FailsStep
<1>3. CASE Authority!PutOnRecord(job[s].p) /\ Moves(s, "reply")
  <2> DEFINE j == [job[s] EXCEPT !.at = "reply"]
  <2>1. /\ j \in Deliveries(job[s].click) /\ j.at = "reply" /\ j.p = job[s].p
        /\ j.review = job[s].review /\ j.step = job[s].step
    <3>1. job[s] \in Deliveries(job[s].click)
      BY <1>1, StepperDelivers
    <3> HIDE DEF j
    <3>2. QED
      BY <3>1, OnlyAt DEF j
  <2>2. job[s].step = 0 /\ job[s].p \in Proposals /\ verdict[job[s].p] # "pending"
    BY <1>1, StepperDelivers DEF Marks
  <2>3. SetJob(s, j)
    BY <1>3 DEF Moves
  <2>4. /\ recorded' = recorded \cup {job[s].p} /\ UNCHANGED <<verdict, signatures>>
    BY <1>3 DEF Authority!PutOnRecord
  <2>5. recorded' \subseteq Proposals /\ signatures' \in [Proposals -> {0, 1}]
    BY <2>2, <2>4 DEF SendInv, TypeOK
  <2> HIDE DEF j
  <2>6. QED
    BY <1>1, <2>1, <2>2, <2>3, <2>4, <2>5, GoesOn
<1>4. QED
  BY <1>2, <1>3 DEF ApprovalRecorded

LEMMA SignatureKeeps ==
  ASSUME SendInv, NEW s \in Slots, SignatureArrives(s)
  PROVE  SendInv'
<1>1. job[s].at = "reply" /\ UNCHANGED net
  BY DEF SignatureArrives
<1>2. CASE Fails(s) /\ UNCHANGED authority
  BY <1>1, <1>2, FailsStep
<1>3. CASE /\ Authority!GiveOut(job[s].p)
           /\ SetJob(s, [job[s] EXCEPT !.at = "send", !.step = 1])
  <2> DEFINE j == [job[s] EXCEPT !.at = "send", !.step = 1]
  <2>1. /\ j \in Deliveries(job[s].click) /\ j.at = "send" /\ j.p = job[s].p
        /\ j.review = job[s].review /\ j.step = 1
    <3>1. job[s] \in Deliveries(job[s].click)
      BY <1>1, StepperDelivers
    <3>2. 1 \in 0..2
      OBVIOUS
    <3> DEFINE c == job[s].click
               d == job[s]
    <3>3. d \in Deliveries(c)
      BY <3>1
    <3> HIDE DEF c, d
    <3>4. /\ [d EXCEPT !.at = "send", !.step = 1] \in Deliveries(c)
          /\ [d EXCEPT !.at = "send", !.step = 1].at = "send"
          /\ [d EXCEPT !.at = "send", !.step = 1].step = 1
          /\ [d EXCEPT !.at = "send", !.step = 1].p = d.p
          /\ [d EXCEPT !.at = "send", !.step = 1].review = d.review
      BY <3>2, <3>3 DEF Deliveries
    <3>5. QED
      BY <3>4 DEF c, d
  <2>2. job[s].step = 0 /\ job[s].p \in Proposals /\ verdict[job[s].p] # "pending"
    BY <1>1, StepperDelivers DEF Marks
  <2>3. SetJob(s, j)
    BY <1>3
  <2>4. /\ signatures' = [signatures EXCEPT ![job[s].p] = 1] /\ UNCHANGED <<verdict, recorded>>
    BY <1>3 DEF Authority!GiveOut
  <2>5. recorded' \subseteq Proposals /\ signatures' \in [Proposals -> {0, 1}]
    BY <2>2, <2>4 DEF SendInv, TypeOK
  <2> HIDE DEF j
  <2>6. QED
    BY <1>1, <2>1, <2>2, <2>3, <2>4, <2>5, GoesOn
<1>4. QED
  BY <1>2, <1>3 DEF SignatureArrives

\* The node took the transaction and said so.
LEMMA TakenKeeps ==
  ASSUME SendInv, NEW s \in Slots, NEW j, SetJob(s, j), job[s].at = "send",
         j \in Deliveries(job[s].click), j.at \in {"poll", "ok"}, j.step = 2,
         j.p = job[s].p, j.review = job[s].review,
         j.at = "ok" => j.success /\ Lane(s) = "btc",
         net' = [net EXCEPT ![job[s].p] = "taken"], UNCHANGED authority
  PROVE  SendInv'
<1>1. /\ Delivers(s)
      /\ s = Page => stage = "Delivering"
      /\ job[s].p \in Proposals /\ Marks(s) /\ Sends(s)
  BY StepperDelivers
<1>2. /\ verdict' = verdict /\ recorded' = recorded /\ signatures' = signatures
      /\ recorded \subseteq Proposals /\ signatures \in [Proposals -> {0, 1}]
      /\ verdict \in [Proposals -> Authority!Verdicts]
      /\ net \in [Proposals -> {"unsent", "taken", "mined", "reverted"}]
      /\ DOMAIN job = Slots
  BY DEF authority, SendInv, TypeOK
<1>3. job' = [job EXCEPT ![s] = j] /\ job'[s] = j
  BY <1>2, SetJobIs
<1>4. UNCHANGED <<wallet, seen, switches, alive, body, stage, draft, shown, tier, sel,
                  proposal, reviews, bells, repriced>>
  BY SetJobIs
<1>5. /\ net' \in [Proposals -> {"unsent", "taken", "mined", "reverted"}]
      /\ net'[j.p] = "taken" /\ net[j.p] = "unsent"
      /\ \A q \in Proposals : net'[q] # net[q] => q = j.p
  BY <1>1, <1>2 DEF Sends
<1>6. /\ recorded' \subseteq Proposals /\ signatures' \in [Proposals -> {0, 1}]
      /\ verdict' \in [Proposals -> Authority!Verdicts]
  BY <1>2
<1>7. \A q \in Proposals : /\ verdict[q] # "none" <=> verdict'[q] # "none"
                           /\ verdict'[q] = "pending" => verdict[q] = "pending"
                           /\ net'[q] # net[q] => q = j.p /\ net[q] = "unsent"
  BY <1>2, <1>5
<1>8. verdict'[j.p] # "pending"
  BY <1>1, <1>2 DEF Marks
<1>9. Marks(s)'
  BY <1>3, <1>8 DEF Marks
<1>10. Tells(s)'
  BY <1>3, <1>4, <1>5 DEF Tells, Lane
<1>11. j.step = 0 \/ j.at = "send" => net'[j.p] = "unsent"
  OBVIOUS
<1>12. QED
  BY <1>1, <1>3, <1>4, <1>5, <1>6, <1>7, <1>9, <1>10, <1>11, DeliveryMoves, ZenonT(60)

LEMMA BroadcastKeeps ==
  ASSUME SendInv, NEW s \in Slots, NEW j, Broadcast(s, j),
         j \in Deliveries(job[s].click), j.at \in {"poll", "ok"}, j.step = 2,
         j.p = job[s].p, j.review = job[s].review,
         j.at = "ok" => j.success /\ Lane(s) = "btc"
  PROVE  SendInv'
<1>1. job[s].at = "send" /\ UNCHANGED authority
  BY DEF Broadcast
<1>2. job[s] \in Deliveries(job[s].click)
  BY <1>1, StepperDelivers
<1>3. CASE net' = [net EXCEPT ![job[s].p] = "taken"] /\ SetJob(s, j)
  BY <1>1, <1>3, TakenKeeps
<1>4. CASE /\ net' = [net EXCEPT ![job[s].p] = "taken"]
           /\ SetJob(s, [job[s] EXCEPT !.at = "failed", !.heard = TRUE])
  <2> DEFINE c == job[s].click
             d == job[s]
             e == [d EXCEPT !.at = "failed", !.heard = TRUE]
  <2>1. d \in Deliveries(c)
    BY <1>2
  <2> HIDE DEF c, d
  <2>2. /\ e \in Deliveries(c) /\ e.at = "failed" /\ e.p = d.p /\ e.review = d.review
        /\ e.step = d.step
    BY <2>1 DEF Deliveries
  <2>3. SetJob(s, e)
    BY <1>4 DEF d
  <2> HIDE DEF e
  <2>4. QED
    BY <1>1, <1>4, <2>2, <2>3, FailsKeeps DEF c, d
<1>5. CASE Fails(s) /\ (net' = [net EXCEPT ![job[s].p] = "taken"] \/ UNCHANGED net)
  BY <1>1, <1>5, FailsStep
<1>6. QED
  BY <1>3, <1>4, <1>5 DEF Broadcast

LEMMA BroadcastsKeep ==
  ASSUME SendInv, NEW s \in Slots, BroadcastBtc(s) \/ BroadcastRaw(s)
  PROVE  SendInv'
<1> DEFINE c == job[s].click
           d == job[s]
           ok == [d EXCEPT !.at = "ok", !.step = 2, !.success = TRUE]
           poll == [d EXCEPT !.at = "poll", !.step = 2]
<1>1. d \in Deliveries(c)
  BY StepperDelivers DEF BroadcastBtc, BroadcastRaw
<1>2. 2 \in 0..2
  OBVIOUS
<1>3. CASE BroadcastBtc(s)
  <2>1. Broadcast(s, ok) /\ Lane(s) = "btc"
    BY <1>3 DEF BroadcastBtc
  <2> HIDE DEF c, d
  <2>2. /\ ok \in Deliveries(c) /\ ok.at = "ok" /\ ok.step = 2 /\ ok.success
        /\ ok.p = d.p /\ ok.review = d.review
    BY <1>1, <1>2 DEF Deliveries
  <2> HIDE DEF ok
  <2>3. QED
    BY <2>1, <2>2, BroadcastKeeps DEF c, d
<1>4. CASE BroadcastRaw(s)
  <2>1. Broadcast(s, poll)
    BY <1>4 DEF BroadcastRaw
  <2> HIDE DEF c, d
  <2>2. /\ poll \in Deliveries(c) /\ poll.at = "poll" /\ poll.step = 2
        /\ poll.p = d.p /\ poll.review = d.review
    BY <1>1, <1>2 DEF Deliveries
  <2> HIDE DEF poll
  <2>3. QED
    BY <2>1, <2>2, BroadcastKeeps DEF c, d
<1>5. QED
  BY <1>3, <1>4

LEMMA PollsKeep ==
  ASSUME SendInv, NEW s \in Slots, job[s].at = "poll", Polls(s)
  PROVE  SendInv'
<1> DEFINE c == job[s].click
           d == job[s]
           good == net[d.p] = "mined"
           ok == [d EXCEPT !.at = "ok", !.success = good]
           again == [d EXCEPT !.tries = d.tries + 1]
<1>1. /\ d \in Deliveries(c) /\ d.step # 0 /\ d.p \in Proposals
      /\ verdict[d.p] # "pending" /\ d.at = "poll"
  BY StepperDelivers DEF Marks
<1>2. /\ verdict' = verdict /\ recorded' = recorded /\ signatures' = signatures
      /\ net' = net /\ authority' = authority
      /\ recorded \subseteq Proposals /\ signatures \in [Proposals -> {0, 1}]
  BY DEF Polls, authority, SendInv, TypeOK
<1>3. CASE net[d.p] \in {"mined", "reverted"} /\ SetJob(s, ok)
  <2>1. good \in BOOLEAN
    OBVIOUS
  <2> HIDE DEF c, d, good
  <2>2. /\ ok \in Deliveries(c) /\ ok.at = "ok" /\ ok.success = good
        /\ ok.p = d.p /\ ok.review = d.review /\ ok.step = d.step
    BY <1>1, <2>1 DEF Deliveries
  <2> HIDE DEF ok
  <2>3. IF ok.success THEN net[d.p] = "mined" ELSE net[d.p] = "reverted"
    BY <1>3, <2>2 DEF good
  <2>4. QED
    BY <1>1, <1>2, <1>3, <2>2, <2>3, GoesOn DEF c, d
<1>4. CASE d.tries < MaxPolls /\ SetJob(s, again)
  <2> HIDE DEF c, d
  <2>1. d.tries \in 0..MaxPolls
    BY <1>1 DEF Deliveries
  <2>2. d.tries + 1 \in 0..MaxPolls
    BY <1>4, <2>1, SendAssumption DEF SendAssumption
  <2>3. /\ again \in Deliveries(c) /\ again.at = d.at
        /\ again.p = d.p /\ again.review = d.review /\ again.step = d.step
    BY <1>1, <2>2 DEF Deliveries
  <2> HIDE DEF again
  <2>4. QED
    BY <1>1, <1>2, <1>4, <2>3, GoesOn DEF c, d
<1>5. CASE Fails(s)
  BY <1>2, <1>5, FailsStep
<1>6. QED
  BY <1>3, <1>4, <1>5 DEF Polls

LEMMA DeliveryKeeps ==
  ASSUME SendInv, NEW s \in Slots, DeliveryStep(s)
  PROVE  SendInv'
BY AskKeeps, RecordKeeps, SignatureKeeps, BroadcastsKeep, PollsKeep
   DEF DeliveryStep, AsksChild, CallsNode, PollReceipt, PollSignature

-----------------------------------------------------------------------------
(* The frame loop *)

\* Only the page's slot changes.
OthersStay == DOMAIN job' = Slots /\ \A s \in Slots : s # Page => job'[s] = job[s]

\* A frame moves the stage, keeps the page's job or lets it go, and leaves the
\* trust plane and the chain alone.
LEMMA FrameMoves ==
  ASSUME SendInv,
         UNCHANGED <<wallet, seen, switches, alive, verdict, recorded, signatures, body,
                     draft, tier, net, reviews, repriced>>,
         stage' \in Stages, proposal' \in Proposals \cup {0},
         bells' \in [Reviews -> 0..1], OthersStay,
         job'[Page].at = "none" \/ (Delivers(Page) /\ job'[Page] = job[Page]),
         DraftInv', PageInv', UnsentInv', PendingInv', BellInv'
  PROVE  SendInv'
<1>1. \A s \in Slots : Delivers(s)' => Delivers(s) /\ job'[s] = job[s]
  BY DEF OthersStay, Delivers
<1>2. UNCHANGED <<net, body>> /\ reviews' = reviews /\ draft' = draft /\ verdict' = verdict
  OBVIOUS
<1>3. PaysOnce' /\ SentInv' /\ \A r : Gentle(r)
  BY <1>2, NothingSent
<1>4. DeliveryInv' /\ ApartInv'
  BY <1>1, <1>2, <1>3, DeliveriesStay, StayApart
<1>5. TypeOK'
  BY DEF OthersStay, SendInv, TypeOK
<1>6. QED
  BY <1>3, <1>4, <1>5 DEF SendInv

LEMMA RequoteLandsKeeps ==
  ASSUME SendInv, RequoteLands(job[Page]), job[Page].requote, job[Page].at \in {"ok", "failed"},
         UNCHANGED <<wallet, seen, switches, alive, authority, body, net, reviews, repriced>>
  PROVE  SendInv'
<1>1. stage = "Review" /\ proposal = 0
  <2>1. ~Delivers(Page)
    BY PageIsSlot DEF SendInv, DeliveryInv, Deliveries
  <2>2. QED
    BY <2>1 DEF SendInv, TypeOK, Stages, PageInv, Delivers
<1>2. /\ LetGo /\ stage' = stage /\ proposal' = proposal /\ bells' = bells /\ draft' = draft
      /\ UNCHANGED <<wallet, seen, switches, alive, verdict, recorded, signatures, body,
                     draft, tier, net, reviews, repriced>>
  BY DEF RequoteLands, authority
<1>3. DraftInv' /\ PageInv'
  BY <1>1, <1>2, LetGoIs DEF SendInv, DraftInv, PageInv, Delivers
<1>4. UnsentInv' /\ PendingInv' /\ BellInv'
  BY <1>1, <1>2 DEF SendInv, UnsentInv, PendingInv, PendingIsHeld, BellInv
<1>5. /\ stage' \in Stages /\ proposal' \in Proposals \cup {0}
      /\ bells' \in [Reviews -> 0..1]
  BY <1>2 DEF SendInv, TypeOK
<1>6. OthersStay /\ job'[Page].at = "none"
  BY <1>2, LetGoIs DEF OthersStay
<1>7. QED
  BY <1>2, <1>3, <1>4, <1>5, <1>6, FrameMoves

LEMMA QuoteLandsKeeps ==
  ASSUME SendInv, QuoteLands(job[Page]), stage = "Quoting",
         UNCHANGED <<wallet, seen, switches, alive, authority, body, net, reviews, repriced>>
  PROVE  SendInv'
<1>1. proposal = 0
  BY DEF SendInv, DraftInv
<1>2. /\ LetGo /\ stage' = "Review" /\ proposal' = 0 /\ bells' = bells /\ draft' = draft
      /\ UNCHANGED <<wallet, seen, switches, alive, verdict, recorded, signatures, body,
                     draft, tier, net, reviews, repriced>>
  BY <1>1 DEF QuoteLands, authority
<1>3. DraftInv' /\ PageInv'
  BY <1>1, <1>2, LetGoIs DEF SendInv, DraftInv, PageInv, Delivers
<1>4. UnsentInv' /\ PendingInv' /\ BellInv'
  BY <1>1, <1>2 DEF SendInv, UnsentInv, PendingInv, PendingIsHeld, BellInv
<1>5. /\ stage' \in Stages /\ proposal' \in Proposals \cup {0}
      /\ bells' \in [Reviews -> 0..1]
  BY <1>2 DEF SendInv, TypeOK, Stages
<1>6. OthersStay /\ job'[Page].at = "none"
  BY <1>2, LetGoIs DEF OthersStay
<1>7. QED
  BY <1>2, <1>3, <1>4, <1>5, <1>6, FrameMoves

\* A delivery of the page that ended.
LEMMA PageDelivers ==
  ASSUME SendInv, stage \in {"Delivering", "Done"}
  PROVE  /\ Delivers(Page) /\ job[Page] \in Deliveries(job[Page].click)
         /\ job[Page].review \in Reviews /\ job[Page].review = draft.review
         /\ job[Page].p = proposal /\ Asks(Page) /\ Marks(Page) /\ Sends(Page) /\ Tells(Page)
         /\ job[Page].requote = FALSE /\ body[proposal] = OnScreen
<1>1. Delivers(Page)
  BY DEF SendInv, PageInv, Delivers
<1>2. job[Page] \in Deliveries(job[Page].click)
  BY <1>1, PageIsSlot DEF SendInv, DeliveryInv
<1>3. QED
  BY <1>1, <1>2, PageIsSlot DEF SendInv, DeliveryInv, PageInv, Deliveries, Asks

LEMMA SuccessLandsKeeps ==
  ASSUME SendInv, SuccessLands(job[Page]), job[Page].at = "ok", ~job[Page].requote,
         stage # "Quoting",
         UNCHANGED <<wallet, seen, switches, alive, authority, body, net, reviews, repriced>>
  PROVE  SendInv'
<1>1. stage \in {"Delivering", "Done"}
  BY DEF SendInv, TypeOK, Stages, PageInv
<1>2. /\ stage' = "Done" /\ UNCHANGED <<job, proposal, draft, shown, tier, sel>>
      /\ UNCHANGED <<wallet, seen, switches, alive, verdict, recorded, signatures, body,
                     draft, tier, net, reviews, repriced>>
  BY DEF SuccessLands, KeepsScreen, screen, authority
<1>3. /\ job[Page].review \in Reviews /\ job[Page].review = draft.review
      /\ Delivers(Page) /\ job[Page].p = proposal
      /\ verdict[proposal] # "pending"
  BY <1>1, PageDelivers DEF Marks
<1>4. bells \in [Reviews -> 0..1] /\ (stage = "Delivering" => bells[draft.review] = 0)
  BY <1>3 DEF SendInv, TypeOK, BellInv
<1>5. /\ bells' \in [Reviews -> 0..1]
      /\ \A r \in Reviews : r # draft.review => bells'[r] = bells[r]
  <2>1. CASE stage = "Done"
    BY <1>4, <2>1 DEF SuccessLands
  <2>2. CASE stage = "Delivering"
    <3>1. bells' = [bells EXCEPT ![draft.review] = 1]
      BY <1>3, <1>4, <2>2 DEF SuccessLands, Bell
    <3>2. 1 \in 0..1
      OBVIOUS
    <3>3. QED
      BY <1>4, <3>1, <3>2
  <2>3. QED
    BY <1>1, <2>1, <2>2
<1>6. OnScreen' = OnScreen
  BY <1>2, ScreenStays DEF screen
<1>7. DraftInv' /\ PageInv'
  BY <1>1, <1>2, <1>3, <1>6 DEF SendInv, DraftInv, PageInv, Delivers
<1>8. UnsentInv' /\ PendingInv'
  BY <1>2, <1>3 DEF SendInv, UnsentInv, PendingInv, PendingIsHeld
<1>9. BellInv'
  <2>1. draft.review \in 0..reviews /\ reviews \in Nat
    BY SendAssumption DEF SendAssumption, SendInv, TypeOK, DraftInv
  <2>2. \A r \in Reviews : r > reviews => r # draft.review
    BY <2>1 DEF Reviews
  <2>3. QED
    BY <1>2, <1>5, <2>2 DEF SendInv, BellInv
<1>10. stage' \in Stages /\ proposal' \in Proposals \cup {0} /\ OthersStay
  BY <1>2 DEF SendInv, TypeOK, Stages, OthersStay
<1>11. QED
  BY <1>2, <1>3, <1>5, <1>7, <1>8, <1>9, <1>10, FrameMoves

LEMMA FailureLandsKeeps ==
  ASSUME SendInv, FailureLands(job[Page]), job[Page].at = "failed", ~job[Page].requote,
         UNCHANGED <<wallet, seen, switches, alive, authority, body, net, reviews, repriced>>
  PROVE  SendInv'
<1>1. stage \in {"Quoting", "Delivering", "Failed"}
  BY DEF SendInv, TypeOK, Stages, PageInv
<1>2. /\ UNCHANGED <<proposal, draft, shown, tier, sel, bells>>
      /\ UNCHANGED <<wallet, seen, switches, alive, verdict, recorded, signatures, body,
                     draft, tier, net, reviews, repriced>>
  BY DEF FailureLands, KeepsScreen, screen, authority
<1>3. /\ proposal' \in Proposals \cup {0} /\ bells' \in [Reviews -> 0..1]
      /\ DOMAIN job = Slots
  BY <1>2 DEF SendInv, TypeOK
<1>4. OnScreen' = OnScreen
  BY <1>2, ScreenStays DEF screen
<1>5. CASE stage = "Quoting"
  <2>1. stage' = "Form" /\ LetGo
    BY <1>5 DEF FailureLands
  <2>2. DraftInv' /\ PageInv'
    BY <1>2, <1>5, <2>1, LetGoIs DEF SendInv, DraftInv, PageInv, Delivers
  <2>3. UnsentInv' /\ PendingInv' /\ BellInv'
    BY <1>2, <2>1 DEF SendInv, UnsentInv, PendingInv, PendingIsHeld, BellInv
  <2>4. stage' \in Stages
    BY <2>1 DEF Stages
  <2>5. OthersStay /\ job'[Page].at = "none"
    BY <2>1, LetGoIs DEF OthersStay
  <2>6. QED
    BY <1>2, <1>3, <2>1, <2>2, <2>3, <2>4, <2>5, FrameMoves
<1>6. CASE stage = "Delivering" /\ job[Page].step = 0
  <2>1. stage' = "Review" /\ LetGo
    BY <1>6 DEF FailureLands
  <2>2. DraftInv' /\ PageInv'
    BY <1>2, <1>4, <1>6, <2>1, LetGoIs DEF SendInv, DraftInv, PageInv, Delivers
  <2>3. UnsentInv'
    BY <1>2, <1>6, PageDelivers DEF Sends, UnsentInv
  <2>4. PendingInv' /\ BellInv'
    BY <1>2, <1>6, <2>1 DEF SendInv, PendingInv, PendingIsHeld, BellInv
  <2>5. stage' \in Stages
    BY <2>1 DEF Stages
  <2>6. OthersStay /\ job'[Page].at = "none"
    BY <2>1, LetGoIs DEF OthersStay
  <2>7. QED
    BY <1>2, <1>3, <2>1, <2>2, <2>3, <2>4, <2>5, <2>6, FrameMoves
<1>7. CASE stage = "Delivering" /\ job[Page].step # 0
  <2>1. stage' = "Failed" /\ job' = job
    BY <1>7 DEF FailureLands
  <2>2. Delivers(Page) /\ job[Page].p = proposal /\ verdict[proposal] # "pending"
    BY <1>7, PageDelivers DEF Marks
  <2>3. DraftInv' /\ PageInv'
    BY <1>2, <1>4, <1>7, <2>1, <2>2 DEF SendInv, DraftInv, PageInv, Delivers
  <2>4. UnsentInv' /\ PendingInv' /\ BellInv'
    BY <1>2, <2>1, <2>2 DEF SendInv, UnsentInv, PendingInv, PendingIsHeld, BellInv
  <2>5. stage' \in Stages /\ OthersStay
    BY <1>3, <2>1 DEF Stages, OthersStay
  <2>6. QED
    BY <1>2, <1>3, <2>1, <2>2, <2>3, <2>4, <2>5, FrameMoves
<1>8. CASE stage = "Failed"
  <2>1. stage' = "Failed" /\ LetGo
    BY <1>8 DEF FailureLands
  <2>2. DraftInv' /\ PageInv'
    BY <1>2, <1>4, <1>8, <2>1, LetGoIs DEF SendInv, DraftInv, PageInv, Delivers
  <2>3. UnsentInv' /\ PendingInv' /\ BellInv'
    BY <1>2, <1>8, <2>1 DEF SendInv, UnsentInv, PendingInv, PendingIsHeld, BellInv
  <2>4. stage' \in Stages
    BY <2>1 DEF Stages
  <2>5. OthersStay /\ job'[Page].at = "none"
    BY <2>1, LetGoIs DEF OthersStay
  <2>6. QED
    BY <1>2, <1>3, <2>1, <2>2, <2>3, <2>4, <2>5, FrameMoves
<1>9. QED
  BY <1>1, <1>5, <1>6, <1>7, <1>8

LEMMA PollKeeps ==
  ASSUME SendInv, PollJob
  PROVE  SendInv'
<1> DEFINE j == job[Page]
<1>1. /\ j.at \in {"ok", "failed"}
      /\ UNCHANGED <<wallet, seen, switches, alive, authority, body, net, reviews, repriced>>
  BY DEF PollJob
<1>2. CASE j.requote
  <2>1. RequoteLands(j)
    BY <1>2 DEF PollJob
  <2>2. QED
    BY <1>1, <1>2, <2>1, RequoteLandsKeeps
<1>3. CASE ~j.requote /\ j.at = "ok" /\ stage = "Quoting"
  <2>1. QuoteLands(j)
    BY <1>3 DEF PollJob
  <2>2. QED
    BY <1>1, <1>3, <2>1, QuoteLandsKeeps
<1>4. CASE ~j.requote /\ j.at = "ok" /\ stage # "Quoting"
  <2>1. SuccessLands(j)
    BY <1>4 DEF PollJob
  <2>2. QED
    BY <1>1, <1>4, <2>1, SuccessLandsKeeps
<1>5. CASE ~j.requote /\ j.at = "failed"
  <2>1. FailureLands(j)
    BY <1>5 DEF PollJob
  <2>2. QED
    BY <1>1, <1>5, <2>1, FailureLandsKeeps
<1>6. QED
  BY <1>1, <1>2, <1>3, <1>4, <1>5

\* The first frame after a change of wallet: the page starts over, and a
\* delivery it let go of moves to the slot of that change.
LEMMA SwitchSeenIs ==
  ASSUME SendInv, FrameSeesSwitch
  PROVE  /\ ~seen /\ seen' /\ stage' = "Form" /\ draft'.review = 0 /\ proposal' = 0
         /\ tier' = tier /\ DOMAIN job' = Slots /\ job'[Page].at = "none"
         /\ \A s \in Slots : \/ s # Page /\ job'[s] = job[s]
                             \/ s = Page /\ job'[s].at = "none"
                             \/ s = switches /\ stage = "Delivering" /\ job'[s] = job[Page]
         /\ bells' \in [Reviews -> 0..1]
         /\ \A r \in Reviews : r > reviews => bells'[r] = bells[r]
         /\ UNCHANGED <<wallet, switches, alive, verdict, recorded, signatures, body, net,
                        reviews, repriced>>
<1> DEFINE j == job[Page]
           kept == IF Running(j) /\ stage = "Delivering" THEN j ELSE job[switches]
<1>1. /\ ~seen /\ seen' /\ stage' = "Form" /\ draft'.review = 0 /\ proposal' = 0
      /\ tier' = tier
      /\ UNCHANGED <<wallet, switches, alive, verdict, recorded, signatures, body, net,
                     reviews, repriced>>
  BY DEF FrameSeesSwitch, Blank, NoDraft, authority
<1>2. job' = [job EXCEPT ![switches] = kept, ![Page] = NoJob]
  BY DEF FrameSeesSwitch
<1>3. /\ switches \in Slots /\ DOMAIN job = Slots /\ Page \in Slots
  BY PageIsSlot, SendAssumption DEF SendAssumption, SendInv, TypeOK, Slots, Page
<1>4. kept = job[switches] \/ (stage = "Delivering" /\ kept = j)
  OBVIOUS
<1> HIDE DEF kept
<1>5. /\ DOMAIN job' = Slots /\ job'[Page] = NoJob
      /\ \A s \in Slots : s # Page => job'[s] = IF s = switches THEN kept ELSE job[s]
  BY <1>2, <1>3
<1>6. NoJob.at = "none"
  BY DEF NoJob
<1>7. bells \in [Reviews -> 0..1]
  BY DEF SendInv, TypeOK
<1>8. /\ bells' \in [Reviews -> 0..1]
      /\ \A r \in Reviews : r > reviews => bells'[r] = bells[r]
  <2>1. CASE bells' = bells
    BY <1>7, <2>1
  <2>2. CASE j.at = "ok" /\ ~j.requote /\ stage \notin {"Quoting", "Done"} /\ Bell(j.review)
    <3>1. stage = "Delivering"
      BY <2>2 DEF SendInv, TypeOK, Stages, PageInv
    <3>2. j.review \in Reviews /\ j.review = draft.review
      BY <3>1, PageDelivers
    <3>3. bells[j.review] = 0
      BY <3>1, <3>2 DEF SendInv, BellInv
    <3>4. bells' = [bells EXCEPT ![j.review] = 1]
      BY <2>2, <3>3 DEF Bell
    <3>5. 1 \in 0..1
      OBVIOUS
    <3>6. j.review \in 0..reviews /\ reviews \in Nat
      BY <3>2, SendAssumption DEF SendAssumption, SendInv, TypeOK, DraftInv
    <3>7. \A r \in Reviews : r > reviews => r # j.review
      BY <3>6 DEF Reviews
    <3> HIDE DEF j
    <3>8. QED
      BY <1>7, <3>4, <3>5, <3>7
  <2>3. QED
    BY <2>1, <2>2 DEF FrameSeesSwitch
<1>9. QED
  BY <1>1, <1>3, <1>4, <1>5, <1>6, <1>8

LEMMA SwitchSeenKeeps ==
  ASSUME SendInv, FrameSeesSwitch
  PROVE  SendInv'
<1>1. /\ ~seen /\ seen' /\ stage' = "Form" /\ draft'.review = 0 /\ proposal' = 0
      /\ tier' = tier /\ DOMAIN job' = Slots /\ job'[Page].at = "none"
      /\ bells' \in [Reviews -> 0..1]
      /\ \A r \in Reviews : r > reviews => bells'[r] = bells[r]
      /\ UNCHANGED <<wallet, switches, alive, verdict, recorded, signatures, body, net,
                     reviews, repriced>>
  BY SwitchSeenIs
<1>2. \A s \in Slots : Delivers(s)' =>
        /\ s # Page
        /\ \/ Delivers(s) /\ job'[s] = job[s]
           \/ s = switches /\ Delivers(Page) /\ job'[s] = job[Page]
  <2>1. \A s \in Slots : \/ s # Page /\ job'[s] = job[s]
                         \/ s = Page /\ job'[s].at = "none"
                         \/ s = switches /\ stage = "Delivering" /\ job'[s] = job[Page]
    BY SwitchSeenIs
  <2>2. stage = "Delivering" => Delivers(Page)
    BY PageDelivers
  <2>3. QED
    BY <1>1, <2>1, <2>2 DEF Delivers
<1>3. UNCHANGED <<net, body>> /\ reviews' = reviews /\ verdict' = verdict
  BY <1>1
<1>4. PaysOnce' /\ SentInv' /\ \A r : Gentle(r)
  BY <1>3, NothingSent
<1>5. TypeOK'
  <2>1. \A s \in Slots : job'[s].at \in Threads \cup {"none", "ok", "failed"}
    BY SwitchSeenIs, PageIsSlot DEF SendInv, TypeOK
  <2>2. QED
    BY <1>1, <2>1 DEF SendInv, TypeOK, Stages
<1>6. DeliveryInv'
  BY <1>2, <1>4, PageIsSlot, DeliveryStays DEF DeliveryInv
<1>7. ApartInv'
  <2>1. ASSUME NEW s \in Slots, Delivers(s) PROVE job[s].review # 0
    <3>1. job[s].review \in Reviews
      BY <2>1 DEF SendInv, DeliveryInv, Deliveries
    <3>2. QED
      BY <3>1 DEF Reviews
  <2>2. QED
    BY <1>1, <1>2, <2>1, PageIsSlot DEF SendInv, ApartInv
<1>8. DraftInv' /\ PageInv'
  <2>1. 0 \in 0..reviews
    BY SendAssumption DEF SendAssumption, SendInv, TypeOK
  <2>2. QED
    BY <1>1, <2>1 DEF DraftInv, PageInv, Delivers
<1>9. UnsentInv' /\ BellInv'
  BY <1>1 DEF SendInv, UnsentInv, BellInv, Reviews
<1>10. PendingInv'
  BY <1>1 DEF SendInv, PendingInv, PendingIsHeld
<1>11. QED
  BY <1>4, <1>5, <1>6, <1>7, <1>8, <1>9, <1>10 DEF SendInv

-----------------------------------------------------------------------------
(* The child, the vault page and the chain *)

LEMMA LoseIs ==
  ASSUME SendInv, Authority!Lose(Undecided)
  PROVE  /\ verdict' \in [Proposals -> Authority!Verdicts]
         /\ UNCHANGED <<recorded, signatures>>
         /\ \A q \in Proposals : /\ verdict[q] # "none" => verdict'[q] # "none"
                                 /\ verdict'[q] # "pending"
BY DEF Authority!Lose, Authority!Verdicts, Undecided, SendInv, TypeOK

\* The wallet may be another and its child dead or new: nothing is pending.
LEMMA LossKeeps ==
  ASSUME SendInv, Authority!Lose(Undecided),
         wallet' \in Wallets, seen' \in BOOLEAN, alive' \in BOOLEAN,
         switches' \in 0..MaxSwitches,
         UNCHANGED <<body, stage, draft, shown, tier, sel, proposal, job, net, reviews,
                     bells, repriced>>
  PROVE  SendInv'
<1>1. /\ body' = body /\ stage' = stage /\ draft' = draft /\ tier' = tier
      /\ proposal' = proposal /\ job' = job /\ net' = net /\ reviews' = reviews
      /\ bells' = bells /\ repriced' = repriced /\ OnScreen' = OnScreen
  BY ScreenStays DEF screen
<1>2. /\ verdict' \in [Proposals -> Authority!Verdicts]
      /\ recorded' = recorded /\ signatures' = signatures
      /\ \A q \in Proposals : /\ verdict[q] # "none" => verdict'[q] # "none"
                              /\ verdict'[q] # "pending"
      /\ proposal \in Proposals \cup {0}
  BY LoseIs DEF SendInv, TypeOK
<1>3. TypeOK'
  BY <1>1, <1>2 DEF SendInv, TypeOK
<1>4. \A s \in Slots : Delivers(s)' => Delivers(s) /\ job'[s] = job[s]
  BY <1>1 DEF Delivers
<1>5. PaysOnce' /\ SentInv' /\ \A r : Gentle(r)
  BY <1>1, <1>2, NothingSent
<1>6. DeliveryInv' /\ ApartInv'
  BY <1>1, <1>4, <1>5, DeliveriesStay, StayApart
<1>7. DraftInv' /\ PageInv'
  BY <1>1, <1>2 DEF SendInv, DraftInv, PageInv, Delivers
<1>8. UnsentInv' /\ BellInv'
  BY <1>1 DEF SendInv, UnsentInv, BellInv
<1>9. PendingInv'
  BY <1>1, <1>2 DEF PendingInv, PendingIsHeld
<1>10. QED
  BY <1>3, <1>5, <1>6, <1>7, <1>8, <1>9 DEF SendInv

LEMMA MineKeeps ==
  ASSUME SendInv, NEW p \in Proposals, Mine(p)
  PROVE  SendInv'
<1>1. /\ net[p] = "taken"
      /\ UNCHANGED <<wallet, seen, switches, alive, verdict, recorded, signatures, body,
                     stage, draft, shown, tier, sel, proposal, job, reviews, bells, repriced>>
  BY DEF Mine, authority, screen
<1>2. /\ net' \in [Proposals -> {"unsent", "taken", "mined", "reverted"}]
      /\ net'[p] \in {"mined", "reverted"}
      /\ \A q \in Proposals : q # p => net'[q] = net[q]
  BY DEF Mine, SendInv, TypeOK
<1>3. OnScreen' = OnScreen
  BY <1>1, ScreenStays DEF screen
<1>4. \A s \in Slots : Delivers(s)' => Delivers(s) /\ job'[s] = job[s]
  BY <1>1 DEF Delivers
<1>5. \A r : Gentle(r)
  BY <1>1, <1>2 DEF SendInv, SentInv, Gentle
<1>6. DeliveryInv' /\ ApartInv'
  BY <1>1, <1>4, <1>5, DeliveriesStay, StayApart
<1>7. TypeOK'
  BY <1>1, <1>2 DEF SendInv, TypeOK
<1>8. DraftInv' /\ PageInv'
  BY <1>1, <1>3 DEF SendInv, DraftInv, PageInv, Delivers
<1>9. SentInv' /\ PaysOnce'
  BY <1>1, <1>2 DEF SendInv, SentInv, PaysOnce
<1>10. UnsentInv' /\ PendingInv' /\ BellInv'
  BY <1>1, <1>2 DEF SendInv, UnsentInv, PendingInv, PendingIsHeld, BellInv
<1>11. QED
  BY <1>6, <1>7, <1>8, <1>9, <1>10 DEF SendInv

LEMMA OutsideKeeps ==
  ASSUME SendInv, Outside
  PROVE  SendInv'
<1>1. /\ wallet \in Wallets /\ seen \in BOOLEAN /\ switches \in 0..MaxSwitches
  BY DEF SendInv, TypeOK
<1>2. CASE ChildDies
  BY <1>1, <1>2, LossKeeps DEF ChildDies, screen
<1>3. ASSUME NEW w \in Wallets, SwitchWallet(w) PROVE SendInv'
  <2>1. switches' \in 0..MaxSwitches
    BY <1>1, <1>3, SendAssumption DEF SendAssumption, SwitchWallet
  <2>2. QED
    BY <1>3, <2>1, LossKeeps DEF SwitchWallet, screen
<1>4. QED
  BY <1>2, <1>3, MineKeeps DEF Outside

LEMMA StutterKeeps ==
  ASSUME SendInv, UNCHANGED vars
  PROVE  SendInv'
<1>1. UNCHANGED screen /\ OnScreen' = OnScreen
  BY ScreenStays DEF vars
<1>2. UNCHANGED <<wallet, seen, switches, alive, verdict, recorded, signatures, body, stage,
                  draft, shown, tier, sel, proposal, job, net, reviews, bells, repriced>>
  BY DEF vars, authority, screen
<1>3. TypeOK' /\ SentInv' /\ PaysOnce' /\ UnsentInv' /\ PendingInv' /\ BellInv'
  BY <1>2 DEF SendInv, TypeOK, SentInv, PaysOnce, UnsentInv, PendingInv, PendingIsHeld, BellInv
<1>4. DraftInv' /\ PageInv'
  BY <1>1, <1>2 DEF SendInv, DraftInv, PageInv, Delivers
<1>5. DeliveryInv' /\ ApartInv'
  BY <1>2 DEF SendInv, DeliveryInv, ApartInv, Delivers, Asks, Marks, Sends, Tells
<1>6. QED
  BY <1>3, <1>4, <1>5 DEF SendInv

-----------------------------------------------------------------------------
(* The theorems *)

LEMMA StepSend == SendInv /\ [Next]_vars => SendInv'
<1> SUFFICES ASSUME SendInv, [Next]_vars PROVE SendInv'
  OBVIOUS
<1>1. CASE Human
  <2>1. ASSUME NEW w \in Wishes, BeginEvmReview(w) \/ BeginSolReview(w) \/ BeginBtcReview(w)
        PROVE  SendInv'
    BY <2>1, OpensKeeps DEF BeginEvmReview, BeginSolReview, BeginBtcReview
  <2>2. ASSUME NEW good \in BOOLEAN, ConfirmEvm(good) \/ ConfirmSol(good) \/ ConfirmBtc(good)
        PROVE  SendInv'
    BY <2>2, ConfirmsKeeps DEF ConfirmEvm, ConfirmSol, ConfirmBtc
  <2>3. QED
    BY <1>1, <2>1, <2>2, PickTierKeeps, CancelKeeps, DoneKeeps DEF Human
<1>2. CASE Refreshes
  BY <1>2, QuoteStarts DEF Refreshes
<1>3. CASE Thread
  BY <1>3, QuoteEndsKeeps, DeliveryKeeps
     DEF Thread, Quote, EvmQuoteEnds, SolQuoteEnds, BtcQuoteEnds
<1>4. CASE Frame
  BY <1>4, PollKeeps, SwitchSeenKeeps DEF Frame
<1>5. CASE Outside
  BY <1>5, OutsideKeeps
<1>6. CASE UNCHANGED vars
  BY <1>6, StutterKeeps
<1>7. QED
  BY <1>1, <1>2, <1>3, <1>4, <1>5, <1>6 DEF Next

\* The invariant behind the theorems below, and with it the types.
THEOREM SendInvariant == Spec => []SendInv
  BY InitSend, StepSend, PTL DEF Spec

\* What a delivery asks the trust plane to sign is what stood on the screen at
\* the click that started it, whatever was refreshed, repriced or retried.
THEOREM ScreenIsSigned == Spec => []SignsTheScreen
<1>1. SendInv => SignsTheScreen
  BY StepperDelivers DEF SignsTheScreen, Asks
<1>2. QED
  BY <1>1, SendInvariant, PTL

\* A review pays at most once, also when a thread goes on behind a page that has
\* started over, or an answer is lost and the payment confirmed again.
THEOREM OnePaymentPerReview == Spec => []PaysOnce
<1>1. SendInv => PaysOnce
  BY DEF SendInv
<1>2. QED
  BY <1>1, SendInvariant, PTL

\* Where the page offers another try, nothing of the review has been sent.
THEOREM RetryIsFree == Spec => []ReviewIsUnsent
<1>1. SendInv => ReviewIsUnsent
  BY DEF SendInv, UnsentInv, ReviewIsUnsent
<1>2. QED
  BY <1>1, SendInvariant, PTL

\* A receipt on the screen is that of this review's transaction.
THEOREM ReceiptsAreTrue == Spec => []ReceiptIsTrue
<1>1. SendInv => ReceiptIsTrue
  <2> SUFFICES ASSUME SendInv, stage = "Done"
               PROVE  LET j == job[Page] IN
                      /\ j.at = "ok" /\ j.review = draft.review
                      /\ net[j.p] \in IF ~j.success THEN {"reverted"}
                                      ELSE IF draft.wish.lane = "btc"
                                      THEN {"taken", "mined", "reverted"} ELSE {"mined"}
    BY DEF ReceiptIsTrue
  <2>1. job[Page].at = "ok"
    BY DEF SendInv, PageInv
  <2>2. body[job[Page].p].wish = draft.wish
    BY PageDelivers, ScreenIsReview
  <2>3. QED
    BY <2>1, <2>2, PageDelivers DEF Tells
<1>2. QED
  BY <1>1, SendInvariant, PTL

\* Nothing the page proposed is left pending in a live child behind its back.
THEOREM NothingIsLeftPending == Spec => []PendingIsHeld
<1>1. SendInv => PendingIsHeld
  BY DEF SendInv, PendingInv
<1>2. QED
  BY <1>1, SendInvariant, PTL

-----------------------------------------------------------------------------
(* Sums and the coins of a Bitcoin payment *)

\* A set of naturals has a least element: induction, where no operator is
\* to be named.
LEMMA Least ==
  ASSUME NEW T \in SUBSET Nat, T # {}
  PROVE  \E x \in T : \A y \in T : x <= y
<1>1. PICK x \in T : \A y \in T : ~(<<y, x>> \in OpToRel(<, Nat))
  BY NatLessThanWellFounded, WFMin
<1>2. \A y \in T : ~(y < x)
  BY <1>1 DEF OpToRel
<1>3. QED
  BY <1>2

\* The library's sum of a function is built set by set, one argument after
\* another.
Any(D) == CHOOSE x \in D : TRUE
SumsOf(fun, F, D) == IF D = {} THEN 0 ELSE fun[Any(D)] + F[D \ {Any(D)}]

LEMMA SumIs ==
  ASSUME NEW S, NEW fun \in [S -> Nat], NEW F,
         F = CHOOSE G : G = [D \in SUBSET S |-> SumsOf(fun, G, D)]
  PROVE  SumFunction(fun) = F[S]
<1>1. DOMAIN fun = S
  OBVIOUS
<1>2. QED
  BY <1>1, Zenon DEF SumFunction, SumFunctionOnSet, FoldFunctionOnSet,
     MapThenFoldSet, SumsOf, Any

\* The sums over all subsets.
SumTable(F, fun, S) ==
  /\ F \in [SUBSET S -> Nat] /\ F[{}] = 0
  /\ \A D \in SUBSET S : D # {} => \E x \in D : F[D] = fun[x] + F[D \ {x}]

LEMMA SumStep ==
  ASSUME NEW S, IsFiniteSet(S), NEW fun \in [S -> Nat]
  PROVE  \E F : SumTable(F, fun, S) /\ SumFunction(fun) = F[S]
<1> DEFINE UpTo(n) == {D \in SUBSET S : Cardinality(D) <= n}
           Sums(F, n) == /\ F \in [UpTo(n) -> Nat]
                         /\ \A D \in UpTo(n) : F[D] = SumsOf(fun, F, D)
           Unsummed == {n \in Nat : ~\E F : Sums(F, n)}
<1>1. \A D \in SUBSET S : IsFiniteSet(D) /\ Cardinality(D) \in Nat
  BY FS_Subset, FS_CardinalityType
<1>2. \A D \in SUBSET S : D # {} =>
        /\ Any(D) \in D
        /\ D \ {Any(D)} \in SUBSET S /\ Cardinality(D \ {Any(D)}) = Cardinality(D) - 1
  <2>1. \A D : D # {} => Any(D) \in D
    BY DEF Any
  <2>2. QED
    BY <1>1, <2>1, FS_RemoveElement
<1>3. UpTo(0) = {{}}
  BY <1>1, FS_EmptySet
<1>4. Sums([D \in UpTo(0) |-> 0], 0)
  BY <1>3 DEF SumsOf
<1>5. ASSUME NEW n \in Nat, NEW F, Sums(F, n)
      PROVE  \E G : Sums(G, n + 1)
  <2> DEFINE G == [D \in UpTo(n + 1) |-> SumsOf(fun, F, D)]
  <2>1. ASSUME NEW D \in UpTo(n + 1), D # {}
        PROVE  D \ {Any(D)} \in UpTo(n) /\ fun[Any(D)] \in Nat
    BY <1>1, <1>2, <2>1
  <2>2. G \in [UpTo(n + 1) -> Nat]
    <3>1. ASSUME NEW D \in UpTo(n + 1) PROVE SumsOf(fun, F, D) \in Nat
      BY <1>5, <2>1 DEF SumsOf
    <3>2. QED
      BY <3>1
  <2>3. \A D \in UpTo(n) : D \in UpTo(n + 1) /\ G[D] = F[D]
    BY <1>1, <1>5
  <2>4. \A D \in UpTo(n + 1) : G[D] = SumsOf(fun, G, D)
    BY <2>1, <2>3 DEF SumsOf
  <2>5. QED
    BY <2>2, <2>4
<1> HIDE DEF Sums, UpTo
<1>6. Unsummed = {}
  <2>1. SUFFICES ASSUME Unsummed # {} PROVE FALSE
    OBVIOUS
  <2>2. Unsummed \in SUBSET Nat
    OBVIOUS
  <2> HIDE DEF Unsummed
  <2>3. PICK n \in Unsummed : \A m \in Unsummed : n <= m
    BY <2>1, <2>2, Least
  <2>4. n \in Nat /\ ~\E F : Sums(F, n)
    BY <2>3 DEF Unsummed
  <2>5. n # 0
    BY <1>4, <2>4
  <2>6. PICK k \in Nat : k + 1 = n
    <3>1. n - 1 \in Nat /\ (n - 1) + 1 = n
      BY <2>4, <2>5
    <3>2. QED
      BY <3>1
  <2>7. k \notin Unsummed
    BY <2>3, <2>6
  <2>8. PICK F : Sums(F, k)
    BY <2>7 DEF Unsummed
  <2>9. \E G : Sums(G, n)
    BY <1>5, <2>6, <2>8
  <2>10. QED
    BY <2>4, <2>9
<1>7. PICK H : H = [D \in SUBSET S |-> SumsOf(fun, H, D)]
  <2>1. UpTo(Cardinality(S)) = SUBSET S /\ Cardinality(S) \in Nat
    BY FS_Subset, FS_CardinalityType DEF UpTo
  <2>2. PICK F : Sums(F, Cardinality(S))
    BY <1>6, <2>1
  <2>3. F = [D \in SUBSET S |-> SumsOf(fun, F, D)]
    BY <2>1, <2>2 DEF Sums
  <2>4. QED
    BY <2>3
<1> DEFINE F == CHOOSE G : G = [D \in SUBSET S |-> SumsOf(fun, G, D)]
<1>8. F = [D \in SUBSET S |-> SumsOf(fun, F, D)]
  BY <1>7
<1>9. SumFunction(fun) = F[S]
  BY SumIs
<1> HIDE DEF F
<1>10. \A D \in SUBSET S : F[D] = SumsOf(fun, F, D)
  BY <1>8
<1>11. \A D \in SUBSET S : F[D] \in Nat
  <2> DEFINE Bad == {Cardinality(D) : D \in {E \in SUBSET S : F[E] \notin Nat}}
  <2>1. SUFFICES ASSUME Bad # {} PROVE FALSE
    OBVIOUS
  <2>2. Bad \in SUBSET Nat
    BY <1>1
  <2>3. PICK n \in Bad : \A m \in Bad : n <= m
    BY <2>1, <2>2, Least
  <2>4. PICK D \in SUBSET S : F[D] \notin Nat /\ n = Cardinality(D)
    BY <2>3
  <2>5. D # {}
    <3>1. F[{}] = SumsOf(fun, F, {})
      BY <1>10
    <3>2. SumsOf(fun, F, {}) = 0
      BY DEF SumsOf
    <3>3. QED
      BY <2>4, <3>1, <3>2
  <2>6. F[D \ {Any(D)}] \in Nat
    <3>1. D \ {Any(D)} \in SUBSET S /\ Cardinality(D \ {Any(D)}) = n - 1 /\ n \in Nat
      BY <1>2, <2>2, <2>3, <2>4, <2>5
    <3>2. n - 1 \notin Bad
      <4> HIDE DEF Bad
      <4>1. QED
        BY <2>3, <3>1
    <3>3. QED
      BY <3>1, <3>2
  <2>7. fun[Any(D)] \in Nat
    BY <1>2, <2>4, <2>5
  <2>8. F[D] = fun[Any(D)] + F[D \ {Any(D)}]
    BY <1>10, <2>4, <2>5 DEF SumsOf
  <2>9. QED
    BY <2>4, <2>6, <2>7, <2>8
<1>12. F \in [SUBSET S -> Nat]
  BY <1>8, <1>11
<1>13. F[{}] = 0
  BY <1>10 DEF SumsOf
<1>14. \A D \in SUBSET S : D # {} => \E x \in D : F[D] = fun[x] + F[D \ {x}]
  BY <1>2, <1>10 DEF SumsOf
<1>15. SumTable(F, fun, S)
  BY <1>12, <1>13, <1>14 DEF SumTable
<1>16. QED
  BY <1>9, <1>15
LEMMA SumIsNat ==
  ASSUME NEW S, IsFiniteSet(S), NEW fun \in [S -> Nat]
  PROVE  SumFunction(fun) \in Nat
<1>1. PICK F : SumTable(F, fun, S) /\ SumFunction(fun) = F[S]
  BY SumStep
<1>2. F[S] \in Nat
  BY <1>1 DEF SumTable
<1>3. QED
  BY <1>1, <1>2

LEMMA SumOfOne ==
  ASSUME NEW x, NEW fun \in [{x} -> Nat]
  PROVE  SumFunction(fun) = fun[x]
<1>1. IsFiniteSet({x})
  BY FS_Singleton
<1>2. PICK F : SumTable(F, fun, {x}) /\ SumFunction(fun) = F[{x}]
  BY <1>1, SumStep
<1>3. F[{x}] = fun[x] + F[{x} \ {x}] /\ F[{}] = 0
  BY <1>2 DEF SumTable
<1>4. {x} \ {x} = {} /\ fun[x] \in Nat
  OBVIOUS
<1>5. F[{x}] = fun[x]
  BY <1>3, <1>4
<1>6. QED
  BY <1>2, <1>5

LEMMA SumOfTwo ==
  ASSUME NEW x, NEW y, x # y, NEW fun \in [{x, y} -> Nat]
  PROVE  SumFunction(fun) = fun[x] + fun[y]
<1>1. IsFiniteSet({x, y})
  <2>1. {x, y} = {x} \cup {y}
    OBVIOUS
  <2>2. IsFiniteSet({x})
    BY FS_Singleton
  <2>3. IsFiniteSet({x} \cup {y})
    BY <2>2, FS_AddElement
  <2>4. QED
    BY <2>1, <2>3
<1>2. PICK F : SumTable(F, fun, {x, y}) /\ SumFunction(fun) = F[{x, y}]
  BY <1>1, SumStep
<1>3. /\ F[{x}] = fun[x] + F[{x} \ {x}] /\ F[{y}] = fun[y] + F[{y} \ {y}]
      /\ F[{}] = 0
  <2>1. {x} \in SUBSET {x, y} /\ {y} \in SUBSET {x, y}
    OBVIOUS
  <2>2. QED
    BY <1>2, <2>1 DEF SumTable
<1>4. PICK z \in {x, y} : F[{x, y}] = fun[z] + F[{x, y} \ {z}]
  BY <1>2 DEF SumTable
<1>5. {x} \ {x} = {} /\ {y} \ {y} = {} /\ {x, y} \ {x} = {y} /\ {x, y} \ {y} = {x}
  OBVIOUS
<1>6. fun[x] \in Nat /\ fun[y] \in Nat
  OBVIOUS
<1>7. F[{x}] = fun[x] /\ F[{y}] = fun[y]
  BY <1>3, <1>5, <1>6
<1>8. F[{x, y}] = fun[x] + fun[y]
  <2>1. CASE z = x
    BY <1>4, <1>5, <1>7, <2>1
  <2>2. CASE z = y
    <3>1. F[{x, y}] = fun[y] + fun[x]
      BY <1>4, <1>5, <1>7, <2>2
    <3>2. QED
      BY <1>6, <3>1
  <2>3. QED
    BY <1>4, <2>1, <2>2
<1>9. QED
  BY <1>2, <1>8

LEMMA TotalOutIs ==
  ASSUME NEW plan, NEW a, NEW b, a.value \in Nat, b.value \in Nat
  PROVE  /\ plan.outputs = <<a>> => TotalOut(plan) = a.value
         /\ plan.outputs = <<a, b>> => TotalOut(plan) = a.value + b.value
<1> DEFINE values == [i \in DOMAIN plan.outputs |-> plan.outputs[i].value]
<1>1. ASSUME plan.outputs = <<a>>
      PROVE  TotalOut(plan) = a.value
  <2>1. values \in [{1} -> Nat] /\ values[1] = a.value
    BY <1>1
  <2> HIDE DEF values
  <2>2. SumFunction(values) = a.value
    BY <2>1, SumOfOne
  <2>3. TotalOut(plan) = SumFunction(values)
    BY DEF TotalOut, values
  <2>4. QED
    BY <2>2, <2>3
<1>2. ASSUME plan.outputs = <<a, b>>
      PROVE  TotalOut(plan) = a.value + b.value
  <2>1. /\ values \in [{1, 2} -> Nat] /\ 1 # 2
        /\ values[1] = a.value /\ values[2] = b.value
    BY <1>2
  <2> HIDE DEF values
  <2>2. SumFunction(values) = values[1] + values[2]
    BY <2>1, SumOfTwo
  <2>3. TotalOut(plan) = SumFunction(values)
    BY DEF TotalOut, values
  <2>4. QED
    BY <2>1, <2>2, <2>3
<1>3. QED
  BY <1>1, <1>2

LEMMA TotalIsNat ==
  ASSUME NEW coins, IsPurse(coins)
  PROVE  TotalValue(coins) \in Nat
<1>1. [u \in coins |-> u.value] \in [coins -> Nat]
  BY DEF IsPurse
<1>2. QED
  BY <1>1, SumIsNat DEF TotalValue, IsPurse

\* A selection pays the amount and, at the rate or above it, the fee of a
\* transaction with change; what is over is change or part of the fee.
Covers(s, amount, quotedRate, rate, inVb) ==
  LET fee == FeeOf(Cardinality(s.inputs), rate, inVb) IN
  /\ rate > 0 /\ rate >= quotedRate
  /\ Cardinality(s.inputs) \in Nat /\ Cardinality(s.inputs) > 0
  /\ TotalValue(s.inputs) \in Nat /\ fee \in Nat
  /\ \/ s.change = 0 /\ TotalValue(s.inputs) >= amount + fee
     \/ /\ s.change \in Nat /\ s.change >= kDustSats
        /\ TotalValue(s.inputs) = amount + fee + s.change

LEMMA SelectionCovers ==
  ASSUME NEW utxos, IsPurse(utxos), NEW amount \in Nat, NEW quotedRate \in Nat,
         NEW inVb \in Nat, NEW s, s = SelectCoins(utxos, amount, quotedRate, inVb), s.ok
  PROVE  \E rate \in Nat : Covers(s, amount, quotedRate, rate, inVb)
<1> DEFINE rate       == IF quotedRate = 0 THEN 1 ELSE quotedRate
           Fee(coins) == FeeOf(Cardinality(coins), rate, inVb)
           enough     == {coins \in Gathered(utxos) :
                            TotalValue(coins) >= amount + Fee(coins)}
           inputs     == CHOOSE coins \in enough :
                           \A more \in enough : Cardinality(coins) <= Cardinality(more)
           change     == TotalValue(inputs) - amount - Fee(inputs)
<1>1. \A coins \in Gathered(utxos) :
        /\ IsPurse(coins) /\ Cardinality(coins) \in Nat /\ Cardinality(coins) > 0
        /\ TotalValue(coins) \in Nat
  <2> SUFFICES ASSUME NEW coins \in SUBSET utxos, coins # {}
               PROVE  /\ IsPurse(coins) /\ Cardinality(coins) \in Nat
                      /\ Cardinality(coins) > 0 /\ TotalValue(coins) \in Nat
    BY DEF Gathered
  <2>1. IsPurse(coins)
    BY FS_Subset DEF IsPurse
  <2>2. Cardinality(coins) \in Nat /\ Cardinality(coins) # 0
    BY <2>1, FS_CardinalityType, FS_EmptySet DEF IsPurse
  <2>3. QED
    BY <2>1, <2>2, TotalIsNat
<1>2. rate \in Nat /\ rate > 0 /\ rate >= quotedRate
  OBVIOUS
<1> HIDE DEF rate
<1>3. \A coins \in Gathered(utxos) : Fee(coins) \in Nat
  BY <1>1, <1>2 DEF FeeOf, OutVb
<1>4. s = IF enough = {} THEN NoSelection
          ELSE IF change < kDustSats
          THEN [ok |-> TRUE, inputs |-> inputs, fee |-> TotalValue(inputs) - amount,
                change |-> 0]
          ELSE [ok |-> TRUE, inputs |-> inputs, fee |-> Fee(inputs), change |-> change]
  BY DEF SelectCoins, rate
<1> HIDE DEF Fee
<1>5. enough # {}
  <2> HIDE DEF enough
  <2>1. QED
    BY <1>4 DEF NoSelection
<1>6. inputs \in enough
  <2> DEFINE sizes == {Cardinality(coins) : coins \in enough}
  <2>1. sizes \in SUBSET Nat /\ sizes # {}
    BY <1>1, <1>5
  <2>2. PICK n \in sizes : \A m \in sizes : n <= m
    BY <2>1, Least
  <2>3. \E coins \in enough : \A more \in enough : Cardinality(coins) <= Cardinality(more)
    BY <2>2
  <2> HIDE DEF enough
  <2>4. QED
    BY <2>3
<1> HIDE DEF inputs
<1>7. /\ inputs \in Gathered(utxos) /\ Fee(inputs) \in Nat
      /\ TotalValue(inputs) >= amount + Fee(inputs)
  BY <1>3, <1>6
<1>8. CASE change < kDustSats
  <2>1. s.inputs = inputs /\ s.change = 0
    BY <1>4, <1>5, <1>8
  <2>2. QED
    BY <1>1, <1>2, <1>7, <2>1 DEF Fee, Covers
<1>9. CASE ~(change < kDustSats)
  <2>1. s.inputs = inputs /\ s.change = change
    BY <1>4, <1>5, <1>9
  <2>2. /\ change \in Nat /\ change >= kDustSats
        /\ TotalValue(inputs) = amount + Fee(inputs) + change
    BY <1>1, <1>7, <1>9 DEF kDustSats
  <2>3. QED
    BY <1>1, <1>2, <1>7, <2>1, <2>2 DEF Fee, Covers
<1>10. QED
  BY <1>8, <1>9

LEMMA TimesGrows ==
  ASSUME NEW a \in Nat, NEW b \in Nat, NEW q \in Nat, NEW r \in Nat, a <= b, q <= r
  PROVE  a * q <= b * r /\ (b > 0 /\ r > 0 => b * r > 0)
<1>1. PICK d \in Nat : b = a + d
  <2>1. b - a \in Nat /\ b = a + (b - a)
    OBVIOUS
  <2>2. QED
    BY <2>1
<1>2. PICK e \in Nat : r = q + e
  <2>1. r - q \in Nat /\ r = q + (r - q)
    OBVIOUS
  <2>2. QED
    BY <2>1
<1>3. b * r = a * q + a * e + d * q + d * e
  BY <1>1, <1>2
<1>4. a * q \in Nat /\ a * e \in Nat /\ d * q \in Nat /\ d * e \in Nat
  BY <1>1, <1>2
<1>5. a * q <= b * r
  BY <1>3, <1>4
<1>6. QED
  BY <1>5

LEMMA PlanIsSound ==
  ASSUME NEW utxos, IsPurse(utxos), NEW amount \in Nat, amount >= kDustSats,
         NEW quotedRate \in Nat, NEW inVb \in Nat,
         NEW s, s = SelectCoins(utxos, amount, quotedRate, inVb), s.ok,
         NEW to, NEW plan, plan = PlanOf(s, amount, to, "own")
  PROVE  /\ WhitelistPasses(plan, "own")
         /\ \A i \in DOMAIN plan.outputs : plan.outputs[i].value >= kDustSats
         /\ FeeSigned(plan) >=
              (11 + inVb * Cardinality(plan.inputs) + OutVb * Len(plan.outputs))
                * quotedRate
<1> DEFINE n     == Cardinality(s.inputs)
           total == TotalValue(s.inputs)
           pays  == [script |-> to, value |-> amount]
           back  == [script |-> "own", value |-> s.change]
<1>0. PICK rate \in Nat : Covers(s, amount, quotedRate, rate, inVb)
  BY SelectionCovers
<1>1. /\ rate > 0 /\ rate >= quotedRate /\ n \in Nat /\ n > 0
      /\ total \in Nat /\ FeeOf(n, rate, inVb) \in Nat
      /\ \/ s.change = 0 /\ total >= amount + FeeOf(n, rate, inVb)
         \/ /\ s.change \in Nat /\ s.change >= kDustSats
            /\ total = amount + FeeOf(n, rate, inVb) + s.change
  BY <1>0 DEF Covers
<1> DEFINE Size(outputs) == 11 + inVb * n + OutVb * outputs
<1>2. \A k \in {1, 2} : Size(k) \in Nat /\ Size(k) <= Size(2) /\ Size(2) > 0
  BY <1>1 DEF OutVb
<1>3. FeeOf(n, rate, inVb) = Size(2) * rate
  BY DEF FeeOf
<1>4. plan.inputs = s.inputs
  BY DEF PlanOf
<1> HIDE DEF n, total, Size
<1>5. \A k \in {1, 2} :
        FeeOf(n, rate, inVb) > 0 /\ Size(k) * quotedRate <= FeeOf(n, rate, inVb)
  BY <1>1, <1>2, <1>3, TimesGrows
<1>6. \A k \in {1, 2} : Size(k) * quotedRate \in Nat
  BY <1>2
<1>7. CASE s.change = 0
  <2>1. plan.outputs = <<pays>>
    BY <1>7 DEF PlanOf
  <2>2. Len(plan.outputs) = 1 /\ DOMAIN plan.outputs = {1} /\ plan.outputs[1].value = amount
    BY <2>1
  <2>3. TotalOut(plan) = amount
    <3>1. pays.value = amount /\ amount \in Nat
      OBVIOUS
    <3>2. QED
      BY <2>1, <3>1, TotalOutIs
  <2>4. total >= amount + FeeOf(n, rate, inVb)
    BY <1>1, <1>7 DEF kDustSats
  <2>5. FeeSigned(plan) = total - amount
    BY <1>4, <2>3 DEF FeeSigned, total
  <2>6. total > amount
    BY <1>1, <1>5, <2>4
  <2>7. WhitelistPasses(plan, "own")
    BY <1>4, <2>2, <2>3, <2>6 DEF WhitelistPasses, total
  <2>8. FeeSigned(plan) >= Size(1) * quotedRate
    BY <1>1, <1>5, <1>6, <2>4, <2>5
  <2>9. QED
    BY <1>4, <2>2, <2>7, <2>8 DEF Size, n
<1>8. CASE s.change # 0
  <2>1. plan.outputs = <<pays, back>>
    <3>1. s.change > 0
      BY <1>1, <1>8
    <3>2. QED
      BY <3>1 DEF PlanOf
  <2>2. /\ Len(plan.outputs) = 2 /\ DOMAIN plan.outputs = {1, 2}
        /\ plan.outputs[1].value = amount /\ plan.outputs[2].value = s.change
        /\ plan.outputs[2].script = "own"
    BY <2>1
  <2>3. s.change \in Nat /\ s.change >= kDustSats
        /\ total = amount + FeeOf(n, rate, inVb) + s.change
    BY <1>1, <1>8
  <2>4. TotalOut(plan) = amount + s.change
    <3>1. /\ pays.value = amount /\ amount \in Nat
          /\ back.value = s.change /\ s.change \in Nat
      BY <2>3
    <3>2. QED
      BY <2>1, <3>1, TotalOutIs
  <2>5. FeeSigned(plan) = FeeOf(n, rate, inVb) /\ total > amount + s.change
    <3>1. FeeSigned(plan) = total - (amount + s.change)
      BY <1>4, <2>4 DEF FeeSigned, total
    <3>2. QED
      BY <1>1, <1>5, <2>3, <3>1
  <2>6. WhitelistPasses(plan, "own")
    <3>1. \E i \in 1..2 : plan.outputs[i].script = "own"
      BY <2>2
    <3>2. TotalValue(plan.inputs) > TotalOut(plan)
      BY <1>4, <2>4, <2>5 DEF total
    <3>3. \A k : k = 2 => k <= 2
      OBVIOUS
    <3>4. Len(plan.outputs) = 2
      BY <2>2
    <3>5. QED
      BY <3>1, <3>2, <3>3, <3>4 DEF WhitelistPasses
  <2>7. FeeSigned(plan) >= Size(2) * quotedRate
    BY <1>1, <1>5, <1>6, <2>5
  <2>8. QED
    BY <1>4, <2>2, <2>3, <2>6, <2>7 DEF Size, n
<1>9. QED
  BY <1>7, <1>8

-----------------------------------------------------------------------------
(* Every Bitcoin plan that is proposed is sound *)

\* The figures and the selection on the screen come of an explorer's quote, for
\* an amount that is no dust; nothing but an Ethereum review is refreshed.
QuotedInv ==
  stage \in {"Quoting", "Review", "Delivering"} /\ draft.wish.lane = "btc" =>
    /\ draft.wish.amount \in Nat /\ draft.wish.amount >= kDustSats
    /\ stage = "Quoting" /\ job[Page].at = "ok" => job[Page].quote \in BtcQuotes
    /\ stage = "Review" => job[Page].at = "none"
    /\ stage \in {"Review", "Delivering"} =>
         shown.quote \in BtcQuotes /\ sel = Reselect(shown.quote, tier)

PlanInv == QuotedInv /\ PlansAreSound

LEMMA InputVbIsNat == \A preset : InputVb(preset) \in Nat
BY DEF InputVb

\* A tier of the explorer's answer is a rate.
LEMMA TierIsNat ==
  ASSUME NEW quoted, IsQuotedTiers(quoted), NEW t \in Tiers
  PROVE  FeeTiers(quoted)[t] \in Nat
BY DEF FeeTiers, IsQuotedTiers, Tiers

\* What Confirm would propose.
LEMMA ScreenIsSound ==
  ASSUME QuotedInv, stage = "Review", draft.wish.lane = "btc", sel.ok, tier \in Tiers
  PROVE  LET plan == OnScreen.figures IN
         /\ WhitelistPasses(plan, "own")
         /\ \A i \in DOMAIN plan.outputs : plan.outputs[i].value >= kDustSats
         /\ FeeSigned(plan) >=
              (11 + InputVb(OnScreen.preset) * Cardinality(plan.inputs)
                  + OutVb * Len(plan.outputs)) * OnScreen.rate
<1> DEFINE utxos == Confirmed(shown.quote.purse)
           rate  == FeeTiers(shown.quote.tiers)[tier]
           inVb  == InputVb(draft.preset)
           to    == IF draft.wish.self THEN "own" ELSE "payee"
<1>1. /\ draft.wish.amount \in Nat /\ draft.wish.amount >= kDustSats
      /\ shown.quote \in BtcQuotes
      /\ sel = SelectCoins(utxos, draft.wish.amount, rate, inVb)
  BY DEF QuotedInv, Reselect
<1>2. IsPurse(shown.quote.purse) /\ IsQuotedTiers(shown.quote.tiers)
  BY <1>1, SendAssumption DEF SendAssumption
<1>3. IsPurse(utxos)
  <2>1. utxos \in SUBSET shown.quote.purse
    BY DEF Confirmed
  <2>2. QED
    BY <1>2, <2>1, FS_Subset DEF IsPurse
<1>4. rate \in Nat /\ inVb \in Nat
  BY <1>2, TierIsNat, InputVbIsNat
<1>5. /\ OnScreen.figures = PlanOf(sel, draft.wish.amount, to, "own")
      /\ OnScreen.preset = draft.preset /\ OnScreen.rate = rate
  BY DEF OnScreen
<1> HIDE DEF utxos, rate, inVb, to
<1> DEFINE plan == OnScreen.figures
<1>6. /\ WhitelistPasses(plan, "own")
      /\ \A i \in DOMAIN plan.outputs : plan.outputs[i].value >= kDustSats
      /\ FeeSigned(plan) >=
           (11 + inVb * Cardinality(plan.inputs) + OutVb * Len(plan.outputs)) * rate
  <2>1. plan = PlanOf(sel, draft.wish.amount, to, "own")
    BY <1>5
  <2> HIDE DEF plan
  <2>2. QED
    BY <1>1, <1>3, <1>4, <2>1, PlanIsSound
<1>7. QED
  BY <1>5, <1>6 DEF inVb

LEMMA InitPlan == Init => PlanInv
<1> SUFFICES ASSUME Init PROVE PlanInv
  OBVIOUS
<1>1. QuotedInv
  BY DEF Init, QuotedInv
<1>2. PlansAreSound
  BY DEF Init, PlansAreSound
<1>3. QED
  BY <1>1, <1>2 DEF PlanInv

LEMMA PlansStay ==
  ASSUME PlanInv, UNCHANGED body
  PROVE  PlansAreSound'
BY DEF PlanInv, PlansAreSound

\* A review goes on with the figures it has, its job over or where it was.
LEMMA QuotedStays ==
  ASSUME PlanInv, UNCHANGED screen,
         \/ stage' = stage /\ job'[Page] = job[Page]
         \/ stage \in {"Review", "Delivering"} /\ stage' = "Review" /\ job'[Page].at = "none"
         \/ stage \in {"Review", "Delivering"} /\ stage' = "Delivering"
         \/ stage' \notin {"Quoting", "Review", "Delivering"}
  PROVE  QuotedInv'
<1>1. draft' = draft /\ shown' = shown /\ tier' = tier /\ sel' = sel
  BY DEF screen
<1>2. Reselect(shown.quote, tier)' = Reselect(shown.quote, tier)
  BY <1>1 DEF Reselect
<1>3. QED
  BY <1>1, <1>2 DEF PlanInv, QuotedInv

LEMMA HumanPlans ==
  ASSUME SendInv, PlanInv, Human
  PROVE  PlanInv'
<1>1. ASSUME NEW w \in Wishes, BeginEvmReview(w) \/ BeginSolReview(w) \/ BeginBtcReview(w)
      PROVE  PlanInv'
  <2>1. PICK preset : Opens(w, preset)
    BY <1>1 DEF BeginEvmReview, BeginSolReview, BeginBtcReview
  <2>2. /\ stage' = "Quoting" /\ draft'.wish = Flipped(w) /\ body' = body
        /\ job'[Page].at = "quote"
    BY <2>1, PageIsSlot DEF Opens, QuoteJob, SendInv, TypeOK
  <2>3. w.amount \in Nat /\ Flipped(w).amount = w.amount
    BY SendAssumption DEF SendAssumption, Flipped
  <2>4. Flipped(w).lane = "btc" => w.amount >= kDustSats
    BY <1>1 DEF BeginEvmReview, BeginSolReview, BeginBtcReview
  <2>5. QuotedInv'
    BY <2>2, <2>3, <2>4 DEF QuotedInv
  <2>6. QED
    BY <2>2, <2>5, PlansStay DEF PlanInv
<1>2. ASSUME NEW t \in Tiers, PickTier(t)
      PROVE  PlanInv'
  <2>1. /\ stage = "Review" /\ draft.wish.lane = "btc" /\ UNCHANGED <<stage, draft, shown, job, body>>
        /\ tier' = t /\ sel' = Reselect(shown.quote, t)
    BY <1>2 DEF PickTier
  <2>2. Reselect(shown.quote, tier)' = sel'
    BY <2>1 DEF Reselect
  <2>3. QuotedInv'
    BY <2>1, <2>2 DEF PlanInv, QuotedInv
  <2>4. QED
    BY <2>1, <2>3, PlansStay DEF PlanInv
<1>3. ASSUME NEW good \in BOOLEAN, ConfirmEvm(good) \/ ConfirmSol(good) \/ ConfirmBtc(good)
      PROVE  PlanInv'
  <2>1. /\ Confirms(good)
        /\ draft.wish.lane = "btc" => sel.ok
    BY <1>3 DEF ConfirmEvm, ConfirmSol, ConfirmBtc
  <2>2. /\ stage = "Review" /\ stage' = "Delivering" /\ UNCHANGED screen
        /\ \E p \in Proposals : /\ body'[p] = OnScreen
                                /\ \A q \in Proposals : q # p => body'[q] = body[q]
    BY <2>1, ConfirmsIs DEF screen
  <2>3. PICK p \in Proposals : /\ body'[p] = OnScreen
                               /\ \A q \in Proposals : q # p => body'[q] = body[q]
    BY <2>2
  <2>4. QuotedInv'
    BY <2>2, QuotedStays
  <2>5. PlansAreSound'
    <3> DEFINE b == OnScreen
    <3>1. draft.wish.lane = "btc" =>
            LET plan == b.figures IN
            /\ WhitelistPasses(plan, "own")
            /\ \A i \in DOMAIN plan.outputs : plan.outputs[i].value >= kDustSats
            /\ FeeSigned(plan) >=
                 (11 + InputVb(b.preset) * Cardinality(plan.inputs)
                     + OutVb * Len(plan.outputs)) * b.rate
      BY <2>1, <2>2, ScreenIsSound DEF PlanInv, SendInv, TypeOK
    <3>2. b.wish = draft.wish /\ body'[p] = b
      BY <2>3, ScreenIsReview
    <3> HIDE DEF b
    <3>3. QED
      BY <2>3, <3>1, <3>2 DEF PlanInv, PlansAreSound
  <2>6. QED
    BY <2>4, <2>5 DEF PlanInv
<1>4. CASE CancelFlow \/ DonePressed
  <2>1. stage' = "Form" /\ body' = body
    BY <1>4 DEF CancelFlow, DonePressed, Blank
  <2>2. QuotedInv'
    BY <2>1 DEF QuotedInv
  <2>3. QED
    BY <2>1, <2>2, PlansStay DEF PlanInv
<1>5. QED
  BY <1>1, <1>2, <1>3, <1>4 DEF Human

LEMMA ThreadPlans ==
  ASSUME SendInv, PlanInv, Thread
  PROVE  PlanInv'
<1>1. CASE Quote
  <2>1. PICK quotes, answers :
          QuoteEnds(quotes, answers) /\ (draft.wish.lane = "btc" => quotes = BtcQuotes)
    BY <1>1 DEF Quote, EvmQuoteEnds, SolQuoteEnds, BtcQuoteEnds
  <2>2. /\ UNCHANGED screen /\ stage' = stage /\ body' = body
        /\ job[Page].at \in {"quote", "requote"}
        /\ job'[Page].at = "ok" => job'[Page].quote \in quotes
    BY <2>1, PageIsSlot DEF QuoteEnds, SetJob, SendInv, TypeOK
  <2>3. draft.wish.lane = "btc" => stage \notin {"Review", "Delivering"}
    <3>1. stage # "Delivering"
      BY <2>2, PageIsSlot DEF SendInv, DeliveryInv, Deliveries, Delivers
    <3>2. QED
      BY <2>2, <3>1 DEF PlanInv, QuotedInv
  <2>4. draft' = draft
    BY <2>2 DEF screen
  <2>5. QuotedInv'
    BY <2>1, <2>2, <2>3, <2>4 DEF PlanInv, QuotedInv
  <2>6. QED
    BY <2>2, <2>5, PlansStay DEF PlanInv
<1>2. ASSUME NEW s \in Slots, DeliveryStep(s)
      PROVE  PlanInv'
  <2>1. /\ UNCHANGED <<screen, stage, body>>
        /\ \E j : job' = [job EXCEPT ![s] = j]
        /\ job[s].at \in {"approve", "record", "reply", "send", "poll"}
    BY <1>2 DEF DeliveryStep, AsksChild, CallsNode, AskApproval, ApprovalRecorded, SignatureArrives, BroadcastBtc,
       BroadcastRaw, Broadcast, PollReceipt, PollSignature, Polls, Moves, Fails, SetJob
  <2>2. s = Page => stage = "Delivering"
    BY <2>1, StepperDelivers
  <2>3. s # Page => job'[Page] = job[Page]
    BY <2>1, PageIsSlot DEF SendInv, TypeOK
  <2>4. QuotedInv'
    BY <2>1, <2>2, <2>3, QuotedStays
  <2>5. QED
    BY <2>1, <2>4, PlansStay DEF PlanInv
<1>3. QED
  BY <1>1, <1>2 DEF Thread

LEMMA FramePlans ==
  ASSUME SendInv, PlanInv, Frame
  PROVE  PlanInv'
<1> DEFINE j == job[Page]
<1>1. body' = body
  BY DEF Frame, PollJob, FrameSeesSwitch
<1>2. stage = "Delivering" => ~j.requote
  BY PageIsSlot DEF SendInv, PageInv, DeliveryInv, Deliveries, Delivers
<1>3. ASSUME PollJob
      PROVE  QuotedInv'
  <2>1. CASE j.requote
    <3>1. RequoteLands(j) /\ j.at \in {"ok", "failed"}
      BY <1>3, <2>1 DEF PollJob
    <3>2. stage' = stage /\ draft' = draft
      BY <3>1 DEF RequoteLands
    <3>3. stage # "Quoting" /\ stage # "Delivering"
      BY <1>2, <2>1 DEF SendInv, PageInv
    <3>4. stage = "Review" => draft.wish.lane # "btc"
      BY <3>1 DEF PlanInv, QuotedInv
    <3>5. QED
      BY <3>2, <3>3, <3>4 DEF QuotedInv
  <2>2. CASE ~j.requote /\ j.at = "ok" /\ stage = "Quoting"
    <3>1. QuoteLands(j)
      BY <1>3, <2>2 DEF PollJob
    <3>2. /\ stage' = "Review" /\ draft' = draft /\ tier' = tier
          /\ shown'.quote = j.quote /\ job'[Page].at = "none"
          /\ draft.wish.lane = "btc" => sel' = Reselect(j.quote, tier)
      BY <3>1, LetGoIs DEF QuoteLands, Figures
    <3>3. Reselect(shown.quote, tier)' = Reselect(j.quote, tier)
      BY <3>2 DEF Reselect
    <3>4. QED
      BY <2>2, <3>2, <3>3 DEF PlanInv, QuotedInv
  <2>3. CASE ~j.requote /\ j.at = "ok" /\ stage # "Quoting"
    <3>1. SuccessLands(j)
      BY <1>3, <2>3 DEF PollJob
    <3>2. QED
      BY <3>1 DEF SuccessLands, QuotedInv
  <2>4. CASE ~j.requote /\ j.at = "failed"
    <3>1. FailureLands(j)
      BY <1>3, <2>4 DEF PollJob
    <3>2. UNCHANGED screen
      BY <3>1 DEF FailureLands, KeepsScreen
    <3>3. CASE stage = "Delivering" /\ j.step = 0
      <4>1. stage' = "Review" /\ job'[Page].at = "none"
        BY <3>1, <3>3, LetGoIs DEF FailureLands
      <4>2. QED
        BY <3>2, <3>3, <4>1, QuotedStays
    <3>4. CASE stage = "Review"
      <4>1. stage' = "Review" /\ job'[Page].at = "none"
        BY <3>1, <3>4, LetGoIs DEF FailureLands
      <4>2. QED
        BY <3>2, <3>4, <4>1, QuotedStays
    <3>5. CASE ~(stage = "Delivering" /\ j.step = 0) /\ stage # "Review"
      <4>1. stage' \notin {"Quoting", "Review", "Delivering"}
        BY <3>1, <3>5 DEF FailureLands
      <4>2. QED
        BY <3>2, <4>1, QuotedStays
    <3>6. QED
      BY <3>3, <3>4, <3>5
  <2>5. j.at \in {"ok", "failed"}
    BY <1>3 DEF PollJob
  <2>6. QED
    BY <2>1, <2>2, <2>3, <2>4, <2>5
<1>4. ASSUME FrameSeesSwitch
      PROVE  QuotedInv'
  BY <1>4 DEF FrameSeesSwitch, Blank, QuotedInv
<1>5. QED
  BY <1>1, <1>3, <1>4, PlansStay DEF Frame, PlanInv

LEMMA StepPlan == SendInv /\ PlanInv /\ [Next]_vars => PlanInv'
<1> SUFFICES ASSUME SendInv, PlanInv, [Next]_vars PROVE PlanInv'
  OBVIOUS
<1>1. CASE Refreshes
  <2>1. /\ draft.wish.lane = "evm" /\ UNCHANGED <<screen, body>>
    BY <1>1 DEF Refreshes, StartRequote
  <2>2. QuotedInv'
    BY <2>1 DEF QuotedInv, screen
  <2>3. QED
    BY <2>1, <2>2, PlansStay DEF PlanInv
<1>2. CASE Outside \/ UNCHANGED vars
  <2>1. UNCHANGED <<screen, stage, job, body>>
    BY <1>2 DEF Outside, ChildDies, SwitchWallet, Mine, vars
  <2>2. QED
    BY <2>1, QuotedStays, PlansStay DEF PlanInv
<1>3. QED
  BY <1>1, <1>2, HumanPlans, ThreadPlans, FramePlans DEF Next

\* A Bitcoin plan that is proposed pays no less than the fee quoted for its
\* size, leaves no dust and passes the signer's whitelist, whatever coins the
\* explorer lists and whatever it quotes.
THEOREM ProposedPlansAreSound == Spec => []PlansAreSound
<1>1. Spec => [](SendInv /\ PlanInv)
  BY InitSend, StepSend, InitPlan, StepPlan, PTL DEF Spec
<1>2. PlanInv => PlansAreSound
  BY DEF PlanInv
<1>3. QED
  BY <1>1, <1>2, PTL

\* What the human clicks asks the trust plane for nothing but a decision on the
\* proposal shown.
LEMMA HumanIsPromised ==
  ASSUME SendInv, Human
  PROVE  Authority!Next \/ UNCHANGED authority
<1>1. ASSUME NEW w \in Wishes,
             BeginEvmReview(w) \/ BeginSolReview(w) \/ BeginBtcReview(w)
      PROVE  UNCHANGED authority
  BY <1>1 DEF BeginEvmReview, BeginSolReview, BeginBtcReview, Opens
<1>2. ASSUME NEW good \in BOOLEAN,
             ConfirmEvm(good) \/ ConfirmSol(good) \/ ConfirmBtc(good)
      PROVE  Authority!Next \/ UNCHANGED authority
  BY <1>2 DEF ConfirmEvm, ConfirmSol, ConfirmBtc, Confirms, Authority!Next
<1>3. ASSUME CancelFlow PROVE Authority!Next \/ UNCHANGED authority
  <2>1. proposal # 0 => proposal \in Proposals
    BY DEF SendInv, TypeOK
  <2>2. QED
    BY <1>3, <2>1 DEF CancelFlow, Authority!Next
<1>4. ASSUME (\E t \in Tiers : PickTier(t)) \/ DonePressed
      PROVE  UNCHANGED authority
  BY <1>4 DEF PickTier, DonePressed
<1>5. QED
  BY <1>1, <1>2, <1>3, <1>4 DEF Human

\* A delivery thread asks the trust plane to record an approval, to sign what is
\* approved, or for nothing; a quote thread for nothing.
LEMMA ThreadIsPromised ==
  ASSUME SendInv, Thread
  PROVE  Authority!Next \/ UNCHANGED authority
<1>1. ASSUME Quote PROVE UNCHANGED authority
  BY <1>1 DEF Quote, EvmQuoteEnds, SolQuoteEnds, BtcQuoteEnds, QuoteEnds
<1>2. ASSUME NEW s \in Slots, DeliveryStep(s)
      PROVE  Authority!Next \/ UNCHANGED authority
  <2>1. job[s].at \in {"approve", "record", "reply"} => job[s].p \in Proposals
    BY StepperDelivers
  <2>2. CASE AskApproval(s) \/ ApprovalRecorded(s) \/ SignatureArrives(s)
    BY <2>1, <2>2 DEF AskApproval, ApprovalRecorded, SignatureArrives, Authority!Next
  <2>3. CASE BroadcastBtc(s) \/ BroadcastRaw(s) \/ PollReceipt(s) \/ PollSignature(s)
    BY <2>3 DEF BroadcastBtc, BroadcastRaw, Broadcast, PollReceipt, PollSignature, Polls
  <2>4. QED
    BY <1>2, <2>2, <2>3 DEF DeliveryStep, AsksChild, CallsNode
<1>3. QED
  BY <1>1, <1>2 DEF Thread

\* Outside the page, the signer may die and lose what was undecided; a switch of
\* wallet and a mined block are not seen by the trust plane.
LEMMA OutsideIsPromised ==
  ASSUME Outside
  PROVE  Authority!Next \/ UNCHANGED authority
<1>1. Undecided \in SUBSET Proposals
  BY DEF Undecided
<1>2. QED
  BY <1>1 DEF Outside, ChildDies, SwitchWallet, Mine, Authority!Next

\* Refreshing a quote, drawing a frame and standing still leave the trust plane
\* alone.
LEMMA QuietIsPromised ==
  ASSUME Refreshes \/ Frame \/ UNCHANGED vars
  PROVE  UNCHANGED authority
BY DEF Refreshes, StartRequote, Frame, PollJob, FrameSeesSwitch, vars

\* Whatever the page, its threads and its wallets do, the trust plane does no
\* more than SigningAuthority, which Keyd implements, allows.
THEOREM OnlyWhatIsPromised == Spec => Authority!Spec
<1>1. ASSUME Init PROVE Authority!Init
  BY <1>1 DEF Init
<1>2. ASSUME SendInv, [Next]_vars
         PROVE  [Authority!Next]_(Authority!avars)
  <2>1. Authority!Next \/ UNCHANGED authority
    BY <1>2, HumanIsPromised, ThreadIsPromised, OutsideIsPromised,
       QuietIsPromised DEF Next
  <2>2. QED
    BY <2>1 DEF authority, Authority!avars
<1>3. QED
  BY SendInvariant, <1>1, <1>2, PTL DEF Authority!Spec, Spec

=============================================================================
