------------------------------ MODULE SendFlow ------------------------------
(***************************************************************************)
(* The send page (src/ui/pages/send_page.cpp): the form, the quote, the    *)
(* review, the confirmation and the delivery of one payment at a time, on  *)
(* an Ethereum-like chain, Bitcoin or Solana.                              *)
(*                                                                         *)
(* Three parties move by themselves: the frame loop with the human in      *)
(* front of it, the detached thread of the page's job, and the trust       *)
(* plane.  The trust plane is the SigningAuthority that Keyd implements;   *)
(* its proposals are numbered through over all its children.  The chain    *)
(* answers, fails, or takes a transaction and loses the answer.            *)
(*                                                                         *)
(* A job thread the page has let go of lives on when it was delivering, in *)
(* the slot of the change of wallet that parted them; the others leave no  *)
(* trace.  Texts, addresses, hashes and the seconds between two polls are  *)
(* left out; so is the form behind the dialog, which is modal.             *)
(***************************************************************************)
EXTENDS Naturals, FiniteSets, Identity, Spending

CONSTANTS
  Wallets,       \* the wallets that may be active, records of Identity
  Wishes,        \* what a human may type: [to, asset, self, token, amount]
  EvmQuotes,     \* nonce, gas and fees a chain may quote
  SolQuotes,     \* balances, rent and blockhash a cluster may quote
  BtcQuotes,     \* [purse, tiers] an explorer may quote
  MaxReviews,    \* bound: reviews begun
  MaxProposals,  \* bound: proposals submitted
  MaxPolls,      \* polls of a receipt before the thread gives up
  MaxSwitches    \* bound: changes of the active wallet

ASSUME SendAssumption ==
  /\ \A w \in Wishes : w.amount \in Nat
  /\ \A q \in BtcQuotes : IsPurse(q.purse) /\ IsQuotedTiers(q.tiers)
  /\ MaxReviews \in Nat /\ MaxProposals \in Nat /\ MaxPolls \in Nat
  /\ MaxSwitches \in Nat

Proposals == 1..MaxProposals

VARIABLES
  wallet, seen,     \* the active wallet; has the page drawn since it changed
  switches,         \* changes of the active wallet so far
  alive,            \* the child of the active wallet answers
  verdict, recorded, signatures,   \* the trust plane, as SigningAuthority
  body,             \* of each proposal: what it asks to sign
  stage,            \* m_stage
  draft,            \* the wish under review, its review and its preset
  shown,            \* the figures on the screen
  tier, sel,        \* m_btc_tier and m_btc_sel
  proposal,         \* m_proposal
  job,              \* m_job in slot Page; in the others, threads let go
  net,              \* of each proposal: where its transaction is
  reviews,          \* reviews begun so far
  bells,            \* of each review: how often on_settled was called
  repriced          \* history: proposals forgotten by a change of tier

authority == <<verdict, recorded, signatures>>
screen == <<draft, shown, tier, sel>>
vars == <<wallet, seen, switches, alive, authority, body, stage, screen,
          proposal, job, net, reviews, bells, repriced>>

Authority == INSTANCE SigningAuthority

Stages == {"Form", "Quoting", "Review", "Delivering", "Done", "Failed"}
Page == 0
Slots == Page..MaxSwitches
Reviews == 1..MaxReviews
NoJob == [at |-> "none"]
NoDraft == [review |-> 0]
NoFigures == [review |-> 0]
NoBody == [review |-> 0]
Tiers == {"fast", "normal", "slow"}

Threads == {"quote", "requote", "approve", "record", "reply", "send", "poll"}
Running(j) == j.at \in Threads
Idle == job[Page] = NoJob

QuoteJob(kind) == [at |-> kind, requote |-> kind = "requote",
                   review |-> draft'.review, step |-> 0]

(***************************************************************************)
(* The form and the quote.                                                 *)
(***************************************************************************)

Init ==
  /\ wallet \in Wallets /\ seen = TRUE /\ switches = 0 /\ alive = TRUE
  /\ Authority!Init
  /\ body = [p \in Proposals |-> NoBody]
  /\ stage = "Form" /\ draft = NoDraft /\ shown = NoFigures
  /\ tier = "normal" /\ sel = NoSelection
  /\ proposal = 0
  /\ job = [s \in Slots |-> NoJob]
  /\ net = [p \in Proposals |-> "unsent"]
  /\ reviews = 0 /\ bells = [r \in Reviews |-> 0]
  /\ repriced = {}

\* The form is ready when the wallet has a self on the asset's family.
CanSend(family) ==
  /\ family \in WalletFamilies(wallet)
  /\ AccountAddress(wallet, 0, FamilyPreset(wallet, family)) # NoAddress

\* A pasted address of Solana or Bitcoin flips the asset to its family's coin.
Flips(w) == w.to \in {"sol", "btc"} /\ w.to # w.asset

Flipped(w) ==
  [lane   |-> IF Flips(w) THEN w.to ELSE w.asset,
   token  |-> w.token /\ ~Flips(w),
   self   |-> w.self,
   amount |-> w.amount]

\* What the three begin_..._review share: the sender's address from the child,
\* then a thread that quotes.
Opens(w, preset) ==
  LET wish == Flipped(w) IN
  /\ stage = "Form" /\ Idle /\ seen /\ alive
  /\ w.to = wish.lane /\ CanSend(wish.lane)
  /\ reviews < MaxReviews
  /\ AccountAddress(wallet, 0, preset) # NoAddress
  /\ reviews' = reviews + 1
  /\ draft' = [review |-> reviews', wish |-> wish, preset |-> preset]
  /\ stage' = "Quoting"
  /\ job' = [job EXCEPT ![Page] = QuoteJob("quote")]
  /\ UNCHANGED <<wallet, seen, switches, alive, authority, body, shown, tier,
                 sel, proposal, net, bells, repriced>>

BeginEvmReview(w) ==
  /\ Flipped(w).lane = "evm"
  /\ Opens(w, wallet.born)

BeginSolReview(w) ==
  /\ Flipped(w).lane = "sol" /\ w.amount > 0
  /\ Opens(w, FamilyPreset(wallet, "sol"))

BeginBtcReview(w) ==
  /\ Flipped(w).lane = "btc" /\ w.amount >= kDustSats
  /\ Opens(w, FamilyPreset(wallet, "btc"))

StartRequote ==
  /\ job' = [job EXCEPT ![Page] =
               [at |-> "requote", requote |-> TRUE, review |-> draft.review,
                step |-> 0]]
  /\ UNCHANGED <<wallet, seen, switches, alive, authority, body, stage, screen,
                 proposal, net, reviews, bells, repriced>>

\* Mutant: the figures are refreshed under a proposal that was made.
RefreshesForEver ==
  /\ stage = "Review" /\ seen /\ draft.wish.lane = "evm" /\ Idle
  /\ StartRequote

\* The figures of a review are fetched anew until a proposal freezes them.
Refreshes ==
  /\ stage = "Review" /\ seen /\ draft.wish.lane = "evm"
  /\ proposal = 0 /\ Idle
  /\ StartRequote

SetJob(s, j) ==
  /\ job' = [job EXCEPT ![s] = j]
  /\ UNCHANGED <<wallet, seen, switches, alive, body, stage, screen, proposal,
                 reviews, bells, repriced>>

\* The thread of a quote or of a refresh ends with figures or with an error.
QuoteEnds(quotes, answers) ==
  LET j == job[Page] IN
  /\ j.at \in {"quote", "requote"}
  /\ \/ \E q \in quotes :
          /\ answers
          /\ SetJob(Page, [at |-> "ok", requote |-> j.requote, step |-> 0,
                             review |-> j.review, quote |-> q])
     \/ SetJob(Page, [at |-> "failed", requote |-> j.requote, step |-> 0,
                        review |-> j.review])
  /\ UNCHANGED <<authority, net>>

\* next_nonce refuses a sender that is no address of its family.
EvmQuoteEnds ==
  /\ draft # NoDraft /\ draft.wish.lane = "evm"
  /\ QuoteEnds(EvmQuotes, PresetFamily(draft.preset) = "evm")

SolQuoteEnds ==
  /\ draft # NoDraft /\ draft.wish.lane = "sol"
  /\ QuoteEnds(SolQuotes, TRUE)

BtcQuoteEnds ==
  /\ draft # NoDraft /\ draft.wish.lane = "btc"
  /\ QuoteEnds(BtcQuotes, TRUE)

(***************************************************************************)
(* The review.                                                             *)
(***************************************************************************)

Figures(j) == [review |-> j.review, quote |-> j.quote]

Reselect(q, t) ==
  SelectCoins(Confirmed(q.purse), draft.wish.amount, FeeTiers(q.tiers)[t],
              InputVb(draft.preset))

\* A tier change forgets the proposal; a new one is built at the next confirm.
PickTier(t) ==
  /\ stage = "Review" /\ seen /\ draft.wish.lane = "btc" /\ t # tier
  /\ tier' = t
  /\ sel' = Reselect(shown.quote, t)
  /\ proposal' = 0
  /\ repriced' = repriced \cup ({proposal} \ {0})
  /\ UNCHANGED <<wallet, seen, switches, alive, authority, body, stage, draft,
                 shown, job, net, reviews, bells>>

\* What a proposal made now would ask to sign, and what the screen says.
OnScreen ==
  [review |-> draft.review, preset |-> draft.preset, wish |-> draft.wish,
   figures |-> IF draft.wish.lane = "btc"
               THEN PlanOf(sel, draft.wish.amount,
                           IF draft.wish.self THEN "own" ELSE "payee", "own")
               ELSE shown,
   rate    |-> IF draft.wish.lane = "btc"
               THEN FeeTiers(shown.quote.tiers)[tier] ELSE 0]

Deliver(p, good) ==
  [at |-> "approve", requote |-> FALSE, step |-> 0, review |-> draft.review,
   p |-> p, good |-> good, click |-> OnScreen, gen |-> switches, tries |-> 0,
   success |-> FALSE, heard |-> FALSE]

\* The buttons of the review: nothing can be confirmed while a refresh runs.
Confirmable == stage = "Review" /\ seen /\ Idle

\* The human typed a passphrase, the wallet's or another, and confirms: the
\* draft is submitted unless it already is, and the delivery starts.
Confirms(good) ==
  /\ Confirmable
  /\ IF proposal # 0
     THEN /\ job' = [job EXCEPT ![Page] = Deliver(proposal, good)]
          /\ UNCHANGED <<authority, body, proposal>>
     ELSE \E p \in Proposals :
            /\ alive /\ Authority!Submit(p)
            /\ \A q \in 1..(p - 1) : verdict[q] # "none"
            /\ body' = [body EXCEPT ![p] = OnScreen]
            /\ proposal' = p
            /\ job' = [job EXCEPT ![Page] = Deliver(p, good)]
  /\ stage' = "Delivering"
  /\ UNCHANGED <<wallet, seen, switches, alive, screen, net, reviews, bells,
                 repriced>>

ConfirmEvm(good) ==
  /\ Confirmable /\ draft.wish.lane = "evm"
  /\ Confirms(good)

ConfirmSol(good) ==
  LET w == draft.wish IN
  /\ Confirmable /\ w.lane = "sol"
  /\ RailsHold(shown.quote, w.amount, w.self, w.token)
  /\ Confirms(good)

ConfirmBtc(good) ==
  /\ Confirmable /\ draft.wish.lane = "btc" /\ sel.ok
  /\ Confirms(good)

(***************************************************************************)
(* The delivery thread: approve, sign, broadcast, wait.                    *)
(***************************************************************************)

Fails(s) == SetJob(s, [job[s] EXCEPT !.at = "failed"])
Moves(s, at) == SetJob(s, [job[s] EXCEPT !.at = at])

Reachable(j) == alive /\ j.gen = switches

Signable(b) ==
  /\ Signer(wallet, 0, b.preset) # NoAddress
  /\ b.wish.lane = "btc" => WhitelistPasses(b.figures, "own")

AskApproval(s) ==
  LET j == job[s] IN
  /\ j.at = "approve"
  /\ IF Reachable(j) /\ j.good /\ verdict[j.p] = "pending"
        /\ Signable(body[j.p])
     THEN Authority!Decide(j.p, "approved") /\ Moves(s, "record")
     ELSE UNCHANGED authority /\ Fails(s)
  /\ UNCHANGED net

ApprovalRecorded(s) ==
  LET j == job[s] IN
  /\ j.at = "record"
  /\ IF Reachable(j)
     THEN Authority!PutOnRecord(j.p) /\ Moves(s, "reply")
     ELSE UNCHANGED authority /\ Fails(s)
  /\ UNCHANGED net

\* Mutant: step 1 is not marked before the broadcast.
SignatureUnmarked(s) ==
  LET j == job[s] IN
  /\ j.at = "reply"
  /\ IF Reachable(j)
     THEN Authority!GiveOut(j.p) /\ Moves(s, "send")
     ELSE UNCHANGED authority /\ Fails(s)
  /\ UNCHANGED net

SignatureArrives(s) ==
  LET j == job[s] IN
  /\ j.at = "reply"
  /\ IF Reachable(j)
     THEN /\ Authority!GiveOut(j.p)
          /\ SetJob(s, [j EXCEPT !.at = "send", !.step = 1])
     ELSE UNCHANGED authority /\ Fails(s)
  /\ UNCHANGED net

\* Does the node echo the txid the page computed from the plan, before there were
\* signatures?  Not where the signatures are part of it (P2PKH); where the public
\* key is (P2SH), the source does not tell.
Echoes(b) ==
  CASE b.wish.lane # "btc"               -> {TRUE}
    [] b.preset = "BtcLegacy"            -> {FALSE}
    [] b.preset = "BtcNestedSegwit"      -> BOOLEAN
    [] OTHER                             -> {TRUE}

\* A node takes the transaction or not, and its answer arrives or not: a lost
\* answer and a refusal look alike to the thread.
Broadcast(s, success) ==
  LET j == job[s] IN
  /\ j.at = "send"
  /\ \/ /\ net' = [net EXCEPT ![j.p] = "taken"]
        /\ \E expected \in Echoes(body[j.p]) :
             IF expected THEN SetJob(s, success)
             ELSE SetJob(s, [j EXCEPT !.at = "failed", !.heard = TRUE])
     \/ net' = [net EXCEPT ![j.p] = "taken"] /\ Fails(s)
     \/ UNCHANGED net /\ Fails(s)
  /\ UNCHANGED authority

Lane(s) == body[job[s].p].wish.lane

\* On Bitcoin the mempool is the receipt; elsewhere it is waited for.
BroadcastBtc(s) ==
  /\ job[s].at = "send" /\ Lane(s) = "btc"
  /\ Broadcast(s, [job[s] EXCEPT !.at = "ok", !.step = 2, !.success = TRUE])

BroadcastRaw(s) ==
  /\ job[s].at = "send" /\ Lane(s) # "btc"
  /\ Broadcast(s, [job[s] EXCEPT !.at = "poll", !.step = 2])

\* Mutant: the receipt is waited for without end.
PollsForEver(s) ==
  /\ net[job[s].p] \in {"mined", "reverted"}
  /\ SetJob(s, [job[s] EXCEPT !.at = "ok",
                              !.success = net[job[s].p] = "mined"])
  /\ UNCHANGED <<authority, net>>

\* The last poll is spent, or no endpoint answers one: the thread fails.
Polls(s) ==
  LET j == job[s] IN
  /\ \/ /\ net[j.p] \in {"mined", "reverted"}
        /\ SetJob(s, [j EXCEPT !.at = "ok", !.success = net[j.p] = "mined"])
     \/ /\ j.tries < MaxPolls
        /\ SetJob(s, [j EXCEPT !.tries = @ + 1])
     \/ Fails(s)
  /\ UNCHANGED <<authority, net>>

PollReceipt(s) == job[s].at = "poll" /\ Lane(s) = "evm" /\ Polls(s)

PollSignature(s) == job[s].at = "poll" /\ Lane(s) = "sol" /\ Polls(s)

AsksChild(s) == AskApproval(s) \/ ApprovalRecorded(s) \/ SignatureArrives(s)

CallsNode(s) ==
  BroadcastBtc(s) \/ BroadcastRaw(s) \/ PollReceipt(s) \/ PollSignature(s)

DeliveryStep(s) == AsksChild(s) \/ CallsNode(s)

(***************************************************************************)
(* The frame loop.                                                         *)
(***************************************************************************)

Blank ==
  /\ stage' = "Form" /\ draft' = NoDraft /\ shown' = NoFigures
  /\ sel' = NoSelection /\ proposal' = 0
  /\ UNCHANGED tier

LetGo == job' = [job EXCEPT ![Page] = NoJob]

KeepsScreen == UNCHANGED <<screen, proposal>>

Bell(r) == bells' = [bells EXCEPT ![r] = @ + 1]

\* A refresh lands in place, or leaves the standing figures.
RequoteLands(j) ==
  /\ shown' = IF stage = "Review" /\ j.at = "ok" THEN Figures(j) ELSE shown
  /\ LetGo
  /\ UNCHANGED <<stage, draft, tier, sel, proposal, bells>>

QuoteLands(j) ==
  /\ shown' = Figures(j)
  /\ stage' = "Review"
  /\ IF draft.wish.lane = "btc"
     THEN sel' = Reselect(j.quote, tier) /\ proposal' = 0
     ELSE UNCHANGED <<sel, proposal>>
  /\ LetGo
  /\ UNCHANGED <<draft, tier, bells>>

\* The receipt stays on the screen; the bell rings on the way in.
SuccessLands(j) ==
  /\ stage' = "Done"
  /\ IF stage # "Done" THEN Bell(j.review) ELSE UNCHANGED bells
  /\ KeepsScreen /\ UNCHANGED job

\* Mutant: every failed delivery gets another try.
FailureRetries(j) ==
  /\ stage' = CASE stage = "Quoting"    -> "Form"
                [] stage = "Delivering" -> "Review"
                [] OTHER                -> stage
  /\ LetGo /\ KeepsScreen /\ UNCHANGED bells

\* A failure before the signature gives the review another try; after it the
\* dialog shows the failure, and keeps the job for one frame.
FailureLands(j) ==
  /\ stage' = CASE stage = "Quoting"                     -> "Form"
                [] stage = "Delivering" /\ j.step = 0     -> "Review"
                [] stage = "Delivering" /\ j.step # 0     -> "Failed"
                [] OTHER                                  -> stage
  /\ IF stage = "Delivering" /\ j.step # 0 THEN UNCHANGED job ELSE LetGo
  /\ KeepsScreen /\ UNCHANGED bells

PollJob ==
  LET j == job[Page] IN
  /\ seen /\ j.at \in {"ok", "failed"}
  /\ CASE j.requote                                 -> RequoteLands(j)
       [] ~j.requote /\ j.at = "ok" /\ stage = "Quoting" -> QuoteLands(j)
       [] ~j.requote /\ j.at = "ok" /\ stage # "Quoting" -> SuccessLands(j)
       [] ~j.requote /\ j.at = "failed"             -> FailureLands(j)
  /\ UNCHANGED <<wallet, seen, switches, alive, authority, body, net, reviews,
                 repriced>>

\* The first frame after a switch of wallet polls the job once more and then
\* starts the page over, without a word to the trust plane; a thread that is
\* delivering goes on by itself.
FrameSeesSwitch ==
  LET j == job[Page] IN
  /\ ~seen
  /\ seen' = TRUE
  /\ IF j.at = "ok" /\ ~j.requote /\ stage \notin {"Quoting", "Done"}
     THEN Bell(j.review) ELSE UNCHANGED bells
  /\ job' = [job EXCEPT ![switches] = IF Running(j) /\ stage = "Delivering"
                                     THEN j ELSE @,
                        ![Page] = NoJob]
  /\ Blank
  /\ UNCHANGED <<wallet, switches, alive, authority, body, net, reviews,
                 repriced>>

\* Money in flight has no cancel key.
Escapable == stage \in Stages \ {"Form", "Delivering"} /\ seen

\* Mutants: Cancel says nothing to the trust plane; it leaves the job running.
CancelSilently ==
  /\ Escapable
  /\ LetGo /\ Blank
  /\ UNCHANGED <<wallet, seen, switches, alive, authority, body, net, reviews,
                 bells, repriced>>

CancelKeepsJob ==
  /\ Escapable
  /\ Blank
  /\ UNCHANGED <<wallet, seen, switches, alive, authority, body, job, net,
                 reviews, bells, repriced>>

\* Cancel, Escape or a click outside: the trust plane is told to deny, if it
\* still answers and the proposal is still undecided.
CancelFlow ==
  /\ Escapable
  /\ IF proposal # 0 /\ alive /\ verdict[proposal] = "pending"
     THEN Authority!Decide(proposal, "denied")
     ELSE UNCHANGED authority
  /\ LetGo /\ Blank
  /\ UNCHANGED <<wallet, seen, switches, alive, body, net, reviews, bells,
                 repriced>>

DonePressed ==
  /\ stage \in {"Done", "Failed"} /\ seen
  /\ LetGo /\ Blank
  /\ UNCHANGED <<wallet, seen, switches, alive, authority, body, net, reviews,
                 bells, repriced>>

(***************************************************************************)
(* The child, the vault page and the chain.                                *)
(***************************************************************************)

Undecided ==
  {p \in Proposals : \/ verdict[p] = "pending"
                     \/ verdict[p] = "approved" /\ signatures[p] = 0}

ChildDies ==
  /\ alive /\ alive' = FALSE
  /\ Authority!Lose(Undecided)
  /\ UNCHANGED <<wallet, seen, switches, body, stage, screen, proposal, job,
                 net, reviews, bells, repriced>>

\* The vault page changes the active wallet: the child is shut down, another
\* is spawned, and the page notices at its next frame.
SwitchWallet(w) ==
  /\ seen /\ switches < MaxSwitches /\ w # wallet
  /\ wallet' = w /\ seen' = FALSE /\ switches' = switches + 1 /\ alive' = TRUE
  /\ Authority!Lose(Undecided)
  /\ UNCHANGED <<body, stage, screen, proposal, job, net, reviews, bells,
                 repriced>>

Mine(p) ==
  /\ net[p] = "taken"
  /\ \E fate \in {"mined", "reverted"} : net' = [net EXCEPT ![p] = fate]
  /\ UNCHANGED <<wallet, seen, switches, alive, authority, body, stage, screen,
                 proposal, job, reviews, bells, repriced>>

Human ==
  \/ \E w \in Wishes : BeginEvmReview(w) \/ BeginSolReview(w) \/ BeginBtcReview(w)
  \/ \E t \in Tiers : PickTier(t)
  \/ \E good \in BOOLEAN : ConfirmEvm(good) \/ ConfirmSol(good) \/ ConfirmBtc(good)
  \/ CancelFlow \/ DonePressed

Quote == EvmQuoteEnds \/ SolQuoteEnds \/ BtcQuoteEnds

Thread == Quote \/ \E s \in Slots : DeliveryStep(s)

Frame == PollJob \/ FrameSeesSwitch

Outside ==
  \/ ChildDies
  \/ \E w \in Wallets : SwitchWallet(w)
  \/ \E p \in Proposals : Mine(p)

Next == Human \/ Refreshes \/ Thread \/ Frame \/ Outside

Spec == Init /\ [][Next]_vars

\* Frames go on being drawn, and the trust plane answers what the page's thread
\* asks it or its channel breaks.  No call of the network is assumed to return.
Fairness == WF_vars(Frame) /\ WF_vars(AsksChild(Page))

FairSpec == Spec /\ Fairness

(***************************************************************************)
(* Properties.                                                             *)
(***************************************************************************)

TypeOK ==
  /\ wallet \in Wallets /\ seen \in BOOLEAN /\ alive \in BOOLEAN
  /\ switches \in 0..MaxSwitches /\ reviews \in 0..MaxReviews
  /\ verdict \in [Proposals -> Authority!Verdicts]
  /\ recorded \subseteq Proposals /\ repriced \subseteq Proposals
  /\ signatures \in [Proposals -> {0, 1}]
  /\ stage \in Stages /\ tier \in Tiers
  /\ proposal \in Proposals \cup {0}
  /\ net \in [Proposals -> {"unsent", "taken", "mined", "reverted"}]
  /\ DOMAIN body = Proposals /\ DOMAIN job = Slots
  /\ \A s \in Slots : job[s].at \in Threads \cup {"none", "ok", "failed"}
  /\ bells \in [Reviews -> 0..1]

\* What the trust plane is asked to sign is what stood on the screen when the
\* human typed the passphrase, after any refresh, change of tier or retry
\* ("The reviewed draft; immutable once the proposal is submitted").
SignsTheScreen ==
  \A s \in Slots : job[s].at \in {"approve", "record", "reply", "send", "poll"} =>
    body[job[s].p] = job[s].click

\* One review pays at most once, however often it is confirmed and whatever is
\* lost in between.
PaysOnce ==
  \A p, q \in Proposals :
    /\ net[p] # "unsent" /\ net[q] # "unsent"
    /\ body[p].review = body[q].review
    => p = q

\* A review that offers another try has sent nothing: the thread tells "before
\* the signature" from "after" before the transaction can leave.
ReviewIsUnsent ==
  stage = "Review" =>
    \A p \in Proposals : body[p].review = draft.review => net[p] = "unsent"

\* A receipt says what became of the transaction of the review on the screen.
ReceiptIsTrue ==
  stage = "Done" /\ seen =>
    LET j == job[Page] IN
    /\ j.at = "ok" /\ j.review = draft.review
    /\ net[j.p] \in IF ~j.success THEN {"reverted"}
                    ELSE IF draft.wish.lane = "btc"
                    THEN {"taken", "mined", "reverted"} ELSE {"mined"}

\* Nothing the page proposed waits in a live child unless the page still holds
\* it, a change of tier apart.
PendingIsHeld ==
  \A p \in Proposals : verdict[p] = "pending" /\ alive =>
    p = proposal \/ p \in repriced

\* A Bitcoin plan the page proposes pays a fee no smaller than the one quoted
\* for its size, leaves no dust and passes the signer's whitelist.
PlansAreSound ==
  \A p \in Proposals : body[p] # NoBody /\ body[p].wish.lane = "btc" =>
    LET plan == body[p].figures IN
    /\ WhitelistPasses(plan, "own")
    /\ \A i \in DOMAIN plan.outputs : plan.outputs[i].value >= kDustSats
    /\ FeeSigned(plan) >=
         (11 + InputVb(body[p].preset) * Cardinality(plan.inputs)
             + OutVb * Len(plan.outputs)) * body[p].rate

\* The node the page's thread has called answers, refuses or fails, in the end.
\* The code does not see to it: the resolve, the connect and the reads are
\* synchronous, and their expires_after does not bind such calls.
NodesReturn == WF_vars(CallsNode(Page))

\* A delivery whose calls return ends, however often the receipt is not there
\* yet: the dialog without a cancel key does not stay for ever.
DeliveryEnds == NodesReturn => (stage = "Delivering" ~> stage # "Delivering")

\* "Accepted into the mempool is the receipt this dialog waits for": a node
\* that took a Bitcoin payment and said so is not reported as a failure.
MempoolIsReceipt ==
  stage = "Failed" /\ job[Page].at = "failed" /\ Lane(Page) = "btc"
    => ~job[Page].heard

=============================================================================
