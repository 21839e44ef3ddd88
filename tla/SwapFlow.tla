------------------------------ MODULE SwapFlow ------------------------------
(***************************************************************************)
(* The swap page (src/ui/pages/swap_page.cpp): one asset sold for another  *)
(* through an aggregator.  On an Ethereum-like chain a token is sold by a  *)
(* pair of transactions, the approval and the swap, ordered by nonce and   *)
(* signed with one entry of the passphrase; on Solana the aggregator       *)
(* builds one transaction, which the delivery thread itself proposes.      *)
(*                                                                         *)
(* The trust plane is the SigningAuthority that Keyd implements.  A chain  *)
(* takes a transaction or not, answers or not, mines a sender's            *)
(* transactions by nonce, and reverts a swap without its allowance.  A     *)
(* thread the page has let go of while it delivered has the slot of the    *)
(* change of wallet that parted them.  Routes, calldata, amounts and the   *)
(* catalog of tokens are left out.                                         *)
(***************************************************************************)
EXTENDS Naturals, Sequences, FiniteSets

CONSTANTS
  Wishes,        \* what a human may sell: [lane, token]
  Offers,        \* what an aggregator may answer: [rate, least, calldata]
  MaxReviews,    \* bound: reviews begun
  MaxProposals,  \* bound: proposals submitted
  MaxPolls,      \* polls of a receipt before the thread gives up
  MaxSwitches    \* bound: changes of the active wallet

ASSUME SwapAssumption ==
  /\ Wishes \subseteq [lane : {"evm", "sol"}, token : BOOLEAN]
  /\ MaxReviews \in Nat /\ MaxProposals \in Nat /\ MaxPolls \in Nat
  /\ MaxSwitches \in Nat

Proposals == 1..MaxProposals

VARIABLES
  gen, seen,        \* the active wallet, by number; has the page noticed it
  alive,            \* its child answers
  verdict, recorded, signatures,   \* the trust plane, as SigningAuthority
  body,             \* of each proposal: what it asks to sign
  stage,            \* m_stage
  draft,            \* the review and what it sells
  shown,            \* the quote on the screen, with need_approve and nonce
  pair,             \* m_proposal_approve and m_proposal_swap, 0 for none
  job,              \* m_job in slot Page; in the others, threads let go
  net,              \* of each proposal: where its transaction is
  allowance,        \* the router may spend the sold token, on chain
  reviews           \* reviews begun so far

authority == <<verdict, recorded, signatures>>
screen == <<draft, shown, pair>>
vars == <<gen, seen, alive, authority, body, stage, screen, job, net,
          allowance, reviews>>

Authority == INSTANCE SigningAuthority

Stages == {"Form", "Quoting", "Review", "Delivering", "Done", "Failed"}
Page == 0
Slots == Page..MaxSwitches
NoJob == [at |-> "none"]
NoDraft == [review |-> 0, wish |-> [lane |-> "evm", token |-> FALSE]]
NoQuote == [review |-> 0]
NoBody == [review |-> 0, kind |-> "none"]
NoPair == [approve |-> 0, swap |-> 0]

Threads == {"quote", "requote", "build", "approve", "record", "reply",
            "send", "poll"}
Idle == job[Page] = NoJob
Sol == draft.wish.lane = "sol"
Taken(p) == net[p] # "unsent"

Init ==
  /\ gen = 0 /\ seen = TRUE /\ alive = TRUE
  /\ Authority!Init
  /\ body = [p \in Proposals |-> NoBody]
  /\ stage = "Form" /\ draft = NoDraft /\ shown = NoQuote /\ pair = NoPair
  /\ job = [s \in Slots |-> NoJob]
  /\ net = [p \in Proposals |-> "unsent"]
  /\ allowance = [g \in 0..MaxSwitches |-> FALSE]
  /\ reviews = 0

(***************************************************************************)
(* The quote.                                                              *)
(***************************************************************************)

StartQuote(kind, review) ==
  job' = [job EXCEPT ![Page] = [at |-> kind, requote |-> kind = "requote",
                                  review |-> review, step |-> 0]]

\* The sender's address comes from the child, the rest from a thread.
BeginReview(w) ==
  /\ stage = "Form" /\ Idle /\ seen /\ alive
  /\ reviews < MaxReviews
  /\ reviews' = reviews + 1
  /\ draft' = [review |-> reviews', wish |-> w]
  /\ stage' = "Quoting"
  /\ StartQuote("quote", reviews')
  /\ UNCHANGED <<gen, seen, alive, authority, body, shown, pair, net,
                 allowance>>

\* Mutant: the figures go on being refreshed once the pair is proposed.
NeverFrozen == FALSE

Frozen == pair # NoPair

\* Every 15 seconds the figures of the Ethereum lane are fetched anew, until
\* the pair is proposed.
Refreshes ==
  /\ stage = "Review" /\ seen /\ ~Sol /\ ~Frozen /\ Idle
  /\ StartQuote("requote", draft.review)
  /\ UNCHANGED <<gen, seen, alive, authority, body, stage, screen, net,
                 allowance, reviews>>

SetJob(s, j) ==
  /\ job' = [job EXCEPT ![s] = j]
  /\ UNCHANGED <<gen, seen, alive, stage, screen, reviews>>

Fails(s) == SetJob(s, [job[s] EXCEPT !.at = "failed"])

\* What a node has taken from the sender of wallet g on its chain.
TakenFrom(g) ==
  {p \in Proposals : Taken(p) /\ body[p].lane = "evm" /\ body[p].gen = g}

\* The nonce a node tells for a sender counts the transactions that wait.
NextNonce == Cardinality(TakenFrom(gen))

\* LI.FI's answer counts as a quote if it carries calldata and guarantees
\* something; Jupiter's needs a readable threshold only.
LifiQuote(offer) == offer.calldata /\ offer.least > 0
JupQuote(offer) == offer.least \in Nat

Acceptable(offer) == IF Sol THEN JupQuote(offer) ELSE LifiQuote(offer)

\* A quote carries the offer, the nonce, and whether an approval must lead.
Quotes(offer) ==
  [review |-> draft.review, offer |-> offer, nonce |-> NextNonce,
   need |-> draft.wish.token /\ ~allowance[gen]]

QuoteEnds ==
  LET j == job[Page] IN
  /\ j.at \in {"quote", "requote"}
  /\ \/ \E offer \in Offers :
          /\ Acceptable(offer)
          /\ SetJob(Page, [at |-> "ok", requote |-> j.requote, step |-> 0,
                             review |-> j.review, quote |-> Quotes(offer)])
     \/ Fails(Page)
  /\ UNCHANGED <<authority, body, net, allowance>>

(***************************************************************************)
(* The confirmation.                                                       *)
(***************************************************************************)

ApproveTx ==
  [review |-> draft.review, gen |-> gen, kind |-> "approve", lane |-> "evm",
   sells |-> FALSE, figures |-> shown, nonce |-> shown.nonce]

\* Mutant: the swap takes the nonce the approval has.
SwapTxSameNonce ==
  [review |-> draft.review, gen |-> gen, kind |-> "swap",
   lane |-> draft.wish.lane, sells |-> draft.wish.token,
   figures |-> shown, nonce |-> shown.nonce]

SwapTx ==
  [review |-> draft.review, gen |-> gen, kind |-> "swap",
   lane |-> draft.wish.lane, sells |-> draft.wish.token,
   figures |-> shown, nonce |-> shown.nonce + IF shown.need THEN 1 ELSE 0]

\* A thread signs the proposals of todo in order, then broadcasts them so.
Deliver(todo, at, good) ==
  [at |-> at, requote |-> FALSE, step |-> 0, review |-> draft.review,
   todo |-> todo, i |-> 1, good |-> good, click |-> shown, gen |-> gen,
   tries |-> 0, success |-> FALSE, swap |-> SwapTx]

Confirmable == stage = "Review" /\ seen /\ Idle

Fresh(p) == verdict[p] = "none" /\ \A q \in 1..(p - 1) : verdict[q] # "none"

SubmitAll(S) ==
  verdict' = [p \in Proposals |-> IF p \in S THEN "pending" ELSE verdict[p]]

\* Both transactions join the queue before the passphrase moves.  A pair of a
\* failed try is not proposed again.
ConfirmPair(good) ==
  /\ Confirmable /\ ~Sol
  /\ \E a, s \in Proposals \cup {0} :
       LET new == ({a} \ {pair.approve}) \cup ({s} \ {pair.swap}) IN
       /\ IF pair.approve # 0 \/ ~shown.need THEN a = pair.approve
          ELSE a # 0 /\ Fresh(a)
       /\ IF pair.swap # 0 THEN s = pair.swap
          ELSE s # 0 /\ IF a \in new THEN s = a + 1 ELSE Fresh(s)
       /\ new # {} => alive
       /\ SubmitAll(new)
       /\ UNCHANGED <<recorded, signatures>>
       /\ body' = [p \in Proposals |-> IF p \notin new THEN body[p]
                                       ELSE IF p = a THEN ApproveTx ELSE SwapTx]
       /\ pair' = [approve |-> a, swap |-> s]
       /\ job' = [job EXCEPT ![Page] =
                    Deliver(IF shown.need THEN <<a, s>> ELSE <<s>>,
                            "approve", good)]
  /\ stage' = "Delivering"
  /\ UNCHANGED <<gen, seen, alive, draft, shown, net, allowance, reviews>>

Unfinished == {p \in Proposals : \/ verdict[p] = "pending"
                                 \/ verdict[p] = "approved" /\ signatures[p] = 0}

\* The child dies between the two submissions: half of the pair is held.
ConfirmHalf ==
  /\ Confirmable /\ ~Sol /\ alive /\ shown.need /\ pair = NoPair
  /\ \E a \in Proposals :
       /\ Fresh(a)
       /\ body' = [body EXCEPT ![a] = ApproveTx]
       /\ pair' = [pair EXCEPT !.approve = a]
       /\ Authority!Lose(Unfinished \cup {a})
  /\ alive' = FALSE
  /\ UNCHANGED <<gen, seen, stage, draft, shown, job, net, allowance, reviews>>

\* On Solana nothing is proposed until the thread has built the transaction.
ConfirmSol(good) ==
  /\ Confirmable /\ Sol
  /\ job' = [job EXCEPT ![Page] = Deliver(<<>>, "build", good)]
  /\ stage' = "Delivering"
  /\ UNCHANGED <<gen, seen, alive, authority, body, screen, net, allowance,
                 reviews>>

(***************************************************************************)
(* The delivery thread.                                                    *)
(***************************************************************************)

Reachable(j) == alive /\ j.gen = gen

\* jup_swap_tx and submit_ui, inside the job.
BuildAndPropose(s) ==
  LET j == job[s] IN
  /\ j.at = "build"
  /\ \/ \E p \in Proposals :
          /\ Reachable(j) /\ Fresh(p)
          /\ Authority!Submit(p)
          /\ body' = [body EXCEPT ![p] = j.swap]
          /\ SetJob(s, [j EXCEPT !.at = "approve", !.todo = <<p>>])
     \/ Fails(s) /\ UNCHANGED <<authority, body>>
  /\ UNCHANGED <<net, allowance>>

\* The child approves, or refuses: the passphrase is bad, the proposal is no
\* longer pending, the payload cannot be read, or its fee payer is not this
\* account.  A refusal to sign leaves the proposal pending.
AskApproval(s) ==
  LET j == job[s] IN
  /\ j.at = "approve"
  /\ \/ /\ Reachable(j) /\ j.good /\ verdict[j.todo[j.i]] = "pending"
        /\ Authority!Decide(j.todo[j.i], "approved")
        /\ SetJob(s, [j EXCEPT !.at = "record"])
     \/ UNCHANGED authority /\ Fails(s)
  /\ UNCHANGED <<body, net, allowance>>

ApprovalRecorded(s) ==
  LET j == job[s] IN
  /\ j.at = "record"
  /\ IF Reachable(j)
     THEN /\ Authority!PutOnRecord(j.todo[j.i])
          /\ SetJob(s, [j EXCEPT !.at = "reply"])
     ELSE UNCHANGED authority /\ Fails(s)
  /\ UNCHANGED <<body, net, allowance>>

\* Mutants: each transaction is sent as soon as it is signed; the step is not
\* marked when the last signature is there.
SendsOneByOne(j) == [j EXCEPT !.at = "send", !.step = 1]

LastUnmarked(j) ==
  IF j.i < Len(j.todo) THEN [j EXCEPT !.at = "approve", !.i = @ + 1]
  ELSE [j EXCEPT !.at = "send", !.i = 1]

\* The pair is signed first; with its last signature the thread turns to the
\* chain and begins with the first.
AfterSignature(j) ==
  IF j.i < Len(j.todo) THEN [j EXCEPT !.at = "approve", !.i = @ + 1]
  ELSE [j EXCEPT !.at = "send", !.i = 1, !.step = 1]

SignatureArrives(s) ==
  LET j == job[s] IN
  /\ j.at = "reply"
  /\ IF Reachable(j)
     THEN /\ Authority!GiveOut(j.todo[j.i])
          /\ SetJob(s, AfterSignature(j))
     ELSE UNCHANGED authority /\ Fails(s)
  /\ UNCHANGED <<body, net, allowance>>

Broadcast(s) ==
  LET j == job[s] IN
  /\ j.at = "send"
  /\ \/ /\ net' = [net EXCEPT ![j.todo[j.i]] = "taken"]
        /\ IF j.i < Len(j.todo) THEN SetJob(s, [j EXCEPT !.i = @ + 1])
           ELSE SetJob(s, [j EXCEPT !.at = "poll", !.step = 2])
     \/ net' = [net EXCEPT ![j.todo[j.i]] = "taken"] /\ Fails(s)
     \/ UNCHANGED net /\ Fails(s)
  /\ UNCHANGED <<authority, body, allowance>>

\* Of the pair only the swap's receipt is waited for.
PollReceipt(s) ==
  LET j == job[s]
      fate == net[j.todo[j.i]] IN
  /\ j.at = "poll"
  /\ \/ /\ fate \in {"mined", "reverted"}
        /\ SetJob(s, [j EXCEPT !.at = "ok", !.success = fate = "mined"])
     \/ j.tries < MaxPolls /\ SetJob(s, [j EXCEPT !.tries = @ + 1])
     \/ Fails(s)
  /\ UNCHANGED <<authority, body, net, allowance>>

DeliveryStep(s) ==
  \/ BuildAndPropose(s) \/ AskApproval(s) \/ ApprovalRecorded(s)
  \/ SignatureArrives(s) \/ Broadcast(s) \/ PollReceipt(s)

(***************************************************************************)
(* The frame loop.                                                         *)
(***************************************************************************)

ResetToForm == stage' = "Form" /\ pair' = NoPair
               /\ draft' = NoDraft /\ shown' = NoQuote

LetGo == job' = [job EXCEPT ![Page] = NoJob]

QuoteLands(j) ==
  /\ shown' = j.quote
  /\ stage' = "Review"
  /\ LetGo
  /\ UNCHANGED <<draft, pair>>

\* Before the last signature the review takes another try; after it the dialog
\* shows the failure.
FailureLands(j) ==
  /\ stage' = CASE stage = "Quoting"                   -> "Form"
                [] stage = "Delivering" /\ j.step = 0   -> "Review"
                [] stage = "Delivering" /\ j.step # 0   -> "Failed"
                [] OTHER                                -> stage
  /\ IF stage = "Delivering" /\ j.step # 0 THEN UNCHANGED job ELSE LetGo
  /\ UNCHANGED screen

PollJob ==
  LET j == job[Page] IN
  /\ seen
  /\ \/ /\ j.at = "ok" /\ (stage = "Quoting" \/ (j.requote /\ stage = "Review"))
        /\ QuoteLands(j)
     \/ /\ j.at = "ok" /\ stage \in {"Delivering", "Done"}
        /\ stage' = "Done" /\ UNCHANGED <<screen, job>>
     \/ j.at = "failed" /\ FailureLands(j)
  /\ UNCHANGED <<gen, seen, alive, authority, body, net, allowance, reviews>>

\* The first frame after a switch of wallet starts the page over without a
\* word to the trust plane; a thread that is delivering goes on by itself.
FrameSeesSwitch ==
  LET j == job[Page] IN
  /\ ~seen /\ seen' = TRUE
  /\ job' = [job EXCEPT ![gen] = IF j.at \in Threads /\ stage = "Delivering"
                                THEN j ELSE @,
                        ![Page] = NoJob]
  /\ ResetToForm
  /\ UNCHANGED <<gen, alive, authority, body, net, allowance, reviews>>

\* Mutant: Cancel denies the swap and forgets the approval.
DeniesSwapOnly == {pair.swap}

DeniesOnCancel == {pair.approve, pair.swap}

\* Cancel, Escape or a click outside: both proposals are denied.
CancelFlow ==
  /\ stage \in Stages \ {"Form", "Delivering"} /\ seen
  /\ verdict' = [p \in Proposals |->
                   IF p \in DeniesOnCancel /\ alive /\ verdict[p] = "pending"
                   THEN "denied" ELSE verdict[p]]
  /\ LetGo /\ ResetToForm
  /\ UNCHANGED <<gen, seen, alive, recorded, signatures, body, net, allowance,
                 reviews>>

BackPressed ==
  /\ stage \in {"Done", "Failed"} /\ seen
  /\ LetGo /\ ResetToForm
  /\ UNCHANGED <<gen, seen, alive, authority, body, net, allowance, reviews>>

(***************************************************************************)
(* The child, the vault page and the chain.                                *)
(***************************************************************************)

ChildDies ==
  /\ alive /\ alive' = FALSE
  /\ Authority!Lose(Unfinished)
  /\ UNCHANGED <<gen, seen, body, stage, screen, job, net, allowance, reviews>>

SwitchWallet ==
  /\ seen /\ gen < MaxSwitches
  /\ gen' = gen + 1 /\ seen' = FALSE /\ alive' = TRUE
  /\ Authority!Lose(Unfinished)
  /\ UNCHANGED <<body, stage, screen, job, net, allowance, reviews>>

Settled(p) == net[p] \in {"mined", "reverted"}

\* A sender's transactions are mined by nonce, and a nonce once.
Mineable(p) ==
  /\ net[p] = "taken"
  /\ body[p].lane = "evm" =>
       body[p].nonce = Cardinality({q \in TakenFrom(body[p].gen) : Settled(q)})

\* An approval moves the allowance; a swap of a token needs and spends it.
Mine(p) ==
  LET b == body[p] IN
  /\ Mineable(p)
  /\ \E fate \in {"mined", "reverted"} :
       /\ b.sells /\ ~allowance[b.gen] => fate = "reverted"
       /\ net' = [net EXCEPT ![p] = fate]
       /\ allowance' = [allowance EXCEPT ![b.gen] =
                          IF fate = "reverted" THEN @
                          ELSE b.kind = "approve" \/ (@ /\ ~b.sells)]
  /\ UNCHANGED <<gen, seen, alive, authority, body, stage, screen, job,
                 reviews>>

Human ==
  \/ \E w \in Wishes : BeginReview(w)
  \/ \E good \in BOOLEAN : ConfirmPair(good) \/ ConfirmSol(good)
  \/ CancelFlow \/ BackPressed

Thread == QuoteEnds \/ \E s \in Slots : DeliveryStep(s)

Frame == PollJob \/ FrameSeesSwitch

Outside ==
  \/ ChildDies \/ ConfirmHalf \/ SwitchWallet
  \/ \E p \in Proposals : Mine(p)

Next == Human \/ Refreshes \/ Thread \/ Frame \/ Outside

Spec == Init /\ [][Next]_vars

(***************************************************************************)
(* Properties.                                                             *)
(***************************************************************************)

TypeOK ==
  /\ gen \in 0..MaxSwitches /\ seen \in BOOLEAN /\ alive \in BOOLEAN
  /\ verdict \in [Proposals -> Authority!Verdicts]
  /\ recorded \subseteq Proposals /\ signatures \in [Proposals -> {0, 1}]
  /\ stage \in Stages /\ reviews \in 0..MaxReviews
  /\ draft.wish \in [lane : {"evm", "sol"}, token : BOOLEAN]
  /\ pair \in [approve : Proposals \cup {0}, swap : Proposals \cup {0}]
  /\ DOMAIN body = Proposals /\ DOMAIN job = Slots
  /\ \A s \in Slots : job[s].at \in Threads \cup {"none", "ok", "failed"}
  /\ net \in [Proposals -> {"unsent", "taken", "mined", "reverted"}]
  /\ allowance \in [0..MaxSwitches -> BOOLEAN]

Signing(j) == j.at \in {"approve", "record", "reply", "send", "poll"}

InPair(a, s) ==
  body[a].kind = "approve" /\ body[s].kind = "swap"
  /\ body[a].review = body[s].review

\* What a thread signs is the quote that stood on the screen when the
\* passphrase was typed, after any refresh, failed try or change of heart
\* ("the pair the human reviewed is the pair that signs").
SignsTheQuote ==
  \A s \in Slots : Signing(job[s]) =>
    \A i \in DOMAIN job[s].todo : body[job[s].todo[i]].figures = job[s].click

\* Nothing of a pair reaches the chain before both its transactions are signed
\* ("a wrong passphrase must fail before anything reaches the chain").
BothSignedFirst ==
  \A a \in Proposals : body[a].kind = "approve" /\ Taken(a) =>
    \E s \in Proposals : InPair(a, s) /\ signatures[s] = 1

\* The chain executes an approval before the swap it was signed for, whatever
\* earlier reviews left in its queue ("Nonce order guarantees the approval
\* executes first; both ride the mempool together").
PairRunsInOrder ==
  \A a, s \in Proposals : InPair(a, s) /\ Settled(s) => Settled(a)

\* One review swaps at most once, also on Solana, where every try proposes a
\* transaction of its own.
SwapsOnce ==
  \A p, q \in Proposals :
    /\ Taken(p) /\ Taken(q) /\ body[p].kind = "swap" /\ body[q].kind = "swap"
    /\ body[p].review = body[q].review
    => p = q

\* No half of a pair waits in a live child unless the page still holds it.
PairIsHeld ==
  \A p \in Proposals : verdict[p] = "pending" /\ alive =>
    p \in {pair.approve, pair.swap} \/ body[p].lane = "sol"

=============================================================================
