# A verification project for izan-wallet

izan-wallet is a desktop wallet for Ethereum-like chains, Bitcoin and Solana.
This directory holds TLA+ models of the parts of it whose correctness is a
matter of order, failure and concurrency, the TLC runs that check them on small
instances, and TLAPS proofs of what matters most for every instance.  Paths
below are relative to the repository.

## The system

| Part | State it keeps | Operations | What makes it correct | Module |
|---|---|---|---|---|
| Trust plane (`keyd/child.cpp`, `proposals.hpp`, `autolock.cpp`) | proposal queue, wallet holder, passphrase meter, audit ledger; one child process per wallet | frames from the parent (Unlock, Lock, Status, Approve, Deny, Pending, Fetch, Address, Reveal, Shutdown); pipe messages (Submit, Query); session locks and suspends | signed, approved and recorded are one; a proposal has one verdict; guesses are metered; a session lock takes the wallet away; an orphan ends | Keyd |
| Audit ledger (`keyd/audit.cpp`) | a file of hash-chained lines; chain value and "loaded" flag per process | append, verify | what returned is there; what verifies is complete | AuditLedger |
| Vault file (`core/secure/vault.cpp`) | the vault, its `.tmp` and its `.bak` | save, open, change_password, shred | a saved wallet is never lost; an old passphrase opens nothing; a deleted wallet leaves nothing | VaultFile |
| Wallet store (`ui/wallet/store.cpp`) | list of wallets, sidecar per wallet | rescan, read/write sidecar, create watch wallet, delete | list and files agree | VaultSession, VaultFile |
| Client (`keyd/client.cpp`) | channel, child handle, last error | one call per frame; submit over the named pipe | one call at a time; a lost reply is not taken for a refusal | Keyd, SendFlow, SwapFlow, VaultSession |
| Session (`ui/wallet/session.cpp`) | client, unlocked flag, address books | ensure, teardown, mark, refresh | the flag and the books follow the child | VaultSession |
| Vault page (`ui/pages/vault_page.cpp`) | mode, job, sidecar of the active wallet, balances | create, import, unlock, backup, switch, delete, lock, add account, choose a format | never shows or stores what the child does not stand behind | VaultSession |
| Presets (`ui/wallet/presets.cpp`) and the signer's families (`keyd/signer.cpp`) | none | which key speaks for a wallet on a chain | page and signer agree | Identity |
| Send page (`ui/pages/send_page.cpp`) | stage, draft, proposal id, job | quote, requote, change of fee tier, confirm, poll, cancel | the human pays once, for what was reviewed; nothing is left pending | SendFlow |
| Coin selection (`domain/btc/coin_select.cpp`), the signer's Bitcoin whitelist | none | select, sweep, check | inputs = amount + fee + change; no dust; the signer takes what was planned | Spending |
| Swap page (`ui/pages/swap_page.cpp`) | stage, two drafts, two proposal ids, job | quote, refresh, confirm, poll, cancel | the pair is signed and sent as a pair | SwapFlow |
| RPC client, explorer walk, HTTP client (`domain/chains`, `domain/btc/esplora.cpp`, `platform/net`) | one connection per endpoint | call with failover and one retry, broadcast | an answer is of the request; one healthy endpoint is enough | RpcClient |
| Assets page (`ui/pages/portfolio_page.cpp`) | followed identity, job, rows, user tokens, probe | follow, refresh, land, add and remove a token | rows are of the identity on stage and current | PortfolioPage |
| History page (`ui/pages/history_page.cpp`) | followed identity, job shared by a thread per chain, rows | follow, merge, land | the same, and no chain's rows are lost | HistoryPage |
| Shell (`apps/izan_main.cpp`) | the panes there are; the settled hook | draw, tell the pages of a payment | a broken pane takes nothing else down | Pages |

How they interact.  The UI process spawns the child and talks to it over an
encrypted pair of pipes, one request and one reply at a time; it submits
proposals over a named pipe that any process of the user may open.  In the
child three threads share the queue, the ledger and the holder, each under a
mutex of its own.  Pages run their blocking work in detached threads that leave
their result in a job record; the frame loop polls the job.  Wallets live in
files that the UI writes and the child reads.  A payment that settles makes the
read-only pages stale through a hook of the shell.

What is hard.  Three threads and a watcher callback in the child; a parent that
dies at any moment; appends and file operations that fail half way; power loss;
a restart that numbers proposals from 1 on a ledger that goes on; replies and
answers of nodes that are lost after the work was done; jobs that outlive the
page state they were started from; a screen whose figures are refreshed while a
human confirms them.  `PROJECT.json` lists the hazards one by one, each at its
line.

How the modules fit.

    SigningAuthority  <== Keyd            (refinement, KeepsThePromise)
          |               ^  appends taken apart by AuditLedger
          |               |  vaults opened from the files of VaultFile
      INSTANCE of         VaultSession    (the session and the child it keeps)
          |
      SendFlow, SwapFlow  -- EXTENDS --> Identity, Spending
          |  broadcast = one call of
      RemoteCall        <== RpcClient     (refinement, RemotePromise)

      Pages EXTENDS PortfolioPage, HistoryPage, which EXTEND VaultFaces

## The modules

### Keyd and SigningAuthority

The child of `keyd/child.cpp`, with its parent and the pipe's clients as
environment.  Each step between two lock operations, or two calls that may
block or fail, is an action:

* *Process*: `Spawn`, `StartPlane`, `NameTaken`, `ParentDies`, `Killed`.  A
  child ends as `exit0`, `exit3`, `killed` or `terminated`, through `Ends`.
* *Password loop*: `loop.at` is the place in `child_main`: `boot`, `hello`,
  `recv`, `stall` (the throttle's sleep), `open` (`vault::open`), `sign`,
  `resolve`, `audit`, `reply`.  Operations without a passphrase are one action
  (`LoopLock`, `LoopDeny`, `LoopRead`, ...); those with one are a sequence.
* *Proposal thread*: `Connect`, `HangUp`, `FirstWait` for `wait_client`;
  `Submit` and `SubmitBadMac`, then `PipeAppends` or `PipeAppendThrows`, then
  `PipeReply`.
* *Autolock watcher*: `SessionLocks`, then `WatchWipes`, which needs the
  holder's mutex, then its append.

`queue` is a sequence, a proposal's id its index, as `ProposalQueue` counts
them.  A ledger record is its kind, the child that wrote it and the proposal; a
line of the file names the kind and the id alone, so a reader of the file cannot
tell a proposal of one child from that of the same id of the next.  What Keyd's
properties say across a restart is about the events, not about what such a
reader can make of the lines.  A death of the child (`Killed`) leaves the ledger
whole: what a power loss takes from it is AuditLedger's.
The history variables `released`, `accepted`, `opened` and `freeMisses` note what
left the process; nothing in the model depends on them.  Payloads, keys, reply
bodies, the channel's encryption and the length of sleeps are left out.

The model runs one child at a time; two children that overlap on the one thing
they share, the ledger, are the subject of AuditLedger.

`SigningAuthority` is the abstract promise: a proposal gets one verdict, a
signature follows a recorded approval, at most once.  `Keyd!Authority` maps
Keyd's state onto it, a proposal being named by its child and its id, and
`KeepsThePromise` says that Keyd implements it.  SendFlow and SwapFlow take
their trust plane from it: what they rely on is what Keyd was shown to do.

### AuditLedger

Keyd takes an append for one step that happens or throws.  AuditLedger opens it
up: `Enter` (the mutex, `load_tail` on a process's first append, the chain
value), then `Write`, or `AppendFails`: none, part or all of the line reaches the
file, and the process dies or lives on.  The child survives the throw of an
append in Reveal alone, which catches it (`keyd/child.cpp:525-536`); its chain
value stays where it was, so that a line which had landed whole is `disowned` by
the process that wrote it.  `Dies` ends a process between appends, `PowerLoss`
cuts the file anywhere.  SHA-256 is taken as injective: a chain value is the
sequence of events hashed into it.  `Verifies` is `AuditLog::verify`.  Two
children may append to the same file at a time, each on the tail it read first;
`mishaps` notes that, torn and disowned lines and power losses, for the
properties to except.

### VaultFile

The three files of one wallet and the calls on them, one action per call of the
file system: `OpenTmp`, `WriteTmp`, `DropBak`, `Rotate`, `Replace` for `save`;
then `Overwrite` and `Unlink` for `shred`.  `Throws` and `Crash` end a call
anywhere.  A file's content is the passphrase that opens it, or `Torn`, or
`None`.  `file` is what a reader sees and `disk` what a power loss leaves: names
and lengths are durable at once, bytes when the system writes them back.

### VaultSession

The vault page, the session and the child they keep.  `active`, `meta`, `mode`,
`pending`, `job` are the page's members; `client`, `unlocked`, `book`, `famBook`
the session's; `disk` the sidecars; `bal`, `balJob`, `balStale` the balances of
the account line.  Every verb of the list and of the account view is an action
(`Activate`, `DeletePressed`, `AddPressed`, `BtcFormat`, ...) whose guard is what
is disabled while a job is in flight; every kind of job has a start, an end in
its thread and a landing in `PollJob`.  `SwitchActive` is the code's, balances
and teardown included.  The child locks itself and dies whenever it likes
(`ChildChanges`); an address it refuses is `Trouble`, which the session stores
and counts as the one address of a wallet of one account.

An address comes with the kind of the root it is of, which the client keeps
(`Asked`); a client that has not been told one takes its wallet for a seed.  What
the root is depends on the vault and not on the sidecar, so a child of a key
refuses the families and accounts a sidecar may ask it for (`Tells`).  An unlock
or a backup that lands corrects the sidecar's count and kind to what was found
(`SelfHeals`), once and in one write, also when what was found is that the child
had locked itself.

The client has no lock.  A call of the frame loop while a thread is inside it,
or its destruction under a thread, is undefined behaviour: the model sets
`clash` and says nothing of what follows.  This happens where the code lets it:
Enter in the unlock field is not disabled while a job runs.  When the job it
replaces was a creation, its thread goes on and writes the wallet (`lost`).

`Sidecars` is what `read_meta` makes of a sidecar, whatever its file holds: at
least one account, presets and formats that exist, and a kind that may be missing
(`legacy`) or not that of the vault.

### Identity and Spending

Pure operators.  Identity: families of presets, the preset a wallet speaks with
on a family (`FamilyPreset`), what the signer derives or refuses
(`AccountAddress`).  Spending: `SelectCoins` with its order by value, its probe
of the fee for two outputs and its dust; fee tiers; the whitelist of the signer's
Bitcoin path; the rails of a Solana payment.  What the selector's loop holds
after each coin is a set of coins that no other precedes (`Gathered`); the loop
returns the smallest of them that covers amount and fee.  Amounts are far below
2^64, where the code's sums would wrap.  `sweep_coins`, which nothing but a test
calls, is left out.

### SendFlow

One payment at a time through the stages of the page, on three lanes.  The
frame polls the job and notices that another wallet is active; the human types,
changes the fee tier, confirms, cancels, retries; the thread quotes, then
`approve`, `record`, `reply`, `send`, `poll`: each of the places where a call
may fail, or succeed without the page hearing of it.  A thread the page let go
of while it delivered goes on in the slot of that change of wallet, slot 0 being
the page's own.  `shown` is what is on the screen, `body` what each proposal asks
to sign, `net` where its transaction is.  The step at which a failure sends the
page back to Review instead of Failed is `job.step`, as in the code.

### SwapFlow

The same for the swap page, where one click may sign two proposals: the
approval of a token and the swap, ordered by nonce.  The chain mines a sender's
transactions in nonce order and reverts a swap without its allowance.  On
Solana the delivery thread asks the aggregator for the transaction and proposes
it itself, so every retry is a proposal of its own.  The child may refuse to sign
either half (`AskApproval`: a bad passphrase, a payload it cannot read, a fee payer
that is another), and then the half stays pending.

### RemoteCall and RpcClient

`RpcClient` walks over the endpoints of a configuration: refuses those that are
not https, connects, writes, reads, retries once on a connection that has died
(the HTTP client's rule), judges the answer, goes on to the next endpoint or
ends.  The same actions serve `RpcClient::call`, which keeps a client per
endpoint, and the explorer walk of `esplora.cpp`, which makes one per call;
`walk` says which.  Nodes answer, refuse, talk nonsense, repeat another call's
answer, hang up, and may take a transaction they have read after the client has
given up on them.

`RemoteCall` is what the pages rely on: calls end one after another, and
success is told only of a transaction some node has taken.  Failure promises
nothing, which is why SendFlow's `send` has an outcome where the node took the
transaction and the page is told it failed.

### VaultFaces, PortfolioPage, HistoryPage and Pages

VaultFaces is what the read-only pages see of the rest between two frames: the
identity on stage, whether the receive dialog freezes it, payments that settle.
PortfolioPage adds the page's follow key, its rows, workers (those the page has
let go of too: the reader they share is one object without a lock), the user's
tokens and the probe of one.  HistoryPage takes a frame apart, because its
threads set the dirty flag and count down between the frame's reads of both.
Pages draws the two in one frame under one vault.

### MC modules

`MCKeyd`, `MCAuditLedger`, ... name the model values and the small sets the
configurations use; nothing is defined there that code maps to.

## The runs

| Run | Shows | Bounds |
|---|---|---|
| KeydRestarts | `TypeOK`, `SignApproveAudit`, `OneVerdictRecord`, `SignedOnceAndRecorded`, `AcceptedIsRecorded`, `VerdictsAreFinal`, `KeepsThePromise` | two children on one ledger, a proposal each, signable or not; two frames each; clients that come and go, a forged MAC |
| KeydLive | `AutolockWipes`, `FreeGuesses`, `EveryFrameAnswered`, `AutolockGetsThrough`, `OrphanEnds` | two frames of any operation but Status, Pending and a malformed one, an allowance of one guess, one session lock, fair threads |
| Ledger | `AloneVerifies`, `VerifiedIsComplete` | three processes (alike, so up to a permutation) in turn or side by side, four appends, torn writes, appends that throw and are survived, crashes, power losses |
| Vault | `NeverLost`, `OldPassDead`, `DeletedIsGone`, `OpensWithCurrent` | three calls, two passphrases; throws, crashes and power losses anywhere |
| Session | `BooksAreOurs`, `BalancesAreOurs`, `LandsWhereStarted`, `SidecarIsCurrent` | two wallets, room for a third, born on Ethereum and on Bitcoin, of two accounts and of one, the first with a sidecar of no kind, imports of a key and of a watch wallet; three edits; unlocks, switches and the child's locks and deaths without bound |
| Send | `SignsTheScreen`, `PaysOnce`, `ReviewIsUnsent`, `ReceiptIsTrue`, `PendingIsHeld`, `PlansAreSound`, `DeliveryEnds` | two reviews, two proposals, a switch of wallets; payments on all three lanes; a purse of three coins under three tiers, of which one needs both confirmed coins and one leaves dust |
| Swap | `SignsTheQuote`, `BothSignedFirst`, `PairRunsInOrder`, `SwapsOnce`, `PairIsHeld` | two reviews, four proposals (two pairs), a switch of wallets; two rates; a token, a native coin and Solana |
| Rpc | `OneHealthyIsEnough`, `RemotePromise` | a first endpoint and a fallback, any of them healthy or plain http; three calls on kept connections |
| Follow | `PortfolioIsCurrent`, `TokensAreProbed`, `LedgerIsCurrent`, `LedgerIsWhole` | two identities, one watched, one not on EVM; two changes of the stage, a payment that settles, three snapshots of each page, two chains, two contracts (alike, so up to a permutation) |

Why the bounds are enough to be interesting.  Two children are needed for ids
to repeat, two frames after a session lock for a wallet to be opened again, an
allowance of one for a reset in the wrong place to hand out a second guess; the
theorems below cover any number of proposals, children and frames.  In the
ledger the third process starts on what two have left behind, torn or forked.
In the vault a change can follow a change that failed after another that
failed.  In Session a wallet can be left and returned to with a job, a balance
worker and a child of the other in between.  In Send and Swap the second review
starts on what the first left pending, signed, taken or stuck in the chain's
queue, and a second try of one review signs what the first did not.  Three
calls let a connection be kept, die, and answer with an earlier call's answer.
Three snapshots let one land that was started two identities ago.  All counters
are bounded by constants named `Max...`.  A bound stops the environment from
asking for more and never a handler half way.  On the two read-only pages it is
the frame or the refresh link itself that asks: one that would start a snapshot
beyond `MaxFlights`, or a ledger's flight beyond `MaxMerges`, is not taken
(`WithinFlights`, `WithinMerges`), all others are.

Deadlock is not checked: every module stops when its bounds are used up, and a
trust plane whose parent died has nothing more to do.

Each property was seen to fail on a changed model: the operators marked
`Mutant` stand beside the definitions they would replace, each a slip one could
make in the code, and `PROJECT.json` names the run that finds it.

### Where the code does not do what it says

Each of these runs checks one sentence of a comment and TLC finds it violated;
`PROJECT.json` quotes the sentence.

| Run | Sentence | What happens |
|---|---|---|
| KeydRace | lock and suspend wipe key material the moment they happen (`keyd/autolock.hpp:8-11`) | an Unlock whose `vault::open` is running stores its wallet after the wipe |
| SendReceipt | accepted into the mempool is the receipt the dialog waits for; every Bitcoin costume spends (`ui/pages/send_page.cpp:921-922`, `422`) | the txid of a legacy input covers its signature; the page expects the id of the unsigned plan, and reports a payment the node took as failed |
| ReaderRace | the reader is single-driver (`ui/pages/portfolio_page.cpp:115-116`) | a change of identity starts a second worker in the reader the first is still in |

In SendReceipt the transaction codec is external: that the id of a legacy
transaction covers its signatures is the protocol's rule, and the signer's own
path for legacy inputs (`keyd/signer.cpp:393`) relies on it.

More of the same kind was met while modelling and is in the models, or excepted
by name in a property, without a run of its own:

* a proposal can be denied, and the denial recorded, before the record of its
  submission (`keyd/child.cpp:130`; `audit.cpp:95-96` wants the record first);
* the passphrase meter lives in the child and counts from zero in the next one
  (`protocol.hpp:65-66` says that restarting the UI does not reset it);
* a client that connects and leaves before the proposal thread's first wait
  ends the thread (`named_pipe.cpp:86`; `child.cpp:150-151` says it runs until
  the process exits);
* an append that throws after its line has landed leaves the chain value behind
  the file; where the child survives that, in Reveal (`child.cpp:525-536`), its next
  line forks the chain and a ledger of one process without a torn line does not
  verify, hence the exception for disowned lines in AuditLedger;
* `append` flushes to the system, not to the medium (`audit.cpp:101`; `audit.hpp:23`
  says fsync), hence the exceptions for power loss in AuditLedger;
* between the two renames of `save` there is no vault at its path
  (`vault.cpp:193`; `177-178` calls the write atomic);
* in a swap pair whose first proposal is approved and whose second is refused,
  back in Review, the retry can never approve the first again
  (`swap_page.cpp:716`, against the comment at `281`);
* Enter in the unlock field submits while a job is in flight
  (`vault_page.cpp:553-555` says buttons are disabled): two threads in one client,
  or a creation whose recovery phrase is never shown;
* the pin in the wallet list is written to the sidecar and not to the page's
  copy, which a later edit writes back (`vault_page.cpp:430`), hence the pin's
  exception in `SidecarIsCurrent`;
* Back from the import form shows the lock screen over a session that is still
  open (`vault_page.cpp:495`);
* a change of the fee tier forgets a proposal without denying it
  (`send_page.cpp:762`), hence the exception in `PendingIsHeld`;
* an unlock that lands after the child has locked itself again writes a count of
  one account and, by a client that was never told otherwise, the kind of a seed
  into the sidecar (`session.cpp:57`, `vault_page.cpp:129-147`: "keyd just told us
  what this wallet really is");
* a read-only page forgets whom it follows when a payment settles, and then cannot
  tell a locked stage from one it has already cleared for: if the stage locks
  before a frame has followed again (in the same frame, or while the receive dialog
  holds the page), the rows of the wallet that left stay until another comes
  (`portfolio_page.cpp:348`, against `362-363`; `history_page.cpp:257`;
  `vault_page.hpp:86-87` says that a locked stage clears its book), hence `RowsLeftBehind` and
  `LedgerLeftBehind` in `PortfolioIsCurrent` and `LedgerIsCurrent`;
* the network client's timeouts do not bind its synchronous calls
  (`http_client.cpp:67-69`, `103-108`): against a silent server a job does not end,
  hence the hypothesis of `DeliveryEnds`.

### Fairness

KeydLive assumes weak fairness of the password loop, the appends of each
thread, the watcher's wipe, the pipe's reply and first wait, and the parent's
recv: threads of a running process are scheduled, sleeps and file operations
end, a parent blocked in recv takes the reply that is there.  The wipe waits
for a mutex the loop holds during one action, so weak fairness is enough.
Nobody is assumed to send, submit, lock the session or hang up.

Send assumes weak fairness of the frame and of what the thread of the page's job
asks of the child (`AsksChild`): frames go on being drawn, and each frame of the
channel is answered or the child is gone, which KeydLive's `EveryFrameAnswered`
says.  That a node's calls return (`NodesReturn`) is not assumed of the program,
whose synchronous network calls have no timeout that holds; it is the hypothesis
of `DeliveryEnds`, which says that a delivery with such calls ends because the
code bounds its polls.  The human, the chain and threads let go of are not assumed
to do anything.

## The proofs

Every safety property the passing runs check is also a theorem, proved for every
value of the constants: any number of proposals, children, frames, endpoints,
wallets, accounts, reviews, switches, threads let go of, tokens and chains.  A
property is seldom inductive as it stands.  Each proof has an invariant that
says, besides the property, what is true at each place of a job, a thread or a
call; TLC was shown each of these invariants on the bounds above before it was
proved.  There is one step per action, with type correctness cited.

`KeydProofs`:

* `TypeCorrect`: `Spec => []TypeOK`.
* `SignedOnce`, `SignIsApproveIsAudit`, `OneVerdict`, from `VerdictInv`.  That a
  signature about to leave is the first, and recorded, depends on where the loop
  is: `VerdictInv` says, for each place of the loop, what may already be true of
  the proposal it serves (`Clean`, `Auditing`, `Sending`), that outside a
  verdict queue and ledger tell one story (`SameStory`), and that names of
  children to come are unused (`NothingLeft`).
* `GuessesArePaid` from `MeterInv`: a guess that came without a sleep found the
  meter below its limit, so free guesses never outrun the meter.
* `AutolockWorks` from `AutolockInv`: the events since a wallet was opened are
  all still due.
* `AcceptedOnRecord` from `AcceptInv`: when the pipe's reply is due, the record
  of what it accepts is on the ledger.  It rests on `VerdictInv` for one fact, a
  process that is gone left no reply behind for its successor to give.
* `FinalVerdicts`: `VerdictsAreFinal`, that a queued proposal keeps its payload,
  its origin and its verdict.
* `PromiseKept`: `Spec => KeepsThePromise`, that Keyd implements
  SigningAuthority.  `StepMoves` sorts the steps into seven kinds by what they do
  to the queue, the ledger and the signatures sent; each kind is then a step of
  the promise or a stutter.  `VerdictInv` says what a record about to be written
  and a signature about to be sent are of.

`RpcProofs`:

* `KeepsRemotePromise`: `Spec => RemotePromise`, that RpcClient implements
  RemoteCall: the initial states map to initial states, and `StepRemote` takes
  each action to a step of RemoteCall or to a stutter.  It needs to know that
  only the running call is on a wire (`OneWire`), and that an echo read there is
  of the call and taken, or of another call (`EchoIsTaken`); the check of the id
  is what tells the two apart.
* `HealthyEndpointSuffices`: `OneHealthyIsEnough` from `NonePassed` and
  `HonestAnswer`: a walk has passed no healthy endpoint, because the second
  attempt at one is on a connection it has not served before.

`VaultProofs`: `NothingLost`, `OldPassOpensNothing`, `DeletedOpensNothing`,
`CurrentOpens`, from `VaultInv`.  What is in which file between two calls of the
file system is `WrittenInv`; `KeptInv` is why a save may fail anywhere: where the
vault is not at its path, its copy is whole.  The old passphrase needs `FreshInv`:
after a change the vault alone is left, and with the new passphrase or torn.

`LedgerProofs`: `LonePlaneVerifies` from `ChainInv` and `VerifiedLedgerIsComplete`
from `CountInv`.  `ChainInv` ties the chain value a process has in memory to what
the last line of the file claims; it holds while nothing was torn or disowned and
one process at a time appends, which are the exceptions the property makes.
`CountInv` says that an event is in the file once, and that one whose append
returned is there, unless a line is garbled.

`SendProofs`, from `SendInv`:

* `ScreenIsSigned`, `OnePaymentPerReview`, `RetryIsFree`, `ReceiptsAreTrue`,
  `NothingIsLeftPending`.  `SendInv` ties the stage of the page to its job
  (`PageInv`), each delivery, the page's own and those let go of, to the
  proposal it was started for (`DeliveryInv`), and says that no two deliveries
  are for one review (`ApartInv`).  `Marks` is the heart of it: a thread whose
  step is 0 has sent nothing, so the page may offer another try.
* `ProposedPlansAreSound`: `PlansAreSound`, for any coins and any fees an
  explorer answers.  `QuotedInv` says that the selection on the screen is the one
  of the figures and the tier on the screen.  The arithmetic rests on lemmas
  about sums: that the library's sum of a function is what it should be is an
  induction over finite sets, and is done by way of a least counterexample
  (`Least`, `SumStep`), since the induction theorems of the library cannot be
  instantiated.
* `OnlyWhatIsPromised`: what the page and its threads see of the trust plane is a
  behaviour of SigningAuthority.  With `PromiseKept` the two models meet: the
  page relies on nothing the child was not shown to do.

`SwapProofs`: `TheQuoteIsSigned`, `NothingSentHalfSigned`, `ApprovalRunsFirst`,
`OneSwapPerReview`, `NoHalfIsForgotten`, from `SwapInv`, which is `SendInv` for
two proposals and more: the pair is two nonces in a row of one sender
(`PairsInv`), a sender's transactions have different nonces below their number
and those that were mined are the first (`NonceInv`).  That the swap is mined
after its approval follows from the nonces and not from the order of sending.

`PagesProofs`: `AssetsAreOfTheStage`, `TokensSpeakForThemselves`,
`TheLedgerIsOfTheStage`, `NoRowSlipsAway`.  `AssetsInv` and `LedgerInv` say of
a page that follows an identity that its rows and the worker of its job are that
identity's, and current, and of one that keeps no identity's addresses that it
has no rows.  What is left over a locked stage is then the exception by name: a
page that follows nobody and still keeps addresses.  `FrameInv` says what the
frame has found out between its two reads of the flight: once it read that all
threads have counted down, all rows are there, which is why it reads that first.

`SessionProofs`: `TheBooksAreOfTheStage`, `TheBalancesAreOfTheStage`,
`JobsLandWhereStarted`, `TheDiskIsInMind`, from `SessionInv`.  The client is that
of the wallet on stage, and the threads inside it are (`ClientInv`); threads that
still write a vault, those the page forgot included, have names of their own
that are free until they are done (`WritingInv`), so none of them writes over a
sidecar the page has in mind; while the open child of a seed can be asked for one
more account the book is complete (`BooksInv`), so that what is added is the next,
and the child of a key tells no second one.  Nothing is assumed of how the kind
in a sidecar and that of its vault agree.

They assume what `KeydAssumption`, `RpcAssumption`, `VaultAssumption`,
`LedgerAssumption`, `SendAssumption`, `SwapAssumption`, `FacesAssumption`,
`PortfolioAssumption`, `HistoryAssumption`, `PanesAssumption` and
`SessionAssumption` say of the constants and nothing else; the runs evaluate
them.  They are typing, but for these: the values that stand for "no file" and
"torn" are no passphrases, the chains of a page are finitely many and at least
one, an explorer lists finitely many coins, no wallet has the name that stands
for none.

Only model-checked: liveness (`DeliveryEnds`, `EveryFrameAnswered`,
`AutolockGetsThrough`, `OrphanEnds`), which takes fairness and ENABLED and so is
out of the prover's reach.

## The plan

Done: the modules above, and a theorem for each safety property of the runs.
Left:

1. Keyd takes an append for one step; AuditLedger takes it apart.  A refinement
   would say that a ledger of one process at a time is, to a reader, the list of
   events appended.
2. SwapFlow's trust plane as SigningAuthority, as `OnlyWhatIsPromised` has it for
   SendFlow.  `ConfirmPair` submits two proposals in a step, which the promise
   takes two for: the step has to be taken apart, or the promise has to allow it.
3. What a vault, seen from outside its three files, is: a passphrase that opens
   it, changed by calls that happen or do not.

## Not modelled, and why

Drawing and layout; prices and the formatting of amounts; the parsing of JSON
answers, of LI.FI's and Jupiter's quotes and of pasted text, where every outcome
is an answer or a failure and both are choices of the modules; cryptography,
encodings and transaction codecs (external libraries); TLS; the clock and the
length of timeouts; gas figures beyond their being one quote's value; the
catalogue of tokens a swap offers; the configuration digests; the hardening
calls; the read-only command line tool; 64-bit overflow in sums of satoshis,
which no supply of coins reaches.  They hold little control of their own; where
their failures matter they are choices of the modules that use them.
