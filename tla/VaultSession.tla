---------------------------- MODULE VaultSession ----------------------------
(***************************************************************************)
(* The vault page and the keyd session (src/ui/pages/vault_page.cpp,       *)
(* src/ui/wallet/session.cpp, src/keyd/client.cpp): which wallet is on     *)
(* stage, the child that serves it, what the screens say of it, and the    *)
(* sidecars on disk.                                                       *)
(*                                                                         *)
(* The frame loop, the thread of the page's one job and the delivery       *)
(* thread of a payment all use one client, which has no lock of its own.   *)
(* Two callers inside it at once, or a client destroyed under a caller,    *)
(* are undefined behaviour: "clash" is set and nothing is said of what     *)
(* follows.  A wallet is listed from the moment its sidecar is written.    *)
(*                                                                         *)
(* Labels, phrases and the amounts of the balances are left out, a name is *)
(* one of two; an address is the wallet, account and preset it is of.      *)
(***************************************************************************)
EXTENDS Naturals, Sequences, FiniteSets, Identity

CONSTANTS
  Ids,        \* the names wallets may have
  FirstMetas, \* the sidecars on disk when the application starts
  NewMetas,   \* the sidecars a create or an import may write
  Formats,    \* the Bitcoin formats the receive dialog offers
  MaxCount,   \* bound: accounts of a wallet
  MaxEdits    \* bound: edits of sidecars, balances and imports by the human

NoId == 0

\* What read_meta makes of a sidecar, whatever its file holds: one from before
\* kinds were written has the kind "legacy".  The root is not the sidecar's to
\* say, it is of the vault beside it.
Sidecars ==
  [kind : WalletKinds \cup {"legacy", "watch"}, born : DerivePresets,
   btc : BtcPresets \cup {"none"}, count : Nat \ {0}, active : Nat,
   pinned : BOOLEAN, renamed : BOOLEAN, root : WalletKinds]

ASSUME SessionAssumption ==
  /\ NoId \notin Ids
  /\ \A i \in Ids \cap DOMAIN FirstMetas : FirstMetas[i] \in Sidecars
  /\ NewMetas \subseteq Sidecars
  /\ \A m \in NewMetas : m.kind \in {m.root, "watch"}
  /\ Formats \subseteq BtcPresets
  /\ MaxCount \in Nat /\ MaxEdits \in Nat

VARIABLES
  disk,       \* of each name: its sidecar, or NoMeta
  active,     \* m_active
  meta,       \* m_meta
  mode,       \* m_mode
  pending,    \* m_pending_mode, or "none"
  client,     \* the client of the session: its wallet, how the child is (open,
              \* it has the root of some kind), and m_wallet_kind
  unlocked,   \* the session's flag
  book,       \* m_addresses
  famBook,    \* m_family_book
  job,        \* m_job
  lost,       \* the jobs that were replaced while they wrote a vault
  payment,    \* the thread of a payment is inside the client
  bal,        \* of which wallet and preset the balances on the screen are
  balJob,     \* m_bal_job
  balStale,   \* m_bal_stale
  edits,      \* edits so far
  clash       \* two callers have met in the client

stage == <<active, meta, mode, pending>>
session == <<client, unlocked, book, famBook>>
balances == <<bal, balJob, balStale>>
vars == <<disk, stage, session, job, lost, payment, balances, edits, clash>>

Modes == {"NoWallets", "ImportForm", "Locked", "Unlocked", "Watch"}
NoMeta == [kind |-> "none"]
NoClient == [id |-> NoId, child |-> "none", kind |-> "hd"]
NoJob == [kind |-> "none"]
Trouble == [id |-> NoId]     \* last_error(), kept as if it were an address
NoBooks == [f \in Families |-> <<>>]

Store(d) == {i \in Ids : d[i] # NoMeta}
HasVault(m) == m.kind \notin {"none", "watch"}
BornFamily(m) == PresetFamily(m.born)

\* wallet_families: sidecars without a kind were all of seeds.
SidecarFamilies(m) == IF m.kind = "legacy" THEN Families ELSE WalletFamilies(m)

(***************************************************************************)
(* The session: one client, and the books it fills.                        *)
(***************************************************************************)

InClient(j) == j.kind \in {"unlock", "backup"} /\ j.at = "run"

Callers == InClient(job) \/ payment

\* A call of the frame loop, or the start of a thread, while another is inside.
Touches == clash' = (clash \/ Callers)

Open(c) == c.child \in WalletKinds

Tells(c, account, preset) ==
  Open(c) /\ AccountAddress([kind |-> c.child], account, preset) # NoAddress

\* What address() returns, or last_error in its place.
Told(c, account, preset) ==
  IF Tells(c, account, preset)
  THEN [id |-> c.id, account |-> account, preset |-> preset] ELSE Trouble

\* An address that is told brings the kind of the root along.
Asked(c, presets) ==
  IF \E p \in presets : Tells(c, 0, p) THEN [c EXCEPT !.kind = c.child] ELSE c

Line(c, count, preset) ==
  [i \in 1..count |-> Told(c, i - 1, preset)]

\* How many accounts refresh_addresses finds: a key has one, and so has a
\* wallet whose first address was not told.
Found(c, m) ==
  IF c = NoClient THEN 0
  ELSE IF ~Tells(c, 0, m.born) \/ c.child # "hd" THEN 1 ELSE m.count

RefreshAddresses(c, m) == Line(c, Found(c, m), m.born)

OtherFamilies(m) == SidecarFamilies(m) \ {BornFamily(m)}

AsksFamilies(c, m, families) ==
  Asked(c, {FamilyPreset(m, f) : f \in families})

\* The families in the order they are asked in.
UpTo(family) ==
  CASE family = "evm" -> {"evm"}
    [] family = "btc" -> {"evm", "btc"}
    [] family = "sol" -> Families

\* A line ends after its first address if by then the client knows of a key.
FamilyLine(c, m, count, families, family) ==
  IF c = NoClient THEN <<>>
  ELSE Line(c, IF AsksFamilies(c, m, families \cap UpTo(family)).kind = "hd"
               THEN count ELSE 1,
            FamilyPreset(m, family))

FamilyBooks(c, m, count, families) ==
  [f \in Families |->
     IF f \in families THEN FamilyLine(c, m, count, families, f) ELSE famBook[f]]

\* Mutant: the books of the other families outlive the child.
TeardownKeepsBooks ==
  /\ client # NoClient => Touches
  /\ client = NoClient => UNCHANGED clash
  /\ client' = NoClient /\ unlocked' = FALSE /\ book' = <<>>
  /\ UNCHANGED famBook

\* Shutdown and forget.
Teardown ==
  /\ client # NoClient => Touches
  /\ client = NoClient => UNCHANGED clash
  /\ client' = NoClient /\ unlocked' = FALSE /\ book' = <<>>
  /\ famBook' = NoBooks

\* A client whose child has died is kept.  A new one takes its wallet for a
\* seed until it is told otherwise.
Ensure ==
  client' = IF client = NoClient
            THEN [id |-> active, child |-> "locked", kind |-> "hd"] ELSE client

(***************************************************************************)
(* The balances of the account line.                                       *)
(***************************************************************************)

NoBal == [at |-> "none"]

\* One balance worker at a time: a request while one runs is dropped.
FetchBalances(whole) ==
  IF balJob # NoBal THEN UNCHANGED <<bal, balJob>>
  ELSE /\ bal' = IF whole THEN {} ELSE bal
       /\ balJob' = [at |-> "run", whole |-> whole,
                     of |-> [id |-> active', preset |-> meta'.born]]

BalanceArrives ==
  /\ balJob.at = "run"
  /\ \E at \in {"ok", "failed"} : balJob' = [balJob EXCEPT !.at = at]
  /\ UNCHANGED <<disk, stage, session, job, lost, payment, bal, balStale,
                 edits, clash>>

BalanceLands ==
  /\ balJob.at \in {"ok", "failed"}
  /\ bal' = IF balJob.at = "failed" THEN bal
            ELSE IF balJob.whole THEN {balJob.of} ELSE bal \cup {balJob.of}
  /\ balJob' = NoBal
  /\ UNCHANGED <<disk, stage, session, job, lost, payment, balStale, edits,
                 clash>>

\* The rows settle up once the receive dialog is closed.
BalancesSettle ==
  /\ balStale /\ balStale' = FALSE
  /\ meta' = meta /\ active' = active
  /\ FetchBalances(TRUE)
  /\ UNCHANGED <<disk, mode, pending, session, job, lost, payment, edits,
                 clash>>

(***************************************************************************)
(* Which wallet is on stage.                                               *)
(***************************************************************************)

\* Mutant: the worker of the last wallet's balances is kept.
DropsOnlyBalances == bal' = {} /\ UNCHANGED balJob

DropsBalances == bal' = {} /\ balJob' = NoBal

\* The sidecar is read anew, the child of the last wallet is shut down.
SwitchActive(d, i) ==
  /\ Teardown
  /\ active' = i /\ meta' = d[i]
  /\ mode' = IF d[i].kind = "watch" THEN "Watch"
             ELSE IF HasVault(d[i]) THEN "Locked" ELSE "NoWallets"
  /\ IF d[i].kind = "watch"
     THEN /\ bal' = {}
          /\ balJob' = [at |-> "run", whole |-> TRUE,
                        of |-> [id |-> i, preset |-> d[i].born]]
     ELSE DropsBalances
  /\ UNCHANGED balStale

Init ==
  /\ disk = [i \in Ids |-> IF i \in DOMAIN FirstMetas THEN FirstMetas[i]
                           ELSE NoMeta]
  /\ active \in Store(disk) /\ meta = disk[active]
  /\ mode = IF meta.kind = "watch" THEN "Watch" ELSE "Locked"
  /\ pending = "none"
  /\ client = NoClient /\ unlocked = FALSE /\ book = <<>> /\ famBook = NoBooks
  /\ job = NoJob /\ lost = {} /\ payment = FALSE
  /\ bal = {} /\ balJob = NoBal /\ balStale = FALSE
  /\ edits = 0 /\ clash = FALSE

\* Nothing but a click is awaited: no dialog of a payment is up, and the frame's
\* pending screen has been put on.
Idle == ~clash /\ ~payment /\ pending = "none"

\* The balances of a flipped wallet settle in the frame after the receive dialog
\* is closed, before anything else can be clicked.
Hands == Idle /\ ~balStale
Busy == job # NoJob
Edit == edits < MaxEdits /\ edits' = edits + 1

\* Mutant: the list of wallets is not disabled while a job is in flight.
ListNeverDisabled == Hands

\* The list of wallets is disabled while a job is in flight.
ListEnabled == Hands /\ ~Busy

Activate(i) ==
  /\ ListEnabled /\ i \in Store(disk) \ {active}
  /\ SwitchActive(disk, i)
  /\ UNCHANGED <<disk, pending, job, lost, payment, edits>>

\* The list's pin writes the sidecar on disk, not m_meta.
PinPressed(i) ==
  /\ ListEnabled /\ i \in Store(disk) /\ Edit
  /\ disk' = [disk EXCEPT ![i].pinned = ~@]
  /\ UNCHANGED <<stage, session, job, lost, payment, balances, clash>>

\* Rename writes both.
RenamePressed(i) ==
  /\ ListEnabled /\ i \in Store(disk) /\ Edit
  /\ disk' = [disk EXCEPT ![i].renamed = ~@]
  /\ meta' = IF i = active THEN [meta EXCEPT !.renamed = disk'[i].renamed]
             ELSE meta
  /\ UNCHANGED <<active, mode, pending, session, job, lost, payment, balances,
                 clash>>

DeletePressed(i) ==
  /\ ListEnabled /\ i \in Store(disk) /\ Edit
  /\ disk' = [disk EXCEPT ![i] = NoMeta]
  /\ CASE i # active ->
            UNCHANGED <<stage, session, balances, clash>>
       [] i = active /\ Store(disk') = {} ->
            /\ Teardown
            /\ active' = NoId /\ meta' = NoMeta /\ pending' = "NoWallets"
            /\ UNCHANGED <<mode, balances>>
       [] i = active /\ Store(disk') # {} ->
            /\ \E next \in Store(disk') : SwitchActive(disk', next)
            /\ UNCHANGED pending
  /\ UNCHANGED <<job, lost, payment>>

\* From the list or the menu bar; neither opens while a job is in flight.
ImportPressed ==
  /\ Hands /\ ~Busy /\ mode # "ImportForm" /\ Edit
  /\ pending' = "ImportForm"
  /\ UNCHANGED <<disk, active, meta, mode, session, job, lost, payment,
                 balances, clash>>

ImportBack ==
  /\ Hands /\ mode = "ImportForm"
  /\ pending' = IF Store(disk) = {} THEN "NoWallets" ELSE "Locked"
  /\ UNCHANGED <<disk, active, meta, mode, session, job, lost, payment,
                 balances, edits, clash>>

\* Half random: no two wallets have the same.
NewId(i) == i \in Ids /\ disk[i] = NoMeta /\ \A j \in lost : j.id # i

\* A watch wallet needs no vault and no thread.
ImportWatch(i, m) ==
  /\ Hands /\ ~Busy /\ mode = "ImportForm" /\ NewId(i) /\ m.kind = "watch"
  /\ disk' = [disk EXCEPT ![i] = m]
  /\ SwitchActive(disk', i)
  /\ UNCHANGED <<pending, job, lost, payment, edits>>

(***************************************************************************)
(* The page's one job.                                                     *)
(***************************************************************************)

\* A job that replaces another loses sight of its thread.
Start(j) ==
  /\ job' = j
  /\ lost' = IF job.kind = "vault" /\ job.at = "run" THEN lost \cup {job} ELSE lost

\* Create from its dialog, import from its form.
StartVault(i, m) ==
  /\ Hands /\ ~Busy /\ NewId(i) /\ HasVault(m) /\ Edit
  /\ mode = "ImportForm" \/ m.kind = "hd"
  /\ Start([kind |-> "vault", at |-> "run", id |-> i, next |-> "Locked",
            meta |-> m])
  /\ UNCHANGED <<disk, stage, session, payment, balances, clash>>

\* Enter in the passphrase field submits, busy or not.
StartUnlock(good) ==
  /\ Hands /\ mode = "Locked" /\ active # NoId
  /\ Ensure
  /\ Touches
  /\ Start([kind |-> "unlock", at |-> "run", id |-> active,
            next |-> "Unlocked", good |-> good])
  /\ UNCHANGED <<disk, stage, unlocked, book, famBook, payment, balances,
                 edits>>

StartBackup(good) ==
  /\ Hands /\ ~Busy /\ mode = "Unlocked" /\ Edit
  /\ Ensure
  /\ Touches
  /\ Start([kind |-> "backup", at |-> "run", id |-> active,
            next |-> "Unlocked", good |-> good])
  /\ UNCHANGED <<disk, stage, unlocked, book, famBook, payment, balances>>

Ends(ok) == job' = [job EXCEPT !.at = IF ok THEN "ok" ELSE "failed"]

\* The thread of a create or an import writes the vault, then the sidecar.
VaultWritten ==
  /\ ~clash /\ job.kind = "vault" /\ job.at = "run"
  /\ \/ Ends(TRUE) /\ disk' = [disk EXCEPT ![job.id] = job.meta]
     \/ Ends(FALSE) /\ UNCHANGED disk
  /\ UNCHANGED <<stage, session, lost, payment, balances, edits, clash>>

\* The thread of a job nobody waits for writes all the same.
LostWritten(j) ==
  /\ ~clash /\ j \in lost /\ lost' = lost \ {j}
  /\ disk' \in {disk, [disk EXCEPT ![j.id] = j.meta]}
  /\ UNCHANGED <<stage, session, job, payment, balances, edits, clash>>

Answered(good) == good /\ client.child # "dead"
                  /\ HasVault(disk[client.id])

UnlockEnds ==
  /\ ~clash /\ job.kind = "unlock" /\ job.at = "run"
  /\ Ends(Answered(job.good))
  /\ client' = IF Answered(job.good)
               THEN [client EXCEPT !.child = disk[client.id].root] ELSE client
  /\ UNCHANGED <<disk, stage, unlocked, book, famBook, lost, payment,
                 balances, edits, clash>>

BackupEnds ==
  /\ ~clash /\ job.kind = "backup" /\ job.at = "run"
  /\ Ends(Answered(job.good))
  /\ UNCHANGED <<disk, stage, session, lost, payment, balances, edits, clash>>

\* mark_unlocked: a locked session has no books.
MarkUnlocked(flag) ==
  /\ unlocked' = flag
  /\ IF flag THEN TRUE ELSE book' = <<>> /\ famBook' = NoBooks

\* A create or an import puts its wallet on stage, locked.
VaultLands ==
  /\ SwitchActive(disk, job.id)
  /\ UNCHANGED disk

Healed(count, kind) ==
  [meta EXCEPT !.count = count, !.kind = kind,
               !.active = IF count # meta.count /\ @ >= count THEN 0 ELSE @]

\* Mutant: a kind that was corrected is not written.
HealsKindUnwritten(count, kind) ==
  /\ meta' = Healed(count, kind)
  /\ disk' = IF count = meta.count THEN disk ELSE [disk EXCEPT ![active] = meta']

\* The count is corrected to what the wallet was found to have and the kind to
\* what the client takes it for, in one write if there is anything to correct.
SelfHeals(count, kind) ==
  /\ meta' = Healed(count, kind)
  /\ disk' = IF meta' = meta THEN disk ELSE [disk EXCEPT ![active] = meta']

\* An unlock or a backup fetches the books, once, and heals the sidecar.
UnlockLands ==
  LET count  == Found(client, meta)
      first  == Asked(client, {meta.born})
      others == OtherFamilies(meta)
  IN
  /\ mode' = "Unlocked"
  /\ MarkUnlocked(TRUE)
  /\ Touches
  /\ book' = RefreshAddresses(client, meta)
  /\ famBook' = FamilyBooks(first, meta, count, others)
  /\ client' = AsksFamilies(first, meta, others)
  /\ SelfHeals(count, client'.kind)
  /\ active' = active
  /\ FetchBalances(TRUE)
  /\ UNCHANGED balStale

PollJob ==
  /\ ~clash /\ job # NoJob /\ job.at \in {"ok", "failed"}
  /\ CASE job.at = "failed" ->
            UNCHANGED <<disk, active, meta, mode, session, balances, clash>>
       [] job.at = "ok" /\ job.kind = "vault"  -> VaultLands
       [] job.at = "ok" /\ job.kind # "vault"  -> UnlockLands
  /\ job' = NoJob
  /\ UNCHANGED <<pending, lost, payment, edits>>

\* A screen change lands at the top of the next frame, after the job's.
ScreenLands ==
  /\ ~clash /\ pending # "none"
  /\ job # NoJob => job.at = "run"
  /\ mode' = pending /\ pending' = "none"
  /\ UNCHANGED <<disk, active, meta, session, job, lost, payment, balances,
                 edits, clash>>

(***************************************************************************)
(* The account view, which is not disabled while a job is in flight but    *)
(* for Lock and Backup.                                                    *)
(***************************************************************************)

WriteMeta == disk' = [disk EXCEPT ![active] = meta']

SelectPressed(i) ==
  /\ Hands /\ mode \in {"Unlocked", "Watch"} /\ Edit
  /\ i # meta.active
  /\ i < (IF mode = "Watch" THEN meta.count ELSE Len(book))
  /\ meta' = [meta EXCEPT !.active = i]
  /\ WriteMeta
  /\ UNCHANGED <<active, mode, pending, session, job, lost, payment, balances,
                 clash>>

\* Offered while the client takes the wallet for a seed.
AddPressed ==
  /\ Hands /\ mode = "Unlocked" /\ client # NoClient /\ client.kind = "hd"
  /\ meta.count < MaxCount /\ Edit
  /\ meta' = [meta EXCEPT !.count = @ + 1]
  /\ WriteMeta
  /\ Touches
  /\ book' = Append(book, Told(client, meta.count, meta.born))
  /\ famBook' = FamilyBooks(client, meta', meta'.count, OtherFamilies(meta'))
  /\ client' = AsksFamilies(client, meta', OtherFamilies(meta'))
  /\ active' = active
  /\ FetchBalances(FALSE)
  /\ UNCHANGED <<mode, pending, unlocked, job, lost, payment, balStale>>

\* One key, another costume, for a wallet the page takes for a seed: one born on
\* Bitcoin re-dresses its main line, another its Bitcoin book.
BtcFormat(preset) ==
  /\ Idle /\ mode = "Unlocked" /\ SidecarFamilies(meta) = Families /\ Edit
  /\ meta' = IF BornFamily(meta) = "btc" THEN [meta EXCEPT !.born = preset]
             ELSE [meta EXCEPT !.btc = preset]
  /\ WriteMeta
  /\ Touches
  /\ IF BornFamily(meta) = "btc"
     THEN book' = RefreshAddresses(client, meta') /\ balStale' = TRUE
     ELSE UNCHANGED <<book, balStale>>
  /\ famBook' = FamilyBooks(client, meta', meta'.count, {"btc"})
  /\ client' = AsksFamilies(client, meta', {"btc"})
  /\ UNCHANGED <<active, mode, pending, unlocked, job, lost, payment, bal,
                 balJob>>

RefreshPressed ==
  /\ Hands /\ mode \in {"Unlocked", "Watch"} /\ balJob = NoBal /\ Edit
  /\ active' = active /\ meta' = meta
  /\ FetchBalances(FALSE)
  /\ UNCHANGED <<disk, mode, pending, session, job, lost, payment, balStale,
                 clash>>

\* From the view or the menu bar: the child must say it has locked.
LockPressed ==
  /\ Hands /\ ~Busy /\ client # NoClient
  /\ Touches
  /\ IF client.child = "dead"
     THEN UNCHANGED <<client, unlocked, book, famBook, pending>>
     ELSE /\ client' = [client EXCEPT !.child = "locked"]
          /\ MarkUnlocked(FALSE)
          /\ pending' = "Locked"
  /\ UNCHANGED <<disk, active, meta, mode, job, lost, payment, balances, edits>>

(***************************************************************************)
(* The other pages, the child, and the threads.                            *)
(***************************************************************************)

\* A payment asks for an address and proposes from the frame loop, and then
\* delivers from a thread, under a dialog; its form asks whether the session is
\* unlocked and not whether a job is in flight.
PaymentBegins ==
  /\ Hands /\ unlocked /\ Open(client) /\ Edit
  /\ Touches
  /\ payment' = TRUE
  /\ \E f \in SidecarFamilies(meta) : client' = AsksFamilies(client, meta, {f})
  /\ UNCHANGED <<disk, stage, unlocked, book, famBook, job, lost, balances>>

PaymentEnds ==
  /\ ~clash /\ payment /\ payment' = FALSE
  /\ UNCHANGED <<disk, stage, session, job, lost, balances, edits, clash>>

\* The watcher of the child locks it, or the child dies.
ChildChanges ==
  /\ ~clash /\ client # NoClient
  /\ \/ Open(client) /\ client' = [client EXCEPT !.child = "locked"]
     \/ client.child # "dead" /\ client' = [client EXCEPT !.child = "dead"]
  /\ UNCHANGED <<disk, stage, unlocked, book, famBook, job, lost, payment,
                 balances, edits, clash>>

Human ==
  \/ \E i \in Ids :
       \/ Activate(i) \/ PinPressed(i) \/ RenamePressed(i) \/ DeletePressed(i)
       \/ \E m \in NewMetas : ImportWatch(i, m) \/ StartVault(i, m)
  \/ \E good \in BOOLEAN : StartUnlock(good) \/ StartBackup(good)
  \/ \E i \in 0..(MaxCount - 1) : SelectPressed(i)
  \/ \E preset \in Formats : BtcFormat(preset)
  \/ ImportPressed \/ ImportBack \/ AddPressed \/ RefreshPressed
  \/ LockPressed \/ PaymentBegins

Frame == PollJob \/ ScreenLands \/ BalanceLands \/ BalancesSettle

Thread ==
  \/ VaultWritten \/ UnlockEnds \/ BackupEnds \/ BalanceArrives
  \/ PaymentEnds \/ \E j \in lost : LostWritten(j)

Next == Human \/ Frame \/ Thread \/ ChildChanges

Spec == Init /\ [][Next]_vars

(***************************************************************************)
(* Properties.                                                             *)
(***************************************************************************)

Ours(line, preset) ==
  \A i \in DOMAIN line :
    line[i] = Trouble \/ line[i] = [id |-> active, account |-> i - 1,
                                    preset |-> preset]

\* Whatever was activated, locked, flipped or landed in between, an address on
\* the screen is of the wallet on stage, of its account and in its costume, and
\* a locked session shows none ("a stale one would dress the NEXT wallet in the
\* previous wallet's other-family addresses").
BooksAreOurs ==
  /\ Ours(book, IF active = NoId THEN "none" ELSE meta.born)
  /\ \A f \in Families :
       famBook[f] # <<>> => Ours(famBook[f], FamilyPreset(meta, f))
  /\ ~unlocked => book = <<>> /\ famBook = NoBooks

\* Balances of one wallet are never shown under another, though their worker
\* outlives the wallet's turn on the stage.
BalancesAreOurs ==
  \A source \in bal : source.id = active \/ active = NoId

\* An unlock or a backup lands on the wallet it was started for, with its child
\* still there to be asked for the books.
LandsWhereStarted ==
  job.kind \in {"unlock", "backup"} =>
    job.id = active /\ client.id = active

\* The sidecar on disk is what the page has in mind, but for the pin.
SidecarIsCurrent ==
  active # NoId =>
    [disk[active] EXCEPT !.pinned = FALSE] = [meta EXCEPT !.pinned = FALSE]

=============================================================================
