--------------------------- MODULE SessionProofs ---------------------------
(* Theorems about VaultSession, for any wallets and any number of edits.   *)
(*                                                                         *)
(* SessionInv says what the screens, the client, the books, the balances   *)
(* and the sidecars have to do with each other.  The parts lean on one     *)
(* another: a wallet is never written under the one on stage because its   *)
(* name is free until it is (WritingInv), the account added next is the    *)
(* one after the last line of the book because an open child has told as   *)
(* many as the sidecar counts (BooksInv), and no unlock can open the child *)
(* behind that book because its screen is the locked one (ClientInv).      *)
EXTENDS VaultSession, SequenceTheorems, TLAPS

-----------------------------------------------------------------------------
(* The inductive invariant *)

Addresses == {Trouble} \cup [id : Ids, account : Nat, preset : DerivePresets]

Clients ==
  [id : Ids, child : {"locked", "dead"} \cup WalletKinds, kind : WalletKinds]

JobAt == {"run", "ok", "failed"}

VaultJobs ==
  [kind : {"vault"}, at : JobAt, id : Ids, next : {"Locked"}, meta : Sidecars]

ClientJobs ==
  [kind : {"unlock", "backup"}, at : JobAt, id : Ids, next : {"Unlocked"},
   good : BOOLEAN]

Bare(m) == [m EXCEPT !.pinned = FALSE]

\* The wallet on stage is on the disk, and there as the page knows it.
DiskInv ==
  /\ disk \in [Ids -> Sidecars \cup {NoMeta}]
  /\ active \in Ids \cup {NoId}
  /\ active # NoId =>
       meta \in Sidecars /\ disk[active] # NoMeta /\ Bare(disk[active]) = Bare(meta)

\* The vaults that threads are still writing.
Writing ==
  {j \in lost \cup {job} : j \in lost \/ (j.kind = "vault" /\ j.at = "run")}

\* Each has a name of its own, free until it is written.
WritingInv ==
  /\ job \in {NoJob} \cup VaultJobs \cup ClientJobs
  /\ lost \subseteq VaultJobs
  /\ \A j \in Writing : disk[j.id] = NoMeta
  /\ \A j, k \in Writing : j.id = k.id => j = k
  /\ job.kind = "vault" /\ job.at = "run" => job \notin lost
  /\ job.kind = "vault" /\ job.at = "ok" => disk[job.id] # NoMeta

\* The client serves the wallet on stage, and the threads inside it are its.
ClientInv ==
  /\ client # NoClient =>
       /\ client \in Clients
       /\ client.id = active
  /\ job.kind \in {"unlock", "backup"} => job.id = active /\ client # NoClient
  /\ job.kind = "unlock" => mode = "Locked" /\ pending = "none"

\* An account view is over a wallet, an unlocked one over an unlocked session.
ScreenInv ==
  /\ mode \in Modes /\ pending \in {"none", "NoWallets", "ImportForm", "Locked"}
  /\ unlocked \in BOOLEAN
  /\ pending = "none" /\ mode \in {"Unlocked", "Watch"} => active # NoId
  /\ pending = "none" /\ mode = "Unlocked" => unlocked

\* While the child of a seed can be asked for one more, the book is complete.
BooksInv ==
  /\ book \in Seq(Addresses) /\ famBook \in [Families -> Seq(Addresses)]
  /\ active = NoId \/ ~unlocked => book = <<>> /\ famBook = NoBooks
  /\ active # NoId =>
       /\ Ours(book, meta.born)
       /\ \A f \in Families : Ours(famBook[f], FamilyPreset(meta, f))
  /\ pending = "none" /\ mode = "Unlocked" /\ client.child = "hd" =>
       Len(book) = meta.count

\* The balances, and those on their way, are of the wallet on stage.
BalancesInv ==
  /\ \A source \in bal : active # NoId => source.id = active
  /\ balJob # NoBal =>
       /\ DOMAIN balJob = {"at", "whole", "of"}
       /\ active # NoId => balJob.of.id = active

SessionInv ==
  DiskInv /\ WritingInv /\ ClientInv /\ ScreenInv /\ BooksInv /\ BalancesInv

-----------------------------------------------------------------------------
(* What is left alone *)

LEMMA DiskKept ==
  ASSUME DiskInv, UNCHANGED <<disk, active, meta>>
  PROVE  DiskInv'
BY DEF DiskInv, Bare

LEMMA WritingKept ==
  ASSUME WritingInv, UNCHANGED <<disk, job, lost>>
  PROVE  WritingInv'
BY DEF WritingInv, Writing

LEMMA ClientKept ==
  ASSUME ClientInv, UNCHANGED <<client, active, job, mode, pending>>
  PROVE  ClientInv'
BY DEF ClientInv

LEMMA ScreenKept ==
  ASSUME ScreenInv, UNCHANGED <<mode, pending, unlocked, active>>
  PROVE  ScreenInv'
BY DEF ScreenInv

LEMMA BooksKept ==
  ASSUME BooksInv, client'.child = client.child,
         UNCHANGED <<book, famBook, active, unlocked, meta, mode, pending>>
  PROVE  BooksInv'
BY DEF BooksInv, Ours

LEMMA BalancesKept ==
  ASSUME BalancesInv, UNCHANGED <<bal, balJob, active>>
  PROVE  BalancesInv'
BY DEF BalancesInv

-----------------------------------------------------------------------------
(* The presets of a wallet, and the books a child fills *)

LEMMA MetasDiffer ==
  /\ NoMeta \notin Sidecars /\ NoId \notin Ids
  /\ \A c \in Clients : c # NoClient
BY SessionAssumption
   DEF SessionAssumption, NoMeta, Sidecars, WalletKinds, NoClient, Clients

LEMMA FamilyPresetIs ==
  ASSUME NEW m \in Sidecars, NEW f \in Families
  PROVE  /\ PresetFamily(m.born) \in Families
         /\ FamilyPreset(m, f) \in DerivePresets
BY DEF Sidecars, Families, PresetFamily, FamilyPreset, DerivePresets, EvmPresets,
       BtcPresets, SolPresets

\* Another Bitcoin costume changes what a wallet is on Bitcoin alone.
LEMMA CostumeIsBitcoins ==
  ASSUME NEW m \in Sidecars, NEW preset \in BtcPresets
  PROVE  IF BornFamily(m) = "btc"
         THEN LET n == [m EXCEPT !.born = preset] IN
              /\ n \in Sidecars
              /\ \A f \in Families \ {"btc"} : FamilyPreset(n, f) = FamilyPreset(m, f)
         ELSE LET n == [m EXCEPT !.btc = preset] IN
              /\ n \in Sidecars
              /\ \A f \in Families \ {"btc"} : FamilyPreset(n, f) = FamilyPreset(m, f)
<1>1. CASE BornFamily(m) = "btc"
  <2> DEFINE n == [m EXCEPT !.born = preset]
  <2>1. n \in Sidecars /\ n.born = preset /\ n.btc = m.btc
    BY DEF Sidecars, DerivePresets
  <2>2. PresetFamily(n.born) = "btc"
    BY <2>1 DEF PresetFamily, EvmPresets, BtcPresets, SolPresets
  <2> HIDE DEF n
  <2>3. \A f \in Families \ {"btc"} : FamilyPreset(n, f) = FamilyPreset(m, f)
    BY <1>1, <2>1, <2>2 DEF FamilyPreset, BornFamily, Families
  <2>4. QED
    BY <1>1, <2>1, <2>3 DEF n
<1>2. CASE BornFamily(m) # "btc"
  BY <1>2 DEF Sidecars, FamilyPreset, Families
<1>3. QED
  BY <1>1, <1>2

\* A seed tells every account, a key no account but the first.
LEMMA AccountIsTold ==
  ASSUME NEW c, NEW account \in Nat, NEW preset \in DerivePresets
  PROVE  /\ c.child = "hd" => Tells(c, account, preset)
         /\ c.child # "hd" /\ account # 0 => ~Tells(c, account, preset)
<1>1. PresetFamily(preset) \in Families
  BY DEF PresetFamily, DerivePresets, Families, EvmPresets, BtcPresets, SolPresets
<1>2. ASSUME c.child = "hd"
      PROVE  Tells(c, account, preset)
  <2>1. KindFamilies("hd") = Families
    BY DEF KindFamilies
  <2>2. preset # "none"
    BY DEF DerivePresets, EvmPresets, BtcPresets, SolPresets
  <2>3. AccountAddress([kind |-> "hd"], account, preset)
          = [account |-> account, preset |-> preset]
    BY <1>1, <2>1 DEF AccountAddress
  <2>4. QED
    BY <1>2, <2>2, <2>3 DEF Tells, Open, WalletKinds, NoAddress
<1>3. ASSUME c.child # "hd", account # 0
      PROVE  ~Tells(c, account, preset)
  BY <1>3 DEF Tells, AccountAddress
<1>4. QED
  BY <1>2, <1>3

LEMMA FoundIsACount ==
  ASSUME NEW c, NEW m \in Sidecars
  PROVE  /\ Found(c, m) \in Nat
         /\ c # NoClient => Found(c, m) # 0
         /\ c.child = "hd" /\ c # NoClient => Found(c, m) = m.count
<1>1. c.child = "hd" => Tells(c, 0, m.born)
  BY FamilyPresetIs, AccountIsTold DEF Sidecars
<1>2. QED
  BY <1>1 DEF Found, Sidecars

\* A client of the wallet on stage tells of that wallet.
ClientOf(c, id) ==
  c # NoClient => c \in Clients /\ c.id = id

LineOf(line, id, preset) ==
  \A i \in DOMAIN line :
    line[i] = Trouble \/ line[i] = [id |-> id, account |-> i - 1, preset |-> preset]

LEMMA ToldIs ==
  ASSUME NEW c, NEW id, ClientOf(c, id), c # NoClient, NEW account \in Nat,
         NEW preset \in DerivePresets
  PROVE  /\ Told(c, account, preset) \in Addresses
         /\ \/ Told(c, account, preset) = Trouble
            \/ Told(c, account, preset) = [id |-> id, account |-> account, preset |-> preset]
         /\ c.child # "hd" /\ account # 0 => Told(c, account, preset) = Trouble
BY AccountIsTold DEF ClientOf, Clients, Told, Addresses

\* A client that asks stays the client it was, but for what it knows of the root.
LEMMA AskedIs ==
  ASSUME NEW c, NEW id, ClientOf(c, id), NEW presets
  PROVE  LET d == Asked(c, presets) IN
         /\ c = NoClient => d = NoClient
         /\ c # NoClient => d # NoClient /\ d \in Clients /\ d.id = id
         /\ ClientOf(d, id) /\ d.child = c.child
<1>1. CASE c = NoClient
  BY <1>1 DEF Asked, Tells, Open, NoClient, WalletKinds, ClientOf
<1>2. CASE c # NoClient
  BY <1>2, MetasDiffer DEF Asked, Tells, Open, ClientOf, Clients
<1>3. QED
  BY <1>1, <1>2

\* A client that has asked for addresses serves the wallet it served.
LEMMA ClientAsked ==
  ASSUME ClientInv, NEW presets, client' = Asked(client, presets),
         UNCHANGED <<active, mode, pending>>, job' \in {job, NoJob}
  PROVE  ClientInv'
<1>1. ClientOf(client, active)
  BY DEF ClientInv, ClientOf
<1>2. /\ client = NoClient => client' = NoClient
      /\ client # NoClient => client' # NoClient /\ client' \in Clients /\ client'.id = active
  BY <1>1, AskedIs
<1>3. QED
  BY <1>2 DEF ClientInv, NoJob

LEMMA LineIs ==
  ASSUME NEW c, NEW id, ClientOf(c, id), c # NoClient, NEW count \in Nat,
         NEW preset \in DerivePresets
  PROVE  /\ Line(c, count, preset) \in Seq(Addresses)
         /\ Len(Line(c, count, preset)) = count
         /\ LineOf(Line(c, count, preset), id, preset)
<1>1. \A i \in 1..count : i - 1 \in Nat
  OBVIOUS
<1>2. \A i \in 1..count : Told(c, i - 1, preset) \in Addresses
  BY <1>1, ToldIs
<1>3. Line(c, count, preset) \in Seq(Addresses) /\ Len(Line(c, count, preset)) = count
  BY <1>2 DEF Line
<1>4. LineOf(Line(c, count, preset), id, preset)
  BY <1>1, ToldIs DEF Line, LineOf
<1>5. QED
  BY <1>3, <1>4

LEMMA EmptyLine ==
  ASSUME NEW id, NEW preset
  PROVE  <<>> \in Seq(Addresses) /\ Len(<<>>) = 0 /\ LineOf(<<>>, id, preset)
BY DEF LineOf

LEMMA RefreshAddressesIs ==
  ASSUME NEW c, NEW id, ClientOf(c, id), NEW m \in Sidecars
  PROVE  /\ RefreshAddresses(c, m) \in Seq(Addresses)
         /\ Len(RefreshAddresses(c, m)) = Found(c, m)
         /\ LineOf(RefreshAddresses(c, m), id, m.born)
<1>1. CASE c = NoClient
  <2>1. RefreshAddresses(c, m) = <<>> /\ Found(c, m) = 0
    BY <1>1 DEF RefreshAddresses, Found, Line
  <2>2. QED
    BY <2>1, EmptyLine
<1>2. CASE c # NoClient
  BY <1>2, FoundIsACount, LineIs DEF RefreshAddresses, Sidecars
<1>3. QED
  BY <1>1, <1>2

LEMMA FamilyLineIs ==
  ASSUME NEW c, NEW id, ClientOf(c, id), NEW m \in Sidecars, NEW count \in Nat,
         NEW families, NEW f \in Families
  PROVE  /\ FamilyLine(c, m, count, families, f) \in Seq(Addresses)
         /\ LineOf(FamilyLine(c, m, count, families, f), id, FamilyPreset(m, f))
<1>1. CASE c = NoClient
  BY <1>1, EmptyLine DEF FamilyLine
<1>2. CASE c # NoClient
  <2> DEFINE length == IF AsksFamilies(c, m, families \cap UpTo(f)).kind = "hd"
                       THEN count ELSE 1
  <2>1. length \in Nat /\ FamilyPreset(m, f) \in DerivePresets
    BY FamilyPresetIs
  <2>2. FamilyLine(c, m, count, families, f) = Line(c, length, FamilyPreset(m, f))
    BY <1>2 DEF FamilyLine
  <2> HIDE DEF length
  <2>3. QED
    BY <1>2, <2>1, <2>2, LineIs
<1>3. QED
  BY <1>1, <1>2

\* The books that are fetched anew are of the wallet, the others stay.
LEMMA FamilyBooksAre ==
  ASSUME NEW c, NEW id, ClientOf(c, id), NEW m \in Sidecars, NEW count \in Nat,
         NEW families, famBook \in [Families -> Seq(Addresses)],
         \A f \in Families \ families : LineOf(famBook[f], id, FamilyPreset(m, f))
  PROVE  /\ FamilyBooks(c, m, count, families) \in [Families -> Seq(Addresses)]
         /\ \A f \in Families :
              LineOf(FamilyBooks(c, m, count, families)[f], id, FamilyPreset(m, f))
BY FamilyLineIs DEF FamilyBooks

-----------------------------------------------------------------------------
(* Writes to the disk *)

\* A sidecar of a wallet off the stage is nothing to the page.
LEMMA OtherWritten ==
  ASSUME DiskInv, NEW i \in Ids, i # active, NEW m \in Sidecars \cup {NoMeta},
         disk' = [disk EXCEPT ![i] = m], UNCHANGED <<active, meta>>
  PROVE  DiskInv'
BY MetasDiffer DEF DiskInv, Bare

\* A change of the sidecar in mind that is written is on the disk.
LEMMA StageWritten ==
  ASSUME DiskInv, WritingInv, active # NoId, meta' \in Sidecars,
         disk' = [disk EXCEPT ![active] = meta'], UNCHANGED <<active, lost>>,
         job' \in {job, NoJob}
  PROVE  DiskInv' /\ WritingInv'
<1>1. active \in Ids /\ disk[active] # NoMeta /\ meta' # NoMeta
  BY MetasDiffer DEF DiskInv
<1>2. disk'[active] = meta' /\ \A i \in Ids \ {active} : disk'[i] = disk[i]
  BY <1>1 DEF DiskInv
<1>3. DiskInv'
  BY <1>1, <1>2 DEF DiskInv, Bare
<1>4. \A j \in Writing' : j \in Writing /\ j.id \in Ids
  BY DEF Writing, WritingInv, NoJob, VaultJobs, ClientJobs
<1>5. \A j \in Writing' : disk'[j.id] = NoMeta
  BY <1>1, <1>2, <1>4 DEF WritingInv
<1>6. /\ job' \in {NoJob} \cup VaultJobs \cup ClientJobs
      /\ job'.kind = "vault" /\ job'.at = "ok" => disk'[job'.id] # NoMeta
  BY <1>1, <1>2 DEF WritingInv, NoJob, VaultJobs, ClientJobs
<1>7. WritingInv'
  BY <1>4, <1>5, <1>6 DEF WritingInv, NoJob
<1>8. QED
  BY <1>3, <1>7

\* A write that fills no name a thread has reserved takes none from it.
LEMMA NoneTaken ==
  ASSUME WritingInv, Writing' \subseteq Writing,
         \A j \in Writing' : disk'[j.id] = NoMeta,
         job' \in {job, NoJob}, lost' \subseteq lost,
         job'.kind = "vault" /\ job'.at = "ok" => disk'[job'.id] # NoMeta
  PROVE  WritingInv'
BY DEF WritingInv, NoJob

LEMMA WritersAreVaults ==
  ASSUME WritingInv, NEW j \in Writing
  PROVE  j \in VaultJobs /\ j.id \in Ids /\ j.meta \in Sidecars /\ disk[j.id] = NoMeta
<1>1. j \in VaultJobs
  BY DEF Writing, WritingInv, NoJob, VaultJobs, ClientJobs
<1>2. QED
  BY <1>1 DEF VaultJobs, WritingInv

LEMMA IdleWriting ==
  ASSUME job = NoJob
  PROVE  Writing = lost
BY DEF Writing, NoJob

-----------------------------------------------------------------------------
(* Another wallet takes the stage *)

LEMMA SwitchKeeps ==
  ASSUME NEW d \in [Ids -> Sidecars \cup {NoMeta}], disk' = d,
         NEW i \in Ids, d[i] # NoMeta, SwitchActive(d, i),
         pending' \in {"none", "NoWallets", "ImportForm", "Locked"},
         job'.kind \notin {"unlock", "backup"}
  PROVE  DiskInv' /\ ClientInv' /\ ScreenInv' /\ BooksInv' /\ BalancesInv'
<1>1. /\ client' = NoClient /\ unlocked' = FALSE /\ book' = <<>> /\ famBook' = NoBooks
      /\ active' = i /\ meta' = d[i] /\ meta' \in Sidecars /\ active' # NoId
  BY MetasDiffer DEF SwitchActive, Teardown
<1>2. mode' \in {"Watch", "Locked", "NoWallets"}
  BY DEF SwitchActive
<1>3. DiskInv'
  BY <1>1 DEF DiskInv, Bare
<1>4. ClientInv'
  BY <1>1 DEF ClientInv
<1>5. ScreenInv'
  BY <1>1, <1>2 DEF ScreenInv, Modes
<1>6. BooksInv'
  BY <1>1, <1>2, EmptyLine DEF BooksInv, NoBooks, Ours
<1>7. BalancesInv'
  BY <1>1 DEF SwitchActive, DropsBalances, NoBal, BalancesInv
<1>8. QED
  BY <1>3, <1>4, <1>5, <1>6, <1>7

LEMMA ActivateKeeps ==
  ASSUME SessionInv, NEW i \in Ids, Activate(i)
  PROVE  SessionInv'
<1>1. /\ disk[i] # NoMeta /\ disk' = disk /\ SwitchActive(disk, i)
      /\ job = NoJob /\ UNCHANGED <<disk, pending, job, lost>> /\ pending = "none"
  BY DEF Activate, Store, ListEnabled, Hands, Idle, Busy
<1>2. DiskInv' /\ ClientInv' /\ ScreenInv' /\ BooksInv' /\ BalancesInv'
  BY <1>1, SwitchKeeps DEF SessionInv, DiskInv, NoJob
<1>3. WritingInv'
  BY <1>1, WritingKept DEF SessionInv
<1>4. QED
  BY <1>2, <1>3 DEF SessionInv

LEMMA PinKeeps ==
  ASSUME SessionInv, NEW i \in Ids, PinPressed(i)
  PROVE  SessionInv'
<1>1. /\ disk[i] # NoMeta /\ disk' = [disk EXCEPT ![i].pinned = ~@] /\ job = NoJob
      /\ UNCHANGED <<active, meta, mode, pending, client, unlocked, book, famBook,
                     job, lost, bal, balJob>>
  BY DEF PinPressed, Store, ListEnabled, Hands, Idle, Busy, stage, session, balances
<1>2. disk[i] \in Sidecars
  BY <1>1 DEF SessionInv, DiskInv
<1>3. PICK m \in Sidecars : disk' = [disk EXCEPT ![i] = m] /\ Bare(m) = Bare(disk[i])
  <2>1. \A n \in Sidecars, b \in BOOLEAN :
          Bare([n EXCEPT !.pinned = b]) = Bare(n) /\ [n EXCEPT !.pinned = b] \in Sidecars
    BY DEF Bare, Sidecars
  <2>2. disk[i].pinned \in BOOLEAN
    BY <1>2 DEF Sidecars
  <2>3. CASE disk[i].pinned = TRUE
    BY <1>1, <1>2, <2>1, <2>3
  <2>4. CASE disk[i].pinned = FALSE
    BY <1>1, <1>2, <2>1, <2>4
  <2>5. QED
    BY <2>2, <2>3, <2>4
<1>4. /\ disk'[i] = m /\ m # NoMeta /\ disk' \in [Ids -> Sidecars \cup {NoMeta}]
      /\ \A k \in Ids \ {i} : disk'[k] = disk[k]
  BY <1>3, MetasDiffer DEF SessionInv, DiskInv
<1>5. DiskInv'
  BY <1>1, <1>3, <1>4 DEF SessionInv, DiskInv
<1>6. WritingInv'
  <2>1. Writing' = Writing
    BY <1>1 DEF Writing
  <2>2. \A j \in Writing : j.id \in Ids /\ j.id # i
    BY <1>1, WritersAreVaults DEF SessionInv
  <2>3. QED
    BY <1>1, <1>4, <2>1, <2>2, NoneTaken DEF SessionInv, WritingInv, NoJob
<1>7. QED
  BY <1>1, <1>5, <1>6, ClientKept, ScreenKept, BooksKept, BalancesKept DEF SessionInv

\* The books only look at what a wallet is, not at how it is shown.
LEMMA BooksLook ==
  ASSUME BooksInv, meta'.born = meta.born, meta'.btc = meta.btc,
         meta'.count = meta.count, meta'.kind = meta.kind,
         UNCHANGED <<book, famBook, active, unlocked, mode, pending, client>>
  PROVE  BooksInv'
<1>1. \A f \in Families : FamilyPreset(meta', f) = FamilyPreset(meta, f)
  BY DEF FamilyPreset
<1>2. QED
  BY <1>1 DEF BooksInv, Ours

LEMMA RenameKeeps ==
  ASSUME SessionInv, NEW i \in Ids, RenamePressed(i)
  PROVE  SessionInv'
<1>1. /\ disk[i] # NoMeta /\ disk' = [disk EXCEPT ![i].renamed = ~@] /\ job = NoJob
      /\ meta' = IF i = active THEN [meta EXCEPT !.renamed = disk'[i].renamed] ELSE meta
      /\ UNCHANGED <<active, mode, pending, client, unlocked, book, famBook,
                     job, lost, bal, balJob>>
  BY DEF RenamePressed, Store, ListEnabled, Hands, Idle, Busy, session, balances
<1>2. disk[i] \in Sidecars
  BY <1>1 DEF SessionInv, DiskInv
<1>3. \A n \in Sidecars, b \in BOOLEAN :
        [n EXCEPT !.renamed = b] \in Sidecars /\ [n EXCEPT !.renamed = b].renamed = b
  BY DEF Sidecars
<1>4. PICK b \in BOOLEAN : disk' = [disk EXCEPT ![i] = [disk[i] EXCEPT !.renamed = b]]
  <2>1. disk[i].renamed \in BOOLEAN
    BY <1>2 DEF Sidecars
  <2>2. CASE disk[i].renamed = TRUE
    BY <1>1, <2>2
  <2>3. CASE disk[i].renamed = FALSE
    BY <1>1, <2>3
  <2>4. QED
    BY <2>1, <2>2, <2>3
<1> DEFINE m == [disk[i] EXCEPT !.renamed = b]
<1>5. /\ m \in Sidecars /\ m # NoMeta /\ m.renamed = b /\ disk'[i] = m
      /\ \A k \in Ids \ {i} : disk'[k] = disk[k]
      /\ disk' \in [Ids -> Sidecars \cup {NoMeta}]
  BY <1>2, <1>3, <1>4, MetasDiffer DEF SessionInv, DiskInv
<1>6. DiskInv' /\ BooksInv'
  <2>1. CASE i # active
    BY <1>1, <1>4, <1>5, <2>1, OtherWritten, BooksKept DEF SessionInv
  <2>2. CASE i = active
    <3>1. meta \in Sidecars /\ Bare(disk[i]) = Bare(meta) /\ active # NoId
      BY <2>2, MetasDiffer DEF SessionInv, DiskInv
    <3>2. meta' = [meta EXCEPT !.renamed = b] /\ meta' \in Sidecars
      BY <1>1, <1>3, <1>5, <2>2, <3>1
    <3>3. \A n, q \in Sidecars :
            Bare(n) = Bare(q) => Bare([n EXCEPT !.renamed = b]) = Bare([q EXCEPT !.renamed = b])
      BY DEF Bare, Sidecars
    <3>4. Bare(m) = Bare(meta')
      BY <1>2, <3>1, <3>2, <3>3
    <3>5. DiskInv'
      BY <1>1, <1>5, <2>2, <3>1, <3>2, <3>4 DEF SessionInv, DiskInv
    <3>6. /\ meta'.born = meta.born /\ meta'.btc = meta.btc
          /\ meta'.count = meta.count /\ meta'.kind = meta.kind
      BY <3>1, <3>2 DEF Sidecars
    <3>7. QED
      BY <1>1, <3>5, <3>6, BooksLook DEF SessionInv
  <2>3. QED
    BY <2>1, <2>2
<1>7. WritingInv'
  <2>1. Writing' = Writing
    BY <1>1 DEF Writing
  <2>2. \A j \in Writing : j.id \in Ids /\ j.id # i
    BY <1>1, WritersAreVaults DEF SessionInv
  <2>3. QED
    BY <1>1, <1>5, <2>1, <2>2, NoneTaken DEF SessionInv, WritingInv, NoJob
<1>8. QED
  BY <1>1, <1>6, <1>7, ClientKept, ScreenKept, BalancesKept DEF SessionInv

\* The last wallet gone, the stage is empty and so are the books.
LEMMA DeleteKeeps ==
  ASSUME SessionInv, NEW i \in Ids, DeletePressed(i)
  PROVE  SessionInv'
<1>1. /\ disk[i] # NoMeta /\ disk' = [disk EXCEPT ![i] = NoMeta]
      /\ job = NoJob /\ job' = NoJob /\ lost' = lost /\ pending = "none"
  BY DEF DeletePressed, Store, ListEnabled, Hands, Idle, Busy
<1>2. /\ disk' \in [Ids -> Sidecars \cup {NoMeta}] /\ disk'[i] = NoMeta
      /\ \A k \in Ids \ {i} : disk'[k] = disk[k]
  BY <1>1 DEF SessionInv, DiskInv
<1>3. WritingInv'
  <2>1. Writing' = Writing
    BY <1>1 DEF Writing
  <2>2. \A j \in Writing : j.id \in Ids /\ disk[j.id] = NoMeta
    BY WritersAreVaults DEF SessionInv
  <2>3. QED
    BY <1>1, <1>2, <2>1, <2>2, NoneTaken DEF SessionInv, WritingInv, NoJob
<1>4. CASE i # active
  <2>1. UNCHANGED <<active, meta, mode, pending, client, unlocked, book, famBook,
                    bal, balJob>>
    BY <1>4 DEF DeletePressed, stage, session, balances
  <2>2. QED
    BY <1>1, <1>3, <1>4, <2>1, OtherWritten, ClientKept, ScreenKept, BooksKept,
       BalancesKept DEF SessionInv
<1>5. CASE i = active /\ Store(disk') = {}
  <2>1. /\ client' = NoClient /\ unlocked' = FALSE /\ book' = <<>> /\ famBook' = NoBooks
        /\ active' = NoId /\ meta' = NoMeta /\ pending' = "NoWallets"
        /\ UNCHANGED <<mode, bal, balJob>>
    BY <1>5 DEF DeletePressed, Teardown, balances
  <2>2. DiskInv' /\ ClientInv' /\ ScreenInv'
    BY <1>1, <1>2, <2>1 DEF SessionInv, DiskInv, ClientInv, ScreenInv, NoJob
  <2>3. BooksInv'
    BY <2>1, EmptyLine DEF BooksInv, NoBooks
  <2>4. BalancesInv'
    BY <2>1 DEF SessionInv, BalancesInv
  <2>5. QED
    BY <1>3, <2>2, <2>3, <2>4 DEF SessionInv
<1>6. CASE i = active /\ Store(disk') # {}
  <2>1. pending' = pending /\ \E k \in Store(disk') : SwitchActive(disk', k)
    BY <1>6 DEF DeletePressed
  <2>2. PICK k \in Ids : disk'[k] # NoMeta /\ SwitchActive(disk', k)
    BY <2>1 DEF Store
  <2>3. DiskInv' /\ ClientInv' /\ ScreenInv' /\ BooksInv' /\ BalancesInv'
    BY <1>1, <1>2, <2>1, <2>2, SwitchKeeps DEF NoJob
  <2>4. QED
    BY <1>3, <2>3 DEF SessionInv
<1>7. QED
  BY <1>4, <1>5, <1>6

-----------------------------------------------------------------------------
(* The import form, and vaults that are written *)

\* A screen that is put on, or asked for, is none of an account.
LEMMA ScreenKeeps ==
  ASSUME SessionInv, ImportPressed \/ ImportBack \/ ScreenLands
  PROVE  SessionInv'
<1>1. /\ UNCHANGED <<disk, active, meta, client, unlocked, book, famBook, job, lost,
                     bal, balJob>>
      /\ job.kind # "unlock"
      /\ pending' \in {"none", "NoWallets", "ImportForm", "Locked"} /\ mode' \in Modes
      /\ pending' = "none" => mode' \notin {"Unlocked", "Watch"}
  BY DEF ImportPressed, ImportBack, ScreenLands, session, balances, Busy, Hands, Idle,
         NoJob, SessionInv, ScreenInv, ClientInv, Modes
<1>2. ClientInv'
  BY <1>1 DEF SessionInv, ClientInv
<1>3. ScreenInv'
  BY <1>1 DEF SessionInv, ScreenInv
<1>4. BooksInv'
  BY <1>1 DEF SessionInv, BooksInv, Ours
<1>5. QED
  BY <1>1, <1>2, <1>3, <1>4, DiskKept, WritingKept, BalancesKept DEF SessionInv

LEMMA ImportWatchKeeps ==
  ASSUME SessionInv, NEW i \in Ids, NEW m \in NewMetas, ImportWatch(i, m)
  PROVE  SessionInv'
<1>1. /\ m \in Sidecars /\ m # NoMeta /\ disk' = [disk EXCEPT ![i] = m]
      /\ SwitchActive(disk', i) /\ pending' = "none"
      /\ job = NoJob /\ job' = NoJob /\ lost' = lost
      /\ \A j \in lost : j.id # i
  BY MetasDiffer, SessionAssumption
     DEF SessionAssumption, ImportWatch, NewId, Hands, Idle, Busy
<1>2. /\ disk' \in [Ids -> Sidecars \cup {NoMeta}] /\ disk'[i] = m
      /\ \A k \in Ids \ {i} : disk'[k] = disk[k]
  BY <1>1 DEF SessionInv, DiskInv
<1>3. DiskInv' /\ ClientInv' /\ ScreenInv' /\ BooksInv' /\ BalancesInv'
  BY <1>1, <1>2, SwitchKeeps DEF NoJob
<1>4. WritingInv'
  <2>1. Writing' = Writing /\ Writing = lost
    BY <1>1, IdleWriting DEF Writing
  <2>2. \A j \in Writing : j.id \in Ids /\ j.id # i /\ disk[j.id] = NoMeta
    BY <1>1, <2>1, WritersAreVaults DEF SessionInv
  <2>3. QED
    BY <1>1, <1>2, <2>1, <2>2, NoneTaken DEF SessionInv, NoJob
<1>5. QED
  BY <1>3, <1>4 DEF SessionInv

\* The name a create reserves is nobody's.
LEMMA StartVaultKeeps ==
  ASSUME SessionInv, NEW i \in Ids, NEW m \in NewMetas, StartVault(i, m)
  PROVE  SessionInv'
<1>1. /\ UNCHANGED <<disk, active, meta, mode, pending, client, unlocked, book, famBook,
                     bal, balJob>>
      /\ job = NoJob /\ lost' = lost /\ disk[i] = NoMeta /\ \A j \in lost : j.id # i
      /\ job' = [kind |-> "vault", at |-> "run", id |-> i, next |-> "Locked", meta |-> m]
  BY DEF StartVault, Start, NewId, Hands, Idle, Busy, stage, session, balances, NoJob
<1>2. job' \in VaultJobs /\ job'.kind = "vault" /\ job'.at = "run" /\ job'.id = i
  BY <1>1, SessionAssumption DEF SessionAssumption, VaultJobs, JobAt
<1>3. Writing' = lost \cup {job'}
  BY <1>1, <1>2 DEF Writing
<1>4. WritingInv'
  <2>1. Writing = lost
    BY <1>1, IdleWriting
  <2>2. QED
    BY <1>1, <1>2, <1>3, <2>1 DEF SessionInv, WritingInv
<1>5. ClientInv'
  BY <1>1, <1>2 DEF SessionInv, ClientInv
<1>6. QED
  BY <1>1, <1>4, <1>5, DiskKept, ScreenKept, BooksKept, BalancesKept DEF SessionInv

-----------------------------------------------------------------------------
(* The jobs *)

\* A vault job that is replaced goes on writing, unseen.
LEMMA StartKeeps ==
  ASSUME WritingInv, NEW j \in ClientJobs, Start(j), UNCHANGED disk
  PROVE  WritingInv'
<1>1. j.kind # "vault" /\ job' = j
  BY DEF ClientJobs, Start
<1>2. Writing' = Writing /\ Writing' = lost'
  BY <1>1 DEF Start, Writing
<1>3. lost' \subseteq VaultJobs
  BY <1>2, WritersAreVaults
<1>4. QED
  BY <1>1, <1>2, <1>3 DEF WritingInv

\* The client a job is started on is of the wallet on stage.
LEMMA EnsureKeeps ==
  ASSUME SessionInv, active # NoId, Ensure
  PROVE  /\ client' # NoClient /\ client'.id = active
         /\ client' \in Clients
         /\ client'.child = "hd" => client' = client
<1>1. active \in Ids
  BY DEF SessionInv, DiskInv
<1>2. CASE client = NoClient
  BY <1>1, <1>2, MetasDiffer DEF Ensure, Clients, WalletKinds
<1>3. CASE client # NoClient
  BY <1>3 DEF Ensure, SessionInv, ClientInv
<1>4. QED
  BY <1>2, <1>3

LEMMA StartUnlockKeeps ==
  ASSUME SessionInv, NEW good \in BOOLEAN, StartUnlock(good)
  PROVE  SessionInv'
<1> DEFINE j == [kind |-> "unlock", at |-> "run", id |-> active, next |-> "Unlocked",
                 good |-> good]
<1>1. /\ UNCHANGED <<disk, active, meta, mode, pending, unlocked, book, famBook,
                     bal, balJob>>
      /\ active # NoId /\ mode = "Locked" /\ pending = "none" /\ Start(j) /\ Ensure
  BY DEF StartUnlock, Hands, Idle, stage, balances
<1>2. active \in Ids
  BY <1>1 DEF SessionInv, DiskInv
<1>3. j \in ClientJobs /\ j.kind = "unlock" /\ j.id = active
  BY <1>2 DEF ClientJobs, JobAt
<1> HIDE DEF j
<1>4. WritingInv' /\ job' = j
  BY <1>1, <1>3, StartKeeps DEF SessionInv, Start
<1>5. ClientInv'
  BY <1>1, <1>3, <1>4, EnsureKeeps DEF ClientInv
<1>6. BooksInv'
  BY <1>1 DEF SessionInv, BooksInv, Ours
<1>7. QED
  BY <1>1, <1>4, <1>5, <1>6, DiskKept, ScreenKept, BalancesKept DEF SessionInv

LEMMA StartBackupKeeps ==
  ASSUME SessionInv, NEW good \in BOOLEAN, StartBackup(good)
  PROVE  SessionInv'
<1> DEFINE j == [kind |-> "backup", at |-> "run", id |-> active, next |-> "Unlocked",
                 good |-> good]
<1>1. /\ UNCHANGED <<disk, active, meta, mode, pending, unlocked, book, famBook,
                     bal, balJob>>
      /\ active # NoId /\ Start(j) /\ Ensure
  BY DEF StartBackup, Hands, Idle, stage, balances, SessionInv, ScreenInv
<1>2. active \in Ids
  BY <1>1 DEF SessionInv, DiskInv
<1>3. j \in ClientJobs /\ j.kind = "backup" /\ j.id = active
  BY <1>2 DEF ClientJobs, JobAt
<1> HIDE DEF j
<1>4. WritingInv' /\ job' = j
  BY <1>1, <1>3, StartKeeps DEF SessionInv, Start
<1>5. ClientInv'
  BY <1>1, <1>3, <1>4, EnsureKeeps DEF ClientInv
<1>6. BooksInv'
  BY <1>1, EnsureKeeps DEF SessionInv, BooksInv, Ours
<1>7. QED
  BY <1>1, <1>4, <1>5, <1>6, DiskKept, ScreenKept, BalancesKept DEF SessionInv

\* A name that was free cannot be the one on stage.
LEMMA WritersAreOffStage ==
  ASSUME SessionInv, NEW j \in Writing
  PROVE  j \in VaultJobs /\ j.id \in Ids /\ j.id # active /\ j.meta \in Sidecars
BY WritersAreVaults, MetasDiffer DEF SessionInv, DiskInv

LEMMA VaultWrittenKeeps ==
  ASSUME SessionInv, VaultWritten
  PROVE  SessionInv'
<1>1. /\ UNCHANGED <<active, meta, mode, pending, client, unlocked, book, famBook,
                     lost, bal, balJob>>
      /\ job.kind = "vault" /\ job.at = "run"
  BY DEF VaultWritten, stage, session, balances
<1>2. job \in Writing /\ job.id \in Ids /\ job.id # active /\ job.meta \in Sidecars
      /\ job \in VaultJobs /\ disk[job.id] = NoMeta
  <2>1. job \in Writing
    BY <1>1 DEF Writing
  <2>2. QED
    BY <2>1, WritersAreOffStage, WritersAreVaults DEF SessionInv
<1>3. /\ job' \in VaultJobs /\ job'.kind = "vault" /\ job'.id = job.id
      /\ job'.at \in {"ok", "failed"}
      /\ \/ job'.at = "ok" /\ disk' = [disk EXCEPT ![job.id] = job.meta]
         \/ job'.at = "failed" /\ disk' = disk
  BY <1>2 DEF VaultWritten, Ends, VaultJobs, JobAt
<1>4. DiskInv'
  BY <1>1, <1>2, <1>3, OtherWritten, DiskKept DEF SessionInv
<1>5. WritingInv'
  <2>1. Writing' = lost
    BY <1>1, <1>3 DEF Writing
  <2>2. \A k \in lost : k \in Writing /\ k # job /\ k.id # job.id
    <3>1. \A k \in lost : k \in Writing /\ k # job
      BY <1>1 DEF SessionInv, WritingInv, Writing
    <3>2. QED
      BY <1>2, <3>1 DEF SessionInv, WritingInv
  <2>3. \A k \in Writing' : k \in Writing /\ k.id \in Ids /\ disk'[k.id] = NoMeta
    <3>1. \A k \in Writing' : k \in Writing /\ k.id \in Ids /\ k.id # job.id
      BY <2>1, <2>2, WritersAreVaults DEF SessionInv
    <3>2. QED
      BY <1>2, <1>3, <3>1 DEF SessionInv, WritingInv, DiskInv
  <2>4. job'.at = "ok" => disk'[job'.id] # NoMeta
    BY <1>2, <1>3, MetasDiffer DEF SessionInv, DiskInv
  <2>5. QED
    BY <1>1, <1>3, <2>3, <2>4 DEF SessionInv, WritingInv
<1>6. ClientInv'
  BY <1>1, <1>3 DEF SessionInv, ClientInv
<1>7. QED
  BY <1>1, <1>4, <1>5, <1>6, ScreenKept, BooksKept, BalancesKept DEF SessionInv

LEMMA LostWrittenKeeps ==
  ASSUME SessionInv, NEW j \in lost, LostWritten(j)
  PROVE  SessionInv'
<1>1. /\ UNCHANGED <<active, meta, mode, pending, client, unlocked, book, famBook, job,
                     bal, balJob>>
      /\ lost' = lost \ {j} /\ disk' \in {disk, [disk EXCEPT ![j.id] = j.meta]}
  BY DEF LostWritten, stage, session, balances
<1>2. j \in Writing /\ j.id \in Ids /\ j.id # active /\ j.meta \in Sidecars
  <2>1. j \in Writing
    BY DEF Writing
  <2>2. QED
    BY <2>1, WritersAreOffStage
<1>3. DiskInv'
  BY <1>1, <1>2, OtherWritten, DiskKept DEF SessionInv
<1>4. \A k \in Writing' : k \in Writing /\ k # j
  BY <1>1 DEF SessionInv, WritingInv, Writing
<1>5. \A k \in Writing' : k.id \in Ids /\ k.id # j.id /\ disk[k.id] = NoMeta
  BY <1>2, <1>4, WritersAreVaults DEF SessionInv, WritingInv
<1>6. \A k \in Writing' : disk'[k.id] = NoMeta
  BY <1>1, <1>2, <1>5 DEF SessionInv, DiskInv
<1>7. job.kind = "vault" /\ job.at = "ok" => disk'[job.id] # NoMeta
  <2>1. job.kind = "vault" => job.id \in Ids
    BY DEF SessionInv, WritingInv, NoJob, VaultJobs, ClientJobs
  <2>2. \A i \in Ids : disk'[i] \in {disk[i], j.meta}
    BY <1>1, <1>2 DEF SessionInv, DiskInv
  <2>3. QED
    BY <1>2, <2>1, <2>2, MetasDiffer DEF SessionInv, WritingInv
<1>8. WritingInv'
  BY <1>1, <1>4, <1>6, <1>7, NoneTaken DEF SessionInv
<1>9. QED
  BY <1>1, <1>3, <1>8, ClientKept, ScreenKept, BooksKept, BalancesKept DEF SessionInv

\* The child opens, or not, behind a locked screen.
LEMMA UnlockEndsKeeps ==
  ASSUME SessionInv, UnlockEnds
  PROVE  SessionInv'
<1>1. /\ UNCHANGED <<disk, active, meta, mode, pending, unlocked, book, famBook, lost,
                     bal, balJob>>
      /\ job.kind = "unlock" /\ mode = "Locked"
      /\ client # NoClient /\ client.id = active
      /\ client \in Clients
  BY DEF UnlockEnds, stage, balances, SessionInv, ClientInv
<1>2. /\ job' \in ClientJobs /\ job'.kind = "unlock" /\ job'.id = job.id
  BY <1>1 DEF UnlockEnds, Ends, SessionInv, WritingInv, NoJob, VaultJobs, ClientJobs, JobAt
<1>3. client' \in Clients /\ client'.id = active
  <2>1. disk[active] \in Sidecars /\ disk[active].root \in WalletKinds
    BY <1>1, MetasDiffer DEF SessionInv, DiskInv, Clients, Sidecars
  <2>2. QED
    BY <1>1, <2>1 DEF UnlockEnds, Clients
<1>4. WritingInv'
  <2>1. Writing' = Writing
    BY <1>1, <1>2 DEF Writing
  <2>2. QED
    BY <1>1, <1>2, <2>1 DEF SessionInv, WritingInv
<1>5. ClientInv'
  BY <1>1, <1>2, <1>3, MetasDiffer DEF SessionInv, ClientInv
<1>6. BooksInv'
  BY <1>1 DEF SessionInv, BooksInv, Ours
<1>7. QED
  BY <1>1, <1>4, <1>5, <1>6, DiskKept, ScreenKept, BalancesKept DEF SessionInv

LEMMA BackupEndsKeeps ==
  ASSUME SessionInv, BackupEnds
  PROVE  SessionInv'
<1>1. /\ UNCHANGED <<disk, active, meta, mode, pending, client, unlocked, book, famBook,
                     lost, bal, balJob>>
      /\ job.kind = "backup"
  BY DEF BackupEnds, stage, session, balances
<1>2. /\ job' \in ClientJobs /\ job'.kind = "backup" /\ job'.id = job.id
  BY <1>1 DEF BackupEnds, Ends, SessionInv, WritingInv, NoJob, VaultJobs, ClientJobs, JobAt
<1>3. WritingInv'
  <2>1. Writing' = Writing
    BY <1>1, <1>2 DEF Writing
  <2>2. QED
    BY <1>1, <1>2, <2>1 DEF SessionInv, WritingInv
<1>4. ClientInv'
  BY <1>1, <1>2 DEF SessionInv, ClientInv
<1>5. QED
  BY <1>1, <1>3, <1>4, DiskKept, ScreenKept, BooksKept, BalancesKept DEF SessionInv

\* A balance worker takes off for the wallet on stage.
LEMMA FetchKeeps ==
  ASSUME BalancesInv, active' = active, NEW whole, FetchBalances(whole)
  PROVE  BalancesInv'
<1>1. CASE balJob # NoBal
  BY <1>1, BalancesKept DEF FetchBalances
<1>2. CASE balJob = NoBal
  BY <1>2 DEF FetchBalances, BalancesInv
<1>3. QED
  BY <1>1, <1>2

\* What an unlock brings to the screen is what its child told of its wallet.
LEMMA UnlockLandsKeeps ==
  ASSUME SessionInv, UnlockLands, job.kind \in {"unlock", "backup"}, job' = NoJob,
         UNCHANGED <<pending, lost>>
  PROVE  SessionInv'
<1> DEFINE count == Found(client, meta)
           others == OtherFamilies(meta)
           first == Asked(client, {meta.born})
<1>1. /\ active # NoId /\ meta \in Sidecars /\ client # NoClient /\ ClientOf(client, active)
      /\ active' = active
  BY MetasDiffer DEF UnlockLands, SessionInv, ClientInv, DiskInv, ClientOf, Clients
<1>2. count \in Nat /\ count # 0
  BY <1>1, FoundIsACount
<1>3. /\ mode' = "Unlocked" /\ unlocked' = TRUE
      /\ book' = RefreshAddresses(client, meta)
      /\ famBook' = FamilyBooks(first, meta, count, others)
      /\ client' = AsksFamilies(first, meta, others)
      /\ SelfHeals(count, client'.kind) /\ FetchBalances(TRUE)
  BY DEF UnlockLands, MarkUnlocked
<1>4. Len(book') = count /\ book' \in Seq(Addresses) /\ LineOf(book', active, meta.born)
  BY <1>1, <1>3, RefreshAddressesIs
<1> HIDE DEF count, others
<1>5. /\ ClientOf(first, active)
      /\ client' # NoClient /\ client' \in Clients /\ client'.id = active
      /\ client'.child = client.child
  <2>1. ClientOf(first, active) /\ first # NoClient /\ first.child = client.child
    BY <1>1, AskedIs
  <2> HIDE DEF first
  <2>2. QED
    BY <1>3, <2>1, AskedIs DEF AsksFamilies
<1> HIDE DEF first
<1>6. /\ meta' = Healed(count, client'.kind)
      /\ disk' = IF meta' = meta THEN disk ELSE [disk EXCEPT ![active] = meta']
  BY <1>3 DEF SelfHeals
<1>7. /\ meta' \in Sidecars /\ meta'.born = meta.born /\ meta'.btc = meta.btc
      /\ meta'.count = count
  <2> DEFINE account == IF count # meta.count /\ meta.active >= count THEN 0
                        ELSE meta.active
  <2>1. account \in Nat /\ client'.kind \in WalletKinds
    BY <1>1, <1>5 DEF Sidecars, Clients
  <2>2. meta' = [meta EXCEPT !.count = count, !.kind = client'.kind, !.active = account]
    BY <1>6 DEF Healed
  <2> HIDE DEF account
  <2>3. QED
    BY <1>1, <1>2, <2>1, <2>2 DEF Sidecars
<1>8. DiskInv' /\ WritingInv'
  <2>1. CASE meta' = meta
    <3>1. UNCHANGED <<disk, meta>>
      BY <1>6, <2>1
    <3>2. Writing' \subseteq Writing
      BY DEF Writing, NoJob
    <3>3. WritingInv'
      BY <3>1, <3>2, NoneTaken DEF SessionInv, WritingInv, NoJob
    <3>4. QED
      BY <1>1, <3>1, <3>3, DiskKept DEF SessionInv
  <2>2. CASE meta' # meta
    BY <1>1, <1>6, <1>7, <2>2, StageWritten DEF SessionInv
  <2>3. QED
    BY <2>1, <2>2
<1>9. ClientInv' /\ ScreenInv'
  BY <1>1, <1>3, <1>5 DEF SessionInv, ClientInv, ScreenInv, NoJob, Modes
<1>10. BooksInv'
  <2>1. /\ famBook' \in [Families -> Seq(Addresses)]
        /\ \A f \in Families : LineOf(famBook'[f], active, FamilyPreset(meta, f))
    <3>1. /\ famBook \in [Families -> Seq(Addresses)]
          /\ \A f \in Families : LineOf(famBook[f], active, FamilyPreset(meta, f))
      BY <1>1 DEF SessionInv, BooksInv, Ours, LineOf
    <3>2. QED
      BY <1>1, <1>2, <1>3, <1>5, <3>1, FamilyBooksAre
  <2>2. \A f \in Families : FamilyPreset(meta', f) = FamilyPreset(meta, f)
    BY <1>7 DEF FamilyPreset
  <2>3. QED
    BY <1>1, <1>3, <1>4, <1>7, <2>1, <2>2 DEF BooksInv, Ours, LineOf
<1>11. BalancesInv'
  BY <1>1, <1>3, FetchKeeps DEF SessionInv
<1>12. QED
  BY <1>8, <1>9, <1>10, <1>11 DEF SessionInv

LEMMA PollJobKeeps ==
  ASSUME SessionInv, PollJob
  PROVE  SessionInv'
<1>1. /\ job # NoJob /\ job.at \in {"ok", "failed"} /\ job' = NoJob
      /\ UNCHANGED <<pending, lost>>
      /\ job.kind \in {"vault", "unlock", "backup"}
  BY DEF PollJob, SessionInv, WritingInv, NoJob, VaultJobs, ClientJobs
<1>2. CASE job.at = "failed"
  <2>1. UNCHANGED <<disk, active, meta, mode, pending, client, unlocked, book, famBook,
                    bal, balJob>>
    BY <1>1, <1>2 DEF PollJob, session, balances
  <2>2. Writing' \subseteq Writing
    BY <1>1 DEF Writing, NoJob
  <2>3. WritingInv'
    BY <1>1, <2>1, <2>2, NoneTaken DEF SessionInv, WritingInv, NoJob
  <2>4. ClientInv'
    BY <1>1, <2>1 DEF SessionInv, ClientInv, NoJob
  <2>5. QED
    BY <2>1, <2>3, <2>4, DiskKept, ScreenKept, BooksKept, BalancesKept DEF SessionInv
<1>3. CASE job.at = "ok" /\ job.kind = "vault"
  <2>1. SwitchActive(disk, job.id) /\ disk' = disk /\ job.id \in Ids
        /\ disk[job.id] # NoMeta
    BY <1>1, <1>3 DEF PollJob, VaultLands, SessionInv, WritingInv, NoJob, VaultJobs,
                      ClientJobs
  <2>2. DiskInv' /\ ClientInv' /\ ScreenInv' /\ BooksInv' /\ BalancesInv'
    BY <1>1, <2>1, SwitchKeeps DEF SessionInv, DiskInv, ScreenInv, NoJob
  <2>3. Writing' \subseteq Writing
    BY <1>1 DEF Writing, NoJob
  <2>4. WritingInv'
    BY <1>1, <2>1, <2>3, NoneTaken DEF SessionInv, WritingInv, NoJob
  <2>5. QED
    BY <2>2, <2>4 DEF SessionInv
<1>4. CASE job.at = "ok" /\ job.kind # "vault"
  <2>1. UnlockLands
    BY <1>4 DEF PollJob
  <2>2. QED
    BY <1>1, <1>4, <2>1, UnlockLandsKeeps
<1>5. QED
  BY <1>1, <1>2, <1>3, <1>4

-----------------------------------------------------------------------------
(* The account view *)

LEMMA SelectKeeps ==
  ASSUME SessionInv, NEW i \in 0..(MaxCount - 1), SelectPressed(i)
  PROVE  SessionInv'
<1>1. /\ UNCHANGED <<active, mode, pending, client, unlocked, book, famBook, job, lost,
                     bal, balJob>>
      /\ active # NoId /\ meta \in Sidecars
      /\ meta' = [meta EXCEPT !.active = i] /\ disk' = [disk EXCEPT ![active] = meta']
  BY DEF SelectPressed, WriteMeta, Hands, Idle, session, balances, SessionInv,
         ScreenInv, DiskInv
<1>2. i \in Nat
  BY SessionAssumption DEF SessionAssumption
<1>3. /\ meta' \in Sidecars /\ meta'.born = meta.born /\ meta'.btc = meta.btc
      /\ meta'.count = meta.count /\ meta'.kind = meta.kind
  BY <1>1, <1>2 DEF Sidecars
<1>4. DiskInv' /\ WritingInv'
  BY <1>1, <1>3, StageWritten DEF SessionInv
<1>5. BooksInv'
  BY <1>1, <1>3, BooksLook DEF SessionInv
<1>6. QED
  BY <1>1, <1>4, <1>5, ClientKept, ScreenKept, BalancesKept DEF SessionInv

\* The account added is the one after the last line: the book of an open child
\* is as long as the sidecar counts, and any other child tells nothing.
LEMMA AddKeeps ==
  ASSUME SessionInv, AddPressed
  PROVE  SessionInv'
<1>1. /\ UNCHANGED <<active, mode, pending, unlocked, job, lost>>
      /\ active # NoId /\ meta \in Sidecars /\ unlocked
      /\ mode = "Unlocked" /\ pending = "none"
      /\ client # NoClient /\ ClientOf(client, active)
      /\ disk' = [disk EXCEPT ![active] = meta']
      /\ meta' = [meta EXCEPT !.count = @ + 1]
      /\ client' = AsksFamilies(client, meta', OtherFamilies(meta'))
  BY DEF AddPressed, WriteMeta, Hands, Idle, SessionInv, ScreenInv, DiskInv, ClientInv,
         ClientOf
<1>2. /\ book' = Append(book, Told(client, meta.count, meta.born))
      /\ famBook' = FamilyBooks(client, meta', meta'.count, OtherFamilies(meta'))
      /\ FetchBalances(FALSE)
  BY DEF AddPressed
<1>3. meta.count \in Nat /\ meta.count + 1 \in Nat /\ meta.count + 1 # 0
      /\ meta.born \in DerivePresets
  BY <1>1 DEF Sidecars
<1>4. /\ meta' \in Sidecars /\ meta'.born = meta.born /\ meta'.btc = meta.btc
      /\ meta'.count = meta.count + 1 /\ meta'.kind = meta.kind
  BY <1>1, <1>3 DEF Sidecars
<1>5. DiskInv' /\ WritingInv'
  BY <1>1, <1>4, StageWritten DEF SessionInv
<1>6. BooksInv'
  <2> DEFINE told == Told(client, meta.count, meta.born)
  <2>1. /\ told \in Addresses
        /\ \/ told = Trouble
           \/ told = [id |-> active, account |-> meta.count, preset |-> meta.born]
        /\ client.child # "hd" => told = Trouble
    <3>1. meta.count # 0
      BY <1>1 DEF Sidecars
    <3>2. QED
      BY <1>1, <1>3, <3>1, ToldIs
  <2>2. /\ book \in Seq(Addresses) /\ LineOf(book, active, meta.born)
        /\ client.child = "hd" => Len(book) = meta.count
    BY <1>1 DEF SessionInv, BooksInv, Ours, LineOf
  <2> HIDE DEF told
  <2>3. /\ book' \in Seq(Addresses) /\ Len(book') = Len(book) + 1
        /\ book'[Len(book) + 1] = told
        /\ \A i \in 1..Len(book) : book'[i] = book[i]
        /\ DOMAIN book' = 1..(Len(book) + 1) /\ DOMAIN book = 1..Len(book)
        /\ Len(book) \in Nat
    BY <1>2, <2>1, <2>2, AppendProperties DEF told
  <2>4. LineOf(book', active, meta.born)
    <3>1. \A i \in DOMAIN book' : i \in DOMAIN book \/ i = Len(book) + 1
      BY <2>3
    <3>2. ASSUME client.child = "hd"
          PROVE  Len(book) + 1 - 1 = meta.count
      BY <1>3, <2>2, <2>3, <3>2
    <3>3. book'[Len(book) + 1] = Trouble \/
          book'[Len(book) + 1] = [id |-> active, account |-> Len(book) + 1 - 1,
                                  preset |-> meta.born]
      BY <2>1, <2>3, <3>2
    <3>4. QED
      BY <2>2, <2>3, <3>1, <3>3 DEF LineOf
  <2>5. client'.child = "hd" => Len(book') = meta'.count
    BY <1>1, <1>4, <2>2, <2>3, AskedIs DEF AsksFamilies
  <2>6. \A f \in Families : FamilyPreset(meta', f) = FamilyPreset(meta, f)
    BY <1>4 DEF FamilyPreset
  <2>7. /\ famBook' \in [Families -> Seq(Addresses)]
        /\ \A f \in Families : LineOf(famBook'[f], active, FamilyPreset(meta', f))
    <3>1. /\ famBook \in [Families -> Seq(Addresses)]
          /\ \A f \in Families : LineOf(famBook[f], active, FamilyPreset(meta', f))
      BY <1>1, <2>6 DEF SessionInv, BooksInv, Ours, LineOf
    <3>2. meta'.count \in Nat
      BY <1>3, <1>4
    <3>3. PICK m \in Sidecars : m = meta'
      BY <1>4
    <3>4. /\ FamilyBooks(client, m, m.count, OtherFamilies(m)) \in [Families -> Seq(Addresses)]
          /\ \A f \in Families :
               LineOf(FamilyBooks(client, m, m.count, OtherFamilies(m))[f], active,
                      FamilyPreset(m, f))
      BY <1>1, <3>1, <3>2, <3>3, FamilyBooksAre
    <3>5. QED
      BY <1>2, <3>3, <3>4
  <2>8. QED
    BY <1>1, <1>4, <2>3, <2>4, <2>5, <2>7 DEF BooksInv, Ours, LineOf
<1>7. BalancesInv'
  BY <1>1, <1>2, FetchKeeps DEF SessionInv
<1>8. ClientInv'
  BY <1>1, ClientAsked DEF SessionInv, AsksFamilies
<1>9. QED
  BY <1>1, <1>5, <1>6, <1>7, <1>8, ScreenKept DEF SessionInv

\* The costume changes on Bitcoin, and the books of Bitcoin are fetched anew.
LEMMA BtcFormatKeeps ==
  ASSUME SessionInv, NEW preset \in Formats, BtcFormat(preset)
  PROVE  SessionInv'
<1>1. /\ UNCHANGED <<active, mode, pending, unlocked, job, lost, bal, balJob>>
      /\ active # NoId /\ meta \in Sidecars /\ unlocked
      /\ ClientOf(client, active) /\ client' = AsksFamilies(client, meta', {"btc"})
      /\ disk' = [disk EXCEPT ![active] = meta']
      /\ meta' = IF BornFamily(meta) = "btc" THEN [meta EXCEPT !.born = preset]
                 ELSE [meta EXCEPT !.btc = preset]
  BY DEF BtcFormat, WriteMeta, Idle, SessionInv, ScreenInv, DiskInv, ClientInv,
         ClientOf
<1>2. /\ famBook' = FamilyBooks(client, meta', meta'.count, {"btc"})
      /\ IF BornFamily(meta) = "btc" THEN book' = RefreshAddresses(client, meta')
         ELSE book' = book
  BY DEF BtcFormat
<1>3. preset \in BtcPresets
  BY SessionAssumption DEF SessionAssumption
<1>4. /\ meta' \in Sidecars
      /\ \A f \in Families \ {"btc"} : FamilyPreset(meta', f) = FamilyPreset(meta, f)
  <2>1. CASE BornFamily(meta) = "btc"
    BY <1>1, <1>3, <2>1, CostumeIsBitcoins
  <2>2. CASE BornFamily(meta) # "btc"
    BY <1>1, <1>3, <2>2, CostumeIsBitcoins
  <2>3. QED
    BY <2>1, <2>2
<1>5. /\ meta'.count = meta.count /\ meta'.kind = meta.kind
      /\ BornFamily(meta) # "btc" => meta'.born = meta.born
  BY <1>1 DEF Sidecars
<1>6. DiskInv' /\ WritingInv'
  BY <1>1, <1>4, StageWritten DEF SessionInv
<1>7. PICK m \in Sidecars : m = meta'
  BY <1>4
<1>8. BooksInv'
  <2>1. /\ book \in Seq(Addresses) /\ famBook \in [Families -> Seq(Addresses)]
        /\ LineOf(book, active, meta.born)
        /\ \A f \in Families : LineOf(famBook[f], active, FamilyPreset(meta, f))
    BY <1>1 DEF SessionInv, BooksInv, Ours, LineOf
  <2>2. /\ FamilyBooks(client, m, m.count, {"btc"}) \in [Families -> Seq(Addresses)]
        /\ \A f \in Families :
             LineOf(FamilyBooks(client, m, m.count, {"btc"})[f], active, FamilyPreset(m, f))
    <3>1. m.count \in Nat
      BY DEF Sidecars
    <3>2. \A f \in Families \ {"btc"} : LineOf(famBook[f], active, FamilyPreset(m, f))
      BY <1>4, <1>7, <2>1
    <3>3. ClientOf(client, active) /\ famBook \in [Families -> Seq(Addresses)]
      BY <1>1, <2>1
    <3>4. QED
      BY <3>1, <3>2, <3>3, FamilyBooksAre
  <2>3. /\ book' \in Seq(Addresses) /\ LineOf(book', active, meta'.born)
        /\ mode = "Unlocked" /\ pending = "none" /\ client.child = "hd" =>
             Len(book') = meta'.count
    <3>1. CASE BornFamily(meta) = "btc"
      <4>1. /\ RefreshAddresses(client, m) \in Seq(Addresses)
            /\ Len(RefreshAddresses(client, m)) = Found(client, m)
            /\ LineOf(RefreshAddresses(client, m), active, m.born)
        BY <1>1, RefreshAddressesIs
      <4>2. client.child = "hd" => client # NoClient
        BY DEF NoClient
      <4>3. client.child = "hd" => Found(client, m) = m.count
        BY <1>1, <1>5, <1>7, <4>2, FoundIsACount
      <4>4. QED
        BY <1>2, <1>7, <3>1, <4>1, <4>3
    <3>2. CASE BornFamily(meta) # "btc"
      BY <1>1, <1>2, <1>5, <2>1, <3>2 DEF SessionInv, BooksInv
    <3>3. QED
      BY <3>1, <3>2
  <2>4. /\ famBook' \in [Families -> Seq(Addresses)]
        /\ \A f \in Families : LineOf(famBook'[f], active, FamilyPreset(meta', f))
    BY <1>2, <1>7, <2>2
  <2>5. active' # NoId /\ unlocked'
    BY <1>1
  <2>6. Ours(book, meta.born)'
    BY <1>1, <2>3 DEF Ours, LineOf
  <2>7. \A f \in Families : Ours(famBook[f], FamilyPreset(meta, f))'
    BY <1>1, <2>4 DEF Ours, LineOf
  <2>8. pending' = "none" /\ mode' = "Unlocked" /\ client'.child = "hd" =>
          Len(book') = meta'.count
    BY <1>1, <2>3, AskedIs DEF AsksFamilies
  <2>9. QED
    BY <2>3, <2>4, <2>5, <2>6, <2>7, <2>8 DEF BooksInv
<1>9. ClientInv'
  BY <1>1, ClientAsked DEF SessionInv, AsksFamilies
<1>10. QED
  BY <1>1, <1>6, <1>8, <1>9, ScreenKept, BalancesKept DEF SessionInv

LEMMA RefreshPressedKeeps ==
  ASSUME SessionInv, RefreshPressed
  PROVE  SessionInv'
<1>1. /\ UNCHANGED <<disk, active, meta, mode, pending, client, unlocked, book, famBook,
                     job, lost>>
      /\ FetchBalances(FALSE)
  BY DEF RefreshPressed, session
<1>2. BalancesInv'
  BY <1>1, FetchKeeps DEF SessionInv
<1>3. QED
  BY <1>1, <1>2, DiskKept, WritingKept, ClientKept, ScreenKept, BooksKept DEF SessionInv

\* A session that says it is locked has no books.
LEMMA LockKeeps ==
  ASSUME SessionInv, LockPressed
  PROVE  SessionInv'
<1>1. /\ UNCHANGED <<disk, active, meta, mode, job, lost, bal, balJob>>
      /\ job = NoJob /\ pending = "none" /\ client # NoClient
  BY DEF LockPressed, Hands, Idle, Busy, balances
<1>2. CASE client.child = "dead"
  <2>1. UNCHANGED <<client, unlocked, book, famBook, pending>>
    BY <1>2 DEF LockPressed
  <2>2. QED
    BY <1>1, <2>1, DiskKept, WritingKept, ClientKept, ScreenKept, BooksKept,
       BalancesKept DEF SessionInv
<1>3. CASE client.child # "dead"
  <2>1. /\ client' = [client EXCEPT !.child = "locked"] /\ unlocked' = FALSE
        /\ book' = <<>> /\ famBook' = NoBooks /\ pending' = "Locked"
    BY <1>3 DEF LockPressed, MarkUnlocked
  <2>2. client' \in Clients /\ client'.id = active
    BY <1>1, <2>1 DEF SessionInv, ClientInv, Clients
  <2>3. ClientInv' /\ ScreenInv'
    BY <1>1, <2>1, <2>2 DEF SessionInv, ClientInv, ScreenInv, NoJob
  <2>4. BooksInv'
    BY <1>1, <2>1, EmptyLine DEF BooksInv, NoBooks, Ours
  <2>5. QED
    BY <1>1, <2>3, <2>4, DiskKept, WritingKept, BalancesKept DEF SessionInv
<1>4. QED
  BY <1>2, <1>3

-----------------------------------------------------------------------------
(* The child, the payments and the balances *)

LEMMA ChildKeeps ==
  ASSUME SessionInv, ChildChanges
  PROVE  SessionInv'
<1>1. /\ UNCHANGED <<disk, active, meta, mode, pending, unlocked, book, famBook, job,
                     lost, bal, balJob>>
      /\ client # NoClient /\ client \in Clients
      /\ client.id = active
  BY DEF ChildChanges, stage, balances, SessionInv, ClientInv
<1>2. /\ client' \in Clients /\ client'.id = active
      /\ client'.child # "hd"
  BY <1>1 DEF ChildChanges, Clients
<1>3. ClientInv'
  BY <1>1, <1>2, MetasDiffer DEF SessionInv, ClientInv
<1>4. BooksInv'
  BY <1>1, <1>2 DEF SessionInv, BooksInv, Ours
<1>5. QED
  BY <1>1, <1>3, <1>4, DiskKept, WritingKept, ScreenKept, BalancesKept DEF SessionInv

LEMMA PaymentKeeps ==
  ASSUME SessionInv, PaymentBegins \/ PaymentEnds \/ UNCHANGED vars
  PROVE  SessionInv'
<1>1. UNCHANGED <<disk, active, meta, mode, pending, unlocked, book, famBook, job,
                  lost, bal, balJob>>
  BY DEF PaymentBegins, PaymentEnds, vars, stage, session, balances
<1>2. client'.child = client.child /\ ClientInv'
  <2>1. CASE client' = client
    BY <1>1, <2>1, ClientKept DEF SessionInv
  <2>2. CASE client' # client
    <3>1. PICK f : client' = AsksFamilies(client, meta, {f})
      BY <2>2 DEF PaymentBegins, PaymentEnds, vars, session
    <3>2. ClientOf(client, active)
      BY DEF SessionInv, ClientInv, ClientOf
    <3>3. QED
      BY <1>1, <3>1, <3>2, AskedIs, ClientAsked DEF SessionInv, AsksFamilies
  <2>3. QED
    BY <2>1, <2>2
<1>3. QED
  BY <1>1, <1>2, DiskKept, WritingKept, ScreenKept, BooksKept, BalancesKept
     DEF SessionInv

\* Balances that land are of the wallet their worker took off for.
LEMMA BalancesKeep ==
  ASSUME SessionInv, BalanceArrives \/ BalanceLands \/ BalancesSettle
  PROVE  SessionInv'
<1>1. UNCHANGED <<disk, active, meta, mode, pending, client, unlocked, book, famBook,
                  job, lost>>
  BY DEF BalanceArrives, BalanceLands, BalancesSettle, stage, session
<1>2. CASE BalanceArrives
  <2>1. balJob # NoBal
    BY <1>2 DEF BalanceArrives, NoBal
  <2>2. DOMAIN balJob' = DOMAIN balJob /\ balJob'.of = balJob.of /\ bal' = bal
    BY <1>2, <2>1 DEF BalanceArrives, SessionInv, BalancesInv
  <2>3. BalancesInv'
    BY <1>1, <2>1, <2>2 DEF SessionInv, BalancesInv
  <2>4. QED
    BY <1>1, <2>3, DiskKept, WritingKept, ClientKept, ScreenKept, BooksKept DEF SessionInv
<1>3. CASE BalanceLands
  <2>1. balJob # NoBal /\ balJob' = NoBal /\ bal' \subseteq bal \cup {balJob.of}
    BY <1>3 DEF BalanceLands, NoBal
  <2>2. BalancesInv'
    BY <1>1, <2>1 DEF SessionInv, BalancesInv
  <2>3. QED
    BY <1>1, <2>2, DiskKept, WritingKept, ClientKept, ScreenKept, BooksKept DEF SessionInv
<1>4. CASE BalancesSettle
  <2>1. BalancesInv'
    BY <1>1, <1>4, FetchKeeps DEF SessionInv, BalancesSettle
  <2>2. QED
    BY <1>1, <2>1, DiskKept, WritingKept, ClientKept, ScreenKept, BooksKept DEF SessionInv
<1>5. QED
  BY <1>2, <1>3, <1>4

-----------------------------------------------------------------------------
(* The theorems *)

LEMMA SessionInit ==
  ASSUME Init
  PROVE  SessionInv
<1>1. disk \in [Ids -> Sidecars \cup {NoMeta}]
  BY SessionAssumption DEF Init, SessionAssumption
<1>2. active \in Ids /\ active # NoId /\ disk[active] # NoMeta /\ meta = disk[active]
      /\ meta \in Sidecars
  BY <1>1, MetasDiffer DEF Init, Store
<1>3. DiskInv
  BY <1>1, <1>2 DEF DiskInv, Bare
<1>4. WritingInv
  BY DEF Init, WritingInv, Writing, NoJob
<1>5. ClientInv /\ ScreenInv
  BY <1>2 DEF Init, ClientInv, ScreenInv, Modes, NoJob
<1>6. BooksInv
  BY EmptyLine DEF Init, BooksInv, NoBooks, Ours
<1>7. BalancesInv
  BY DEF Init, BalancesInv, NoBal
<1>8. QED
  BY <1>3, <1>4, <1>5, <1>6, <1>7 DEF SessionInv

LEMMA SessionStep ==
  ASSUME SessionInv, [Next]_vars
  PROVE  SessionInv'
<1>1. ASSUME Human
      PROVE  SessionInv'
  <2>1. CASE \E i \in Ids :
               \/ Activate(i) \/ PinPressed(i) \/ RenamePressed(i) \/ DeletePressed(i)
               \/ \E m \in NewMetas : ImportWatch(i, m) \/ StartVault(i, m)
    BY <2>1, ActivateKeeps, PinKeeps, RenameKeeps, DeleteKeeps, ImportWatchKeeps,
       StartVaultKeeps
  <2>2. CASE \E good \in BOOLEAN : StartUnlock(good) \/ StartBackup(good)
    BY <2>2, StartUnlockKeeps, StartBackupKeeps
  <2>3. CASE \/ \E i \in 0..(MaxCount - 1) : SelectPressed(i)
             \/ \E preset \in Formats : BtcFormat(preset)
    BY <2>3, SelectKeeps, BtcFormatKeeps
  <2>4. CASE \/ ImportPressed \/ ImportBack \/ AddPressed \/ RefreshPressed
             \/ LockPressed \/ PaymentBegins
    BY <2>4, ScreenKeeps, AddKeeps, RefreshPressedKeeps, LockKeeps, PaymentKeeps
  <2>5. QED
    BY <1>1, <2>1, <2>2, <2>3, <2>4 DEF Human
<1>2. ASSUME Frame
      PROVE  SessionInv'
  BY <1>2, PollJobKeeps, ScreenKeeps, BalancesKeep DEF Frame
<1>3. ASSUME Thread
      PROVE  SessionInv'
  BY <1>3, VaultWrittenKeeps, UnlockEndsKeeps, BackupEndsKeeps, BalancesKeep,
     PaymentKeeps, LostWrittenKeeps DEF Thread
<1>4. QED
  BY <1>1, <1>2, <1>3, ChildKeeps, PaymentKeeps DEF Next

\* The screens, the client, the books, the balances and the sidecars agree.
THEOREM SessionHolds == Spec => []SessionInv
<1>1. Init => SessionInv
  BY SessionInit
<1>2. SessionInv /\ [Next]_vars => SessionInv'
  BY SessionStep
<1>3. QED
  BY <1>1, <1>2, PTL DEF Spec

\* An address on the screen is of the wallet on stage, of its account and in
\* its costume, and a locked session shows none.
THEOREM TheBooksAreOfTheStage == Spec => []BooksAreOurs
<1>1. SessionInv => BooksAreOurs
  <2> SUFFICES ASSUME SessionInv
               PROVE  BooksAreOurs
    OBVIOUS
  <2>1. CASE active = NoId
    BY <2>1 DEF SessionInv, BooksInv, BooksAreOurs, NoBooks, Ours
  <2>2. CASE active # NoId
    BY <2>2 DEF SessionInv, BooksInv, BooksAreOurs
  <2>3. QED
    BY <2>1, <2>2
<1>2. QED
  BY <1>1, SessionHolds, PTL

\* Balances of one wallet are never shown under another.
THEOREM TheBalancesAreOfTheStage == Spec => []BalancesAreOurs
<1>1. SessionInv => BalancesAreOurs
  BY DEF SessionInv, BalancesInv, BalancesAreOurs
<1>2. QED
  BY <1>1, SessionHolds, PTL

\* An unlock or a backup lands on the wallet it was started for, over its child.
THEOREM JobsLandWhereStarted == Spec => []LandsWhereStarted
<1>1. SessionInv => LandsWhereStarted
  BY DEF SessionInv, ClientInv, LandsWhereStarted
<1>2. QED
  BY <1>1, SessionHolds, PTL

\* The sidecar on disk is what the page has in mind, but for the pin.
THEOREM TheDiskIsInMind == Spec => []SidecarIsCurrent
<1>1. SessionInv => SidecarIsCurrent
  BY DEF SessionInv, DiskInv, Bare, SidecarIsCurrent
<1>2. QED
  BY <1>1, SessionHolds, PTL

=============================================================================
