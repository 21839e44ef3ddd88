----------------------------- MODULE VaultFile -----------------------------
(***************************************************************************)
(* One wallet's vault on disk (src/core/secure/vault.cpp): save,           *)
(* change_password and shred, step by step between the calls that change   *)
(* the file system, and the deletion of the wallet (WalletStore).          *)
(*                                                                         *)
(* The process may die between any two steps, every call that touches a    *)
(* file may fail (the trust plane may be reading it), and the machine may  *)
(* lose power, which costs the data no one has forced to the medium.  What *)
(* changes names or lengths reaches the medium at once and in order, as in *)
(* a journaling file system; what changes bytes stays in the cache until   *)
(* the system writes it back.                                              *)
(*                                                                         *)
(* What a file holds is the passphrase that opens it: the keys inside are  *)
(* the same in every generation.  Encryption, the header and the key       *)
(* derivation are left out.                                                *)
(***************************************************************************)
EXTENDS Naturals

CONSTANTS
  Passes,      \* passphrases
  None, Torn,  \* no such file; bytes that no passphrase opens
  MaxCalls     \* bound: calls of save and change_password

ASSUME VaultAssumption ==
  /\ None # Torn /\ {None, Torn} \cap Passes = {}
  /\ MaxCalls \in Nat

VARIABLES
  file,     \* what each of the three files holds
  disk,     \* what each would hold if the machine stopped now
  call,     \* the call in progress and its next step
  calls,    \* calls of save and change_password so far
  saved,    \* history: some save has returned
  current,  \* history: the passphrase of the last save or change that returned
  fresh,    \* history: that call was a change_password
  deleted,  \* delete_wallet was called ("asked"), and has returned ("yes")
  outage,   \* history: the power was lost
  clean     \* history: no call failed, died, or overwrote a vault with save

vars == <<file, disk, call, calls, saved, current, fresh, deleted, outage, clean>>

Files    == {"dst", "tmp", "bak"}
Contents == Passes \cup {None, Torn}
Steps    == {"open", "write", "drop", "rotate", "replace", "noise", "unlink"}
Idle     == [op |-> "none", pass |-> None, at |-> "none"]

Exists(f) == file[f] # None

Init ==
  /\ file = [f \in Files |-> None] /\ disk = file
  /\ call = Idle /\ calls = 0
  /\ saved = FALSE /\ current = None /\ fresh = FALSE
  /\ deleted = "no" /\ outage = FALSE /\ clean = TRUE

-----------------------------------------------------------------------------

\* The next step of the call.
GoTo(step) == call' = [call EXCEPT !.at = step]

At(step) == call.at = step

\* A file is renamed over another: its data, cached or not, moves with it.
Moved(files, from, to) == [files EXCEPT ![to] = files[from], ![from] = None]

Rename(from, to) == file' = Moved(file, from, to) /\ disk' = Moved(disk, from, to)

\* A file is cut to nothing (Torn) or unlinked (None).
Cut(f, what) == file' = [file EXCEPT ![f] = what] /\ disk' = [disk EXCEPT ![f] = what]

\* Bytes are written and flushed: to the system, not to the medium.
Write(f, content) == file' = [file EXCEPT ![f] = content] /\ UNCHANGED disk

\* The call returns, and with it the passphrase it has set.
Returns ==
  /\ call' = Idle
  /\ saved' = TRUE /\ current' = call.pass /\ fresh' = (call.op = "change")
  /\ UNCHANGED <<calls, deleted, clean, outage>>

\* Mutant: a deletion whose shred threw counts as done.
ThrowsDone ==
  /\ call.at \in Steps
  /\ call' = Idle /\ clean' = FALSE
  /\ deleted' = IF call.op = "delete" THEN "yes" ELSE deleted
  /\ UNCHANGED <<file, disk, calls, saved, current, fresh, outage>>

\* The call throws where it is: what it did so far stays done.
Throws ==
  /\ call.at \in Steps
  /\ call' = Idle /\ clean' = FALSE
  /\ UNCHANGED <<file, disk, calls, saved, current, fresh, deleted, outage>>

Save(p) ==
  /\ call = Idle /\ deleted = "no" /\ calls < MaxCalls
  /\ call' = [op |-> "save", pass |-> p, at |-> "open"]
  /\ calls' = calls + 1 /\ fresh' = FALSE
  /\ clean' = (clean /\ ~Exists("dst"))
  /\ UNCHANGED <<file, disk, saved, current, deleted, outage>>

\* change_password: the vault is opened with the old passphrase first; a wrong
\* one ends the call there.
Change(old, new) ==
  /\ call = Idle /\ deleted = "no" /\ calls < MaxCalls
  /\ file["dst"] = old /\ old # new
  /\ call' = [op |-> "change", pass |-> new, at |-> "open"]
  /\ calls' = calls + 1 /\ fresh' = FALSE
  /\ UNCHANGED <<file, disk, saved, current, deleted, clean, outage>>

\* path.tmp is opened, truncated, then written and flushed to the system.
OpenTmp ==
  /\ At("open") /\ GoTo("write")
  /\ Cut("tmp", Torn)
  /\ UNCHANGED <<calls, saved, current, fresh, deleted, clean, outage>>

WriteTmp ==
  /\ At("write") /\ GoTo(IF Exists("dst") THEN "drop" ELSE "replace")
  /\ Write("tmp", call.pass)
  /\ UNCHANGED <<calls, saved, current, fresh, deleted, clean, outage>>

\* The rotation: an old .bak is removed, the vault takes its place.  Both may
\* fail, and the call goes on.
DropBak ==
  /\ At("drop") /\ GoTo("rotate")
  /\ \/ Cut("bak", None)
     \/ UNCHANGED <<file, disk>>
  /\ UNCHANGED <<calls, saved, current, fresh, deleted, clean, outage>>

\* Mutant: the rotation copies nothing, it just removes the old vault.
RotateAway ==
  /\ At("rotate") /\ GoTo("replace")
  /\ Cut("dst", None)
  /\ UNCHANGED <<calls, saved, current, fresh, deleted, clean, outage>>

Rotate ==
  /\ At("rotate") /\ GoTo("replace")
  /\ \/ Rename("dst", "bak") /\ UNCHANGED clean
     \/ UNCHANGED <<file, disk>> /\ clean' = FALSE
  /\ UNCHANGED <<calls, saved, current, fresh, deleted, outage>>

\* Mutant: change_password forgets the rotated copy.
ReplaceOnly ==
  /\ At("replace")
  /\ Rename("tmp", "dst")
  /\ Returns

\* The new vault takes its name; a change still has to shred the old copy.
Replace ==
  /\ At("replace")
  /\ Rename("tmp", "dst")
  /\ IF call.op = "change" /\ Exists("bak")
       THEN /\ GoTo("noise")
            /\ UNCHANGED <<calls, saved, current, fresh, deleted, clean, outage>>
       ELSE Returns

\* Mutant: change_password shreds the vault, not its .bak.
VictimDst == "dst"

\* shred: overwritten, then deleted.
Victim == IF call.op = "delete" THEN "dst" ELSE "bak"

Overwrite ==
  /\ At("noise") /\ GoTo("unlink")
  /\ Write(Victim, Torn)
  /\ UNCHANGED <<calls, saved, current, fresh, deleted, clean, outage>>

\* delete_wallet then removes the sidecar and the audit ledger, whatever fails.
Unlink ==
  /\ At("unlink")
  /\ Cut(Victim, None)
  /\ IF call.op = "delete"
       THEN /\ call' = Idle /\ deleted' = "yes"
            /\ UNCHANGED <<calls, saved, current, fresh, clean, outage>>
       ELSE Returns

\* A wallet whose vault is not there has nothing to shred.
Delete ==
  /\ call = Idle /\ deleted # "yes" /\ saved
  /\ IF Exists("dst")
       THEN call' = [op |-> "delete", pass |-> None, at |-> "noise"] /\ deleted' = "asked"
       ELSE deleted' = "yes" /\ UNCHANGED call
  /\ UNCHANGED <<file, disk, calls, saved, current, fresh, clean, outage>>

\* The system writes the cached data of a file out, in its own time.
WriteBack(f) ==
  /\ disk[f] # file[f]
  /\ disk' = [disk EXCEPT ![f] = file[f]]
  /\ UNCHANGED <<file, call, calls, saved, current, fresh, deleted, outage, clean>>

\* The process dies.
Crash ==
  /\ call # Idle
  /\ call' = Idle /\ clean' = FALSE
  /\ UNCHANGED <<file, disk, calls, saved, current, fresh, deleted, outage>>

\* The machine does, and what was only cached is gone.
PowerLoss ==
  /\ file' = disk /\ call' = Idle /\ outage' = TRUE /\ clean' = FALSE
  /\ UNCHANGED <<disk, calls, saved, current, fresh, deleted>>

Next ==
  \/ \E p \in Passes : Save(p)
  \/ \E old, new \in Passes : Change(old, new)
  \/ Delete
  \/ OpenTmp \/ WriteTmp \/ DropBak \/ Rotate \/ Replace \/ Overwrite \/ Unlink
  \/ Throws \/ Crash \/ PowerLoss
  \/ \E f \in Files : WriteBack(f)

Spec == Init /\ [][Next]_vars

-----------------------------------------------------------------------------
(* Properties *)

FilesOK == file \in [Files -> Contents] /\ disk \in [Files -> Contents]

CallOK ==
  /\ call \in [op : {"none", "save", "change", "delete"}, pass : Passes \cup {None},
               at : Steps \cup {"none"}]
  /\ calls \in 0 .. MaxCalls

HistoryOK ==
  /\ saved \in BOOLEAN /\ fresh \in BOOLEAN /\ outage \in BOOLEAN /\ clean \in BOOLEAN
  /\ current \in Passes \cup {None} /\ deleted \in {"no", "asked", "yes"}

TypeOK == FilesOK /\ CallOK /\ HistoryOK

\* The files a passphrase opens.
Opening == {f \in Files : file[f] \in Passes}

\* Once a wallet was saved, at every step of every later save and change, and
\* whatever failed before but the power, the vault or its .bak still opens.
NeverLost == (saved /\ deleted = "no" /\ ~outage) => {"dst", "bak"} \cap Opening # {}

\* After change_password has returned no file opens with another passphrase,
\* whatever earlier calls left behind.
OldPassDead ==
  (fresh /\ call = Idle /\ deleted = "no") => \A f \in Opening : file[f] = current

\* A deleted wallet leaves nothing that opens, however often the deletion was
\* cut short, if every call went through or a change_password came last.
DeletedIsGone == (deleted = "yes" /\ (clean \/ fresh)) => Opening = {}

\* A wallet that is not deleted opens with the passphrase the user was last
\* told about, as long as no call failed on the way.
OpensWithCurrent ==
  (saved /\ clean /\ deleted = "no" /\ call = Idle) => file["dst"] = current

=============================================================================
