---------------------------- MODULE VaultProofs ----------------------------
(* Theorems about VaultFile, for every set of passphrases and any number   *)
(* of calls.                                                               *)
(*                                                                         *)
(* None of the four properties is inductive.  VaultInv adds what each step *)
(* of a call finds: what the temporary file holds on disk and in the cache *)
(* before it takes the vault's name, and which of the files there may be.  *)
EXTENDS VaultFile, TLAPS

-----------------------------------------------------------------------------
(* The inductive invariant *)

\* A call is at a step of its own kind.
CallInv ==
  /\ At("none") => call = Idle
  /\ ~At("none") => call.op # "none"
  /\ call.op \in {"save", "change"} => call.pass \in Passes /\ deleted = "no"
  /\ call.op = "delete" => deleted = "asked"
  /\ call.op = "save" => call.at \in {"open", "write", "drop", "rotate", "replace"}
  /\ call.op = "delete" => call.at \in {"noise", "unlink"}
  /\ deleted = "yes" => call = Idle /\ ~Exists("dst")

\* A name is on the medium as soon as it is in the directory.
NamesInv == \A f \in Files : disk[f] = None <=> file[f] = None

\* What has been written where, at each step of a save or a change.
WrittenInv ==
  /\ At("write") => file["tmp"] = Torn /\ disk["tmp"] = Torn
  /\ call.at \in {"drop", "rotate", "replace"} =>
       file["tmp"] = call.pass /\ disk["tmp"] \in {call.pass, Torn}
  /\ call.at \in {"drop", "rotate"} => Exists("dst")
  /\ At("noise") => Exists(Victim)
  /\ call.op = "change" /\ call.at \in {"noise", "unlink"} =>
       /\ ~Exists("tmp")
       /\ file["dst"] = call.pass /\ disk["dst"] \in {call.pass, Torn}

\* Without a power loss the vault is whole or not there, and then its copy is.
KeptInv ==
  ~outage /\ deleted = "no" =>
    /\ file["dst"] # Torn
    /\ saved => {"dst", "bak"} \cap Opening # {}

\* After a change only the vault is left, and it opens with the new passphrase
\* or, after a power loss, not at all.
FreshInv ==
  fresh =>
    /\ call.op \in {"none", "delete"}
    /\ ~Exists("tmp") /\ ~Exists("bak")
    /\ {file["dst"], disk["dst"]} \subseteq {current, Torn, None}

\* Where every call went through, no file outlives the call that made it.
CleanInv ==
  clean =>
    /\ ~outage
    /\ Exists("tmp") => call.at \in {"write", "drop", "rotate", "replace"}
    /\ Exists("bak") => call.op = "change" /\ call.at \in {"replace", "noise", "unlink"}
    /\ call.op = "save" => ~Exists("dst")
    /\ saved /\ deleted = "no" /\ At("none") => file["dst"] = current

VaultInv == CallInv /\ NamesInv /\ WrittenInv /\ KeptInv /\ FreshInv /\ CleanInv

-----------------------------------------------------------------------------
(* Type correctness *)

LEMMA InitType == Init => TypeOK
<1> SUFFICES ASSUME Init PROVE TypeOK
  OBVIOUS
<1>1. FilesOK
  BY VaultAssumption DEF VaultAssumption, Init, FilesOK, Files, Contents
<1>2. CallOK
  BY VaultAssumption DEF VaultAssumption, Init, CallOK, Idle
<1>3. HistoryOK
  BY DEF Init, HistoryOK
<1>4. QED
  BY <1>1, <1>2, <1>3 DEF TypeOK

LEMMA StepType == TypeOK /\ [Next]_vars => TypeOK'
<1> SUFFICES ASSUME TypeOK, [Next]_vars PROVE TypeOK'
  OBVIOUS
<1>1. ASSUME NEW p \in Passes, Save(p) PROVE TypeOK'
  <2>1. FilesOK'
    BY <1>1, VaultAssumption DEF VaultAssumption, Save, TypeOK, FilesOK, CallOK, Files,
           Contents
  <2>2. CallOK'
    BY <1>1, VaultAssumption DEF VaultAssumption, Save, TypeOK, CallOK, Steps, Idle
  <2>3. HistoryOK'
    BY <1>1 DEF Save, TypeOK, HistoryOK, CallOK
  <2>4. QED
    BY <2>1, <2>2, <2>3 DEF TypeOK
<1>2. ASSUME NEW old \in Passes, NEW new \in Passes, Change(old, new) PROVE TypeOK'
  <2>1. FilesOK'
    BY <1>2, VaultAssumption DEF VaultAssumption, Change, TypeOK, FilesOK, CallOK, Files,
           Contents
  <2>2. CallOK'
    BY <1>2, VaultAssumption DEF VaultAssumption, Change, TypeOK, CallOK, Steps, Idle
  <2>3. HistoryOK'
    BY <1>2 DEF Change, TypeOK, HistoryOK, CallOK
  <2>4. QED
    BY <2>1, <2>2, <2>3 DEF TypeOK
<1>3. CASE Delete
  <2>1. FilesOK'
    BY <1>3, VaultAssumption DEF VaultAssumption, Delete, TypeOK, FilesOK, CallOK, Files,
           Contents
  <2>2. CallOK'
    BY <1>3, VaultAssumption DEF VaultAssumption, Delete, TypeOK, CallOK, Steps, Idle
  <2>3. HistoryOK'
    BY <1>3 DEF Delete, TypeOK, HistoryOK, CallOK
  <2>4. QED
    BY <2>1, <2>2, <2>3 DEF TypeOK
<1>4. CASE OpenTmp
  <2>1. FilesOK'
    BY <1>4, VaultAssumption DEF VaultAssumption, OpenTmp, GoTo, Cut, TypeOK, FilesOK,
           CallOK, Files, Contents
  <2>2. CallOK'
    BY <1>4, VaultAssumption DEF VaultAssumption, OpenTmp, GoTo, Cut, TypeOK, CallOK,
           Steps, Idle
  <2>3. HistoryOK'
    BY <1>4 DEF OpenTmp, GoTo, Cut, TypeOK, HistoryOK, CallOK
  <2>4. QED
    BY <2>1, <2>2, <2>3 DEF TypeOK
<1>5. CASE WriteTmp
  <2>1. FilesOK'
    BY <1>5, VaultAssumption DEF VaultAssumption, WriteTmp, GoTo, Write, TypeOK, FilesOK,
           CallOK, Files, Contents
  <2>2. CallOK'
    BY <1>5, VaultAssumption DEF VaultAssumption, WriteTmp, GoTo, Write, TypeOK, CallOK,
           Steps, Idle
  <2>3. HistoryOK'
    BY <1>5 DEF WriteTmp, GoTo, Write, TypeOK, HistoryOK, CallOK
  <2>4. QED
    BY <2>1, <2>2, <2>3 DEF TypeOK
<1>6. CASE DropBak
  <2>1. FilesOK'
    BY <1>6, VaultAssumption DEF VaultAssumption, DropBak, GoTo, Cut, TypeOK, FilesOK,
           CallOK, Files, Contents
  <2>2. CallOK'
    BY <1>6, VaultAssumption DEF VaultAssumption, DropBak, GoTo, Cut, TypeOK, CallOK,
           Steps, Idle
  <2>3. HistoryOK'
    BY <1>6 DEF DropBak, GoTo, Cut, TypeOK, HistoryOK, CallOK
  <2>4. QED
    BY <2>1, <2>2, <2>3 DEF TypeOK
<1>7. CASE Rotate
  <2>1. FilesOK'
    BY <1>7, VaultAssumption DEF VaultAssumption, Rotate, GoTo, Rename, Moved, TypeOK,
           FilesOK, CallOK, Files, Contents
  <2>2. CallOK'
    BY <1>7, VaultAssumption DEF VaultAssumption, Rotate, GoTo, Rename, Moved, TypeOK,
           CallOK, Steps, Idle
  <2>3. HistoryOK'
    BY <1>7 DEF Rotate, GoTo, Rename, Moved, TypeOK, HistoryOK, CallOK
  <2>4. QED
    BY <2>1, <2>2, <2>3 DEF TypeOK
<1>8. CASE Replace
  <2>1. FilesOK'
    BY <1>8, VaultAssumption DEF VaultAssumption, Replace, GoTo, Rename, Moved, Returns,
           Idle, TypeOK, FilesOK, CallOK, Files, Contents
  <2>2. CallOK'
    BY <1>8, VaultAssumption DEF VaultAssumption, Replace, GoTo, Rename, Moved, Returns,
           Idle, TypeOK, CallOK, Steps
  <2>3. HistoryOK'
    BY <1>8 DEF Replace, GoTo, Rename, Moved, Returns, Idle, TypeOK, HistoryOK, CallOK
  <2>4. QED
    BY <2>1, <2>2, <2>3 DEF TypeOK
<1>9. CASE Overwrite
  <2>1. FilesOK'
    BY <1>9, VaultAssumption DEF VaultAssumption, Overwrite, GoTo, Write, Victim, TypeOK,
           FilesOK, CallOK, Files, Contents
  <2>2. CallOK'
    BY <1>9, VaultAssumption DEF VaultAssumption, Overwrite, GoTo, Write, Victim, TypeOK,
           CallOK, Steps, Idle
  <2>3. HistoryOK'
    BY <1>9 DEF Overwrite, GoTo, Write, Victim, TypeOK, HistoryOK, CallOK
  <2>4. QED
    BY <2>1, <2>2, <2>3 DEF TypeOK
<1>10. CASE Unlink
  <2>1. FilesOK'
    BY <1>10, VaultAssumption DEF VaultAssumption, Unlink, Cut, Victim, Returns, Idle,
           TypeOK, FilesOK, CallOK, Files, Contents
  <2>2. CallOK'
    BY <1>10, VaultAssumption DEF VaultAssumption, Unlink, Cut, Victim, Returns, Idle,
           TypeOK, CallOK, Steps
  <2>3. HistoryOK'
    BY <1>10 DEF Unlink, Cut, Victim, Returns, Idle, TypeOK, HistoryOK, CallOK
  <2>4. QED
    BY <2>1, <2>2, <2>3 DEF TypeOK
<1>11. CASE Throws
  <2>1. FilesOK'
    BY <1>11, VaultAssumption DEF VaultAssumption, Throws, Idle, TypeOK, FilesOK, CallOK,
           Files, Contents
  <2>2. CallOK'
    BY <1>11, VaultAssumption DEF VaultAssumption, Throws, Idle, TypeOK, CallOK, Steps
  <2>3. HistoryOK'
    BY <1>11 DEF Throws, Idle, TypeOK, HistoryOK, CallOK
  <2>4. QED
    BY <2>1, <2>2, <2>3 DEF TypeOK
<1>12. CASE Crash
  <2>1. FilesOK'
    BY <1>12, VaultAssumption DEF VaultAssumption, Crash, Idle, TypeOK, FilesOK, CallOK,
           Files, Contents
  <2>2. CallOK'
    BY <1>12, VaultAssumption DEF VaultAssumption, Crash, Idle, TypeOK, CallOK, Steps
  <2>3. HistoryOK'
    BY <1>12 DEF Crash, Idle, TypeOK, HistoryOK, CallOK
  <2>4. QED
    BY <2>1, <2>2, <2>3 DEF TypeOK
<1>13. CASE PowerLoss
  <2>1. FilesOK'
    BY <1>13, VaultAssumption DEF VaultAssumption, PowerLoss, Idle, TypeOK, FilesOK,
           CallOK, Files, Contents
  <2>2. CallOK'
    BY <1>13, VaultAssumption DEF VaultAssumption, PowerLoss, Idle, TypeOK, CallOK, Steps
  <2>3. HistoryOK'
    BY <1>13 DEF PowerLoss, Idle, TypeOK, HistoryOK, CallOK
  <2>4. QED
    BY <2>1, <2>2, <2>3 DEF TypeOK
<1>14. ASSUME NEW f \in Files, WriteBack(f) PROVE TypeOK'
  <2>1. FilesOK'
    BY <1>14, VaultAssumption DEF VaultAssumption, WriteBack, TypeOK, FilesOK, CallOK,
           Files, Contents
  <2>2. CallOK'
    BY <1>14, VaultAssumption DEF VaultAssumption, WriteBack, TypeOK, CallOK, Steps, Idle
  <2>3. HistoryOK'
    BY <1>14 DEF WriteBack, TypeOK, HistoryOK, CallOK
  <2>4. QED
    BY <2>1, <2>2, <2>3 DEF TypeOK
<1>15. CASE UNCHANGED vars
  BY <1>15 DEF vars, TypeOK, FilesOK, CallOK, HistoryOK
<1>16. QED
  BY <1>1, <1>2, <1>3, <1>4, <1>5, <1>6, <1>7, <1>8, <1>9, <1>10, <1>11, <1>12, <1>13,
     <1>14, <1>15 DEF Next

\* Types, for every set of passphrases and any number of calls.
THEOREM TypeCorrect == Spec => []TypeOK
  BY InitType, StepType, PTL DEF Spec

-----------------------------------------------------------------------------
(* The invariant *)

LEMMA InitInv == Init => VaultInv
<1> SUFFICES ASSUME Init PROVE VaultInv
  OBVIOUS
<1>1. CallInv /\ NamesInv /\ WrittenInv
  BY DEF Init, Idle, CallInv, At, NamesInv, WrittenInv, Victim
<1>2. KeptInv /\ FreshInv /\ CleanInv
  BY VaultAssumption DEF VaultAssumption, Init, Idle, Files, KeptInv, FreshInv, CleanInv,
         Exists, At
<1>3. QED
  BY <1>1, <1>2 DEF VaultInv

LEMMA StepInv == TypeOK /\ VaultInv /\ [Next]_vars => VaultInv'
<1> SUFFICES ASSUME TypeOK, VaultInv, [Next]_vars PROVE VaultInv'
  OBVIOUS
<1> USE VaultAssumption DEF VaultAssumption, TypeOK, FilesOK, CallOK, HistoryOK, Files,
       Contents, Steps, Idle, Exists, At, Victim, VaultInv
<1>1. ASSUME NEW p \in Passes, Save(p) PROVE VaultInv'
  <2>1. CallInv' /\ NamesInv'
    BY <1>1 DEF Save, CallInv, NamesInv, WrittenInv
  <2>2. WrittenInv'
    BY <1>1 DEF Save, CallInv, NamesInv, WrittenInv
  <2>3. KeptInv'
    BY <1>1 DEF Save, CallInv, NamesInv, WrittenInv, KeptInv, Opening
  <2>4. FreshInv'
    BY <1>1 DEF Save, CallInv, NamesInv, WrittenInv, FreshInv
  <2>5. CleanInv'
    BY <1>1 DEF Save, CallInv, NamesInv, WrittenInv, CleanInv
  <2>6. QED
    BY <2>1, <2>2, <2>3, <2>4, <2>5
<1>2. ASSUME NEW old \in Passes, NEW new \in Passes, Change(old, new) PROVE VaultInv'
  <2>1. CallInv' /\ NamesInv'
    BY <1>2 DEF Change, CallInv, NamesInv, WrittenInv
  <2>2. WrittenInv'
    BY <1>2 DEF Change, CallInv, NamesInv, WrittenInv
  <2>3. KeptInv'
    BY <1>2 DEF Change, CallInv, NamesInv, WrittenInv, KeptInv, Opening
  <2>4. FreshInv'
    BY <1>2 DEF Change, CallInv, NamesInv, WrittenInv, FreshInv
  <2>5. CleanInv'
    BY <1>2 DEF Change, CallInv, NamesInv, WrittenInv, CleanInv
  <2>6. QED
    BY <2>1, <2>2, <2>3, <2>4, <2>5
<1>3. CASE Delete
  <2>1. CallInv' /\ NamesInv'
    BY <1>3 DEF Delete, CallInv, NamesInv, WrittenInv
  <2>2. WrittenInv'
    BY <1>3 DEF Delete, CallInv, NamesInv, WrittenInv
  <2>3. KeptInv'
    BY <1>3 DEF Delete, CallInv, NamesInv, WrittenInv, KeptInv, Opening
  <2>4. FreshInv'
    BY <1>3 DEF Delete, CallInv, NamesInv, WrittenInv, FreshInv
  <2>5. CleanInv'
    BY <1>3 DEF Delete, CallInv, NamesInv, WrittenInv, CleanInv
  <2>6. QED
    BY <2>1, <2>2, <2>3, <2>4, <2>5
<1>4. CASE OpenTmp
  <2>1. CallInv' /\ NamesInv'
    BY <1>4 DEF OpenTmp, GoTo, Cut, CallInv, NamesInv, WrittenInv
  <2>2. WrittenInv'
    BY <1>4 DEF OpenTmp, GoTo, Cut, CallInv, NamesInv, WrittenInv
  <2>3. KeptInv'
    BY <1>4 DEF OpenTmp, GoTo, Cut, CallInv, NamesInv, WrittenInv, KeptInv, Opening
  <2>4. FreshInv'
    BY <1>4 DEF OpenTmp, GoTo, Cut, CallInv, NamesInv, WrittenInv, FreshInv
  <2>5. CleanInv'
    BY <1>4 DEF OpenTmp, GoTo, Cut, CallInv, NamesInv, WrittenInv, CleanInv
  <2>6. QED
    BY <2>1, <2>2, <2>3, <2>4, <2>5
<1>5. CASE WriteTmp
  <2>1. CallInv' /\ NamesInv'
    BY <1>5 DEF WriteTmp, GoTo, Write, CallInv, NamesInv, WrittenInv
  <2>2. WrittenInv'
    BY <1>5 DEF WriteTmp, GoTo, Write, CallInv, NamesInv, WrittenInv
  <2>3. KeptInv'
    BY <1>5 DEF WriteTmp, GoTo, Write, CallInv, NamesInv, WrittenInv, KeptInv, Opening
  <2>4. FreshInv'
    BY <1>5 DEF WriteTmp, GoTo, Write, CallInv, NamesInv, WrittenInv, FreshInv
  <2>5. CleanInv'
    BY <1>5 DEF WriteTmp, GoTo, Write, CallInv, NamesInv, WrittenInv, CleanInv
  <2>6. QED
    BY <2>1, <2>2, <2>3, <2>4, <2>5
<1>6. CASE DropBak
  <2>1. CallInv' /\ NamesInv'
    BY <1>6 DEF DropBak, GoTo, Cut, CallInv, NamesInv, WrittenInv
  <2>2. WrittenInv'
    BY <1>6 DEF DropBak, GoTo, Cut, CallInv, NamesInv, WrittenInv
  <2>3. KeptInv'
    BY <1>6 DEF DropBak, GoTo, Cut, CallInv, NamesInv, WrittenInv, KeptInv, Opening
  <2>4. FreshInv'
    BY <1>6 DEF DropBak, GoTo, Cut, CallInv, NamesInv, WrittenInv, FreshInv
  <2>5. CleanInv'
    BY <1>6 DEF DropBak, GoTo, Cut, CallInv, NamesInv, WrittenInv, CleanInv
  <2>6. QED
    BY <2>1, <2>2, <2>3, <2>4, <2>5
<1>7. CASE Rotate
  <2>1. CallInv' /\ NamesInv'
    BY <1>7 DEF Rotate, GoTo, Rename, Moved, CallInv, NamesInv, WrittenInv
  <2>2. WrittenInv'
    BY <1>7 DEF Rotate, GoTo, Rename, Moved, CallInv, NamesInv, WrittenInv
  <2>3. KeptInv'
    BY <1>7 DEF Rotate, GoTo, Rename, Moved, CallInv, NamesInv, WrittenInv, KeptInv, Opening
  <2>4. FreshInv'
    BY <1>7 DEF Rotate, GoTo, Rename, Moved, CallInv, NamesInv, WrittenInv, FreshInv
  <2>5. CleanInv'
    BY <1>7 DEF Rotate, GoTo, Rename, Moved, CallInv, NamesInv, WrittenInv, CleanInv
  <2>6. QED
    BY <2>1, <2>2, <2>3, <2>4, <2>5
<1>8. CASE Replace
  <2> DEFINE goesOn == call.op = "change" /\ Exists("bak")
  <2>0. /\ file'["tmp"] = None /\ file'["dst"] = call.pass /\ file'["bak"] = file["bak"]
        /\ disk'["dst"] \in {call.pass, Torn}
    BY <1>8 DEF Replace, Rename, Moved, WrittenInv
  <2>7. ASSUME ~goesOn
        PROVE  /\ call' = Idle /\ current' = call.pass
               /\ clean' = clean /\ outage' = outage
               /\ fresh' <=> call.op = "change"
    BY <1>8, <2>7 DEF Replace, Returns
  <2>1. CallInv' /\ NamesInv'
    BY <1>8 DEF Replace, GoTo, Rename, Moved, Returns, CallInv, NamesInv, WrittenInv
  <2>2. WrittenInv'
    BY <1>8 DEF Replace, GoTo, Rename, Moved, Returns, CallInv, NamesInv, WrittenInv
  <2>3. KeptInv'
    BY <1>8 DEF Replace, GoTo, Rename, Moved, Returns, CallInv, NamesInv, WrittenInv,
           KeptInv, Opening
  <2>4. FreshInv'
    <3>1. CASE goesOn
      BY <1>8, <3>1 DEF Replace, GoTo, Rename, Moved, Returns, CallInv, NamesInv,
             WrittenInv, FreshInv
    <3>2. CASE ~goesOn
      BY <2>0, <2>7, <3>2 DEF FreshInv
    <3>3. QED
      BY <3>1, <3>2
  <2>5. CleanInv'
    <3>1. CASE goesOn
      BY <1>8, <3>1 DEF Replace, GoTo, Rename, Moved, Returns, CallInv, NamesInv,
             WrittenInv, CleanInv
    <3>2. CASE ~goesOn
      <4>1. call.op \in {"save", "change"}
        BY <1>8 DEF Replace, CallInv
      <4>2. clean => ~Exists("bak")
        BY <3>2, <4>1 DEF CleanInv
      <4>3. clean' = clean /\ outage' = outage /\ call' = Idle /\ current' = call.pass
        BY <2>7, <3>2
      <4>4. CASE clean
        <5>1. ~outage' /\ file'["bak"] = None
          BY <2>0, <4>2, <4>3, <4>4 DEF CleanInv
        <5>2. QED
          BY <2>0, <4>3, <5>1 DEF CleanInv
      <4>5. CASE ~clean
        BY <4>3, <4>5 DEF CleanInv
      <4>6. QED
        BY <4>4, <4>5
    <3>3. QED
      BY <3>1, <3>2
  <2>6. QED
    BY <2>1, <2>2, <2>3, <2>4, <2>5
<1>9. CASE Overwrite
  <2>1. CallInv' /\ NamesInv'
    BY <1>9 DEF Overwrite, GoTo, Write, CallInv, NamesInv, WrittenInv
  <2>2. WrittenInv'
    BY <1>9 DEF Overwrite, GoTo, Write, CallInv, NamesInv, WrittenInv
  <2>3. KeptInv'
    BY <1>9 DEF Overwrite, GoTo, Write, CallInv, NamesInv, WrittenInv, KeptInv, Opening
  <2>4. FreshInv'
    BY <1>9 DEF Overwrite, GoTo, Write, CallInv, NamesInv, WrittenInv, FreshInv
  <2>5. CleanInv'
    BY <1>9 DEF Overwrite, GoTo, Write, CallInv, NamesInv, WrittenInv, CleanInv
  <2>6. QED
    BY <2>1, <2>2, <2>3, <2>4, <2>5
<1>10. CASE Unlink
  <2>0. /\ file'[Victim] = None /\ disk'[Victim] = None /\ call' = Idle
        /\ \A f \in Files \ {Victim} : file'[f] = file[f] /\ disk'[f] = disk[f]
    BY <1>10 DEF Unlink, Cut, Returns
  <2>7. ASSUME call.op = "delete"
        PROVE  UNCHANGED <<current, fresh, clean, outage, saved>> /\ deleted' = "yes"
    BY <1>10, <2>7 DEF Unlink
  <2>8. ASSUME call.op # "delete"
        PROVE  /\ call.op = "change" /\ current' = call.pass
               /\ clean' = clean /\ outage' = outage
               /\ deleted' = deleted
    BY <1>10, <2>8 DEF Unlink, Returns, CallInv
  <2>1. CallInv' /\ NamesInv'
    BY <1>10 DEF Unlink, Cut, Returns, CallInv, NamesInv, WrittenInv
  <2>2. WrittenInv'
    BY <1>10 DEF Unlink, Cut, Returns, CallInv, NamesInv, WrittenInv
  <2>3. KeptInv'
    BY <1>10 DEF Unlink, Cut, Returns, CallInv, NamesInv, WrittenInv, KeptInv, Opening
  <2>4. FreshInv'
    <3>1. CASE call.op = "delete"
      BY <2>0, <2>7, <3>1 DEF FreshInv
    <3>2. CASE call.op # "delete"
      BY <1>10, <2>0, <2>8, <3>2 DEF Unlink, WrittenInv, FreshInv
    <3>3. QED
      BY <3>1, <3>2
  <2>5. CleanInv'
    <3>1. CASE call.op = "delete"
      BY <1>10, <2>0, <2>7, <3>1 DEF Unlink, CleanInv
    <3>2. CASE call.op # "delete"
      BY <1>10, <2>0, <2>8, <3>2 DEF Unlink, WrittenInv, CleanInv
    <3>3. QED
      BY <3>1, <3>2
  <2>6. QED
    BY <2>1, <2>2, <2>3, <2>4, <2>5
<1>11. CASE Throws
  <2>1. CallInv' /\ NamesInv'
    BY <1>11 DEF Throws, CallInv, NamesInv, WrittenInv
  <2>2. WrittenInv'
    BY <1>11 DEF Throws, CallInv, NamesInv, WrittenInv
  <2>3. KeptInv'
    BY <1>11 DEF Throws, CallInv, NamesInv, WrittenInv, KeptInv, Opening
  <2>4. FreshInv'
    BY <1>11 DEF Throws, CallInv, NamesInv, WrittenInv, FreshInv
  <2>5. CleanInv'
    BY <1>11 DEF Throws, CallInv, NamesInv, WrittenInv, CleanInv
  <2>6. QED
    BY <2>1, <2>2, <2>3, <2>4, <2>5
<1>12. CASE Crash
  <2>1. CallInv' /\ NamesInv'
    BY <1>12 DEF Crash, CallInv, NamesInv, WrittenInv
  <2>2. WrittenInv'
    BY <1>12 DEF Crash, CallInv, NamesInv, WrittenInv
  <2>3. KeptInv'
    BY <1>12 DEF Crash, CallInv, NamesInv, WrittenInv, KeptInv, Opening
  <2>4. FreshInv'
    BY <1>12 DEF Crash, CallInv, NamesInv, WrittenInv, FreshInv
  <2>5. CleanInv'
    BY <1>12 DEF Crash, CallInv, NamesInv, WrittenInv, CleanInv
  <2>6. QED
    BY <2>1, <2>2, <2>3, <2>4, <2>5
<1>13. CASE PowerLoss
  <2>1. CallInv' /\ NamesInv'
    BY <1>13 DEF PowerLoss, CallInv, NamesInv, WrittenInv
  <2>2. WrittenInv'
    BY <1>13 DEF PowerLoss, CallInv, NamesInv, WrittenInv
  <2>3. KeptInv'
    BY <1>13 DEF PowerLoss, CallInv, NamesInv, WrittenInv, KeptInv, Opening
  <2>4. FreshInv'
    BY <1>13 DEF PowerLoss, CallInv, NamesInv, WrittenInv, FreshInv
  <2>5. CleanInv'
    BY <1>13 DEF PowerLoss, CallInv, NamesInv, WrittenInv, CleanInv
  <2>6. QED
    BY <2>1, <2>2, <2>3, <2>4, <2>5
<1>14. ASSUME NEW f \in Files, WriteBack(f) PROVE VaultInv'
  <2>1. CallInv' /\ NamesInv'
    BY <1>14 DEF WriteBack, CallInv, NamesInv, WrittenInv
  <2>2. WrittenInv'
    BY <1>14 DEF WriteBack, CallInv, NamesInv, WrittenInv
  <2>3. KeptInv'
    BY <1>14 DEF WriteBack, CallInv, NamesInv, WrittenInv, KeptInv, Opening
  <2>4. FreshInv'
    BY <1>14 DEF WriteBack, CallInv, NamesInv, WrittenInv, FreshInv
  <2>5. CleanInv'
    BY <1>14 DEF WriteBack, CallInv, NamesInv, WrittenInv, CleanInv
  <2>6. QED
    BY <2>1, <2>2, <2>3, <2>4, <2>5
<1>15. CASE UNCHANGED vars
  BY <1>15 DEF vars, CallInv, NamesInv, WrittenInv, KeptInv, Opening, FreshInv, CleanInv
<1>16. QED
  BY <1>1, <1>2, <1>3, <1>4, <1>5, <1>6, <1>7, <1>8, <1>9, <1>10, <1>11, <1>12, <1>13,
     <1>14, <1>15 DEF Next

LEMMA VaultAlways == Spec => []VaultInv
  BY TypeCorrect, InitInv, StepInv, PTL DEF Spec

-----------------------------------------------------------------------------
(* The properties *)

\* Whatever calls failed, died or were cut short, a saved wallet that nobody
\* deleted has a vault or a .bak that opens, as long as the power held.
THEOREM NothingLost == Spec => []NeverLost
<1>1. VaultInv => NeverLost
  BY DEF VaultInv, KeptInv, NeverLost
<1>2. QED
  BY <1>1, VaultAlways, PTL

\* Once change_password has returned, the old passphrase opens no file: no
\* rotated copy, no leftover of an earlier call, no block the disk still held.
THEOREM OldPassOpensNothing == Spec => []OldPassDead
<1>1. TypeOK /\ VaultInv => OldPassDead
  BY VaultAssumption
     DEF VaultAssumption, TypeOK, FilesOK, VaultInv, FreshInv, OldPassDead, Opening,
         Files, Exists
<1>2. QED
  BY <1>1, TypeCorrect, VaultAlways, PTL

\* A wallet whose deletion returned leaves no file that opens.
THEOREM DeletedOpensNothing == Spec => []DeletedIsGone
<1>1. TypeOK /\ VaultInv => DeletedIsGone
  <2> SUFFICES ASSUME TypeOK, VaultInv, deleted = "yes", clean \/ fresh, NEW f \in Files
               PROVE  file[f] = None
    BY VaultAssumption DEF VaultAssumption, DeletedIsGone, Opening
  <2>1. call = Idle /\ file["dst"] = None
    BY DEF VaultInv, CallInv, Exists
  <2>2. file["tmp"] = None /\ file["bak"] = None
    BY <2>1 DEF VaultInv, CleanInv, FreshInv, Exists, Idle
  <2>3. QED
    BY <2>1, <2>2 DEF Files
<1>2. QED
  BY <1>1, TypeCorrect, VaultAlways, PTL

\* The passphrase the user was last told about opens the vault while no call
\* has failed.
THEOREM CurrentOpens == Spec => []OpensWithCurrent
<1>1. VaultInv => OpensWithCurrent
  BY DEF VaultInv, CleanInv, OpensWithCurrent, At, Idle
<1>2. QED
  BY <1>1, VaultAlways, PTL
=============================================================================
