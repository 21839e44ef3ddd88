---------------------------- MODULE LedgerProofs ----------------------------
(* Theorems about AuditLedger, for any number of processes and appends.    *)
(*                                                                         *)
(* A chain value is a sequence of events: ChainInv says that the one       *)
(* process that may append has in memory what the file ends with.          *)
(* CountInv says that an event has one number, and that what hides a line  *)
(* leaves a garbled one behind.                                            *)
EXTENDS AuditLedger, SequenceTheorems, TLAPS

-----------------------------------------------------------------------------
(* Type correctness *)

\* A torn line is a line.
CutInv == cutOff => lines # <<>>

\* What a write makes of the file: a line more, or a last line garbled.
LEMMA OntoFileIs ==
  ASSUME FileOK, CutInv, NEW line \in Lines
  PROVE  /\ OntoFile(line) \in Seq(Lines) /\ OntoFile(line) # <<>>
         /\ ~cutOff =>
              /\ Len(OntoFile(line)) = Len(lines) + 1
              /\ OntoFile(line)[Len(lines) + 1] = line
              /\ \A i \in 1 .. Len(lines) : OntoFile(line)[i] = lines[i]
         /\ cutOff =>
              /\ Len(lines) \in 1 .. Len(lines)
              /\ Len(OntoFile(line)) = Len(lines)
              /\ OntoFile(line)[Len(lines)].text = Garbled
              /\ \A i \in 1 .. Len(lines) : i # Len(lines) => OntoFile(line)[i] = lines[i]
<1>1. lines \in Seq(Lines) /\ Len(lines) \in Nat
  BY DEF FileOK
<1>2. CASE ~cutOff
  <2>1. OntoFile(line) = Append(lines, line)
    BY <1>2 DEF OntoFile
  <2>2. QED
    BY <1>1, <1>2, <2>1, AppendProperties
<1>3. CASE cutOff
  <2> DEFINE last  == lines[Len(lines)]
             run   == [claim |-> IF last.claim = Short THEN <<Garbled>> ELSE last.claim,
                       text  |-> Garbled]
  <2>1. Len(lines) \in 1 .. Len(lines)
    BY <1>1, <1>3, EmptySeq DEF CutInv
  <2>2. last \in Lines
    BY <1>1, <2>1, ElementOfSeq
  <2>3. <<Garbled>> \in Chains
    BY DEF Chains
  <2>4. run \in Lines
    BY <2>2, <2>3 DEF Lines
  <2>5. OntoFile(line) = [lines EXCEPT ![Len(lines)] = run]
    BY <1>3 DEF OntoFile
  <2> HIDE DEF run, last
  <2>6. run.text = Garbled
    BY DEF run
  <2>7. /\ OntoFile(line) \in Seq(Lines) /\ Len(OntoFile(line)) = Len(lines)
        /\ \A i \in 1 .. Len(lines) :
             OntoFile(line)[i] = IF i = Len(lines) THEN run ELSE lines[i]
    BY <1>1, <2>1, <2>4, <2>5, ExceptSeq
  <2>8. QED
    BY <1>1, <1>3, <2>1, <2>6, <2>7
<1>4. QED
  BY <1>2, <1>3

\* The hash at the head of the last line is a chain value.
LEMMA Tail64Type ==
  ASSUME FileOK, NEW chain \in Chains
  PROVE  Tail64(chain) \in Chains
<1>1. CASE lines = <<>>
  BY <1>1 DEF Tail64
<1>2. CASE lines # <<>>
  <2>1. lines[Len(lines)] \in Lines
    BY <1>2 DEF FileOK
  <2>2. lines[Len(lines)].claim \in Chains
    BY <2>1 DEF Lines
  <2>3. QED
    BY <1>2, <2>2 DEF Tail64
<1>3. QED
  BY <1>1, <1>2

\* A step of one process.
LEMMA OneProc ==
  ASSUME ProcsOK, NEW p \in Procs, NEW log \in AuditLogs,
         \A c, d \in log.inside : c = d,
         proc' = [proc EXCEPT ![p] = log]
  PROVE  /\ ProcsOK' /\ proc'[p] = log
         /\ \A q \in Procs : q # p => proc'[q] = proc[q]
  BY DEF ProcsOK, AuditLogs

\* The bytes a failed write may have left.
Parts(call) ==
  {[claim |-> Short, text |-> Garbled], [claim |-> call.next, text |-> Garbled],
   [claim |-> call.next, text |-> call.event]}

LEMMA PartsType ==
  ASSUME NEW call \in Calls
  PROVE  Parts(call) \subseteq Lines
<1>1. Short \in Chains
  BY DEF Short, Chains
<1>2. QED
  BY <1>1 DEF Parts, Calls, Lines

\* A thread enters: what its process then has in memory.
LEMMA EnterIs ==
  ASSUME TypeOK, NEW p \in Procs, Enter(p)
  PROVE  /\ ProcsOK' /\ calls + 1 \in Events
         /\ \A q \in Procs : q # p => proc'[q] = proc[q]
         /\ proc'[p].state = "alive" /\ proc'[p].loaded = TRUE
         /\ proc'[p].chain = IF proc[p].loaded THEN proc[p].chain
                             ELSE Tail64(proc[p].chain)
         /\ \E call \in Calls :
              /\ call.event = calls + 1
              /\ call.next = Append(proc'[p].chain, calls + 1)
              /\ proc'[p].inside = {call}
<1> DEFINE tail == IF proc[p].loaded THEN proc[p].chain ELSE Tail64(proc[p].chain)
           call == [event |-> calls + 1, next |-> Append(tail, calls + 1)]
           log  == [proc[p] EXCEPT !.loaded = TRUE, !.chain = tail, !.inside = {call}]
<1>1. calls + 1 \in Events
  BY LedgerAssumption DEF LedgerAssumption, TypeOK, CountsOK, Enter, Events
<1>2. proc[p] \in AuditLogs
  BY DEF TypeOK, ProcsOK
<1>3. tail \in Chains
  <2>1. proc[p].chain \in Chains
    BY <1>2 DEF AuditLogs
  <2>2. QED
    BY <2>1, Tail64Type DEF TypeOK
<1>4. Append(tail, calls + 1) \in Chains
  BY <1>1, <1>3, AppendProperties DEF Chains
<1>5. call \in Calls /\ call.event = calls + 1 /\ call.next = Append(tail, calls + 1)
  BY <1>1, <1>4 DEF Calls
<1>6. proc' = [proc EXCEPT ![p].loaded = TRUE, ![p].chain = tail, ![p].inside = {call}]
  BY DEF Enter
<1>7. proc[p].state = "alive"
  BY DEF Enter, Alive
<1> HIDE DEF tail, call
<1>8. log \in AuditLogs /\ log.inside = {call} /\ log.chain = tail
      /\ log.state = "alive" /\ log.loaded = TRUE
  BY <1>2, <1>3, <1>5, <1>7 DEF AuditLogs
<1>9. proc' = [proc EXCEPT ![p] = log]
  BY <1>6 DEF TypeOK, ProcsOK
<1> HIDE DEF log
<1>10. /\ ProcsOK' /\ proc'[p] = log
       /\ \A q \in Procs : q # p => proc'[q] = proc[q]
  BY <1>8, <1>9, OneProc DEF TypeOK
<1>11. QED
  BY <1>1, <1>5, <1>8, <1>10 DEF tail

\* A line is written: the append is over and the chain has moved on.
LEMMA WriteIs ==
  ASSUME TypeOK, NEW p \in Procs, Write(p)
  PROVE  /\ ProcsOK'
         /\ \A q \in Procs : q # p => proc'[q] = proc[q]
         /\ proc[p].state = "alive" /\ proc'[p].state = "alive"
         /\ proc'[p].loaded = proc[p].loaded
         /\ \E call \in Calls :
              /\ call \in proc[p].inside /\ proc'[p].inside = {}
              /\ proc'[p].chain = call.next
              /\ [claim |-> call.next, text |-> call.event] \in Lines
              /\ lines' = OntoFile([claim |-> call.next, text |-> call.event])
              /\ returned' = returned \cup {call.event}
<1> PICK call \in proc[p].inside :
       /\ lines' = OntoFile([claim |-> call.next, text |-> call.event])
       /\ proc' = [proc EXCEPT ![p].inside = @ \ {call}, ![p].chain = call.next]
       /\ returned' = returned \cup {call.event}
  BY DEF Write
<1> DEFINE log == [proc[p] EXCEPT !.inside = proc[p].inside \ {call}, !.chain = call.next]
<1>1. proc[p] \in AuditLogs /\ \A c, d \in proc[p].inside : c = d
  BY DEF TypeOK, ProcsOK
<1>2. call \in Calls /\ proc[p].inside \ {call} = {}
  BY <1>1 DEF AuditLogs
<1>3. call.next \in Chains /\ call.event \in Events
  BY <1>2 DEF Calls
<1>4. [claim |-> call.next, text |-> call.event] \in Lines
  BY <1>3 DEF Lines
<1>5. proc[p].state = "alive"
  BY DEF Write, Alive
<1>6. log \in AuditLogs /\ log.inside = {} /\ log.chain = call.next
      /\ log.state = "alive" /\ log.loaded = proc[p].loaded
  BY <1>1, <1>2, <1>3, <1>5 DEF AuditLogs
<1>7. proc' = [proc EXCEPT ![p] = log]
  BY DEF TypeOK, ProcsOK
<1> HIDE DEF log
<1>8. /\ ProcsOK' /\ proc'[p] = log
      /\ \A q \in Procs : q # p => proc'[q] = proc[q]
  BY <1>6, <1>7, OneProc DEF TypeOK
<1>9. QED
  BY <1>2, <1>4, <1>5, <1>6, <1>8

\* The append a process was in is over and its chain is where it was.
LEMMA LeavesIs ==
  ASSUME TypeOK, NEW p \in Procs, NEW after \in {"dead", "alive"}, Leaves(p, after)
  PROVE  /\ ProcsOK'
         /\ \A q \in Procs : q # p => proc'[q] = proc[q]
         /\ proc'[p].state = after /\ proc'[p].inside = {}
         /\ proc'[p].loaded = proc[p].loaded /\ proc'[p].chain = proc[p].chain
<1> DEFINE log == [proc[p] EXCEPT !.state = after, !.inside = {}]
<1>1. proc[p] \in AuditLogs
  BY DEF TypeOK, ProcsOK
<1>2. /\ log \in AuditLogs /\ log.inside = {} /\ log.state = after
      /\ log.loaded = proc[p].loaded /\ log.chain = proc[p].chain
  BY <1>1 DEF AuditLogs
<1>3. proc' = [proc EXCEPT ![p] = log]
  BY DEF Leaves, TypeOK, ProcsOK
<1> HIDE DEF log
<1>4. QED
  BY <1>2, <1>3, OneProc DEF TypeOK

LEMMA StartIs ==
  ASSUME TypeOK, NEW p \in Procs, Start(p)
  PROVE  /\ ProcsOK'
         /\ \A q \in Procs : q # p => proc'[q] = proc[q]
         /\ proc'[p].state = "alive" /\ proc'[p].loaded = proc[p].loaded
         /\ proc'[p].chain = proc[p].chain /\ proc'[p].inside = proc[p].inside
<1> DEFINE log == [proc[p] EXCEPT !.state = "alive"]
<1>1. proc[p] \in AuditLogs /\ \A c, d \in proc[p].inside : c = d
  BY DEF TypeOK, ProcsOK
<1>2. /\ log \in AuditLogs /\ log.inside = proc[p].inside /\ log.state = "alive"
      /\ log.loaded = proc[p].loaded /\ log.chain = proc[p].chain
  BY <1>1 DEF AuditLogs
<1>3. proc' = [proc EXCEPT ![p] = log]
  BY DEF Start, TypeOK, ProcsOK
<1> HIDE DEF log
<1>4. \A c, d \in log.inside : c = d
  BY <1>1, <1>2
<1>5. QED
  BY <1>2, <1>3, <1>4, OneProc DEF TypeOK

\* An append that throws leaves a torn line, nothing or a whole line, and a
\* process that is dead or lives on.
LEMMA FailureIs ==
  ASSUME TypeOK, NEW p \in Procs, AppendFails(p)
  PROVE  \E call \in Calls, after \in {"dead", "alive"} :
           /\ call \in proc[p].inside /\ Leaves(p, after)
           /\ \/ /\ \E part \in Parts(call) : lines' = OntoFile(part)
                 /\ cutOff' = TRUE /\ mishaps' = mishaps \cup {"torn"}
              \/ UNCHANGED <<lines, cutOff, mishaps>>
              \/ /\ lines' = OntoFile([claim |-> call.next, text |-> call.event])
                 /\ cutOff' = FALSE
                 /\ mishaps' = mishaps \cup (IF after = "alive" THEN {"disowned"} ELSE {})
<1>1. proc[p].inside \subseteq Calls
  BY DEF TypeOK, ProcsOK, AuditLogs
<1>2. QED
  BY <1>1 DEF AppendFails, Parts

\* It adds a line, whole or in part, or nothing.
LEMMA FailureLeaves ==
  ASSUME TypeOK, NEW p \in Procs, AppendFails(p)
  PROVE  \/ \E line \in Lines :
              /\ line.text = Garbled \/ \E c \in proc[p].inside : line.text = c.event
              /\ lines' = OntoFile(line)
         \/ lines' = lines /\ cutOff' = cutOff
<1> PICK call \in Calls :
       /\ call \in proc[p].inside
       /\ \/ \E part \in Parts(call) : lines' = OntoFile(part)
          \/ lines' = lines /\ cutOff' = cutOff
          \/ lines' = OntoFile([claim |-> call.next, text |-> call.event])
  BY FailureIs
<1>1. Parts(call) \subseteq Lines /\ [claim |-> call.next, text |-> call.event] \in Parts(call)
  BY PartsType DEF Parts
<1>2. \A part \in Parts(call) : part.text = Garbled \/ part.text = call.event
  BY DEF Parts
<1> DEFINE whole == [claim |-> call.next, text |-> call.event]
<1>3. whole \in Parts(call)
  BY <1>1
<1>4. \/ \E part \in Parts(call) : lines' = OntoFile(part)
      \/ lines' = lines /\ cutOff' = cutOff
      \/ lines' = OntoFile(whole)
  OBVIOUS
<1> HIDE DEF whole
<1>5. QED
  BY <1>1, <1>2, <1>3, <1>4

\* Nothing but a torn write or a power loss cuts the last line off.
LEMMA CutLeaves ==
  ASSUME TypeOK, PowerLoss
  PROVE  \E n \in 1 .. Len(lines) :
           /\ SubSeq(lines, 1, n - 1) \in Seq(Lines)
           /\ Len(SubSeq(lines, 1, n - 1)) = n - 1
           /\ \A i \in 1 .. n - 1 : SubSeq(lines, 1, n - 1)[i] = lines[i]
           /\ \/ /\ lines' = SubSeq(lines, 1, n - 1) /\ cutOff' = FALSE
                 /\ mishaps' = mishaps \cup {"power"}
              \/ \E line \in Lines :
                   /\ line.text = Garbled
                   /\ lines' = Append(SubSeq(lines, 1, n - 1), line) /\ cutOff' = TRUE
                   /\ mishaps' = mishaps \cup {"power", "torn"}
<1> PICK n \in 1 .. Len(lines) :
       \/ /\ lines' = SubSeq(lines, 1, n - 1)
          /\ cutOff' = FALSE /\ mishaps' = mishaps \cup {"power"}
       \/ /\ \E claim \in {Short, lines[n].claim} :
               lines' = Append(SubSeq(lines, 1, n - 1), [claim |-> claim, text |-> Garbled])
          /\ cutOff' = TRUE /\ mishaps' = mishaps \cup {"power", "torn"}
  BY DEF PowerLoss
<1>1. lines \in Seq(Lines) /\ Len(lines) \in Nat /\ lines[n] \in Lines
  BY DEF TypeOK, FileOK
<1>2. /\ SubSeq(lines, 1, n - 1) \in Seq(Lines)
      /\ Len(SubSeq(lines, 1, n - 1)) = n - 1
      /\ \A i \in 1 .. n - 1 : SubSeq(lines, 1, n - 1)[i] = lines[i]
  BY <1>1, SubSeqProperties
<1>3. ASSUME NEW claim \in {Short, lines[n].claim}
      PROVE  [claim |-> claim, text |-> Garbled] \in Lines
  <2>1. lines[n].claim \in Chains
    BY <1>1 DEF Lines
  <2>2. Short \in Chains
    BY DEF Short, Chains
  <2>3. QED
    BY <2>1, <2>2 DEF Lines
<1>4. QED
  BY <1>2, <1>3

LEMMA LossIs ==
  ASSUME TypeOK, PowerLoss
  PROVE  /\ ProcsOK'
         /\ \A q \in Procs : IF proc[q].state = "alive"
                            THEN proc'[q].state = "dead" /\ proc'[q].inside = {}
                            ELSE proc'[q] = proc[q]
<1> DEFINE log == [Fresh EXCEPT !.state = "dead"]
<1>1. log \in AuditLogs /\ log.state = "dead" /\ log.inside = {}
  <2>1. Fresh \in AuditLogs
    BY DEF Fresh, AuditLogs, Chains
  <2>2. QED
    BY <2>1 DEF Fresh, AuditLogs
<1>2. proc' = [q \in Procs |-> IF q \in Alive THEN log ELSE proc[q]]
  BY DEF PowerLoss
<1>3. proc \in [Procs -> AuditLogs] /\ \A q \in Procs : \A c, d \in proc[q].inside : c = d
  BY DEF TypeOK, ProcsOK
<1> HIDE DEF log
<1>4. proc' \in [Procs -> AuditLogs]
  BY <1>1, <1>2, <1>3
<1>5. \A q \in Procs : proc'[q] = IF proc[q].state = "alive" THEN log ELSE proc[q]
  BY <1>2 DEF Alive
<1>6. \A q \in Procs : \A c, d \in proc'[q].inside : c = d
  BY <1>1, <1>3, <1>5
<1>7. QED
  BY <1>1, <1>4, <1>5, <1>6 DEF ProcsOK

LEMMA InitType == Init => TypeOK /\ CutInv
<1> SUFFICES ASSUME Init PROVE TypeOK /\ CutInv
  OBVIOUS
<1>1. FileOK /\ CutInv
  <2>1. lines \in Seq(Lines)
    BY EmptySeq DEF Init
  <2>2. cutOff = FALSE
    BY DEF Init
  <2>3. QED
    BY <2>1, <2>2 DEF FileOK, CutInv
<1>2. ProcsOK
  BY DEF Init, Fresh, ProcsOK, AuditLogs, Chains
<1>3. CountsOK
  BY LedgerAssumption DEF LedgerAssumption, Init, CountsOK
<1>4. QED
  BY <1>1, <1>2, <1>3 DEF TypeOK

LEMMA StepType == TypeOK /\ CutInv /\ [Next]_vars => TypeOK' /\ CutInv'
<1> SUFFICES ASSUME TypeOK, CutInv, [Next]_vars PROVE TypeOK' /\ CutInv'
  OBVIOUS
<1>1. ASSUME NEW p \in Procs, Start(p) PROVE TypeOK' /\ CutInv'
  <2>1. FileOK' /\ CutInv' /\ CountsOK'
    BY <1>1 DEF Start, TypeOK, FileOK, CountsOK, CutInv
  <2>2. QED
    BY <1>1, <2>1, StartIs DEF TypeOK
<1>2. ASSUME NEW p \in Procs, Enter(p) PROVE TypeOK' /\ CutInv'
  <2>1. FileOK' /\ CutInv'
    BY <1>2 DEF Enter, TypeOK, FileOK, CutInv
  <2>2. ProcsOK'
    BY <1>2, EnterIs
  <2>3. CountsOK'
    BY <1>2, LedgerAssumption DEF LedgerAssumption, Enter, TypeOK, CountsOK, Events
  <2>4. QED
    BY <2>1, <2>2, <2>3 DEF TypeOK
<1>3. ASSUME NEW p \in Procs, Write(p) PROVE TypeOK' /\ CutInv'
  <2> PICK call \in Calls :
         /\ [claim |-> call.next, text |-> call.event] \in Lines
         /\ lines' = OntoFile([claim |-> call.next, text |-> call.event])
         /\ returned' = returned \cup {call.event}
    BY <1>3, WriteIs
  <2>1. FileOK' /\ CutInv'
    BY <1>3, OntoFileIs DEF Write, TypeOK, FileOK, CutInv
  <2>2. CountsOK'
    BY <1>3 DEF Write, TypeOK, CountsOK, Calls
  <2>3. QED
    BY <1>3, <2>1, <2>2, WriteIs DEF TypeOK
<1>4. ASSUME NEW p \in Procs, AppendFails(p) PROVE TypeOK' /\ CutInv'
  <2>1. cutOff' \in BOOLEAN /\ mishaps' \subseteq mishaps \cup {"torn", "disowned"}
    BY <1>4 DEF AppendFails, TypeOK, FileOK
  <2>2. lines' \in Seq(Lines) /\ (cutOff' => lines' # <<>>)
    <3>1. CASE \E line \in Lines : lines' = OntoFile(line)
      BY <3>1, OntoFileIs DEF TypeOK
    <3>2. CASE lines' = lines /\ cutOff' = cutOff
      BY <3>2 DEF TypeOK, FileOK, CutInv
    <3>3. QED
      BY <1>4, <3>1, <3>2, FailureLeaves
  <2>3. ProcsOK'
    BY <1>4, FailureIs, LeavesIs
  <2>4. CountsOK'
    BY <1>4, <2>1 DEF AppendFails, TypeOK, CountsOK
  <2>5. QED
    BY <2>1, <2>2, <2>3, <2>4 DEF TypeOK, FileOK, CutInv
<1>5. ASSUME NEW p \in Procs, Dies(p) PROVE TypeOK' /\ CutInv'
  <2>1. FileOK' /\ CutInv' /\ CountsOK'
    BY <1>5 DEF Dies, TypeOK, FileOK, CountsOK, CutInv
  <2>2. QED
    BY <1>5, <2>1, LeavesIs DEF Dies, TypeOK
<1>6. CASE PowerLoss
  <2>1. FileOK' /\ CutInv' /\ mishaps' \subseteq mishaps \cup {"power", "torn"}
    <3> PICK n \in 1 .. Len(lines) :
           /\ SubSeq(lines, 1, n - 1) \in Seq(Lines)
           /\ \/ /\ lines' = SubSeq(lines, 1, n - 1) /\ cutOff' = FALSE
                 /\ mishaps' = mishaps \cup {"power"}
              \/ \E line \in Lines :
                   /\ lines' = Append(SubSeq(lines, 1, n - 1), line) /\ cutOff' = TRUE
                   /\ mishaps' = mishaps \cup {"power", "torn"}
      BY <1>6, CutLeaves
    <3>1. CASE \E line \in Lines : /\ lines' = Append(SubSeq(lines, 1, n - 1), line)
                                   /\ cutOff' = TRUE
                                   /\ mishaps' = mishaps \cup {"power", "torn"}
      BY <3>1, AppendProperties DEF FileOK, CutInv
    <3>2. QED
      BY <3>1 DEF FileOK, CutInv
  <2>2. ProcsOK'
    BY <1>6, LossIs
  <2>3. CountsOK'
    BY <1>6, <2>1 DEF PowerLoss, TypeOK, CountsOK
  <2>4. QED
    BY <2>1, <2>2, <2>3 DEF TypeOK
<1>7. CASE UNCHANGED vars
  BY <1>7 DEF vars, TypeOK, FileOK, ProcsOK, AuditLogs, CountsOK, CutInv
<1>8. QED
  BY <1>1, <1>2, <1>3, <1>4, <1>5, <1>6, <1>7 DEF Next

\* Types, and one append at a time in each process, for any number of either.
THEOREM TypeCorrect == Spec => [](TypeOK /\ CutInv)
  BY InitType, StepType, PTL DEF Spec

-----------------------------------------------------------------------------
(* A ledger of one process at a time *)

\* Each process: what it has in memory before its first append and after it.
MemoryInv ==
  /\ \A p \in Procs : ~proc[p].loaded /\ proc[p].state # "dead" =>
       proc[p].chain = <<>> /\ proc[p].inside = {}
  /\ \A p \in Procs : proc[p].state = "new" => ~proc[p].loaded
  /\ \A p \in Procs : proc[p].state # "alive" => proc[p].inside = {}

\* The file verifies, and the process that lives has its last chain value in
\* memory or none yet.
TailInv ==
  /\ ~cutOff /\ Verifies
  /\ \A p, q \in Alive : p = q
  /\ \A p \in Alive : proc[p].loaded =>
       /\ proc[p].chain = Claim(Len(lines))
       /\ \A c \in proc[p].inside : c.next = Append(Claim(Len(lines)), c.event)

\* So it is where nothing was torn or disowned and processes follow one another.
ChainInv == MemoryInv /\ (mishaps \subseteq {"power"} => TailInv)

\* A line that verifies is no Short one, so load_tail reads what it claims.
LEMMA TailIsClaim ==
  ASSUME FileOK, Verifies
  PROVE  Tail64(<<>>) = Claim(Len(lines)) /\ Claim(Len(lines)) \in Chains
<1>1. CASE lines = <<>>
  BY <1>1 DEF Tail64, Claim, Chains
<1>2. CASE lines # <<>>
  <2> DEFINE n == Len(lines)
  <2>1. n \in 1 .. Len(lines) /\ n \in Nat /\ n # 0
    BY <1>2, EmptySeq DEF FileOK
  <2>2. \A i \in 1 .. Len(lines) : lines[i] \in Lines
    BY DEF FileOK
  <2>3. lines[n].claim \in Chains /\ lines[n].text \in Events \cup {Garbled}
    BY <2>1, <2>2 DEF Lines
  <2>4. Claim(n) = lines[n].claim
    BY <2>1 DEF Claim
  <2>5. Claim(n - 1) \in Chains
    <3>1. CASE n = 1
      BY <3>1, EmptySeq DEF Claim, Chains
    <3>2. CASE n # 1
      <4>1. n - 1 \in 1 .. Len(lines) /\ n - 1 # 0
        <5>1. n >= 1 /\ n <= Len(lines) /\ Len(lines) \in Nat
          BY <2>1
        <5> HIDE DEF n
        <5>2. QED
          BY <2>1, <3>2, <5>1
      <4>2. lines[n - 1] \in Lines
        BY <2>2, <4>1
      <4>3. lines[n - 1].claim \in Chains
        BY <4>2 DEF Lines
      <4>4. QED
        BY <4>1, <4>3 DEF Claim
    <3>3. QED
      BY <3>1, <3>2
  <2>6. lines[n].text # Garbled /\ lines[n].claim = Append(Claim(n - 1), lines[n].text)
    BY <2>1 DEF Verifies, Link
  <2> HIDE DEF n
  <2>7. lines[n].claim # Short
    <3> DEFINE k == Len(Claim(n - 1))
               text == lines[n].text
    <3>1. k \in Nat /\ Len(lines[n].claim) = k + 1 /\ lines[n].claim[k + 1] = text
      BY <2>3, <2>5, <2>6, AppendProperties DEF Chains
    <3>2. SUFFICES ASSUME lines[n].claim = Short PROVE FALSE
      OBVIOUS
    <3>3. Len(Short) = 2 /\ Short[2] = Garbled
      BY DEF Short
    <3> HIDE DEF k
    <3>4. k + 1 = 2
      BY <3>1, <3>2, <3>3
    <3>5. QED
      BY <2>6, <3>1, <3>2, <3>3, <3>4
  <2>8. QED
    BY <1>2, <2>3, <2>4, <2>7 DEF Tail64, n
<1>3. QED
  BY <1>1, <1>2

\* A line that follows the last one keeps the file verified.
LEMMA VerifiesAppend ==
  ASSUME FileOK, Verifies, NEW line, Link(Claim(Len(lines)), line),
         Len(lines') = Len(lines) + 1, lines'[Len(lines) + 1] = line,
         \A i \in 1 .. Len(lines) : lines'[i] = lines[i]
  PROVE  Verifies' /\ Claim(Len(lines))' = line.claim
<1>1. Len(lines) \in Nat
  BY DEF FileOK
<1>2. Claim(Len(lines))' = line.claim
  BY <1>1 DEF Claim
<1>3. ASSUME NEW i \in 1 .. Len(lines') PROVE Link(Claim(i - 1), lines[i])'
  <2>1. CASE i = Len(lines) + 1
    <3>1. i - 1 = Len(lines) /\ lines'[i] = line
      BY <1>1, <2>1
    <3>2. Claim(i - 1)' = Claim(Len(lines))
      <4>1. CASE Len(lines) = 0
        BY <3>1, <4>1 DEF Claim
      <4>2. CASE Len(lines) # 0
        BY <1>1, <3>1, <4>2 DEF Claim
      <4>3. QED
        BY <4>1, <4>2
    <3>3. QED
      BY <3>1, <3>2 DEF Link
  <2>2. CASE i \in 1 .. Len(lines)
    <3>1. Claim(i - 1)' = Claim(i - 1)
      <4>1. i - 1 = 0 \/ i - 1 \in 1 .. Len(lines)
        BY <1>1, <2>2
      <4>2. QED
        BY <4>1 DEF Claim
    <3>2. QED
      BY <2>2, <3>1 DEF Verifies, Link
  <2>3. QED
    BY <1>1, <2>1, <2>2
<1>4. QED
  BY <1>2, <1>3 DEF Verifies

\* What a power loss leaves of a verified file verifies.
LEMMA VerifiesPrefix ==
  ASSUME FileOK, Verifies, NEW n \in 1 .. Len(lines), Len(lines') = n - 1,
         \A i \in 1 .. n - 1 : lines'[i] = lines[i]
  PROVE  Verifies'
<1>1. Len(lines) \in Nat
  BY DEF FileOK
<1>2. ASSUME NEW i \in 1 .. n - 1 PROVE Link(Claim(i - 1), lines[i])'
  <2>1. i \in 1 .. Len(lines) /\ (i - 1 = 0 \/ i - 1 \in 1 .. n - 1)
    BY <1>1
  <2>2. Claim(i - 1)' = Claim(i - 1)
    BY <2>1 DEF Claim
  <2>3. QED
    BY <2>1, <2>2 DEF Verifies, Link
<1>3. QED
  BY <1>2 DEF Verifies

LEMMA InitChain == Init => ChainInv
<1> SUFFICES ASSUME Init PROVE ChainInv
  OBVIOUS
<1>1. \A p \in Procs : proc[p] = Fresh
  BY DEF Init
<1>2. Verifies /\ ~cutOff
  BY EmptySeq DEF Init, Verifies
<1>3. MemoryInv /\ Alive = {}
  BY <1>1 DEF Fresh, MemoryInv, Alive
<1>4. QED
  BY <1>2, <1>3 DEF TailInv, ChainInv

LEMMA MemoryStep == TypeOK /\ MemoryInv /\ [Next]_vars => MemoryInv'
<1> SUFFICES ASSUME TypeOK, MemoryInv, [Next]_vars PROVE MemoryInv'
  OBVIOUS
<1>1. ASSUME NEW p \in Procs, Start(p) PROVE MemoryInv'
  BY <1>1, StartIs DEF Start, MemoryInv
<1>2. ASSUME NEW p \in Procs, Enter(p) PROVE MemoryInv'
  BY <1>2, EnterIs, ZenonT(60) DEF MemoryInv
<1>3. ASSUME NEW p \in Procs, Write(p) PROVE MemoryInv'
  <2>1. proc[p].inside # {} /\ proc[p].state = "alive"
    BY <1>3, WriteIs
  <2>2. proc[p].loaded
    BY <2>1 DEF MemoryInv
  <2>3. proc'[p].loaded /\ proc'[p].state = "alive"
    BY <1>3, <2>2, WriteIs
  <2>4. \A q \in Procs : q # p => proc'[q] = proc[q]
    BY <1>3, WriteIs
  <2>5. QED
    BY <2>3, <2>4 DEF MemoryInv
<1>4. ASSUME NEW p \in Procs, AppendFails(p) \/ Dies(p) PROVE MemoryInv'
  <2>1. PICK after \in {"dead", "alive"} :
          Leaves(p, after) /\ (after = "alive" => proc[p].inside # {})
    BY <1>4, FailureIs DEF Dies
  <2>2. /\ proc'[p].state = after /\ proc'[p].inside = {}
        /\ proc'[p].loaded = proc[p].loaded
        /\ \A q \in Procs : q # p => proc'[q] = proc[q]
    BY <2>1, LeavesIs
  <2>3. after = "alive" => proc'[p].loaded
    <3>1. proc[p].state = "alive"
      BY <1>4 DEF AppendFails, Dies, Alive
    <3>2. QED
      BY <2>1, <2>2, <3>1 DEF MemoryInv
  <2>4. QED
    BY <2>2, <2>3 DEF MemoryInv
<1>5. CASE PowerLoss
  BY <1>5, LossIs DEF MemoryInv
<1>6. CASE UNCHANGED vars
  BY <1>6 DEF vars, MemoryInv
<1>7. QED
  BY <1>1, <1>2, <1>3, <1>4, <1>5, <1>6 DEF Next

LEMMA TailStep ==
  ASSUME TypeOK, CutInv, MemoryInv, mishaps \subseteq {"power"} => TailInv, [Next]_vars
  PROVE  mishaps' \subseteq {"power"} => TailInv'
<1> SUFFICES ASSUME mishaps' \subseteq {"power"} PROVE TailInv'
  OBVIOUS
<1>0. mishaps \subseteq mishaps'
  BY DEF Next, Start, Enter, Write, AppendFails, Dies, PowerLoss, vars
<1>1. TailInv /\ ~cutOff /\ Verifies /\ \A p, q \in Alive : p = q
  BY <1>0 DEF TailInv
<1>2. ASSUME NEW p \in Procs, Start(p) PROVE TailInv'
  <2>1. Alive = {}
    BY <1>2 DEF Start
  <2>2. \A q \in Procs : q \in Alive' <=> q = p
    BY <1>2, <2>1, StartIs DEF Alive
  <2>3. ~proc'[p].loaded
    BY <1>2, StartIs DEF Start, MemoryInv
  <2>4. QED
    BY <1>1, <1>2, <2>2, <2>3 DEF Start, TailInv, Verifies, Claim, Alive
<1>3. ASSUME NEW p \in Procs, Enter(p) PROVE TailInv'
  <2>1. p \in Alive /\ lines' = lines /\ cutOff' = cutOff
    BY <1>3 DEF Enter
  <2>2. Alive' = Alive
    BY <1>3, <2>1, EnterIs DEF Alive
  <2>3. proc'[p].chain = Claim(Len(lines))
    <3>1. CASE proc[p].loaded
      BY <1>1, <1>3, <2>1, <3>1, EnterIs DEF TailInv
    <3>2. CASE ~proc[p].loaded
      <4>1. proc[p].chain = <<>>
        BY <2>1, <3>2 DEF MemoryInv, Alive
      <4>2. QED
        BY <1>1, <1>3, <3>2, <4>1, EnterIs, TailIsClaim DEF TypeOK
    <3>3. QED
      BY <3>1, <3>2
  <2>4. \A c \in proc'[p].inside : c.next = Append(Claim(Len(lines)), c.event)
    <3> PICK call \in Calls : /\ call.event = calls + 1
                               /\ call.next = Append(proc'[p].chain, calls + 1)
                               /\ proc'[p].inside = {call}
      BY <1>3, EnterIs
    <3> QED
      BY <2>3
  <2>5. Claim(Len(lines))' = Claim(Len(lines)) /\ Verifies'
    BY <1>1, <2>1 DEF Claim, Verifies
  <2>6. QED
    BY <1>1, <2>1, <2>2, <2>3, <2>4, <2>5 DEF TailInv
<1>4. ASSUME NEW p \in Procs, Write(p) PROVE TailInv'
  <2> PICK call \in Calls :
         /\ call \in proc[p].inside /\ proc'[p].inside = {}
         /\ proc'[p].chain = call.next
         /\ [claim |-> call.next, text |-> call.event] \in Lines
         /\ lines' = OntoFile([claim |-> call.next, text |-> call.event])
    BY <1>4, WriteIs
  <2> DEFINE line == [claim |-> call.next, text |-> call.event]
  <2>1. p \in Alive /\ proc[p].loaded
    BY <1>4 DEF Write, MemoryInv, Alive
  <2>2. call.next = Append(Claim(Len(lines)), call.event)
    BY <1>1, <2>1 DEF TailInv
  <2>3. Link(Claim(Len(lines)), line)
    BY <2>2 DEF Link, Calls, Events, Garbled
  <2>4. /\ Len(lines') = Len(lines) + 1 /\ lines'[Len(lines) + 1] = line
        /\ \A i \in 1 .. Len(lines) : lines'[i] = lines[i]
    BY <1>1, OntoFileIs DEF TypeOK
  <2>5. Verifies' /\ Claim(Len(lines))' = call.next
    <3> HIDE DEF line
    <3>1. Verifies' /\ Claim(Len(lines))' = line.claim
      BY <1>1, <2>3, <2>4, VerifiesAppend DEF TypeOK
    <3>2. QED
      BY <3>1 DEF line
  <2>6. Alive' = Alive
    BY <1>4, <2>1, WriteIs DEF Alive
  <2>7. ~cutOff'
    BY <1>4 DEF Write
  <2>8. QED
    BY <1>1, <2>1, <2>5, <2>6, <2>7 DEF TailInv
<1>5. ASSUME NEW p \in Procs, AppendFails(p) PROVE TailInv'
  <2> PICK call \in Calls, after \in {"dead", "alive"} :
         /\ call \in proc[p].inside /\ Leaves(p, after)
         /\ \/ "torn" \in mishaps'
            \/ UNCHANGED <<lines, cutOff>>
            \/ /\ lines' = OntoFile([claim |-> call.next, text |-> call.event])
               /\ cutOff' = FALSE /\ (after = "alive" => "disowned" \in mishaps')
    BY <1>5, FailureIs
  <2> DEFINE line == [claim |-> call.next, text |-> call.event]
  <2>1. p \in Alive /\ proc[p].loaded
    BY <1>5 DEF AppendFails, MemoryInv, Alive
  <2>2. /\ proc'[p].state = after /\ proc'[p].inside = {}
        /\ proc'[p].loaded = proc[p].loaded /\ proc'[p].chain = proc[p].chain
        /\ \A q \in Procs : q # p => proc'[q] = proc[q]
    BY LeavesIs
  <2>3. Alive' = IF after = "alive" THEN {p} ELSE {}
    BY <1>1, <2>1, <2>2 DEF Alive
  <2>4. CASE UNCHANGED <<lines, cutOff>>
    <3>1. Verifies' /\ ~cutOff' /\ Claim(Len(lines))' = Claim(Len(lines))
      BY <1>1, <2>4 DEF Verifies, Claim
    <3>2. proc'[p].chain = Claim(Len(lines))
      BY <1>1, <2>1, <2>2 DEF TailInv
    <3>3. QED
      BY <2>2, <2>3, <3>1, <3>2 DEF TailInv
  <2>5. CASE lines' = OntoFile(line) /\ cutOff' = FALSE /\ after = "dead"
    <3>1. line \in Lines /\ Link(Claim(Len(lines)), line)
      BY <1>1, <2>1 DEF TailInv, Lines, Link, Calls, Events, Garbled
    <3>2. /\ Len(lines') = Len(lines) + 1 /\ lines'[Len(lines) + 1] = line
          /\ \A i \in 1 .. Len(lines) : lines'[i] = lines[i]
      BY <1>1, <2>5, <3>1, OntoFileIs DEF TypeOK
    <3>3. Verifies'
      <4> HIDE DEF line
      <4>1. QED
        BY <1>1, <3>1, <3>2, VerifiesAppend DEF TypeOK
    <3>4. QED
      BY <2>3, <2>5, <3>3 DEF TailInv
  <2>6. QED
    BY <2>4, <2>5
<1>6. ASSUME NEW p \in Procs, Dies(p) PROVE TailInv'
  <2>1. Alive' = {}
    BY <1>1, <1>6, LeavesIs DEF Dies, Alive
  <2>2. QED
    BY <1>1, <1>6, <2>1 DEF Dies, TailInv, Verifies, Claim
<1>7. CASE PowerLoss
  <2> PICK n \in 1 .. Len(lines) :
         /\ Len(SubSeq(lines, 1, n - 1)) = n - 1
         /\ \A i \in 1 .. n - 1 : SubSeq(lines, 1, n - 1)[i] = lines[i]
         /\ (lines' = SubSeq(lines, 1, n - 1) /\ cutOff' = FALSE) \/ "torn" \in mishaps'
    BY <1>7, CutLeaves
  <2>1. Verifies'
    BY <1>1, VerifiesPrefix DEF TypeOK
  <2>2. Alive' = {}
    BY <1>7, LossIs DEF Alive
  <2>3. QED
    BY <2>1, <2>2 DEF TailInv
<1>8. CASE UNCHANGED vars
  BY <1>1, <1>8 DEF vars, TailInv, Verifies, Claim, Alive
<1>9. QED
  BY <1>2, <1>3, <1>4, <1>5, <1>6, <1>7, <1>8 DEF Next

LEMMA ChainAlways == Spec => []ChainInv
<1>1. TypeOK /\ CutInv /\ ChainInv /\ [Next]_vars => ChainInv'
  BY MemoryStep, TailStep DEF ChainInv
<1>2. QED
  BY <1>1, InitChain, TypeCorrect, PTL DEF Spec

\* Trust planes that follow one another, however they end, however often an
\* append fails and however much a power loss takes, leave a ledger that
\* verifies, unless one tore a line or lived on after a line that landed in an
\* append that threw.
THEOREM LonePlaneVerifies == Spec => []AloneVerifies
<1>1. ChainInv => AloneVerifies
  BY DEF ChainInv, TailInv, AloneVerifies
<1>2. QED
  BY <1>1, ChainAlways, PTL

-----------------------------------------------------------------------------
(* A ledger that verifies is complete *)

\* An event has one number: those in the file and those about to be written
\* are different events.
NumberInv ==
  /\ \A i \in 1 .. Len(lines) : lines[i].text \in 0 .. calls
  /\ \A i, j \in 1 .. Len(lines) :
       lines[i].text = lines[j].text /\ lines[i].text # Garbled => i = j
  /\ \A p \in Procs : \A c \in proc[p].inside :
       /\ c.event \in 1 .. calls
       /\ \A i \in 1 .. Len(lines) : lines[i].text # c.event
       /\ \A q \in Procs : \A d \in proc[q].inside : c.event = d.event => p = q

\* The event of an append that returned is in the file, or a garbled line is.
ReturnedInv ==
  "power" \notin mishaps =>
    \/ \E i \in 1 .. Len(lines) : lines[i].text = Garbled
    \/ \A e \in returned : \E i \in 1 .. Len(lines) : lines[i].text = e

CountInv == NumberInv /\ ReturnedInv

LEMMA InitCount == Init => CountInv
<1> SUFFICES ASSUME Init PROVE CountInv
  OBVIOUS
<1>1. Len(lines) = 0 /\ returned = {}
  BY EmptySeq DEF Init
<1>2. \A p \in Procs : proc[p].inside = {}
  BY DEF Init, Fresh
<1>3. QED
  BY <1>1, <1>2 DEF CountInv, NumberInv, ReturnedInv

\* A line of the append a process is in, or a garbled one, keeps numbers apart.
LEMMA NumberOnto ==
  ASSUME TypeOK, CutInv, NumberInv, NEW p \in Procs, NEW line \in Lines,
         line.text = Garbled \/ \E c \in proc[p].inside : line.text = c.event,
         lines' = OntoFile(line), calls' = calls,
         proc'[p].inside = {}, \A q \in Procs : q # p => proc'[q] = proc[q]
  PROVE  NumberInv'
<1>1. Len(lines) \in Nat /\ calls \in Nat
  BY LedgerAssumption DEF LedgerAssumption, TypeOK, FileOK, CountsOK
<1>2. /\ line.text \in 0 .. calls
      /\ line.text # Garbled => \A i \in 1 .. Len(lines) : lines[i].text # line.text
      /\ line.text # Garbled =>
           \A q \in Procs : \A d \in proc[q].inside : d.event = line.text => q = p
  BY <1>1 DEF NumberInv, Garbled
<1>3. \A i \in 1 .. Len(lines') :
        \/ lines'[i].text = Garbled
        \/ ~cutOff /\ i = Len(lines) + 1 /\ lines'[i].text = line.text
        \/ i \in 1 .. Len(lines) /\ lines'[i] = lines[i]
  BY <1>1, OntoFileIs, SMTT(30) DEF TypeOK
<1>4. \A i \in 1 .. Len(lines') : lines'[i].text \in 0 .. calls
  BY <1>1, <1>2, <1>3 DEF NumberInv, Garbled
<1>5. ASSUME NEW i \in 1 .. Len(lines'), NEW j \in 1 .. Len(lines'),
             lines'[i].text = lines'[j].text, lines'[i].text # Garbled
      PROVE  i = j
  BY <1>2, <1>3, <1>5 DEF NumberInv
<1>6. ASSUME NEW q \in Procs, NEW c \in proc'[q].inside
      PROVE  /\ c.event \in 1 .. calls
             /\ \A i \in 1 .. Len(lines') : lines'[i].text # c.event
             /\ \A r \in Procs : \A d \in proc'[r].inside : c.event = d.event => q = r
  <2>1. q # p /\ c \in proc[q].inside
    BY <1>6
  <2>2. c.event \in 1 .. calls /\ c.event # Garbled
    BY <1>1, <2>1 DEF NumberInv, Garbled
  <2>3. \A i \in 1 .. Len(lines') : lines'[i].text # c.event
    BY <1>2, <1>3, <2>1, <2>2 DEF NumberInv
  <2>4. \A r \in Procs : \A d \in proc'[r].inside : r # p /\ d \in proc[r].inside
    OBVIOUS
  <2>5. QED
    BY <2>1, <2>2, <2>3, <2>4 DEF NumberInv
<1>7. QED
  BY <1>4, <1>5, <1>6 DEF NumberInv

\* A file that lost lines at its end, and at most one of them garbled.
LEMMA NumberLoss ==
  ASSUME TypeOK, NumberInv, PowerLoss
  PROVE  NumberInv'
<1>1. Len(lines) \in Nat /\ calls \in Nat /\ calls' = calls
  BY LedgerAssumption DEF LedgerAssumption, TypeOK, FileOK, CountsOK, PowerLoss
<1> PICK n \in 1 .. Len(lines) :
       /\ SubSeq(lines, 1, n - 1) \in Seq(Lines)
       /\ Len(SubSeq(lines, 1, n - 1)) = n - 1
       /\ \A i \in 1 .. n - 1 : SubSeq(lines, 1, n - 1)[i] = lines[i]
       /\ \/ lines' = SubSeq(lines, 1, n - 1)
          \/ \E line \in Lines :
               line.text = Garbled /\ lines' = Append(SubSeq(lines, 1, n - 1), line)
  BY CutLeaves
<1>2. /\ Len(lines') \in {n - 1, n}
      /\ \A i \in 1 .. n - 1 : lines'[i] = lines[i]
      /\ Len(lines') = n => lines'[n].text = Garbled
  <2>1. CASE lines' = SubSeq(lines, 1, n - 1)
    BY <1>1, <2>1
  <2>2. CASE \E line \in Lines :
               line.text = Garbled /\ lines' = Append(SubSeq(lines, 1, n - 1), line)
    BY <1>1, <2>2, AppendProperties
  <2>3. QED
    BY <2>1, <2>2
<1>3. \A i \in 1 .. Len(lines') :
        \/ lines'[i].text = Garbled
        \/ i \in 1 .. Len(lines) /\ lines'[i] = lines[i]
  BY <1>1, <1>2
<1>4. \A q \in Procs : proc'[q].inside = {} \/ proc'[q] = proc[q]
  BY LossIs
<1>5. \A i \in 1 .. Len(lines') : lines'[i].text \in 0 .. calls
  BY <1>1, <1>3 DEF NumberInv, Garbled
<1>6. \A i, j \in 1 .. Len(lines') :
        lines'[i].text = lines'[j].text /\ lines'[i].text # Garbled => i = j
  BY <1>3 DEF NumberInv
<1>7. \A q \in Procs : \A c \in proc'[q].inside :
        /\ c.event \in 1 .. calls
        /\ \A i \in 1 .. Len(lines') : lines'[i].text # c.event
        /\ \A r \in Procs : \A d \in proc'[r].inside : c.event = d.event => q = r
  BY <1>1, <1>3, <1>4, SMTT(30) DEF NumberInv, Garbled
<1>8. QED
  BY <1>1, <1>5, <1>6, <1>7 DEF NumberInv

LEMMA NumberStep == TypeOK /\ CutInv /\ NumberInv /\ [Next]_vars => NumberInv'
<1> SUFFICES ASSUME TypeOK, CutInv, NumberInv, [Next]_vars PROVE NumberInv'
  OBVIOUS
<1>0. calls \in Nat
  BY LedgerAssumption DEF LedgerAssumption, TypeOK, CountsOK
<1>1. ASSUME NEW p \in Procs, Start(p) PROVE NumberInv'
  <2>1. \A q \in Procs : proc'[q].inside = proc[q].inside
    BY <1>1, StartIs
  <2>2. QED
    BY <1>1, <2>1 DEF Start, NumberInv
<1>2. ASSUME NEW p \in Procs, Enter(p) PROVE NumberInv'
  <2>1. lines' = lines /\ calls' = calls + 1
    BY <1>2 DEF Enter
  <2>2. PICK call \in Calls : call.event = calls + 1 /\ proc'[p].inside = {call}
    BY <1>2, EnterIs
  <2>3. \A q \in Procs : q # p => proc'[q].inside = proc[q].inside
    BY <1>2, EnterIs
  <2>4. \A i \in 1 .. Len(lines) : lines[i].text \in 0 .. calls
    BY DEF NumberInv
  <2>5. \A q \in Procs : \A c \in proc'[q].inside :
          \/ q = p /\ c.event = calls + 1
          \/ q # p /\ c \in proc[q].inside /\ c.event \in 1 .. calls
    BY <2>2, <2>3 DEF NumberInv
  <2>6. \A i \in 1 .. Len(lines') : lines'[i].text \in 0 .. calls'
    BY <1>0, <2>1, <2>4
  <2>7. \A i, j \in 1 .. Len(lines') :
          lines'[i].text = lines'[j].text /\ lines'[i].text # Garbled => i = j
    BY <2>1 DEF NumberInv
  <2>8. ASSUME NEW q \in Procs, NEW c \in proc'[q].inside
        PROVE  /\ c.event \in 1 .. calls'
               /\ \A i \in 1 .. Len(lines') : lines'[i].text # c.event
               /\ \A r \in Procs : \A d \in proc'[r].inside : c.event = d.event => q = r
    <3>1. c.event \in 1 .. calls'
      BY <1>0, <2>1, <2>5
    <3>2. \A i \in 1 .. Len(lines') : lines'[i].text # c.event
      BY <1>0, <2>1, <2>4, <2>5 DEF NumberInv
    <3>3. \A r \in Procs : \A d \in proc'[r].inside : c.event = d.event => q = r
      BY <1>0, <2>5 DEF NumberInv
    <3>4. QED
      BY <3>1, <3>2, <3>3
  <2>9. QED
    BY <2>6, <2>7, <2>8 DEF NumberInv
<1>3. ASSUME NEW p \in Procs, Write(p) PROVE NumberInv'
  <2>1. PICK call \in Calls :
          /\ call \in proc[p].inside /\ proc'[p].inside = {}
          /\ [claim |-> call.next, text |-> call.event] \in Lines
          /\ lines' = OntoFile([claim |-> call.next, text |-> call.event])
    BY <1>3, WriteIs
  <2> DEFINE line == [claim |-> call.next, text |-> call.event]
  <2>2. line.text = call.event
    OBVIOUS
  <2>3. calls' = calls /\ \A q \in Procs : q # p => proc'[q] = proc[q]
    BY <1>3, WriteIs DEF Write
  <2> HIDE DEF line
  <2>4. QED
    BY <2>1, <2>2, <2>3, NumberOnto DEF line
<1>4. ASSUME NEW p \in Procs, AppendFails(p) PROVE NumberInv'
  <2>1. /\ calls' = calls /\ proc'[p].inside = {}
        /\ \A q \in Procs : q # p => proc'[q] = proc[q]
    BY <1>4, FailureIs, LeavesIs DEF AppendFails
  <2>2. \/ lines' = lines
        \/ \E line \in Lines :
             /\ line.text = Garbled \/ \E c \in proc[p].inside : line.text = c.event
             /\ lines' = OntoFile(line)
    BY <1>4, FailureLeaves
  <2>3. CASE lines' = lines
    <3>1. \A q \in Procs : proc'[q].inside = {} \/ proc'[q] = proc[q]
      BY <2>1
    <3>2. QED
      BY <2>1, <2>3, <3>1 DEF NumberInv
  <2>4. CASE lines' # lines
    <3>1. PICK line \in Lines :
             /\ line.text = Garbled \/ \E c \in proc[p].inside : line.text = c.event
             /\ lines' = OntoFile(line)
      BY <2>2, <2>4
    <3>2. QED
      BY <2>1, <3>1, NumberOnto
  <2>5. QED
    BY <2>3, <2>4
<1>5. ASSUME NEW p \in Procs, Dies(p) PROVE NumberInv'
  <2>1. \A q \in Procs : proc'[q].inside = {} \/ proc'[q] = proc[q]
    BY <1>5, LeavesIs DEF Dies
  <2>2. QED
    BY <1>5, <2>1 DEF Dies, NumberInv
<1>6. CASE PowerLoss
  BY <1>6, NumberLoss
<1>7. CASE UNCHANGED vars
  BY <1>7 DEF vars, NumberInv
<1>8. QED
  BY <1>1, <1>2, <1>3, <1>4, <1>5, <1>6, <1>7 DEF Next

\* What is garbled stays so, what is in the file stays in it or is garbled.
LEMMA OntoKeeps ==
  ASSUME FileOK, CutInv, NEW line \in Lines, lines' = OntoFile(line)
  PROVE  /\ \A i \in 1 .. Len(lines) :
              /\ i \in 1 .. Len(lines')
              /\ lines'[i].text = Garbled \/ lines'[i].text = lines[i].text
         /\ \E i \in 1 .. Len(lines') :
              lines'[i].text = Garbled \/ lines'[i].text = line.text
<1>1. Len(lines) \in Nat
  BY DEF FileOK
<1>2. CASE cutOff
  BY <1>1, <1>2, OntoFileIs
<1>3. CASE ~cutOff
  BY <1>1, <1>3, OntoFileIs
<1>4. QED
  BY <1>2, <1>3

LEMMA ReturnedStep ==
  ASSUME TypeOK, CutInv, ReturnedInv, [Next]_vars
  PROVE  ReturnedInv'
<1> DEFINE Hidden == \E i \in 1 .. Len(lines) : lines[i].text = Garbled
           Holds(e) == \E i \in 1 .. Len(lines) : lines[i].text = e
<1> SUFFICES ASSUME "power" \notin mishaps'
             PROVE  Hidden' \/ \A e \in returned' : Holds(e)'
  BY DEF ReturnedInv
<1>1. mishaps \subseteq mishaps'
  BY DEF Next, Start, Enter, Write, AppendFails, Dies, PowerLoss, vars
<1>2. Hidden \/ \A e \in returned : Holds(e)
  BY <1>1 DEF ReturnedInv
<1>3. ASSUME lines' = lines, returned' = returned
      PROVE  Hidden' \/ \A e \in returned' : Holds(e)'
  BY <1>2, <1>3
<1>4. ASSUME NEW line \in Lines, lines' = OntoFile(line)
      PROVE  /\ Hidden => Hidden'
             /\ \A e \in returned : Holds(e) => Hidden' \/ Holds(e)'
             /\ Hidden' \/ Holds(line.text)'
  BY <1>4, OntoKeeps DEF TypeOK
<1>5. ASSUME NEW p \in Procs, Write(p)
      PROVE  Hidden' \/ \A e \in returned' : Holds(e)'
  <2>1. PICK call \in Calls :
          /\ [claim |-> call.next, text |-> call.event] \in Lines
          /\ lines' = OntoFile([claim |-> call.next, text |-> call.event])
          /\ returned' = returned \cup {call.event}
    BY <1>5, WriteIs
  <2> HIDE DEF Hidden, Holds
  <2>2. /\ Hidden => Hidden'
        /\ \A e \in returned : Holds(e) => Hidden' \/ Holds(e)'
        /\ Hidden' \/ Holds(call.event)'
    <3> DEFINE line == [claim |-> call.next, text |-> call.event]
    <3>1. line.text = call.event
      OBVIOUS
    <3> HIDE DEF line
    <3>2. QED
      BY <1>4, <2>1, <3>1 DEF line
  <2>3. QED
    BY <1>2, <2>1, <2>2
<1>6. ASSUME NEW p \in Procs, AppendFails(p)
      PROVE  Hidden' \/ \A e \in returned' : Holds(e)'
  <2>1. returned' = returned
    BY <1>6 DEF AppendFails
  <2>2. (\E line \in Lines : lines' = OntoFile(line)) \/ lines' = lines
    BY <1>6, FailureLeaves
  <2> HIDE DEF Hidden, Holds
  <2>3. QED
    BY <1>2, <1>3, <1>4, <2>1, <2>2
<1>7. CASE PowerLoss
  BY <1>7 DEF PowerLoss
<1>8. ASSUME NEW p \in Procs, Start(p) \/ Enter(p) \/ Dies(p)
      PROVE  lines' = lines /\ returned' = returned
  BY <1>8 DEF Start, Enter, Dies
<1>9. CASE UNCHANGED vars
  BY <1>3, <1>9 DEF vars
<1>10. QED
  BY <1>3, <1>5, <1>6, <1>7, <1>8, <1>9 DEF Next

LEMMA CountAlways == Spec => []CountInv
<1>1. TypeOK /\ CutInv /\ CountInv /\ [Next]_vars => CountInv'
  BY NumberStep, ReturnedStep DEF CountInv
<1>2. QED
  BY <1>1, InitCount, TypeCorrect, PTL DEF Spec

\* Whatever was torn and whoever wrote at the same time, a ledger that verifies
\* holds each event whose append returned, and no event twice.
THEOREM VerifiedLedgerIsComplete == Spec => []VerifiedIsComplete
<1>1. CountInv => VerifiedIsComplete
  <2> SUFFICES ASSUME NumberInv, ReturnedInv, "power" \notin mishaps, Verifies
               PROVE  /\ \A e \in returned : \E i \in 1 .. Len(lines) : lines[i].text = e
                      /\ \A i, j \in 1 .. Len(lines) : lines[i].text = lines[j].text => i = j
    BY DEF CountInv, VerifiedIsComplete
  <2>1. \A i \in 1 .. Len(lines) : lines[i].text # Garbled
    BY DEF Verifies, Link
  <2>2. QED
    BY <2>1 DEF NumberInv, ReturnedInv
<1>2. QED
  BY <1>1, CountAlways, PTL

=============================================================================
