---------------------------- MODULE AuditLedger ----------------------------
(***************************************************************************)
(* The audit file, line by line (src/keyd/audit.cpp).                      *)
(*                                                                         *)
(* Keyd takes an append for one step that happens or throws.  Here it is   *)
(* taken apart: the mutex, the tail read once per process, the chain       *)
(* value, the bytes that may reach the file only in part.  Several trust   *)
(* planes may append to one file: one after the other, or side by side     *)
(* when a restarted UI spawns a child before the orphan has ended.         *)
(*                                                                         *)
(* An event is the number of the append call that brings it.  SHA-256 is   *)
(* taken to be injective, so a chain value is the sequence of the events   *)
(* hashed into it.                                                         *)
(***************************************************************************)
EXTENDS Naturals, Sequences

CONSTANTS
  Procs,    \* the processes that append in one behaviour
  MaxCalls  \* bound: calls of append

ASSUME LedgerAssumption == MaxCalls \in Nat

VARIABLES
  lines,     \* the file: what its lines claim and say
  cutOff,    \* its last line has no newline
  proc,      \* each process: its AuditLog, and the append inside the mutex
  calls,     \* calls of append so far
  returned,  \* history: those that returned
  mishaps    \* history: a torn line, a line its living process disowns, two
             \* processes at a time, a power loss

vars == <<lines, cutOff, proc, calls, returned, mishaps>>

Garbled == 0   \* text or hash digits that are no event's
Short   == <<Garbled, Garbled>>   \* a line too short to hold a hash

Events == 1 .. MaxCalls
Chains == Seq(Events \cup {Garbled})
Lines  == [claim : Chains, text : Events \cup {Garbled}]
Calls  == [event : Events, next : Chains]

AuditLogs == [state : {"new", "alive", "dead"}, loaded : BOOLEAN,
              chain : Chains, inside : SUBSET Calls]
Fresh == [state |-> "new", loaded |-> FALSE, chain |-> <<>>, inside |-> {}]

Init ==
  /\ lines = <<>> /\ cutOff = FALSE
  /\ proc = [p \in Procs |-> Fresh]
  /\ calls = 0 /\ returned = {} /\ mishaps = {}

-----------------------------------------------------------------------------

Alive == {p \in Procs : proc[p].state = "alive"}

\* A trust plane starts; its AuditLog has read nothing yet.
Start(p) ==
  /\ proc[p].state = "new"
  /\ proc' = [proc EXCEPT ![p].state = "alive"]
  /\ mishaps' = mishaps \cup (IF Alive = {} THEN {} ELSE {"overlap"})
  /\ UNCHANGED <<lines, cutOff, calls, returned>>

\* Mutant: the tail is not read, a process starts a chain of its own.
NoTail(chain) == chain

\* load_tail: the hash at the head of the last line, if it is long enough.
Tail64(chain) ==
  IF lines = <<>> \/ lines[Len(lines)].claim = Short
    THEN chain
    ELSE lines[Len(lines)].claim

\* A thread gets the mutex: the tail is read on the first append of the
\* process only, the chain value of the new line is computed.
Enter(p) ==
  /\ p \in Alive /\ calls < MaxCalls /\ proc[p].inside = {}
  /\ LET event == calls + 1
         tail  == IF proc[p].loaded THEN proc[p].chain ELSE Tail64(proc[p].chain)
         call  == [event |-> event, next |-> Append(tail, event)]
     IN  proc' = [proc EXCEPT ![p].loaded = TRUE, ![p].chain = tail, ![p].inside = {call}]
  /\ calls' = calls + 1
  /\ UNCHANGED <<lines, cutOff, returned, mishaps>>

\* Bytes go to the end of the file: after a newline they are a line of their
\* own, after a torn line they run on in it.
OntoFile(line) ==
  IF ~cutOff
    THEN Append(lines, line)
    ELSE LET last == lines[Len(lines)]
         IN  [lines EXCEPT ![Len(lines)] =
                [claim |-> IF last.claim = Short THEN <<Garbled>> ELSE last.claim,
                 text  |-> Garbled]]

Leaves(p, state) ==
  proc' = [proc EXCEPT ![p].state = state, ![p].inside = {}]

\* The line is written and flushed, append returns and moves the chain on.
Write(p) ==
  /\ p \in Alive
  /\ \E call \in proc[p].inside :
       /\ lines' = OntoFile([claim |-> call.next, text |-> call.event])
       /\ proc' = [proc EXCEPT ![p].inside = @ \ {call}, ![p].chain = call.next]
       /\ returned' = returned \cup {call.event}
  /\ cutOff' = FALSE
  /\ UNCHANGED <<calls, mishaps>>

\* The append throws, or the process dies in it, after some of the bytes: none
\* or the file was not opened, within the hash, within the event, before the
\* newline, too few to make a torn line long enough, or all of them.  Reveal
\* catches what its append throws and the process goes on, its chain value where
\* it was: a line that landed whole is then one its own process disowns.
AppendFails(p) ==
  /\ p \in Alive
  /\ \E call \in proc[p].inside, after \in {"dead", "alive"} :
       /\ \/ /\ \E part \in {[claim |-> Short, text |-> Garbled],
                             [claim |-> call.next, text |-> Garbled],
                             [claim |-> call.next, text |-> call.event]} :
                  lines' = OntoFile(part)
             /\ cutOff' = TRUE /\ mishaps' = mishaps \cup {"torn"}
          \/ UNCHANGED <<lines, cutOff, mishaps>>
          \/ /\ lines' = OntoFile([claim |-> call.next, text |-> call.event])
             /\ cutOff' = FALSE
             /\ mishaps' = mishaps \cup (IF after = "alive" THEN {"disowned"} ELSE {})
       /\ Leaves(p, after)
  /\ UNCHANGED <<calls, returned>>

\* The process ends outside an append.
Dies(p) ==
  /\ p \in Alive /\ proc[p].inside = {}
  /\ Leaves(p, "dead")
  /\ UNCHANGED <<lines, cutOff, calls, returned, mishaps>>

\* append flushes to the system and not to the medium: a power loss may take
\* any number of bytes at the end.
PowerLoss ==
  /\ \E n \in 1 .. Len(lines) :
       LET whole == SubSeq(lines, 1, n - 1)
       IN  \/ /\ lines' = whole
              /\ cutOff' = FALSE /\ mishaps' = mishaps \cup {"power"}
           \/ /\ \E claim \in {Short, lines[n].claim} :
                   lines' = Append(whole, [claim |-> claim, text |-> Garbled])
              /\ cutOff' = TRUE /\ mishaps' = mishaps \cup {"power", "torn"}
  /\ proc' = [p \in Procs |-> IF p \in Alive THEN [Fresh EXCEPT !.state = "dead"] ELSE proc[p]]
  /\ UNCHANGED <<calls, returned>>

Next ==
  \/ PowerLoss
  \/ \E p \in Procs : Start(p) \/ Enter(p) \/ Write(p) \/ AppendFails(p) \/ Dies(p)

Spec == Init /\ [][Next]_vars

-----------------------------------------------------------------------------

\* Mutant: verify passes over the lines it cannot read.
LinkSkips(prev, line) == line.text = Garbled \/ line.claim = Append(prev, line.text)

\* verify: a line is long enough and its hash is that of what it follows.
Link(prev, line) == line.text # Garbled /\ line.claim = Append(prev, line.text)

Claim(i) == IF i = 0 THEN <<>> ELSE lines[i].claim

Verifies == \A i \in 1 .. Len(lines) : Link(Claim(i - 1), lines[i])

-----------------------------------------------------------------------------
(* Properties *)

FileOK == lines \in Seq(Lines) /\ cutOff \in BOOLEAN

\* The mutex: one append at a time in each process.
ProcsOK ==
  /\ proc \in [Procs -> AuditLogs]
  /\ \A p \in Procs : \A c, d \in proc[p].inside : c = d

CountsOK ==
  /\ calls \in 0 .. MaxCalls /\ returned \subseteq Events
  /\ mishaps \subseteq {"torn", "disowned", "overlap", "power"}

TypeOK == FileOK /\ ProcsOK /\ CountsOK

\* While trust planes follow one another, no line was torn and no process lived
\* on after a line of its that landed in an append that threw, the ledger
\* verifies: whatever crashed between two lines, in an append or lost power, and
\* whoever lived on after an append that left nothing.
AloneVerifies == mishaps \subseteq {"power"} => Verifies

\* A ledger that verifies holds every event whose append returned, once: no
\* torn line and no second writer hides one behind a chain that fits.
VerifiedIsComplete ==
  "power" \notin mishaps /\ Verifies =>
    /\ \A e \in returned : \E i \in 1 .. Len(lines) : lines[i].text = e
    /\ \A i, j \in 1 .. Len(lines) : lines[i].text = lines[j].text => i = j

=============================================================================
