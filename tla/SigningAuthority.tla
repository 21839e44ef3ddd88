-------------------------- MODULE SigningAuthority --------------------------
(***************************************************************************)
(* What the trust plane promises about each proposal, whatever threads,    *)
(* restarts and failures lie underneath: a proposal gets at most one       *)
(* verdict; a signature exists only for an approved proposal, at most      *)
(* once, and after its approval has been put on record; a proposal whose   *)
(* child died is never signed again.                                       *)
(*                                                                         *)
(* Keyd implements this specification (see Authority in Keyd.tla).         *)
(***************************************************************************)
EXTENDS Naturals

CONSTANT Proposals

VARIABLES
  verdict,     \* of each proposal: "none" before it is submitted
  recorded,    \* the proposals whose approval is on record
  signatures   \* how many signatures of each proposal have been given out

avars == <<verdict, recorded, signatures>>

Verdicts == {"none", "pending", "approved", "denied", "lost"}

Init ==
  /\ verdict = [p \in Proposals |-> "none"]
  /\ recorded = {}
  /\ signatures = [p \in Proposals |-> 0]

Submit(p) ==
  /\ verdict[p] = "none"
  /\ verdict' = [verdict EXCEPT ![p] = "pending"]
  /\ UNCHANGED <<recorded, signatures>>

Decide(p, v) ==
  /\ verdict[p] = "pending"
  /\ verdict' = [verdict EXCEPT ![p] = v]
  /\ UNCHANGED <<recorded, signatures>>

PutOnRecord(p) ==
  /\ verdict[p] = "approved" /\ p \notin recorded
  /\ recorded' = recorded \cup {p}
  /\ UNCHANGED <<verdict, signatures>>

GiveOut(p) ==
  /\ verdict[p] = "approved" /\ p \in recorded /\ signatures[p] = 0
  /\ signatures' = [signatures EXCEPT ![p] = 1]
  /\ UNCHANGED <<verdict, recorded>>

\* The trust plane ends: the proposals it held, and the names it did not get
\* to use, are lost.
Lose(S) ==
  /\ verdict' = [p \in Proposals |-> IF p \in S THEN "lost" ELSE verdict[p]]
  /\ UNCHANGED <<recorded, signatures>>

Next ==
  \/ \E p \in Proposals :
       \/ Submit(p) \/ PutOnRecord(p) \/ GiveOut(p)
       \/ \E v \in {"approved", "denied"} : Decide(p, v)
  \/ \E S \in SUBSET Proposals : Lose(S)

Spec == Init /\ [][Next]_avars
=============================================================================
