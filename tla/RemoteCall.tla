----------------------------- MODULE RemoteCall -----------------------------
(***************************************************************************)
(* What a page may rely on when it hands a transaction to a chain whose    *)
(* nodes are reached over a network: the calls are made one after another, *)
(* each ends in one verdict, and a verdict of success is about a           *)
(* transaction some node has taken.  A verdict of failure says nothing: a  *)
(* node may have taken the transaction before it, or take it after.        *)
(***************************************************************************)
EXTENDS Naturals

CONSTANT MaxCalls

VARIABLES
  asked,  \* calls made so far
  told,   \* the verdict of each call, "none" until it ends
  taken   \* the calls whose transaction some node has taken

vars == <<asked, told, taken>>

Calls == 1..MaxCalls

Init ==
  /\ asked = 0
  /\ told = [c \in Calls |-> "none"]
  /\ taken = {}

Ended == \A c \in 1..asked : told[c] # "none"

Ask ==
  /\ Ended /\ asked < MaxCalls
  /\ asked' = asked + 1
  /\ UNCHANGED <<told, taken>>

Take(c) ==
  /\ c \in 1..asked
  /\ taken' = taken \cup {c}
  /\ UNCHANGED <<asked, told>>

Tell(verdict) ==
  /\ ~Ended
  /\ verdict = "result" => asked \in taken
  /\ told' = [told EXCEPT ![asked] = verdict]
  /\ UNCHANGED <<asked, taken>>

Next ==
  \/ Ask
  \/ \E c \in Calls : Take(c)
  \/ \E verdict \in {"result", "refused", "mismatch", "failed"} : Tell(verdict)

Spec == Init /\ [][Next]_vars
=============================================================================
