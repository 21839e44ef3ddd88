----------------------------- MODULE RpcClient -----------------------------
(***************************************************************************)
(* The calls a delivery makes to hand a transaction to a chain: the walk   *)
(* over the endpoints (src/domain/chains/rpc_client.cpp, and esplora_walk  *)
(* of src/domain/btc/esplora.cpp), the client of one endpoint with its     *)
(* kept connection and its one retry (src/platform/net/http_client.cpp),   *)
(* and the check of the answer (src/domain/chains/jsonrpc.cpp, broadcast). *)
(*                                                                         *)
(* An endpoint is a number, tried in order.  A healthy one answers what it *)
(* is asked on a new connection and may hang up one it has served; any     *)
(* other refuses, answers nonsense, answers an earlier call, hangs up, or  *)
(* takes a transaction from a connection that is gone.  Every call hands   *)
(* over a transaction of its own: a call that only reads is one whose      *)
(* transaction nobody looks at.                                            *)
(***************************************************************************)
EXTENDS Naturals

CONSTANTS
  MaxEndpoints, \* endpoints of the chain
  MaxCalls      \* bound: calls made

ASSUME RpcAssumption == MaxEndpoints \in Nat \ {0} /\ MaxCalls \in Nat

VARIABLES
  walk,    \* "rpc": one client for all calls; "esplora": one per call
  healthy, \* the endpoints that serve
  plain,   \* the endpoints of the configuration that are not https
  asked,   \* m_next_id - 1
  told,    \* the verdict of each call
  pc,      \* where the current call is
  at,      \* the endpoint it is trying
  attempt, \* of request: 1, or 2 after the reconnect
  conn,    \* the stream of each endpoint's client, and whether the server has left
  wire,    \* what is on each connection: a request or an answer
  taken,   \* the calls whose transaction some node has taken
  limbo    \* the calls whose request a node may still have read

call == <<asked, told, pc, at, attempt>>
net == <<conn, wire>>
world == <<walk, healthy, plain>>
vars == <<world, call, net, taken, limbo>>

Endpoints == 1..MaxEndpoints
Calls == 1..MaxCalls
NoWire == [kind |-> "none"]

Init ==
  /\ walk \in {"rpc", "esplora"}
  /\ healthy \in SUBSET Endpoints /\ plain \in SUBSET (Endpoints \ healthy)
  /\ asked = 0 /\ told = [c \in Calls |-> "none"]
  /\ pc = "idle" /\ at = 1 /\ attempt = 1
  /\ conn = [e \in Endpoints |-> "none"]
  /\ wire = [e \in Endpoints |-> NoWire]
  /\ taken = {} /\ limbo = {}

(***************************************************************************)
(* The caller.                                                             *)
(***************************************************************************)

\* A connection that is closed leaves what was written on it with the server.
Close(e) ==
  /\ conn' = [conn EXCEPT ![e] = "none"]
  /\ wire' = [wire EXCEPT ![e] = NoWire]
  /\ limbo' = IF wire[e].kind = "request" THEN limbo \cup {wire[e].id} ELSE limbo

\* The walk of esplora has a client of its own for every call.
Ask ==
  /\ pc = "idle" /\ asked < MaxCalls
  /\ asked' = asked + 1
  /\ pc' = "try" /\ at' = 1 /\ attempt' = 1
  /\ IF walk = "esplora"
     THEN /\ conn' = [e \in Endpoints |-> "none"]
          /\ wire' = [e \in Endpoints |-> NoWire]
     ELSE UNCHANGED net
  /\ UNCHANGED <<world, told, taken, limbo>>

Tell(verdict) ==
  /\ told' = [told EXCEPT ![asked] = verdict]
  /\ pc' = "idle"
  /\ UNCHANGED <<asked, at, attempt>>

\* The client of the endpoint is dropped and the next one gets its turn.
EndpointFails ==
  IF at = MaxEndpoints THEN Tell("failed")
  ELSE /\ pc' = "try" /\ at' = at + 1 /\ attempt' = 1
       /\ UNCHANGED <<asked, told>>

\* Mutant: a kept connection that has died is not retried.
NeverRetries == EndpointFails

\* request: close, reconnect and retry once before giving up.
AttemptFails ==
  IF attempt = 1
  THEN pc' = "try" /\ attempt' = 2 /\ UNCHANGED <<asked, told, at>>
  ELSE EndpointFails

\* parse_https_url refuses the endpoint before there is a client.
NotHttps ==
  /\ pc = "try" /\ at \in plain
  /\ EndpointFails
  /\ UNCHANGED <<world, net, taken, limbo>>

Connect ==
  /\ pc = "try" /\ at \notin plain /\ conn[at] = "none"
  /\ \/ /\ conn' = [conn EXCEPT ![at] = "new"]
        /\ UNCHANGED call
     \/ /\ at \notin healthy
        /\ AttemptFails
        /\ UNCHANGED conn
  /\ UNCHANGED <<world, wire, taken, limbo>>

\* A write on a connection the server has left may fail, or seem to succeed.
Write ==
  /\ pc = "try" /\ at \notin plain /\ conn[at] # "none"
  /\ \/ /\ pc' = "read"
        /\ wire' = [wire EXCEPT ![at] = [kind |-> "request", id |-> asked]]
        /\ UNCHANGED <<asked, told, at, attempt, conn, limbo>>
     \/ /\ conn[at] = "left"
        /\ AttemptFails
        /\ Close(at)
  /\ UNCHANGED <<world, taken>>

ReadFails ==
  /\ pc = "read" /\ conn[at] = "left"
  /\ AttemptFails
  /\ Close(at)
  /\ UNCHANGED <<world, taken>>

\* Mutant: the id of an answer is not compared with that of the request.
BelievesAnyId(answer) == answer.kind # "nonsense"

Parses(answer) == answer.kind # "nonsense" /\ answer.id = asked

\* A node's own error is final; an echo of another hash throws after the walk.
RpcJudges(answer) ==
  CASE ~Parses(answer)                           -> "next"
    [] Parses(answer) /\ answer.kind = "echo"    -> "result"
    [] Parses(answer) /\ answer.kind = "error"   -> "refused"
    [] Parses(answer) /\ answer.kind = "other"   -> "mismatch"

\* Anything but an echo of the hash is one more failure of the walk.
EsploraJudges(answer) == IF answer.kind = "echo" THEN "result" ELSE "next"

Judges(answer) ==
  IF walk = "rpc" THEN RpcJudges(answer) ELSE EsploraJudges(answer)

\* The answer is read, the connection kept or closed as it says; a client whose
\* endpoint has failed is dropped with its connection.
Read ==
  /\ pc = "read" /\ wire[at].kind = "answer"
  /\ wire' = [wire EXCEPT ![at] = NoWire]
  /\ IF Judges(wire[at].says) = "next"
     THEN EndpointFails /\ conn' = [conn EXCEPT ![at] = "none"]
     ELSE /\ Tell(Judges(wire[at].says))
          /\ \E kept \in {"none", "served"} : conn' = [conn EXCEPT ![at] = kept]
  /\ UNCHANGED <<world, taken, limbo>>

Client == Ask \/ NotHttps \/ Connect \/ Write \/ ReadFails \/ Read

(***************************************************************************)
(* The nodes and the network (modelled from what the client defends        *)
(* against).                                                               *)
(***************************************************************************)

Answer(e, kind, id) ==
  wire' = [wire EXCEPT ![e] = [kind |-> "answer",
                               says |-> [kind |-> kind, id |-> id]]]

Echoes(e) ==
  /\ taken' = taken \cup {wire[e].id}
  /\ Answer(e, "echo", wire[e].id)

\* A node that has the transaction, or does not want it, says so.
Refuses(e) ==
  /\ Answer(e, "error", wire[e].id)
  /\ UNCHANGED taken

\* The transaction may be taken all the same; another call's answer is repeated.
Misbehaves(e) ==
  /\ e \notin healthy
  /\ taken' \in {taken, taken \cup {wire[e].id}}
  /\ \/ \E kind \in {"nonsense", "other"} : Answer(e, kind, wire[e].id)
     \/ \E id \in 1..(asked - 1) : walk = "rpc" /\ Answer(e, "echo", id)

Serve(e) ==
  /\ wire[e].kind = "request" /\ conn[e] # "left"
  /\ Echoes(e) \/ Refuses(e) \/ Misbehaves(e)
  /\ UNCHANGED <<world, call, conn, limbo>>

\* A server hangs up: a healthy one only on a connection it has served before,
\* be it with a request on it.  What it has read it may still take.
HangUp(e) ==
  /\ conn[e] = "served" \/ (conn[e] = "new" /\ e \notin healthy)
  /\ conn' = [conn EXCEPT ![e] = "left"]
  /\ wire' = [wire EXCEPT ![e] = NoWire]
  /\ limbo' = IF wire[e].kind = "request" THEN limbo \cup {wire[e].id} ELSE limbo
  /\ UNCHANGED <<world, call, taken>>

LateTake ==
  /\ \E c \in limbo : taken' = taken \cup {c}
  /\ UNCHANGED <<world, call, net, limbo>>

Next == Client \/ (\E e \in Endpoints : Serve(e) \/ HangUp(e)) \/ LateTake

Spec == Init /\ [][Next]_vars

(***************************************************************************)
(* Properties.                                                             *)
(***************************************************************************)

Remote == INSTANCE RemoteCall

\* Calls are told once, in the order they were made, and success is told only of
\* a transaction a node has taken, whatever was lost, repeated or answered by
\* another call's answer on the way.
RemotePromise == Remote!Spec

\* One endpoint that serves is enough: an RpcClient that gives a call up has none
\* healthy, though any kept connection may have died in the meantime (a node's
\* refusal and an echo of another hash are ends of their own).  A call that hangs
\* on a silent endpoint is not given up and does not reach the next one.
OneHealthyIsEnough ==
  walk = "rpc" /\ healthy # {} => \A c \in Calls : told[c] # "failed"

=============================================================================
