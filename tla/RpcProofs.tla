----------------------------- MODULE RpcProofs -----------------------------
(***************************************************************************)
(* RpcClient implements RemoteCall, and one healthy endpoint is enough, for *)
(* every number of endpoints and of calls.                                 *)
(***************************************************************************)
EXTENDS RpcClient, TLAPS

Verdicts == {"none", "result", "refused", "mismatch", "failed"}

Answers == [kind : {"echo", "error", "nonsense", "other"}, id : Calls]

Wires ==
  {NoWire} \cup [kind : {"request"}, id : Calls]
           \cup [kind : {"answer"}, says : Answers]

TypeOK ==
  /\ walk \in {"rpc", "esplora"}
  /\ healthy \subseteq Endpoints /\ plain \subseteq Endpoints \ healthy
  /\ asked \in 0..MaxCalls
  /\ told \in [Calls -> Verdicts]
  /\ pc \in {"idle", "try", "read"}
  /\ at \in Endpoints /\ attempt \in {1, 2}
  /\ conn \in [Endpoints -> {"none", "new", "served", "left"}]
  /\ wire \in [Endpoints -> Wires]
  /\ taken \subseteq Calls /\ limbo \subseteq Calls

\* The verdicts still out are those of calls not made and of the one running.
ToldInOrder ==
  \A c \in Calls : told[c] = "none" <=> (c > asked \/ (c = asked /\ pc # "idle"))

\* Only the running call is on a wire, and only where it waits for an answer.
OneWire ==
  /\ pc # "idle" => asked > 0
  /\ \A e \in Endpoints : wire[e] # NoWire => pc = "read" /\ e = at
  /\ wire[at].kind = "request" => wire[at].id = asked

\* An echo on a wire is of the call and of a transaction that was taken, or, on a
\* kept connection, of another call.
EchoIsTaken ==
  wire[at].kind = "answer" /\ wire[at].says.kind = "echo" =>
    \/ wire[at].says.id = asked /\ asked \in taken
    \/ wire[at].says.id # asked /\ walk = "rpc"

CallInv == ToldInOrder /\ OneWire /\ EchoIsTaken

PastOnly == \A c \in taken \cup limbo : c <= asked

\* The walk has passed no healthy endpoint; a second attempt is on a connection
\* that has served nothing, which a healthy server does not leave.
NonePassed ==
  /\ walk = "rpc" /\ pc # "idle" => \A e \in healthy : e >= at
  /\ pc # "idle" /\ at \in healthy /\ attempt = 2 => conn[at] \in {"none", "new"}

\* A healthy endpoint answers what it was asked.
HonestAnswer ==
  at \in healthy /\ wire[at].kind = "answer" =>
    wire[at].says.kind \in {"echo", "error"} /\ wire[at].says.id = asked

HealthInv == NonePassed /\ HonestAnswer /\ OneHealthyIsEnough

IInv == TypeOK /\ PastOnly /\ CallInv /\ HealthInv

(***************************************************************************)
(* Types.                                                                  *)
(***************************************************************************)

\* What may be on a wire.
LEMMA WireKinds ==
  ASSUME TypeOK, NEW e \in Endpoints
  PROVE  /\ wire[e].kind \in {"none", "request", "answer"}
         /\ wire[e].kind = "none" => wire[e] = NoWire
         /\ wire[e].kind = "request" => wire[e].id \in Calls
         /\ wire[e].kind = "answer" => wire[e].says \in Answers
<1>1. wire[e] \in Wires
  BY DEF TypeOK
<1>2. QED
  BY <1>1 DEF Wires, NoWire

\* A failed attempt leaves the call well-formed.
LEMMA FailTypes ==
  ASSUME TypeOK, pc # "idle" => asked > 0, pc # "idle",
         EndpointFails \/ AttemptFails
  PROVE  /\ told' \in [Calls -> Verdicts] /\ asked' = asked
         /\ pc' \in {"idle", "try"} /\ at' \in Endpoints /\ attempt' \in {1, 2}
<1>1. CASE at = MaxEndpoints /\ EndpointFails
  BY <1>1 DEF EndpointFails, Tell, TypeOK, Verdicts
<1>2. CASE at # MaxEndpoints /\ EndpointFails
  BY <1>2, RpcAssumption DEF EndpointFails, TypeOK, Endpoints, RpcAssumption
<1>3. CASE attempt = 1 /\ AttemptFails
  BY <1>3 DEF AttemptFails, TypeOK
<1>4. QED
  BY <1>1, <1>2, <1>3 DEF AttemptFails

\* A request whose connection is closed may still be read.
LEMMA CloseTypes ==
  ASSUME TypeOK, NEW e \in Endpoints, Close(e)
  PROVE  /\ conn' \in [Endpoints -> {"none", "new", "served", "left"}]
         /\ wire' \in [Endpoints -> Wires]
         /\ limbo' \subseteq Calls
<1>1. limbo' \subseteq Calls
  BY WireKinds DEF Close, TypeOK
<1>2. NoWire \in Wires
  BY DEF Wires
<1>3. QED
  BY <1>1, <1>2 DEF Close, TypeOK

LEMMA AnswerTypes ==
  ASSUME TypeOK, NEW e \in Endpoints, NEW id \in Calls,
         NEW kind \in {"echo", "error", "nonsense", "other"},
         Answer(e, kind, id)
  PROVE  wire' \in [Endpoints -> Wires]
<1>1. [kind |-> "answer", says |-> [kind |-> kind, id |-> id]] \in Wires
  BY DEF Wires, Answers
<1>2. QED
  BY <1>1 DEF Answer, TypeOK

LEMMA InitTypes == Init => TypeOK
<1> SUFFICES ASSUME Init PROVE TypeOK
  OBVIOUS
<1>1. NoWire \in Wires
  BY DEF Wires
<1>2. 1 \in Endpoints /\ 0 \in 0..MaxCalls
  BY RpcAssumption DEF Endpoints, RpcAssumption
<1>3. QED
  BY <1>1, <1>2 DEF Init, TypeOK, Verdicts

LEMMA StepTypes == TypeOK /\ (pc # "idle" => asked > 0) /\ [Next]_vars => TypeOK'
<1> SUFFICES ASSUME TypeOK, pc # "idle" => asked > 0, [Next]_vars PROVE TypeOK'
  OBVIOUS
<1>1. CASE Ask
  <2>1. UNCHANGED <<world, told, taken, limbo>>
    BY <1>1 DEF Ask
  <2>2. asked' \in 0..MaxCalls /\ pc' = "try" /\ at' \in Endpoints /\ attempt' = 1
    BY <1>1, RpcAssumption DEF Ask, TypeOK, Endpoints, RpcAssumption
  <2>3. /\ conn' \in [Endpoints -> {"none", "new", "served", "left"}]
        /\ wire' \in [Endpoints -> Wires]
    <3>1. NoWire \in Wires
      BY DEF Wires
    <3>2. QED
      BY <1>1, <3>1 DEF Ask, TypeOK, net
  <2>4. QED
    BY <2>1, <2>2, <2>3 DEF TypeOK, world
<1>2. CASE NotHttps
  BY <1>2, FailTypes DEF NotHttps, TypeOK, world, net
<1>3. CASE Connect
  <2>1. conn' \in [Endpoints -> {"none", "new", "served", "left"}]
    BY <1>3 DEF Connect, TypeOK
  <2>2. UNCHANGED call \/ AttemptFails
    BY <1>3 DEF Connect
  <2>3. QED
    BY <1>3, <2>1, <2>2, FailTypes DEF Connect, TypeOK, world, call
<1>4. CASE Write
  <2>1. CASE pc' = "read"
    <3>1. [kind |-> "request", id |-> asked] \in Wires
      BY <1>4 DEF Write, TypeOK, Wires, Calls
    <3>2. QED
      BY <1>4, <2>1, <3>1 DEF Write, TypeOK, world, AttemptFails, EndpointFails, Tell
  <2>2. CASE AttemptFails /\ Close(at)
    BY <1>4, <2>2, FailTypes, CloseTypes DEF Write, TypeOK, world
  <2>3. QED
    BY <1>4, <2>1, <2>2 DEF Write
<1>5. CASE ReadFails
  BY <1>5, FailTypes, CloseTypes DEF ReadFails, TypeOK, world
<1>6. CASE Read
  <2>1. /\ wire' \in [Endpoints -> Wires]
        /\ conn' \in [Endpoints -> {"none", "new", "served", "left"}]
    <3>1. NoWire \in Wires
      BY DEF Wires
    <3>2. QED
      BY <1>6, <3>1 DEF Read, TypeOK
  <2>2. /\ told' \in [Calls -> Verdicts] /\ asked' = asked
        /\ pc' \in {"idle", "try"} /\ at' \in Endpoints /\ attempt' \in {1, 2}
    <3>1. CASE EndpointFails
      BY <1>6, <3>1, FailTypes DEF Read
    <3>2. CASE Tell(Judges(wire[at].says)) /\ Judges(wire[at].says) # "next"
      <4>1. wire[at].says \in Answers
        BY <1>6, WireKinds DEF Read, TypeOK
      <4>2. Judges(wire[at].says) \in Verdicts
        BY <4>1, <3>2 DEF Judges, RpcJudges, EsploraJudges, Parses, Answers, Verdicts
      <4>3. QED
        BY <3>2, <4>2 DEF Tell, TypeOK
    <3>3. QED
      BY <1>6, <3>1, <3>2 DEF Read
  <2>3. QED
    BY <1>6, <2>1, <2>2 DEF Read, TypeOK, world
<1>7. ASSUME NEW e \in Endpoints, Serve(e) PROVE TypeOK'
  <2>1. wire[e].id \in Calls
    BY <1>7, WireKinds DEF Serve
  <2>2. taken' \subseteq Calls
    BY <1>7, <2>1 DEF Serve, Echoes, Refuses, Misbehaves, TypeOK
  <2>3. wire' \in [Endpoints -> Wires]
    <3>1. \A id \in 1..(asked - 1) : id \in Calls
      BY RpcAssumption DEF TypeOK, Calls, RpcAssumption
    <3>2. QED
      BY <1>7, <2>1, <3>1, AnswerTypes DEF Serve, Echoes, Refuses, Misbehaves
  <2>4. QED
    BY <1>7, <2>2, <2>3 DEF Serve, TypeOK, world, call
<1>8. ASSUME NEW e \in Endpoints, HangUp(e) PROVE TypeOK'
  <2>1. limbo' \subseteq Calls
    BY <1>8, WireKinds DEF HangUp, TypeOK
  <2>2. NoWire \in Wires
    BY DEF Wires
  <2>3. QED
    BY <1>8, <2>1, <2>2 DEF HangUp, TypeOK, world, call
<1>9. CASE LateTake
  BY <1>9 DEF LateTake, TypeOK, world, call, net
<1>10. CASE UNCHANGED vars
  BY <1>10 DEF vars, TypeOK, world, call, net
<1>11. QED
  BY <1>1, <1>2, <1>3, <1>4, <1>5, <1>6, <1>7, <1>8, <1>9, <1>10
     DEF Next, Client

(***************************************************************************)
(* One call at a time, and what an echo on its wire says.                  *)
(***************************************************************************)

Serving == TypeOK /\ PastOnly /\ CallInv

\* The wires of the other endpoints are free, and no echo is in sight.
LEMMA CallEnds ==
  ASSUME Serving, pc # "idle", EndpointFails \/ AttemptFails,
         wire' = [wire EXCEPT ![at] = NoWire], TypeOK',
         \A e \in Endpoints : wire[e] # NoWire => e = at
  PROVE  ToldInOrder' /\ OneWire' /\ EchoIsTaken'
<1>1. \A e \in Endpoints : wire'[e] = NoWire
  BY DEF Serving, TypeOK
<1>2. OneWire' /\ EchoIsTaken'
  <2>1. asked' > 0
    BY DEF Serving, CallInv, OneWire, EndpointFails, AttemptFails, Tell
  <2>2. wire'[at'] = NoWire
    BY <1>1 DEF TypeOK
  <2>3. QED
    BY <1>1, <2>1, <2>2 DEF OneWire, EchoIsTaken, NoWire
<1>3. CASE pc' = "idle"
  <2>1. told' = [told EXCEPT ![asked] = "failed"] /\ asked' = asked
    BY <1>3 DEF EndpointFails, AttemptFails, Tell
  <2>2. QED
    BY <1>2, <1>3, <2>1 DEF Serving, CallInv, ToldInOrder, TypeOK, Calls
<1>4. CASE pc' # "idle"
  <2>1. UNCHANGED <<told, asked>>
    BY <1>4 DEF EndpointFails, AttemptFails, Tell
  <2>2. QED
    BY <1>2, <1>4, <2>1 DEF Serving, CallInv, ToldInOrder
<1>5. QED
  BY <1>3, <1>4

\* Where nothing is on the wires, a failure leaves nothing there.
LEMMA FreeWires ==
  ASSUME Serving, pc # "read"
  PROVE  /\ \A e \in Endpoints : wire[e] = NoWire
         /\ wire = [wire EXCEPT ![at] = NoWire]
  BY DEF Serving, CallInv, OneWire, TypeOK

LEMMA InitServing == Init => PastOnly /\ CallInv
<1> SUFFICES ASSUME Init PROVE PastOnly /\ CallInv
  OBVIOUS
<1>1. 1 \in Endpoints
  BY RpcAssumption DEF Endpoints, RpcAssumption
<1>2. PastOnly /\ ToldInOrder
  BY DEF Init, PastOnly, ToldInOrder, Calls
<1>3. OneWire /\ EchoIsTaken
  BY <1>1 DEF Init, OneWire, EchoIsTaken, NoWire
<1>4. QED
  BY <1>2, <1>3 DEF CallInv

\* The request on a wire is the running call's.
LEMMA RequestIsAsked ==
  ASSUME Serving, NEW e \in Endpoints, wire[e].kind = "request"
  PROVE  e = at /\ pc = "read" /\ wire[e].id = asked
<1>1. wire[e] # NoWire
  BY DEF NoWire
<1>2. QED
  BY <1>1 DEF Serving, CallInv, OneWire

\* The running call goes on or ends; calls are made one by one.
LEMMA AskedGrows ==
  ASSUME Serving, [Next]_vars
  PROVE  asked' = asked \/ (Ask /\ asked' = asked + 1)
<1>1. CASE Ask
  BY <1>1 DEF Ask
<1>2. ASSUME EndpointFails \/ AttemptFails PROVE asked' = asked
  BY <1>2 DEF EndpointFails, AttemptFails, Tell
<1>3. CASE NotHttps \/ ReadFails
  BY <1>2, <1>3 DEF NotHttps, ReadFails
<1>4. CASE Connect \/ Write
  BY <1>2, <1>4 DEF Connect, Write, call
<1>5. CASE Read
  BY <1>2, <1>5 DEF Read, Tell
<1>6. CASE (\E e \in Endpoints : Serve(e) \/ HangUp(e)) \/ LateTake \/ UNCHANGED vars
  BY <1>6 DEF Serve, HangUp, LateTake, vars, call
<1>7. QED
  BY <1>1, <1>3, <1>4, <1>5, <1>6 DEF Next, Client

LEMMA StepPast == Serving /\ [Next]_vars => PastOnly'
<1> SUFFICES ASSUME Serving, [Next]_vars PROVE PastOnly'
  OBVIOUS
<1>1. asked \in Nat /\ PastOnly
  BY DEF Serving, TypeOK
<1>2. ASSUME NEW e \in Endpoints, Close(e) \/ HangUp(e)
      PROVE  \A c \in limbo' : c \in limbo \/ c = asked
  BY <1>2, RequestIsAsked DEF Close, HangUp
<1>3. \A c \in limbo' : c \in limbo \/ c = asked
  <2>1. CASE ReadFails \/ Write
    BY <1>2, <2>1 DEF ReadFails, Write, Serving, TypeOK
  <2>2. CASE \E e \in Endpoints : HangUp(e)
    BY <1>2, <2>2
  <2>3. CASE Ask \/ NotHttps \/ Connect \/ Read \/ LateTake
    BY <2>3 DEF Ask, NotHttps, Connect, Read, LateTake
  <2>4. CASE (\E e \in Endpoints : Serve(e)) \/ UNCHANGED vars
    BY <2>4 DEF Serve, vars
  <2>5. QED
    BY <2>1, <2>2, <2>3, <2>4 DEF Next, Client
<1>4. \A c \in taken' : c \in taken \cup limbo \/ c \in 0..asked
  <2>1. ASSUME NEW e \in Endpoints, Serve(e)
        PROVE  \A c \in taken' : c \in taken \/ c = asked
    BY <2>1, RequestIsAsked DEF Serve, Echoes, Refuses, Misbehaves
  <2>2. CASE LateTake
    BY <2>2 DEF LateTake
  <2>3. CASE Ask \/ NotHttps \/ Connect \/ Write \/ ReadFails \/ Read
    BY <2>3 DEF Ask, NotHttps, Connect, Write, ReadFails, Read
  <2>4. CASE (\E e \in Endpoints : HangUp(e)) \/ UNCHANGED vars
    BY <2>4 DEF HangUp, vars
  <2>5. QED
    BY <1>1, <2>1, <2>2, <2>3, <2>4 DEF Next, Client
<1>5. QED
  <2>1. \A c \in taken' \cup limbo' : c \in Nat /\ c <= asked
    <3>1. \A c \in taken \cup limbo : c \in Nat /\ c <= asked
      BY <1>1 DEF PastOnly, Serving, TypeOK, Calls
    <3>2. \A c \in 0..asked : c \in Nat /\ c <= asked
      BY <1>1
    <3>3. asked \in Nat /\ asked <= asked
      BY <1>1
    <3>4. QED
      BY <1>3, <1>4, <3>1, <3>2, <3>3
  <2>2. asked' \in Nat /\ asked <= asked'
    BY <1>1, AskedGrows
  <2>3. QED
    BY <1>1, <2>1, <2>2 DEF PastOnly

\* A judgement that ends a call is a verdict.
LEMMA JudgesSpeaks ==
  ASSUME Serving, wire[at].kind = "answer", Judges(wire[at].says) # "next"
  PROVE  /\ Judges(wire[at].says) \in {"result", "refused", "mismatch"}
         /\ Judges(wire[at].says) = "result" => asked \in taken
<1>1. wire[at].says \in Answers
  BY WireKinds DEF Serving, TypeOK
<1>2. Judges(wire[at].says) \in {"result", "refused", "mismatch"}
  BY <1>1 DEF Judges, RpcJudges, EsploraJudges, Parses, Answers
<1>3. ASSUME Judges(wire[at].says) = "result" PROVE asked \in taken
  <2>1. CASE walk = "rpc"
    <3>1. Parses(wire[at].says) /\ wire[at].says.kind = "echo"
      BY <1>1, <1>3, <2>1 DEF Judges, RpcJudges, Parses, Answers
    <3>2. QED
      BY <3>1 DEF Parses, Serving, CallInv, EchoIsTaken
  <2>2. CASE walk = "esplora"
    BY <1>3, <2>2 DEF Judges, EsploraJudges, Serving, CallInv, EchoIsTaken
  <2>3. QED
    BY <2>1, <2>2 DEF Serving, TypeOK
<1>4. QED
  BY <1>2, <1>3

LEMMA StepCall == Serving /\ TypeOK' /\ [Next]_vars => CallInv'
<1> SUFFICES ASSUME Serving, TypeOK', [Next]_vars PROVE CallInv'
  OBVIOUS
<1>1. CASE Ask
  <2>1. \A e \in Endpoints : wire'[e] = NoWire
    BY <1>1, FreeWires DEF Ask, net
  <2>2. OneWire' /\ EchoIsTaken'
    <3>1. at' \in Endpoints /\ asked' > 0
      BY <1>1 DEF Ask, Serving, TypeOK
    <3>2. QED
      BY <2>1, <3>1 DEF OneWire, EchoIsTaken, NoWire
  <2>3. ToldInOrder'
    <3>1. asked' = asked + 1 /\ pc' = "try" /\ told' = told /\ pc = "idle"
      BY <1>1 DEF Ask
    <3>2. \A c \in Calls : (c > asked) <=> (c > asked + 1 \/ c = asked + 1)
      BY DEF Serving, TypeOK, Calls
    <3>3. QED
      BY <3>1, <3>2 DEF Serving, CallInv, ToldInOrder
  <2>4. QED
    BY <2>2, <2>3 DEF CallInv
<1>2. CASE NotHttps
  BY <1>2, FreeWires, CallEnds DEF NotHttps, CallInv, net
<1>3. CASE Connect
  <2>1. CASE UNCHANGED call
    BY <1>3, <2>1 DEF Connect, call, world, Serving, CallInv, ToldInOrder, OneWire,
       EchoIsTaken
  <2>2. CASE AttemptFails
    BY <1>3, <2>2, FreeWires, CallEnds DEF Connect, CallInv
  <2>3. QED
    BY <1>3, <2>1, <2>2 DEF Connect
<1>4. CASE Write
  <2>1. CASE AttemptFails /\ Close(at)
    BY <1>4, <2>1, FreeWires, CallEnds DEF Write, Close, CallInv
  <2>2. CASE /\ pc' = "read"
             /\ wire' = [wire EXCEPT ![at] = [kind |-> "request", id |-> asked]]
             /\ UNCHANGED <<asked, told, at>>
    <3>1. wire'[at] = [kind |-> "request", id |-> asked]
      BY <2>2 DEF Serving, TypeOK
    <3>2. \A e \in Endpoints : e # at => wire'[e] = NoWire
      BY <1>4, <2>2, FreeWires DEF Write, Serving, TypeOK
    <3>3. asked > 0 /\ ToldInOrder'
      BY <1>4, <2>2 DEF Write, Serving, CallInv, OneWire, ToldInOrder
    <3>4. QED
      BY <2>2, <3>1, <3>2, <3>3 DEF CallInv, OneWire, EchoIsTaken
  <2>3. QED
    BY <1>4, <2>1, <2>2 DEF Write
<1>5. CASE ReadFails
  BY <1>5, CallEnds DEF ReadFails, Close, CallInv, Serving, OneWire
<1>6. CASE Read
  <2>1. CASE EndpointFails
    BY <1>6, <2>1, CallEnds DEF Read, CallInv, Serving, OneWire
  <2>2. CASE Tell(Judges(wire[at].says)) /\ Judges(wire[at].says) # "next"
    <3>1. \A e \in Endpoints : wire'[e] = NoWire
      BY <1>6 DEF Read, Serving, CallInv, OneWire, TypeOK
    <3>2. OneWire' /\ EchoIsTaken'
      BY <2>2, <3>1 DEF Tell, OneWire, EchoIsTaken, NoWire, TypeOK
    <3>3. told' = [told EXCEPT ![asked] = told'[asked]] /\ asked \in Calls
      BY <1>6, <2>2 DEF Read, Tell, Serving, CallInv, OneWire, TypeOK, Calls
    <3>4. told'[asked] # "none"
      <4>1. wire[at].kind = "answer" /\ told'[asked] = Judges(wire[at].says)
        BY <1>6, <2>2, <3>3 DEF Read, Tell, Serving, TypeOK
      <4>2. QED
        BY <2>2, <4>1, JudgesSpeaks
    <3>5. QED
      BY <1>6, <2>2, <3>2, <3>3, <3>4
         DEF Read, Tell, Serving, CallInv, ToldInOrder, TypeOK, Calls
  <2>3. QED
    BY <1>6, <2>1, <2>2 DEF Read
<1>7. ASSUME NEW e \in Endpoints, Serve(e) PROVE CallInv'
  <2>1. e = at /\ pc = "read" /\ wire[at].id = asked /\ UNCHANGED <<asked, told, pc, at, walk>>
    BY <1>7, RequestIsAsked DEF Serve, call, world
  <2>2. PICK kind \in {"echo", "error", "nonsense", "other"}, id \in Calls :
          /\ Answer(at, kind, id)
          /\ kind = "echo" => \/ id = asked /\ asked \in taken'
                              \/ id # asked /\ walk = "rpc"
    <3>1. asked \in Calls /\ \A id \in 1..(asked - 1) : id \in Calls /\ id # asked
      <4>1. asked \in Nat /\ 0 < asked /\ asked <= MaxCalls /\ MaxCalls \in Nat
        BY <2>1, RpcAssumption
           DEF Serving, CallInv, OneWire, TypeOK, RpcAssumption
      <4>2. QED
        BY <4>1 DEF Calls
    <3>2. CASE Echoes(e) \/ Refuses(e)
      BY <2>1, <3>1, <3>2 DEF Echoes, Refuses
    <3>3. CASE Misbehaves(e)
      BY <2>1, <3>1, <3>3 DEF Misbehaves
    <3>4. QED
      BY <1>7, <3>2, <3>3 DEF Serve
  <2>3. wire'[at] = [kind |-> "answer", says |-> [kind |-> kind, id |-> id]]
    BY <2>2 DEF Answer, Serving, TypeOK
  <2>4. \A f \in Endpoints : f # at => wire'[f] = wire[f]
    BY <2>2 DEF Answer, Serving, TypeOK
  <2>5. OneWire' /\ ToldInOrder'
    BY <2>1, <2>3, <2>4 DEF Serving, CallInv, OneWire, ToldInOrder
  <2>6. EchoIsTaken'
    BY <2>1, <2>2, <2>3 DEF EchoIsTaken
  <2>7. QED
    BY <2>5, <2>6 DEF CallInv
<1>8. ASSUME NEW e \in Endpoints, HangUp(e) PROVE CallInv'
  <2>1. \A f \in Endpoints : wire'[f] = NoWire \/ wire'[f] = wire[f]
    BY <1>8 DEF HangUp, Serving, TypeOK
  <2>2. UNCHANGED <<asked, told, pc, at, walk, taken>> /\ at \in Endpoints
    BY <1>8 DEF HangUp, call, world, Serving, TypeOK
  <2>3. QED
    BY <2>1, <2>2 DEF Serving, CallInv, OneWire, ToldInOrder, EchoIsTaken, NoWire
<1>9. CASE LateTake
  <2>1. UNCHANGED <<asked, told, pc, at, walk, wire>> /\ taken \subseteq taken'
    BY <1>9 DEF LateTake, call, world, net
  <2>2. QED
    BY <2>1 DEF Serving, CallInv, OneWire, ToldInOrder, EchoIsTaken
<1>10. CASE UNCHANGED vars
  BY <1>10 DEF vars, call, world, net, Serving, CallInv, OneWire, ToldInOrder,
     EchoIsTaken
<1>11. QED
  BY <1>1, <1>2, <1>3, <1>4, <1>5, <1>6, <1>7, <1>8, <1>9, <1>10
     DEF Next, Client

(***************************************************************************)
(* The health of endpoints.                                                *)
(***************************************************************************)

Walking == Serving /\ HealthInv

\* A healthy endpoint is not the reason a walk goes on or ends.
LEMMA PassesTheSick ==
  ASSUME Walking, pc # "idle", EndpointFails, walk' = walk, healthy' = healthy,
         walk = "rpc" => at \notin healthy
  PROVE  /\ OneHealthyIsEnough'
         /\ walk' = "rpc" /\ pc' # "idle" => \A e \in healthy' : e >= at'
         /\ pc' # "idle" => attempt' = 1
<1>1. walk = "rpc" => \A e \in healthy : e >= at /\ e # at
  BY DEF Walking, HealthInv, NonePassed
<1>2. \A e \in healthy : e \in Nat /\ e <= MaxEndpoints
  BY RpcAssumption DEF Walking, Serving, TypeOK, Endpoints, RpcAssumption
<1>3. at \in Nat /\ MaxEndpoints \in Nat
  BY RpcAssumption DEF Walking, Serving, TypeOK, Endpoints, RpcAssumption
<1>4. CASE at = MaxEndpoints
  <2>1. walk = "rpc" => healthy = {}
    BY <1>1, <1>2, <1>3, <1>4
  <2>2. pc' = "idle"
    BY <1>4 DEF EndpointFails, Tell
  <2>3. QED
    BY <2>1, <2>2 DEF OneHealthyIsEnough
<1>5. CASE at # MaxEndpoints
  <2>1. at' = at + 1 /\ told' = told /\ attempt' = 1
    BY <1>5 DEF EndpointFails
  <2>2. walk = "rpc" => \A e \in healthy : e >= at + 1
    BY <1>1, <1>2, <1>3
  <2>3. QED
    BY <2>1, <2>2 DEF OneHealthyIsEnough, Walking, HealthInv
<1>6. QED
  BY <1>4, <1>5

\* The retry of a healthy endpoint gets a connection of its own.
LEMMA Retries ==
  ASSUME Walking, pc # "idle", AttemptFails, walk' = walk, healthy' = healthy,
         attempt = 2 => at \notin healthy,
         attempt = 1 => conn'[at] = "none"
  PROVE  NonePassed' /\ OneHealthyIsEnough'
<1>1. CASE attempt = 1
  BY <1>1 DEF AttemptFails, Walking, HealthInv, NonePassed, OneHealthyIsEnough
<1>2. CASE attempt # 1
  <2>1. EndpointFails /\ attempt = 2
    BY <1>2 DEF AttemptFails, Walking, Serving, TypeOK
  <2>2. QED
    BY <2>1, PassesTheSick DEF NonePassed
<1>3. QED
  BY <1>1, <1>2

LEMMA InitHealth == Init => HealthInv
<1> SUFFICES ASSUME Init PROVE HealthInv
  OBVIOUS
<1>1. 1 \in Endpoints
  BY RpcAssumption DEF Endpoints, RpcAssumption
<1>2. QED
  BY <1>1 DEF Init, HealthInv, NonePassed, HonestAnswer, OneHealthyIsEnough, NoWire

LEMMA StepHealth == Walking /\ Serving' /\ [Next]_vars => HealthInv'
<1> SUFFICES ASSUME Walking, Serving', [Next]_vars PROVE HealthInv'
  OBVIOUS
<1>1. walk' = walk /\ healthy' = healthy /\ plain' = plain
  <2>1. UNCHANGED world
    BY DEF Next, Client, Ask, NotHttps, Connect, Write, ReadFails, Read, Serve,
       HangUp, LateTake, vars
  <2>2. QED
    BY <2>1 DEF world
<1>2. at \in Endpoints /\ at' \in Endpoints /\ healthy \subseteq Endpoints
  BY DEF Walking, Serving, TypeOK
<1>3. ASSUME pc' # "read" PROVE HonestAnswer'
  BY <1>2, <1>3 DEF Serving, CallInv, OneWire, HonestAnswer, NoWire
<1>4. CASE Ask
  <2>1. healthy \subseteq Nat /\ \A e \in healthy : e >= 1
    BY <1>2 DEF Endpoints
  <2>2. QED
    BY <1>1, <1>3, <1>4, <2>1
       DEF Ask, HealthInv, NonePassed, OneHealthyIsEnough, Walking
<1>5. CASE NotHttps
  <2>1. at \notin healthy /\ pc # "idle" /\ EndpointFails
    BY <1>5 DEF NotHttps, Walking, Serving, TypeOK
  <2>2. pc' # "read"
    BY <2>1 DEF EndpointFails, Tell
  <2>3. QED
    BY <1>1, <1>3, <2>1, <2>2, PassesTheSick DEF HealthInv, NonePassed
<1>6. CASE Connect
  <2>1. CASE AttemptFails /\ at \notin healthy /\ conn' = conn
    <3>1. pc' # "read" /\ pc # "idle" /\ conn[at] = "none"
      BY <1>6, <2>1 DEF Connect, AttemptFails, EndpointFails, Tell
    <3>2. QED
      BY <1>1, <1>3, <2>1, <3>1, Retries DEF HealthInv
  <2>2. CASE UNCHANGED call /\ conn' = [conn EXCEPT ![at] = "new"]
    BY <1>1, <1>2, <1>3, <1>6, <2>2
       DEF Connect, call, HealthInv, NonePassed, OneHealthyIsEnough, Walking,
           Serving, TypeOK
  <2>3. QED
    BY <1>6, <2>1, <2>2 DEF Connect
<1>7. CASE Write
  <2>1. CASE AttemptFails /\ Close(at) /\ conn[at] = "left"
    <3>1. pc' # "read" /\ pc # "idle"
      BY <1>7, <2>1 DEF Write, AttemptFails, EndpointFails, Tell
    <3>2. conn'[at] = "none" /\ (attempt = 2 => at \notin healthy)
      BY <2>1, <3>1
         DEF Close, Walking, Serving, TypeOK, HealthInv, NonePassed
    <3>3. QED
      BY <1>1, <1>3, <2>1, <3>1, <3>2, Retries DEF HealthInv
  <2>2. CASE /\ wire' = [wire EXCEPT ![at] = [kind |-> "request", id |-> asked]]
             /\ UNCHANGED <<asked, told, at, attempt, conn>>
    <3>1. HonestAnswer'
      BY <1>2, <2>2 DEF HonestAnswer, Walking, Serving, TypeOK
    <3>2. QED
      BY <1>1, <1>7, <2>2, <3>1
         DEF Write, HealthInv, NonePassed, OneHealthyIsEnough, Walking
  <2>3. QED
    BY <1>7, <2>1, <2>2 DEF Write
<1>8. CASE ReadFails
  <2>1. pc' # "read" /\ pc # "idle" /\ AttemptFails
    BY <1>8 DEF ReadFails, AttemptFails, EndpointFails, Tell
  <2>2. conn'[at] = "none" /\ (attempt = 2 => at \notin healthy)
    BY <1>8, <2>1
       DEF ReadFails, Close, Walking, Serving, TypeOK, HealthInv, NonePassed
  <2>3. QED
    BY <1>1, <1>3, <2>1, <2>2, Retries DEF HealthInv
<1>9. CASE Read
  <2>1. CASE EndpointFails /\ Judges(wire[at].says) = "next"
    <3>1. pc' # "read" /\ pc # "idle"
      BY <1>9, <2>1 DEF Read, EndpointFails, Tell
    <3>2. walk = "rpc" => at \notin healthy
      <4>1. SUFFICES ASSUME walk = "rpc", at \in healthy PROVE FALSE
        OBVIOUS
      <4>2. Parses(wire[at].says) /\ wire[at].says.kind \in {"echo", "error"}
        BY <1>9, <4>1 DEF Read, Walking, HealthInv, HonestAnswer, Parses
      <4>3. RpcJudges(wire[at].says) # "next"
        BY <4>2 DEF RpcJudges
      <4>4. QED
        BY <2>1, <4>1, <4>3 DEF Judges
    <3>3. QED
      BY <1>1, <1>3, <2>1, <3>1, <3>2, PassesTheSick DEF HealthInv, NonePassed
  <2>2. CASE Tell(Judges(wire[at].says)) /\ Judges(wire[at].says) # "next"
    <3>1. Judges(wire[at].says) # "failed"
      BY <1>9, <2>2, JudgesSpeaks DEF Read, Walking
    <3>2. OneHealthyIsEnough'
      BY <1>1, <2>2, <3>1
         DEF Tell, OneHealthyIsEnough, Walking, HealthInv, Serving, TypeOK
    <3>3. QED
      BY <1>3, <2>2, <3>2 DEF Tell, HealthInv, NonePassed
  <2>3. QED
    BY <1>9, <2>1, <2>2 DEF Read
<1>10. ASSUME NEW e \in Endpoints, Serve(e) PROVE HealthInv'
  <2>1. e = at /\ wire[at].id = asked
    BY <1>10, RequestIsAsked DEF Serve, Walking
  <2>2. UNCHANGED <<asked, told, pc, at, attempt, conn>>
    BY <1>10 DEF Serve, call
  <2>3. HonestAnswer'
    <3>1. SUFFICES ASSUME at \in healthy PROVE HonestAnswer'
      BY <1>1, <2>2 DEF HonestAnswer
    <3>2. PICK kind \in {"echo", "error"} : Answer(at, kind, asked)
      BY <1>10, <2>1, <3>1 DEF Serve, Echoes, Refuses, Misbehaves
    <3>3. wire'[at] = [kind |-> "answer", says |-> [kind |-> kind, id |-> asked]]
      BY <3>2 DEF Answer, Walking, Serving, TypeOK
    <3>4. QED
      BY <2>2, <3>3 DEF HonestAnswer
  <2>4. QED
    BY <1>1, <2>2, <2>3
       DEF HealthInv, NonePassed, OneHealthyIsEnough, Walking
<1>11. ASSUME NEW e \in Endpoints, HangUp(e) PROVE HealthInv'
  <2>1. UNCHANGED <<asked, told, pc, at, attempt>>
    BY <1>11 DEF HangUp, call
  <2>2. HonestAnswer'
    BY <1>1, <1>2, <1>11, <2>1
       DEF HangUp, HonestAnswer, Walking, HealthInv, Serving, TypeOK, NoWire
  <2>3. at \in healthy /\ conn[at] \in {"none", "new"} => conn'[at] = conn[at]
    BY <1>2, <1>11 DEF HangUp, Walking, Serving, TypeOK
  <2>4. QED
    BY <1>1, <2>1, <2>2, <2>3
       DEF HealthInv, NonePassed, OneHealthyIsEnough, Walking
<1>12. CASE LateTake \/ UNCHANGED vars
  BY <1>1, <1>12
     DEF LateTake, vars, call, net, HealthInv, NonePassed, HonestAnswer,
         OneHealthyIsEnough, Walking
<1>13. QED
  BY <1>4, <1>5, <1>6, <1>7, <1>8, <1>9, <1>10, <1>11, <1>12 DEF Next, Client

(***************************************************************************)
(* The theorems.                                                           *)
(***************************************************************************)

LEMMA InitInv == Init => IInv
  BY InitTypes, InitServing, InitHealth DEF IInv

LEMMA StepInv == IInv /\ [Next]_vars => IInv'
<1> SUFFICES ASSUME IInv, [Next]_vars PROVE IInv'
  OBVIOUS
<1>1. Serving /\ Walking
  BY DEF IInv, Serving, Walking
<1>2. TypeOK'
  BY <1>1, StepTypes DEF Serving, CallInv, OneWire
<1>3. PastOnly' /\ CallInv'
  BY <1>1, <1>2, StepPast, StepCall
<1>4. HealthInv'
  BY <1>1, <1>2, <1>3, StepHealth DEF Serving
<1>5. QED
  BY <1>2, <1>3, <1>4 DEF IInv

\* An RpcClient gives a call up only when none of its endpoints is healthy,
\* however many endpoints and calls, kept connections and retries there are.
THEOREM HealthyEndpointSuffices == Spec => []OneHealthyIsEnough
<1>1. IInv => OneHealthyIsEnough
  BY DEF IInv, HealthInv
<1>2. QED
  BY InitInv, StepInv, <1>1, PTL DEF Spec

\* Every step of the client, its nodes and its network is a step of RemoteCall
\* or changes nothing there.
LEMMA StepRemote == IInv /\ [Next]_vars => [Remote!Next]_(Remote!vars)
<1> SUFFICES ASSUME IInv, [Next]_vars PROVE [Remote!Next]_(Remote!vars)
  OBVIOUS
<1>1. Serving
  BY DEF IInv, Serving
<1>2. asked \in Nat /\ asked <= MaxCalls /\ MaxCalls \in Nat
  BY <1>1, RpcAssumption DEF Serving, TypeOK, RpcAssumption
<1>3. CASE Ask
  <2>1. Remote!Ended
    BY <1>1, <1>2, <1>3
       DEF Ask, Remote!Ended, Serving, CallInv, ToldInOrder, Calls
  <2>2. QED
    BY <1>3, <2>1 DEF Ask, Remote!Next, Remote!Ask
<1>4. ASSUME pc # "idle", NEW verdict \in {"result", "refused", "mismatch", "failed"},
             Tell(verdict), taken' = taken, verdict = "result" => asked \in taken
      PROVE  Remote!Next
  <2>1. asked \in 1..asked /\ told[asked] = "none"
    BY <1>1, <1>2, <1>4 DEF Serving, CallInv, OneWire, ToldInOrder, Calls
  <2>2. QED
    BY <1>4, <2>1 DEF Tell, Remote!Next, Remote!Tell, Remote!Ended
<1>5. ASSUME pc # "idle", EndpointFails \/ AttemptFails, taken' = taken
      PROVE  [Remote!Next]_(Remote!vars)
  <2>1. CASE Tell("failed")
    BY <1>4, <1>5, <2>1
  <2>2. CASE UNCHANGED <<asked, told>>
    BY <1>5, <2>2 DEF Remote!vars
  <2>3. QED
    BY <1>5, <2>1, <2>2 DEF EndpointFails, AttemptFails
<1>6. CASE NotHttps \/ ReadFails
  BY <1>5, <1>6 DEF NotHttps, ReadFails
<1>7. CASE Connect
  BY <1>5, <1>7 DEF Connect, call, Remote!vars
<1>8. CASE Write
  BY <1>5, <1>8 DEF Write, Remote!vars
<1>9. CASE Read
  BY <1>1, <1>4, <1>5, <1>9, JudgesSpeaks DEF Read
<1>10. ASSUME NEW c \in Calls, c <= asked, taken' = taken \cup {c},
              UNCHANGED <<asked, told>>
       PROVE  Remote!Next
  <2>1. c \in 1..asked
    BY <1>2, <1>10 DEF Calls
  <2>2. c \in Remote!Calls
    BY DEF Calls, Remote!Calls
  <2>3. QED
    BY <1>10, <2>1, <2>2 DEF Remote!Next, Remote!Take
<1>11. ASSUME NEW e \in Endpoints, Serve(e) PROVE [Remote!Next]_(Remote!vars)
  <2>1. UNCHANGED <<asked, told>> /\ taken' \in {taken, taken \cup {wire[e].id}}
    BY <1>11 DEF Serve, call, Echoes, Refuses, Misbehaves
  <2>2. wire[e].id \in Calls /\ wire[e].id <= asked
    BY <1>1, <1>2, <1>11, WireKinds, RequestIsAsked DEF Serve, Serving
  <2>3. QED
    BY <1>10, <2>1, <2>2 DEF Remote!vars
<1>12. CASE LateTake
  <2>1. PICK c \in limbo : taken' = taken \cup {c}
    BY <1>12 DEF LateTake
  <2>2. c \in Calls /\ c <= asked
    BY <1>1 DEF Serving, TypeOK, PastOnly
  <2>3. QED
    BY <1>10, <1>12, <2>1, <2>2 DEF LateTake, call
<1>13. CASE (\E e \in Endpoints : HangUp(e)) \/ UNCHANGED vars
  BY <1>13 DEF HangUp, vars, call, Remote!vars
<1>14. QED
  BY <1>3, <1>6, <1>7, <1>8, <1>9, <1>11, <1>12, <1>13 DEF Next, Client

\* The client keeps RemoteCall's promise for every number of endpoints and calls:
\* calls end one by one, and success is told only of what some node has taken.
THEOREM KeepsRemotePromise == Spec => RemotePromise
<1>1. Init => Remote!Init
  BY DEF Init, Remote!Init, Calls, Remote!Calls
<1>2. QED
  BY InitInv, StepInv, StepRemote, <1>1, PTL DEF Spec, RemotePromise, Remote!Spec
=============================================================================
