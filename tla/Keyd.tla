-------------------------------- MODULE Keyd --------------------------------
(***************************************************************************)
(* The trust plane: the child process that owns the vault (src/keyd).      *)
(*                                                                         *)
(* Three threads share it.  The password loop of child_main serves one     *)
(* frame at a time from its parent (the UI).  The proposal thread          *)
(* (serve_proposals) serves the clients of the open named pipe one after   *)
(* the other.  The autolock watcher runs a callback when the session locks *)
(* or the machine suspends.  They meet in the proposal queue, the audit    *)
(* ledger and the wallet holder, each behind a mutex of its own, so every  *)
(* step between two lock operations is an action here.                     *)
(*                                                                         *)
(* What the model leaves out: the bytes of keys, payloads and replies, the *)
(* derivation of addresses, the length of the throttle's sleeps, and the   *)
(* channel's encryption.  A payload is a member of Payload, Signable says  *)
(* whether it parses and the vault's wallet signs it.                      *)
(***************************************************************************)
EXTENDS Naturals, Sequences

CONSTANTS
  Payload,             \* the payloads a client may submit
  Signable,            \* those parse_proposal reads and the signer signs
  Origins,             \* who submits: the UI with its MAC, anyone without
  FrameOps,            \* the operations the parents use
  VaultHasSecret,      \* the wallet in the vault has something to reveal
  AutolockUp,          \* start_autolock_watch succeeded (kHardenedAutoLock)
  kPassThrottleAfter,  \* misses in a row before every attempt stalls
  MaxProposals,        \* bound: proposals per child
  MaxGen,              \* bound: children spawned in one behaviour
  MaxFrames,           \* bound: frames the parents send
  MaxNoise,            \* bound: pipe messages refused for a bad MAC
  MaxEvents            \* bound: session locks and suspends

AllOps == {"Unlock", "Lock", "Status", "Approve", "Deny", "Pending", "Fetch",
           "Address", "Reveal", "Shutdown", "Malformed"}

ASSUME KeydAssumption ==
  /\ Signable \subseteq Payload
  /\ Origins \subseteq {"ui", "anon"}
  /\ FrameOps \subseteq AllOps
  /\ VaultHasSecret \in BOOLEAN /\ AutolockUp \in BOOLEAN
  /\ kPassThrottleAfter \in Nat
  /\ MaxProposals \in Nat
  /\ MaxGen \in Nat
  /\ MaxFrames \in Nat
  /\ MaxNoise \in Nat
  /\ MaxEvents \in Nat

VARIABLES
  status,     \* the child process
  gen,        \* which child this is: ids and the queue start afresh in each
  parent,     \* the process that spawned it lives and holds the channel
  waiting,    \* the parent has sent a frame and blocks for its reply
  request,    \* the frame in the pipe to the child
  reply,      \* the reply in the pipe to the parent
  loop,       \* the password loop
  badPass,    \* its count of wrong passphrases in a row
  wallet,     \* the wallet holder: TRUE while a wallet is open in it
  queue,      \* the proposals; a proposal's id is its index
  ledger,     \* the audit file, which outlives the child
  pipe,       \* the proposal thread
  client,     \* a client is connected to the named pipe
  watch,      \* the watcher's callback
  due,        \* session locks and suspends not yet delivered to it
  events,     \* all of them, in the whole behaviour
  frames,     \* frames sent, in the whole behaviour
  noise,      \* badly authenticated submissions, in the whole behaviour
  released,   \* history: signatures written to the channel, per proposal
  accepted,   \* history: the proposals a client was told are accepted
  opened,     \* history: `events' when the last good Unlock came and took effect
  freeMisses  \* history: wrong guesses since a right one that cost no sleep

procVars  == <<status, gen, parent>>
hostVars  == <<waiting, request, reply>>
loopVars  == <<loop, badPass>>
pipeVars  == <<pipe, client, noise, accepted>>
watchVars == <<watch, due, events>>
vars == <<procVars, hostVars, loopVars, wallet, queue, ledger, pipeVars,
          watchVars, frames, released, opened, freeMisses>>

-----------------------------------------------------------------------------
(* Values *)

Ids   == 1 .. MaxProposals
Gens  == 1 .. MaxGen
Names == Gens \X Ids       \* a proposal, named over all children

PassOps == {"Unlock", "Approve", "Reveal"}

Frames  == [op : AllOps \cup {"none"}, id : 0 .. MaxProposals, right : BOOLEAN]
NoFrame == [op |-> "none", id |-> 0, right |-> FALSE]

\* What a parent sends: an id where the operation has one, a passphrase (the
\* right one or not) where it spends one.
Requests ==
  {f \in Frames : /\ f.op \in FrameOps
                  /\ f.id # 0 <=> f.op \in {"Approve", "Deny", "Fetch"}
                  /\ f.right => f.op \in PassOps}

Replies == {"none", "Hello", "Ok", "Err", "State", "PendingList",
            "ProposalBody", "RootSecret", "Signed", "AddressIs"}

Kinds == {"none", "submit", "badmac", "approve", "badpass", "signfail",
          "deny", "reveal", "revealbad", "autolock"}

Record(kind, g, id) == [kind |-> kind, gen |-> g, id |-> id]

Records  == [kind : Kinds, gen : 0 .. MaxGen, id : 0 .. MaxProposals]
NoRecord == Record("none", 0, 0)

Proposal == [payload : Payload, provenance : {"ui", "anon"},
             state : {"pending", "approved", "denied"}]

Loops == [at      : {"boot", "hello", "recv", "stall", "open", "sign",
                     "resolve", "audit", "reply"},
          frame   : Frames,
          stalled : BOOLEAN,
          seen    : 0 .. MaxEvents,
          record  : Records,
          answer  : Replies]

Pipes == [at     : {"new", "left", "read", "audit", "reply", "ended"},
          record : Records,
          id     : 0 .. MaxProposals]

Idle == [at |-> "recv", frame |-> NoFrame, stalled |-> FALSE, seen |-> 0,
         record |-> NoRecord, answer |-> "none"]

QuietPipe == [at |-> "read", record |-> NoRecord, id |-> 0]

Written(kind, p) ==
  \E i \in 1 .. Len(ledger) : ledger[i] = Record(kind, p[1], p[2])

StateOf(id) == IF id \in 1 .. Len(queue) THEN queue[id].state ELSE "unknown"

-----------------------------------------------------------------------------
(* The process: spawned by a parent, killed, or left behind by it *)

Init ==
  /\ status = "none" /\ gen = 0 /\ parent = FALSE
  /\ waiting = FALSE /\ request = NoFrame /\ reply = "none"
  /\ loop = Idle /\ badPass = 0
  /\ wallet = FALSE
  /\ queue = <<>>
  /\ ledger = <<>>
  /\ pipe = QuietPipe /\ client = FALSE /\ noise = 0 /\ accepted = {}
  /\ watch = "idle" /\ due = 0 /\ events = 0
  /\ frames = 0
  /\ released = [p \in Names |-> 0]
  /\ opened = [asked |-> 0, at |-> 0]
  /\ freeMisses = 0

\* A process ends and its memory is gone; the ledger stays, and so does a reply
\* the parent has not read yet.
Ends(how) ==
  /\ status' = how
  /\ request' = NoFrame
  /\ loop' = Idle
  /\ wallet' = FALSE
  /\ queue' = <<>>
  /\ pipe' = QuietPipe /\ client' = FALSE
  /\ watch' = "idle" /\ due' = 0
  /\ UNCHANGED <<gen, parent, waiting, badPass, ledger, noise, accepted, events,
                 frames, released, opened, freeMisses>>

\* A parent spawns a child and blocks for its Hello.  All the child knows is
\* fresh; the ledger file is the last one's.
Spawn ==
  /\ status # "running"
  /\ gen < MaxGen
  /\ status' = "running" /\ gen' = gen + 1 /\ parent' = TRUE
  /\ waiting' = TRUE /\ reply' = "none"
  /\ loop' = [Idle EXCEPT !.at = "boot"]
  /\ badPass' = 0 /\ freeMisses' = 0
  /\ UNCHANGED <<request, wallet, queue, ledger, pipeVars, watchVars, frames,
                 released, opened>>

\* The proposal plane takes its pipe name and starts the two threads, all
\* before Hello; a name already taken ends the child.
StartPlane ==
  /\ status = "running" /\ loop.at = "boot"
  /\ loop' = [loop EXCEPT !.at = "hello"]
  /\ pipe' = [QuietPipe EXCEPT !.at = "new"]
  /\ UNCHANGED <<procVars, hostVars, badPass, wallet, queue, ledger, client, noise,
                 accepted, watchVars, frames, released, opened, freeMisses>>

NameTaken ==
  /\ status = "running" /\ loop.at = "boot"
  /\ Ends("exit3") /\ UNCHANGED reply

ParentDies ==
  /\ status = "running" /\ parent
  /\ parent' = FALSE
  /\ UNCHANGED <<status, gen, hostVars, loopVars, wallet, queue, ledger,
                 pipeVars, watchVars, frames, released, opened, freeMisses>>

\* Killed from outside.  The file has what append had flushed to the system: a
\* power loss, which may take that too, is AuditLedger's.
Killed ==
  /\ status = "running"
  /\ Ends("killed") /\ UNCHANGED reply

-----------------------------------------------------------------------------
(* The parent's end of the channel: KeydClient::request *)

Send(f) ==
  /\ status = "running" /\ parent /\ ~waiting
  /\ frames < MaxFrames
  /\ waiting' = TRUE
  /\ request' = f
  /\ frames' = frames + 1
  /\ UNCHANGED <<procVars, reply, loopVars, wallet, queue, ledger, pipeVars,
                 watchVars, released, opened, freeMisses>>

Receive ==
  /\ parent /\ waiting /\ reply # "none"
  /\ waiting' = FALSE
  /\ reply' = "none"
  /\ UNCHANGED <<procVars, request, loopVars, wallet, queue, ledger, pipeVars,
                 watchVars, frames, released, opened, freeMisses>>

-----------------------------------------------------------------------------
(* The password loop of child_main.  A frame that takes one lock once is   *)
(* one action; the others walk through the steps below.                    *)

At(place) == status = "running" /\ loop.at = place

Got(ops) == At("recv") /\ request.op \in ops

\* SecretChannel::send: to a parent that is gone it fails, and nobody looks.
SendReply(r) == reply' = IF parent THEN r ELSE reply

\* The wallet holder's mutex: the watcher keeps it while it writes its record.
HolderFree == watch = "idle"

LoopHello ==
  /\ At("hello")
  /\ IF parent
       THEN /\ loop' = Idle
            /\ SendReply("Hello")
            /\ UNCHANGED <<procVars, waiting, request, badPass, wallet, queue,
                           ledger, pipeVars, watchVars, frames, released,
                           opened, freeMisses>>
       ELSE Ends("exit0") /\ UNCHANGED reply

\* Mutant: the child stays while a wallet is open.
LoopParentGoneUnlessOpen ==
  /\ At("recv") /\ request = NoFrame /\ ~parent /\ ~wallet
  /\ Ends("exit0") /\ UNCHANGED reply

\* recv finds the parent gone and no frame left.
LoopParentGone ==
  /\ At("recv") /\ request = NoFrame /\ ~parent
  /\ Ends("exit0") /\ UNCHANGED reply

LoopLock ==
  /\ Got({"Lock"}) /\ HolderFree
  /\ request' = NoFrame
  /\ wallet' = FALSE
  /\ SendReply("Ok")
  /\ UNCHANGED <<procVars, waiting, loopVars, queue, ledger, pipeVars,
                 watchVars, frames, released, opened, freeMisses>>

LoopShutdown ==
  /\ Got({"Shutdown"}) /\ HolderFree
  /\ SendReply("Ok")
  /\ Ends("exit0")

\* The frames that change nothing: what each of them is answered.  (A derivation
\* that fails, or a short frame, is answered Err; nothing else differs.)
ReadReply(f) ==
  CASE f.op = "Status"    -> "State"
    [] f.op = "Pending"   -> "PendingList"
    [] f.op = "Fetch"     -> IF StateOf(f.id) = "unknown" THEN "Err" ELSE "ProposalBody"
    [] f.op = "Address"   -> IF wallet THEN "AddressIs" ELSE "Err"
    [] f.op = "Malformed" -> "Err"

\* Mutant: a Fetch of an unknown id is dropped.
LoopReadDrops ==
  /\ Got({"Status", "Pending", "Fetch", "Address", "Malformed"})
  /\ request.op \in {"Status", "Address"} => HolderFree
  /\ request' = NoFrame
  /\ IF request.op = "Fetch" /\ StateOf(request.id) = "unknown"
       THEN UNCHANGED reply
       ELSE SendReply(ReadReply(request))
  /\ UNCHANGED <<procVars, waiting, loopVars, wallet, queue, ledger, pipeVars,
                 watchVars, frames, released, opened, freeMisses>>

LoopRead ==
  /\ Got({"Status", "Pending", "Fetch", "Address", "Malformed"})
  /\ request.op \in {"Status", "Address"} => HolderFree
  /\ request' = NoFrame
  /\ SendReply(ReadReply(request))
  /\ UNCHANGED <<procVars, waiting, loopVars, wallet, queue, ledger, pipeVars,
                 watchVars, frames, released, opened, freeMisses>>

\* Mutant: any proposal there is.
CanResolveAny(id) == StateOf(id) # "unknown"

\* ProposalQueue::resolve: only a pending proposal, once.
CanResolve(id) == StateOf(id) = "pending"
Resolve(id, verdict) == queue' = [queue EXCEPT ![id].state = verdict]

\* Mutant: an approved proposal can still be denied.
LoopDenyAny ==
  /\ Got({"Deny"})
  /\ request' = NoFrame
  /\ IF StateOf(request.id) \in {"pending", "approved"}
       THEN /\ Resolve(request.id, "denied")
            /\ loop' = [Idle EXCEPT !.at = "audit", !.frame = request,
                                    !.record = Record("deny", gen, request.id),
                                    !.answer = "Ok"]
       ELSE /\ loop' = [Idle EXCEPT !.at = "reply", !.frame = request,
                                    !.answer = "Err"]
            /\ UNCHANGED queue
  /\ UNCHANGED <<procVars, waiting, reply, badPass, wallet, ledger, pipeVars,
                 watchVars, frames, released, opened, freeMisses>>

LoopDeny ==
  /\ Got({"Deny"})
  /\ request' = NoFrame
  /\ IF CanResolve(request.id)
       THEN /\ Resolve(request.id, "denied")
            /\ loop' = [Idle EXCEPT !.at = "audit", !.frame = request,
                                    !.record = Record("deny", gen, request.id),
                                    !.answer = "Ok"]
       ELSE /\ loop' = [Idle EXCEPT !.at = "reply", !.frame = request,
                                    !.answer = "Err"]
            /\ UNCHANGED queue
  /\ UNCHANGED <<procVars, waiting, reply, badPass, wallet, ledger, pipeVars,
                 watchVars, frames, released, opened, freeMisses>>

\* The three operations that spend the passphrase share one meter: past
\* kPassThrottleAfter misses each of them sleeps before the vault is tried.
MustStall == badPass >= kPassThrottleAfter

LoopTakePass ==
  /\ Got(PassOps)
  /\ request' = NoFrame
  /\ loop' = [Idle EXCEPT !.at = IF MustStall THEN "stall" ELSE "open",
                          !.frame = request,
                          !.seen = IF request.op = "Unlock" THEN events ELSE 0]
  /\ UNCHANGED <<procVars, waiting, reply, badPass, wallet, queue, ledger,
                 pipeVars, watchVars, frames, released, opened, freeMisses>>

LoopStall ==
  /\ At("stall")
  /\ loop' = [loop EXCEPT !.at = "open", !.stalled = TRUE]
  /\ UNCHANGED <<procVars, hostVars, badPass, wallet, queue, ledger, pipeVars,
                 watchVars, frames, released, opened, freeMisses>>

\* vault::open runs under no lock.  It may fail on a right passphrase too
\* (no memory for argon2, an unreadable file), and that counts as a miss.
Opening(op) == At("open") /\ loop.frame.op = op
Hit  == badPass' = 0 /\ freeMisses' = 0
Miss == /\ badPass' = badPass + 1
        /\ freeMisses' = freeMisses + (IF loop.stalled THEN 0 ELSE 1)

ToAudit(kind, id, answer) ==
  loop' = [loop EXCEPT !.at = "audit", !.record = Record(kind, gen, id),
                       !.answer = answer]
ToReply(answer) == loop' = [loop EXCEPT !.at = "reply", !.answer = answer]

UnlockOpens ==
  /\ Opening("Unlock") /\ loop.frame.right /\ HolderFree
  /\ Hit
  /\ wallet' = TRUE
  /\ opened' = [asked |-> loop.seen, at |-> events]
  /\ SendReply("Ok")
  /\ loop' = Idle
  /\ UNCHANGED <<procVars, waiting, request, queue, ledger, pipeVars, watchVars,
                 frames, released>>

UnlockMisses ==
  /\ Opening("Unlock") /\ HolderFree
  /\ Miss
  /\ wallet' = FALSE
  /\ SendReply("Err")
  /\ loop' = Idle
  /\ UNCHANGED <<procVars, waiting, request, queue, ledger, pipeVars, watchVars,
                 frames, released, opened>>

ApproveMisses ==
  /\ Opening("Approve")
  /\ Miss
  /\ ToAudit("badpass", loop.frame.id, "Err")
  /\ UNCHANGED <<procVars, hostVars, wallet, queue, ledger, pipeVars, watchVars,
                 frames, released, opened>>

ApproveOpens ==
  /\ Opening("Approve") /\ loop.frame.right
  /\ Hit
  /\ loop' = [loop EXCEPT !.at = "sign"]
  /\ UNCHANGED <<procVars, hostVars, wallet, queue, ledger, pipeVars, watchVars,
                 frames, released, opened>>

\* Mutant: a proposal that has its verdict is signed all the same.
ApproveSignsAny ==
  /\ At("sign")
  /\ IF StateOf(loop.frame.id) = "unknown"
       THEN ToReply("Err")
       ELSE IF queue[loop.frame.id].payload \notin Signable
              THEN ToAudit("signfail", loop.frame.id, "Err")
              ELSE loop' = [loop EXCEPT !.at = "resolve"]
  /\ UNCHANGED <<procVars, hostVars, badPass, wallet, queue, ledger, pipeVars,
                 watchVars, frames, released, opened, freeMisses>>

\* The proposal is read, parsed and signed with the wallet just opened; it
\* is still pending in the queue.
ApproveSigns ==
  /\ At("sign")
  /\ IF StateOf(loop.frame.id) # "pending"
       THEN ToReply("Err")
       ELSE IF queue[loop.frame.id].payload \notin Signable
              THEN ToAudit("signfail", loop.frame.id, "Err")
              ELSE loop' = [loop EXCEPT !.at = "resolve"]
  /\ UNCHANGED <<procVars, hostVars, badPass, wallet, queue, ledger, pipeVars,
                 watchVars, frames, released, opened, freeMisses>>

\* Mutant: the queue is not told of the verdict.
ApproveResolvesNot ==
  /\ At("resolve")
  /\ ToAudit("approve", loop.frame.id, "Signed")
  /\ UNCHANGED <<procVars, hostVars, badPass, wallet, queue, ledger, pipeVars,
                 watchVars, frames, released, opened, freeMisses>>

\* The verdict, then the record, then the signature leaves (LoopReply).
ApproveResolves ==
  /\ At("resolve")
  /\ IF CanResolve(loop.frame.id)
       THEN Resolve(loop.frame.id, "approved")
       ELSE UNCHANGED queue
  /\ ToAudit("approve", loop.frame.id, "Signed")
  /\ UNCHANGED <<procVars, hostVars, badPass, wallet, ledger, pipeVars,
                 watchVars, frames, released, opened, freeMisses>>

\* Mutant: Reveal does not count on the common meter.
RevealMissesUncounted ==
  /\ Opening("Reveal")
  /\ badPass' = badPass
  /\ freeMisses' = freeMisses + (IF loop.stalled THEN 0 ELSE 1)
  /\ ToAudit("revealbad", 0, "Err")
  /\ UNCHANGED <<procVars, hostVars, wallet, queue, ledger, pipeVars, watchVars,
                 frames, released, opened>>

RevealMisses ==
  /\ Opening("Reveal")
  /\ Miss
  /\ ToAudit("revealbad", 0, "Err")
  /\ UNCHANGED <<procVars, hostVars, wallet, queue, ledger, pipeVars, watchVars,
                 frames, released, opened>>

RevealOpens ==
  /\ Opening("Reveal") /\ loop.frame.right
  /\ Hit
  /\ IF VaultHasSecret THEN ToAudit("reveal", 0, "RootSecret") ELSE ToReply("Err")
  /\ UNCHANGED <<procVars, hostVars, wallet, queue, ledger, pipeVars, watchVars,
                 frames, released, opened>>

\* AuditLog::append, and what the loop does when it throws: everywhere it
\* ends the child, but Reveal's handler takes it for a wrong passphrase.
LoopAppends ==
  /\ At("audit")
  /\ ledger' = Append(ledger, loop.record)
  /\ loop' = [loop EXCEPT !.at = "reply"]
  /\ UNCHANGED <<procVars, hostVars, badPass, wallet, queue, pipeVars, watchVars,
                 frames, released, opened, freeMisses>>

\* Mutant: the loop takes a record it could not write for written.
LoopAppendThrowsOn ==
  /\ At("audit")
  /\ loop' = [loop EXCEPT !.at = "reply"]
  /\ UNCHANGED <<procVars, hostVars, badPass, wallet, queue, ledger, pipeVars, watchVars,
                 frames, released, opened, freeMisses>>

LoopAppendThrows ==
  /\ At("audit")
  /\ IF loop.record.kind = "reveal"
       THEN /\ badPass' = badPass + 1
            /\ ToAudit("revealbad", 0, "Err")
            /\ UNCHANGED <<procVars, hostVars, wallet, queue, ledger, pipeVars,
                           watchVars, frames, released, opened, freeMisses>>
       ELSE Ends("exit3") /\ UNCHANGED reply

LoopReply ==
  /\ At("reply")
  /\ SendReply(loop.answer)
  /\ loop' = Idle
  /\ released' = IF parent /\ loop.answer = "Signed"
                   THEN [released EXCEPT ![<<gen, loop.frame.id>>] = @ + 1]
                   ELSE released
  /\ UNCHANGED <<procVars, waiting, request, badPass, wallet, queue, ledger,
                 pipeVars, watchVars, frames, opened, freeMisses>>

-----------------------------------------------------------------------------
(* The proposal thread: serve_proposals, one client after the other *)

\* Reading a client's messages, or waiting for the next client.
Serving == status = "running" /\ loop.at # "boot" /\ pipe.at = "read"

\* A client opens the pipe: it has been there since StartPlane, whether or not
\* the thread waits for clients yet.
Connect ==
  /\ ~client
  /\ Serving \/ (status = "running" /\ pipe.at = "new")
  /\ client' = TRUE
  /\ UNCHANGED <<procVars, hostVars, loopVars, wallet, queue, ledger, pipe, noise,
                 accepted, watchVars, frames, released, opened, freeMisses>>

\* A client may hang up at any time, with a submission of its own in work.
HangUp ==
  /\ status = "running" /\ client
  /\ client' = FALSE
  /\ pipe' = IF pipe.at = "new" THEN [pipe EXCEPT !.at = "left"] ELSE pipe
  /\ UNCHANGED <<procVars, hostVars, loopVars, wallet, queue, ledger, noise,
                 accepted, watchVars, frames, released, opened, freeMisses>>

\* The thread's first wait_client.  It finds a client there, or waits for one;
\* a client that has come and gone is an error it takes for the end.
FirstWait ==
  /\ status = "running" /\ pipe.at \in {"new", "left"}
  /\ pipe' = [pipe EXCEPT !.at = IF pipe.at = "left" THEN "ended" ELSE "read"]
  /\ UNCHANGED <<procVars, hostVars, loopVars, wallet, queue, ledger, client, noise,
                 accepted, watchVars, frames, released, opened, freeMisses>>

\* Mutant: the reply does not wait for the record.
SubmitUnrecorded(payload, provenance) ==
  /\ Serving /\ client
  /\ Len(queue) < MaxProposals
  /\ queue' = Append(queue, [payload |-> payload, provenance |-> provenance,
                             state |-> "pending"])
  /\ pipe' = [at |-> "reply", record |-> NoRecord, id |-> Len(queue) + 1]
  /\ UNCHANGED <<procVars, hostVars, loopVars, wallet, ledger, client, noise,
                 accepted, watchVars, frames, released, opened, freeMisses>>

\* handle_submit: the proposal enters the queue, and from there the password
\* loop sees it; its record and the reply follow.
Submit(payload, provenance) ==
  /\ Serving /\ client
  /\ Len(queue) < MaxProposals
  /\ queue' = Append(queue, [payload |-> payload, provenance |-> provenance,
                             state |-> "pending"])
  /\ pipe' = [at |-> "audit", record |-> Record("submit", gen, Len(queue) + 1),
              id |-> Len(queue) + 1]
  /\ UNCHANGED <<procVars, hostVars, loopVars, wallet, ledger, client, noise,
                 accepted, watchVars, frames, released, opened, freeMisses>>

\* A claim to be the UI whose MAC does not verify goes on the ledger.
SubmitBadMac ==
  /\ Serving /\ client
  /\ noise < MaxNoise
  /\ noise' = noise + 1
  /\ pipe' = [at |-> "audit", record |-> Record("badmac", gen, 0), id |-> 0]
  /\ UNCHANGED <<procVars, hostVars, loopVars, wallet, queue, ledger, client,
                 accepted, watchVars, frames, released, opened, freeMisses>>

PipeAppends ==
  /\ status = "running" /\ pipe.at = "audit"
  /\ ledger' = Append(ledger, pipe.record)
  /\ pipe' = [pipe EXCEPT !.at = "reply"]
  /\ UNCHANGED <<procVars, hostVars, loopVars, wallet, queue, client, noise,
                 accepted, watchVars, frames, released, opened, freeMisses>>

\* Nothing catches an exception on this thread: std::terminate.
PipeAppendThrows ==
  /\ status = "running" /\ pipe.at = "audit"
  /\ Ends("terminated") /\ UNCHANGED reply

\* Accepted with the id, or Rejected (id 0).  The write fails if nobody is there.
PipeReply ==
  /\ status = "running" /\ pipe.at = "reply"
  /\ pipe' = QuietPipe
  /\ accepted' = IF client /\ pipe.id # 0 THEN accepted \cup {<<gen, pipe.id>>}
                                          ELSE accepted
  /\ UNCHANGED <<procVars, hostVars, loopVars, wallet, queue, ledger, client, noise,
                 watchVars, frames, released, opened, freeMisses>>

-----------------------------------------------------------------------------
(* The watcher: the window procedure runs the callback once per event *)

\* The session locks or the machine suspends, and the window the watcher could
\* register gets the notification.
SessionLocks ==
  /\ AutolockUp
  /\ status = "running" /\ loop.at # "boot"
  /\ events < MaxEvents
  /\ events' = events + 1
  /\ due' = due + 1
  /\ UNCHANGED <<procVars, hostVars, loopVars, wallet, queue, ledger, pipeVars,
                 watch, frames, released, opened, freeMisses>>

\* Mutants: the callback gives up on a busy loop; it runs without an event.
WatchWipesIfIdle ==
  /\ status = "running" /\ watch = "idle" /\ due > 0
  /\ due' = due - 1
  /\ wallet' = (wallet /\ loop.at # "recv")
  /\ watch' = IF wallet /\ loop.at = "recv" THEN "record" ELSE "idle"
  /\ UNCHANGED <<procVars, hostVars, loopVars, queue, ledger, pipeVars, events,
                 frames, released, opened, freeMisses>>

WatchWipesUnasked ==
  /\ status = "running" /\ watch = "idle"
  /\ due' = due - 1
  /\ wallet' = FALSE
  /\ watch' = IF wallet THEN "record" ELSE "idle"
  /\ UNCHANGED <<procVars, hostVars, loopVars, queue, ledger, pipeVars, events,
                 frames, released, opened, freeMisses>>

\* The callback, under the holder's mutex: with a wallet there it is wiped and
\* a record follows, without one nothing happens.
WatchWipes ==
  /\ status = "running" /\ watch = "idle" /\ due > 0
  /\ due' = due - 1
  /\ wallet' = FALSE
  /\ watch' = IF wallet THEN "record" ELSE "idle"
  /\ UNCHANGED <<procVars, hostVars, loopVars, queue, ledger, pipeVars, events,
                 frames, released, opened, freeMisses>>

WatchAppends ==
  /\ status = "running" /\ watch = "record"
  /\ ledger' = Append(ledger, Record("autolock", gen, 0))
  /\ watch' = "idle"
  /\ UNCHANGED <<procVars, hostVars, loopVars, wallet, queue, pipeVars, due,
                 events, frames, released, opened, freeMisses>>

WatchAppendThrows ==
  /\ status = "running" /\ watch = "record"
  /\ Ends("terminated") /\ UNCHANGED reply

-----------------------------------------------------------------------------

ProcNext == Spawn \/ StartPlane \/ NameTaken \/ ParentDies \/ Killed

HostNext == Receive \/ \E f \in Requests : Send(f)

LoopNext ==
  \/ LoopHello \/ LoopParentGone \/ LoopLock \/ LoopShutdown \/ LoopRead
  \/ LoopDeny \/ LoopTakePass \/ LoopStall
  \/ UnlockOpens \/ UnlockMisses
  \/ ApproveMisses \/ ApproveOpens \/ ApproveSigns \/ ApproveResolves
  \/ RevealMisses \/ RevealOpens
  \/ LoopAppends \/ LoopAppendThrows \/ LoopReply

PipeNext ==
  \/ Connect \/ HangUp \/ FirstWait
  \/ \E payload \in Payload, provenance \in Origins : Submit(payload, provenance)
  \/ SubmitBadMac
  \/ PipeAppends \/ PipeAppendThrows \/ PipeReply

WatchNext == SessionLocks \/ WatchWipes \/ WatchAppends \/ WatchAppendThrows

Next == ProcNext \/ HostNext \/ LoopNext \/ PipeNext \/ WatchNext

Spec == Init /\ [][Next]_vars

\* Each thread of a running child is scheduled: its sleeps, its opens and its
\* appends end, in success or failure.  A parent that blocks in recv takes the
\* reply that is there.  Nobody has to send, submit, lock or hang up.
Fairness ==
  /\ WF_vars(StartPlane \/ NameTaken)
  /\ WF_vars(LoopNext)
  /\ WF_vars(PipeAppends \/ PipeAppendThrows)
  /\ WF_vars(FirstWait \/ PipeReply)
  /\ WF_vars(WatchWipes)
  /\ WF_vars(WatchAppends \/ WatchAppendThrows)
  /\ WF_vars(Receive)

FairSpec == Spec /\ Fairness

-----------------------------------------------------------------------------
(* Properties *)

\* Type correctness of the whole state, part by part.
FlagsOK == {parent, waiting, wallet, client} \subseteq BOOLEAN
ProcOK ==
  /\ status \in {"none", "running", "exit0", "exit3", "terminated", "killed"}
  /\ gen \in 0 .. MaxGen
  /\ status = "running" => gen > 0
HostOK  == request \in Frames /\ reply \in Replies /\ frames \in 0 .. MaxFrames
LoopOK  == loop \in Loops /\ badPass \in Nat /\ freeMisses \in Nat
QueueOK == queue \in Seq(Proposal) /\ Len(queue) <= MaxProposals
PipeOK  == pipe \in Pipes /\ noise \in 0 .. MaxNoise
WatchOK ==
  /\ watch \in {"idle", "record"}
  /\ events \in 0 .. MaxEvents /\ due \in 0 .. events
PastOK ==
  /\ ledger \in Seq(Records)
  /\ accepted \subseteq Names
  /\ released \in [Names -> Nat]
  /\ opened \in [asked : 0 .. MaxEvents, at : 0 .. MaxEvents]

TypeOK ==
  /\ FlagsOK /\ ProcOK /\ HostOK /\ LoopOK
  /\ QueueOK /\ PipeOK /\ WatchOK /\ PastOK

\* Whatever dies, fails or interleaves: no proposal is signed twice, and no
\* signature has left the child without an approval record on the ledger
\* (child.cpp writes the record before it sends the signature).
SignedOnceAndRecorded ==
  \A p \in Names : /\ released[p] <= 1
                   /\ released[p] = 1 => Written("approve", p)

\* The identity the code names sign = approve = audit: whenever the loop of a
\* child with a living parent is between two frames, the approved proposals,
\* the approval records and the signatures sent are the same.
SignApproveAudit ==
  (status = "running" /\ parent /\ loop.at = "recv") =>
    \A id \in 1 .. Len(queue) :
      LET p == <<gen, id>> IN
        /\ (queue[id].state = "approved") <=> Written("approve", p)
        /\ Written("approve", p) <=> released[p] = 1

\* No two verdict records name the same proposal.
NoSecondVerdict ==
  \A i, j \in 1 .. Len(ledger) :
    (/\ ledger[i].kind \in {"approve", "deny"}
     /\ ledger[j].kind \in {"approve", "deny"}
     /\ ledger[i].gen = ledger[j].gen /\ ledger[i].id = ledger[j].id) => i = j

\* The ledger never tells two stories: at most one verdict record per
\* proposal over all children, and it agrees with the queue.
OneVerdictRecord ==
  /\ NoSecondVerdict
  /\ \A id \in 1 .. Len(queue) :
       /\ Written("approve", <<gen, id>>) => queue[id].state = "approved"
       /\ Written("deny", <<gen, id>>) => queue[id].state = "denied"

\* A client that was told Accepted finds its submission on the ledger.
AcceptedIsRecorded == \A p \in accepted : Written("submit", p)

\* Every session lock or suspend that came after the wallet was opened has
\* wiped it, once the watcher has run for all of them.
AutolockWipes ==
  (status = "running" /\ wallet /\ due = 0) => opened.at = events

\* Guesses that cost no sleep, over Unlock, Approve and Reveal together, stay
\* within the allowance between two right passphrases.
FreeGuesses == freeMisses <= kPassThrottleAfter

\* A verdict is final and a pending proposal does not vanish while the child
\* lives: ids are not reused, payload and provenance stay what was submitted.
VerdictsAreFinal ==
  [][status' = "running" =>
       \A id \in 1 .. Len(queue) :
         /\ id <= Len(queue')
         /\ queue'[id].payload = queue[id].payload
         /\ queue'[id].provenance = queue[id].provenance
         /\ queue[id].state # "pending" => queue'[id].state = queue[id].state]_vars

\* A frame is answered, or the child is gone.
EveryFrameAnswered == waiting ~> (~waiting \/ status # "running")

\* A session lock or suspend finds the wallet wiped in the end, however busy
\* the loop is.
AutolockGetsThrough == (due > 0) ~> (~wallet \/ status # "running")

\* A child whose parent died ends.
OrphanEnds == (status = "running" /\ ~parent) ~> (status # "running")

-----------------------------------------------------------------------------
(* Why these hold: invariants that every step preserves *)

\* Nothing has been said of proposal p yet.
Clean(p) == ~Written("approve", p) /\ ~Written("deny", p) /\ released[p] = 0

\* The loop is about to put this verdict on p on the ledger; about to send p's
\* signature.
Auditing(kind, p) == loop.at = "audit" /\ loop.record = Record(kind, p[1], p[2])
Sending(p) == /\ loop.at = "reply" /\ loop.answer = "Signed"
              /\ p = <<gen, loop.frame.id>>

\* A process that is gone has no queue and no thread in the middle of a step.
NothingLeft == status # "running" => queue = <<>> /\ loop = Idle /\ pipe = QuietPipe

\* Between the signing and the reply, the loop holds what the queue, the ledger
\* and the channel do not know yet.
LoopHolds ==
  /\ loop.at = "resolve" => CanResolve(loop.frame.id)
  /\ loop.answer = "Signed" =>
       \/ loop.at = "audit" /\ loop.record.kind = "approve"
       \/ loop.at = "reply"
  /\ loop.at = "audit" =>
       \A verdict \in {"approve", "deny"} :
         loop.record.kind = verdict =>
           /\ loop.record = Record(verdict, gen, loop.frame.id)
           /\ StateOf(loop.frame.id) = IF verdict = "approve" THEN "approved" ELSE "denied"
           /\ Clean(<<gen, loop.frame.id>>)
           /\ verdict = "approve" => loop.answer = "Signed"
  /\ (loop.at = "reply" /\ loop.answer = "Signed") =>
       LET p == <<gen, loop.frame.id>> IN
         /\ StateOf(loop.frame.id) = "approved"
         /\ Written("approve", p) /\ released[p] = 0
  /\ pipe.at = "audit" => pipe.record.kind \in {"submit", "badmac"}

\* The queue, the ledger and the signatures tell the same story of p.
SameStory(p) ==
  /\ released[p] <= 1
  /\ released[p] = 1 => Written("approve", p)
  /\ p[1] > gen => Clean(p)
  /\ (p[1] = gen /\ status = "running") =>
       /\ StateOf(p[2]) \in {"unknown", "pending"} => Clean(p)
       /\ Written("approve", p) => StateOf(p[2]) = "approved"
       /\ Written("deny", p) => StateOf(p[2]) = "denied"
       /\ StateOf(p[2]) = "approved" => Written("approve", p) \/ Auditing("approve", p)
       /\ parent /\ Written("approve", p) => released[p] = 1 \/ Sending(p)

VerdictInv ==
  NothingLeft /\ LoopHolds /\ NoSecondVerdict /\ \A p \in Names : SameStory(p)

\* An open that came without a sleep found the meter below its limit.
MeterInv ==
  /\ freeMisses <= badPass
  /\ freeMisses <= kPassThrottleAfter
  /\ (loop.at = "open" /\ ~loop.stalled) => badPass < kPassThrottleAfter

\* The events since the wallet was opened are still due.
AutolockInv ==
  /\ opened.at <= events
  /\ wallet => status = "running" /\ events <= opened.at + due

\* The pipe's reply comes after the record of what it accepts.
AcceptInv ==
  /\ AcceptedIsRecorded
  /\ pipe.at = "audit" /\ pipe.id # 0 => pipe.record = Record("submit", gen, pipe.id)
  /\ pipe.at = "reply" /\ pipe.id # 0 => Written("submit", <<gen, pipe.id>>)

-----------------------------------------------------------------------------
(* The promise this child keeps: SigningAuthority, with a proposal named by *)
(* its child and its id.  A child that is gone has lost all its names.      *)

VerdictOf(p) ==
  CASE p[1] < gen \/ (p[1] = gen /\ status # "running") -> "lost"
    [] p[1] > gen                                        -> "none"
    [] OTHER -> IF p[2] <= Len(queue) THEN queue[p[2]].state ELSE "none"

Authority == INSTANCE SigningAuthority WITH
  Proposals  <- Names,
  verdict    <- [p \in Names |-> VerdictOf(p)],
  recorded   <- {p \in Names : Written("approve", p)},
  signatures <- released

\* Every step of the three threads, the parent and the environment is a step
\* the promise allows, or none of its business.
KeepsThePromise == Authority!Spec

-----------------------------------------------------------------------------
(* What the repository says of the program, and the program does not do *)

\* keyd/autolock.hpp: lock and suspend wipe key material the moment they
\* happen.  So a wallet that is open after all of them were handled was asked
\* for after the last of them.
OpenWasAskedAfterLock ==
  (status = "running" /\ wallet /\ due = 0) => opened.asked = events

=============================================================================
