----------------------------- MODULE KeydProofs -----------------------------
(* Theorems about Keyd, for every value of its constants: its types, its   *)
(* safety properties, and that it implements SigningAuthority.             *)
(*                                                                         *)
(* Safety rests on VerdictInv: for every proposal, the queue, the ledger   *)
(* and the signatures sent tell the same story, up to what the loop holds  *)
(* between signing and replying.  Most steps touch none of the three       *)
(* (QuietStep); the others are a restart, an end, a submission, a verdict, *)
(* a record of one, and the reply that carries a signature.                *)
(*                                                                         *)
(* For the refinement, Moves sorts the steps by what they do to the queue, *)
(* the ledger and the signatures sent: seven kinds, one of them of no      *)
(* concern to the promise.                                                 *)
EXTENDS Keyd, SequenceTheorems, TLAPS

-----------------------------------------------------------------------------
(* Types of the values the actions build *)

LEMMA RecordType ==
  ASSUME NEW kind \in Kinds, NEW g \in 0 .. MaxGen, NEW id \in 0 .. MaxProposals
  PROVE  Record(kind, g, id) \in Records
BY DEF Record, Records

LEMMA QuietTypes == Idle \in Loops /\ QuietPipe \in Pipes /\ NoFrame \in Frames
BY KeydAssumption
   DEF KeydAssumption, Idle, QuietPipe, Loops, Pipes, NoRecord, Record, Records,
       Kinds, Replies, NoFrame, Frames

LEMMA ToAuditType ==
  ASSUME NEW kind \in Kinds, NEW id \in 0 .. MaxProposals, NEW answer \in Replies,
         TypeOK, ToAudit(kind, id, answer)
  PROVE  loop' \in Loops
<1>1. Record(kind, gen, id) \in Records
  BY RecordType DEF TypeOK, ProcOK
<1>2. QED
  BY <1>1 DEF ToAudit, TypeOK, LoopOK, Loops

-----------------------------------------------------------------------------
LEMMA InitType == Init => TypeOK
<1> SUFFICES ASSUME Init PROVE TypeOK
  OBVIOUS
<1>1. FlagsOK
  BY DEF Init, FlagsOK
<1>2. ProcOK /\ HostOK /\ LoopOK /\ PipeOK
  BY KeydAssumption, QuietTypes
     DEF KeydAssumption, Init, ProcOK, HostOK, LoopOK, PipeOK, Replies
<1>3. QueueOK /\ WatchOK /\ PastOK
  BY KeydAssumption DEF KeydAssumption, Init, QueueOK, WatchOK, PastOK
<1>4. QED
  BY <1>1, <1>2, <1>3 DEF TypeOK

LEMMA EndsType ==
  ASSUME TypeOK, NEW how \in {"exit0", "exit3", "terminated", "killed"},
         Ends(how), reply' \in Replies
  PROVE  TypeOK'
<1>1. FlagsOK'
  BY DEF Ends, TypeOK, FlagsOK
<1>2. ProcOK' /\ HostOK' /\ LoopOK' /\ PipeOK'
  BY QuietTypes DEF Ends, TypeOK, ProcOK, HostOK, LoopOK, PipeOK
<1>3. QueueOK' /\ WatchOK' /\ PastOK'
  BY KeydAssumption DEF KeydAssumption, Ends, TypeOK, QueueOK, WatchOK, PastOK
<1>4. QED
  BY <1>1, <1>2, <1>3 DEF TypeOK
LEMMA SendReplyType ==
  ASSUME TypeOK, NEW r \in Replies, SendReply(r)
  PROVE  reply' \in Replies
BY DEF SendReply, TypeOK, HostOK

LEMMA ResolveType ==
  ASSUME TypeOK, NEW id \in Nat, CanResolve(id),
         NEW verdict \in {"approved", "denied"}, Resolve(id, verdict)
  PROVE  QueueOK'
<1>1. id \in 1 .. Len(queue)
  BY DEF CanResolve, StateOf
<1>2. [queue[id] EXCEPT !.state = verdict] \in Proposal
  <2>1. queue[id] \in Proposal
    BY <1>1 DEF TypeOK, QueueOK
  <2>2. QED
    BY <2>1 DEF Proposal
<1>3. queue' = [queue EXCEPT ![id] = [queue[id] EXCEPT !.state = verdict]]
  BY DEF Resolve
<1>4. queue' \in Seq(Proposal) /\ Len(queue') = Len(queue)
  BY <1>1, <1>2, <1>3, ExceptSeq DEF TypeOK, QueueOK
<1>5. QED
  BY <1>4 DEF TypeOK, QueueOK

LEMMA ProcType == TypeOK /\ ProcNext => TypeOK'
<1> SUFFICES ASSUME TypeOK, ProcNext PROVE TypeOK'
  OBVIOUS
<1>1. CASE Spawn
  <2>1. FlagsOK'
    BY <1>1 DEF Spawn, TypeOK, FlagsOK, pipeVars, watchVars
  <2>2. loop' \in Loops
    BY <1>1, QuietTypes DEF Spawn, Loops
  <2>3. ProcOK' /\ HostOK' /\ LoopOK' /\ PipeOK'
    BY <1>1, <2>2, KeydAssumption
       DEF KeydAssumption, Spawn, Replies, TypeOK, ProcOK, HostOK, LoopOK, PipeOK,
           pipeVars, watchVars
  <2>4. QueueOK' /\ WatchOK' /\ PastOK'
    BY <1>1 DEF Spawn, TypeOK, QueueOK, WatchOK, PastOK, pipeVars, watchVars
  <2>5. QED
    BY <2>1, <2>3, <2>4 DEF TypeOK
<1>2. CASE StartPlane
  <2>1. FlagsOK'
    BY <1>2 DEF StartPlane, TypeOK, FlagsOK, procVars, hostVars
  <2>2. loop' \in Loops
    BY <1>2 DEF StartPlane, TypeOK, LoopOK, Loops
  <2>3. pipe' \in Pipes
    BY <1>2, QuietTypes DEF StartPlane, Pipes
  <2>4. ProcOK' /\ HostOK' /\ LoopOK' /\ PipeOK'
    BY <1>2, <2>2, <2>3
       DEF StartPlane, TypeOK, ProcOK, HostOK, LoopOK, PipeOK, procVars, hostVars
  <2>5. QueueOK' /\ WatchOK' /\ PastOK'
    BY <1>2 DEF StartPlane, TypeOK, QueueOK, WatchOK, PastOK, watchVars
  <2>6. QED
    BY <2>1, <2>4, <2>5 DEF TypeOK
<1>3. CASE NameTaken
  BY <1>3, EndsType DEF NameTaken, TypeOK, HostOK
<1>4. CASE ParentDies
  <2>1. FlagsOK'
    BY <1>4 DEF ParentDies, TypeOK, FlagsOK, hostVars, loopVars, pipeVars, watchVars
  <2>2. ProcOK' /\ HostOK' /\ LoopOK' /\ PipeOK'
    BY <1>4
       DEF ParentDies, TypeOK, ProcOK, HostOK, LoopOK, PipeOK, hostVars, loopVars,
           pipeVars, watchVars
  <2>3. QueueOK' /\ WatchOK' /\ PastOK'
    BY <1>4
       DEF ParentDies, TypeOK, QueueOK, WatchOK, PastOK, hostVars, loopVars, pipeVars,
           watchVars
  <2>4. QED
    BY <2>1, <2>2, <2>3 DEF TypeOK
<1>5. CASE Killed
  BY <1>5, EndsType DEF Killed, TypeOK, HostOK
<1>6. QED
  BY <1>1, <1>2, <1>3, <1>4, <1>5 DEF ProcNext

LEMMA HostType == TypeOK /\ HostNext => TypeOK'
<1> SUFFICES ASSUME TypeOK, HostNext PROVE TypeOK'
  OBVIOUS
<1>1. CASE Receive
  <2>1. FlagsOK'
    BY <1>1 DEF Receive, TypeOK, FlagsOK, procVars, loopVars, pipeVars, watchVars
  <2>2. ProcOK' /\ HostOK' /\ LoopOK' /\ PipeOK'
    BY <1>1
       DEF Receive, Replies, TypeOK, ProcOK, HostOK, LoopOK, PipeOK, procVars, loopVars,
           pipeVars, watchVars
  <2>3. QueueOK' /\ WatchOK' /\ PastOK'
    BY <1>1
       DEF Receive, TypeOK, QueueOK, WatchOK, PastOK, procVars, loopVars, pipeVars,
           watchVars
  <2>4. QED
    BY <2>1, <2>2, <2>3 DEF TypeOK
<1>2. CASE \E f \in Requests : Send(f)
  <2>1. FlagsOK'
    BY <1>2 DEF Send, Requests, TypeOK, FlagsOK, procVars, loopVars, pipeVars, watchVars
  <2>2. ProcOK' /\ HostOK' /\ LoopOK' /\ PipeOK'
    BY <1>2, KeydAssumption
       DEF KeydAssumption, Send, Requests, TypeOK, ProcOK, HostOK, LoopOK, PipeOK,
           procVars, loopVars, pipeVars, watchVars
  <2>3. QueueOK' /\ WatchOK' /\ PastOK'
    BY <1>2
       DEF Send, Requests, TypeOK, QueueOK, WatchOK, PastOK, procVars, loopVars,
           pipeVars, watchVars
  <2>4. QED
    BY <2>1, <2>2, <2>3 DEF TypeOK
<1>3. QED
  BY <1>1, <1>2 DEF HostNext

LEMMA LoopType == TypeOK /\ LoopNext => TypeOK'
<1> SUFFICES ASSUME TypeOK, LoopNext PROVE TypeOK'
  OBVIOUS
<1>1. CASE LoopHello
  <2>1. CASE parent
    <3>1. FlagsOK'
      BY <1>1, <2>1 DEF LoopHello, TypeOK, FlagsOK, procVars, pipeVars
    <3>2. ProcOK' /\ HostOK' /\ LoopOK' /\ PipeOK'
      BY <1>1, <2>1, QuietTypes
         DEF LoopHello, SendReply, TypeOK, ProcOK, HostOK, LoopOK, PipeOK, Replies,
             procVars, pipeVars
    <3>3. QueueOK' /\ WatchOK' /\ PastOK'
      BY <1>1, <2>1
         DEF LoopHello, TypeOK, QueueOK, WatchOK, PastOK, pipeVars, watchVars
    <3>4. QED
      BY <3>1, <3>2, <3>3 DEF TypeOK
  <2>2. CASE ~parent
    BY <1>1, <2>2, EndsType DEF LoopHello, TypeOK, HostOK
  <2>3. QED
    BY <2>1, <2>2
<1>2. CASE LoopParentGone
  BY <1>2, EndsType DEF LoopParentGone, TypeOK, HostOK
<1>3. CASE LoopLock
  <2>1. FlagsOK'
    BY <1>3 DEF LoopLock, TypeOK, FlagsOK, procVars, loopVars, pipeVars, watchVars
  <2>2. ProcOK' /\ HostOK' /\ LoopOK' /\ PipeOK'
    BY <1>3, QuietTypes, SendReplyType
       DEF LoopLock, Replies, TypeOK, ProcOK, HostOK, LoopOK, PipeOK, procVars,
           loopVars, pipeVars, watchVars
  <2>3. QueueOK' /\ WatchOK' /\ PastOK'
    BY <1>3
       DEF LoopLock, TypeOK, QueueOK, WatchOK, PastOK, procVars, loopVars, pipeVars,
           watchVars
  <2>4. QED
    BY <2>1, <2>2, <2>3 DEF TypeOK
<1>4. CASE LoopShutdown
  <2>1. reply' \in Replies
    BY <1>4 DEF LoopShutdown, SendReply, TypeOK, HostOK, Replies
  <2>2. QED
    BY <1>4, <2>1, EndsType DEF LoopShutdown
<1>5. CASE LoopRead
  <2>1. FlagsOK'
    BY <1>5 DEF LoopRead, TypeOK, FlagsOK, procVars, pipeVars
  <2>2. ReadReply(request) \in Replies
    BY <1>5 DEF LoopRead, Got, ReadReply, Replies
  <2>3. reply' \in Replies
    BY <1>5, <2>2, SendReplyType DEF LoopRead
  <2>4. ProcOK' /\ HostOK' /\ LoopOK' /\ PipeOK'
    BY <1>5, <2>3, QuietTypes
       DEF LoopRead, TypeOK, ProcOK, HostOK, LoopOK, PipeOK, procVars, loopVars, pipeVars
  <2>5. QueueOK' /\ WatchOK' /\ PastOK'
    BY <1>5 DEF LoopRead, TypeOK, QueueOK, WatchOK, PastOK, loopVars, pipeVars, watchVars
  <2>6. QED
    BY <2>1, <2>4, <2>5 DEF TypeOK
<1>6. CASE LoopDeny
  <2>1. FlagsOK'
    BY <1>6 DEF LoopDeny, TypeOK, FlagsOK, procVars, pipeVars
  <2>2. request \in Frames /\ request.id \in 0 .. MaxProposals
    BY DEF TypeOK, HostOK, Frames
  <2>3. Record("deny", gen, request.id) \in Records
    BY <2>2, RecordType DEF TypeOK, ProcOK, Kinds
  <2>4. loop' \in Loops
    BY <1>6, <2>2, <2>3, QuietTypes DEF LoopDeny, Loops, Replies
  <2>5. ProcOK' /\ HostOK' /\ LoopOK' /\ PipeOK'
    BY <1>6, <2>4, QuietTypes
       DEF LoopDeny, TypeOK, ProcOK, HostOK, LoopOK, PipeOK, procVars, pipeVars
  <2>6. QueueOK'
    <3>1. CASE CanResolve(request.id)
      BY <1>6, <2>2, <3>1, ResolveType DEF LoopDeny
    <3>2. CASE ~CanResolve(request.id)
      BY <1>6, <3>2 DEF LoopDeny, TypeOK, QueueOK
    <3>3. QED
      BY <3>1, <3>2
  <2>7. WatchOK' /\ PastOK'
    BY <1>6 DEF LoopDeny, TypeOK, WatchOK, PastOK, pipeVars, watchVars
  <2>8. QED
    BY <2>1, <2>5, <2>6, <2>7 DEF TypeOK
<1>7. CASE LoopTakePass
  <2>1. FlagsOK'
    BY <1>7 DEF LoopTakePass, TypeOK, FlagsOK, procVars, pipeVars
  <2> DEFINE place == IF MustStall THEN "stall" ELSE "open"
             since == IF request.op = "Unlock" THEN events ELSE 0
  <2>2. request \in Frames /\ since \in 0 .. MaxEvents
    BY KeydAssumption DEF KeydAssumption, TypeOK, HostOK, WatchOK
  <2>3. [Idle EXCEPT !.at = place, !.frame = request, !.seen = since] \in Loops
    BY <2>2, QuietTypes DEF Loops
  <2>4. loop' \in Loops
    BY <1>7, <2>3 DEF LoopTakePass
  <2>5. ProcOK' /\ HostOK' /\ LoopOK' /\ PipeOK'
    BY <1>7, <2>4, QuietTypes
       DEF LoopTakePass, TypeOK, ProcOK, HostOK, LoopOK, PipeOK, procVars, pipeVars
  <2>6. QueueOK' /\ WatchOK' /\ PastOK'
    BY <1>7 DEF LoopTakePass, TypeOK, QueueOK, WatchOK, PastOK, pipeVars, watchVars
  <2>7. QED
    BY <2>1, <2>5, <2>6 DEF TypeOK
<1>8. CASE LoopStall
  <2>1. FlagsOK'
    BY <1>8 DEF LoopStall, TypeOK, FlagsOK, procVars, hostVars, pipeVars, watchVars
  <2>2. loop' \in Loops
    BY <1>8 DEF LoopStall, TypeOK, LoopOK, Loops
  <2>3. ProcOK' /\ HostOK' /\ LoopOK' /\ PipeOK'
    BY <1>8, <2>2
       DEF LoopStall, TypeOK, ProcOK, HostOK, LoopOK, PipeOK, procVars, hostVars,
           pipeVars, watchVars
  <2>4. QueueOK' /\ WatchOK' /\ PastOK'
    BY <1>8
       DEF LoopStall, TypeOK, QueueOK, WatchOK, PastOK, procVars, hostVars, pipeVars,
           watchVars
  <2>5. QED
    BY <2>1, <2>3, <2>4 DEF TypeOK
<1>9. CASE UnlockOpens
  <2>1. FlagsOK'
    BY <1>9
       DEF UnlockOpens, Hit, SendReply, WatchOK, TypeOK, FlagsOK, procVars, pipeVars,
           watchVars
  <2>2. ProcOK' /\ HostOK' /\ LoopOK' /\ PipeOK'
    BY <1>9, QuietTypes
       DEF UnlockOpens, Hit, SendReply, Replies, LoopOK, WatchOK, TypeOK, ProcOK,
           HostOK, PipeOK, procVars, pipeVars, watchVars
  <2>3. QueueOK' /\ WatchOK' /\ PastOK'
    BY <1>9
       DEF UnlockOpens, Hit, SendReply, LoopOK, Loops, WatchOK, TypeOK, QueueOK, PastOK,
           procVars, pipeVars, watchVars
  <2>4. QED
    BY <2>1, <2>2, <2>3 DEF TypeOK
<1>10. CASE UnlockMisses
  <2>1. FlagsOK'
    BY <1>10
       DEF UnlockMisses, Miss, SendReply, TypeOK, FlagsOK, procVars, pipeVars, watchVars
  <2>2. ProcOK' /\ HostOK' /\ LoopOK' /\ PipeOK'
    BY <1>10, QuietTypes
       DEF UnlockMisses, Miss, SendReply, Replies, TypeOK, ProcOK, HostOK, LoopOK,
           PipeOK, procVars, pipeVars, watchVars
  <2>3. QueueOK' /\ WatchOK' /\ PastOK'
    BY <1>10
       DEF UnlockMisses, Miss, SendReply, TypeOK, QueueOK, WatchOK, PastOK, procVars,
           pipeVars, watchVars
  <2>4. QED
    BY <2>1, <2>2, <2>3 DEF TypeOK
<1>11. CASE ApproveMisses
  <2>1. FlagsOK'
    BY <1>11
       DEF ApproveMisses, Miss, TypeOK, FlagsOK, procVars, hostVars, pipeVars, watchVars
  <2>2. loop' \in Loops
    BY <1>11, ToAuditType
       DEF ApproveMisses, TypeOK, LoopOK, Loops, Frames, Kinds, Replies
  <2>3. ProcOK' /\ HostOK' /\ LoopOK' /\ PipeOK'
    BY <1>11, <2>2
       DEF ApproveMisses, Miss, TypeOK, ProcOK, HostOK, LoopOK, PipeOK, procVars,
           hostVars, pipeVars, watchVars
  <2>4. QueueOK' /\ WatchOK' /\ PastOK'
    BY <1>11
       DEF ApproveMisses, Miss, TypeOK, QueueOK, WatchOK, PastOK, procVars, hostVars,
           pipeVars, watchVars
  <2>5. QED
    BY <2>1, <2>3, <2>4 DEF TypeOK
<1>12. CASE ApproveOpens
  <2>1. FlagsOK'
    BY <1>12
       DEF ApproveOpens, Hit, TypeOK, FlagsOK, procVars, hostVars, pipeVars, watchVars
  <2>2. loop' \in Loops
    BY <1>12 DEF ApproveOpens, TypeOK, LoopOK, Loops
  <2>3. ProcOK' /\ HostOK' /\ LoopOK' /\ PipeOK'
    BY <1>12, <2>2
       DEF ApproveOpens, Hit, TypeOK, ProcOK, HostOK, LoopOK, PipeOK, procVars,
           hostVars, pipeVars, watchVars
  <2>4. QueueOK' /\ WatchOK' /\ PastOK'
    BY <1>12
       DEF ApproveOpens, Hit, TypeOK, QueueOK, WatchOK, PastOK, procVars, hostVars,
           pipeVars, watchVars
  <2>5. QED
    BY <2>1, <2>3, <2>4 DEF TypeOK
<1>13. CASE ApproveSigns
  <2>1. FlagsOK'
    BY <1>13 DEF ApproveSigns, TypeOK, FlagsOK, procVars, hostVars, pipeVars, watchVars
  <2>2. loop' \in Loops
    BY <1>13, ToAuditType
       DEF ApproveSigns, ToReply, TypeOK, LoopOK, Loops, Frames, Kinds, Replies
  <2>3. ProcOK' /\ HostOK' /\ LoopOK' /\ PipeOK'
    BY <1>13, <2>2
       DEF ApproveSigns, TypeOK, ProcOK, HostOK, LoopOK, PipeOK, procVars, hostVars,
           pipeVars, watchVars
  <2>4. QueueOK' /\ WatchOK' /\ PastOK'
    BY <1>13
       DEF ApproveSigns, TypeOK, QueueOK, WatchOK, PastOK, procVars, hostVars, pipeVars,
           watchVars
  <2>5. QED
    BY <2>1, <2>3, <2>4 DEF TypeOK
<1>14. CASE ApproveResolves
  <2>1. FlagsOK'
    BY <1>14 DEF ApproveResolves, TypeOK, FlagsOK, procVars, hostVars, pipeVars
  <2>2. loop.frame.id \in 0 .. MaxProposals
    BY DEF TypeOK, LoopOK, Loops, Frames
  <2>3. loop' \in Loops
    BY <1>14, <2>2, ToAuditType DEF ApproveResolves, Kinds, Replies
  <2>4. ProcOK' /\ HostOK' /\ LoopOK' /\ PipeOK'
    BY <1>14, <2>3
       DEF ApproveResolves, TypeOK, ProcOK, HostOK, LoopOK, PipeOK, procVars, hostVars,
           pipeVars
  <2>5. QueueOK'
    <3>1. CASE CanResolve(loop.frame.id)
      BY <1>14, <2>2, <3>1, ResolveType DEF ApproveResolves
    <3>2. CASE ~CanResolve(loop.frame.id)
      BY <1>14, <3>2 DEF ApproveResolves, TypeOK, QueueOK
    <3>3. QED
      BY <3>1, <3>2
  <2>6. WatchOK' /\ PastOK'
    BY <1>14 DEF ApproveResolves, TypeOK, WatchOK, PastOK, pipeVars, watchVars
  <2>7. QED
    BY <2>1, <2>4, <2>5, <2>6 DEF TypeOK
<1>15. CASE RevealMisses
  <2>1. FlagsOK'
    BY <1>15
       DEF RevealMisses, Miss, TypeOK, FlagsOK, procVars, hostVars, pipeVars, watchVars
  <2>2. loop' \in Loops
    BY <1>15, ToAuditType, KeydAssumption DEF RevealMisses, KeydAssumption, Kinds, Replies
  <2>3. ProcOK' /\ HostOK' /\ LoopOK' /\ PipeOK'
    BY <1>15, <2>2
       DEF RevealMisses, Miss, TypeOK, ProcOK, HostOK, LoopOK, PipeOK, procVars,
           hostVars, pipeVars, watchVars
  <2>4. QueueOK' /\ WatchOK' /\ PastOK'
    BY <1>15
       DEF RevealMisses, Miss, TypeOK, QueueOK, WatchOK, PastOK, procVars, hostVars,
           pipeVars, watchVars
  <2>5. QED
    BY <2>1, <2>3, <2>4 DEF TypeOK
<1>16. CASE RevealOpens
  <2>1. FlagsOK'
    BY <1>16 DEF RevealOpens, TypeOK, FlagsOK, procVars, hostVars, pipeVars
  <2>2. loop' \in Loops
    <3>1. CASE VaultHasSecret
      BY <1>16, <3>1, ToAuditType, KeydAssumption
         DEF RevealOpens, KeydAssumption, Kinds, Replies
    <3>2. CASE ~VaultHasSecret
      BY <1>16, <3>2 DEF RevealOpens, ToReply, TypeOK, LoopOK, Loops, Replies
    <3>3. QED
      BY <3>1, <3>2
  <2>3. ProcOK' /\ HostOK' /\ LoopOK' /\ PipeOK'
    BY <1>16, <2>2
       DEF RevealOpens, Hit, TypeOK, ProcOK, HostOK, LoopOK, PipeOK, procVars, hostVars,
           pipeVars
  <2>4. QueueOK' /\ WatchOK' /\ PastOK'
    BY <1>16 DEF RevealOpens, TypeOK, QueueOK, WatchOK, PastOK, pipeVars, watchVars
  <2>5. QED
    BY <2>1, <2>3, <2>4 DEF TypeOK
<1>17. CASE LoopAppends
  <2>1. FlagsOK'
    BY <1>17 DEF LoopAppends, TypeOK, FlagsOK, procVars, hostVars, pipeVars, watchVars
  <2>2. loop' \in Loops
    BY <1>17 DEF LoopAppends, TypeOK, LoopOK, Loops
  <2>3. ProcOK' /\ HostOK' /\ LoopOK' /\ PipeOK'
    BY <1>17, <2>2
       DEF LoopAppends, LoopOK, TypeOK, ProcOK, HostOK, PipeOK, procVars, hostVars,
           pipeVars, watchVars
  <2>4. QueueOK' /\ WatchOK' /\ PastOK'
    BY <1>17
       DEF LoopAppends, LoopOK, Loops, TypeOK, QueueOK, WatchOK, PastOK, procVars,
           hostVars, pipeVars, watchVars
  <2>5. QED
    BY <2>1, <2>3, <2>4 DEF TypeOK
<1>18. CASE LoopAppendThrows
  <2>1. CASE loop.record.kind = "reveal"
    <3>1. FlagsOK'
      BY <1>18, <2>1 DEF LoopAppendThrows, TypeOK, FlagsOK, procVars, hostVars, pipeVars
    <3>2. loop' \in Loops
      BY <1>18, <2>1, ToAuditType, KeydAssumption
         DEF LoopAppendThrows, KeydAssumption, Kinds, Replies
    <3>3. ProcOK' /\ HostOK' /\ LoopOK' /\ PipeOK'
      BY <1>18, <2>1, <3>2
         DEF LoopAppendThrows, TypeOK, ProcOK, HostOK, LoopOK, PipeOK,
             procVars, hostVars, pipeVars
    <3>4. QueueOK' /\ WatchOK' /\ PastOK'
      BY <1>18, <2>1
         DEF LoopAppendThrows, TypeOK, QueueOK, WatchOK, PastOK, pipeVars, watchVars
    <3>5. QED
      BY <3>1, <3>3, <3>4 DEF TypeOK
  <2>2. CASE loop.record.kind # "reveal"
    BY <1>18, <2>2, EndsType DEF LoopAppendThrows, TypeOK, HostOK
  <2>3. QED
    BY <2>1, <2>2
<1>19. CASE LoopReply
  <2>1. FlagsOK'
    BY <1>19 DEF LoopReply, TypeOK, FlagsOK, procVars, pipeVars
  <2>2. reply' \in Replies
    BY <1>19, SendReplyType DEF LoopReply, TypeOK, LoopOK, Loops
  <2>3. ProcOK' /\ HostOK' /\ LoopOK' /\ PipeOK'
    BY <1>19, <2>2, QuietTypes
       DEF LoopReply, TypeOK, ProcOK, HostOK, LoopOK, PipeOK, procVars, pipeVars
  <2>4. released' \in [Names -> Nat]
    <3> DEFINE p == <<gen, loop.frame.id>>
    <3>1. released \in [Names -> Nat]
      BY DEF TypeOK, PastOK
    <3>2. released' = released \/ released' = [released EXCEPT ![p] = released[p] + 1]
      BY <1>19 DEF LoopReply
    <3>3. p \in Names => released[p] + 1 \in Nat
      BY <3>1
    <3>4. QED
      BY <3>1, <3>2, <3>3
  <2>5. QueueOK' /\ WatchOK' /\ PastOK'
    BY <1>19, <2>4
       DEF LoopReply, TypeOK, QueueOK, WatchOK, PastOK, pipeVars, watchVars
  <2>6. QED
    BY <2>1, <2>3, <2>5 DEF TypeOK
<1>20. QED
  BY <1>1, <1>2, <1>3, <1>4, <1>5, <1>6, <1>7, <1>8, <1>9, <1>10, <1>11, <1>12, <1>13,
     <1>14, <1>15, <1>16, <1>17, <1>18, <1>19 DEF LoopNext

LEMMA PipeType == TypeOK /\ PipeNext => TypeOK'
<1> SUFFICES ASSUME TypeOK, PipeNext PROVE TypeOK'
  OBVIOUS
<1>1. CASE Connect
  <2>1. FlagsOK'
    BY <1>1 DEF Connect, TypeOK, FlagsOK, procVars, hostVars, loopVars, watchVars
  <2>2. ProcOK' /\ HostOK' /\ LoopOK' /\ PipeOK'
    BY <1>1
       DEF Connect, TypeOK, ProcOK, HostOK, LoopOK, PipeOK, procVars, hostVars,
           loopVars, watchVars
  <2>3. QueueOK' /\ WatchOK' /\ PastOK'
    BY <1>1
       DEF Connect, TypeOK, QueueOK, WatchOK, PastOK, procVars, hostVars, loopVars,
           watchVars
  <2>4. QED
    BY <2>1, <2>2, <2>3 DEF TypeOK
<1>2. CASE HangUp \/ FirstWait
  <2>1. FlagsOK'
    BY <1>2 DEF HangUp, FirstWait, TypeOK, FlagsOK, procVars, hostVars
  <2>2. pipe' \in Pipes
    BY <1>2 DEF HangUp, FirstWait, TypeOK, PipeOK, Pipes
  <2>3. ProcOK' /\ HostOK' /\ LoopOK' /\ PipeOK'
    BY <1>2, <2>2
       DEF HangUp, FirstWait, TypeOK, ProcOK, HostOK, LoopOK, PipeOK, procVars, hostVars,
           loopVars
  <2>4. QueueOK' /\ WatchOK' /\ PastOK'
    BY <1>2 DEF HangUp, FirstWait, TypeOK, QueueOK, WatchOK, PastOK, watchVars
  <2>5. QED
    BY <2>1, <2>3, <2>4 DEF TypeOK
<1>3. ASSUME NEW payload \in Payload, NEW provenance \in Origins,
             Submit(payload, provenance)
      PROVE  TypeOK'
  <2>1. FlagsOK'
    BY <1>3 DEF Submit, TypeOK, FlagsOK, procVars, hostVars
  <2> DEFINE n == Len(queue) + 1
             p == [payload |-> payload, provenance |-> provenance, state |-> "pending"]
  <2>2. n \in 0 .. MaxProposals /\ gen \in 0 .. MaxGen
    BY <1>3, KeydAssumption DEF KeydAssumption, Submit, TypeOK, ProcOK, QueueOK
  <2>3. Record("submit", gen, n) \in Records
    BY <2>2, RecordType DEF Kinds
  <2>4. pipe' \in Pipes
    BY <1>3, <2>2, <2>3 DEF Submit, Pipes
  <2>5. p \in Proposal
    BY KeydAssumption DEF KeydAssumption, Proposal
  <2>6. QueueOK'
    BY <1>3, <2>2, <2>5 DEF Submit, TypeOK, QueueOK
  <2>7. ProcOK' /\ HostOK' /\ LoopOK' /\ PipeOK' /\ WatchOK' /\ PastOK'
    BY <1>3, <2>4
       DEF Submit, TypeOK, ProcOK, HostOK, LoopOK, PipeOK, WatchOK, PastOK,
           procVars, hostVars, loopVars, watchVars
  <2>8. QED
    BY <2>1, <2>6, <2>7 DEF TypeOK
<1>4. CASE SubmitBadMac
  <2>1. FlagsOK'
    BY <1>4 DEF SubmitBadMac, TypeOK, FlagsOK, procVars, hostVars
  <2>2. Record("badmac", gen, 0) \in Records
    BY RecordType, KeydAssumption DEF KeydAssumption, Kinds, TypeOK, ProcOK
  <2>3. pipe' \in Pipes
    BY <1>4, <2>2, KeydAssumption DEF KeydAssumption, SubmitBadMac, Pipes
  <2>4. noise' \in 0 .. MaxNoise
    BY <1>4, KeydAssumption DEF KeydAssumption, SubmitBadMac, TypeOK, PipeOK
  <2>5. ProcOK' /\ HostOK' /\ LoopOK' /\ PipeOK' /\ QueueOK' /\ WatchOK' /\ PastOK'
    BY <1>4, <2>3, <2>4
       DEF SubmitBadMac, TypeOK, ProcOK, HostOK, LoopOK, PipeOK, QueueOK, WatchOK,
           PastOK, procVars, hostVars, loopVars, watchVars
  <2>6. QED
    BY <2>1, <2>5 DEF TypeOK
<1>5. CASE PipeAppends
  <2>1. FlagsOK'
    BY <1>5 DEF PipeAppends, TypeOK, FlagsOK, procVars, hostVars
  <2>2. pipe.record \in Records /\ pipe' \in Pipes
    BY <1>5 DEF PipeAppends, TypeOK, PipeOK, Pipes
  <2>3. ledger' \in Seq(Records)
    BY <1>5, <2>2 DEF PipeAppends, TypeOK, PastOK
  <2>4. ProcOK' /\ HostOK' /\ LoopOK' /\ PipeOK' /\ QueueOK' /\ WatchOK' /\ PastOK'
    BY <1>5, <2>2, <2>3
       DEF PipeAppends, TypeOK, ProcOK, HostOK, LoopOK, PipeOK, QueueOK, WatchOK,
           PastOK, procVars, hostVars, loopVars, watchVars
  <2>5. QED
    BY <2>1, <2>4 DEF TypeOK
<1>6. CASE PipeAppendThrows
  BY <1>6, EndsType DEF PipeAppendThrows, TypeOK, HostOK
<1>7. CASE PipeReply
  <2>1. FlagsOK'
    BY <1>7 DEF PipeReply, TypeOK, FlagsOK, procVars, hostVars
  <2>2. accepted' \subseteq Names
    <3>1. pipe.id # 0 => <<gen, pipe.id>> \in Names
      BY <1>7 DEF PipeReply, TypeOK, ProcOK, PipeOK, Pipes, Names, Gens, Ids
    <3>2. QED
      BY <1>7, <3>1 DEF PipeReply, TypeOK, PastOK
  <2>3. ProcOK' /\ HostOK' /\ LoopOK' /\ PipeOK'
    BY <1>7, QuietTypes
       DEF PipeReply, TypeOK, ProcOK, HostOK, LoopOK, PipeOK, procVars, hostVars, loopVars
  <2>4. QueueOK' /\ WatchOK' /\ PastOK'
    BY <1>7, <2>2 DEF PipeReply, TypeOK, QueueOK, WatchOK, PastOK, watchVars
  <2>5. QED
    BY <2>1, <2>3, <2>4 DEF TypeOK
<1>8. QED
  BY <1>1, <1>2, <1>3, <1>4, <1>5, <1>6, <1>7 DEF PipeNext

LEMMA WatchType == TypeOK /\ WatchNext => TypeOK'
<1> SUFFICES ASSUME TypeOK, WatchNext PROVE TypeOK'
  OBVIOUS
<1>1. CASE SessionLocks
  <2>1. FlagsOK'
    BY <1>1 DEF SessionLocks, TypeOK, FlagsOK, procVars, hostVars, loopVars, pipeVars
  <2>2. ProcOK' /\ HostOK' /\ LoopOK' /\ PipeOK'
    BY <1>1
       DEF SessionLocks, TypeOK, ProcOK, HostOK, LoopOK, PipeOK, procVars, hostVars,
           loopVars, pipeVars
  <2>3. QueueOK' /\ WatchOK' /\ PastOK'
    BY <1>1, KeydAssumption
       DEF KeydAssumption, SessionLocks, TypeOK, QueueOK, WatchOK, PastOK, procVars,
           hostVars, loopVars, pipeVars
  <2>4. QED
    BY <2>1, <2>2, <2>3 DEF TypeOK
<1>2. CASE WatchWipes
  <2>1. FlagsOK'
    BY <1>2 DEF WatchWipes, TypeOK, FlagsOK, procVars, hostVars, loopVars, pipeVars
  <2>2. ProcOK' /\ HostOK' /\ LoopOK' /\ PipeOK'
    BY <1>2
       DEF WatchWipes, TypeOK, ProcOK, HostOK, LoopOK, PipeOK, procVars, hostVars,
           loopVars, pipeVars
  <2>3. QueueOK' /\ WatchOK' /\ PastOK'
    BY <1>2
       DEF WatchWipes, TypeOK, QueueOK, WatchOK, PastOK, procVars, hostVars, loopVars,
           pipeVars
  <2>4. QED
    BY <2>1, <2>2, <2>3 DEF TypeOK
<1>3. CASE WatchAppends
  <2>1. FlagsOK'
    BY <1>3 DEF WatchAppends, TypeOK, FlagsOK, procVars, hostVars, pipeVars
  <2>2. Record("autolock", gen, 0) \in Records
    BY RecordType, KeydAssumption DEF KeydAssumption, Kinds, TypeOK, ProcOK
  <2>3. ProcOK' /\ HostOK' /\ LoopOK' /\ PipeOK' /\ QueueOK' /\ WatchOK' /\ PastOK'
    BY <1>3, <2>2
       DEF WatchAppends, TypeOK, ProcOK, HostOK, LoopOK, PipeOK, QueueOK, WatchOK,
           PastOK, procVars, hostVars, loopVars, pipeVars
  <2>4. QED
    BY <2>1, <2>3 DEF TypeOK
<1>4. CASE WatchAppendThrows
  BY <1>4, EndsType DEF WatchAppendThrows, TypeOK, HostOK
<1>5. QED
  BY <1>1, <1>2, <1>3, <1>4 DEF WatchNext

LEMMA StutterType == TypeOK /\ UNCHANGED vars => TypeOK'
<1> SUFFICES ASSUME TypeOK, UNCHANGED vars PROVE TypeOK'
  OBVIOUS
<1> USE DEF vars, procVars, hostVars, loopVars, pipeVars, watchVars, TypeOK
<1>1. FlagsOK'
  BY DEF FlagsOK
<1>2. ProcOK' /\ HostOK' /\ LoopOK' /\ PipeOK' /\ QueueOK' /\ WatchOK' /\ PastOK'
  BY DEF ProcOK, HostOK, LoopOK, PipeOK, QueueOK, WatchOK, PastOK
<1>3. QED
  BY <1>1, <1>2

\* Every variable keeps its type: the child's state, the queue with ids up to
\* its length, and the ledger, through restarts and failures.
THEOREM TypeCorrect == Spec => []TypeOK
<1>1. TypeOK /\ [Next]_vars => TypeOK'
  BY ProcType, HostType, LoopType, PipeType, WatchType, StutterType DEF Next
<1>2. QED
  BY InitType, <1>1, PTL DEF Spec

(***************************************************************************)
(* Safety.                                                                 *)
(***************************************************************************)

VerdictKinds == {"approve", "deny"}

\* Nothing new is said of any proposal on the ledger.
SameVerdicts ==
  \A kind \in VerdictKinds : \A p : Written(kind, p)' <=> Written(kind, p)

-----------------------------------------------------------------------------
(* The ledger *)

LEMMA WrittenAppend ==
  ASSUME NEW r \in Records, ledger \in Seq(Records), ledger' = Append(ledger, r),
         NEW kind, NEW p
  PROVE  Written(kind, p)' <=> Written(kind, p) \/ r = Record(kind, p[1], p[2])
<1>1. /\ Len(ledger') = Len(ledger) + 1 /\ Len(ledger) \in Nat
      /\ ledger'[Len(ledger) + 1] = r
      /\ \A i \in 1 .. Len(ledger) : ledger'[i] = ledger[i]
  OBVIOUS
<1>2. 1 .. Len(ledger') = 1 .. Len(ledger) \cup {Len(ledger) + 1}
  BY <1>1
<1>3. QED
  BY <1>1, <1>2 DEF Written

LEMMA SameLedger ==
  ASSUME ledger' = ledger
  PROVE  SameVerdicts /\ (NoSecondVerdict => NoSecondVerdict')
BY DEF SameVerdicts, Written, NoSecondVerdict

\* A record that is no verdict.
LEMMA OtherRecord ==
  ASSUME TypeOK, NEW r \in Records, r.kind \notin VerdictKinds,
         ledger' = Append(ledger, r), NoSecondVerdict
  PROVE  SameVerdicts /\ NoSecondVerdict'
<1>1. ledger \in Seq(Records)
  BY DEF TypeOK, PastOK
<1>2. SameVerdicts
  BY <1>1, WrittenAppend DEF SameVerdicts, Record, VerdictKinds
<1>3. /\ Len(ledger') = Len(ledger) + 1 /\ Len(ledger) \in Nat
      /\ ledger'[Len(ledger) + 1] = r
      /\ \A i \in 1 .. Len(ledger) : ledger'[i] = ledger[i]
  BY <1>1
<1>4. \A i \in 1 .. Len(ledger') :
        ledger'[i].kind \in VerdictKinds => i \in 1 .. Len(ledger) /\ ledger'[i] = ledger[i]
  BY <1>3
<1>5. NoSecondVerdict'
  BY <1>4 DEF NoSecondVerdict, VerdictKinds
<1>6. QED
  BY <1>2, <1>5

\* A verdict on a proposal that has none on the ledger.
LEMMA FirstRecord ==
  ASSUME TypeOK, NEW p \in Names, Clean(p), NEW kind \in VerdictKinds,
         Record(kind, p[1], p[2]) \in Records,
         ledger' = Append(ledger, Record(kind, p[1], p[2])), NoSecondVerdict
  PROVE  NoSecondVerdict'
<1> DEFINE r == Record(kind, p[1], p[2])
<1>1. ledger \in Seq(Records)
  BY DEF TypeOK, PastOK
<1>2. /\ Len(ledger') = Len(ledger) + 1 /\ Len(ledger) \in Nat
      /\ ledger'[Len(ledger) + 1] = r
      /\ \A i \in 1 .. Len(ledger) : ledger'[i] = ledger[i]
  BY <1>1
<1>3. \A i \in 1 .. Len(ledger) :
        ledger[i].kind \in VerdictKinds => ledger[i].gen # p[1] \/ ledger[i].id # p[2]
  <2> SUFFICES ASSUME NEW i \in 1 .. Len(ledger), ledger[i].kind \in VerdictKinds,
                      ledger[i].gen = p[1], ledger[i].id = p[2]
               PROVE  FALSE
    OBVIOUS
  <2>1. ledger[i] \in Records
    BY <1>1
  <2>2. ledger[i] = Record(ledger[i].kind, p[1], p[2])
    BY <2>1 DEF Records, Record
  <2>3. QED
    BY <2>2 DEF Clean, Written, VerdictKinds
<1>4. r.gen = p[1] /\ r.id = p[2]
  BY DEF Record
<1> HIDE DEF r
<1>5. \A i \in 1 .. Len(ledger') : i \in 1 .. Len(ledger) \/ i = Len(ledger) + 1
  BY <1>2
<1>6. QED
  BY <1>2, <1>3, <1>4, <1>5 DEF NoSecondVerdict, VerdictKinds

-----------------------------------------------------------------------------
(* Steps that say nothing of any proposal *)

LEMMA QuietStep ==
  ASSUME VerdictInv, SameVerdicts, NoSecondVerdict', NothingLeft', LoopHolds',
         UNCHANGED <<status, gen, queue, released>>, parent' => parent,
         \A p \in Names : Auditing("approve", p) => Auditing("approve", p)',
         \A p \in Names : Sending(p) => Sending(p)'
  PROVE  VerdictInv'
<1> SUFFICES ASSUME NEW p \in Names PROVE SameStory(p)'
  BY DEF VerdictInv
<1>1. SameStory(p)
  BY DEF VerdictInv
<1>2. /\ Written("approve", p)' <=> Written("approve", p)
      /\ Written("deny", p)' <=> Written("deny", p)
  BY DEF SameVerdicts, VerdictKinds
<1>3. StateOf(p[2])' = StateOf(p[2]) /\ (Clean(p) => Clean(p)')
  BY <1>2 DEF StateOf, Clean
<1>4. QED
  BY <1>1, <1>2, <1>3 DEF SameStory

\* The loop stays where it is.
LEMMA ElsewhereStep ==
  ASSUME VerdictInv, SameVerdicts, NoSecondVerdict',
         UNCHANGED <<status, gen, queue, released, loop>>, parent' => parent,
         pipe' = pipe \/ pipe' = QuietPipe \/ status = "running",
         pipe'.at = "audit" => pipe'.record.kind \in {"submit", "badmac"}
  PROVE  VerdictInv'
<1>1. NothingLeft'
  BY DEF VerdictInv, NothingLeft
<1>2. \A p : /\ Clean(p) => Clean(p)'
             /\ Written("approve", p) => Written("approve", p)'
  BY DEF Clean, SameVerdicts, VerdictKinds
<1>3. \A id : StateOf(id)' = StateOf(id) /\ CanResolve(id)' = CanResolve(id)
  BY DEF StateOf, CanResolve
<1>4. LoopHolds'
  BY <1>2, <1>3 DEF VerdictInv, LoopHolds
<1>5. QED
  BY <1>1, <1>4, QuietStep DEF Auditing, Sending

\* The loop moves on, holding nothing.
LEMMA LoopStep ==
  ASSUME VerdictInv, UNCHANGED <<status, gen, queue, released, ledger>>,
         parent' => parent, status = "running",
         pipe' = pipe \/ pipe'.at # "audit",
         loop.answer # "Signed",
         loop.at = "audit" => loop.record.kind \notin VerdictKinds,
         loop'.answer # "Signed",
         loop'.at = "audit" => loop'.record.kind \notin VerdictKinds,
         loop'.at = "resolve" => CanResolve(loop'.frame.id)
  PROVE  VerdictInv'
<1>1. NothingLeft' /\ SameVerdicts /\ NoSecondVerdict'
  BY SameLedger DEF VerdictInv, NothingLeft
<1>2. \A id : CanResolve(id)' = CanResolve(id)
  BY DEF StateOf, CanResolve
<1>3. LoopHolds'
  BY <1>2 DEF VerdictInv, LoopHolds, VerdictKinds
<1>4. QED
  BY <1>1, <1>3, QuietStep DEF Auditing, Sending, VerdictKinds, Record

-----------------------------------------------------------------------------
(* Steps that do *)

LEMMA EndsSafe ==
  ASSUME VerdictInv, NEW how, how # "running", Ends(how), status = "running"
  PROVE  VerdictInv'
<1>1. NothingLeft' /\ LoopHolds'
  BY DEF Ends, NothingLeft, LoopHolds, Idle, QuietPipe
<1>2. SameVerdicts /\ NoSecondVerdict'
  BY SameLedger DEF Ends, VerdictInv
<1>3. ASSUME NEW p \in Names PROVE SameStory(p)'
  BY <1>2 DEF VerdictInv, SameStory, Ends, SameVerdicts, VerdictKinds, Clean
<1>4. QED
  BY <1>1, <1>2, <1>3 DEF VerdictInv

\* A new child: none of its names has been used.
LEMMA SpawnSafe ==
  ASSUME TypeOK, VerdictInv, Spawn
  PROVE  VerdictInv'
<1>1. NothingLeft' /\ LoopHolds'
  BY DEF Spawn, VerdictInv, NothingLeft, LoopHolds, Idle, QuietPipe, pipeVars
<1>2. SameVerdicts /\ NoSecondVerdict'
  BY SameLedger DEF Spawn, VerdictInv
<1>3. ASSUME NEW p \in Names PROVE SameStory(p)'
  <2>1. SameStory(p) /\ (Clean(p) => Clean(p)')
    BY <1>2 DEF VerdictInv, Spawn, Clean, SameVerdicts, VerdictKinds
  <2>2. /\ Written("approve", p)' <=> Written("approve", p)
        /\ Written("deny", p)' <=> Written("deny", p)
    BY <1>2 DEF SameVerdicts, VerdictKinds
  <2>3. gen \in Nat /\ p[1] \in Nat /\ gen' = gen + 1 /\ released' = released
    BY KeydAssumption DEF KeydAssumption, TypeOK, ProcOK, Names, Gens, Spawn
  <2>4. queue' = <<>>
    BY DEF Spawn, VerdictInv, NothingLeft
  <2>5. StateOf(p[2])' = "unknown"
    BY <2>4 DEF StateOf
  <2>6. p[1] >= gen + 1 => Clean(p)'
    BY <2>1, <2>3 DEF SameStory
  <2>7. QED
    BY <2>1, <2>2, <2>3, <2>5, <2>6 DEF SameStory, Clean
<1>4. QED
  BY <1>1, <1>2, <1>3 DEF VerdictInv

\* A submission takes the next id, of which nothing has been said.
LEMMA SubmitSafe ==
  ASSUME TypeOK, VerdictInv, NEW payload \in Payload, NEW provenance \in Origins,
         Submit(payload, provenance)
  PROVE  VerdictInv'
<1> DEFINE new == [payload |-> payload, provenance |-> provenance, state |-> "pending"]
           n == Len(queue) + 1
<1>1. SameVerdicts /\ NoSecondVerdict'
  BY SameLedger DEF Submit, VerdictInv
<1>2. NothingLeft'
  BY DEF Submit, Serving, NothingLeft, procVars
<1>3. queue \in Seq(Proposal) /\ Len(queue) \in Nat /\ queue' = Append(queue, new)
  BY DEF TypeOK, QueueOK, Submit
<1>4. new \in Proposal
  BY KeydAssumption DEF KeydAssumption, Proposal
<1>5. /\ Len(queue') = n
      /\ queue'[n] = new
      /\ \A i \in 1 .. Len(queue) : queue'[i] = queue[i]
  BY <1>3, <1>4
<1>6. ASSUME NEW id, id \in Nat
      PROVE  StateOf(id)' = IF id = n THEN "pending" ELSE StateOf(id)
  BY <1>3, <1>5, <1>6 DEF StateOf
<1>7. StateOf(n) = "unknown"
  BY <1>3 DEF StateOf
<1>8. \A id \in Nat : StateOf(id) # "unknown" => StateOf(id)' = StateOf(id)
  BY <1>6, <1>7
<1>9. loop.frame.id \in Nat /\ loop' = loop /\ gen' = gen /\ released' = released
  BY KeydAssumption
     DEF KeydAssumption, TypeOK, LoopOK, Loops, Frames, Submit, loopVars, procVars
<1>10. \A p : (Clean(p) => Clean(p)')
               /\ (Written("approve", p) => Written("approve", p)')
  BY <1>1, <1>9 DEF Clean, SameVerdicts, VerdictKinds
<1>11. LoopHolds'
  <2>1. pipe'.record.kind = "submit"
    BY DEF Submit, Record
  <2>2. CanResolve(loop.frame.id) => CanResolve(loop.frame.id)'
    BY <1>8, <1>9 DEF CanResolve
  <2>3. QED
    BY <1>8, <1>9, <1>10, <2>1, <2>2 DEF VerdictInv, LoopHolds
<1>12. ASSUME NEW p \in Names PROVE SameStory(p)'
  <2>1. SameStory(p) /\ p[2] \in Nat
    BY KeydAssumption DEF KeydAssumption, VerdictInv, Names, Ids
  <2>2. /\ Written("approve", p)' <=> Written("approve", p)
        /\ Written("deny", p)' <=> Written("deny", p)
    BY <1>1 DEF SameVerdicts, VerdictKinds
  <2>3. UNCHANGED <<status, gen, parent, released, loop>>
    BY DEF Submit, procVars, loopVars
  <2>4. CASE p[2] = n
    <3>1. StateOf(p[2])' = "pending" /\ StateOf(p[2]) = "unknown"
      BY <1>6, <1>7, <2>1, <2>4
    <3>2. QED
      BY <1>10, <2>1, <2>2, <2>3, <3>1 DEF SameStory
  <2>5. CASE p[2] # n
    <3>1. StateOf(p[2])' = StateOf(p[2])
      BY <1>6, <2>1, <2>5
    <3>2. QED
      BY <1>10, <2>1, <2>2, <2>3, <3>1 DEF SameStory, Auditing, Sending
  <2>6. QED
    BY <2>4, <2>5
<1>13. QED
  BY <1>1, <1>2, <1>11, <1>12 DEF VerdictInv

\* A pending proposal gets its verdict, and the loop holds the record of it.
LEMMA VerdictSafe ==
  ASSUME TypeOK, VerdictInv, status = "running",
         NEW id \in 0 .. MaxProposals, CanResolve(id),
         NEW kind \in VerdictKinds, NEW verdict,
         verdict = IF kind = "approve" THEN "approved" ELSE "denied",
         Resolve(id, verdict),
         loop.at \notin {"audit", "reply"},
         loop'.at = "audit", loop'.record = Record(kind, gen, id), loop'.frame.id = id,
         loop'.answer = (IF kind = "approve" THEN "Signed" ELSE "Ok"),
         UNCHANGED <<status, gen, parent, ledger, released, pipe>>
  PROVE  VerdictInv'
<1>1. SameVerdicts /\ NoSecondVerdict' /\ NothingLeft'
  BY SameLedger DEF VerdictInv, NothingLeft
<1>2. id \in 1 .. Len(queue) /\ queue[id].state = "pending" /\ queue[id] \in Proposal
  BY DEF CanResolve, StateOf, TypeOK, QueueOK
<1>3. /\ Len(queue') = Len(queue)
      /\ queue'[id].state = verdict
      /\ \A i \in 1 .. Len(queue) : i # id => queue'[i] = queue[i]
  <2>1. queue' = [queue EXCEPT ![id] = [queue[id] EXCEPT !.state = verdict]]
    BY DEF Resolve
  <2>2. [queue[id] EXCEPT !.state = verdict] \in Proposal
    BY <1>2 DEF Proposal
  <2>3. queue \in Seq(Proposal)
    BY DEF TypeOK, QueueOK
  <2>4. [queue[id] EXCEPT !.state = verdict].state = verdict
    BY <1>2 DEF Proposal
  <2>5. QED
    BY <1>2, <2>1, <2>2, <2>3, <2>4, ExceptSeq
<1>4. StateOf(id)' = verdict
  BY <1>2, <1>3 DEF StateOf
<1>5. \A i : i # id => StateOf(i)' = StateOf(i)
  BY <1>3 DEF StateOf
<1>6. <<gen, id>> \in Names
  BY <1>2, KeydAssumption
     DEF KeydAssumption, TypeOK, ProcOK, QueueOK, Names, Gens, Ids
<1>7. Clean(<<gen, id>>)
  BY <1>2, <1>6 DEF VerdictInv, SameStory, CanResolve
<1>8. Clean(<<gen, id>>)'
  BY <1>1, <1>7 DEF Clean, SameVerdicts, VerdictKinds
<1>9. LoopHolds'
  BY <1>4, <1>8 DEF VerdictInv, LoopHolds, VerdictKinds, Record
<1>10. ASSUME NEW p \in Names PROVE SameStory(p)'
  <2>1. SameStory(p) /\ p = <<p[1], p[2]>>
    BY DEF VerdictInv, Names
  <2>2. /\ Written("approve", p)' <=> Written("approve", p)
        /\ Written("deny", p)' <=> Written("deny", p)
    BY <1>1 DEF SameVerdicts, VerdictKinds
  <2>3. ~Auditing("approve", p) /\ ~Sending(p)
    BY DEF Auditing, Sending
  <2>4. CASE p = <<gen, id>>
    <3>1. Clean(p)' /\ Clean(p) /\ p[1] = gen /\ p[2] = id
      BY <1>7, <1>8, <2>4
    <3>2. kind = "approve" => Auditing("approve", p)'
      BY <3>1 DEF Auditing
    <3>3. verdict \notin {"unknown", "pending"} /\ (verdict = "approved" => kind = "approve")
      BY DEF VerdictKinds
    <3>4. gen \in Nat
      BY KeydAssumption DEF KeydAssumption, TypeOK, ProcOK
    <3>5. QED
      BY <1>4, <2>1, <3>1, <3>2, <3>3, <3>4 DEF SameStory, Clean
  <2>5. CASE p # <<gen, id>>
    <3>1. p[1] = gen => StateOf(p[2])' = StateOf(p[2])
      BY <1>5, <2>1, <2>5
    <3>2. Clean(p) => Clean(p)'
      BY <2>2 DEF Clean
    <3>3. QED
      BY <2>1, <2>2, <2>3, <3>1, <3>2 DEF SameStory
  <2>6. QED
    BY <2>4, <2>5
<1>11. QED
  BY <1>1, <1>9, <1>10 DEF VerdictInv

\* The record of a verdict reaches the ledger.
LEMMA RecordSafe ==
  ASSUME TypeOK, VerdictInv, LoopAppends, loop.record.kind \in VerdictKinds
  PROVE  VerdictInv'
<1> DEFINE kind == loop.record.kind
           id == loop.frame.id
           q == <<gen, id>>
<1>1. /\ loop.at = "audit" /\ status = "running"
      /\ loop.record = Record(kind, gen, id)
      /\ StateOf(id) = IF kind = "approve" THEN "approved" ELSE "denied"
      /\ Clean(q)
      /\ kind = "approve" => loop.answer = "Signed"
      /\ kind = "deny" => loop.answer # "Signed"
  BY DEF LoopAppends, At, VerdictInv, LoopHolds, VerdictKinds
<1>2. q \in Names /\ q[1] = gen /\ q[2] = id
  BY <1>1, KeydAssumption
     DEF KeydAssumption, StateOf, TypeOK, ProcOK, QueueOK, Names, Gens, Ids
<1>3. ledger \in Seq(Records) /\ loop \in Loops /\ loop.record \in Records
  BY DEF TypeOK, PastOK, LoopOK, Loops
<1>4. /\ ledger' = Append(ledger, loop.record)
      /\ loop' = [loop EXCEPT !.at = "reply"]
      /\ UNCHANGED <<status, gen, parent, queue, released, pipe>>
  BY DEF LoopAppends, procVars, pipeVars
<1>5. /\ loop'.at = "reply" /\ loop'.answer = loop.answer /\ loop'.frame = loop.frame
      /\ q' = q
  BY <1>3, <1>4 DEF Loops
<1>6. NoSecondVerdict' /\ NothingLeft'
  BY <1>1, <1>2, <1>3, <1>4, FirstRecord DEF VerdictInv, NothingLeft
<1>7. \A k \in VerdictKinds : \A p :
        Written(k, p)' <=> Written(k, p) \/ Record(kind, gen, id) = Record(k, p[1], p[2])
  BY <1>1, <1>3, <1>4, WrittenAppend
<1> HIDE DEF kind, id, q
<1>8. /\ Written("approve", q)' <=> kind = "approve"
      /\ Written("deny", q)' <=> kind = "deny"
  BY <1>1, <1>2, <1>5, <1>7 DEF Clean, Record, VerdictKinds
<1>9. \A i : StateOf(i)' = StateOf(i)
  BY <1>4 DEF StateOf
<1>10. kind \in {"approve", "deny"} /\ id = loop.frame.id /\ q = <<gen, id>>
  BY DEF VerdictKinds, kind, id, q
<1>11. LoopHolds'
  <2>1. loop.answer = "Signed" =>
          /\ StateOf(loop.frame.id)' = "approved"
          /\ Written("approve", <<gen, loop.frame.id>>)'
          /\ released'[q] = 0
    BY <1>1, <1>4, <1>5, <1>8, <1>9, <1>10 DEF Clean, q
  <2>2. q = <<gen, loop.frame.id>> /\ q = <<gen', loop'.frame.id>>
    BY <1>4, <1>5, <1>10
  <2>3. QED
    BY <1>4, <1>5, <2>1, <2>2 DEF VerdictInv, LoopHolds
<1>12. ASSUME NEW p \in Names PROVE SameStory(p)'
  <2>1. SameStory(p) /\ p = <<p[1], p[2]>>
    BY DEF VerdictInv, Names
  <2>2. CASE p = q
    <3>1. p[1] = gen /\ p[2] = id /\ released[p] = 0 /\ gen \in Nat
      BY <1>1, <1>2, <2>2, KeydAssumption DEF KeydAssumption, Clean, TypeOK, ProcOK
    <3>2. kind = "approve" => Sending(p)'
      BY <1>1, <1>4, <1>5, <1>10, <2>2 DEF Sending
    <3>3. QED
      BY <1>1, <1>4, <1>5, <1>8, <1>9, <1>10, <2>2, <3>1, <3>2 DEF SameStory, Clean
  <2>3. CASE p # q
    <3>1. p[1] # gen \/ p[2] # id
      BY <1>10, <2>1, <2>3
    <3>2. /\ Written("approve", p)' <=> Written("approve", p)
          /\ Written("deny", p)' <=> Written("deny", p)
      BY <1>7, <3>1 DEF Record, VerdictKinds
    <3>3. ~Auditing("approve", p) /\ ~Sending(p)
      BY <1>1, <3>1 DEF Auditing, Sending, Record
    <3>4. QED
      BY <1>4, <1>9, <2>1, <3>2, <3>3 DEF SameStory, Clean
  <2>4. QED
    BY <2>2, <2>3
<1>13. QED
  BY <1>6, <1>11, <1>12 DEF VerdictInv

\* The signature leaves.
LEMMA ReplySafe ==
  ASSUME TypeOK, VerdictInv, LoopReply
  PROVE  VerdictInv'
<1> DEFINE q == <<gen, loop.frame.id>>
<1>1. /\ loop.at = "reply" /\ status = "running" /\ loop' = Idle
      /\ UNCHANGED <<status, gen, parent, queue, ledger, pipe>>
  BY DEF LoopReply, At, procVars, pipeVars
<1>2. SameVerdicts /\ NoSecondVerdict' /\ NothingLeft'
  BY <1>1, SameLedger DEF VerdictInv, NothingLeft
<1>3. LoopHolds'
  BY <1>1 DEF VerdictInv, LoopHolds, Idle
<1>4. \A i : StateOf(i)' = StateOf(i)
  BY <1>1 DEF StateOf
<1>5. CASE parent /\ loop.answer = "Signed"
  <2>1. /\ StateOf(loop.frame.id) = "approved" /\ Written("approve", q)
        /\ released[q] = 0 /\ released' = [released EXCEPT ![q] = released[q] + 1]
    BY <1>1, <1>5 DEF VerdictInv, LoopHolds, LoopReply
  <2>2. q \in Names /\ q[1] = gen /\ q[2] = loop.frame.id
    BY <2>1, <1>1, KeydAssumption
       DEF KeydAssumption, StateOf, TypeOK, ProcOK, QueueOK, Names, Gens, Ids
  <2>3. released'[q] = 1 /\ \A p \in Names : p # q => released'[p] = released[p]
    BY <2>1, <2>2 DEF TypeOK, PastOK
  <2> HIDE DEF q
  <2>4. ASSUME NEW p \in Names PROVE SameStory(p)'
    <3>1. SameStory(p)
      BY DEF VerdictInv
    <3>2. /\ Written("approve", p)' <=> Written("approve", p)
          /\ Written("deny", p)' <=> Written("deny", p)
      BY <1>2 DEF SameVerdicts, VerdictKinds
    <3>3. ~Auditing("approve", p)
      BY <1>1 DEF Auditing
    <3>4. CASE p = q
      <4>1. gen \in Nat
        BY KeydAssumption DEF KeydAssumption, TypeOK, ProcOK
      <4>2. QED
        BY <1>1, <1>4, <2>1, <2>2, <2>3, <3>1, <3>2, <3>4, <4>1 DEF SameStory, Clean
    <3>5. CASE p # q
      <4>1. ~Sending(p)
        BY <3>5 DEF Sending, q
      <4>2. released'[p] = released[p]
        BY <2>3, <3>5
      <4>3. QED
        BY <1>1, <1>4, <3>1, <3>2, <3>3, <4>1, <4>2 DEF SameStory, Clean
    <3>6. QED
      BY <3>4, <3>5
  <2>5. QED
    BY <1>2, <1>3, <2>4 DEF VerdictInv
<1>6. CASE ~(parent /\ loop.answer = "Signed")
  <2>1. released' = released
    BY <1>6 DEF LoopReply
  <2>2. ASSUME NEW p \in Names PROVE SameStory(p)'
    <3>1. SameStory(p)
      BY DEF VerdictInv
    <3>2. /\ Written("approve", p)' <=> Written("approve", p)
          /\ Written("deny", p)' <=> Written("deny", p)
      BY <1>2 DEF SameVerdicts, VerdictKinds
    <3>3. ~Auditing("approve", p) /\ (parent => ~Sending(p))
      BY <1>1, <1>6 DEF Auditing, Sending
    <3>4. QED
      BY <1>1, <1>4, <2>1, <3>1, <3>2, <3>3 DEF SameStory, Clean
  <2>3. QED
    BY <1>2, <1>3, <2>2 DEF VerdictInv
<1>7. QED
  BY <1>5, <1>6

-----------------------------------------------------------------------------
(* VerdictInv is inductive *)

LEMMA InitVerdict == Init => VerdictInv
<1> SUFFICES ASSUME Init PROVE VerdictInv
  OBVIOUS
<1>1. ledger = <<>> /\ queue = <<>> /\ loop = Idle /\ pipe = QuietPipe
      /\ status # "running" /\ \A p \in Names : released[p] = 0
  BY DEF Init
<1>2. \A kind, p : ~Written(kind, p)
  BY <1>1 DEF Written
<1>3. QED
  BY <1>1, <1>2 DEF VerdictInv, NothingLeft, LoopHolds, NoSecondVerdict, SameStory,
     Clean, Idle, QuietPipe

LEMMA ProcVerdict == TypeOK /\ VerdictInv /\ ProcNext => VerdictInv'
<1> SUFFICES ASSUME TypeOK, VerdictInv, ProcNext PROVE VerdictInv'
  OBVIOUS
<1>1. CASE Spawn
  BY <1>1, SpawnSafe
<1>2. CASE StartPlane
  <2>1. pipe'.at = "new" /\ loop'.at = "hello" /\ loop'.answer = loop.answer
    BY <1>2 DEF StartPlane, QuietPipe, TypeOK, LoopOK, Loops
  <2>2. QED
    BY <1>2, <2>1, LoopStep DEF StartPlane, At, VerdictInv, LoopHolds, procVars
<1>3. CASE NameTaken
  BY <1>3, EndsSafe DEF NameTaken
<1>4. CASE ParentDies
  BY <1>4, ElsewhereStep, SameLedger
     DEF ParentDies, VerdictInv, LoopHolds, loopVars, pipeVars
<1>5. CASE Killed
  BY <1>5, EndsSafe DEF Killed
<1>6. QED
  BY <1>1, <1>2, <1>3, <1>4, <1>5 DEF ProcNext

LEMMA HostVerdict == TypeOK /\ VerdictInv /\ HostNext => VerdictInv'
<1> SUFFICES ASSUME TypeOK, VerdictInv, HostNext PROVE VerdictInv'
  OBVIOUS
<1>1. UNCHANGED <<procVars, loopVars, queue, ledger, pipeVars, released>>
  BY DEF HostNext, Receive, Send
<1>2. QED
  BY <1>1, ElsewhereStep, SameLedger
     DEF VerdictInv, LoopHolds, procVars, loopVars, pipeVars

LEMMA LoopVerdict == TypeOK /\ VerdictInv /\ LoopNext => VerdictInv'
<1> SUFFICES ASSUME TypeOK, VerdictInv, LoopNext PROVE VerdictInv'
  OBVIOUS
<1> USE DEF At, Got, Opening
<1>0. /\ loop.at \notin {"audit", "reply"} => loop.answer # "Signed"
      /\ Idle.answer # "Signed" /\ Idle.at = "recv"
      /\ loop \in Loops /\ loop.frame.id \in 0 .. MaxProposals
  BY DEF VerdictInv, LoopHolds, Idle, TypeOK, LoopOK, Loops, Frames
<1>1. CASE LoopHello
  <2>1. CASE parent
    BY <1>0, <1>1, <2>1, LoopStep DEF LoopHello, procVars, pipeVars
  <2>2. CASE ~parent
    BY <1>1, <2>2, EndsSafe DEF LoopHello
  <2>3. QED
    BY <2>1, <2>2
<1>2. CASE LoopParentGone
  BY <1>2, EndsSafe DEF LoopParentGone
<1>3. CASE LoopLock
  BY <1>3, ElsewhereStep, SameLedger
     DEF LoopLock, VerdictInv, LoopHolds, procVars, loopVars, pipeVars
<1>4. CASE LoopShutdown
  BY <1>4, EndsSafe DEF LoopShutdown
<1>5. CASE LoopRead
  BY <1>5, ElsewhereStep, SameLedger
     DEF LoopRead, VerdictInv, LoopHolds, procVars, loopVars, pipeVars
<1>6. CASE LoopDeny
  <2>1. request.id \in 0 .. MaxProposals
    BY DEF TypeOK, HostOK, Frames
  <2>2. CASE CanResolve(request.id)
    <3>1. /\ loop'.at = "audit" /\ loop'.record = Record("deny", gen, request.id)
          /\ loop'.frame.id = request.id /\ loop'.answer = "Ok"
      BY <1>6, <2>2 DEF LoopDeny, Idle
    <3>2. UNCHANGED <<status, gen, parent, ledger, released, pipe>>
          /\ Resolve(request.id, "denied") /\ status = "running" /\ loop.at = "recv"
      BY <1>6, <2>2 DEF LoopDeny, procVars, pipeVars
    <3>3. QED
      BY <2>1, <2>2, <3>1, <3>2, VerdictSafe DEF VerdictKinds
  <2>3. CASE ~CanResolve(request.id)
    <3>1. loop'.at = "reply" /\ loop'.answer = "Err"
      BY <1>6, <2>3 DEF LoopDeny, Idle
    <3>2. QED
      BY <1>0, <1>6, <2>3, <3>1, LoopStep DEF LoopDeny, procVars, pipeVars
  <2>4. QED
    BY <2>2, <2>3
<1>7. CASE LoopTakePass
  <2>1. loop'.at \in {"stall", "open"} /\ loop'.answer = "none"
    BY <1>7 DEF LoopTakePass, Idle
  <2>2. QED
    BY <1>0, <1>7, <2>1, LoopStep DEF LoopTakePass, procVars, pipeVars
<1>8. CASE LoopStall
  <2>1. loop'.at = "open" /\ loop'.answer = loop.answer
    BY <1>0, <1>8 DEF LoopStall, Loops
  <2>2. QED
    BY <1>0, <1>8, <2>1, LoopStep DEF LoopStall, procVars, pipeVars
<1>9. CASE UnlockOpens
  BY <1>0, <1>9, LoopStep DEF UnlockOpens, procVars, pipeVars
<1>10. CASE UnlockMisses
  BY <1>0, <1>10, LoopStep DEF UnlockMisses, procVars, pipeVars
<1>11. CASE ApproveMisses
  <2>1. loop'.record.kind = "badpass" /\ loop'.answer = "Err" /\ loop'.at = "audit"
    BY <1>0, <1>11 DEF ApproveMisses, ToAudit, Loops, Record
  <2>2. QED
    BY <1>0, <1>11, <2>1, LoopStep DEF ApproveMisses, VerdictKinds, procVars, pipeVars
<1>12. CASE ApproveOpens
  <2>1. loop'.at = "sign" /\ loop'.answer = loop.answer
    BY <1>0, <1>12 DEF ApproveOpens, Loops
  <2>2. QED
    BY <1>0, <1>12, <2>1, LoopStep DEF ApproveOpens, procVars, pipeVars
<1>13. CASE ApproveSigns
  <2>1. /\ loop'.at = "resolve" => CanResolve(loop'.frame.id)
        /\ loop'.at = "audit" => loop'.record.kind = "signfail"
        /\ loop'.answer # "Signed"
    <3> DEFINE id == loop.frame.id
    <3>1. loop.answer # "Signed"
      BY <1>0, <1>13 DEF ApproveSigns
    <3>2. CASE StateOf(id) # "pending"
      BY <1>0, <1>13, <3>1, <3>2 DEF ApproveSigns, ToReply, Loops
    <3>3. CASE StateOf(id) = "pending" /\ queue[id].payload \notin Signable
      <4>1. ToAudit("signfail", id, "Err")
        BY <1>13, <3>3 DEF ApproveSigns
      <4>2. QED
        BY <1>0, <4>1 DEF ToAudit, Loops, Record
    <3>4. CASE StateOf(id) = "pending" /\ queue[id].payload \in Signable
      BY <1>0, <1>13, <3>1, <3>4 DEF ApproveSigns, CanResolve, Loops
    <3>5. QED
      BY <3>2, <3>3, <3>4
  <2>2. QED
    <3>1. UNCHANGED <<status, gen, parent, queue, released, ledger, pipe>>
      BY <1>13 DEF ApproveSigns, procVars, pipeVars
    <3>2. status = "running" /\ loop.at = "sign"
      BY <1>13 DEF ApproveSigns
    <3>3. QED
      BY <1>0, <2>1, <3>1, <3>2, LoopStep DEF VerdictKinds
<1>14. CASE ApproveResolves
  <2>1. CanResolve(loop.frame.id)
    BY <1>14 DEF ApproveResolves, VerdictInv, LoopHolds
  <2>2. /\ loop'.at = "audit" /\ loop'.record = Record("approve", gen, loop.frame.id)
        /\ loop'.frame.id = loop.frame.id /\ loop'.answer = "Signed"
    BY <1>0, <1>14 DEF ApproveResolves, ToAudit, Loops
  <2>3. UNCHANGED <<status, gen, parent, ledger, released, pipe>>
        /\ Resolve(loop.frame.id, "approved")
    BY <1>14, <2>1 DEF ApproveResolves, procVars, pipeVars
  <2>4. QED
    BY <1>0, <1>14, <2>1, <2>2, <2>3, VerdictSafe DEF ApproveResolves, VerdictKinds
<1>15. CASE RevealMisses
  <2>1. loop'.record.kind = "revealbad" /\ loop'.answer = "Err" /\ loop'.at = "audit"
    BY <1>0, <1>15 DEF RevealMisses, ToAudit, Loops, Record
  <2>2. QED
    BY <1>0, <1>15, <2>1, LoopStep DEF RevealMisses, VerdictKinds, procVars, pipeVars
<1>16. CASE RevealOpens
  <2>1. /\ loop'.at = "audit" => loop'.record.kind = "reveal"
        /\ loop'.answer # "Signed" /\ loop'.at \in {"audit", "reply"}
    <3>1. CASE VaultHasSecret
      <4>1. ToAudit("reveal", 0, "RootSecret")
        BY <1>16, <3>1 DEF RevealOpens
      <4>2. QED
        BY <1>0, <4>1 DEF ToAudit, Loops, Record
    <3>2. CASE ~VaultHasSecret
      BY <1>0, <1>16, <3>2 DEF RevealOpens, ToReply, Loops
    <3>3. QED
      BY <3>1, <3>2
  <2>2. QED
    <3>1. UNCHANGED <<status, gen, parent, queue, released, ledger, pipe>>
      BY <1>16 DEF RevealOpens, procVars, pipeVars
    <3>2. status = "running" /\ loop.at = "open"
      BY <1>16 DEF RevealOpens
    <3>3. QED
      BY <1>0, <2>1, <3>1, <3>2, LoopStep DEF VerdictKinds
<1>17. CASE LoopAppends
  <2>1. CASE loop.record.kind \in VerdictKinds
    BY <1>17, <2>1, RecordSafe
  <2>2. CASE loop.record.kind \notin VerdictKinds
    <3>1. SameVerdicts /\ NoSecondVerdict'
      BY <1>0, <1>17, <2>2, OtherRecord DEF LoopAppends, VerdictInv, Loops
    <3>2. loop.answer # "Signed" /\ loop'.answer # "Signed" /\ loop'.at = "reply"
      BY <1>0, <1>17, <2>2 DEF LoopAppends, VerdictInv, LoopHolds, VerdictKinds, Loops
    <3>3. UNCHANGED <<status, gen, parent, queue, released, pipe>>
      BY <1>17 DEF LoopAppends, procVars, pipeVars
    <3>4. LoopHolds' /\ NothingLeft'
      BY <1>17, <3>2, <3>3 DEF LoopAppends, VerdictInv, LoopHolds, NothingLeft
    <3>5. QED
      BY <1>17, <2>2, <3>1, <3>2, <3>3, <3>4, QuietStep
         DEF Auditing, Sending, VerdictKinds, Record
  <2>3. QED
    BY <2>1, <2>2
<1>18. CASE LoopAppendThrows
  <2>1. CASE loop.record.kind = "reveal"
    <3>1. loop.answer # "Signed" /\ loop'.answer = "Err" /\ loop'.record.kind = "revealbad"
          /\ loop'.at = "audit"
      <4>1. loop.answer # "Signed"
        BY <1>18, <2>1 DEF LoopAppendThrows, VerdictInv, LoopHolds
      <4>2. ToAudit("revealbad", 0, "Err")
        BY <1>18, <2>1 DEF LoopAppendThrows
      <4>3. QED
        BY <1>0, <4>1, <4>2 DEF ToAudit, Loops, Record
    <3>2. QED
      <4>1. UNCHANGED <<status, gen, parent, queue, released, ledger, pipe>>
        BY <1>18, <2>1 DEF LoopAppendThrows, procVars, pipeVars
      <4>2. status = "running"
        BY <1>18 DEF LoopAppendThrows
      <4>3. QED
        BY <2>1, <3>1, <4>1, <4>2, LoopStep DEF VerdictKinds
  <2>2. CASE loop.record.kind # "reveal"
    BY <1>18, <2>2, EndsSafe DEF LoopAppendThrows
  <2>3. QED
    BY <2>1, <2>2
<1>19. CASE LoopReply
  BY <1>19, ReplySafe
<1>20. QED
  BY <1>1, <1>2, <1>3, <1>4, <1>5, <1>6, <1>7, <1>8, <1>9, <1>10, <1>11, <1>12, <1>13,
     <1>14, <1>15, <1>16, <1>17, <1>18, <1>19 DEF LoopNext

LEMMA PipeVerdict == TypeOK /\ VerdictInv /\ PipeNext => VerdictInv'
<1> SUFFICES ASSUME TypeOK, VerdictInv, PipeNext PROVE VerdictInv'
  OBVIOUS
<1>0. /\ pipe.at = "audit" => pipe.record.kind \in {"submit", "badmac"}
      /\ pipe \in Pipes
  BY DEF VerdictInv, LoopHolds, TypeOK, PipeOK
<1>1. CASE Connect \/ HangUp \/ FirstWait
  <2>1. pipe' = pipe \/ (status = "running" /\ pipe'.at # "audit")
    BY <1>0, <1>1 DEF Connect, HangUp, FirstWait, Pipes
  <2>2. UNCHANGED <<procVars, loopVars, queue, ledger, released>>
    BY <1>1 DEF Connect, HangUp, FirstWait
  <2>3. QED
    BY <1>0, <2>1, <2>2, ElsewhereStep, SameLedger DEF VerdictInv, procVars, loopVars
<1>2. ASSUME NEW payload \in Payload, NEW provenance \in Origins,
             Submit(payload, provenance)
      PROVE  VerdictInv'
  BY <1>2, SubmitSafe
<1>3. CASE SubmitBadMac
  BY <1>3, ElsewhereStep, SameLedger
     DEF SubmitBadMac, Serving, VerdictInv, Record, procVars, loopVars
<1>4. CASE PipeAppends
  <2>1. SameVerdicts /\ NoSecondVerdict'
    BY <1>0, <1>4, OtherRecord DEF PipeAppends, VerdictInv, Pipes, VerdictKinds
  <2>2. pipe'.at = "reply"
    BY <1>0, <1>4 DEF PipeAppends, Pipes
  <2>3. QED
    BY <1>4, <2>1, <2>2, ElsewhereStep DEF PipeAppends, procVars, loopVars
<1>5. CASE PipeAppendThrows
  BY <1>5, EndsSafe DEF PipeAppendThrows
<1>6. CASE PipeReply
  BY <1>6, ElsewhereStep, SameLedger
     DEF PipeReply, QuietPipe, VerdictInv, procVars, loopVars
<1>7. QED
  BY <1>1, <1>2, <1>3, <1>4, <1>5, <1>6 DEF PipeNext

LEMMA WatchVerdict == TypeOK /\ VerdictInv /\ WatchNext => VerdictInv'
<1> SUFFICES ASSUME TypeOK, VerdictInv, WatchNext PROVE VerdictInv'
  OBVIOUS
<1>1. CASE SessionLocks \/ WatchWipes
  BY <1>1, ElsewhereStep, SameLedger
     DEF SessionLocks, WatchWipes, VerdictInv, LoopHolds, procVars, loopVars, pipeVars
<1>2. CASE WatchAppends
  <2>1. Record("autolock", gen, 0) \in Records /\ Record("autolock", gen, 0).kind = "autolock"
    BY RecordType, KeydAssumption DEF KeydAssumption, Kinds, TypeOK, ProcOK, Record
  <2>2. SameVerdicts /\ NoSecondVerdict'
    BY <1>2, <2>1, OtherRecord DEF WatchAppends, VerdictInv, VerdictKinds
  <2>3. QED
    BY <1>2, <2>2, ElsewhereStep
       DEF WatchAppends, VerdictInv, LoopHolds, procVars, loopVars, pipeVars
<1>3. CASE WatchAppendThrows
  BY <1>3, EndsSafe DEF WatchAppendThrows
<1>4. QED
  BY <1>1, <1>2, <1>3 DEF WatchNext

LEMMA VerdictAlways == Spec => []VerdictInv
<1>1. TypeOK /\ VerdictInv /\ UNCHANGED vars => VerdictInv'
  BY ElsewhereStep, SameLedger
     DEF VerdictInv, LoopHolds, vars, procVars, loopVars, pipeVars
<1>2. TypeOK /\ VerdictInv /\ [Next]_vars => VerdictInv'
  BY <1>1, ProcVerdict, HostVerdict, LoopVerdict, PipeVerdict, WatchVerdict DEF Next
<1>3. QED
  BY InitVerdict, TypeCorrect, <1>2, PTL DEF Spec

-----------------------------------------------------------------------------
(* Theorems *)

\* No proposal is ever signed twice, and a signature that left the child has its
\* approval on the ledger, through crashes, restarts and dying parents.
THEOREM SignedOnce == Spec => []SignedOnceAndRecorded
<1>1. VerdictInv => SignedOnceAndRecorded
  BY DEF VerdictInv, SameStory, SignedOnceAndRecorded
<1>2. QED
  BY VerdictAlways, <1>1, PTL

\* Between two frames of a living parent, approved in the queue, recorded on the
\* ledger and signed on the channel are one and the same.
THEOREM SignIsApproveIsAudit == Spec => []SignApproveAudit
<1>1. TypeOK /\ VerdictInv => SignApproveAudit
  <2> SUFFICES ASSUME TypeOK, VerdictInv, status = "running", parent, loop.at = "recv",
                      NEW id \in 1 .. Len(queue)
               PROVE  /\ queue[id].state = "approved" <=> Written("approve", <<gen, id>>)
                      /\ Written("approve", <<gen, id>>) <=> released[<<gen, id>>] = 1
    BY DEF SignApproveAudit
  <2>1. <<gen, id>> \in Names
    BY KeydAssumption DEF KeydAssumption, TypeOK, ProcOK, QueueOK, Names, Gens, Ids
  <2>2. SameStory(<<gen, id>>) /\ StateOf(id) = queue[id].state
    BY <2>1 DEF VerdictInv, StateOf
  <2>3. QED
    BY <2>2 DEF SameStory, Auditing, Sending
<1>2. QED
  BY TypeCorrect, VerdictAlways, <1>1, PTL

\* The ledger never holds two verdicts on one proposal, and those it holds agree
\* with the queue.
THEOREM OneVerdict == Spec => []OneVerdictRecord
<1>1. TypeOK /\ VerdictInv => OneVerdictRecord
  <2> SUFFICES ASSUME TypeOK, VerdictInv, NEW id \in 1 .. Len(queue)
               PROVE  /\ Written("approve", <<gen, id>>) => queue[id].state = "approved"
                      /\ Written("deny", <<gen, id>>) => queue[id].state = "denied"
    BY DEF OneVerdictRecord, VerdictInv
  <2>1. status = "running"
    BY DEF VerdictInv, NothingLeft
  <2>2. <<gen, id>> \in Names
    BY <2>1, KeydAssumption DEF KeydAssumption, TypeOK, ProcOK, QueueOK, Names, Gens, Ids
  <2>3. SameStory(<<gen, id>>) /\ StateOf(id) = queue[id].state
    BY <2>2 DEF VerdictInv, StateOf
  <2>4. QED
    BY <2>1, <2>3 DEF SameStory
<1>2. QED
  BY TypeCorrect, VerdictAlways, <1>1, PTL

-----------------------------------------------------------------------------
(* The passphrase meter *)

LEMMA MeterStep == TypeOK /\ MeterInv /\ [Next]_vars => MeterInv'
<1> SUFFICES ASSUME TypeOK, MeterInv, [Next]_vars PROVE MeterInv'
  OBVIOUS
<1> USE DEF MeterInv
<1>0. /\ badPass \in Nat /\ freeMisses \in Nat /\ kPassThrottleAfter \in Nat
      /\ loop \in Loops /\ Idle.at = "recv"
  BY KeydAssumption DEF KeydAssumption, TypeOK, LoopOK, Idle
<1>1. ASSUME NEW how, Ends(how) PROVE MeterInv'
  BY <1>0, <1>1 DEF Ends
<1>2. CASE ProcNext
  <2>1. CASE Spawn
    BY <1>0, <2>1 DEF Spawn, Idle
  <2>2. CASE StartPlane
    BY <1>0, <2>2 DEF StartPlane, Loops
  <2>3. CASE ParentDies
    BY <2>3 DEF ParentDies, loopVars
  <2>4. QED
    BY <1>1, <1>2, <2>1, <2>2, <2>3 DEF ProcNext, NameTaken, Killed
<1>3. CASE HostNext \/ PipeNext \/ WatchNext
  <2>1. (loopVars' = loopVars /\ freeMisses' = freeMisses) \/ \E how : Ends(how)
    BY <1>3 DEF HostNext, Receive, Send, PipeNext, Connect, HangUp, FirstWait, Submit, SubmitBadMac,
       PipeAppends, PipeAppendThrows, PipeReply, WatchNext, SessionLocks, WatchWipes,
       WatchAppends, WatchAppendThrows
  <2>2. QED
    BY <1>1, <2>1 DEF loopVars
<1>4. CASE LoopNext
  <2>1. CASE LoopHello \/ LoopParentGone \/ LoopLock \/ LoopShutdown \/ LoopRead
    BY <1>0, <1>1, <2>1
       DEF LoopHello, LoopParentGone, LoopLock, LoopShutdown, LoopRead, loopVars
  <2>2. CASE LoopDeny
    BY <1>0, <2>2 DEF LoopDeny, Idle
  <2>3. CASE LoopTakePass
    <3>1. loop'.at = "open" => ~MustStall
      BY <2>3 DEF LoopTakePass, Idle
    <3>2. QED
      BY <1>0, <2>3, <3>1 DEF LoopTakePass, MustStall
  <2>4. CASE LoopStall
    <3>1. loop'.stalled
      BY <1>0, <2>4 DEF LoopStall, Loops
    <3>2. QED
      BY <2>4, <3>1 DEF LoopStall
  <2>5. CASE Miss /\ loop.at = "open" /\ loop'.at # "open"
    BY <1>0, <2>5 DEF Miss
  <2>6. CASE Hit /\ loop'.at # "open"
    BY <1>0, <2>6 DEF Hit
  <2>7. CASE UnlockOpens \/ UnlockMisses
    BY <1>0, <2>5, <2>6, <2>7 DEF UnlockOpens, UnlockMisses, Opening, At
  <2>8. CASE ApproveMisses \/ ApproveOpens
    <3>1. loop'.at # "open"
      BY <1>0, <2>8 DEF ApproveMisses, ApproveOpens, ToAudit, Loops
    <3>2. QED
      BY <2>5, <2>6, <2>8, <3>1 DEF ApproveMisses, ApproveOpens, Opening, At
  <2>9. CASE RevealMisses \/ RevealOpens
    <3>1. loop'.at # "open"
      <4>1. CASE RevealMisses
        BY <1>0, <4>1 DEF RevealMisses, ToAudit, Loops
      <4>2. CASE RevealOpens /\ VaultHasSecret
        BY <1>0, <4>2 DEF RevealOpens, ToAudit, Loops
      <4>3. CASE RevealOpens /\ ~VaultHasSecret
        BY <1>0, <4>3 DEF RevealOpens, ToReply, Loops
      <4>4. QED
        BY <2>9, <4>1, <4>2, <4>3
    <3>2. QED
      BY <2>5, <2>6, <2>9, <3>1 DEF RevealMisses, RevealOpens, Opening, At
  <2>10. CASE ApproveSigns \/ ApproveResolves \/ LoopAppends \/ LoopReply
    <3>1. badPass' = badPass /\ freeMisses' = freeMisses
      BY <2>10 DEF ApproveSigns, ApproveResolves, LoopAppends, LoopReply
    <3>2. loop'.at # "open"
      <4>1. CASE ApproveSigns
        <5>1. \/ ToReply("Err")
              \/ ToAudit("signfail", loop.frame.id, "Err")
              \/ loop' = [loop EXCEPT !.at = "resolve"]
          BY <4>1 DEF ApproveSigns
        <5>2. QED
          BY <1>0, <5>1 DEF ToReply, ToAudit, Loops
      <4>2. CASE ApproveResolves
        <5>1. ToAudit("approve", loop.frame.id, "Signed")
          BY <4>2 DEF ApproveResolves
        <5>2. QED
          BY <1>0, <5>1 DEF ToAudit, Loops
      <4>3. CASE LoopAppends \/ LoopReply
        BY <1>0, <4>3 DEF LoopAppends, LoopReply, Loops
      <4>4. QED
        BY <2>10, <4>1, <4>2, <4>3
    <3>3. QED
      BY <3>1, <3>2
  <2>11. CASE LoopAppendThrows
    <3>1. CASE loop.record.kind = "reveal"
      <4>1. ToAudit("revealbad", 0, "Err")
        BY <2>11, <3>1 DEF LoopAppendThrows
      <4>2. loop'.at # "open"
        BY <1>0, <4>1 DEF ToAudit, Loops
      <4>3. QED
        BY <1>0, <2>11, <3>1, <4>2 DEF LoopAppendThrows
    <3>2. CASE loop.record.kind # "reveal"
      BY <1>1, <2>11, <3>2 DEF LoopAppendThrows
    <3>3. QED
      BY <3>1, <3>2
  <2>12. QED
    BY <1>4, <2>1, <2>2, <2>3, <2>4, <2>7, <2>8, <2>9, <2>10, <2>11 DEF LoopNext
<1>5. CASE UNCHANGED vars
  BY <1>5 DEF vars, loopVars
<1>6. QED
  BY <1>2, <1>3, <1>4, <1>5 DEF Next

\* Whatever mixture of Unlock, Approve and Reveal guesses, no more than
\* kPassThrottleAfter of them in a row cost no sleep.
THEOREM GuessesArePaid == Spec => []FreeGuesses
<1>1. Init => MeterInv
  BY KeydAssumption DEF KeydAssumption, Init, MeterInv, Idle
<1>2. MeterInv => FreeGuesses
  BY DEF MeterInv, FreeGuesses
<1>3. QED
  BY TypeCorrect, MeterStep, <1>1, <1>2, PTL DEF Spec

-----------------------------------------------------------------------------
(* The autolock *)

LEMMA AutolockStep == TypeOK /\ AutolockInv /\ [Next]_vars => AutolockInv'
<1> SUFFICES ASSUME TypeOK, AutolockInv, [Next]_vars PROVE AutolockInv'
  OBVIOUS
<1> USE DEF AutolockInv
<1>0. events \in Nat /\ due \in Nat /\ opened.at \in Nat
  BY KeydAssumption DEF KeydAssumption, TypeOK, WatchOK, PastOK
<1>1. ASSUME NEW how, Ends(how) PROVE AutolockInv'
  BY <1>1 DEF Ends
<1>2. CASE ProcNext
  BY <1>1, <1>2
     DEF ProcNext, Spawn, StartPlane, NameTaken, ParentDies, Killed, procVars, watchVars
<1>3. CASE HostNext
  BY <1>3 DEF HostNext, Receive, Send, procVars, watchVars
<1>4. CASE LoopNext
  <2>1. CASE UnlockOpens
    <3>1. events' = events /\ due' = due /\ opened'.at = events /\ status' = "running"
      BY <2>1 DEF UnlockOpens, Opening, At, procVars, watchVars
    <3>2. QED
      BY <1>0, <3>1
  <2>2. CASE LoopLock \/ UnlockMisses
    BY <2>2 DEF LoopLock, UnlockMisses, procVars, watchVars
  <2>3. CASE \E how : Ends(how)
    BY <1>1, <2>3
  <2>4. CASE UNCHANGED <<status, wallet, opened, events, due>>
    BY <2>4
  <2>5. QED
    BY <1>4, <2>1, <2>2, <2>3, <2>4
       DEF LoopNext, LoopHello, LoopParentGone, LoopShutdown, LoopRead, LoopDeny,
           LoopTakePass, LoopStall, ApproveMisses, ApproveOpens, ApproveSigns,
           ApproveResolves, RevealMisses, RevealOpens, LoopAppends, LoopAppendThrows,
           LoopReply, procVars, watchVars
<1>5. CASE PipeNext
  <2>1. CASE PipeAppendThrows
    BY <1>1, <2>1 DEF PipeAppendThrows
  <2>2. CASE ~PipeAppendThrows
    <3>1. UNCHANGED <<status, wallet, opened, events, due>>
      BY <1>5, <2>2 DEF PipeNext, Connect, HangUp, FirstWait, Submit, SubmitBadMac, PipeAppends,
         PipeReply, procVars, watchVars
    <3>2. QED
      BY <3>1
  <2>3. QED
    BY <2>1, <2>2
<1>6. CASE WatchNext
  <2>1. CASE SessionLocks
    BY <1>0, <2>1 DEF SessionLocks, procVars
  <2>2. CASE WatchWipes
    BY <2>2 DEF WatchWipes
  <2>3. CASE WatchAppends
    BY <2>3 DEF WatchAppends, procVars
  <2>4. CASE WatchAppendThrows
    BY <1>1, <2>4 DEF WatchAppendThrows
  <2>5. QED
    BY <1>6, <2>1, <2>2, <2>3, <2>4 DEF WatchNext
<1>7. CASE UNCHANGED vars
  BY <1>7 DEF vars, procVars, watchVars
<1>8. QED
  BY <1>2, <1>3, <1>4, <1>5, <1>6, <1>7 DEF Next

\* Once the watcher has handled every session lock and suspend, an open wallet
\* is one that was put there after the last of them.
THEOREM AutolockWorks == Spec => []AutolockWipes
<1>1. Init => AutolockInv
  BY DEF Init, AutolockInv
<1>2. TypeOK /\ AutolockInv => AutolockWipes
  <2> SUFFICES ASSUME TypeOK, AutolockInv, wallet, due = 0 PROVE opened.at = events
    BY DEF AutolockWipes
  <2>1. events \in Nat /\ opened.at \in Nat
    BY KeydAssumption DEF KeydAssumption, TypeOK, WatchOK, PastOK
  <2>2. QED
    BY <2>1 DEF AutolockInv
<1>3. QED
  BY TypeCorrect, AutolockStep, <1>1, <1>2, PTL DEF Spec

-----------------------------------------------------------------------------
(* Accepted submissions *)

\* A step that leaves the ledger and what was accepted alone, or adds to them.
LEMMA AcceptKept ==
  ASSUME TypeOK, AcceptInv, accepted' = accepted,
         \/ ledger' = ledger
         \/ \E r \in Records : ledger' = Append(ledger, r),
         \/ pipe' = pipe /\ gen' = gen
         \/ pipe'.at \notin {"audit", "reply"}
  PROVE  AcceptInv'
<1>1. \A p : Written("submit", p) => Written("submit", p)'
  <2>1. CASE ledger' = ledger
    BY <2>1 DEF Written
  <2>2. CASE \E r \in Records : ledger' = Append(ledger, r)
    BY <2>2, WrittenAppend DEF TypeOK, PastOK
  <2>3. QED
    BY <2>1, <2>2
<1>2. AcceptedIsRecorded'
  BY <1>1 DEF AcceptInv, AcceptedIsRecorded
<1>3. QED
  BY <1>1, <1>2 DEF AcceptInv

LEMMA AcceptStep == TypeOK /\ VerdictInv /\ AcceptInv /\ [Next]_vars => AcceptInv'
<1> SUFFICES ASSUME TypeOK, VerdictInv, AcceptInv, [Next]_vars PROVE AcceptInv'
  OBVIOUS
<1>1. ASSUME NEW how, Ends(how) PROVE AcceptInv'
  BY <1>1, AcceptKept DEF Ends, QuietPipe
<1>2. ASSUME UNCHANGED <<ledger, accepted, pipe, gen>> PROVE AcceptInv'
  BY <1>2, AcceptKept
<1>3. CASE ProcNext
  <2>1. CASE Spawn
    BY <2>1, AcceptKept DEF Spawn, pipeVars, VerdictInv, NothingLeft, QuietPipe
  <2>2. CASE StartPlane
    BY <2>2, AcceptKept DEF StartPlane, QuietPipe
  <2>3. CASE NameTaken \/ Killed
    BY <1>1, <2>3 DEF NameTaken, Killed
  <2>4. CASE ParentDies
    BY <1>2, <2>4 DEF ParentDies, pipeVars
  <2>5. QED
    BY <1>3, <2>1, <2>2, <2>3, <2>4 DEF ProcNext
<1>4. CASE HostNext
  BY <1>2, <1>4 DEF HostNext, Receive, Send, procVars, pipeVars
<1>5. CASE LoopNext
  <2>1. CASE LoopAppends
    BY <2>1, AcceptKept DEF LoopAppends, procVars, pipeVars, TypeOK, LoopOK, Loops
  <2>2. CASE \E how : Ends(how)
    BY <1>1, <2>2
  <2>3. CASE UNCHANGED <<ledger, accepted, pipe, gen>>
    BY <1>2, <2>3
  <2>4. QED
    BY <1>5, <2>1, <2>2, <2>3
       DEF LoopNext, LoopHello, LoopParentGone, LoopLock, LoopShutdown, LoopRead,
           LoopDeny, LoopTakePass, LoopStall, UnlockOpens, UnlockMisses,
           ApproveMisses, ApproveOpens, ApproveSigns, ApproveResolves,
           RevealMisses, RevealOpens, LoopAppendThrows, LoopReply, procVars, pipeVars
<1>6. CASE PipeNext
  <2>0. pipe \in Pipes /\ ledger \in Seq(Records)
    BY DEF TypeOK, PipeOK, PastOK
  <2>1. CASE Connect
    BY <1>2, <2>1 DEF Connect, procVars
  <2>2. CASE HangUp \/ FirstWait
    <3>1. pipe' = pipe \/ pipe'.at \in {"left", "ended", "read"}
      BY <2>0, <2>2 DEF HangUp, FirstWait, Pipes
    <3>2. UNCHANGED <<ledger, accepted, gen>>
      BY <2>2 DEF HangUp, FirstWait, procVars
    <3>3. QED
      BY <3>1, <3>2, AcceptKept
  <2>3. ASSUME NEW payload \in Payload, NEW provenance \in Origins,
               Submit(payload, provenance)
        PROVE  AcceptInv'
    <3>1. UNCHANGED <<ledger, accepted, gen>>
      BY <2>3 DEF Submit, procVars
    <3>2. pipe'.at = "audit" /\ pipe'.record = Record("submit", gen, pipe'.id)
      BY <2>3 DEF Submit
    <3>3. QED
      BY <3>1, <3>2 DEF AcceptInv, AcceptedIsRecorded, Written
  <2>4. CASE SubmitBadMac
    <3>1. UNCHANGED <<ledger, accepted, gen>>
      BY <2>4 DEF SubmitBadMac, procVars
    <3>2. pipe'.at = "audit" /\ pipe'.id = 0
      BY <2>4 DEF SubmitBadMac
    <3>3. QED
      BY <3>1, <3>2 DEF AcceptInv, AcceptedIsRecorded, Written
  <2>5. CASE PipeAppends
    <3>1. /\ pipe.at = "audit" /\ pipe.record \in Records
          /\ pipe'.at = "reply" /\ pipe'.id = pipe.id
          /\ ledger' = Append(ledger, pipe.record)
          /\ UNCHANGED <<accepted, gen>>
      BY <2>0, <2>5 DEF PipeAppends, procVars, Pipes
    <3>2. \A p : Written("submit", p)' <=>
                   Written("submit", p) \/ pipe.record = Record("submit", p[1], p[2])
      BY <2>0, <3>1, WrittenAppend
    <3>3. pipe.id # 0 => Written("submit", <<gen, pipe.id>>)'
      BY <3>1, <3>2 DEF AcceptInv
    <3>4. AcceptedIsRecorded'
      BY <3>1, <3>2 DEF AcceptInv, AcceptedIsRecorded
    <3>5. QED
      BY <3>1, <3>3, <3>4 DEF AcceptInv
  <2>6. CASE PipeAppendThrows
    BY <1>1, <2>6 DEF PipeAppendThrows
  <2>7. CASE PipeReply
    <3>1. /\ pipe.at = "reply" /\ pipe' = QuietPipe
          /\ ledger' = ledger
          /\ \A p \in accepted' :
               p \in accepted \/ (pipe.id # 0 /\ p = <<gen, pipe.id>>)
      BY <2>7 DEF PipeReply
    <3>2. \A p \in accepted' : Written("submit", p)
      BY <3>1 DEF AcceptInv, AcceptedIsRecorded
    <3>3. AcceptedIsRecorded'
      BY <3>1, <3>2 DEF AcceptedIsRecorded, Written
    <3>4. QED
      BY <3>1, <3>3 DEF AcceptInv, QuietPipe
  <2>8. QED
    BY <1>6, <2>1, <2>2, <2>3, <2>4, <2>5, <2>6, <2>7 DEF PipeNext
<1>7. CASE WatchNext
  <2>1. CASE WatchAppends
    <3>1. Record("autolock", gen, 0) \in Records
      BY RecordType, KeydAssumption
         DEF KeydAssumption, TypeOK, ProcOK, Kinds
    <3>2. QED
      BY <2>1, <3>1, AcceptKept DEF WatchAppends, procVars, pipeVars
  <2>2. CASE WatchAppendThrows
    BY <1>1, <2>2 DEF WatchAppendThrows
  <2>3. CASE SessionLocks \/ WatchWipes
    BY <1>2, <2>3 DEF SessionLocks, WatchWipes, procVars, pipeVars
  <2>4. QED
    BY <1>7, <2>1, <2>2, <2>3 DEF WatchNext
<1>8. CASE UNCHANGED vars
  BY <1>2, <1>8 DEF vars, procVars, pipeVars
<1>9. QED
  BY <1>3, <1>4, <1>5, <1>6, <1>7, <1>8 DEF Next

\* A client that was told its submission is accepted finds it on the ledger,
\* whatever was killed or failed in between.
THEOREM AcceptedOnRecord == Spec => []AcceptedIsRecorded
<1>1. Init => AcceptInv
  BY DEF Init, AcceptInv, AcceptedIsRecorded, QuietPipe
<1>2. AcceptInv => AcceptedIsRecorded
  BY DEF AcceptInv
<1>3. QED
  BY TypeCorrect, VerdictAlways, AcceptStep, <1>1, <1>2, PTL DEF Spec

(***************************************************************************)
(* Keyd implements SigningAuthority, and its verdicts are final.           *)
(***************************************************************************)

Hows == {"exit0", "exit3", "terminated", "killed"}

Quiet == UNCHANGED <<status, gen, queue, ledger, released>>

\* A verdict falls on a pending proposal of a running child.
Resolves(id, verdict) ==
  /\ status = "running" /\ CanResolve(id) /\ Resolve(id, verdict)
  /\ UNCHANGED <<status, gen, ledger, released>>

\* A record is appended: the loop's, or one that is no verdict.
Appends(r) ==
  /\ ledger' = Append(ledger, r)
  /\ (status = "running" /\ loop.at = "audit" /\ r = loop.record) \/ r.kind \notin VerdictKinds
  /\ UNCHANGED <<status, gen, queue, released>>

Moves ==
  \/ Quiet
  \/ \E how \in Hows : Ends(how)
  \/ Spawn
  \/ \E payload \in Payload, provenance \in Origins : Submit(payload, provenance)
  \/ \E id \in Nat, verdict \in {"approved", "denied"} : Resolves(id, verdict)
  \/ \E r \in Records : Appends(r)
  \/ LoopReply

-----------------------------------------------------------------------------
(* The kinds of steps *)

LEMMA LoopMoves == TypeOK /\ LoopNext => Moves
<1> SUFFICES ASSUME TypeOK, LoopNext PROVE Moves
  OBVIOUS
<1>1. /\ loop.frame.id \in Nat /\ request.id \in Nat
      /\ loop.record \in Records
  <2>1. loop.frame \in Frames /\ request \in Frames /\ loop.record \in Records
    BY DEF TypeOK, LoopOK, HostOK, Loops
  <2>2. QED
    BY <2>1 DEF Frames
<1>2. CASE LoopHello \/ LoopParentGone \/ LoopLock \/ LoopShutdown \/ LoopRead
  BY <1>2 DEF LoopHello, LoopParentGone, LoopLock, LoopShutdown, LoopRead, Moves,
     Hows, Quiet, procVars
<1>3. CASE LoopDeny
  <2>1. CASE CanResolve(request.id)
    <3>1. Resolves(request.id, "denied")
      BY <1>3, <2>1 DEF LoopDeny, Resolves, procVars, Got, At
    <3>2. QED
      BY <1>1, <3>1 DEF Moves
  <2>2. CASE ~CanResolve(request.id)
    BY <1>3, <2>2 DEF LoopDeny, Moves, Quiet, procVars
  <2>3. QED
    BY <2>1, <2>2
<1>4. CASE LoopTakePass \/ LoopStall \/ UnlockOpens \/ UnlockMisses
  BY <1>4 DEF LoopTakePass, LoopStall, UnlockOpens, UnlockMisses, Moves, Quiet,
     procVars
<1>5. CASE ApproveMisses \/ ApproveOpens \/ ApproveSigns
  BY <1>5 DEF ApproveMisses, ApproveOpens, ApproveSigns, Moves, Quiet, procVars
<1>6. CASE ApproveResolves
  BY <1>1, <1>6 DEF ApproveResolves, At, Moves, Quiet, Resolves, procVars
<1>7. CASE RevealMisses \/ RevealOpens
  BY <1>7 DEF RevealMisses, RevealOpens, Moves, Quiet, procVars
<1>8. CASE LoopAppends
  BY <1>1, <1>8 DEF LoopAppends, At, Appends, Moves, procVars
<1>9. CASE LoopAppendThrows
  BY <1>9 DEF LoopAppendThrows, Moves, Hows, Quiet, procVars
<1>10. CASE LoopReply
  BY <1>10 DEF Moves
<1>11. QED
  BY <1>2, <1>3, <1>4, <1>5, <1>6, <1>7, <1>8, <1>9, <1>10 DEF LoopNext

LEMMA StepMoves == TypeOK /\ VerdictInv /\ [Next]_vars => Moves
<1> SUFFICES ASSUME TypeOK, VerdictInv, [Next]_vars PROVE Moves
  OBVIOUS
<1>1. CASE ProcNext
  <2>1. CASE Spawn
    BY <2>1 DEF Moves
  <2>2. CASE StartPlane \/ ParentDies
    BY <2>2 DEF StartPlane, ParentDies, Moves, Quiet, procVars
  <2>3. CASE NameTaken \/ Killed
    <3>1. \E how \in Hows : Ends(how)
      BY <2>3 DEF NameTaken, Killed, Hows
    <3>2. QED
      BY <3>1 DEF Moves
  <2>4. QED
    BY <1>1, <2>1, <2>2, <2>3 DEF ProcNext
<1>2. CASE HostNext
  BY <1>2 DEF HostNext, Receive, Send, Moves, Quiet, procVars
<1>3. CASE LoopNext
  BY <1>3, LoopMoves
<1>4. CASE PipeNext
  <2>1. CASE PipeAppends
    <3>1. pipe.record \in Records /\ pipe.record.kind \notin VerdictKinds
      BY <2>1 DEF PipeAppends, TypeOK, PipeOK, Pipes, VerdictInv, LoopHolds,
         VerdictKinds
    <3>2. QED
      BY <2>1, <3>1 DEF PipeAppends, Appends, Moves, procVars
  <2>2. CASE Connect \/ HangUp \/ FirstWait \/ SubmitBadMac \/ PipeReply
    BY <2>2 DEF Connect, HangUp, FirstWait, SubmitBadMac, PipeReply, Moves, Quiet,
       procVars
  <2>3. CASE PipeAppendThrows
    BY <2>3 DEF PipeAppendThrows, Moves, Hows
  <2>4. CASE \E payload \in Payload, provenance \in Origins :
               Submit(payload, provenance)
    BY <2>4 DEF Moves
  <2>5. QED
    BY <1>4, <2>1, <2>2, <2>3, <2>4 DEF PipeNext
<1>5. CASE WatchNext
  <2>1. CASE WatchAppends
    <3>1. Record("autolock", gen, 0) \in Records
      BY KeydAssumption
         DEF KeydAssumption, TypeOK, ProcOK, Record, Records, Kinds
    <3>2. Record("autolock", gen, 0).kind \notin VerdictKinds
      BY DEF Record, VerdictKinds
    <3>3. QED
      BY <2>1, <3>1, <3>2 DEF WatchAppends, Appends, Moves, procVars
  <2>2. CASE SessionLocks \/ WatchWipes
    BY <2>2 DEF SessionLocks, WatchWipes, Moves, Quiet, procVars
  <2>3. CASE WatchAppendThrows
    BY <2>3 DEF WatchAppendThrows, Moves, Hows
  <2>4. QED
    BY <1>5, <2>1, <2>2, <2>3 DEF WatchNext
<1>6. CASE UNCHANGED vars
  BY <1>6 DEF vars, procVars, Moves, Quiet
<1>7. QED
  BY <1>1, <1>2, <1>3, <1>4, <1>5, <1>6 DEF Next

-----------------------------------------------------------------------------
(* Verdicts are final *)

\* One proposal is resolved, the others stay what they are.
LEMMA ResolveKeeps ==
  ASSUME TypeOK, NEW id \in Nat, NEW verdict \in {"approved", "denied"},
         Resolves(id, verdict)
  PROVE  /\ id \in 1 .. Len(queue) /\ queue[id].state = "pending"
         /\ Len(queue') = Len(queue)
         /\ queue'[id] = [queue[id] EXCEPT !.state = verdict]
         /\ queue[id] \in Proposal
         /\ \A i \in 1 .. Len(queue) : i # id => queue'[i] = queue[i]
<1>1. id \in 1 .. Len(queue) /\ queue[id].state = "pending"
  BY DEF Resolves, CanResolve, StateOf
<1>2. queue \in Seq(Proposal) /\ queue[id] \in Proposal
  BY <1>1 DEF TypeOK, QueueOK
<1>3. [queue[id] EXCEPT !.state = verdict] \in Proposal
  BY <1>2 DEF Proposal
<1>4. queue' = [queue EXCEPT ![id] = [queue[id] EXCEPT !.state = verdict]]
  BY DEF Resolves, Resolve
<1>5. QED
  BY <1>1, <1>2, <1>3, <1>4, ExceptSeq

\* While a child lives a verdict is final, and what was submitted stays in its
\* place with its payload and its provenance, for any number of proposals.
THEOREM FinalVerdicts == Spec => VerdictsAreFinal
<1> DEFINE Kept(i) ==
      /\ i <= Len(queue')
      /\ queue'[i].payload = queue[i].payload
      /\ queue'[i].provenance = queue[i].provenance
      /\ queue[i].state # "pending" => queue'[i].state = queue[i].state
<1>1. ASSUME TypeOK, VerdictInv, [Next]_vars, status' = "running",
             NEW i \in 1 .. Len(queue)
      PROVE  Kept(i)
  <2>1. queue \in Seq(Proposal) /\ Len(queue) \in Nat /\ i <= Len(queue)
    BY <1>1 DEF TypeOK, QueueOK
  <2>2. CASE queue' = queue
    BY <2>1, <2>2
  <2>3. CASE \E payload \in Payload, provenance \in Origins :
               Submit(payload, provenance)
    <3>1. Len(queue') = Len(queue) + 1 /\ queue'[i] = queue[i]
      BY <2>1, <2>3 DEF Submit
    <3>2. QED
      BY <2>1, <3>1
  <2>4. CASE \E id \in Nat, verdict \in {"approved", "denied"} :
               Resolves(id, verdict)
    <3>1. PICK id \in Nat, verdict \in {"approved", "denied"} : Resolves(id, verdict)
      BY <2>4
    <3>2. CASE i = id
      <4>1. /\ queue[i] \in Proposal /\ queue[i].state = "pending"
            /\ queue'[i] = [queue[i] EXCEPT !.state = verdict]
            /\ Len(queue') = Len(queue)
        BY <1>1, <3>1, <3>2, ResolveKeeps
      <4>2. QED
        BY <2>1, <4>1 DEF Proposal
    <3>3. CASE i # id
      <4>1. queue'[i] = queue[i] /\ Len(queue') = Len(queue)
        BY <1>1, <3>1, <3>3, ResolveKeeps
      <4>2. QED
        BY <2>1, <4>1
    <3>4. QED
      BY <3>2, <3>3
  <2>5. CASE \E how \in Hows : Ends(how)
    BY <1>1, <2>5 DEF Ends, Hows
  <2>6. QED
    BY <1>1, <2>2, <2>3, <2>4, <2>5, StepMoves
       DEF Moves, Quiet, Spawn, Appends, LoopReply
<1>2. TypeOK /\ VerdictInv /\ [Next]_vars =>
        [status' = "running" =>
           \A id \in 1 .. Len(queue) :
             /\ id <= Len(queue')
             /\ queue'[id].payload = queue[id].payload
             /\ queue'[id].provenance = queue[id].provenance
             /\ queue[id].state # "pending" => queue'[id].state = queue[id].state]_vars
  BY <1>1
<1>3. QED
  BY <1>2, TypeCorrect, VerdictAlways, PTL DEF Spec, VerdictsAreFinal

-----------------------------------------------------------------------------
(* The refinement *)

LEMMA VerdictIs ==
  ASSUME gen \in Nat, NEW p \in Names
  PROVE  /\ p[1] < gen \/ (p[1] = gen /\ status # "running") =>
              VerdictOf(p) = "lost"
         /\ p[1] > gen => VerdictOf(p) = "none"
         /\ p[1] = gen /\ status = "running" =>
              VerdictOf(p) = IF p[2] <= Len(queue) THEN queue[p[2]].state ELSE "none"
<1>1. p[1] \in Nat
  BY DEF Names, Gens
<1>2. CASE p[1] < gen \/ (p[1] = gen /\ status # "running")
  BY <1>1, <1>2 DEF VerdictOf
<1>3. CASE p[1] > gen
  BY <1>1, <1>3 DEF VerdictOf
<1>4. CASE p[1] = gen /\ status = "running"
  BY <1>1, <1>4 DEF VerdictOf
<1>5. QED
  BY <1>1, <1>2, <1>3, <1>4

LEMMA VerdictWillBe ==
  ASSUME gen' \in Nat, NEW p \in Names
  PROVE  /\ p[1] < gen' \/ (p[1] = gen' /\ status' # "running") =>
              VerdictOf(p)' = "lost"
         /\ p[1] > gen' => VerdictOf(p)' = "none"
         /\ p[1] = gen' /\ status' = "running" =>
              VerdictOf(p)' = IF p[2] <= Len(queue') THEN queue'[p[2]].state
                              ELSE "none"
<1>1. p[1] \in Nat
  BY DEF Names, Gens
<1>2. CASE p[1] < gen' \/ (p[1] = gen' /\ status' # "running")
  BY <1>1, <1>2 DEF VerdictOf
<1>3. CASE p[1] > gen'
  BY <1>1, <1>3 DEF VerdictOf
<1>4. CASE p[1] = gen' /\ status' = "running"
  BY <1>1, <1>4 DEF VerdictOf
<1>5. QED
  BY <1>1, <1>2, <1>3, <1>4

\* A step that the promise does not see.
LEMMA Unseen ==
  ASSUME \A p \in Names : VerdictOf(p)' = VerdictOf(p),
         \A p \in Names : Written("approve", p)' <=> Written("approve", p),
         released' = released
  PROVE  UNCHANGED Authority!avars
<1>1. [p \in Names |-> VerdictOf(p)]' = [p \in Names |-> VerdictOf(p)]
  OBVIOUS
<1>2. {p \in Names : Written("approve", p)}' = {p \in Names : Written("approve", p)}
  OBVIOUS
<1>3. QED
  BY <1>1, <1>2 DEF Authority!avars

\* A step that gives one proposal another verdict.
LEMMA OneVerdictMoves ==
  ASSUME NEW p \in Names, \A q \in Names : q # p => VerdictOf(q)' = VerdictOf(q),
         \A q \in Names : Written("approve", q)' <=> Written("approve", q),
         released' = released,
         \/ VerdictOf(p) = "none" /\ VerdictOf(p)' = "pending"
         \/ VerdictOf(p) = "pending" /\ VerdictOf(p)' \in {"approved", "denied"}
  PROVE  Authority!Next
<1> DEFINE vf == [q \in Names |-> VerdictOf(q)]
<1>1. vf' = [vf EXCEPT ![p] = VerdictOf(p)'] /\ vf[p] = VerdictOf(p)
  OBVIOUS
<1>2. {q \in Names : Written("approve", q)}' = {q \in Names : Written("approve", q)}
  OBVIOUS
<1>3. CASE VerdictOf(p) = "none" /\ VerdictOf(p)' = "pending"
  <2>1. Authority!Submit(p)
    BY <1>1, <1>2, <1>3 DEF Authority!Submit
  <2>2. QED
    BY <2>1 DEF Authority!Next
<1>4. CASE VerdictOf(p) = "pending" /\ VerdictOf(p)' \in {"approved", "denied"}
  <2>1. Authority!Decide(p, VerdictOf(p)')
    BY <1>1, <1>2, <1>4 DEF Authority!Decide
  <2>2. QED
    BY <1>4, <2>1 DEF Authority!Next
<1>5. QED
  BY <1>3, <1>4

LEMMA EndsRefines ==
  ASSUME TypeOK, TypeOK', NEW how \in Hows, Ends(how)
  PROVE  Authority!Next
<1> DEFINE S == {p \in Names : p[1] = gen}
           vf == [p \in Names |-> VerdictOf(p)]
<1>1. gen \in Nat /\ gen' = gen /\ status' # "running"
  BY KeydAssumption DEF KeydAssumption, TypeOK, ProcOK, Ends, Hows
<1>2. ASSUME NEW p \in Names
      PROVE  VerdictOf(p)' = IF p \in S THEN "lost" ELSE vf[p]
  <2>1. p[1] \in Nat
    BY DEF Names, Gens
  <2>2. QED
    BY <1>1, <2>1, VerdictIs, VerdictWillBe
<1>3. vf' = [p \in Names |-> IF p \in S THEN "lost" ELSE vf[p]]
  BY <1>2
<1>4. {p \in Names : Written("approve", p)}' = {p \in Names : Written("approve", p)}
  BY DEF Ends, Written
<1>5. Authority!Lose(S)
  BY <1>3, <1>4 DEF Authority!Lose, Ends
<1>6. S \in SUBSET Names
  OBVIOUS
<1>7. QED
  BY <1>5, <1>6 DEF Authority!Next

LEMMA SpawnRefines ==
  ASSUME TypeOK, TypeOK', VerdictInv, Spawn
  PROVE  UNCHANGED Authority!avars
<1>1. /\ gen \in Nat /\ gen' = gen + 1 /\ status # "running"
      /\ status' = "running" /\ Len(queue') = 0
  BY KeydAssumption
     DEF KeydAssumption, TypeOK, ProcOK, Spawn, VerdictInv, NothingLeft
<1>2. ASSUME NEW p \in Names PROVE VerdictOf(p)' = VerdictOf(p)
  <2>1. p[1] \in Nat /\ p[2] \in Nat /\ p[2] > 0
    BY KeydAssumption DEF KeydAssumption, Names, Gens, Ids
  <2>2. QED
    BY <1>1, <2>1, VerdictIs, VerdictWillBe
<1>3. \A p \in Names : Written("approve", p)' <=> Written("approve", p)
  BY DEF Spawn, Written
<1>4. QED
  BY <1>2, <1>3, Unseen DEF Spawn

LEMMA SubmitRefines ==
  ASSUME TypeOK, TypeOK', NEW payload \in Payload, NEW provenance \in Origins,
         Submit(payload, provenance)
  PROVE  Authority!Next
<1>1. /\ gen \in Nat /\ gen' = gen /\ gen \in Gens
      /\ status = "running" /\ status' = "running"
  BY KeydAssumption
     DEF KeydAssumption, TypeOK, ProcOK, Submit, Serving, Gens, procVars
<1>2. /\ Len(queue) \in Nat /\ Len(queue) < MaxProposals
      /\ Len(queue') = Len(queue) + 1
      /\ queue'[Len(queue) + 1].state = "pending"
      /\ \A i \in 1 .. Len(queue) : queue'[i] = queue[i]
  BY DEF TypeOK, QueueOK, Submit
<1>3. PICK p \in Names : p = <<gen, Len(queue) + 1>>
  <2>1. Len(queue) + 1 \in Ids
    BY <1>2, KeydAssumption DEF KeydAssumption, Ids
  <2>2. <<gen, Len(queue) + 1>> \in Names
    BY <1>1, <2>1 DEF Names
  <2>3. QED
    BY <2>2
<1>4. VerdictOf(p) = "none" /\ VerdictOf(p)' = "pending"
  <2>1. p[1] = gen /\ p[2] = Len(queue) + 1
    BY <1>3
  <2>2. VerdictOf(p) = "none"
    BY <1>1, <1>2, <2>1, VerdictIs
  <2>3. VerdictOf(p)' = "pending"
    BY <1>1, <1>2, <2>1, VerdictWillBe
  <2>4. QED
    BY <2>2, <2>3
<1>5. ASSUME NEW q \in Names, q # p PROVE VerdictOf(q)' = VerdictOf(q)
  <2>1. q[1] \in Nat /\ q[2] \in Nat /\ q[2] > 0 /\ q = <<q[1], q[2]>>
    BY KeydAssumption DEF KeydAssumption, Names, Gens, Ids
  <2>2. q[1] = gen => q[2] # Len(queue) + 1
    BY <1>3, <1>5, <2>1
  <2>3. QED
    BY <1>1, <1>2, <2>1, <2>2, VerdictIs, VerdictWillBe
<1>6. /\ \A q \in Names : Written("approve", q)' <=> Written("approve", q)
      /\ released' = released
  BY DEF Submit, Written
<1>7. QED
  BY <1>4, <1>5, <1>6, OneVerdictMoves

LEMMA ResolveRefines ==
  ASSUME TypeOK, TypeOK', NEW id \in Nat, NEW verdict \in {"approved", "denied"},
         Resolves(id, verdict)
  PROVE  Authority!Next
<1>1. /\ gen \in Nat /\ gen' = gen /\ gen \in Gens
      /\ status = "running" /\ status' = "running"
  BY KeydAssumption DEF KeydAssumption, TypeOK, ProcOK, Resolves, Gens
<1>2. /\ id \in 1 .. Len(queue) /\ Len(queue) \in Nat /\ Len(queue) <= MaxProposals
      /\ queue[id].state = "pending" /\ Len(queue') = Len(queue)
      /\ \A i \in 1 .. Len(queue) : i # id => queue'[i] = queue[i]
  <2>1. Len(queue) \in Nat /\ Len(queue) <= MaxProposals
    BY DEF TypeOK, QueueOK
  <2>2. QED
    BY <2>1, ResolveKeeps
<1>3. queue'[id].state = verdict
  BY ResolveKeeps DEF Proposal
<1>4. PICK p \in Names : p = <<gen, id>>
  <2>1. id \in Ids
    BY <1>2, KeydAssumption DEF KeydAssumption, Ids
  <2>2. <<gen, id>> \in Names
    BY <1>1, <2>1 DEF Names
  <2>3. QED
    BY <2>2
<1>5. VerdictOf(p) = "pending" /\ VerdictOf(p)' = verdict
  <2>1. p[1] = gen /\ p[2] = id
    BY <1>4
  <2>2. VerdictOf(p) = "pending"
    BY <1>1, <1>2, <2>1, VerdictIs
  <2>3. VerdictOf(p)' = verdict
    BY <1>1, <1>2, <1>3, <2>1, VerdictWillBe
  <2>4. QED
    BY <2>2, <2>3
<1>6. ASSUME NEW q \in Names, q # p PROVE VerdictOf(q)' = VerdictOf(q)
  <2>1. q[1] \in Nat /\ q[2] \in Nat /\ q[2] > 0 /\ q = <<q[1], q[2]>>
    BY KeydAssumption DEF KeydAssumption, Names, Gens, Ids
  <2>2. q[1] = gen => q[2] # id
    BY <1>4, <1>6, <2>1
  <2>3. QED
    BY <1>1, <1>2, <2>1, <2>2, VerdictIs, VerdictWillBe
<1>7. /\ \A q \in Names : Written("approve", q)' <=> Written("approve", q)
      /\ released' = released
  BY DEF Resolves, Written
<1>8. QED
  BY <1>5, <1>6, <1>7, OneVerdictMoves

\* Where neither the queue nor the life of the child changes, no verdict does.
LEMMA SameVerdict ==
  ASSUME UNCHANGED <<status, gen, queue>>
  PROVE  \A p \in Names : VerdictOf(p)' = VerdictOf(p)
  BY DEF VerdictOf

LEMMA AppendRefines ==
  ASSUME TypeOK, VerdictInv, NEW r \in Records, Appends(r)
  PROVE  [Authority!Next]_(Authority!avars)
<1> DEFINE vf == [q \in Names |-> VerdictOf(q)]
           rc == {q \in Names : Written("approve", q)}
<1>1. ledger \in Seq(Records) /\ ledger' = Append(ledger, r) /\ released' = released
  BY DEF TypeOK, PastOK, Appends
<1>2. \A q \in Names : VerdictOf(q)' = VerdictOf(q)
  BY SameVerdict DEF Appends
<1>3. \A q : Written("approve", q)' <=>
               Written("approve", q) \/ r = Record("approve", q[1], q[2])
  BY <1>1, WrittenAppend
<1>4. CASE r.kind # "approve"
  <2>1. \A q : r # Record("approve", q[1], q[2])
    BY <1>4 DEF Record
  <2>2. QED
    BY <1>1, <1>2, <1>3, <2>1, Unseen
<1>5. CASE r.kind = "approve"
  <2> DEFINE id == loop.frame.id
             p == <<gen, id>>
  <2>1. status = "running" /\ loop.at = "audit" /\ r = loop.record
    BY <1>5 DEF Appends, VerdictKinds
  <2>2. /\ r = Record("approve", gen, id) /\ StateOf(id) = "approved"
        /\ ~Written("approve", p)
    BY <1>5, <2>1 DEF VerdictInv, LoopHolds, Clean
  <2>3. id \in 1 .. Len(queue) /\ queue[id].state = "approved"
    BY <2>2 DEF StateOf
  <2>4. p \in Names /\ gen \in Nat
    BY <2>1, <2>3, KeydAssumption
       DEF KeydAssumption, TypeOK, ProcOK, QueueOK, Names, Gens, Ids
  <2>5. VerdictOf(p) = "approved"
    <3>1. p[1] = gen /\ p[2] = id /\ id <= Len(queue)
      BY <2>3
    <3>2. QED
      BY <2>1, <2>3, <2>4, <3>1, VerdictIs
  <2>6. rc' = rc \cup {p}
    <3>1. ASSUME NEW q \in Names
          PROVE  r = Record("approve", q[1], q[2]) <=> q = p
      <4>1. q = <<q[1], q[2]>>
        BY DEF Names
      <4>2. QED
        BY <2>2, <4>1 DEF Record
    <3>2. QED
      BY <1>3, <2>4, <3>1
  <2>7. vf' = vf /\ vf[p] = "approved" /\ p \notin rc
    BY <1>2, <2>2, <2>4, <2>5
  <2>8. Authority!PutOnRecord(p)
    BY <1>1, <2>6, <2>7 DEF Authority!PutOnRecord
  <2>9. QED
    BY <2>4, <2>8 DEF Authority!Next
<1>6. QED
  BY <1>4, <1>5

LEMMA ReplyRefines ==
  ASSUME TypeOK, VerdictInv, LoopReply
  PROVE  [Authority!Next]_(Authority!avars)
<1> DEFINE vf == [q \in Names |-> VerdictOf(q)]
           rc == {q \in Names : Written("approve", q)}
<1>1. /\ \A q \in Names : VerdictOf(q)' = VerdictOf(q)
      /\ \A q \in Names : Written("approve", q)' <=> Written("approve", q)
  BY SameVerdict DEF LoopReply, Written, procVars
<1>2. CASE ~(parent /\ loop.answer = "Signed")
  BY <1>1, <1>2, Unseen DEF LoopReply
<1>3. CASE parent /\ loop.answer = "Signed"
  <2> DEFINE id == loop.frame.id
             p == <<gen, id>>
  <2>1. status = "running" /\ loop.at = "reply"
    BY DEF LoopReply, At
  <2>2. StateOf(id) = "approved" /\ Written("approve", p) /\ released[p] = 0
    BY <1>3, <2>1 DEF VerdictInv, LoopHolds
  <2>3. id \in 1 .. Len(queue) /\ queue[id].state = "approved"
    BY <2>2 DEF StateOf
  <2>4. p \in Names /\ gen \in Nat
    BY <2>1, <2>3, KeydAssumption
       DEF KeydAssumption, TypeOK, ProcOK, QueueOK, Names, Gens, Ids
  <2>5. VerdictOf(p) = "approved"
    <3>1. p[1] = gen /\ p[2] = id /\ id <= Len(queue)
      BY <2>3
    <3>2. QED
      BY <2>1, <2>3, <2>4, <3>1, VerdictIs
  <2>6. released' = [released EXCEPT ![p] = 1]
    BY <1>3, <2>2 DEF LoopReply, TypeOK, PastOK
  <2>7. vf' = vf /\ vf[p] = "approved" /\ rc' = rc /\ p \in rc
    BY <1>1, <2>2, <2>4, <2>5
  <2>8. Authority!GiveOut(p)
    BY <2>2, <2>6, <2>7 DEF Authority!GiveOut
  <2>9. QED
    BY <2>4, <2>8 DEF Authority!Next
<1>4. QED
  BY <1>2, <1>3

LEMMA StepRefines ==
  TypeOK /\ TypeOK' /\ VerdictInv /\ [Next]_vars =>
    [Authority!Next]_(Authority!avars)
<1> SUFFICES ASSUME TypeOK, TypeOK', VerdictInv, [Next]_vars
             PROVE  [Authority!Next]_(Authority!avars)
  OBVIOUS
<1>1. CASE Quiet
  <2>1. \A p \in Names : Written("approve", p)' <=> Written("approve", p)
    BY <1>1 DEF Quiet, Written
  <2>2. QED
    BY <1>1, <2>1, SameVerdict, Unseen DEF Quiet
<1>2. CASE \E how \in Hows : Ends(how)
  BY <1>2, EndsRefines
<1>3. CASE Spawn
  BY <1>3, SpawnRefines
<1>4. CASE \E payload \in Payload, provenance \in Origins :
             Submit(payload, provenance)
  BY <1>4, SubmitRefines
<1>5. CASE \E id \in Nat, verdict \in {"approved", "denied"} : Resolves(id, verdict)
  BY <1>5, ResolveRefines
<1>6. CASE \E r \in Records : Appends(r)
  BY <1>6, AppendRefines
<1>7. CASE LoopReply
  BY <1>7, ReplyRefines
<1>8. QED
  BY <1>1, <1>2, <1>3, <1>4, <1>5, <1>6, <1>7, StepMoves DEF Moves

LEMMA InitRefines == Init => Authority!Init
<1> SUFFICES ASSUME Init PROVE Authority!Init
  OBVIOUS
<1>1. ASSUME NEW p \in Names PROVE VerdictOf(p) = "none" /\ ~Written("approve", p)
  <2>1. p[1] > 0 /\ gen = 0 /\ gen \in Nat
    BY KeydAssumption DEF KeydAssumption, Init, Names, Gens
  <2>2. QED
    BY <2>1, VerdictIs DEF Init, Written
<1>2. QED
  BY <1>1 DEF Init, Authority!Init

\* Keyd implements SigningAuthority for every number of proposals, children and
\* frames: whatever thread, restart or failure a step is of, the promise allows it.
THEOREM PromiseKept == Spec => KeepsThePromise
<1>1. TypeOK /\ VerdictInv /\ [Next]_vars /\ TypeOK' =>
        [Authority!Next]_(Authority!avars)
  BY StepRefines
<1>2. QED
  BY <1>1, InitRefines, TypeCorrect, VerdictAlways, PTL
     DEF Spec, KeepsThePromise, Authority!Spec
=============================================================================
